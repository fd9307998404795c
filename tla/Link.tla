---------------------------------- MODULE Link ----------------------------------
(***************************************************************************)
(* What loop() receives, byte by byte: the port's buffer, read as words    *)
(* (op_get_message) or decoded as frames (rurp_communication_read_data).   *)
(* Bytes arrive between any two steps of the loop; those that find the     *)
(* buffer full are lost.  (How the PY32 makes such a buffer of a ring is   *)
(* UsbCdc's subject; on an AVR the core library has one.)                  *)
(*                                                                         *)
(* What a command does is left to Session: here an accepted frame begins   *)
(* one, whose messages op_get_message reads until one is DONE or an error  *)
(* or the watchdog ends it.  Each message keeps the loop away for a while  *)
(* (the chip's work, the reply).                                           *)
(***************************************************************************)
EXTENDS Cobs

CONSTANTS
  Messages,      \* the byte strings the host sends: words, frames, fragments
  Payloads,      \* the payloads of its frames
  O, K, D, N, E, Hash,  \* 'O', 'K', 'D', 'N', 'E' and '#'
  BufferSize,    \* DATA_BUFFER_SIZE
  Timeout,       \* TIMEOUT_MS: the decoder's, the drain's and the watchdog's, in ticks
  Capacity,      \* bytes the port's receive buffer holds
  MaxFaults      \* bound: times the host is killed or bytes find the buffer full

ASSUME LinkAssumption ==
  /\ Messages \subseteq Seq(Nat) /\ Payloads \subseteq Seq(Nat)
  /\ BufferSize \in Nat \ {0} /\ Capacity \in Nat \ {0}
  /\ Timeout \in Nat \ {0} /\ MaxFaults \in Nat

VARIABLES
  mode,     \* handle.cmd: "idle" or "command"
  pc,       \* where the main loop is
  dec,      \* the decoder's locals
  wait,     \* wait_on_silence of _drain_to_delimiter
  verdict,  \* what the decoder returns: "payload", or why there is none
  waited,   \* ticks since the timer in use was started
  rx,       \* the port's receive buffer
  faults,   \* bound: faults so far
  wire,     \* bytes the host has sent and the port has not received
  heard,    \* ghost: the last byte, if this call has read its message up to it
  ends      \* ghost: delimiters this call has read

decoder == <<dec, wait, verdict, heard, ends>>
loopVars == <<mode, pc, waited, decoder>>
port == <<wire, faults>>
vars == <<rx, loopVars, port>>

\* A byte of a message m under way: its value v, and its place i in m.
Bytes(m) == [i \in 1..Len(m) |-> [v |-> m[i], m |-> m, i |-> i]]
NoByte == [v |-> 0, m |-> <<>>, i |-> 0]

\* The byte that follows the ones heard, or the first of a message.
Lost == [NoByte EXCEPT !.i = -1]
Follow(h, b) ==
  IF h.i + 1 = b.i /\ (h = NoByte \/ h.m = b.m) THEN b ELSE Lost

Available == rx # <<>>
Unread == [i \in 1..Len(rx) |-> rx[i].v]
RxByte == Head(rx)
RxAdvance(n) == rx' = SubSeq(rx, n + 1, Len(rx))

\* The caller's cap: one byte less in idle, for the terminating NUL.
Cap == IF mode = "idle" THEN BufferSize - 1 ELSE BufferSize

-----------------------------------------------------------------------------
(* In idle, any byte starts the decoder. *)
StartDecoder ==
  /\ pc' = "take" /\ dec' = StartDecoding /\ waited' = 0 /\ ends' = 0
  /\ UNCHANGED <<wait, verdict>>

PollIdle ==
  /\ pc = "poll" /\ mode = "idle" /\ Available
  /\ StartDecoder /\ heard' = NoByte
  /\ UNCHANGED <<rx, mode, port>>

(* In a command, op_get_message: one pass of its loop.  With too few bytes for a
   word it leaves them where they are and says INCOMPLETE. *)
Polling == pc = "poll" /\ mode = "command" /\ Available

Starts(word) == IsPrefix(word, Unread)

\* A message: the loop turns to it.
Message(n) ==
  /\ RxAdvance(n)
  /\ pc' = "away"
  /\ UNCHANGED <<waited, decoder, port>>

\* Bytes that are no message are dropped, and the loop looks again.
Junk(n) == RxAdvance(n) /\ UNCHANGED <<loopVars, port>>

WordOk == Polling /\ Starts(<<O, K>>) /\ Message(2) /\ UNCHANGED mode
WordDone == Polling /\ Starts(<<D, O, N, E>>) /\ Message(4) /\ mode' = "idle"

StrayO == Polling /\ Starts(<<O>>) /\ ~Starts(<<O, K>>) /\ Len(rx) >= 2 /\ Junk(1)

\* What goes on like "DONE" is dropped, the first byte that does not stays.
StrayD ==
  /\ Polling /\ Starts(<<D>>) /\ ~Starts(<<D, O, N, E>>) /\ Len(rx) >= 4
  /\ \E n \in 1..3 :
       /\ Starts(SubSeq(<<D, O, N, E>>, 1, n))
       /\ ~Starts(SubSeq(<<D, O, N, E>>, 1, n + 1))
       /\ Junk(n)

DataMarker ==
  /\ Polling /\ Starts(<<Hash>>)
  /\ RxAdvance(1) /\ StartDecoder /\ heard' = Follow(NoByte, RxByte)
  /\ UNCHANGED <<mode, port>>

OtherByte == Polling /\ RxByte.v \notin {O, D, Hash} /\ Junk(1)

\* OP_MSG_INCOMPLETE: the caller polls again a little later.
Incomplete ==
  /\ Polling
  /\ \/ Starts(<<O>>) /\ Len(rx) < 2
     \/ Starts(<<D>>) /\ Len(rx) < 4
  /\ pc' = "incomplete"
  /\ UNCHANGED <<rx, mode, waited, decoder, port>>

PollAgain ==
  /\ pc = "incomplete"
  /\ pc' = "poll"
  /\ UNCHANGED <<rx, mode, waited, decoder, port>>

(* The watchdog ends a command nothing is read for. *)
Watchdog ==
  /\ pc = "poll" /\ mode = "command" /\ waited >= Timeout
  /\ mode' = "idle" /\ pc' = "away"
  /\ UNCHANGED <<rx, waited, decoder, port>>

-----------------------------------------------------------------------------
(* rurp_communication_read_data. *)
Drain(v, w) == pc' = "drain" /\ verdict' = v /\ wait' = w /\ waited' = 0

(* Slip: a delimiter inside a run is drained past, like any other error. *)
DelimiterDrainsOn ==
  /\ RxByte.v = Delimiter /\ ends' = ends + 1
  /\ IF dec.run # 0
     THEN Drain("violation", TRUE)
     ELSE pc' = "returned" /\ verdict' = Finish(dec) /\ UNCHANGED <<wait, waited>>
  /\ UNCHANGED dec

\* The delimiter ends the call, well or not.
DelimiterReturns ==
  /\ RxByte.v = Delimiter /\ ends' = ends + 1
  /\ pc' = "returned" /\ verdict' = Finish(dec)
  /\ UNCHANGED <<dec, wait, waited>>

ByteOverruns ==
  /\ RxByte.v # Delimiter /\ Overruns(dec, Cap)
  /\ Drain("overflow", TRUE)
  /\ UNCHANGED <<dec, ends>>

ByteDecoded ==
  /\ RxByte.v # Delimiter /\ ~Overruns(dec, Cap)
  /\ dec' = DecodeByte(dec, RxByte.v)
  /\ pc' = "take" /\ waited' = 0
  /\ UNCHANGED <<wait, verdict, ends>>

Decode ==
  /\ pc = "take" /\ Available
  /\ RxAdvance(1)
  /\ heard' = Follow(heard, RxByte)
  /\ DelimiterReturns \/ ByteOverruns \/ ByteDecoded
  /\ UNCHANGED <<mode, port>>

(* The line fell silent inside a frame.  Bytes may still come before the drain
   looks, and are drained as far as they go. *)
Silence ==
  /\ pc = "take" /\ ~Available /\ waited >= Timeout
  /\ Drain("silence", FALSE) /\ heard' = Lost
  /\ UNCHANGED <<rx, mode, dec, ends, port>>

(* _drain_to_delimiter *)
DrainByte ==
  /\ pc = "drain" /\ Available
  /\ RxAdvance(1)
  /\ heard' = Follow(heard, RxByte)
  /\ IF RxByte.v = Delimiter
     THEN pc' = "returned" /\ ends' = ends + 1 /\ UNCHANGED waited
     ELSE waited' = 0 /\ UNCHANGED <<pc, ends>>
  /\ UNCHANGED <<mode, dec, wait, verdict, port>>

\* Slip: the drain that follows an overflow has no deadline.
DrainWaits ==
  /\ pc = "drain" /\ ~Available /\ ~wait
  /\ pc' = "returned"
  /\ UNCHANGED <<rx, mode, waited, decoder, port>>

DrainEnds ==
  /\ pc = "drain" /\ ~Available
  /\ ~wait \/ waited >= Timeout
  /\ pc' = "returned"
  /\ UNCHANGED <<rx, mode, waited, decoder, port>>

(* The caller: a payload with at least a byte in it is a command in idle, any
   payload is data in a command; the rest is an error.  The decoder's locals die. *)
Act ==
  /\ pc = "returned"
  /\ mode' = IF verdict = "payload" /\ (mode = "command" \/ dec.out # <<>>)
             THEN "command" ELSE "idle"
  /\ pc' = "away"
  /\ dec' = StartDecoding /\ wait' = FALSE /\ verdict' = "none"
  /\ heard' = NoByte /\ ends' = 0
  /\ UNCHANGED <<rx, waited, port>>

\* The loop is back, and has reset the watchdog.
Back ==
  /\ pc = "away"
  /\ pc' = "poll" /\ waited' = 0
  /\ UNCHANGED <<rx, mode, decoder, port>>

-----------------------------------------------------------------------------
\* The main loop waits for a byte, before its deadline.
Waiting ==
  /\ waited < Timeout
  /\ \/ pc = "poll" /\ mode = "command" /\ ~Available
     \/ pc = "incomplete"
     \/ pc = "take" /\ ~Available
     \/ pc = "drain" /\ ~Available /\ wait

Tick == Waiting /\ waited' = waited + 1 /\ UNCHANGED <<rx, mode, pc, decoder, port>>

MainLoop ==
  \/ PollIdle \/ WordOk \/ WordDone \/ StrayO \/ StrayD \/ DataMarker \/ OtherByte
  \/ Incomplete \/ PollAgain \/ Watchdog \/ Decode \/ Silence \/ DrainByte \/ DrainEnds \/ Act \/ Back

(* The host and the port, external.  The host sends one message at a time, at any
   time; its program may be killed with half of one out. *)
HostSends ==
  /\ wire = <<>>
  /\ \E m \in Messages : wire' = Bytes(m)
  /\ UNCHANGED <<rx, loopVars, faults>>

Fault == faults < MaxFaults /\ faults' = faults + 1

HostStops ==
  /\ wire # <<>> /\ Fault
  /\ wire' = <<>>
  /\ UNCHANGED <<rx, loopVars>>

ByteArrives ==
  /\ wire # <<>> /\ Len(rx) < Capacity
  /\ rx' = Append(rx, Head(wire)) /\ wire' = Tail(wire)
  /\ UNCHANGED <<loopVars, faults>>

\* The rest of a packet that finds the buffer full.
BytesLost ==
  /\ wire # <<>> /\ Len(rx) = Capacity /\ Fault
  /\ \E n \in 1..Len(wire) : wire' = SubSeq(wire, n + 1, Len(wire))
  /\ UNCHANGED <<rx, loopVars>>

Init ==
  /\ rx = <<>>
  /\ mode = "idle" /\ pc = "poll" /\ dec = StartDecoding
  /\ wait = FALSE /\ verdict = "none" /\ waited = 0
  /\ wire = <<>> /\ faults = 0 /\ heard = NoByte /\ ends = 0

Next == MainLoop \/ Tick \/ HostSends \/ HostStops \/ ByteArrives \/ BytesLost

Spec == Init /\ [][Next]_vars

(* The loop runs and time passes; the host owes nothing. *)
FairSpec == Spec /\ WF_vars(MainLoop) /\ WF_vars(Tick)

-----------------------------------------------------------------------------
(* rurp_communication_read_data: nothing is committed beyond the caller's cap, which
   in idle leaves the slot of the terminating NUL. *)
BufferHolds == pc \in {"take", "drain", "returned"} => Len(dec.out) <= Cap

(* What the loop takes for a frame with payload p: in a command it has a '#' first. *)
Frame(p) == IF mode = "command" THEN <<Hash>> \o Encode(p) ELSE Encode(p)

(* A frame that is read from its first byte to its delimiter without a second of
   silence in it, and whose payload fits, is decoded to that payload and never taken
   for too long: however it was cut into packets, and whatever was read, lost or given
   up before it. *)
WholeFramesDecoded ==
  pc = "returned" =>
    \A p \in Payloads :
      heard.m = Frame(p) /\ heard.v = Delimiter /\ Len(p) <= Cap =>
        verdict = "payload" /\ dec.out = p

(* The error invariant of rurp_communication_read_data: a call reads up to and
   including one delimiter, so that the next one starts on a frame boundary - unless
   the line was silent for the whole of a deadline. *)
OneDelimiterPerCall ==
  pc = "returned" =>
    \/ ends = 1
    \/ ends = 0 /\ verdict = "silence"
    \/ ends = 0 /\ verdict = "overflow" /\ waited = Timeout

(* "This must never hang": the loop always gets back to polling, whether a host stops
   within a message or lets its bytes come one by one, unless the host never stops sending.
   (Such a host may keep a drain from ending: it is left out by name.) *)
LoopReturns == []<>(pc = "poll") \/ []<>(wire # <<>>)

(* operation_utils.cpp, op_get_message: "a '#' data frame or an "OK" after a stray 'D'
   is still read".  It does not find the input incomplete with a whole "OK" in it. *)
StrayDIsSkipped ==
  [][Incomplete => \A i \in 1..(Len(rx) - 1) : SubSeq(rx, i, i + 1) # Bytes(<<O, K>>)]_vars
=================================================================================
