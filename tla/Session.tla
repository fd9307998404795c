-------------------------------- MODULE Session --------------------------------
(***************************************************************************)
(* The firmware's main loop and its operation engine.                      *)
(*                                                                         *)
(* loop() takes one command at a time from the serial link, runs it as a   *)
(* sequence INIT - MAIN - END, each phase opened by an ACK of the host,    *)
(* and ends it in command_done(), whatever the outcome.  The host, the     *)
(* passing of time and the firmware interleave at the points where the     *)
(* firmware polls: between two calls of loop(), inside op_wait_for_ack()   *)
(* and while a driver callback owns the bus (on a Uno the serial pins are  *)
(* part of that bus, and what arrives meanwhile is thrown away).           *)
(*                                                                         *)
(* Bytes are abstracted to whole messages: one is in the buffer once its   *)
(* last byte has arrived, and what the firmware makes of the bytes before  *)
(* that is in Link.  The drivers' work inside a callback is one step: it   *)
(* succeeds or fails, and leaves the programming rail on or off.           *)
(***************************************************************************)
EXTENDS Dispatch, Integers, Sequences, FiniteSets

CONSTANTS
  Requests,     \* the command frames a host may send
  BufferSize,   \* DATA_BUFFER_SIZE, in bytes
  AckTimeout,   \* the 1000 ms of op_wait_for_ack, in ticks
  CmdTimeout,   \* TIMEOUT_MS of the loop's watchdog, in ticks
  DrainsRx,     \* TRUE on a board whose UART shares the data bus (Uno)
  Revision0,    \* TRUE on a board that cannot measure its rail
  MaxRx,        \* bound: messages in the buffer
  MaxAnswer     \* a prompt host answers within this many ticks

Request ==
  [cmd : Cmds, protocol : Nat, address : Nat, memSize : Nat, regionEnd : Nat,
   chipId : BOOLEAN, canErase : BOOLEAN, pulseOk : BOOLEAN]

ASSUME SessionAssumption ==
  /\ Requests \subseteq Request
  /\ BufferSize \in Nat \ {0}
  /\ AckTimeout \in Nat \ {0}
  /\ CmdTimeout \in Nat \ {0}
  /\ DrainsRx \in BOOLEAN
  /\ Revision0 \in BOOLEAN
  /\ MaxRx \in Nat \ {0}
  /\ MaxAnswer \in Nat

-----------------------------------------------------------------------------
VARIABLES
  cmd, req,            \* handle.cmd and the fields of the accepted frame
  state, waiting,      \* operation_state: the phase, OPERATION_WAITING_FOR_DATA
  address, dataSize,   \* handle.address (the cursor) and handle.data_size
  pc,                  \* "loop", "ack" (op_wait_for_ack) or "chip" (a callback)
  waited, elapsed,     \* ticks in op_wait_for_ack, ticks since op_reset_timeout
  hv,                  \* a programming voltage is applied
  rx,                  \* messages arrived whole and not read yet
  out, answered, due,  \* last frame sent, whether and how long it waits for an answer
  covered,             \* ghost: addresses programmed or delivered by this command
  acks,                \* ghost: phase ACKs the host gave this command
  doneArrived          \* ghost: a DONE for this command has arrived whole

handle == <<cmd, req, state, waiting, address, dataSize>>
link == <<out, answered, due>>
ghosts == <<covered, acks, doneArrived>>
vars == <<cmd, req, state, waiting, address, dataSize, pc, waited, elapsed, hv, rx,
          out, answered, due, covered, acks, doneArrived>>

-----------------------------------------------------------------------------
(* Messages, as the byte streams of the link parse: the two words, a '#' data
   frame that decodes (possibly to no payload at all) or not, a command frame. *)
Ack == [t |-> "OK"]
Done == [t |-> "DONE"]
BadData == [t |-> "BAD"]
Data(n) == [t |-> "DATA", n |-> n]
Command(r) == [t |-> "CMD", req |-> r]

Message == [t : {"OK", "DONE", "BAD"}] \cup [t : {"DATA"}, n : 0..BufferSize]
             \cup [t : {"CMD"}, req : Requests]

Frames == {"NONE", "READY", "INIT_DONE", "MAIN_DONE", "END_DONE", "REQ_DATA", "CHUNK",
           "VOLTAGE", "REPLY", "ERROR", "ACK_TIMEOUT", "CMD_TIMEOUT"}
ErrorFrames == {"ERROR", "ACK_TIMEOUT", "CMD_TIMEOUT"}

\* A COBS frame ends in the 0x00 delimiter; the two words do not.
HasDelimiter(m) == m.t \notin {"OK", "DONE"}

-----------------------------------------------------------------------------
(* mem_util_operation_end *)
OpEnd(r) == IF r.regionEnd = 0 \/ r.regionEnd > r.memSize THEN r.memSize ELSE r.regionEnd

(* The rules of validate_memory that bear on the transfer: a memory command
   names a device of some size, and its cursor starts inside the device (READ) or
   the write region (WRITE). *)
Decodes(r) ==
  /\ r.cmd \in MemoryCmds => r.memSize # 0
  /\ r.cmd = "READ" => r.address <= r.memSize
  /\ r.cmd = "WRITE" => r.address <= OpEnd(r)

(* configure_memory succeeds: some driver takes the protocol, and the EPROM
   driver accepts the pulse width. *)
Configures(r) ==
  r.cmd \in MemoryCmds => /\ Family(r.protocol) # "none"
                          /\ Family(r.protocol) = "eprom" => r.pulseOk

(* The commands an operation handler refuses before or instead of the engine. *)
Unsupported(r) ==
  \/ ~HasMain(r.protocol, r.cmd)
  \/ r.cmd = "ERASE" /\ ~r.canErase
  \/ r.cmd = "CHIP_ID" /\ ~r.chipId

(* The bytes the read handler fills, cut at the end of the region. *)
ChunkSize(r, a) ==
  LET remaining == OpEnd(r) - a
  IN  IF remaining < BufferSize THEN remaining ELSE BufferSize

-----------------------------------------------------------------------------
Emit(frame) ==
  /\ out' = frame
  /\ answered' = FALSE
  /\ due' = 0

Drained(s) == IF DrainsRx THEN <<>> ELSE s

(* Slip: command_done leaves the regulator as it is. *)
CommandDoneKeepsRail(rest) ==
  /\ cmd' = "IDLE" /\ pc' = "loop" /\ rx' = Drained(rest)
  /\ waited' = 0 /\ elapsed' = 0
  /\ UNCHANGED <<hv, req, state, waiting, address, dataSize, ghosts>>

(* command_done: outputs off, registers zero, back to idle.  rest is what the
   command left unread.  The timers are not looked at in idle. *)
CommandDone(rest) ==
  /\ cmd' = "IDLE"
  /\ hv' = FALSE
  /\ pc' = "loop"
  /\ rx' = Drained(rest)
  /\ waited' = 0
  /\ elapsed' = 0
  /\ UNCHANGED <<req, state, waiting, address, dataSize, ghosts>>

(* An exit that reports an error frame first. *)
Abort(rest, frame) == CommandDone(rest) /\ Emit(frame)

(* A handler's call of loop(), unless the watchdog is first. *)
Running(kind) == pc = "loop" /\ cmd \in kind /\ elapsed < CmdTimeout

-----------------------------------------------------------------------------
(* loop(), cmd = CMD_IDLE: a decoded frame becomes a command
   (init_programmer_framed).  Configuring the driver of a memory command
   switches the bus, so the board may lose what the host sent behind the frame. *)
IdleCommand ==
  /\ pc = "loop" /\ cmd = "IDLE" /\ rx # <<>> /\ Head(rx).t = "CMD"
  /\ LET r == Head(rx).req
     IN IF Decodes(r) /\ Configures(r)
        THEN /\ cmd' = r.cmd
             /\ req' = r
             /\ state' = 0
             /\ waiting' = FALSE
             /\ address' = IF r.cmd \in MemoryCmds THEN r.address ELSE address
             /\ dataSize' = 0  \* the frame's own length, which nothing reads
             /\ rx' = IF r.cmd \in MemoryCmds THEN Drained(Tail(rx)) ELSE Tail(rx)
             /\ elapsed' = 0
             /\ covered' = {}
             /\ acks' = 0
             /\ doneArrived' = \E i \in 1..Len(rx') : rx'[i] = Done
             /\ Emit("READY")
             /\ UNCHANGED <<pc, waited, hv>>
        ELSE Abort(Tail(rx), "ERROR")

(* Anything else is read as a broken COBS frame, which the decoder drains up to
   the next delimiter, or until the line falls silent. *)
IdleGarbage ==
  /\ pc = "loop" /\ cmd = "IDLE" /\ rx # <<>> /\ Head(rx).t # "CMD"
  /\ \/ \E i \in 1..Len(rx) :
          /\ HasDelimiter(rx[i])
          /\ \A j \in 1..(i - 1) : ~HasDelimiter(rx[j])
          /\ rx' = SubSeq(rx, i + 1, Len(rx))
     \/ /\ \A i \in 1..Len(rx) : ~HasDelimiter(rx[i])
        /\ rx' = <<>>
  /\ Emit("ERROR")
  /\ UNCHANGED <<handle, pc, waited, elapsed, hv, ghosts>>

(* Slip: the watchdog spares a voltage reading. *)
WatchdogSparesReadings ==
  /\ pc = "loop" /\ cmd \notin VoltageCmds \cup {"IDLE"} /\ elapsed >= CmdTimeout
  /\ Abort(rx, "CMD_TIMEOUT")

(* The watchdog at the top of loop(). *)
Watchdog ==
  /\ pc = "loop" /\ cmd # "IDLE" /\ elapsed >= CmdTimeout
  /\ Abort(rx, "CMD_TIMEOUT")

(* Commands answered in one call, and the default arm. *)
Query == Running(QueryCmds) /\ Abort(rx, "REPLY")
UnknownCommand == Running({"UNKNOWN"}) /\ Abort(rx, "ERROR")

-----------------------------------------------------------------------------
(* hw_read_voltage: raise the rail and announce it, then one reading per ACK
   until the host says DONE.  Other messages are consumed and ignored. *)
VoltageStart ==
  /\ Running(VoltageCmds) /\ state = 0
  /\ IF Revision0
     THEN Abort(rx, "ERROR")
     ELSE /\ hv' = TRUE
          /\ state' = 1
          /\ rx' = Drained(rx)
          /\ Emit("READY")
          /\ UNCHANGED <<cmd, req, waiting, address, dataSize, pc, waited, elapsed, ghosts>>

VoltageMessage ==
  /\ Running(VoltageCmds) /\ state = 1 /\ rx # <<>>
  /\ LET m == Head(rx) IN
     \/ /\ m = Done
        /\ CommandDone(Tail(rx))
        /\ UNCHANGED link
     \/ /\ m # Done
        /\ rx' = Tail(rx)
        /\ dataSize' = IF m.t = "DATA" THEN m.n ELSE dataSize
        /\ elapsed' = IF m = Ack THEN 0 ELSE elapsed
        /\ \/ m = Ack /\ Emit("VOLTAGE")
           \/ m = BadData /\ Emit("ERROR")
           \/ m \notin {Ack, BadData} /\ UNCHANGED link
        /\ UNCHANGED <<cmd, req, state, waiting, address, pc, waited, hv, ghosts>>

-----------------------------------------------------------------------------
(* op_execute_stateful_operation for the memory commands. *)
Refuse ==
  /\ Running(MemoryCmds) /\ Unsupported(req)
  /\ Abort(rx, "ERROR")

Engine == Running(MemoryCmds) /\ ~Unsupported(req)

StartAckWait == pc' = "ack" /\ waited' = 0

(* INIT, MAIN and END each begin with op_wait_for_ack. *)
AwaitPhaseAck ==
  /\ Engine /\ state \in {0, 2, 4}
  /\ StartAckWait
  /\ UNCHANGED <<handle, elapsed, hv, rx, link, ghosts>>

(* ENDED: the host's last ACK, or anything else that is a message, closes the
   command.  Bytes that are no message are skipped. *)
EndedMessage ==
  /\ Engine /\ state = 6 /\ rx # <<>>
  /\ IF Head(rx).t = "CMD"
     THEN rx' = Tail(rx) /\ UNCHANGED <<handle, pc, waited, elapsed, hv, link, ghosts>>
     ELSE IF Head(rx) = BadData THEN Abort(Tail(rx), "ERROR")
     ELSE CommandDone(Tail(rx)) /\ UNCHANGED link

(* set_operation_to_done *)
MainDone == state' = 4 /\ Emit("MAIN_DONE")

CallMain == pc' = "chip" /\ UNCHANGED <<cmd, req, state, address, waited, elapsed, hv, link, ghosts>>

(* MAIN of a command without a host transfer. *)
SimpleMain ==
  /\ Engine /\ state = 3 /\ cmd \notin {"READ", "WRITE"}
  /\ CallMain /\ UNCHANGED <<waiting, dataSize, rx>>

(* The cursor tests that open both transfer callbacks. *)
CursorPastEnd ==
  /\ Engine /\ state = 3 /\ cmd \in {"READ", "WRITE"} /\ address > OpEnd(req)
  /\ Abort(rx, "ERROR")

CursorAtEnd ==
  /\ Engine /\ state = 3 /\ cmd \in {"READ", "WRITE"} /\ address = OpEnd(req)
  /\ MainDone
  /\ UNCHANGED <<cmd, req, waiting, address, dataSize, pc, waited, elapsed, hv, rx, ghosts>>

(* _process_outgoing_data: read the next chunk from the chip. *)
ReadMain ==
  /\ Engine /\ state = 3 /\ cmd = "READ" /\ address < OpEnd(req)
  /\ CallMain /\ UNCHANGED <<waiting, dataSize, rx>>

(* _process_incoming_data: a message of the host first, a request for data only
   when there is none. *)
InWriteMain == Engine /\ state = 3 /\ cmd = "WRITE" /\ address < OpEnd(req)

(* Slip: the request first, the message after. *)
RequestDataFirst ==
  /\ InWriteMain /\ ~waiting
  /\ waiting' = TRUE
  /\ Emit("REQ_DATA")
  /\ UNCHANGED <<cmd, req, state, address, dataSize, pc, waited, elapsed, hv, rx, ghosts>>

(* op_get_message says OP_MSG_INCOMPLETE: there is no whole message.  Part of one may be
   there, or all of it on the wire, be it the host's DONE. *)
RequestData ==
  /\ InWriteMain /\ rx = <<>> /\ ~waiting
  /\ waiting' = TRUE
  /\ Emit("REQ_DATA")
  /\ UNCHANGED <<cmd, req, state, address, dataSize, pc, waited, elapsed, hv, rx, ghosts>>

(* Slip: bytes that are no message reset the watchdog. *)
JunkResetsWatchdog ==
  /\ InWriteMain /\ rx # <<>> /\ Head(rx).t = "CMD"
  /\ rx' = Tail(rx) /\ elapsed' = 0
  /\ UNCHANGED <<handle, pc, waited, hv, link, ghosts>>

WriteSkipsJunk ==
  /\ InWriteMain /\ rx # <<>> /\ Head(rx).t = "CMD"
  /\ rx' = Tail(rx)
  /\ UNCHANGED <<handle, pc, waited, elapsed, hv, link, ghosts>>

(* Slip: no test of the frame against the region. *)
WriteDataUnchecked ==
  /\ InWriteMain /\ rx # <<>> /\ Head(rx).t = "DATA"
  /\ CallMain /\ waiting' = FALSE /\ dataSize' = Head(rx).n /\ rx' = Tail(rx)

WriteData ==
  /\ InWriteMain /\ rx # <<>> /\ Head(rx).t = "DATA"
  /\ IF Head(rx).n <= OpEnd(req) - address
     THEN /\ CallMain
          /\ waiting' = FALSE
          /\ dataSize' = Head(rx).n
          /\ rx' = Tail(rx)
     ELSE Abort(Tail(rx), "ERROR")

(* Slip: DONE ends any write. *)
WriteDoneAnytime ==
  /\ InWriteMain /\ rx # <<>> /\ Head(rx) = Done
  /\ MainDone /\ waiting' = FALSE /\ rx' = Tail(rx)
  /\ UNCHANGED <<cmd, req, address, dataSize, pc, waited, elapsed, hv, ghosts>>

(* DONE may end a write only when the frame declared no region. *)
WriteDone ==
  /\ InWriteMain /\ rx # <<>> /\ Head(rx) = Done
  /\ IF req.regionEnd # 0
     THEN Abort(Tail(rx), "ERROR")
     ELSE /\ MainDone
          /\ waiting' = FALSE
          /\ rx' = Tail(rx)
          /\ UNCHANGED <<cmd, req, address, dataSize, pc, waited, elapsed, hv, ghosts>>

WriteRefuses ==
  /\ InWriteMain /\ rx # <<>> /\ Head(rx) \in {Ack, BadData}
  /\ Abort(Tail(rx), "ERROR")

-----------------------------------------------------------------------------
(* op_wait_for_ack.  Each poll takes one message; delays between polls are the
   Tick action. *)
InAckWaitLate == pc = "ack" /\ waited <= AckTimeout \* slip: one poll too many

InAckWait == pc = "ack" /\ waited < AckTimeout

(* Slip: the ACK that opened INIT opens MAIN too. *)
InitDoneOpensMain == state' = 3 /\ Emit("INIT_DONE")

InitDone == state' = 2 /\ Emit("INIT_DONE")
EndDone == state' = 6 /\ Emit("END_DONE")

(* The phase the ACK opens: an installed callback runs, a NULL one is done at
   once.  MAIN resets the watchdog. *)
AckOpensPhase ==
  /\ InAckWait /\ state \in {0, 2, 4} /\ rx # <<>> /\ Head(rx) = Ack
  /\ rx' = Tail(rx)
  /\ acks' = acks + 1
  /\ \/ /\ state = 0 /\ HasInit(req.protocol, cmd)
        /\ state' = 1 /\ pc' = "chip" /\ UNCHANGED <<elapsed, link>>
     \/ /\ state = 0 /\ ~HasInit(req.protocol, cmd)
        /\ InitDone /\ pc' = "loop" /\ UNCHANGED elapsed
     \/ /\ state = 2
        /\ state' = 3 /\ pc' = "loop" /\ elapsed' = 0 /\ UNCHANGED link
     \/ /\ state = 4 /\ HasEnd(req.protocol, cmd)
        /\ state' = 5 /\ pc' = "chip" /\ UNCHANGED <<elapsed, link>>
     \/ /\ state = 4 /\ ~HasEnd(req.protocol, cmd)
        /\ EndDone /\ pc' = "loop" /\ UNCHANGED elapsed
  /\ UNCHANGED <<cmd, req, waiting, address, dataSize, waited, hv, covered, doneArrived>>

(* Slip: the read is done one byte early. *)
AckOfChunkEarly ==
  /\ InAckWait /\ state = 3 /\ rx # <<>> /\ Head(rx) = Ack
  /\ rx' = Tail(rx) /\ pc' = "loop" /\ address' = address + dataSize
  /\ IF address' + 1 >= OpEnd(req) THEN MainDone ELSE UNCHANGED <<state, link>>
  /\ UNCHANGED <<cmd, req, waiting, dataSize, waited, elapsed, hv, ghosts>>

(* The host took a chunk of a read: advance the cursor by data_size. *)
AckOfChunk ==
  /\ InAckWait /\ state = 3 /\ rx # <<>> /\ Head(rx) = Ack
  /\ rx' = Tail(rx)
  /\ pc' = "loop"
  /\ address' = address + dataSize
  /\ IF address' >= OpEnd(req) THEN MainDone ELSE UNCHANGED <<state, link>>
  /\ UNCHANGED <<cmd, req, waiting, dataSize, waited, elapsed, hv, ghosts>>

(* A data frame is stored - buffer and data_size - and otherwise ignored. *)
AckWaitIgnores ==
  /\ InAckWait /\ rx # <<>> /\ Head(rx).t \in {"DATA", "CMD"}
  /\ rx' = Tail(rx)
  /\ dataSize' = IF Head(rx).t = "DATA" THEN Head(rx).n ELSE dataSize
  /\ UNCHANGED <<cmd, req, state, waiting, address, pc, waited, elapsed, hv, link, ghosts>>

AckWaitFails ==
  /\ InAckWait /\ rx # <<>> /\ Head(rx) \in {Done, BadData}
  /\ Abort(Tail(rx), "ERROR")

AckTimesOut ==
  /\ pc = "ack" /\ waited >= AckTimeout
  /\ Abort(rx, "ACK_TIMEOUT")

-----------------------------------------------------------------------------
ChipReturnsUntimed == pc = "chip" /\ UNCHANGED elapsed /\ rx' = Drained(rx) \* slip: no reset

(* _execute_operation: the driver's callback returns and the serial link comes
   back.  Success resets the watchdog. *)
ChipReturns ==
  /\ pc = "chip"
  /\ elapsed' = 0
  /\ rx' = Drained(rx)

InitReturns ==
  /\ ChipReturns /\ state = 1
  /\ hv' = InitRaisesHv(req.protocol, cmd)
  /\ InitDone
  /\ pc' = "loop"
  /\ UNCHANGED <<cmd, req, waiting, address, dataSize, waited, ghosts>>

ReadReturns ==
  /\ ChipReturns /\ state = 3 /\ cmd = "READ"
  /\ dataSize' = ChunkSize(req, address)
  /\ covered' = covered \cup address..(address + dataSize' - 1)
  /\ Emit("CHUNK")
  /\ StartAckWait
  /\ UNCHANGED <<cmd, req, state, waiting, address, hv, acks, doneArrived>>

WriteReturns ==
  /\ ChipReturns /\ state = 3 /\ cmd = "WRITE"
  /\ hv' \in IF MainRaisesHv(req.protocol, cmd) THEN {hv, TRUE} ELSE {hv}
  /\ covered' = covered \cup address..(address + dataSize - 1)
  /\ address' = address + dataSize
  /\ pc' = "loop"
  /\ UNCHANGED <<cmd, req, state, waiting, dataSize, waited, link, acks, doneArrived>>

SimpleReturns ==
  /\ ChipReturns /\ state = 3 /\ cmd \notin {"READ", "WRITE"}
  /\ MainDone
  /\ pc' = "loop"
  /\ UNCHANGED <<cmd, req, waiting, address, dataSize, waited, hv, ghosts>>

EndReturns ==
  /\ ChipReturns /\ state = 5
  /\ hv' = FALSE
  /\ EndDone
  /\ pc' = "loop"
  /\ UNCHANGED <<cmd, req, waiting, address, dataSize, waited, ghosts>>

(* RESPONSE_CODE_ERROR, after the driver's own error frame.  A read of the chip
   and the clean-up of END never fail. *)
ChipFails ==
  /\ pc = "chip" /\ state # 5 /\ ~(state = 3 /\ cmd = "READ")
  /\ Abort(rx, "ERROR")

-----------------------------------------------------------------------------
(* Time passes while the firmware polls for a message. *)
Polling ==
  \/ InAckWait
  \/ Engine /\ state = 6
  \/ InWriteMain
  \/ Running(VoltageCmds) /\ state = 1

Tick ==
  /\ Polling
  /\ elapsed' = elapsed + 1
  /\ waited' = IF pc = "ack" THEN waited + 1 ELSE waited
  /\ UNCHANGED <<handle, pc, hv, rx, out, answered, ghosts>>

Firmware ==
  \/ IdleCommand \/ IdleGarbage \/ Watchdog \/ Query \/ UnknownCommand
  \/ VoltageStart \/ VoltageMessage
  \/ Refuse \/ AwaitPhaseAck \/ EndedMessage
  \/ SimpleMain \/ CursorPastEnd \/ CursorAtEnd \/ ReadMain
  \/ RequestData \/ WriteSkipsJunk \/ WriteData \/ WriteDone \/ WriteRefuses
  \/ AckOpensPhase \/ AckOfChunk \/ AckWaitIgnores \/ AckWaitFails \/ AckTimesOut
  \/ InitReturns \/ ReadReturns \/ WriteReturns \/ SimpleReturns \/ EndReturns
  \/ ChipFails

-----------------------------------------------------------------------------
(* The host, external to the firmware: the last byte of its message m arrives. *)
Arrives(m) ==
  /\ Len(rx) < MaxRx
  /\ rx' = Append(rx, m)
  /\ doneArrived' = (doneArrived \/ m = Done)
  /\ UNCHANGED <<handle, pc, waited, elapsed, hv, out, due, covered, acks>>

(* A host that may say anything at any time. *)
FreeHost == \E m \in Message : Arrives(m) /\ UNCHANGED answered

(* A host that speaks only when asked: one new command at a time, and one
   answer for each frame that wants one. *)
HostCommands ==
  /\ cmd = "IDLE" /\ rx = <<>>
  /\ \E r \in Requests : Arrives(Command(r))
  /\ UNCHANGED answered

Asked == ~answered /\ \/ cmd \in MemoryCmds /\ pc # "chip"
                      \/ cmd \in VoltageCmds /\ state = 1

Answers ==
  CASE out \in {"READY", "INIT_DONE", "MAIN_DONE", "END_DONE", "CHUNK"} -> {Ack}
    [] out = "VOLTAGE" -> {Ack, Done}
    [] out = "REQ_DATA" -> {Data(n) : n \in 1..ChunkSize(req, address)}
                             \cup (IF req.regionEnd = 0 THEN {Done} ELSE {})
    [] OTHER -> {}

HostAnswers ==
  /\ Asked
  /\ \E m \in Answers : Arrives(m)
  /\ answered' = TRUE

(* Its answers take at most MaxAnswer ticks; the firmware does what it can do at
   once, so time passes only while it waits for such an answer. *)
PromptTick ==
  /\ rx = <<>> /\ Asked /\ due < MaxAnswer
  /\ Tick
  /\ due' = due + 1

-----------------------------------------------------------------------------
\* The handle is zero at reset.
ZeroRequest ==
  [cmd |-> "IDLE", protocol |-> 0, address |-> 0, memSize |-> 0, regionEnd |-> 0,
   chipId |-> FALSE, canErase |-> FALSE, pulseOk |-> FALSE]

Init ==
  /\ cmd = "IDLE" /\ req = ZeroRequest /\ state = 0 /\ waiting = FALSE
  /\ address = 0 /\ dataSize = 0
  /\ pc = "loop" /\ waited = 0 /\ elapsed = 0 /\ hv = FALSE
  /\ rx = <<>> /\ out = "NONE" /\ answered = FALSE /\ due = 0
  /\ covered = {} /\ acks = 0 /\ doneArrived = FALSE

Next == Firmware \/ (Tick /\ UNCHANGED due) \/ FreeHost
PromptNext == Firmware \/ PromptTick \/ HostCommands \/ HostAnswers

Spec == Init /\ [][Next]_vars

(* loop() is called forever and time passes; the host owes nothing. *)
FairSpec == Spec /\ WF_vars(Firmware) /\ WF_vars(Tick /\ UNCHANGED due)

(* A prompt host does answer. *)
PromptSpec ==
  /\ Init /\ [][PromptNext]_vars
  /\ WF_vars(Firmware) /\ WF_vars(PromptTick) /\ WF_vars(HostAnswers)

-----------------------------------------------------------------------------
FlagsOK ==
  waiting \in BOOLEAN /\ hv \in BOOLEAN /\ answered \in BOOLEAN /\ doneArrived \in BOOLEAN

DataOK ==
  /\ cmd \in Cmds
  /\ req \in Request
  /\ state \in 0..6
  /\ address \in Nat /\ dataSize \in Nat
  /\ pc \in {"loop", "ack", "chip"}
  /\ waited \in 0..AckTimeout
  /\ elapsed \in 0..(CmdTimeout + AckTimeout)
  /\ rx \in Seq(Message)
  /\ out \in Frames /\ due \in Nat
  /\ covered \subseteq Nat /\ acks \in Nat

(* Every variable keeps its type, and the two clocks stay within the two timeouts:
   op_wait_for_ack does not look at the loop's watchdog, and overruns it by no more
   than its own length. *)
TypeOK == DataOK /\ FlagsOK

(* _process_incoming_data: a write whose frame declared a region reports MAIN_DONE
   only when every byte of the region, and no other, has been programmed -
   whatever the host sends, and however the cursor, a stale data_size, a DONE or a
   watchdog fall in between. *)
WriteComplete ==
  cmd = "WRITE" /\ state >= 4 /\ req.regionEnd # 0 =>
    covered = req.address..(OpEnd(req) - 1)

(* mem_util_range_fits and the cut of a chunk: no address outside the command's
   region is programmed, or sent to the host. *)
TransferInBounds ==
  cmd \in {"READ", "WRITE"} => covered \subseteq req.address..(OpEnd(req) - 1)

(* firestarter.cpp, init_programmer_framed: the READY reply is sent before high
   voltage is enabled so that the host can still reject.  A programming voltage is
   on only under a voltage command, or under a memory command whose READY the host
   has acknowledged - and so never in idle, whichever way the command ended. *)
HvNeedsConsent ==
  hv => cmd \in VoltageCmds \/ (cmd \in MemoryCmds /\ acks # 0)

(* eprom_operations.cpp, _process_incoming_data: checking for a message first keeps the
   firmware from requesting data over the host's DONE.  A DONE that has arrived whole is
   never followed by a request, whatever came before it or is read in between.  (The
   comment there says so from the moment the host has sent it; a DONE still on the wire,
   or less than four bytes of it, does not hold the request back on any board.) *)
NoRequestOverDone == [][(~waiting /\ waiting') => ~doneArrived]_vars

(* eprom_operations.cpp, _process_outgoing_data: a read ends at region-end when
   the command has one, else at mem_size. *)
ReadEndsAtRegionEnd == cmd = "READ" /\ state >= 4 => address = OpEnd(req)

(* A read reports MAIN_DONE only when every byte of its region has been sent. *)
ReadComplete ==
  cmd = "READ" /\ state >= 4 => covered = req.address..(OpEnd(req) - 1)

(* A host that answers each frame within MaxAnswer is never timed out, by either
   clock: not while the three last waits of a command (the last chunk, END, the
   closing ACK) run on one period of the watchdog. *)
PromptHostNeverTimedOut == out \notin {"ACK_TIMEOUT", "CMD_TIMEOUT"}

(* Whatever the host does, or if it does nothing, a command other than a voltage
   reading ends: loop() and its two timeouts see to it.  Only a host that goes on
   sending data frames without a byte in them keeps one alive: each is carried out,
   which resets the watchdog, and moves no cursor.  Of whole messages: a call that reads
   one byte by byte, or drains the line, is a step here and returns in Link (LoopReturns);
   a frame swallowed in idle never becomes a command, and is not missed here. *)
CommandEnds ==
  \/ []<>(rx # <<>> /\ Head(rx) = Data(0))
  \/ cmd \notin VoltageCmds /\ cmd # "IDLE" ~> cmd = "IDLE"

(* If the host falls silent for good, the programming voltage goes off for good. *)
SilentHostReleasesHv == <>[](rx = <<>>) => <>[]~hv

-----------------------------------------------------------------------------
(* A memory command as its host sees it. *)
Serving == cmd \in MemoryCmds

Kind == CASE cmd = "READ" -> "read" [] cmd = "WRITE" -> "write" [] OTHER -> "other"
Served ==
  IF Serving THEN [kind |-> Kind, first |-> req.address, end |-> OpEnd(req),
                   declared |-> req.regionEnd # 0]
  ELSE [kind |-> "none", first |-> 0, end |-> 0, declared |-> FALSE]

Phases == IF Serving THEN state \div 2 ELSE 0
Grants == IF Serving THEN acks ELSE 0
Moved == IF Serving THEN covered ELSE {}
Rail == IF Serving THEN hv ELSE FALSE

Contract == INSTANCE CommandContract WITH
  task <- Served, phases <- Phases, grants <- Grants, moved <- Moved, rail <- Rail, said <- out

(* operation_utils.cpp: INIT, MAIN and END each begin with op_wait_for_ack and end in a
   DONE frame.  Whatever the host sends, a memory command goes through them in this
   order, each on an ACK of its own; moves bytes in MAIN only, a write without a gap;
   and whichever return it leaves by, the host has the closing frame or an error, and
   no voltage is left on. *)
CommandsKeepTheContract == Contract!CSpec
===============================================================================
