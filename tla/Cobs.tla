---------------------------------- MODULE Cobs ----------------------------------
(***************************************************************************)
(* The framing of the serial link (rurp_serial_utils.cpp): payload and a   *)
(* one-byte checksum, COBS-encoded so that 0 only occurs as the delimiter. *)
(* Encoding is a fold over the payload; decoding is one step per received  *)
(* byte, in place, one byte behind, so that the checksum is never stored.  *)
(*                                                                         *)
(* FullCode stands for 0xFF: the code of a run that stops at its length    *)
(* limit and is followed by no implicit zero.                              *)
(***************************************************************************)
EXTENDS Integers, Sequences, SequencesExt

CONSTANTS
  FullCode,    \* the code of a full run: 0xFF
  Crc8(_, _)   \* rurp_crc8 of a byte onto a checksum

ASSUME CobsAssumption ==
  /\ FullCode \in Nat /\ FullCode > 1
  /\ Crc8(0, 0) \in Nat

Delimiter == 0

\* The checksum over [payload], seed 0.
Crc(payload) == FoldLeft(Crc8, 0, payload)

-----------------------------------------------------------------------------
(* rurp_communication_write.  Runs of bytes other than 0, each behind its code. *)
EncodeByte(e, b) ==
  IF b = 0
  THEN [wire |-> e.wire \o <<Len(e.run) + 1>> \o e.run, run |-> <<>>]
  ELSE IF Len(e.run) + 2 = FullCode
       THEN [wire |-> e.wire \o <<FullCode>> \o Append(e.run, b), run |-> <<>>]
       ELSE [e EXCEPT !.run = Append(@, b)]

Encode(payload) ==
  LET e == FoldLeft(EncodeByte, [wire |-> <<>>, run |-> <<>>], payload)
      crc == Crc(payload)
  IN  (IF crc = 0
       THEN e.wire \o <<Len(e.run) + 1>> \o e.run \o <<1>>
       ELSE e.wire \o <<Len(e.run) + 2>> \o e.run \o <<crc>>) \o <<Delimiter>>

-----------------------------------------------------------------------------
(* The locals of rurp_communication_read_data: the bytes committed to the buffer,
   what is left of the current run, whether it was a full one, the implicit zero
   that waits for more data, and the byte held back (<<>> for has_last = false). *)
Decoding ==
  [out : Seq(Nat), run : Nat, full : BOOLEAN, zero : BOOLEAN, last : Seq(Nat)]

StartDecoding == [out |-> <<>>, run |-> 0, full |-> FALSE, zero |-> FALSE, last |-> <<>>]

(* PUSH commits the byte held back and holds b. *)
Push(d, b) == [d EXCEPT !.out = @ \o d.last, !.last = <<b>>]

\* A data byte is pushed, and so is a pending zero once a code follows it.
Pushes(d) == d.run > 0 \/ d.zero

OverrunsLate(d, cap) == Pushes(d) /\ d.last # <<>> /\ Len(d.out) > cap \* slip: off by one

Overruns(d, cap) == Pushes(d) /\ d.last # <<>> /\ Len(d.out) >= cap

\* Slip: a full run is followed by a zero, too.
DataByteZero(d, b) == [Push(d, b) EXCEPT !.run = @ - 1, !.zero = d.run = 1]

(* A byte other than the delimiter: data of the current run, or the next code.  A
   run that ends leaves a zero pending, unless it was full. *)
DataByte(d, b) ==
  [Push(d, b) EXCEPT !.run = @ - 1, !.zero = d.run = 1 /\ ~d.full]

CodeByte(d, b) ==
  LET e == IF d.zero THEN Push(d, 0) ELSE d
  IN  [e EXCEPT !.run = b - 1, !.full = b = FullCode, !.zero = b = 1]

DecodeByte(d, b) == IF d.run > 0 THEN DataByte(d, b) ELSE CodeByte(d, b)

(* The delimiter ends the frame, whatever is wrong with it. *)
Finish(d) ==
  CASE d.run # 0 -> "violation"
    [] d.run = 0 /\ d.last = <<>> -> "empty"
    [] d.run = 0 /\ d.last = <<Crc(d.out)>> -> "payload"
    [] OTHER -> "checksum"
=================================================================================
