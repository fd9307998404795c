-------------------------------- MODULE BytePipe --------------------------------
(***************************************************************************)
(* What either half of a serial port promises: a bounded queue and a place *)
(* for what has left it and not been handed over.  One side appends, the   *)
(* other takes from the front; nothing is reordered, repeated or changed.  *)
(* Only what is being handed over may be lost, and only with the link.     *)
(***************************************************************************)
EXTENDS Naturals, Sequences, SequencesExt

CONSTANT Limit
VARIABLES queue, out, up

pipe == <<queue, out, up>>

Init == queue = <<>> /\ out = <<>> /\ up = FALSE

Put ==
  /\ IsStrictPrefix(queue, queue') /\ Len(queue') <= Limit
  /\ UNCHANGED <<out, up>>

Move ==
  /\ out = <<>>
  /\ \E n \in 1..Len(queue) :
       out' = SubSeq(queue, 1, n) /\ queue' = SubSeq(queue, n + 1, Len(queue))

Get == Move /\ UNCHANGED up

HandOver == out # <<>> /\ out' = <<>> /\ UNCHANGED <<queue, up>>

Down == up /\ up' = FALSE /\ UNCHANGED queue /\ out' \in {out, <<>>}

Up == ~up /\ up' = TRUE /\ (Move \/ UNCHANGED <<queue, out>>)

Next == Put \/ Get \/ HandOver \/ Down \/ Up

Spec == Init /\ [][Next]_pipe
=================================================================================
