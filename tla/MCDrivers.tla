-------------------------------- MODULE MCDrivers --------------------------------
(***************************************************************************)
(* The drivers that program: one command for a part on the EPROM           *)
(* algorithm, or one for a part that times itself, as configure_memory     *)
(* chooses.  The other driver does not run.                                *)
(***************************************************************************)
EXTENDS EpromProgram, PageWrite

VARIABLE driving  \* "eprom" or "page"

\* A row with a final pass and no energy cap (the 28- and 32-pin protocols), and one
\* with a cap that ends before its pulses do and no final pass (the 24-pin one).
MCRows ==
  {[maxPulses |-> 2, energyCap |-> 0, finalVerify |-> TRUE, pulseDelay |-> 1],
   [maxPulses |-> 3, energyCap |-> 4, finalVerify |-> FALSE, pulseDelay |-> 2]}

\* Blocks of one or two bytes that begin on a page, inside one, or end one; a page, or
\* parts of two; and two pages.  When a load of the first page is cut twice, what is left of
\* it shows the driver an answer that looks right.
MCBlocks ==
  [at : {0, 1, 3}, bytes : UNION {[1..n -> Datum] : n \in 1..2}]
    \cup [at : {0, 2}, bytes : {<<"fe", "fe", "7f", "fe">>, <<"fe", "7f", "7f", "fe">>,
                               <<"ff", "7f", "ff", "fe">>}]
    \cup [at : {0}, bytes : {<<"fe", "7f", "ff", "fe", "7f", "fe", "7f", "7f">>}]

\* A blank part, and a used one.
MCContents == {[a \in Cells |-> "ff"], [a \in Cells |-> IF a = 1 THEN "7f" ELSE "fe"]}

Resting ==
  /\ family = "28c" /\ task = "lock" /\ fault = "none" /\ ~locked /\ request = 0
  /\ job = [at |-> 0, bytes |-> <<"ff">>] /\ memory = [a \in Cells |-> "ff"]

DriversInit ==
  /\ Init /\ Given
  /\ \/ driving = "eprom" /\ Resting /\ step = "done"
     \/ driving = "page" /\ step = "start" /\ row.finalVerify

DriversNext ==
  /\ \/ driving = "eprom" /\ Next /\ UNCHANGED pageVars
     \/ driving = "page" /\ PageNext /\ UNCHANGED vars
  /\ UNCHANGED driving

DriversSpec ==
  /\ DriversInit /\ [][DriversNext]_<<vars, pageVars, driving>>
  /\ WF_vars(Work /\ UNCHANGED row) /\ PageFairness

(* The endless loop of eprom_internal_write_execute_body and every poll of the others
   has a bound: whichever driver has the bus returns, though the part never answers. *)
DriversReturn == BlockEnds /\ DriverReturns
=================================================================================
