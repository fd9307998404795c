----------------------------- MODULE EpromProgram -----------------------------
(***************************************************************************)
(* The EPROM programming algorithm: eprom_write_execute, one block of the  *)
(* transfer after the other (src/proms/eprom.cpp).                         *)
(*                                                                         *)
(* A block is programmed in groups.  For each group a scan pass, with the  *)
(* programming route down, reads the bytes short of their target and flags *)
(* them in a bitmask; a pulse pass, with the route up, strobes the flagged *)
(* ones once; and again, until all are at target or a budget is spent.     *)
(* What a strobe does to the byte it hits is up to the chip.               *)
(***************************************************************************)
EXTENDS Integers

CONSTANTS
  Byte, Erased,    \* byte values, 0xFF among them
  MaxBlock,        \* DATA_BUFFER_SIZE
  Group,           \* EPROM_PROGRAM_GROUP
  Rows             \* the protocols' rows, each with a pulse width of the host's

(* max_pulses and energy_cap_us of a row (0 is no cap), whether a final pass is made,
   and handle.pulse_delay. *)
Row == [maxPulses : 0..255, energyCap : Nat, finalVerify : BOOLEAN, pulseDelay : Nat]

ASSUME ProgramAssumption ==
  /\ Erased \in Byte
  /\ MaxBlock \in Nat
  /\ Group \in Nat \ {0}
  /\ Rows \subseteq Row

VARIABLES
  row,                 \* of the command's protocol
  pc,                  \* "ready" for a block; "group", "scan", "pulse", "final";
                       \* "returned"
  len, data,           \* block_len and the bytes wanted
  cell,                \* what the chip holds there
  base, i,             \* first byte of the group; index in the group, or the block
  pending,             \* the group's bitmask, as a set of indices
  pulses, spent,       \* pulses and microseconds a byte of the group has had
  remaining, firstBad, \* found by the scan under way
  regulator, route,    \* CTRL_VPP_REGULATOR_ENABLE and CTRL_VPE_ENABLE
  outcome,             \* of the block: "none" yet, "ok" or the error reported
  count, reads         \* ghosts: pulses given to and reads made of each byte

loop == <<base, pending, pulses, spent>>
scan == <<remaining, firstBad>>
rail == <<regulator, route>>
block == <<len, data>>
tally == <<count, reads>>
vars == <<row, pc, len, data, cell, base, i, pending, pulses, spent, remaining, firstBad,
          regulator, route, outcome, tally>>

MaxPulses == row.maxPulses
EnergyCap == row.energyCap
FinalVerify == row.finalVerify
PulseDelay == row.pulseDelay

Addresses == 0..(len - 1)
At == base + i
GroupLen == IF len - base < Group THEN len - base ELSE Group

-----------------------------------------------------------------------------
(* eprom_internal_write_execute_body up to the loops: the route's regulator is
   switched on unless the last block left it on.  The bitmask is on the stack, so it
   holds whatever was there. *)
BlockStart ==
  /\ pc = "ready"
  /\ len' \in 0..MaxBlock
  /\ data' \in [0..(len' - 1) -> Byte]
  /\ cell' \in [0..(len' - 1) -> Byte]
  /\ pending' \in SUBSET (0..(Group - 1))
  /\ regulator' = TRUE
  /\ pc' = "group" /\ base' = 0
  /\ count' = [a \in 0..(len' - 1) |-> 0] /\ reads' = count'
  /\ UNCHANGED <<i, pulses, spent, scan, route, outcome>>

(* command_done: the control register is cleared.  The next command may be for another
   part. *)
EndCommand ==
  /\ pc = "ready" /\ row' \in Rows
  /\ regulator' = FALSE /\ route' = FALSE
  /\ UNCHANGED <<pc, block, cell, i, loop, scan, outcome, tally>>

StartScan == pc' = "scan" /\ i' = 0 /\ remaining' = 0

\* Slip: the bitmask is not cleared.
GroupStartKeepsBitmask ==
  /\ pc = "group" /\ base < len
  /\ pulses' = 0 /\ spent' = 0
  /\ StartScan
  /\ UNCHANGED <<block, cell, base, pending, firstBad, rail, outcome, tally>>

GroupStart ==
  /\ pc = "group" /\ base < len
  /\ pending' = {} /\ pulses' = 0 /\ spent' = 0
  /\ StartScan
  /\ UNCHANGED <<block, cell, base, firstBad, rail, outcome, tally>>

-----------------------------------------------------------------------------
(* The scan pass.  After the first one of a group only flagged bytes are looked
   at, and a 0xFF target never is. *)
Skipped == (pulses # 0 /\ i \notin pending) \/ data[At] = Erased

NextByte == i' = i + 1 /\ UNCHANGED <<pc, block, base, pulses, spent, rail, outcome>>

ScanSkips ==
  /\ pc = "scan" /\ i < GroupLen /\ Skipped
  /\ NextByte
  /\ UNCHANGED <<cell, pending, scan, tally>>

Read == reads' = [reads EXCEPT ![At] = @ + 1] /\ UNCHANGED <<cell, count>>

ScanMatches ==
  /\ pc = "scan" /\ i < GroupLen /\ ~Skipped /\ cell[At] = data[At]
  /\ Read /\ NextByte
  /\ pending' = pending \ {i}
  /\ UNCHANGED scan

\* Slip: the last short byte is reported.
ScanMissesNamesLast ==
  /\ pc = "scan" /\ i < GroupLen /\ ~Skipped /\ cell[At] # data[At]
  /\ Read /\ NextByte
  /\ pending' = pending \cup {i}
  /\ firstBad' = At
  /\ remaining' = remaining + 1

ScanMisses ==
  /\ pc = "scan" /\ i < GroupLen /\ ~Skipped /\ cell[At] # data[At]
  /\ Read /\ NextByte
  /\ pending' = pending \cup {i}
  /\ firstBad' = IF remaining = 0 THEN At ELSE firstBad
  /\ remaining' = remaining + 1

ScanDone == pc = "scan" /\ i = GroupLen

Converged ==
  /\ ScanDone /\ remaining = 0
  /\ pc' = "group" /\ base' = base + Group
  /\ UNCHANGED <<block, cell, i, pending, pulses, spent, scan, rail, outcome, tally>>

(* eprom_internal_report_budget_failure, and the wrapper's clear on an error. *)
Fail(error) ==
  /\ pc' = "returned" /\ outcome' = error
  /\ regulator' = FALSE /\ route' = FALSE
  /\ UNCHANGED <<block, cell, i, loop, scan, tally>>

\* Slip: the cap is tested with > for >=.
EnergySpentLate == EnergyCap # 0 /\ spent > EnergyCap

PulsesSpent == pulses >= MaxPulses
EnergySpent == EnergyCap # 0 /\ spent >= EnergyCap

OutOfPulses == ScanDone /\ remaining # 0 /\ PulsesSpent /\ Fail("max_pulses")

OutOfEnergy ==
  ScanDone /\ remaining # 0 /\ ~PulsesSpent /\ EnergySpent /\ Fail("energy_cap")

-----------------------------------------------------------------------------
(* The pulse pass. *)
RaiseRoute ==
  /\ ScanDone /\ remaining # 0 /\ ~PulsesSpent /\ ~EnergySpent
  /\ route' = TRUE
  /\ pc' = "pulse" /\ i' = 0
  /\ UNCHANGED <<block, cell, loop, scan, regulator, outcome, tally>>

\* Slip: the loop goes on to the next turn without going on to the next byte.
PulseSkipsInPlace ==
  /\ pc = "pulse" /\ i < GroupLen /\ i \notin pending
  /\ UNCHANGED <<pc, i, block, cell, loop, scan, rail, outcome, tally>>

PulseSkips ==
  /\ pc = "pulse" /\ i < GroupLen /\ i \notin pending
  /\ NextByte
  /\ UNCHANGED <<cell, pending, scan, tally>>

Strobe ==
  /\ pc = "pulse" /\ i < GroupLen /\ i \in pending
  /\ \E b \in Byte : cell' = [cell EXCEPT ![At] = b]
  /\ count' = [count EXCEPT ![At] = @ + 1]
  /\ NextByte
  /\ UNCHANGED <<pending, scan, reads>>

\* Slip: the route stays up for the verify reads.
LowerRouteKeptUp ==
  /\ pc = "pulse" /\ i = GroupLen
  /\ pulses' = (pulses + 1) % 256
  /\ spent' = spent + PulseDelay
  /\ StartScan
  /\ UNCHANGED <<block, cell, base, pending, firstBad, rail, outcome, tally>>

LowerRoute ==
  /\ pc = "pulse" /\ i = GroupLen
  /\ route' = FALSE
  /\ pulses' = (pulses + 1) % 256
  /\ spent' = spent + PulseDelay
  /\ StartScan
  /\ UNCHANGED <<block, cell, base, pending, firstBad, regulator, outcome, tally>>

-----------------------------------------------------------------------------
(* The block is through: an error-free return, or one more pass over all of it
   (memory_verify_execute). *)
Succeed ==
  /\ pc' = "returned" /\ outcome' = "ok"
  /\ UNCHANGED <<block, cell, i, loop, scan, rail, tally>>

\* Slip: the final pass is left out.
BlockDoneUnverified == pc = "group" /\ base >= len /\ Succeed

BlockDone == pc = "group" /\ base >= len /\ ~FinalVerify /\ Succeed

StartFinal ==
  /\ pc = "group" /\ base >= len /\ FinalVerify
  /\ pc' = "final" /\ i' = 0
  /\ UNCHANGED <<block, cell, loop, scan, rail, outcome, tally>>

FinalMatches ==
  /\ pc = "final" /\ i < len /\ cell[i] = data[i]
  /\ reads' = [reads EXCEPT ![i] = @ + 1]
  /\ i' = i + 1
  /\ UNCHANGED <<pc, block, cell, loop, scan, rail, outcome, count>>

FinalMisses == pc = "final" /\ i < len /\ cell[i] # data[i] /\ Fail("verify")
FinalDone == pc = "final" /\ i = len /\ Succeed

(* The caller has the response code; the block and the locals are gone. *)
Return ==
  /\ pc = "returned"
  /\ pc' = "ready" /\ outcome' = "none"
  /\ len' = 0 /\ base' = 0 /\ i' = 0 /\ pending' = {}
  /\ pulses' = 0 /\ spent' = 0 /\ remaining' = 0 /\ firstBad' = 0
  /\ data' = <<>> /\ cell' = <<>> /\ count' = <<>> /\ reads' = <<>>
  /\ UNCHANGED rail

-----------------------------------------------------------------------------
Init ==
  /\ row \in Rows
  /\ pc = "ready" /\ len = 0
  /\ data = <<>> /\ cell = <<>> /\ count = <<>> /\ reads = <<>>
  /\ base = 0 /\ i = 0 /\ pending = {}
  /\ pulses = 0 /\ spent = 0 /\ remaining = 0 /\ firstBad = 0
  /\ regulator = FALSE /\ route = FALSE /\ outcome = "none"

Work ==
  \/ GroupStart \/ ScanSkips \/ ScanMatches \/ ScanMisses \/ Converged
  \/ OutOfPulses \/ OutOfEnergy \/ RaiseRoute \/ PulseSkips \/ Strobe \/ LowerRoute
  \/ BlockDone \/ StartFinal \/ FinalMatches \/ FinalMisses \/ FinalDone
  \/ Return

Next == EndCommand \/ ((BlockStart \/ Work) /\ UNCHANGED row)

Spec == Init /\ [][Next]_vars

\* The function runs to its return; nothing interrupts it.
FairSpec == Spec /\ WF_vars(Work /\ UNCHANGED row)

-----------------------------------------------------------------------------
TypeOK ==
  /\ row \in Rows
  /\ pc \in {"ready", "group", "scan", "pulse", "final", "returned"}
  /\ len \in 0..MaxBlock
  /\ data \in [Addresses -> Byte] /\ cell \in [Addresses -> Byte]
  /\ base \in Nat /\ i \in Nat
  /\ pending \subseteq 0..(Group - 1)
  /\ pulses \in 0..MaxPulses /\ spent \in Nat
  /\ remaining \in 0..Group /\ firstBad \in Nat
  /\ regulator \in BOOLEAN /\ route \in BOOLEAN
  /\ outcome \in {"none", "ok", "max_pulses", "energy_cap", "verify"}
  /\ count \in [Addresses -> Nat] /\ reads \in [Addresses -> Nat]

(* eprom.cpp, "Pulse and verify invariants": the budgets are per byte.  No byte gets
   more pulses than its row allows, nor another one once its share of the energy cap is
   used up - whatever the groups, the passes and the bytes around it. *)
PulsesBounded ==
  \A a \in Addresses :
    /\ count[a] <= MaxPulses
    /\ EnergyCap # 0 /\ count[a] # 0 => (count[a] - 1) * PulseDelay < EnergyCap

(* A block reported good holds its data: every byte that is not 0xFF matched when it
   was last read and was not pulsed since.  With the final pass so do the 0xFF bytes. *)
SuccessIsProgrammed ==
  outcome = "ok" =>
    \A a \in Addresses : data[a] # Erased \/ FinalVerify => cell[a] = data[a]

(* A failed block names the byte it failed on, and everything below that byte is at
   target; the rail is down when the error is reported. *)
FailureNamesFirstBad ==
  outcome \in {"max_pulses", "energy_cap"} =>
    /\ firstBad \in Addresses /\ cell[firstBad] # data[firstBad]
    /\ count[firstBad] = pulses
    /\ \A a \in 0..(firstBad - 1) : data[a] # Erased => cell[a] = data[a]
    /\ ~regulator /\ ~route

(* eprom.cpp, same list.  A byte at its target is never pulsed again, and a 0xFF target
   never at all; a strobe only happens with the programming voltage generated and
   switched onto the part. *)
OnlyShortBytesPulsed ==
  [][\A a \in Addresses : pc = "pulse" /\ count'[a] # count[a] =>
       data[a] # Erased /\ cell[a] # data[a] /\ regulator /\ route]_vars

(* eprom.h: the route must come down for every verify read. *)
ReadsWithRouteDown ==
  [][\A a \in Addresses : pc \in {"scan", "final"} /\ reads'[a] # reads[a] => ~route]_vars

(* The for(;;) ends, whatever the chip does. *)
BlockEnds == pc # "ready" ~> pc = "ready"
===============================================================================
