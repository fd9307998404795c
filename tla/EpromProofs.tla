------------------------------ MODULE EpromProofs ------------------------------
(* The EPROM algorithm, for every block, every group size, every row of parameters
   and every answer of the chip. *)
EXTENDS EpromProgram, TLAPS

Budgeted(n) == n <= MaxPulses /\ (EnergyCap # 0 /\ n # 0 => (n - 1) * PulseDelay < EnergyCap)
AtTarget(a) == data[a] # Erased => cell[a] = data[a]

(* Where the indices can be, and what the rail is there. *)
PlaceInv ==
  /\ pc = "ready" => /\ len = 0 /\ base = 0 /\ i = 0 /\ pulses = 0 /\ spent = 0
                     /\ remaining = 0 /\ firstBad = 0
  /\ outcome = "none" <=> pc # "returned"
  /\ pc \in {"scan", "pulse"} => base < len /\ i <= GroupLen /\ remaining <= GroupLen
  /\ pc = "scan" => remaining <= i
  /\ pc = "final" => base >= len /\ i <= len /\ FinalVerify
  /\ pc \in {"group", "scan", "pulse", "final"} => regulator
  /\ route <=> pc = "pulse"

(* The bitmask holds bytes of the group that want another pulse and have had all so
   far; nothing beyond the group has had any. *)
CountInv ==
  /\ \A a \in Addresses : Budgeted(count[a])
  /\ \A a \in Addresses :
       (pc = "group" /\ a >= base) \/ (pc \in {"scan", "pulse"} /\ a >= base + Group)
         \/ (pc = "scan" /\ pulses = 0 /\ a >= base) => count[a] = 0
  /\ pc \in {"scan", "pulse"} =>
       /\ spent = pulses * PulseDelay
       /\ \A k \in pending :
            /\ k < GroupLen /\ data[base + k] # Erased
            /\ count[base + k] = IF pc = "pulse" /\ k < i THEN pulses + 1 ELSE pulses
  /\ pc = "pulse" => pulses < MaxPulses /\ (EnergyCap # 0 => spent < EnergyCap)

(* Bytes of the group that are not flagged are at their target, as far as they have
   been looked at; those that are flagged were short when they were last read. *)
BelowBase ==
  pc \in {"group", "scan", "pulse", "final"} => \A a \in Addresses : a < base => AtTarget(a)

Unflagged ==
  pc \in {"scan", "pulse"} =>
    \A k \in 0..(GroupLen - 1) :
      pulses # 0 \/ pc = "pulse" \/ k < i => k \in pending \/ AtTarget(base + k)

Flagged ==
  /\ pc = "scan" => \A k \in pending : k < i => remaining # 0 /\ cell[base + k] # data[base + k]
  /\ pc = "pulse" => \A k \in pending : k >= i => cell[base + k] # data[base + k]

FirstFlagged ==
  pc = "scan" /\ remaining # 0 =>
    /\ firstBad - base \in pending /\ firstBad - base < i
    /\ \A k \in pending : base + k >= firstBad

FinalSeen == pc = "final" => \A a \in Addresses : a < i => cell[a] = data[a]

GroupInv == BelowBase /\ Unflagged /\ Flagged /\ FirstFlagged /\ FinalSeen

IInv ==
  /\ TypeOK /\ PlaceInv /\ CountInv /\ GroupInv
  /\ SuccessIsProgrammed /\ FailureNamesFirstBad

(* A protocol's row holds four numbers. *)
LEMMA RowType ==
  ASSUME NEW r \in Rows
  PROVE  /\ r.maxPulses \in 0..255 /\ r.energyCap \in Nat
         /\ r.finalVerify \in BOOLEAN /\ r.pulseDelay \in Nat
BY ProgramAssumption DEF Row

(* The count of passes never gets to wrap at its eight bits: the row's limit does not
   let it. *)
LEMMA PulsesStep ==
  ASSUME TypeOK, PlaceInv, CountInv, [Next]_vars
  PROVE  /\ pulses' \in 0..MaxPulses'
         /\ LowerRoute => pulses' = pulses + 1 /\ spent' = spent + PulseDelay /\ spent' \in Nat
<1>1. MaxPulses \in 0..255 /\ MaxPulses' \in 0..255 /\ PulseDelay \in Nat
  <2>1. row \in Rows /\ row' \in Rows
    BY DEF TypeOK, Next, EndCommand, vars
  <2> QED BY <2>1, RowType DEF MaxPulses, PulseDelay
<1>2. pulses \in 0..MaxPulses /\ spent \in Nat
  BY DEF TypeOK
<1>3. pc = "ready" => pulses = 0
  BY DEF PlaceInv
<1>4. pc = "pulse" => pulses < MaxPulses
  BY DEF CountInv
<1>5. CASE EndCommand
  BY <1>1, <1>3, <1>5 DEF EndCommand, loop, LowerRoute
<1>6. CASE pulses' = pulses /\ UNCHANGED row /\ ~LowerRoute
  BY <1>2, <1>6 DEF MaxPulses
<1>7. CASE pulses' = 0 /\ ~LowerRoute
  BY <1>1, <1>7
<1>8. CASE LowerRoute /\ UNCHANGED row
  BY <1>1, <1>2, <1>4, <1>8 DEF LowerRoute, MaxPulses
<1> QED BY <1>5, <1>6, <1>7, <1>8 DEF Next, Work, vars, BlockStart, GroupStart, ScanSkips,
    ScanMatches, ScanMisses, Converged, OutOfPulses, OutOfEnergy, RaiseRoute, PulseSkips,
    Strobe, BlockDone, StartFinal, FinalMatches, FinalMisses, FinalDone, Return, NextByte,
    Fail, Succeed, loop, LowerRoute, ScanDone

(* Between blocks the buffers are empty functions. *)
LEMMA EmptyBuffer == ASSUME NEW S PROVE <<>> \in [0..(0 - 1) -> S]
<1>1. 1..0 = 0..(0 - 1)
  OBVIOUS
<1>2. <<>> = [x \in 1..0 |-> x]
  OBVIOUS
<1>3. [x \in 0..(0 - 1) |-> x] \in [0..(0 - 1) -> S]
  OBVIOUS
<1> QED BY <1>1, <1>2, <1>3

LEMMA TypeStep ==
  ASSUME TypeOK, PlaceInv, CountInv, [Next]_vars PROVE TypeOK'
<1>0. pulses' \in 0..MaxPulses' /\ (LowerRoute => spent' \in Nat)
  BY PulsesStep
<1>a. Group \in Nat \ {0} /\ MaxBlock \in Nat
  BY ProgramAssumption
<1> USE <1>0, <1>a DEF TypeOK, PlaceInv, Addresses, At, GroupLen, block, loop, scan, rail,
    tally
<1>1. CASE EndCommand
  BY <1>1 DEF EndCommand
<1>2. CASE BlockStart /\ UNCHANGED row
  BY <1>2 DEF BlockStart
<1>3. CASE GroupStart /\ UNCHANGED row
  BY <1>3 DEF GroupStart, StartScan
<1>4. CASE ScanSkips /\ UNCHANGED row
  BY <1>4 DEF ScanSkips, NextByte
<1>5. CASE ScanMatches /\ UNCHANGED row
  BY <1>5 DEF ScanMatches, Read, NextByte
<1>6. CASE ScanMisses /\ UNCHANGED row
  BY <1>6 DEF ScanMisses, Read, NextByte
<1>7. CASE Converged /\ UNCHANGED row
  BY <1>7 DEF Converged, ScanDone
<1>8. CASE OutOfPulses /\ UNCHANGED row
  BY <1>8 DEF OutOfPulses, Fail, ScanDone
<1>9. CASE OutOfEnergy /\ UNCHANGED row
  BY <1>9 DEF OutOfEnergy, Fail, ScanDone
<1>10. CASE RaiseRoute /\ UNCHANGED row
  BY <1>10 DEF RaiseRoute, ScanDone
<1>11. CASE PulseSkips /\ UNCHANGED row
  BY <1>11 DEF PulseSkips, NextByte
<1>12. CASE Strobe /\ UNCHANGED row
  <2>1. PICK b \in Byte : cell' = [cell EXCEPT ![At] = b]
    BY <1>12 DEF Strobe
  <2>2. cell' \in [Addresses -> Byte] /\ count' \in [Addresses -> Nat]
    BY <2>1, <1>12 DEF Strobe
  <2>3. i' \in Nat
    BY <1>12 DEF Strobe, NextByte
  <2> QED BY <1>12, <2>2, <2>3 DEF Strobe, NextByte
<1>13. CASE LowerRoute /\ UNCHANGED row
  <2>1. spent' \in Nat
    BY <1>13
  <2>2. /\ pc' = "scan" /\ i' = 0 /\ remaining' = 0
        /\ UNCHANGED <<len, data, cell, base, pending, firstBad, outcome, count, reads>>
    BY <1>13 DEF LowerRoute, StartScan
  <2>3. route' \in BOOLEAN /\ regulator' \in BOOLEAN
    BY <1>13 DEF LowerRoute
  <2> HIDE DEF PlaceInv
  <2> QED BY <1>13, <2>1, <2>2, <2>3
<1>14. CASE BlockDone /\ UNCHANGED row
  BY <1>14 DEF BlockDone, Succeed
<1>15. CASE StartFinal /\ UNCHANGED row
  BY <1>15 DEF StartFinal
<1>16. CASE FinalMatches /\ UNCHANGED row
  BY <1>16 DEF FinalMatches
<1>17. CASE FinalMisses /\ UNCHANGED row
  BY <1>17 DEF FinalMisses, Fail
<1>18. CASE FinalDone /\ UNCHANGED row
  BY <1>18 DEF FinalDone, Succeed
<1>19. CASE Return /\ UNCHANGED row
  <2>1. <<>> \in [0..(0 - 1) -> Byte] /\ <<>> \in [0..(0 - 1) -> Nat]
    BY EmptyBuffer
  <2> QED BY <1>19, <2>1 DEF Return
<1>20. CASE UNCHANGED vars
  BY <1>20 DEF vars
<1> QED BY <1>1, <1>2, <1>3, <1>4, <1>5, <1>6, <1>7, <1>8, <1>9, <1>10, <1>11, <1>12,
    <1>13,
    <1>14, <1>15, <1>16, <1>17, <1>18, <1>19, <1>20 DEF Next, Work

LEMMA PlaceStep ==
  ASSUME TypeOK, PlaceInv, [Next]_vars PROVE PlaceInv'
<1> USE ProgramAssumption DEF TypeOK, PlaceInv, Addresses, At, GroupLen, FinalVerify,
    block, loop, scan, rail, tally
<1>1. CASE EndCommand
  BY <1>1 DEF EndCommand
<1>2. CASE BlockStart /\ UNCHANGED row
  BY <1>2 DEF BlockStart
<1>3. CASE GroupStart /\ UNCHANGED row
  BY <1>3 DEF GroupStart, StartScan
<1>4. CASE ScanSkips /\ UNCHANGED row
  BY <1>4 DEF ScanSkips, NextByte
<1>5. CASE ScanMatches /\ UNCHANGED row
  BY <1>5 DEF ScanMatches, Read, NextByte
<1>6. CASE ScanMisses /\ UNCHANGED row
  BY <1>6 DEF ScanMisses, Read, NextByte
<1>7. CASE Converged /\ UNCHANGED row
  BY <1>7 DEF Converged, ScanDone
<1>8. CASE OutOfPulses /\ UNCHANGED row
  BY <1>8 DEF OutOfPulses, Fail, ScanDone
<1>9. CASE OutOfEnergy /\ UNCHANGED row
  BY <1>9 DEF OutOfEnergy, Fail, ScanDone
<1>10. CASE RaiseRoute /\ UNCHANGED row
  BY <1>10 DEF RaiseRoute, ScanDone
<1>11. CASE PulseSkips /\ UNCHANGED row
  BY <1>11 DEF PulseSkips, NextByte
<1>12. CASE Strobe /\ UNCHANGED row
  BY <1>12 DEF Strobe, NextByte
<1>13. CASE LowerRoute /\ UNCHANGED row
  BY <1>13 DEF LowerRoute, StartScan
<1>14. CASE BlockDone /\ UNCHANGED row
  BY <1>14 DEF BlockDone, Succeed
<1>15. CASE StartFinal /\ UNCHANGED row
  BY <1>15 DEF StartFinal
<1>16. CASE FinalMatches /\ UNCHANGED row
  BY <1>16 DEF FinalMatches
<1>17. CASE FinalMisses /\ UNCHANGED row
  BY <1>17 DEF FinalMisses, Fail
<1>18. CASE FinalDone /\ UNCHANGED row
  BY <1>18 DEF FinalDone, Succeed
<1>19. CASE Return /\ UNCHANGED row
  BY <1>19 DEF Return
<1>20. CASE UNCHANGED vars
  BY <1>20 DEF vars
<1> QED BY <1>1, <1>2, <1>3, <1>4, <1>5, <1>6, <1>7, <1>8, <1>9, <1>10, <1>11, <1>12,
    <1>13,
    <1>14, <1>15, <1>16, <1>17, <1>18, <1>19, <1>20 DEF Next, Work

(* A strobe is the only thing that adds to a count, and the byte it hits had its share
   of pulses fewer than the budget allows. *)
(* The group of a pass lies inside the block, and its bitmask inside the group. *)
LEMMA GroupShape ==
  ASSUME TypeOK, PlaceInv, CountInv, pc \in {"scan", "pulse"}
  PROVE  /\ GroupLen \in 1..Group /\ base + GroupLen <= len
         /\ base + Group >= len => base + GroupLen = len
         /\ base + Group < len => GroupLen = Group
         /\ \A k \in 0..(GroupLen - 1) : base + k \in Addresses
         /\ \A k \in pending : k \in 0..(GroupLen - 1) /\ data[base + k] # Erased
<1>1. Group \in Nat \ {0} /\ len \in Nat /\ base \in Nat /\ base < len
  BY ProgramAssumption DEF TypeOK, PlaceInv
<1>2. /\ GroupLen \in 1..Group /\ base + GroupLen <= len
      /\ base + Group >= len => base + GroupLen = len
      /\ base + Group < len => GroupLen = Group
  BY <1>1 DEF GroupLen
<1>3. \A k \in pending : k \in 0..(GroupLen - 1) /\ data[base + k] # Erased
  <2>1. \A k \in pending : k \in Nat
    BY DEF TypeOK
  <2> QED BY <1>2, <2>1 DEF CountInv
<1> QED BY <1>1, <1>2, <1>3 DEF Addresses

LEMMA CountStep ==
  ASSUME TypeOK, PlaceInv, CountInv, [Next]_vars PROVE CountInv'
<1>a. /\ Group \in Nat \ {0}
      /\ MaxPulses \in 0..255 /\ EnergyCap \in Nat /\ PulseDelay \in Nat
  BY ProgramAssumption, RowType DEF TypeOK, MaxPulses, EnergyCap, PulseDelay
<1>b. ASSUME UNCHANGED row
      PROVE  /\ UNCHANGED <<MaxPulses, EnergyCap, PulseDelay>>
             /\ \A n \in Nat : Budgeted(n)' <=> Budgeted(n)
  BY <1>b DEF MaxPulses, EnergyCap, PulseDelay, Budgeted
<1>c. Budgeted(0)
  BY <1>a DEF Budgeted
<1> USE <1>a DEF TypeOK, PlaceInv, CountInv, Addresses, At, GroupLen, block, loop, scan,
    rail, tally
<1>d. ASSUME UNCHANGED <<row, len, count>>
      PROVE  \A a \in Addresses' : Budgeted(count[a])'
  BY <1>b, <1>d
<1>1. CASE EndCommand
  BY <1>1 DEF EndCommand
<1>2. CASE BlockStart /\ UNCHANGED row
  <2>1. \A a \in Addresses' : count'[a] = 0
    BY <1>2 DEF BlockStart
  <2>2. pc' = "group"
    BY <1>2 DEF BlockStart
  <2> QED BY <1>2, <1>b, <1>c, <2>1, <2>2
<1>3. CASE GroupStart /\ UNCHANGED row
  <2>1. /\ pc = "group" /\ pc' = "scan" /\ pending' = {} /\ pulses' = 0 /\ spent' = 0
        /\ UNCHANGED <<row, len, base, count>>
    BY <1>3 DEF GroupStart, StartScan
  <2>2. 0 = 0 * PulseDelay
    OBVIOUS
  <2> QED BY <1>b, <1>d, <2>1, <2>2
<1>4. CASE ScanSkips /\ UNCHANGED row
  BY <1>4, <1>b, <1>d DEF ScanSkips, NextByte, Skipped
<1>5. CASE ScanMatches /\ UNCHANGED row
  BY <1>5, <1>b, <1>d DEF ScanMatches, Read, NextByte, Skipped
<1>6. CASE ScanMisses /\ UNCHANGED row
  <2>1. /\ pc = "scan" /\ pc' = "scan" /\ i \in 0..(GroupLen - 1) /\ data[At] # Erased
        /\ pulses # 0 => i \in pending
        /\ pending' = pending \cup {i}
        /\ UNCHANGED <<row, len, data, base, pulses, spent, count>>
    BY <1>6 DEF ScanMisses, Read, NextByte, Skipped
  <2>2. count[At] = pulses
    BY <2>1
  <2>3. \A k \in pending' : k < GroupLen /\ data[base + k] # Erased /\ count[base + k] = pulses
    BY <2>1, <2>2
  <2>4. spent' = pulses' * PulseDelay'
    BY <1>b, <2>1
  <2>5. \A a \in Addresses' : a >= base + Group \/ (pulses = 0 /\ a >= base) => count'[a] = 0
    BY <2>1
  <2> QED BY <1>d, <2>1, <2>3, <2>4, <2>5
<1>7. CASE Converged /\ UNCHANGED row
  BY <1>7, <1>d DEF Converged, ScanDone
<1>8. CASE OutOfPulses /\ UNCHANGED row
  BY <1>8, <1>d DEF OutOfPulses, Fail, ScanDone
<1>9. CASE OutOfEnergy /\ UNCHANGED row
  BY <1>9, <1>d DEF OutOfEnergy, Fail, ScanDone
<1>10. CASE RaiseRoute /\ UNCHANGED row
  <2>1. /\ pc = "scan" /\ pc' = "pulse" /\ i' = 0
        /\ UNCHANGED <<row, len, data, base, pending, pulses, spent, count>>
    BY <1>10 DEF RaiseRoute, ScanDone
  <2>2. pulses < MaxPulses /\ (EnergyCap # 0 => spent < EnergyCap)
    BY <1>10 DEF RaiseRoute, PulsesSpent, EnergySpent
  <2> QED BY <1>b, <1>d, <2>1, <2>2
<1>11. CASE PulseSkips /\ UNCHANGED row
  BY <1>11, <1>b, <1>d DEF PulseSkips, NextByte
<1>12. CASE Strobe /\ UNCHANGED row
  <2>1. /\ pc = "pulse" /\ pc' = "pulse" /\ i \in pending /\ i < GroupLen /\ i' = i + 1
        /\ UNCHANGED <<row, len, data, base, pending, pulses, spent>>
        /\ count' = [count EXCEPT ![At] = @ + 1]
    BY <1>12 DEF Strobe, NextByte
  <2>2. At \in Addresses /\ count[At] = pulses
    BY <2>1
  <2>3. Budgeted(pulses + 1)
    <3>1. /\ pulses < MaxPulses /\ pulses \in Nat
          /\ EnergyCap # 0 => pulses * PulseDelay < EnergyCap
      BY <2>1
    <3>2. pulses + 1 - 1 = pulses
      BY <3>1
    <3> QED BY <1>a, <3>1, <3>2 DEF Budgeted
  <2>4. \A a \in Addresses : count'[a] = IF a = At THEN pulses + 1 ELSE count[a]
    BY <2>1, <2>2
  <2>5. \A a \in Addresses' : Budgeted(count[a])'
    BY <1>b, <2>1, <2>3, <2>4
  <2>6. \A a \in Addresses : a >= base + Group => count'[a] = 0
    BY <2>1, <2>2, <2>4
  <2>7. \A k \in pending : count'[base + k] = IF k < i + 1 THEN pulses + 1 ELSE pulses
    BY <2>1, <2>2, <2>4
  <2> QED BY <1>b, <2>1, <2>5, <2>6, <2>7
<1>13. CASE LowerRoute /\ UNCHANGED row
  <2>1. /\ pc = "pulse" /\ i = GroupLen /\ pc' = "scan" /\ i' = 0
        /\ UNCHANGED <<row, len, data, base, pending, count>>
    BY <1>13 DEF LowerRoute, StartScan
  <2>2. pulses' = pulses + 1 /\ spent' = spent + PulseDelay
    BY <1>13, PulsesStep
  <2>3. spent' = (pulses + 1) * PulseDelay
    <3>1. spent = pulses * PulseDelay /\ pulses \in Nat
      BY <2>1
    <3>2. \A p, d \in Nat : p * d + d = (p + 1) * d
      OBVIOUS
    <3> QED BY ONLY <1>a, <2>2, <3>1, <3>2
  <2>4. \A k \in pending :
          k < GroupLen /\ data[base + k] # Erased /\ count[base + k] = pulses + 1
    BY <2>1
  <2> QED BY <1>b, <1>d, <2>1, <2>2, <2>3, <2>4
<1>14. CASE BlockDone /\ UNCHANGED row
  BY <1>14, <1>d DEF BlockDone, Succeed
<1>15. CASE StartFinal /\ UNCHANGED row
  BY <1>15, <1>d DEF StartFinal
<1>16. CASE FinalMatches /\ UNCHANGED row
  BY <1>16, <1>d DEF FinalMatches
<1>17. CASE FinalMisses /\ UNCHANGED row
  BY <1>17, <1>d DEF FinalMisses, Fail
<1>18. CASE FinalDone /\ UNCHANGED row
  BY <1>18, <1>d DEF FinalDone, Succeed
<1>19. CASE Return /\ UNCHANGED row
  BY <1>19 DEF Return
<1>20. CASE UNCHANGED vars
  BY <1>20, <1>b, <1>d DEF vars
<1> QED BY <1>1, <1>2, <1>3, <1>4, <1>5, <1>6, <1>7, <1>8, <1>9, <1>10, <1>11, <1>12,
    <1>13,
  <1>14, <1>15, <1>16, <1>17, <1>18, <1>19, <1>20 DEF Next, Work

(* Each part is disturbed by the actions that read or strobe a byte or move to the next
   group; the others leave it alone or make it vacuous. *)
LEMMA GroupStep ==
  ASSUME TypeOK, PlaceInv, CountInv, GroupInv, [Next]_vars PROVE GroupInv'
<1>a. /\ Group \in Nat \ {0} /\ len \in Nat /\ base \in Nat /\ i \in Nat /\ remaining \in Nat
      /\ firstBad \in Nat /\ pulses \in Nat
  BY ProgramAssumption, RowType DEF TypeOK, MaxPulses
<1>b. pc \in {"scan", "pulse"} =>
        /\ GroupLen \in 1..Group /\ base + GroupLen <= len
        /\ base + Group >= len => base + GroupLen = len
        /\ base + Group < len => GroupLen = Group
        /\ \A k \in 0..(GroupLen - 1) : base + k \in Addresses
        /\ \A k \in pending : k \in 0..(GroupLen - 1) /\ data[base + k] # Erased
  BY GroupShape
<1>c. ASSUME UNCHANGED <<len, base>> PROVE GroupLen' = GroupLen
  BY <1>c DEF GroupLen
<1>d. ASSUME UNCHANGED <<data, cell>> PROVE \A a : AtTarget(a)' <=> AtTarget(a)
  BY <1>d DEF AtTarget
<1>p. BelowBase /\ Unflagged /\ Flagged /\ FirstFlagged /\ FinalSeen
  BY DEF GroupInv
<1> USE <1>a
<1>1. CASE BlockStart
  <2>1. pc' = "group" /\ base' = 0 /\ len' \in Nat
    BY <1>1, ProgramAssumption DEF BlockStart
  <2>2. \A a \in Addresses' : ~(a < base')
    BY <2>1 DEF Addresses
  <2>3. BelowBase'
    BY <2>2 DEF BelowBase
  <2> QED BY <2>1, <2>3 DEF GroupInv, Unflagged, Flagged, FirstFlagged, FinalSeen
<1>2. CASE GroupStart
  <2>1. /\ pc = "group" /\ pc' = "scan" /\ pending' = {} /\ pulses' = 0
        /\ i' = 0 /\ remaining' = 0
        /\ UNCHANGED <<len, data, cell, base>>
    BY <1>2 DEF GroupStart, StartScan, block
  <2>2. BelowBase'
    BY <1>d, <1>p, <2>1 DEF BelowBase, Addresses
  <2> QED BY <2>1, <2>2 DEF GroupInv, Unflagged, Flagged, FirstFlagged, FinalSeen
<1>3. CASE ScanSkips
  <2>1. /\ pc = "scan" /\ pc' = "scan" /\ i < GroupLen /\ i' = i + 1
        /\ (pulses # 0 /\ i \notin pending) \/ data[At] = Erased
        /\ UNCHANGED <<len, data, cell, base, pending, pulses, remaining, firstBad>>
    BY <1>3 DEF ScanSkips, NextByte, Skipped, block, scan
  <2>2. i \in 0..(GroupLen - 1) /\ i \notin pending /\ GroupLen' = GroupLen
    BY <1>b, <1>c, <2>1 DEF At
  <2>3. BelowBase'
    BY <1>d, <1>p, <2>1 DEF BelowBase, Addresses
  <2>4. pulses # 0 \/ AtTarget(base + i)
    BY <2>1 DEF AtTarget, At
  <2>5. Unflagged'
    BY <1>b, <1>d, <1>p, <2>1, <2>2, <2>4 DEF Unflagged
  <2>6. Flagged' /\ FirstFlagged' /\ FinalSeen'
    BY <1>b, <1>p, <2>1, <2>2 DEF Flagged, FirstFlagged, FinalSeen
  <2> QED BY <2>3, <2>5, <2>6 DEF GroupInv
<1>4. CASE ScanMatches
  <2>1. /\ pc = "scan" /\ pc' = "scan" /\ i < GroupLen /\ i' = i + 1
        /\ cell[At] = data[At]
        /\ pending' = pending \ {i}
        /\ UNCHANGED <<len, data, cell, base, pulses, remaining, firstBad>>
    BY <1>4 DEF ScanMatches, Read, NextByte, block, scan
  <2>2. i \in 0..(GroupLen - 1) /\ GroupLen' = GroupLen
    BY <1>b, <1>c, <2>1
  <2>3. BelowBase'
    BY <1>d, <1>p, <2>1 DEF BelowBase, Addresses
  <2>4. AtTarget(base + i)
    BY <2>1 DEF AtTarget, At
  <2>5. Unflagged'
    BY <1>b, <1>d, <1>p, <2>1, <2>2, <2>4 DEF Unflagged
  <2>6. Flagged' /\ FinalSeen'
    BY <1>b, <1>p, <2>1, <2>2 DEF Flagged, FinalSeen
  <2>7. FirstFlagged'
    BY <1>b, <1>p, <2>1, <2>2 DEF FirstFlagged
  <2> QED BY <2>3, <2>5, <2>6, <2>7 DEF GroupInv
<1>5. CASE ScanMisses
  <2>1. /\ pc = "scan" /\ pc' = "scan" /\ i < GroupLen /\ i' = i + 1
        /\ cell[base + i] # data[base + i]
        /\ pending' = pending \cup {i}
        /\ firstBad' = IF remaining = 0 THEN base + i ELSE firstBad
        /\ remaining' = remaining + 1
        /\ UNCHANGED <<len, data, cell, base, pulses>>
    BY <1>5 DEF ScanMisses, Read, NextByte, block, At
  <2>2. i \in 0..(GroupLen - 1) /\ GroupLen' = GroupLen
    BY <1>b, <1>c, <2>1
  <2>3. BelowBase'
    BY <1>d, <1>p, <2>1 DEF BelowBase, Addresses
  <2>4. Unflagged'
    BY <1>b, <1>d, <1>p, <2>1, <2>2 DEF Unflagged
  <2>5. Flagged' /\ FinalSeen'
    BY <1>b, <1>p, <2>1, <2>2 DEF Flagged, FinalSeen
  <2>6. FirstFlagged'
    <3>1. CASE remaining = 0
      <4>1. \A k \in pending : k >= i
        BY <1>b, <1>p, <2>1, <3>1 DEF Flagged
      <4> QED BY <1>b, <2>1, <3>1, <4>1 DEF FirstFlagged
    <3>2. CASE remaining # 0
      BY <1>b, <1>p, <2>1, <3>2 DEF FirstFlagged
    <3> QED BY <3>1, <3>2
  <2> QED BY <2>3, <2>4, <2>5, <2>6 DEF GroupInv
<1>6. CASE Converged
  <2>1. /\ pc = "scan" /\ i = GroupLen /\ remaining = 0
        /\ pc' = "group" /\ base' = base + Group
        /\ UNCHANGED <<len, data, cell>>
    BY <1>6 DEF Converged, ScanDone, block
  <2>2. \A k \in 0..(GroupLen - 1) : k \notin pending
    BY <1>b, <1>p, <2>1 DEF Flagged
  <2>3. \A k \in 0..(GroupLen - 1) : AtTarget(base + k)
    BY <1>b, <1>p, <2>1, <2>2 DEF Unflagged
  <2>4. \A a \in Addresses : a < base + Group => AtTarget(a)
    <3> SUFFICES ASSUME NEW a \in Addresses, a < base + Group, a >= base PROVE AtTarget(a)
      BY <1>p, <2>1 DEF BelowBase, Addresses
    <3>1. a - base \in 0..(GroupLen - 1) /\ base + (a - base) = a
      BY <1>b, <2>1 DEF Addresses
    <3> QED BY <2>3, <3>1
  <2> QED BY <1>d, <2>1, <2>4 DEF GroupInv, BelowBase, Unflagged, Flagged, FirstFlagged,
      FinalSeen, Addresses
<1>7. CASE RaiseRoute
  <2>1. /\ pc = "scan" /\ i = GroupLen /\ pc' = "pulse" /\ i' = 0
        /\ UNCHANGED <<len, data, cell, base, pending, pulses>>
    BY <1>7 DEF RaiseRoute, ScanDone, block, loop
  <2>2. GroupLen' = GroupLen
    BY <1>c, <2>1
  <2>3. BelowBase'
    BY <1>d, <1>p, <2>1 DEF BelowBase, Addresses
  <2>4. Unflagged'
    BY <1>b, <1>d, <1>p, <2>1, <2>2 DEF Unflagged
  <2>5. Flagged' /\ FirstFlagged' /\ FinalSeen'
    BY <1>b, <1>p, <2>1 DEF Flagged, FirstFlagged, FinalSeen
  <2> QED BY <2>3, <2>4, <2>5 DEF GroupInv
<1>8. CASE PulseSkips
  <2>1. /\ pc = "pulse" /\ pc' = "pulse" /\ i \notin pending /\ i' = i + 1
        /\ UNCHANGED <<len, data, cell, base, pending, pulses>>
    BY <1>8 DEF PulseSkips, NextByte, block
  <2>2. GroupLen' = GroupLen
    BY <1>c, <2>1
  <2>3. BelowBase'
    BY <1>d, <1>p, <2>1 DEF BelowBase, Addresses
  <2>4. Unflagged'
    BY <1>b, <1>d, <1>p, <2>1, <2>2 DEF Unflagged
  <2>5. Flagged' /\ FirstFlagged' /\ FinalSeen'
    BY <1>b, <1>p, <2>1 DEF Flagged, FirstFlagged, FinalSeen
  <2> QED BY <2>3, <2>4, <2>5 DEF GroupInv
<1>9. CASE Strobe
  <2>1. /\ pc = "pulse" /\ pc' = "pulse" /\ i \in pending /\ i' = i + 1
        /\ UNCHANGED <<len, data, base, pending, pulses>>
    BY <1>9 DEF Strobe, NextByte, block
  <2>2. \A a \in Addresses : a # base + i => cell'[a] = cell[a]
    BY <1>9 DEF Strobe, At, TypeOK
  <2>3. GroupLen' = GroupLen
    BY <1>c, <2>1
  <2>4. \A a \in Addresses : a # base + i => (AtTarget(a)' <=> AtTarget(a))
    BY <2>1, <2>2 DEF AtTarget
  <2>5. BelowBase'
    BY <1>p, <2>1, <2>4 DEF BelowBase, Addresses
  <2>6. Unflagged'
    BY <1>b, <1>p, <2>1, <2>3, <2>4 DEF Unflagged
  <2>7. Flagged' /\ FirstFlagged' /\ FinalSeen'
    BY <1>b, <1>p, <2>1, <2>2 DEF Flagged, FirstFlagged, FinalSeen
  <2> QED BY <2>5, <2>6, <2>7 DEF GroupInv
<1>10. CASE LowerRoute
  <2>1. /\ pc = "pulse" /\ pc' = "scan" /\ i' = 0 /\ remaining' = 0
        /\ UNCHANGED <<len, data, cell, base, pending>>
    BY <1>10 DEF LowerRoute, StartScan, block
  <2>2. GroupLen' = GroupLen
    BY <1>c, <2>1
  <2>3. BelowBase'
    BY <1>d, <1>p, <2>1 DEF BelowBase, Addresses
  <2>4. Unflagged'
    BY <1>b, <1>d, <1>p, <2>1, <2>2 DEF Unflagged
  <2>5. Flagged' /\ FirstFlagged' /\ FinalSeen'
    BY <1>b, <2>1 DEF Flagged, FirstFlagged, FinalSeen
  <2> QED BY <2>3, <2>4, <2>5 DEF GroupInv
<1>11. CASE StartFinal
  <2>1. pc = "group" /\ pc' = "final" /\ i' = 0 /\ UNCHANGED <<len, data, cell, base>>
    BY <1>11 DEF StartFinal, block, loop
  <2>2. BelowBase'
    BY <1>d, <1>p, <2>1 DEF BelowBase, Addresses
  <2> QED BY <2>1, <2>2 DEF GroupInv, Unflagged, Flagged, FirstFlagged, FinalSeen,
      Addresses
<1>12. CASE FinalMatches
  <2>1. /\ pc = "final" /\ pc' = "final" /\ cell[i] = data[i] /\ i' = i + 1
        /\ UNCHANGED <<len, data, cell, base>>
    BY <1>12 DEF FinalMatches, block, loop
  <2>2. BelowBase'
    BY <1>d, <1>p, <2>1 DEF BelowBase, Addresses
  <2>3. FinalSeen'
    BY <1>p, <2>1 DEF FinalSeen, Addresses
  <2> QED BY <2>1, <2>2, <2>3 DEF GroupInv, Unflagged, Flagged, FirstFlagged
<1>13. CASE pc' \in {"ready", "returned"}
  BY <1>13 DEF GroupInv, BelowBase, Unflagged, Flagged, FirstFlagged, FinalSeen
<1>14. CASE UNCHANGED vars
  <2>1. UNCHANGED <<pc, len, data, cell, base, i, pending, pulses, remaining, firstBad>>
    BY <1>14 DEF vars
  <2>2. GroupLen' = GroupLen
    BY <1>c, <2>1
  <2> QED BY <1>d, <1>p, <2>1, <2>2 DEF GroupInv, BelowBase, Unflagged, Flagged,
      FirstFlagged, FinalSeen, Addresses
<1>15. EndCommand \/ OutOfPulses \/ OutOfEnergy \/ BlockDone \/ FinalMisses \/ FinalDone
         \/ Return =>
         pc' \in {"ready", "returned"}
  BY DEF EndCommand, OutOfPulses, OutOfEnergy, BlockDone, FinalMisses, FinalDone, Return,
      Fail, Succeed
<1> QED BY <1>1, <1>2, <1>3, <1>4, <1>5, <1>6, <1>7, <1>8, <1>9, <1>10, <1>11, <1>12,
    <1>13,
  <1>14, <1>15 DEF Next, Work

-----------------------------------------------------------------------------
(* What the block's outcome says of it: the last group converged, or every byte was read
   once more, or a budget ran out on the first byte the scan flagged. *)
LEMMA OutcomeStep ==
  ASSUME IInv, [Next]_vars PROVE SuccessIsProgrammed' /\ FailureNamesFirstBad'
<1>a. /\ TypeOK /\ PlaceInv /\ CountInv /\ GroupInv
      /\ SuccessIsProgrammed /\ FailureNamesFirstBad
  BY DEF IInv
<1>1. CASE BlockDone /\ UNCHANGED row
  <2>1. /\ pc = "group" /\ base >= len /\ ~FinalVerify /\ outcome' = "ok"
        /\ UNCHANGED <<row, len, data, cell>>
    BY <1>1 DEF BlockDone, Succeed, block
  <2>2. \A a \in Addresses : AtTarget(a)
    BY <1>a, <2>1 DEF TypeOK, GroupInv, BelowBase, Addresses
  <2>3. SuccessIsProgrammed'
    BY <2>1, <2>2 DEF SuccessIsProgrammed, AtTarget, Addresses, FinalVerify
  <2> QED BY <2>1, <2>3 DEF FailureNamesFirstBad
<1>2. CASE FinalDone /\ UNCHANGED row
  <2>1. pc = "final" /\ i = len /\ outcome' = "ok" /\ UNCHANGED <<row, len, data, cell>>
    BY <1>2 DEF FinalDone, Succeed, block
  <2>2. \A a \in Addresses : cell[a] = data[a]
    BY <1>a, <2>1 DEF TypeOK, GroupInv, FinalSeen, Addresses
  <2>3. SuccessIsProgrammed'
    BY <2>1, <2>2 DEF SuccessIsProgrammed, Addresses
  <2> QED BY <2>1, <2>3 DEF FailureNamesFirstBad
<1>3. CASE OutOfPulses \/ OutOfEnergy
  <2>1. /\ pc = "scan" /\ i = GroupLen /\ remaining # 0
        /\ outcome' \in {"max_pulses", "energy_cap"}
        /\ regulator' = FALSE /\ route' = FALSE
        /\ UNCHANGED <<len, data, cell, base, pending, pulses, firstBad, count>>
    BY <1>3 DEF OutOfPulses, OutOfEnergy, ScanDone, Fail, block, loop, scan, tally
  <2>2. /\ GroupLen \in 1..Group /\ base + GroupLen <= len
        /\ \A k \in 0..(GroupLen - 1) : base + k \in Addresses
        /\ \A k \in pending : k \in 0..(GroupLen - 1) /\ data[base + k] # Erased
    BY <1>a, <2>1, GroupShape
  <2>3. /\ firstBad - base \in pending
        /\ \A k \in pending : base + k >= firstBad
    BY <1>a, <2>1 DEF GroupInv, FirstFlagged
  <2>4. base \in Nat /\ firstBad \in Nat /\ len \in Nat
    BY <1>a, ProgramAssumption DEF TypeOK
  <2>5. base + (firstBad - base) = firstBad
    BY <2>4
  <2>6. firstBad \in Addresses
    BY <2>2, <2>3, <2>5
  <2>7. cell[firstBad] # data[firstBad]
    <3>1. cell[base + (firstBad - base)] # data[base + (firstBad - base)]
      BY <1>a, <2>1, <2>2, <2>3 DEF GroupInv, Flagged
    <3> QED BY <2>5, <3>1
  <2>8. count[firstBad] = pulses
    <3>1. count[base + (firstBad - base)] = pulses
      BY <1>a, <2>1, <2>3 DEF CountInv
    <3> QED BY <2>5, <3>1
  <2>9. ASSUME NEW a \in 0..(firstBad - 1) PROVE AtTarget(a)
    <3>1. CASE a < base
      BY <1>a, <2>1, <2>4, <2>6, <3>1 DEF GroupInv, BelowBase, Addresses
    <3>2. CASE a >= base
      <4>1. /\ a - base \in 0..(GroupLen - 1) /\ a - base \notin pending
            /\ base + (a - base) = a
        BY <2>2, <2>3, <2>4, <3>2
      <4>2. AtTarget(base + (a - base))
        <5>1. a - base < i
          BY <2>1, <2>2, <4>1
        <5> QED BY <1>a, <2>1, <4>1, <5>1 DEF GroupInv, Unflagged
      <4> QED BY <4>1, <4>2
    <3> QED BY <2>4, <3>1, <3>2
  <2>10. FailureNamesFirstBad'
    BY <2>1, <2>6, <2>7, <2>8, <2>9 DEF FailureNamesFirstBad, AtTarget, Addresses
  <2> QED BY <2>1, <2>10 DEF SuccessIsProgrammed
<1>4. CASE outcome' \in {"none", "verify"}
  BY <1>4 DEF SuccessIsProgrammed, FailureNamesFirstBad
<1>5. CASE UNCHANGED vars
  <2>1. UNCHANGED <<row, len, data, cell, pulses, firstBad, regulator, route, outcome, count>>
    BY <1>5 DEF vars, tally
  <2> QED BY <1>a, <2>1 DEF SuccessIsProgrammed, FailureNamesFirstBad, Addresses,
      FinalVerify
<1>6. pc # "returned" => outcome = "none"
  BY <1>a DEF PlaceInv
<1>7. \/ EndCommand \/ BlockStart \/ GroupStart \/ ScanSkips \/ ScanMatches \/ ScanMisses
      \/ Converged \/ RaiseRoute \/ PulseSkips \/ Strobe \/ LowerRoute \/ StartFinal
      \/ FinalMatches \/ FinalMisses \/ Return
      => outcome' \in {"none", "verify"}
  BY <1>6 DEF EndCommand, BlockStart, GroupStart, ScanSkips, ScanMatches, ScanMisses,
      Converged, ScanDone, RaiseRoute, PulseSkips, Strobe, LowerRoute, StartFinal,
      FinalMatches, FinalMisses, Fail, Return, NextByte
<1> QED BY <1>1, <1>2, <1>3, <1>4, <1>5, <1>7 DEF Next, Work

LEMMA InitHolds == Init => IInv
<1> SUFFICES ASSUME Init PROVE IInv
  OBVIOUS
<1>1. /\ row \in Rows /\ pc = "ready" /\ len = 0 /\ outcome = "none" /\ pending = {}
      /\ base = 0 /\ i = 0 /\ pulses = 0 /\ spent = 0 /\ remaining = 0 /\ firstBad = 0
      /\ data = <<>> /\ cell = <<>> /\ count = <<>> /\ reads = <<>>
      /\ regulator = FALSE /\ route = FALSE
  BY DEF Init
<1>2. /\ Group \in Nat \ {0} /\ MaxBlock \in Nat /\ row.maxPulses \in 0..255
  BY <1>1, ProgramAssumption, RowType
<1>3. TypeOK
  <2>1. <<>> \in [0..(0 - 1) -> Byte] /\ <<>> \in [0..(0 - 1) -> Nat]
    BY EmptyBuffer
  <2>2. /\ data \in [Addresses -> Byte] /\ cell \in [Addresses -> Byte]
        /\ count \in [Addresses -> Nat] /\ reads \in [Addresses -> Nat]
    BY <1>1, <2>1 DEF Addresses
  <2>3. pulses \in 0..MaxPulses
    <3>1. pulses = 0 /\ MaxPulses \in 0..255
      BY <1>1, <1>2 DEF MaxPulses
    <3> QED BY <3>1
  <2>4. regulator \in BOOLEAN /\ route \in BOOLEAN
    BY <1>1
  <2> QED BY <1>1, <1>2, <2>2, <2>3, <2>4 DEF TypeOK
<1>4. PlaceInv
  BY <1>1 DEF PlaceInv
<1>5. CountInv
  BY <1>1 DEF CountInv, Addresses
<1>6. GroupInv
  BY <1>1 DEF GroupInv, BelowBase, Unflagged, Flagged, FirstFlagged, FinalSeen
<1> QED BY <1>1, <1>3, <1>4, <1>5, <1>6 DEF IInv, SuccessIsProgrammed, FailureNamesFirstBad

(* The invariant of the block: where the loop is, what has been counted, and what each
   group of bytes owes to the passes made over it. *)
THEOREM Invariance == Spec => []IInv
<1>1. IInv /\ [Next]_vars => IInv'
  BY TypeStep, PlaceStep, CountStep, GroupStep, OutcomeStep DEF IInv
<1> QED BY InitHolds, <1>1, PTL DEF Spec

(* The indices stay inside the block and the group, the pulse counter inside its eight
   bits, for every block, row of parameters and chip. *)
THEOREM TypeCorrect == Spec => []TypeOK
<1>1. IInv => TypeOK
  BY DEF IInv
<1> QED BY Invariance, <1>1, PTL

(* eprom.cpp, "the budgets are per byte": no byte of any block gets more strobes than its
   row allows, nor another one once its share of the energy cap is used up. *)
THEOREM PulsesAreBounded == Spec => []PulsesBounded
<1>1. IInv => PulsesBounded
  BY DEF IInv, CountInv, Budgeted, PulsesBounded
<1> QED BY Invariance, <1>1, PTL

(* A block reported good holds its data. *)
THEOREM SuccessMeansProgrammed == Spec => []SuccessIsProgrammed
<1>1. IInv => SuccessIsProgrammed
  BY DEF IInv
<1> QED BY Invariance, <1>1, PTL

(* A block that ran out of its budget names the first byte that is short. *)
THEOREM FailureIsLocated == Spec => []FailureNamesFirstBad
<1>1. IInv => FailureNamesFirstBad
  BY DEF IInv
<1> QED BY Invariance, <1>1, PTL

(* The pulse pass strobes the flagged bytes only, with the voltage on the part. *)
THEOREM OnlyShortBytesArePulsed == Spec => OnlyShortBytesPulsed
<1>1. ASSUME IInv, [Next]_vars, NEW a \in Addresses, pc = "pulse", count'[a] # count[a]
      PROVE  data[a] # Erased /\ cell[a] # data[a] /\ regulator /\ route
  <2>1. regulator /\ route
    BY <1>1 DEF IInv, PlaceInv
  <2>2. Strobe
    <3>1. ~UNCHANGED count
      BY <1>1
    <3> QED BY <1>1, <3>1 DEF Next, Work, vars, tally, EndCommand, BlockStart, GroupStart,
        ScanSkips, ScanMatches, ScanMisses, Converged, ScanDone, OutOfPulses, OutOfEnergy,
        Fail, RaiseRoute, PulseSkips, LowerRoute, BlockDone, StartFinal, FinalMatches,
        FinalMisses, FinalDone, Succeed, Return
  <2>3. a = base + i
    BY <1>1, <2>2 DEF Strobe, At, IInv, TypeOK
  <2>4. data[base + i] # Erased /\ cell[base + i] # data[base + i]
    BY <1>1, <2>2 DEF Strobe, IInv, CountInv, GroupInv, Flagged, TypeOK
  <2> QED BY <2>1, <2>3, <2>4
<1>2. IInv /\ [Next]_vars =>
        [\A a \in Addresses : pc = "pulse" /\ count'[a] # count[a] =>
           data[a] # Erased /\ cell[a] # data[a] /\ regulator /\ route]_vars
  BY <1>1
<1> QED BY Invariance, <1>2, PTL DEF Spec, OnlyShortBytesPulsed

(* eprom.h: no verify read is made with the programming route up. *)
THEOREM ReadsAreMadeWithRouteDown == Spec => ReadsWithRouteDown
<1>1. IInv /\ [Next]_vars =>
        [\A a \in Addresses : pc \in {"scan", "final"} /\ reads'[a] # reads[a] => ~route]_vars
  BY DEF IInv, PlaceInv
<1> QED BY Invariance, <1>1, PTL DEF Spec, ReadsWithRouteDown
================================================================================
