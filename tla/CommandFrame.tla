------------------------------ MODULE CommandFrame ------------------------------
(***************************************************************************)
(* The bus part of a memory command's frame: what validate_memory accepts, *)
(* what apply_memory derives from it, and how every byte's address is put  *)
(* on the bus by it (mem_util_remap_address_bus).  An address, and a word  *)
(* of the bus, is the set of its lines that are high.                      *)
(***************************************************************************)
EXTENDS Integers, FiniteSets, Sequences, SequencesExt

CONSTANTS
  AddressLines,  \* CF_ADDRESS_LINES
  BusLines,      \* CF_BUS_LINES
  PassThrough,   \* the address bits a frame without lines passes: 16
  Frames         \* what the host may send

Absent == -1   \* CF_LINE_ABSENT

LineByte == {Absent} \cup Nat

ASSUME FrameAssumption ==
  /\ AddressLines \in Nat /\ BusLines \in Nat /\ PassThrough \in Nat
  /\ \A f \in Frames :
       /\ f.lines \in [0..(AddressLines - 1) -> LineByte]
       /\ f.rw \in LineByte /\ f.vpp \in LineByte /\ f.static \subseteq Nat
       /\ f.p1 \in BOOLEAN   \* its pins take VPP on this line: using_p1_as_vpp

VARIABLES
  bus   \* handle->bus_config

NoBus == [count |-> 0]

-----------------------------------------------------------------------------
(* validate_memory, of the bus part. *)
Gap(f) == \E i, j \in DOMAIN f.lines : i < j /\ f.lines[i] = Absent /\ f.lines[j] # Absent
Duplicate(f) ==
  \E i, j \in DOMAIN f.lines : i < j /\ f.lines[i] = f.lines[j] /\ f.lines[i] # Absent
ValidLine(n) == n = Absent \/ n < BusLines

Accepted(f) ==
  /\ ~Gap(f) /\ ~Duplicate(f)
  /\ \A i \in DOMAIN f.lines : ValidLine(f.lines[i])
  /\ ValidLine(f.rw) /\ ValidLine(f.vpp)
  /\ \A n \in f.static : n < BusLines

InUse(f) == {i \in DOMAIN f.lines : f.lines[i] # Absent}
Straight(f) == {i \in DOMAIN f.lines : f.lines[i] = i}

\* Slip: lines that map to themselves count wherever they are.
MatchingAnywhere(f) == Cardinality(Straight(f))

\* The leading lines that map An to bus line n.
Matching(f) ==
  CHOOSE m \in 0..AddressLines :
    /\ 0..(m - 1) \subseteq Straight(f)
    /\ m \notin Straight(f)

(* apply_memory, and mem_util_set_read_high_mask. *)
Applied(f) ==
  [lines |-> f.lines, count |-> Cardinality(InUse(f)), matching |-> Matching(f),
   mask |-> IF InUse(f) = {} THEN 0..(PassThrough - 1) ELSE {f.lines[i] : i \in InUse(f)},
   rw |-> f.rw, vpp |-> f.vpp, static |-> f.static, p1 |-> f.p1]

\* A refused frame writes no field of the handle.
Decode ==
  \E f \in Frames : bus' = IF Accepted(f) THEN Applied(f) ELSE bus

FrameInit == bus = NoBus
FrameNext == Decode

-----------------------------------------------------------------------------
Line(n) == IF n = Absent THEN {} ELSE {n}

(* What an access drives whatever its address: the write line on a read, a VPP line
   that carries no voltage, and on a read one that could but may be driven. *)
Driven(access, mayDriveVpp) ==
  (IF access = "read" THEN Line(bus.rw) ELSE {})
    \cup (IF ~bus.p1 \/ (access = "read" /\ mayDriveVpp) THEN Line(bus.vpp) ELSE {})
    \cup bus.static

\* The bus lines of the address bits from matching on, one after the other.
Moved(address) ==
  LET Move(word, i) ==
        (word \ {bus.lines[i]}) \cup (IF i \in address THEN {bus.lines[i]} ELSE {})
  IN  FoldLeft(Move, bus.mask \cap address,
               [k \in 1..(bus.count - bus.matching) |-> bus.matching + k - 1])

(* mem_util_remap_address_bus *)
Remap(address, access, mayDriveVpp) == Moved(address) \cup Driven(access, mayDriveVpp)

(* memory.cpp: address_lines names the bus line of every address bit.  Whatever
   frame was accepted last, and whichever were refused since, every access selects the
   lines its address bits are mapped to, and no other line but the driven ones. *)
BusIsTheMap ==
  bus # NoBus =>
    \A address \in SUBSET (0..AddressLines), access \in {"read", "write"}, may \in BOOLEAN :
      Remap(address, access, may) \ Driven(access, may) =
        (IF bus.count = 0 THEN address \cap 0..(PassThrough - 1)
         ELSE {bus.lines[i] : i \in address \cap 0..(bus.count - 1)}) \ Driven(access, may)
=================================================================================
