----------------------------- MODULE HvRailProofs -----------------------------
(* The control register's copy and its latch agree, an idle programmer holds no voltage,
   strobes are made at their level, and reads with the rail off pin 1: for every set of
   boards and parts and every discharge time. *)
EXTENDS DevTools, SequenceTheorems, TLAPS

(* Between commands the copy is 0 and no callback is under way; so a new revision finds
   nothing in the latch for it to misread. *)
IdleIsClear == cmd = "IDLE" => cache = {} /\ todo = <<>> /\ phase = 2

RailInv == LatchIsMapped /\ IdleIsClear

\* On no revision does an empty register turn anything on.
LEMMA NothingMapped == ASSUME NEW rev PROVE Mapped(rev, {}) = {}
  BY DEF Mapped

\* Whatever is written, the latch follows the copy.
LEMMA WritesAreMapped ==
  ASSUME LatchIsMapped, NEW bits, WriteControl(bits), revision' = revision
  PROVE  LatchIsMapped'
  BY DEF LatchIsMapped, WriteControl, Mapped

LEMMA AddressesAreMapped ==
  ASSUME LatchIsMapped, NEW access, SetAddress(access), revision' = revision
  PROVE  LatchIsMapped'
  BY WritesAreMapped DEF SetAddress

LEMMA InitRail == RailInit => RailInv
  BY NothingMapped DEF RailInit, RailInv, LatchIsMapped, IdleIsClear

LEMMA NextRail == RailInv /\ [RailNext]_railVars => RailInv'
<1> SUFFICES ASSUME RailInv, [RailNext]_railVars PROVE RailInv'
  OBVIOUS
<1> USE DEF RailInv
<1>1. CASE StartCommand
  <2>1. LatchIsMapped'
    BY <1>1, WritesAreMapped DEF StartCommand
  <2>2. cmd' # "IDLE"
    BY <1>1 DEF StartCommand, MemoryCmds
  <2> QED BY <2>1, <2>2 DEF IdleIsClear
<1>2. CASE StartVoltage
  <2>1. LatchIsMapped'
    BY <1>2, WritesAreMapped DEF StartVoltage
  <2>2. cmd' # "IDLE"
    BY <1>2 DEF StartVoltage, VoltageCmds
  <2> QED BY <2>1, <2>2 DEF IdleIsClear
<1>3. CASE OverrideRevision
  <2>1. cache = {} /\ cache' = {} /\ latch' = latch
    BY <1>3 DEF OverrideRevision, IdleIsClear, rail
  <2>2. LatchIsMapped'
    BY <2>1, NothingMapped DEF LatchIsMapped
  <2> QED BY <1>3, <2>1, <2>2 DEF OverrideRevision, IdleIsClear, op
<1>4. CASE InitCallback \/ MainCallback \/ EndCallback
  BY <1>4 DEF InitCallback, MainCallback, EndCallback, LatchIsMapped, IdleIsClear, rail
<1>5. CASE SetControl \/ ClearControl \/ BlockRoute \/ Access \/ EraseStrobe
  <2>1. cmd # "IDLE" /\ cmd' = cmd /\ revision' = revision
    BY <1>5 DEF SetControl, ClearControl, BlockRoute, Access, EraseStrobe, Step, Same,
                IdleIsClear
  <2>2. CASE SetControl
    BY <2>1, <2>2, WritesAreMapped DEF SetControl, IdleIsClear
  <2>3. CASE ClearControl
    BY <2>1, <2>3, WritesAreMapped DEF ClearControl, IdleIsClear
  <2>4. CASE BlockRoute
    <3>1. CASE "REG" \in cache
      BY <2>1, <2>4, <3>1 DEF BlockRoute, IdleIsClear, LatchIsMapped, rail
    <3>2. CASE "REG" \notin cache
      BY <2>1, <2>4, <3>2, WritesAreMapped DEF BlockRoute, IdleIsClear
    <3> QED BY <3>1, <3>2
  <2>5. CASE Access
    BY <2>1, <2>5, AddressesAreMapped DEF Access, IdleIsClear
  <2>6. CASE EraseStrobe
    BY <2>1, <2>6 DEF EraseStrobe, IdleIsClear, LatchIsMapped, rail
  <2> QED BY <1>5, <2>2, <2>3, <2>4, <2>5, <2>6
<1>6. CASE CommandDone
  <2>1. LatchIsMapped'
    BY <1>6, WritesAreMapped DEF CommandDone
  <2>2. IdleIsClear'
    BY <1>6 DEF CommandDone, WriteControl, IdleIsClear
  <2> QED BY <2>1, <2>2
<1>7. CASE Reset
  BY <1>7, NothingMapped DEF Reset, LatchIsMapped, IdleIsClear
<1>8. CASE Tick
  BY <1>8 DEF Tick, LatchIsMapped, IdleIsClear, op
<1>9. CASE UNCHANGED railVars
  BY <1>9 DEF railVars, LatchIsMapped, IdleIsClear
<1> QED BY <1>1, <1>2, <1>3, <1>4, <1>5, <1>6, <1>7, <1>8, <1>9 DEF RailNext

LEMMA RailHolds == RailSpec => []RailInv
  BY InitRail, NextRail, PTL DEF RailSpec

(* rurp_write_to_register skips the write of a value its copy already holds, and the
   mapping behind it may change with a CONFIG command: the latch is never stale. *)
THEOREM LatchFollowsRegister == RailSpec => []LatchIsMapped
  BY RailHolds, PTL DEF RailInv

(* After command_done, however the command ended, and after a reset, the regulator and
   every route to the socket are off: of any part, on any board. *)
THEOREM IdleHoldsNoVoltage == RailSpec => []IdleIsSafe
<1>1. RailInv => IdleIsSafe
  BY NothingMapped DEF RailInv, LatchIsMapped, IdleIsClear, IdleIsSafe
<1> QED BY <1>1, RailHolds, PTL

-----------------------------------------------------------------------------
(* The same with the developers' commands: what they write through the copy. *)
LEMMA StartKeepsRail ==
  ASSUME RailInv, NEW command, command # "IDLE", NEW writes, Start(command, writes)
  PROVE  RailInv'
  BY DEF Start, RailInv, LatchIsMapped, IdleIsClear, rail

LEMMA NextDevRail == RailInv /\ [DevNext]_railVars => RailInv'
<1> SUFFICES ASSUME RailInv, [DevNext]_railVars PROVE RailInv'
  OBVIOUS
<1>1. CASE [RailNext]_railVars
  BY <1>1, NextRail
<1>2. CASE SetRegisters \/ SetDevAddress \/ ReadAdc
  <2>1. CASE SetRegisters
    BY <2>1, StartKeepsRail DEF SetRegisters
  <2>2. CASE SetDevAddress
    BY <2>2, StartKeepsRail DEF SetDevAddress
  <2>3. CASE ReadAdc
    BY <2>3, StartKeepsRail DEF ReadAdc
  <2> QED BY <1>2, <2>1, <2>2, <2>3
<1>3. CASE WriteRegister
  <2>1. cmd # "IDLE" /\ cmd' = cmd /\ revision' = revision
    BY <1>3 DEF WriteRegister, Step, Same, RailInv, IdleIsClear
  <2>2. LatchIsMapped'
    BY <1>3, <2>1, WritesAreMapped DEF WriteRegister, RailInv
  <2> QED BY <2>1, <2>2 DEF RailInv, IdleIsClear
<1> QED BY <1>1, <1>2, <1>3 DEF DevNext

LEMMA DevRailHolds == DevSpec => []RailInv
  BY InitRail, NextDevRail, PTL DEF DevSpec

(* dev_tools.cpp: an address, a sweep of the rail, or a register set through the copy
   leaves no latch stale, in any order with the commands of a release build. *)
THEOREM DevLatchFollowsRegister == DevSpec => []LatchIsMapped
  BY DevRailHolds, PTL DEF RailInv

(* And command_done ends each of them with no voltage on: what a register set past
   the copy breaks. *)
THEOREM DevIdleHoldsNoVoltage == DevSpec => []IdleIsSafe
<1>1. RailInv => IdleIsSafe
  BY NothingMapped DEF RailInv, LatchIsMapped, IdleIsClear, IdleIsSafe
<1> QED BY <1>1, DevRailHolds, PTL

-----------------------------------------------------------------------------
(***************************************************************************)
(* What the drivers' scripts do to the register, for a part and a board,   *)
(* by proof outlines: an assertion before each operation and after the     *)
(* last, each operation taking one into the next.                          *)
(***************************************************************************)
Ops == [t : {"on", "off", "route", "read", "write", "pulse", "address", "erase", "set"},
        bits : SUBSET Bits]
Accesses == {"read", "write", "pulse", "address"}

RoutedFor(part, bits) ==
  IF part.family = "eprom" /\ part.p1 /\ "VPE" \in bits
  THEN (bits \ {"VPE"}) \cup {"P1"} ELSE bits

\* The register can go from c to d in operation o.
Effect(part, rev, o, c, d) ==
  /\ o.t = "on" => d = c \cup RoutedFor(part, o.bits)
  /\ o.t = "off" => d = c \ RoutedFor(part, o.bits)
  /\ o.t = "route" => d = IF "REG" \in c THEN c ELSE c \cup RoutedFor(part, o.bits)
  /\ o.t = "erase" => d = c
  /\ o.t \in Accesses =>
       /\ \A b \in {"A9", "VPE", "P1", "REG"} : b \in d <=> b \in c
       /\ "DROP" \in d <=> "DROP" \in c /\ (part.pins # 32 \/ rev = "r2")
       /\ "A16" \in d => part.pins = 32 /\ o.t # "address"
       /\ "A18" \in d =>
            \/ "A18" \in part.lines
            \/ o.t = "read" /\ VppOnA18(part) /\ (rev = "r2" => "REG" \notin c)

\* The families with a VPP pin; a part of theirs, or without one, whose address does not
\* reach the switch; a register that does not put the rail on pin 1 of such a part.
VppFamilies == {"eprom", "intel"}
Ordinary(part) == (part.p1 => part.family \in VppFamilies) /\ "A18" \notin part.lines
Clear(part, rev, c) == Ordinary(part) /\ rev = "r2" => "A18" \notin c

SwitchOf(part) == IF part.p1 THEN "P1" ELSE "VPE"

\* The register the chip may be strobed with.
Fine(part, rev, access, d) ==
  /\ access = "read" => Clear(part, rev, d)
  /\ access = "pulse" /\ (part.pins = 32 => rev = "r2") =>
       /\ "REG" \in d /\ SwitchOf(part) \in d /\ ("DROP" \in d <=> "DROP" \in part.route)
       /\ rev # "r2" => "A16" \notin d
  /\ access = "erase" =>
       /\ "REG" \in d /\ "A9" \in d /\ SwitchOf(part) \in d /\ "DROP" \notin d
       /\ rev # "r2" => "A16" \notin d

\* From any register of P, operation o leaves one of Q, and one its strobe may be made with.
Triple(part, rev, o, P, Q) ==
  \A c \in P, d \in SUBSET Bits :
    Effect(part, rev, o, c, d) => Fine(part, rev, o.t, d) /\ d \in Q

\* Script s has an outline that begins with P and ends with Q.
Runs(part, rev, s, P, Q) ==
  \E f :
    /\ P \subseteq f[1] /\ f[Len(s) + 1] \subseteq Q
    /\ \A k \in 1..Len(s) : Triple(part, rev, s[k], f[k], f[k + 1])

(* An outline of nothing; of one script after another; of what is left of a script after
   its first operation. *)
LEMMA RunsNothing ==
  ASSUME NEW part, NEW rev, NEW P, NEW Q, P \subseteq Q
  PROVE  Runs(part, rev, <<>>, P, Q)
<1> DEFINE f == [k \in {1} |-> P]
<1>1. P \subseteq f[1] /\ f[Len(<<>>) + 1] \subseteq Q
  OBVIOUS
<1>2. \A k \in 1..Len(<<>>) : Triple(part, rev, <<>>[k], f[k], f[k + 1])
  OBVIOUS
<1> QED BY <1>1, <1>2 DEF Runs

LEMMA RunsThen ==
  ASSUME NEW part, NEW rev, NEW s \in Seq(Ops), NEW t \in Seq(Ops), NEW P, NEW Q, NEW R,
         Runs(part, rev, s, P, Q), Runs(part, rev, t, Q, R)
  PROVE  Runs(part, rev, s \o t, P, R)
<1>1. PICK f : /\ P \subseteq f[1] /\ f[Len(s) + 1] \subseteq Q
               /\ \A k \in 1..Len(s) : Triple(part, rev, s[k], f[k], f[k + 1])
  BY DEF Runs
<1>2. PICK g : /\ Q \subseteq g[1] /\ g[Len(t) + 1] \subseteq R
               /\ \A k \in 1..Len(t) : Triple(part, rev, t[k], g[k], g[k + 1])
  BY DEF Runs
<1> DEFINE h == [k \in 1..(Len(s) + Len(t) + 1) |-> IF k <= Len(s) THEN f[k] ELSE g[k - Len(s)]]
<1>3. Len(s \o t) = Len(s) + Len(t) /\ Len(s) \in Nat /\ Len(t) \in Nat
  OBVIOUS
<1>4. P \subseteq h[1]
  <2>1. CASE Len(s) = 0
    <3>1. h[1] = g[1 - 0]
      BY <1>3, <2>1
    <3> QED BY <1>1, <1>2, <2>1, <3>1
  <2>2. CASE Len(s) > 0
    BY <1>1, <1>3, <2>2
  <2> HIDE DEF h
  <2> QED BY <1>3, <2>1, <2>2
<1>5. h[Len(s \o t) + 1] \subseteq R
  <2>1. h[Len(s) + Len(t) + 1] = g[Len(t) + 1]
    BY <1>3
  <2> QED BY <1>2, <1>3, <2>1
<1>6. ASSUME NEW k \in 1..Len(s \o t) PROVE Triple(part, rev, (s \o t)[k], h[k], h[k + 1])
  <2>1. CASE k < Len(s)
    <3>1. (s \o t)[k] = s[k] /\ h[k] = f[k] /\ h[k + 1] = f[k + 1]
      BY <1>3, <2>1
    <3> QED BY <1>1, <1>3, <2>1, <3>1
  <2>2. CASE k = Len(s)
    <3>1. (s \o t)[k] = s[k] /\ h[k] = f[k] /\ h[k + 1] = g[1]
      BY <1>3, <2>2
    <3>2. Triple(part, rev, s[k], f[k], f[k + 1]) /\ f[k + 1] \subseteq g[1]
      BY <1>1, <1>2, <1>3, <2>2
    <3> QED BY <3>1, <3>2 DEF Triple
  <2>3. CASE k > Len(s)
    <3>1. /\ (s \o t)[k] = t[k - Len(s)] /\ h[k] = g[k - Len(s)]
          /\ h[k + 1] = g[k - Len(s) + 1] /\ k - Len(s) \in 1..Len(t)
      BY <1>3, <2>3
    <3> QED BY <1>2, <3>1
  <2> QED BY <1>3, <2>1, <2>2, <2>3
<1> HIDE DEF h
<1> QED BY <1>4, <1>5, <1>6 DEF Runs

LEMMA RunsStep ==
  ASSUME NEW part, NEW rev, NEW s \in Seq(Ops), s # <<>>, NEW Q, NEW c, NEW d \in SUBSET Bits,
         Runs(part, rev, s, {c}, Q), Effect(part, rev, Head(s), c, d)
  PROVE  Fine(part, rev, Head(s).t, d) /\ Runs(part, rev, Tail(s), {d}, Q)
<1>1. PICK f : /\ {c} \subseteq f[1] /\ f[Len(s) + 1] \subseteq Q
               /\ \A k \in 1..Len(s) : Triple(part, rev, s[k], f[k], f[k + 1])
  BY DEF Runs
<1>2. Len(s) \in Nat \ {0} /\ Head(s) = s[1] /\ Len(Tail(s)) = Len(s) - 1
  OBVIOUS
<1>3. Fine(part, rev, Head(s).t, d) /\ d \in f[2]
  <2>1. Triple(part, rev, s[1], f[1], f[1 + 1])
    BY <1>1, <1>2
  <2> QED BY <1>1, <1>2, <2>1 DEF Triple
<1> DEFINE h == [k \in 1..Len(s) |-> f[k + 1]]
<1>4. {d} \subseteq h[1] /\ h[Len(Tail(s)) + 1] \subseteq Q
  BY <1>1, <1>2, <1>3
<1>5. ASSUME NEW k \in 1..Len(Tail(s)) PROVE Triple(part, rev, Tail(s)[k], h[k], h[k + 1])
  <2>1. /\ k + 1 \in 1..Len(s) /\ Tail(s)[k] = s[k + 1]
        /\ h[k] = f[k + 1] /\ h[k + 1] = f[k + 1 + 1]
    BY <1>2
  <2> QED BY <1>1, <2>1
<1> HIDE DEF h
<1> QED BY <1>3, <1>4, <1>5 DEF Runs

(* The first assertion may be strengthened, the last weakened. *)
LEMMA RunsFrom ==
  ASSUME NEW part, NEW rev, NEW s, NEW P, NEW Q, NEW c \in P, Runs(part, rev, s, P, Q)
  PROVE  Runs(part, rev, s, {c}, Q)
BY DEF Runs

LEMMA RunsTo ==
  ASSUME NEW part, NEW rev, NEW s, NEW P, NEW Q, NEW R, Runs(part, rev, s, P, Q), Q \subseteq R
  PROVE  Runs(part, rev, s, P, R)
BY DEF Runs

(* Outlines of one, two and four operations. *)
LEMMA Runs1 ==
  ASSUME NEW part, NEW rev, NEW P0, NEW P1, NEW o1, Triple(part, rev, o1, P0, P1)
  PROVE  Runs(part, rev, <<o1>>, P0, P1)
<1> DEFINE f == <<P0, P1>>
<1>1. P0 \subseteq f[1] /\ f[Len(<<o1>>) + 1] \subseteq P1
  OBVIOUS
<1>2. \A k \in 1..Len(<<o1>>) : Triple(part, rev, <<o1>>[k], f[k], f[k + 1])
  OBVIOUS
<1> QED BY <1>1, <1>2 DEF Runs

LEMMA Runs2 ==
  ASSUME NEW part, NEW rev, NEW P0, NEW P1, NEW P2, NEW o1, NEW o2,
         Triple(part, rev, o1, P0, P1), Triple(part, rev, o2, P1, P2)
  PROVE  Runs(part, rev, <<o1, o2>>, P0, P2)
<1> DEFINE f == <<P0, P1, P2>>
           s == <<o1, o2>>
<1>1. P0 \subseteq f[1] /\ f[Len(s) + 1] \subseteq P2
  OBVIOUS
<1>2. \A k \in 1..Len(s) : Triple(part, rev, s[k], f[k], f[k + 1])
  OBVIOUS
<1> QED BY <1>1, <1>2 DEF Runs

LEMMA Runs4 ==
  ASSUME NEW part, NEW rev, NEW P0, NEW P1, NEW P2, NEW P3, NEW P4,
         NEW o1 \in Ops, NEW o2 \in Ops, NEW o3 \in Ops, NEW o4 \in Ops,
         Triple(part, rev, o1, P0, P1), Triple(part, rev, o2, P1, P2),
         Triple(part, rev, o3, P2, P3), Triple(part, rev, o4, P3, P4)
  PROVE  Runs(part, rev, <<o1, o2, o3, o4>>, P0, P4)
<1>1. <<o1, o2, o3, o4>> = <<o1, o2>> \o <<o3, o4>>
  OBVIOUS
<1>2. Runs(part, rev, <<o1, o2>>, P0, P2) /\ Runs(part, rev, <<o3, o4>>, P2, P4)
  BY Runs2
<1>3. <<o1, o2>> \in Seq(Ops) /\ <<o3, o4>> \in Seq(Ops)
  OBVIOUS
<1> QED BY <1>1, <1>2, <1>3, RunsThen

-----------------------------------------------------------------------------
(* The assertions between callbacks: nothing on; for an EPROM under programming either
   nothing or the route of its row; for an Intel flash the regulator. *)
Cold(part, rev) ==
  {c \in SUBSET Bits : Clear(part, rev, c) /\ "REG" \notin c /\ "DROP" \notin c}

AtLevel(part, rev, c) ==
  (part.pins = 32 => rev = "r2") => ("DROP" \in c <=> "DROP" \in part.route)

Routable(part, rev) ==
  {c \in SUBSET Bits : /\ Clear(part, rev, c)
                       /\ IF "REG" \in c THEN AtLevel(part, rev, c) ELSE "DROP" \notin c}
Hot(part, rev) == {c \in SUBSET Bits : Clear(part, rev, c) /\ "REG" \in c}
Any(part, rev) == {c \in SUBSET Bits : Clear(part, rev, c)}

OpOf(t, bits) == [t |-> t, bits |-> bits]

(* The EPROM driver's scripts (eprom.cpp): the rail test, the chip id, the erase and the
   block each return the register as they found it, and no strobe of theirs is made at a
   wrong level or with the rail on pin 1. *)
LEMMA ScriptsAreOps ==
  /\ \A bits \in SUBSET Bits : On(bits) \in Ops /\ Off(bits) \in Ops
  /\ \A t \in {"read", "write", "pulse", "address", "erase"} : Strobe(t) \in Ops
BY DEF On, Off, Strobe, Ops

LEMMA RunsRailTest ==
  ASSUME NEW part \in Chip, part.family = "eprom", NEW rev
  PROVE  Runs(part, rev, <<On(part.route), AllOff>>, Cold(part, rev), Cold(part, rev))
<1>1. Triple(part, rev, On(part.route), Cold(part, rev), Any(part, rev))
  BY DEF Triple, Effect, Fine, On, Cold, Any, Clear, Chip, RoutedFor, Accesses
<1>2. Triple(part, rev, AllOff, Any(part, rev), Cold(part, rev))
  BY DEF Triple, Effect, Fine, Off, AllOff, Cold, Any, Clear, Chip, RoutedFor, Accesses
<1> QED BY <1>1, <1>2, Runs2

LEMMA RunsEpromId ==
  ASSUME NEW part \in Chip, part.family = "eprom", NEW rev
  PROVE  Runs(part, rev, EpromId, Cold(part, rev), Cold(part, rev))
<1> DEFINE P == {c \in Hot(part, rev) : "DROP" \notin c}
<1>1. Triple(part, rev, On({"REG"}), Cold(part, rev), P)
  BY DEF Triple, Effect, Fine, On, Cold, Hot, Clear, Chip, RoutedFor, Accesses
<1>2. Triple(part, rev, On({"A9"}), P, P)
  BY DEF Triple, Effect, Fine, On, Hot, Clear, Chip, RoutedFor, Accesses
<1>3. Triple(part, rev, Strobe("read"), P, P)
  BY DEF Triple, Effect, Fine, Strobe, Hot, Clear, Ordinary, Chip, RoutedFor, Accesses
<1>4. Triple(part, rev, AllOff, P, Cold(part, rev))
  BY DEF Triple, Effect, Fine, Off, AllOff, Cold, Hot, Clear, Chip, RoutedFor, Accesses
<1>5. On({"REG"}) \in Ops /\ On({"A9"}) \in Ops /\ Strobe("read") \in Ops /\ AllOff \in Ops
  BY ScriptsAreOps DEF AllOff, Bits
<1> HIDE DEF P
<1> QED BY <1>1, <1>2, <1>3, <1>4, <1>5, Runs4 DEF EpromId

LEMMA RunsEpromErase ==
  ASSUME NEW part \in Chip, part.family = "eprom", NEW rev
  PROVE  Runs(part, rev, EpromErase, Cold(part, rev), Cold(part, rev))
<1> DEFINE P == {c \in Hot(part, rev) : "DROP" \notin c}
           Q == {c \in P : "A16" \notin c}
           R == {c \in Q : "A9" \in c /\ SwitchOf(part) \in c}
<1>1. Triple(part, rev, On({"REG"}), Cold(part, rev), P)
  BY DEF Triple, Effect, Fine, On, Cold, Hot, Clear, Chip, RoutedFor, Accesses
<1>2. Triple(part, rev, Strobe("address"), P, Q)
  BY DEF Triple, Effect, Fine, Strobe, Hot, Clear, Ordinary, Chip, RoutedFor, Accesses
<1>3. Triple(part, rev, On({"A9", "VPE"}), Q, R)
  BY DEF Triple, Effect, Fine, On, Hot, Clear, Chip, RoutedFor, Accesses, SwitchOf
<1>4. Triple(part, rev, Strobe("erase"), R, P)
  BY DEF Triple, Effect, Fine, Strobe, Hot, Clear, Ordinary, Chip, RoutedFor, Accesses
<1>5. Triple(part, rev, AllOff, P, Cold(part, rev))
  BY DEF Triple, Effect, Fine, Off, AllOff, Cold, Hot, Clear, Chip, RoutedFor, Accesses
<1>6. /\ On({"REG"}) \in Ops /\ Strobe("address") \in Ops /\ On({"A9", "VPE"}) \in Ops
      /\ Strobe("erase") \in Ops /\ AllOff \in Ops
  BY ScriptsAreOps DEF AllOff, Bits
<1> HIDE DEF P, Q, R
<1>7. Runs(part, rev, <<On({"REG"}), Strobe("address"), On({"A9", "VPE"}), Strobe("erase")>>,
           Cold(part, rev), P)
  BY <1>1, <1>2, <1>3, <1>4, <1>6, Runs4
<1>8. Runs(part, rev, <<AllOff>>, P, Cold(part, rev))
  BY <1>5, Runs1
<1>9. EpromErase =
        <<On({"REG"}), Strobe("address"), On({"A9", "VPE"}), Strobe("erase")>> \o <<AllOff>>
  BY <1>6 DEF EpromErase
<1>10. /\ <<On({"REG"}), Strobe("address"), On({"A9", "VPE"}), Strobe("erase")>> \in Seq(Ops)
       /\ <<AllOff>> \in Seq(Ops)
  BY <1>6
<1> QED BY <1>7, <1>8, <1>9, <1>10, RunsThen

LEMMA RunsEpromBlock ==
  ASSUME NEW part \in Chip, part.family = "eprom", NEW rev
  PROVE  Runs(part, rev,
              <<OpOf("route", part.route), Strobe("read"), On({"VPE"}), Strobe("pulse"),
                Off({"VPE"}), Strobe("read")>>,
              Routable(part, rev), Routable(part, rev))
<1> DEFINE P == {c \in Hot(part, rev) : AtLevel(part, rev, c)}
           Q == {c \in P : SwitchOf(part) \in c}
<1>1. Triple(part, rev, OpOf("route", part.route), Routable(part, rev), P)
  BY DEF Triple, Effect, Fine, OpOf, Routable, AtLevel, Hot, Clear, Chip, RoutedFor, Accesses
<1>2. Triple(part, rev, Strobe("read"), P, P)
  BY DEF Triple, Effect, Fine, Strobe, AtLevel, Hot, Clear, Ordinary, Chip, RoutedFor, Accesses
<1>3. Triple(part, rev, On({"VPE"}), P, Q)
  BY DEF Triple, Effect, Fine, On, AtLevel, Hot, Clear, Chip, RoutedFor, Accesses, SwitchOf
<1>4. Triple(part, rev, Strobe("pulse"), Q, P)
  BY DEF Triple, Effect, Fine, Strobe, AtLevel, Hot, Clear, Ordinary, Chip, RoutedFor,
         Accesses, SwitchOf
<1>5. Triple(part, rev, Off({"VPE"}), P, P)
  BY DEF Triple, Effect, Fine, Off, AtLevel, Hot, Clear, Chip, RoutedFor, Accesses
<1>6. P \subseteq Routable(part, rev)
  BY DEF Routable, Hot
<1>7. /\ OpOf("route", part.route) \in Ops /\ Strobe("read") \in Ops /\ On({"VPE"}) \in Ops
      /\ Strobe("pulse") \in Ops /\ Off({"VPE"}) \in Ops
  BY ScriptsAreOps DEF OpOf, Ops, Bits, Chip
<1>8. Triple(part, rev, Strobe("read"), P, Routable(part, rev))
  BY <1>2, <1>6 DEF Triple
<1> HIDE DEF P, Q
<1>9. Runs(part, rev,
           <<OpOf("route", part.route), Strobe("read"), On({"VPE"}), Strobe("pulse")>>,
           Routable(part, rev), P)
  BY <1>1, <1>2, <1>3, <1>4, <1>7, Runs4
<1>10. Runs(part, rev, <<Off({"VPE"}), Strobe("read")>>, P, Routable(part, rev))
  BY <1>5, <1>8, Runs2
<1> DEFINE a == OpOf("route", part.route)
           b == Strobe("read")
           c == On({"VPE"})
           d == Strobe("pulse")
           e == Off({"VPE"})
<1>11. <<a, b, c, d, e, b>> = <<a, b, c, d>> \o <<e, b>>
  OBVIOUS
<1>12. <<a, b, c, d>> \in Seq(Ops) /\ <<e, b>> \in Seq(Ops)
  BY <1>7
<1> QED BY <1>9, <1>10, <1>11, <1>12, RunsThen

(* A flash command is one strobed write, a polled one a write and a read. *)
LEMMA OneCommand ==
  Commands(1) = <<Strobe("write")>> /\ Polled = <<Strobe("write"), Strobe("read")>>
<1> DEFINE s == <<Strobe("write")>> \o <<Strobe("read")>>
           t == <<Strobe("write"), Strobe("read")>>
<1>1. \A x : [k \in 1..1 |-> x] = <<x>>
  OBVIOUS
<1>2. Commands(1) = <<Strobe("write")>>
  BY <1>1 DEF Commands
<1>3. Strobe("write") \in Ops /\ Strobe("read") \in Ops
  BY ScriptsAreOps
<1>4. s \in Seq(Ops) /\ t \in Seq(Ops) /\ Len(s) = Len(t) /\ Len(s) = 2
  BY <1>3
<1>5. s[1] = t[1] /\ s[2] = t[2]
  BY <1>3
<1>6. s = t
  <2> HIDE DEF s, t
  <2>1. \A k \in 1..Len(s) : s[k] = t[k]
    BY <1>4, <1>5
  <2> QED BY <1>4, <2>1, SeqEqual
<1> QED BY <1>2, <1>6 DEF Polled

(* The polled commands of the flash and 28C drivers, which raise nothing. *)
LEMMA RunsPolled ==
  ASSUME NEW part \in Chip, NEW rev, NEW P,
         P = Hot(part, rev) \/ (P = Any(part, rev) /\ part.family \notin VppFamilies)
  PROVE  Runs(part, rev, Polled, P, P) /\ Runs(part, rev, Commands(1), P, P)
<1>1. Triple(part, rev, Strobe("write"), P, P)
  BY DEF Triple, Effect, Fine, Strobe, Hot, Any, Clear, Ordinary, VppOnA18, Chip, Accesses
<1>2. Triple(part, rev, Strobe("read"), P, P)
  BY DEF Triple, Effect, Fine, Strobe, Hot, Any, Clear, Ordinary, VppOnA18, Chip, Accesses
<1> QED BY <1>1, <1>2, Runs1, Runs2, OneCommand

(* flash_intel.cpp raises the rail in its INIT callback and lowers it in END. *)
LEMMA RunsIntelUp ==
  ASSUME NEW part \in Chip, part.family = "intel", NEW rev
  PROVE  Runs(part, rev, IntelUp, Cold(part, rev), Hot(part, rev))
<1>1. Triple(part, rev, On({"REG"}), Cold(part, rev), Hot(part, rev))
  BY DEF Triple, Effect, Fine, On, Cold, Hot, Clear, RoutedFor, Accesses
<1>2. Triple(part, rev, On({"P1"}), Hot(part, rev), Hot(part, rev))
  BY DEF Triple, Effect, Fine, On, Hot, Clear, RoutedFor, Accesses, Bits
<1> QED BY <1>1, <1>2, Runs2 DEF IntelUp

LEMMA RunsIntelOff ==
  ASSUME NEW part \in Chip, part.family = "intel", NEW rev
  PROVE  Runs(part, rev, <<IntelOff>>, Hot(part, rev), Any(part, rev))
<1>1. Triple(part, rev, IntelOff, Hot(part, rev), Any(part, rev))
  BY DEF Triple, Effect, Fine, Off, IntelOff, Any, Hot, Clear, RoutedFor, Accesses
<1> QED BY <1>1, Runs1

(* eeprom_28c.cpp raises A9 for the chip id alone. *)
LEMMA RunsEepromId ==
  ASSUME NEW part \in Chip, part.family = "eeprom", NEW rev
  PROVE  Runs(part, rev, EepromId, Any(part, rev), Any(part, rev))
<1>1. Triple(part, rev, On({"REG"}), Any(part, rev), Any(part, rev))
  BY DEF Triple, Effect, Fine, On, Any, Clear, RoutedFor, Accesses
<1>2. Triple(part, rev, On({"A9"}), Any(part, rev), Any(part, rev))
  BY DEF Triple, Effect, Fine, On, Any, Clear, RoutedFor, Accesses
<1>3. Triple(part, rev, Strobe("read"), Any(part, rev), Any(part, rev))
  BY DEF Triple, Effect, Fine, Strobe, Any, Clear, Ordinary, VppOnA18, RoutedFor, Accesses,
         VppFamilies
<1>4. Triple(part, rev, Off({"REG", "A9"}), Any(part, rev), Any(part, rev))
  BY DEF Triple, Effect, Fine, Off, Any, Clear, RoutedFor, Accesses
<1>5. /\ On({"REG"}) \in Ops /\ On({"A9"}) \in Ops /\ Strobe("read") \in Ops
      /\ Off({"REG", "A9"}) \in Ops
  BY ScriptsAreOps DEF Bits
<1> QED BY <1>1, <1>2, <1>3, <1>4, <1>5, Runs4 DEF EepromId

-----------------------------------------------------------------------------
(* Where a command's callbacks leave the register for the next one to find it. *)
Rest(part, rev, command, due) ==
  CASE due = 0 -> Cold(part, rev)
    [] due = 1 /\ part.family = "eprom" /\ command = "WRITE" -> Routable(part, rev)
    [] due = 1 /\ part.family = "eprom" /\ command = "ERASE" -> Cold(part, rev)
    [] due = 1 /\ part.family = "intel" -> Hot(part, rev)
    [] OTHER -> Any(part, rev)

\* The operations of a command's scripts.
Allowed(command) ==
  CASE command = "READ" -> {"read", "write", "off"}
    [] command = "CHIP_ID" -> {"on", "off", "read", "write"}
    [] command \in {"WRITE", "ERASE"} ->
         {"on", "off", "route", "read", "write", "pulse", "address", "erase"}
    [] command = "DEV_ADDRESS" -> {"read", "write"}
    [] command \in {"DEV_REGISTER", "DEV_ADC"} -> {"set"}
    [] OTHER -> {}

OpsOf(command) == {o \in Ops : o.t \in Allowed(command)}

Writing == cmd \in {"WRITE", "ERASE"}

\* Each assertion is one of the register's values with the line off pin 1.
LEMMA ColdIsRest ==
  ASSUME NEW part, NEW rev
  PROVE  /\ Cold(part, rev) \subseteq Routable(part, rev)
         /\ Routable(part, rev) \cup Cold(part, rev) \cup Hot(part, rev) \subseteq Any(part, rev)
BY DEF Cold, Routable, Any, Hot

(* What the scripts of each command are made of. *)
LEMMA OpsAllowed ==
  /\ \A bits \in SUBSET Bits :
       /\ Writing \/ cmd = "CHIP_ID" => On(bits) \in OpsOf(cmd)
       /\ Writing \/ cmd \in {"CHIP_ID", "READ"} => Off(bits) \in OpsOf(cmd)
       /\ Writing => OpOf("route", bits) \in OpsOf(cmd)
  /\ Writing \/ cmd \in {"CHIP_ID", "READ"} =>
       Strobe("read") \in OpsOf(cmd) /\ Strobe("write") \in OpsOf(cmd)
  /\ Writing =>
       /\ Strobe("pulse") \in OpsOf(cmd)
       /\ Strobe("address") \in OpsOf(cmd) /\ Strobe("erase") \in OpsOf(cmd)
BY DEF On, Off, Strobe, Ops, OpsOf, OpOf, Writing, Allowed

LEMMA PolledOps ==
  Writing \/ cmd \in {"CHIP_ID", "READ"} =>
    Polled \in Seq(OpsOf(cmd)) /\ Commands(1) \in Seq(OpsOf(cmd))
<1> SUFFICES ASSUME Writing \/ cmd \in {"CHIP_ID", "READ"}
             PROVE  Polled \in Seq(OpsOf(cmd)) /\ Commands(1) \in Seq(OpsOf(cmd))
  OBVIOUS
<1>1. Strobe("read") \in OpsOf(cmd) /\ Strobe("write") \in OpsOf(cmd)
  BY OpsAllowed
<1> QED BY <1>1, OneCommand

LEMMA OpsOfAreOps == ASSUME NEW s \in Seq(OpsOf(cmd)) PROVE s \in Seq(Ops)
BY DEF OpsOf

LEMMA RunsThenOf ==
  ASSUME NEW part, NEW rev, NEW s \in Seq(OpsOf(cmd)), NEW t \in Seq(OpsOf(cmd)),
         NEW P, NEW Q, NEW R,
         Runs(part, rev, s, P, Q), Runs(part, rev, t, Q, R)
  PROVE  s \o t \in Seq(OpsOf(cmd)) /\ Runs(part, rev, s \o t, P, R)
<1>1. s \in Seq(Ops) /\ t \in Seq(Ops)
  BY OpsOfAreOps
<1>2. s \o t \in Seq(OpsOf(cmd))
  OBVIOUS
<1> QED BY <1>1, <1>2, RunsThen

(* Each callback of a WRITE or an ERASE has an outline: INIT from a cold register to where
   MAIN may find it, MAIN from there to there, and END from there. *)
LEMMA InitRuns ==
  ASSUME chip \in Chip, Writing, NEW s \in InitScripts
  PROVE  /\ s \in Seq(OpsOf(cmd))
         /\ Runs(chip, revision, s, Cold(chip, revision), Rest(chip, revision, cmd, 1))
<1> DEFINE S == Seq(OpsOf(cmd))
           C == Cold(chip, revision)
           H == Hot(chip, revision)
           A == Any(chip, revision)
           Safe(t, P, Q) == t \in S /\ Runs(chip, revision, t, P, Q)
<1>0. <<>> \in S
  OBVIOUS
<1>n. \A P : Safe(<<>>, P, P)
  BY <1>0, RunsNothing
<1>t. \A t, u, P, Q, R : Safe(t, P, Q) /\ Safe(u, Q, R) => Safe(t \o u, P, R)
  BY RunsThenOf
<1>w. \A t, P, Q, R : Safe(t, P, Q) /\ Q \subseteq R => Safe(t, P, R)
  BY RunsTo
<1>c. C \subseteq Routable(chip, revision) /\ C \subseteq A
  BY ColdIsRest
<1>o. /\ \A bits \in SUBSET Bits : On(bits) \in OpsOf(cmd) /\ Off(bits) \in OpsOf(cmd)
      /\ Strobe("read") \in OpsOf(cmd) /\ Strobe("write") \in OpsOf(cmd)
      /\ Strobe("address") \in OpsOf(cmd) /\ Strobe("erase") \in OpsOf(cmd)
  BY OpsAllowed
<1>b. chip.route \in SUBSET Bits /\ {"REG"} \in SUBSET Bits /\ {"A9"} \in SUBSET Bits
  BY DEF Chip, Bits
<1>p. Polled \in S /\ Commands(1) \in S
  BY PolledOps
<1>1. CASE chip.family = "eprom"
  <2>1. Safe(RailTest, C, C)
    <3>1. <<On(chip.route), AllOff>> \in S
      BY <1>o, <1>b DEF AllOff, Bits
    <3> QED BY <1>1, <1>n, <3>1, RunsRailTest DEF RailTest
  <2>2. Safe(EpromId, C, C)
    BY <1>1, <1>o, RunsEpromId DEF EpromId, AllOff, Bits
  <2>3. Safe(EpromErase, C, C)
    BY <1>1, <1>o, RunsEpromErase DEF EpromErase, AllOff, Bits
  <2>4. \A id \in Optional(EpromId) : Safe(RailTest \o id, C, C)
    <3>1. \A id \in Optional(EpromId) : Safe(id, C, C)
      BY <1>n, <2>2 DEF Optional
    <3> HIDE DEF Safe
    <3> QED BY <1>t, <2>1, <3>1
  <2>5. CASE cmd = "WRITE"
    <3>1. PICK id \in Optional(EpromId), erase \in Optional(EpromErase) :
            s = RailTest \o id \o erase
      BY <1>1, <2>5 DEF InitScripts
    <3>2. Safe(erase, C, C)
      BY <1>n, <2>3 DEF Optional
    <3>3. Safe(s, C, C)
      <4> HIDE DEF Safe
      <4> QED BY <1>t, <2>4, <3>1, <3>2
    <3>4. Rest(chip, revision, cmd, 1) = Routable(chip, revision)
      BY <1>1, <2>5 DEF Rest
    <3> QED BY <1>c, <1>w, <3>3, <3>4
  <2>6. CASE cmd = "ERASE"
    <3>1. PICK id \in Optional(EpromId) : s = RailTest \o id
      BY <1>1, <2>6 DEF InitScripts
    <3>2. Rest(chip, revision, cmd, 1) = C
      BY <1>1, <2>6 DEF Rest
    <3> QED BY <2>4, <3>1, <3>2
  <2> QED BY <2>5, <2>6 DEF Writing
<1>2. CASE chip.family = "intel"
  <2>1. Rest(chip, revision, cmd, 1) = H
    BY <1>2 DEF Rest
  <2>2. Safe(IntelUp, C, H)
    BY <1>2, <1>o, RunsIntelUp DEF IntelUp, Bits
  <2>3. Safe(Polled, H, H) /\ Safe(Commands(1), H, H)
    BY <1>p, RunsPolled
  <2>4. CASE cmd = "WRITE"
    <3>1. PICK id \in Optional(Polled \o Commands(1)), erase \in Optional(Polled) :
            s = IntelUp \o id \o erase
      BY <1>2, <2>4 DEF InitScripts
    <3>2. Safe(Polled \o Commands(1), H, H)
      <4> HIDE DEF Safe
      <4> QED BY <1>t, <2>3
    <3>3. Safe(id, H, H) /\ Safe(erase, H, H)
      BY <1>n, <2>3, <3>2 DEF Optional
    <3>4. Safe(s, C, H)
      <4> HIDE DEF Safe
      <4> QED BY <1>t, <2>2, <3>1, <3>3
    <3> QED BY <2>1, <3>4
  <2>5. CASE cmd = "ERASE"
    <3>1. s = IntelUp
      BY <1>2, <2>5 DEF InitScripts
    <3> QED BY <2>1, <2>2, <3>1
  <2> QED BY <2>4, <2>5 DEF Writing
<1>3. CASE chip.family \notin VppFamilies
  <2>1. Rest(chip, revision, cmd, 1) = A
    BY <1>3 DEF Rest, VppFamilies
  <2>2. Safe(Polled, A, A)
    BY <1>3, <1>p, RunsPolled
  <2>3. CASE chip.family = "eeprom" /\ cmd = "WRITE"
    <3>1. PICK id \in Optional(EepromId), unlock \in Optional(Polled) : s = id \o unlock
      BY <2>3 DEF InitScripts
    <3>2. Safe(EepromId, A, A)
      BY <2>3, <1>o, RunsEepromId DEF EepromId, Bits
    <3>3. Safe(id, A, A) /\ Safe(unlock, A, A)
      BY <1>n, <2>2, <3>2 DEF Optional
    <3>4. Safe(s, A, A)
      <4> HIDE DEF Safe
      <4> QED BY <1>t, <3>1, <3>3
    <3>5. Runs(chip, revision, s, C, A)
      BY <1>c, <3>4 DEF Runs
    <3> QED BY <2>1, <3>4, <3>5
  <2>4. CASE ~(chip.family = "eeprom" /\ cmd = "WRITE")
    <3>1. s = <<>>
      BY <1>3, <2>4 DEF InitScripts, VppFamilies, Writing
    <3> QED BY <1>c, <1>0, <2>1, <3>1, RunsNothing
  <2> QED BY <2>3, <2>4
<1> QED BY <1>1, <1>2, <1>3 DEF VppFamilies

LEMMA MainRuns ==
  ASSUME chip \in Chip, Writing
  PROVE  /\ MainScript \in Seq(OpsOf(cmd))
         /\ Runs(chip, revision, MainScript,
                 Rest(chip, revision, cmd, 1), Rest(chip, revision, cmd, 1))
<1>o. /\ \A bits \in SUBSET Bits :
           /\ On(bits) \in OpsOf(cmd) /\ Off(bits) \in OpsOf(cmd)
           /\ OpOf("route", bits) \in OpsOf(cmd)
      /\ Strobe("read") \in OpsOf(cmd) /\ Strobe("write") \in OpsOf(cmd)
      /\ Strobe("pulse") \in OpsOf(cmd)
      /\ Strobe("address") \in OpsOf(cmd) /\ Strobe("erase") \in OpsOf(cmd)
  BY OpsAllowed
<1>b. chip.route \in SUBSET Bits
  BY DEF Chip, Bits
<1>1. CASE chip.family = "eprom" /\ cmd = "WRITE"
  <2>1. MainScript = EpromBlock /\ Rest(chip, revision, cmd, 1) = Routable(chip, revision)
    BY <1>1 DEF MainScript, Rest
  <2>2. RaiseRoute = OpOf("route", chip.route)
    BY DEF RaiseRoute, OpOf
  <2> QED BY <1>1, <1>o, <1>b, <2>1, <2>2, RunsEpromBlock DEF EpromBlock, Bits
<1>2. CASE chip.family = "eprom" /\ cmd = "ERASE"
  <2>1. MainScript = EpromErase /\ Rest(chip, revision, cmd, 1) = Cold(chip, revision)
    BY <1>2 DEF MainScript, Rest
  <2>2. EpromErase \in Seq(OpsOf(cmd))
    BY <1>o DEF EpromErase, AllOff, Bits
  <2> QED BY <1>2, <2>1, <2>2, RunsEpromErase
<1>3. CASE chip.family # "eprom"
  <2>1. MainScript = Polled \o Commands(1)
    BY <1>3 DEF MainScript, Writing
  <2>2. Polled \in Seq(OpsOf(cmd)) /\ Commands(1) \in Seq(OpsOf(cmd))
    BY PolledOps
  <2>3. CASE chip.family = "intel"
    <3>1. Rest(chip, revision, cmd, 1) = Hot(chip, revision)
      BY <2>3 DEF Rest
    <3> QED BY <2>1, <2>2, <3>1, RunsPolled, RunsThenOf
  <2>4. CASE chip.family # "intel"
    <3>1. Rest(chip, revision, cmd, 1) = Any(chip, revision) /\ chip.family \notin VppFamilies
      BY <1>3, <2>4 DEF Rest, VppFamilies
    <3> QED BY <2>1, <2>2, <3>1, RunsPolled, RunsThenOf
  <2> QED BY <2>3, <2>4
<1> QED BY <1>1, <1>2, <1>3 DEF Writing

LEMMA EndRuns ==
  ASSUME chip \in Chip, Writing
  PROVE  /\ EndScript \in Seq(OpsOf(cmd))
         /\ Runs(chip, revision, EndScript,
                 Rest(chip, revision, cmd, 1), Rest(chip, revision, cmd, 2))
<1>o. Strobe("write") \in OpsOf(cmd) /\ IntelOff \in OpsOf(cmd)
  BY OpsAllowed DEF IntelOff, Bits
<1>2. Rest(chip, revision, cmd, 2) = Any(chip, revision)
  BY DEF Rest
<1>3. CASE chip.family = "intel"
  <2>1. EndScript = Commands(1) \o <<IntelOff>>
    BY <1>3 DEF EndScript, Writing
  <2>2. Commands(1) \in Seq(OpsOf(cmd)) /\ <<IntelOff>> \in Seq(OpsOf(cmd))
    BY <1>o, PolledOps
  <2>3. Rest(chip, revision, cmd, 1) = Hot(chip, revision)
    BY <1>3 DEF Rest
  <2> QED BY <1>2, <1>3, <2>1, <2>2, <2>3, RunsPolled, RunsIntelOff, RunsThenOf
<1>4. CASE chip.family # "intel"
  <2>1. EndScript = <<>>
    BY <1>4 DEF EndScript
  <2>2. Rest(chip, revision, cmd, 1) \subseteq Any(chip, revision)
    BY ColdIsRest DEF Rest
  <2> QED BY <1>2, <2>1, <2>2, RunsNothing
<1> QED BY <1>3, <1>4

(* The scripts of the commands that do not write have none of its strobes. *)
LEMMA OtherScripts ==
  ASSUME chip \in Chip, cmd \in {"READ", "CHIP_ID"}
  PROVE  /\ InitScripts \subseteq Seq(OpsOf(cmd))
         /\ MainScript \in Seq(OpsOf(cmd)) /\ EndScript \in Seq(OpsOf(cmd))
<1>o. /\ \A bits \in SUBSET Bits :
           /\ cmd = "CHIP_ID" => On(bits) \in OpsOf(cmd)
           /\ Off(bits) \in OpsOf(cmd)
      /\ Strobe("read") \in OpsOf(cmd) /\ Strobe("write") \in OpsOf(cmd)
  BY OpsAllowed
<1>b. chip.route \in SUBSET Bits
  BY DEF Chip, Bits
<1>1. Polled \in Seq(OpsOf(cmd)) /\ Commands(1) \in Seq(OpsOf(cmd))
  BY PolledOps
<1>2. <<>> \in Seq(OpsOf(cmd))
  OBVIOUS
<1>3. CASE cmd = "READ"
  <2>1. InitScripts = {<<>>}
    BY <1>3 DEF InitScripts
  <2>2. MainScript = <<Strobe("read")>>
    BY <1>3 DEF MainScript
  <2>3. EndScript \in {<<>>, Commands(1) \o <<IntelOff>>}
    BY DEF EndScript
  <2>4. <<IntelOff>> \in Seq(OpsOf(cmd)) /\ MainScript \in Seq(OpsOf(cmd))
    BY <1>o, <2>2 DEF IntelOff, Bits
  <2>5. EndScript \in Seq(OpsOf(cmd))
    <3>1. Commands(1) \o <<IntelOff>> \in Seq(OpsOf(cmd))
      BY <1>1, <2>4
    <3> QED BY <1>2, <2>3, <3>1
  <2> QED BY <1>2, <2>1, <2>4, <2>5
<1>4. CASE cmd = "CHIP_ID"
  <2>1. InitScripts \subseteq {<<>>, RailTest}
    BY <1>4 DEF InitScripts
  <2>2. RailTest \in {<<>>, <<On(chip.route), AllOff>>}
    BY DEF RailTest
  <2>3. <<On(chip.route), AllOff>> \in Seq(OpsOf(cmd))
    BY <1>4, <1>o, <1>b DEF AllOff, Bits
  <2>4. MainScript \in {<<>>, EpromId, Polled \o Commands(1)}
    BY <1>4 DEF MainScript
  <2>5. EpromId \in Seq(OpsOf(cmd))
    BY <1>4, <1>o DEF EpromId, AllOff, Bits
  <2>6. EndScript = <<>>
    BY <1>4 DEF EndScript
  <2>7. InitScripts \subseteq Seq(OpsOf(cmd))
    BY <1>2, <2>1, <2>2, <2>3
  <2>8. MainScript \in Seq(OpsOf(cmd))
    <3>1. Polled \o Commands(1) \in Seq(OpsOf(cmd))
      BY <1>1
    <3> QED BY <1>2, <2>4, <2>5, <3>1
  <2> QED BY <1>2, <2>6, <2>7, <2>8
<1> QED BY <1>3, <1>4

-----------------------------------------------------------------------------
TypeInv ==
  /\ revision \in Revisions /\ chip \in Chips
  /\ cmd \in {"IDLE"} \cup MemoryCmds \cup VoltageCmds \cup DevCmds
  /\ phase \in 0..2
  /\ cache \subseteq Bits
  /\ off \in 0..Discharge /\ charge \in 0..Discharge

(* A callback under way has operations of its command only. *)
ScriptInv ==
  /\ todo \in Seq(OpsOf(cmd)) /\ strobe \in {"none"} \cup Allowed(cmd)
  /\ phase # 2 => cmd \in MemoryCmds
  /\ phase = 0 => todo = <<>>

(* The rail has at most the rest of its fall to go. *)
FallInv == "REG" \notin latch => charge + off <= Discharge

(* A READ finds the rail fallen and does not raise it, when its VPP line is the switch;
   else, only an address bit of the part's own reaches the switch. *)
ReadInv ==
  cmd = "READ" /\ revision = "r2" =>
    IF VppOnA18(chip) THEN charge = 0 /\ "REG" \notin cache
    ELSE "A18" \in cache => "A18" \in chip.lines

(* What is left of a callback of a command that writes is safe from here. *)
WriteInv ==
  Writing => /\ Runs(chip, revision, todo, {cache}, Rest(chip, revision, cmd, phase))
             /\ Fine(chip, revision, strobe, cache)

(* What holds between any two operations. *)
StrobeInv == TypeInv /\ ScriptInv /\ FallInv /\ ReadInv /\ WriteInv

\* What RailAssumption says of the constants, for the provers.
LEMMA RailConstants == Discharge \in Nat \ {0} /\ Chips \subseteq Chip
  BY RailAssumption

\* Time since the regulator went off is counted from its highest level.
LEMMA WritesFall ==
  ASSUME TypeInv, FallInv, LatchIsMapped, NEW bits \in SUBSET Bits, WriteControl(bits)
  PROVE  /\ FallInv' /\ cache' \subseteq Bits
         /\ off' \in 0..Discharge /\ charge' \in 0..Discharge
         /\ "REG" \notin bits /\ charge = 0 /\ "REG" \notin cache => charge' = 0
<1>1. Discharge \in Nat \ {0} /\ off \in 0..Discharge /\ charge \in 0..Discharge
  BY RailConstants DEF TypeInv
<1>2. /\ cache' = bits
      /\ off' = IF "REG" \in cache \ bits THEN 0 ELSE off
      /\ charge' = IF "REG" \in latch' THEN Discharge ELSE charge
  BY DEF WriteControl
<1>3. "REG" \in latch' => "REG" \in bits
  BY DEF WriteControl, LatchIsMapped, Mapped
<1>4. "REG" \in latch /\ "REG" \notin latch' => "REG" \in cache \ bits
  BY DEF WriteControl, LatchIsMapped, Mapped
<1>5. off' \in 0..Discharge /\ charge' \in 0..Discharge
  BY <1>1, <1>2
<1>6. FallInv'
  BY <1>1, <1>2, <1>4 DEF FallInv
<1> QED BY <1>1, <1>2, <1>3, <1>5, <1>6

(* A driver's operation is one of those the outlines are about. *)
LEMMA OperationsHaveEffect ==
  ASSUME TypeInv, ScriptInv, FallInv, LatchIsMapped,
         SetControl \/ ClearControl \/ BlockRoute \/ Access \/ EraseStrobe
  PROVE  /\ todo # <<>> /\ todo' = Tail(todo) /\ UNCHANGED <<revision, cmd, chip, phase>>
         /\ strobe' \in {"none", Head(todo).t}
         /\ Effect(chip, revision, Head(todo), cache, cache')
         /\ FallInv' /\ cache' \subseteq Bits
         /\ off' \in 0..Discharge /\ charge' \in 0..Discharge
         /\ "REG" \notin cache' /\ charge = 0 /\ "REG" \notin cache => charge' = 0
<1>1. todo # <<>> /\ todo' = Tail(todo) /\ UNCHANGED <<revision, cmd, chip, phase>>
  BY DEF SetControl, ClearControl, BlockRoute, Access, EraseStrobe, Step, Same
<1>2. Head(todo) \in Ops
  BY <1>1 DEF ScriptInv, OpsOf
<1>3. \A bits \in SUBSET Bits :
        Routed(bits) = RoutedFor(chip, bits) /\ Routed(bits) \subseteq Bits
  BY DEF Routed, RoutedFor, Bits
<1>4. cache \subseteq Bits /\ Head(todo).bits \subseteq Bits
  BY <1>2 DEF TypeInv, Ops
<1>5. CASE SetControl
  <2>1. /\ Head(todo).t = "on" /\ strobe' = "none"
        /\ WriteControl(cache \cup Routed(Head(todo).bits))
    BY <1>5 DEF SetControl, Step
  <2>2. cache' = cache \cup RoutedFor(chip, Head(todo).bits)
    BY <1>3, <1>4, <2>1 DEF WriteControl
  <2>3. cache \cup Routed(Head(todo).bits) \in SUBSET Bits
    BY <1>3, <1>4
  <2>4. Effect(chip, revision, Head(todo), cache, cache')
    BY <2>1, <2>2 DEF Effect, Accesses
  <2> QED BY <1>1, <2>1, <2>2, <2>3, <2>4, <1>3, <1>4, WritesFall
<1>6. CASE ClearControl
  <2>1. /\ Head(todo).t = "off" /\ strobe' = "none"
        /\ WriteControl(cache \ Routed(Head(todo).bits))
    BY <1>6 DEF ClearControl, Step
  <2>2. cache' = cache \ RoutedFor(chip, Head(todo).bits)
    BY <1>3, <1>4, <2>1 DEF WriteControl
  <2>3. cache \ Routed(Head(todo).bits) \in SUBSET Bits
    BY <1>3, <1>4
  <2>4. Effect(chip, revision, Head(todo), cache, cache')
    BY <2>1, <2>2 DEF Effect, Accesses
  <2> QED BY <1>1, <2>1, <2>2, <2>3, <2>4, <1>3, <1>4, WritesFall
<1>7. CASE BlockRoute
  <2>1. Head(todo).t = "route" /\ strobe' = "none"
    BY <1>7 DEF BlockRoute, Step
  <2>2. CASE "REG" \in cache
    <3>1. UNCHANGED <<cache, latch, off, charge>>
      BY <1>7, <2>2 DEF BlockRoute, rail
    <3>2. Effect(chip, revision, Head(todo), cache, cache')
      BY <2>1, <2>2, <3>1 DEF Effect, Accesses
    <3> QED BY <1>1, <2>1, <2>2, <3>1, <3>2 DEF FallInv, TypeInv
  <2>3. CASE "REG" \notin cache
    <3>1. WriteControl(cache \cup Routed(Head(todo).bits))
      BY <1>7, <2>3 DEF BlockRoute
    <3>2. cache' = cache \cup RoutedFor(chip, Head(todo).bits)
      BY <1>3, <1>4, <3>1 DEF WriteControl
    <3>3. cache \cup Routed(Head(todo).bits) \in SUBSET Bits
      BY <1>3, <1>4
    <3>4. Effect(chip, revision, Head(todo), cache, cache')
      BY <2>1, <2>3, <3>2 DEF Effect, Accesses
    <3> QED BY <1>1, <2>1, <3>1, <3>2, <3>3, <3>4, <1>3, <1>4, WritesFall
  <2> QED BY <2>2, <2>3
<1>8. CASE Access
  <2>1. /\ Head(todo).t \in Accesses /\ strobe' = Head(todo).t
        /\ SetAddress(Head(todo).t)
    BY <1>8 DEF Access, Step, Accesses
  <2>2. PICK top \in IF Head(todo).t = "address" THEN {{}} ELSE SUBSET chip.lines :
          WriteControl((cache \cap Kept(chip)) \cup top \cup AlwaysHigh(chip)
                         \cup (IF Head(todo).t = "read" /\ ReadHigh THEN {"A18"} ELSE {}))
    BY <2>1 DEF SetAddress
  <2>3. cache' = (cache \cap Kept(chip)) \cup top \cup AlwaysHigh(chip)
                   \cup (IF Head(todo).t = "read" /\ ReadHigh THEN {"A18"} ELSE {})
    BY <2>2 DEF WriteControl
  <2>p. chip.lines \subseteq TopLines /\ ("A16" \in chip.lines => chip.pins = 32)
    BY RailConstants DEF TypeInv, Chip
  <2>4. cache' \in SUBSET Bits
    BY <1>4, <2>p, <2>2, <2>3 DEF Bits, TopLines, AlwaysHigh
  <2>h. /\ top \subseteq chip.lines /\ (Head(todo).t = "address" => top = {})
        /\ AlwaysHigh(chip) \subseteq {"A17"}
    BY <2>2 DEF AlwaysHigh
  <2>5. Effect(chip, revision, Head(todo), cache, cache')
    BY <2>1, <2>p, <2>3, <2>h DEF Effect, Accesses, Kept, ReadHigh, SwitchesVpp, TopLines
  <2> QED BY <1>1, <2>1, <2>2, <2>3, <2>4, <2>5, WritesFall
<1>9. CASE EraseStrobe
  <2>1. Head(todo).t = "erase" /\ strobe' = "erase" /\ UNCHANGED <<cache, latch, off, charge>>
    BY <1>9 DEF EraseStrobe, Step, rail
  <2>2. Effect(chip, revision, Head(todo), cache, cache')
    BY <2>1 DEF Effect, Accesses
  <2> QED BY <1>1, <2>1, <2>2 DEF FallInv, TypeInv
<1> QED BY <1>5, <1>6, <1>7, <1>8, <1>9

\* At power-up the rail may still be falling.
LEMMA InitStrobe == RailInit => StrobeInv
<1> SUFFICES ASSUME RailInit PROVE StrobeInv
  OBVIOUS
<1>1. TypeInv
  BY RailConstants DEF RailInit, TypeInv
<1>2. ScriptInv /\ ReadInv /\ WriteInv
  BY DEF RailInit, ScriptInv, ReadInv, WriteInv, Writing
<1>3. FallInv
  BY RailConstants DEF RailInit, FallInv
<1> QED BY <1>1, <1>2, <1>3 DEF StrobeInv

(* Between commands. *)
LEMMA IdleStrobe ==
  ASSUME RailInv, StrobeInv, cmd = "IDLE"
  PROVE  cache = {} /\ latch = {} /\ todo = <<>> /\ strobe = "none"
BY NothingMapped DEF RailInv, IdleIsClear, LatchIsMapped, StrobeInv, ScriptInv, Allowed,
                     MemoryCmds

(* A command starts from a clear register; a READ whose line is the switch, with the rail
   fallen, since off counts from the last switch-off at the rail's full level. *)
LEMMA StartStrobe ==
  ASSUME RailInv, StrobeInv, StartCommand \/ StartVoltage \/ OverrideRevision
  PROVE  StrobeInv'
<1> USE DEF StrobeInv
<1>0. cache = {} /\ latch = {} /\ todo = <<>> /\ strobe = "none" /\ cmd = "IDLE"
  BY IdleStrobe DEF StartCommand, StartVoltage, OverrideRevision
<1>1. CASE StartCommand
  <2>1. /\ chip' \in Chips /\ cmd' \in MemoryCmds /\ phase' = 0 /\ todo' = <<>>
        /\ revision' = revision /\ strobe' = "none" /\ WriteControl(AlwaysHigh(chip'))
    BY <1>0, <1>1 DEF StartCommand
  <2>b. AlwaysHigh(chip') \subseteq {"A17"} /\ {"A17"} \subseteq Bits
    BY DEF AlwaysHigh, Bits, TopLines
  <2>2. FallInv' /\ cache' \subseteq {"A17"} /\ off' \in 0..Discharge /\ charge' \in 0..Discharge
    BY <2>1, <2>b, WritesFall DEF RailInv, WriteControl
  <2>3. TypeInv'
    BY <2>1, <2>b, <2>2 DEF TypeInv
  <2>4. ScriptInv'
    BY <2>1 DEF ScriptInv
  <2>5. ReadInv'
    <3>1. CASE cmd' = "READ" /\ revision = "r2" /\ VppOnA18(chip')
      <4>1. off = Discharge
        BY <1>1, <3>1 DEF StartCommand
      <4>2. charge = 0
        BY <1>0, <4>1, RailConstants DEF FallInv, TypeInv
      <4>3. charge' = 0 /\ "REG" \notin cache'
        BY <1>0, <2>1, <2>b, <2>2, <4>2, WritesFall DEF RailInv
      <4> QED BY <3>1, <4>3 DEF ReadInv
    <3>2. CASE ~(cmd' = "READ" /\ revision = "r2" /\ VppOnA18(chip'))
      BY <2>1, <2>2, <3>2 DEF ReadInv
    <3> QED BY <3>1, <3>2
  <2>6. WriteInv'
    <3>1. {cache'} \subseteq Rest(chip', revision', cmd', phase')
      BY <2>1, <2>b, <2>2 DEF Rest, Cold, Clear
    <3>2. Fine(chip', revision', strobe', cache')
      BY <2>1 DEF Fine
    <3> QED BY <2>1, <3>1, <3>2, RunsNothing DEF WriteInv
  <2> QED BY <2>2, <2>3, <2>4, <2>5, <2>6
<1>2. CASE StartVoltage
  <2>1. /\ cmd' \in VoltageCmds /\ phase' = 2 /\ UNCHANGED <<revision, chip, todo, strobe>>
    BY <1>2 DEF StartVoltage
  <2>2. PICK bits \in SUBSET Bits : WriteControl(bits)
    BY <1>2 DEF StartVoltage, Bits
  <2>3. FallInv' /\ cache' \subseteq Bits /\ off' \in 0..Discharge /\ charge' \in 0..Discharge
    BY <2>2, WritesFall DEF RailInv
  <2>4. TypeInv'
    BY <2>1, <2>3 DEF TypeInv
  <2>5. ScriptInv' /\ ReadInv' /\ WriteInv'
    BY <1>0, <2>1 DEF ScriptInv, ReadInv, WriteInv, Writing, VoltageCmds
  <2> QED BY <2>3, <2>4, <2>5
<1>3. CASE OverrideRevision
  <2>1. revision' \in Revisions
        /\ UNCHANGED <<cmd, chip, phase, todo, cache, latch, off, charge, strobe>>
    BY <1>3 DEF OverrideRevision, op, rail
  <2>2. TypeInv' /\ FallInv'
    BY <2>1 DEF TypeInv, FallInv
  <2>3. ScriptInv' /\ ReadInv' /\ WriteInv'
    BY <1>0, <2>1 DEF ScriptInv, ReadInv, WriteInv, Writing
  <2> QED BY <2>2, <2>3
<1> QED BY <1>1, <1>2, <1>3

(* A callback starts where the one before it left the register. *)
LEMMA CallbackStrobe ==
  ASSUME StrobeInv, InitCallback \/ MainCallback \/ EndCallback
  PROVE  StrobeInv'
<1> USE DEF StrobeInv
<1>1. UNCHANGED <<revision, cmd, chip, cache, latch, off, charge, strobe>> /\ todo = <<>>
  BY DEF InitCallback, MainCallback, EndCallback, rail, ScriptInv
<1>2. phase' \in 0..2 /\ phase' # 0 /\ phase \in {0, 1}
  BY DEF InitCallback, MainCallback, EndCallback
<1>3. cmd \in MemoryCmds /\ chip \in Chip
  BY <1>2, RailConstants DEF ScriptInv, TypeInv
<1>4. TypeInv' /\ FallInv' /\ ReadInv'
  BY <1>1, <1>2 DEF TypeInv, FallInv, ReadInv
<1>5. todo' \in Seq(OpsOf(cmd))
  <2>1. CASE Writing
    BY <1>3, <2>1, InitRuns, MainRuns, EndRuns DEF InitCallback, MainCallback, EndCallback
  <2>2. CASE ~Writing
    <3>1. cmd \in {"READ", "CHIP_ID"}
      BY <1>3, <2>2 DEF Writing, MemoryCmds
    <3> QED BY <1>3, <3>1, OtherScripts DEF InitCallback, MainCallback, EndCallback
  <2> QED BY <2>1, <2>2
<1>6. ScriptInv'
  BY <1>1, <1>2, <1>3, <1>5 DEF ScriptInv
<1>7. WriteInv'
  <2> SUFFICES ASSUME Writing
               PROVE  /\ Runs(chip, revision, todo', {cache}, Rest(chip, revision, cmd, phase'))
                      /\ Fine(chip, revision, strobe, cache)
    BY <1>1 DEF WriteInv, Writing
  <2>1. Fine(chip, revision, strobe, cache)
    BY DEF WriteInv
  <2>2. cache \in Rest(chip, revision, cmd, phase)
    BY <1>1 DEF WriteInv, Runs
  <2>3. Runs(chip, revision, todo',
             Rest(chip, revision, cmd, phase), Rest(chip, revision, cmd, phase'))
    <3>1. CASE InitCallback
      <4>1. phase = 0 /\ phase' = 1 /\ todo' \in InitScripts
        BY <3>1 DEF InitCallback
      <4>2. Rest(chip, revision, cmd, 0) = Cold(chip, revision)
        BY DEF Rest
      <4> QED BY <1>3, <4>1, <4>2, InitRuns
    <3>2. CASE MainCallback
      BY <1>3, <3>2, MainRuns DEF MainCallback
    <3>3. CASE EndCallback
      BY <1>3, <3>3, EndRuns DEF EndCallback
    <3> QED BY <3>1, <3>2, <3>3
  <2> QED BY <2>1, <2>2, <2>3, RunsFrom
<1> QED BY <1>4, <1>6, <1>7

(* An operation of a driver: the head of its outline. *)
LEMMA OperationStrobe ==
  ASSUME RailInv, StrobeInv, SetControl \/ ClearControl \/ BlockRoute \/ Access \/ EraseStrobe
  PROVE  StrobeInv'
<1> USE DEF StrobeInv
<1>1. /\ todo # <<>> /\ todo' = Tail(todo) /\ UNCHANGED <<revision, cmd, chip, phase>>
      /\ strobe' \in {"none", Head(todo).t}
      /\ Effect(chip, revision, Head(todo), cache, cache')
      /\ FallInv' /\ cache' \subseteq Bits /\ off' \in 0..Discharge /\ charge' \in 0..Discharge
      /\ "REG" \notin cache' /\ charge = 0 /\ "REG" \notin cache => charge' = 0
  BY OperationsHaveEffect DEF RailInv
<1>2. Head(todo) \in OpsOf(cmd) /\ Tail(todo) \in Seq(OpsOf(cmd)) /\ todo \in Seq(Ops)
  BY <1>1, OpsOfAreOps DEF ScriptInv
<1>3. Head(todo).t \in Allowed(cmd) /\ Head(todo) \in Ops
  BY <1>2 DEF OpsOf
<1>4. TypeInv'
  BY <1>1 DEF TypeInv
<1>5. ScriptInv'
  BY <1>1, <1>2, <1>3 DEF ScriptInv
<1>6. ReadInv'
  <2> SUFFICES ASSUME cmd = "READ", revision = "r2"
               PROVE  IF VppOnA18(chip) THEN charge' = 0 /\ "REG" \notin cache'
                      ELSE "A18" \in cache' => "A18" \in chip.lines
    BY <1>1 DEF ReadInv
  <2>1. Head(todo).t \in {"read", "write", "off"}
    BY <1>3 DEF Allowed
  <2>2. CASE Head(todo).t = "off"
    <3>1. cache' \subseteq cache
      BY <1>1, <2>2 DEF Effect
    <3> QED BY <1>1, <3>1 DEF ReadInv
  <2>3. CASE Head(todo).t \in {"read", "write"}
    <3>1. /\ "REG" \in cache' <=> "REG" \in cache
          /\ "A18" \in cache' => ("A18" \in chip.lines \/ VppOnA18(chip))
      BY <1>1, <2>3 DEF Effect, Accesses
    <3> QED BY <1>1, <3>1 DEF ReadInv
  <2> QED BY <2>1, <2>2, <2>3
<1>7. WriteInv'
  <2> SUFFICES ASSUME Writing
               PROVE  /\ Runs(chip, revision, todo', {cache'}, Rest(chip, revision, cmd, phase))
                      /\ Fine(chip, revision, strobe', cache')
    BY <1>1 DEF WriteInv, Writing
  <2>1. /\ Fine(chip, revision, Head(todo).t, cache')
        /\ Runs(chip, revision, todo', {cache'}, Rest(chip, revision, cmd, phase))
    BY <1>1, <1>2, RunsStep DEF WriteInv
  <2>2. Fine(chip, revision, "none", cache')
    BY DEF Fine
  <2> QED BY <1>1, <2>1, <2>2
<1> QED BY <1>1, <1>4, <1>5, <1>6, <1>7

(* command_done, a reset and the passing of time. *)
LEMMA EndStrobe ==
  ASSUME RailInv, StrobeInv, CommandDone \/ Reset \/ Tick
  PROVE  StrobeInv'
<1> USE DEF StrobeInv
<1>1. CASE CommandDone
  <2>1. cmd' = "IDLE" /\ phase' = 2 /\ todo' = <<>> /\ strobe' = "none" /\ WriteControl({})
        /\ UNCHANGED <<revision, chip>>
    BY <1>1 DEF CommandDone
  <2>2. FallInv' /\ cache' \subseteq Bits /\ off' \in 0..Discharge /\ charge' \in 0..Discharge
    BY <2>1, WritesFall DEF RailInv
  <2>3. TypeInv'
    BY <2>1, <2>2 DEF TypeInv
  <2>4. ScriptInv' /\ ReadInv' /\ WriteInv'
    BY <2>1 DEF ScriptInv, ReadInv, WriteInv, Writing
  <2> QED BY <2>2, <2>3, <2>4
<1>2. CASE Reset
  <2>1. cmd' = "IDLE" /\ phase' = 2 /\ todo' = <<>> /\ strobe' = "none"
        /\ cache' = {} /\ off' = 0 /\ UNCHANGED <<revision, chip, charge>>
    BY <1>2 DEF Reset
  <2>2. TypeInv'
    BY <2>1, RailConstants DEF TypeInv
  <2>3. FallInv'
    BY <2>1, RailConstants DEF TypeInv, FallInv
  <2>4. ScriptInv' /\ ReadInv' /\ WriteInv'
    BY <2>1 DEF ScriptInv, ReadInv, WriteInv, Writing
  <2> QED BY <2>2, <2>3, <2>4
<1>3. CASE Tick
  <2>1. UNCHANGED <<revision, cmd, chip, phase, todo, cache, latch, strobe>>
    BY <1>3 DEF Tick, op
  <2>2. off' \in 0..Discharge /\ charge' \in 0..Discharge /\ FallInv'
    BY <1>3, RailConstants DEF Tick, Fallen, TypeInv, FallInv
  <2>3. TypeInv'
    BY <2>1, <2>2 DEF TypeInv
  <2>4. "REG" \notin cache /\ charge = 0 => charge' = 0
    BY <1>3 DEF Tick, Fallen, RailInv, LatchIsMapped, Mapped
  <2>5. ScriptInv' /\ ReadInv' /\ WriteInv'
    BY <2>1, <2>4 DEF ScriptInv, ReadInv, WriteInv, Writing
  <2> QED BY <2>2, <2>3, <2>5
<1> QED BY <1>1, <1>2, <1>3

(* The developers' commands start no callback, and neither read nor write for the host. *)
LEMMA DevStrobe ==
  ASSUME RailInv, StrobeInv, SetRegisters \/ SetDevAddress \/ ReadAdc \/ WriteRegister
  PROVE  StrobeInv'
<1> USE DEF StrobeInv
<1>1. CASE SetRegisters \/ SetDevAddress \/ ReadAdc
  <2>1. /\ cmd = "IDLE" /\ cmd' \in DevCmds /\ chip' \in Chips /\ phase' = 2
        /\ UNCHANGED <<revision, cache, latch, off, charge, strobe>>
    BY <1>1 DEF SetRegisters, SetDevAddress, ReadAdc, Start, rail, DevCmds
  <2>2. strobe = "none"
    BY <2>1, IdleStrobe
  <2>3. todo' \in Seq(OpsOf(cmd'))
    <3>1. CASE SetRegisters
      <4>1. \A bits \in SUBSET Bits : Write(bits) \in OpsOf(cmd')
        BY <3>1 DEF SetRegisters, Start, Write, OpsOf, Ops, Allowed
      <4>2. PICK bits \in SUBSET Bits : todo' \in {<<>>, <<Write(bits)>>}
        BY <3>1 DEF SetRegisters, Start
      <4>3. Write(bits) \in OpsOf(cmd')
        BY <4>1
      <4>4. <<Write(bits)>> \in Seq(OpsOf(cmd')) /\ <<>> \in Seq(OpsOf(cmd'))
        BY <4>3
      <4> QED BY <4>2, <4>4
    <3>2. CASE SetDevAddress
      <4>1. Strobe("read") \in OpsOf(cmd') /\ Strobe("write") \in OpsOf(cmd')
        BY <3>2 DEF SetDevAddress, Start, Strobe, OpsOf, Ops, Allowed
      <4>2. todo' \in {<<Strobe("read")>>, <<Strobe("write")>>}
        BY <3>2 DEF SetDevAddress, Start
      <4>3. <<Strobe("read")>> \in Seq(OpsOf(cmd')) /\ <<Strobe("write")>> \in Seq(OpsOf(cmd'))
        BY <4>1
      <4> QED BY <4>2, <4>3
    <3>3. CASE ReadAdc
      <4>1. \A bits \in SUBSET Bits : Write(bits) \in OpsOf(cmd')
        BY <3>3 DEF ReadAdc, Start, Write, OpsOf, Ops, Allowed
      <4>2. Sweep \in Seq(OpsOf(cmd'))
        BY <4>1 DEF Sweep, Bits
      <4> QED BY <3>3, <4>2 DEF ReadAdc, Start
    <3> QED BY <1>1, <3>1, <3>2, <3>3
  <2>4. TypeInv' /\ FallInv'
    BY <2>1 DEF TypeInv, FallInv
  <2>5. ScriptInv' /\ ReadInv' /\ WriteInv'
    BY <2>1, <2>2, <2>3 DEF ScriptInv, ReadInv, WriteInv, Writing, DevCmds
  <2> QED BY <2>4, <2>5
<1>2. CASE WriteRegister
  <2>1. /\ todo # <<>> /\ Head(todo).t = "set" /\ todo' = Tail(todo) /\ strobe' = "none"
        /\ WriteControl(Head(todo).bits) /\ UNCHANGED <<revision, cmd, chip, phase>>
    BY <1>2 DEF WriteRegister, Step, Same
  <2>2. Head(todo) \in OpsOf(cmd) /\ Tail(todo) \in Seq(OpsOf(cmd))
    BY <2>1 DEF ScriptInv
  <2>3. Head(todo).bits \in SUBSET Bits /\ cmd \in {"DEV_REGISTER", "DEV_ADC"}
    BY <2>1, <2>2 DEF OpsOf, Ops, Allowed
  <2>4. FallInv' /\ cache' \subseteq Bits /\ off' \in 0..Discharge /\ charge' \in 0..Discharge
    BY <2>1, <2>3, WritesFall DEF RailInv
  <2>5. TypeInv'
    BY <2>1, <2>4 DEF TypeInv
  <2>6. ScriptInv' /\ ReadInv' /\ WriteInv'
    BY <2>1, <2>2, <2>3 DEF ScriptInv, ReadInv, WriteInv, Writing
  <2> QED BY <2>4, <2>5, <2>6
<1> QED BY <1>1, <1>2

LEMMA NextStrobe == RailInv /\ StrobeInv /\ [DevNext]_railVars => StrobeInv'
<1> SUFFICES ASSUME RailInv, StrobeInv, [DevNext]_railVars PROVE StrobeInv'
  OBVIOUS
<1>1. CASE RailNext
  BY <1>1, StartStrobe, CallbackStrobe, OperationStrobe, EndStrobe DEF RailNext
<1>2. CASE DevNext /\ ~RailNext
  BY <1>2, DevStrobe DEF DevNext
<1>3. CASE UNCHANGED railVars
  BY <1>3 DEF railVars, StrobeInv, TypeInv, ScriptInv, FallInv, ReadInv, WriteInv, Writing
<1> QED BY <1>1, <1>2, <1>3

LEMMA StrobeHolds == DevSpec => [](RailInv /\ StrobeInv)
  BY InitRail, NextDevRail, InitStrobe, NextStrobe, PTL DEF DevSpec

(* memory.cpp, mem_util_calculate_top_address_register: every byte is programmed with the
   rail on, switched onto the part, at the level of its row, and every erase made at the
   full rail, though each address rewrites the register and time passes, the watchdog
   fires or the board is reset between any two operations.  For every set of parts. *)
THEOREM StrobesFindTheirLevel == DevSpec => []StrobesAtTheirLevel
<1>1. ASSUME RailInv, StrobeInv PROVE StrobesAtTheirLevel
  <2>1. revision \in {"r0", "r1", "r2", "unknown"} /\ latch = Mapped(revision, cache)
    BY <1>1, RailAssumption DEF RailInv, LatchIsMapped, StrobeInv, TypeInv
  <2>2. strobe \in {"pulse", "erase"} => Fine(chip, revision, strobe, cache)
    <3>1. strobe \in {"pulse", "erase"} => Writing
      BY <1>1 DEF StrobeInv, ScriptInv, Allowed, TypeInv, Writing, MemoryCmds, VoltageCmds,
                  DevCmds
    <3> QED BY <1>1, <3>1 DEF StrobeInv, WriteInv
  <2>3. Switch = SwitchOf(chip)
    BY DEF Switch, SwitchOf
  <2> QED BY <2>1, <2>2, <2>3 DEF StrobesAtTheirLevel, Fine, Mapped, SwitchOf, DropIsOn
<1> QED BY <1>1, StrobeHolds, PTL

\* Only an address of a Rev 2 board puts the rail on pin 1 unasked.
LEMMA PinOneNeedsA18 ==
  ASSUME RailInv, Pin1Surprised PROVE revision = "r2" /\ "A18" \in cache /\ charge # 0
BY DEF RailInv, LatchIsMapped, Mapped, Pin1Surprised

(* memory_utils.h, vpp_line_switches_vpp: no read of a READ, WRITE or ERASE finds the rail
   on pin 1 by its VPP line, however soon after another command it comes, of any part
   whose address bits stay off the switch.  The parts whose VPP is pin 1 are those of the
   drivers with a VPP pin, as rurp_shield.h has it ("chips whose physical VPP pin is socket
   pin 1"). *)
THEOREM ReadsLeaveVpeOffPin1 ==
  (\A part \in Chips : part.p1 => part.family \in VppFamilies)
    => (DevSpec => []ReadsKeepVpeOffPin1)
<1> SUFFICES ASSUME \A part \in Chips : part.p1 => part.family \in VppFamilies
             PROVE  DevSpec => []ReadsKeepVpeOffPin1
  OBVIOUS
<1>1. ASSUME RailInv, StrobeInv PROVE ReadsKeepVpeOffPin1
  <2> SUFFICES ASSUME strobe = "read", cmd \notin {"CHIP_ID", "DEV_ADDRESS"}, Pin1Surprised,
                      ~AddressOnSwitch
               PROVE  FALSE
    BY DEF ReadsKeepVpeOffPin1
  <2>1. revision = "r2" /\ "A18" \in cache /\ charge # 0 /\ "A18" \notin chip.lines
    BY <1>1, PinOneNeedsA18 DEF AddressOnSwitch
  <2>2. cmd = "READ" \/ Writing
    BY <1>1 DEF StrobeInv, ScriptInv, Allowed, TypeInv, Writing, MemoryCmds, VoltageCmds, DevCmds
  <2>3. CASE cmd = "READ"
    BY <1>1, <2>1, <2>3 DEF StrobeInv, ReadInv
  <2>4. CASE Writing
    BY <1>1, <2>1, <2>4 DEF StrobeInv, WriteInv, Fine, Clear, Ordinary, TypeInv
  <2> QED BY <2>2, <2>3, <2>4
<1> QED BY <1>1, StrobeHolds, PTL
================================================================================
