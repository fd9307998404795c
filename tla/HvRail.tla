-------------------------------- MODULE HvRail --------------------------------
(***************************************************************************)
(* The control register: the logical copy in RAM                           *)
(* (include/rurp_register_utils.h), the board's latch behind it            *)
(* (include/rurp_hw_rev_utils.h), and the programming rail they switch.    *)
(*                                                                         *)
(* Drivers raise and lower bits; every address they set rewrites the same  *)
(* register, which holds the address lines above the sixteen of the        *)
(* address latches; on a Rev 2 board its A18 is the switch that puts the   *)
(* rail on pin 1.  The rail falls slowly once its regulator is off.  A     *)
(* driver callback is the sequence of register operations it makes; it     *)
(* may end after any of them.                                              *)
(***************************************************************************)
EXTENDS Naturals, Sequences

CONSTANTS
  Revisions,   \* among "r0", "r1", "r2" and "unknown"
  Chips,       \* sockets' parts, as the command frames describe them
  Discharge    \* RURP_VPE_DISCHARGE_MS, in ticks

TopLines == {"A16", "A17", "A18", "RW"}   \* bus lines 16, 20, 21 and 22
Bits == {"REG", "DROP", "VPE", "P1", "A9"} \cup TopLines
MemoryCmds == {"READ", "WRITE", "ERASE", "CHIP_ID"}
VoltageCmds == {"READ_VPP", "READ_VPE"}

(* p1: the part takes VPP on the pin that P1 switches; lines: the top lines that its
   address bits, its direction, a line always high or a VPP line elsewhere may drive, of
   which A16 takes a part of 32 pins; route: what its EPROM row raises for programming. *)
Chip ==
  {part \in [family : {"eprom", "intel", "eeprom", "plain"}, pins : {24, 28, 32}, p1 : BOOLEAN,
             lines : SUBSET TopLines, route : {{"REG"}, {"REG", "DROP"}}] :
     "A16" \in part.lines => part.pins = 32}

ASSUME RailAssumption ==
  /\ Revisions \subseteq {"r0", "r1", "r2", "unknown"}
  /\ Chips \subseteq Chip
  /\ Discharge \in Nat \ {0}

VARIABLES
  revision,   \* rurp_get_hardware_revision()
  cmd, chip,  \* the command under way and the part in the socket
  phase,      \* callbacks due: 0 INIT, 1 MAIN or END, 2 none
  todo,       \* register operations left in the callback
  cache,      \* control_register
  latch,      \* the latch's outputs that are on
  off,        \* ticks since regulator_off_ms, up to Discharge
  charge,     \* ticks until the rail has fallen to its idle level
  strobe      \* what the chip was last strobed for

op == <<cmd, chip, phase, todo>>
rail == <<cache, latch, off, charge>>
railVars == <<revision, cmd, chip, phase, todo, cache, latch, off, charge, strobe>>

-----------------------------------------------------------------------------
(* rurp_map_ctrl_reg_for_hardware_revision.  Before Rev 2 the drop resistor is behind
   the A16 output; on Rev 2 the A18 line is the pin-1 switch; on a board that was not
   recognised nothing is on. *)
Mapped(rev, bits) ==
  CASE rev = "r2" -> (bits \ {"A18"}) \cup (IF "A18" \in bits THEN {"P1"} ELSE {})
    [] rev \in {"r0", "r1"} -> (bits \ {"DROP"}) \cup (IF "DROP" \in bits THEN {"A16"} ELSE {})
    [] OTHER -> {}

(* Slip: the copy is taken after the mapping test only of a change in high voltage. *)
WriteControlUncached(bits) ==
  /\ latch' = IF bits = cache THEN latch ELSE Mapped(revision, bits)
  /\ cache' = IF bits \subseteq cache THEN cache ELSE bits
  /\ off' = IF "REG" \in cache \ bits THEN 0 ELSE off
  /\ charge' = IF "REG" \in latch' THEN Discharge ELSE charge

(* rurp_write_to_register for CONTROL_REGISTER: the latch is left alone when the copy
   already holds the value. *)
WriteControl(bits) ==
  /\ cache' = bits
  /\ latch' = IF bits = cache THEN latch ELSE Mapped(revision, bits)
  /\ off' = IF "REG" \in cache \ bits THEN 0 ELSE off
  /\ charge' = IF "REG" \in latch' THEN Discharge ELSE charge

(* eprom_internal_set_control_register turns VPE into P1 for a part with VPP there. *)
Routed(bits) ==
  IF chip.family = "eprom" /\ chip.p1 /\ "VPE" \in bits
  THEN (bits \ {"VPE"}) \cup {"P1"} ELSE bits

\* Of the parts with VPP there, the line of those with 32 pins is the A18 bit.
VppOnA18(part) == part.p1 /\ part.pins = 32

SwitchesVpp == VppOnA18(chip) /\ revision = "r2"   \* vpp_line_switches_vpp

(* mem_util_remap_address_bus: a read drives the VPP line of such a part high, unless
   the voltage is on it, or could be. *)
ReadHigh ==
  /\ VppOnA18(chip)
  /\ "P1" \notin cache
  /\ SwitchesVpp => "REG" \notin cache

\* Slip: the drop bit goes with the address of every 32-pin part.
KeptWithoutDrop(part) ==
  {"A9", "VPE", "P1", "REG"} \cup (IF part.pins = 32 THEN {} ELSE {"DROP"})

(* mem_util_calculate_top_address_register: what an address keeps of the register. *)
Kept(part) ==
  {"A9", "VPE", "P1", "REG"}
    \cup (IF part.pins # 32 \/ revision = "r2" THEN {"DROP"} ELSE {})

AlwaysHigh(part) == IF part.pins = 28 THEN {"A17"} ELSE {}

(* mem_util_set_address: of the top lines, those the remapped address has; the address 0
   of an erase is not remapped. *)
SetAddress(access) ==
  \E top \in IF access = "address" THEN {{}} ELSE SUBSET chip.lines :
    WriteControl((cache \cap Kept(chip)) \cup top \cup AlwaysHigh(chip)
                   \cup (IF access = "read" /\ ReadHigh THEN {"A18"} ELSE {}))

-----------------------------------------------------------------------------
(* Register operations of the drivers, and their callbacks. *)
On(bits) == [t |-> "on", bits |-> bits]
Off(bits) == [t |-> "off", bits |-> bits]
Strobe(s) == [t |-> s, bits |-> {}]
RaiseRoute == [t |-> "route", bits |-> chip.route]   \* unless the regulator is on

AllOff == Off({"REG", "DROP", "A9", "VPE"})          \* EPROM_HV_ALL_OFF_MASK
IntelOff == Off({"REG", "P1"})                       \* FLASH_INTEL_HV_MASK

Optional(script) == {<<>>, script}

(* eprom_check_vpp: Rev 0 cannot measure the rail and does not raise it. *)
RailTest == IF revision = "r0" THEN <<>> ELSE <<On(chip.route), AllOff>>
EpromId == <<On({"REG"}), On({"A9"}), Strobe("read"), AllOff>>

\* The address of the erase is set once the regulator is up.
EpromErase == <<On({"REG"}), Strobe("address"), On({"A9", "VPE"}), Strobe("erase"), AllOff>>

EpromBlock ==
  <<RaiseRoute, Strobe("read"), On({"VPE"}), Strobe("pulse"), Off({"VPE"}), Strobe("read")>>

Commands(n) == [k \in 1..n |-> Strobe("write")]
Polled == Commands(1) \o <<Strobe("read")>>
IntelUp == <<On({"REG"}), On({"P1"})>>
EepromId == <<On({"REG"}), On({"A9"}), Strobe("read"), Off({"REG", "A9"})>>

InitScripts ==
  CASE chip.family = "eprom" /\ cmd = "WRITE" ->
         {RailTest \o id \o erase : id \in Optional(EpromId), erase \in Optional(EpromErase)}
    [] chip.family = "eprom" /\ cmd = "ERASE" ->
         {RailTest \o id : id \in Optional(EpromId)}
    [] chip.family = "eprom" /\ cmd = "CHIP_ID" -> {RailTest}
    [] chip.family = "intel" /\ cmd = "WRITE" ->
         {IntelUp \o id \o erase : id \in Optional(Polled \o Commands(1)),
                                   erase \in Optional(Polled)}
    [] chip.family = "intel" /\ cmd = "ERASE" -> {IntelUp}
    [] chip.family = "eeprom" /\ cmd = "WRITE" ->
         {id \o unlock : id \in Optional(EepromId), unlock \in Optional(Polled)}
    [] OTHER -> {<<>>}

MainScript ==
  CASE cmd = "READ" -> <<Strobe("read")>>
    [] chip.family = "eprom" /\ cmd = "WRITE" -> EpromBlock
    [] chip.family = "eprom" /\ cmd = "ERASE" -> EpromErase
    [] chip.family = "eprom" /\ cmd = "CHIP_ID" -> EpromId
    [] chip.family = "eeprom" /\ cmd = "CHIP_ID" -> <<>>
    [] OTHER -> Polled \o Commands(1)

EndScript ==
  IF chip.family = "intel" /\ cmd # "CHIP_ID" THEN Commands(1) \o <<IntelOff>> ELSE <<>>

-----------------------------------------------------------------------------
(* configure_memory: a READ of a part whose VPP line is the switch first waits for the
   rail to fall; then the address is set to 0. *)
\* Slip: nobody waits.
StartUnwaited ==
  /\ cmd = "IDLE"
  /\ chip' \in Chips /\ cmd' \in MemoryCmds
  /\ WriteControl((cache \cap Kept(chip')) \cup AlwaysHigh(chip'))
  /\ phase' = 0 /\ todo' = <<>>
  /\ UNCHANGED <<revision, strobe>>

StartCommand ==
  /\ cmd = "IDLE"
  /\ chip' \in Chips /\ cmd' \in MemoryCmds
  /\ cmd' = "READ" /\ VppOnA18(chip') /\ revision = "r2" => off = Discharge
  /\ WriteControl((cache \cap Kept(chip')) \cup AlwaysHigh(chip'))
  /\ phase' = 0 /\ todo' = <<>>
  /\ UNCHANGED <<revision, strobe>>

(* hw_read_voltage, in its first call. *)
StartVoltage ==
  /\ cmd = "IDLE" /\ revision # "r0"
  /\ cmd' \in VoltageCmds
  /\ WriteControl(IF cmd' = "READ_VPP" THEN {"REG", "DROP"} ELSE {"REG"})
  /\ phase' = 2
  /\ UNCHANGED <<revision, chip, todo, strobe>>

(* The CONFIG command may name another revision. *)
OverrideRevision ==
  /\ cmd = "IDLE" /\ revision' \in Revisions
  /\ UNCHANGED <<op, rail, strobe>>

InitCallback ==
  /\ cmd # "IDLE" /\ phase = 0
  /\ todo' \in InitScripts /\ phase' = 1
  /\ UNCHANGED <<revision, cmd, chip, rail, strobe>>

MainCallback ==
  /\ phase = 1 /\ todo = <<>>
  /\ todo' = MainScript
  /\ UNCHANGED <<revision, cmd, chip, phase, rail, strobe>>

EndCallback ==
  /\ phase = 1 /\ todo = <<>>
  /\ todo' = EndScript /\ phase' = 2
  /\ UNCHANGED <<revision, cmd, chip, rail, strobe>>

Step(t) == todo # <<>> /\ Head(todo).t \in t /\ todo' = Tail(todo)
Same == UNCHANGED <<revision, cmd, chip, phase>>

(* memory_set_control_register *)
SetControl ==
  /\ Step({"on"}) /\ WriteControl(cache \cup Routed(Head(todo).bits))
  /\ strobe' = "none" /\ Same

ClearControl ==
  /\ Step({"off"}) /\ WriteControl(cache \ Routed(Head(todo).bits))
  /\ strobe' = "none" /\ Same

(* The start of eprom_internal_write_execute_body. *)
BlockRoute ==
  /\ Step({"route"})
  /\ IF "REG" \in cache THEN UNCHANGED rail ELSE WriteControl(cache \cup Routed(Head(todo).bits))
  /\ strobe' = "none" /\ Same

(* memory_get_data, memory_set_data and the erase, whose address is 0: an address,
   then the chip's strobe. *)
Access ==
  /\ Step({"read", "write", "pulse", "address"})
  /\ SetAddress(Head(todo).t)
  /\ strobe' = Head(todo).t
  /\ Same

EraseStrobe == Step({"erase"}) /\ strobe' = "erase" /\ Same /\ UNCHANGED rail

(* Slip: the control register is left to the next command. *)
CommandDoneKeepsControl ==
  /\ cmd # "IDLE"
  /\ cmd' = "IDLE" /\ phase' = 2 /\ todo' = <<>> /\ strobe' = "none"
  /\ UNCHANGED <<revision, chip, rail>>

(* command_done, at the end of END, after an error, or when the watchdog fires. *)
CommandDone ==
  /\ cmd # "IDLE"
  /\ WriteControl({})
  /\ cmd' = "IDLE" /\ phase' = 2 /\ todo' = <<>> /\ strobe' = "none"
  /\ UNCHANGED <<revision, chip>>

(* The controller is reset under whatever it was doing: board setup clears the
   latch before a revision is known, and counts as the regulator's last switch-off. *)
Reset ==
  /\ cmd' = "IDLE" /\ phase' = 2 /\ todo' = <<>> /\ strobe' = "none"
  /\ cache' = {} /\ latch' = {} /\ off' = 0
  /\ UNCHANGED <<revision, chip, charge>>

Fallen(n) == IF n = 0 THEN 0 ELSE n - 1

(* Time passes, and the rail follows its regulator. *)
Tick ==
  /\ off' = IF off < Discharge THEN off + 1 ELSE off
  /\ charge' = IF "REG" \in latch THEN Discharge ELSE Fallen(charge)
  /\ UNCHANGED <<revision, op, cache, latch, strobe>>

RailInit ==
  /\ revision \in Revisions /\ chip \in Chips
  /\ cmd = "IDLE" /\ phase = 2 /\ todo = <<>> /\ strobe = "none"
  /\ cache = {} /\ latch = {} /\ off = 0
  /\ charge \in 0..Discharge

RailNext ==
  \/ StartCommand \/ StartVoltage \/ OverrideRevision
  \/ InitCallback \/ MainCallback \/ EndCallback
  \/ SetControl \/ ClearControl \/ BlockRoute \/ Access \/ EraseStrobe
  \/ CommandDone \/ Reset \/ Tick

RailSpec == RailInit /\ [][RailNext]_railVars

-----------------------------------------------------------------------------
(* The latch holds what the copy maps to: the shortcut for a write of the value already
   there never leaves a stale one, though the mapping changes with the configured
   revision, and a reset changes the copy alone. *)
LatchIsMapped == latch = Mapped(revision, cache)

(* No command, error, watchdog or reset leaves the rail or a route to the socket on. *)
IdleIsSafe == cmd = "IDLE" => latch \cap {"REG", "VPE", "P1", "A9"} = {}

DropIsOn == (IF revision = "r2" THEN "DROP" ELSE "A16") \in latch
Switch == IF chip.p1 THEN "P1" ELSE "VPE"

(* memory.cpp, mem_util_calculate_top_address_register: the drop bit selects a level and
   must survive the address.  A byte is programmed with the rail on, switched onto the
   part, and at the level of its route; a chip is erased at the full rail.  Not so for
   programming a 32-pin part before Rev 2, where the address takes the drop's output. *)
StrobesAtTheirLevel ==
  /\ strobe = "pulse" /\ revision # "unknown" /\ (chip.pins = 32 => revision = "r2") =>
       {"REG", Switch} \subseteq latch /\ (DropIsOn <=> "DROP" \in chip.route)
  /\ strobe = "erase" /\ revision # "unknown" =>
       {"REG", "A9", Switch} \subseteq latch /\ ~DropIsOn

\* Pin 1 carries the rail though no driver has raised P1, and the rail is up.
Pin1Surprised == "P1" \in latch /\ "P1" \notin cache /\ charge # 0

\* The part's own address, rather than its VPP line, reaches the pin-1 switch.
AddressOnSwitch == revision = "r2" /\ "A18" \in chip.lines

(* memory_utils.h, vpp_line_switches_vpp: a read may drive the VPP line high only while
   the regulator is off and VPE is discharged.  So it is of the VPP line for every command
   but CHIP_ID and the developers' address, whatever the one before it did, and however
   soon after it this one comes.  Nobody waits for a part with an address bit on that
   line (the AT28C040 of sdp_bus_config.h). *)
ReadsKeepVpeOffPin1 ==
  strobe = "read" /\ cmd \notin {"CHIP_ID", "DEV_ADDRESS"} /\ ~AddressOnSwitch => ~Pin1Surprised

(* memory.cpp: a read that switches VPE onto pin 1 never puts a programming voltage
   there. *)
NoReadPutsVpeOnPin1 == strobe = "read" => ~Pin1Surprised
===============================================================================
