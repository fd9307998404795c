-------------------------------- MODULE MCBoard --------------------------------
(***************************************************************************)
(* The parts of the firmware that share one board and no state: its        *)
(* configuration, over the PY32's dual-slot flash or the AVR's EEPROM; its *)
(* log; its control register and rail; the bus words of a frame; and the   *)
(* voltage it measures.  One of them runs, the others rest.                *)
(***************************************************************************)
EXTENDS ConfigPolicy, DeferredLog, DriverReports, DevTools, CommandFrame, VoltageMath

CONSTANT AvrOrder
VARIABLES part, avrPc, cells, source, next, avrLive, commanded

-----------------------------------------------------------------------------
\* Of the values of a field one is out of band, two usable.
MCUsable == [f \in Fields |-> {1, 2}]
MCDefault == [f \in Fields |-> 1]
MCOrder == <<"r1", "rev">>

Avr == INSTANCE EepromConfig WITH Order <- AvrOrder, pc <- avrPc, live <- avrLive

\* The struct declares each of the fields.
ASSUME AvrAssumption == AvrOrder \in Seq(Fields) /\ ToSet(AvrOrder) = Fields

avrVars == <<avrPc, cells, source, next, avrLive, commanded>>

(* The queue under the firmware's drivers, and under any callback of up to six frames:
   one droppable id, one that is not, and one that does not fit a slot. *)
Wide == \hEF
AnyReports == UNION {[1..k -> {SDP_UNLOCK, ERR_VERIFY, Wide}] : k \in 0..6}
MCReports == AllReports \cup AnyReports
MCTooLong == {Wide}

(* A part of each kind: EPROMs with 28 pins and VPP elsewhere or on pin 1, with 32 and VPP
   on pin 1; an Intel flash with VPP on pin 1; 28C EEPROMs with 28 pins and, as the
   AT28C040, with an address bit on line A18; and a flash without VPP. *)
MCPart(family, pins, p1, lines, route) ==
  [family |-> family, pins |-> pins, p1 |-> p1, lines |-> lines, route |-> route]

MCChips ==
  {MCPart("eprom", 28, FALSE, {}, {"REG", "DROP"}), MCPart("eprom", 28, TRUE, {}, {"REG"}),
   MCPart("eprom", 32, TRUE, {"A16"}, {"REG", "DROP"}), MCPart("intel", 32, TRUE, {"A16"}, {"REG"}),
   MCPart("eeprom", 28, FALSE, {}, {"REG"}), MCPart("eeprom", 32, FALSE, TopLines, {"REG"}),
   MCPart("plain", 32, FALSE, {"A16"}, {"REG"})}

\* Three address lines on a bus of four; 4 is no line of it.
MCFrames ==
  [lines : [0..2 -> {Absent, 0, 1, 2, 3, 4}], rw : {Absent, 3, 4}, vpp : {Absent, 2},
   static : {{}, {3}, {4}}, p1 : BOOLEAN]

-----------------------------------------------------------------------------
\* The parts that do not run.
ConfigRests ==
  /\ page = [p \in Slots |-> Blank]
  /\ record = [kind |-> "record", config |-> [version |-> "CURRENT", fields |-> Default],
               sequence |-> 1]
AvrRests == cells = [version |-> "CURRENT", fields |-> Default]
RailRests == revision = "r2" /\ chip \in {c \in Chips : c.family = "plain"} /\ charge = 0
VoltageRests == r1 = 0 /\ r2 = 0 /\ bandgap = 0 /\ target = 2

BoardInit ==
  /\ part \in {"py32", "avr", "log", "rail", "frame", "voltage"}
  /\ part = "py32" \/ ConfigRests
  /\ part = "avr" \/ AvrRests
  /\ part = "rail" \/ RailRests
  /\ part = "voltage" \/ VoltageRests
  /\ Init /\ Avr!Init /\ LogInit /\ RailInit /\ FrameInit /\ VoltageInit

Others == <<logVars, railVars, bus, voltageVars>>

BoardNext ==
  /\ \/ part = "py32" /\ Next /\ UNCHANGED <<avrVars, Others>>
     \/ part = "avr" /\ Avr!Next /\ UNCHANGED <<vars, Others>>
     \/ part = "log" /\ LogNext /\ UNCHANGED <<vars, avrVars, railVars, bus, voltageVars>>
     \/ part = "rail" /\ DevNext /\ UNCHANGED <<vars, avrVars, logVars, bus, voltageVars>>
     \/ part = "frame" /\ FrameNext /\ UNCHANGED <<vars, avrVars, logVars, railVars, voltageVars>>
     \/ part = "voltage" /\ VoltageNext /\ UNCHANGED <<vars, avrVars, logVars, railVars, bus>>
  /\ UNCHANGED part

BoardSpec == BoardInit /\ [][BoardNext]_<<vars, avrVars, Others, part>>

-----------------------------------------------------------------------------
(* rurp_load_config, rurp_config_commit: on either board, once the boot has read the
   storage, the firmware computes with usable values only, however a save was cut
   short and whatever command was refused. *)
SettingsUsable == LiveIsUsable /\ Avr!LiveIsUsable

(* rurp_save_config: on either board, with every save reported good, the settings at
   rest are the ones the next boot brings up. *)
SettingsStored == LiveIsStored /\ Avr!LiveIsStored

(* uno_rurp_shield.cpp: a frame dropped is one the host times out on.  No driver logs so
   much before it fails, or answers, that the queue loses the frame that says so. *)
NoErrorLost == com_mode /\ report \in AllReports => Important \subseteq ToSet(wire)
=================================================================================
