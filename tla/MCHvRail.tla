------------------------------- MODULE MCHvRail -------------------------------
(* A part of each kind whose address bits stay off line A18: EPROMs with 28 pins and VPP
   elsewhere or on pin 1, with 32 and VPP on pin 1; an Intel flash with VPP on pin 1; a 28C
   EEPROM; and a flash without VPP. *)
EXTENDS DevTools

Part(family, pins, p1, lines, route) ==
  [family |-> family, pins |-> pins, p1 |-> p1, lines |-> lines, route |-> route]

MCChips ==
  {Part("eprom", 28, FALSE, {}, {"REG", "DROP"}), Part("eprom", 28, TRUE, {}, {"REG"}),
   Part("eprom", 32, TRUE, {"A16"}, {"REG", "DROP"}), Part("intel", 32, TRUE, {"A16"}, {"REG"}),
   Part("eeprom", 28, FALSE, {}, {"REG"}), Part("plain", 32, FALSE, {"A16"}, {"REG"})}

\* AT28C040 (sdp_bus_config.h): its address bit 18 is line A18, its direction line RW.
AT28C040 == {Part("eeprom", 32, FALSE, TopLines, {"REG"})}
===============================================================================
