-------------------------------- MODULE MCEeprom --------------------------------
(* The struct's members, each with a default, another usable value and one out of band. *)
EXTENDS EepromConfig

MCOrder == <<"r1", "rev", "bandgap">>
MCFields == ToSet(MCOrder)
MCUsable == [f \in MCFields |-> {1, 2}]
MCDefault == [f \in MCFields |-> 1]
===============================================================================
