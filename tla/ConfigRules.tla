----------------------------- MODULE ConfigRules -----------------------------
(***************************************************************************)
(* What every port does with a configuration record                        *)
(* (src/rurp_config_migrate.cpp): a version and some fields - the          *)
(* divider's two resistors, the revision override, the bandgap - each with *)
(* the values the firmware may use and a default.                          *)
(***************************************************************************)
CONSTANTS Fields, Values, Usable, Default

ASSUME RulesAssumption ==
  /\ Usable \in [Fields -> SUBSET Values]
  /\ Default \in [Fields -> Values]
  /\ \A f \in Fields : Default[f] \in Usable[f]

Versions == {"CURRENT", "OLDER", "FOREIGN"}
Configurations == [version : Versions, fields : [Fields -> Values]]

(* rurp_config_is_valid: check_fields without correction. *)
IsValid(c) == \A f \in Fields : c.fields[f] \in Usable[f]

(* Slip: the version alone decides. *)
MigratedUnchecked(c) ==
  [version |-> "CURRENT", fields |-> IF c.version # "FOREIGN" THEN c.fields ELSE Default]

(* rurp_config_migrate: nothing of a foreign record is kept, an unusable field takes
   its default, the version becomes this firmware's. *)
Migrated(c) ==
  [version |-> "CURRENT",
   fields |-> [f \in Fields |-> IF c.version # "FOREIGN" /\ c.fields[f] \in Usable[f]
                                THEN c.fields[f] ELSE Default[f]]]

(* parse_command, CMD_CONFIG: the frame's fields go into a copy of the live settings. *)
Candidate(live, present, v) ==
  [live EXCEPT !.fields = [f \in Fields |-> IF f \in present THEN v[f] ELSE @[f]]]
===============================================================================
