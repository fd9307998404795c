----------------------------- MODULE ConfigPolicy -----------------------------
(***************************************************************************)
(* The configuration policy over the dual-slot storage: the boot migration *)
(* (rurp_load_config, rurp_config_migrate) and the CONFIG command          *)
(* (parse_command, rurp_config_commit).                                    *)
(***************************************************************************)
EXTENDS ConfigRules, DualSlot

\* The storage holds the policy's records.
ASSUME PolicyAssumption == Config = Configurations

VARIABLE live   \* rurp_config

vars == <<page, wear, pc, record, slot, result, live>>

-----------------------------------------------------------------------------
(* rurp_load_config: a load that found nothing leaves a buffer that reads as foreign. *)
Buffer ==
  IF Found THEN page[Best].config ELSE [version |-> "FOREIGN", fields |-> Default]

NoSave == UNCHANGED <<page, wear, record, slot, result>>

(* setup(): load, migrate, and save what the migration changed. *)
Boot ==
  /\ pc = "off"
  /\ live' = Migrated(Buffer)
  /\ IF Buffer # live' THEN BeginSave(live') ELSE pc' = "idle" /\ NoSave

(* parse_command, CMD_CONFIG: the frame's fields go into a copy; a copy with no field
   changed is not saved, one with a field out of band is refused, never corrected. *)
ConfigCommand ==
  /\ pc = "idle"
  /\ \E present \in SUBSET Fields, v \in [Fields -> Values] :
       LET candidate == Candidate(live, present, v)
       IN  IF present # {} /\ IsValid(candidate)
           THEN live' = candidate /\ BeginSave(candidate)
           ELSE UNCHANGED <<pc, live>> /\ NoSave

Init == SInit /\ live = [version |-> "FOREIGN", fields |-> Default]
Next == Boot \/ ConfigCommand \/ (Storage /\ UNCHANGED live)
Spec == Init /\ [][Next]_vars

-----------------------------------------------------------------------------
TypeOK == STypeOK /\ live \in Config

(* The settings a restart now would bring up. *)
Settings == Migrated(Buffer)

(* Once the boot has read the storage, the firmware computes with usable values only. *)
LiveIsUsable == pc # "off" => IsValid(live) /\ live.version = "CURRENT"

(* Only an operator's CONFIG command changes what the next boot brings up.  Booting,
   migrating an old or a foreign record, losing the power in the middle of that
   migration and booting again, and failing to save it, all keep the settings. *)
OnlyCommandsChangeSettings ==
  [][Settings' # Settings => pc = "program" /\ Settings' = live]_vars

(* With every save reported good, the live settings are the stored ones. *)
LiveIsStored == pc = "idle" /\ result => Settings = live
===============================================================================
