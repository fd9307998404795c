----------------------------- MODULE EepromConfig -----------------------------
(***************************************************************************)
(* The configuration policy over the AVR EEPROM                            *)
(* (src/boards/rurp_config_storage_eeprom.cpp).                            *)
(*                                                                         *)
(* EEPROM.put writes the bytes of the struct in place and in order, the    *)
(* version first; a power loss leaves the fields behind it as they were    *)
(* and the one under way with any bytes.  There is no check over the       *)
(* whole record: what a boot finds is judged by its version and field by   *)
(* field.                                                                  *)
(***************************************************************************)
EXTENDS ConfigRules, Sequences, SequencesExt

CONSTANT Order   \* each of Fields once, as the struct declares them after the version

VARIABLES
  pc,       \* "off", "idle", or inside EEPROM.put: "put"
  cells,    \* the EEPROM's record
  source,   \* the record EEPROM.put copies
  next,     \* the member it is at: 0 is the version
  live,     \* rurp_config
  commanded \* ghost: an operator has changed the settings

storage == <<cells, source, next>>
vars == <<pc, cells, source, next, live, commanded>>

-----------------------------------------------------------------------------
WithMember(c, n, v) ==
  IF n = 0 THEN [c EXCEPT !.version = v] ELSE [c EXCEPT !.fields[Order[n]] = v]

Member(c, n) == IF n = 0 THEN c.version ELSE c.fields[Order[n]]

(* rurp_config_storage_save *)
BeginPut(c) == pc' = "put" /\ source' = c /\ next' = 0 /\ UNCHANGED cells

PutMember ==
  /\ pc = "put" /\ next <= Len(Order)
  /\ cells' = WithMember(cells, next, Member(source, next))
  /\ next' = next + 1
  /\ UNCHANGED <<pc, source, live, commanded>>

PutDone ==
  /\ pc = "put" /\ next > Len(Order)
  /\ pc' = "idle"
  /\ UNCHANGED <<storage, live, commanded>>

(* The power goes at rest or between two bytes: of two members, or of one. *)
PowerLoss ==
  /\ pc # "off"
  /\ pc' = "off"
  /\ \/ UNCHANGED cells
     \/ /\ pc = "put" /\ next <= Len(Order)
        /\ \E v \in IF next = 0 THEN Versions ELSE Values : cells' = WithMember(cells, next, v)
  /\ UNCHANGED <<source, next, live, commanded>>

(* setup(): load, migrate, and save what the migration changed. *)
Boot ==
  /\ pc = "off"
  /\ live' = Migrated(cells)
  /\ IF cells # live' THEN BeginPut(live') ELSE pc' = "idle" /\ UNCHANGED storage
  /\ UNCHANGED commanded

(* Slip: the copy goes live before it is validated. *)
ConfigCommandLate ==
  /\ pc = "idle"
  /\ \E present \in SUBSET Fields, v \in [Fields -> Values] :
       LET candidate == Candidate(live, present, v)
       IN  IF present # {} /\ IsValid(candidate)
           THEN live' = candidate /\ commanded' = TRUE /\ BeginPut(candidate)
           ELSE live' = candidate /\ UNCHANGED <<pc, commanded, storage>>

(* parse_command, rurp_config_commit: a copy with no field changed is not saved, one
   with a field out of band is refused, never corrected. *)
ConfigCommand ==
  /\ pc = "idle"
  /\ \E present \in SUBSET Fields, v \in [Fields -> Values] :
       LET candidate == Candidate(live, present, v)
       IN  IF present # {} /\ IsValid(candidate)
           THEN live' = candidate /\ commanded' = TRUE /\ BeginPut(candidate)
           ELSE UNCHANGED <<pc, live, commanded, storage>>

\* Whatever another sketch, an older firmware or the factory left in the EEPROM.
Init ==
  /\ pc = "off"
  /\ cells \in Configurations
  /\ source = cells /\ next = 0
  /\ live = [version |-> "FOREIGN", fields |-> Default]
  /\ commanded = (cells.version # "FOREIGN")

Next == Boot \/ ConfigCommand \/ PutMember \/ PutDone \/ PowerLoss

Spec == Init /\ [][Next]_vars

-----------------------------------------------------------------------------
(* The members EEPROM.put has passed are the ones of the record it copies, which is the
   live one. *)
TypeOK ==
  /\ pc \in {"off", "idle", "put"}
  /\ cells \in Configurations /\ source \in Configurations /\ live \in Configurations
  /\ next \in 0..(Len(Order) + 1)
  /\ commanded \in BOOLEAN
  /\ pc = "put" => /\ source = live
                   /\ \A n \in 0..(next - 1) : Member(cells, n) = Member(source, n)

(* However a save was cut short, and whatever command was refused, the firmware
   computes with usable values only. *)
LiveIsUsable == pc # "off" => IsValid(live) /\ live.version = "CURRENT"

(* At rest the next boot brings up the settings the firmware runs with, and saves
   nothing: a restart costs no EEPROM cycle once a save has come through. *)
LiveIsStored == pc = "idle" => cells = live

(* rurp_config_migrate.cpp: nothing in a foreign record is trusted.  Until an operator
   has set something, a board that started with a foreign EEPROM runs on the defaults. *)
ForeignIsNotTrusted == pc = "idle" /\ ~commanded => live.fields = Default
===============================================================================
