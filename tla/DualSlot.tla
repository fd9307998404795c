------------------------------- MODULE DualSlot -------------------------------
(***************************************************************************)
(* The dual-slot configuration storage of the PY32 port                    *)
(* (platform/py32f071/src/config_storage_dualslot.cpp over the flash       *)
(* primitives of config_storage_flash.cpp).                                *)
(*                                                                         *)
(* Two flash pages, each blank, holding a record that validates, or torn   *)
(* (no magic, a length out of bounds or a CRC that does not match: the     *)
(* code treats them alike).  A save erases the page that is not the newest *)
(* and programs it whole.  Either primitive may fail, and the power may go *)
(* during either; both leave the page in any state on the way.             *)
(***************************************************************************)
EXTENDS Naturals

CONSTANTS
  Config,      \* rurp_configuration_t values
  Wrap,        \* the sequence field counts modulo Wrap (2^32)
  Endurance    \* erase cycles of one page

ASSUME DualSlotAssumption ==
  /\ Wrap \in Nat /\ Endurance \in Nat \ {0}
  /\ Endurance + Endurance + 1 < Wrap

Slots == {0, 1}
Record == [kind : {"record"}, config : Config, sequence : 0..(Wrap - 1)]
Blank == [kind |-> "blank"]
Torn == [kind |-> "torn"]
Page == Record \cup {Blank, Torn}

VARIABLES
  page,      \* the two flash pages
  wear,      \* erases each page has seen
  pc,        \* "off", "idle", or inside rurp_dualslot_save: "erase", "program"
  record,    \* the record being saved
  slot,      \* inactive_slot
  result     \* what the last save returned

svars == <<page, wear, pc, record, slot, result>>

-----------------------------------------------------------------------------
(* scan_slots: the valid record with the strictly higher sequence, the first slot on a
   tie. *)
Valid(s) == page[s].kind = "record"
Found == Valid(0) \/ Valid(1)
Best ==
  IF Valid(1) /\ (Valid(0) => page[1].sequence > page[0].sequence) THEN 1 ELSE 0

(* rurp_dualslot_load: one configuration, or none. *)
Loaded == IF Found THEN {page[Best].config} ELSE {}

Successor(n) == IF n + 1 = Wrap THEN 0 ELSE n + 1

(* Slips: the save goes to the newest page; an unfound best slot of -1 gives slot 2; the
   sequence is copied, not advanced. *)
BeginSaveAt(c, s, n) ==
  /\ record' = [kind |-> "record", config |-> c, sequence |-> n]
  /\ slot' = s
  /\ pc' = "erase"
  /\ UNCHANGED <<page, wear, result>>

NextSequence == IF Found THEN Successor(page[Best].sequence) ELSE 1

BeginSaveInPlace(c) == BeginSaveAt(c, Best, NextSequence)
BeginSaveSameSequence(c) ==
  BeginSaveAt(c, IF Found THEN 1 - Best ELSE 0, IF Found THEN page[Best].sequence ELSE 1)

(* rurp_dualslot_save up to the erase: the record and the slot it goes to. *)
BeginSave(c) ==
  /\ record' = [kind |-> "record", config |-> c,
                sequence |-> IF Found THEN Successor(page[Best].sequence) ELSE 1]
  /\ slot' = IF Found THEN 1 - Best ELSE 0
  /\ pc' = "erase"
  /\ UNCHANGED <<page, wear, result>>

SetPage(p) == page' = [page EXCEPT ![slot] = p]

(* What the page may hold when an erase or a program did not run to its end. *)
HalfErased == {page[slot], Torn, Blank}
HalfProgrammed == {Blank, Torn, record}

Worn == wear[slot] >= Endurance
Wear == wear' = [wear EXCEPT ![slot] = IF Worn THEN @ ELSE @ + 1]

EraseOk ==
  /\ pc = "erase" /\ ~Worn
  /\ SetPage(Blank) /\ Wear
  /\ pc' = "program"
  /\ UNCHANGED <<record, slot, result>>

Return(ok) == pc' = "idle" /\ result' = ok /\ UNCHANGED <<record, slot>>

EraseFails ==
  /\ pc = "erase"
  /\ \E p \in HalfErased : SetPage(p)
  /\ Wear
  /\ Return(FALSE)

ProgramOk == pc = "program" /\ SetPage(record) /\ Return(TRUE) /\ UNCHANGED wear

ProgramFails ==
  /\ pc = "program"
  /\ \E p \in HalfProgrammed : SetPage(p)
  /\ Return(FALSE)
  /\ UNCHANGED wear

(* The power goes, at rest or inside either primitive. *)
PowerLoss ==
  /\ pc # "off"
  /\ pc' = "off"
  /\ \/ pc = "idle" /\ UNCHANGED <<page, wear>>
     \/ pc = "erase" /\ Wear /\ \E p \in HalfErased : SetPage(p)
     \/ pc = "program" /\ UNCHANGED wear /\ \E p \in HalfProgrammed : SetPage(p)
  /\ UNCHANGED <<record, slot, result>>

Storage == EraseOk \/ EraseFails \/ ProgramOk \/ ProgramFails \/ PowerLoss

\* As delivered, or with one record of an earlier firmware.
SInit ==
  /\ \E p \in {Blank} \cup [kind : {"record"}, config : Config, sequence : {1}] :
       page = [s \in Slots |-> IF s = 0 THEN p ELSE Blank]
  /\ wear = [s \in Slots |-> IF Valid(s) THEN 1 ELSE 0]
  /\ pc = "off" /\ slot = 0 /\ result = TRUE
  /\ \E c \in Config : record = [kind |-> "record", config |-> c, sequence |-> 1]

(* Any caller of the seam: restarts, and saves of any configuration. *)
Restart == pc = "off" /\ pc' = "idle" /\ UNCHANGED <<page, wear, record, slot, result>>
Save == pc = "idle" /\ \E c \in Config : BeginSave(c)

SNext == Storage \/ Restart \/ Save
SSpec == SInit /\ [][SNext]_svars

-----------------------------------------------------------------------------
(* The storage's state. *)
STypeOK ==
  /\ page \in [Slots -> Page]
  /\ wear \in [Slots -> 0..Endurance]
  /\ pc \in {"off", "idle", "erase", "program"}
  /\ record \in Record
  /\ slot \in Slots
  /\ result \in BOOLEAN

Pending == IF pc \in {"erase", "program"} THEN {record.config} ELSE {}

Register == INSTANCE ConfigRegister
            WITH Value <- Config, stored <- Loaded, pending <- Pending

(* config_storage_dualslot.h: interrupted writes leave the active slot recoverable.
   The two pages are one register: a save takes effect as a whole or not at all, and
   nothing else changes what a load returns - no failed erase, no torn page, no
   restart, no repeated save into the page that failed. *)
StorageIsARegister == Register!RSpec

(* rurp_dualslot_save returns true only if the record is the one the next load finds. *)
ReportedSavesAreStored ==
  [][pc = "program" /\ pc' = "idle" /\ result' => Loaded' = {record.config}]_svars
===============================================================================
