---------------------------- MODULE DualSlotProofs ----------------------------
(* The dual-slot storage is a register: for every set of configurations, every
   endurance, and any order of saves, failures and power losses. *)
EXTENDS DualSlot, TLAPS, Integers

Other == 1 - slot

(* No sequence number has outrun the erases that made room for it, so none wraps. *)
SequenceInv ==
  /\ \A s \in Slots : Valid(s) => page[s].sequence <= wear[0] + wear[1]
  /\ pc = "erase" => record.sequence <= wear[0] + wear[1] + 1
  /\ pc = "program" => record.sequence <= wear[0] + wear[1]

(* The newest record is never the one being replaced. *)
NewestInv ==
  /\ Valid(0) /\ Valid(1) => page[0].sequence # page[1].sequence
  /\ pc \in {"erase", "program"} =>
       /\ Valid(slot) => Valid(Other) /\ page[slot].sequence < page[Other].sequence
       /\ Valid(Other) => page[Other].sequence < record.sequence

SInv == STypeOK /\ SequenceInv /\ NewestInv

LEMMA PageKinds ==
  /\ \A p \in Record : p.kind = "record" /\ p.config \in Config /\ p.sequence \in Nat
  /\ \A p \in Page : p.kind = "record" <=> p \in Record
  /\ Blank.kind # "record" /\ Torn.kind # "record"
  /\ Blank \in Page /\ Torn \in Page /\ Record \subseteq Page
BY DualSlotAssumption DEF Record, Page, Blank, Torn

(* What writing p into the inactive slot does to the two slots. *)
LEMMA SlotWrite ==
  ASSUME STypeOK, NEW p \in Page, SetPage(p)
  PROVE  /\ page' \in [Slots -> Page]
         /\ page'[slot] = p /\ page'[Other] = page[Other]
         /\ {slot, Other} = Slots
BY DEF STypeOK, SetPage, Slots, Other

LEMMA WearStep ==
  ASSUME STypeOK, Wear
  PROVE  /\ wear' \in [Slots -> 0..Endurance]
         /\ wear[0] + wear[1] <= wear'[0] + wear'[1]
         /\ ~Worn => wear'[0] + wear'[1] = wear[0] + wear[1] + 1
<1>1. wear[0] \in Nat /\ wear[1] \in Nat /\ slot \in {0, 1} /\ Endurance \in Nat
  BY DualSlotAssumption DEF STypeOK, Slots
<1>2. CASE slot = 0
  BY <1>1, <1>2 DEF STypeOK, Slots, Wear, Worn
<1>3. CASE slot = 1
  BY <1>1, <1>3 DEF STypeOK, Slots, Wear, Worn
<1> QED
  BY <1>1, <1>2, <1>3

(* Best returns the newest record. *)
LEMMA BestFacts ==
  ASSUME STypeOK, NewestInv, Found
  PROVE  /\ Best \in Slots /\ Valid(Best)
         /\ Valid(1 - Best) => page[1 - Best].sequence < page[Best].sequence
<1>1. \A s \in Slots : Valid(s) => page[s].sequence \in Nat
  BY PageKinds DEF STypeOK, Valid
<1> QED
  BY <1>1 DEF Found, Best, NewestInv, Slots

-----------------------------------------------------------------------------
(* The two outcomes of writing the inactive slot. *)
LEMMA OldStays ==
  ASSUME SInv, pc \in {"erase", "program"}, NEW p \in {page[slot], Blank, Torn}, SetPage(p)
  PROVE  Loaded' = Loaded
<1>1. p \in Page /\ slot \in {0, 1}
  BY PageKinds DEF SInv, STypeOK, Slots
<1>2. page'[slot] = p /\ page'[Other] = page[Other] /\ {slot, Other} = {0, 1}
  BY <1>1, SlotWrite DEF SInv, Slots
<1>3. /\ \A s \in {0, 1} : Valid(s) => page[s].sequence \in Nat
      /\ \A s \in {0, 1} : Valid(s)' <=> page'[s].kind = "record"
  BY PageKinds DEF SInv, STypeOK, Slots, Valid
<1>4. /\ Valid(slot) => Valid(Other) /\ page[slot].sequence < page[Other].sequence
      /\ p = page[slot] \/ p.kind # "record"
  BY PageKinds DEF SInv, NewestInv
<1>5. CASE slot = 0
  BY <1>2, <1>3, <1>4, <1>5 DEF Other, Loaded, Found, Best, Valid
<1>6. CASE slot = 1
  BY <1>2, <1>3, <1>4, <1>6 DEF Other, Loaded, Found, Best, Valid
<1> QED
  BY <1>1, <1>5, <1>6

LEMMA NewTakesOver ==
  ASSUME SInv, pc \in {"erase", "program"}, SetPage(record)
  PROVE  Loaded' = {record.config}
<1>1. record \in Page /\ slot \in {0, 1} /\ record.kind = "record" /\ record.sequence \in Nat
  BY PageKinds DEF SInv, STypeOK, Slots
<1>2. page'[slot] = record /\ page'[Other] = page[Other] /\ {slot, Other} = {0, 1}
  BY <1>1, SlotWrite DEF SInv, Slots
<1>3. Valid(Other) => page[Other].sequence < record.sequence /\ page[Other].sequence \in Nat
  BY <1>1, <1>2, PageKinds DEF SInv, STypeOK, NewestInv, Slots, Valid
<1>4. CASE slot = 0
  BY <1>1, <1>2, <1>3, <1>4 DEF Other, Loaded, Found, Best, Valid
<1>5. CASE slot = 1
  BY <1>1, <1>2, <1>3, <1>5 DEF Other, Loaded, Found, Best, Valid
<1> QED
  BY <1>1, <1>4, <1>5

(* What the invariant needs of a write of the inactive slot that ends the save. *)
LEMMA SaveEnds ==
  ASSUME SInv, pc \in {"erase", "program"}, NEW p \in {page[slot], Blank, Torn, record},
         p = record => pc = "program",
         SetPage(p), pc' \in {"off", "idle"}, UNCHANGED <<record, slot>>,
         result' \in BOOLEAN, Wear \/ UNCHANGED wear
  PROVE  SInv'
<1>1. p \in Page /\ slot \in {0, 1} /\ Other \in {0, 1}
  BY PageKinds DEF SInv, STypeOK, Slots, Other
<1>2. page' \in [Slots -> Page] /\ page'[slot] = p /\ page'[Other] = page[Other]
      /\ {slot, Other} = Slots
  BY <1>1, SlotWrite DEF SInv
<1>3. wear' \in [Slots -> 0..Endurance] /\ wear[0] + wear[1] <= wear'[0] + wear'[1]
  <2>1. wear[0] \in Nat /\ wear[1] \in Nat /\ wear \in [Slots -> 0..Endurance]
    BY DualSlotAssumption DEF SInv, STypeOK, Slots
  <2> QED
    BY <2>1, WearStep DEF SInv
<1>4. STypeOK'
  BY <1>2, <1>3 DEF SInv, STypeOK
<1>5. \A s \in Slots : Valid(s)' => \/ Valid(s) /\ page'[s] = page[s]
                                    \/ p = record /\ page'[s] = record
  <2>1. (Valid(slot)' <=> p.kind = "record") /\ (Valid(Other) <=> page'[Other].kind = "record")
    BY <1>2 DEF Valid
  <2>2. \A s \in Slots : Valid(s)' <=> page'[s].kind = "record"
    BY DEF Valid
  <2> QED
    BY <1>2, <2>1, <2>2, PageKinds DEF Valid
<1>6. wear[0] + wear[1] \in Nat /\ wear'[0] + wear'[1] \in Nat
  BY <1>3, DualSlotAssumption DEF SInv, STypeOK, Slots
<1>7. SequenceInv'
  <2> SUFFICES ASSUME NEW s \in Slots, Valid(s)'
               PROVE  page'[s].sequence <= wear'[0] + wear'[1]
    BY DEF SequenceInv
  <2>1. CASE Valid(s) /\ page'[s] = page[s]
    <3>1. page[s].sequence <= wear[0] + wear[1] /\ page[s].sequence \in Nat
      BY <2>1, PageKinds DEF SInv, STypeOK, SequenceInv, Valid
    <3> QED
      BY <1>3, <1>6, <2>1, <3>1
  <2>2. CASE p = record /\ page'[s] = record
    <3>1. record.sequence <= wear[0] + wear[1] /\ record.sequence \in Nat
      BY <2>2, PageKinds DEF SInv, STypeOK, SequenceInv
    <3> QED
      BY <1>3, <1>6, <2>2, <3>1
  <2> QED
    BY <1>5, <2>1, <2>2
<1>8. NewestInv'
  <2>1. page'[Other].kind = "record" /\ page'[slot].kind = "record" =>
          page'[Other].sequence # page'[slot].sequence
    <3> SUFFICES ASSUME page'[Other].kind = "record", page'[slot].kind = "record"
                 PROVE  page'[Other].sequence # page'[slot].sequence
      OBVIOUS
    <3>1. Valid(Other) /\ page[Other].sequence \in Nat /\ record.sequence \in Nat
      BY <1>2, PageKinds DEF SInv, STypeOK, Valid
    <3>2. CASE p = record
      BY <1>2, <3>1, <3>2 DEF SInv, NewestInv
    <3>3. CASE p = page[slot]
      BY <1>2, <3>1, <3>3, PageKinds DEF SInv, STypeOK, NewestInv, Valid
    <3>4. CASE p \in {Blank, Torn}
      BY <1>2, <3>4, PageKinds DEF Valid
    <3> QED
      BY <3>2, <3>3, <3>4
  <2> QED
    BY <1>1, <1>2, <2>1 DEF NewestInv, Slots, Valid, Other
<1> QED
  BY <1>4, <1>7, <1>8 DEF SInv

-----------------------------------------------------------------------------
LEMMA SaveBegins ==
  ASSUME SInv, NEW c \in Config, BeginSave(c)
  PROVE  SInv'
<1>1. UNCHANGED <<page, wear, result>> /\ pc' = "erase"
  BY DEF BeginSave
<1>2. wear[0] \in Nat /\ wear[1] \in Nat /\ wear[0] + wear[1] + 1 < Wrap
      /\ 1 < Wrap /\ Wrap \in Nat
  BY DualSlotAssumption DEF SInv, STypeOK, Slots
<1>3. CASE Found
  <2>1. Best \in Slots /\ Valid(Best)
        /\ (Valid(1 - Best) => page[1 - Best].sequence < page[Best].sequence)
    BY <1>3, BestFacts DEF SInv
  <2>2. page[Best].sequence \in Nat /\ page[Best].sequence <= wear[0] + wear[1]
    BY <2>1, PageKinds DEF SInv, STypeOK, SequenceInv, Valid
  <2>3. Successor(page[Best].sequence) = page[Best].sequence + 1
    BY <1>2, <2>2 DEF Successor
  <2>4. /\ record' = [kind |-> "record", config |-> c, sequence |-> page[Best].sequence + 1]
        /\ slot' = 1 - Best
    BY <1>3, <2>3 DEF BeginSave
  <2>5. slot' \in Slots /\ 1 - slot' = Best /\ record' \in Record
    BY <1>2, <2>1, <2>2, <2>4 DEF Slots, Record
  <2>6. STypeOK'
    BY <1>1, <2>5 DEF SInv, STypeOK
  <2>7. SequenceInv'
    BY <1>1, <1>2, <2>2, <2>4 DEF SInv, SequenceInv, Valid
  <2>8. NewestInv'
    BY <1>1, <2>1, <2>2, <2>4, <2>5 DEF SInv, NewestInv, Valid, Other
  <2> QED
    BY <2>6, <2>7, <2>8 DEF SInv
<1>4. CASE ~Found
  <2>1. ~Valid(0) /\ ~Valid(1)
    BY <1>4 DEF Found
  <2>2. /\ record' = [kind |-> "record", config |-> c, sequence |-> 1]
        /\ slot' = 0
    BY <1>4 DEF BeginSave
  <2>3. STypeOK'
    BY <1>1, <1>2, <2>2 DEF SInv, STypeOK, Record, Slots
  <2>4. SequenceInv' /\ NewestInv'
    BY <1>1, <1>2, <2>1, <2>2 DEF SInv, SequenceInv, NewestInv, Valid, Other, Slots
  <2> QED
    BY <2>3, <2>4 DEF SInv
<1> QED
  BY <1>3, <1>4

LEMMA Erased ==
  ASSUME SInv, EraseOk
  PROVE  SInv'
<1>1. /\ SetPage(Blank) /\ Wear /\ ~Worn /\ pc = "erase" /\ pc' = "program"
      /\ UNCHANGED <<record, slot, result>>
  BY DEF EraseOk
<1>2. page' \in [Slots -> Page] /\ page'[slot] = Blank /\ page'[Other] = page[Other]
      /\ {slot, Other} = Slots
  BY <1>1, SlotWrite, PageKinds DEF SInv
<1>3. wear' \in [Slots -> 0..Endurance] /\ wear'[0] + wear'[1] = wear[0] + wear[1] + 1
  BY <1>1, WearStep DEF SInv
<1>4. wear[0] + wear[1] \in Nat
  BY DualSlotAssumption DEF SInv, STypeOK, Slots
<1>5. STypeOK'
  BY <1>1, <1>2, <1>3 DEF SInv, STypeOK
<1>6. \A s \in Slots : page'[s].kind = "record" => Valid(s) /\ page'[s] = page[s] /\ s = Other
  BY <1>2, PageKinds DEF Valid
<1>7. \A s \in Slots : Valid(s) => page[s].sequence \in Nat
  BY PageKinds DEF SInv, STypeOK, Valid
<1>8. SequenceInv'
  BY <1>1, <1>3, <1>4, <1>6, <1>7 DEF SInv, SequenceInv, Valid
<1>9. NewestInv'
  BY <1>1, <1>2, <1>6 DEF SInv, NewestInv, Valid, Other, Slots
<1> QED
  BY <1>5, <1>8, <1>9 DEF SInv

LEMMA SInvInit == SInit => SInv
<1> SUFFICES ASSUME SInit PROVE SInv
  OBVIOUS
<1>1. PICK p \in {Blank} \cup [kind : {"record"}, config : Config, sequence : {1}] :
        page = [s \in Slots |-> IF s = 0 THEN p ELSE Blank]
  BY DEF SInit
<1>2. 1 \in 0..(Wrap - 1)
  BY DualSlotAssumption
<1>3. p \in Page /\ (p.kind = "record" => p.sequence = 1)
  BY <1>2, PageKinds DEF Page, Record
<1>4. page \in [Slots -> Page] /\ page[0] = p /\ page[1] = Blank
  BY <1>1, <1>3, PageKinds DEF Slots
<1>5. ~Valid(1) /\ (Valid(0) => page[0].sequence = 1)
  BY <1>3, <1>4, PageKinds DEF Valid
<1>6. record \in Record
  BY <1>2 DEF SInit, Record
<1>7. wear = [s \in Slots |-> IF Valid(s) THEN 1 ELSE 0] /\ pc = "off" /\ slot = 0 /\ result = TRUE
  BY DEF SInit
<1>8. wear[0] = (IF Valid(0) THEN 1 ELSE 0) /\ wear[1] = 0
  BY <1>5, <1>7 DEF Slots
<1>9. STypeOK
  <2>1. wear \in [Slots -> 0..Endurance]
    BY <1>7, <1>8, DualSlotAssumption DEF Slots
  <2> QED
    BY <1>4, <1>6, <1>7, <2>1 DEF STypeOK, Slots
<1> QED
  BY <1>5, <1>7, <1>8, <1>9 DEF SInv, SequenceInv, NewestInv, Slots

LEMMA StaleSlot ==
  ASSUME SInv, pc = "erase"
  PROVE  page[slot] # record
<1> SUFFICES ASSUME page[slot] = record PROVE FALSE
  OBVIOUS
<1>1. record.kind = "record" /\ record.sequence \in Nat /\ Other \in Slots
  BY PageKinds DEF SInv, STypeOK, Slots, Other
<1>2. Valid(slot) /\ Valid(Other)
  BY <1>1 DEF SInv, NewestInv, Valid
<1>3. page[Other].sequence \in Nat
  BY <1>1, <1>2, PageKinds DEF SInv, STypeOK, Valid
<1> QED
  BY <1>1, <1>2, <1>3 DEF SInv, NewestInv

LEMMA SInvStep == SInv /\ [SNext]_svars => SInv'
<1> SUFFICES ASSUME SInv, [SNext]_svars PROVE SInv'
  OBVIOUS
<1>0. TRUE \in BOOLEAN /\ FALSE \in BOOLEAN /\ result \in BOOLEAN
  BY Zenon DEF SInv, STypeOK
<1>1. CASE EraseOk
  BY <1>1, Erased
<1>2. CASE EraseFails
  <2>1. PICK p \in HalfErased : SetPage(p)
    BY <1>2 DEF EraseFails
  <2>2. pc = "erase" /\ pc' = "idle" /\ UNCHANGED <<record, slot>> /\ Wear
    BY <1>2 DEF EraseFails, Return
  <2>3. result' \in BOOLEAN
    BY <1>0, <1>2, Zenon DEF EraseFails, Return
  <2>4. p \in {page[slot], Blank, Torn} /\ p # record
    <3>1. page[slot] # record
      BY <2>2, StaleSlot
    <3> QED
      BY <2>1, <3>1, PageKinds DEF HalfErased, SInv, STypeOK
  <2> QED
    BY <2>1, <2>2, <2>3, <2>4, SaveEnds
<1>3. CASE ProgramOk
  <2>1. pc = "program" /\ pc' = "idle" /\ UNCHANGED <<record, slot, wear>> /\ SetPage(record)
    BY <1>3 DEF ProgramOk, Return
  <2>2. result' \in BOOLEAN
    BY <1>0, <1>3, Zenon DEF ProgramOk, Return
  <2> QED
    BY <2>1, <2>2, SaveEnds
<1>4. CASE ProgramFails
  <2>1. PICK p \in HalfProgrammed : SetPage(p)
    BY <1>4 DEF ProgramFails
  <2>2. pc = "program" /\ pc' = "idle" /\ UNCHANGED <<record, slot, wear>>
    BY <1>4 DEF ProgramFails, Return
  <2>3. result' \in BOOLEAN
    BY <1>0, <1>4, Zenon DEF ProgramFails, Return
  <2> QED
    BY <2>1, <2>2, <2>3, SaveEnds DEF HalfProgrammed
<1>5. CASE PowerLoss
  <2>1. pc' = "off" /\ UNCHANGED <<record, slot, result>>
    BY <1>5 DEF PowerLoss
  <2>2. result' \in BOOLEAN
    BY <1>0, <1>5, Zenon DEF PowerLoss
  <2>3. CASE pc = "idle" /\ UNCHANGED <<page, wear>>
    BY <2>1, <2>3 DEF SInv, STypeOK, SequenceInv, NewestInv, Valid
  <2>4. CASE pc = "erase" /\ Wear /\ \E p \in HalfErased : SetPage(p)
    <3>1. PICK p \in HalfErased : SetPage(p)
      BY <2>4
    <3>2. page[slot] # record
      BY <2>4, StaleSlot
    <3>3. p \in {page[slot], Blank, Torn} /\ p # record
      BY <3>1, <3>2, PageKinds DEF HalfErased, SInv, STypeOK
    <3> QED
      BY <2>1, <2>2, <2>4, <3>1, <3>3, SaveEnds
  <2>5. CASE pc = "program" /\ UNCHANGED wear /\ \E p \in HalfProgrammed : SetPage(p)
    BY <2>1, <2>2, <2>5, SaveEnds DEF HalfProgrammed
  <2> QED
    BY <1>5, <2>3, <2>4, <2>5 DEF PowerLoss
<1>6. CASE Restart
  BY <1>6 DEF Restart, SInv, STypeOK, SequenceInv, NewestInv, Valid
<1>7. CASE Save
  BY <1>7, SaveBegins DEF Save
<1>8. CASE UNCHANGED svars
  BY <1>8 DEF svars, SInv, STypeOK, SequenceInv, NewestInv, Valid, Other
<1> QED
  BY <1>1, <1>2, <1>3, <1>4, <1>5, <1>6, <1>7, <1>8 DEF SNext, Storage

(* rurp_dualslot_save: the pages, their wear and the save under way keep their types. *)
THEOREM StorageTypes == SSpec => []STypeOK
BY SInvInit, SInvStep, PTL DEF SSpec, SInv

(* The refinement: every step of the storage is a step of the register or none. *)
LEMMA RegisterStep ==
  SInv /\ [SNext]_svars => [Register!RNext]_(Register!rvars)
<1> SUFFICES ASSUME SInv, [SNext]_svars
             PROVE  Register!RNext \/ UNCHANGED Register!rvars
  OBVIOUS
<1> USE DEF Register!RNext, Register!Begin, Register!Commit, Register!Drop, Register!rvars
<1>a. ASSUME pc \in {"erase", "program"}, pc' \in {"off", "idle"},
             NEW p \in {page[slot], Blank, Torn, record}, SetPage(p)
      PROVE  Register!RNext
  <2>1. Pending = {record.config} /\ Pending' = {}
    BY <1>a DEF Pending
  <2>2. CASE p = record
    BY <1>a, <2>1, <2>2, NewTakesOver
  <2>3. CASE p # record
    BY <1>a, <2>1, <2>3, OldStays
  <2> QED
    BY <2>2, <2>3
<1>1. CASE EraseOk
  <2>1. Loaded' = Loaded
    BY <1>1, OldStays DEF EraseOk
  <2>2. Pending' = Pending
    BY <1>1 DEF EraseOk, Pending
  <2> QED
    BY <2>1, <2>2
<1>2. CASE EraseFails
  BY <1>2, <1>a DEF EraseFails, HalfErased, Return
<1>3. CASE ProgramOk
  BY <1>3, <1>a DEF ProgramOk, Return
<1>4. CASE ProgramFails
  BY <1>4, <1>a DEF ProgramFails, HalfProgrammed, Return
<1>5. CASE PowerLoss
  <2>1. CASE pc = "idle" /\ UNCHANGED <<page, wear>>
    BY <1>5, <2>1 DEF PowerLoss, Loaded, Found, Best, Valid, Pending
  <2>2. CASE pc # "idle"
    BY <1>5, <2>2, <1>a DEF PowerLoss, HalfErased, HalfProgrammed
  <2> QED
    BY <1>5, <2>1, <2>2 DEF PowerLoss
<1>6. CASE Restart
  BY <1>6 DEF Restart, Loaded, Found, Best, Valid, Pending
<1>7. CASE Save
  <2>1. PICK c \in Config : BeginSave(c)
    BY <1>7 DEF Save
  <2>2. Loaded' = Loaded
    BY <2>1 DEF BeginSave, Loaded, Found, Best, Valid
  <2>3. Pending = {} /\ Pending' = {c}
    BY <1>7, <2>1 DEF Save, BeginSave, Pending
  <2> QED
    BY <2>2, <2>3
<1>8. CASE UNCHANGED svars
  BY <1>8 DEF svars, Loaded, Found, Best, Valid, Pending
<1> QED
  BY <1>1, <1>2, <1>3, <1>4, <1>5, <1>6, <1>7, <1>8 DEF SNext, Storage

LEMMA RegisterInit == SInit => Register!RInit
<1> SUFFICES ASSUME SInit PROVE Register!RInit
  OBVIOUS
<1>1. SInv
  BY SInvInit
<1>2. Pending = {}
  BY DEF SInit, Pending
<1>3. CASE Found
  <2>1. Best \in Slots /\ Valid(Best)
    BY <1>1, <1>3, BestFacts DEF SInv
  <2>2. page[Best].config \in Config
    BY <1>1, <2>1, PageKinds DEF SInv, STypeOK, Valid
  <2> QED
    BY <1>2, <1>3, <2>2 DEF Register!RInit, Register!Holds, Loaded
<1>4. CASE ~Found
  BY <1>2, <1>4 DEF Register!RInit, Register!Holds, Loaded
<1> QED
  BY <1>3, <1>4

(* rurp_dualslot_save and rurp_dualslot_load implement a register that a write changes
   as a whole or not at all, across failing primitives and power losses. *)
THEOREM DualSlotIsARegister == SSpec => StorageIsARegister
BY SInvInit, SInvStep, RegisterInit, RegisterStep, PTL
   DEF SSpec, StorageIsARegister, Register!RSpec
===============================================================================
