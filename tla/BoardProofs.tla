------------------------------ MODULE BoardProofs ------------------------------
(* The configuration policy, over either storage, and the deferred log: for every set of
   fields and values, whatever their defaults, every endurance of the flash, every
   queue, and any order of commands, failures and power losses.  Then the words that go
   out on the bus, for every bus and every map of it; and the voltage reading, for every
   width of integer, every converter and every calibration. *)
EXTENDS MCBoard, DualSlotProofs, Induction, FiniteSetTheorems, TLAPS

-----------------------------------------------------------------------------
(* rurp_config_migrate: every record migrates to one the firmware may use. *)
LEMMA MigratedFacts ==
  ASSUME NEW c \in Configurations
  PROVE  /\ Migrated(c) \in Configurations
         /\ IsValid(Migrated(c))
         /\ Migrated(c).version = "CURRENT"
<1> DEFINE F == [f \in Fields |-> IF c.version # "FOREIGN" /\ c.fields[f] \in Usable[f]
                                  THEN c.fields[f] ELSE Default[f]]
<1>1. Migrated(c) = [version |-> "CURRENT", fields |-> F]
  BY DEF Migrated
<1>2. c.fields \in [Fields -> Values]
  BY DEF Configurations
<1>3. F \in [Fields -> Values] /\ \A f \in Fields : F[f] \in Usable[f]
  BY <1>2, RulesAssumption
<1> HIDE DEF F
<1> QED BY <1>1, <1>3 DEF Configurations, Versions, IsValid

(* A record the firmware may use is one that migration leaves alone. *)
LEMMA UsableIsKept ==
  ASSUME NEW c \in Configurations, IsValid(c), c.version = "CURRENT"
  PROVE  Migrated(c) = c
<1> DEFINE F == [f \in Fields |-> IF c.version # "FOREIGN" /\ c.fields[f] \in Usable[f]
                                  THEN c.fields[f] ELSE Default[f]]
<1>1. c.fields \in [Fields -> Values] /\ c = [version |-> c.version, fields |-> c.fields]
  BY DEF Configurations
<1>2. \A f \in Fields : F[f] = c.fields[f]
  BY DEF IsValid
<1>3. F = c.fields
  BY <1>1, <1>2
<1>4. Migrated(c) = [version |-> "CURRENT", fields |-> F]
  BY DEF Migrated
<1> HIDE DEF F
<1> QED BY <1>1, <1>3, <1>4

(* parse_command: a candidate is a record of the same version. *)
LEMMA CandidateFacts ==
  ASSUME NEW c \in Configurations, NEW present \in SUBSET Fields, NEW v \in [Fields -> Values]
  PROVE  /\ Candidate(c, present, v) \in Configurations
         /\ Candidate(c, present, v).version = c.version
<1> DEFINE F == [f \in Fields |-> IF f \in present THEN v[f] ELSE c.fields[f]]
<1>1. c.fields \in [Fields -> Values] /\ c = [version |-> c.version, fields |-> c.fields]
      /\ c.version \in Versions
  BY DEF Configurations
<1>2. F \in [Fields -> Values]
  BY <1>1
<1>3. Candidate(c, present, v) = [c EXCEPT !.fields = F]
  BY DEF Candidate
<1> HIDE DEF F
<1>4. Candidate(c, present, v) = [version |-> c.version, fields |-> F]
  BY <1>1, <1>3
<1> QED BY <1>1, <1>2, <1>4 DEF Configurations

-----------------------------------------------------------------------------
(* Once the boot has run, what is being saved is what the firmware runs with. *)
PolicyInv ==
  /\ SInv
  /\ live \in Config
  /\ LiveIsUsable
  /\ pc \in {"erase", "program"} => record.config = live
  /\ LiveIsStored

(* rurp_load_config reads what the register holds. *)
LEMMA BufferFacts ==
  /\ SInv => Buffer \in Configurations
  /\ Loaded' = Loaded => Buffer' = Buffer
  /\ \A c : Loaded' = {c} => Buffer' = c
<1>1. ASSUME SInv PROVE Buffer \in Configurations
  <2>1. CASE Found
    <3>1. Best \in Slots /\ Valid(Best)
      BY <1>1, <2>1, BestFacts DEF SInv
    <3>2. page[Best].config \in Config
      BY <1>1, <3>1, PageKinds DEF SInv, STypeOK, Valid
    <3> QED BY <2>1, <3>2, PolicyAssumption DEF Buffer
  <2>2. CASE ~Found
    BY <2>2, RulesAssumption DEF Buffer, Configurations, Versions
  <2> QED BY <2>1, <2>2
<1>2. /\ Loaded = IF Found THEN {page[Best].config} ELSE {}
      /\ Loaded' = IF Found' THEN {page'[Best'].config} ELSE {}
  BY DEF Loaded
<1>3. /\ Buffer = IF Found THEN page[Best].config
                           ELSE [version |-> "FOREIGN", fields |-> Default]
      /\ Buffer' = IF Found' THEN page'[Best'].config
                             ELSE [version |-> "FOREIGN", fields |-> Default]
  BY DEF Buffer
<1> QED BY <1>1, <1>2, <1>3

(* A step that leaves the pages alone leaves what a load returns. *)
LEMMA SamePages ==
  ASSUME UNCHANGED page
  PROVE  Loaded' = Loaded
BY DEF Loaded, Found, Best, Valid

(* What a step of the storage does to what a load returns. *)
LEMMA StorageLoads ==
  ASSUME SInv, Storage
  PROVE  /\ SInv'
         /\ Loaded' = Loaded \/ (pc = "program" /\ Loaded' = {record.config})
         /\ UNCHANGED record
         /\ pc' = "idle" /\ result' => \/ pc = "program" /\ Loaded' = {record.config}
         /\ pc' \in {"off", "idle", "program"}
         /\ pc' = "program" => pc = "erase"
         /\ pc # "off"
<1>1. SInv'
  BY SInvStep DEF SNext
<1>2. CASE EraseOk
  BY <1>1, <1>2, OldStays DEF EraseOk
<1>3. CASE EraseFails
  <2>1. PICK p \in HalfErased : SetPage(p)
    BY <1>3 DEF EraseFails
  <2>2. pc = "erase" /\ pc' = "idle" /\ UNCHANGED record /\ ~result'
    BY <1>3 DEF EraseFails, Return
  <2>3. Loaded' = Loaded
    BY <2>1, <2>2, OldStays DEF HalfErased
  <2> QED BY <1>1, <2>2, <2>3
<1>4. CASE ProgramOk
  BY <1>1, <1>4, NewTakesOver DEF ProgramOk, Return
<1>5. CASE ProgramFails
  <2>1. PICK p \in HalfProgrammed : SetPage(p)
    BY <1>5 DEF ProgramFails
  <2>2. pc = "program" /\ pc' = "idle" /\ UNCHANGED record /\ ~result'
    BY <1>5 DEF ProgramFails, Return
  <2>3. Loaded' = Loaded \/ Loaded' = {record.config}
    <3>1. CASE p = record
      BY <2>1, <2>2, <3>1, NewTakesOver
    <3>2. CASE p \in {Blank, Torn}
      BY <2>1, <2>2, <3>2, OldStays
    <3> QED BY <2>1, <3>1, <3>2 DEF HalfProgrammed
  <2> QED BY <1>1, <2>2, <2>3
<1>6. CASE PowerLoss
  <2>1. pc # "off" /\ pc' = "off" /\ UNCHANGED record
    BY <1>6 DEF PowerLoss
  <2>2. CASE UNCHANGED page
    BY <1>1, <2>1, <2>2, SamePages
  <2>3. CASE pc = "erase" /\ \E p \in HalfErased : SetPage(p)
    <3>1. Loaded' = Loaded
      BY <2>3, OldStays DEF HalfErased
    <3> QED BY <1>1, <2>1, <3>1
  <2>4. CASE pc = "program" /\ \E p \in HalfProgrammed : SetPage(p)
    <3>1. PICK p \in HalfProgrammed : SetPage(p)
      BY <2>4
    <3>2. CASE p = record
      BY <1>1, <2>1, <2>4, <3>1, <3>2, NewTakesOver
    <3>3. CASE p \in {Blank, Torn}
      BY <1>1, <2>1, <2>4, <3>1, <3>3, OldStays
    <3> QED BY <3>1, <3>2, <3>3 DEF HalfProgrammed
  <2> QED BY <1>6, <2>2, <2>3, <2>4 DEF PowerLoss
<1> QED BY <1>2, <1>3, <1>4, <1>5, <1>6 DEF Storage

LEMMA PolicyInit == Init => PolicyInv
<1> SUFFICES ASSUME Init PROVE PolicyInv
  OBVIOUS
<1>1. SInv /\ pc = "off"
  BY SInvInit DEF Init, SInit
<1>2. live \in Config
  BY RulesAssumption, PolicyAssumption DEF Init, Configurations, Versions
<1> QED BY <1>1, <1>2 DEF PolicyInv, LiveIsUsable, LiveIsStored

(* A save that begins leaves the loaded record, and records the one it is of. *)
LEMMA PolicySaves ==
  ASSUME PolicyInv, BeginSave(live'), live' \in Config, IsValid(live'),
         live'.version = "CURRENT"
  PROVE  PolicyInv' /\ Loaded' = Loaded
<1>1. SInv'
  BY SaveBegins DEF PolicyInv
<1>2. record'.config = live' /\ pc' = "erase" /\ UNCHANGED page
  BY DEF BeginSave
<1> QED BY <1>1, <1>2, SamePages DEF PolicyInv, LiveIsUsable, IsValid, LiveIsStored

LEMMA PolicyStep ==
  ASSUME PolicyInv, [Next]_vars
  PROVE  /\ PolicyInv'
         /\ Settings' = Settings \/ (pc = "program" /\ Settings' = live)
<1>0. /\ SInv /\ live \in Configurations /\ Buffer \in Configurations
      /\ pc # "off" => IsValid(live) /\ live.version = "CURRENT"
  BY PolicyAssumption, BufferFacts DEF PolicyInv, LiveIsUsable
<1>1. CASE Boot
  <2>1. pc = "off" /\ live' = Migrated(Buffer)
    BY <1>1 DEF Boot
  <2>2. live' \in Config /\ IsValid(live') /\ live'.version = "CURRENT"
    BY <1>0, <2>1, MigratedFacts, PolicyAssumption
  <2>3. CASE BeginSave(live')
    <3>1. PolicyInv' /\ Loaded' = Loaded
      BY <2>2, <2>3, PolicySaves
    <3> QED BY <3>1, BufferFacts DEF Settings
  <2>4. CASE Buffer = live' /\ pc' = "idle" /\ NoSave
    <3>1. UNCHANGED <<page, wear, record, slot, result>>
      BY <2>4 DEF NoSave
    <3>2. Buffer' = Buffer
      BY <3>1, SamePages, BufferFacts
    <3>3. SInv'
      BY <1>0, <2>1, <2>4, <3>1, SInvStep DEF SNext, Restart
    <3>4. Settings' = live' /\ Settings' = Settings
      BY <2>1, <2>4, <3>2 DEF Settings
    <3>5. LiveIsUsable'
      BY <2>2 DEF LiveIsUsable, IsValid
    <3> QED BY <2>2, <2>4, <3>3, <3>4, <3>5 DEF PolicyInv, LiveIsStored
  <2> QED BY <1>1, <2>3, <2>4 DEF Boot
<1>2. CASE ConfigCommand
  <2>1. PICK present \in SUBSET Fields, v \in [Fields -> Values] :
          IF present # {} /\ IsValid(Candidate(live, present, v))
          THEN live' = Candidate(live, present, v) /\ BeginSave(Candidate(live, present, v))
          ELSE UNCHANGED <<pc, live>> /\ NoSave
    BY <1>2 DEF ConfigCommand
  <2>2. CASE IsValid(Candidate(live, present, v)) /\ live' = Candidate(live, present, v)
             /\ BeginSave(Candidate(live, present, v))
    <3>1. live' \in Config /\ IsValid(live') /\ live'.version = "CURRENT" /\ BeginSave(live')
      BY <1>0, <1>2, <2>2, CandidateFacts, PolicyAssumption DEF ConfigCommand
    <3>2. PolicyInv' /\ Loaded' = Loaded
      BY <3>1, PolicySaves
    <3> QED BY <3>2, BufferFacts DEF Settings
  <2>3. CASE UNCHANGED <<pc, live, page, wear, record, slot, result>>
    <3>1. UNCHANGED svars /\ UNCHANGED vars
      BY <2>3 DEF svars, vars
    <3> QED BY <2>3, <3>1, SamePages, BufferFacts, SInvStep DEF PolicyInv, LiveIsUsable,
        LiveIsStored, Settings, IsValid
  <2> QED BY <2>1, <2>2, <2>3 DEF NoSave
<1>3. CASE Storage /\ UNCHANGED live
  <2>1. /\ SInv'
        /\ Loaded' = Loaded \/ (pc = "program" /\ Loaded' = {record.config})
        /\ UNCHANGED record
        /\ pc' \in {"off", "idle", "program"}
        /\ pc' = "program" => pc = "erase"
        /\ pc # "off"
    BY <1>0, <1>3, StorageLoads
  <2>2. pc' = "idle" /\ result' => pc = "program" /\ Loaded' = {record.config}
    BY <1>0, <1>3, StorageLoads
  <2>3. pc = "program" => record.config = live
    BY DEF PolicyInv
  <2>4. Migrated(live) = live
    BY <1>0, <2>1, UsableIsKept
  <2>5. pc = "program" /\ Loaded' = {record.config} => Settings' = live
    BY <2>3, <2>4, BufferFacts DEF Settings
  <2>6. Loaded' = Loaded => Settings' = Settings
    BY BufferFacts DEF Settings
  <2>7. LiveIsStored'
    BY <1>3, <2>2, <2>5 DEF LiveIsStored
  <2>8. LiveIsUsable'
    BY <1>0, <1>3, <2>1 DEF LiveIsUsable, IsValid
  <2>9. pc' \in {"erase", "program"} => record'.config = live'
    BY <1>3, <2>1 DEF PolicyInv
  <2>10. PolicyInv'
    BY <1>3, <2>1, <2>7, <2>8, <2>9 DEF PolicyInv
  <2> QED BY <2>1, <2>5, <2>6, <2>10
<1>4. CASE UNCHANGED vars
  <2>1. UNCHANGED <<pc, live, page, wear, record, slot, result>> /\ UNCHANGED svars
    BY <1>4 DEF svars, vars
  <2> QED BY <2>1, SamePages, BufferFacts, SInvStep DEF PolicyInv, LiveIsUsable,
      LiveIsStored, Settings, IsValid
<1> QED BY <1>1, <1>2, <1>3, <1>4 DEF Next
-----------------------------------------------------------------------------
LEMMA PolicyRegisterStep ==
  PolicyInv /\ [Next]_vars => [Register!RNext]_(Register!rvars)
<1> SUFFICES ASSUME PolicyInv, [Next]_vars
             PROVE  Register!RNext \/ UNCHANGED Register!rvars
  OBVIOUS
<1>0. SInv /\ PolicyInv'
  BY PolicyStep DEF PolicyInv
<1>1. ASSUME NEW c \in Config, pc \in {"off", "idle"}, BeginSave(c) PROVE Register!Begin
  <2>1. Loaded' = Loaded
    BY <1>1, SamePages DEF BeginSave
  <2>2. Pending = {} /\ Pending' = {c}
    BY <1>1 DEF BeginSave, Pending
  <2> QED BY <2>1, <2>2 DEF Register!Begin
<1>2. ASSUME UNCHANGED <<page, record>>,
             UNCHANGED pc \/ (pc = "off" /\ pc' = "idle")
      PROVE  UNCHANGED Register!rvars
  BY <1>2, SamePages DEF Register!rvars, Pending
<1>3. CASE Boot
  <2>1. CASE BeginSave(live')
    <3>1. live' \in Config
      BY <1>0 DEF PolicyInv
    <3> QED BY <1>1, <1>3, <2>1, <3>1 DEF Boot, Register!RNext
  <2> QED BY <1>2, <1>3, <2>1 DEF Boot, NoSave
<1>4. CASE ConfigCommand
  <2>1. CASE BeginSave(live')
    <3>1. live' \in Config
      BY <1>0 DEF PolicyInv
    <3> QED BY <1>1, <1>4, <2>1, <3>1 DEF ConfigCommand, Register!RNext
  <2> QED BY <1>2, <1>4, <2>1 DEF ConfigCommand, NoSave
<1>5. CASE Storage
  BY <1>0, <1>5, RegisterStep DEF SNext
<1>6. CASE UNCHANGED vars
  BY <1>2, <1>6 DEF vars
<1> QED BY <1>3, <1>4, <1>5, <1>6 DEF Next

-----------------------------------------------------------------------------
AvrInv == Avr!TypeOK /\ Avr!LiveIsUsable /\ Avr!LiveIsStored

(* The members of a record, in the order EEPROM.put writes them. *)
Members == 0..Len(AvrOrder)

LEMMA OrderFacts ==
  /\ Len(AvrOrder) \in Nat
  /\ \A i \in Members : i # 0 => AvrOrder[i] \in Fields
  /\ \A f \in Fields : \E i \in Members : i # 0 /\ AvrOrder[i] = f
<1>1. AvrOrder \in Seq(Fields) /\ Len(AvrOrder) \in Nat /\ DOMAIN AvrOrder = 1..Len(AvrOrder)
  BY AvrAssumption
<1>2. \A f \in Fields : \E i \in DOMAIN AvrOrder : AvrOrder[i] = f
  BY AvrAssumption DEF ToSet
<1> QED BY <1>1, <1>2 DEF Members

LEMMA MemberWritten ==
  ASSUME NEW c \in Configurations, NEW i \in Members,
         NEW v \in IF i = 0 THEN Versions ELSE Values
  PROVE  /\ Avr!WithMember(c, i, v) \in Configurations
         /\ Avr!Member(Avr!WithMember(c, i, v), i) = v
         /\ \A m \in Members : \/ Avr!Member(Avr!WithMember(c, i, v), m) = Avr!Member(c, m)
                               \/ /\ Avr!Member(Avr!WithMember(c, i, v), m) = v
                                  /\ m = i \/ (m # 0 /\ i # 0 /\ AvrOrder[m] = AvrOrder[i])
<1> USE DEF Avr!WithMember, Avr!Member
<1>1. c.fields \in [Fields -> Values] /\ c = [version |-> c.version, fields |-> c.fields]
      /\ c.version \in Versions
  BY DEF Configurations
<1>2. CASE i = 0
  <2>1. Avr!WithMember(c, i, v) = [version |-> v, fields |-> c.fields]
    BY <1>1, <1>2
  <2> HIDE DEF Avr!WithMember
  <2> QED BY <1>1, <1>2, <2>1 DEF Configurations
<1>3. CASE i # 0
  <2>1. Avr!WithMember(c, i, v)
          = [version |-> c.version, fields |-> [c.fields EXCEPT ![AvrOrder[i]] = v]]
    BY <1>1, <1>3
  <2>2. AvrOrder[i] \in Fields /\ v \in Values
    BY <1>3, OrderFacts
  <2>3. [c.fields EXCEPT ![AvrOrder[i]] = v] \in [Fields -> Values]
    BY <1>1, <2>2
  <2> HIDE DEF Avr!WithMember
  <2>4. Avr!WithMember(c, i, v) \in Configurations
    BY <1>1, <2>1, <2>3 DEF Configurations
  <2>5. \A m \in Members \ {0} : AvrOrder[m] \in Fields
    BY OrderFacts
  <2> QED BY <1>1, <1>3, <2>1, <2>2, <2>4, <2>5
<1> QED BY <1>2, <1>3

(* Two records with the same members are the same. *)
LEMMA SameMembers ==
  ASSUME NEW c \in Configurations, NEW d \in Configurations,
         \A i \in Members : Avr!Member(c, i) = Avr!Member(d, i)
  PROVE  c = d
<1>1. 0 \in Members
  BY OrderFacts DEF Members
<1>2. c.version = d.version
  BY <1>1 DEF Avr!Member
<1>3. \A f \in Fields : c.fields[f] = d.fields[f]
  BY OrderFacts DEF Avr!Member
<1>4. /\ c = [version |-> c.version, fields |-> c.fields] /\ c.fields \in [Fields -> Values]
      /\ d = [version |-> d.version, fields |-> d.fields] /\ d.fields \in [Fields -> Values]
  BY DEF Configurations
<1>5. c.fields = d.fields
  BY <1>3, <1>4
<1> QED BY <1>2, <1>4, <1>5

LEMMA MemberTypes ==
  ASSUME NEW c \in Configurations, NEW i \in Members
  PROVE  Avr!Member(c, i) \in IF i = 0 THEN Versions ELSE Values
BY OrderFacts DEF Avr!Member, Configurations

(* The AVR's policy uses the same rules. *)
LEMMA AvrRules ==
  /\ Avr!Configurations = Configurations /\ Avr!Versions = Versions
  /\ \A c : Avr!Migrated(c) = Migrated(c) /\ (Avr!IsValid(c) <=> IsValid(c))
  /\ \A c, present, v : Avr!Candidate(c, present, v) = Candidate(c, present, v)
BY DEF Avr!Configurations, Configurations, Avr!Versions, Versions, Avr!Migrated, Migrated,
    Avr!IsValid, IsValid, Avr!Candidate, Candidate

LEMMA AvrInitInv == Avr!Init => AvrInv
<1> SUFFICES ASSUME Avr!Init PROVE AvrInv
  OBVIOUS
<1>1. avrPc = "off" /\ cells \in Configurations /\ source = cells /\ next = 0
  BY AvrRules DEF Avr!Init
<1>2. avrLive \in Configurations
  BY RulesAssumption DEF Avr!Init, Configurations, Versions
<1>3. commanded \in BOOLEAN
  BY DEF Avr!Init
<1>4. Avr!TypeOK
  BY <1>1, <1>2, <1>3, AvrRules, OrderFacts DEF Avr!TypeOK
<1> QED BY <1>1, <1>4 DEF AvrInv, Avr!LiveIsUsable, Avr!LiveIsStored

(* Usable settings that have just become the live ones are at rest in the EEPROM
   already, or the EEPROM is being given them. *)
LEMMA AvrSettle ==
  ASSUME AvrInv, avrLive' \in Configurations, IsValid(avrLive'), avrLive'.version = "CURRENT",
         commanded' \in BOOLEAN,
         \/ Avr!BeginPut(avrLive')
         \/ cells = avrLive' /\ avrPc' = "idle" /\ UNCHANGED Avr!storage
  PROVE  AvrInv'
<1>1. /\ cells \in Configurations /\ source \in Configurations
      /\ next \in 0..(Len(AvrOrder) + 1) /\ Len(AvrOrder) \in Nat
  BY AvrRules, OrderFacts DEF AvrInv, Avr!TypeOK
<1>2. CASE Avr!BeginPut(avrLive')
  <2>1. avrPc' = "put" /\ source' = avrLive' /\ next' = 0 /\ cells' = cells
    BY <1>2 DEF Avr!BeginPut
  <2>2. Avr!TypeOK'
    BY <1>1, <2>1, AvrRules DEF Avr!TypeOK
  <2>3. Avr!LiveIsUsable' /\ Avr!LiveIsStored'
    BY <2>1, AvrRules DEF Avr!LiveIsUsable, Avr!LiveIsStored, IsValid, Avr!IsValid
  <2> QED BY <2>2, <2>3 DEF AvrInv
<1>3. CASE cells = avrLive' /\ avrPc' = "idle" /\ UNCHANGED Avr!storage
  <2>1. UNCHANGED <<cells, source, next>>
    BY <1>3 DEF Avr!storage
  <2>2. Avr!TypeOK'
    BY <1>1, <1>3, <2>1, AvrRules DEF Avr!TypeOK
  <2>3. Avr!LiveIsUsable' /\ Avr!LiveIsStored'
    BY <1>3, <2>1, AvrRules DEF Avr!LiveIsUsable, Avr!LiveIsStored, IsValid, Avr!IsValid
  <2> QED BY <2>2, <2>3 DEF AvrInv
<1> QED BY <1>2, <1>3

LEMMA AvrStep == AvrInv /\ [Avr!Next]_avrVars => AvrInv'
<1> SUFFICES ASSUME AvrInv, [Avr!Next]_avrVars PROVE AvrInv'
  OBVIOUS
<1>0. /\ cells \in Configurations /\ source \in Configurations /\ avrLive \in Configurations
      /\ next \in 0..(Len(AvrOrder) + 1) /\ Len(AvrOrder) \in Nat
      /\ avrPc = "put" => source = avrLive
      /\ avrPc = "put" => \A i \in 0..(next - 1) : Avr!Member(cells, i) = Avr!Member(source, i)
      /\ avrPc # "off" => IsValid(avrLive) /\ avrLive.version = "CURRENT"
      /\ avrPc = "idle" => cells = avrLive
  BY AvrRules, OrderFacts DEF AvrInv, Avr!TypeOK, Avr!LiveIsUsable, Avr!LiveIsStored
<1>b. commanded \in BOOLEAN
  BY DEF AvrInv, Avr!TypeOK
<1>1. CASE Avr!Boot
  <2>1. avrLive' = Migrated(cells) /\ commanded' = commanded
    BY <1>1, AvrRules DEF Avr!Boot
  <2>2. avrLive' \in Configurations /\ IsValid(avrLive') /\ avrLive'.version = "CURRENT"
    BY <1>0, <2>1, MigratedFacts
  <2>3. \/ Avr!BeginPut(avrLive')
        \/ cells = avrLive' /\ avrPc' = "idle" /\ UNCHANGED Avr!storage
    BY <1>1 DEF Avr!Boot
  <2> QED BY <1>b, <2>1, <2>2, <2>3, AvrSettle
<1>2. CASE Avr!ConfigCommand
  <2>1. PICK present \in SUBSET Fields, v \in [Fields -> Values] :
          IF present # {} /\ IsValid(Candidate(avrLive, present, v))
          THEN /\ avrLive' = Candidate(avrLive, present, v) /\ commanded' = TRUE
               /\ Avr!BeginPut(Candidate(avrLive, present, v))
          ELSE UNCHANGED <<avrPc, avrLive, commanded, Avr!storage>>
    BY <1>2, AvrRules DEF Avr!ConfigCommand
  <2>2. CASE /\ IsValid(Candidate(avrLive, present, v)) /\ commanded' = TRUE
             /\ avrLive' = Candidate(avrLive, present, v) /\ Avr!BeginPut(avrLive')
    <3>1. avrPc = "idle"
      BY <1>2 DEF Avr!ConfigCommand
    <3>2. avrLive' \in Configurations /\ IsValid(avrLive') /\ avrLive'.version = "CURRENT"
      BY <1>0, <2>2, <3>1, CandidateFacts
    <3> QED BY <2>2, <3>2, AvrSettle
  <2>3. CASE UNCHANGED <<avrPc, avrLive, commanded, Avr!storage>>
    BY <1>0, <1>b, <2>3, AvrRules DEF AvrInv, Avr!TypeOK, Avr!storage, Avr!LiveIsUsable,
        Avr!LiveIsStored, IsValid, Avr!IsValid, Avr!Member
  <2> QED BY <2>1, <2>2, <2>3
<1>3. CASE Avr!PutMember
  <2>1. /\ avrPc = "put" /\ avrPc' = "put" /\ UNCHANGED <<source, avrLive, commanded>>
        /\ cells' = Avr!WithMember(cells, next, Avr!Member(source, next)) /\ next' = next + 1
        /\ next \in Members
    BY <1>0, <1>3 DEF Avr!PutMember, Members
  <2>2. Avr!Member(source, next) \in IF next = 0 THEN Versions ELSE Values
    BY <1>0, <2>1, MemberTypes
  <2>3. /\ cells' \in Configurations /\ Avr!Member(cells', next) = Avr!Member(source, next)
        /\ \A m \in Members :
             \/ Avr!Member(cells', m) = Avr!Member(cells, m)
             \/ /\ Avr!Member(cells', m) = Avr!Member(source, next)
                /\ m = next \/ (m # 0 /\ next # 0 /\ AvrOrder[m] = AvrOrder[next])
    BY <1>0, <2>1, <2>2, MemberWritten
  <2>4. ASSUME NEW m \in 0..(next' - 1)
        PROVE  Avr!Member(cells', m) = Avr!Member(source', m)
    <3>1. m \in Members /\ (m = next \/ m \in 0..(next - 1))
      BY <1>0, <2>1 DEF Members
    <3>2. CASE m = next
      BY <2>1, <2>3, <3>2
    <3>3. CASE m \in 0..(next - 1) /\ Avr!Member(cells', m) = Avr!Member(cells, m)
      BY <1>0, <2>1, <3>3
    <3>4. CASE /\ m # 0 /\ next # 0 /\ AvrOrder[m] = AvrOrder[next]
               /\ Avr!Member(cells', m) = Avr!Member(source, next)
      BY <2>1, <3>4 DEF Avr!Member
    <3> QED BY <2>3, <3>1, <3>2, <3>3, <3>4
  <2>5. \A m \in 0..(next' - 1) : (Avr!Member(cells, m))' = (Avr!Member(source, m))'
    BY <2>4 DEF Avr!Member
  <2>6. next' \in 0..(Len(AvrOrder) + 1)
    BY <1>0, <2>1 DEF Members
  <2>7. Avr!TypeOK'
    BY <1>0, <1>b, <2>1, <2>3, <2>5, <2>6, AvrRules DEF Avr!TypeOK
  <2>8. Avr!LiveIsUsable' /\ Avr!LiveIsStored'
    BY <1>0, <2>1, AvrRules DEF Avr!LiveIsUsable, Avr!LiveIsStored, IsValid, Avr!IsValid
  <2> QED BY <2>7, <2>8 DEF AvrInv
<1>4. CASE Avr!PutDone
  <2>1. /\ avrPc = "put" /\ avrPc' = "idle" /\ next > Len(AvrOrder)
        /\ UNCHANGED <<cells, source, next, avrLive, commanded>>
    BY <1>4 DEF Avr!PutDone, Avr!storage
  <2>2. cells = avrLive
    <3>1. \A i \in Members : i \in 0..(next - 1)
      BY <1>0, <2>1 DEF Members
    <3> QED BY <1>0, <2>1, <3>1, SameMembers
  <2>3. Avr!TypeOK'
    BY <1>0, <1>b, <2>1, AvrRules DEF Avr!TypeOK
  <2>4. Avr!LiveIsUsable' /\ Avr!LiveIsStored'
    BY <1>0, <2>1, <2>2, AvrRules DEF Avr!LiveIsUsable, Avr!LiveIsStored, IsValid,
        Avr!IsValid
  <2> QED BY <2>3, <2>4 DEF AvrInv
<1>5. CASE Avr!PowerLoss
  <2>1. avrPc' = "off" /\ UNCHANGED <<source, next, avrLive, commanded>>
    BY <1>5 DEF Avr!PowerLoss
  <2>2. cells' \in Configurations
    <3>1. CASE UNCHANGED cells
      BY <1>0, <3>1
    <3>2. CASE /\ avrPc = "put" /\ next <= Len(AvrOrder)
               /\ \E v \in IF next = 0 THEN Versions ELSE Values :
                    cells' = Avr!WithMember(cells, next, v)
      <4>1. next \in Members
        BY <1>0, <3>2 DEF Members
      <4> QED BY <1>0, <3>2, <4>1, MemberWritten
    <3> QED BY <1>5, <3>1, <3>2, AvrRules DEF Avr!PowerLoss
  <2>3. Avr!TypeOK'
    BY <1>0, <1>b, <2>1, <2>2, AvrRules DEF Avr!TypeOK
  <2>4. Avr!LiveIsUsable' /\ Avr!LiveIsStored'
    BY <2>1 DEF Avr!LiveIsUsable, Avr!LiveIsStored
  <2> QED BY <2>3, <2>4 DEF AvrInv
<1>6. CASE UNCHANGED avrVars
  BY <1>0, <1>b, <1>6, AvrRules DEF AvrInv, Avr!TypeOK, avrVars, Avr!LiveIsUsable,
      Avr!LiveIsStored, IsValid, Avr!IsValid, Avr!Member
<1> QED BY <1>1, <1>2, <1>3, <1>4, <1>5, <1>6 DEF Avr!Next

-----------------------------------------------------------------------------
LEMMA BoardSteps ==
  [BoardNext]_<<vars, avrVars, Others, part>> => [Next]_vars /\ [Avr!Next]_avrVars
BY DEF BoardNext

(* rurp_load_config, rurp_config_commit: on either board the firmware computes with
   usable values only. *)
THEOREM BoardSettingsUsable == BoardSpec => []SettingsUsable
<1>1. BoardInit => PolicyInv /\ AvrInv
  BY PolicyInit, AvrInitInv DEF BoardInit
<1>2. PolicyInv /\ AvrInv /\ [BoardNext]_<<vars, avrVars, Others, part>>
        => PolicyInv' /\ AvrInv'
  BY PolicyStep, AvrStep, BoardSteps
<1>3. PolicyInv /\ AvrInv => SettingsUsable
  BY DEF PolicyInv, AvrInv, SettingsUsable
<1> QED BY <1>1, <1>2, <1>3, PTL DEF BoardSpec

(* rurp_save_config: on either board, with every save reported good, the settings at
   rest are the ones the next boot brings up. *)
THEOREM BoardSettingsStored == BoardSpec => []SettingsStored
<1>1. BoardInit => PolicyInv /\ AvrInv
  BY PolicyInit, AvrInitInv DEF BoardInit
<1>2. PolicyInv /\ AvrInv /\ [BoardNext]_<<vars, avrVars, Others, part>>
        => PolicyInv' /\ AvrInv'
  BY PolicyStep, AvrStep, BoardSteps
<1>3. PolicyInv /\ AvrInv => SettingsStored
  BY DEF PolicyInv, AvrInv, SettingsStored
<1> QED BY <1>1, <1>2, <1>3, PTL DEF BoardSpec

(* rurp_config_migrate, rurp_config_commit: only an operator's CONFIG command changes
   the settings the next boot brings up. *)
THEOREM CommandsAloneChangeSettings == Spec => OnlyCommandsChangeSettings
<1>1. PolicyInv /\ [Next]_vars
        => [Settings' # Settings => pc = "program" /\ Settings' = live]_vars
  BY PolicyStep
<1>2. PolicyInv /\ [Next]_vars => PolicyInv'
  BY PolicyStep
<1> QED BY <1>1, <1>2, PolicyInit, PTL DEF Spec, OnlyCommandsChangeSettings

(* rurp_dualslot_save: under the policy too, a save reported good is the record the next
   load finds. *)
THEOREM SavesAreStored == Spec => ReportedSavesAreStored
<1>1. PolicyInv /\ [Next]_vars
        => [pc = "program" /\ pc' = "idle" /\ result' => Loaded' = {record.config}]_svars
  <2> SUFFICES ASSUME PolicyInv, [Next]_vars, pc = "program", pc' = "idle", result'
               PROVE  Loaded' = {record.config}
    OBVIOUS
  <2>1. Storage
    BY DEF Next, Boot, ConfigCommand, vars
  <2> QED BY <2>1, StorageLoads DEF PolicyInv
<1>2. PolicyInv /\ [Next]_vars => PolicyInv'
  BY PolicyStep
<1> QED BY <1>1, <1>2, PolicyInit, PTL DEF Spec, ReportedSavesAreStored

(* The policy uses the dual-slot storage as the register the seam promises. *)
THEOREM PolicyUsesARegister == Spec => StorageIsARegister
<1>1. Init => PolicyInv /\ Register!RInit
  BY PolicyInit, RegisterInit DEF Init
<1>2. PolicyInv /\ [Next]_vars => PolicyInv' /\ [Register!RNext]_(Register!rvars)
  BY PolicyStep, PolicyRegisterStep
<1> QED BY <1>1, <1>2, PTL DEF Spec, StorageIsARegister, Register!RSpec

-----------------------------------------------------------------------------
(* The queue of response frames. *)
LEMMA GreatestIndex ==
  ASSUME NEW k \in Nat, NEW S \in SUBSET (1..k), S # {}
  PROVE  Max(S) \in S
<1> DEFINE T == {t \in 0..k : k - t \in S}
<1>1. T \subseteq Nat /\ T # {}
  <2>1. PICK x \in S : TRUE
    OBVIOUS
  <2>2. x \in 1..k /\ k - x \in 0..k /\ k - (k - x) = x
    OBVIOUS
  <2>3. T \subseteq Nat
    OBVIOUS
  <2>4. k - x \in T
    BY <2>1, <2>2
  <2> HIDE DEF T
  <2> QED BY <2>3, <2>4
<1> DEFINE R == OpToRel(<, Nat)
<1>2. \A x, y \in Nat : y < x => <<y, x>> \in R
  BY DEF OpToRel
<1> HIDE DEF R
<1>3. \E x \in T : \A y \in T : <<y, x>> \notin R
  BY <1>1, NatLessThanWellFounded, WFMin DEF R
<1>4. \E x \in S : \A y \in S : x >= y
  <2>1. PICK x \in T : \A y \in T : ~(y < x)
    BY <1>1, <1>2, <1>3
  <2>2. k - x \in S /\ x \in 0..k
    BY <2>1
  <2>3. ASSUME NEW y \in S PROVE k - x >= y
    <3>1. y \in 1..k /\ k - y \in 0..k /\ k - (k - y) = y
      OBVIOUS
    <3>2. ~(k - y < x)
      BY <2>1, <3>1
    <3> QED BY <2>2, <3>1, <3>2
  <2> QED BY <2>2, <2>3
<1> HIDE DEF T
<1> QED BY <1>4 DEF Max

LEMMA RemovedAt ==
  ASSUME NEW S, NEW s \in Seq(S), NEW i \in 1..Len(s)
  PROVE  /\ RemoveAt(s, i) \in Seq(S)
         /\ Len(RemoveAt(s, i)) = Len(s) - 1
         /\ \A k \in 1..(Len(s) - 1) :
              RemoveAt(s, i)[k] = IF k < i THEN s[k] ELSE s[k + 1]
<1> DEFINE a == SubSeq(s, 1, i - 1)
           b == SubSeq(s, i + 1, Len(s))
<1>1. Len(s) \in Nat
  OBVIOUS
<1>2. a \in Seq(S) /\ Len(a) = i - 1 /\ \A k \in 1..(i - 1) : a[k] = s[k]
  BY <1>1
<1>3. b \in Seq(S) /\ Len(b) = Len(s) - i /\ \A k \in 1..(Len(s) - i) : b[k] = s[k + i]
  BY <1>1
<1>4. RemoveAt(s, i) = a \o b
  BY DEF RemoveAt
<1> HIDE DEF a, b
<1>5. a \o b \in Seq(S) /\ Len(a \o b) = Len(s) - 1
  BY <1>1, <1>2, <1>3
<1>6. ASSUME NEW k \in 1..(Len(s) - 1)
      PROVE  (a \o b)[k] = IF k < i THEN s[k] ELSE s[k + 1]
  <2>1. k \in 1..(Len(a) + Len(b))
    BY <1>1, <1>2, <1>3
  <2>2. (a \o b)[k] = IF k <= Len(a) THEN a[k] ELSE b[k - Len(a)]
    BY <1>2, <1>3, <2>1
  <2>3. CASE k < i
    BY <1>1, <1>2, <2>2, <2>3
  <2>4. CASE ~(k < i)
    <3>1. k - (i - 1) \in 1..(Len(s) - i) /\ (k - (i - 1)) + i = k + 1 /\ ~(k <= Len(a))
      BY <1>1, <1>2, <2>4
    <3> QED BY <1>2, <1>3, <2>2, <2>4, <3>1
  <2> QED BY <2>3, <2>4
<1> QED BY <1>4, <1>5, <1>6

LEMMA WiderSeq ==
  ASSUME NEW S, NEW T, S \subseteq T, NEW s \in Seq(S)
  PROVE  s \in Seq(T)
OBVIOUS

LEMMA SeqElements ==
  ASSUME NEW S, NEW s \in Seq(S)
  PROVE  Len(s) \in Nat /\ \A k \in 1..Len(s) : s[k] \in S
OBVIOUS

Increasing(s) == \A j, k \in DOMAIN s : j < k => s[j] < s[k]

QueueInv ==
  /\ com_mode \in BOOLEAN
  /\ report \in Seq(Nat) /\ n \in 0..Len(report)
  /\ log \in Seq(1..n) /\ Len(log) <= LogMax /\ Increasing(log)
  /\ com_mode => log = <<>>
  /\ wire \in Seq(Nat) /\ Increasing(wire)

(* The frames a push leaves in the queue, but for the new one. *)
Left == IF Full THEN RemoveAt(log, SelectLastInSeq(log, LAMBDA m : Droppable(report[m])))
        ELSE log

LEMMA LeftFacts ==
  ASSUME QueueInv, Room
  PROVE  /\ Left \in Seq(1..n) /\ Len(Left) < LogMax /\ Increasing(Left)
         /\ \A k \in 1..Len(Left) : \E j \in 1..Len(log) : Left[k] = log[j]
         /\ \A j \in 1..Len(log) : ~Droppable(report[log[j]]) =>
              \E k \in 1..Len(Left) : Left[k] = log[j]
<1>1. /\ log \in Seq(1..n) /\ Len(log) \in Nat /\ DOMAIN log = 1..Len(log)
      /\ Len(log) <= LogMax /\ LogMax \in Nat /\ Increasing(log) /\ n \in Nat
  BY DeferredAssumption DEF QueueInv
<1>2. CASE ~Full
  BY <1>1, <1>2 DEF Left, Full
<1>3. CASE Full
  <2> DEFINE I == {i \in 1..Len(log) : Droppable(report[log[i]])}
             v == SelectLastInSeq(log, LAMBDA m : Droppable(report[m]))
  <2>1. I # {}
    BY <1>1, <1>3 DEF Room
  <2>2. v = Max(I)
    BY <2>1 DEF SelectLastInSeq
  <2>3. Max(I) \in I
    <3>1. I \in SUBSET (1..Len(log))
      OBVIOUS
    <3> HIDE DEF I
    <3> QED BY <1>1, <2>1, <3>1, GreatestIndex
  <2>4. v \in 1..Len(log) /\ Droppable(report[log[v]])
    BY <2>2, <2>3
  <2>5. Left = RemoveAt(log, v)
    BY <1>3 DEF Left
  <2> HIDE DEF v, I
  <2>6. /\ Left \in Seq(1..n) /\ Len(Left) = Len(log) - 1
        /\ \A k \in 1..(Len(log) - 1) : Left[k] = IF k < v THEN log[k] ELSE log[k + 1]
    BY <1>1, <2>4, <2>5, RemovedAt
  <2>7. DOMAIN Left = 1..(Len(log) - 1)
    BY <2>6
  <2>8. Increasing(Left)
    <3> SUFFICES ASSUME NEW j \in 1..(Len(log) - 1), NEW k \in 1..(Len(log) - 1), j < k
                 PROVE  Left[j] < Left[k]
      BY <2>7 DEF Increasing
    <3>1. Left[j] = (IF j < v THEN log[j] ELSE log[j + 1])
          /\ Left[k] = (IF k < v THEN log[k] ELSE log[k + 1])
      BY <2>6
    <3>2. /\ j \in 1..Len(log) /\ j + 1 \in 1..Len(log)
          /\ k \in 1..Len(log) /\ k + 1 \in 1..Len(log)
          /\ j < k /\ j < k + 1 /\ j + 1 < k + 1
      BY <1>1
    <3>3. log[j] < log[k] /\ log[j] < log[k + 1] /\ log[j + 1] < log[k + 1]
      BY <1>1, <3>2 DEF Increasing
    <3>4. j < v \/ ~(k < v)
      BY <1>1, <2>4
    <3> QED BY <3>1, <3>3, <3>4
  <2>9. ASSUME NEW k \in 1..Len(Left) PROVE \E j \in 1..Len(log) : Left[k] = log[j]
    <3>1. k \in 1..Len(log) /\ k + 1 \in 1..Len(log) /\ k \in 1..(Len(log) - 1)
      BY <1>1, <2>6
    <3> QED BY <2>6, <3>1
  <2>10. ASSUME NEW j \in 1..Len(log), ~Droppable(report[log[j]])
         PROVE  \E k \in 1..Len(Left) : Left[k] = log[j]
    <3>1. CASE j < v
      <4>1. j \in 1..(Len(log) - 1)
        BY <1>1, <2>4, <3>1
      <4> QED BY <2>6, <3>1, <4>1
    <3>2. CASE v < j
      <4>1. j - 1 \in 1..(Len(log) - 1) /\ ~(j - 1 < v) /\ (j - 1) + 1 = j
        BY <1>1, <2>4, <3>2
      <4> QED BY <2>6, <4>1
    <3> QED BY <2>4, <2>10, <3>1, <3>2
  <2>11. Len(Left) < LogMax
    BY <1>1, <2>6
  <2> QED BY <2>6, <2>8, <2>9, <2>10, <2>11
<1> QED BY <1>2, <1>3

LEMMA QueuedFacts ==
  ASSUME QueueInv, Queued
  PROVE  /\ log' \in Seq(1..n') /\ Len(log') <= LogMax /\ Increasing(log')
         /\ \A k \in 1..Len(log') : log'[k] = n' \/ \E j \in 1..Len(log) : log'[k] = log[j]
         /\ \E k \in 1..Len(log') : log'[k] = n'
         /\ \A j \in 1..Len(log) : ~Droppable(report[log[j]]) =>
              \E k \in 1..Len(log') : log'[k] = log[j]
<1>1. /\ Left \in Seq(1..n) /\ Len(Left) < LogMax /\ Increasing(Left)
      /\ \A k \in 1..Len(Left) : \E j \in 1..Len(log) : Left[k] = log[j]
      /\ \A j \in 1..Len(log) : ~Droppable(report[log[j]]) =>
              \E k \in 1..Len(Left) : Left[k] = log[j]
  BY LeftFacts DEF Queued
<1>2. n' = n + 1 /\ n \in Nat /\ LogMax \in Nat
  BY DeferredAssumption DEF Queued, Logs, QueueInv
<1>3. log' = Append(Left, n')
  BY DEF Queued, MadeRoom, Left
<1>4. /\ Len(Left) \in Nat /\ Len(log') = Len(Left) + 1
      /\ \A k \in 1..Len(Left) : log'[k] = Left[k] /\ Left[k] \in 1..n
      /\ log'[Len(Left) + 1] = n'
      /\ log' \in Seq(1..n') /\ DOMAIN log' = 1..(Len(Left) + 1)
  <2>1. Left \in Seq(1..n') /\ n' \in 1..n'
    <3>1. 1..n \subseteq 1..n' /\ n' \in 1..n'
      BY <1>2
    <3> QED BY <1>1, <3>1, WiderSeq
  <2>2. Append(Left, n') \in Seq(1..n')
    BY <2>1
  <2>3. Left \in Seq(1..n)
    BY <1>1
  <2>4. Len(Left) \in Nat /\ \A k \in 1..Len(Left) : Left[k] \in 1..n
    BY <2>3, SeqElements
  <2>5. /\ Len(log') = Len(Left) + 1 /\ log'[Len(Left) + 1] = n'
        /\ \A k \in 1..Len(Left) : log'[k] = Left[k]
    BY <1>3, <2>1
  <2> QED BY <1>3, <2>2, <2>4, <2>5
<1>5. Increasing(log')
  <2> SUFFICES ASSUME NEW j \in 1..(Len(Left) + 1), NEW k \in 1..(Len(Left) + 1), j < k
               PROVE  log'[j] < log'[k]
    BY <1>4 DEF Increasing
  <2>1. CASE k = Len(Left) + 1
    <3>1. j \in 1..Len(Left)
      BY <1>4, <2>1
    <3> QED BY <1>2, <1>4, <2>1, <3>1
  <2>2. CASE k # Len(Left) + 1
    <3>1. DOMAIN Left = 1..Len(Left) /\ Len(Left) \in Nat
      BY <1>1
    <3>2. j \in 1..Len(Left) /\ k \in 1..Len(Left)
      BY <2>2, <3>1
    <3> QED BY <1>1, <1>4, <3>1, <3>2 DEF Increasing
  <2> QED BY <2>1, <2>2
<1>6. ASSUME NEW k \in 1..Len(log')
      PROVE  log'[k] = n' \/ \E j \in 1..Len(log) : log'[k] = log[j]
  <2>1. k \in 1..Len(Left) \/ k = Len(Left) + 1
    BY <1>4
  <2> QED BY <1>1, <1>4, <2>1
<1>7. Len(Left) + 1 \in 1..Len(log') /\ \A k \in 1..Len(Left) : k \in 1..Len(log')
  BY <1>4
<1>8. Len(log') <= LogMax
  BY <1>1, <1>2, <1>4
<1> QED BY <1>1, <1>4, <1>5, <1>6, <1>7, <1>8

LEMMA QueueInit == LogInit => QueueInv
BY DeferredAssumption DEF LogInit, QueueInv, Increasing

LEMMA QueueStep == QueueInv /\ [LogNext]_logVars => QueueInv'
<1> SUFFICES ASSUME QueueInv, [LogNext]_logVars PROVE QueueInv'
  OBVIOUS
<1>0. /\ report \in Seq(Nat) /\ n \in 0..Len(report) /\ log \in Seq(1..n)
      /\ Len(log) <= LogMax /\ Increasing(log) /\ wire \in Seq(Nat) /\ Increasing(wire)
      /\ com_mode => log = <<>>
      /\ LogMax \in Nat \ {0} /\ Len(report) \in Nat
  BY DeferredAssumption DEF QueueInv
<1>b. com_mode \in BOOLEAN
  BY DEF QueueInv
<1>1. CASE EnterProgrammerMode
  <2>1. /\ com_mode' = FALSE /\ n' = 0 /\ wire' = <<>> /\ log' = log /\ log = <<>>
    BY <1>0, <1>1 DEF EnterProgrammerMode
  <2>2. report' \in Seq(0..255)
    BY <1>1, DeferredAssumption DEF EnterProgrammerMode
  <2>3. report' \in Seq(Nat) /\ Len(report') \in Nat
    <3>1. 0..255 \subseteq Nat
      OBVIOUS
    <3>2. report' \in Seq(Nat)
      BY <2>2, <3>1, WiderSeq
    <3> QED BY <3>2
  <2>4. com_mode' \in BOOLEAN
    BY <2>1
  <2> QED BY <1>0, <2>1, <2>3, <2>4 DEF QueueInv, Increasing
<1>2. CASE Queued
  <2>1. /\ log' \in Seq(1..n') /\ Len(log') <= LogMax /\ Increasing(log')
    BY <1>2, QueuedFacts
  <2>2. ~com_mode /\ n < Len(report) /\ n' = n + 1 /\ UNCHANGED <<com_mode, report, wire>>
    BY <1>2 DEF Queued, Logs
  <2>3. Increasing(wire)'
    BY <1>0, <2>2 DEF Increasing
  <2>4. n' \in 0..Len(report')
    BY <1>0, <2>2
  <2> QED BY <1>0, <1>b, <2>1, <2>2, <2>3, <2>4 DEF QueueInv, Increasing
<1>3. CASE Dropped
  <2>2. /\ ~com_mode /\ n < Len(report) /\ n' = n + 1
        /\ UNCHANGED <<com_mode, report, wire, log>>
    BY <1>3 DEF Dropped, Logs
  <2>3. Increasing(wire)' /\ Increasing(log)'
    BY <1>0, <2>2 DEF Increasing
  <2>4. n' \in 0..Len(report') /\ log' \in Seq(1..n')
    BY <1>0, <2>2
  <2> QED BY <1>0, <1>b, <2>2, <2>3, <2>4 DEF QueueInv
<1>4. CASE EnterCommunicationMode
  <2>1. com_mode' = TRUE /\ wire' = log /\ log' = <<>> /\ UNCHANGED <<report, n>>
    BY <1>4 DEF EnterCommunicationMode
  <2>2. wire' \in Seq(Nat) /\ log' \in Seq(1..n') /\ Len(log') = 0
    BY <1>0, <2>1
  <2>3. Increasing(wire)' /\ Increasing(log)'
    BY <1>0, <2>1 DEF Increasing
  <2>4. com_mode' \in BOOLEAN
    BY <2>1
  <2> QED BY <1>0, <2>1, <2>2, <2>3, <2>4 DEF QueueInv
<1>5. CASE UNCHANGED logVars
  BY <1>0, <1>b, <1>5 DEF logVars, QueueInv, Increasing
<1> QED BY <1>1, <1>2, <1>3, <1>4, <1>5 DEF LogNext

(* deferred_log.h: whatever makes way for whatever, the frames are sent in order. *)
THEOREM FramesAreSentInOrder == LogSpec => []SendOrder
<1>1. QueueInv => SendOrder
  BY DEF QueueInv, SendOrder, Increasing
<1> QED BY <1>1, QueueInit, QueueStep, PTL DEF LogSpec

(* If no more of the host's frames are logged than the queue has slots, none is lost. *)
FramesKept == com_mode /\ Cardinality(Important) <= LogMax => Important \subseteq ToSet(wire)

KeptInv ==
  /\ \A k \in DOMAIN log : report[log[k]] \notin TooLong
  /\ FramesKept
  /\ ~com_mode /\ Cardinality(Important) <= LogMax =>
       \A m \in Important : m <= n => m \in ToSet(log)

LEMMA ImportantIsFinite ==
  QueueInv => IsFiniteSet(Important) /\ Cardinality(Important) \in Nat
<1> SUFFICES ASSUME QueueInv PROVE IsFiniteSet(Important) /\ Cardinality(Important) \in Nat
  OBVIOUS
<1>1. Len(report) \in Int /\ 1 \in Int /\ Important \in SUBSET (1..Len(report))
  BY DEF QueueInv, Important
<1>2. IsFiniteSet(1..Len(report))
  BY <1>1, FS_Interval
<1> QED BY <1>1, <1>2, FS_Subset, FS_CardinalityType

(* A queue full of the host's frames, and one more, are more than it has slots. *)
LEMMA NothingImportantDropped ==
  ASSUME QueueInv, KeptInv, Dropped, Cardinality(Important) <= LogMax
  PROVE  n' \notin Important
<1> SUFFICES ASSUME n' \in Important PROVE FALSE
  OBVIOUS
<1> DEFINE k == Len(log) + 1
           f == [i \in 1..k |-> IF i = k THEN n' ELSE log[i]]
<1>1. /\ Len(log) \in Nat /\ LogMax \in Nat /\ n \in Nat /\ n' = n + 1
      /\ n < Len(report) /\ Len(report) \in Nat
  BY DeferredAssumption DEF QueueInv, Dropped, Logs
<1>2. DOMAIN log = 1..Len(log) /\ \A i \in 1..Len(log) : log[i] \in 1..n
  <2>1. log \in Seq(1..n)
    BY DEF QueueInv
  <2>2. DOMAIN log = 1..Len(log)
    BY <2>1
  <2> QED BY <2>1, <2>2, SeqElements
<1>3. ~Droppable(report[n']) /\ report[n'] \notin TooLong
  BY DEF Important
<1>4. ~Room
  BY <1>3 DEF Dropped, Id
<1>5. Len(log) >= LogMax /\ \A i \in 1..Len(log) : ~Droppable(report[log[i]])
  BY <1>2, <1>4 DEF Room, Full
<1>6. \A i \in 1..Len(log) : log[i] \in Important
  BY <1>1, <1>2, <1>5 DEF KeptInv, Important
<1>7. \A i \in 1..k : f[i] \in Important
  <2>1. \A i \in 1..k : i = k \/ i \in 1..Len(log)
    BY <1>1
  <2> QED BY <1>6, <2>1
<1>8. ASSUME NEW i \in 1..k, NEW j \in 1..k, i < j PROVE f[i] # f[j]
  <2>1. i \in 1..Len(log) /\ i # k
    BY <1>1, <1>8
  <2>2. CASE j = k
    BY <1>1, <1>2, <2>1, <2>2
  <2>3. CASE j # k
    <3>1. j \in 1..Len(log)
      BY <1>1, <2>3
    <3>2. Increasing(log)
      BY DEF QueueInv
    <3>3. log[i] < log[j]
      BY <1>2, <1>8, <2>1, <3>1, <3>2 DEF Increasing
    <3>4. log[i] \in 1..n /\ log[j] \in 1..n
      BY <1>2, <2>1, <3>1
    <3> QED BY <1>1, <2>1, <2>3, <3>3, <3>4
  <2> QED BY <2>2, <2>3
<1>9. \A i, j \in 1..k : f[i] = f[j] => i = j
  <2> SUFFICES ASSUME NEW i \in 1..k, NEW j \in 1..k, i # j PROVE f[i] # f[j]
    OBVIOUS
  <2>1. i < j \/ j < i
    OBVIOUS
  <2> QED BY <1>8, <2>1
<1>10. f \in [1..k -> Important]
  BY <1>7
<1> HIDE DEF f
<1>11. f \in Injection(1..k, Important)
  BY <1>9, <1>10 DEF Injection, IsInjective
<1>12. Cardinality(1..k) <= Cardinality(Important)
  BY <1>11, ImportantIsFinite, FS_Injection
<1>13. Cardinality(1..k) = k /\ k \in Nat
  BY <1>1, FS_Interval
<1>14. Cardinality(Important) \in Nat
  BY ImportantIsFinite
<1> QED BY <1>1, <1>5, <1>12, <1>13, <1>14

LEMMA KeptInit == LogInit => KeptInv
BY DEF LogInit, KeptInv, FramesKept, Important

LEMMA KeptStep == QueueInv /\ KeptInv /\ [LogNext]_logVars => KeptInv'
<1> SUFFICES ASSUME QueueInv, KeptInv, [LogNext]_logVars PROVE KeptInv'
  OBVIOUS
<1>0. /\ Len(report) \in Nat /\ n \in Nat /\ Len(log) \in Nat
      /\ DOMAIN log = 1..Len(log) /\ \A i \in 1..Len(log) : log[i] \in 1..n
  <2>1. log \in Seq(1..n) /\ n \in Nat /\ report \in Seq(Nat)
    BY DEF QueueInv
  <2> QED BY <2>1, SeqElements
<1>1. UNCHANGED report => Important' = Important
  BY DEF Important
<1>2. CASE EnterProgrammerMode
  <2>1. com_mode' = FALSE /\ n' = 0 /\ log' = log /\ log = <<>>
    BY <1>2 DEF EnterProgrammerMode, QueueInv
  <2>2. \A m \in Important' : ~(m <= n')
    BY <2>1 DEF Important
  <2> QED BY <2>1, <2>2 DEF KeptInv, FramesKept
<1>3. CASE Queued
  <2>1. /\ ~com_mode /\ ~com_mode' /\ n' = n + 1 /\ UNCHANGED report
        /\ report[n'] \notin TooLong
    BY <1>3 DEF Queued, Logs, Id
  <2>2. /\ log' \in Seq(1..n')
        /\ \A k \in 1..Len(log') : log'[k] = n' \/ \E j \in 1..Len(log) : log'[k] = log[j]
        /\ \E k \in 1..Len(log') : log'[k] = n'
        /\ \A j \in 1..Len(log) : ~Droppable(report[log[j]]) =>
             \E k \in 1..Len(log') : log'[k] = log[j]
    BY <1>3, QueuedFacts
  <2>3. DOMAIN log' = 1..Len(log')
    BY <2>2
  <2>4. \A k \in DOMAIN log' : report'[log'[k]] \notin TooLong
    BY <1>0, <2>1, <2>2, <2>3 DEF KeptInv
  <2>5. ASSUME Cardinality(Important) <= LogMax, NEW m \in Important, m <= n'
        PROVE  m \in ToSet(log')
    <3>1. m = n' \/ m <= n
      BY <1>0, <2>1, <2>5 DEF Important
    <3>2. CASE m = n'
      BY <2>2, <2>3, <3>2 DEF ToSet
    <3>3. CASE m <= n
      <4>1. m \in ToSet(log)
        BY <2>1, <2>5, <3>3 DEF KeptInv
      <4>2. PICK j \in 1..Len(log) : m = log[j]
        BY <1>0, <4>1 DEF ToSet
      <4>3. ~Droppable(report[log[j]])
        BY <2>5, <4>2 DEF Important
      <4> QED BY <2>2, <2>3, <4>2, <4>3 DEF ToSet
    <3> QED BY <3>1, <3>2, <3>3
  <2> QED BY <1>1, <2>1, <2>4, <2>5 DEF KeptInv, FramesKept
<1>4. CASE Dropped
  <2>1. ~com_mode /\ ~com_mode' /\ n' = n + 1 /\ UNCHANGED <<report, log>>
    BY <1>4 DEF Dropped, Logs
  <2>2. ASSUME Cardinality(Important) <= LogMax, NEW m \in Important, m <= n'
        PROVE  m \in ToSet(log)
    <3>1. m # n'
      BY <1>4, <2>2, NothingImportantDropped
    <3>2. m <= n
      BY <1>0, <2>1, <2>2, <3>1 DEF Important
    <3> QED BY <2>1, <2>2, <3>2 DEF KeptInv
  <2> QED BY <1>1, <2>1, <2>2 DEF KeptInv, FramesKept, ToSet
<1>5. CASE EnterCommunicationMode
  <2>1. /\ ~com_mode /\ com_mode' = TRUE /\ wire' = log /\ log' = <<>> /\ UNCHANGED report
        /\ n = Len(report)
    BY <1>5 DEF EnterCommunicationMode
  <2>2. \A m \in Important : m <= n
    BY <1>0, <2>1 DEF Important
  <2>3. Cardinality(Important) <= LogMax => Important \subseteq ToSet(log)
    BY <2>1, <2>2 DEF KeptInv
  <2>4. ToSet(wire') = ToSet(log)
    BY <2>1 DEF ToSet
  <2> QED BY <1>1, <2>1, <2>3, <2>4 DEF KeptInv, FramesKept
<1>6. CASE UNCHANGED logVars
  BY <1>1, <1>6 DEF logVars, KeptInv, FramesKept, ToSet
<1> QED BY <1>2, <1>3, <1>4, <1>5, <1>6 DEF LogNext

(* deferred_log_push: a frame the host waits for is lost only if a callback logs more
   such frames than the queue has slots. *)
THEOREM NoSlotNoLoss == LogSpec => []FramesKept
<1>1. QueueInv /\ KeptInv => FramesKept
  BY DEF KeptInv
<1> QED BY <1>1, QueueInit, QueueStep, KeptInit, KeptStep, PTL DEF LogSpec

-----------------------------------------------------------------------------
(* What a callback may log, but for its last frame, the queue may drop. *)
LastOnly(A) ==
  \A a \in A : a \in Seq(Nat) /\ \A k \in 1..Len(a) : k < Len(a) => Droppable(a[k])

(* The callback goes on only after frames of that kind. *)
GoesOn(A) == \A a \in A : ~Failed(a) => \A k \in 1..Len(a) : Droppable(a[k])

LEMMA ThenReports ==
  ASSUME NEW A, NEW B, LastOnly(A), GoesOn(A), LastOnly(B)
  PROVE  LastOnly(Then(A, B)) /\ (GoesOn(B) => GoesOn(Then(A, B)))
<1>1. ASSUME NEW a \in A, NEW b \in B, ~Failed(a)
      PROVE  /\ a \o b \in Seq(Nat)
             /\ \A k \in 1..Len(a \o b) : k < Len(a \o b) => Droppable((a \o b)[k])
             /\ GoesOn(B) /\ ~Failed(a \o b) =>
                  \A k \in 1..Len(a \o b) : Droppable((a \o b)[k])
  <2>1. /\ a \in Seq(Nat) /\ \A k \in 1..Len(a) : Droppable(a[k])
        /\ b \in Seq(Nat) /\ \A k \in 1..Len(b) : k < Len(b) => Droppable(b[k])
    BY <1>1 DEF LastOnly, GoesOn
  <2>2. Len(a) \in Nat /\ Len(b) \in Nat
    BY <2>1
  <2>3. a \o b \in Seq(Nat) /\ Len(a \o b) = Len(a) + Len(b)
    BY <2>1
  <2>4. \A k \in 1..(Len(a) + Len(b)) : (a \o b)[k] = IF k <= Len(a) THEN a[k]
                                                       ELSE b[k - Len(a)]
    BY <2>1
  <2>5. ASSUME NEW k \in 1..(Len(a) + Len(b)), k < Len(a) + Len(b)
        PROVE  Droppable((a \o b)[k])
    <3>1. CASE k <= Len(a)
      <4>1. k \in 1..Len(a)
        BY <2>2, <3>1
      <4> QED BY <2>1, <2>4, <3>1, <4>1
    <3>2. CASE ~(k <= Len(a))
      <4>1. k - Len(a) \in 1..Len(b) /\ k - Len(a) < Len(b)
        BY <2>2, <2>5, <3>2
      <4> QED BY <2>1, <2>4, <3>2, <4>1
    <3> QED BY <3>1, <3>2
  <2>6. ASSUME GoesOn(B), ~Failed(a \o b), NEW k \in 1..(Len(a) + Len(b))
        PROVE  Droppable((a \o b)[k])
    <3>1. CASE k < Len(a) + Len(b)
      BY <2>5, <3>1
    <3>2. CASE k = Len(a) + Len(b) /\ Len(b) = 0
      <4>1. k \in 1..Len(a) /\ k <= Len(a)
        BY <2>2, <3>2
      <4> QED BY <2>1, <2>4, <4>1
    <3>3. CASE k = Len(a) + Len(b) /\ Len(b) # 0
      <4>1. Len(b) \in 1..Len(b) /\ ~(k <= Len(a)) /\ k - Len(a) = Len(b) /\ Len(a \o b) # 0
        BY <2>2, <2>3, <3>3
      <4>2. (a \o b)[k] = b[Len(b)] /\ Len(a \o b) = k
        BY <2>3, <2>4, <3>3, <4>1
      <4>3. b # None /\ a \o b # None
        BY <4>1, <3>3 DEF None
      <4>4. ~Failed(b)
        BY <2>6, <4>2, <4>3 DEF Failed
      <4> QED BY <2>6, <4>1, <4>2, <4>4 DEF GoesOn
    <3> QED BY <2>2, <3>1, <3>2, <3>3
  <2> QED BY <2>3, <2>5, <2>6
<1>2. ASSUME NEW x \in Then(A, B)
      PROVE  \/ x \in A /\ Failed(x)
             \/ \E a \in A, b \in B : ~Failed(a) /\ x = a \o b
  BY DEF Then
<1>3. LastOnly(Then(A, B))
  BY <1>1, <1>2 DEF LastOnly
<1>4. GoesOn(B) => GoesOn(Then(A, B))
  BY <1>1, <1>2 DEF GoesOn
<1> QED BY <1>3, <1>4

LEMMA OneOrNone ==
  ASSUME NEW ids \in SUBSET (64..223)
  PROVE  /\ LastOnly(Maybe(ids)) /\ GoesOn(Maybe(ids))
         /\ LastOnly(OneOf(ids)) /\ GoesOn(OneOf(ids))
         /\ LastOnly({None}) /\ GoesOn({None})
<1>1. LastOnly({None}) /\ GoesOn({None})
  BY DEF LastOnly, GoesOn, None
<1>2. ASSUME NEW id \in ids
      PROVE  /\ <<id>> \in Seq(Nat) /\ Len(<<id>>) = 1 /\ <<id>>[1] = id
             /\ ~Failed(<<id>>) => Droppable(id)
  <2>1. id \in 64..223
    OBVIOUS
  <2>2. <<id>> \in Seq(Nat) /\ Len(<<id>>) = 1 /\ <<id>>[1] = id /\ <<id>> # None
    BY <2>1 DEF None
  <2>3. IsError(id) \/ Droppable(id)
    BY <2>1 DEF IsError, Droppable
  <2> QED BY <2>2, <2>3 DEF Failed
<1>3. LastOnly(OneOf(ids)) /\ GoesOn(OneOf(ids))
  <2> SUFFICES ASSUME NEW a \in OneOf(ids)
               PROVE  /\ a \in Seq(Nat) /\ \A k \in 1..Len(a) : k < Len(a) => Droppable(a[k])
                      /\ ~Failed(a) => \A k \in 1..Len(a) : Droppable(a[k])
    BY DEF LastOnly, GoesOn
  <2>1. PICK id \in ids : a = <<id>>
    BY DEF OneOf
  <2>2. /\ a \in Seq(Nat) /\ Len(a) = 1 /\ a[1] = id
        /\ ~Failed(a) => Droppable(id)
    BY <1>2, <2>1
  <2> QED BY <2>2
<1> QED BY <1>1, <1>3 DEF Maybe, LastOnly, GoesOn

LEMMA EitherReports ==
  ASSUME NEW A, NEW B, LastOnly(A), LastOnly(B)
  PROVE  LastOnly(A \cup B) /\ (GoesOn(A) /\ GoesOn(B) => GoesOn(A \cup B))
BY DEF LastOnly, GoesOn

LEMMA DriverReportsEnd == LastOnly(AllReports)
<1>1. LastOnly(CheckVpp) /\ GoesOn(CheckVpp) /\ LastOnly(VppWindow) /\ GoesOn(VppWindow)
  <2>1. /\ {VPP_LOW_MV, WARN_VPP_HIGH_MV, ERR_VPP_HIGH_MV} \in SUBSET (64..223)
        /\ {NOT_CALIBRATED} \in SUBSET (64..223)
        /\ {REV0_VPP_UNSUPPORTED, ERR_CALIBRATION} \in SUBSET (64..223)
    BY DEF VPP_LOW_MV, WARN_VPP_HIGH_MV, ERR_VPP_HIGH_MV, NOT_CALIBRATED,
        REV0_VPP_UNSUPPORTED, ERR_CALIBRATION
  <2> QED BY <2>1, OneOrNone, ThenReports, EitherReports DEF CheckVpp, VppWindow
<1>2. LastOnly(ChipId) /\ GoesOn(ChipId) /\ LastOnly(RangeFits)
  <2>1. /\ {WARN_CHIP_ID, ERR_CHIP_ID} \in SUBSET (64..223)
        /\ {ERR_OUT_OF_RANGE} \in SUBSET (64..223)
    BY DEF WARN_CHIP_ID, ERR_CHIP_ID, ERR_OUT_OF_RANGE
  <2> QED BY <2>1, OneOrNone DEF ChipId, RangeFits
<1>3. LastOnly(EpromInit) /\ GoesOn(EpromInit) /\ LastOnly(EpromWriteInit) /\ LastOnly(EpromWrite)
  <2>1. /\ {SKIPPING_ERASE} \in SUBSET (64..223)
        /\ {ERR_MAX_PULSES, ERR_ENERGY_CAP, ERR_VERIFY} \in SUBSET (64..223)
    BY DEF SKIPPING_ERASE, ERR_MAX_PULSES, ERR_ENERGY_CAP, ERR_VERIFY
  <2>2. LastOnly(EpromInit) /\ GoesOn(EpromInit)
    BY <1>1, <1>2, ThenReports DEF EpromInit
  <2> QED BY <2>1, <2>2, OneOrNone, ThenReports DEF EpromWriteInit, EpromWrite
<1>4. LastOnly(IntelWriteInit) /\ LastOnly(IntelPoll)
  <2>1. {ERR_INTEL_VPP, ERR_INTEL_PROGRAM, ERR_INTEL_SR_TIMEOUT, ERR_CMD} \in SUBSET (64..223)
    BY DEF ERR_INTEL_VPP, ERR_INTEL_PROGRAM, ERR_INTEL_SR_TIMEOUT, ERR_CMD
  <2>2. LastOnly(IntelPoll)
    BY <2>1, OneOrNone DEF IntelPoll
  <2>3. LastOnly(Then(CheckVpp, ChipId)) /\ GoesOn(Then(CheckVpp, ChipId))
    BY <1>1, <1>2, ThenReports
  <2> QED BY <2>2, <2>3, ThenReports DEF IntelWriteInit
<1>5. LastOnly(Eeprom28cId) /\ GoesOn(Eeprom28cId)
  <2>1. {WARN_MEM_SIZE, ERR_MEM_SIZE, ERR_CALIBRATION} \in SUBSET (64..223)
    BY DEF WARN_MEM_SIZE, ERR_MEM_SIZE, ERR_CALIBRATION
  <2>2. LastOnly(Then(VppWindow, ChipId)) /\ GoesOn(Then(VppWindow, ChipId))
    BY <1>1, <1>2, ThenReports
  <2> QED BY <2>1, <2>2, OneOrNone, EitherReports DEF Eeprom28cId
<1>6. ASSUME NEW started \in 64..159, NEW ended \in 64..159
      PROVE  LastOnly(SdpSequence(started, ended))
  <2>1. Droppable(started) /\ Droppable(ended)
    BY DEF Droppable
  <2>2. LastOnly({<<started, ended>>}) /\ GoesOn({<<started, ended>>})
    BY <2>1 DEF LastOnly, GoesOn
  <2>3. {SDP_TBLC_EXCEEDED} \in SUBSET (64..223)
    BY DEF SDP_TBLC_EXCEEDED
  <2> QED BY <2>2, <2>3, OneOrNone, ThenReports DEF SdpSequence
<1>7. LastOnly(SdpUnlock) /\ LastOnly(SdpLock)
  <2>1. /\ SDP_UNLOCK \in 64..159 /\ SDP_UNLOCK_DONE_US \in 64..159
        /\ SDP_LOCK \in 64..159 /\ SDP_LOCK_DONE_US \in 64..159
    BY DEF SDP_UNLOCK, SDP_UNLOCK_DONE_US, SDP_LOCK, SDP_LOCK_DONE_US
  <2> QED BY <1>6, <2>1 DEF SdpUnlock, SdpLock
<1>8. LastOnly(Eeprom28cWriteInit) /\ LastOnly(Eeprom28cWrite)
  <2>1. /\ {SDP_UNLOCK_SKIPPED} \in SUBSET (64..223)
        /\ {ERR_EEPROM_TIMEOUT, ERR_VERIFY} \in SUBSET (64..223)
    BY DEF SDP_UNLOCK_SKIPPED, ERR_EEPROM_TIMEOUT, ERR_VERIFY
  <2>2. LastOnly(Eeprom28cId \cup {None}) /\ GoesOn(Eeprom28cId \cup {None})
    BY <1>5, <2>1, OneOrNone, EitherReports
  <2>3. LastOnly(SdpUnlock \cup OneOf({SDP_UNLOCK_SKIPPED}))
    BY <1>7, <2>1, OneOrNone, EitherReports
  <2> QED BY <2>1, <2>2, <2>3, OneOrNone, ThenReports DEF Eeprom28cWriteInit,
      Eeprom28cWrite
<1>9. LastOnly(NorErase) /\ LastOnly(NorWriteInit) /\ LastOnly(NorWrite)
  <2>1. /\ {ERR_OP_TIMEOUT, ERR_NOT_BLANK} \in SUBSET (64..223)
        /\ {SKIPPING_ERASE_MEM} \in SUBSET (64..223) /\ {ERR_OP_TIMEOUT} \in SUBSET (64..223)
    BY DEF ERR_OP_TIMEOUT, ERR_NOT_BLANK, SKIPPING_ERASE_MEM
  <2>2. LastOnly(NorErase) /\ LastOnly(NorWrite)
    BY <2>1, OneOrNone DEF NorErase, NorWrite
  <2>3. LastOnly(NorErase \cup OneOf({SKIPPING_ERASE_MEM}))
    BY <2>1, <2>2, OneOrNone, EitherReports
  <2> QED BY <1>2, <2>2, <2>3, ThenReports DEF NorWriteInit
<1>10. LastOnly(Page5vWrite)
  <2>1. {ERR_FL4_PAGE_SIZE, ERR_FL4_PAGE_ALIGN, ERR_FL4_VERIFY_TIMEOUT} \in SUBSET (64..223)
    BY DEF ERR_FL4_PAGE_SIZE, ERR_FL4_PAGE_ALIGN, ERR_FL4_VERIFY_TIMEOUT
  <2> QED BY <2>1, OneOrNone DEF Page5vWrite
<1>11. LastOnly(LockStatus)
  <2>1. LockStatus = {<<PROTECTION_STATUS>>}
    BY DEF LockStatus, OneOf
  <2>2. PROTECTION_STATUS \in Nat
    BY DEF PROTECTION_STATUS
  <2>3. <<PROTECTION_STATUS>> \in Seq(Nat) /\ Len(<<PROTECTION_STATUS>>) = 1
    BY <2>2
  <2>4. ASSUME NEW a \in LockStatus
        PROVE  a \in Seq(Nat) /\ \A k \in 1..Len(a) : k < Len(a) => Droppable(a[k])
    <3>1. a \in Seq(Nat) /\ Len(a) = 1
      BY <2>1, <2>3
    <3> QED BY <3>1
  <2> QED BY <2>4 DEF LastOnly
<1> QED BY <1>1, <1>2, <1>3, <1>4, <1>5, <1>7, <1>8, <1>9, <1>10, <1>11, EitherReports DEF
    AllReports

(* uno_rurp_shield.cpp: no driver logs so much before the frame the host waits for that
   the queue loses it. *)
THEOREM DriversLoseNoError == LogSpec => []NoErrorLost
<1>1. ASSUME QueueInv, KeptInv PROVE NoErrorLost
  <2> SUFFICES ASSUME com_mode, report \in AllReports PROVE Important \subseteq ToSet(wire)
    BY DEF NoErrorLost
  <2>1. Len(report) \in Nat /\ \A k \in 1..Len(report) : k < Len(report) => Droppable(report[k])
    BY <1>1, DriverReportsEnd DEF LastOnly, QueueInv
  <2>2. Important \in SUBSET {Len(report)}
    BY <2>1 DEF Important
  <2>3. Cardinality(Important) <= 1
    <3>1. IsFiniteSet({Len(report)}) /\ Cardinality({Len(report)}) = 1
      BY FS_Singleton
    <3> QED BY <2>2, <3>1, FS_Subset
  <2>4. Cardinality(Important) \in Nat /\ LogMax \in Nat \ {0}
    BY <1>1, ImportantIsFinite, DeferredAssumption
  <2>5. Cardinality(Important) <= LogMax
    BY <2>3, <2>4
  <2> QED BY <1>1, <2>5 DEF KeptInv, FramesKept
<1> QED BY <1>1, QueueInit, QueueStep, KeptInit, KeptStep, PTL DEF LogSpec

-----------------------------------------------------------------------------
(* validate_memory, apply_memory and mem_util_remap_address_bus: the bus words. *)

(* What validate_memory leaves: the lines in use come first, one bus line each. *)
LEMMA LinesInUse ==
  ASSUME NEW f \in Frames, Accepted(f)
  PROVE  LET c == Cardinality(InUse(f))
         IN  /\ c \in Nat /\ InUse(f) = 0..(c - 1) /\ InUse(f) \subseteq DOMAIN f.lines
             /\ \A i \in 0..(c - 1) : f.lines[i] \in Nat
             /\ \A i, j \in 0..(c - 1) : f.lines[i] = f.lines[j] => i = j
<1> DEFINE L == f.lines
           A == AddressLines
           T == {i \in 0..(A - 1) : L[i] = Absent}
           c == Cardinality(InUse(f))
<1>1. A \in Nat /\ L \in [0..(A - 1) -> LineByte] /\ DOMAIN L = 0..(A - 1)
  BY FrameAssumption
<1>2. InUse(f) = {i \in 0..(A - 1) : L[i] # Absent}
  BY <1>1 DEF InUse
<1>3. /\ \A i, j \in 0..(A - 1) : i < j /\ L[i] = Absent => L[j] = Absent
      /\ \A i, j \in 0..(A - 1) : i < j /\ L[i] = L[j] => L[i] = Absent
  BY <1>1 DEF Accepted, Gap, Duplicate
<1> HIDE DEF L, A
<1>4. \E a \in Nat : InUse(f) = 0..(a - 1)
  <2>1. CASE T = {}
    <3>1. InUse(f) = 0..(A - 1)
      BY <1>2, <2>1
    <3> QED BY <1>1, <3>1
  <2>2. CASE T # {}
    <3>1. T \subseteq Nat
      BY <1>1
    <3>2. PICK a \in T : \A k \in T : a <= k
      <4> HIDE DEF T
      <4> QED BY <2>2, <3>1, LeastNatural
    <3>3. a \in 0..(A - 1) /\ L[a] = Absent /\ a \in Nat
      BY <3>1
    <3>4. ASSUME NEW i \in 0..(A - 1) PROVE i \in InUse(f) <=> i < a
      <4>1. CASE i < a
        <5>1. i \notin T
          BY <3>1, <3>2, <4>1
        <5> QED BY <1>2, <4>1, <5>1
      <4>2. CASE ~(i < a)
        <5>1. i = a \/ a < i
          BY <3>3, <4>2
        <5>2. L[i] = Absent
          BY <1>3, <3>3, <5>1
        <5> QED BY <1>2, <4>2, <5>2
      <4> QED BY <4>1, <4>2
    <3>5. InUse(f) = 0..(a - 1)
      <4>1. InUse(f) \subseteq 0..(A - 1)
        BY <1>2
      <4>2. 0..(a - 1) \subseteq 0..(A - 1)
        BY <1>1, <3>3
      <4>3. \A i \in 0..(A - 1) : i < a <=> i \in 0..(a - 1)
        BY <1>1, <3>3
      <4> QED BY <3>4, <4>1, <4>2, <4>3
    <3> QED BY <3>3, <3>5
  <2> QED BY <2>1, <2>2
<1>5. PICK a \in Nat : InUse(f) = 0..(a - 1)
  BY <1>4
<1>6. c = a
  <2>1. Cardinality(0..(a - 1)) = a
    <3>1. 0 \in Int /\ a - 1 \in Int
      OBVIOUS
    <3>2. Cardinality(0..(a - 1)) = IF 0 > a - 1 THEN 0 ELSE (a - 1) - 0 + 1
      BY <3>1, FS_Interval
    <3> QED BY <3>2
  <2> QED BY <1>5, <2>1
<1>7. ASSUME NEW i \in InUse(f) PROVE i \in 0..(A - 1) /\ L[i] \in Nat /\ L[i] # Absent
  <2>1. i \in 0..(A - 1) /\ L[i] # Absent
    BY <1>2
  <2>2. L[i] \in LineByte
    BY <1>1, <2>1
  <2> QED BY <2>1, <2>2 DEF LineByte
<1>8. ASSUME NEW i \in InUse(f), NEW j \in InUse(f), L[i] = L[j] PROVE i = j
  <2>1. i \in 0..(A - 1) /\ j \in 0..(A - 1) /\ L[i] # Absent
    BY <1>7
  <2>2. ~(i < j) /\ ~(j < i)
    BY <1>3, <1>8, <2>1
  <2> QED BY <1>1, <2>1, <2>2
<1> HIDE DEF c
<1>9. /\ c \in Nat /\ InUse(f) = 0..(c - 1) /\ InUse(f) \subseteq DOMAIN L
      /\ \A i \in 0..(c - 1) : L[i] \in Nat
      /\ \A i, j \in 0..(c - 1) : L[i] = L[j] => i = j
  BY <1>1, <1>2, <1>5, <1>6, <1>7, <1>8
<1> QED BY <1>9 DEF c, L

LEMMA MatchingLines ==
  ASSUME NEW f \in Frames, Accepted(f)
  PROVE  LET c == Cardinality(InUse(f))
             m == Matching(f)
         IN  m \in 0..c /\ \A i \in 0..(m - 1) : f.lines[i] = i
<1> DEFINE c == Cardinality(InUse(f))
           m == Matching(f)
           A == AddressLines
           T == {k \in 0..A : k \notin Straight(f)}
<1>1. A \in Nat /\ DOMAIN f.lines = 0..(A - 1)
  BY FrameAssumption
<1>2. /\ Straight(f) = {i \in 0..(A - 1) : f.lines[i] = i}
      /\ InUse(f) = {i \in 0..(A - 1) : f.lines[i] # Absent}
  BY <1>1 DEF Straight, InUse
<1>3. Straight(f) \subseteq InUse(f)
  BY <1>1, <1>2 DEF Absent
<1>4. T # {} /\ T \subseteq Nat
  <2>1. A \in 0..A /\ A \notin 0..(A - 1)
    BY <1>1
  <2>2. A \notin Straight(f) /\ A \in T
    BY <1>2, <2>1
  <2> QED BY <1>1, <2>2
<1>5. \E k \in 0..A : 0..(k - 1) \subseteq Straight(f) /\ k \notin Straight(f)
  <2>1. PICK k \in T : \A j \in T : k <= j
    <3> HIDE DEF T
    <3> QED BY <1>4, LeastNatural
  <2>2. ASSUME NEW j \in 0..(k - 1) PROVE j \in Straight(f)
    <3>1. j \in 0..A /\ ~(k <= j)
      BY <1>1
    <3> QED BY <2>1, <3>1
  <2> QED BY <2>2
<1>6. m \in 0..A /\ 0..(m - 1) \subseteq Straight(f) /\ m \notin Straight(f)
  BY <1>5, Zenon DEF Matching
<1>7. c \in Nat /\ InUse(f) = 0..(c - 1)
  BY LinesInUse
<1> HIDE DEF c, m
<1>8. m <= c
  <2> SUFFICES ASSUME ~(m <= c) PROVE FALSE
    OBVIOUS
  <2>1. c \in 0..(m - 1)
    BY <1>1, <1>6, <1>7
  <2>2. c \in 0..(c - 1)
    BY <1>3, <1>6, <1>7, <2>1
  <2> QED BY <1>7, <2>2
<1>9. m \in 0..c /\ \A i \in 0..(m - 1) : f.lines[i] = i
  BY <1>1, <1>2, <1>6, <1>7, <1>8
<1> QED BY <1>9 DEF c, m

-----------------------------------------------------------------------------
(* The bits that move, in the order they are moved in. *)
Moves == [k \in 1..(bus.count - bus.matching) |-> bus.matching + k - 1]

MoveBit(word, i, address) ==
  (word \ {bus.lines[i]}) \cup (IF i \in address THEN {bus.lines[i]} ELSE {})

MoveStep(h, t, address) ==
  IF t = {} THEN bus.mask \cap address
  ELSE MoveBit(h[t \ {Max(t)}], Moves[Max(t)], address)

MoveSteps(h, D, address) == h = [t \in SUBSET D |-> MoveStep(h, t, address)]

LEMMA MovedIs ==
  ASSUME NEW address, NEW D, D = DOMAIN Moves
  PROVE  Moved(address) = (CHOOSE h : MoveSteps(h, D, address))[D]
BY Zenon DEF Moved, FoldLeft, MapThenFoldSet, MoveSteps, MoveStep, MoveBit, Moves

(* The word with the bits of the moves of t moved, whichever these are. *)
Word(t, address) ==
  ((bus.mask \cap address) \ {bus.lines[Moves[k]] : k \in t})
    \cup {bus.lines[Moves[k]] : k \in {j \in t : Moves[j] \in address}}

OneEach(D) == \A j, k \in D : bus.lines[Moves[j]] = bus.lines[Moves[k]] => j = k

LEMMA WordStep ==
  ASSUME NEW D, OneEach(D), NEW t \in SUBSET D, NEW x \in t, NEW address
  PROVE  Word(t, address) = MoveBit(Word(t \ {x}, address), Moves[x], address)
<1> DEFINE l == bus.lines[Moves[x]]
           W == Word(t, address)
           V == Word(t \ {x}, address)
           M == MoveBit(V, Moves[x], address)
<1>1. \A k \in t : bus.lines[Moves[k]] = l => k = x
  BY DEF OneEach
<1>2. M = (V \ {l}) \cup (IF Moves[x] \in address THEN {l} ELSE {})
  BY DEF MoveBit
<1>3. \A a : a \in M <=> (a \in V /\ a # l) \/ (a = l /\ Moves[x] \in address)
  BY <1>2
<1>4. \A a : a \in V <=>
        \/ a \in bus.mask \cap address /\ \A k \in t \ {x} : a # bus.lines[Moves[k]]
        \/ \E k \in t \ {x} : Moves[k] \in address /\ a = bus.lines[Moves[k]]
  BY Zenon DEF Word
<1>5. \A a : a \in W <=>
        \/ a \in bus.mask \cap address /\ \A k \in t : a # bus.lines[Moves[k]]
        \/ \E k \in t : Moves[k] \in address /\ a = bus.lines[Moves[k]]
  BY Zenon DEF Word
<1> HIDE DEF W, V, M
<1>6. ASSUME NEW a PROVE a \in W <=> a \in M
  <2>1. CASE a = l
    <3>1. a \in W <=> Moves[x] \in address
      BY <1>1, <1>5, <2>1
    <3> QED BY <1>3, <2>1, <3>1
  <2>2. CASE a # l
    BY <1>3, <1>4, <1>5, <2>2
  <2> QED BY <2>1, <2>2
<1> QED BY <1>6 DEF W, M, V

LEMMA MovedWord ==
  ASSUME NEW top \in Nat, DOMAIN Moves = 1..top, OneEach(1..top), NEW address
  PROVE  Moved(address) = Word(1..top, address)
<1> DEFINE D == 1..top
           g == [t \in SUBSET D |-> Word(t, address)]
           h == CHOOSE e : MoveSteps(e, D, address)
<1>1. Word({}, address) = bus.mask \cap address
  BY DEF Word
<1>2. ASSUME NEW t \in SUBSET D PROVE g[t] = MoveStep(g, t, address)
  <2>1. CASE t = {}
    BY <1>1, <2>1 DEF MoveStep
  <2>2. CASE t # {}
    <3>1. Max(t) \in t
      BY <2>2, MaxFacts
    <3>2. g[t \ {Max(t)}] = Word(t \ {Max(t)}, address) /\ g[t] = Word(t, address)
      OBVIOUS
    <3>3. Word(t, address) = MoveBit(Word(t \ {Max(t)}, address), Moves[Max(t)], address)
      BY <3>1, WordStep
    <3> HIDE DEF g
    <3> QED BY <2>2, <3>2, <3>3 DEF MoveStep
  <2> QED BY <2>1, <2>2
<1>3. MoveSteps(h, D, address)
  <2>1. g = [t \in SUBSET D |-> g[t]]
    OBVIOUS
  <2> HIDE DEF g
  <2>2. g = [t \in SUBSET D |-> MoveStep(g, t, address)]
    BY <1>2, <2>1
  <2>3. MoveSteps(g, D, address)
    BY <2>2 DEF MoveSteps
  <2> QED BY <2>3, Zenon
<1> HIDE DEF h
<1> DEFINE S == {k \in Nat : k <= top => h[1..k] = Word(1..k, address)}
<1>4. 0 \in S
  <2>1. 1..0 = {} /\ {} \in SUBSET D
    OBVIOUS
  <2>2. h[{}] = bus.mask \cap address
    BY <1>3, <2>1 DEF MoveSteps, MoveStep
  <2> QED BY <1>1, <2>1, <2>2
<1>5. ASSUME NEW k \in Nat, k \in S PROVE k + 1 \in S
  <2> SUFFICES ASSUME k + 1 <= top PROVE h[1..(k + 1)] = Word(1..(k + 1), address)
    OBVIOUS
  <2> DEFINE t == 1..(k + 1)
  <2>1. t \in SUBSET D /\ t # {} /\ k + 1 \in t /\ t \ {k + 1} = 1..k /\ k <= top
    <3>1. k + 1 \in t /\ k <= top
      OBVIOUS
    <3>2. t \ {k + 1} = 1..k
      OBVIOUS
    <3>3. t \in SUBSET D
      OBVIOUS
    <3> QED BY <3>1, <3>2, <3>3
  <2>2. Max(t) = k + 1
    <3> DEFINE m == k + 1
    <3>1. m \in Nat /\ t \in SUBSET (1..m) /\ m \in t
      OBVIOUS
    <3> HIDE DEF m, t
    <3>2. Max(t) = m
      BY <3>1, MaxIsTop
    <3> QED BY <3>2 DEF m
  <2>3. h[1..k] = Word(1..k, address)
    BY <1>5, <2>1
  <2> HIDE DEF t, S
  <2>4. h[t] = MoveBit(h[1..k], Moves[k + 1], address)
    BY <1>3, <2>1, <2>2 DEF MoveSteps, MoveStep
  <2>5. Word(t, address) = MoveBit(Word(1..k, address), Moves[k + 1], address)
    BY <2>1, WordStep
  <2> QED BY <2>3, <2>4, <2>5 DEF t
<1> HIDE DEF S
<1>6. Nat \subseteq S
  BY <1>4, <1>5, SetInduction
<1>7. top \in S
  BY <1>6
<1>8. h[D] = Word(1..top, address)
  BY <1>7 DEF S
<1> QED BY <1>8, MovedIs DEF h

-----------------------------------------------------------------------------
(* The bus is that of the frame accepted last. *)
BusOfFrame == bus = NoBus \/ \E f \in Frames : Accepted(f) /\ bus = Applied(f)

LEMMA BusIsMapped ==
  ASSUME BusOfFrame, bus # NoBus, NEW address
  PROVE  Moved(address) =
           IF bus.count = 0 THEN address \cap 0..(PassThrough - 1)
           ELSE {bus.lines[i] : i \in address \cap 0..(bus.count - 1)}
<1>1. PICK f \in Frames : Accepted(f) /\ bus = Applied(f)
  BY DEF BusOfFrame
<1> DEFINE c == bus.count
           m == bus.matching
           L == bus.lines
           top == c - m
<1>2. /\ c = Cardinality(InUse(f)) /\ m = Matching(f) /\ L = f.lines
      /\ bus.mask = IF InUse(f) = {} THEN 0..(PassThrough - 1) ELSE {L[i] : i \in InUse(f)}
  BY <1>1 DEF Applied
<1>3. /\ c \in Nat /\ InUse(f) = 0..(c - 1) /\ m \in 0..c
      /\ \A i \in 0..(m - 1) : L[i] = i
      /\ \A i, j \in 0..(c - 1) : L[i] = L[j] => i = j
  BY <1>1, <1>2, LinesInUse, MatchingLines
<1>4. top \in Nat /\ DOMAIN Moves = 1..top /\ \A k \in 1..top : Moves[k] = m + k - 1
  BY <1>3 DEF Moves
<1> HIDE DEF c, m, L, top
<1>5. \A k \in 1..top : Moves[k] \in m..(c - 1) /\ Moves[k] \in 0..(c - 1)
  BY <1>3, <1>4 DEF top
<1>6. OneEach(1..top)
  <2> SUFFICES ASSUME NEW j \in 1..top, NEW k \in 1..top, L[Moves[j]] = L[Moves[k]] PROVE j = k
    BY DEF OneEach, L
  <2>1. Moves[j] = Moves[k]
    BY <1>3, <1>5
  <2> QED BY <1>3, <1>4, <2>1
<1>7. Moved(address) = Word(1..top, address)
  BY <1>4, <1>6, MovedWord
<1>8. {Moves[k] : k \in 1..top} = m..(c - 1)
  <2>1. ASSUME NEW i \in m..(c - 1) PROVE \E k \in 1..top : Moves[k] = i
    <3>1. i - m + 1 \in 1..top /\ Moves[i - m + 1] = i
      BY <1>3, <1>4 DEF top
    <3> QED BY <3>1
  <2> QED BY <1>5, <2>1
<1>9. \A a : a \in Moved(address) <=>
        \/ a \in bus.mask \cap address /\ \A i \in m..(c - 1) : a # L[i]
        \/ \E i \in m..(c - 1) : i \in address /\ a = L[i]
  <2>1. \A a : a \in Word(1..top, address) <=>
          \/ a \in bus.mask \cap address /\ \A k \in 1..top : a # L[Moves[k]]
          \/ \E k \in 1..top : Moves[k] \in address /\ a = L[Moves[k]]
    BY Zenon DEF Word, L
  <2> QED BY <1>7, <1>8, <2>1
<1>10. CASE c = 0
  <2>1. bus.mask = 0..(PassThrough - 1) /\ m..(c - 1) = {}
    BY <1>2, <1>3, <1>10
  <2>2. Moved(address) = address \cap 0..(PassThrough - 1)
    BY <1>9, <2>1
  <2> QED BY <1>10, <2>2 DEF c
<1>11. CASE c # 0
  <2>1. bus.mask = {L[i] : i \in 0..(c - 1)}
    <3>1. 0 \in 0..(c - 1)
      BY <1>3, <1>11
    <3>2. InUse(f) # {} /\ bus.mask = {L[i] : i \in InUse(f)}
      BY <1>2, <1>3, <3>1
    <3> QED BY <1>3, <3>2
  <2>2. \A i \in 0..(c - 1) : i \in 0..(m - 1) \/ i \in m..(c - 1)
    BY <1>3
  <2>3. 0..(m - 1) \subseteq 0..(c - 1) /\ m..(c - 1) \subseteq 0..(c - 1)
        /\ \A i \in 0..(m - 1) : i \notin m..(c - 1)
    BY <1>3
  <2>4. ASSUME NEW a PROVE a \in Moved(address) <=> \E i \in 0..(c - 1) : i \in address /\ a = L[i]
    <3>1. ASSUME a \in Moved(address) PROVE \E i \in 0..(c - 1) : i \in address /\ a = L[i]
      <4>1. CASE a \in bus.mask \cap address /\ \A i \in m..(c - 1) : a # L[i]
        <5>1. PICK i \in 0..(c - 1) : a = L[i]
          BY <2>1, <4>1
        <5>2. i \in 0..(m - 1) /\ a = i
          BY <1>3, <2>2, <4>1, <5>1
        <5> QED BY <4>1, <5>1, <5>2
      <4>2. CASE \E i \in m..(c - 1) : i \in address /\ a = L[i]
        BY <2>3, <4>2
      <4> QED BY <1>9, <3>1, <4>1, <4>2
    <3>2. ASSUME NEW i \in 0..(c - 1), i \in address, a = L[i] PROVE a \in Moved(address)
      <4>1. CASE i \in 0..(m - 1)
        <5>1. a = i /\ a \in bus.mask
          BY <1>3, <2>1, <3>2, <4>1
        <5>2. \A j \in m..(c - 1) : a # L[j]
          BY <1>3, <2>3, <3>2, <4>1
        <5> QED BY <1>9, <3>2, <5>1, <5>2
      <4>2. CASE i \in m..(c - 1)
        BY <1>9, <3>2, <4>2
      <4> QED BY <2>2, <4>1, <4>2
    <3> QED BY <3>1, <3>2
  <2>5. Moved(address) = {L[i] : i \in address \cap 0..(c - 1)}
    <3>1. \A a : a \in {L[i] : i \in address \cap 0..(c - 1)}
                   <=> \E i \in 0..(c - 1) : i \in address /\ a = L[i]
      OBVIOUS
    <3> QED BY <2>4, <3>1
  <2> QED BY <1>11, <2>5 DEF c, L
<1> QED BY <1>10, <1>11

(* mem_util_remap_address_bus: whatever frames were accepted and refused, for any number of
   address and bus lines and every map validate_memory lets through, an access selects the
   bus lines its address bits are mapped to, and no other line but the driven ones.  The
   leading bits that are passed straight and the ones that are moved never collide. *)
THEOREM BusWordsAreTheMap == FrameInit /\ [][FrameNext]_bus => []BusIsTheMap
<1>1. FrameInit => BusOfFrame
  BY DEF FrameInit, BusOfFrame
<1>2. BusOfFrame /\ [FrameNext]_bus => BusOfFrame'
  BY DEF BusOfFrame, FrameNext, Decode, Applied, Accepted
<1>3. BusOfFrame => BusIsTheMap
  <2> SUFFICES ASSUME BusOfFrame, bus # NoBus, NEW address, NEW access, NEW may
               PROVE  Remap(address, access, may) \ Driven(access, may) =
                        (IF bus.count = 0 THEN address \cap 0..(PassThrough - 1)
                         ELSE {bus.lines[i] : i \in address \cap 0..(bus.count - 1)})
                          \ Driven(access, may)
    BY Zenon DEF BusIsTheMap
  <2>1. Remap(address, access, may) \ Driven(access, may) = Moved(address) \ Driven(access, may)
    BY DEF Remap
  <2> QED BY <2>1, BusIsMapped
<1> QED BY <1>1, <1>2, <1>3, PTL

-----------------------------------------------------------------------------
(* A calibration that passes the pre-flight never makes an operation of the reading
   wrap: for every width of the integers and of the converter. *)

LEMMA ModSmall == ASSUME NEW w \in Nat, NEW a \in Nat, a < w PROVE a % w = a
  OBVIOUS

LEMMA ModWrap ==
  ASSUME NEW w \in Nat, NEW a \in Nat, w <= a, a < 2 * w
  PROVE  a % w = a - w
  OBVIOUS

LEMMA DivBelow ==
  ASSUME NEW b \in Nat, b > 0, NEW a \in Nat
  PROVE  a \div b \in Nat /\ b * (a \div b) <= a /\ a < b * (a \div b) + b
  OBVIOUS

LEMMA TimesMonotone ==
  ASSUME NEW a \in Nat, NEW b \in Nat, NEW c \in Nat, a <= b
  PROVE  a * c \in Nat /\ b * c \in Nat /\ a * c <= b * c
  OBVIOUS

VTypeOK ==
  /\ r1 \in Uint /\ r2 \in Uint /\ bandgap \in Nat
  /\ adc \in Counts /\ ref \in Counts

Exact(a, b) == Saturated((a * ((bandgap * (r1 + r2)) \div r2) + b \div 2) \div b)

(* The two tests of rurp_calibration_is_plausible that keep the sum and the product:
   the second is the compile-time bound RURP_DIVIDER_SUM_MAX. *)
LEMMA FactorIsExact ==
  ASSUME VTypeOK, Plausible
  PROVE  /\ Factor = (bandgap * (r1 + r2)) \div r2
         /\ Factor \in Nat /\ Factor <= ScaleMax
<1> USE VoltageAssumption
<1> DEFINE S == r1 + r2
<1>1. r1 \in Nat /\ r2 \in Nat /\ r2 > 0 /\ r1 < UintWrap /\ r2 < UintWrap /\ UintWrap \in Nat
  BY DEF VTypeOK, Plausible, Uint
<1>2. Plus(r1, r2) = S
  <2>1. CASE S < UintWrap
    BY <1>1, <2>1, ModSmall DEF Plus
  <2>2. CASE S >= UintWrap
    <3>1. Plus(r1, r2) = S - UintWrap
      BY <1>1, <2>2, ModWrap DEF Plus
    <3> QED BY <1>1, <3>1 DEF Plausible
  <2> QED BY <1>1, <2>1, <2>2
<1>3. S \in Nat /\ S <= SumMax
  BY <1>1, <1>2 DEF Plausible
<1>4. SumMax \in Nat /\ BandgapMax * SumMax <= UintWrap - 1
  BY <1>1, DivBelow DEF SumMax
<1>5. BandgapMax * S <= UintWrap - 1
  <2>1. S * BandgapMax <= SumMax * BandgapMax
    BY <1>3, <1>4, TimesMonotone
  <2> QED BY <1>3, <1>4, <2>1
<1>6. bandgap * S \in Nat /\ bandgap * S < UintWrap
  <2>1. bandgap \in Nat /\ bandgap <= BandgapMax
    BY DEF VTypeOK, Plausible
  <2>2. bandgap * S \in Nat /\ bandgap * S <= BandgapMax * S
    BY <1>3, <2>1, TimesMonotone
  <2> HIDE DEF S
  <2>3. BandgapMax * S \in Int
    BY <1>3
  <2> QED BY <1>1, <1>5, <2>2, <2>3
<1>7. Times(bandgap, Plus(r1, r2)) = bandgap * S
  BY <1>1, <1>2, <1>6, ModSmall DEF Times
<1>8. Factor = (bandgap * S) \div r2
  BY <1>7 DEF Factor
<1>9. Factor \in Nat
  BY <1>1, <1>6, <1>8, DivBelow
<1>10. Factor <= ScaleMax
  BY DEF Factor, Plausible
<1> QED BY <1>8, <1>9, <1>10

(* RURP_SCALE_K_MAX leaves room for a full count and half of another. *)
LEMMA RoomForACount ==
  ASSUME NEW k \in Nat, k <= ScaleMax, NEW a \in Counts, NEW b \in Counts
  PROVE  a * k \in Nat /\ b \div 2 \in Nat /\ a * k + b \div 2 < UintWrap
<1> USE VoltageAssumption
<1>1. a \in Nat /\ b \in Nat /\ a <= FullScale - 1 /\ b <= FullScale - 1
  BY DEF Counts
<1>2. UintWrap \in Nat /\ UintWrap > 0
  <2>1. FullScale * FullScale > 0
    OBVIOUS
  <2> QED BY <2>1
<1>3. /\ ScaleMax \in Nat
      /\ FullScale * ScaleMax <= UintWrap - 1
      /\ UintWrap - 1 < FullScale * ScaleMax + FullScale
  BY <1>2, DivBelow DEF ScaleMax
<1>4. FullScale <= ScaleMax + 1
  <2>1. SUFFICES ASSUME ScaleMax + 1 < FullScale PROVE FALSE
    BY <1>3
  <2>2. (ScaleMax + 1) * FullScale <= (FullScale - 1) * FullScale
    BY <1>3, <2>1, TimesMonotone
  <2> QED BY <1>2, <1>3, <2>2
<1>5. b \div 2 \in Nat /\ b \div 2 <= ScaleMax
  BY <1>1, <1>3, <1>4
<1>6. a * k \in Nat /\ a * k <= (FullScale - 1) * ScaleMax
  <2>1. a * k \in Nat /\ a * k <= (FullScale - 1) * k
    BY <1>1, TimesMonotone
  <2>2. k * (FullScale - 1) <= ScaleMax * (FullScale - 1)
    BY <1>3, TimesMonotone
  <2> QED BY <1>3, <2>1, <2>2
<1>7. (FullScale - 1) * ScaleMax = FullScale * ScaleMax - ScaleMax
  BY <1>3
<1> QED BY <1>2, <1>3, <1>5, <1>6, <1>7

(* No multiplication, addition or rounding of rurp_scale_voltage_mv wraps. *)
LEMMA ScaledIsExact ==
  ASSUME VTypeOK, Plausible, NEW a \in Counts, NEW b \in Counts, b # 0
  PROVE  Scaled(a, b) = Exact(a, b)
<1>1. /\ Factor = (bandgap * (r1 + r2)) \div r2
      /\ Factor \in Nat /\ Factor <= ScaleMax
  BY FactorIsExact
<1>2. a * Factor \in Nat /\ b \div 2 \in Nat /\ a * Factor + b \div 2 < UintWrap
  BY <1>1, RoomForACount
<1>3. Times(a, Factor) = a * Factor
  BY <1>2, ModSmall, VoltageAssumption DEF Times
<1>4. Plus(a * Factor, b \div 2) = a * Factor + b \div 2
  BY <1>2, ModSmall, VoltageAssumption DEF Plus
<1> QED BY <1>1, <1>3, <1>4 DEF Scaled, Exact

VInv == VTypeOK /\ ReadingIsExact

LEMMA InitVoltage == VoltageInit => VInv
  BY VoltageAssumption DEF VoltageInit, VInv, VTypeOK, ReadingIsExact, Measured, Counts

LEMMA NextVoltage == VInv /\ [VoltageNext]_voltageVars => VInv'
<1> SUFFICES ASSUME VInv, [VoltageNext]_voltageVars PROVE VInv'
  OBVIOUS
<1>1. CASE Refuse
  BY <1>1 DEF Refuse, given, VInv, VTypeOK, ReadingIsExact, Measured
<1>2. CASE Measure
  <2>1. r1' = r1 /\ r2' = r2 /\ bandgap' = bandgap /\ adc' \in Counts /\ ref' \in Counts
    BY <1>2 DEF Measure, given
  <2>2. ref' # 0 => mv' = Exact(adc', ref')
    BY <1>2, <2>1, ScaledIsExact DEF Measure, VInv
  <2>3. ReadingIsExact'
    BY <2>1, <2>2 DEF ReadingIsExact, Exact, Saturated
  <2> QED BY <2>1, <2>3 DEF VInv, VTypeOK
<1>3. CASE UNCHANGED voltageVars
  BY <1>3 DEF voltageVars, VInv, VTypeOK, ReadingIsExact, Measured, Saturated
<1> QED BY <1>1, <1>2, <1>3 DEF VoltageNext

(* rurp_voltage_math.h: a calibration that passes the pre-flight is evaluated "without
   any product overflowing uint32": of any width, with any converter whose square fits
   it, and for any resistors, bandgap and counts. *)
THEOREM ReadingsAreExact == VoltageSpec => []ReadingIsExact
<1>1. VoltageSpec => []VInv
  BY InitVoltage, NextVoltage, PTL DEF VoltageSpec
<1> QED BY <1>1, PTL DEF VInv
================================================================================
