-------------------------------- MODULE PageWrite --------------------------------
(***************************************************************************)
(* The parts that time their own writing: 28C EEPROM (eeprom_28c.cpp),     *)
(* 5 V page flash (flash_5v_page.cpp) and NOR flash                        *)
(* (flash_nor_unlock.cpp), with the waits they share (flash_utils.cpp).    *)
(* One command from its first bus write to its answer: an erase, an SDP    *)
(* command, or the write of a block.                                     *)
(*                                                                         *)
(* The chip is external.  It collects bytes as long as they follow each    *)
(* other closely (its load window, tBLC), then programs them, and until it *)
(* is done answers every read with the complement of the last byte's DQ7.  *)
(* It may be sound, or have one fault.                                     *)
(***************************************************************************)
EXTENDS Integers, Sequences

CONSTANTS
  Datum, Blank, \* byte values; 0xFF
  High,         \* those with DQ7 set
  Top,          \* the last address
  DevicePage,   \* the part's page
  Requests,     \* handle.page_size: the part's page, or a value the driver refuses
  MaxPage, Fallback,  \* AT28C_PAGE_SIZE_MAX, AT28C_PAGE_SIZE_FALLBACK
  Contents, Blocks    \* what the part may hold, and what may be written: [at, bytes]

Cells == 0..Top
Faults == {"none",    \* sound
           "hasty",   \* an interrupt of ours, or the part's own tBLC, ends a load early
           "weak",    \* a byte may not hold what was written
           "lockout", \* a protected sector: programs and erases nothing
           "stuck"}   \* its cycle never ends

Tasks == {<<"28c", t>> : t \in {"write", "erase", "unlock", "lock"}}
           \cup {<<f, t>> : f \in {"5v", "nor"}, t \in {"write", "erase"}}

ASSUME PageAssumption ==
  /\ Blank \in High /\ High \subseteq Datum /\ High # Datum
  /\ {DevicePage, Fallback} \subseteq Nat \ {0} /\ DevicePage % Fallback = 0
  /\ Top \in Nat /\ MaxPage \in Nat
  /\ \A r \in Requests : r = DevicePage \/ r \notin 1..MaxPage
  /\ Contents \subseteq [Cells -> Datum]
  /\ \A j \in Blocks : /\ j.at \in Nat /\ j.bytes \in Seq(Datum) /\ j.bytes # <<>>
                      /\ j.at + Len(j.bytes) <= Top + 1

VARIABLES
  family, task, request, skip, \* the command; FLAG_SKIP_SDP_UNLOCK or FLAG_SKIP_ERASE
  job,                       \* handle.address and data_buffer
  step, at, first, seen,       \* the driver: place, index, window_start, matching reads
  verdict,                     \* the answer: "none" yet, "ok" or "error"
  fault, locked,               \* the part; its software data protection
  memory, status,              \* its cells; "ready", "window", "busy" or "erasing"
  loaded, last,                \* the bytes it has taken, and the last of them
  protect, glitched,           \* what the cycle does to the protection; a read went wrong
  before,                      \* ghost: its cells when the command came
  blind                        \* ghost: a byte was read back from a part at work

command == <<family, task, request, skip, job, fault, before>>
cycle == <<locked, memory, status, loaded, last, protect, glitched>>
driver == <<step, at, first, seen, verdict>>
pageVars == <<command, driver, cycle, blind>>

Length == Len(job.bytes)
Address == job.at + at
Wanted == job.bytes[at + 1]
Page(a) == a \div DevicePage
Same == UNCHANGED cycle

-----------------------------------------------------------------------------
(* The part, external. *)
Nothing == [a \in {} |-> Blank]

\* Does a byte open the load window?
Takes(prefixed) ==
  /\ fault # "lockout"
  /\ family = "28c" => ~locked
  /\ family = "5v" => prefixed \/ ~locked
  /\ family = "nor" => prefixed

\* A byte opens a window, or (behind a command prefix) begins the load anew, or joins
\* the page of the open one, or is lost.
Begins(prefixed) ==
  \/ status = "ready" /\ Takes(prefixed)
  \/ status = "window" /\ (prefixed \/ loaded = Nothing)

InPage(a) == DevicePage * Page(CHOOSE c \in DOMAIN loaded : TRUE) + (a % DevicePage)

With(f, a, b) == [c \in DOMAIN f \cup {a} |-> IF c = a THEN b ELSE f[c]]

Load(a, b, prefixed) ==
  /\ IF Begins(prefixed)
     THEN loaded' = With(Nothing, a, b) /\ last' = b
          /\ status' = IF family = "nor" THEN "busy" ELSE "window"
     ELSE IF status = "window"
     THEN loaded' = With(loaded, InPage(a), b) /\ last' = b /\ UNCHANGED status
     ELSE UNCHANGED <<loaded, last, status>>
  /\ UNCHANGED <<locked, memory, protect, glitched>>

\* A command sequence: an SDP change is a write cycle of no bytes.
Ignored(kind) ==
  \/ status # "ready"
  \/ kind = "erase" /\ (fault = "lockout" \/ (family = "28c" /\ locked))

Sequence(kind) ==
  /\ IF Ignored(kind)
     THEN Same
     ELSE /\ status' = (CASE kind = "erase" -> "erasing" [] kind = "lock" -> "window"
                          [] kind = "unlock" -> "busy")
          /\ protect' = IF kind = "erase" THEN "keep" ELSE kind
          /\ loaded' = Nothing
          /\ last' = (IF kind = "unlock" THEN CHOOSE b \in Datum : b \notin High ELSE Blank)
          /\ UNCHANGED <<locked, memory, glitched>>

\* What a read of a may show.  Once in a cycle it may show anything.
Busy == status \in {"busy", "erasing"}
Complements == IF last \in High THEN Datum \ High ELSE High
Shows(a) ==
  CASE status = "ready" \/ (status = "window" /\ family = "5v") -> {memory[a]}
    [] status = "erasing" /\ family = "5v" -> Datum
    [] OTHER -> Complements

WindowCloses ==
  /\ status = "window"
  /\ step # "load" \/ fault = "hasty"
  /\ status' = "busy"
  /\ UNCHANGED <<command, driver, locked, memory, loaded, last, protect, glitched>>

\* The page as programmed: 5 V page flash erases the bytes it was not given, NOR flash
\* only clears bits.
Programmed ==
  [a \in Cells |->
    IF a \in DOMAIN loaded
    THEN IF family = "nor" /\ memory[a] \notin {Blank, loaded[a]} THEN memory[a] ELSE loaded[a]
    ELSE IF family = "5v" /\ \E b \in DOMAIN loaded : Page(a) = Page(b) THEN Blank
    ELSE memory[a]]

AfterErase == [a \in Cells |-> IF family # "nor" \/ job.at = 0 \/ Page(a) = Page(job.at)
                             THEN Blank ELSE memory[a]]

CycleEnds ==
  /\ Busy /\ fault # "stuck"
  /\ LET new == IF status = "erasing" THEN AfterErase ELSE Programmed
     IN  \/ memory' = new
         \/ fault = "weak" /\ \E a \in DOMAIN loaded, v \in Datum :
                                 memory' = [new EXCEPT ![a] = v]
  /\ locked' = IF protect = "keep" THEN locked ELSE protect = "lock"
  /\ status' = "ready" /\ protect' = "keep" /\ glitched' = FALSE
  /\ loaded' = Nothing /\ last' = Blank
  /\ UNCHANGED <<command, driver>>

-----------------------------------------------------------------------------
Goto(s) == step' = s /\ UNCHANGED <<at, first, seen, verdict>>
Answer(v) == step' = "done" /\ verdict' = v /\ at' = 0 /\ first' = 0 /\ seen' = 0

\* The driver waits for as long as a cycle can take.
Waited == status = "ready" \/ fault = "stuck"

(* 28C. *)
(* eeprom28c_write_init, _erase_execute, _sdp_unlock_execute: a write may skip it. *)
SdpUnlock ==
  /\ step = "start" /\ family = "28c" /\ task # "lock"
  /\ ~(task = "write" /\ skip)
  /\ Sequence("unlock")
  /\ Goto("sdp")

SdpUnlockSkipped ==
  /\ step = "start" /\ family = "28c" /\ task = "write" /\ skip
  /\ Same /\ Goto("load")

(* eeprom28c_wait_for_sdp_completion: whatever its poll sees, the caller goes on. *)
SdpWaited ==
  /\ step = "sdp" /\ Waited
  /\ IF task = "unlock" THEN Answer("ok") ELSE Goto(IF task = "erase" THEN "erase" ELSE "load")
  /\ Same

(* eeprom28c_sdp_lock_execute: three writes that no data follows. *)
SdpLock ==
  /\ step = "start" /\ task = "lock"
  /\ Sequence("lock") /\ Goto("delay")

Erase28c == step = "erase" /\ family = "28c" /\ Sequence("erase") /\ Goto("delay")

(* The delays at the end of both. *)
Delayed == step = "delay" /\ Waited /\ Same /\ Answer("ok")

(* eeprom28c_page_mask *)
PowersOfTwo == {2^k : k \in 0..9}
ValidPage == request \in 1..MaxPage /\ request \in PowersOfTwo
PageMask28c == IF ValidPage THEN request ELSE Fallback

\* Is byte `at` the last one of its page of size s, or of the block?
EndsLoad(s) == (Address + 1) % s = 0 \/ at + 1 = Length

Loaded(ends, next) ==
  /\ step' = (IF ends THEN next ELSE "load")
  /\ at' = (IF ends THEN at ELSE at + 1)
  /\ seen' = 0 /\ UNCHANGED <<first, verdict>>

Load28c ==
  /\ step = "load" /\ family = "28c"
  /\ Load(Address, Wanted, FALSE)
  /\ Loaded(EndsLoad(PageMask28c), "poll")

-----------------------------------------------------------------------------
(* 5 V page flash.  Pages are written whole or not at all. *)
\* Slip: a block need not end where a page does.
RefusedUnlessStart5v == ValidPage => job.at % request # 0

Refused5v ==
  ValidPage => job.at % request # 0 \/ Length % request # 0

Refuse5v ==
  /\ step = "start" /\ family = "5v" /\ task = "write"
  /\ Refused5v
  /\ Same /\ Answer("error")

Start5v ==
  /\ step = "start" /\ family = "5v"
  /\ task = "write" => ~Refused5v
  /\ Same /\ Goto(IF task = "erase" THEN "erase" ELSE "load")

(* A page starts with the unlock prefix. *)
Load5v ==
  /\ step = "load" /\ family = "5v"
  /\ Load(Address, Wanted, Address % request = 0 \/ at = 0)
  /\ Loaded(EndsLoad(request), "tblc")

\* Slip: the poll starts at once.
TblcNotWaited == step = "tblc" /\ Same /\ Goto("poll")

(* flash_5v_page_wait_for_page_write: until the window has closed a read shows the old
   byte, whose DQ7 may be right already. *)
TblcPasses ==
  /\ step = "tblc" /\ status # "window"
  /\ Same /\ Goto("poll")

-----------------------------------------------------------------------------
(* NOR flash.  Only a write from address 0 erases. *)
StartNor ==
  /\ step = "start" /\ family = "nor"
  /\ Same
  /\ Goto(IF task = "erase" \/ (~skip /\ job.at = 0) THEN "erase" ELSE "load")

LoadNor ==
  /\ step = "load" /\ family = "nor"
  /\ Load(Address, Wanted, TRUE)
  /\ Loaded(TRUE, "poll")

(* flash_util_chip_erase; flash_nor_unlock_erase_execute erases one sector at an
   address other than 0. *)
EraseFlash ==
  /\ step = "erase" /\ family # "28c"
  /\ Sequence("erase")
  /\ Goto(IF family = "5v" \/ job.at = 0 THEN "settle" ELSE "erasing")

(* FLASH_CHIP_ERASE_MIN_MS, the longest erase of the 5 V parts: not every one of them
   polls truly in it.  NOR parts erase for longer. *)
Settled ==
  /\ step = "settle"
  /\ family = "5v" => Waited
  /\ Same /\ Goto("erasing")

-----------------------------------------------------------------------------
(* The waits: eeprom28c_wait_for_page_write and flash_util_wait_ready. *)
EraseAddress == IF family = "nor" THEN job.at ELSE 0
Polled == IF step = "poll" THEN Address ELSE EraseAddress
Expected == IF step = "erasing" THEN Blank ELSE Wanted
Matches(b) == (b \in High) <=> (Expected \in High)

\* A read of a that shows b.
ReadOf(a, b) ==
  \/ b \in Shows(a) /\ Same
  \/ Busy /\ ~glitched /\ glitched' = TRUE /\ b \in Datum \ Shows(a)
     /\ UNCHANGED <<locked, memory, status, loaded, last, protect>>

Ready ==
  /\ step' = (CASE step = "erasing" -> "check" [] family = "28c" -> "readback"
                [] OTHER -> "advance")
  /\ seen' = 0 /\ at' = (IF step # "erasing" /\ family = "28c" THEN first ELSE at)
  /\ UNCHANGED <<first, verdict>>

Polling == step \in {"poll", "erasing"}

\* Slip: the first match is believed.
PollOnce ==
  /\ Polling
  /\ \E b \in Datum :
       /\ ReadOf(Polled, b)
       /\ IF Matches(b) THEN Ready ELSE seen' = 0 /\ UNCHANGED <<step, at, first, verdict>>

(* Two matches in a row end the wait: either could be the moment the outputs change. *)
Poll ==
  /\ Polling
  /\ \E b \in Datum :
       /\ ReadOf(Polled, b)
       /\ IF Matches(b) /\ seen = 1
          THEN Ready
          ELSE seen' = (IF Matches(b) THEN 1 ELSE 0) /\ UNCHANGED <<step, at, first, verdict>>

\* Slip: the wait has no bound while the part is busy.
PollWaits ==
  /\ Polling
  /\ status = "ready" /\ ~Matches(memory[Polled])
  /\ Same /\ Answer("error")

(* The bound, by count or by clock, is longer than any cycle: it is met by a part that
   stays busy, and by one that never took the byte.  (The reset that flash_util_fail
   then sends changes no cell.) *)
PollTimesOut ==
  /\ Polling
  /\ fault = "stuck" \/ (status = "ready" /\ ~Matches(memory[Polled]))
  /\ Same /\ Answer("error")

(* flash_util_wait_erase *)
EraseChecked ==
  /\ step = "check"
  /\ \E b \in Shows(Polled) :
       IF b # Blank THEN Answer("error")
       ELSE IF task = "write" THEN Goto("load") ELSE Answer("ok")
  /\ Same

(* eeprom28c_verify_page_readback, byte by byte; `at` is its index, window_start..i. *)
WindowEnd == CHOOSE n \in first..(Length - 1) :
  /\ (job.at + n + 1) % PageMask28c = 0 \/ n + 1 = Length
  /\ \A m \in first..(n - 1) : (job.at + m + 1) % PageMask28c # 0

\* Slip: the window is taken for read back.
ReadbackSkipped ==
  /\ step = "readback" /\ at' = WindowEnd /\ step' = "advance"
  /\ UNCHANGED <<first, seen, verdict>> /\ Same

Readback ==
  /\ step = "readback"
  /\ \E b \in Shows(Address) :
       IF b # Wanted THEN Answer("error")
       ELSE IF at = WindowEnd THEN Goto("advance")
       ELSE at' = at + 1 /\ UNCHANGED <<step, first, seen, verdict>>
  /\ Same

(* The next page, or byte, or the end of the block. *)
Advance ==
  /\ step = "advance"
  /\ IF at + 1 = Length THEN Answer("ok")
     ELSE step' = "load" /\ at' = at + 1 /\ first' = at + 1 /\ UNCHANGED <<seen, verdict>>
  /\ Same

-----------------------------------------------------------------------------
\* A command and a part; what the command does not use is fixed.
Given ==
  /\ \E ft \in Tasks : family = ft[1] /\ task = ft[2]
  /\ request \in Requests /\ skip \in BOOLEAN
  /\ job \in Blocks
  /\ at = 0 /\ first = 0 /\ seen = 0 /\ verdict = "none"
  /\ fault \in Faults /\ locked \in BOOLEAN
  /\ skip => task = "write" /\ family # "5v"
  /\ task # "write" => Length = 1
  /\ locked => family # "nor"
  /\ memory \in Contents /\ before = memory
  /\ status = "ready" /\ loaded = Nothing /\ last = Blank
  /\ protect = "keep" /\ glitched = FALSE /\ blind = FALSE

PageInit == Given /\ step = "start"

Sends == SdpUnlock \/ SdpLock \/ Erase28c \/ EraseFlash \/ Load28c \/ Load5v \/ LoadNor

Drive ==
  \/ Sends
  \/ SdpUnlockSkipped \/ SdpWaited \/ Delayed \/ Refuse5v \/ Start5v \/ TblcPasses
  \/ StartNor \/ Settled \/ Poll \/ EraseChecked \/ Readback \/ Advance

Looks == blind' = (blind \/ (step = "readback" /\ status # "ready"))

Finished == step = "done" /\ UNCHANGED pageVars

PageNext ==
  \/ /\ Drive \/ PollTimesOut
     /\ UNCHANGED command
     /\ Looks
  \/ (WindowCloses \/ CycleEnds) /\ UNCHANGED blind
  \/ Finished

PageSpec == PageInit /\ [][PageNext]_pageVars

(* The driver runs, its bounds run out, and a part that is not stuck comes to an end. *)
PageFairness ==
  /\ WF_pageVars(Drive /\ UNCHANGED command /\ Looks)
  /\ WF_pageVars(PollTimesOut /\ UNCHANGED command /\ Looks)
  /\ WF_pageVars(WindowCloses /\ UNCHANGED blind) /\ WF_pageVars(CycleEnds /\ UNCHANGED blind)

-----------------------------------------------------------------------------
Written == job.at..(job.at + Length - 1)
Holds(a) == memory[a] = job.bytes[a - job.at + 1]

\* The part does what it is told, as far as it is told rightly.
Sound ==
  /\ fault = "none"
  /\ family = "nor" /\ task = "write" =>
       (job.at = 0 /\ ~skip) \/ \A a \in Written : before[a] = Blank

\* The part may be at work when the driver does not expect it.
Untimed == fault \in {"hasty", "stuck"}

(* eeprom_28c.cpp: "did the data land".  A 28C write that is reported good has stored
   its block, whatever became of the part's protection and cells, and of its load windows
   as long as no byte was read back from a part still at work: a part that ends a load
   twice loses the last byte, and shows the complement of another.  Flash has it only if
   the part is sound: DQ7 is all these drivers look at.  A flash erase that is reported
   good has erased the address polled, also on a protected part.  The SDP commands, and
   the 28C erase, are right on sound parts. *)
SuccessIsStored ==
  verdict = "ok" =>
    /\ task = "write" /\ (Sound \/ (family = "28c" /\ ~(Untimed /\ blind))) =>
         \A a \in Written : Holds(a)
    /\ task = "erase" /\ family # "28c" /\ (family = "nor" \/ fault # "stuck") =>
         memory[EraseAddress] = Blank
    /\ task = "erase" /\ family = "28c" /\ Sound => \A a \in Cells : memory[a] = Blank
    /\ task \in {"lock", "unlock"} /\ Sound => memory = before /\ locked = (task = "lock")

(* A sound part's write is never reported as failed, though one read in a cycle may
   show anything, and no handler returns before the part is at rest. *)
SoundPartSucceeds ==
  Sound /\ step = "done" =>
    /\ status = "ready"
    /\ verdict = "error" =>
         \/ family = "5v" /\ Refused5v
         \/ family = "28c" /\ locked /\ skip

(* What is outside of the block keeps its bytes, on 5 V parts too, whose pages are
   erased as a whole; only an erase takes more. *)
OthersKept ==
  task = "write" /\ ~(family = "nor" /\ job.at = 0 /\ ~skip) =>
    \A a \in Cells \ Written : memory[a] = before[a]

(* A sound part is sent nothing while it is busy, and its load windows get bytes of one
   page only. *)
SentToPartAtRest ==
  [][Sends /\ fault = "none" =>
       \/ status = "ready"
       \/ status = "window" /\ step = "load" /\ Page(Address) = Page(Address - 1)]_pageVars

(* Every wait has a bound: the command ends, though the part never answers. *)
DriverReturns == step # "start" ~> step = "done"
=================================================================================
