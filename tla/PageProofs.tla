------------------------------- MODULE PageProofs -------------------------------
(***************************************************************************)
(* What holds of the parts that time their own writing, for every block,   *)
(* page, content and fault: BaseInv says where the driver is in its page   *)
(* and whose bytes the part has; RestInv when the part is at rest;         *)
(* ReadBackInv what has been read back; EraseInv, SdpInv, BlankInv,        *)
(* TakenInv and ErrorInv what a sound part has made of its orders.  The    *)
(* theorems are at the end of the sections whose invariants they need.     *)
(***************************************************************************)
EXTENDS PageWrite, TLAPS

-----------------------------------------------------------------------------
(* Pages of bytes. *)
LEMMA DivMod ==
  ASSUME NEW b \in Nat \ {0}, NEW a \in Nat
  PROVE  /\ a \div b \in Nat /\ a % b \in 0..(b - 1)
         /\ a = b * (a \div b) + (a % b)
  OBVIOUS

LEMMA Uniquely ==
  ASSUME NEW b \in Nat \ {0}, NEW q \in Nat, NEW r \in 0..(b - 1)
  PROVE  (b * q + r) \div b = q /\ (b * q + r) % b = r
  OBVIOUS

LEMMA Multiple ==
  ASSUME NEW b \in Nat \ {0}, NEW a \in Nat, a % b = 0
  PROVE  \E k \in Nat : a = b * k
<1>1. a \div b \in Nat /\ a = b * (a \div b)
  BY DivMod
<1> QED BY <1>1

LEMMA SamePage ==
  ASSUME NEW b \in Nat \ {0}, NEW s \in Nat \ {0}, b % s = 0, NEW a \in Nat, (a + 1) % s # 0
  PROVE  (a + 1) \div b = a \div b
<1>1. PICK k \in Nat : b = s * k
  BY Multiple
<1> DEFINE q == a \div b
           r == a % b
<1>2. q \in Nat /\ r \in 0..(b - 1) /\ a = b * q + r
  BY DivMod
<1> HIDE DEF q, r
<1>3. CASE r + 1 < b
  <2>1. r + 1 \in 0..(b - 1) /\ a + 1 = b * q + (r + 1)
    BY <1>2, <1>3
  <2>2. (a + 1) \div b = q
    BY <2>1, <1>2, Uniquely
  <2> QED BY <2>2 DEF q
<1>4. CASE r + 1 = b
  <2>1. a + 1 = b * q + b
    BY <1>2, <1>4
  <2>2. a + 1 = s * (k * q + k) /\ k * q + k \in Nat
    BY <2>1, <1>1, <1>2
  <2>3. (a + 1) % s = 0
    <3>1. (s * (k * q + k) + 0) % s = 0
      BY <2>2, Uniquely, 0 \in 0..(s - 1)
    <3> QED BY <3>1, <2>2
  <2> QED BY <2>3
<1> QED BY <1>2, <1>3, <1>4

LEMMA InItsPage ==
  ASSUME NEW b \in Nat \ {0}, NEW a \in Nat, NEW c \in Nat, c \div b = a \div b
  PROVE  b * (c \div b) + (a % b) = a
  BY DivMod

LEMMA WholePages ==
  ASSUME NEW b \in Nat \ {0}, NEW j \in Nat, NEW n \in Nat, j % b = 0, n % b = 0,
         NEW a \in Nat, NEW c \in j..(j + n - 1), a \div b = c \div b
  PROVE  a \in j..(j + n - 1)
<1>1. PICK u \in Nat : j = b * u
  BY Multiple
<1>2. PICK v \in Nat : n = b * v
  BY Multiple
<1>3. c \in Nat /\ a \in Nat /\ b \in Nat /\ b > 0
  OBVIOUS
<1> DEFINE q == c \div b
<1>4. q \in Nat /\ b * q <= c /\ c < b * q + b /\ b * q <= a /\ a < b * q + b
  BY <1>3, DivMod
<1> HIDE DEF q
<1>5. u <= q
  <2> SUFFICES ASSUME q + 1 <= u PROVE FALSE
    BY <1>1, <1>4
  <2>1. b * (q + 1) <= b * u
    BY <1>1, <1>3, <1>4
  <2>2. b * (q + 1) = b * q + b
    BY <1>3, <1>4
  <2> QED BY <2>1, <2>2, <1>1, <1>3, <1>4
<1>6. q + 1 <= u + v
  <2> SUFFICES ASSUME u + v <= q PROVE FALSE
    BY <1>1, <1>2, <1>4
  <2>1. b * (u + v) <= b * q /\ b * (u + v) = b * u + b * v
    BY <1>1, <1>2, <1>3, <1>4
  <2> QED BY <2>1, <1>1, <1>2, <1>3, <1>4
<1>7. b * u <= b * q /\ b * (q + 1) <= b * (u + v)
  BY <1>1, <1>2, <1>3, <1>4, <1>5, <1>6
<1>8. b * (q + 1) = b * q + b /\ b * (u + v) = b * u + b * v
  BY <1>1, <1>2, <1>3, <1>4
<1> QED BY <1>1, <1>2, <1>3, <1>4, <1>7, <1>8

LEMMA EarlierPage ==
  ASSUME NEW b \in Nat \ {0}, NEW j \in Nat, j % b = 0, NEW a \in Nat, a < j,
         NEW c \in Nat, j <= c
  PROVE  a \div b # c \div b
<1> SUFFICES ASSUME a \div b = c \div b PROVE FALSE
  OBVIOUS
<1>1. PICK u \in Nat : j = b * u
  BY Multiple
<1> DEFINE q == c \div b
<1>3. a = b * q + (a % b) /\ a % b \in 0..(b - 1) /\ q \in Nat
  BY DivMod
<1>2. c = b * q + (c % b) /\ c % b \in 0..(b - 1)
  BY DivMod
<1>4. q \in Nat /\ b * q <= c /\ c < b * q + b /\ b * q <= a /\ a < b * q + b
  BY <1>2, <1>3
<1> HIDE DEF q
<1>5. CASE u <= q
  <2>1. b * u <= b * q
    BY <1>1, <1>4, <1>5
  <2> QED BY <2>1, <1>1, <1>4
<1>6. CASE q + 1 <= u
  <2>1. b * (q + 1) <= b * u /\ b * (q + 1) = b * q + b
    BY <1>1, <1>4, <1>6
  <2> QED BY <2>1, <1>1, <1>4
<1> QED BY <1>1, <1>4, <1>5, <1>6

-----------------------------------------------------------------------------
(* The invariants. *)
Steps == {"start", "sdp", "erase", "delay", "load", "tblc", "poll", "readback",
          "advance", "settle", "erasing", "check", "done"}

CommandType ==
  /\ <<family, task>> \in Tasks
  /\ request \in Requests /\ skip \in BOOLEAN /\ job \in Blocks /\ fault \in Faults
  /\ before \in [Cells -> Datum]

DriverType ==
  /\ step \in Steps /\ at \in 0..(Length - 1) /\ first \in 0..at /\ seen \in {0, 1}
  /\ verdict \in {"none", "ok", "error"}

CycleType ==
  /\ locked \in BOOLEAN /\ memory \in [Cells -> Datum]
  /\ status \in {"ready", "window", "busy", "erasing"}
  /\ DOMAIN loaded \subseteq Cells /\ loaded \in [DOMAIN loaded -> Datum] /\ last \in Datum
  /\ protect \in {"keep", "lock", "unlock"} /\ glitched \in BOOLEAN

(* The types. *)
PageTypeInv == CommandType /\ DriverType /\ CycleType /\ blind \in BOOLEAN

\* A NOR write from address 0 erases the part (flash_nor_unlock_write_init).
EraseFirst == family = "nor" /\ job.at = 0 /\ ~skip
Erases == task = "erase" \/ (task = "write" /\ EraseFirst)
Writing == {"load", "tblc", "poll", "readback", "advance"}

(* Which driver, and which command, can be at which step. *)
PlaceInv ==
  /\ verdict = "none" <=> step # "done"
  /\ step \notin Writing => at = 0 /\ first = 0
  /\ step \in {"sdp", "delay", "readback"} => family = "28c"
  /\ step = "sdp" => task # "lock"
  /\ step = "delay" => task \in {"lock", "erase"}
  /\ step = "erase" => Erases
  /\ step \in {"settle", "erasing", "check"} => Erases /\ family # "28c"
  /\ step \in Writing => task = "write" /\ (family = "5v" => ~Refused5v)
  /\ step = "tblc" => family = "5v"
  /\ skip => task = "write" /\ family # "5v"
  /\ ~Erases => step # "erase" /\ status # "erasing"

\* The driver's page, after whose bytes it lets the part program.
Size == IF family = "28c" THEN PageMask28c ELSE IF family = "5v" THEN request ELSE 1
Cut(k) == (job.at + k + 1) % Size = 0

\* No byte of f..a-1 ends a page; byte `at` ends one, or the block.
NoCut(f, a) == \A k \in f..(a - 1) : ~Cut(k)
Ends == Cut(at) \/ at + 1 = Length

(* first..at is a stretch of one page of the driver. *)
ChunkInv ==
  /\ step \in {"load", "tblc", "poll"} => NoCut(first, at)
  /\ step \in {"tblc", "poll"} => Ends
  /\ step = "advance" /\ family # "28c" => Ends
  /\ step \in Writing /\ family = "5v" => (job.at + first) % DevicePage = 0
  /\ step \in Writing /\ family = "nor" => at = first
  /\ step = "readback" => WindowEnd \in first..(Length - 1) /\ at <= WindowEnd

IsOfBlock == \A c \in DOMAIN loaded : c \in Written /\ loaded[c] = job.bytes[c - job.at + 1]
IsOfPage == \A c \in DOMAIN loaded : Page(c) = Page(Address)

(* The part holds nothing between cycles, and in a write bytes of the block only, of one
   page while it is being loaded. *)
LoadedInv ==
  /\ status = "ready" => DOMAIN loaded = {} /\ protect = "keep"
  /\ status = "window" => family # "nor"
  /\ task = "write" =>
     /\ IsOfBlock
     /\ status = "window" => DOMAIN loaded # {} /\ step \in {"load", "tblc", "poll", "done"}
     /\ status = "window" /\ step = "load" => first < at /\ IsOfPage
     /\ status = "window" /\ step = "poll" =>
          family = "28c" /\ last = Wanted /\ seen = 0

BaseInv == PageTypeInv /\ PlaceInv /\ ChunkInv /\ LoadedInv

\* Waits end when cycles do: neither a stuck part nor, in a write, a hasty one.
Timely == fault # "stuck" /\ (fault = "hasty" => task # "write")
Doubtful == status # "ready" => last = Wanted /\ (seen = 1 => glitched)

(* Where each driver takes the part to be at rest; while a cycle runs the two matches that
   would be believed are beyond the one wrong read of it (Doubtful). *)
TimelyInv ==
  Timely =>
    /\ step \in {"start", "erase", "readback", "advance", "check", "done"} => status = "ready"
    /\ step = "load" => status \in {"ready", "window"}
    /\ step = "poll" => Doubtful
    /\ step = "tblc" /\ status # "ready" => last = Wanted /\ seen = 0
    /\ step \in {"tblc", "poll"} => status # "erasing"
    /\ step = "erasing" /\ family = "5v" => status = "ready"
    /\ ~blind

\* A NOR part's erase is waited for, whatever its fault.
NorEraseInv ==
  family = "nor" =>
    /\ step \in {"start", "erase", "check"} => status = "ready"
    /\ step \in {"start", "erase", "settle"} => seen = 0
    /\ step \in {"settle", "erasing"} /\ status # "ready" =>
         last = Blank /\ status = "erasing" /\ (seen = 1 => glitched)
    /\ task = "erase" /\ step = "done" /\ verdict = "ok" => status = "ready"

RestInv == TimelyInv /\ NorEraseInv

FromFirst == \A c \in DOMAIN loaded : c >= job.at + first
Upto(k) == \A c \in Written : c < job.at + k => Holds(c)

\* What has been read back is there, as long as no read met a part at work.
ReadBackInv ==
  family = "28c" /\ task = "write" /\ ~blind =>
    /\ FromFirst
    /\ step \in {"load", "poll"} => Upto(first)
    /\ step = "readback" => Upto(at) /\ (first < at => status = "ready")
    /\ step = "advance" => Upto(at + 1) /\ status = "ready"
    /\ verdict = "ok" => Upto(Length) /\ status = "ready"

\* An erase that is waited for has been made.
EraseDone ==
  \A a \in Cells : family # "nor" \/ job.at = 0 \/ Page(a) = Page(job.at) => memory[a] = Blank

EraseInv ==
  /\ step = "start" => memory = before /\ status = "ready"
  /\ fault = "none" /\ step \in {"settle", "erasing"} /\ status # "erasing" =>
       status = "ready" /\ EraseDone
  /\ fault = "none" /\ step = "check" => EraseDone
  /\ task = "erase" /\ family # "28c" /\ (family = "nor" \/ fault # "stuck")
     /\ verdict = "ok" =>
       memory[EraseAddress] = Blank /\ status = "ready"

\* The SDP commands and the erase on a sound 28C part.
SdpInv ==
  family = "28c" /\ fault = "none" =>
    /\ task \in {"lock", "unlock"} => memory = before
    /\ step = "sdp" => IF status = "ready" THEN ~locked ELSE status = "busy"
       /\ protect = "unlock"
    /\ task # "write" => DOMAIN loaded = {}
    /\ step = "erase" => ~locked
    /\ step = "delay" /\ task = "erase" /\ status # "ready" => status = "erasing"
    /\ step \in {"delay", "done"} /\ task = "erase" /\ status = "ready" =>
         \A a \in Cells : memory[a] = Blank
    /\ step = "delay" /\ task = "lock" =>
         IF status = "ready" THEN locked ELSE status # "erasing" /\ protect = "lock"
    /\ step = "done" /\ task \in {"lock", "unlock"} => locked = (task = "lock")
    /\ step \in Writing => protect = "keep" /\ (locked => skip)

\* NOR flash can take a byte where it is blank.
AheadBlank(k) == \A c \in Written : job.at + k <= c => memory[c] = Blank

BlankInv ==
  Sound /\ family = "nor" =>
    /\ step = "load" => AheadBlank(at)
    /\ step = "advance" => AheadBlank(at + 1)
    /\ step = "poll" => /\ AheadBlank(at + 1) /\ DOMAIN loaded \subseteq {Address}
                        /\ status # "ready" => AheadBlank(at)

\* Whether a sound part takes bytes, and what it has of them.
Taken == Sound /\ task = "write" /\ (family = "28c" => ~locked)
InLoad(k) == \A c \in Written : job.at + first <= c /\ c < job.at + k => c \in DOMAIN loaded

TakenInv ==
  Taken =>
    /\ FromFirst
    /\ step = "load" => /\ Upto(first)
                        /\ IF first < at THEN status = "window" /\ InLoad(at)
                           ELSE status = "ready"
    /\ step \in {"tblc", "poll"} =>
         Upto(first) /\ IF status = "ready" THEN Upto(at + 1) ELSE InLoad(at + 1)
    /\ step = "readback" => Upto(WindowEnd + 1)
    /\ step = "advance" => Upto(at + 1)
    /\ verdict = "ok" => Upto(Length)

ErrorInv ==
  Sound /\ verdict = "error" =>
    \/ family = "5v" /\ Refused5v
    \/ family = "28c" /\ locked /\ skip

-----------------------------------------------------------------------------
(* The data of a command, and what a byte, a sequence and a read do. *)
LEMMA PageConstants ==
  /\ DevicePage \in Nat \ {0} /\ Fallback \in Nat \ {0} /\ DevicePage % Fallback = 0
  /\ Top \in Nat /\ Blank \in Datum /\ High \subseteq Datum
  /\ (CHOOSE b \in Datum : b \notin High) \in Datum
  /\ \A r \in Requests : r = DevicePage \/ r \notin 1..MaxPage
BY PageAssumption DEF PageAssumption

LEMMA BlockFacts ==
  ASSUME NEW j \in Blocks
  PROVE  /\ j.at \in Nat /\ Len(j.bytes) \in Nat \ {0} /\ j.at + Len(j.bytes) <= Top + 1
         /\ \A k \in 1..Len(j.bytes) : j.bytes[k] \in Datum
<1>1. j.at \in Nat /\ j.bytes \in Seq(Datum) /\ j.bytes # <<>> /\ j.at + Len(j.bytes) <= Top + 1
  BY PageAssumption DEF PageAssumption
<1>2. Len(j.bytes) \in Nat /\ \A k \in 1..Len(j.bytes) : j.bytes[k] \in Datum
  BY <1>1
<1>3. Len(j.bytes) # 0
  BY <1>1
<1> QED BY <1>1, <1>2, <1>3

LEMMA PlaceFacts ==
  ASSUME PageTypeInv
  PROVE  /\ job.at \in Nat /\ Length \in Nat \ {0} /\ at \in Nat /\ first \in Nat
         /\ first <= at /\ at < Length
         /\ Address \in Nat /\ Address \in Cells /\ Address \in Written
            /\ Written \subseteq Cells
         /\ Wanted \in Datum /\ Wanted = job.bytes[Address - job.at + 1]
         /\ \A c \in Written : job.bytes[c - job.at + 1] \in Datum
         /\ job.at \in Cells /\ 0 \in Cells
<1>1. /\ job.at \in Nat /\ Length \in Nat \ {0} /\ job.at + Length <= Top + 1
      /\ \A k \in 1..Length : job.bytes[k] \in Datum
  BY BlockFacts DEF PageTypeInv, CommandType, Length
<1>2. at \in 0..(Length - 1) /\ first \in 0..at /\ Top \in Nat
  BY PageConstants DEF PageTypeInv, DriverType
<1>3. at \in Nat /\ first \in Nat /\ first <= at /\ at < Length
  BY <1>1, <1>2
<1>4. Address \in Nat /\ Address \in Cells /\ Address \in Written /\ Written \subseteq Cells
      /\ job.at \in Cells /\ 0 \in Cells /\ Address - job.at = at
  BY <1>1, <1>2, <1>3 DEF Address, Cells, Written
<1>5. \A c \in Written : c - job.at + 1 \in 1..Length
  BY <1>1 DEF Written
<1> QED BY <1>1, <1>3, <1>4, <1>5 DEF Wanted

(* What the drivers take for the part's page divides it. *)
LEMMA MaskFacts ==
  ASSUME PageTypeInv
  PROVE  /\ PageMask28c \in Nat \ {0} /\ DevicePage % PageMask28c = 0
         /\ ValidPage => request = DevicePage
<1>1. ValidPage => request = DevicePage
  BY PageConstants DEF ValidPage, PageTypeInv, CommandType
<1>2. DevicePage % DevicePage = 0
  BY PageConstants
<1> QED BY <1>1, <1>2, PageConstants DEF PageMask28c

LEMMA SizeFacts ==
  ASSUME PageTypeInv, family = "5v" => ~Refused5v
  PROVE  Size \in Nat \ {0} /\ DevicePage % Size = 0 /\ (family = "5v" => Size = DevicePage)
<1>1. family = "5v" => request = DevicePage
  BY MaskFacts DEF Refused5v
<1>2. DevicePage % DevicePage = 0 /\ DevicePage % 1 = 0
  BY PageConstants
<1> QED BY <1>1, <1>2, MaskFacts, PageConstants DEF Size

(* A byte meets the part in one of three ways. *)
Puts(S) ==
  /\ DOMAIN loaded' = S \cup {Address} /\ loaded' \in [S \cup {Address} -> Datum]
  /\ loaded'[Address] = Wanted /\ last' = Wanted
  /\ \A c \in S : c # Address => loaded'[c] = loaded[c]

Opens(p) ==
  /\ \/ status = "ready" /\ Takes(p)
     \/ status = "window" /\ p
  /\ Puts({}) /\ status' = IF family = "nor" THEN "busy" ELSE "window"

Joins(p) == status = "window" /\ ~p /\ Puts(DOMAIN loaded) /\ status' = "window"

Lost(p) ==
  /\ status # "window" /\ ~(status = "ready" /\ Takes(p))
  /\ UNCHANGED <<loaded, last, status>>

Widened(g, f, a, b, S) ==
  /\ DOMAIN g = DOMAIN f \cup {a} /\ g \in [DOMAIN f \cup {a} -> S]
  /\ g[a] = b /\ \A c \in DOMAIN f : c # a => g[c] = f[c]

LEMMA WithFacts ==
  ASSUME NEW S, NEW f, f \in [DOMAIN f -> S], NEW a, NEW b \in S
  PROVE  Widened(With(f, a, b), f, a, b, S)
BY DEF With, Widened

LEMMA LoadFacts ==
  ASSUME BaseInv, step = "load", NEW p \in BOOLEAN, Load(Address, Wanted, p)
  PROVE  /\ Opens(p) \/ Joins(p) \/ Lost(p)
         /\ UNCHANGED <<locked, memory, protect, glitched>>
<1>1. Address \in Nat /\ Address \in Cells /\ Wanted \in Datum
  BY PlaceFacts DEF BaseInv
<1>2. CASE Begins(p)
  <2>1. /\ loaded' = With(Nothing, Address, Wanted) /\ last' = Wanted
        /\ status' = IF family = "nor" THEN "busy" ELSE "window"
    BY <1>2 DEF Load
  <2>2. status = "window" => loaded # Nothing
    BY DEF BaseInv, LoadedInv, PlaceInv, Writing, Nothing
  <2>3. DOMAIN Nothing = {} /\ Nothing \in [{} -> Datum]
    BY DEF Nothing
  <2>5. Puts({})
    <3>2. Widened(With(Nothing, Address, Wanted), Nothing, Address, Wanted, Datum)
      BY <1>1, <2>3, WithFacts
    <3>1. /\ DOMAIN loaded' = {} \cup {Address}
          /\ loaded' \in [{} \cup {Address} -> Datum] /\ loaded'[Address] = Wanted
      BY <2>1, <2>3, <3>2 DEF Widened
    <3> QED BY <2>1, <3>1 DEF Puts
  <2> QED BY <1>2, <2>1, <2>2, <2>5 DEF Begins, Opens, Load
<1>3. CASE ~Begins(p) /\ status = "window"
  <2>1. loaded' = With(loaded, InPage(Address), Wanted) /\ last' = Wanted /\ status' = status
    BY <1>3 DEF Load
  <2>2. /\ DOMAIN loaded # {} /\ DOMAIN loaded \subseteq Cells
        /\ \A c \in DOMAIN loaded : Page(c) = Page(Address)
    BY <1>3 DEF BaseInv, LoadedInv, PlaceInv, Writing, PageTypeInv, CycleType, IsOfPage
  <2> DEFINE some == CHOOSE c \in DOMAIN loaded : TRUE
  <2>3. some \in DOMAIN loaded
    BY <2>2
  <2>4. some \in Nat /\ Page(some) = Page(Address)
    BY <2>2, <2>3, PageConstants DEF Cells
  <2> HIDE DEF some
  <2>5. DevicePage * Page(some) + (Address % DevicePage) = Address
    BY <1>1, <2>4, InItsPage, PageConstants DEF Page
  <2>6. InPage(Address) = Address
    BY <2>5 DEF InPage, some
  <2>7. loaded \in [DOMAIN loaded -> Datum]
    BY DEF BaseInv, PageTypeInv, CycleType
  <2>8. Puts(DOMAIN loaded)
    <3>1. Widened(With(loaded, Address, Wanted), loaded, Address, Wanted, Datum)
      BY <1>1, <2>7, WithFacts
    <3>2. loaded' = With(loaded, Address, Wanted)
      BY <2>1, <2>6
    <3>3. /\ DOMAIN loaded' = DOMAIN loaded \cup {Address}
          /\ loaded' \in [DOMAIN loaded \cup {Address} -> Datum] /\ loaded'[Address] = Wanted
          /\ \A c \in DOMAIN loaded : c # Address => loaded'[c] = loaded[c]
      BY <3>1, <3>2 DEF Widened
    <3> QED BY <2>1, <3>3 DEF Puts
  <2> QED BY <1>3, <2>1, <2>8 DEF Joins, Begins, Load
<1>4. CASE ~Begins(p) /\ status # "window"
  BY <1>4 DEF Load, Lost, Begins
<1> QED BY <1>2, <1>3, <1>4 DEF Load

LEMMA SequenceFacts ==
  ASSUME PageTypeInv, NEW kind \in {"erase", "lock", "unlock"}, Sequence(kind)
  PROVE  /\ Ignored(kind) => Same
         /\ ~Ignored(kind) =>
              /\ status = "ready"
              /\ status' = (CASE kind = "erase" -> "erasing" [] kind = "lock" -> "window"
                              [] kind = "unlock" -> "busy")
              /\ protect' = (IF kind = "erase" THEN "keep" ELSE kind)
              /\ DOMAIN loaded' = {} /\ loaded' \in [DOMAIN loaded' -> Datum]
              /\ last' \in Datum /\ (kind # "unlock" => last' = Blank)
              /\ UNCHANGED <<locked, memory, glitched>>
<1>1. DOMAIN Nothing = {} /\ Nothing \in [DOMAIN Nothing -> Datum]
  BY DEF Nothing
<1> QED BY <1>1, PageConstants DEF Sequence, Ignored

LEMMA MemoryType ==
  ASSUME CycleType
  PROVE  Programmed \in [Cells -> Datum] /\ AfterErase \in [Cells -> Datum]
<1>1. memory \in [Cells -> Datum] /\ DOMAIN loaded \subseteq Cells
      /\ \A a \in DOMAIN loaded : loaded[a] \in Datum
  BY DEF CycleType
<1> QED BY <1>1, PageConstants DEF Programmed, AfterErase

(* Where eeprom28c_verify_page_readback ends. *)
EndOf(f, j, s, l) == CHOOSE n \in f..(l - 1) :
  /\ (j + n + 1) % s = 0 \/ n + 1 = l
  /\ \A m \in f..(n - 1) : (j + m + 1) % s # 0

IsEnd(f, j, s, l, e) ==
  /\ e \in f..(l - 1)
  /\ (j + e + 1) % s = 0 \/ e + 1 = l
  /\ \A m \in f..(e - 1) : (j + m + 1) % s # 0

LEMMA EndIsUnique ==
  ASSUME NEW f \in Nat, NEW j \in Nat, NEW s \in Nat \ {0}, NEW l \in Nat, NEW e,
         IsEnd(f, j, s, l, e)
  PROVE  EndOf(f, j, s, l) = e
<1> USE DEF IsEnd
<1> DEFINE P(n) == /\ (j + n + 1) % s = 0 \/ n + 1 = l
                   /\ \A m \in f..(n - 1) : (j + m + 1) % s # 0
           Found == CHOOSE n \in f..(l - 1) : P(n)
<1>1. P(e)
  OBVIOUS
<1>2. \A n \in f..(l - 1) : P(n) => n = e
  <2> SUFFICES ASSUME NEW n \in f..(l - 1), P(n), n # e PROVE FALSE
    OBVIOUS
  <2>1. CASE n < e
    <3>1. n \in f..(e - 1) /\ n + 1 # l
      BY <2>1
    <3> QED BY <3>1
  <2>2. CASE e < n
    <3>1. e \in f..(n - 1) /\ e + 1 # l
      BY <2>2
    <3> QED BY <3>1
  <2> QED BY <2>1, <2>2
<1>3. EndOf(f, j, s, l) = Found
  BY DEF EndOf
<1> HIDE DEF P
<1>4. Found \in f..(l - 1) /\ P(Found)
  BY <1>1
<1> QED BY <1>2, <1>3, <1>4

LEMMA WindowEndIs == WindowEnd = EndOf(first, job.at, PageMask28c, Length)
BY DEF WindowEnd, EndOf

(* What a step does not change. *)
LEMMA CommandFixed ==
  ASSUME UNCHANGED command
  PROVE  /\ UNCHANGED <<family, task, request, skip, job, fault, before>>
         /\ Length' = Length /\ Written' = Written /\ EraseAddress' = EraseAddress
         /\ PageMask28c' = PageMask28c /\ Size' = Size
         /\ (Refused5v' <=> Refused5v) /\ (EraseFirst' <=> EraseFirst) /\ (Erases' <=> Erases)
         /\ (CommandType => CommandType') /\ (Sound' <=> Sound)
<1>1. UNCHANGED <<family, task, request, skip, job, fault, before>>
  BY DEF command
<1>2. Length' = Length /\ Written' = Written /\ EraseAddress' = EraseAddress
      /\ (EraseFirst' <=> EraseFirst) /\ (Erases' <=> Erases)
  BY <1>1 DEF Length, Written, EraseAddress, EraseFirst, Erases
<1>3. (ValidPage' <=> ValidPage) /\ PageMask28c' = PageMask28c /\ Size' = Size
  BY <1>1 DEF ValidPage, PageMask28c, Size
<1>4. Refused5v' <=> Refused5v
  BY <1>1, <1>2, <1>3 DEF Refused5v
<1>5. CommandType => CommandType'
  BY <1>1 DEF CommandType
<1>6. Sound' <=> Sound
  BY <1>1, <1>2 DEF Sound
<1> QED BY <1>1, <1>2, <1>3, <1>4, <1>5, <1>6

LEMMA DriverFixed ==
  ASSUME UNCHANGED command, UNCHANGED driver
  PROVE  /\ UNCHANGED <<step, at, first, seen, verdict>> /\ Address' = Address
         /\ Wanted' = Wanted /\ WindowEnd' = WindowEnd
         /\ (Ends' <=> Ends) /\ (NoCut(first, at)' <=> NoCut(first, at))
         /\ (DriverType => DriverType')
<1>1. UNCHANGED <<step, at, first, seen, verdict>>
  BY DEF driver
<1>2. /\ Length' = Length /\ Size' = Size /\ PageMask28c' = PageMask28c
      /\ UNCHANGED <<family, task, request, skip, job, fault, before>>
  BY CommandFixed
<1>3. Address' = Address /\ Wanted' = Wanted
  BY <1>1, <1>2 DEF Address, Wanted
<1>4. WindowEnd' = EndOf(first', job'.at, PageMask28c', Length')
  BY DEF WindowEnd, EndOf
<1>5. WindowEnd' = WindowEnd
  BY <1>1, <1>2, <1>4, WindowEndIs
<1> QED BY <1>1, <1>2, <1>3, <1>5 DEF Ends, NoCut, Cut, DriverType

(* The part by itself. *)
LEMMA QuietChunk ==
  ASSUME BaseInv, UNCHANGED command, UNCHANGED driver PROVE ChunkInv'
BY CommandFixed, DriverFixed DEF BaseInv, ChunkInv

LEMMA CloseBase ==
  ASSUME BaseInv, WindowCloses, blind' = blind PROVE BaseInv'
<1>1. /\ status = "window" /\ status' = "busy" /\ UNCHANGED command /\ UNCHANGED driver
      /\ UNCHANGED <<locked, memory, loaded, last, protect, glitched>>
  BY DEF WindowCloses, command, driver
<1>2. PageTypeInv'
  BY <1>1, CommandFixed, DriverFixed DEF BaseInv, PageTypeInv, CycleType
<1>3. PlaceInv'
  BY <1>1, CommandFixed, DriverFixed DEF BaseInv, PlaceInv
<1>4. LoadedInv'
  BY <1>1, CommandFixed, DriverFixed DEF BaseInv, LoadedInv, IsOfBlock
<1> QED BY <1>1, <1>2, <1>3, <1>4, QuietChunk DEF BaseInv

LEMMA EndBase ==
  ASSUME BaseInv, CycleEnds, blind' = blind PROVE BaseInv'
<1>1. /\ status' = "ready" /\ UNCHANGED command /\ UNCHANGED driver
      /\ DOMAIN loaded' = {} /\ loaded' \in [DOMAIN loaded' -> Datum] /\ last' \in Datum
      /\ protect' = "keep" /\ glitched' = FALSE /\ locked' \in BOOLEAN
  BY PageConstants, PageAssumption DEF CycleEnds, command, driver, Nothing, BaseInv,
      PageTypeInv, CycleType
<1>2. memory' \in [Cells -> Datum]
  <2>1. Programmed \in [Cells -> Datum] /\ AfterErase \in [Cells -> Datum]
    BY MemoryType DEF BaseInv, PageTypeInv
  <2> DEFINE new == IF status = "erasing" THEN AfterErase ELSE Programmed
  <2>2. new \in [Cells -> Datum]
    BY <2>1
  <2>3. \/ memory' = new
        \/ \E a \in DOMAIN loaded, v \in Datum : memory' = [new EXCEPT ![a] = v]
    BY DEF CycleEnds
  <2> HIDE DEF new
  <2> QED BY <2>2, <2>3
<1>3. PageTypeInv'
  BY <1>1, <1>2, CommandFixed, DriverFixed DEF BaseInv, PageTypeInv, CycleType
<1>4. PlaceInv'
  BY <1>1, CommandFixed, DriverFixed DEF BaseInv, PlaceInv
<1>5. LoadedInv'
  BY <1>1 DEF LoadedInv, IsOfBlock
<1> QED BY <1>1, <1>3, <1>4, <1>5, QuietChunk DEF BaseInv

(* Steps of the driver that leave the part as it is. *)
Still == /\ UNCHANGED <<locked, memory, status, loaded, last, protect>>
         /\ glitched' \in BOOLEAN

LEMMA SameIsStill == ASSUME CycleType, Same PROVE Still /\ glitched' = glitched
BY DEF CycleType, cycle, Still, Same

LEMMA ReadIsStill == ASSUME CycleType, NEW a, NEW b, ReadOf(a, b) PROVE Still
BY DEF CycleType, cycle, Still, ReadOf, Same

LEMMA StillType ==
  ASSUME PageTypeInv, Still, UNCHANGED command, DriverType', blind' \in BOOLEAN
  PROVE  PageTypeInv'
BY CommandFixed DEF PageTypeInv, CycleType, Still

LEMMA StillLoaded ==
  ASSUME LoadedInv, Still, UNCHANGED command, status # "window" \/ task # "write"
  PROVE  LoadedInv'
BY CommandFixed DEF LoadedInv, Still, IsOfBlock

LEMMA NotWindow ==
  ASSUME LoadedInv, step \notin {"load", "tblc", "poll", "done"}
  PROVE  status # "window" \/ task # "write"
BY DEF LoadedInv

(* The page of a write begins at its first byte. *)
LEMMA ToLoad ==
  ASSUME BaseInv, UNCHANGED command, step' = "load", at' = 0, first' = 0, at = 0,
         family = "5v" => ~Refused5v
  PROVE  ChunkInv'
<1>1. NoCut(first, at)'
  BY DEF NoCut
<1>2. UNCHANGED <<family, task, request, skip, job, fault, before>>
  BY CommandFixed
<1>3. family = "5v" => (job.at + 0) % DevicePage = 0
  <2>1. job.at + 0 = job.at
    BY PlaceFacts DEF BaseInv
  <2> QED BY <2>1, MaskFacts DEF Refused5v, BaseInv
<1> QED BY <1>1, <1>2, <1>3 DEF ChunkInv

LEMMA OutOfWrite == ASSUME step' \notin Writing PROVE ChunkInv'
BY DEF ChunkInv, Writing

LEMMA AnswerBase ==
  ASSUME BaseInv, Still, UNCHANGED command, blind' \in BOOLEAN, step # "done",
         NEW v \in {"ok", "error"}, Answer(v), step # "load", step # "tblc"
  PROVE  BaseInv'
<1>1. DriverType'
  <2>1. Length' = Length /\ 0 \in 0..(Length - 1)
    BY PlaceFacts, CommandFixed DEF BaseInv
  <2>2. step' = "done" /\ verdict' = v /\ at' = 0 /\ first' = 0 /\ seen' = 0
    BY DEF Answer
  <2>3. at' \in 0..(Length' - 1) /\ first' \in 0..at'
    BY <2>1, <2>2
  <2> QED BY <2>2, <2>3 DEF DriverType, Steps
<1>2. PlaceInv'
  BY CommandFixed DEF BaseInv, PlaceInv, Answer, Still, Writing
<1>3. LoadedInv'
  BY CommandFixed DEF BaseInv, LoadedInv, Answer, Still, IsOfBlock
<1> QED BY <1>1, <1>2, <1>3, StillType, OutOfWrite DEF BaseInv, Answer, Writing

(* The beginning of a command, and its waits. *)
LEMMA GotoBase ==
  ASSUME BaseInv, Still, UNCHANGED command, blind' \in BOOLEAN,
         step \notin Writing, step # "done",
         NEW s \in Steps \ {"tblc", "poll", "readback", "advance", "done"}, Goto(s),
         s \in {"sdp", "delay"} => family = "28c", s = "sdp" => task # "lock",
         s = "delay" => task \in {"lock", "erase"}, s = "erase" => Erases,
         s \in {"settle", "erasing", "check"} => Erases /\ family # "28c",
         s = "load" => task = "write" /\ (family = "5v" => ~Refused5v)
  PROVE  BaseInv'
<1>0. at = 0 /\ first = 0 /\ step' = s /\ UNCHANGED <<at, first, seen, verdict>>
  BY DEF BaseInv, PlaceInv, Goto
<1>1. DriverType'
  BY <1>0, CommandFixed DEF BaseInv, PageTypeInv, DriverType
<1>2. PlaceInv'
  BY <1>0, CommandFixed DEF BaseInv, PlaceInv, Still, Erases, Writing
<1>3. LoadedInv'
  BY StillLoaded, NotWindow DEF BaseInv, Writing
<1>4. ChunkInv'
  BY <1>0, ToLoad, OutOfWrite DEF Writing, Steps
<1> QED BY <1>1, <1>2, <1>3, <1>4, StillType DEF BaseInv

LEMMA WaitsBase ==
  ASSUME BaseInv, UNCHANGED command, blind' \in BOOLEAN,
         \/ SdpUnlockSkipped \/ SdpWaited \/ Delayed \/ Refuse5v \/ Start5v \/ StartNor
         \/ Settled \/ EraseChecked
  PROVE  BaseInv'
<1>1. CycleType /\ CommandType
  BY DEF BaseInv, PageTypeInv
<1>2. Still
  BY <1>1, SameIsStill DEF SdpUnlockSkipped, SdpWaited, Delayed, Refuse5v, Start5v,
      StartNor, Settled, EraseChecked
<1>3. <<family, task>> \in Tasks
  BY <1>1 DEF CommandType
<1>4. task \in {"write", "erase", "unlock", "lock"} /\ (family # "28c" => task \in {"write",
      "erase"})
      /\ family \in {"28c", "5v", "nor"}
  BY <1>3 DEF Tasks
<1>5. \/ \E v \in {"ok", "error"} : Answer(v) /\ step \in {"start", "sdp", "delay", "check"}
      \/ \E s \in Steps \ {"tblc", "poll", "readback", "advance", "done"} :
            /\ Goto(s) /\ step \notin Writing /\ step # "done"
            /\ s \in {"sdp", "delay"} => family = "28c"
            /\ s = "sdp" => task # "lock"
            /\ s = "delay" => task \in {"lock", "erase"}
            /\ s = "erase" => Erases
            /\ s \in {"settle", "erasing", "check"} => Erases /\ family # "28c"
            /\ s = "load" => task = "write" /\ (family = "5v" => ~Refused5v)
  <2>1. CASE SdpUnlockSkipped
    BY <2>1 DEF SdpUnlockSkipped, Steps, Writing
  <2>2. CASE SdpWaited
    BY <2>2, <1>4 DEF SdpWaited, Steps, Writing, BaseInv, PlaceInv, Erases
  <2>3. CASE Delayed
    BY <2>3 DEF Delayed
  <2>4. CASE Refuse5v
    BY <2>4 DEF Refuse5v
  <2>5. CASE Start5v
    BY <2>5, <1>4 DEF Start5v, Steps, Writing, Erases
  <2>6. CASE StartNor
    BY <2>6, <1>4 DEF StartNor, Steps, Writing, Erases, EraseFirst
  <2>7. CASE Settled
    BY <2>7, <1>4 DEF Settled, Steps, Writing, BaseInv, PlaceInv
  <2>8. CASE EraseChecked
    BY <2>8, <1>4 DEF EraseChecked, Steps, Writing, BaseInv, PlaceInv, Erases, EraseFirst
  <2> QED BY <2>1, <2>2, <2>3, <2>4, <2>5, <2>6, <2>7, <2>8
<1>6. ASSUME NEW v \in {"ok", "error"}, Answer(v), step \in {"start", "sdp", "delay", "check"}
      PROVE  BaseInv'
  BY <1>2, <1>6, AnswerBase
<1> QED BY <1>2, <1>5, <1>6, GotoBase

(* Steps within a page. *)
LEMMA TblcBase ==
  ASSUME BaseInv, UNCHANGED command, blind' \in BOOLEAN, TblcPasses
  PROVE  BaseInv'
<1>1. /\ step = "tblc" /\ status # "window" /\ step' = "poll" /\ task = "write" /\ family = "5v"
      /\ UNCHANGED <<at, first, seen, verdict>>
  BY DEF TblcPasses, Goto, BaseInv, PlaceInv, Writing
<1>2. Still
  BY SameIsStill DEF TblcPasses, BaseInv, PageTypeInv
<1>3. DriverType'
  BY <1>1, CommandFixed DEF BaseInv, PageTypeInv, DriverType, Steps
<1>4. PlaceInv'
  BY <1>1, <1>2, CommandFixed DEF BaseInv, PlaceInv, Writing, Still
<1>5. LoadedInv'
  BY <1>1, <1>2, StillLoaded DEF BaseInv
<1>6. ChunkInv'
  BY <1>1, CommandFixed DEF BaseInv, ChunkInv, Writing, NoCut, Ends, Cut
<1> QED BY <1>2, <1>3, <1>4, <1>5, <1>6, StillType DEF BaseInv

LEMMA WindowFixed ==
  ASSUME UNCHANGED command, first' = first PROVE WindowEnd' = WindowEnd
<1>1. WindowEnd' = EndOf(first', job'.at, PageMask28c', Length')
  BY DEF WindowEnd, EndOf
<1>2. PageMask28c' = PageMask28c /\ Length' = Length /\ job' = job
  BY CommandFixed
<1> QED BY <1>1, <1>2, WindowEndIs

LEMMA ReadbackBase ==
  ASSUME BaseInv, UNCHANGED command, blind' \in BOOLEAN, Readback
  PROVE  BaseInv'
<1>1. /\ step = "readback" /\ family = "28c" /\ task = "write"
      /\ WindowEnd \in first..(Length - 1) /\ at <= WindowEnd
      /\ first \in Nat /\ at \in Nat /\ Length \in Nat /\ first <= at /\ at < Length
  BY PlaceFacts DEF Readback, BaseInv, PlaceInv, Writing, ChunkInv
<1>2. Still
  BY SameIsStill DEF Readback, BaseInv, PageTypeInv
<1>3. CASE Answer("error")
  BY <1>1, <1>2, <1>3, AnswerBase
<1>4. CASE Goto("advance")
  <2>1. step' = "advance" /\ UNCHANGED <<at, first, seen, verdict>>
    BY <1>4 DEF Goto
  <2>2. DriverType' /\ PlaceInv'
    BY <2>1, <1>1, <1>2, CommandFixed DEF BaseInv, PageTypeInv, DriverType, Steps,
        PlaceInv, Writing, Still
  <2>3. ChunkInv'
    BY <2>1, <1>1, CommandFixed DEF ChunkInv
  <2> QED BY <2>2, <2>3, <1>1, <1>2, StillType, StillLoaded, NotWindow DEF BaseInv
<1>5. CASE at # WindowEnd /\ at' = at + 1 /\ UNCHANGED <<step, first, seen, verdict>>
  <2>1. at' \in 0..(Length - 1) /\ first' \in 0..at' /\ at' <= WindowEnd
    BY <1>1, <1>5
  <2>2. DriverType'
    BY <2>1, <1>1, <1>5, CommandFixed DEF BaseInv, PageTypeInv, DriverType
  <2>3. PlaceInv'
    BY <1>1, <1>2, <1>5, CommandFixed DEF BaseInv, PlaceInv, Writing, Still
  <2>4. ChunkInv'
    BY <2>1, <1>1, <1>5, CommandFixed, WindowFixed DEF ChunkInv
  <2> QED BY <2>2, <2>3, <2>4, <1>1, <1>2, StillType, StillLoaded, NotWindow DEF BaseInv
<1> QED BY <1>3, <1>4, <1>5 DEF Readback

LEMMA AdvanceBase ==
  ASSUME BaseInv, UNCHANGED command, blind' \in BOOLEAN, Advance
  PROVE  BaseInv'
<1>1. /\ step = "advance" /\ task = "write" /\ (family = "5v" => ~Refused5v)
      /\ at \in Nat /\ Length \in Nat /\ at < Length /\ job.at \in Nat
  BY PlaceFacts DEF Advance, BaseInv, PlaceInv, Writing
<1>2. Still
  BY SameIsStill DEF Advance, BaseInv, PageTypeInv
<1>3. CASE Answer("ok")
  BY <1>1, <1>2, <1>3, AnswerBase
<1>4. CASE /\ at + 1 # Length /\ step' = "load" /\ at' = at + 1 /\ first' = at + 1
           /\ UNCHANGED <<seen, verdict>>
  <2>1. at' \in 0..(Length - 1) /\ first' \in 0..at'
    BY <1>1, <1>4
  <2>2. DriverType'
    BY <2>1, <1>4, CommandFixed DEF BaseInv, PageTypeInv, DriverType, Steps
  <2>3. PlaceInv'
    BY <1>1, <1>2, <1>4, CommandFixed DEF BaseInv, PlaceInv, Writing, Still
  <2>4. NoCut(first, at)'
    BY <1>1, <1>4 DEF NoCut
  <2>5. family = "5v" => (job.at + (at + 1)) % DevicePage = 0
    <3>1. family = "5v" => Cut(at) /\ Size = DevicePage
      BY <1>1, <1>4, SizeFacts DEF BaseInv, ChunkInv, Ends
    <3>2. job.at + (at + 1) = job.at + at + 1
      BY <1>1
    <3> QED BY <3>1, <3>2 DEF Cut
  <2>6. ChunkInv'
    BY <2>4, <2>5, <1>4, CommandFixed DEF ChunkInv, Writing
  <2> QED BY <2>2, <2>3, <2>6, <1>1, <1>2, StillType, StillLoaded, NotWindow DEF BaseInv
<1> QED BY <1>3, <1>4 DEF Advance

(* A part that has not finished shows the complement of the last byte's DQ7. *)
LEMMA ComplementsDiffer ==
  ASSUME NEW b \in Complements, last \in Datum PROVE b \in Datum
    /\ ~(b \in High <=> last \in High)
BY PageConstants DEF Complements

(* One read of a poll. *)
Believes == seen = 1 /\ Ready
ReadsOn == seen' \in {0, 1} /\ UNCHANGED <<step, at, first, verdict>>

LEMMA PollFacts ==
  ASSUME BaseInv, Poll
  PROVE  /\ Still /\ step \in {"poll", "erasing"}
         /\ Believes \/ ReadsOn
         /\ task = "write" /\ step = "poll" /\ status = "window" => seen' = 0 /\ ReadsOn
<1>1. PICK b \in Datum : /\ ReadOf(Polled, b)
                         /\ IF Matches(b) /\ seen = 1
                            THEN Ready
                            ELSE /\ seen' = (IF Matches(b) THEN 1 ELSE 0)
                                 /\ UNCHANGED <<step, at, first, verdict>>
  BY DEF Poll
<1>2. Still /\ step \in {"poll", "erasing"}
  BY <1>1, ReadIsStill DEF BaseInv, PageTypeInv, Poll, Polling
<1>3. Believes \/ ReadsOn
  BY <1>1 DEF Believes, ReadsOn
<1>4. ASSUME task = "write", step = "poll", status = "window" PROVE seen' = 0 /\ ReadsOn
  <2>1. family = "28c" /\ last = Wanted /\ seen = 0 /\ last \in Datum
    BY <1>4 DEF BaseInv, LoadedInv, PageTypeInv, CycleType
  <2>2. b \in Complements
    BY <1>1, <1>4, <2>1 DEF ReadOf, Busy, Shows
  <2>3. ~Matches(b)
    BY <1>4, <2>1, <2>2, ComplementsDiffer DEF Matches, Expected
  <2> QED BY <1>1, <2>1, <2>3 DEF ReadsOn
<1> QED BY <1>2, <1>3, <1>4

(* The read-back ends where the load did. *)
LEMMA WindowEndIsAt ==
  ASSUME BaseInv, step = "poll", family = "28c" PROVE WindowEnd = at
<1>1. Size = PageMask28c /\ PageMask28c \in Nat \ {0}
  BY MaskFacts DEF Size, BaseInv
<1>2. NoCut(first, at) /\ Ends
  BY DEF BaseInv, ChunkInv
<1>3. /\ at \in first..(Length - 1) /\ first \in Nat /\ job.at \in Nat /\ Length \in Nat
  BY PlaceFacts DEF BaseInv
<1>4. IsEnd(first, job.at, PageMask28c, Length, at)
  BY <1>1, <1>2, <1>3 DEF NoCut, Ends, Cut, IsEnd
<1>5. EndOf(first, job.at, PageMask28c, Length) = at
  BY <1>1, <1>3, <1>4, EndIsUnique
<1> QED BY <1>5, WindowEndIs

LEMMA PollBase ==
  ASSUME BaseInv, UNCHANGED command, blind' \in BOOLEAN, Poll
  PROVE  BaseInv'
<1>1. /\ Still /\ step \in {"poll", "erasing"} /\ (Believes \/ ReadsOn)
      /\ task = "write" /\ step = "poll" /\ status = "window" => seen' = 0 /\ ReadsOn
  BY PollFacts
<1>2. /\ at \in Nat /\ first \in Nat /\ Length \in Nat /\ job.at \in Nat
      /\ at < Length /\ first <= at /\ at \in 0..(Length - 1) /\ first \in 0..at
  BY PlaceFacts DEF BaseInv, PageTypeInv, DriverType
<1>3. CASE ReadsOn
  <2>1. DriverType' /\ PlaceInv'
    BY <1>1, <1>3, CommandFixed DEF ReadsOn, BaseInv, PageTypeInv, DriverType, PlaceInv,
        Writing, Still
  <2>2. ChunkInv'
    BY <1>1, <1>3, CommandFixed DEF ReadsOn, BaseInv, ChunkInv, Writing, NoCut, Ends, Cut
  <2>3. LoadedInv'
    <3>1. status # "window" => LoadedInv'
      BY <1>1, StillLoaded DEF BaseInv
    <3>2. Wanted' = Wanted
      BY <1>3, CommandFixed DEF ReadsOn, Wanted
    <3> QED BY <1>1, <1>3, <3>1, <3>2, CommandFixed DEF BaseInv, LoadedInv, Still, ReadsOn,
        IsOfBlock
  <2> QED BY <2>1, <2>2, <2>3, <1>1, StillType DEF BaseInv
<1>4. CASE Believes /\ step = "erasing"
  <2>2. at = 0 /\ first = 0 /\ Erases /\ family # "28c"
    BY <1>4 DEF BaseInv, PlaceInv, Writing
  <2>1. step' = "check" /\ seen' = 0 /\ UNCHANGED <<at, first, verdict>>
    BY <1>4, <2>2 DEF Believes, Ready
  <2>3. DriverType' /\ PlaceInv'
    BY <1>1, <1>4, <2>1, <2>2, CommandFixed DEF BaseInv, PageTypeInv, DriverType, PlaceInv,
        Writing, Still, Steps, Erases
  <2>4. ChunkInv'
    BY <2>1, OutOfWrite DEF Writing
  <2>5. LoadedInv'
    BY <1>1, <1>4, StillLoaded, NotWindow DEF BaseInv
  <2> QED BY <2>3, <2>4, <2>5, <1>1, StillType DEF BaseInv
<1>5. CASE Believes /\ step = "poll" /\ family # "28c"
  <2>1. step' = "advance" /\ seen' = 0 /\ UNCHANGED <<at, first, verdict>>
    BY <1>5 DEF Believes, Ready
  <2>2. task = "write" /\ status # "window" /\ (family = "5v" => ~Refused5v)
    BY <1>5 DEF BaseInv, PlaceInv, Writing, LoadedInv
  <2>3. DriverType' /\ PlaceInv'
    BY <1>1, <1>5, <2>1, <2>2, CommandFixed DEF BaseInv, PageTypeInv, DriverType, PlaceInv,
        Writing, Still, Steps
  <2>4. ChunkInv'
    BY <1>5, <2>1, CommandFixed DEF BaseInv, ChunkInv, Writing, Ends, Cut
  <2>5. LoadedInv'
    BY <1>1, <2>2, StillLoaded DEF BaseInv
  <2> QED BY <2>3, <2>4, <2>5, <1>1, StillType DEF BaseInv
<1>6. CASE Believes /\ step = "poll" /\ family = "28c"
  <2>1. step' = "readback" /\ seen' = 0 /\ at' = first /\ UNCHANGED <<first, verdict>>
    BY <1>6 DEF Believes, Ready
  <2>2. task = "write" /\ status # "window"
    BY <1>6, <1>1 DEF BaseInv, PlaceInv, Writing, LoadedInv, Believes
  <2>3. DriverType'
    <3>1. at' \in 0..(Length - 1) /\ first' \in 0..at'
      BY <1>2, <2>1
    <3> QED BY <2>1, <3>1, CommandFixed DEF BaseInv, PageTypeInv, DriverType, Steps
  <2>4. PlaceInv'
    BY <1>1, <1>6, <2>1, <2>2, CommandFixed DEF BaseInv, PlaceInv, Writing, Still
  <2>5. WindowEnd = at
    BY <1>6, WindowEndIsAt
  <2>6. ChunkInv'
    <3>1. at \in first..(Length - 1)
      BY <1>2
    <3> QED BY <1>2, <1>6, <2>1, <2>5, <3>1, WindowFixed, CommandFixed DEF ChunkInv
  <2>7. LoadedInv'
    BY <1>1, <2>2, StillLoaded DEF BaseInv
  <2> QED BY <2>3, <2>4, <2>6, <2>7, <1>1, StillType DEF BaseInv
<1> QED BY <1>1, <1>3, <1>4, <1>5, <1>6

LEMMA TimeoutBase ==
  ASSUME BaseInv, UNCHANGED command, blind' \in BOOLEAN, PollTimesOut
  PROVE  BaseInv'
<1>1. Still
  BY SameIsStill DEF PollTimesOut, BaseInv, PageTypeInv
<1> QED BY <1>1, AnswerBase DEF PollTimesOut, Polling

(* Command sequences. *)
Quiet == blind' \in BOOLEAN /\ UNCHANGED command

LEMMA SequenceBase ==
  ASSUME BaseInv, Quiet, NEW kind \in {"erase", "lock", "unlock"}, Sequence(kind),
         step \in {"start", "erase"}, NEW s \in {"sdp", "delay", "settle", "erasing"}, Goto(s),
         kind = "unlock" => s = "sdp" /\ task # "lock" /\ family = "28c",
         kind = "lock" => s = "delay" /\ task = "lock" /\ family = "28c",
         kind = "erase" => IF family = "28c" THEN s = "delay" /\ task = "erase"
                           ELSE s \in {"settle", "erasing"} /\ Erases
  PROVE  BaseInv'
<1>1. UNCHANGED command /\ blind' \in BOOLEAN
  BY DEF Quiet
<1>2. CASE Ignored(kind)
  <2>1. Same
    BY <1>2, SequenceFacts DEF BaseInv
  <2>2. Still
    BY <2>1, SameIsStill DEF BaseInv, PageTypeInv
  <2>3. s = "delay" => task \in {"lock", "erase"}
    OBVIOUS
  <2> QED BY <1>1, <2>2, <2>3, GotoBase DEF Steps, Writing
<1>3. CASE ~Ignored(kind)
  <2>1. /\ status' = (CASE kind = "erase" -> "erasing" [] kind = "lock" -> "window"
                        [] kind = "unlock" -> "busy")
        /\ protect' = (IF kind = "erase" THEN "keep" ELSE kind)
        /\ DOMAIN loaded' = {} /\ loaded' \in [DOMAIN loaded' -> Datum]
        /\ last' \in Datum /\ UNCHANGED <<locked, memory, glitched>>
    BY <1>3, SequenceFacts DEF BaseInv
  <2>2. /\ step' = s /\ UNCHANGED <<at, first, seen, verdict>> /\ at = 0 /\ first = 0
        /\ UNCHANGED <<family, task, skip>>
    BY <1>1, CommandFixed DEF Goto, BaseInv, PlaceInv, Writing
  <2>3. CycleType'
    BY <2>1 DEF CycleType, BaseInv, PageTypeInv
  <2>4. DriverType' /\ CommandType'
    BY <1>1, <2>2, CommandFixed DEF DriverType, BaseInv, PageTypeInv, Steps
  <2>5. PlaceInv'
    BY <1>1, <2>1, <2>2, CommandFixed DEF PlaceInv, BaseInv, Writing, Erases
  <2>6. ChunkInv'
    BY <2>2, OutOfWrite DEF Writing
  <2>7. LoadedInv'
    BY <2>1, <2>2 DEF LoadedInv, IsOfBlock
  <2> QED BY <1>1, <2>3, <2>4, <2>5, <2>6, <2>7 DEF BaseInv, PageTypeInv
<1> QED BY <1>2, <1>3

(* The bytes of a page. *)
LEMMA LoadBase ==
  ASSUME BaseInv, Quiet, step = "load", NEW p \in BOOLEAN, Load(Address, Wanted, p),
         NEW next \in {"tblc", "poll"}, NEW ends \in BOOLEAN, Loaded(ends, next),
         ends <=> Ends \/ family = "nor",
         next = IF family = "5v" THEN "tblc" ELSE "poll"
  PROVE  BaseInv'
<1>1. UNCHANGED command /\ blind' \in BOOLEAN
      /\ UNCHANGED <<family, task, skip, job>> /\ Length' = Length /\ Written' = Written
  BY CommandFixed DEF Quiet
<1>2. /\ Opens(p) \/ Joins(p) \/ Lost(p)
      /\ UNCHANGED <<locked, memory, protect, glitched>>
  BY LoadFacts
<1>3. /\ task = "write" /\ (family = "5v" => ~Refused5v) /\ family \in {"28c", "5v", "nor"}
      /\ UNCHANGED <<first, verdict>> /\ seen' = 0
  BY DEF BaseInv, PlaceInv, Writing, Loaded, PageTypeInv, CommandType, Tasks
<1>4. /\ job.at \in Nat /\ Length \in Nat \ {0} /\ at \in Nat /\ first \in Nat
      /\ first <= at /\ at < Length
      /\ Address \in Nat /\ Address \in Cells /\ Address \in Written /\ Wanted \in Datum
      /\ Wanted = job.bytes[Address - job.at + 1]
  BY PlaceFacts DEF BaseInv
<1>5. CycleType'
  <2>1. CASE Opens(p)
    BY <1>2, <1>4, <2>1 DEF Opens, Puts, CycleType, BaseInv, PageTypeInv
  <2>2. CASE Joins(p)
    BY <1>2, <1>4, <2>2 DEF Joins, Puts, CycleType, BaseInv, PageTypeInv
  <2>3. CASE Lost(p)
    BY <1>2, <2>3 DEF Lost, CycleType, BaseInv, PageTypeInv
  <2> QED BY <1>2, <2>1, <2>2, <2>3
<1>6. ASSUME ends PROVE step' = next /\ at' = at /\ DriverType' /\ ChunkInv'
  <2>1. step' = next /\ at' = at
    BY <1>6 DEF Loaded
  <2>2. DriverType'
    BY <1>1, <1>3, <2>1 DEF BaseInv, PageTypeInv, DriverType, Steps
  <2>3. NoCut(first, at) /\ Ends
    <3>1. family = "nor" => Ends
      <4>1. family = "nor" => Size = 1
        BY DEF Size
      <4>2. (job.at + at + 1) % 1 = 0
        BY <1>4
      <4> QED BY <4>1, <4>2 DEF Ends, Cut
    <3> QED BY <1>6, <3>1 DEF BaseInv, ChunkInv
  <2>4. ChunkInv'
    BY <1>1, <1>3, <2>1, <2>3, CommandFixed DEF BaseInv, ChunkInv, Writing, NoCut, Ends,
        Cut
  <2> QED BY <2>1, <2>2, <2>4
<1>7. ASSUME ~ends
      PROVE  /\ step' = "load" /\ at' = at + 1 /\ ~Ends /\ family # "nor"
             /\ DriverType' /\ ChunkInv'
  <2>1. step' = "load" /\ at' = at + 1 /\ ~Ends /\ family # "nor"
    BY <1>7 DEF Loaded
  <2>2. at' \in 0..(Length - 1) /\ first' \in 0..at'
    BY <1>3, <1>4, <2>1 DEF Ends
  <2>3. DriverType'
    BY <1>1, <1>3, <2>1, <2>2 DEF BaseInv, PageTypeInv, DriverType, Steps
  <2>4. NoCut(first, at + 1)
    <3>1. NoCut(first, at) /\ ~Cut(at)
      BY <2>1 DEF BaseInv, ChunkInv, Ends
    <3>2. \A k \in first..((at + 1) - 1) : k \in first..(at - 1) \/ k = at
      BY <1>4
    <3> QED BY <3>1, <3>2 DEF NoCut
  <2>5. ChunkInv'
    BY <1>1, <1>3, <2>1, <2>4, CommandFixed DEF BaseInv, ChunkInv, Writing, NoCut, Cut
  <2> QED BY <2>1, <2>3, <2>5
<1>8. DriverType' /\ ChunkInv' /\ step' \in {"load", "tblc", "poll"}
  BY <1>6, <1>7
<1>9. PlaceInv'
  <2>1. step' \in {"load", next} /\ (status' = "erasing" => status = "erasing")
    BY <1>2, <1>3 DEF Loaded, Opens, Joins, Lost, BaseInv, PlaceInv, LoadedInv
  <2> QED BY <1>1, <1>3, <2>1, CommandFixed DEF PlaceInv, BaseInv, Writing
<1>10. IsOfBlock'
  <2>1. CASE Opens(p)
    BY <1>1, <1>4, <2>1 DEF Opens, Puts, IsOfBlock
  <2>2. CASE Joins(p)
    <3>1. IsOfBlock
      BY <1>3 DEF BaseInv, LoadedInv
    <3> QED BY <1>1, <1>4, <2>2, <3>1 DEF Joins, Puts, IsOfBlock
  <2>3. CASE Lost(p)
    <3>1. IsOfBlock
      BY <1>3 DEF BaseInv, LoadedInv
    <3> QED BY <1>1, <2>3, <3>1 DEF Lost, IsOfBlock
  <2> QED BY <1>2, <2>1, <2>2, <2>3
<1>11. ASSUME status' = "window"
       PROVE  /\ family # "nor" /\ DOMAIN loaded' # {} /\ last' = Wanted
              /\ \A c \in DOMAIN loaded' : Page(c) = Page(Address)
  <2>1. CASE Opens(p)
    BY <1>11, <2>1 DEF Opens, Puts
  <2>2. CASE Joins(p)
    <3>1. family # "nor" /\ IsOfPage
      BY <1>3, <2>2 DEF Joins, BaseInv, LoadedInv
    <3> QED BY <2>2, <3>1 DEF Joins, Puts, IsOfPage
  <2>3. CASE Lost(p)
    BY <1>11, <2>3 DEF Lost
  <2> QED BY <1>2, <2>1, <2>2, <2>3
<1>12. status' = "ready" => DOMAIN loaded' = {} /\ protect' = "keep"
  <2>1. (~Opens(p) /\ ~Joins(p)) \/ status' # "ready"
    BY DEF Opens, Joins
  <2> QED BY <1>2, <2>1 DEF Lost, BaseInv, LoadedInv
<1>13. status' = "window" /\ step' = "load" => first' < at' /\ IsOfPage'
  <2> SUFFICES ASSUME status' = "window", step' = "load" PROVE first' < at' /\ IsOfPage'
    OBVIOUS
  <2>1. ~ends
    BY <1>6
  <2>2. at' = at + 1 /\ ~Ends
    BY <1>7, <2>1
  <2>3. Address' = Address + 1 /\ first' < at'
    BY <1>1, <1>3, <1>4, <2>2 DEF Address
  <2>4. (Address + 1) % Size # 0
    BY <2>2 DEF Ends, Cut, Address
  <2>5. Page(Address + 1) = Page(Address)
    BY <1>3, <1>4, <2>4, SizeFacts, SamePage, PageConstants DEF Page, BaseInv
  <2>6. \A c \in DOMAIN loaded' : Page(c) = Page(Address')
    BY <1>11, <2>3, <2>5
  <2> QED BY <2>3, <2>6 DEF IsOfPage, Page
<1>14. status' = "window" /\ step' = "poll" => family = "28c" /\ last' = Wanted' /\ seen' = 0
  <2> SUFFICES ASSUME status' = "window", step' = "poll"
               PROVE  family = "28c" /\ last' = Wanted' /\ seen' = 0
    OBVIOUS
  <2>1. at' = at /\ next = "poll"
    BY <1>6, <1>7
  <2>2. Wanted' = Wanted
    BY <1>1, <2>1 DEF Wanted
  <2> QED BY <1>3, <1>11, <2>1, <2>2
<1>15. LoadedInv'
  BY <1>1, <1>8, <1>10, <1>11, <1>12, <1>13, <1>14 DEF LoadedInv
<1> QED BY <1>1, <1>5, <1>8, <1>9, <1>15, CommandFixed DEF BaseInv, PageTypeInv

LEMMA SendsBase == ASSUME BaseInv, Quiet, Sends PROVE BaseInv'
<1>1. family \in {"28c", "5v", "nor"} /\ (family # "28c" => task \in {"write", "erase"})
  BY DEF BaseInv, PageTypeInv, CommandType, Tasks
<1>2. CASE SdpUnlock
  BY <1>2, SequenceBase DEF SdpUnlock
<1>3. CASE SdpLock
  BY <1>1, <1>3, SequenceBase DEF SdpLock
<1>4. CASE Erase28c
  BY <1>4, SequenceBase DEF Erase28c, BaseInv, PlaceInv, Erases, EraseFirst
<1>5. CASE EraseFlash
  BY <1>5, SequenceBase DEF EraseFlash, BaseInv, PlaceInv
<1>6. CASE Load28c
  <2>1. EndsLoad(PageMask28c) <=> Ends
    BY <1>6 DEF Load28c, EndsLoad, Ends, Cut, Size, Address
  <2>2. Load(Address, Wanted, FALSE) /\ Loaded(Ends, "poll") /\ step = "load" /\ family = "28c"
    BY <1>6, <2>1 DEF Load28c, Loaded
  <2>3. Ends \in BOOLEAN
    BY DEF Ends
  <2> QED BY <2>2, <2>3, LoadBase
<1>7. CASE Load5v
  <2>1. EndsLoad(request) <=> Ends
    BY <1>7 DEF Load5v, EndsLoad, Ends, Cut, Size, Address
  <2> DEFINE pref == Address % request = 0 \/ at = 0
  <2>2. Load(Address, Wanted, pref) /\ Loaded(Ends, "tblc") /\ step = "load" /\ family = "5v"
    BY <1>7, <2>1 DEF Load5v, Loaded
  <2>3. Ends \in BOOLEAN /\ pref \in BOOLEAN
    BY DEF Ends
  <2> QED BY <2>2, <2>3, LoadBase
<1>8. CASE LoadNor
  BY <1>8, LoadBase DEF LoadNor
<1> QED BY <1>2, <1>3, <1>4, <1>5, <1>6, <1>7, <1>8 DEF Sends

LEMMA InitBase == PageInit => BaseInv
<1> SUFFICES ASSUME PageInit PROVE BaseInv
  OBVIOUS
<1>1. CommandType
  <2>1. PICK ft \in Tasks : family = ft[1] /\ task = ft[2]
    BY DEF PageInit, Given
  <2>2. <<family, task>> \in Tasks
    BY <2>1 DEF Tasks
  <2> QED BY <2>2, PageAssumption DEF PageInit, Given, CommandType, PageAssumption
<1>2. CycleType
  BY PageConstants, PageAssumption DEF PageInit, Given, CycleType, Nothing, PageAssumption
<1>3. DriverType
  <2>1. Length \in Nat \ {0}
    BY <1>1, BlockFacts DEF CommandType, Length
  <2>2. at \in 0..(Length - 1) /\ first \in 0..at
    BY <2>1 DEF PageInit, Given
  <2> QED BY <2>2 DEF PageInit, Given, DriverType, Steps
<1>4. PlaceInv
  BY DEF PageInit, Given, PlaceInv, Writing
<1>5. ChunkInv
  BY DEF PageInit, Given, ChunkInv, Writing
<1>6. LoadedInv
  BY DEF PageInit, Given, LoadedInv, IsOfBlock, Nothing
<1> QED BY <1>1, <1>2, <1>3, <1>4, <1>5, <1>6 DEF BaseInv, PageTypeInv, PageInit, Given

LEMMA NextBase == BaseInv /\ [PageNext]_pageVars => BaseInv'
<1> SUFFICES ASSUME BaseInv, [PageNext]_pageVars PROVE BaseInv'
  OBVIOUS
<1>1. CASE /\ Drive \/ PollTimesOut
           /\ UNCHANGED command
           /\ Looks
  <2>1. blind' \in BOOLEAN /\ UNCHANGED command
    BY <1>1 DEF Looks
  <2> QED BY <1>1, <2>1, SendsBase, WaitsBase, TblcBase, PollBase, ReadbackBase,
      AdvanceBase, TimeoutBase DEF Drive, Quiet
<1>2. CASE WindowCloses /\ UNCHANGED blind
  BY <1>2, CloseBase
<1>3. CASE CycleEnds /\ UNCHANGED blind
  BY <1>3, EndBase
<1>4. CASE UNCHANGED pageVars
  <2>1. /\ UNCHANGED command /\ UNCHANGED driver /\ blind' = blind
        /\ UNCHANGED <<locked, memory, status, loaded, last, protect, glitched>>
    BY <1>4 DEF pageVars, cycle
  <2>2. PageTypeInv'
    BY <2>1, CommandFixed, DriverFixed DEF BaseInv, PageTypeInv, CycleType
  <2>3. PlaceInv'
    BY <2>1, CommandFixed, DriverFixed DEF BaseInv, PlaceInv
  <2>4. LoadedInv'
    BY <2>1, CommandFixed, DriverFixed DEF BaseInv, LoadedInv, IsOfBlock, IsOfPage, Page
  <2> QED BY <2>1, <2>2, <2>3, <2>4, QuietChunk DEF BaseInv
<1> QED BY <1>1, <1>2, <1>3, <1>4 DEF PageNext, Finished

(* What the command touches is always what it was given to touch. *)
LEMMA BaseHolds == PageSpec => []BaseInv
BY InitBase, NextBase, PTL DEF PageSpec

-----------------------------------------------------------------------------
(* What is outside of the block. *)
Kept == task = "write" /\ ~EraseFirst => \A a \in Cells \ Written : memory[a] = before[a]

\* A 5 V part gets no byte of a block that has not whole pages.
RefusedIsUnloaded ==
  task = "write" /\ family = "5v" /\ Refused5v => DOMAIN loaded = {} /\ step \in {"start",
    "done"}

KeptInv == Kept /\ RefusedIsUnloaded

LEMMA KeptInit == PageInit => KeptInv
BY DEF PageInit, Given, KeptInv, Kept, RefusedIsUnloaded, Nothing

(* Only the end of a cycle changes cells. *)
LEMMA MemoryKept ==
  ASSUME BaseInv, PageNext, ~CycleEnds
  PROVE  memory' = memory /\ (loaded' = loaded \/ DOMAIN loaded' = {} \/ step = "load")
<1> DEFINE Goal == memory' = memory
    /\ (loaded' = loaded \/ DOMAIN loaded' = {} \/ step = "load")
<1>1. CASE Sends
  <2>1. \A kind \in {"erase", "lock", "unlock"} : Sequence(kind) => Goal
    BY SequenceFacts DEF BaseInv, Same, cycle
  <2>2. \A p \in BOOLEAN : step = "load" /\ Load(Address, Wanted, p) => memory' = memory
    BY LoadFacts
  <2>3. (Address % request = 0 \/ at = 0) \in BOOLEAN
    OBVIOUS
  <2> QED BY <1>1, <2>1, <2>2, <2>3 DEF Sends, SdpUnlock, SdpLock, Erase28c, EraseFlash,
      Load28c, Load5v, LoadNor
<1>2. CASE Poll
  BY <1>2, PollFacts DEF Still
<1>3. CASE Drive /\ ~Sends /\ ~Poll
  BY <1>3 DEF Drive, SdpUnlockSkipped, SdpWaited, Delayed, Refuse5v, Start5v, TblcPasses,
      StartNor, Settled, EraseChecked, Readback, Advance, Same, cycle
<1>4. CASE PollTimesOut \/ WindowCloses \/ Finished
  BY <1>4 DEF PollTimesOut, WindowCloses, Finished, pageVars, Same, cycle
<1> QED BY <1>1, <1>2, <1>3, <1>4 DEF PageNext

(* The cells the end of a cycle changes: those of the bytes taken, and on 5 V parts
   those of their page. *)
LEMMA EndFacts ==
  ASSUME BaseInv, CycleEnds, status # "erasing", NEW a \in Cells, a \notin DOMAIN loaded,
         family = "5v" => \A b \in DOMAIN loaded : Page(a) # Page(b)
  PROVE  memory'[a] = memory[a]
<1>1. memory \in [Cells -> Datum]
  BY DEF BaseInv, PageTypeInv, CycleType
<1>2. Programmed[a] = memory[a] /\ Programmed \in [Cells -> Datum]
  BY <1>1, MemoryType DEF Programmed, BaseInv, PageTypeInv
<1>3. \/ memory' = Programmed
      \/ \E c \in DOMAIN loaded, v \in Datum : memory' = [Programmed EXCEPT ![c] = v]
  BY DEF CycleEnds
<1> QED BY <1>2, <1>3

LEMMA KeptNext == BaseInv /\ KeptInv /\ [PageNext]_pageVars => KeptInv'
<1> SUFFICES ASSUME BaseInv, KeptInv, [PageNext]_pageVars PROVE KeptInv'
  OBVIOUS
<1>1. UNCHANGED command
  BY DEF PageNext, WindowCloses, CycleEnds, Finished, pageVars, command
<1>2. RefusedIsUnloaded'
  <2> SUFFICES ASSUME task = "write", family = "5v", Refused5v
               PROVE  DOMAIN loaded' = {} /\ step' \in {"start", "done"}
    BY <1>1, CommandFixed DEF RefusedIsUnloaded
  <2>1. DOMAIN loaded = {} /\ step \in {"start", "done"}
    BY DEF KeptInv, RefusedIsUnloaded
  <2>2. loaded' = loaded \/ DOMAIN loaded' = {}
    BY <2>1, MemoryKept DEF pageVars, cycle, CycleEnds, Nothing
  <2>3. step' = step \/ Refuse5v \/ UNCHANGED driver
    BY <2>1 DEF PageNext, Drive, Sends, SdpUnlock, SdpLock, Erase28c, EraseFlash, Load28c,
        Load5v, LoadNor, SdpUnlockSkipped, SdpWaited, Delayed, Start5v, TblcPasses,
        StartNor, Settled, Poll, Polling, EraseChecked, Readback, Advance, PollTimesOut,
        WindowCloses, CycleEnds, Finished, pageVars, driver
  <2> QED BY <2>1, <2>2, <2>3 DEF Refuse5v, Answer, driver
<1>3. CASE memory' = memory
  BY <1>1, <1>2, <1>3, CommandFixed DEF KeptInv, Kept
<1>4. CASE CycleEnds
  <2> SUFFICES ASSUME task = "write", ~EraseFirst, NEW a \in Cells \ Written
               PROVE  memory'[a] = before[a]
    BY <1>1, <1>2, CommandFixed DEF KeptInv, Kept
  <2>1. status # "erasing" /\ IsOfBlock /\ memory[a] = before[a]
    BY DEF BaseInv, PlaceInv, LoadedInv, KeptInv, Kept, Erases
  <2>2. a \notin DOMAIN loaded
    BY <2>1 DEF IsOfBlock
  <2>3. ASSUME family = "5v", NEW b \in DOMAIN loaded, Page(a) = Page(b) PROVE FALSE
    <3>1. ~Refused5v /\ b \in Written
      BY <2>1, <2>3 DEF KeptInv, RefusedIsUnloaded, IsOfBlock
    <3>2. job.at % DevicePage = 0 /\ Length % DevicePage = 0
      BY <3>1, MaskFacts DEF Refused5v, BaseInv
    <3>3. job.at \in Nat /\ Length \in Nat /\ a \in Nat
      BY PlaceFacts, PageConstants DEF BaseInv, Cells
    <3>4. a \in job.at..(job.at + Length - 1)
      BY <2>3, <3>1, <3>2, <3>3, WholePages, PageConstants DEF Page, Written
    <3> QED BY <3>4 DEF Written
  <2> QED BY <1>4, <2>1, <2>2, <2>3, EndFacts
<1> QED BY <1>2, <1>3, <1>4, MemoryKept DEF pageVars, cycle

(* PageWrite!OthersKept, for every block, page size and content: the cells outside of the
   block keep their bytes through loads that fail, pages that 5 V parts erase as a whole
   and every fault of the part.  Only an erase takes more. *)
THEOREM BytesAroundAreKept == PageSpec => []OthersKept
<1>1. BaseInv /\ KeptInv => OthersKept
  BY DEF KeptInv, Kept, OthersKept, EraseFirst
<1> QED BY <1>1, BaseHolds, KeptInit, KeptNext, PTL DEF PageSpec

-----------------------------------------------------------------------------
(* The waits. *)
LEMMA InitRest == PageInit => RestInv
BY DEF PageInit, Given, RestInv, TimelyInv, NorEraseInv

(* While a cycle runs, a poll is not believed: one of its two reads shows the complement. *)
LEMMA PollRest ==
  ASSUME BaseInv, Poll, status \in {"busy", "erasing"}, last = Expected, seen = 1 => glitched,
         ~(status = "erasing" /\ family = "5v")
  PROVE  ReadsOn /\ (seen' = 1 => glitched') /\ step' = step
<1>1. PICK b \in Datum : /\ ReadOf(Polled, b)
                         /\ IF Matches(b) /\ seen = 1
                            THEN Ready
                            ELSE /\ seen' = (IF Matches(b) THEN 1 ELSE 0)
                                 /\ UNCHANGED <<step, at, first, verdict>>
  BY DEF Poll
<1>2. last \in Datum
  BY DEF BaseInv, PageTypeInv, CycleType
<1>3. Shows(Polled) = Complements
  BY DEF Shows
<1>4. CASE b \in Shows(Polled) /\ Same
  <2>1. ~Matches(b)
    BY <1>2, <1>3, <1>4, ComplementsDiffer DEF Matches
  <2> QED BY <1>1, <2>1 DEF ReadsOn
<1>5. CASE ~glitched /\ glitched' = TRUE
  <2>1. seen # 1
    BY <1>5
  <2> QED BY <1>1, <1>5, <2>1 DEF ReadsOn
<1> QED BY <1>1, <1>4, <1>5 DEF ReadOf

LEMMA PollTimely == ASSUME BaseInv, RestInv, UNCHANGED command, Poll, blind' = blind
  PROVE RestInv'
<1>1. /\ Still /\ step \in {"poll", "erasing"} /\ (Believes \/ ReadsOn)
      /\ task = "write" /\ step = "poll" /\ status = "window" => seen' = 0 /\ ReadsOn
  BY PollFacts
<1>2. UNCHANGED <<family, task, request, skip, job, fault, before>>
  BY CommandFixed
<1>3. ReadsOn => Wanted' = Wanted /\ step' = step /\ verdict' = verdict
  BY <1>2 DEF ReadsOn, Wanted
<1>4. status \in {"ready", "window", "busy", "erasing"} /\ status' = status /\ last' = last
  BY <1>1 DEF BaseInv, PageTypeInv, CycleType, Still
<1>5. step = "poll" => task = "write" /\ (status = "erasing" => family = "nor")
  BY DEF BaseInv, PlaceInv, Writing, EraseFirst, Erases
<1>6. step = "erasing" => family # "28c"
  BY DEF BaseInv, PlaceInv
<1>7. CASE status = "ready"
  <2>1. step' \in {"poll", "erasing", "readback", "advance", "check"}
    BY <1>1, <1>3 DEF Believes, Ready
  <2> QED BY <1>2, <1>4, <1>7, <2>1 DEF RestInv, TimelyInv, NorEraseInv, Doubtful, Timely
<1>8. CASE status # "ready" /\ step = "poll"
  <2>1. ASSUME Timely PROVE ReadsOn /\ last = Wanted /\ (seen' = 1 => glitched')
    <3>1. last = Wanted /\ (seen = 1 => glitched)
      BY <1>8, <2>1 DEF RestInv, TimelyInv, Doubtful
    <3>2. CASE status = "window"
      BY <1>1, <1>5, <1>8, <3>1, <3>2
    <3>3. CASE status \in {"busy", "erasing"}
      <4>1. ~(status = "erasing" /\ family = "5v") /\ last = Expected
        BY <1>5, <1>8, <3>1 DEF Expected
      <4> QED BY <3>1, <3>3, <4>1, PollRest
    <3> QED BY <1>4, <1>8, <3>2, <3>3
  <2>2. TimelyInv'
    BY <1>2, <1>3, <1>4, <1>8, <2>1 DEF RestInv, TimelyInv, Timely, Doubtful
  <2>3. step' \in {"poll", "readback", "advance"}
    BY <1>1, <1>3, <1>8 DEF Believes, Ready
  <2> QED BY <2>2, <2>3 DEF RestInv, NorEraseInv
<1>9. CASE status # "ready" /\ step = "erasing"
  <2>1. Timely => family = "nor"
    BY <1>6, <1>9 DEF RestInv, TimelyInv, BaseInv, PageTypeInv, CommandType, Tasks
  <2>2. ASSUME family = "nor"
        PROVE  ReadsOn /\ last = Blank /\ status = "erasing" /\ (seen' = 1 => glitched')
    <3>1. last = Blank /\ status = "erasing" /\ (seen = 1 => glitched)
      BY <1>9, <2>2 DEF RestInv, NorEraseInv
    <3>2. last = Expected /\ ~(status = "erasing" /\ family = "5v")
      BY <1>9, <2>2, <3>1 DEF Expected
    <3> QED BY <3>1, <3>2, PollRest
  <2>3. NorEraseInv'
    BY <1>2, <1>3, <1>4, <1>9, <2>2 DEF NorEraseInv
  <2>4. Timely => ReadsOn
    BY <2>1, <2>2
  <2>5. TimelyInv'
    BY <1>2, <1>3, <1>4, <1>9, <2>1, <2>4 DEF RestInv, TimelyInv, Timely
  <2> QED BY <2>3, <2>5 DEF RestInv
<1> QED BY <1>1, <1>7, <1>8, <1>9

LEMMA SendTimely == ASSUME BaseInv, RestInv, UNCHANGED command, Sends, blind' = blind
  PROVE RestInv'
<1>1. UNCHANGED <<family, task, request, skip, job, fault, before>> /\ (Timely' <=> Timely)
  BY CommandFixed DEF Timely
<1>2. CASE SdpUnlock \/ SdpLock \/ Erase28c
  <2>1. step' \in {"sdp", "delay"}
    BY <1>2 DEF SdpUnlock, SdpLock, Erase28c, Goto
  <2> QED BY <1>1, <2>1 DEF RestInv, TimelyInv, NorEraseInv
<1>3. CASE EraseFlash
  <2>1. step = "erase" /\ Sequence("erase")
        /\ Goto(IF family = "5v" \/ job.at = 0 THEN "settle" ELSE "erasing")
    BY <1>3 DEF EraseFlash
  <2>2. step' \in {"settle", "erasing"} /\ seen' = seen /\ (family = "5v" => step' = "settle")
    BY <2>1 DEF Goto
  <2>3. TimelyInv'
    BY <1>1, <2>2 DEF RestInv, TimelyInv
  <2>4. ASSUME family = "nor"
        PROVE  seen = 0 /\ (status' # "ready" => last' = Blank /\ status' = "erasing")
    <3>1. status = "ready" /\ seen = 0
      BY <2>1, <2>4 DEF RestInv, NorEraseInv
    <3> QED BY <2>1, <3>1, SequenceFacts DEF BaseInv, Same, cycle
  <2> QED BY <1>1, <2>2, <2>3, <2>4 DEF RestInv, NorEraseInv
<1>4. ASSUME step = "load", NEW p \in BOOLEAN, Load(Address, Wanted, p),
             NEW next \in {"tblc", "poll"}, NEW ends, Loaded(ends, next),
             family = "nor" => ends
      PROVE  RestInv'
  <2>1. step' \in {"load", "tblc", "poll"} /\ seen' = 0
        /\ (step' = "load" => ~ends) /\ (step' # "load" => Wanted' = Wanted)
    BY <1>1, <1>4 DEF Loaded, Wanted
  <2>2. ASSUME Timely
        PROVE  /\ status' = "ready" \/ last' = Wanted
               /\ status' \in {"ready", "window"} \/ (status' = "busy" /\ family = "nor")
    <3>1. status \in {"ready", "window"}
      BY <1>4, <2>2 DEF RestInv, TimelyInv
    <3> QED BY <1>4, <3>1, LoadFacts DEF Opens, Joins, Lost, Puts
  <2>3. TimelyInv'
    BY <1>1, <1>4, <2>1, <2>2 DEF RestInv, TimelyInv, Doubtful
  <2> QED BY <1>1, <2>1, <2>3 DEF RestInv, NorEraseInv
<1>5. CASE Load28c
  <2>1. EndsLoad(PageMask28c) \in BOOLEAN
    BY DEF EndsLoad
  <2> QED BY <1>4, <1>5 DEF Load28c
<1>6. CASE Load5v
  <2>1. (Address % request = 0 \/ at = 0) \in BOOLEAN
    OBVIOUS
  <2> QED BY <1>4, <1>6, <2>1 DEF Load5v
<1>7. CASE LoadNor
  BY <1>4, <1>7 DEF LoadNor
<1> QED BY <1>2, <1>3, <1>5, <1>6, <1>7 DEF Sends

LEMMA OtherTimely ==
  ASSUME BaseInv, RestInv, UNCHANGED command, Looks,
         \/ SdpUnlockSkipped \/ SdpWaited \/ Delayed \/ Refuse5v \/ Start5v \/ TblcPasses
         \/ StartNor \/ Settled \/ EraseChecked \/ Readback \/ Advance \/ PollTimesOut
  PROVE  RestInv'
<1>1. UNCHANGED <<family, task, request, skip, job, fault, before>> /\ (Timely' <=> Timely)
  BY CommandFixed DEF Timely
<1>2. UNCHANGED <<status, last, glitched>>
  BY DEF SdpUnlockSkipped, SdpWaited, Delayed, Refuse5v, Start5v, StartNor, TblcPasses,
      Settled, EraseChecked, Readback, Advance, PollTimesOut, Same, cycle
<1>3. Timely => blind' = FALSE
  BY DEF RestInv, TimelyInv, Looks
<1>4. fault # "stuck" \/ ~Timely
  BY DEF Timely
<1>5. <<family, task>> \in Tasks
  BY DEF BaseInv, PageTypeInv, CommandType
<1>6. CASE SdpUnlockSkipped \/ SdpWaited \/ Delayed
  BY <1>1, <1>2, <1>3, <1>4, <1>6 DEF SdpUnlockSkipped, SdpWaited, Delayed, Waited, Goto,
      Answer, RestInv, TimelyInv, NorEraseInv, BaseInv, PlaceInv
<1>7. CASE Refuse5v \/ Start5v
  BY <1>1, <1>2, <1>3, <1>7 DEF Refuse5v, Start5v, Goto, Answer, RestInv, TimelyInv,
      NorEraseInv
<1>8. CASE TblcPasses
  <2>1. Wanted' = Wanted
    BY <1>1, <1>8 DEF TblcPasses, Goto, Wanted
  <2> QED BY <1>1, <1>2, <1>3, <1>8, <2>1 DEF TblcPasses, Goto, RestInv, TimelyInv,
      NorEraseInv, Doubtful
<1>9. CASE StartNor \/ Settled
  BY <1>1, <1>2, <1>3, <1>4, <1>9 DEF StartNor, Settled, Waited, Goto, RestInv, TimelyInv,
      NorEraseInv
<1>10. CASE EraseChecked
  BY <1>1, <1>2, <1>3, <1>10 DEF EraseChecked, Goto, Answer, RestInv, TimelyInv,
      NorEraseInv
<1>11. CASE Readback
  BY <1>1, <1>2, <1>3, <1>11 DEF Readback, Goto, Answer, RestInv, TimelyInv, NorEraseInv,
      BaseInv, PlaceInv
<1>12. CASE Advance
  BY <1>1, <1>2, <1>3, <1>12 DEF Advance, Answer, RestInv, TimelyInv, NorEraseInv, BaseInv,
      PlaceInv, Writing
<1>13. CASE PollTimesOut
  BY <1>1, <1>2, <1>3, <1>4, <1>13 DEF PollTimesOut, Answer, RestInv, TimelyInv,
      NorEraseInv
<1> QED BY <1>6, <1>7, <1>8, <1>9, <1>10, <1>11, <1>12, <1>13

LEMMA NextRest == BaseInv /\ RestInv /\ [PageNext]_pageVars => RestInv'
<1> SUFFICES ASSUME BaseInv, RestInv, [PageNext]_pageVars PROVE RestInv'
  OBVIOUS
<1>1. CASE /\ Drive \/ PollTimesOut
           /\ UNCHANGED command
           /\ Looks
  <2>1. Sends \/ Poll => step # "readback"
    BY DEF Sends, SdpUnlock, SdpLock, Erase28c, EraseFlash, Load28c, Load5v, LoadNor, Poll,
        Polling
  <2>2. Sends \/ Poll => blind' = blind
    BY <1>1, <2>1 DEF BaseInv, PageTypeInv, Looks
  <2> QED BY <1>1, <2>2, SendTimely, PollTimely, OtherTimely DEF Drive
<1>2. CASE WindowCloses /\ UNCHANGED blind
  <2>1. /\ status = "window" /\ status' = "busy" /\ UNCHANGED command /\ UNCHANGED driver
        /\ UNCHANGED <<locked, memory, loaded, last, protect, glitched>>
        /\ step # "load" \/ fault = "hasty"
    BY <1>2 DEF WindowCloses, command, driver
  <2>2. step = "load" => task = "write"
    BY DEF BaseInv, PlaceInv, Writing
  <2>3. step = "poll" => seen = 0 /\ last = Wanted
    BY <2>1 DEF BaseInv, PlaceInv, Writing, LoadedInv
  <2>4. family # "nor"
    BY <2>1 DEF BaseInv, LoadedInv
  <2> QED BY <1>2, <2>1, <2>2, <2>3, <2>4, CommandFixed, DriverFixed DEF RestInv,
      TimelyInv, NorEraseInv, Doubtful, Timely
<1>3. CASE CycleEnds /\ UNCHANGED blind
  <2>1. status' = "ready" /\ UNCHANGED command /\ UNCHANGED driver
    BY <1>3 DEF CycleEnds, command, driver
  <2> QED BY <1>3, <2>1, CommandFixed, DriverFixed DEF RestInv, TimelyInv, NorEraseInv,
      Doubtful, Timely
<1>4. CASE UNCHANGED pageVars
  <2>1. /\ UNCHANGED command /\ UNCHANGED driver /\ blind' = blind
        /\ UNCHANGED <<locked, memory, status, loaded, last, protect, glitched>>
    BY <1>4 DEF pageVars, cycle
  <2> QED BY <2>1, CommandFixed, DriverFixed DEF RestInv, TimelyInv, NorEraseInv, Doubtful,
      Timely
<1> QED BY <1>1, <1>2, <1>3, <1>4 DEF PageNext, Finished

LEMMA RestHolds == PageSpec => []RestInv
BY InitBase, NextBase, InitRest, NextRest, PTL DEF PageSpec

(* PageWrite!SentToPartAtRest, for every block and page: a sound part gets no command
   sequence and no byte while it is busy, since each wait (flash_util_wait_ready,
   eeprom28c_wait_for_page_write, the fixed delays) outlasts its cycle, and the bytes that
   join an open load window are of its page. *)
THEOREM NothingIsSentToBusyParts == PageSpec => SentToPartAtRest
<1>1. ASSUME BaseInv, RestInv, Sends, fault = "none"
      PROVE  \/ status = "ready"
             \/ status = "window" /\ step = "load" /\ Page(Address) = Page(Address - 1)
  <2>1. Timely
    BY <1>1 DEF Timely
  <2>2. step \in {"start", "erase", "load"}
    BY <1>1 DEF Sends, SdpUnlock, SdpLock, Erase28c, EraseFlash, Load28c, Load5v, LoadNor
  <2>3. CASE step = "load" /\ status = "window"
    <3>1. first < at /\ NoCut(first, at) /\ (family = "5v" => ~Refused5v)
      BY <1>1, <2>3 DEF BaseInv, PlaceInv, Writing, LoadedInv, ChunkInv
    <3>2. job.at \in Nat /\ at \in Nat /\ first \in Nat
      BY <1>1, PlaceFacts DEF BaseInv
    <3>3. at - 1 \in first..(at - 1) /\ Address - 1 \in Nat /\ Address - 1 = job.at + (at - 1)
      BY <3>1, <3>2 DEF Address
    <3>4. ((Address - 1) + 1) % Size # 0
      BY <3>1, <3>3 DEF NoCut, Cut
    <3>5. Page((Address - 1) + 1) = Page(Address - 1)
      BY <1>1, <3>1, <3>3, <3>4, SizeFacts, SamePage, PageConstants DEF Page, BaseInv
    <3>6. (Address - 1) + 1 = Address
      BY <3>2 DEF Address
    <3> QED BY <2>3, <3>5, <3>6
  <2> QED BY <1>1, <2>1, <2>2, <2>3 DEF RestInv, TimelyInv
<1> QED BY <1>1, BaseHolds, RestHolds, PTL DEF SentToPartAtRest

-----------------------------------------------------------------------------
(* What has been read back. *)
LEMMA InitReadBack == PageInit => ReadBackInv
<1> SUFFICES ASSUME PageInit PROVE ReadBackInv
  OBVIOUS
<1>1. FromFirst
  BY DEF PageInit, Given, FromFirst, Nothing
<1> QED BY <1>1 DEF PageInit, Given, ReadBackInv

(* Bytes of the block that no cycle is about to change stay. *)
LEMMA UptoKept ==
  ASSUME BaseInv, UNCHANGED command, memory' = memory, NEW k PROVE Upto(k)' <=> Upto(k)
BY CommandFixed DEF Upto, Holds

LEMMA UptoSurvives ==
  ASSUME BaseInv, CycleEnds, task = "write", status # "erasing", FromFirst,
         NEW k \in Nat, k <= first, Upto(k), 
         family = "5v" => (job.at + first) % DevicePage = 0
  PROVE  Upto(k)'
<1>0. UNCHANGED command
  BY DEF CycleEnds, command
<1> SUFFICES ASSUME NEW c \in Written, c < job.at + k PROVE memory'[c] = memory[c]
  BY <1>0, CommandFixed DEF Upto, Holds
<1>1. c \in Cells /\ c \in Nat /\ job.at \in Nat /\ first \in Nat
  BY PlaceFacts, PageConstants DEF BaseInv, Cells
<1>2. c < job.at + first
  BY <1>1
<1>3. \A b \in DOMAIN loaded : b \in Nat /\ job.at + first <= b
  <2>1. DOMAIN loaded \subseteq Cells /\ Cells \subseteq Nat
    BY PageConstants DEF BaseInv, PageTypeInv, CycleType, Cells
  <2> QED BY <1>1, <2>1 DEF FromFirst
<1>4. c \notin DOMAIN loaded
  BY <1>1, <1>2, <1>3
<1>5. ASSUME family = "5v", NEW b \in DOMAIN loaded PROVE Page(c) # Page(b)
  <2>1. job.at + first \in Nat
    BY <1>1
  <2> QED BY <1>1, <1>2, <1>3, <1>5, <2>1, EarlierPage, PageConstants DEF Page
<1> QED BY <1>1, <1>4, <1>5, EndFacts

LEMMA FromFirstKept ==
  ASSUME BaseInv, BaseInv', UNCHANGED command, task = "write",
         \/ first' = 0
         \/ DOMAIN loaded' = {}
         \/ FromFirst /\ first' = first /\ DOMAIN loaded' \subseteq DOMAIN loaded \cup {Address}
  PROVE  FromFirst'
<1>1. job' = job /\ Written' = Written /\ task' = task
  BY CommandFixed
<1>2. CASE first' = 0
  <2>1. \A c \in DOMAIN loaded' : c \in Written
    BY <1>1 DEF BaseInv, LoadedInv, IsOfBlock
  <2>2. job.at \in Nat /\ Length \in Nat
    BY PlaceFacts DEF BaseInv
  <2>3. \A c \in Written : c >= job.at + 0
    BY <2>2 DEF Written
  <2> QED BY <1>1, <1>2, <2>1, <2>3 DEF FromFirst
<1>3. CASE DOMAIN loaded' = {}
  BY <1>3 DEF FromFirst
<1>4. CASE FromFirst /\ first' = first /\ DOMAIN loaded' \subseteq DOMAIN loaded \cup {Address}
  <2>1. Address >= job.at + first
    BY PlaceFacts DEF BaseInv, Address
  <2> QED BY <1>1, <1>4, <2>1 DEF FromFirst
<1> QED BY <1>2, <1>3, <1>4

(* What a load adds is the next byte. *)
LEMMA LoadedIs ==
  ASSUME BaseInv, step = "load", NEW p \in BOOLEAN, Load(Address, Wanted, p)
  PROVE  DOMAIN loaded' \subseteq DOMAIN loaded \cup {Address} /\ memory' = memory
BY LoadFacts DEF Opens, Joins, Lost, Puts

LEMMA SendsLoaded ==
  ASSUME BaseInv, Sends
  PROVE  /\ first' = first /\ verdict' = verdict /\ memory' = memory
         /\ DOMAIN loaded' = {} \/ DOMAIN loaded' \subseteq DOMAIN loaded \cup {Address}
         /\ step' \in {"sdp", "delay", "settle", "erasing"} \/ (step = "load"
            /\ step' \in {"load", "tblc", "poll"})
<1>1. \A kind \in {"erase", "lock", "unlock"} :
        Sequence(kind) => memory' = memory /\ (DOMAIN loaded' = {} \/ loaded' = loaded)
  BY SequenceFacts DEF BaseInv, Same, cycle
<1>2. CASE SdpUnlock \/ SdpLock \/ Erase28c \/ EraseFlash
  BY <1>1, <1>2 DEF SdpUnlock, SdpLock, Erase28c, EraseFlash, Goto
<1>3. CASE Load28c
  BY <1>3, LoadedIs DEF Load28c, Loaded
<1>4. CASE Load5v
  <2>1. (Address % request = 0 \/ at = 0) \in BOOLEAN
    OBVIOUS
  <2> QED BY <1>4, <2>1, LoadedIs DEF Load5v, Loaded
<1>5. CASE LoadNor
  BY <1>5, LoadedIs DEF LoadNor, Loaded
<1> QED BY <1>2, <1>3, <1>4, <1>5 DEF Sends


LEMMA UptoNothing == ASSUME BaseInv PROVE Upto(0)
<1>1. job.at \in Nat /\ Length \in Nat /\ \A c \in Written : ~(c < job.at + 0)
  BY PlaceFacts DEF BaseInv, Written
<1> QED BY <1>1 DEF Upto

LEMMA UptoNext ==
  ASSUME BaseInv, Upto(at), memory[Address] = Wanted PROVE Upto(at + 1)
<1>1. /\ job.at \in Nat /\ Length \in Nat /\ at \in Nat
      /\ Wanted = job.bytes[Address - job.at + 1]
  BY PlaceFacts DEF BaseInv
<1>2. \A c \in Written : c < job.at + (at + 1) => c < job.at + at \/ c = Address
  BY <1>1 DEF Written, Address
<1>3. Holds(Address)
  BY <1>1 DEF Holds
<1> QED BY <1>2, <1>3 DEF Upto

LEMMA NextReadBack == BaseInv /\ ReadBackInv /\ [PageNext]_pageVars => ReadBackInv'
<1> SUFFICES ASSUME BaseInv, ReadBackInv, [PageNext]_pageVars PROVE ReadBackInv'
  OBVIOUS
<1> SUFFICES ASSUME family = "28c", task = "write", blind' = FALSE PROVE ReadBackInv'
  <2>1. UNCHANGED command
    BY DEF PageNext, WindowCloses, CycleEnds, Finished, pageVars, command
  <2>2. blind' \in BOOLEAN
    BY NextBase DEF BaseInv, PageTypeInv
  <2> QED BY <2>1, <2>2, CommandFixed DEF ReadBackInv
<1>1. BaseInv' /\ UNCHANGED command
  BY NextBase DEF PageNext, WindowCloses, CycleEnds, Finished, pageVars, command
<1>2. UNCHANGED <<family, task, request, skip, job, fault, before>> /\ Length' = Length
  BY <1>1, CommandFixed
<1>3. ~blind
  BY DEF PageNext, pageVars, Finished, BaseInv, PageTypeInv, Looks
<1>4. /\ FromFirst /\ status # "erasing"
      /\ step \in {"load", "poll"} => Upto(first)
      /\ step = "readback" => Upto(at) /\ (first < at => status = "ready")
      /\ step = "advance" => Upto(at + 1) /\ status = "ready"
      /\ verdict = "ok" => Upto(Length) /\ status = "ready"
  BY <1>3 DEF ReadBackInv, BaseInv, PlaceInv, EraseFirst, Erases
<1>5. /\ job.at \in Nat /\ Length \in Nat \ {0} /\ at \in Nat /\ first \in Nat
      /\ first <= at /\ at < Length
  BY PlaceFacts DEF BaseInv
<1>6. verdict = "none" <=> step # "done"
  BY DEF BaseInv, PlaceInv
<1>7. CASE CycleEnds
  <2>1. /\ status \in {"busy", "erasing"} /\ status' = "ready" /\ DOMAIN loaded' = {}
        /\ UNCHANGED <<step, at, first, seen, verdict>>
    BY <1>7 DEF CycleEnds, Busy, driver, Nothing
  <2>2. FromFirst'
    BY <1>1, <2>1, FromFirstKept
  <2>3. step \in {"load", "poll"} => Upto(first)'
    BY <1>4, <1>5, <1>7, <2>1, UptoSurvives
  <2>4. step = "readback" => at = first /\ Upto(at)'
    BY <1>4, <1>5, <1>7, <2>1, UptoSurvives
  <2> QED BY <1>2, <1>4, <2>1, <2>2, <2>3, <2>4 DEF ReadBackInv, Upto
<1>8. CASE WindowCloses \/ UNCHANGED pageVars
  <2>1. /\ UNCHANGED <<step, at, first, seen, verdict, loaded, memory>>
        /\ status' = status \/ status = "window"
    BY <1>8 DEF WindowCloses, pageVars, driver, cycle
  <2>2. FromFirst'
    BY <1>1, <1>4, <2>1, FromFirstKept
  <2>3. status' = status \/ step \notin {"readback", "advance"}
    BY <2>1 DEF BaseInv, LoadedInv
  <2> QED BY <1>1, <1>2, <1>4, <2>1, <2>2, <2>3, UptoKept DEF ReadBackInv
<1>9. CASE Sends
  <2>1. /\ first' = first /\ verdict' = verdict
        /\ DOMAIN loaded' = {} \/ DOMAIN loaded' \subseteq DOMAIN loaded \cup {Address}
        /\ step' \in {"sdp", "delay", "settle", "erasing"} \/ (step = "load"
           /\ step' \in {"load", "tblc", "poll"})
    BY <1>9, SendsLoaded
  <2>2. FromFirst'
    BY <1>1, <1>4, <2>1, FromFirstKept
  <2>3. memory' = memory
    BY <1>9, SendsLoaded
  <2>4. step = "load" \/ step' \notin {"load", "poll", "readback", "advance"}
    BY <2>1
  <2>5. step' \notin {"readback", "advance"}
    BY <2>1
  <2>6. verdict' # "ok"
    BY <1>6, <1>9, <2>1 DEF Sends, SdpUnlock, SdpLock, Erase28c, EraseFlash, Load28c,
        Load5v, LoadNor
  <2>7. step = "load" => Upto(first)'
    BY <1>1, <1>4, <2>1, <2>3, UptoKept DEF Upto
  <2> QED BY <2>2, <2>4, <2>5, <2>6, <2>7 DEF ReadBackInv
<1>10. CASE Poll
  <2>1. Still /\ step \in {"poll", "erasing"} /\ (Believes \/ ReadsOn)
    BY <1>10, PollFacts
  <2>2. family = "28c" /\ step = "poll"
    BY <2>1 DEF BaseInv, PlaceInv
  <2>3. FromFirst' 
    BY <1>1, <1>4, <2>1, FromFirstKept DEF Still, Believes, ReadsOn, Ready
  <2>4. memory' = memory /\ status' = status
    BY <2>1 DEF Still
  <2>5. CASE ReadsOn
    BY <1>1, <1>2, <1>4, <2>2, <2>3, <2>4, <2>5, UptoKept DEF ReadsOn, ReadBackInv
  <2>6. CASE Believes
    <3>1. step' = "readback" /\ at' = first /\ first' = first /\ verdict' = verdict
      BY <2>2, <2>6 DEF Believes, Ready
    <3> QED BY <1>1, <1>4, <1>5, <1>6, <2>2, <2>3, <2>4, <3>1, UptoKept DEF ReadBackInv
  <2> QED BY <2>1, <2>5, <2>6
<1>11. CASE Readback /\ Looks
  <2>1. step = "readback" /\ status = "ready" /\ Same /\ Upto(at)
    BY <1>4, <1>11 DEF Readback, Looks
  <2>2. memory' = memory /\ status' = status /\ loaded' = loaded
    BY <2>1 DEF Same, cycle
  <2>3. CASE Answer("error")
    BY <1>1, <2>3, FromFirstKept DEF Answer, ReadBackInv
  <2>4. CASE ~Answer("error")
    <3>1. memory[Address] = Wanted
      BY <1>11, <2>1, <2>4 DEF Readback, Shows
    <3>2. Upto(at + 1)
      BY <2>1, <3>1, UptoNext
    <3>3. \/ step' = "advance" /\ at' = at
          \/ step' = step /\ at' = at + 1
      BY <1>11, <2>4 DEF Readback, Goto
    <3>4. first' = first /\ verdict' = verdict
      BY <1>11, <2>4 DEF Readback, Goto
    <3>5. FromFirst'
      BY <1>1, <1>4, <2>2, <3>4, FromFirstKept
    <3> QED BY <1>1, <1>2, <1>6, <2>1, <2>2, <3>2, <3>3, <3>4, <3>5, UptoKept DEF
        ReadBackInv
  <2> QED BY <2>3, <2>4
<1>12. CASE Advance
  <2>1. step = "advance" /\ status = "ready" /\ Same /\ Upto(at + 1) /\ DOMAIN loaded = {}
    BY <1>4, <1>12 DEF Advance, BaseInv, LoadedInv
  <2>2. memory' = memory /\ status' = status /\ loaded' = loaded
    BY <2>1 DEF Same, cycle
  <2>3. FromFirst'
    BY <1>1, <2>1, <2>2, FromFirstKept
  <2>4. CASE at + 1 = Length /\ Answer("ok")
    BY <1>1, <1>2, <2>1, <2>2, <2>3, <2>4, UptoKept DEF Answer, ReadBackInv
  <2>5. CASE step' = "load" /\ first' = at + 1 /\ UNCHANGED <<seen, verdict>>
    BY <1>1, <1>2, <1>6, <2>1, <2>2, <2>3, <2>5, UptoKept DEF ReadBackInv
  <2> QED BY <1>12, <2>4, <2>5 DEF Advance
<1>13. CASE \/ SdpUnlockSkipped \/ SdpWaited \/ Delayed \/ Refuse5v \/ Start5v \/ TblcPasses
            \/ StartNor \/ Settled \/ EraseChecked \/ PollTimesOut
  <2>1. \/ Answer("error")
        \/ Goto("load") /\ step \notin Writing /\ step # "done"
    BY <1>13 DEF SdpUnlockSkipped, SdpWaited, Delayed, Refuse5v, Start5v, TblcPasses,
        StartNor, Settled, EraseChecked, PollTimesOut, BaseInv, PlaceInv, Writing
  <2>2. first' = 0
    BY <2>1 DEF Answer, Goto, BaseInv, PlaceInv
  <2>3. FromFirst'
    BY <1>1, <2>2, FromFirstKept
  <2>4. CASE Answer("error")
    BY <2>3, <2>4 DEF Answer, ReadBackInv
  <2>5. CASE Goto("load") /\ step # "done"
    <3>1. Upto(0) /\ memory' = memory
      BY <1>13, UptoNothing DEF SdpUnlockSkipped, SdpWaited, Delayed, Refuse5v, Start5v,
          TblcPasses, StartNor, Settled, EraseChecked, PollTimesOut, Same, cycle
    <3>2. Upto(0)'
      BY <1>1, <3>1, UptoKept
    <3> QED BY <1>6, <2>2, <2>3, <2>5, <3>2 DEF ReadBackInv, Goto, Upto
  <2> QED BY <2>1, <2>4, <2>5
<1> QED BY <1>7, <1>8, <1>9, <1>10, <1>11, <1>12, <1>13 DEF PageNext, Drive, Finished

-----------------------------------------------------------------------------
(* Erases, and the commands of the SDP. *)
LEMMA InitErase == PageInit => EraseInv /\ SdpInv
BY DEF PageInit, Given, EraseInv, SdpInv, Writing, Nothing

(* Where each step of the driver leads. *)
LEMMA Moves ==
  ASSUME PageNext, UNCHANGED command, BaseInv
  PROVE  \/ Sends
         \/ Poll /\ Still /\ (Believes \/ ReadsOn)
         \/ PollTimesOut \/ EraseChecked \/ Readback \/ Advance
         \/ SdpUnlockSkipped \/ SdpWaited \/ Delayed \/ Refuse5v \/ Start5v \/ TblcPasses
         \/ StartNor \/ Settled
         \/ WindowCloses \/ CycleEnds \/ UNCHANGED pageVars
BY PollFacts DEF PageNext, Drive, Finished

LEMMA EraseKept ==
  ASSUME UNCHANGED command, memory' = memory, EraseDone PROVE EraseDone'
BY CommandFixed DEF EraseDone, Page

LEMMA NextErase == BaseInv /\ RestInv /\ EraseInv /\ [PageNext]_pageVars => EraseInv'
<1> SUFFICES ASSUME BaseInv, RestInv, EraseInv, [PageNext]_pageVars PROVE EraseInv'
  OBVIOUS
<1>1. UNCHANGED command /\ RestInv'
  BY NextRest DEF PageNext, WindowCloses, CycleEnds, Finished, pageVars, command
<1>2. UNCHANGED <<family, task, request, skip, job, fault, before>>
      /\ EraseAddress' = EraseAddress
  BY <1>1, CommandFixed
<1>3. verdict = "none" <=> step # "done"
  BY DEF BaseInv, PlaceInv
<1>4. <<family, task>> \in Tasks
  BY DEF BaseInv, PageTypeInv, CommandType
<1>5. CASE Sends
  <2>1. memory' = memory /\ verdict' = verdict /\ step # "done"
    BY <1>5, SendsLoaded DEF Sends, SdpUnlock, SdpLock, Erase28c, EraseFlash, Load28c,
        Load5v, LoadNor
  <2>2. step' \notin {"start", "check", "done"}
    BY <1>5, SendsLoaded
  <2>3. CASE step' \in {"settle", "erasing"}
    <3>1. step = "erase" /\ family # "28c" /\ Sequence("erase")
      BY <1>5, <2>3 DEF Sends, SdpUnlock, SdpLock, Erase28c, EraseFlash, Load28c, Load5v,
          LoadNor, Goto, Loaded
    <3>2. fault = "none" => status = "ready"
      BY <3>1 DEF RestInv, TimelyInv, Timely
    <3>3. fault = "none" => status' = "erasing"
      BY <3>1, <3>2, SequenceFacts DEF BaseInv, Ignored
    <3> QED BY <1>2, <1>3, <2>1, <2>2, <3>3 DEF EraseInv
  <2>4. CASE step' \notin {"settle", "erasing"}
    BY <1>3, <2>1, <2>2, <2>4 DEF EraseInv
  <2> QED BY <2>3, <2>4
<1>6. CASE Poll /\ Still /\ (Believes \/ ReadsOn)
  <2>1. memory' = memory /\ status' = status /\ verdict' = verdict /\ step \in {"poll",
        "erasing"}
        /\ step' \in {"poll", "erasing", "readback", "advance", "check"}
        /\ (step' \in {"erasing", "check"} => step = "erasing")
    BY <1>6 DEF Still, Poll, Polling, Believes, Ready, ReadsOn
  <2>2. fault = "none" /\ step' = "check" => status = "ready"
    BY <1>1, <1>2, <2>1 DEF RestInv, TimelyInv, Timely
  <2> QED BY <1>1, <1>2, <1>3, <2>1, <2>2, EraseKept DEF EraseInv
<1>7. CASE EraseChecked
  <2>1. step = "check" /\ Same /\ verdict = "none" /\ family # "28c"
    BY <1>3, <1>7 DEF EraseChecked, BaseInv, PlaceInv
  <2>2. memory' = memory /\ status' = status
    BY <2>1 DEF Same, cycle
  <2>3. ASSUME task = "erase", family = "nor" \/ fault # "stuck", verdict' = "ok"
        PROVE  memory[EraseAddress] = Blank /\ status = "ready"
    <3>1. family \in {"nor", "5v"}
      BY <1>4, <2>1 DEF Tasks
    <3>2. status = "ready"
      BY <2>1, <2>3, <3>1 DEF RestInv, TimelyInv, NorEraseInv, Timely
    <3>3. \E b \in Shows(Polled) : b = Blank
      BY <1>7, <2>1, <2>3 DEF EraseChecked, Answer, Goto
    <3> QED BY <2>1, <3>2, <3>3 DEF Shows, Polled
  <2>4. step' \in {"load", "done"}
    BY <1>7 DEF EraseChecked, Answer, Goto
  <2> QED BY <1>2, <2>2, <2>3, <2>4 DEF EraseInv
<1>8. CASE Settled
  BY <1>1, <1>2, <1>3, <1>8, EraseKept DEF Settled, Goto, Same, cycle, EraseInv
<1>9. CASE \/ SdpUnlockSkipped \/ SdpWaited \/ Delayed \/ Refuse5v \/ Start5v \/ TblcPasses
           \/ StartNor \/ Readback \/ Advance \/ PollTimesOut
  <2>1. \/ step' \in {"load", "erase", "poll", "readback", "advance"}
           /\ verdict' = verdict /\ step # "done"
        \/ step' = "done" /\ (verdict' = "error" \/ family = "28c" \/ task = "write")
    BY <1>9 DEF SdpUnlockSkipped, SdpWaited, Delayed, Refuse5v, Start5v, TblcPasses,
        StartNor, Readback, Advance, PollTimesOut, Goto, Answer, BaseInv, PlaceInv, Writing
  <2> QED BY <1>2, <1>3, <2>1 DEF EraseInv
<1>10. CASE WindowCloses
  BY <1>1, <1>2, <1>10, EraseKept DEF WindowCloses, EraseInv, driver
<1>11. CASE CycleEnds
  <2>1. /\ UNCHANGED <<step, at, first, seen, verdict>> /\ status \in {"busy", "erasing"}
        /\ status' = "ready"
    BY <1>11 DEF CycleEnds, driver, Busy
  <2>2. ASSUME fault = "none", step \in {"settle", "erasing"} PROVE EraseDone'
    <3>1. status = "erasing" /\ memory' = AfterErase
      BY <1>11, <2>1, <2>2 DEF EraseInv, CycleEnds
    <3> QED BY <1>2, <3>1 DEF AfterErase, EraseDone, Page
  <2>3. fault = "none" => step # "check"
    BY <2>1 DEF RestInv, TimelyInv, Timely
  <2> QED BY <1>2, <2>1, <2>2, <2>3 DEF EraseInv
<1>12. CASE UNCHANGED pageVars
  BY <1>1, <1>2, <1>12, EraseKept DEF pageVars, driver, cycle, EraseInv
<1> QED BY <1>1, <1>5, <1>6, <1>7, <1>8, <1>9, <1>10, <1>11, <1>12, Moves DEF PageNext,
    Finished

LEMMA NextSdp == BaseInv /\ RestInv /\ EraseInv /\ SdpInv /\ [PageNext]_pageVars => SdpInv'
<1> SUFFICES ASSUME BaseInv, RestInv, EraseInv, SdpInv, [PageNext]_pageVars PROVE SdpInv'
  OBVIOUS
<1>1. UNCHANGED command
  BY DEF PageNext, WindowCloses, CycleEnds, Finished, pageVars, command
<1>2. UNCHANGED <<family, task, request, skip, job, fault, before>>
  BY <1>1, CommandFixed
<1> SUFFICES ASSUME family = "28c", fault = "none" PROVE SdpInv'
  BY <1>2 DEF SdpInv
<1>3. <<family, task>> \in Tasks /\ task \in {"write", "erase", "unlock", "lock"}
  BY DEF BaseInv, PageTypeInv, CommandType, Tasks
<1>4. /\ task \in {"lock", "unlock"} => memory = before /\ status # "erasing"
      /\ task # "write" => DOMAIN loaded = {} /\ step \notin Writing
      /\ step \in {"start", "erase", "readback", "advance", "check", "done"} => status = "ready"
      /\ step \notin {"settle", "erasing", "check", "tblc"}
      /\ status = "ready" => protect = "keep"
  BY DEF SdpInv, BaseInv, PlaceInv, Erases, LoadedInv, RestInv, TimelyInv, Timely, Writing
<1>5. CASE Sends
  <2>1. memory' = memory
    BY <1>5, SendsLoaded
  <2>2. CASE SdpUnlock
    <3>1. step = "start" /\ step' = "sdp" /\ Sequence("unlock") /\ status = "ready"
      BY <1>4, <2>2 DEF SdpUnlock, Goto
    <3>2. status' = "busy" /\ protect' = "unlock" /\ DOMAIN loaded' = {}
      BY <3>1, SequenceFacts DEF BaseInv, Ignored
    <3> QED BY <1>2, <1>4, <2>1, <3>1, <3>2 DEF SdpInv, Writing
  <2>3. CASE SdpLock
    <3>1. step = "start" /\ step' = "delay" /\ Sequence("lock") /\ status = "ready"
          /\ task = "lock"
      BY <1>4, <2>3 DEF SdpLock, Goto
    <3>2. status' = "window" /\ protect' = "lock" /\ DOMAIN loaded' = {}
      BY <3>1, SequenceFacts DEF BaseInv, Ignored
    <3> QED BY <1>2, <1>4, <2>1, <3>1, <3>2 DEF SdpInv, Writing
  <2>4. CASE Erase28c
    <3>1. /\ step = "erase" /\ step' = "delay" /\ Sequence("erase") /\ status = "ready"
          /\ task = "erase" /\ ~locked
      BY <1>4, <2>4 DEF Erase28c, Goto, BaseInv, PlaceInv, Erases, EraseFirst, SdpInv
    <3>2. status' = "erasing" /\ DOMAIN loaded' = {}
      BY <3>1, SequenceFacts DEF BaseInv, Ignored
    <3> QED BY <1>2, <1>4, <2>1, <3>1, <3>2 DEF SdpInv, Writing
  <2>5. CASE Load28c
    <3>1. step = "load" /\ step' \in {"load", "poll"} /\ protect' = protect /\ locked' = locked
      BY <2>5, LoadFacts DEF Load28c, Loaded
    <3> QED BY <1>2, <1>4, <2>1, <3>1 DEF SdpInv, Writing
  <2> QED BY <1>5, <2>2, <2>3, <2>4, <2>5 DEF Sends, EraseFlash, Load5v, LoadNor
<1>6. CASE Poll /\ Still /\ (Believes \/ ReadsOn)
  <2>1. /\ UNCHANGED <<locked, memory, status, loaded, protect>>
        /\ step = "poll" /\ step' \in {"poll", "readback"}
    BY <1>4, <1>6 DEF Still, Poll, Polling, Believes, Ready, ReadsOn
  <2> QED BY <1>2, <1>4, <2>1 DEF SdpInv, Writing
<1>7. CASE SdpWaited
  <2>1. status = "ready" /\ step = "sdp" /\ UNCHANGED <<locked, memory, status, loaded,
        protect>>
    BY <1>7 DEF SdpWaited, Waited, Same, cycle
  <2>2. ~locked /\ protect = "keep" /\ task # "lock"
    BY <1>4, <2>1 DEF SdpInv, BaseInv, PlaceInv
  <2>4. locked' = FALSE /\ locked \in BOOLEAN
    BY <2>1, <2>2 DEF BaseInv, PageTypeInv, CycleType
  <2>3. \/ step' = "done" /\ task = "unlock"
        \/ step' \in {"erase", "load"} /\ task # "unlock"
    BY <1>7 DEF SdpWaited, Answer, Goto
  <2> QED BY <1>2, <1>4, <2>1, <2>2, <2>3, <2>4 DEF SdpInv, Writing
<1>8. CASE Delayed
  <2>1. /\ status = "ready" /\ step = "delay" /\ step' = "done"
        /\ UNCHANGED <<locked, memory, status, loaded, protect>> /\ task \in {"lock", "erase"}
    BY <1>8 DEF Delayed, Waited, Same, cycle, Answer, BaseInv, PlaceInv
  <2> QED BY <1>2, <1>4, <2>1 DEF SdpInv, Writing
<1>9. CASE SdpUnlockSkipped
  <2>1. /\ status = "ready" /\ step' = "load" /\ skip /\ task = "write"
        /\ UNCHANGED <<locked, memory, status, loaded, protect>>
    BY <1>4, <1>9 DEF SdpUnlockSkipped, Same, cycle, Goto
  <2> QED BY <1>2, <1>4, <2>1 DEF SdpInv, Writing
<1>10. CASE Readback \/ Advance \/ PollTimesOut
  <2>1. /\ step \in Writing /\ step' \in Writing \cup {"done"} /\ task = "write"
        /\ UNCHANGED <<locked, memory, status, loaded, protect>>
    BY <1>4, <1>10 DEF Readback, Advance, PollTimesOut, Polling, Answer, Goto, Same, cycle,
        Writing, BaseInv, PlaceInv
  <2> QED BY <1>2, <1>4, <2>1 DEF SdpInv, Writing
<1>11. CASE Refuse5v \/ Start5v \/ TblcPasses \/ StartNor \/ Settled \/ EraseChecked
  BY <1>4, <1>11 DEF Refuse5v, Start5v, TblcPasses, StartNor, Settled, EraseChecked
<1>12. CASE WindowCloses
  <2>1. /\ UNCHANGED <<step, at, first, seen, verdict, locked, memory, loaded, protect>>
        /\ status = "window" /\ status' = "busy"
    BY <1>12 DEF WindowCloses, driver
  <2> QED BY <1>2, <1>4, <2>1 DEF SdpInv
<1>13. CASE CycleEnds
  <2>1. /\ UNCHANGED <<step, at, first, seen, verdict>> /\ status \in {"busy", "erasing"}
        /\ status' = "ready" /\ protect' = "keep" /\ DOMAIN loaded' = {}
        /\ locked' = (IF protect = "keep" THEN locked ELSE protect = "lock")
        /\ memory' = (IF status = "erasing" THEN AfterErase ELSE Programmed)
    BY <1>13 DEF CycleEnds, driver, Busy, Nothing
  <2>2. task \in {"lock", "unlock"} => memory' = memory
    <3> SUFFICES ASSUME task \in {"lock", "unlock"} PROVE memory' = memory
      OBVIOUS
    <3>1. DOMAIN loaded = {} /\ memory' = Programmed /\ memory \in [Cells -> Datum]
      BY <1>4, <2>1 DEF BaseInv, PageTypeInv, CycleType
    <3> QED BY <3>1 DEF Programmed
  <2>3. step = "delay" /\ task = "erase" => \A a \in Cells : memory'[a] = Blank
    <3> SUFFICES ASSUME step = "delay", task = "erase" PROVE \A a \in Cells : memory'[a] = Blank
      OBVIOUS
    <3>1. memory' = AfterErase
      BY <2>1 DEF SdpInv
    <3> QED BY <3>1 DEF AfterErase
  <2>4. step \notin {"erase", "done"}
    BY <1>4, <2>1
  <2> QED BY <1>2, <1>4, <2>1, <2>2, <2>3, <2>4 DEF SdpInv
<1>14. CASE UNCHANGED pageVars
  BY <1>2, <1>14 DEF pageVars, driver, cycle, SdpInv
<1> QED BY <1>1, <1>5, <1>6, <1>7, <1>8, <1>9, <1>10, <1>11, <1>12, <1>13, <1>14, Moves DEF
    PageNext, Finished

-----------------------------------------------------------------------------
(* What a sound part has taken. *)
LEMMA InitTaken == PageInit => BlankInv /\ TakenInv /\ ErrorInv
<1> SUFFICES ASSUME PageInit PROVE BlankInv /\ TakenInv /\ ErrorInv
  OBVIOUS
<1>1. FromFirst
  BY DEF PageInit, Given, FromFirst, Nothing
<1> QED BY <1>1 DEF PageInit, Given, BlankInv, TakenInv, ErrorInv

LEMMA NextBlank == BaseInv /\ RestInv /\ EraseInv /\ BlankInv /\ [PageNext]_pageVars
  => BlankInv'
<1> SUFFICES ASSUME BaseInv, RestInv, EraseInv, BlankInv, [PageNext]_pageVars PROVE BlankInv'
  OBVIOUS
<1>1. UNCHANGED command
  BY DEF PageNext, WindowCloses, CycleEnds, Finished, pageVars, command
<1>2. UNCHANGED <<family, task, request, skip, job, fault, before>> /\ Written' = Written
      /\ (Sound' <=> Sound)
  BY <1>1, CommandFixed
<1> SUFFICES ASSUME Sound, family = "nor" PROVE BlankInv'
  BY <1>2 DEF BlankInv
<1>3. /\ fault = "none" /\ task \in {"write", "erase"}
      /\ task = "write" => EraseFirst \/ \A a \in Written : before[a] = Blank
  BY DEF Sound, BaseInv, PageTypeInv, CommandType, Tasks, EraseFirst
<1>4. /\ step \in {"start", "erase", "readback", "advance", "check", "done"} => status = "ready"
      /\ step = "load" => status = "ready"
  BY <1>3 DEF RestInv, TimelyInv, Timely, BaseInv, LoadedInv
<1>5. /\ job.at \in Nat /\ Length \in Nat \ {0} /\ at \in Nat /\ first \in Nat
      /\ first <= at /\ at < Length
  BY PlaceFacts DEF BaseInv
<1>6. \A c \in Written : c \in Nat /\ c \in Cells
  BY PlaceFacts, PageConstants DEF BaseInv, Cells
<1>7. AheadBlank(at) => AheadBlank(at + 1)
  BY <1>5, <1>6 DEF AheadBlank
<1>8. CASE LoadNor
  <2>1. /\ step = "load" /\ Load(Address, Wanted, TRUE) /\ step' = "poll" /\ at' = at
           /\ first' = first
    BY <1>8 DEF LoadNor, Loaded
  <2>2. memory' = memory /\ DOMAIN loaded' \subseteq {Address}
    <3>1. status = "ready" /\ DOMAIN loaded = {}
      BY <1>4, <2>1 DEF BaseInv, LoadedInv
    <3> QED BY <2>1, <3>1, LoadedIs
  <2>3. Address' = Address
    BY <1>2, <2>1 DEF Address
  <2>4. AheadBlank(at) /\ AheadBlank(at + 1)
    BY <1>7, <2>1 DEF BlankInv
  <2>5. AheadBlank(at)' /\ AheadBlank(at + 1)'
    BY <1>2, <2>1, <2>2, <2>4 DEF AheadBlank
  <2> QED BY <2>1, <2>2, <2>3, <2>5 DEF BlankInv
<1>9. CASE Sends /\ ~LoadNor
  <2>1. step' \in {"sdp", "delay", "settle", "erasing"}
    BY <1>9 DEF Sends, SdpUnlock, SdpLock, Erase28c, EraseFlash, Load28c, Load5v, Goto
  <2> QED BY <2>1 DEF BlankInv
<1>10. CASE Poll /\ Still /\ (Believes \/ ReadsOn)
  <2>1. /\ memory' = memory /\ status' = status /\ loaded' = loaded /\ at' = at
        /\ \/ step' = step /\ step \in {"poll", "erasing"}
           \/ step' = "check"
           \/ step = "poll" /\ step' = "advance"
    BY <1>10 DEF Still, Poll, Polling, Believes, Ready, ReadsOn
  <2>2. Address' = Address
    BY <1>2, <2>1 DEF Address
  <2>3. (AheadBlank(at)' <=> AheadBlank(at)) /\ (AheadBlank(at + 1)' <=> AheadBlank(at + 1))
    BY <1>2, <2>1 DEF AheadBlank
  <2> QED BY <2>1, <2>2, <2>3 DEF BlankInv
<1>11. CASE Advance
  <2>1. step = "advance" /\ memory' = memory
        /\ (step' = "done" \/ (step' = "load" /\ at' = at + 1))
    BY <1>11 DEF Advance, Answer, Same, cycle
  <2>2. CASE step' = "load" /\ at' = at + 1
    <3>1. AheadBlank(at + 1)
      BY <2>1 DEF BlankInv
    <3>2. AheadBlank(at)'
      BY <1>2, <2>1, <2>2, <3>1 DEF AheadBlank
    <3> QED BY <2>2, <3>2 DEF BlankInv
  <2> QED BY <2>1, <2>2 DEF BlankInv
<1>12. CASE StartNor \/ EraseChecked
  <2>1. /\ (memory' = memory /\ at' = at /\ at = 0) \/ step' = "done"
        /\ step' \in {"erase", "load", "done"}
    BY <1>12 DEF StartNor, EraseChecked, Goto, Answer, Same, cycle, BaseInv, PlaceInv,
        Writing
  <2>2. CASE step' = "load"
    <3>1. \A c \in Written : memory[c] = Blank
      <4>1. CASE StartNor
        BY <1>3, <2>2, <4>1 DEF StartNor, Goto, EraseFirst, EraseInv
      <4>2. CASE EraseChecked
        <5>1. task = "write" /\ EraseDone /\ Erases
          BY <1>3, <2>2, <4>2 DEF EraseChecked, Goto, Answer, EraseInv, BaseInv, PlaceInv
        <5>2. job.at = 0
          BY <5>1 DEF Erases, EraseFirst
        <5> QED BY <1>6, <5>1, <5>2 DEF EraseDone
      <4> QED BY <1>12, <4>1, <4>2
    <3>2. AheadBlank(at)'
      BY <1>2, <2>1, <2>2, <3>1 DEF AheadBlank
    <3> QED BY <2>2, <3>2 DEF BlankInv
  <2> QED BY <2>1, <2>2 DEF BlankInv
<1>13. CASE \/ Readback \/ SdpUnlockSkipped \/ SdpWaited \/ Delayed \/ Refuse5v \/ Start5v
            \/ TblcPasses
            \/ Settled \/ PollTimesOut
  <2>1. step' \in {"done", "erasing"}
    BY <1>13 DEF Readback, SdpUnlockSkipped, SdpWaited, Delayed, Refuse5v, Start5v,
        TblcPasses, Settled, PollTimesOut, Answer, Goto, BaseInv, PlaceInv
  <2> QED BY <2>1 DEF BlankInv
<1>14. CASE WindowCloses \/ UNCHANGED pageVars
  <2>1. /\ UNCHANGED <<step, at, first, seen, verdict, memory, loaded>>
        /\ status' = status \/ status = "window"
    BY <1>14 DEF WindowCloses, pageVars, driver, cycle
  <2>2. status' = status
    BY <2>1 DEF BaseInv, LoadedInv
  <2>3. Address' = Address
    BY <1>2, <2>1 DEF Address
  <2>4. (AheadBlank(at)' <=> AheadBlank(at)) /\ (AheadBlank(at + 1)' <=> AheadBlank(at + 1))
    BY <1>2, <2>1 DEF AheadBlank
  <2> QED BY <2>1, <2>2, <2>3, <2>4 DEF BlankInv
<1>15. CASE CycleEnds
  <2>1. /\ UNCHANGED <<step, at, first, seen, verdict>> /\ status \in {"busy", "erasing"}
        /\ status' = "ready" /\ DOMAIN loaded' = {}
    BY <1>15 DEF CycleEnds, driver, Busy, Nothing
  <2>2. CASE step = "poll"
    <3>1. AheadBlank(at + 1) /\ DOMAIN loaded \subseteq {Address} /\ Address = job.at + at
      BY <2>2 DEF BlankInv, Address
    <3>2. memory' = AfterErase \/ memory' = Programmed
      BY <1>3, <1>15 DEF CycleEnds
    <3>3. ASSUME NEW c \in Written, job.at + (at + 1) <= c PROVE memory'[c] = Blank
      <4>1. memory[c] = Blank /\ c \in Cells /\ c \notin DOMAIN loaded
        BY <1>5, <1>6, <3>1, <3>3 DEF AheadBlank
      <4>2. AfterErase[c] = Blank /\ Programmed[c] = Blank
        BY <4>1 DEF AfterErase, Programmed
      <4> QED BY <3>2, <4>2
    <3>4. AheadBlank(at + 1)'
      BY <1>2, <2>1, <3>3 DEF AheadBlank
    <3> QED BY <2>1, <2>2, <3>4 DEF BlankInv
  <2> QED BY <1>4, <2>1, <2>2 DEF BlankInv
<1> QED BY <1>1, <1>8, <1>9, <1>10, <1>11, <1>12, <1>13, <1>14, <1>15, Moves DEF PageNext,
    Finished

(* A sound part takes every byte of a page. *)
Chunk(k) == \A c \in Written : job.at + first <= c /\ c < job.at + k => c \in DOMAIN loaded'

LEMMA LoadTaken ==
  ASSUME BaseInv, RestInv, Taken, TakenInv, step = "load", NEW p \in BOOLEAN,
         Load(Address, Wanted, p),
         family = "28c" => ~p, family = "nor" => p, family = "5v" => (p <=> at = first)
  PROVE  /\ Chunk(at + 1) /\ status' # "ready" /\ (family # "nor" => status' = "window")
<1>1. /\ Opens(p) \/ Joins(p) \/ Lost(p)
      /\ UNCHANGED <<locked, memory, protect, glitched>>
  BY LoadFacts
<1>2. /\ job.at \in Nat /\ at \in Nat /\ first \in Nat /\ first <= at /\ Address = job.at + at
      /\ \A c \in Written : c \in Nat
  BY PlaceFacts, PageConstants DEF BaseInv, Address, Cells
<1>3. IF first < at THEN status = "window" /\ InLoad(at) ELSE status = "ready"
  BY DEF TakenInv
<1>4. fault = "none" /\ family \in {"28c", "5v", "nor"} /\ (family = "28c" => ~locked)
  BY DEF Taken, Sound, BaseInv, PageTypeInv, CommandType, Tasks
<1>5. CASE first = at
  <2>0. status = "ready" /\ fault # "lockout"
    BY <1>2, <1>3, <1>4, <1>5
  <2>1. status = "ready" /\ Takes(p)
    BY <1>4, <1>5, <2>0 DEF Takes
  <2>2. Opens(p)
    BY <1>1, <2>1 DEF Joins, Lost
  <2>3. Address \in DOMAIN loaded'
    BY <2>2 DEF Opens, Puts
  <2>4. \A c \in Written : job.at + first <= c /\ c < job.at + (at + 1) => c = Address
    BY <1>2, <1>5
  <2> QED BY <2>2, <2>3, <2>4 DEF Opens, Chunk
<1>6. CASE first < at
  <2>1. status = "window" /\ InLoad(at) /\ family # "nor"
    BY <1>3, <1>6 DEF BaseInv, LoadedInv
  <2>2. ~p
    BY <1>2, <1>4, <1>6, <2>1
  <2>3. Joins(p)
    BY <1>1, <2>1, <2>2 DEF Opens, Lost
  <2>4. DOMAIN loaded' = DOMAIN loaded \cup {Address}
    BY <2>3 DEF Joins, Puts
  <2>5. \A c \in Written : c < job.at + (at + 1) => c < job.at + at \/ c = Address
    BY <1>2
  <2>6. Chunk(at + 1)
    BY <2>1, <2>4, <2>5 DEF InLoad, Chunk
  <2> QED BY <2>3, <2>6 DEF Joins
<1> QED BY <1>2, <1>5, <1>6

(* The cycle that ends has programmed the page. *)
LEMMA EndTaken ==
  ASSUME BaseInv, RestInv, BlankInv, Taken, TakenInv, CycleEnds, step \in {"tblc", "poll"}
  PROVE  Upto(first)' /\ Upto(at + 1)'
<1>1. /\ job.at \in Nat /\ at \in Nat /\ first \in Nat /\ first <= at
      /\ Written \subseteq Cells /\ \A c \in Written : c \in Nat /\ c \in Cells
  BY PlaceFacts, PageConstants DEF BaseInv, Cells
<1>2. /\ UNCHANGED <<step, at, first, seen, verdict>> /\ status \in {"busy", "erasing"}
      /\ UNCHANGED command
  BY DEF CycleEnds, driver, Busy, command
<1>3. /\ Upto(first) /\ InLoad(at + 1) /\ FromFirst /\ task = "write" /\ fault = "none"
  BY <1>2 DEF Taken, TakenInv, Sound
<1>4. status = "busy" /\ memory' = Programmed
  <2>1. Timely
    BY <1>3 DEF Timely
  <2> QED BY <1>2, <1>3, <2>1 DEF RestInv, TimelyInv, CycleEnds
<1>5. family = "5v" => (job.at + first) % DevicePage = 0
  BY DEF BaseInv, ChunkInv, Writing
<1>6. Upto(first)'
  BY <1>1, <1>2, <1>3, <1>4, <1>5, UptoSurvives
<1>7. ASSUME NEW c \in DOMAIN loaded PROVE memory'[c] = job.bytes[c - job.at + 1]
  <2>1. c \in Cells /\ c \in Written /\ loaded[c] = job.bytes[c - job.at + 1]
    BY <1>1, <1>3, <1>7 DEF BaseInv, LoadedInv, IsOfBlock
  <2>2. family = "nor" => memory[c] = Blank
    <3> SUFFICES ASSUME family = "nor" PROVE memory[c] = Blank
      OBVIOUS
    <3>1. step = "poll"
      BY DEF BaseInv, PlaceInv
    <3>2. AheadBlank(at) /\ c = Address
      BY <1>4, <3>1 DEF BlankInv, Taken
    <3>3. job.at + at <= c
      BY <1>1, <3>2 DEF Address
    <3> QED BY <2>1, <3>2, <3>3 DEF AheadBlank
  <2>3. Programmed[c] = loaded[c]
    BY <2>1, <2>2 DEF Programmed
  <2> QED BY <1>4, <2>1, <2>3
<1>8. ASSUME NEW c \in Written, c < job.at + (at + 1)
      PROVE  memory'[c] = job.bytes[c - job.at + 1]
  <2>1. CASE c < job.at + first
    <3>1. job' = job /\ Written' = Written /\ first' = first
      BY <1>2, CommandFixed
    <3> QED BY <1>6, <1>8, <2>1, <3>1 DEF Upto, Holds
  <2>2. CASE job.at + first <= c
    <3>1. c \in DOMAIN loaded
      BY <1>3, <1>8, <2>2 DEF InLoad
    <3> QED BY <1>7, <3>1
  <2> QED BY <1>1, <2>1, <2>2
<1> QED BY <1>2, <1>6, <1>8, CommandFixed DEF Upto, Holds

\* A place in which a sound part's write has nothing to show but its first byte.
LEMMA TakenElsewhere ==
  ASSUME FromFirst', step' \notin Writing, verdict' # "ok" PROVE TakenInv'
BY DEF TakenInv, Writing

LEMMA LoadsTaken ==
  ASSUME BaseInv, BaseInv', RestInv, Taken, TakenInv, UNCHANGED command, step = "load",
         NEW p \in BOOLEAN, Load(Address, Wanted, p),
         family = "28c" => ~p, family = "nor" => p, family = "5v" => (p <=> at = first),
         NEW next \in {"tblc", "poll"}, NEW ends, Loaded(ends, next),
         family = "nor" => ends
  PROVE  TakenInv'
<1>1. /\ Chunk(at + 1) /\ status' # "ready" /\ (family # "nor" => status' = "window")
  BY LoadTaken
<1>2. /\ DOMAIN loaded' \subseteq DOMAIN loaded \cup {Address} /\ memory' = memory
  BY LoadedIs
<1>3. /\ first' = first /\ verdict' = verdict /\ Written' = Written /\ job' = job
  BY CommandFixed DEF Loaded
<1>4. FromFirst' /\ Upto(first)'
  <2>1. FromFirst /\ Upto(first) /\ task = "write"
    BY DEF TakenInv, Taken
  <2> QED BY <1>2, <1>3, <2>1, FromFirstKept DEF Upto, Holds
<1>5. verdict' # "ok"
  BY <1>3 DEF BaseInv, PlaceInv
<1>6. CASE ends
  <2>1. step' = next /\ at' = at
    BY <1>6 DEF Loaded
  <2>2. InLoad(at + 1)'
    BY <1>1, <1>3, <2>1 DEF InLoad, Chunk
  <2> QED BY <1>1, <1>4, <1>5, <2>1, <2>2 DEF TakenInv
<1>7. CASE ~ends
  <2>1. step' = "load" /\ at' = at + 1 /\ family # "nor"
    BY <1>7 DEF Loaded
  <2>2. InLoad(at)'
    BY <1>1, <1>3, <2>1 DEF InLoad, Chunk
  <2>3. first' < at'
    BY <1>3, <2>1, PlaceFacts DEF BaseInv
  <2> QED BY <1>1, <1>4, <1>5, <2>1, <2>2, <2>3 DEF TakenInv
<1> QED BY <1>6, <1>7

LEMMA NextTaken ==
  BaseInv /\ RestInv /\ EraseInv /\ SdpInv /\ BlankInv /\ TakenInv /\ [PageNext]_pageVars
    => TakenInv'
<1> SUFFICES ASSUME BaseInv, RestInv, EraseInv, SdpInv, BlankInv, TakenInv, [PageNext]_pageVars
             PROVE  TakenInv'
  OBVIOUS
<1>1. BaseInv' /\ RestInv' /\ UNCHANGED command
  BY NextBase, NextRest DEF PageNext, WindowCloses, CycleEnds, Finished, pageVars, command
<1>2. UNCHANGED <<family, task, request, skip, job, fault, before>> /\ Written' = Written
      /\ Length' = Length /\ (Sound' <=> Sound)
  BY <1>1, CommandFixed
<1> SUFFICES ASSUME Taken' PROVE TakenInv'
  BY DEF TakenInv
<1>3. Sound /\ task = "write" /\ fault = "none" /\ Timely /\ (family = "28c" => ~locked')
      /\ family \in {"28c", "5v", "nor"}
  BY <1>2 DEF Taken, Sound, Timely, BaseInv, PageTypeInv, CommandType, Tasks
<1>4. /\ job.at \in Nat /\ Length \in Nat \ {0} /\ at \in Nat /\ first \in Nat
      /\ first <= at /\ at < Length
  BY PlaceFacts DEF BaseInv
<1>5. /\ step \in {"start", "erase", "readback", "advance", "check", "done"} => status = "ready"
      /\ step' \in {"start", "erase", "readback", "advance", "check", "done"}
         => status' = "ready"
      /\ step \in {"tblc", "poll"} => status # "erasing"
      /\ step = "load" => status \in {"ready", "window"}
  BY <1>1, <1>2, <1>3 DEF RestInv, TimelyInv, Timely
<1>6. (verdict = "none" <=> step # "done") /\ (step' \notin Writing => first' = 0 /\ at' = 0)
      /\ (verdict' = "none" <=> step' # "done")
  BY <1>1 DEF BaseInv, PlaceInv
<1>7. step' \notin Writing => FromFirst'
  BY <1>1, <1>3, <1>6, FromFirstKept
<1>8. step \in Writing /\ CycleEnds => Taken
  <2> SUFFICES ASSUME step \in Writing, CycleEnds PROVE Taken
    OBVIOUS
  <2>1. family = "28c" => protect = "keep"
    BY <1>3 DEF SdpInv
  <2>2. protect = "keep" => locked' = locked
    BY DEF CycleEnds
  <2> QED BY <1>3, <2>1, <2>2 DEF Taken
<1>9. CASE Load28c \/ Load5v \/ LoadNor
  <2>1. step = "load"
    BY <1>9 DEF Load28c, Load5v, LoadNor
  <2>2. Taken
    <3>1. \A p \in BOOLEAN : Load(Address, Wanted, p) => locked' = locked
      BY <2>1, LoadFacts
    <3>2. (Address % request = 0 \/ at = 0) \in BOOLEAN
      OBVIOUS
    <3>3. locked' = locked
      BY <1>9, <3>1, <3>2 DEF Load28c, Load5v, LoadNor
    <3> QED BY <1>3, <3>3 DEF Taken
  <2>3. CASE Load28c
    BY <1>1, <2>1, <2>2, <2>3, LoadsTaken DEF Load28c
  <2>4. CASE LoadNor
    BY <1>1, <2>1, <2>2, <2>4, LoadsTaken DEF LoadNor
  <2>5. CASE Load5v
    <3> DEFINE pref == Address % request = 0 \/ at = 0
    <3>1. /\ request = DevicePage /\ Size = DevicePage /\ (job.at + first) % DevicePage = 0
          /\ NoCut(first, at) /\ Address = job.at + at /\ family = "5v"
      BY <2>1, <2>5, MaskFacts, SizeFacts DEF Load5v, BaseInv, PlaceInv, ChunkInv, Writing,
          Refused5v, Address
    <3>2. first < at => ~pref
      <4> SUFFICES ASSUME first < at PROVE ~pref
        OBVIOUS
      <4>1. at - 1 \in first..(at - 1) /\ job.at + (at - 1) + 1 = job.at + at /\ at # 0
        BY <1>4
      <4>2. (job.at + at) % DevicePage # 0
        BY <3>1, <4>1 DEF NoCut, Cut
      <4> QED BY <3>1, <4>1, <4>2
    <3>3. pref <=> at = first
      BY <1>4, <3>1, <3>2
    <3>4. pref \in BOOLEAN /\ Load(Address, Wanted, pref) /\ Loaded(EndsLoad(request), "tblc")
      BY <2>5 DEF Load5v
    <3> HIDE DEF pref
    <3> QED BY <1>1, <2>1, <2>2, <3>1, <3>3, <3>4, LoadsTaken
  <2> QED BY <1>9, <2>3, <2>4, <2>5
<1>10. CASE SdpUnlock \/ SdpLock \/ Erase28c \/ EraseFlash
  <2>1. step' \notin Writing /\ verdict' = verdict /\ step # "done"
    BY <1>10 DEF SdpUnlock, SdpLock, Erase28c, EraseFlash, Goto, Writing
  <2> QED BY <1>6, <1>7, <2>1, TakenElsewhere
<1>11. CASE Poll /\ Still /\ (Believes \/ ReadsOn)
  <2>1. /\ UNCHANGED <<locked, memory, status, loaded, first, verdict>> /\ step \in {"poll",
           "erasing"}
    BY <1>11 DEF Still, Poll, Polling, Believes, Ready, ReadsOn
  <2>2. Taken /\ verdict' # "ok"
    BY <1>3, <1>6, <2>1 DEF Taken
  <2>3. FromFirst /\ FromFirst'
    BY <1>2, <2>1, <2>2 DEF TakenInv, FromFirst
  <2>4. \A k : Upto(k)' <=> Upto(k)
    BY <1>1, <2>1, UptoKept
  <2>5. CASE ReadsOn
    BY <1>2, <2>1, <2>2, <2>3, <2>5 DEF ReadsOn, TakenInv, Upto, Holds, InLoad
  <2>6. CASE Believes /\ step = "poll"
    <3>1. status = "ready"
      BY <1>5, <2>1, <2>6 DEF Believes, Ready
    <3>2. Upto(at + 1)
      BY <2>2, <2>6, <3>1 DEF TakenInv
    <3>3. CASE family # "28c"
      <4>1. step' = "advance" /\ at' = at
        BY <2>6, <3>3 DEF Believes, Ready
      <4>2. Upto(at + 1)'
        BY <1>2, <2>1, <3>2, <4>1 DEF Upto, Holds
      <4> QED BY <2>2, <2>3, <4>1, <4>2 DEF TakenInv
    <3>4. CASE family = "28c"
      <4>1. step' = "readback"
        BY <2>6, <3>4 DEF Believes, Ready
      <4>2. WindowEnd' = at
        BY <1>1, <2>1, <2>6, <3>4, WindowFixed, WindowEndIsAt
      <4>3. Upto(WindowEnd + 1)'
        BY <1>2, <2>1, <3>2, <4>2 DEF Upto, Holds
      <4> QED BY <2>2, <2>3, <4>1, <4>3 DEF TakenInv
    <3> QED BY <3>3, <3>4
  <2>7. CASE Believes /\ step = "erasing"
    <3>1. family # "28c"
      BY <2>7 DEF BaseInv, PlaceInv
    <3>2. step' = "check"
      BY <2>7, <3>1 DEF Believes, Ready
    <3> QED BY <2>2, <2>3, <3>2 DEF TakenInv
  <2> QED BY <1>11, <2>1, <2>5, <2>6, <2>7
<1>12. CASE Readback
  <2>1. step = "readback" /\ UNCHANGED <<locked, memory, status, loaded>>
    BY <1>12 DEF Readback, Same, cycle
  <2>2. Taken /\ Upto(WindowEnd + 1) /\ FromFirst
    BY <1>3, <2>1 DEF Taken, TakenInv
  <2>3. CASE Answer("error")
    BY <1>7, <2>3, TakenElsewhere DEF Answer, Writing
  <2>4. CASE ~Answer("error")
    <3>1. /\ first' = first /\ verdict' = verdict
          /\ \/ step' = "advance" /\ at' = at /\ at = WindowEnd
             \/ step' = "readback"
      BY <1>12, <2>1, <2>4 DEF Readback, Goto
    <3>2. WindowEnd' = WindowEnd
      BY <1>1, <3>1, WindowFixed
    <3>3. Upto(WindowEnd + 1)' /\ (step' = "advance" => Upto(at + 1)')
      BY <1>2, <2>1, <2>2, <3>1, <3>2 DEF Upto, Holds
    <3>4. FromFirst'
      BY <1>2, <2>1, <2>2, <3>1 DEF FromFirst
    <3> QED BY <1>6, <2>1, <3>1, <3>3, <3>4 DEF TakenInv
  <2> QED BY <2>3, <2>4
<1>13. CASE Advance
  <2>1. step = "advance" /\ UNCHANGED <<locked, memory, status, loaded>> /\ status = "ready"
        /\ DOMAIN loaded = {}
    BY <1>5, <1>13 DEF Advance, Same, cycle, BaseInv, LoadedInv
  <2>2. Taken /\ Upto(at + 1) /\ FromFirst'
    BY <1>1, <1>3, <2>1, FromFirstKept DEF Taken, TakenInv
  <2>3. CASE at + 1 = Length /\ Answer("ok")
    <3>1. step' = "done" /\ Upto(Length)'
      BY <1>2, <2>1, <2>2, <2>3 DEF Answer, Upto, Holds
    <3> QED BY <2>2, <3>1 DEF TakenInv
  <2>4. CASE /\ step' = "load" /\ at' = at + 1 /\ first' = at + 1 /\ UNCHANGED <<seen, verdict>>
    <3>1. Upto(first)' /\ ~(first' < at')
      BY <1>2, <1>4, <2>1, <2>2, <2>4 DEF Upto, Holds
    <3> QED BY <1>6, <2>1, <2>2, <2>4, <3>1 DEF TakenInv
  <2> QED BY <1>13, <2>3, <2>4 DEF Advance
<1>14. CASE TblcPasses
  <2>1. /\ step = "tblc" /\ step' = "poll" /\ UNCHANGED <<locked, memory, status, loaded>>
        /\ UNCHANGED <<at, first, verdict>>
    BY <1>14 DEF TblcPasses, Goto, Same, cycle
  <2>2. Taken
    BY <1>3, <2>1 DEF Taken
  <2> QED BY <1>2, <1>6, <2>1, <2>2 DEF TakenInv, FromFirst, Upto, Holds, InLoad
<1>15. CASE \/ SdpUnlockSkipped \/ SdpWaited \/ Delayed \/ Refuse5v \/ Start5v
            \/ StartNor \/ Settled \/ EraseChecked \/ PollTimesOut
  <2>1. memory' = memory /\ status' = status
    BY <1>15 DEF SdpUnlockSkipped, SdpWaited, Delayed, Refuse5v, Start5v, StartNor,
        Settled, EraseChecked, PollTimesOut, Same, cycle
  <2>2. \/ step' \notin Writing /\ verdict' # "ok"
        \/ step' = "load" /\ step \notin Writing /\ UNCHANGED <<at, first, verdict>>
           /\ step # "done"
           /\ status = "ready"
    BY <1>3, <1>5, <1>6, <1>15 DEF SdpUnlockSkipped, SdpWaited, Delayed, Waited, Refuse5v,
        Start5v, StartNor, Settled, EraseChecked, PollTimesOut, Answer, Goto, BaseInv,
        PlaceInv, Writing
  <2>3. CASE step' = "load" /\ step \notin Writing /\ UNCHANGED <<at, first, verdict>>
        /\ step # "done"
             /\ status = "ready"
    <3>1. at = 0 /\ first = 0
      BY <2>3 DEF BaseInv, PlaceInv
    <3>2. FromFirst'
      BY <1>1, <1>3, <2>3, <3>1, FromFirstKept
    <3>3. Upto(first)'
      BY <1>2, <2>1, <2>3, <3>1, UptoNothing DEF Upto, Holds
    <3> QED BY <1>6, <2>1, <2>3, <3>1, <3>2, <3>3 DEF TakenInv
  <2> QED BY <1>7, <2>2, <2>3, TakenElsewhere
<1>16. CASE WindowCloses
  <2>1. /\ UNCHANGED <<step, at, first, verdict, locked, memory, loaded>>
        /\ status = "window" /\ status' = "busy" /\ step # "load"
    BY <1>3, <1>16 DEF WindowCloses, driver
  <2>2. Taken
    BY <1>3, <2>1 DEF Taken
  <2>3. WindowEnd' = WindowEnd
    BY <1>1, <2>1, WindowFixed
  <2> QED BY <1>2, <2>1, <2>2, <2>3 DEF TakenInv, FromFirst, Upto, Holds, InLoad
<1>17. CASE CycleEnds
  <2>1. /\ UNCHANGED <<step, at, first, verdict>> /\ status \in {"busy", "erasing"}
        /\ status' = "ready" /\ DOMAIN loaded' = {}
    BY <1>17 DEF CycleEnds, driver, Busy, Nothing
  <2>2. FromFirst'
    BY <1>1, <1>3, <2>1, FromFirstKept
  <2>3. CASE step \in {"tblc", "poll"}
    <3>1. Taken
      BY <1>8, <1>17, <2>3 DEF Writing
    <3>2. Upto(first)' /\ Upto(at + 1)'
      BY <1>17, <2>3, <3>1, EndTaken
    <3> QED BY <1>6, <2>1, <2>2, <2>3, <3>2 DEF TakenInv
  <2>4. CASE step \notin {"tblc", "poll"}
    <3>1. step \notin Writing /\ step # "done"
      BY <1>5, <2>1, <2>4 DEF Writing
    <3> QED BY <1>6, <1>7, <2>1, <3>1, TakenElsewhere
  <2> QED BY <2>3, <2>4
<1>18. CASE UNCHANGED pageVars
  <2>1. UNCHANGED <<step, at, first, verdict, locked, memory, loaded, status>>
    BY <1>18 DEF pageVars, driver, cycle
  <2>2. WindowEnd' = WindowEnd
    BY <1>1, <2>1, WindowFixed
  <2> QED BY <1>2, <2>1, <2>2 DEF TakenInv, Taken, FromFirst, Upto, Holds, InLoad
<1> QED BY <1>1, <1>9, <1>10, <1>11, <1>12, <1>13, <1>14, <1>15, <1>16, <1>17, <1>18, Moves
    DEF PageNext, Finished, Sends

-----------------------------------------------------------------------------
(* How a sound part can fail: not at all. *)
Excused == (family = "5v" /\ Refused5v) \/ (family = "28c" /\ locked /\ skip)

LEMMA CannotTimeOut ==
  ASSUME BaseInv, RestInv, EraseInv, SdpInv, TakenInv, Sound, Polling, status = "ready",
         ~Matches(memory[Polled])
  PROVE  Excused
<1>1. fault = "none" /\ step \in {"poll", "erasing"}
  BY DEF Sound, Polling
<1>2. step = "poll"
  <2> SUFFICES ASSUME step = "erasing" PROVE FALSE
    BY <1>1
  <2>1. EraseDone
    BY <1>1 DEF EraseInv
  <2>2. EraseAddress \in Cells /\ (family = "nor" => EraseAddress = job.at)
    BY PlaceFacts DEF BaseInv, EraseAddress
  <2>3. memory[EraseAddress] = Blank
    BY <2>1, <2>2 DEF EraseDone
  <2> QED BY <2>3 DEF Polled, Matches, Expected
<1>3. task = "write" /\ ~Taken
  <2>1. task = "write"
    BY <1>2 DEF BaseInv, PlaceInv, Writing
  <2> SUFFICES ASSUME Taken PROVE FALSE
    BY <2>1
  <2>2. Upto(at + 1)
    BY <1>2 DEF TakenInv
  <2>3. Address \in Written /\ Address < job.at + (at + 1)
        /\ Wanted = job.bytes[Address - job.at + 1]
    BY PlaceFacts DEF BaseInv, Address
  <2>4. memory[Address] = Wanted
    BY <2>2, <2>3 DEF Upto, Holds
  <2> QED BY <1>2, <2>4 DEF Polled, Matches, Expected
<1>4. family = "28c" /\ locked
  BY <1>3 DEF Taken
<1> QED BY <1>1, <1>2, <1>4 DEF SdpInv, Writing, Excused

LEMMA NextError ==
  BaseInv /\ RestInv /\ EraseInv /\ SdpInv /\ TakenInv /\ ErrorInv /\ [PageNext]_pageVars
    => ErrorInv'
<1> SUFFICES ASSUME BaseInv, RestInv, EraseInv, SdpInv, TakenInv, ErrorInv, [PageNext]_pageVars
             PROVE  ErrorInv'
  OBVIOUS
<1>1. BaseInv' /\ UNCHANGED command
  BY NextBase DEF PageNext, WindowCloses, CycleEnds, Finished, pageVars, command
<1>2. UNCHANGED <<family, task, request, skip, job, fault, before>> /\ (Sound' <=> Sound)
      /\ (Refused5v' <=> Refused5v)
  BY <1>1, CommandFixed
<1> SUFFICES ASSUME Sound, verdict' = "error" PROVE Excused'
  BY <1>2 DEF ErrorInv, Excused
<1>3. fault = "none" /\ Timely
  BY DEF Sound, Timely
<1>4. locked' = locked => (Excused' <=> Excused)
  BY <1>2 DEF Excused
<1>5. (verdict = "none" <=> step # "done") /\ (verdict = "error" => Excused)
      /\ verdict \in {"none", "ok", "error"}
  BY DEF BaseInv, PlaceInv, PageTypeInv, DriverType, ErrorInv, Excused
<1>6. CASE Sends
  <2>1. verdict' = verdict /\ step # "done"
    BY <1>6, SendsLoaded DEF Sends, SdpUnlock, SdpLock, Erase28c, EraseFlash, Load28c,
        Load5v, LoadNor
  <2> QED BY <1>5, <2>1
<1>7. CASE Poll /\ Still /\ (Believes \/ ReadsOn)
  <2>1. verdict' = verdict /\ locked' = locked
    BY <1>7 DEF Still, Believes, Ready, ReadsOn
  <2> QED BY <1>4, <1>5, <2>1
<1>8. CASE PollTimesOut
  <2>1. locked' = locked /\ Polling /\ status = "ready" /\ ~Matches(memory[Polled])
    BY <1>3, <1>8 DEF PollTimesOut, Same, cycle
  <2> QED BY <1>4, <2>1, CannotTimeOut
<1>9. CASE EraseChecked
  <2>1. step = "check" /\ locked' = locked
    BY <1>9 DEF EraseChecked, Same, cycle
  <2>2. status = "ready" /\ EraseDone
    BY <1>3, <2>1 DEF RestInv, TimelyInv, EraseInv
  <2>3. EraseAddress \in Cells /\ (family = "nor" => EraseAddress = job.at)
    BY PlaceFacts DEF BaseInv, EraseAddress
  <2>4. memory[EraseAddress] = Blank
    BY <2>2, <2>3 DEF EraseDone
  <2>5. Shows(Polled) = {Blank}
    BY <2>1, <2>2, <2>4 DEF Shows, Polled
  <2>6. verdict' # "error"
    BY <1>5, <1>9, <2>1, <2>5 DEF EraseChecked, Goto, Answer
  <2> QED BY <2>6
<1>10. CASE Readback
  <2>1. step = "readback" /\ locked' = locked /\ family = "28c" /\ task = "write"
    BY <1>10 DEF Readback, Same, cycle, BaseInv, PlaceInv, Writing
  <2>2. status = "ready"
    BY <1>3, <2>1 DEF RestInv, TimelyInv
  <2>3. CASE Taken
    <3>1. Upto(WindowEnd + 1) /\ WindowEnd \in first..(Length - 1) /\ at <= WindowEnd
      BY <2>1, <2>3 DEF TakenInv, BaseInv, ChunkInv
    <3>2. /\ Address \in Written /\ Address < job.at + (WindowEnd + 1)
          /\ Wanted = job.bytes[Address - job.at + 1]
      BY <3>1, PlaceFacts DEF BaseInv, Address
    <3>3. memory[Address] = Wanted
      BY <3>1, <3>2 DEF Upto, Holds
    <3>4. Shows(Address) = {Wanted}
      BY <2>2, <3>3 DEF Shows
    <3>5. verdict' # "error"
      BY <1>5, <1>10, <2>1, <3>4 DEF Readback, Goto, Answer
    <3> QED BY <3>5
  <2>4. CASE ~Taken
    <3>1. locked
      BY <2>1, <2>4 DEF Taken
    <3>2. skip
      BY <1>3, <2>1, <3>1 DEF SdpInv, Writing
    <3>3. Excused
      BY <2>1, <3>1, <3>2 DEF Excused
    <3> QED BY <1>4, <2>1, <3>3
  <2> QED BY <2>3, <2>4
<1>11. CASE Refuse5v
  <2>1. family = "5v" /\ Refused5v
    BY <1>11 DEF Refuse5v
  <2> QED BY <1>2, <2>1 DEF Excused
<1>12. CASE \/ Advance \/ SdpUnlockSkipped \/ SdpWaited \/ Delayed \/ Start5v \/ TblcPasses
            \/ StartNor \/ Settled
  <2>1. verdict' = verdict \/ verdict' = "ok"
    BY <1>12 DEF Advance, SdpUnlockSkipped, SdpWaited, Delayed, Start5v, TblcPasses,
        StartNor, Settled, Goto, Answer
  <2>2. step # "done"
    BY <1>12 DEF Advance, SdpUnlockSkipped, SdpWaited, Delayed, Start5v, TblcPasses,
        StartNor, Settled
  <2> QED BY <1>5, <2>1, <2>2
<1>13. CASE CycleEnds
  <2>1. UNCHANGED <<step, verdict>> /\ status # "ready"
    BY <1>13 DEF CycleEnds, driver, Busy
  <2>2. step # "done"
    BY <1>3, <2>1 DEF RestInv, TimelyInv
  <2> QED BY <1>5, <2>1, <2>2
<1>14. CASE WindowCloses \/ UNCHANGED pageVars
  <2>1. verdict' = verdict /\ locked' = locked
    BY <1>14 DEF WindowCloses, pageVars, driver, cycle
  <2> QED BY <1>4, <1>5, <2>1
<1> QED BY <1>1, <1>6, <1>7, <1>8, <1>9, <1>10, <1>11, <1>12, <1>13, <1>14, Moves

(* Everything that is known of a command. *)
PageInv ==
  /\ BaseInv /\ RestInv /\ ReadBackInv /\ EraseInv /\ SdpInv /\ BlankInv /\ TakenInv
  /\ ErrorInv

LEMMA PageInvHolds == PageSpec => []PageInv
<1>1. PageInit => PageInv
  BY InitBase, InitRest, InitReadBack, InitErase, InitTaken DEF PageInv
<1>2. PageInv /\ [PageNext]_pageVars => PageInv'
  BY NextBase, NextRest, NextReadBack, NextErase, NextSdp, NextBlank, NextTaken, NextError
      DEF PageInv
<1> QED BY <1>1, <1>2, PTL DEF PageSpec

(* PageWrite!SoundPartSucceeds, for every block, page size and content: though a read in
   each cycle may show anything, no driver reports failure of a part that works (by the
   poll's bound, flash_util_wait_erase or the 28C read-back) or returns before it is at
   rest, but for a block that 5 V flash refuses and a protection left on. *)
THEOREM SoundPartsSucceed == PageSpec => []SoundPartSucceeds
<1>1. ASSUME PageInv, Sound, step = "done"
      PROVE  status = "ready" /\ (verdict = "error" => Excused)
  <2>1. Timely
    BY <1>1 DEF Sound, Timely
  <2> QED BY <1>1, <2>1 DEF PageInv, RestInv, TimelyInv, ErrorInv, Excused
<1>2. PageInv => SoundPartSucceeds
  BY <1>1 DEF SoundPartSucceeds, Excused
<1> QED BY <1>2, PageInvHolds, PTL

(* PageWrite!SuccessIsStored, for every block, page size and content: what the drivers
   report good is in the part.  For flash because a sound part takes every byte of a page
   (TakenInv), for 28C parts of any fault because eeprom28c_verify_page_readback has seen
   it there (ReadBackInv), for the erases because they are waited for. *)
THEOREM GoodMeansStored == PageSpec => []SuccessIsStored
<1> DEFINE Stored == \A a \in Written : Holds(a)
<1>1. ASSUME PageInv, verdict = "ok", task = "write",
             Sound \/ (family = "28c" /\ ~(Untimed /\ blind))
      PROVE  Stored
  <2>1. Upto(Length) => Stored
    <3>1. \A a \in Written : a < job.at + Length
      BY <1>1, PlaceFacts DEF PageInv, BaseInv, Written
    <3> QED BY <3>1 DEF Upto
  <2>2. CASE family = "28c"
    <3>1. ~blind
      <4>1. CASE Untimed
        BY <1>1, <4>1 DEF Sound, Untimed
      <4>2. CASE ~Untimed
        BY <1>1, <4>2 DEF Untimed, Timely, PageInv, RestInv, TimelyInv
      <4> QED BY <4>1, <4>2
    <3> QED BY <1>1, <2>1, <2>2, <3>1 DEF PageInv, ReadBackInv
  <2>3. CASE family # "28c"
    <3>1. Taken
      BY <1>1, <2>3 DEF Taken
    <3> QED BY <1>1, <2>1, <3>1 DEF PageInv, TakenInv
  <2> QED BY <2>2, <2>3
<1>2. ASSUME PageInv, verdict = "ok", task = "erase", family # "28c",
             family = "nor" \/ fault # "stuck"
      PROVE  memory[EraseAddress] = Blank
  BY <1>2 DEF PageInv, EraseInv
<1>3. ASSUME PageInv, verdict = "ok", family = "28c", Sound
      PROVE  /\ task = "erase" => \A a \in Cells : memory[a] = Blank
             /\ task \in {"lock", "unlock"} => memory = before /\ locked = (task = "lock")
  <2>1. fault = "none" /\ Timely /\ step = "done"
    BY <1>3 DEF Sound, Timely, PageInv, BaseInv, PlaceInv
  <2>2. status = "ready"
    BY <1>3, <2>1 DEF PageInv, RestInv, TimelyInv
  <2> QED BY <1>3, <2>1, <2>2 DEF PageInv, SdpInv
<1>4. ASSUME PageInv, task \in {"lock", "unlock"} PROVE family = "28c"
  BY <1>4 DEF PageInv, BaseInv, PageTypeInv, CommandType, Tasks
<1>5. PageInv => SuccessIsStored
  <2> SUFFICES ASSUME PageInv, verdict = "ok" PROVE SuccessIsStored
    BY DEF SuccessIsStored
  <2> HIDE DEF Stored
  <2>1. (task = "write" /\ (Sound \/ (family = "28c" /\ ~(Untimed /\ blind))))
          => Stored
    BY <1>1
  <2> USE DEF Stored
  <2> QED BY <2>1, <1>2, <1>3, <1>4 DEF SuccessIsStored
<1> QED BY <1>5, PageInvHolds, PTL
=================================================================================
