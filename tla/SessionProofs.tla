----------------------------- MODULE SessionProofs -----------------------------
(* Theorems about Session for every set of requests, buffer size, timeout and board. *)
EXTENDS Session, SequenceTheorems, TLAPS

(* Where the firmware can be: it waits for an ACK or runs a callback only for a
   memory command and in the phases that do so, it reads the chip only with the cursor
   inside the region, and it started a wait before the watchdog ran out. *)
ControlInv ==
  /\ pc # "loop" => cmd \in MemoryCmds
  /\ pc = "chip" => state \in {1, 3, 5}
  /\ pc = "ack" => state \in {0, 2, 3, 4} /\ elapsed < CmdTimeout + waited
  /\ pc = "ack" /\ state = 3 => cmd = "READ"
  /\ pc = "chip" /\ state = 3 /\ cmd = "READ" => address < OpEnd(req)

(* The host's ACK came before any phase ran, and before any programming voltage
   under a memory command. *)
ConsentInv ==
  /\ cmd \in MemoryCmds /\ state # 0 => acks # 0
  /\ HvNeedsConsent

(* What a write has programmed is the region up to the cursor; the block in hand
   fits in what is left; a declared region is left only at its end. *)
WriteInv ==
  cmd = "WRITE" =>
    /\ req.address <= address /\ address <= OpEnd(req)
    /\ covered = req.address..(address - 1)
    /\ pc = "chip" /\ state = 3 => dataSize <= OpEnd(req) - address
    /\ state >= 4 /\ req.regionEnd # 0 => address = OpEnd(req)

(* What a read has delivered lies in its region. *)
ReadInv ==
  cmd = "READ" =>
    /\ req.address <= address
    /\ covered \subseteq req.address..(OpEnd(req) - 1)

LEMMA CmdsFacts ==
  /\ MemoryCmds \subseteq Cmds /\ VoltageCmds \subseteq Cmds /\ QueryCmds \subseteq Cmds
  /\ "IDLE" \in Cmds /\ "IDLE" \notin MemoryCmds /\ "IDLE" \notin VoltageCmds
  /\ "IDLE" \notin QueryCmds
  /\ MemoryCmds \cap VoltageCmds = {}
  /\ "READ" \in MemoryCmds /\ "WRITE" \in MemoryCmds
BY DEF Cmds, MemoryCmds, VoltageCmds, QueryCmds

(* The queue of the link: what reading its head leaves. *)
LEMMA RxFacts ==
  ASSUME rx \in Seq(Message), rx # <<>>
  PROVE  /\ Head(rx) \in Message
         /\ Tail(rx) \in Seq(Message)
OBVIOUS

LEMMA DrainedType ==
  ASSUME NEW s \in Seq(Message)
  PROVE  Drained(s) \in Seq(Message)
BY DEF Drained

LEMMA OpEndType ==
  ASSUME NEW r \in Request
  PROVE  OpEnd(r) \in Nat
BY DEF OpEnd, Request

LEMMA ChunkSizeFacts ==
  ASSUME NEW r \in Request, NEW a \in Nat, a < OpEnd(r)
  PROVE  ChunkSize(r, a) \in Nat \ {0} /\ a + ChunkSize(r, a) <= OpEnd(r)
BY OpEndType, SessionAssumption DEF ChunkSize

LEMMA IntervalFacts ==
  /\ \A a \in Nat, b \in Int : a..b \subseteq Nat
  /\ \A a \in Nat, b \in Nat, n \in Nat :
       a <= b => (a..(b - 1)) \cup (b..(b + n - 1)) = a..(b + n - 1)
OBVIOUS

LEMMA MessageFacts ==
  /\ \A m \in Message : m.t = "DATA" => m.n \in 0..BufferSize
  /\ \A m \in Message : m.t = "CMD" => m.req \in Request
BY SessionAssumption DEF Message

-----------------------------------------------------------------------------
(* Types and control. *)
LEMMA CommandDoneData ==
  ASSUME DataOK, NEW rest \in Seq(Message), CommandDone(rest),
         out' \in Frames, due' \in Nat
  PROVE  DataOK' /\ ControlInv'
BY CmdsFacts, DrainedType, SessionAssumption
   DEF DataOK, ControlInv, CommandDone, ghosts

LEMMA AbortData ==
  ASSUME DataOK, NEW rest \in Seq(Message), NEW frame \in Frames, Abort(rest, frame)
  PROVE  DataOK' /\ ControlInv'
BY CommandDoneData DEF Abort, Emit

LEMMA InitData == Init => DataOK /\ ControlInv
<1> SUFFICES ASSUME Init PROVE DataOK /\ ControlInv
  OBVIOUS
<1>1. ZeroRequest \in Request
  BY CmdsFacts DEF ZeroRequest, Request
<1> QED
  BY <1>1, CmdsFacts, SessionAssumption DEF Init, DataOK, ControlInv, Frames

(* The control structure of one step: one case per action. *)
LEMMA DataStep == DataOK /\ ControlInv /\ [Next]_vars => DataOK' /\ ControlInv'
<1> SUFFICES ASSUME DataOK, ControlInv, [Next]_vars PROVE DataOK' /\ ControlInv'
  OBVIOUS
<1> USE SessionAssumption, CmdsFacts
<1>1. CASE IdleCommand
  <2> DEFINE r == Head(rx).req
  <2>1. r \in Request /\ Tail(rx) \in Seq(Message)
    BY <1>1, RxFacts, MessageFacts DEF IdleCommand, DataOK
  <2>2. CASE Decodes(r) /\ Configures(r)
    <3>1. rx' \in Seq(Message)
      BY <1>1, <2>1, <2>2, DrainedType DEF IdleCommand
    <3>2. r.cmd \in Cmds /\ r.address \in Nat
      BY <2>1 DEF Request
    <3> QED
      BY <1>1, <2>1, <2>2, <3>1, <3>2
         DEF IdleCommand, Emit, DataOK, ControlInv, Frames
  <2>3. CASE ~(Decodes(r) /\ Configures(r))
    BY <1>1, <2>1, <2>3, AbortData DEF IdleCommand, Frames
  <2> QED
    BY <2>2, <2>3
<1>2. CASE IdleGarbage
  <2>1. \A i \in 1..Len(rx) : SubSeq(rx, i + 1, Len(rx)) \in Seq(Message)
    BY DEF DataOK
  <2>2. CASE rx' = <<>>
    BY <1>2, <2>2 DEF IdleGarbage, Emit, handle, ghosts, DataOK, ControlInv, Frames
  <2>3. CASE rx' # <<>>
    <3>1. PICK i \in 1..Len(rx) : rx' = SubSeq(rx, i + 1, Len(rx))
      BY <1>2, <2>3 DEF IdleGarbage
    <3>2. rx' \in Seq(Message)
      BY <2>1, <3>1
    <3> QED
      BY <1>2, <3>2 DEF IdleGarbage, Emit, handle, ghosts, DataOK, ControlInv, Frames
  <2> QED
    BY <2>2, <2>3
<1>3. CASE Watchdog \/ Query \/ UnknownCommand \/ Refuse \/ CursorPastEnd
           \/ AckTimesOut \/ ChipFails
  BY <1>3, AbortData
     DEF Watchdog, Query, UnknownCommand, Refuse, CursorPastEnd, AckTimesOut, ChipFails,
         Frames, DataOK
<1>4. CASE VoltageStart
  <2>1. CASE Revision0
    BY <1>4, <2>1, AbortData DEF VoltageStart, Frames, DataOK
  <2>2. CASE ~Revision0
    <3>1. /\ rx' \in Seq(Message) /\ pc = "loop" /\ state' = 1
          /\ out' \in Frames /\ due' = 0
          /\ UNCHANGED <<cmd, req, address, dataSize, pc, waited, elapsed, ghosts>>
      BY <1>4, <2>2, DrainedType DEF VoltageStart, Running, Emit, Frames, DataOK
    <3> QED
      BY <3>1 DEF ghosts, DataOK, ControlInv
  <2> QED
    BY <2>1, <2>2
<1>5. CASE VoltageMessage
  <2>1. Head(rx) \in Message /\ Tail(rx) \in Seq(Message)
    BY <1>5, RxFacts DEF VoltageMessage, DataOK
  <2>2. CASE Head(rx) = Done
    BY <1>5, <2>1, <2>2, CommandDoneData DEF VoltageMessage, link, DataOK
  <2>3. CASE Head(rx) # Done
    <3>1. dataSize' \in Nat /\ elapsed' \in {0, elapsed}
      BY <1>5, <2>1, <2>3, MessageFacts DEF VoltageMessage, DataOK
    <3>3. /\ rx' \in Seq(Message) /\ pc = "loop"
          /\ UNCHANGED <<cmd, req, state, address, pc, waited, ghosts>>
      BY <1>5, <2>1, <2>3 DEF VoltageMessage, Running
    <3>2. out' \in Frames /\ due' \in Nat
      BY <1>5, <2>3 DEF VoltageMessage, Emit, link, DataOK, Frames
    <3> QED
      BY <3>1, <3>2, <3>3 DEF ghosts, DataOK, ControlInv
  <2> QED
    BY <2>2, <2>3
<1>6. CASE AwaitPhaseAck
  BY <1>6 DEF AwaitPhaseAck, Engine, Running, StartAckWait, handle, link, ghosts,
              DataOK, ControlInv
<1>7. CASE EndedMessage
  <2>1. Tail(rx) \in Seq(Message)
    BY <1>7, RxFacts DEF EndedMessage, DataOK
  <2>2. CASE Abort(Tail(rx), "ERROR")
    BY <2>1, <2>2, AbortData DEF Frames
  <2>3. CASE CommandDone(Tail(rx)) /\ UNCHANGED link
    BY <2>1, <2>3, CommandDoneData DEF link, DataOK
  <2>4. CASE rx' = Tail(rx) /\ UNCHANGED <<handle, pc, waited, elapsed, hv, link, ghosts>>
    BY <2>1, <2>4 DEF handle, link, ghosts, DataOK, ControlInv
  <2> QED
    BY <1>7, <2>2, <2>3, <2>4 DEF EndedMessage
<1>8. CASE SimpleMain \/ ReadMain
  BY <1>8 DEF SimpleMain, ReadMain, Engine, Running, CallMain, link, ghosts,
              DataOK, ControlInv
<1>9. CASE CursorAtEnd
  BY <1>9 DEF CursorAtEnd, Engine, Running, MainDone, Emit, ghosts, DataOK, ControlInv,
              Frames
<1>10. CASE RequestData
  BY <1>10 DEF RequestData, Emit, ghosts, DataOK, ControlInv, Frames
<1>11. CASE WriteSkipsJunk
  BY <1>11, RxFacts DEF WriteSkipsJunk, handle, link, ghosts, DataOK, ControlInv
<1>12. CASE WriteData
  <2>1. Head(rx).n \in Nat /\ Tail(rx) \in Seq(Message) /\ pc = "loop" /\ cmd = "WRITE"
    BY <1>12, RxFacts, MessageFacts
       DEF WriteData, InWriteMain, Engine, Running, DataOK
  <2>2. CASE Head(rx).n <= OpEnd(req) - address
    BY <1>12, <2>1, <2>2
       DEF WriteData, InWriteMain, CallMain, link, ghosts, DataOK, ControlInv
  <2>3. CASE ~(Head(rx).n <= OpEnd(req) - address)
    BY <1>12, <2>1, <2>3, AbortData DEF WriteData, Frames
  <2> QED
    BY <2>2, <2>3
<1>13. CASE WriteDone
  <2>1. Tail(rx) \in Seq(Message) /\ pc = "loop"
    BY <1>13, RxFacts DEF WriteDone, InWriteMain, Engine, Running, DataOK
  <2>2. CASE req.regionEnd # 0
    BY <1>13, <2>1, <2>2, AbortData DEF WriteDone, Frames
  <2>3. CASE req.regionEnd = 0
    <3>1. /\ rx' \in Seq(Message) /\ state' = 4 /\ out' \in Frames /\ due' = 0
          /\ UNCHANGED <<cmd, req, address, dataSize, pc, waited, elapsed, ghosts>>
      BY <1>13, <2>1, <2>3 DEF WriteDone, MainDone, Emit, Frames
    <3> QED
      BY <2>1, <3>1 DEF ghosts, DataOK, ControlInv
  <2> QED
    BY <2>2, <2>3
<1>14. CASE WriteRefuses \/ AckWaitFails
  BY <1>14, RxFacts, AbortData DEF WriteRefuses, AckWaitFails, Frames, DataOK
<1>15. CASE AckOpensPhase
  BY <1>15, RxFacts
     DEF AckOpensPhase, InAckWait, InitDone, EndDone, Emit, link,
         DataOK, ControlInv, Frames
<1>16. CASE AckOfChunk
  BY <1>16, RxFacts
     DEF AckOfChunk, InAckWait, MainDone, Emit, link, ghosts, DataOK, ControlInv, Frames
<1>17. CASE AckWaitIgnores
  BY <1>17, RxFacts, MessageFacts
     DEF AckWaitIgnores, InAckWait, link, ghosts, DataOK, ControlInv
<1>18. CASE InitReturns
  BY <1>18, DrainedType
     DEF InitReturns, ChipReturns, InitDone, Emit, InitRaisesHv, ghosts,
         DataOK, ControlInv, Frames
<1>19. CASE ReadReturns
  <2>1. req \in Request /\ address \in Nat /\ covered \subseteq Nat
    BY DEF DataOK
  <2>2. dataSize' \in Nat
    BY <1>19, <2>1, ChunkSizeFacts DEF ReadReturns, ChipReturns, ControlInv
  <2>3. covered' \subseteq Nat
    <3>1. address..(address + dataSize' - 1) \subseteq Nat
      <4>1. address + dataSize' - 1 \in Int
        BY <2>1, <2>2
      <4> QED
        BY <2>1, <4>1, IntervalFacts
    <3>2. covered' = covered \cup address..(address + dataSize' - 1)
      BY <1>19 DEF ReadReturns
    <3> QED
      BY <2>1, <3>1, <3>2
  <2> QED
    BY <1>19, <2>2, <2>3, DrainedType
       DEF ReadReturns, ChipReturns, StartAckWait, Emit, DataOK, ControlInv, Frames
<1>20. CASE WriteReturns
  BY <1>20, DrainedType DEF WriteReturns, ChipReturns, link, DataOK, ControlInv
<1>21. CASE SimpleReturns
  BY <1>21, DrainedType
     DEF SimpleReturns, ChipReturns, MainDone, Emit, ghosts, DataOK, ControlInv, Frames
<1>22. CASE EndReturns
  BY <1>22, DrainedType
     DEF EndReturns, ChipReturns, EndDone, Emit, ghosts, DataOK, ControlInv, Frames
<1>23. CASE Tick /\ UNCHANGED due
  BY <1>23 DEF Tick, Polling, InAckWait, InWriteMain, Engine, Running, handle, ghosts,
               DataOK, ControlInv
<1>24. CASE FreeHost
  BY <1>24 DEF FreeHost, Arrives, handle, DataOK, ControlInv
<1>25. CASE UNCHANGED vars
  BY <1>25 DEF vars, DataOK, ControlInv
<1> QED
  BY <1>1, <1>2, <1>3, <1>4, <1>5, <1>6, <1>7, <1>8, <1>9, <1>10, <1>11, <1>12, <1>13,
     <1>14, <1>15, <1>16, <1>17, <1>18, <1>19, <1>20, <1>21, <1>22, <1>23, <1>24, <1>25
     DEF Next, Firmware

(* The flags never leave BOOLEAN; kept apart from the data, as the step needs no
   arithmetic. *)
LEMMA CommandDoneFlags ==
  ASSUME FlagsOK, NEW rest, CommandDone(rest), answered' \in BOOLEAN
  PROVE  FlagsOK'
BY Zenon DEF FlagsOK, CommandDone, ghosts

LEMMA FlagsStep == FlagsOK /\ [Next]_vars => FlagsOK'
<1> SUFFICES ASSUME FlagsOK, [Next]_vars PROVE FlagsOK'
  OBVIOUS
<1> USE DEF FlagsOK
<1>a. ASSUME NEW rest, NEW frame, Abort(rest, frame)
      PROVE  FlagsOK'
  BY <1>a, CommandDoneFlags DEF Abort, Emit
<1>1. CASE IdleCommand
  BY <1>1, <1>a, Zenon DEF IdleCommand, Emit
<1>2. CASE IdleGarbage
  BY <1>2, Zenon DEF IdleGarbage, Emit, handle, ghosts
<1>3. CASE \/ Watchdog \/ Query \/ UnknownCommand \/ Refuse \/ CursorPastEnd
           \/ AckTimesOut \/ ChipFails \/ WriteRefuses \/ AckWaitFails
  BY <1>3, <1>a, Zenon DEF Watchdog, Query, UnknownCommand, Refuse, CursorPastEnd,
     AckTimesOut, ChipFails, WriteRefuses, AckWaitFails
<1>4. CASE VoltageStart
  BY <1>4, <1>a, Zenon DEF VoltageStart, Emit, ghosts
<1>5. CASE VoltageMessage \/ EndedMessage
  BY <1>5, <1>a, CommandDoneFlags, Zenon
     DEF VoltageMessage, EndedMessage, Emit, handle, link, ghosts
<1>6. CASE AwaitPhaseAck \/ SimpleMain \/ ReadMain \/ WriteSkipsJunk \/ AckWaitIgnores
  BY <1>6, Zenon DEF AwaitPhaseAck, SimpleMain, ReadMain, WriteSkipsJunk, AckWaitIgnores,
     CallMain, handle, link, ghosts
<1>7. CASE CursorAtEnd \/ RequestData
  BY <1>7, Zenon DEF CursorAtEnd, RequestData, MainDone, Emit, ghosts
<1>8. CASE WriteData \/ WriteDone
  BY <1>8, <1>a, Zenon DEF WriteData, WriteDone, CallMain, MainDone, Emit, link, ghosts
<1>9. CASE AckOpensPhase \/ AckOfChunk
  BY <1>9, Zenon DEF AckOpensPhase, AckOfChunk, InitDone, EndDone, MainDone, Emit, link,
     ghosts
<1>10. CASE InitReturns
  BY <1>10, Zenon DEF InitReturns, InitRaisesHv, InitDone, Emit, ghosts
<1>11. CASE ReadReturns \/ WriteReturns \/ SimpleReturns \/ EndReturns
  BY <1>11, Zenon DEF ReadReturns, WriteReturns, SimpleReturns, EndReturns, MainDone,
     EndDone, Emit, link, ghosts
<1>12. CASE Tick
  BY <1>12, Zenon DEF Tick, handle, ghosts
<1>13. CASE FreeHost
  BY <1>13, Zenon DEF FreeHost, Arrives, handle
<1>14. CASE UNCHANGED vars
  BY <1>14, Zenon DEF vars
<1> QED
  BY <1>1, <1>2, <1>3, <1>4, <1>5, <1>6, <1>7, <1>8, <1>9, <1>10, <1>11, <1>12, <1>13,
     <1>14 DEF Next, Firmware

-----------------------------------------------------------------------------
(* Safety.  Every exit goes through CommandDone, which leaves nothing to prove: no
   command, no rail.  What remains is the steps inside a command. *)
LEMMA CommandDoneSafe ==
  ASSUME NEW rest, CommandDone(rest)
  PROVE  ConsentInv' /\ WriteInv' /\ ReadInv'
BY CmdsFacts DEF CommandDone, ConsentInv, HvNeedsConsent, WriteInv, ReadInv

LEMMA AbortSafe ==
  ASSUME NEW rest, NEW frame, Abort(rest, frame)
  PROVE  ConsentInv' /\ WriteInv' /\ ReadInv'
BY CommandDoneSafe DEF Abort

LEMMA ExitsSafe ==
  ASSUME \/ Watchdog \/ Query \/ UnknownCommand \/ Refuse \/ CursorPastEnd
         \/ AckTimesOut \/ ChipFails \/ WriteRefuses \/ AckWaitFails
  PROVE  ConsentInv' /\ WriteInv' /\ ReadInv'
BY AbortSafe DEF Watchdog, Query, UnknownCommand, Refuse, CursorPastEnd, AckTimesOut,
   ChipFails, WriteRefuses, AckWaitFails

LEMMA ConsentStep == TypeOK /\ ControlInv /\ ConsentInv /\ [Next]_vars => ConsentInv'
<1> SUFFICES ASSUME TypeOK, ControlInv, ConsentInv, [Next]_vars PROVE ConsentInv'
  OBVIOUS
<1> USE CmdsFacts DEF ConsentInv, HvNeedsConsent
<1>1. CASE IdleCommand
  BY <1>1, AbortSafe DEF IdleCommand
<1>2. CASE VoltageStart
  BY <1>2, AbortSafe DEF VoltageStart, Running
<1>3. CASE VoltageMessage
  BY <1>3, CommandDoneSafe DEF VoltageMessage, Running, ghosts
<1>4. CASE EndedMessage
  BY <1>4, CommandDoneSafe, AbortSafe DEF EndedMessage, handle, ghosts
<1>5. CASE CursorAtEnd
  BY <1>5 DEF CursorAtEnd, MainDone, ghosts
<1>6. CASE WriteData
  BY <1>6, AbortSafe DEF WriteData, CallMain, ghosts
<1>7. CASE WriteDone
  BY <1>7, AbortSafe DEF WriteDone, InWriteMain, MainDone, ghosts
<1>8. CASE AckOpensPhase
  <2>1. acks' # 0
    BY <1>8 DEF AckOpensPhase, TypeOK, DataOK
  <2>2. pc = "ack" /\ UNCHANGED <<cmd, hv>>
    BY <1>8 DEF AckOpensPhase, InAckWait
  <2> QED
    BY <2>1, <2>2 DEF ControlInv
<1>9. CASE AckOfChunk
  BY <1>9 DEF AckOfChunk, MainDone, ghosts
<1>10. CASE InitReturns \/ SimpleReturns \/ EndReturns
  BY <1>10 DEF InitReturns, SimpleReturns, EndReturns, ChipReturns, InitDone, MainDone,
     EndDone, ghosts, ControlInv
<1>11. CASE ReadReturns \/ WriteReturns
  <2>1. cmd \in MemoryCmds /\ state = 3 /\ UNCHANGED <<cmd, state, acks>>
    BY <1>11 DEF ReadReturns, WriteReturns
  <2> QED
    BY <2>1
<1>12. CASE UNCHANGED <<cmd, state, hv, acks>>
  BY <1>12
<1>13. CASE \/ IdleGarbage \/ AwaitPhaseAck \/ SimpleMain \/ ReadMain \/ RequestData
            \/ WriteSkipsJunk \/ AckWaitIgnores \/ Tick \/ FreeHost \/ UNCHANGED vars
  BY <1>12, <1>13 DEF IdleGarbage, AwaitPhaseAck, SimpleMain, ReadMain, RequestData,
     WriteSkipsJunk, AckWaitIgnores, Tick, FreeHost, Arrives, CallMain, handle, ghosts, vars
<1> QED
  BY <1>1, <1>2, <1>3, <1>4, <1>5, <1>6, <1>7, <1>8, <1>9, <1>10, <1>11, <1>13, ExitsSafe
     DEF Next, Firmware

LEMMA WriteStep == TypeOK /\ ControlInv /\ WriteInv /\ [Next]_vars => WriteInv'
<1> SUFFICES ASSUME TypeOK, ControlInv, WriteInv, [Next]_vars PROVE WriteInv'
  OBVIOUS
<1> USE CmdsFacts
<1>0. req \in Request /\ req.address \in Nat /\ OpEnd(req) \in Nat /\ address \in Nat
      /\ dataSize \in Nat
  BY OpEndType DEF TypeOK, DataOK, Request
<1>1. CASE IdleCommand
  <2> DEFINE r == Head(rx).req
  <2>1. CASE Decodes(r) /\ Configures(r)
    <3>1. r \in Request
      BY <1>1, RxFacts, MessageFacts DEF IdleCommand, TypeOK, DataOK
    <3>2. r.address \in Nat /\ OpEnd(r) \in Nat
      BY <3>1, OpEndType DEF Request
    <3>3. r.cmd = "WRITE" => r.address <= OpEnd(r)
      BY <2>1 DEF Decodes
    <3>4. /\ cmd' = r.cmd /\ req' = r /\ state' = 0 /\ covered' = {}
          /\ r.cmd = "WRITE" => address' = r.address
      BY <1>1, <2>1 DEF IdleCommand
    <3>5. OpEnd(req)' = OpEnd(r)
      BY <3>4 DEF OpEnd
    <3> QED
      BY <3>2, <3>3, <3>4, <3>5 DEF WriteInv
  <2>2. CASE ~(Decodes(r) /\ Configures(r))
    BY <1>1, <2>2, AbortSafe DEF IdleCommand
  <2> QED
    BY <2>1, <2>2
<1>2. CASE VoltageStart
  BY <1>2, AbortSafe DEF VoltageStart, Running, WriteInv, VoltageCmds
<1>3. CASE VoltageMessage
  BY <1>3, CommandDoneSafe DEF VoltageMessage, Running, WriteInv, VoltageCmds
<1>4. CASE EndedMessage
  BY <1>4, CommandDoneSafe, AbortSafe
     DEF EndedMessage, handle, ghosts, WriteInv, OpEnd
<1>5. CASE CursorAtEnd
  BY <1>0, <1>5 DEF CursorAtEnd, Engine, Running, MainDone, ghosts, WriteInv, OpEnd
<1>6. CASE WriteData
  <2>1. CASE Head(rx).n <= OpEnd(req) - address
    <3>1. /\ UNCHANGED <<cmd, req, state, address, covered>>
          /\ dataSize' = Head(rx).n /\ state = 3
      BY <1>6, <2>1 DEF WriteData, InWriteMain, CallMain, ghosts
    <3>2. OpEnd(req)' = OpEnd(req)
      BY <3>1 DEF OpEnd
    <3> QED
      BY <2>1, <3>1, <3>2 DEF WriteInv
  <2>2. CASE ~(Head(rx).n <= OpEnd(req) - address)
    BY <1>6, <2>2, AbortSafe DEF WriteData
  <2> QED
    BY <2>1, <2>2
<1>7. CASE WriteDone
  <2>1. CASE req.regionEnd = 0
    BY <1>7, <2>1 DEF WriteDone, InWriteMain, Engine, Running, MainDone, ghosts, WriteInv, OpEnd
  <2>2. CASE req.regionEnd # 0
    BY <1>7, <2>2, AbortSafe DEF WriteDone
  <2> QED
    BY <2>1, <2>2
<1>8. CASE AckOpensPhase
  <2>1. UNCHANGED <<cmd, req, address, covered>>
    BY <1>8 DEF AckOpensPhase
  <2>2. \/ state \in {0, 2} /\ state' \in {1, 2, 3} /\ (state' = 3 => pc' = "loop")
        \/ state = 4 /\ state' \in {5, 6}
    BY <1>8 DEF AckOpensPhase, InitDone, EndDone
  <2>3. OpEnd(req)' = OpEnd(req)
    BY <2>1 DEF OpEnd
  <2> QED
    BY <2>1, <2>2, <2>3 DEF WriteInv
<1>9. CASE AckOfChunk
  BY <1>9 DEF AckOfChunk, InAckWait, ControlInv, WriteInv
<1>10. CASE InitReturns \/ SimpleReturns \/ EndReturns
  BY <1>10 DEF InitReturns, SimpleReturns, EndReturns, ChipReturns, InitDone, MainDone,
     EndDone, ghosts, WriteInv, OpEnd
<1>11. CASE ReadReturns
  BY <1>11 DEF ReadReturns, WriteInv
<1>12. CASE WriteReturns
  <2>1. /\ cmd = "WRITE" /\ state = 3 /\ pc = "chip" /\ pc' = "loop"
        /\ UNCHANGED <<cmd, req, state>>
        /\ address' = address + dataSize
        /\ covered' = covered \cup address..(address + dataSize - 1)
    BY <1>12 DEF WriteReturns, ChipReturns
  <2>2. /\ req.address <= address /\ dataSize <= OpEnd(req) - address
        /\ covered = req.address..(address - 1)
    BY <2>1 DEF WriteInv
  <2>3. covered' = req.address..(address + dataSize - 1)
    BY <1>0, <2>1, <2>2, IntervalFacts
  <2>4. OpEnd(req)' = OpEnd(req)
    BY <2>1 DEF OpEnd
  <2> QED
    BY <1>0, <2>1, <2>2, <2>3, <2>4 DEF WriteInv
<1>13. CASE SimpleMain \/ ReadMain
  BY <1>13 DEF SimpleMain, ReadMain, CallMain, ghosts, WriteInv, OpEnd
<1>14. CASE AwaitPhaseAck \/ AckWaitIgnores
  BY <1>14 DEF AwaitPhaseAck, AckWaitIgnores, InAckWait, StartAckWait, handle, ghosts,
     WriteInv, OpEnd
<1>15. CASE UNCHANGED <<cmd, req, state, address, dataSize, pc, covered>>
  BY <1>15 DEF WriteInv, OpEnd
<1>16. CASE \/ IdleGarbage \/ RequestData \/ WriteSkipsJunk \/ Tick \/ FreeHost
            \/ UNCHANGED vars
  BY <1>15, <1>16 DEF IdleGarbage, RequestData, WriteSkipsJunk, Tick, FreeHost, Arrives,
     handle, ghosts, vars
<1> QED
  BY <1>1, <1>2, <1>3, <1>4, <1>5, <1>6, <1>7, <1>8, <1>9, <1>10, <1>11, <1>12, <1>13,
     <1>14, <1>16, ExitsSafe DEF Next, Firmware

LEMMA ReadStep == TypeOK /\ ControlInv /\ ReadInv /\ [Next]_vars => ReadInv'
<1> SUFFICES ASSUME TypeOK, ControlInv, ReadInv, [Next]_vars PROVE ReadInv'
  OBVIOUS
<1> USE CmdsFacts
<1>0. req \in Request /\ req.address \in Nat /\ OpEnd(req) \in Nat /\ address \in Nat
      /\ dataSize \in Nat
  BY OpEndType DEF TypeOK, DataOK, Request
<1>1. CASE IdleCommand
  <2> DEFINE r == Head(rx).req
  <2>1. CASE Decodes(r) /\ Configures(r)
    <3>1. r \in Request
      BY <1>1, RxFacts, MessageFacts DEF IdleCommand, TypeOK, DataOK
    <3>2. r.address \in Nat
      BY <3>1 DEF Request
    <3>3. /\ cmd' = r.cmd /\ req' = r /\ covered' = {}
          /\ r.cmd = "READ" => address' = r.address
      BY <1>1, <2>1 DEF IdleCommand
    <3> QED
      BY <3>2, <3>3 DEF ReadInv
  <2>2. CASE ~(Decodes(r) /\ Configures(r))
    BY <1>1, <2>2, AbortSafe DEF IdleCommand
  <2> QED
    BY <2>1, <2>2
<1>2. CASE VoltageStart \/ VoltageMessage
  BY <1>2, AbortSafe, CommandDoneSafe
     DEF VoltageStart, VoltageMessage, Running, ReadInv, VoltageCmds
<1>3. CASE EndedMessage
  BY <1>3, CommandDoneSafe, AbortSafe DEF EndedMessage, handle, ghosts, ReadInv, OpEnd
<1>4. CASE WriteData \/ WriteDone
  BY <1>4, AbortSafe
     DEF WriteData, WriteDone, InWriteMain, CallMain, MainDone, ghosts, ReadInv
<1>5. CASE AckOfChunk
  <2>1. UNCHANGED <<cmd, req, covered>> /\ address' = address + dataSize
    BY <1>5 DEF AckOfChunk, ghosts
  <2> QED
    BY <1>0, <2>1 DEF ReadInv, OpEnd
<1>6. CASE ReadReturns
  <2>1. /\ cmd = "READ" /\ address < OpEnd(req)
        /\ UNCHANGED <<cmd, req, address>> /\ dataSize' = ChunkSize(req, address)
        /\ covered' = covered \cup address..(address + dataSize' - 1)
    BY <1>6 DEF ReadReturns, ChipReturns, ControlInv
  <2>2. dataSize' \in Nat /\ address + dataSize' <= OpEnd(req)
    BY <1>0, <2>1, ChunkSizeFacts
  <2>3. address..(address + dataSize' - 1) \subseteq req.address..(OpEnd(req) - 1)
    BY <1>0, <2>1, <2>2 DEF ReadInv
  <2> QED
    BY <2>1, <2>3 DEF ReadInv, OpEnd
<1>7. CASE WriteReturns
  BY <1>7 DEF WriteReturns, ReadInv
<1>8. CASE UNCHANGED <<cmd, req, address, covered>>
  BY <1>8 DEF ReadInv, OpEnd
<1>9. CASE \/ IdleGarbage \/ AwaitPhaseAck \/ SimpleMain \/ CursorAtEnd \/ ReadMain
           \/ RequestData \/ WriteSkipsJunk \/ AckOpensPhase \/ AckWaitIgnores
           \/ InitReturns \/ SimpleReturns \/ EndReturns
           \/ Tick \/ FreeHost \/ UNCHANGED vars
  BY <1>8, <1>9 DEF IdleGarbage, AwaitPhaseAck, SimpleMain, CursorAtEnd, ReadMain,
     RequestData, WriteSkipsJunk, AckOpensPhase, AckWaitIgnores, InitReturns,
     SimpleReturns, EndReturns, Tick, FreeHost, Arrives, CallMain, handle, ghosts, vars
<1> QED
  BY <1>1, <1>2, <1>3, <1>4, <1>5, <1>6, <1>7, <1>9, ExitsSafe DEF Next, Firmware

-----------------------------------------------------------------------------
(* The inductive invariant of the session. *)
IInv == TypeOK /\ ControlInv /\ ConsentInv /\ WriteInv /\ ReadInv

LEMMA Inductive == Spec => []IInv
<1>1. Init => FlagsOK
  BY Zenon DEF Init, FlagsOK
<1>2. Init => ConsentInv /\ WriteInv /\ ReadInv
  BY CmdsFacts DEF Init, ConsentInv, HvNeedsConsent, WriteInv, ReadInv
<1> QED
  BY <1>1, <1>2, InitData, DataStep, FlagsStep, ConsentStep, WriteStep, ReadStep, PTL
     DEF Spec, TypeOK, IInv

(* Every variable keeps its type on every run, the two clocks included. *)
THEOREM TypeCorrect == Spec => []TypeOK
BY Inductive, PTL DEF IInv

(* No programming voltage without a voltage command or an acknowledged memory command,
   whatever the host sends and however the command ends. *)
THEOREM HvConsent == Spec => []HvNeedsConsent
BY Inductive, PTL DEF IInv, ConsentInv

(* A declared write reports MAIN_DONE only over its whole region: for every device size,
   region, buffer size and host. *)
THEOREM WriteIsComplete == Spec => []WriteComplete
<1>1. IInv => WriteComplete
  BY DEF IInv, WriteInv, WriteComplete
<1> QED
  BY <1>1, Inductive, PTL

(* No transfer leaves the command's region. *)
THEOREM TransferStaysInBounds == Spec => []TransferInBounds
<1>1. IInv => TransferInBounds
  <2> SUFFICES ASSUME IInv PROVE TransferInBounds
    OBVIOUS
  <2>1. OpEnd(req) \in Nat /\ req.address \in Nat /\ address \in Nat
    BY OpEndType DEF IInv, TypeOK, DataOK, Request
  <2>2. cmd = "WRITE" => covered \subseteq req.address..(OpEnd(req) - 1)
    BY <2>1 DEF IInv, WriteInv
  <2>3. cmd = "READ" => covered \subseteq req.address..(OpEnd(req) - 1)
    BY DEF IInv, ReadInv
  <2> QED
    BY <2>2, <2>3 DEF TransferInBounds
<1> QED
  BY <1>1, Inductive, PTL

(* Every exit of a memory command other than the one after END leaves an error
   frame on the wire: the host is never left to find out by its own timeout. *)
NoSilentAbort ==
  [][(cmd \in MemoryCmds /\ cmd' = "IDLE" /\ state # 6) => out' \in ErrorFrames]_vars

(* An exit of a memory command before END is never silent. *)
THEOREM AbortsAreReported == Spec => NoSilentAbort
<1> DEFINE Reported == cmd \in MemoryCmds /\ cmd' = "IDLE" /\ state # 6 => out' \in ErrorFrames
<1>1. ControlInv /\ [Next]_vars => [Reported]_vars
  <2> SUFFICES ASSUME ControlInv, [Next]_vars, cmd \in MemoryCmds, cmd' = "IDLE", state # 6
               PROVE  out' \in ErrorFrames
    OBVIOUS
  <2> USE CmdsFacts
  <2>0. cmd # "IDLE" /\ cmd \notin QueryCmds /\ cmd \notin VoltageCmds /\ cmd # "UNKNOWN"
    BY DEF MemoryCmds, QueryCmds, VoltageCmds
  <2>1. ASSUME NEW rest, NEW frame \in ErrorFrames, Abort(rest, frame)
        PROVE  out' \in ErrorFrames
    BY <2>1 DEF Abort, Emit
  <2>2. CASE Watchdog \/ Refuse \/ CursorPastEnd \/ AckTimesOut \/ ChipFails
             \/ WriteRefuses \/ AckWaitFails
    BY <2>1, <2>2 DEF Watchdog, Refuse, CursorPastEnd, AckTimesOut, ChipFails,
       WriteRefuses, AckWaitFails, ErrorFrames
  <2>3. CASE WriteData
    BY <2>0, <2>1, <2>3 DEF WriteData, CallMain, ErrorFrames
  <2>4. CASE WriteDone
    BY <2>0, <2>1, <2>4 DEF WriteDone, ErrorFrames
  <2>5. ~(\/ IdleCommand \/ IdleGarbage \/ Query \/ UnknownCommand \/ VoltageStart
          \/ VoltageMessage \/ EndedMessage)
    BY <2>0 DEF IdleCommand, IdleGarbage, Query, UnknownCommand, VoltageStart,
       VoltageMessage, EndedMessage, Running
  <2>6. cmd' # cmd
    BY <2>0
  <2>7. ~(\/ AwaitPhaseAck \/ SimpleMain \/ CursorAtEnd \/ ReadMain \/ RequestData
          \/ WriteSkipsJunk \/ AckOpensPhase \/ AckOfChunk \/ AckWaitIgnores
          \/ InitReturns \/ ReadReturns \/ WriteReturns \/ SimpleReturns \/ EndReturns
          \/ Tick \/ FreeHost \/ UNCHANGED vars)
    BY <2>6 DEF AwaitPhaseAck, SimpleMain, CursorAtEnd, ReadMain, RequestData,
       WriteSkipsJunk, AckOpensPhase, AckOfChunk, AckWaitIgnores, InitReturns, ReadReturns,
       WriteReturns, SimpleReturns, EndReturns, Tick, FreeHost, Arrives, CallMain, handle, vars
  <2> QED
    BY <2>2, <2>3, <2>4, <2>5, <2>7 DEF Next, Firmware
<1> QED
  BY <1>1, Inductive, PTL DEF Spec, NoSilentAbort, IInv
-----------------------------------------------------------------------------
(* A host that speaks when asked (PromptSpec).  A frame that wants an answer has it or will
   have it; a frame whose answer has been read leaves the firmware at work. *)
Open == \/ rx = <<>> /\ ~answered
        \/ answered /\ \E m \in Answers : rx = <<m>>
Closed == rx = <<>> /\ answered

Awaiting(s, frame, places) == state = s /\ out = frame /\ pc \in places /\ Open

VoltageTalk ==
  \/ state = 0 /\ rx = <<>>
  \/ state = 1 /\ out \in {"READY", "VOLTAGE"} /\ Open

MemoryTalk ==
  \/ Awaiting(0, "READY", {"loop", "ack"})
  \/ Awaiting(2, "INIT_DONE", {"loop", "ack"})
  \/ Awaiting(3, "CHUNK", {"ack"}) /\ cmd = "READ"
  \/ Awaiting(3, "REQ_DATA", {"loop"}) /\ cmd = "WRITE" /\ waiting /\ address < OpEnd(req)
  \/ Awaiting(4, "MAIN_DONE", {"loop", "ack"})
  \/ Awaiting(6, "END_DONE", {"loop"})
  \/ Closed /\ \/ pc = "chip" /\ state \in {1, 3, 5}
               \/ pc = "loop" /\ state = 3

TalkInv ==
  /\ Len(rx) <= 1
  /\ cmd \in VoltageCmds => VoltageTalk
  /\ cmd \in MemoryCmds => MemoryTalk

(* What a read has sent is its region up to the cursor, or to the end of the chunk that
   waits for its ACK. *)
Told == IF pc = "ack" /\ state = 3 THEN address + dataSize ELSE address

DeliveredInv ==
  cmd = "READ" =>
    /\ covered = req.address..(Told - 1)
    /\ pc = "ack" /\ state = 3 => dataSize = ChunkSize(req, address) /\ address < OpEnd(req)
    /\ state >= 4 => address = OpEnd(req)

(* What earlier answers may have taken of the watchdog's period: only a callback and the
   beginning of MAIN start it anew. *)
Spent == IF state \in {2, 4} THEN MaxAnswer ELSE IF state = 6 THEN 2 * MaxAnswer ELSE 0

ClockInv ==
  /\ due <= MaxAnswer
  /\ pc = "ack" => waited <= due
  /\ cmd # "IDLE" /\ pc # "chip" => elapsed <= Spent + due
  /\ cmd \in VoltageCmds /\ state = 0 => elapsed = 0
  /\ cmd = "WRITE" /\ state = 3 /\ pc = "loop" /\ ~waiting => elapsed = 0

-----------------------------------------------------------------------------
(* What an answer is, and where it is read. *)
LEMMA AnswersFacts ==
  /\ out \in {"READY", "INIT_DONE", "MAIN_DONE", "END_DONE", "CHUNK"} => Answers = {Ack}
  /\ out = "VOLTAGE" => Answers = {Ack, Done}
  /\ out = "REQ_DATA" => \A m \in Answers : m.t \in {"DATA", "DONE"}
<1>1. CASE out = "REQ_DATA"
  BY <1>1 DEF Answers, Data, Done
<1>2. CASE out # "REQ_DATA"
  BY <1>2 DEF Answers
<1> QED BY <1>1, <1>2

LEMMA WordFacts ==
  /\ Ack.t = "OK" /\ Done.t = "DONE" /\ BadData.t = "BAD"
  /\ Ack \in Message /\ Done \in Message /\ Ack # Done /\ Ack # BadData /\ Done # BadData
BY DEF Ack, Done, BadData, Message

LEMMA AnswersType == ASSUME TypeOK PROVE Answers \subseteq Message
<1>1. CASE out = "REQ_DATA"
  <2>1. /\ req \in Request /\ address \in Nat /\ OpEnd(req) \in Nat /\ BufferSize \in Nat
    BY OpEndType, SessionAssumption DEF TypeOK, DataOK
  <2>2. \A n \in 1..ChunkSize(req, address) : n \in 0..BufferSize
    BY <2>1 DEF ChunkSize
  <2>3. \A n \in 0..BufferSize : Data(n) \in Message
    BY DEF Data, Message
  <2>4. \A m \in Answers : m = Done \/ \E n \in 1..ChunkSize(req, address) : m = Data(n)
    BY <1>1 DEF Answers
  <2> QED BY <2>2, <2>3, <2>4, WordFacts
<1>2. CASE out # "REQ_DATA"
  BY <1>2, WordFacts DEF Answers
<1> QED BY <1>1, <1>2

LEMMA OneMessage ==
  ASSUME NEW S, NEW s \in Seq(S), Len(s) <= 1, s # <<>>
  PROVE  Tail(s) = <<>>
<1>1. Len(s) \in Nat \ {0}
  BY EmptySeq
<1>2. Tail(s) \in Seq(S) /\ Len(Tail(s)) = 0
  BY <1>1, HeadTailProperties
<1> QED BY <1>2, EmptySeq

LEMMA OpenFacts ==
  ASSUME TypeOK, Open, rx # <<>>
  PROVE  answered = TRUE /\ Head(rx) \in Answers /\ Tail(rx) = <<>>
<1>1. PICK m \in Answers : rx = <<m>>
  BY DEF Open
<1>2. Head(rx) = m /\ Tail(rx) = <<>>
  BY <1>1
<1>3. answered \in BOOLEAN /\ answered
  BY DEF Open, TypeOK, FlagsOK
<1> QED BY <1>1, <1>2, <1>3

LEMMA DrainedNothing == Drained(<<>>) = <<>>
BY DEF Drained

LEMMA EmitOpens == ASSUME NEW frame, Emit(frame), rx' = <<>> PROVE Open' /\ out' = frame
BY DEF Emit, Open

LEMMA StaysOpen == ASSUME Open, UNCHANGED <<out, answered, rx, req, address>> PROVE Open'
BY DEF Open, Answers, ChunkSize, OpEnd

LEMMA DrainedShort ==
  ASSUME NEW s \in Seq(Message), Len(s) <= 1 PROVE Len(Drained(s)) <= 1
BY DEF Drained

LEMMA CommandDoneTalk ==
  ASSUME NEW rest \in Seq(Message), Len(rest) <= 1, CommandDone(rest) PROVE TalkInv'
BY CmdsFacts, DrainedShort DEF CommandDone, TalkInv

LEMMA TailShort ==
  ASSUME TypeOK, TalkInv, rx # <<>> PROVE Tail(rx) \in Seq(Message) /\ Len(Tail(rx)) <= 1
BY DEF TypeOK, DataOK, TalkInv

LEMMA TalkStep ==
  ASSUME TypeOK, ControlInv, TalkInv, [PromptNext]_vars PROVE TalkInv'
<1> USE CmdsFacts
<1>a. rx \in Seq(Message) /\ Len(rx) <= 1
  BY DEF TypeOK, DataOK, TalkInv
<1>b. cmd \in MemoryCmds /\ pc = "chip" => Closed /\ state \in {1, 3, 5}
  BY DEF TalkInv, MemoryTalk, Awaiting
<1>c. cmd \in MemoryCmds /\ pc = "ack" =>
        Open /\ out \in {"READY", "INIT_DONE", "MAIN_DONE", "CHUNK"}
  BY DEF TalkInv, MemoryTalk, Awaiting
<1>1. CASE IdleCommand
  <2> DEFINE r == Head(rx).req
  <2>1. Tail(rx) = <<>>
    BY <1>1, <1>a, OneMessage DEF IdleCommand
  <2>2. CASE Decodes(r) /\ Configures(r)
    <3>1. /\ rx' = <<>> /\ cmd' = r.cmd /\ state' = 0 /\ pc' = "loop" /\ Emit("READY")
      BY <1>1, <2>1, <2>2, DrainedNothing DEF IdleCommand
    <3>2. Open' /\ out' = "READY"
      BY <3>1, EmitOpens
    <3> QED BY <3>1, <3>2 DEF TalkInv, VoltageTalk, MemoryTalk, Awaiting
  <2>3. CASE ~(Decodes(r) /\ Configures(r))
    BY <1>1, <2>3, TailShort, CommandDoneTalk DEF IdleCommand, Abort
  <2> QED BY <2>2, <2>3
<1>2. CASE IdleGarbage
  <2>1. cmd' = "IDLE" /\ Len(rx') <= 1
    BY <1>2, <1>a DEF IdleGarbage, handle
  <2> QED BY <2>1 DEF TalkInv
<1>3. CASE Watchdog \/ Query \/ UnknownCommand \/ Refuse \/ CursorPastEnd
           \/ AckTimesOut \/ ChipFails
  BY <1>3, <1>a, CommandDoneTalk
     DEF Watchdog, Query, UnknownCommand, Refuse, CursorPastEnd, AckTimesOut, ChipFails, Abort
<1>4. CASE WriteRefuses \/ AckWaitFails
  BY <1>4, TailShort, CommandDoneTalk DEF WriteRefuses, AckWaitFails, Abort
<1>5. CASE VoltageStart
  <2>1. CASE Revision0
    BY <1>5, <2>1, <1>a, CommandDoneTalk DEF VoltageStart, Abort
  <2>2. CASE ~Revision0
    <3>1. cmd \in VoltageCmds /\ rx = <<>>
      BY <1>5 DEF VoltageStart, Running, TalkInv, VoltageTalk
    <3>2. rx' = <<>> /\ state' = 1 /\ Emit("READY") /\ cmd' = cmd
      BY <1>5, <2>2, <3>1, DrainedNothing DEF VoltageStart
    <3>3. Open' /\ out' = "READY"
      BY <3>2, EmitOpens
    <3> QED BY <3>1, <3>2, <3>3 DEF TalkInv, VoltageTalk
  <2> QED BY <2>1, <2>2
<1>6. CASE VoltageMessage
  <2>1. cmd \in VoltageCmds /\ state = 1 /\ rx # <<>> /\ Open /\ out \in {"READY", "VOLTAGE"}
    BY <1>6 DEF VoltageMessage, Running, TalkInv, VoltageTalk
  <2>2. Head(rx) \in {Ack, Done} /\ Tail(rx) = <<>>
    BY <2>1, OpenFacts, AnswersFacts
  <2>3. CASE Head(rx) = Done
    BY <1>6, <2>3, <2>1, TailShort, CommandDoneTalk DEF VoltageMessage
  <2>4. CASE Head(rx) # Done
    <3>1. rx' = <<>> /\ Emit("VOLTAGE") /\ cmd' = cmd /\ state' = state
      BY <1>6, <2>2, <2>4, WordFacts DEF VoltageMessage
    <3>2. Open' /\ out' = "VOLTAGE"
      BY <3>1, EmitOpens
    <3> QED BY <2>1, <3>1, <3>2 DEF TalkInv, VoltageTalk
  <2> QED BY <2>3, <2>4
<1>7. CASE AwaitPhaseAck
  <2>1. /\ cmd \in MemoryCmds /\ pc = "loop" /\ state \in {0, 2, 4} /\ pc' = "ack"
        /\ UNCHANGED <<cmd, req, state, address, rx, out, answered>>
    BY <1>7 DEF AwaitPhaseAck, Engine, Running, StartAckWait, handle, link
  <2>2. Open /\ << state, out >> \in {<<0, "READY">>, <<2, "INIT_DONE">>, <<4, "MAIN_DONE">>}
    BY <2>1 DEF TalkInv, MemoryTalk, Awaiting
  <2>3. Open'
    BY <2>1, <2>2, StaysOpen
  <2> QED BY <1>a, <2>1, <2>2, <2>3 DEF TalkInv, MemoryTalk, Awaiting
<1>8. CASE EndedMessage
  <2>1. cmd \in MemoryCmds /\ state = 6 /\ rx # <<>>
    BY <1>8 DEF EndedMessage, Engine, Running
  <2>2. Open /\ out = "END_DONE"
    BY <2>1 DEF TalkInv, MemoryTalk, Awaiting, Closed
  <2>3. Head(rx) = Ack
    BY <2>1, <2>2, OpenFacts, AnswersFacts
  <2>4. CommandDone(Tail(rx))
    BY <1>8, <2>3, WordFacts DEF EndedMessage
  <2> QED BY <2>1, <2>4, TailShort, CommandDoneTalk
<1>9. CASE SimpleMain \/ ReadMain
  <2>1. /\ cmd \in MemoryCmds /\ pc = "loop" /\ state = 3 /\ cmd # "WRITE" /\ pc' = "chip"
        /\ UNCHANGED <<cmd, state, rx, out, answered>>
    BY <1>9 DEF SimpleMain, ReadMain, Engine, Running, CallMain, link
  <2>2. Closed
    BY <2>1 DEF TalkInv, MemoryTalk, Awaiting
  <2>3. Closed'
    BY <2>1, <2>2 DEF Closed
  <2> QED BY <1>a, <2>1, <2>3 DEF TalkInv, MemoryTalk
<1>10. CASE CursorAtEnd
  <2>1. /\ cmd \in MemoryCmds /\ pc = "loop" /\ state = 3 /\ state' = 4 /\ Emit("MAIN_DONE")
        /\ address = OpEnd(req) /\ UNCHANGED <<cmd, pc, rx>>
    BY <1>10 DEF CursorAtEnd, Engine, Running, MainDone
  <2>2. rx = <<>>
    <3>1. ~(address < OpEnd(req))
      BY <2>1, OpEndType DEF TypeOK, DataOK
    <3> QED BY <2>1, <3>1 DEF TalkInv, MemoryTalk, Awaiting, Closed
  <2>3. Open' /\ out' = "MAIN_DONE"
    BY <2>1, <2>2, EmitOpens
  <2> QED BY <2>1, <2>2, <2>3 DEF TalkInv, MemoryTalk, Awaiting
<1>11. CASE RequestData
  <2>1. /\ cmd = "WRITE" /\ pc = "loop" /\ state = 3 /\ Emit("REQ_DATA") /\ rx = <<>>
        /\ address < OpEnd(req) /\ waiting' = TRUE
        /\ UNCHANGED <<cmd, req, state, address, pc, rx>>
    BY <1>11 DEF RequestData, InWriteMain, Engine, Running
  <2>2. Open' /\ out' = "REQ_DATA"
    BY <2>1, EmitOpens
  <2>3. (address < OpEnd(req))'
    BY <2>1 DEF OpEnd
  <2> QED BY <2>1, <2>2, <2>3 DEF TalkInv, MemoryTalk, Awaiting
<1>w. ASSUME InWriteMain, rx # <<>>
      PROVE  /\ cmd = "WRITE" /\ state = 3 /\ answered = TRUE /\ Tail(rx) = <<>>
             /\ Head(rx).t \in {"DATA", "DONE"}
  <2>1. cmd = "WRITE" /\ pc = "loop" /\ state = 3
    BY <1>w DEF InWriteMain, Engine, Running
  <2>2. Open /\ out = "REQ_DATA"
    BY <1>w, <2>1 DEF TalkInv, MemoryTalk, Awaiting, Closed
  <2> QED BY <1>w, <2>1, <2>2, OpenFacts, AnswersFacts
<1>12. CASE WriteSkipsJunk
  BY <1>12, <1>w DEF WriteSkipsJunk
<1>13. CASE WriteData
  <2>1. CASE Head(rx).n <= OpEnd(req) - address
    <3>1. cmd' = "WRITE" /\ pc' = "chip" /\ state' = 3 /\ rx' = <<>> /\ answered' = answered
      BY <1>13, <1>w, <2>1 DEF WriteData, CallMain, link
    <3>2. answered = TRUE
      BY <1>13, <1>w DEF WriteData
    <3>3. Closed'
      BY <3>1, <3>2 DEF Closed
    <3> QED BY <3>1, <3>3 DEF TalkInv, MemoryTalk
  <2>2. CASE ~(Head(rx).n <= OpEnd(req) - address)
    BY <1>13, <2>2, TailShort, CommandDoneTalk DEF WriteData, Abort
  <2> QED BY <2>1, <2>2
<1>14. CASE WriteDone
  <2>1. CASE req.regionEnd # 0
    BY <1>14, <2>1, TailShort, CommandDoneTalk DEF WriteDone, Abort
  <2>2. CASE req.regionEnd = 0
    <3>1. cmd' = "WRITE" /\ pc' = "loop" /\ state' = 4 /\ rx' = <<>> /\ Emit("MAIN_DONE")
      BY <1>14, <1>w, <2>2 DEF WriteDone, MainDone, InWriteMain, Engine, Running
    <3>2. Open' /\ out' = "MAIN_DONE"
      BY <3>1, EmitOpens
    <3> QED BY <3>1, <3>2 DEF TalkInv, MemoryTalk, Awaiting
  <2> QED BY <2>1, <2>2
<1>15. CASE AckOpensPhase
  <2>1. cmd \in MemoryCmds /\ pc = "ack" /\ rx # <<>> /\ cmd' = cmd /\ rx' = Tail(rx)
    BY <1>15 DEF AckOpensPhase, InAckWait, ControlInv
  <2>2. rx' = <<>> /\ answered = TRUE
    BY <2>1, <1>c, OpenFacts
  <2>3. CASE UNCHANGED link
    <3>1. \/ pc' = "chip" /\ state' \in {1, 5}
          \/ pc' = "loop" /\ state' = 3
          \/ Emit("INIT_DONE") \/ Emit("END_DONE")
      BY <1>15 DEF AckOpensPhase, InitDone, EndDone
    <3>2. Closed'
      BY <2>2, <2>3 DEF Closed, link
    <3>3. ~Emit("INIT_DONE") /\ ~Emit("END_DONE")
      BY <2>2, <2>3 DEF Emit, link
    <3> QED BY <2>1, <2>2, <3>1, <3>2, <3>3 DEF TalkInv, MemoryTalk
  <2>4. CASE state' = 2 /\ Emit("INIT_DONE") /\ pc' = "loop"
    BY <2>1, <2>2, <2>4, EmitOpens DEF TalkInv, MemoryTalk, Awaiting
  <2>5. CASE state' = 6 /\ Emit("END_DONE") /\ pc' = "loop"
    BY <2>1, <2>2, <2>5, EmitOpens DEF TalkInv, MemoryTalk, Awaiting
  <2> QED BY <1>15, <2>3, <2>4, <2>5 DEF AckOpensPhase, InitDone, EndDone
<1>16. CASE AckOfChunk
  <2>1. /\ cmd \in MemoryCmds /\ pc = "ack" /\ rx # <<>> /\ cmd' = cmd /\ rx' = Tail(rx)
        /\ state = 3 /\ pc' = "loop"
    BY <1>16 DEF AckOfChunk, InAckWait, ControlInv
  <2>2. rx' = <<>> /\ answered = TRUE
    BY <2>1, <1>c, OpenFacts
  <2>3. CASE UNCHANGED <<state, link>>
    <3>1. Closed'
      BY <2>2, <2>3 DEF Closed, link
    <3> QED BY <2>1, <2>2, <2>3, <3>1 DEF TalkInv, MemoryTalk
  <2>4. CASE MainDone
    BY <2>1, <2>2, <2>4, EmitOpens DEF MainDone, TalkInv, MemoryTalk, Awaiting
  <2> QED BY <1>16, <2>3, <2>4 DEF AckOfChunk
<1>17. CASE AckWaitIgnores
  <2>1. cmd \in MemoryCmds /\ pc = "ack" /\ rx # <<>> /\ Head(rx).t \in {"DATA", "CMD"}
    BY <1>17 DEF AckWaitIgnores, InAckWait, ControlInv
  <2> QED BY <2>1, <1>c, OpenFacts, AnswersFacts, WordFacts
<1>v. ASSUME ChipReturns PROVE cmd \in MemoryCmds /\ Closed /\ rx' = <<>>
  BY <1>b, <1>v, DrainedNothing DEF ChipReturns, ControlInv, Closed
<1>18. CASE InitReturns
  BY <1>18, <1>v, EmitOpens DEF InitReturns, InitDone, TalkInv, MemoryTalk, Awaiting
<1>19. CASE ReadReturns
  <2>1. Open' /\ out' = "CHUNK" /\ rx' = <<>>
    BY <1>19, <1>v, EmitOpens DEF ReadReturns
  <2>2. cmd' = "READ" /\ state' = 3 /\ pc' = "ack"
    BY <1>19 DEF ReadReturns, StartAckWait
  <2> QED BY <2>1, <2>2 DEF TalkInv, MemoryTalk, Awaiting
<1>20. CASE WriteReturns
  <2>1. cmd' = "WRITE" /\ state' = 3 /\ pc' = "loop" /\ rx' = <<>>
    BY <1>20, <1>v DEF WriteReturns
  <2>2. Closed'
    BY <1>20, <1>v, <2>1 DEF WriteReturns, link, Closed
  <2> QED BY <2>1, <2>2 DEF TalkInv, MemoryTalk
<1>21. CASE SimpleReturns
  BY <1>21, <1>v, EmitOpens DEF SimpleReturns, MainDone, TalkInv, MemoryTalk, Awaiting
<1>22. CASE EndReturns
  BY <1>22, <1>v, EmitOpens DEF EndReturns, EndDone, TalkInv, MemoryTalk, Awaiting
<1>s. ASSUME UNCHANGED <<cmd, req, state, waiting, address, pc, rx, out, answered>>
      PROVE  TalkInv'
  <2>1. Open => Open'
    BY <1>s, StaysOpen
  <2>2. Closed => Closed'
    BY <1>s DEF Closed
  <2>3. OpEnd(req)' = OpEnd(req)
    BY <1>s DEF OpEnd
  <2>4. VoltageTalk => VoltageTalk'
    BY <1>s, <2>1 DEF VoltageTalk
  <2>5. MemoryTalk => MemoryTalk'
    BY <1>s, <2>1, <2>2, <2>3 DEF MemoryTalk, Awaiting
  <2> QED BY <1>s, <2>4, <2>5 DEF TalkInv
<1>23. CASE PromptTick
  BY <1>23, <1>s DEF PromptTick, Tick, handle
<1>24. CASE HostCommands
  <2>1. cmd' = "IDLE"
    BY <1>24 DEF HostCommands, Arrives, handle
  <2>2. \E r \in Requests : rx' = Append(<<>>, Command(r))
    BY <1>24 DEF HostCommands, Arrives
  <2>3. Len(rx') <= 1
    BY <2>2
  <2> QED BY <2>1, <2>3 DEF TalkInv
<1>25. CASE HostAnswers
  <2>1. /\ answered' = TRUE /\ ~answered
        /\ UNCHANGED <<cmd, req, state, waiting, address, pc, out>>
    BY <1>25 DEF HostAnswers, Asked, Arrives, handle
  <2>2. PICK m \in Answers : rx' = Append(rx, m)
    BY <1>25 DEF HostAnswers, Arrives
  <2>3. \/ cmd \in MemoryCmds /\ pc # "chip"
        \/ cmd \in VoltageCmds /\ state = 1
    BY <1>25 DEF HostAnswers, Asked
  <2>4. Open /\ ~Closed
    BY <2>1, <2>3 DEF TalkInv, VoltageTalk, MemoryTalk, Awaiting, Closed
  <2>5. rx = <<>>
    BY <2>1, <2>4 DEF Open
  <2>6. rx' = <<m>> /\ Len(rx') <= 1
    BY <2>2, <2>5
  <2>7. Answers' = Answers
    BY <2>1 DEF Answers, ChunkSize, OpEnd
  <2>8. Open'
    BY <2>1, <2>6, <2>7 DEF Open
  <2>9. OpEnd(req)' = OpEnd(req)
    BY <2>1 DEF OpEnd
  <2>10. cmd \in VoltageCmds => VoltageTalk'
    BY <2>1, <2>3, <2>8 DEF TalkInv, VoltageTalk
  <2>11. cmd \in MemoryCmds => MemoryTalk'
    BY <2>1, <2>4, <2>8, <2>9 DEF TalkInv, MemoryTalk, Awaiting
  <2> QED BY <2>1, <2>6, <2>10, <2>11 DEF TalkInv
<1>26. CASE UNCHANGED vars
  BY <1>26, <1>s DEF vars
<1> QED BY <1>1, <1>2, <1>3, <1>4, <1>5, <1>6, <1>7, <1>8, <1>9, <1>10, <1>11, <1>12, <1>13,
     <1>14, <1>15, <1>16, <1>17, <1>18, <1>19, <1>20, <1>21, <1>22, <1>23, <1>24, <1>25,
     <1>26 DEF PromptNext, Firmware
-----------------------------------------------------------------------------
(* A prompt host takes the steps of a free one, but for its clock and its flag. *)
LEMMA PromptSteps ==
  ASSUME TypeOK, [PromptNext]_vars
  PROVE  [Next]_vars \/ PromptTick \/ (HostAnswers /\ \E m \in Message : Arrives(m))
<1>1. CASE HostCommands
  <2>1. PICK r \in Requests : Arrives(Command(r)) /\ UNCHANGED answered
    BY <1>1 DEF HostCommands
  <2>2. Command(r) \in Message
    BY DEF Command, Message
  <2> QED BY <2>1, <2>2 DEF FreeHost, Next
<1>2. CASE HostAnswers
  BY <1>2, AnswersType DEF HostAnswers
<1> QED BY <1>1, <1>2 DEF PromptNext, Next

LEMMA SendKeeps ==
  ASSUME NEW m \in Message, Arrives(m)
  PROVE  /\ DataOK => DataOK'
         /\ ControlInv => ControlInv'
         /\ ReadInv => ReadInv'
BY DEF Arrives, handle, DataOK, ControlInv, ReadInv, OpEnd

LEMMA PromptTickKeeps ==
  ASSUME PromptTick
  PROVE  /\ DataOK /\ ControlInv => DataOK' /\ ControlInv'
         /\ ReadInv => ReadInv'
<1>1. Tick /\ due' = due + 1
  BY DEF PromptTick
<1>2. DataOK /\ ControlInv => DataOK' /\ ControlInv'
  BY <1>1, CmdsFacts, SessionAssumption
     DEF Tick, Polling, InAckWait, InWriteMain, Engine, Running, handle, ghosts,
         DataOK, ControlInv
<1>3. ReadInv => ReadInv'
  BY <1>1 DEF Tick, handle, ghosts, ReadInv, OpEnd
<1> QED BY <1>2, <1>3

PromptBase == TypeOK /\ ControlInv /\ ReadInv

LEMMA PromptBaseStep ==
  ASSUME PromptBase, [PromptNext]_vars PROVE PromptBase'
<1>1. CASE [Next]_vars
  BY <1>1, DataStep, FlagsStep, ReadStep DEF PromptBase, TypeOK
<1>2. CASE PromptTick
  <2>1. FlagsOK'
    BY <1>2, Zenon DEF PromptTick, Tick, handle, ghosts, PromptBase, TypeOK, FlagsOK
  <2> QED BY <1>2, <2>1, PromptTickKeeps DEF PromptBase, TypeOK
<1>3. CASE HostAnswers /\ \E m \in Message : Arrives(m)
  <2>1. FlagsOK'
    BY <1>3, Zenon DEF HostAnswers, Arrives, handle, PromptBase, TypeOK, FlagsOK
  <2> QED BY <1>3, <2>1, SendKeeps DEF PromptBase, TypeOK
<1> QED BY <1>1, <1>2, <1>3, PromptSteps DEF PromptBase

(* The data of a read. *)
LEMMA DeliveredStep ==
  ASSUME PromptBase, TalkInv, DeliveredInv, [PromptNext]_vars PROVE DeliveredInv'
<1> USE CmdsFacts
<1>0. /\ req \in Request /\ req.address \in Nat /\ OpEnd(req) \in Nat /\ address \in Nat
      /\ dataSize \in Nat
  BY OpEndType DEF PromptBase, TypeOK, DataOK, Request
<1>a. ASSUME NEW rest, CommandDone(rest) PROVE DeliveredInv'
  BY <1>a DEF CommandDone, DeliveredInv
<1>1. CASE IdleCommand
  <2> DEFINE r == Head(rx).req
  <2>1. CASE Decodes(r) /\ Configures(r)
    <3>1. r \in Request
      BY <1>1, RxFacts, MessageFacts DEF IdleCommand, PromptBase, TypeOK, DataOK
    <3>2. r.address \in Nat
      BY <3>1 DEF Request
    <3>3. /\ cmd' = r.cmd /\ req' = r /\ covered' = {} /\ state' = 0
          /\ r.cmd = "READ" => address' = r.address
      BY <1>1, <2>1 DEF IdleCommand
    <3>4. r.address..(r.address - 1) = {}
      BY <3>2
    <3> HIDE DEF r
    <3> QED BY <3>3, <3>4 DEF DeliveredInv, Told
  <2>2. CASE ~(Decodes(r) /\ Configures(r))
    BY <1>1, <2>2, <1>a DEF IdleCommand, Abort
  <2> QED BY <2>1, <2>2
<1>2. CASE \/ Watchdog \/ Query \/ UnknownCommand \/ Refuse \/ CursorPastEnd
           \/ AckTimesOut \/ ChipFails \/ WriteRefuses \/ AckWaitFails
  BY <1>2, <1>a DEF Watchdog, Query, UnknownCommand, Refuse, CursorPastEnd, AckTimesOut,
     ChipFails, WriteRefuses, AckWaitFails, Abort
<1>3. CASE VoltageStart \/ VoltageMessage
  BY <1>3, <1>a DEF VoltageStart, VoltageMessage, Running, VoltageCmds, Abort, DeliveredInv
<1>4. CASE EndedMessage
  BY <1>4, <1>a DEF EndedMessage, Abort, handle, ghosts, DeliveredInv, Told, OpEnd, ChunkSize
<1>5. CASE CursorAtEnd
  <2>1. /\ address = OpEnd(req) /\ state = 3 /\ state' = 4 /\ pc = "loop"
        /\ UNCHANGED <<cmd, req, address, dataSize, pc, covered>>
    BY <1>5 DEF CursorAtEnd, Engine, Running, MainDone, ghosts
  <2> QED BY <2>1 DEF DeliveredInv, Told, OpEnd
<1>6. CASE WriteData \/ WriteDone
  BY <1>6, <1>a DEF WriteData, WriteDone, InWriteMain, CallMain, MainDone, Abort, DeliveredInv
<1>7. CASE AckOpensPhase
  <2>1. pc = "ack" /\ state \in {0, 2, 4} /\ UNCHANGED <<cmd, req, address, dataSize, covered>>
    BY <1>7 DEF AckOpensPhase, InAckWait
  <2>2. /\ pc' \in {"loop", "chip"}
        /\ state = 4 \/ (state \in {0, 2} /\ state' \in {1, 2, 3})
    BY <1>7 DEF AckOpensPhase, InitDone, EndDone
  <2> QED BY <2>1, <2>2 DEF DeliveredInv, Told, OpEnd
<1>8. CASE AckOfChunk
  <2>1. /\ cmd = "READ" /\ pc = "ack" /\ state = 3 /\ pc' = "loop"
        /\ address' = address + dataSize
        /\ UNCHANGED <<cmd, req, dataSize, covered>>
        /\ (state' = state \/ address' >= OpEnd(req))
    BY <1>8 DEF AckOfChunk, InAckWait, ghosts, PromptBase, ControlInv
  <2>2. address + dataSize <= OpEnd(req)
    BY <1>0, <2>1, ChunkSizeFacts DEF DeliveredInv
  <2>3. state' >= 4 => address' = OpEnd(req)
    BY <1>0, <2>1, <2>2
  <2>4. Told' = Told /\ OpEnd(req)' = OpEnd(req)
    BY <2>1 DEF Told, OpEnd
  <2>5. covered' = req'.address..(Told' - 1)
    BY <2>1, <2>4 DEF DeliveredInv
  <2>6. cmd' = "READ" /\ pc' = "loop"
    BY <2>1
  <2> QED BY <2>3, <2>4, <2>5, <2>6 DEF DeliveredInv
<1>9. CASE ReadReturns
  <2>1. /\ cmd = "READ" /\ state = 3 /\ pc = "chip" /\ address < OpEnd(req) /\ pc' = "ack"
        /\ UNCHANGED <<cmd, req, state, address>> /\ dataSize' = ChunkSize(req, address)
        /\ covered' = covered \cup address..(address + dataSize' - 1)
    BY <1>9 DEF ReadReturns, ChipReturns, StartAckWait, PromptBase, ControlInv
  <2>2. dataSize' \in Nat /\ req.address <= address /\ covered = req.address..(address - 1)
    BY <1>0, <2>1, ChunkSizeFacts DEF PromptBase, ReadInv, DeliveredInv, Told
  <2>3. covered' = req.address..(address + dataSize' - 1)
    BY <1>0, <2>1, <2>2, IntervalFacts
  <2>4. /\ Told' = address + dataSize' /\ OpEnd(req)' = OpEnd(req)
        /\ ChunkSize(req, address)' = ChunkSize(req, address)
    BY <2>1 DEF Told, OpEnd, ChunkSize
  <2>5. covered' = req'.address..(Told' - 1)
    <3>1. req' = req /\ Told' = address + dataSize'
      BY <2>1, <2>4
    <3> QED BY <1>0, <2>2, <2>3, <3>1
  <2>6. dataSize' = ChunkSize(req, address)' /\ (address < OpEnd(req))'
    BY <2>1, <2>4
  <2>7. ~(state' >= 4)
    BY <2>1
  <2> QED BY <2>5, <2>6, <2>7 DEF DeliveredInv
<1>10. CASE InitReturns \/ EndReturns
  <2>1. pc = "chip" /\ pc' = "loop" /\ UNCHANGED <<cmd, req, address, dataSize, covered>>
        /\ (state = 5 \/ (state = 1 /\ state' = 2))
    BY <1>10 DEF InitReturns, EndReturns, ChipReturns, InitDone, ghosts
  <2> QED BY <2>1 DEF DeliveredInv, Told, OpEnd
<1>11. CASE WriteReturns \/ SimpleReturns
  BY <1>11 DEF WriteReturns, SimpleReturns, DeliveredInv
<1>12. CASE SimpleMain \/ ReadMain
  <2>1. /\ pc = "loop" /\ pc' = "chip" /\ state' = state
        /\ UNCHANGED <<cmd, req, address, covered>>
    BY <1>12 DEF SimpleMain, ReadMain, Engine, Running, CallMain, ghosts
  <2> QED BY <2>1 DEF DeliveredInv, Told, OpEnd
<1>13. CASE AwaitPhaseAck
  <2>1. /\ pc = "loop" /\ pc' = "ack" /\ state \in {0, 2, 4} /\ state' = state
        /\ UNCHANGED <<cmd, req, address, covered>>
    BY <1>13 DEF AwaitPhaseAck, Engine, Running, StartAckWait, handle, ghosts
  <2> QED BY <2>1 DEF DeliveredInv, Told, OpEnd
<1>14. CASE AckWaitIgnores
  <2>1. cmd \in MemoryCmds /\ pc = "ack" /\ rx # <<>> /\ Head(rx).t \in {"DATA", "CMD"}
    BY <1>14 DEF AckWaitIgnores, InAckWait, PromptBase, ControlInv
  <2>2. Open /\ out \in {"READY", "INIT_DONE", "MAIN_DONE", "CHUNK"}
    BY <2>1 DEF TalkInv, MemoryTalk, Awaiting
  <2> QED BY <2>1, <2>2, OpenFacts, AnswersFacts, WordFacts DEF PromptBase
<1>15. CASE UNCHANGED <<cmd, req, state, address, dataSize, pc, covered>>
  BY <1>15 DEF DeliveredInv, Told, OpEnd, ChunkSize
<1>16. CASE \/ IdleGarbage \/ RequestData \/ WriteSkipsJunk
            \/ PromptTick \/ HostCommands \/ HostAnswers \/ UNCHANGED vars
  BY <1>15, <1>16 DEF IdleGarbage, RequestData, WriteSkipsJunk, PromptTick, Tick,
     HostCommands, HostAnswers, Arrives, handle, ghosts, vars
<1> QED BY <1>1, <1>2, <1>3, <1>4, <1>5, <1>6, <1>7, <1>8, <1>9, <1>10, <1>11, <1>12, <1>13,
     <1>14, <1>16 DEF PromptNext, Firmware

(* The clocks. *)
LEMMA ClockStep ==
  ASSUME PromptBase, TalkInv, ClockInv, [PromptNext]_vars PROVE ClockInv'
<1> USE CmdsFacts, SessionAssumption
<1>0. due \in Nat /\ waited \in Nat /\ elapsed \in Nat /\ MaxAnswer \in Nat /\ state \in 0..6
  BY DEF PromptBase, TypeOK, DataOK
<1>a. ASSUME NEW rest, CommandDone(rest), due' \in {0, due} PROVE ClockInv'
  BY <1>0, <1>a DEF CommandDone, ClockInv
<1>b. ASSUME NEW rest, NEW frame, Abort(rest, frame) PROVE ClockInv'
  BY <1>a, <1>b DEF Abort, Emit
<1>1. CASE IdleCommand
  <2> DEFINE r == Head(rx).req
  <2>1. CASE Decodes(r) /\ Configures(r)
    <3>1. state' = 0 /\ elapsed' = 0 /\ due' = 0 /\ pc' = "loop"
      BY <1>1, <2>1 DEF IdleCommand, Emit
    <3> QED BY <1>0, <3>1 DEF ClockInv, Spent
  <2>2. CASE ~(Decodes(r) /\ Configures(r))
    BY <1>1, <2>2, <1>b DEF IdleCommand
  <2> QED BY <2>1, <2>2
<1>2. CASE \/ Watchdog \/ Query \/ UnknownCommand \/ Refuse \/ CursorPastEnd
           \/ AckTimesOut \/ ChipFails \/ WriteRefuses \/ AckWaitFails
  BY <1>2, <1>b DEF Watchdog, Query, UnknownCommand, Refuse, CursorPastEnd, AckTimesOut,
     ChipFails, WriteRefuses, AckWaitFails
<1>3. CASE IdleGarbage
  <2>1. cmd' = "IDLE" /\ pc' = "loop" /\ due' = 0
    BY <1>3 DEF IdleGarbage, Emit, handle
  <2> QED BY <1>0, <2>1 DEF ClockInv
<1>4. CASE VoltageStart
  <2>1. CASE Revision0
    BY <1>4, <2>1, <1>b DEF VoltageStart
  <2>2. CASE ~Revision0
    <3>1. /\ cmd \in VoltageCmds /\ state = 0 /\ state' = 1 /\ pc' = "loop"
          /\ cmd' = cmd /\ elapsed' = elapsed /\ due' = 0
      BY <1>4, <2>2 DEF VoltageStart, Running, Emit
    <3> QED BY <1>0, <3>1 DEF ClockInv, Spent
  <2> QED BY <2>1, <2>2
<1>5. CASE VoltageMessage
  <2>1. CASE Head(rx) = Done
    BY <1>5, <2>1, <1>a DEF VoltageMessage, link
  <2>2. CASE Head(rx) # Done
    <3>1. /\ state = 1 /\ state' = 1 /\ pc = "loop" /\ pc' = "loop" /\ cmd' = cmd
          /\ cmd \in VoltageCmds
          /\ \/ elapsed' = 0 /\ due' = 0
             \/ elapsed' = elapsed /\ (due' = due \/ Head(rx) = BadData)
      BY <1>5, <2>2 DEF VoltageMessage, Running, Emit, link
    <3>2. Open /\ out \in {"READY", "VOLTAGE"} /\ rx # <<>>
      BY <1>5, <3>1 DEF VoltageMessage, TalkInv, VoltageTalk
    <3>3. Head(rx) # BadData
      BY <3>2, OpenFacts, AnswersFacts, WordFacts DEF PromptBase
    <3> QED BY <1>0, <3>1, <3>3 DEF ClockInv, Spent
  <2> QED BY <2>1, <2>2
<1>6. CASE AwaitPhaseAck
  <2>1. /\ pc = "loop" /\ pc' = "ack" /\ waited' = 0 /\ state \in {0, 2, 4}
        /\ cmd \in MemoryCmds
        /\ UNCHANGED <<cmd, state, elapsed, due>>
    BY <1>6 DEF AwaitPhaseAck, Engine, Running, StartAckWait, handle, link
  <2> QED BY <1>0, <2>1 DEF ClockInv, Spent
<1>7. CASE EndedMessage
  <2>1. CASE UNCHANGED <<handle, pc, waited, elapsed, hv, link, ghosts>>
    BY <2>1 DEF handle, link, ClockInv, Spent
  <2>2. CASE ~UNCHANGED <<handle, pc, waited, elapsed, hv, link, ghosts>>
    BY <1>7, <2>2, <1>a, <1>b DEF EndedMessage, link
  <2> QED BY <2>1, <2>2
<1>8. CASE CursorAtEnd
  <2>1. /\ pc = "loop" /\ pc' = "loop" /\ state = 3 /\ state' = 4 /\ due' = 0
        /\ cmd # "IDLE" /\ UNCHANGED <<cmd, elapsed>>
    BY <1>8 DEF CursorAtEnd, Engine, Running, MainDone, Emit
  <2> QED BY <1>0, <2>1 DEF ClockInv, Spent, VoltageCmds
<1>9. CASE RequestData
  <2>1. /\ cmd = "WRITE" /\ pc = "loop" /\ state = 3 /\ ~waiting /\ due' = 0
        /\ UNCHANGED <<cmd, state, pc, elapsed>>
    BY <1>9 DEF RequestData, InWriteMain, Engine, Running, Emit
  <2>2. elapsed = 0
    BY <2>1 DEF ClockInv
  <2> QED BY <1>0, <2>1, <2>2 DEF ClockInv, Spent
<1>10. CASE WriteData
  <2>1. CASE Head(rx).n <= OpEnd(req) - address
    <3>1. pc' = "chip" /\ state' = 3 /\ due' = due
      BY <1>10, <2>1 DEF WriteData, InWriteMain, CallMain, link
    <3> QED BY <1>0, <3>1 DEF ClockInv
  <2>2. CASE ~(Head(rx).n <= OpEnd(req) - address)
    BY <1>10, <2>2, <1>b DEF WriteData
  <2> QED BY <2>1, <2>2
<1>11. CASE WriteDone
  <2>1. CASE req.regionEnd = 0
    <3>1. /\ cmd = "WRITE" /\ pc = "loop" /\ state = 3 /\ state' = 4 /\ due' = 0
          /\ UNCHANGED <<cmd, pc, elapsed>>
      BY <1>11, <2>1 DEF WriteDone, InWriteMain, Engine, Running, MainDone, Emit
    <3> QED BY <1>0, <3>1 DEF ClockInv, Spent
  <2>2. CASE req.regionEnd # 0
    BY <1>11, <2>2, <1>b DEF WriteDone
  <2> QED BY <2>1, <2>2
<1>12. CASE SimpleMain \/ ReadMain
  <2>1. pc' = "chip" /\ state' = 3 /\ due' = due
    BY <1>12 DEF SimpleMain, ReadMain, CallMain, link
  <2> QED BY <1>0, <2>1 DEF ClockInv
<1>13. CASE AckOpensPhase
  <2>1. cmd \in MemoryCmds /\ pc = "ack" /\ cmd' = cmd /\ elapsed <= Spent + due
    BY <1>13 DEF AckOpensPhase, InAckWait, PromptBase, ControlInv, ClockInv
  <2>2. \/ pc' = "chip" /\ state' \in {1, 5} /\ due' = due
        \/ state = 0 /\ state' = 2 /\ pc' = "loop" /\ due' = 0 /\ elapsed' = elapsed
        \/ state = 2 /\ state' = 3 /\ pc' = "loop" /\ due' = due /\ elapsed' = 0
        \/ state = 4 /\ state' = 6 /\ pc' = "loop" /\ due' = 0 /\ elapsed' = elapsed
    BY <1>13 DEF AckOpensPhase, InitDone, EndDone, Emit, link
  <2> QED BY <1>0, <2>1, <2>2 DEF ClockInv, Spent
<1>14. CASE AckOfChunk
  <2>1. /\ cmd = "READ" /\ pc = "ack" /\ state = 3 /\ pc' = "loop"
        /\ UNCHANGED <<cmd, elapsed>>
        /\ \/ state' = 3 /\ due' = due
           \/ state' = 4 /\ due' = 0
    BY <1>14 DEF AckOfChunk, InAckWait, MainDone, Emit, link, PromptBase, ControlInv
  <2> QED BY <1>0, <2>1 DEF ClockInv, Spent
<1>15. CASE InitReturns \/ SimpleReturns \/ EndReturns
  <2>1. pc' = "loop" /\ elapsed' = 0 /\ due' = 0 /\ state' \in {2, 4, 6}
    BY <1>15 DEF InitReturns, SimpleReturns, EndReturns, ChipReturns, InitDone, MainDone,
       EndDone, Emit
  <2> QED BY <1>0, <2>1 DEF ClockInv, Spent
<1>16. CASE ReadReturns
  <2>1. pc' = "ack" /\ waited' = 0 /\ elapsed' = 0 /\ due' = 0 /\ state' = 3
    BY <1>16 DEF ReadReturns, ChipReturns, StartAckWait, Emit
  <2> QED BY <1>0, <2>1 DEF ClockInv, Spent
<1>17. CASE WriteReturns
  <2>1. pc' = "loop" /\ elapsed' = 0 /\ due' = due /\ state' = 3
    BY <1>17 DEF WriteReturns, ChipReturns, link
  <2> QED BY <1>0, <2>1 DEF ClockInv, Spent
<1>18. CASE PromptTick
  <2>1. /\ due < MaxAnswer /\ due' = due + 1 /\ elapsed' = elapsed + 1
        /\ pc = "ack" => waited' = waited + 1
        /\ UNCHANGED <<cmd, state, pc, waiting>>
    BY <1>18 DEF PromptTick, Tick, handle
  <2>2. ~(cmd \in VoltageCmds /\ state = 0)
    BY <1>18 DEF PromptTick, Tick, Polling, InAckWait, Engine, InWriteMain, Running,
       PromptBase, ControlInv
  <2>3. ~(cmd = "WRITE" /\ state = 3 /\ pc = "loop" /\ ~waiting)
    BY <1>18 DEF PromptTick, Asked, TalkInv, MemoryTalk, Awaiting, Closed
  <2> QED BY <1>0, <2>1, <2>2, <2>3 DEF ClockInv, Spent
<1>19. CASE UNCHANGED <<cmd, state, waiting, pc, waited, elapsed, due>>
  BY <1>19 DEF ClockInv, Spent
<1>20. CASE WriteSkipsJunk \/ AckWaitIgnores \/ HostCommands \/ HostAnswers \/ UNCHANGED vars
  BY <1>19, <1>20 DEF WriteSkipsJunk, AckWaitIgnores, HostCommands, HostAnswers, Arrives,
     handle, link, vars
<1> QED BY <1>1, <1>2, <1>3, <1>4, <1>5, <1>6, <1>7, <1>8, <1>9, <1>10, <1>11, <1>12, <1>13,
     <1>14, <1>15, <1>16, <1>17, <1>18, <1>20 DEF PromptNext, Firmware
-----------------------------------------------------------------------------
(* The inductive invariant of a session with a prompt host. *)
PromptIInv == PromptBase /\ TalkInv /\ DeliveredInv /\ ClockInv

LEMMA PromptInductive == PromptSpec => []PromptIInv
<1>1. Init => PromptIInv
  <2> SUFFICES ASSUME Init PROVE PromptIInv
    OBVIOUS
  <2>1. FlagsOK
    BY Zenon DEF Init, FlagsOK
  <2>2. cmd = "IDLE" /\ rx = <<>> /\ due = 0 /\ pc = "loop"
    BY DEF Init
  <2>3. ReadInv /\ TalkInv /\ DeliveredInv
    BY <2>2, CmdsFacts DEF ReadInv, TalkInv, DeliveredInv
  <2>4. ClockInv
    BY <2>2, CmdsFacts, SessionAssumption DEF ClockInv
  <2> QED BY <2>1, <2>3, <2>4, InitData DEF PromptIInv, PromptBase, TypeOK
<1>2. PromptIInv /\ [PromptNext]_vars => PromptIInv'
  BY PromptBaseStep, TalkStep, DeliveredStep, ClockStep DEF PromptIInv, PromptBase
<1> QED BY <1>1, <1>2, PTL DEF PromptSpec

(* ReadComplete of Session: a read that reports MAIN_DONE to a host that speaks when asked
   has sent every byte of its region, whatever the chunks are and where it began. *)
THEOREM ReadIsComplete == PromptSpec => []ReadComplete
<1>1. PromptIInv => ReadComplete
  <2> SUFFICES ASSUME PromptIInv, cmd = "READ", state >= 4
               PROVE  covered = req.address..(OpEnd(req) - 1)
    BY DEF ReadComplete
  <2>1. state # 3
    OBVIOUS
  <2> QED BY <2>1 DEF PromptIInv, DeliveredInv, Told
<1> QED BY <1>1, PromptInductive, PTL

(* PromptHostNeverTimedOut of Session: neither op_wait_for_ack nor the watchdog of loop()
   ends the command of a host whose answers take less than the one's timeout and less than a
   third of the other's: those to the last chunk (or request), to MAIN_DONE and to END_DONE
   may run on one period of the watchdog.  Both bounds are sharp. *)
THEOREM PromptHostIsServed ==
  ASSUME MaxAnswer < AckTimeout, 3 * MaxAnswer < CmdTimeout
  PROVE  PromptSpec => []PromptHostNeverTimedOut
<1>1. Init => PromptHostNeverTimedOut
  BY DEF Init, PromptHostNeverTimedOut
<1>2. PromptIInv /\ PromptHostNeverTimedOut /\ [PromptNext]_vars => PromptHostNeverTimedOut'
  <2> SUFFICES ASSUME PromptIInv, PromptHostNeverTimedOut, [PromptNext]_vars
               PROVE  PromptHostNeverTimedOut'
    OBVIOUS
  <2>0. /\ due \in Nat /\ waited \in Nat /\ elapsed \in Nat /\ state \in 0..6
        /\ MaxAnswer \in Nat /\ AckTimeout \in Nat /\ CmdTimeout \in Nat
        /\ due <= MaxAnswer
    BY SessionAssumption DEF PromptIInv, PromptBase, TypeOK, DataOK, ClockInv
  <2>1. ~Watchdog
    BY <2>0 DEF Watchdog, PromptIInv, ClockInv, Spent
  <2>2. ~AckTimesOut
    BY <2>0 DEF AckTimesOut, PromptIInv, ClockInv
  <2>3. CASE UNCHANGED out
    BY <2>3 DEF PromptHostNeverTimedOut
  <2>4. ASSUME NEW frame, Emit(frame), frame \notin {"ACK_TIMEOUT", "CMD_TIMEOUT"}
        PROVE  PromptHostNeverTimedOut'
    BY <2>4 DEF Emit, PromptHostNeverTimedOut
  <2>5. \/ UNCHANGED out
        \/ \E frame \in Frames \ {"ACK_TIMEOUT", "CMD_TIMEOUT"} : Emit(frame)
    BY <2>1, <2>2 DEF PromptNext, Firmware, IdleCommand, IdleGarbage, Query, UnknownCommand,
       VoltageStart, VoltageMessage, Refuse, AwaitPhaseAck, EndedMessage, SimpleMain,
       CursorPastEnd, CursorAtEnd, ReadMain, RequestData, WriteSkipsJunk, WriteData, WriteDone,
       WriteRefuses, AckOpensPhase, AckOfChunk, AckWaitIgnores, AckWaitFails, InitReturns,
       ReadReturns, WriteReturns, SimpleReturns, EndReturns, ChipFails, PromptTick, Tick,
       HostCommands, HostAnswers, Arrives, Abort, CallMain, MainDone, InitDone, EndDone, link,
       vars, Frames
  <2> QED BY <2>3, <2>4, <2>5
<1> QED BY <1>1, <1>2, PromptInductive, PTL DEF PromptSpec
-----------------------------------------------------------------------------
(* A DONE that has arrived is still unread, or it ended MAIN: it is not lost on a board
   whose serial line is its own. *)
Unread == \E i \in 1..Len(rx) : rx[i] = Done
DoneInv == cmd # "IDLE" /\ doneArrived => state >= 4 \/ Unread

LEMMA HeadRead ==
  ASSUME rx \in Seq(Message), rx # <<>>, Head(rx) # Done, Unread, rx' = Tail(rx)
  PROVE  Unread'
<1>1. PICK i \in 1..Len(rx) : rx[i] = Done
  BY DEF Unread
<1>2. i # 1
  BY <1>1
<1>3. i - 1 \in 1..Len(Tail(rx)) /\ Tail(rx)[i - 1] = Done
  BY <1>1, <1>2, HeadTailProperties
<1> QED BY <1>3 DEF Unread

(* No step but the end of MAIN takes it from the buffer. *)
LEMMA DoneStep ==
  ASSUME ~DrainsRx, TypeOK, ControlInv, DoneInv, [Next]_vars PROVE DoneInv'
<1> USE CmdsFacts
<1>0. rx \in Seq(Message) /\ \A s : Drained(s) = s
  BY DEF TypeOK, DataOK, Drained
<1>a. ASSUME cmd' = "IDLE" PROVE DoneInv'
  BY <1>a DEF DoneInv
<1>b. ASSUME UNCHANGED doneArrived, cmd' = cmd, cmd # "IDLE",
             state >= 4 => state' >= 4,
             rx' = rx \/ state' >= 4 \/ (rx' = Tail(rx) /\ rx # <<>> /\ Head(rx) # Done)
      PROVE  DoneInv'
  BY <1>0, <1>b, HeadRead DEF DoneInv, Unread
<1>1. CASE IdleCommand
  BY <1>1, <1>a DEF IdleCommand, Abort, CommandDone, DoneInv, Unread
<1>2. CASE \/ IdleGarbage \/ Watchdog \/ Query \/ UnknownCommand \/ Refuse \/ CursorPastEnd
           \/ AckTimesOut \/ ChipFails \/ WriteRefuses \/ AckWaitFails
  BY <1>2, <1>a DEF IdleGarbage, Watchdog, Query, UnknownCommand, Refuse, CursorPastEnd,
     AckTimesOut, ChipFails, WriteRefuses, AckWaitFails, Abort, CommandDone, handle
<1>3. CASE VoltageStart
  <2>1. CASE Revision0
    BY <1>3, <2>1, <1>a DEF VoltageStart, Abort, CommandDone
  <2>2. CASE ~Revision0
    BY <1>0, <1>3, <2>2, <1>b DEF VoltageStart, Running, ghosts
  <2> QED BY <2>1, <2>2
<1>4. CASE VoltageMessage
  <2>1. CASE Head(rx) = Done
    BY <1>4, <2>1, <1>a DEF VoltageMessage, CommandDone
  <2>2. CASE Head(rx) # Done
    BY <1>4, <2>2, <1>b DEF VoltageMessage, Running, ghosts
  <2> QED BY <2>1, <2>2
<1>5. CASE AwaitPhaseAck
  BY <1>5, <1>b DEF AwaitPhaseAck, Engine, Running, handle, ghosts
<1>6. CASE EndedMessage
  <2>1. CASE Head(rx).t = "CMD"
    BY <1>6, <2>1, <1>b, WordFacts DEF EndedMessage, Engine, Running, handle, ghosts
  <2>2. CASE Head(rx).t # "CMD"
    BY <1>6, <2>2, <1>a DEF EndedMessage, Abort, CommandDone
  <2> QED BY <2>1, <2>2
<1>7. CASE SimpleMain \/ ReadMain \/ RequestData
  BY <1>7, <1>b DEF SimpleMain, ReadMain, RequestData, InWriteMain, CallMain, Engine, Running,
     ghosts
<1>8. CASE CursorAtEnd
  BY <1>8, <1>b DEF CursorAtEnd, MainDone, Engine, Running, ghosts
<1>9. CASE WriteSkipsJunk
  BY <1>9, <1>b, WordFacts DEF WriteSkipsJunk, InWriteMain, Engine, Running, handle, ghosts
<1>10. CASE WriteData
  <2>1. CASE Head(rx).n <= OpEnd(req) - address
    BY <1>10, <2>1, <1>b, WordFacts DEF WriteData, CallMain, InWriteMain, Engine, Running, ghosts
  <2>2. CASE ~(Head(rx).n <= OpEnd(req) - address)
    BY <1>10, <2>2, <1>a DEF WriteData, Abort, CommandDone
  <2> QED BY <2>1, <2>2
<1>11. CASE WriteDone
  <2>1. CASE req.regionEnd = 0
    BY <1>11, <2>1, <1>b DEF WriteDone, MainDone, InWriteMain, Engine, Running, ghosts
  <2>2. CASE req.regionEnd # 0
    BY <1>11, <2>2, <1>a DEF WriteDone, Abort, CommandDone
  <2> QED BY <2>1, <2>2
<1>12. CASE AckOpensPhase
  <2>1. /\ rx # <<>> /\ Head(rx) = Ack /\ rx' = Tail(rx) /\ pc = "ack" /\ cmd' = cmd
        /\ doneArrived' = doneArrived
    BY <1>12 DEF AckOpensPhase, InAckWait
  <2>2. state = 4 => state' \in {5, 6}
    BY <1>12 DEF AckOpensPhase, EndDone
  <2>3. state \in {0, 2, 4}
    BY <1>12 DEF AckOpensPhase
  <2> QED BY <2>1, <2>2, <2>3, <1>b, WordFacts DEF ControlInv
<1>13. CASE AckOfChunk
  BY <1>13, <1>b, WordFacts DEF AckOfChunk, InAckWait, MainDone, ControlInv, ghosts
<1>14. CASE AckWaitIgnores
  BY <1>14, <1>b, WordFacts DEF AckWaitIgnores, InAckWait, ControlInv, ghosts
<1>15. CASE InitReturns \/ ReadReturns \/ WriteReturns \/ SimpleReturns \/ EndReturns
  <2>1. pc = "chip" /\ rx' = rx /\ cmd' = cmd /\ doneArrived' = doneArrived
    BY <1>0, <1>15 DEF InitReturns, ReadReturns, WriteReturns, SimpleReturns, EndReturns,
       ChipReturns, ghosts
  <2>2. state >= 4 => state' >= 4
    <3>1. CASE InitReturns
      BY <3>1 DEF InitReturns
    <3>2. CASE ReadReturns \/ WriteReturns
      BY <3>2 DEF ReadReturns, WriteReturns
    <3>3. CASE SimpleReturns \/ EndReturns
      BY <3>3 DEF SimpleReturns, EndReturns, MainDone, EndDone
    <3> QED BY <1>15, <3>1, <3>2, <3>3
  <2> QED BY <2>1, <2>2, <1>b DEF ControlInv
<1>16. CASE Tick
  BY <1>16, <1>a, <1>b DEF Tick, handle, ghosts
<1>17. CASE FreeHost
  <2>1. PICK m \in Message : Arrives(m)
    BY <1>17 DEF FreeHost
  <2>2. /\ rx' = Append(rx, m) /\ UNCHANGED <<cmd, state>>
        /\ Len(rx') = Len(rx) + 1 /\ rx'[Len(rx) + 1] = m
        /\ \A i \in 1..Len(rx) : rx'[i] = rx[i]
    BY <1>0, <2>1 DEF Arrives, handle
  <2>3. Len(rx) \in Nat
    BY <1>0
  <2>4. CASE m = Done
    BY <2>2, <2>3, <2>4 DEF DoneInv, Unread
  <2>5. CASE m # Done
    <3>1. doneArrived' => doneArrived
      BY <2>1, <2>5, Zenon DEF Arrives
    <3> QED BY <2>2, <2>3, <3>1 DEF DoneInv, Unread
  <2> QED BY <2>4, <2>5
<1>18. CASE UNCHANGED vars
  BY <1>18, <1>a, <1>b DEF vars
<1> QED BY <1>1, <1>2, <1>3, <1>4, <1>5, <1>6, <1>7, <1>8, <1>9, <1>10, <1>11, <1>12, <1>13,
     <1>14, <1>15, <1>16, <1>17, <1>18 DEF Next, Firmware

(* NoRequestOverDone of Session, on a board whose serial line is its own: once a DONE is
   whole in the buffer data is not asked for, for every host and every length of its
   queue.  Nothing is said of a DONE that is still arriving. *)
THEOREM DoneIsSeenFirst == ASSUME ~DrainsRx PROVE Spec => NoRequestOverDone
<1> DEFINE Heard == ~waiting /\ waiting' => ~doneArrived
<1>1. Init => DoneInv
  BY DEF Init, DoneInv
<1>2. IInv /\ DoneInv /\ [Next]_vars => DoneInv'
  BY DoneStep DEF IInv
<1>3. DoneInv /\ [Next]_vars => [Heard]_vars
  <2> SUFFICES ASSUME DoneInv, [Next]_vars, ~waiting, waiting' PROVE ~doneArrived
    OBVIOUS
  <2>1. RequestData
    BY Zenon DEF Next, Firmware, IdleCommand, IdleGarbage, Watchdog, Query, UnknownCommand,
       VoltageStart, VoltageMessage, Refuse, AwaitPhaseAck, EndedMessage, SimpleMain,
       CursorPastEnd, CursorAtEnd, ReadMain, WriteSkipsJunk, WriteData, WriteDone,
       WriteRefuses, AckOpensPhase, AckOfChunk, AckWaitIgnores, AckWaitFails, AckTimesOut,
       InitReturns, ReadReturns, WriteReturns, SimpleReturns, EndReturns, ChipFails, Tick,
       FreeHost, Arrives, Abort, CommandDone, CallMain, handle, vars
  <2>2. cmd = "WRITE" /\ state = 3 /\ rx = <<>>
    BY <2>1 DEF RequestData, InWriteMain, Engine, Running
  <2> QED BY <2>2 DEF DoneInv, Unread
<1> QED BY <1>1, <1>2, <1>3, Inductive, PTL DEF Spec, NoRequestOverDone
-----------------------------------------------------------------------------
(* The contract of a memory command (CommandContract).  Every phase has taken one ACK. *)
GrantInv ==
  Serving => /\ state = 0 => acks = 0
             /\ state \in {1, 2} => acks = 1
             /\ state \in {3, 4} => acks = 2
             /\ state \in {5, 6} => acks = 3

LEMMA CommandDoneGrants ==
  ASSUME NEW rest, CommandDone(rest) PROVE ~Serving' /\ GrantInv'
BY CmdsFacts DEF CommandDone, Serving, GrantInv

LEMMA AbortGrants ==
  ASSUME NEW rest, NEW frame, Abort(rest, frame)
  PROVE  ~Serving' /\ GrantInv' /\ out' = frame
BY CommandDoneGrants DEF Abort, Emit

LEMMA ExitGrants ==
  ASSUME \/ Watchdog \/ Query \/ UnknownCommand \/ Refuse \/ CursorPastEnd
         \/ AckTimesOut \/ ChipFails \/ WriteRefuses \/ AckWaitFails
  PROVE  GrantInv'
BY AbortGrants DEF Watchdog, Query, UnknownCommand, Refuse, CursorPastEnd, AckTimesOut,
   ChipFails, WriteRefuses, AckWaitFails

LEMMA GrantStep == TypeOK /\ ControlInv /\ GrantInv /\ [Next]_vars => GrantInv'
<1> SUFFICES ASSUME TypeOK, ControlInv, GrantInv, [Next]_vars PROVE GrantInv'
  OBVIOUS
<1> USE CmdsFacts DEF GrantInv, Serving
<1>1. CASE IdleCommand
  <2>1. CASE state' = 0 /\ acks' = 0
    BY <2>1
  <2>2. CASE Abort(Tail(rx), "ERROR")
    BY <2>2, AbortGrants
  <2> QED
    BY <1>1, <2>1, <2>2, Zenon DEF IdleCommand
<1>2. CASE VoltageStart
  BY <1>2, AbortGrants DEF VoltageStart, Running
<1>3. CASE VoltageMessage
  BY <1>3, CommandDoneGrants DEF VoltageMessage, Running, ghosts
<1>4. CASE EndedMessage
  BY <1>4, CommandDoneGrants, AbortGrants DEF EndedMessage, handle, ghosts
<1>5. CASE CursorAtEnd
  BY <1>5 DEF CursorAtEnd, MainDone, ghosts
<1>6. CASE WriteData
  BY <1>6, AbortGrants DEF WriteData, CallMain, ghosts
<1>7. CASE WriteDone
  BY <1>7, AbortGrants DEF WriteDone, InWriteMain, MainDone, ghosts
<1>8. CASE AckOpensPhase
  <2>1. cmd \in MemoryCmds /\ cmd' = cmd /\ acks' = acks + 1
    BY <1>8 DEF AckOpensPhase, InAckWait, ControlInv
  <2>2. \/ state = 0 /\ (state' = 1 \/ state' = 2)
        \/ state = 2 /\ state' = 3
        \/ state = 4 /\ (state' = 5 \/ state' = 6)
    BY <1>8, Zenon DEF AckOpensPhase, InitDone, EndDone
  <2> QED
    BY <2>1, <2>2
<1>9. CASE AckOfChunk
  BY <1>9 DEF AckOfChunk, MainDone, ghosts
<1>10. CASE InitReturns \/ SimpleReturns \/ EndReturns
  BY <1>10 DEF InitReturns, SimpleReturns, EndReturns, ChipReturns, InitDone, MainDone,
     EndDone, ghosts, ControlInv
<1>11. CASE ReadReturns \/ WriteReturns
  BY <1>11 DEF ReadReturns, WriteReturns
<1>12. CASE UNCHANGED <<cmd, state, acks>>
  BY <1>12
<1>13. CASE \/ IdleGarbage \/ AwaitPhaseAck \/ SimpleMain \/ ReadMain \/ RequestData
            \/ WriteSkipsJunk \/ AckWaitIgnores \/ Tick \/ FreeHost \/ UNCHANGED vars
  BY <1>12, <1>13 DEF IdleGarbage, AwaitPhaseAck, SimpleMain, ReadMain, RequestData,
     WriteSkipsJunk, AckWaitIgnores, Tick, FreeHost, Arrives, CallMain, handle, ghosts, vars
<1> QED
  BY <1>1, <1>2, <1>3, <1>4, <1>5, <1>6, <1>7, <1>8, <1>9, <1>10, <1>11, <1>13, ExitGrants
     DEF Next, Firmware

-----------------------------------------------------------------------------
(* What a step of the session has to do to be a step of the contract. *)
LEMMA NotServed ==
  /\ ~Serving => /\ Served = Contract!NoTask /\ Phases = 0 /\ Grants = 0
                 /\ Moved = {} /\ Rail = FALSE
  /\ ~Serving' => /\ Served' = Contract!NoTask /\ Phases' = 0 /\ Grants' = 0
                  /\ Moved' = {} /\ Rail' = FALSE
BY DEF Served, Phases, Grants, Moved, Rail, Contract!NoTask

LEMMA IsServed ==
  ASSUME Serving, req \in Request
  PROVE  /\ Served \in Contract!Task /\ Served # Contract!NoTask
         /\ Served.first = req.address /\ Served.end = OpEnd(req)
<1>1. Kind \in {"read", "write", "other"}
  BY DEF Kind
<1>2. req.address \in Nat /\ OpEnd(req) \in Nat /\ (req.regionEnd # 0) \in BOOLEAN
  BY OpEndType DEF Request
<1>3. Served = [kind |-> Kind, first |-> req.address, end |-> OpEnd(req),
                declared |-> req.regionEnd # 0]
  BY DEF Served
<1>4. Served \in Contract!Task
  BY <1>1, <1>2, <1>3 DEF Contract!Task
<1>5. Served.kind = Kind /\ Contract!NoTask.kind = "none"
  BY <1>3 DEF Contract!NoTask
<1> QED BY <1>1, <1>3, <1>4, <1>5

LEMMA ServedKind ==
  ASSUME Serving
  PROVE  /\ cmd = "READ" => Served.kind = "read"
         /\ cmd = "WRITE" <=> Served.kind = "write"
<1>1. /\ cmd = "READ" => Kind = "read"
      /\ cmd = "WRITE" <=> Kind = "write"
  BY DEF Kind
<1>2. Served.kind = Kind
  BY DEF Served
<1> QED BY <1>1, <1>2

LEMMA ServedDeclared ==
  ASSUME Serving, Served.declared PROVE req.regionEnd # 0
BY Zenon DEF Served

LEMMA ElsewhereStep ==
  ASSUME ~Serving, ~Serving', out' \in Contract!Replies
  PROVE  Contract!CNext
BY NotServed DEF Contract!CNext, Contract!Elsewhere

LEMMA FailStep ==
  ASSUME Serving, ~Serving', out' \in Contract!Failures, req \in Request
  PROVE  Contract!CNext
BY NotServed, IsServed DEF Contract!CNext, Contract!Fail, Contract!Over

LEMMA Halves ==
  /\ 0 \div 2 = 0 /\ 1 \div 2 = 0 /\ 2 \div 2 = 1 /\ 3 \div 2 = 1
  /\ 4 \div 2 = 2 /\ 5 \div 2 = 2 /\ 6 \div 2 = 3
OBVIOUS

LEMMA FinishStep ==
  ASSUME Serving, ~Serving', state = 6, out' = out, req \in Request
  PROVE  Contract!CNext
<1>1. Phases = 3
  BY Halves DEF Phases
<1> QED BY <1>1, NotServed, IsServed DEF Contract!CNext, Contract!Finish, Contract!Over

LEMMA StutterStep ==
  ASSUME UNCHANGED <<cmd, req, state, acks, covered, hv, out>>
  PROVE  UNCHANGED Contract!cvars
<1>1. Serving' = Serving /\ Served' = Served
  BY DEF Serving, Served, Kind, OpEnd
<1> QED BY <1>1 DEF Contract!cvars, Phases, Grants, Moved, Rail

LEMMA AcceptStep ==
  ASSUME ~Serving, Serving', req' \in Request, state' = 0, acks' = 0, covered' = {},
         hv' = FALSE, out' = "READY"
  PROVE  Contract!CNext
<1>1. Served' \in Contract!Task
  <2>1. Kind' \in {"read", "write", "other"}
    BY DEF Kind
  <2>2. req'.address \in Nat /\ OpEnd(req') \in Nat /\ (req'.regionEnd # 0) \in BOOLEAN
    BY OpEndType DEF Request
  <2>3. Served' = [kind |-> Kind', first |-> req'.address, end |-> OpEnd(req'),
                   declared |-> req'.regionEnd # 0]
    BY DEF Served
  <2> QED BY <2>1, <2>2, <2>3 DEF Contract!Task
<1>2. Phases' = 0 /\ Grants' = 0 /\ Moved' = {} /\ Rail' = FALSE
  BY Halves DEF Phases, Grants, Moved, Rail
<1> QED BY <1>1, <1>2, NotServed DEF Contract!CNext, Contract!Accept

\* A step inside a command.
LEMMA Inside ==
  ASSUME Serving, UNCHANGED <<cmd, req>>, req \in Request
  PROVE  /\ Served # Contract!NoTask /\ Served' = Served
         /\ Phases = state \div 2 /\ Phases' = state' \div 2
         /\ Grants = acks /\ Grants' = acks' /\ Moved = covered /\ Moved' = covered'
         /\ Rail = hv /\ Rail' = hv'
<1>1. Serving' /\ Served' = Served
  BY DEF Serving, Served, Kind, OpEnd
<1> QED BY <1>1, IsServed DEF Phases, Grants, Moved, Rail

LEMMA OpenStep ==
  ASSUME Serving, req \in Request, UNCHANGED <<cmd, req, covered, hv, out>>,
         GrantInv, state \in {0, 2, 4}, state' = state + 1, acks' = acks + 1
  PROVE  Contract!CNext
<1>1. Phases < 3 /\ Phases' = Phases /\ Grants = Phases /\ Grants' = Phases + 1
  BY Inside, Halves DEF GrantInv
<1> QED BY <1>1, Inside DEF Contract!CNext, Contract!Open

LEMMA MainIsMoving ==
  ASSUME Serving, state = 3, req \in Request, GrantInv
  PROVE  Contract!Moving
BY IsServed, Halves DEF GrantInv, Contract!Moving, Phases, Grants

LEMMA AskStep ==
  ASSUME cmd = "WRITE", state = 3, req \in Request, GrantInv,
         UNCHANGED <<cmd, req, state, acks, covered, hv>>, out' = "REQ_DATA"
  PROVE  Contract!CNext
<1>1. Serving
  BY CmdsFacts DEF Serving
<1>2. UNCHANGED <<Served, Phases, Grants, Moved, Rail>>
  BY <1>1, Inside
<1> QED BY <1>1, <1>2, MainIsMoving, ServedKind DEF Contract!CNext, Contract!Ask

LEMMA WriteMoves ==
  ASSUME cmd = "WRITE", state = 3, req \in Request, GrantInv,
         UNCHANGED <<cmd, req, state, acks, out>>, hv' \in {hv, TRUE},
         covered \subseteq covered',
         NEW next \in req.address..OpEnd(req), covered' = req.address..(next - 1)
  PROVE  Contract!CNext
<1>1. Serving
  BY CmdsFacts DEF Serving
<1>2. UNCHANGED <<Served, Phases, Grants>> /\ Moved = covered /\ Moved' = covered'
  BY <1>1, Inside
<1>3. Rail' \in {Rail, TRUE}
  BY <1>1, Inside, Zenon
<1>4. /\ Served.kind = "write" /\ Served.first = req.address /\ Served.end = OpEnd(req)
      /\ Contract!Moving
  BY <1>1, IsServed, ServedKind, MainIsMoving
<1>5. Contract!Write
  BY <1>2, <1>3, <1>4 DEF Contract!Write
<1> QED BY <1>5 DEF Contract!CNext

LEMMA ReadMoves ==
  ASSUME cmd = "READ", state = 3, req \in Request, GrantInv,
         UNCHANGED <<cmd, req, state, acks, hv>>, out' = "CHUNK",
         covered \subseteq covered', covered' \subseteq req.address..(OpEnd(req) - 1)
  PROVE  Contract!CNext
<1>1. Serving
  BY CmdsFacts DEF Serving
<1>2. UNCHANGED <<Served, Phases, Grants, Rail>> /\ Moved = covered /\ Moved' = covered'
  BY <1>1, Inside
<1>3. /\ Served.kind = "read" /\ Served.first = req.address /\ Served.end = OpEnd(req)
      /\ Contract!Moving
  BY <1>1, IsServed, ServedKind, MainIsMoving
<1>4. Contract!Read
  BY <1>2, <1>3 DEF Contract!Read, Contract!Region
<1> QED BY <1>4 DEF Contract!CNext

\* The reports, one per phase.
LEMMA Reports ==
  /\ Contract!Report[1] = "INIT_DONE" /\ Contract!Report[2] = "MAIN_DONE"
  /\ Contract!Report[3] = "END_DONE"
BY DEF Contract!Report

LEMMA InitReport ==
  ASSUME Serving, req \in Request, UNCHANGED <<cmd, req, covered>>, GrantInv, GrantInv',
         state \in {0, 1}, state' = 2, hv' \in BOOLEAN, out' = "INIT_DONE"
  PROVE  Contract!CNext
<1>1. Served # Contract!NoTask /\ UNCHANGED <<Served, Moved>> /\ Rail' \in BOOLEAN
  BY Inside, Zenon
<1>2. Phases = 0 /\ Phases' = 1 /\ Grants' = 1
  BY Inside, Halves DEF GrantInv, Serving
<1>3. Contract!Close
  BY <1>1, <1>2, Reports DEF Contract!Close
<1> QED BY <1>3 DEF Contract!CNext

LEMMA MainReport ==
  ASSUME Serving, req \in Request, UNCHANGED <<cmd, req, covered, hv, acks>>, GrantInv,
         hv \in BOOLEAN, state = 3, state' = 4, out' = "MAIN_DONE",
         cmd = "WRITE" /\ req.regionEnd # 0 => covered = req.address..(OpEnd(req) - 1)
  PROVE  Contract!CNext
<1>1. /\ Served # Contract!NoTask /\ UNCHANGED <<Served, Moved>>
      /\ Rail' \in BOOLEAN /\ Rail' = Rail
  BY Inside, Zenon
<1>2. Phases = 1 /\ Phases' = 2 /\ Grants' = 2
  BY Inside, Halves DEF GrantInv
<1>3. Served.kind = "write" /\ Served.declared => Moved = Contract!Region
  BY IsServed, ServedKind, ServedDeclared, Inside DEF Contract!Region
<1>4. Contract!Close
  BY <1>1, <1>2, <1>3, MainIsMoving, Reports DEF Contract!Close
<1> QED BY <1>4 DEF Contract!CNext

LEMMA EndReport ==
  ASSUME Serving, req \in Request, UNCHANGED <<cmd, req, covered>>, GrantInv, GrantInv',
         hv \in BOOLEAN, state \in {4, 5}, state' = 6, hv' = hv \/ hv' = FALSE,
         out' = "END_DONE"
  PROVE  Contract!CNext
<1>1. /\ Served # Contract!NoTask /\ UNCHANGED <<Served, Moved>>
      /\ Rail' \in BOOLEAN /\ Rail' \in {Rail, FALSE}
  BY Inside, Zenon
<1>2. Phases = 2 /\ Phases' = 3 /\ Grants' = 3
  BY Inside, Halves DEF GrantInv, Serving
<1>3. /\ Phases < 3 /\ Phases' = Phases + 1 /\ Phases # 1 /\ Grants' = Phases'
      /\ out' = Contract!Report[Phases']
  BY <1>2, Reports
<1>4. Contract!Close
  BY <1>1, <1>3, Zenon DEF Contract!Close
<1> QED BY <1>4 DEF Contract!CNext

LEMMA QuietStep ==
  ASSUME ~Serving, ~Serving', out' = out PROVE UNCHANGED Contract!cvars
BY NotServed DEF Contract!cvars

LEMMA AbortStep ==
  ASSUME NEW rest, NEW frame \in Contract!Failures, Abort(rest, frame), req \in Request
  PROVE  Contract!CNext
<1>1. ~Serving' /\ out' \in Contract!Failures
  BY AbortGrants
<1>2. Contract!Failures \subseteq Contract!Replies
  BY DEF Contract!Replies
<1> QED BY <1>1, <1>2, FailStep, ElsewhereStep

LEMMA ExitStep ==
  ASSUME req \in Request,
         \/ Watchdog \/ Refuse \/ CursorPastEnd \/ AckTimesOut \/ ChipFails \/ WriteRefuses
         \/ AckWaitFails \/ UnknownCommand
  PROVE  Contract!CNext
BY AbortStep DEF Watchdog, Refuse, CursorPastEnd, AckTimesOut, ChipFails, WriteRefuses,
   AckWaitFails, UnknownCommand, Contract!Failures

\* The steps outside a memory command.
LEMMA OutsideStep ==
  ASSUME TypeOK, ConsentInv, TypeOK',
         IdleCommand \/ IdleGarbage \/ Query \/ VoltageStart \/ VoltageMessage
  PROVE  Contract!CNext \/ UNCHANGED Contract!cvars
<1> USE CmdsFacts
<1>0. req \in Request /\ "ERROR" \in Contract!Failures
      /\ {"READY", "VOLTAGE", "REPLY", "ERROR"} \subseteq Contract!Replies
  BY DEF TypeOK, DataOK, Contract!Failures, Contract!Replies
<1>1. CASE IdleCommand
  <2>1. CASE Abort(Tail(rx), "ERROR")
    BY <1>0, <2>1, AbortStep
  <2>2. CASE state' = 0 /\ acks' = 0 /\ covered' = {} /\ Emit("READY") /\ hv' = hv
    <3>1. ~Serving /\ out' = "READY"
      BY <1>1, <2>2 DEF IdleCommand, Serving, Emit
    <3>2. hv' = FALSE
      <4>1. ~hv
        BY <1>1 DEF IdleCommand, ConsentInv, HvNeedsConsent
      <4> QED BY <2>2, <4>1, Zenon DEF TypeOK, FlagsOK
    <3>3. req' \in Request
      BY DEF TypeOK, DataOK
    <3> QED BY <1>0, <2>2, <3>1, <3>2, <3>3, AcceptStep, ElsewhereStep
  <2> QED BY <1>1, <2>1, <2>2, Zenon DEF IdleCommand
<1>2. CASE IdleGarbage
  BY <1>0, <1>2, ElsewhereStep DEF IdleGarbage, Emit, Serving, handle
<1>3. CASE Query
  <2>1. cmd \in QueryCmds /\ QueryCmds \cap MemoryCmds = {}
    BY <1>3 DEF Query, Running, QueryCmds, MemoryCmds
  <2>2. Abort(rx, "REPLY")
    BY <1>3 DEF Query
  <2>3. ~Serving' /\ out' = "REPLY"
    BY <2>2, AbortGrants
  <2> QED BY <1>0, <2>1, <2>3, ElsewhereStep DEF Serving
<1>4. CASE VoltageStart
  <2>1. ~Serving
    BY <1>4 DEF VoltageStart, Running, Serving
  <2>2. CASE Abort(rx, "ERROR")
    BY <1>0, <2>2, AbortStep
  <2>3. CASE Emit("READY") /\ cmd' = cmd
    BY <1>0, <2>1, <2>3, ElsewhereStep DEF Emit, Serving
  <2> QED BY <1>4, <2>2, <2>3 DEF VoltageStart
<1>5. CASE VoltageMessage
  <2>1. ~Serving
    BY <1>5 DEF VoltageMessage, Running, Serving
  <2>2. ~Serving'
    BY <1>5, <2>1, CommandDoneGrants DEF VoltageMessage, Serving
  <2>3. out' = out \/ out' = "VOLTAGE" \/ out' = "ERROR"
    BY <1>5 DEF VoltageMessage, Emit, link
  <2> QED BY <1>0, <2>1, <2>2, <2>3, ElsewhereStep, QuietStep
<1> QED BY <1>1, <1>2, <1>3, <1>4, <1>5

\* The ACK that opens a phase.
LEMMA AckStep ==
  ASSUME TypeOK, ControlInv, GrantInv, GrantInv', AckOpensPhase
  PROVE  Contract!CNext
<1>1. Serving /\ req \in Request /\ UNCHANGED <<cmd, req, covered, hv>> /\ acks' = acks + 1
  BY DEF AckOpensPhase, InAckWait, ControlInv, Serving, TypeOK, DataOK
<1>2. hv \in BOOLEAN /\ hv' = hv
  BY <1>1, Zenon DEF TypeOK, FlagsOK
<1>3. CASE state = 0 /\ state' = 2 /\ out' = "INIT_DONE"
  <2>1. hv' \in BOOLEAN
    BY <1>2, Zenon
  <2> QED BY <1>1, <1>3, <2>1, InitReport
<1>4. CASE state = 4 /\ state' = 6 /\ out' = "END_DONE"
  BY <1>1, <1>2, <1>4, EndReport
<1>5. CASE state \in {0, 2, 4} /\ state' = state + 1 /\ out' = out
  BY <1>1, <1>5, OpenStep
<1>6. \/ state = 0 /\ state' = 1 /\ out' = out
      \/ state = 0 /\ state' = 2 /\ out' = "INIT_DONE"
      \/ state = 2 /\ state' = 3 /\ out' = out
      \/ state = 4 /\ state' = 5 /\ out' = out
      \/ state = 4 /\ state' = 6 /\ out' = "END_DONE"
  BY Zenon DEF AckOpensPhase, InitDone, EndDone, Emit, link
<1> QED BY <1>3, <1>4, <1>5, <1>6

\* The ends of MAIN, and a callback's return.
LEMMA MainEndStep ==
  ASSUME TypeOK, ControlInv, WriteInv, GrantInv,
         CursorAtEnd \/ WriteDone \/ AckOfChunk \/ SimpleReturns
  PROVE  Contract!CNext \/ UNCHANGED Contract!cvars
<1> USE CmdsFacts
<1>0. req \in Request /\ hv \in BOOLEAN
  BY Zenon DEF TypeOK, DataOK, FlagsOK
<1>1. ASSUME Serving, state = 3, MainDone,
             UNCHANGED <<cmd, req, covered, hv, acks>>,
             cmd = "WRITE" /\ req.regionEnd # 0 => covered = req.address..(OpEnd(req) - 1)
      PROVE  Contract!CNext
  BY <1>0, <1>1, MainReport DEF MainDone, Emit
<1>2. CASE CursorAtEnd
  <2>1. cmd = "WRITE" => covered = req.address..(OpEnd(req) - 1)
    BY <1>2 DEF CursorAtEnd, WriteInv
  <2> QED BY <1>1, <1>2, <2>1 DEF CursorAtEnd, Engine, Running, Serving, ghosts
<1>3. CASE WriteDone
  <2>1. CASE Abort(Tail(rx), "ERROR")
    BY <1>0, <2>1, AbortStep DEF Contract!Failures
  <2>2. CASE req.regionEnd = 0 /\ MainDone /\ UNCHANGED <<cmd, req, hv, ghosts>>
    BY <1>1, <1>3, <2>2 DEF WriteDone, InWriteMain, Engine, Running, Serving, ghosts
  <2> QED BY <1>3, <2>1, <2>2 DEF WriteDone
<1>4. CASE AckOfChunk
  <2>1. /\ Serving /\ state = 3 /\ cmd = "READ"
        /\ UNCHANGED <<cmd, req, hv, covered, acks>>
    BY <1>4 DEF AckOfChunk, InAckWait, ControlInv, Serving, ghosts
  <2>2. CASE MainDone
    BY <1>1, <2>1, <2>2
  <2>3. CASE UNCHANGED <<state, link>>
    BY <2>1, <2>3, StutterStep DEF link
  <2> QED BY <1>4, <2>2, <2>3 DEF AckOfChunk
<1>5. CASE SimpleReturns
  BY <1>1, <1>5 DEF SimpleReturns, ChipReturns, ControlInv, Serving, ghosts
<1> QED BY <1>2, <1>3, <1>4, <1>5

LEMMA ReturnStep ==
  ASSUME IInv, IInv', GrantInv, GrantInv',
         InitReturns \/ ReadReturns \/ WriteReturns \/ EndReturns
  PROVE  Contract!CNext
<1> USE CmdsFacts
<1>0. req \in Request /\ hv \in BOOLEAN /\ hv' \in BOOLEAN
  BY Zenon DEF IInv, TypeOK, DataOK, FlagsOK
<1>1. Serving /\ UNCHANGED <<cmd, req>>
  BY DEF InitReturns, ReadReturns, WriteReturns, EndReturns, ChipReturns, IInv, ControlInv,
         Serving
<1>2. CASE InitReturns
  BY <1>0, <1>1, <1>2, InitReport DEF InitReturns, InitDone, Emit, ghosts
<1>3. CASE EndReturns
  BY <1>0, <1>1, <1>3, EndReport DEF EndReturns, EndDone, Emit, ghosts
<1>4. CASE ReadReturns
  <2>1. /\ state = 3 /\ cmd = "READ" /\ UNCHANGED <<cmd, req, state, acks, hv>>
        /\ covered \subseteq covered' /\ out' = "CHUNK"
    BY <1>4 DEF ReadReturns, Emit
  <2>2. covered' \subseteq req.address..(OpEnd(req) - 1)
    BY <2>1 DEF IInv, ReadInv
  <2> QED BY <1>0, <2>1, <2>2, ReadMoves
<1>5. CASE WriteReturns
  <2>1. /\ state = 3 /\ cmd = "WRITE" /\ UNCHANGED <<cmd, req, state, acks, out>>
        /\ covered \subseteq covered'
    BY <1>5 DEF WriteReturns, link
  <2>2. hv' \in {hv, TRUE}
    BY <1>5, Zenon DEF WriteReturns
  <2>3. /\ covered' = req.address..(address' - 1)
        /\ req.address <= address' /\ address' <= OpEnd(req)
    BY <2>1 DEF IInv, WriteInv, OpEnd
  <2>4. address' \in req.address..OpEnd(req)
    BY <1>0, <2>3, OpEndType DEF IInv, TypeOK, DataOK, Request
  <2> QED BY <1>0, <2>1, <2>2, <2>3, <2>4, WriteMoves
<1> QED BY <1>2, <1>3, <1>4, <1>5

LEMMA ContractStep ==
  IInv /\ IInv' /\ GrantInv /\ GrantInv' /\ [Next]_vars => [Contract!CNext]_(Contract!cvars)
<1> SUFFICES ASSUME IInv, IInv', GrantInv, GrantInv', [Next]_vars
             PROVE  Contract!CNext \/ UNCHANGED Contract!cvars
  OBVIOUS
<1>0. /\ TypeOK /\ TypeOK' /\ ControlInv /\ ConsentInv /\ WriteInv /\ req \in Request
      /\ "ERROR" \in Contract!Failures
  BY DEF IInv, TypeOK, DataOK, Contract!Failures
<1>1. CASE IdleCommand \/ IdleGarbage \/ Query \/ VoltageStart \/ VoltageMessage
  BY <1>0, <1>1, OutsideStep
<1>2. CASE \/ Watchdog \/ Refuse \/ CursorPastEnd \/ AckTimesOut \/ ChipFails
           \/ WriteRefuses \/ AckWaitFails \/ UnknownCommand
  BY <1>0, <1>2, ExitStep
<1>3. CASE AckOpensPhase
  BY <1>0, <1>3, AckStep
<1>4. CASE CursorAtEnd \/ WriteDone \/ AckOfChunk \/ SimpleReturns
  BY <1>0, <1>4, MainEndStep
<1>5. CASE InitReturns \/ ReadReturns \/ WriteReturns \/ EndReturns
  BY <1>5, ReturnStep
<1>6. CASE \/ AwaitPhaseAck \/ SimpleMain \/ ReadMain \/ WriteSkipsJunk \/ AckWaitIgnores
           \/ Tick \/ FreeHost \/ UNCHANGED vars
  BY <1>6, StutterStep DEF AwaitPhaseAck, SimpleMain, ReadMain, WriteSkipsJunk,
     AckWaitIgnores, Tick, FreeHost, Arrives, CallMain, handle, link, ghosts, vars
<1>7. CASE EndedMessage
  <2>1. CASE rx' = Tail(rx) /\ UNCHANGED <<handle, pc, waited, elapsed, hv, link, ghosts>>
    BY <2>1, StutterStep DEF handle, link, ghosts
  <2>2. CASE Abort(Tail(rx), "ERROR")
    BY <1>0, <2>2, AbortStep
  <2>3. CASE CommandDone(Tail(rx)) /\ UNCHANGED link
    BY <1>0, <1>7, <2>3, CommandDoneGrants, FinishStep
       DEF EndedMessage, Engine, Running, Serving, link
  <2> QED BY <1>7, <2>1, <2>2, <2>3 DEF EndedMessage
<1>8. CASE RequestData
  BY <1>0, <1>8, AskStep DEF RequestData, InWriteMain, Engine, Running, Emit, ghosts
<1>9. CASE WriteData
  <2>1. CASE Abort(Tail(rx), "ERROR")
    BY <1>0, <2>1, AbortStep
  <2>2. CASE CallMain
    BY <2>2, StutterStep DEF CallMain, link, ghosts
  <2> QED BY <1>9, <2>1, <2>2 DEF WriteData
<1> QED
  BY <1>1, <1>2, <1>3, <1>4, <1>5, <1>6, <1>7, <1>8, <1>9 DEF Next, Firmware

(* loop() and op_execute_stateful_operation implement the contract of a command, for every
   set of requests, device and buffer size, timeout and board, and any host. *)
THEOREM SessionKeepsTheContract == Spec => CommandsKeepTheContract
<1>1. Init => GrantInv
  BY CmdsFacts DEF Init, GrantInv, Serving
<1>2. Init => Contract!CInit
  <2> SUFFICES ASSUME Init PROVE Contract!CInit
    OBVIOUS
  <2>1. ~Serving /\ out = "NONE"
    BY CmdsFacts DEF Init, Serving
  <2> QED BY <2>1, NotServed DEF Contract!CInit, Contract!Free
<1>3. IInv /\ GrantInv /\ [Next]_vars => GrantInv'
  BY GrantStep DEF IInv
<1> QED
  BY <1>1, <1>2, <1>3, ContractStep, Inductive, PTL
     DEF Spec, CommandsKeepTheContract, Contract!CSpec
===============================================================================
