----------------------------- MODULE DeferredLog -----------------------------
(***************************************************************************)
(* Response frames on a Uno-class board, whose UART pins are part of the   *)
(* data bus (src/boards/uno_rurp_shield.cpp over include/deferred_log.h).  *)
(*                                                                         *)
(* In communication mode a frame goes out at once.  In programmer mode,    *)
(* while a driver callback owns the bus, it is queued, and sent when the   *)
(* callback has returned.  The queue is short: when it is full an INFO or  *)
(* WARN frame makes way for any other.                                     *)
(***************************************************************************)
EXTENDS Naturals, Sequences, SequencesExt

CONSTANTS
  LogMax,    \* DEFERRED_LOG_MAX
  Reports,   \* what a callback may log, as sequences of message ids
  TooLong    \* the ids whose parameters do not fit a slot

ASSUME DeferredAssumption ==
  /\ LogMax \in Nat \ {0}
  /\ Reports \subseteq Seq(0..255)

(* deferred_log_is_droppable: INFO and WARN. *)
Droppable(id) == id >= \h40 /\ id < \hA0

VARIABLES
  com_mode,   \* the UART is up
  log,        \* the frames queued, as their indices in report
  report, n,  \* what the callback under way logs, and how much of it has been
  wire        \* the frames of this callback that have been sent

logVars == <<com_mode, log, report, n, wire>>

-----------------------------------------------------------------------------
(* rurp_set_programmer_mode, and the callback called. *)
EnterProgrammerMode ==
  /\ com_mode
  /\ com_mode' = FALSE
  /\ report' \in Reports /\ n' = 0 /\ wire' = <<>>
  /\ UNCHANGED log

Full == Len(log) >= LogMax

(* Slip: the oldest droppable frame makes way, and the new one takes its slot. *)
MadeRoomInPlace ==
  IF Full
  THEN LET victim == SelectInSeq(log, LAMBDA m : Droppable(report[m]))
       IN  [log EXCEPT ![victim] = n']
  ELSE Append(log, n')

(* deferred_log_push: the newest droppable frame makes way. *)
MadeRoom ==
  IF Full
  THEN LET victim == SelectLastInSeq(log, LAMBDA m : Droppable(report[m]))
       IN  Append(RemoveAt(log, victim), n')
  ELSE Append(log, n')

Room == ~Full \/ (\E k \in DOMAIN log : Droppable(report[log[k]]))

Logs == ~com_mode /\ n < Len(report) /\ n' = n + 1 /\ UNCHANGED <<com_mode, report, wire>>

(* A frame with more parameters than a slot holds is not queued at all. *)
Id == report[n']

Queued ==
  /\ Logs /\ Id \notin TooLong
  /\ Droppable(Id) => ~Full
  /\ Room
  /\ log' = MadeRoom

Dropped ==
  /\ Logs
  /\ Id \in TooLong \/ ~Room \/ (Droppable(Id) /\ Full)
  /\ UNCHANGED log

(* Slip: the last frame is not sent. *)
EnterCommunicationModeShort ==
  /\ ~com_mode /\ n = Len(report)
  /\ com_mode' = TRUE
  /\ wire' = IF log = <<>> THEN log ELSE Front(log)
  /\ log' = <<>>
  /\ UNCHANGED <<report, n>>

(* rurp_set_communication_mode, the callback having returned. *)
EnterCommunicationMode ==
  /\ ~com_mode /\ n = Len(report)
  /\ com_mode' = TRUE
  /\ wire' = log
  /\ log' = <<>>
  /\ UNCHANGED <<report, n>>

LogInit == com_mode = TRUE /\ log = <<>> /\ report = <<>> /\ n = 0 /\ wire = <<>>

LogNext == EnterProgrammerMode \/ Queued \/ Dropped \/ EnterCommunicationMode

LogSpec == LogInit /\ [][LogNext]_logVars

-----------------------------------------------------------------------------
LogTypeOK ==
  /\ com_mode \in BOOLEAN
  /\ Len(log) <= LogMax /\ (com_mode => log = <<>>)
  /\ n \in 0..Len(report)
  /\ ToSet(log) \subseteq 1..n

(* deferred_log.h: the send order stays the same, whatever made way for whatever. *)
SendOrder ==
  \A j, k \in DOMAIN wire : j < k => wire[j] < wire[k]

\* The frames the host waits for.
Important == {m \in 1..Len(report) : ~Droppable(report[m]) /\ report[m] \notin TooLong}
===============================================================================
