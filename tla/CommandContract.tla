---------------------------- MODULE CommandContract ----------------------------
(* What a memory command is to its host: three phases, each opened by an ACK of its
   own and closed by a report of its own, in one order.  The bytes move in the second,
   and it is reported done only when a declared region has been written.  A programming
   voltage needs the first ACK and does not outlive the command.  A command that stops
   before the end says so. *)
EXTENDS Integers

VARIABLES
  task,    \* the command under way, NoTask between two
  phases,  \* phases reported done
  grants,  \* ACKs that opened a phase
  moved,   \* addresses written to the chip, or read from it and sent
  rail,    \* a programming voltage is on
  said     \* the last frame to the host

cvars == <<task, phases, grants, moved, rail, said>>

Task == [kind : {"read", "write", "other"}, first : Nat, end : Nat, declared : BOOLEAN]
NoTask == [kind |-> "none", first |-> 0, end |-> 0, declared |-> FALSE]
Region == task.first..(task.end - 1)

Report == <<"INIT_DONE", "MAIN_DONE", "END_DONE">>
Failures == {"ERROR", "ACK_TIMEOUT", "CMD_TIMEOUT"}
Replies == Failures \cup {"READY", "VOLTAGE", "REPLY"}

Over == task' = NoTask /\ phases' = 0 /\ grants' = 0 /\ moved' = {} /\ rail' = FALSE

Free == task = NoTask /\ phases = 0 /\ grants = 0 /\ moved = {} /\ rail = FALSE
CInit == Free /\ said = "NONE"

\* Queries, voltage readings and what is no command at all: not this contract's.
Elsewhere == task = NoTask /\ said' \in Replies /\ UNCHANGED <<task, phases, grants, moved, rail>>

Accept ==
  /\ task = NoTask /\ task' \in Task /\ said' = "READY"
  /\ UNCHANGED <<phases, grants, moved, rail>>

\* The ACK is taken before the phase's work, or with the report of a phase without any.
Open ==
  /\ task # NoTask /\ phases < 3 /\ grants = phases /\ grants' = phases + 1
  /\ UNCHANGED <<task, phases, moved, rail, said>>

Moving == task # NoTask /\ phases = 1 /\ grants = 2

Close ==
  /\ task # NoTask /\ phases < 3 /\ phases' = phases + 1
  /\ phases = 1 => /\ Moving /\ rail' = rail
                   /\ task.kind = "write" /\ task.declared => moved = Region
  /\ phases = 2 => rail' \in {rail, FALSE}
  /\ grants' = phases' /\ rail' \in BOOLEAN /\ said' = Report[phases']
  /\ UNCHANGED <<task, moved>>

Ask ==
  /\ Moving /\ task.kind = "write" /\ said' = "REQ_DATA"
  /\ UNCHANGED <<task, phases, grants, moved, rail>>

\* A write goes up through the region without a gap; a read sends what it reads.
Write ==
  /\ Moving /\ task.kind = "write" /\ rail' \in {rail, TRUE}
  /\ moved \subseteq moved'
  /\ \E next \in task.first..task.end : moved' = task.first..(next - 1)
  /\ UNCHANGED <<task, phases, grants, said>>

Read ==
  /\ Moving /\ task.kind = "read" /\ said' = "CHUNK"
  /\ moved \subseteq moved' /\ moved' \subseteq Region
  /\ UNCHANGED <<task, phases, grants, rail>>

Finish == task # NoTask /\ phases = 3 /\ Over /\ UNCHANGED said
Fail == task # NoTask /\ Over /\ said' \in Failures

CNext == Elsewhere \/ Accept \/ Open \/ Close \/ Ask \/ Write \/ Read \/ Finish \/ Fail
CSpec == CInit /\ [][CNext]_cvars
===============================================================================
