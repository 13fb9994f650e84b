------------------------------ MODULE TaskRows ------------------------------
(***************************************************************************)
(* The two MySQL tables that the workspace task engine, the acknowledgement*)
(* endpoint, the executors and the PATCH handler share:                    *)
(*                                                                         *)
(*   task  workspace_tasks                (workspace-task.entity.ts)       *)
(*   disp  malv_external_action_dispatch  (migration 050)                  *)
(*                                                                         *)
(* and the socket messages on their way to the executors (inbox).  Every   *)
(* action of the modules that extend this one is one SQL statement or one  *)
(* socket emission: between two of them any other process may run.         *)
(***************************************************************************)
EXTENDS Naturals, FiniteSets

CONSTANTS
    Tasks,          \* rows of workspace_tasks
    DispatchIds,    \* primary keys available to malv_external_action_dispatch
    Agents,         \* executors joined to the room a dispatch is emitted to
    None,           \* SQL NULL
    MaxTime,        \* bound: the last instant of the clock
    MaxFired,       \* bound: the work counter saturates here
    ExecutionType,  \* execution_type of each task: never patched
    SchedDates, RemDates, DueDates, \* dates a new task may carry, None included
    Approvals       \* requires_approval values a new task may carry

VARIABLES
    clock,   \* wall clock, in instants
    task,    \* workspace_tasks
    disp,    \* malv_external_action_dispatch
    inbox,   \* dispatch messages emitted to each executor and not yet received
    fired,   \* history: notifications delivered or workflows run per task
    effect   \* history: what stands behind the acknowledgements of a dispatch

ExecutionTypes ==
    {"reminder", "call_followup", "chat_followup", "external_action",
     "workflow_task", "manual_checklist"}

Instants == 0 .. MaxTime

ASSUME NoneAssumption ==
    None \notin (Nat \cup DispatchIds \cup Tasks \cup Agents)

ASSUME BoundAssumption ==
    /\ MaxTime \in Nat
    /\ MaxFired \in Nat \ {0}

ASSUME TaskAssumption ==
    /\ ExecutionType \in [Tasks -> ExecutionTypes]
    /\ SchedDates \subseteq Instants \cup {None}
    /\ RemDates   \subseteq Instants \cup {None}
    /\ DueDates   \subseteq Instants \cup {None}
    /\ Approvals  \subseteq BOOLEAN

(***************************************************************************)
(* execution_state, and the subset the due-task scanner may pick up.       *)
(***************************************************************************)

\* Mutant: paused tasks are scanned.
EligibleOrPaused ==
    {"idle", "pending", "scheduled", "due", "waiting_approval"}

EligibleStates == {"idle", "pending", "scheduled", "due"}
ClaimedStates  == {"dispatched", "running"}
TerminalStates == {"blocked", "completed", "failed", "cancelled"}
ExecutionStates ==
    EligibleStates \cup ClaimedStates \cup TerminalStates
        \cup {"waiting_input", "waiting_approval"}

(***************************************************************************)
(* A lease is NULL, in force, or past its expiry.  The three durations     *)
(* (execution, acknowledgement and completion lease) are left out: a lease *)
(* in force may expire at any moment.                                      *)
(***************************************************************************)
Leases == {"none", "held", "expired"}

(***************************************************************************)
(* open stands for status \in {todo, in_progress} and archived_at NULL;    *)
(* awaiting and did are the metadata fields malvExternalAwaitingAck and    *)
(* malvExternalDispatchId.                                                 *)
(***************************************************************************)
TaskRow ==
    [open : BOOLEAN, es : ExecutionStates, lease : Leases, appr : BOOLEAN,
     sched : Instants \cup {None}, rem : Instants \cup {None},
     due : Instants \cup {None},
     awaiting : BOOLEAN, did : DispatchIds \cup {None}]

\* What createTask stores for the dates and the approval flag it is given.
createTask ==
    [open : {TRUE}, es : {"idle"}, lease : {"none"}, appr : Approvals,
     sched : SchedDates, rem : RemDates, due : DueDates,
     awaiting : {FALSE}, did : {None}]

DispatchStates ==
    {"awaiting_client_ack", "accepted", "rejected", "failed", "completed"}
TerminalDispatch == {"rejected", "failed", "completed"}

\* key is the scheduledFor half of the request key ("adhoc" is None).
DispatchRow ==
    [task : Tasks, key : Instants \cup {None}, status : DispatchStates]

NoRow == [task |-> None, key |-> None, status |-> "absent"]

Rows == {d \in DispatchIds : disp[d] # NoRow}

\* The route of a task; the metadata hint and the fallbacks of a "manual"
\* task are folded into the constant ExecutionType.
Route(t) ==
    IF ExecutionType[t] = "reminder" THEN "reminder_only" ELSE ExecutionType[t]

Passed(date, now) == date # None /\ date <= now

ReminderDue(r, t, now) ==
    \/ Passed(r.rem, now)
    \/ /\ Passed(r.due, now)
       /\ r.rem = None
       /\ r.sched = None
       /\ ExecutionType[t] = "reminder"

Scannable(r) == r.open /\ r.es \in EligibleStates

\* Mutant: NULL is not covered by the comparison.
LeaseOver(r) == r.lease = "expired"

LeaseFree(r) == r.lease \in {"none", "expired"}

\* An executor performed the action, or a browser said so without it.
Effects == {"performed", "vouched"}

\* A work counter: exact up to the bound, then it stays there.
Bump(n) == IF n < MaxFired THEN n + 1 ELSE n

RowsTypeOK ==
    /\ clock \in Instants
    /\ task \in [Tasks -> TaskRow]
    /\ disp \in [DispatchIds -> DispatchRow \cup {NoRow}]
    /\ inbox \in [Agents -> SUBSET DispatchIds]
    /\ fired \in [Tasks -> 0 .. MaxFired]
    /\ effect \in [DispatchIds -> SUBSET Effects]

RowsInit ==
    /\ clock = 0
    /\ task \in [Tasks -> createTask]
    /\ disp = [d \in DispatchIds |-> NoRow]
    /\ inbox = [a \in Agents |-> {}]
    /\ fired = [t \in Tasks |-> 0]
    /\ effect = [d \in DispatchIds |-> {}]

rowVars == <<clock, task, disp, inbox, fired, effect>>
=============================================================================
