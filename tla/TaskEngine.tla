----------------------------- MODULE TaskEngine -----------------------------
(***************************************************************************)
(* WorkspaceTaskExecutionEngineService: the due-task tick that the job     *)
(* runner of one API replica runs while it is cluster leader.  A worker is *)
(* such a replica; its pc names the statement it runs next.  Nothing but   *)
(* the WHERE clauses protects a row, and most of the writes that end an    *)
(* execution have none besides the id: they are modelled as they are.      *)
(***************************************************************************)
EXTENDS TaskRows

CONSTANTS
    Workers,      \* API replicas that run the background job runner
    BatchSize,    \* MALV_TASK_EXECUTION_BATCH
    MaxCrashes,   \* bound: ticks cut short by a crash or a database error
    MaxLockDrops  \* bound: times MySQL drops the lock of a live leader

ASSUME EngineAssumption ==
    /\ None \notin Workers
    /\ BatchSize \in Nat \ {0}
    /\ MaxCrashes \in Nat
    /\ MaxLockDrops \in Nat

VARIABLES
    leader,  \* holder of GET_LOCK("malv_cron_leader"), or None
    worker,  \* the tick of each replica
    crashes, \* ticks cut short so far
    drops    \* leader locks lost so far

engineVars == <<leader, worker, crashes, drops>>

Pcs == {"idle", "recover", "ackscan", "ackrow", "markread", "markwrite",
        "ackfail", "promote", "promotecas", "remind", "remindcas",
        "remindread", "deliver", "remindfin", "sched", "schedcas", "markrun",
        "readrun", "route", "begin", "insert", "emit", "wait", "apply"}

\* The steps at which a worker has claimed its task and not yet let go of it.
HoldingPcs == {"remindread", "deliver", "remindfin", "markrun", "readrun",
               "route", "begin", "insert", "emit", "wait", "apply"}

Outcomes == [es : {"completed", "failed", "blocked"}, clear : BOOLEAN]

NoOutcome == [es |-> "blocked", clear |-> FALSE]

(***************************************************************************)
(* now     the instant read at the start of the tick                       *)
(* left    iterations left in the current batch loop                       *)
(* todo    rows of recoverExpiredExternalAckWaits still to be failed       *)
(* t       the task of the current iteration                               *)
(* snap    what the tick last read of that task and writes back later      *)
(* did     the dispatch begun for it                                       *)
(* out     the RunRouteResult to apply                                     *)
(* late    history: the lease of the claim has run out under this worker   *)
(***************************************************************************)
Snapshot == [sched : Instants \cup {None}, awaiting : BOOLEAN,
             did : DispatchIds \cup {None}]

NoSnap == [sched |-> None, awaiting |-> FALSE, did |-> None]

WorkerRec ==
    [pc : Pcs, now : Instants, left : 0 .. BatchSize,
     todo : SUBSET (Tasks \X (DispatchIds \cup {None})),
     t : Tasks \cup {None}, snap : Snapshot, did : DispatchIds \cup {None},
     out : Outcomes, late : BOOLEAN]

IdleWorker ==
    [pc |-> "idle", now |-> 0, left |-> 0, todo |-> {}, t |-> None,
     snap |-> NoSnap, did |-> None, out |-> NoOutcome, late |-> FALSE]

EngineTypeOK ==
    /\ leader \in Workers \cup {None}
    /\ worker \in [Workers -> WorkerRec]
    /\ crashes \in 0 .. MaxCrashes
    /\ drops \in 0 .. MaxLockDrops

EngineInit ==
    /\ leader = None
    /\ worker = [w \in Workers |-> IdleWorker]
    /\ crashes = 0
    /\ drops = 0

Holds(w, t) == worker[w].t = t /\ worker[w].pc \in HoldingPcs

At(w, pc) == worker[w].pc = pc

SnapOf(r) == [sched |-> r.sched, awaiting |-> r.awaiting, did |-> r.did]

-----------------------------------------------------------------------------
(***************************************************************************)
(* Moving between statements.  A helper never touches leader: only the     *)
(* start and the end of a tick do.                                         *)
(***************************************************************************)
SetWorker(w, r) == worker' = [worker EXCEPT ![w] = r]

Goto(w, pc) == SetWorker(w, [worker[w] EXCEPT !.pc = pc])

\* Enter a batch loop of the tick.
EnterLoop(w, pc) ==
    SetWorker(w, [IdleWorker EXCEPT !.pc = pc, !.now = worker[w].now,
                                    !.left = BatchSize])

\* The next iteration of a batch loop: `continue`, or the end of the body.
NextIteration(w, pc) ==
    SetWorker(w, [IdleWorker EXCEPT !.pc = pc, !.now = worker[w].now,
                                    !.left = worker[w].left - 1])

\* Statements that write one row of one table and nothing else.
WriteTask(t, row) == task' = [task EXCEPT ![t] = row]

OnlyTask == UNCHANGED <<clock, disp, inbox, fired, effect>>
OnlyDisp == UNCHANGED <<clock, task, inbox, fired, effect>>
NoBudget == UNCHANGED <<crashes, drops>>
SameLock == UNCHANGED <<leader, crashes, drops>>

-----------------------------------------------------------------------------
(***************************************************************************)
(* The tick: leadership, then two recoveries, then three batch loops.      *)
(***************************************************************************)
\* Mutant: every replica ticks, leader or not.
StartWithoutLock(w) ==
    /\ At(w, "idle")
    /\ leader' = w
    /\ SetWorker(w, [IdleWorker EXCEPT !.pc = "recover", !.now = clock])
    /\ NoBudget
    /\ UNCHANGED rowVars

StartTick(w) ==
    /\ At(w, "idle")
    /\ leader = None
    /\ leader' = w
    /\ SetWorker(w, [IdleWorker EXCEPT !.pc = "recover", !.now = clock])
    /\ NoBudget
    /\ UNCHANGED rowVars

\* Return, or an exception: runIfLeader releases the lock if it still has it.
ReleaseLeader(w) ==
    /\ leader' = IF leader = w THEN None ELSE leader
    /\ SetWorker(w, IdleWorker)

\* Mutant: the states are left alone, only the lease is cleared.
ClearExpiredLeases(w) ==
    /\ At(w, "recover")
    /\ task' = [t \in Tasks |->
           IF task[t].es \in ClaimedStates /\ task[t].lease = "expired"
           THEN [task[t] EXCEPT !.lease = "none"]
           ELSE task[t]]
    /\ Goto(w, "ackscan")
    /\ SameLock
    /\ OnlyTask

\* Mutant: a task that crashed between its claim and running is forgotten.
RecoverRunningOnly(w) ==
    /\ At(w, "recover")
    /\ task' = [t \in Tasks |->
           IF task[t].es = "running" /\ task[t].lease = "expired"
           THEN [task[t] EXCEPT !.es = "pending", !.lease = "none"]
           ELSE task[t]]
    /\ Goto(w, "ackscan")
    /\ SameLock
    /\ OnlyTask

recoverExpiredLeases(w) ==
    /\ At(w, "recover")
    /\ task' = [t \in Tasks |->
           IF task[t].es \in ClaimedStates /\ task[t].lease = "expired"
           THEN [task[t] EXCEPT !.es = "pending", !.lease = "none"]
           ELSE task[t]]
    /\ Goto(w, "ackscan")
    /\ SameLock
    /\ OnlyTask

\* Mutant: only waits whose dispatch is known are scanned.
KnownExpiredWaits ==
    {t \in Tasks : /\ task[t].es = "waiting_input"
                   /\ task[t].lease = "expired"
                   /\ task[t].awaiting
                   /\ task[t].did # None}

ExpiredWaits ==
    {t \in Tasks : /\ task[t].es = "waiting_input"
                   /\ task[t].lease = "expired"
                   /\ task[t].awaiting}

\* SELECT of the expired waits; each row keeps the dispatch id read here.
\* The batch limit is left out: it is larger than any set of Tasks we check.
ScanAckWaits(w) ==
    /\ At(w, "ackscan")
    /\ SetWorker(w, [worker[w] EXCEPT !.pc = "ackrow",
           !.todo = {<<t, task[t].did>> : t \in ExpiredWaits}])
    /\ SameLock
    /\ UNCHANGED rowVars

NextAckWait(w) ==
    /\ At(w, "ackrow")
    /\ \/ /\ worker[w].todo = {}
          /\ EnterLoop(w, "promote")
       \/ \E e \in worker[w].todo :
            SetWorker(w, [worker[w] EXCEPT
                !.pc = IF e[2] = None THEN "ackfail" ELSE "markread",
                !.todo = @ \ {e}, !.t = e[1], !.did = e[2]])
    /\ SameLock
    /\ UNCHANGED rowVars

markTimedOutRead(w) ==
    /\ At(w, "markread")
    /\ Goto(w, IF disp[worker[w].did].status \in
                    {"awaiting_client_ack", "accepted"}
               THEN "markwrite" ELSE "ackfail")
    /\ SameLock
    /\ UNCHANGED rowVars

markTimedOutWrite(w) ==
    /\ At(w, "markwrite")
    /\ disp' = [disp EXCEPT ![worker[w].did].status = "failed"]
    /\ Goto(w, "ackfail")
    /\ SameLock
    /\ OnlyDisp

\* UPDATE by id alone: whatever the row has become since the SELECT.
FailAckWait(w) ==
    /\ At(w, "ackfail")
    /\ WriteTask(worker[w].t,
           [task[worker[w].t] EXCEPT !.es = "failed", !.lease = "none",
                                     !.awaiting = FALSE, !.did = worker[w].did])
    /\ SetWorker(w, [worker[w] EXCEPT !.pc = "ackrow", !.t = None,
                                      !.did = None])
    /\ SameLock
    /\ OnlyTask

-----------------------------------------------------------------------------
(***************************************************************************)
(* The three batch loops share one shape: SELECT the first row in the      *)
(* query's order, claim it with a compare-and-set whose WHERE repeats the  *)
(* conditions, and `continue` when the compare-and-set changed no row.     *)
(***************************************************************************)
PromoteRows(now) ==
    {t \in Tasks : /\ Scannable(task[t])
                   /\ task[t].appr
                   /\ Passed(task[t].sched, now)}

\* Mutant: released tasks are not picked up again.
FreshScheduledRows(now) ==
    {t \in Tasks : /\ Scannable(task[t])
                   /\ task[t].es = "idle"
                   /\ ~task[t].appr
                   /\ Passed(task[t].sched, now)}

ScheduledRows(now) ==
    {t \in Tasks : /\ Scannable(task[t])
                   /\ ~task[t].appr
                   /\ Passed(task[t].sched, now)}

ReminderRows(now) ==
    {t \in Tasks : Scannable(task[t]) /\ ReminderDue(task[t], t, now)}

\* ORDER BY ... ASC: MySQL puts NULL first.
DateBefore(a, b) ==
    \/ a = None /\ b # None
    \/ a # None /\ b # None /\ a < b

FirstScheduled(S) ==
    {t \in S : \A u \in S : ~DateBefore(task[u].sched, task[t].sched)}

FirstReminder(S) ==
    {t \in S : \A u \in S :
        /\ ~DateBefore(task[u].rem, task[t].rem)
        /\ task[u].rem = task[t].rem => ~DateBefore(task[u].due, task[t].due)}

LoopDone(w, S) == worker[w].left = 0 \/ S = {}

Pick(w, t, pc) == SetWorker(w, [worker[w] EXCEPT !.pc = pc, !.t = t])

Claimed(w, pc) == SetWorker(w, [worker[w] EXCEPT !.pc = pc, !.late = FALSE])

SelectApprovalGated(w) ==
    /\ At(w, "promote")
    /\ LET S == PromoteRows(worker[w].now) IN
         \/ LoopDone(w, S) /\ EnterLoop(w, "remind")
         \/ /\ ~LoopDone(w, S)
            /\ \E t \in FirstScheduled(S) : Pick(w, t, "promotecas")
    /\ SameLock
    /\ UNCHANGED rowVars

\* The WHERE of this one repeats neither status nor archived_at.
promoteApprovalGated(w) ==
    /\ At(w, "promotecas")
    /\ LET t == worker[w].t
           r == task[t] IN
         IF r.es \in EligibleStates /\ r.appr /\ Passed(r.sched, worker[w].now)
         THEN WriteTask(t, [r EXCEPT !.es = "waiting_approval",
                                     !.lease = "none"])
         ELSE UNCHANGED task
    /\ NextIteration(w, "promote")
    /\ SameLock
    /\ OnlyTask

SelectReminder(w) ==
    /\ At(w, "remind")
    /\ LET S == ReminderRows(worker[w].now) IN
         \/ LoopDone(w, S) /\ EnterLoop(w, "sched")
         \/ /\ ~LoopDone(w, S)
            /\ \E t \in FirstReminder(S) : Pick(w, t, "remindcas")
    /\ SameLock
    /\ UNCHANGED rowVars

CanClaimReminder(t, now) ==
    /\ Scannable(task[t])
    /\ ReminderDue(task[t], t, now)
    /\ LeaseFree(task[t])

tryClaimForReminder(w) ==
    /\ At(w, "remindcas")
    /\ LET t == worker[w].t IN
         \/ /\ CanClaimReminder(t, worker[w].now)
            /\ WriteTask(t, [task[t] EXCEPT !.es = "running", !.lease = "held"])
            /\ Claimed(w, "remindread")
         \/ /\ ~CanClaimReminder(t, worker[w].now)
            /\ NextIteration(w, "remind")
            /\ UNCHANGED task
    /\ SameLock
    /\ OnlyTask

ReadReminder(w) ==
    /\ At(w, "remindread")
    /\ SetWorker(w, [worker[w] EXCEPT !.pc = "deliver",
                                      !.snap = SnapOf(task[worker[w].t])])
    /\ SameLock
    /\ UNCHANGED rowVars

\* deliver() stores the notification whatever the kill switch says.
deliver(w) ==
    /\ At(w, "deliver")
    /\ fired' = [fired EXCEPT ![worker[w].t] = Bump(@)]
    /\ Goto(w, "remindfin")
    /\ SameLock
    /\ UNCHANGED <<clock, task, disp, inbox, effect>>

\* Mutant: reminder_at is not cleared.
KeepReminder(w) ==
    /\ At(w, "remindfin")
    /\ WriteTask(worker[w].t,
           [task[worker[w].t] EXCEPT !.es = "pending", !.lease = "none"])
    /\ NextIteration(w, "remind")
    /\ SameLock
    /\ OnlyTask

finalizeReminderDelivery(w) ==
    /\ At(w, "remindfin")
    /\ WriteTask(worker[w].t,
           [task[worker[w].t] EXCEPT
               !.rem = None, !.es = "pending", !.lease = "none",
               !.awaiting = worker[w].snap.awaiting,
               !.did = worker[w].snap.did])
    /\ NextIteration(w, "remind")
    /\ SameLock
    /\ OnlyTask

SelectScheduled(w) ==
    /\ At(w, "sched")
    /\ LET S == ScheduledRows(worker[w].now) IN
         /\ ~LoopDone(w, S)
         /\ \E t \in FirstScheduled(S) : Pick(w, t, "schedcas")
    /\ SameLock
    /\ UNCHANGED rowVars

\* Mutant: UPDATE ... WHERE id = :id, without the compare of the state.
ClaimById(t, now) == Passed(task[t].sched, now)

CanClaimScheduled(t, now) ==
    /\ Scannable(task[t])
    /\ Passed(task[t].sched, now)
    /\ ~task[t].appr
    /\ LeaseFree(task[t])

tryClaimForScheduled(w) ==
    /\ At(w, "schedcas")
    /\ LET t == worker[w].t IN
         \/ /\ CanClaimScheduled(t, worker[w].now)
            /\ WriteTask(t,
                  [task[t] EXCEPT !.es = "dispatched", !.lease = "held"])
            /\ Claimed(w, "markrun")
         \/ /\ ~CanClaimScheduled(t, worker[w].now)
            /\ NextIteration(w, "sched")
            /\ UNCHANGED task
    /\ SameLock
    /\ OnlyTask

EndTick(w) ==
    /\ At(w, "sched")
    /\ LoopDone(w, ScheduledRows(worker[w].now))
    /\ ReleaseLeader(w)
    /\ NoBudget
    /\ UNCHANGED rowVars

-----------------------------------------------------------------------------
(***************************************************************************)
(* executeRoutedTask.  The row is read once, after it was set to running,  *)
(* and that snapshot is what the last statement writes back.               *)
(***************************************************************************)
MarkRunning(w) ==
    /\ At(w, "markrun")
    /\ WriteTask(worker[w].t, [task[worker[w].t] EXCEPT !.es = "running"])
    /\ Goto(w, "readrun")
    /\ SameLock
    /\ OnlyTask

ReadRunning(w) ==
    /\ At(w, "readrun")
    /\ SetWorker(w, [worker[w] EXCEPT !.pc = "route",
                                      !.snap = SnapOf(task[worker[w].t])])
    /\ SameLock
    /\ UNCHANGED rowVars

Finish(w, es, clear) ==
    SetWorker(w, [worker[w] EXCEPT !.pc = "apply",
                                   !.out = [es |-> es, clear |-> clear]])

NotificationRoutes == {"reminder_only", "call_followup", "chat_followup"}

\* Routes that do something: a notification, or the advisory workflow,
\* which may complete or stop with an error after it ran.
PerformRoute(w) ==
    /\ At(w, "route")
    /\ LET t == worker[w].t IN
         /\ fired' = [fired EXCEPT ![t] = Bump(@)]
         /\ \/ /\ Route(t) \in NotificationRoutes
               /\ Finish(w, "completed", TRUE)
            \/ /\ Route(t) = "workflow_task"
               /\ \/ Finish(w, "completed", TRUE)
                  \/ Finish(w, "failed", FALSE)
            \* show_notification without a live bridge is delivered in app
            \/ /\ Route(t) = "external_action"
               /\ Finish(w, "completed", TRUE)
    /\ SameLock
    /\ UNCHANGED <<clock, task, disp, inbox, effect>>

\* Routes that stop before they do anything: a checklist, no inference or
\* no orchestrator, the kill switch, a missing or refused external action.
RefuseRoute(w) ==
    /\ At(w, "route")
    /\ LET t == worker[w].t IN
         \/ Route(t) = "manual_checklist" /\ Finish(w, "blocked", TRUE)
         \/ /\ Route(t) = "workflow_task"
            /\ \E es \in {"failed", "blocked"} : Finish(w, es, FALSE)
         \/ Route(t) = "external_action" /\ Finish(w, "blocked", FALSE)
    /\ SameLock
    /\ UNCHANGED rowVars

BeginExternal(w) ==
    /\ At(w, "route")
    /\ Route(worker[w].t) = "external_action"
    /\ Goto(w, "begin")
    /\ SameLock
    /\ UNCHANGED rowVars

\* One emission to the executor room, in the step that decided it.
Emit(d) == inbox' = [a \in Agents |-> inbox[a] \cup {d}]

SameRequest(d, t, key) == disp[d].task = t /\ disp[d].key = key

\* Mutant: a new dispatch is emitted before its row is saved.
EmitBeforeInsert(w) ==
    /\ At(w, "begin")
    /\ \E d \in DispatchIds \ Rows :
         Emit(d) /\ Goto(w, "insert")
    /\ SameLock
    /\ UNCHANGED <<clock, task, disp, fired, effect>>

\* The findOne of beginDispatch and what follows it up to the next await.
FindDispatch(w) ==
    /\ At(w, "begin")
    /\ LET t == worker[w].t
           Found(states) ==
             {d \in Rows : /\ SameRequest(d, t, worker[w].snap.sched)
                           /\ disp[d].status \in states} IN
         \* no socket in the executor room
         \/ Finish(w, "blocked", FALSE) /\ UNCHANGED inbox
         \* an unanswered dispatch is replayed under its own id
         \/ \E d \in Found({"awaiting_client_ack"}) :
              /\ Emit(d)
              /\ SetWorker(w, [worker[w] EXCEPT !.pc = "wait", !.did = d])
         \* duplicate_dispatch is one more way to be blocked (above)
         \/ /\ Found({"awaiting_client_ack", "accepted", "completed"}) = {}
            /\ Goto(w, "insert")
            /\ UNCHANGED inbox
    /\ SameLock
    /\ UNCHANGED <<clock, task, disp, fired, effect>>

\* Mutant: the unique index (task_id, request_key) is missing.
InsertAnyway(w) ==
    /\ At(w, "insert")
    /\ \E d \in DispatchIds \ Rows :
         /\ disp' = [disp EXCEPT ![d] =
              [task |-> worker[w].t, key |-> worker[w].snap.sched,
               status |-> "awaiting_client_ack"]]
         /\ SetWorker(w, [worker[w] EXCEPT !.pc = "emit", !.did = d])
    /\ SameLock
    /\ OnlyDisp

\* INSERT under UNIQUE (task_id, request_key): a duplicate key throws, and
\* the exception ends the whole tick.
InsertDispatch(w) ==
    /\ At(w, "insert")
    /\ LET t == worker[w].t
           key == worker[w].snap.sched IN
         \/ /\ \A d \in Rows : ~SameRequest(d, t, key)
            /\ \E d \in DispatchIds \ Rows :
                 /\ disp' = [disp EXCEPT ![d] =
                      [task |-> t, key |-> key,
                       status |-> "awaiting_client_ack"]]
                 /\ SetWorker(w, [worker[w] EXCEPT !.pc = "emit", !.did = d])
            /\ UNCHANGED leader
         \/ /\ \E d \in Rows : SameRequest(d, t, key)
            /\ ReleaseLeader(w)
            /\ UNCHANGED disp
    /\ NoBudget
    /\ OnlyDisp

EmitDispatch(w) ==
    /\ At(w, "emit")
    /\ Emit(worker[w].did)
    /\ Goto(w, "wait")
    /\ SameLock
    /\ UNCHANGED <<clock, task, disp, fired, effect>>

\* Mutant: the lease of the wait is forgotten.
AwaitWithoutLease(w) ==
    /\ At(w, "wait")
    /\ WriteTask(worker[w].t,
           [task[worker[w].t] EXCEPT
               !.es = "waiting_input", !.lease = "none",
               !.sched = worker[w].snap.sched,
               !.awaiting = TRUE, !.did = worker[w].did])
    /\ NextIteration(w, "sched")
    /\ SameLock
    /\ OnlyTask

\* The caller of beginDispatch sets waiting_input, by id alone.
AwaitAck(w) ==
    /\ At(w, "wait")
    /\ WriteTask(worker[w].t,
           [task[worker[w].t] EXCEPT
               !.es = "waiting_input", !.lease = "held",
               !.sched = worker[w].snap.sched,
               !.awaiting = TRUE, !.did = worker[w].did])
    /\ NextIteration(w, "sched")
    /\ SameLock
    /\ OnlyTask

applyRunResult(w) ==
    /\ At(w, "apply")
    /\ LET out == worker[w].out
           snap == worker[w].snap IN
         WriteTask(worker[w].t,
           [task[worker[w].t] EXCEPT
               !.es = out.es, !.lease = "none",
               !.sched = IF out.clear THEN None ELSE snap.sched,
               !.awaiting = snap.awaiting, !.did = snap.did])
    /\ NextIteration(w, "sched")
    /\ SameLock
    /\ OnlyTask

TickStep(w) ==
    \/ recoverExpiredLeases(w) \/ ScanAckWaits(w) \/ NextAckWait(w)
    \/ markTimedOutRead(w) \/ markTimedOutWrite(w) \/ FailAckWait(w)
    \/ SelectApprovalGated(w) \/ promoteApprovalGated(w)
    \/ SelectReminder(w) \/ tryClaimForReminder(w) \/ ReadReminder(w)
    \/ deliver(w) \/ finalizeReminderDelivery(w)
    \/ SelectScheduled(w) \/ tryClaimForScheduled(w) \/ MarkRunning(w)
    \/ ReadRunning(w) \/ PerformRoute(w) \/ RefuseRoute(w) \/ BeginExternal(w)
    \/ FindDispatch(w) \/ InsertDispatch(w) \/ EmitDispatch(w) \/ AwaitAck(w)
    \/ applyRunResult(w) \/ EndTick(w)

-----------------------------------------------------------------------------
(***************************************************************************)
(* The environment: time, lease expiry, crashes and a lost advisory lock.  *)
(***************************************************************************)
ClockTick ==
    /\ clock < MaxTime
    /\ clock' = clock + 1
    /\ UNCHANGED <<task, disp, inbox, fired, effect>>
    /\ UNCHANGED engineVars

\* The workers that hold t are from now on past their lease.
LeaseExpires(t) ==
    /\ task[t].lease = "held"
    /\ WriteTask(t, [task[t] EXCEPT !.lease = "expired"])
    /\ worker' = [w \in Workers |->
           IF Holds(w, t) THEN [worker[w] EXCEPT !.late = TRUE] ELSE worker[w]]
    /\ SameLock
    /\ OnlyTask

\* The process dies, or a statement throws: nothing of the tick survives,
\* and GET_LOCK is released with its connection.
Crash(w) ==
    /\ worker[w].pc # "idle"
    /\ crashes < MaxCrashes
    /\ crashes' = crashes + 1
    /\ ReleaseLeader(w)
    /\ UNCHANGED drops
    /\ UNCHANGED rowVars

\* The connection of the lock goes down and the tick goes on without it.
LockLost(w) ==
    /\ leader = w
    /\ drops < MaxLockDrops
    /\ drops' = drops + 1
    /\ leader' = None
    /\ UNCHANGED <<worker, crashes>>
    /\ UNCHANGED rowVars

EngineStep ==
    \/ \E w \in Workers :
         StartTick(w) \/ TickStep(w) \/ Crash(w) \/ LockLost(w)
    \/ \E t \in Tasks : LeaseExpires(t)
    \/ ClockTick
=============================================================================
