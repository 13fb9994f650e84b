------------------------ MODULE TaskExecutionProofs ------------------------
(***************************************************************************)
(* Safety of TaskExecution for any number of tasks, replicas, executors,   *)
(* dispatches, crashes, lost locks and PATCH requests: typing with what    *)
(* every statement relies on, and five properties of the dispatch protocol *)
(* on top of it.                                                           *)
(***************************************************************************)
EXTENDS TaskInvariants, TLAPS

-----------------------------------------------------------------------------
(***************************************************************************)
(* Part 1: TypeInv is inductive.                                           *)
(***************************************************************************)
\* What a step leaves alone stays good as long as no dispatch row is deleted.
LEMMA Frame ==
    ASSUME TypeInv, Rows \subseteq Rows'
    PROVE  /\ UNCHANGED task => TaskInv'
           /\ UNCHANGED worker => WorkerInv'
           /\ UNCHANGED job => JobInv'
           /\ UNCHANGED inbox => InboxInv'
           /\ UNCHANGED effect => EffectInv'
           /\ UNCHANGED patch => PatchInv'
BY DEF TypeInv, TaskInv, WorkerInv, JobInv, InboxInv, EffectInv, PatchInv,
       GoodPatch, GoodTask, GoodWorker, GoodJob, LocalsOK, Known

\* The set of rows depends on disp alone.
LEMMA SameRows ==
    ASSUME UNCHANGED disp
    PROVE  Rows' = Rows /\ Known' = Known
BY DEF Rows, Known

\* A well-typed row written to workspace_tasks keeps the table well typed.
LEMMA TaskWritten ==
    ASSUME TypeInv, NEW t \in Tasks, NEW r, GoodTask(r), WriteTask(t, r),
           UNCHANGED disp
    PROVE  TaskInv'
BY SameRows DEF TypeInv, TaskInv, GoodTask, WriteTask

\* The same for the record of one replica.
LEMMA WorkerMoved ==
    ASSUME TypeInv, NEW w \in Workers, NEW r, GoodWorker(r),
           SetWorker(w, r), UNCHANGED disp
    PROVE  WorkerInv'
BY SameRows DEF TypeInv, WorkerInv, GoodWorker, LocalsOK, SetWorker

\* The same for the record of an executor about a dispatch.
LEMMA JobMoved ==
    ASSUME TypeInv, NEW a \in Agents, NEW d \in DispatchIds, NEW j,
           GoodJob(d, j), SetJob(a, d, j), UNCHANGED disp
    PROVE  JobInv'
BY SameRows DEF TypeInv, JobInv, GoodJob, SetJob

\* A step that changes nothing but the locals of a replica.
LEMMA LocalStep ==
    ASSUME TypeInv, UNCHANGED rowVars, SameLock, UNCHANGED <<job, patch>>,
           WorkerInv'
    PROVE  TypeInv'
BY Frame, SameRows
DEF TypeInv, rowVars, SameLock, DispInv, CountersInv

\* A step that changes the task table and the locals of a replica.
LEMMA TaskStep ==
    ASSUME TypeInv, OnlyTask, SameLock, UNCHANGED <<job, patch>>,
           TaskInv', WorkerInv'
    PROVE  TypeInv'
BY Frame, SameRows
DEF TypeInv, OnlyTask, SameLock, DispInv, CountersInv

\* A replica between two ticks relies on nothing.
LEMMA IdleWorkerGood == GoodWorker(IdleWorker)
BY EngineAssumption, BoundAssumption
DEF GoodWorker, IdleWorker, WorkerRec, LocalsOK, Known, Pcs, HoldingPcs,
    Instants, Snapshot, NoSnap, Outcomes, NoOutcome

\* What the locals of a replica and a row read from the table satisfy.
LEMMA Facts ==
    ASSUME TypeInv, NEW w \in Workers
    PROVE  /\ GoodWorker(worker[w])
           /\ \A t \in Tasks : GoodTask(task[t])
BY DEF TypeInv, WorkerInv, TaskInv

MidIteration == HoldingPcs \cup {"promotecas", "remindcas", "schedcas"}

\* The task a replica works on, once it has one.
LEMMA HasTask ==
    ASSUME TypeInv, NEW w \in Workers,
           worker[w].pc \in MidIteration \cup
               {"markread", "markwrite", "ackfail"}
    PROVE  worker[w].t \in Tasks /\ GoodTask(task[worker[w].t])
<1>1. GoodWorker(worker[w])
  BY Facts
<1>2. worker[w].t \in Tasks
  BY <1>1 DEF GoodWorker, LocalsOK, MidIteration
<1>3. QED BY <1>2, Facts

\* Only what the new statement relies on has to be shown.
LEMMA GoodPc ==
    ASSUME NEW r, GoodWorker(r), NEW pc \in Pcs,
           LocalsOK([r EXCEPT !.pc = pc])
    PROVE  GoodWorker([r EXCEPT !.pc = pc])
BY DEF GoodWorker, WorkerRec

\* A replica goes on to a statement that relies on no more than the last.
LEMMA Goes ==
    ASSUME TypeInv, NEW w \in Workers, NEW pc \in Pcs, Goto(w, pc),
           \/ pc \notin MidIteration \cup {"markread", "markwrite", "ackfail"}
           \/ /\ pc \in HoldingPcs \ {"emit", "wait"}
              /\ worker[w].pc \in MidIteration
           \/ pc \in {"markwrite", "ackfail"} /\ worker[w].pc = "markread"
           \/ pc = "ackfail" /\ worker[w].pc = "markwrite"
           \/ pc = "wait" /\ worker[w].pc = "emit",
           UNCHANGED disp
    PROVE  WorkerInv'
<1> DEFINE r == [worker[w] EXCEPT !.pc = pc]
<1>1. GoodWorker(worker[w])
  BY Facts
<1>2. r.pc = pc /\ r.t = worker[w].t /\ r.left = worker[w].left
        /\ r.did = worker[w].did
  BY <1>1 DEF GoodWorker, WorkerRec
<1>3. LocalsOK(r)
  BY <1>1, <1>2 DEF GoodWorker, LocalsOK, MidIteration, HoldingPcs
<1>4. QED BY <1>1, <1>3, GoodPc, WorkerMoved DEF Goto

LoopPcs == {"promote", "remind", "sched"}

\* The locals with which a replica starts an iteration of a batch loop.
LEMMA LoopWorkerGood ==
    ASSUME NEW r, GoodWorker(r), NEW pc \in LoopPcs, NEW n \in 0 .. BatchSize
    PROVE  GoodWorker([IdleWorker EXCEPT !.pc = pc, !.now = r.now,
                                         !.left = n])
<1> DEFINE s == [IdleWorker EXCEPT !.pc = pc, !.now = r.now, !.left = n]
<1>1. s \in WorkerRec
  BY IdleWorkerGood DEF GoodWorker, WorkerRec, Pcs, LoopPcs
<1>2. QED
  BY IdleWorkerGood, <1>1
  DEF GoodWorker, LocalsOK, HoldingPcs, WorkerRec, LoopPcs

\* The next iteration of a batch loop.
LEMMA Iterates ==
    ASSUME TypeInv, NEW w \in Workers, NEW pc \in LoopPcs,
           NextIteration(w, pc), UNCHANGED disp, worker[w].pc \in MidIteration
    PROVE  WorkerInv'
<1>1. GoodWorker(worker[w])
  BY Facts
<1>2. worker[w].left - 1 \in 0 .. BatchSize
  BY <1>1, EngineAssumption DEF GoodWorker, WorkerRec, LocalsOK, MidIteration
<1>3. QED
  BY <1>1, <1>2, LoopWorkerGood, WorkerMoved DEF NextIteration

\* The first iteration of a batch loop.
LEMMA Enters ==
    ASSUME TypeInv, NEW w \in Workers, NEW pc \in LoopPcs,
           EnterLoop(w, pc), UNCHANGED disp
    PROVE  WorkerInv'
<1>1. GoodWorker(worker[w])
  BY Facts
<1>2. BatchSize \in 0 .. BatchSize
  BY EngineAssumption
<1>3. QED
  BY <1>1, <1>2, LoopWorkerGood, WorkerMoved DEF EnterLoop

\* A row is selected; the loop has an iteration left for it.
LEMMA Picks ==
    ASSUME TypeInv, NEW w \in Workers, NEW t \in Tasks,
           NEW pc \in {"promotecas", "remindcas", "schedcas"},
           Pick(w, t, pc), worker[w].left # 0, UNCHANGED disp
    PROVE  WorkerInv'
<1> DEFINE r == [worker[w] EXCEPT !.pc = pc, !.t = t]
<1>1. GoodWorker(worker[w])
  BY Facts
<1>2. r \in WorkerRec
  BY <1>1 DEF GoodWorker, WorkerRec, Pcs
<1>3. r.left > 0
  BY <1>1, EngineAssumption DEF GoodWorker, WorkerRec
<1>4. GoodWorker(r)
  BY <1>1, <1>2, <1>3 DEF GoodWorker, LocalsOK, WorkerRec, HoldingPcs
<1>5. QED BY <1>4, WorkerMoved DEF Pick

\* A claim: the replica is within its lease.
LEMMA Claims ==
    ASSUME TypeInv, NEW w \in Workers, worker[w].pc \in MidIteration,
           NEW pc \in {"remindread", "markrun"}, Claimed(w, pc),
           UNCHANGED disp
    PROVE  WorkerInv'
<1> DEFINE r == [worker[w] EXCEPT !.pc = pc, !.late = FALSE]
<1>1. GoodWorker(worker[w])
  BY Facts
<1>2. r \in WorkerRec
  BY <1>1 DEF GoodWorker, WorkerRec, Pcs
<1>3. GoodWorker(r)
  BY <1>1, <1>2
  DEF GoodWorker, LocalsOK, WorkerRec, HoldingPcs, MidIteration
<1>4. QED BY <1>3, WorkerMoved DEF Claimed

\* A finished route: the result is kept for applyRunResult.
LEMMA Finishes ==
    ASSUME TypeInv, NEW w \in Workers, worker[w].pc \in MidIteration,
           NEW es \in {"completed", "failed", "blocked"},
           NEW clear \in BOOLEAN, Finish(w, es, clear), UNCHANGED disp
    PROVE  WorkerInv'
<1> DEFINE out == [es |-> es, clear |-> clear]
           r == [worker[w] EXCEPT !.pc = "apply", !.out = out]
<1>1. GoodWorker(worker[w])
  BY Facts
<1>2. out \in Outcomes
  BY DEF Outcomes
<1> HIDE DEF out
<1>3. r \in WorkerRec
  BY <1>1, <1>2 DEF GoodWorker, WorkerRec, Pcs
<1>4. GoodWorker(r)
  BY <1>1, <1>3 DEF GoodWorker, LocalsOK, WorkerRec, HoldingPcs, MidIteration
<1>5. QED BY <1>4, WorkerMoved DEF Finish, out

\* A dispatch that is on record is taken up by the replica.
LEMMA TakesDispatch ==
    ASSUME TypeInv, NEW w \in Workers, worker[w].pc \in MidIteration,
           NEW pc \in {"emit", "wait"}, NEW d \in Rows
    PROVE  GoodWorker([worker[w] EXCEPT !.pc = pc, !.did = d])
<1> DEFINE r == [worker[w] EXCEPT !.pc = pc, !.did = d]
<1>1. GoodWorker(worker[w]) /\ d \in DispatchIds /\ d # None
  BY Facts, NoneAssumption DEF Rows
<1>2. r \in WorkerRec
  BY <1>1 DEF GoodWorker, WorkerRec, Pcs
<1>3. QED
  BY <1>1, <1>2
  DEF GoodWorker, LocalsOK, WorkerRec, HoldingPcs, MidIteration, Known

\* The recoveries at the start of a tick.
LEMMA RecoveryKeepsTypes ==
    ASSUME TypeInv, NEW w \in Workers, UNCHANGED <<job, patch>>,
           \/ recoverExpiredLeases(w) \/ ScanAckWaits(w) \/ NextAckWait(w)
           \/ markTimedOutRead(w) \/ markTimedOutWrite(w) \/ FailAckWait(w)
    PROVE  TypeInv'
<1>0. GoodWorker(worker[w])
  BY Facts
<1>1. CASE recoverExpiredLeases(w)
  <2>1. UNCHANGED disp
    BY <1>1 DEF recoverExpiredLeases, OnlyTask
  <2>2. \A t \in Tasks : GoodTask([task[t] EXCEPT !.es = "pending",
                                                !.lease = "none"])
    <3>1. \A t \in Tasks : task[t] \in TaskRow /\ task[t].did \in Known
      BY Facts DEF GoodTask
    <3>2. "pending" \in ExecutionStates /\ "none" \in Leases
      BY DEF ExecutionStates, EligibleStates, Leases
    <3>3. QED BY <3>1, <3>2 DEF GoodTask, TaskRow
  <2>3. \A t \in Tasks : GoodTask(task'[t])
    BY <1>1, <2>2, Facts DEF recoverExpiredLeases
  <2>4. TaskInv'
    BY <1>1, <2>1, <2>3, SameRows DEF recoverExpiredLeases, TaskInv, GoodTask
  <2>5. WorkerInv'
    BY <1>1, <2>1, Goes
    DEF recoverExpiredLeases, Pcs, HoldingPcs, MidIteration
  <2>6. QED BY <1>1, <2>4, <2>5, TaskStep DEF recoverExpiredLeases
<1>2. CASE ScanAckWaits(w)
  <2> DEFINE todo == {<<t, task[t].did>> : t \in ExpiredWaits}
             r == [worker[w] EXCEPT !.pc = "ackrow", !.todo = todo]
  <2>1. /\ todo \in SUBSET (Tasks \X (DispatchIds \cup {None}))
        /\ \A e \in todo : e[2] \in Known
    BY Facts DEF ExpiredWaits, GoodTask, TaskRow
  <2> HIDE DEF todo
  <2>2. r \in WorkerRec
    BY <1>0, <2>1 DEF GoodWorker, WorkerRec, Pcs
  <2>3. GoodWorker(r)
    BY <1>0, <2>1, <2>2 DEF GoodWorker, LocalsOK, WorkerRec, HoldingPcs
  <2>4. WorkerInv'
    BY <1>2, <2>3, WorkerMoved DEF ScanAckWaits, rowVars, todo
  <2>5. QED BY <1>2, <2>4, LocalStep DEF ScanAckWaits
<1>3. CASE NextAckWait(w)
  <2>1. CASE EnterLoop(w, "promote")
    BY <1>3, <2>1, Enters, LocalStep DEF NextAckWait, rowVars, LoopPcs
  <2>2. ASSUME NEW e \in worker[w].todo,
               SetWorker(w, [worker[w] EXCEPT
                   !.pc = IF e[2] = None THEN "ackfail" ELSE "markread",
                   !.todo = @ \ {e}, !.t = e[1], !.did = e[2]])
        PROVE  TypeInv'
    <3> DEFINE pc == IF e[2] = None THEN "ackfail" ELSE "markread"
               r == [worker[w] EXCEPT !.pc = pc, !.todo = @ \ {e},
                                      !.t = e[1], !.did = e[2]]
    <3>1. /\ e[1] \in Tasks
          /\ e[2] \in DispatchIds \cup {None}
          /\ e[2] \in Known
      BY <1>0 DEF GoodWorker, WorkerRec
    <3>2. /\ pc \in {"ackfail", "markread"}
          /\ pc = "markread" => e[2] # None
      OBVIOUS
    <3> HIDE DEF pc
    <3>3. r \in WorkerRec
      BY <1>0, <3>1, <3>2 DEF GoodWorker, WorkerRec, Pcs
    <3>4. GoodWorker(r)
      BY <1>0, <3>1, <3>2, <3>3
      DEF GoodWorker, LocalsOK, WorkerRec, HoldingPcs
    <3>5. WorkerInv'
      BY <1>3, <2>2, <3>4, WorkerMoved DEF NextAckWait, rowVars, pc
    <3>6. QED BY <1>3, <3>5, LocalStep DEF NextAckWait
  <2>3. QED BY <1>3, <2>1, <2>2 DEF NextAckWait
<1>4. CASE markTimedOutRead(w)
  <2>1. CASE Goto(w, "markwrite")
    BY <1>4, <2>1, Goes, LocalStep
    DEF markTimedOutRead, At, rowVars, Pcs, HoldingPcs, MidIteration
  <2>2. CASE Goto(w, "ackfail")
    BY <1>4, <2>2, Goes, LocalStep
    DEF markTimedOutRead, At, rowVars, Pcs, HoldingPcs, MidIteration
  <2>3. QED BY <1>4, <2>1, <2>2 DEF markTimedOutRead
<1>5. CASE markTimedOutWrite(w)
  <2> DEFINE d == worker[w].did
             r == [worker[w] EXCEPT !.pc = "ackfail"]
  <2>1. d \in Rows
    BY <1>0, <1>5 DEF markTimedOutWrite, At, GoodWorker, LocalsOK, Known
  <2>2. DispInv' /\ Rows' = Rows
    BY <1>5, <2>1
    DEF markTimedOutWrite, TypeInv, DispInv, Rows, DispatchRow,
        DispatchStates, NoRow
  <2>3. GoodWorker(r)
    <3>1. r \in WorkerRec
      BY <1>0 DEF GoodWorker, WorkerRec, Pcs
    <3>2. QED
      BY <1>0, <1>5, <3>1
      DEF markTimedOutWrite, At, GoodWorker, LocalsOK, WorkerRec, HoldingPcs
  <2>4. WorkerInv'
    BY <1>5, <2>2, <2>3
    DEF markTimedOutWrite, Goto, SetWorker, TypeInv, WorkerInv, GoodWorker,
        LocalsOK, Known
  <2>5. QED
    BY <1>5, <2>2, <2>4, Frame
    DEF markTimedOutWrite, TypeInv, SameLock, OnlyDisp, CountersInv
<1>6. CASE FailAckWait(w)
  <2> DEFINE r == [task[worker[w].t] EXCEPT
                     !.es = "failed", !.lease = "none", !.awaiting = FALSE,
                     !.did = worker[w].did]
             s == [worker[w] EXCEPT !.pc = "ackrow", !.t = None, !.did = None]
  <2>1. worker[w].t \in Tasks /\ GoodTask(task[worker[w].t])
    BY <1>6, HasTask DEF FailAckWait, At
  <2>2. worker[w].did \in Known /\ worker[w].did \in DispatchIds \cup {None}
    BY <1>0 DEF GoodWorker, WorkerRec
  <2>3. GoodTask(r)
    <3>1. task[worker[w].t] \in TaskRow
      BY <2>1 DEF GoodTask
    <3>2. "failed" \in ExecutionStates /\ "none" \in Leases
      BY DEF ExecutionStates, TerminalStates, Leases
    <3>3. r \in TaskRow /\ r.did = worker[w].did
      BY <2>2, <3>1, <3>2 DEF TaskRow
    <3>4. QED BY <2>2, <3>3 DEF GoodTask
  <2>4. s \in WorkerRec
    BY <1>0 DEF GoodWorker, WorkerRec, Pcs
  <2>5. GoodWorker(s)
    BY <1>0, <2>4 DEF GoodWorker, WorkerRec, LocalsOK, HoldingPcs, Known
  <2>6. TaskInv'
    BY <1>6, <2>1, <2>3, TaskWritten DEF FailAckWait, OnlyTask
  <2>7. WorkerInv'
    BY <1>6, <2>5, WorkerMoved DEF FailAckWait, OnlyTask
  <2>8. QED BY <1>6, <2>6, <2>7, TaskStep DEF FailAckWait
<1>7. QED BY <1>1, <1>2, <1>3, <1>4, <1>5, <1>6

\* A row whose state and lease a statement sets.
LEMMA RowsSet ==
    ASSUME NEW r, GoodTask(r), NEW es \in ExecutionStates
    PROVE  /\ GoodTask([r EXCEPT !.es = es])
           /\ \A lease \in Leases :
                GoodTask([r EXCEPT !.es = es, !.lease = lease])
BY DEF GoodTask, TaskRow

\* A work counter stays in its range, and is positive once bumped.
LEMMA Bumps ==
    ASSUME NEW n \in 0 .. MaxFired
    PROVE  Bump(n) \in 0 .. MaxFired /\ Bump(n) > 0
BY BoundAssumption DEF Bump

\* A notification or a workflow is counted.
LEMMA Fires ==
    ASSUME TypeInv, NEW t, fired' = [fired EXCEPT ![t] = Bump(@)]
    PROVE  fired' \in [Tasks -> 0 .. MaxFired]
<1>1. fired \in [Tasks -> 0 .. MaxFired]
  BY DEF TypeInv, CountersInv
<1>2. t \in Tasks => Bump(fired[t]) \in 0 .. MaxFired
  BY <1>1, Bumps
<1>3. QED BY <1>1, <1>2

\* A snapshot of a row replaces an older one.
LEMMA Snaps ==
    ASSUME TypeInv, NEW w \in Workers, worker[w].pc \in MidIteration,
           NEW pc \in {"deliver", "route"},
           SetWorker(w, [worker[w] EXCEPT
               !.pc = pc, !.snap = SnapOf(task[worker[w].t])]),
           UNCHANGED disp
    PROVE  WorkerInv'
<1> DEFINE snap == SnapOf(task[worker[w].t])
           r == [worker[w] EXCEPT !.pc = pc, !.snap = snap]
<1>1. GoodWorker(worker[w])
  BY Facts
<1>2. snap \in Snapshot /\ snap.did \in Known
  BY HasTask DEF SnapOf, Snapshot, GoodTask, TaskRow
<1> HIDE DEF snap
<1>3. r \in WorkerRec
  BY <1>1, <1>2 DEF GoodWorker, WorkerRec, Pcs
<1>4. GoodWorker(r)
  BY <1>1, <1>2, <1>3
  DEF GoodWorker, LocalsOK, WorkerRec, HoldingPcs, MidIteration
<1>5. QED BY <1>4, WorkerMoved DEF snap

\* The batch loops, up to the claim, and the reminder.
LEMMA LoopsKeepTypes ==
    ASSUME TypeInv, NEW w \in Workers, UNCHANGED <<job, patch>>,
           \/ SelectApprovalGated(w) \/ promoteApprovalGated(w)
           \/ SelectReminder(w) \/ tryClaimForReminder(w) \/ ReadReminder(w)
           \/ deliver(w) \/ finalizeReminderDelivery(w)
           \/ SelectScheduled(w) \/ tryClaimForScheduled(w)
    PROVE  TypeInv'
<1>0. GoodWorker(worker[w])
  BY Facts
<1>1. CASE SelectApprovalGated(w)
  <2>1. CASE EnterLoop(w, "remind")
    BY <1>1, <2>1, Enters, LocalStep DEF SelectApprovalGated, rowVars, LoopPcs
  <2>2. ASSUME NEW t \in Tasks, Pick(w, t, "promotecas"), worker[w].left # 0
        PROVE  TypeInv'
    BY <1>1, <2>2, Picks, LocalStep DEF SelectApprovalGated, rowVars
  <2>3. QED
    BY <1>1, <2>1, <2>2
    DEF SelectApprovalGated, LoopDone, FirstScheduled, PromoteRows
<1>2. CASE promoteApprovalGated(w)
  <2> DEFINE t == worker[w].t
             r == [task[t] EXCEPT !.es = "waiting_approval", !.lease = "none"]
  <2>1. t \in Tasks /\ GoodTask(r)
    BY <1>2, HasTask, RowsSet
    DEF promoteApprovalGated, At, MidIteration, ExecutionStates, Leases
  <2>2. TaskInv'
    <3>1. CASE UNCHANGED task
      BY <1>2, <3>1, Frame, SameRows DEF promoteApprovalGated, OnlyTask
    <3>2. CASE WriteTask(t, r)
      BY <1>2, <3>2, <2>1, TaskWritten DEF promoteApprovalGated, OnlyTask
    <3>3. QED BY <1>2, <3>1, <3>2 DEF promoteApprovalGated
  <2>3. WorkerInv'
    BY <1>2, Iterates
    DEF promoteApprovalGated, At, OnlyTask, LoopPcs, MidIteration
  <2>4. QED BY <1>2, <2>2, <2>3, TaskStep DEF promoteApprovalGated
<1>3. CASE SelectReminder(w)
  <2>1. CASE EnterLoop(w, "sched")
    BY <1>3, <2>1, Enters, LocalStep DEF SelectReminder, rowVars, LoopPcs
  <2>2. ASSUME NEW t \in Tasks, Pick(w, t, "remindcas"), worker[w].left # 0
        PROVE  TypeInv'
    BY <1>3, <2>2, Picks, LocalStep DEF SelectReminder, rowVars
  <2>3. QED
    BY <1>3, <2>1, <2>2
    DEF SelectReminder, LoopDone, FirstReminder, ReminderRows
<1>4. CASE tryClaimForReminder(w)
  <2> DEFINE t == worker[w].t
             r == [task[t] EXCEPT !.es = "running", !.lease = "held"]
  <2>1. t \in Tasks /\ GoodTask(r)
    BY <1>4, HasTask, RowsSet
    DEF tryClaimForReminder, At, MidIteration, ExecutionStates, ClaimedStates,
        Leases
  <2>2. CASE WriteTask(t, r) /\ Claimed(w, "remindread")
    <3>1. TaskInv'
      BY <1>4, <2>1, <2>2, TaskWritten DEF tryClaimForReminder, OnlyTask
    <3>2. WorkerInv'
      BY <1>4, <2>2, Claims
      DEF tryClaimForReminder, At, OnlyTask, HoldingPcs, MidIteration
    <3>3. QED BY <1>4, <3>1, <3>2, TaskStep DEF tryClaimForReminder
  <2>3. CASE NextIteration(w, "remind") /\ UNCHANGED task
    <3>1. TaskInv'
      BY <1>4, <2>3, Frame, SameRows DEF tryClaimForReminder, OnlyTask
    <3>2. WorkerInv'
      BY <1>4, <2>3, Iterates
      DEF tryClaimForReminder, At, OnlyTask, LoopPcs, MidIteration
    <3>3. QED BY <1>4, <3>1, <3>2, TaskStep DEF tryClaimForReminder
  <2>4. QED BY <1>4, <2>2, <2>3 DEF tryClaimForReminder
<1>5. CASE ReadReminder(w)
  BY <1>5, Snaps, LocalStep
  DEF ReadReminder, At, rowVars, HoldingPcs, MidIteration
<1>6. CASE deliver(w)
  <2>1. fired' \in [Tasks -> 0 .. MaxFired]
    BY <1>6, Fires DEF deliver
  <2>2. WorkerInv'
    BY <1>6, Goes DEF deliver, At, Pcs, HoldingPcs, MidIteration
  <2>3. QED
    BY <1>6, <2>1, <2>2, Frame, SameRows
    DEF deliver, TypeInv, SameLock, DispInv, CountersInv
<1>7. CASE finalizeReminderDelivery(w)
  <2> DEFINE r == [task[worker[w].t] EXCEPT
                     !.rem = None, !.es = "pending", !.lease = "none",
                     !.awaiting = worker[w].snap.awaiting,
                     !.did = worker[w].snap.did]
  <2>1. worker[w].t \in Tasks /\ GoodTask(task[worker[w].t])
    BY <1>7, HasTask
    DEF finalizeReminderDelivery, At, HoldingPcs, MidIteration
  <2>2. worker[w].snap \in Snapshot /\ worker[w].snap.did \in Known
    BY <1>0 DEF GoodWorker, WorkerRec
  <2>3. GoodTask(r)
    BY <2>1, <2>2
    DEF GoodTask, TaskRow, Snapshot, ExecutionStates, EligibleStates, Leases
  <2>4. TaskInv'
    BY <1>7, <2>1, <2>3, TaskWritten DEF finalizeReminderDelivery, OnlyTask
  <2>5. WorkerInv'
    BY <1>7, Iterates
    DEF finalizeReminderDelivery, At, OnlyTask, LoopPcs, HoldingPcs,
        MidIteration
  <2>6. QED BY <1>7, <2>4, <2>5, TaskStep DEF finalizeReminderDelivery
<1>8. CASE SelectScheduled(w)
  <2>1. ASSUME NEW t \in Tasks, Pick(w, t, "schedcas"), worker[w].left # 0
        PROVE  TypeInv'
    BY <1>8, <2>1, Picks, LocalStep DEF SelectScheduled, rowVars
  <2>2. QED
    BY <1>8, <2>1 DEF SelectScheduled, LoopDone, FirstScheduled, ScheduledRows
<1>9. CASE tryClaimForScheduled(w)
  <2> DEFINE t == worker[w].t
             r == [task[t] EXCEPT !.es = "dispatched", !.lease = "held"]
  <2>1. t \in Tasks /\ GoodTask(r)
    BY <1>9, HasTask, RowsSet
    DEF tryClaimForScheduled, At, MidIteration, ExecutionStates,
        ClaimedStates, Leases
  <2>2. CASE WriteTask(t, r) /\ Claimed(w, "markrun")
    <3>1. TaskInv'
      BY <1>9, <2>1, <2>2, TaskWritten DEF tryClaimForScheduled, OnlyTask
    <3>2. WorkerInv'
      BY <1>9, <2>2, Claims
      DEF tryClaimForScheduled, At, OnlyTask, HoldingPcs, MidIteration
    <3>3. QED BY <1>9, <3>1, <3>2, TaskStep DEF tryClaimForScheduled
  <2>3. CASE NextIteration(w, "sched") /\ UNCHANGED task
    <3>1. TaskInv'
      BY <1>9, <2>3, Frame, SameRows DEF tryClaimForScheduled, OnlyTask
    <3>2. WorkerInv'
      BY <1>9, <2>3, Iterates
      DEF tryClaimForScheduled, At, OnlyTask, LoopPcs, MidIteration
    <3>3. QED BY <1>9, <3>1, <3>2, TaskStep DEF tryClaimForScheduled
  <2>4. QED BY <1>9, <2>2, <2>3 DEF tryClaimForScheduled
<1>10. QED
  BY <1>1, <1>2, <1>3, <1>4, <1>5, <1>6, <1>7, <1>8, <1>9

\* A new dispatch row, or a message about one.
LEMMA EmitKeepsInbox ==
    ASSUME TypeInv, NEW d \in Rows, Emit(d), UNCHANGED disp
    PROVE  InboxInv'
BY SameRows DEF TypeInv, InboxInv, Emit, Rows

\* executeRoutedTask and beginDispatch.
LEMMA RoutesKeepTypes ==
    ASSUME TypeInv, NEW w \in Workers, UNCHANGED <<job, patch>>,
           \/ MarkRunning(w) \/ ReadRunning(w) \/ PerformRoute(w)
           \/ RefuseRoute(w) \/ BeginExternal(w) \/ FindDispatch(w)
           \/ InsertDispatch(w) \/ EmitDispatch(w) \/ AwaitAck(w)
           \/ applyRunResult(w) \/ EndTick(w)
    PROVE  TypeInv'
<1>0. GoodWorker(worker[w])
  BY Facts
<1>1. CASE MarkRunning(w)
  <2>1. worker[w].t \in Tasks /\ GoodTask(task[worker[w].t])
    BY <1>1, HasTask DEF MarkRunning, At, HoldingPcs, MidIteration
  <2>2. GoodTask([task[worker[w].t] EXCEPT !.es = "running"])
    BY <2>1, RowsSet DEF ExecutionStates, ClaimedStates
  <2>3. TaskInv'
    BY <1>1, <2>1, <2>2, TaskWritten DEF MarkRunning, OnlyTask
  <2>4. WorkerInv'
    BY <1>1, Goes DEF MarkRunning, At, OnlyTask, Pcs, HoldingPcs, MidIteration
  <2>5. QED BY <1>1, <2>3, <2>4, TaskStep DEF MarkRunning
<1>2. CASE ReadRunning(w)
  BY <1>2, Snaps, LocalStep
  DEF ReadRunning, At, rowVars, HoldingPcs, MidIteration
<1>3. CASE PerformRoute(w)
  <2>1. fired' \in [Tasks -> 0 .. MaxFired]
    BY <1>3, Fires DEF PerformRoute
  <2>2. \E es \in {"completed", "failed", "blocked"}, clear \in BOOLEAN :
           Finish(w, es, clear)
    BY <1>3 DEF PerformRoute
  <2>3. WorkerInv'
    BY <1>3, <2>2, Finishes DEF PerformRoute, At, HoldingPcs, MidIteration
  <2>4. QED
    BY <1>3, <2>1, <2>3, Frame, SameRows
    DEF PerformRoute, TypeInv, SameLock, DispInv, CountersInv
<1>4. CASE RefuseRoute(w)
  <2>1. \E es \in {"completed", "failed", "blocked"}, clear \in BOOLEAN :
           Finish(w, es, clear)
    BY <1>4 DEF RefuseRoute
  <2>2. WorkerInv'
    BY <1>4, <2>1, Finishes
    DEF RefuseRoute, At, rowVars, HoldingPcs, MidIteration
  <2>3. QED BY <1>4, <2>2, LocalStep DEF RefuseRoute
<1>5. CASE BeginExternal(w)
  BY <1>5, Goes, LocalStep
  DEF BeginExternal, At, rowVars, Pcs, HoldingPcs, MidIteration
<1>6. CASE FindDispatch(w)
  <2>1. InboxInv' /\ WorkerInv'
    <3>1. CASE Finish(w, "blocked", FALSE) /\ UNCHANGED inbox
      BY <1>6, <3>1, Finishes, Frame, SameRows
      DEF FindDispatch, At, HoldingPcs, MidIteration
    <3>2. CASE Goto(w, "insert") /\ UNCHANGED inbox
      BY <1>6, <3>2, Goes, Frame, SameRows
      DEF FindDispatch, At, Pcs, HoldingPcs, MidIteration
    <3>3. ASSUME NEW d \in Rows, Emit(d),
                 SetWorker(w, [worker[w] EXCEPT !.pc = "wait", !.did = d])
          PROVE  InboxInv' /\ WorkerInv'
      BY <1>6, <3>3, TakesDispatch, WorkerMoved, EmitKeepsInbox
      DEF FindDispatch, At, HoldingPcs, MidIteration
    <3>4. QED BY <1>6, <3>1, <3>2, <3>3 DEF FindDispatch
  <2>2. QED
    BY <1>6, <2>1, Frame, SameRows
    DEF FindDispatch, TypeInv, SameLock, DispInv, CountersInv
<1>7. CASE InsertDispatch(w)
  <2>1. CASE ReleaseLeader(w) /\ UNCHANGED disp
    <3>1. WorkerInv'
      BY <2>1, IdleWorkerGood, WorkerMoved DEF ReleaseLeader
    <3>2. QED
      BY <1>7, <2>1, <3>1, Frame, SameRows
      DEF InsertDispatch, ReleaseLeader, TypeInv, NoBudget, OnlyDisp,
          DispInv, CountersInv
  <2>2. ASSUME NEW d \in DispatchIds \ Rows, UNCHANGED leader,
               disp' = [disp EXCEPT ![d] =
                  [task |-> worker[w].t, key |-> worker[w].snap.sched,
                   status |-> "awaiting_client_ack"]],
               SetWorker(w, [worker[w] EXCEPT !.pc = "emit", !.did = d])
        PROVE  TypeInv'
    <3> DEFINE row == [task |-> worker[w].t, key |-> worker[w].snap.sched,
                       status |-> "awaiting_client_ack"]
               r == [worker[w] EXCEPT !.pc = "emit", !.did = d]
    <3>1. row \in DispatchRow /\ row # NoRow
      BY <1>7, <1>0, HasTask
      DEF InsertDispatch, At, HoldingPcs, MidIteration, DispatchRow,
          DispatchStates, NoRow, GoodWorker, WorkerRec, Snapshot
    <3> HIDE DEF row
    <3>2. DispInv' /\ Rows' = Rows \cup {d}
      BY <2>2, <3>1 DEF TypeInv, DispInv, Rows, row
    <3>3. worker[w].pc = "insert" /\ d # None
      BY <1>7, <2>2, NoneAssumption DEF InsertDispatch, At
    <3>4. r \in WorkerRec
      BY <1>0, <2>2 DEF GoodWorker, WorkerRec, Pcs
    <3>5. /\ LocalsOK(r)
          /\ r.did \in Known' /\ r.snap.did \in Known'
          /\ \A e \in r.todo : e[2] \in Known'
      BY <1>0, <3>2, <3>3, <3>4
      DEF GoodWorker, LocalsOK, WorkerRec, HoldingPcs, Known
    <3>6. WorkerInv'
      <4>1. worker'[w] = r
        BY <2>2 DEF TypeInv, WorkerInv, SetWorker
      <4>2. GoodWorker(worker[w])'
        BY <3>4, <3>5, <4>1 DEF GoodWorker
      <4>3. \A v \in Workers \ {w} : GoodWorker(worker[v])'
        BY <2>2, <3>2
        DEF TypeInv, WorkerInv, GoodWorker, LocalsOK, Known, SetWorker
      <4>4. QED
        BY <2>2, <3>4, <4>2, <4>3 DEF TypeInv, WorkerInv, SetWorker
    <3>7. QED
      BY <1>7, <2>2, <3>2, <3>6, Frame
      DEF InsertDispatch, TypeInv, NoBudget, OnlyDisp, CountersInv
  <2>3. QED BY <1>7, <2>1, <2>2 DEF InsertDispatch
<1>8. CASE EmitDispatch(w)
  <2>1. worker[w].did \in Rows
    BY <1>8, <1>0 DEF EmitDispatch, At, GoodWorker, LocalsOK, Known
  <2>2. InboxInv'
    BY <1>8, <2>1, EmitKeepsInbox DEF EmitDispatch
  <2>3. WorkerInv'
    BY <1>8, Goes DEF EmitDispatch, At, Pcs, HoldingPcs, MidIteration
  <2>4. QED
    BY <1>8, <2>2, <2>3, Frame, SameRows
    DEF EmitDispatch, TypeInv, SameLock, DispInv, CountersInv
<1>9. CASE AwaitAck(w)
  <2> DEFINE r == [task[worker[w].t] EXCEPT
                     !.es = "waiting_input", !.lease = "held",
                     !.sched = worker[w].snap.sched,
                     !.awaiting = TRUE, !.did = worker[w].did]
  <2>1. worker[w].t \in Tasks /\ GoodTask(task[worker[w].t])
    BY <1>9, HasTask DEF AwaitAck, At, HoldingPcs, MidIteration
  <2>2. /\ worker[w].snap \in Snapshot
        /\ worker[w].did \in Known
        /\ worker[w].did \in DispatchIds \cup {None}
    BY <1>0 DEF GoodWorker, WorkerRec
  <2>3. GoodTask(r)
    BY <2>1, <2>2 DEF GoodTask, TaskRow, Snapshot, ExecutionStates, Leases
  <2>4. TaskInv'
    BY <1>9, <2>1, <2>3, TaskWritten DEF AwaitAck, OnlyTask
  <2>5. WorkerInv'
    BY <1>9, Iterates
    DEF AwaitAck, At, OnlyTask, LoopPcs, HoldingPcs, MidIteration
  <2>6. QED BY <1>9, <2>4, <2>5, TaskStep DEF AwaitAck
<1>10. CASE applyRunResult(w)
  <2> DEFINE out == worker[w].out
             snap == worker[w].snap
             r == [task[worker[w].t] EXCEPT
                     !.es = out.es, !.lease = "none",
                     !.sched = IF out.clear THEN None ELSE snap.sched,
                     !.awaiting = snap.awaiting, !.did = snap.did]
  <2>1. worker[w].t \in Tasks /\ GoodTask(task[worker[w].t])
    BY <1>10, HasTask DEF applyRunResult, At, HoldingPcs, MidIteration
  <2>2. snap \in Snapshot /\ snap.did \in Known /\ out \in Outcomes
    BY <1>0 DEF GoodWorker, WorkerRec
  <2>3. out.es \in ExecutionStates
    BY <2>2 DEF Outcomes, ExecutionStates, TerminalStates
  <2>4. GoodTask(r)
    <3> DEFINE sched == IF out.clear THEN None ELSE snap.sched
    <3>1. task[worker[w].t] \in TaskRow /\ "none" \in Leases
      BY <2>1 DEF GoodTask, Leases
    <3>2. /\ sched \in Instants \cup {None} /\ snap.awaiting \in BOOLEAN
          /\ snap.did \in DispatchIds \cup {None}
      BY <2>2 DEF Snapshot
    <3> HIDE DEF out, snap
    <3>3. r \in TaskRow /\ r.did = snap.did
      <4>1. CASE out.clear
        BY <2>3, <3>1, <3>2, <4>1 DEF TaskRow
      <4>2. CASE ~out.clear
        BY <2>3, <3>1, <3>2, <4>2 DEF TaskRow
      <4>3. QED BY <4>1, <4>2
    <3>4. QED BY <2>2, <3>3 DEF GoodTask
  <2>5. TaskInv'
    BY <1>10, <2>1, <2>4, TaskWritten DEF applyRunResult, OnlyTask
  <2>6. WorkerInv'
    BY <1>10, Iterates
    DEF applyRunResult, At, OnlyTask, LoopPcs, HoldingPcs, MidIteration
  <2>7. QED BY <1>10, <2>5, <2>6, TaskStep DEF applyRunResult
<1>11. CASE EndTick(w)
  <2>1. WorkerInv'
    BY <1>11, IdleWorkerGood, WorkerMoved DEF EndTick, ReleaseLeader, rowVars
  <2>2. QED
    BY <1>11, <2>1, Frame, SameRows
    DEF EndTick, ReleaseLeader, rowVars, NoBudget, TypeInv, DispInv,
        CountersInv
<1>12. QED
  BY <1>1, <1>2, <1>3, <1>4, <1>5, <1>6, <1>7, <1>8, <1>9, <1>10, <1>11

\* A step that changes nothing but the request of one executor.
LEMMA JobStep ==
    ASSUME TypeInv, UNCHANGED rowVars, UNCHANGED engineVars, UNCHANGED patch,
           JobInv'
    PROVE  TypeInv'
BY Frame, SameRows
DEF TypeInv, rowVars, engineVars, DispInv, CountersInv

\* The request of an executor about a recorded dispatch.
LEMMA Sends ==
    ASSUME TypeInv, NEW a \in Agents, NEW d \in Rows, NEW ack \in AckStates,
           UNCHANGED disp,
           \/ Send(a, d, ack)
           \/ SetJob(a, d, [IdleJob EXCEPT !.pc = "exec"])
           \/ SetJob(a, d, IdleJob)
    PROVE  JobInv'
<1>0. d \in DispatchIds /\ IdleJob \in JobRec /\ IdleJob.did \in Known
  BY DEF Rows, IdleJob, JobRec, JobPcs, ServerPcs, AckStates, Known
<1>1. /\ GoodJob(d, [IdleJob EXCEPT !.pc = "sent", !.ack = ack])
      /\ GoodJob(d, [IdleJob EXCEPT !.pc = "exec"])
      /\ GoodJob(d, IdleJob)
  BY <1>0 DEF GoodJob, JobRec, JobPcs, ServerPcs
<1>2. QED BY <1>0, <1>1, JobMoved DEF Send

\* The endpoint answers a request about a recorded dispatch.
LEMMA Answers ==
    ASSUME TypeInv, NEW a \in Agents, NEW d \in Rows, NEW ok \in BOOLEAN,
           UNCHANGED disp, Answer(a, d, ok)
    PROVE  JobInv'
<1> DEFINE j == [IdleJob EXCEPT !.pc = "reply", !.ack = job[a][d].ack,
                                !.ok = ok]
<1>1. /\ d \in DispatchIds /\ IdleJob \in JobRec /\ IdleJob.did \in Known
      /\ job[a][d] \in JobRec
  BY DEF Rows, IdleJob, JobRec, JobPcs, ServerPcs, AckStates, Known, TypeInv,
         JobInv
<1>2. GoodJob(d, j)
  BY <1>1 DEF GoodJob, JobRec, JobPcs, ServerPcs
<1>3. QED BY <1>1, <1>2, JobMoved DEF Answer

\* Whoever has a dispatch at hand has one that is on record.
LEMMA AtHand ==
    ASSUME TypeInv, NEW a \in Agents, NEW d \in DispatchIds,
           d \in inbox[a] \/ job[a][d].pc # "idle"
    PROVE  d \in Rows /\ job[a][d] \in JobRec /\ disp[d] \in DispatchRow
BY DEF TypeInv, InboxInv, JobInv, GoodJob, DispInv, Rows

\* The executors and the acknowledgement endpoint.
LEMMA AckKeepsTypes ==
    ASSUME TypeInv, NEW a \in Agents, NEW d \in DispatchIds, AckStep(a, d),
           UNCHANGED engineVars, UNCHANGED patch
    PROVE  TypeInv'
<1> USE DEF JobAt
<1>1. CASE ReceiveDispatch(a, d)
  <2>1. d \in Rows
    BY <1>1, AtHand DEF ReceiveDispatch
  <2>2. InboxInv'
    BY <1>1, SameRows DEF ReceiveDispatch, TypeInv, InboxInv
  <2>3. JobInv'
    <3>1. CASE UNCHANGED job
      BY <1>1, <3>1, Frame, SameRows DEF ReceiveDispatch
    <3>2. ASSUME NEW ack \in {"accepted", "rejected"}, Send(a, d, ack)
          PROVE  JobInv'
      BY <1>1, <2>1, <3>2, Sends DEF ReceiveDispatch, AckStates
    <3>3. QED BY <1>1, <3>1, <3>2 DEF ReceiveDispatch
  <2>4. QED
    BY <1>1, <2>2, <2>3, Frame, SameRows
    DEF ReceiveDispatch, engineVars, TypeInv, DispInv, CountersInv
<1>2. CASE LoseDispatch(a, d)
  <2>1. InboxInv'
    BY <1>2, SameRows DEF LoseDispatch, TypeInv, InboxInv
  <2>2. QED
    BY <1>2, <2>1, Frame, SameRows
    DEF LoseDispatch, engineVars, TypeInv, DispInv, CountersInv
<1>3. CASE ExecuteAction(a, d)
  <2>1. d \in Rows
    BY <1>3, AtHand DEF ExecuteAction
  <2>2. JobInv'
    BY <1>3, <2>1, Sends DEF ExecuteAction, AckStates
  <2>3. EffectInv'
    <3>1. CASE UNCHANGED effect
      BY <1>3, <3>1, Frame, SameRows DEF ExecuteAction
    <3>2. ASSUME NEW e \in Effects,
                 effect' = [effect EXCEPT ![d] = @ \cup {e}]
          PROVE  EffectInv'
      BY <1>3, <2>1, <3>2, SameRows DEF ExecuteAction, TypeInv, EffectInv
    <3>3. QED BY <1>3, <3>1, <3>2 DEF ExecuteAction, Effects
  <2>4. QED
    BY <1>3, <2>2, <2>3, Frame, SameRows
    DEF ExecuteAction, engineVars, TypeInv, DispInv, CountersInv
<1>4. CASE ReceiveAnswer(a, d) \/ LoseExchange(a, d)
  <2>1. d \in Rows
    BY <1>4, AtHand DEF ReceiveAnswer, LoseExchange
  <2>2. JobInv'
    BY <1>4, <2>1, Sends
    DEF ReceiveAnswer, LoseExchange, Proceed, GiveUp, AckStates, rowVars
  <2>3. QED BY <1>4, <2>2, JobStep DEF ReceiveAnswer, LoseExchange
<1>5. CASE FailHandler(a, d)
  <2>1. d \in Rows
    BY <1>5, AtHand DEF FailHandler, ServerPcs
  <2>2. JobInv'
    BY <1>5, <2>1, Answers DEF FailHandler, rowVars
  <2>3. QED BY <1>5, <2>2, JobStep DEF FailHandler
<1>6. CASE RestartExecutor(a, d)
  <2>1. d \in Rows
    BY <1>6, AtHand DEF RestartExecutor
  <2>2. JobInv'
    BY <1>6, <2>1, Sends DEF RestartExecutor, rowVars, AckStates
  <2>3. QED BY <1>6, <2>2, JobStep DEF RestartExecutor
<1>7. CASE applyClientAck(a, d)
  <2> DEFINE j == [job[a][d] EXCEPT !.pc = "mark"]
  <2>1. d \in Rows /\ GoodJob(d, job[a][d])
    BY <1>7, AtHand DEF applyClientAck, TypeInv, JobInv
  <2>2. GoodJob(d, j)
    BY <2>1 DEF GoodJob, JobRec, JobPcs, ServerPcs
  <2>3. JobInv'
    <3>1. CASE Answer(a, d, TRUE)
      BY <1>7, <2>1, <3>1, Answers DEF applyClientAck, rowVars
    <3>2. CASE SetJob(a, d, j)
      BY <1>7, <2>2, <3>2, JobMoved DEF applyClientAck, rowVars
    <3>3. QED BY <1>7, <3>1, <3>2 DEF applyClientAck
  <2>4. QED BY <1>7, <2>3, JobStep DEF applyClientAck
<1>8. CASE MarkAcknowledged(a, d)
  <2> DEFINE j == [job[a][d] EXCEPT !.pc = "read"]
  <2>1. d \in Rows /\ GoodJob(d, job[a][d]) /\ disp[d] \in DispatchRow
    BY <1>8, AtHand DEF MarkAcknowledged, TypeInv, JobInv
  <2>2. job[a][d].ack \in DispatchStates
    BY <2>1 DEF GoodJob, JobRec, AckStates, DispatchStates
  <2>3. DispInv' /\ Rows' = Rows
    BY <1>8, <2>1, <2>2
    DEF MarkAcknowledged, TypeInv, DispInv, Rows, DispatchRow,
        DispatchStates, NoRow
  <2>4. GoodJob(d, j)
    BY <2>1 DEF GoodJob, JobRec, JobPcs, ServerPcs
  <2>5. JobInv'
    BY <1>8, <2>3, <2>4
    DEF MarkAcknowledged, SetJob, TypeInv, JobInv, GoodJob, Known
  <2>6. QED
    BY <1>8, <2>3, <2>5, Frame
    DEF MarkAcknowledged, engineVars, TypeInv, CountersInv
<1>9. CASE ReadAckedTask(a, d)
  <2> DEFINE did == task[disp[d].task].did
             j == [job[a][d] EXCEPT !.pc = "write", !.did = did]
  <2>1. d \in Rows /\ GoodJob(d, job[a][d]) /\ disp[d] \in DispatchRow
    BY <1>9, AtHand DEF ReadAckedTask, TypeInv, JobInv
  <2>2. did \in Known /\ did \in DispatchIds \cup {None}
    BY <2>1 DEF DispatchRow, TypeInv, TaskInv, GoodTask, TaskRow
  <2> HIDE DEF did
  <2>3. GoodJob(d, j)
    BY <2>1, <2>2 DEF GoodJob, JobRec, JobPcs, ServerPcs
  <2>4. JobInv'
    BY <1>9, <2>3, JobMoved DEF ReadAckedTask, rowVars, did
  <2>5. QED BY <1>9, <2>4, JobStep DEF ReadAckedTask
<1>10. CASE acknowledge(a, d)
  <2> DEFINE t == disp[d].task
             r == [task[t] EXCEPT !.did = job[a][d].did]
             ack == job[a][d].ack
             new == IF ack = "accepted"
                    THEN [r EXCEPT !.es = "waiting_input", !.lease = "held",
                                   !.awaiting = TRUE]
                    ELSE IF ack = "completed"
                    THEN [r EXCEPT !.es = "completed", !.lease = "none",
                                   !.awaiting = FALSE, !.sched = None]
                    ELSE [r EXCEPT !.es = "failed", !.lease = "none",
                                   !.awaiting = FALSE]
  <2>1. d \in Rows /\ GoodJob(d, job[a][d]) /\ t \in Tasks
    BY <1>10, AtHand DEF acknowledge, TypeInv, JobInv, DispatchRow
  <2>2. GoodTask(r)
    BY <2>1, Facts DEF TypeInv, TaskInv, GoodTask, TaskRow, GoodJob, JobRec
  <2> HIDE DEF r
  <2>3. GoodTask(new)
    BY <2>2 DEF GoodTask, TaskRow, ExecutionStates, TerminalStates, Leases
  <2>4. task' = [task EXCEPT ![t] = new]
    BY <1>10 DEF acknowledge, r
  <2> HIDE DEF new
  <2>5. TaskInv'
    BY <1>10, <2>1, <2>3, <2>4, TaskWritten DEF acknowledge, WriteTask
  <2>6. JobInv'
    BY <1>10, <2>1, Answers DEF acknowledge
  <2>7. QED
    BY <1>10, <2>5, <2>6, Frame, SameRows
    DEF acknowledge, engineVars, TypeInv, DispInv, CountersInv
<1>11. QED
  BY <1>1, <1>2, <1>3, <1>4, <1>5, <1>6, <1>7, <1>8, <1>9, <1>10 DEF AckStep

\* Whatever a request names, its copy of the row keeps the lease and the
\* metadata that were read with the execution state.
LEMMA EditedRow ==
    ASSUME NEW r \in TaskRow, NEW asked \in PatchStates \cup {None},
           NEW e \in Edited(r, asked)
    PROVE  /\ e \in TaskRow
           /\ e.lease = r.lease /\ e.awaiting = r.awaiting /\ e.did = r.did
           /\ e.es = IF asked = None THEN r.es ELSE asked
<1>1. (IF asked = None THEN r.es ELSE asked) \in ExecutionStates
  BY PatchAssumption DEF TaskRow
<1>2. QED BY <1>1, TaskAssumption DEF Edited, TaskRow

\* The UPDATE of a save() mixes two rows, column by column; when the row has
\* not changed since its SELECT, the copy goes in as a whole.
LEMMA UpdatedRow ==
    ASSUME NEW e \in TaskRow, NEW seen \in TaskRow, NEW now \in TaskRow,
           NEW row \in Updated(e, seen, now)
    PROVE  /\ row \in TaskRow
           /\ row.did \in {e.did, now.did} /\ row.es \in {e.es, now.es}
           /\ seen = now =>
                /\ row.es = e.es /\ row.awaiting = e.awaiting
                /\ e.lease # "none" => row.lease # "none"
<1> DEFINE md == Column(<<e.awaiting, e.did>>, <<seen.awaiting, seen.did>>,
                        <<now.awaiting, now.did>>)
           ls == IF e.lease # "none" /\ seen.lease # "none"
                 THEN {e.lease, now.lease}
                 ELSE {Column(e.lease, seen.lease, now.lease)}
<1>1. PICK l \in ls :
        row = [open |-> Column(e.open, seen.open, now.open),
               es |-> Column(e.es, seen.es, now.es), lease |-> l,
               appr |-> Column(e.appr, seen.appr, now.appr),
               sched |-> Column(e.sched, seen.sched, now.sched),
               rem |-> Column(e.rem, seen.rem, now.rem),
               due |-> Column(e.due, seen.due, now.due),
               awaiting |-> md[1], did |-> md[2]]
  BY DEF Updated
<1>2. \/ md = <<e.awaiting, e.did>>
      \/ md = <<now.awaiting, now.did>>
  BY DEF Column
<1>3. md[1] \in {e.awaiting, now.awaiting} /\ md[2] \in {e.did, now.did}
  BY <1>2
<1>4. l \in {e.lease, now.lease}
  BY DEF Column
<1>5. row \in TaskRow
  <2>1. \A x, y, z : Column(x, y, z) \in {x, z}
    BY DEF Column
  <2>2. /\ md[1] \in BOOLEAN /\ md[2] \in DispatchIds \cup {None}
        /\ l \in Leases
    BY <1>3, <1>4 DEF TaskRow
  <2>3. /\ Column(e.open, seen.open, now.open) \in BOOLEAN
        /\ Column(e.es, seen.es, now.es) \in ExecutionStates
        /\ Column(e.appr, seen.appr, now.appr) \in BOOLEAN
        /\ Column(e.sched, seen.sched, now.sched) \in Instants \cup {None}
        /\ Column(e.rem, seen.rem, now.rem) \in Instants \cup {None}
        /\ Column(e.due, seen.due, now.due) \in Instants \cup {None}
    BY DEF Column, TaskRow
  <2> HIDE DEF md, ls
  <2>4. QED BY <1>1, <2>2, <2>3 DEF TaskRow
<1>6. row.did \in {e.did, now.did} /\ row.es \in {e.es, now.es}
  <2>1. row.did = md[2] /\ row.es = Column(e.es, seen.es, now.es)
    BY <1>1
  <2>2. QED BY <1>3, <2>1 DEF Column
<1>7. ASSUME seen = now
      PROVE  /\ row.es = e.es /\ row.awaiting = e.awaiting
             /\ e.lease # "none" => row.lease # "none"
  <2>1. md = <<e.awaiting, e.did>>
    BY <1>7 DEF Column
  <2>2. row.awaiting = e.awaiting
    BY <1>1, <2>1
  <2>3. row.es = Column(e.es, seen.es, now.es) /\ row.lease = l
    BY <1>1
  <2>4. row.es = e.es
    BY <1>7, <2>3 DEF Column
  <2>5. e.lease # "none" => l # "none"
    BY <1>7 DEF Column
  <2>6. QED BY <2>2, <2>3, <2>4, <2>5
<1>8. QED BY <1>5, <1>6, <1>7

\* What a PATCH that is saved leaves of the row and of itself.
SavesAs(p, asked, row) ==
    LET t == patch[p].t
        old == patch[p].row IN
      /\ t \in Tasks /\ old \in TaskRow /\ UnderWay(p)
      /\ WriteTask(t, row) /\ GoodTask(row)
      /\ patch' = [patch EXCEPT ![p] = [NewPatch EXCEPT
            !.pc = "done", !.t = t, !.asked = asked,
            !.torn = task[t] # patch[p].seen,
            !.paused = /\ row.es = "waiting_approval"
                       /\ task[t].es # "waiting_approval"]]
      /\ \/ row.es = task[t].es
         \/ row.es = IF asked = None THEN old.es ELSE asked
      /\ patch[p].seen = task[t] =>
            /\ row.es = IF asked = None THEN old.es ELSE asked
            /\ row.awaiting = old.awaiting
            /\ old.lease # "none" => row.lease # "none"

\* Every save() is of that form.
LEMMA SaveEffect ==
    ASSUME TypeInv, NEW p \in Patches, PatchSave(p)
    PROVE  \E asked \in PatchStates \cup {None}, row \in TaskRow :
             SavesAs(p, asked, row)
<1> DEFINE t == patch[p].t
           old == patch[p].row
           seen == patch[p].seen
<1> DEFINE Save(asked, row) ==
               /\ WriteTask(t, row)
               /\ SetPatch(p, [NewPatch EXCEPT
                      !.pc = "done", !.t = t, !.asked = asked,
                      !.torn = task[t] # seen,
                      !.paused = /\ row.es = "waiting_approval"
                                 /\ task[t].es # "waiting_approval"])
<1>0. PICK asked \in PatchStates \cup {None} :
        \E e \in Edited(old, asked) :
        \E row \in Updated(e, seen, task[t]) : Save(asked, row)
  BY DEF PatchSave
<1>1. PICK e \in Edited(old, asked) :
        \E row \in Updated(e, seen, task[t]) : Save(asked, row)
  BY <1>0
<1>2. PICK row \in Updated(e, seen, task[t]) : Save(asked, row)
  BY <1>1
<1>3. /\ t \in Tasks /\ GoodTask(old) /\ GoodTask(seen) /\ UnderWay(p)
      /\ GoodTask(task[t])
  <2>1. GoodPatch(patch[p]) /\ patch[p].pc = "found"
    BY DEF PatchSave, PatchAt, TypeInv, PatchInv
  <2>2. QED BY <2>1 DEF GoodPatch, UnderWay, TypeInv, TaskInv
<1>4. old \in TaskRow /\ seen \in TaskRow /\ task[t] \in TaskRow
  BY <1>3 DEF GoodTask
<1>5. /\ e \in TaskRow /\ e.did = old.did
      /\ e.lease = old.lease /\ e.awaiting = old.awaiting
      /\ e.es = IF asked = None THEN old.es ELSE asked
  BY <1>1, <1>4, EditedRow
<1>6. /\ row \in TaskRow /\ row.did \in {e.did, task[t].did}
      /\ row.es \in {e.es, task[t].es}
      /\ seen = task[t] =>
           /\ row.es = e.es /\ row.awaiting = e.awaiting
           /\ e.lease # "none" => row.lease # "none"
  BY <1>2, <1>4, <1>5, UpdatedRow
<1>7. GoodTask(row)
  BY <1>3, <1>5, <1>6 DEF GoodTask
<1>8. SavesAs(p, asked, row)
  BY <1>2, <1>3, <1>4, <1>5, <1>6, <1>7 DEF SetPatch, SavesAs
<1>9. QED BY <1>0, <1>6, <1>8

\* A request ends with its save().
LEMMA SaveEnds ==
    ASSUME TypeInv, NEW p \in Patches, PatchSave(p)
    PROVE  patch'[p].pc = "done"
<1>1. PICK asked \in PatchStates \cup {None}, row \in TaskRow :
        SavesAs(p, asked, row)
  BY SaveEffect
<1>2. QED BY <1>1 DEF SavesAs, NewPatch, TypeInv, PatchInv

\* The typing of a request on its way.
LEMMA PatchKeepsTypes ==
    ASSUME TypeInv, NEW p \in Patches, PatchStep(p)
    PROVE  TypeInv'
<1>0. /\ patch \in [Patches -> PatchRec]
      /\ \A q \in Patches : GoodPatch(patch[q])
      /\ NewPatch \in PatchRec
  BY DEF TypeInv, PatchInv, NewPatch, PatchRec, PatchPcs
<1>1. ASSUME NEW r \in PatchRec, SetPatch(p, r), UNCHANGED disp,
             r.pc \in {"read", "found"} => r.t \in Tasks /\ GoodTask(r.row),
             r.pc = "found" => GoodTask(r.seen)
      PROVE  PatchInv'
  BY <1>0, <1>1, SameRows DEF SetPatch, PatchInv, GoodPatch, GoodTask
<1>2. ASSUME NEW t \in Tasks, PatchRead(p, t)
      PROVE  TypeInv'
  <2> DEFINE r == [NewPatch EXCEPT !.pc = "read", !.t = t, !.row = task[t]]
  <2>1. GoodTask(task[t])
    BY DEF TypeInv, TaskInv
  <2>2. r \in PatchRec
    BY <1>0, <2>1 DEF GoodTask, PatchRec, PatchPcs
  <2>3. r.pc = "read" /\ r.t = t /\ r.row = task[t]
    BY DEF NewPatch
  <2> HIDE DEF r
  <2>4. PatchInv'
    BY <1>1, <1>2, <2>1, <2>2, <2>3 DEF PatchRead, rowVars, r
  <2>5. QED
    BY <1>2, <2>4, Frame, SameRows
    DEF PatchRead, rowVars, engineVars, TypeInv, DispInv, CountersInv
<1>3. ASSUME PatchFind(p)
      PROVE  TypeInv'
  <2> DEFINE r == [patch[p] EXCEPT !.pc = "found", !.seen = task[patch[p].t]]
  <2>1. GoodPatch(patch[p]) /\ patch[p].pc = "read"
    BY <1>0, <1>3 DEF PatchFind, PatchAt
  <2>2. patch[p].t \in Tasks /\ GoodTask(patch[p].row)
    BY <2>1 DEF GoodPatch
  <2>3. GoodTask(task[patch[p].t])
    BY <2>2 DEF TypeInv, TaskInv
  <2>4. r \in PatchRec
    BY <2>1, <2>3 DEF GoodPatch, GoodTask, PatchRec, PatchPcs
  <2>5. r.t = patch[p].t /\ r.row = patch[p].row /\ r.seen = task[patch[p].t]
    BY <2>1 DEF GoodPatch, PatchRec
  <2> HIDE DEF r
  <2>6. PatchInv'
    BY <1>1, <1>3, <2>2, <2>3, <2>4, <2>5 DEF PatchFind, rowVars, r
  <2>7. QED
    BY <1>3, <2>6, Frame, SameRows
    DEF PatchFind, rowVars, engineVars, TypeInv, DispInv, CountersInv
<1>4. ASSUME PatchSave(p)
      PROVE  TypeInv'
  <2> DEFINE t == patch[p].t
  <2>1. PICK asked \in PatchStates \cup {None}, row \in TaskRow :
          SavesAs(p, asked, row)
    BY <1>4, SaveEffect
  <2>2. TaskInv'
    BY <1>4, <2>1, TaskWritten DEF PatchSave, OnlyTask, SavesAs
  <2> DEFINE r == [NewPatch EXCEPT
                !.pc = "done", !.t = t, !.asked = asked,
                !.torn = task[t] # patch[p].seen,
                !.paused = /\ row.es = "waiting_approval"
                           /\ task[t].es # "waiting_approval"]
  <2>3. r \in PatchRec /\ r.pc = "done"
    BY <2>1, PatchAssumption DEF SavesAs, NewPatch, PatchRec, PatchPcs
  <2>4. SetPatch(p, r)
    BY <2>1 DEF SavesAs, SetPatch
  <2> HIDE DEF r
  <2>5. PatchInv'
    BY <1>1, <1>4, <2>3, <2>4 DEF PatchSave, OnlyTask
  <2>6. QED
    BY <1>4, <2>2, <2>5, Frame, SameRows
    DEF PatchSave, OnlyTask, engineVars, TypeInv, DispInv, CountersInv
<1>5. QED BY <1>2, <1>3, <1>4 DEF PatchStep

\* Time, leases, crashes, a lost lock and the start of a tick.
LEMMA EnvironmentKeepsTypes ==
    ASSUME TypeInv, UNCHANGED <<job, patch>>,
           \/ \E w \in Workers : StartTick(w) \/ Crash(w) \/ LockLost(w)
           \/ \E t \in Tasks : LeaseExpires(t)
           \/ ClockTick
    PROVE  TypeInv'
<1>1. ASSUME NEW w \in Workers, StartTick(w), UNCHANGED <<job, patch>>
      PROVE  TypeInv'
  <2> DEFINE r == [IdleWorker EXCEPT !.pc = "recover", !.now = clock]
  <2>1. r \in WorkerRec
    BY IdleWorkerGood DEF GoodWorker, WorkerRec, Pcs, TypeInv, CountersInv
  <2>2. GoodWorker(r)
    BY <2>1, IdleWorkerGood DEF GoodWorker, WorkerRec, LocalsOK, HoldingPcs
  <2>3. WorkerInv'
    BY <1>1, <2>2, WorkerMoved DEF StartTick, rowVars
  <2>4. QED
    BY <1>1, <2>3, Frame, SameRows
    DEF StartTick, rowVars, NoBudget, TypeInv, DispInv, CountersInv
<1>2. ASSUME NEW w \in Workers, Crash(w), UNCHANGED <<job, patch>>
      PROVE  TypeInv'
  <2>1. WorkerInv'
    BY <1>2, IdleWorkerGood, WorkerMoved DEF Crash, ReleaseLeader, rowVars
  <2>2. crashes' \in 0 .. MaxCrashes
    BY <1>2, EngineAssumption DEF Crash, TypeInv, CountersInv
  <2>3. QED
    BY <1>2, <2>1, <2>2, Frame, SameRows
    DEF Crash, ReleaseLeader, rowVars, TypeInv, DispInv, CountersInv
<1>3. ASSUME NEW w \in Workers, LockLost(w), UNCHANGED <<job, patch>>
      PROVE  TypeInv'
  <2>1. drops' \in 0 .. MaxLockDrops
    BY <1>3, EngineAssumption DEF LockLost, TypeInv, CountersInv
  <2>2. QED
    BY <1>3, <2>1, Frame, SameRows
    DEF LockLost, rowVars, TypeInv, DispInv, CountersInv
<1>4. ASSUME NEW t \in Tasks, LeaseExpires(t), UNCHANGED <<job, patch>>
      PROVE  TypeInv'
  <2>1. GoodTask([task[t] EXCEPT !.lease = "expired"])
    BY DEF TypeInv, TaskInv, GoodTask, TaskRow, Leases
  <2>2. TaskInv'
    BY <1>4, <2>1, TaskWritten DEF LeaseExpires, OnlyTask
  <2>3. \A w \in Workers : GoodWorker([worker[w] EXCEPT !.late = TRUE])
    <3>1. TAKE w \in Workers
    <3>2. GoodWorker(worker[w])
      BY Facts
    <3>3. [worker[w] EXCEPT !.late = TRUE] \in WorkerRec
      BY <3>2 DEF GoodWorker, WorkerRec
    <3>4. QED BY <3>2, <3>3 DEF GoodWorker, WorkerRec, LocalsOK
  <2>4. \A w \in Workers : GoodWorker(worker'[w])
    BY <1>4, <2>3, Facts DEF LeaseExpires
  <2>5. WorkerInv'
    BY <1>4, <2>4, SameRows
    DEF LeaseExpires, OnlyTask, WorkerInv, GoodWorker, LocalsOK
  <2>6. QED BY <1>4, <2>2, <2>5, TaskStep DEF LeaseExpires
<1>5. ASSUME ClockTick, UNCHANGED <<job, patch>>
      PROVE  TypeInv'
  <2>1. clock' \in Instants
    BY <1>5, BoundAssumption DEF ClockTick, Instants, TypeInv, CountersInv
  <2>2. QED
    BY <1>5, <2>1, Frame, SameRows
    DEF ClockTick, engineVars, TypeInv, DispInv, CountersInv
<1>6. QED BY <1>1, <1>2, <1>3, <1>4, <1>5

\* The initial tables and an idle system satisfy TypeInv.
LEMMA InitTypes == Init => TypeInv
<1> SUFFICES ASSUME Init PROVE TypeInv
  OBVIOUS
<1>1. DispInv /\ Rows = {} /\ Known = {None}
  BY DEF Init, RowsInit, DispInv, Rows, Known
<1>2. TaskInv
  <2>1. createTask \subseteq TaskRow
    BY TaskAssumption
    DEF createTask, TaskRow, ExecutionStates, EligibleStates, Leases
  <2>2. \A r \in createTask : r.did = None
    BY DEF createTask
  <2>3. QED BY <1>1, <2>1, <2>2 DEF Init, RowsInit, TaskInv, GoodTask
<1>3. WorkerInv
  BY IdleWorkerGood DEF Init, EngineInit, WorkerInv, GoodWorker
<1>4. JobInv
  <2>1. IdleJob \in JobRec /\ IdleJob.did = None /\ IdleJob.pc = "idle"
    BY DEF IdleJob, JobRec, JobPcs, ServerPcs, AckStates
  <2>2. QED BY <1>1, <2>1 DEF Init, AckInit, JobInv, GoodJob
<1>5. InboxInv /\ EffectInv
  BY BoundAssumption DEF Init, RowsInit, InboxInv, EffectInv
<1>6. PatchInv
  BY DEF Init, PatchInv, GoodPatch, NewPatch, PatchRec, PatchPcs
<1>7. CountersInv
  BY BoundAssumption, EngineAssumption
  DEF Init, RowsInit, EngineInit, CountersInv, Instants
<1>8. QED
  BY <1>1, <1>2, <1>3, <1>4, <1>5, <1>6, <1>7 DEF TypeInv

\* Every step preserves TypeInv.
LEMMA NextTypes == TypeInv /\ [Next]_vars => TypeInv'
<1> SUFFICES ASSUME TypeInv, [Next]_vars PROVE TypeInv'
  OBVIOUS
<1>1. CASE UNCHANGED vars
  BY <1>1, Frame, SameRows DEF vars, TypeInv, DispInv, CountersInv
<1>2. CASE EngineStep /\ UNCHANGED <<job, patch>>
  BY <1>2, RecoveryKeepsTypes, LoopsKeepTypes, RoutesKeepTypes,
     EnvironmentKeepsTypes
  DEF EngineStep, TickStep
<1>3. CASE /\ \E a \in Agents, d \in DispatchIds : AckStep(a, d)
           /\ UNCHANGED engineVars /\ UNCHANGED patch
  BY <1>3, AckKeepsTypes
<1>4. CASE \E p \in Patches : PatchStep(p)
  BY <1>4, PatchKeepsTypes
<1>5. QED BY <1>1, <1>2, <1>3, <1>4 DEF Next

\* TypeInv gives the typing of every variable.
LEMMA TypeInvImpliesTypeOK == TypeInv => TypeOK /\ DispatchIsRecorded
BY DEF TypeInv, TypeOK, RowsTypeOK, EngineTypeOK, AckTypeOK, DispInv, TaskInv,
       WorkerInv, JobInv, GoodJob, InboxInv, EffectInv, PatchInv, GoodPatch,
       CountersInv, DispatchIsRecorded, JobAt

\* Every variable stays in its range, whatever the interleaving.
THEOREM Typing == Spec => []TypeOK
<1>1. Spec => []TypeInv
  BY InitTypes, NextTypes, PTL DEF Spec
<1>2. QED BY <1>1, TypeInvImpliesTypeOK, PTL

\* No executor ever works on a dispatch that is not on record: beginDispatch
\* saves the row before it emits, and nothing deletes one.
THEOREM Recorded == Spec => []DispatchIsRecorded
<1>1. Spec => []TypeInv
  BY InitTypes, NextTypes, PTL DEF Spec
<1>2. QED BY <1>1, TypeInvImpliesTypeOK, PTL

-----------------------------------------------------------------------------
(***************************************************************************)
(* Part 2: who writes malv_external_action_dispatch.                       *)
(***************************************************************************)
\* An unanswered dispatch is inserted, or a dispatch is answered.
Inserted ==
    \E d \in DispatchIds \ Rows, w \in Workers :
        /\ At(w, "insert")
        /\ \A e \in Rows : ~SameRequest(e, worker[w].t, worker[w].snap.sched)
        /\ disp' = [disp EXCEPT ![d] =
             [task |-> worker[w].t, key |-> worker[w].snap.sched,
              status |-> "awaiting_client_ack"]]

AnsweredWith(d, status) == disp' = [disp EXCEPT ![d].status = status]

\* What a tick does to the dispatch table: insert a row, or fail one.
LEMMA TickWritesDisp ==
    ASSUME TypeInv, NEW w \in Workers, TickStep(w)
    PROVE  \/ UNCHANGED disp
           \/ Inserted
           \/ \E d \in Rows : AnsweredWith(d, "failed")
<1>1. CASE markTimedOutWrite(w)
  <2>1. worker[w].did \in Rows
    BY <1>1, Facts DEF markTimedOutWrite, At, GoodWorker, LocalsOK, Known
  <2>2. QED BY <1>1, <2>1 DEF markTimedOutWrite, AnsweredWith
<1>2. CASE InsertDispatch(w)
  BY <1>2 DEF InsertDispatch, Inserted
<1>3. CASE \/ recoverExpiredLeases(w) \/ ScanAckWaits(w) \/ NextAckWait(w)
           \/ markTimedOutRead(w) \/ FailAckWait(w)
           \/ SelectApprovalGated(w) \/ promoteApprovalGated(w)
           \/ SelectReminder(w) \/ tryClaimForReminder(w) \/ ReadReminder(w)
           \/ deliver(w) \/ finalizeReminderDelivery(w)
  BY <1>3
  DEF recoverExpiredLeases, ScanAckWaits, NextAckWait, markTimedOutRead,
      FailAckWait, SelectApprovalGated, promoteApprovalGated, SelectReminder,
      tryClaimForReminder, ReadReminder, deliver, finalizeReminderDelivery,
      OnlyTask, rowVars
<1>4. CASE \/ SelectScheduled(w) \/ tryClaimForScheduled(w) \/ MarkRunning(w)
           \/ ReadRunning(w) \/ PerformRoute(w) \/ RefuseRoute(w)
           \/ BeginExternal(w) \/ FindDispatch(w) \/ EmitDispatch(w)
           \/ AwaitAck(w) \/ applyRunResult(w) \/ EndTick(w)
  BY <1>4
  DEF SelectScheduled, tryClaimForScheduled, MarkRunning, ReadRunning,
      PerformRoute, RefuseRoute, BeginExternal, FindDispatch, EmitDispatch,
      AwaitAck, applyRunResult, EndTick, OnlyTask, rowVars
<1>5. QED BY <1>1, <1>2, <1>3, <1>4 DEF TickStep

\* What an acknowledgement does to the dispatch table.
LEMMA AckWritesDisp ==
    ASSUME TypeInv, NEW a \in Agents, NEW d \in DispatchIds, AckStep(a, d)
    PROVE  \/ UNCHANGED disp
           \/ d \in Rows /\ \E ack \in AckStates : AnsweredWith(d, ack)
<1>1. CASE MarkAcknowledged(a, d)
  BY <1>1, AtHand DEF MarkAcknowledged, JobAt, AnsweredWith, JobRec
<1>2. QED
  BY <1>1
  DEF AckStep, ReceiveDispatch, LoseDispatch, ExecuteAction, ReceiveAnswer,
      LoseExchange, FailHandler, RestartExecutor, applyClientAck,
      ReadAckedTask, acknowledge, rowVars

\* A PATCH is about workspace_tasks alone.
LEMMA PatchLeaves ==
    ASSUME NEW p \in Patches, PatchStep(p)
    PROVE  /\ UNCHANGED <<clock, disp, inbox, fired, effect, job>>
           /\ UNCHANGED engineVars
BY DEF PatchStep, PatchRead, PatchFind, PatchSave, OnlyTask, rowVars

\* What any step does to the dispatch table.
LEMMA WritesDisp ==
    ASSUME TypeInv, [Next]_vars
    PROVE  \/ UNCHANGED disp
           \/ Inserted
           \/ \E d \in Rows, s \in AckStates : AnsweredWith(d, s)
<1>1. CASE \E w \in Workers : TickStep(w)
  BY <1>1, TickWritesDisp DEF AckStates
<1>2. CASE \E a \in Agents, d \in DispatchIds : AckStep(a, d)
  BY <1>2, AckWritesDisp
<1>3. CASE \/ \E w \in Workers : StartTick(w) \/ Crash(w) \/ LockLost(w)
           \/ \E t \in Tasks : LeaseExpires(t)
           \/ ClockTick
           \/ \E p \in Patches : PatchStep(p)
           \/ UNCHANGED vars
  BY <1>3, PatchLeaves
  DEF StartTick, Crash, LockLost, LeaseExpires, ClockTick, OnlyTask, rowVars,
      vars
<1>4. QED BY <1>1, <1>2, <1>3 DEF Next, EngineStep

\* A row stays, with its task and its slot; a new one is unanswered.
LEMMA RowsStay ==
    ASSUME TypeInv, [Next]_vars
    PROVE  /\ Rows \subseteq Rows'
           /\ \A d \in Rows : /\ disp'[d].task = disp[d].task
                              /\ disp'[d].key = disp[d].key
           /\ \A d \in Rows : disp[d].status # "awaiting_client_ack"
                                => disp'[d].status # "awaiting_client_ack"
<1>1. CASE UNCHANGED disp
  BY <1>1 DEF Rows
<1>2. CASE Inserted
  BY <1>2 DEF Inserted, Rows, TypeInv, DispInv, NoRow
<1>3. CASE \E d \in Rows, s \in AckStates : AnsweredWith(d, s)
  BY <1>3
  DEF AnsweredWith, Rows, TypeInv, DispInv, DispatchRow, NoRow, AckStates
<1>4. QED BY <1>1, <1>2, <1>3, WritesDisp

\* The unique index keeps OneRowPerRequest at every insert.
LEMMA NextOneRow ==
    ASSUME TypeInv, OneRowPerRequest, [Next]_vars
    PROVE  OneRowPerRequest'
<1>1. CASE Rows' = Rows
  BY <1>1, RowsStay DEF OneRowPerRequest, SameRequest
<1>2. CASE Inserted
  <2>1. PICK d \in DispatchIds \ Rows, w \in Workers :
          /\ \A e \in Rows : ~SameRequest(e, worker[w].t, worker[w].snap.sched)
          /\ disp' = [disp EXCEPT ![d] =
               [task |-> worker[w].t, key |-> worker[w].snap.sched,
                status |-> "awaiting_client_ack"]]
    BY <1>2 DEF Inserted
  <2>2. /\ Rows' = Rows \cup {d}
        /\ disp'[d].task = worker[w].t
        /\ disp'[d].key = worker[w].snap.sched
    BY <2>1 DEF Rows, TypeInv, DispInv, NoRow
  <2>3. QED BY <2>1, <2>2, RowsStay DEF OneRowPerRequest, SameRequest
<1>3. CASE \E d \in Rows, s \in AckStates : AnsweredWith(d, s)
  BY <1>3, <1>1
  DEF AnsweredWith, Rows, TypeInv, DispInv, DispatchRow, NoRow, AckStates
<1>4. QED BY <1>1, <1>2, <1>3, WritesDisp DEF Rows

\* Two workers that run beginDispatch for the same slot of a task at once
\* never leave two rows: findOne and save are no transaction, the unique
\* index is what holds.
THEOREM OneRow == Spec => []OneRowPerRequest
<1>1. Init => OneRowPerRequest
  BY DEF Init, RowsInit, OneRowPerRequest, Rows
<1>2. QED BY <1>1, InitTypes, NextTypes, NextOneRow, PTL DEF Spec


-----------------------------------------------------------------------------
(***************************************************************************)
(* Part 3: an agent acts on recorded acceptances only.                     *)
(***************************************************************************)
\* An executor that is answered by a step was so before it, or its dispatch
\* is no longer unanswered.
LEMMA AckAnswers ==
    ASSUME TypeInv, NEW a \in Agents, NEW d \in DispatchIds, AckStep(a, d),
           NEW b \in Agents, NEW e \in DispatchIds, Answered(b, e)'
    PROVE  Answered(b, e) \/ disp'[e].status # "awaiting_client_ack"
<1> USE DEF JobAt
<1>1. \A j : SetJob(a, d, j) =>
        /\ job'[a][d] = j
        /\ b # a \/ e # d => job'[b][e] = job[b][e]
  BY DEF SetJob, TypeInv, JobInv
<1>2. CASE UNCHANGED job
  BY <1>2 DEF Answered
<1>3. CASE (b # a \/ e # d) /\ \E j : SetJob(a, d, j)
  BY <1>1, <1>3 DEF Answered
<1>4. job[a][d] \in JobRec
  BY DEF TypeInv, JobInv
<1>5. \/ UNCHANGED job
      \/ \E j : SetJob(a, d, j)
  BY DEF AckStep, ReceiveDispatch, LoseDispatch, ExecuteAction, ReceiveAnswer,
         LoseExchange, FailHandler, RestartExecutor, applyClientAck,
         MarkAcknowledged, ReadAckedTask, acknowledge, Send, Answer, Proceed,
         GiveUp
<1>6. ASSUME b = a, e = d
      PROVE  Answered(b, e) \/ disp'[e].status # "awaiting_client_ack"
  <2>0. /\ ~SetJob(a, d, IdleJob)
        /\ \A ack : ~Send(a, d, ack)
        /\ ~Answer(a, d, FALSE)
        /\ a \in Browsers => ~SetJob(a, d, [IdleJob EXCEPT !.pc = "exec"])
    <3> DEFINE Settles(j) ==
          /\ j.pc \notin {"read", "write"}
          /\ j.pc = "reply" => ~j.ok
          /\ j.pc = "exec" => a \in Browsers
    <3>1. \A j : Settles(j) => ~SetJob(a, d, j)
      BY <1>1, <1>6 DEF Answered
    <3>2. Settles(IdleJob)
      BY DEF IdleJob
    <3>3. \A ack : Settles([IdleJob EXCEPT !.pc = "sent", !.ack = ack])
      BY DEF IdleJob
    <3>4. Settles([IdleJob EXCEPT !.pc = "reply", !.ack = job[a][d].ack,
                                  !.ok = FALSE])
      BY DEF IdleJob
    <3>5. a \in Browsers => Settles([IdleJob EXCEPT !.pc = "exec"])
      BY DEF IdleJob
    <3> HIDE DEF Settles
    <3>6. QED BY <3>1, <3>2, <3>3, <3>4, <3>5 DEF Send, Answer
  <2>1. CASE ReceiveDispatch(a, d) \/ LoseDispatch(a, d)
             \/ ExecuteAction(a, d)
    BY <1>2, <2>0, <2>1 DEF ReceiveDispatch, LoseDispatch, ExecuteAction
  <2>2. CASE ReceiveAnswer(a, d) \/ LoseExchange(a, d)
    <3>1. CASE GiveUp(a, d)
      BY <2>0, <3>1 DEF GiveUp
    <3>2. CASE Proceed(a, d) /\ (job[a][d].ok \/ a \in Browsers)
               /\ job[a][d].pc = "reply"
      BY <1>6, <2>0, <3>2 DEF Proceed, Answered
    <3>3. QED BY <2>2, <3>1, <3>2 DEF ReceiveAnswer, LoseExchange
  <2>3. CASE FailHandler(a, d) \/ RestartExecutor(a, d)
    BY <2>0, <2>3 DEF FailHandler, RestartExecutor
  <2>4. CASE applyClientAck(a, d)
    <3>1. CASE disp[d].status \in TerminalDispatch \cup {"accepted"}
      BY <1>6, <2>4, <3>1 DEF applyClientAck, rowVars, TerminalDispatch
    <3>2. CASE SetJob(a, d, [job[a][d] EXCEPT !.pc = "mark"])
      BY <1>1, <1>4, <1>6, <3>2 DEF Answered, JobRec
    <3>3. QED BY <2>4, <3>1, <3>2 DEF applyClientAck
  <2>5. CASE MarkAcknowledged(a, d)
    BY <1>4, <1>6, <2>5, AtHand
    DEF MarkAcknowledged, TypeInv, DispInv, DispatchRow, JobRec, AckStates
  <2>6. CASE ReadAckedTask(a, d) \/ acknowledge(a, d)
    BY <1>6, <2>6 DEF ReadAckedTask, acknowledge, Answered
  <2>7. QED BY <2>1, <2>2, <2>3, <2>4, <2>5, <2>6 DEF AckStep
<1>7. QED BY <1>2, <1>3, <1>5, <1>6

\* AcceptanceInv is preserved: an answered dispatch never becomes unanswered.
LEMMA NextAcceptance ==
    ASSUME TypeInv, AcceptanceInv, [Next]_vars
    PROVE  AcceptanceInv'
<1> SUFFICES ASSUME NEW b \in Agents, NEW e \in DispatchIds, Answered(b, e)'
             PROVE  disp'[e].status # "awaiting_client_ack"
  BY DEF AcceptanceInv
<1>1. Answered(b, e) => disp'[e].status # "awaiting_client_ack"
  <2>1. Answered(b, e) => e \in Rows
    BY AtHand DEF Answered
  <2>2. QED BY <2>1, RowsStay DEF AcceptanceInv
<1>2. CASE UNCHANGED job
  BY <1>1, <1>2 DEF Answered
<1>3. CASE \E a \in Agents, d \in DispatchIds : AckStep(a, d)
  BY <1>1, <1>3, AckAnswers
<1>4. QED
  BY <1>2, <1>3, PatchLeaves DEF Next, vars

\* An agent performs an action only after the server has recorded an answer
\* to the dispatch: acceptances that were lost, failed half way or lost to
\* another executor's answer start nothing.
THEOREM Acceptance == Spec => []AcceptedBeforeAction
<1>1. Init => AcceptanceInv
  BY DEF Init, AckInit, AcceptanceInv, Answered, IdleJob
<1>2. AcceptanceInv => AcceptedBeforeAction
  BY DEF AcceptanceInv, AcceptedBeforeAction, Answered, JobAt
<1>3. QED BY <1>1, <1>2, InitTypes, NextTypes, NextAcceptance, PTL DEF Spec

-----------------------------------------------------------------------------
(***************************************************************************)
(* Part 4: a waiting task can always be found by the recovery.             *)
(***************************************************************************)
\* A request that is done stays as it is, and nothing but its own step moves
\* one under way.
LEMMA OthersWait ==
    ASSUME TypeInv, [Next]_vars, NEW q \in Patches
    PROVE  patch'[q] = patch[q] \/ PatchStep(q)
<1>1. \A p \in Patches : PatchStep(p) /\ p # q => patch'[q] = patch[q]
  BY DEF PatchStep, PatchRead, PatchFind, PatchSave, SetPatch, TypeInv,
         PatchInv
<1>2. QED BY <1>1 DEF Next, vars

LEMMA LogStays ==
    ASSUME TypeInv, [Next]_vars
    PROVE  /\ \A q \in Patches : PatchAt(q, "done") => patch'[q] = patch[q]
           /\ \A t, es : Asked(t, es) => Asked(t, es)'
           /\ \A t : Torn(t) => Torn(t)'
<1>1. \A q \in Patches : PatchAt(q, "done") => patch'[q] = patch[q]
  BY OthersWait DEF PatchStep, PatchRead, PatchFind, PatchSave, PatchAt
<1>2. QED BY <1>1 DEF Asked, Torn, PatchAt

\* A statement never takes the lease of a task and leaves it waiting.
KeepsLeased == \A t \in Tasks : Leased(task[t]) => Leased(task'[t])

\* Every statement of a tick that writes a task leaves it leased if it waits.
LEMMA TickKeepsLeased ==
    ASSUME TypeInv, NEW w \in Workers, TickStep(w)
    PROVE  KeepsLeased
<1>0. /\ \A t \in Tasks : task[t] \in TaskRow
      /\ task \in [Tasks -> TaskRow]
  BY DEF TypeInv, TaskInv
<1>1. \A t, r : WriteTask(t, r) /\ Leased(r) => KeepsLeased
  BY <1>0 DEF WriteTask, KeepsLeased
<1>2. CASE UNCHANGED task
  BY <1>2 DEF KeepsLeased
<1>4. CASE recoverExpiredLeases(w)
  <2>1. \A t \in Tasks : [task[t] EXCEPT !.es = "pending", !.lease = "none"].es
                           = "pending"
    BY <1>0 DEF TaskRow
  <2>2. QED
    BY <1>0, <1>4, <2>1 DEF recoverExpiredLeases, Leased, KeepsLeased
<1>5. CASE FailAckWait(w) \/ finalizeReminderDelivery(w) \/ MarkRunning(w)
           \/ promoteApprovalGated(w)
  <2>1. worker[w].t \in Tasks
    BY <1>5, HasTask
    DEF FailAckWait, finalizeReminderDelivery, MarkRunning,
        promoteApprovalGated, At, HoldingPcs, MidIteration
  <2>2. QED
    BY <1>0, <1>1, <1>2, <1>5, <2>1
    DEF FailAckWait, finalizeReminderDelivery, MarkRunning,
        promoteApprovalGated, TaskRow, Leased
<1>6. CASE tryClaimForReminder(w) \/ tryClaimForScheduled(w)
  <2>1. worker[w].t \in Tasks
    BY <1>6, HasTask
    DEF tryClaimForReminder, tryClaimForScheduled, At, HoldingPcs, MidIteration
  <2>2. QED
    BY <1>0, <1>1, <1>2, <1>6, <2>1
    DEF tryClaimForReminder, tryClaimForScheduled, TaskRow, Leased
<1>7. CASE AwaitAck(w)
  <2>1. worker[w].t \in Tasks
    BY <1>7, HasTask DEF AwaitAck, At, HoldingPcs, MidIteration
  <2>2. QED BY <1>0, <1>1, <1>7, <2>1 DEF AwaitAck, TaskRow, Leased
<1>8. CASE applyRunResult(w)
  <2>1. worker[w].t \in Tasks /\ worker[w].out \in Outcomes
    BY <1>8, HasTask, Facts
    DEF applyRunResult, At, HoldingPcs, MidIteration, GoodWorker, WorkerRec
  <2>2. QED
    BY <1>0, <1>1, <1>8, <2>1 DEF applyRunResult, TaskRow, Leased, Outcomes
<1>9. CASE \/ ScanAckWaits(w) \/ NextAckWait(w) \/ markTimedOutRead(w)
           \/ markTimedOutWrite(w) \/ SelectApprovalGated(w)
           \/ SelectReminder(w) \/ ReadReminder(w) \/ deliver(w)
           \/ SelectScheduled(w) \/ ReadRunning(w) \/ PerformRoute(w)
           \/ RefuseRoute(w) \/ BeginExternal(w) \/ FindDispatch(w)
           \/ InsertDispatch(w) \/ EmitDispatch(w) \/ EndTick(w)
  BY <1>2, <1>9
  DEF ScanAckWaits, NextAckWait, markTimedOutRead, markTimedOutWrite,
      SelectApprovalGated, SelectReminder, ReadReminder, deliver,
      SelectScheduled, ReadRunning, PerformRoute, RefuseRoute, BeginExternal,
      FindDispatch, InsertDispatch, EmitDispatch, EndTick, OnlyDisp, rowVars
<1>10. QED
  BY <1>4, <1>5, <1>6, <1>7, <1>8, <1>9 DEF TickStep

\* So does every acknowledgement.
LEMMA AckKeepsLeased ==
    ASSUME TypeInv, NEW a \in Agents, NEW d \in DispatchIds, AckStep(a, d)
    PROVE  KeepsLeased
<1>0. /\ \A t \in Tasks : task[t] \in TaskRow
      /\ task \in [Tasks -> TaskRow]
  BY DEF TypeInv, TaskInv
<1>1. CASE UNCHANGED task
  BY <1>1 DEF KeepsLeased
<1>2. CASE acknowledge(a, d)
  <2> DEFINE r == [task[disp[d].task] EXCEPT !.did = job[a][d].did]
  <2>1. disp[d].task \in Tasks /\ job[a][d].did \in DispatchIds \cup {None}
    BY <1>2, AtHand DEF acknowledge, JobAt, DispatchRow, JobRec
  <2>2. r \in TaskRow
    BY <1>0, <2>1 DEF TaskRow
  <2> HIDE DEF r
  <2>3. /\ Leased([r EXCEPT !.es = "waiting_input", !.lease = "held",
                            !.awaiting = TRUE])
        /\ Leased([r EXCEPT !.es = "completed", !.lease = "none",
                            !.awaiting = FALSE, !.sched = None])
        /\ Leased([r EXCEPT !.es = "failed", !.lease = "none",
                            !.awaiting = FALSE])
    BY <2>2 DEF TaskRow, Leased
  <2>4. \E new : Leased(new) /\ task' = [task EXCEPT ![disp[d].task] = new]
    BY <1>2, <2>3 DEF acknowledge, r
  <2>5. QED BY <1>0, <2>1, <2>4 DEF KeepsLeased
<1>3. QED
  BY <1>1, <1>2
  DEF AckStep, ReceiveDispatch, LoseDispatch, ExecuteAction, ReceiveAnswer,
      LoseExchange, FailHandler, RestartExecutor, applyClientAck,
      MarkAcknowledged, ReadAckedTask, rowVars

\* LeaseInv is preserved by steps that keep leases and leave the requests.
LEMMA LeaseFrame ==
    ASSUME TypeInv, LeaseInv, [Next]_vars, KeepsLeased, UNCHANGED patch
    PROVE  LeaseInv'
<1>1. \A t : Misled(t) => Misled(t)'
  BY LogStays DEF Misled
<1>2. QED BY <1>1 DEF LeaseInv, KeepsLeased, UnderWay

\* The row a PATCH writes back was leased when read, if it was waiting and
\* nobody has asked for that; a torn save() is on record.
LEMMA SaveKeepsLease ==
    ASSUME TypeInv, LeaseInv, NEW p \in Patches, PatchSave(p),
           NEW t \in Tasks
    PROVE  Leased(task'[t]) \/ Misled(t) \/ Misled(t)'
<1>0. /\ task \in [Tasks -> TaskRow]
      /\ patch \in [Patches -> PatchRec]
  BY DEF TypeInv, TaskInv, PatchInv
<1>1. PICK asked \in PatchStates \cup {None}, row \in TaskRow :
        SavesAs(p, asked, row)
  BY SaveEffect
<1> DEFINE u == patch[p].t
           old == patch[p].row
<1>2. CASE t # u
  BY <1>0, <1>1, <1>2 DEF SavesAs, WriteTask, LeaseInv
<1>3. CASE t = u
  <2>1. task'[t] = row
    BY <1>0, <1>1, <1>3 DEF SavesAs, WriteTask
  <2>2. /\ patch'[p].pc = "done" /\ patch'[p].t = u
        /\ patch'[p].asked = asked
        /\ patch'[p].torn = (task[u] # patch[p].seen)
    BY <1>0, <1>1 DEF SavesAs, NewPatch
  <2>3. CASE task[u] # patch[p].seen
    BY <1>3, <2>2, <2>3 DEF Misled, Torn, PatchAt
  <2>4. CASE asked = "waiting_input"
    BY <1>3, <2>2, <2>4 DEF Misled, Asked, PatchAt
  <2>5. CASE task[u] = patch[p].seen /\ asked # "waiting_input"
    <3>1. CASE Misled(t)
      BY <3>1
    <3>2. CASE Leased(old)
      BY <1>1, <2>1, <2>5, <3>2 DEF SavesAs, Leased
    <3>3. QED BY <1>1, <1>3, <3>1, <3>2 DEF SavesAs, LeaseInv
  <2>6. QED BY <2>3, <2>4, <2>5
<1>4. QED BY <1>2, <1>3

\* LeaseInv is preserved by the steps of a PATCH.
LEMMA PatchKeepsLease ==
    ASSUME TypeInv, LeaseInv, [Next]_vars, NEW p \in Patches, PatchStep(p)
    PROVE  LeaseInv'
<1>0. /\ task \in [Tasks -> TaskRow]
      /\ patch \in [Patches -> PatchRec]
      /\ \A t : Misled(t) => Misled(t)'
  BY LogStays DEF Misled, TypeInv, TaskInv, PatchInv
<1>1. \A t \in Tasks : Leased(task'[t]) \/ Misled(t)'
  <2>1. CASE UNCHANGED task
    BY <1>0, <2>1 DEF LeaseInv
  <2>2. CASE PatchSave(p)
    BY <1>0, <2>2, SaveKeepsLease
  <2>3. QED BY <2>1, <2>2 DEF PatchStep, PatchRead, PatchFind, rowVars
<1>2. ASSUME NEW q \in Patches, UnderWay(q)'
      PROVE  Leased(patch'[q].row) \/ Misled(patch[q].t)'
  <2>1. CASE patch'[q].row = patch[q].row /\ patch'[q].t = patch[q].t
             /\ UnderWay(q)
    BY <1>0, <2>1 DEF LeaseInv
  <2>2. CASE patch'[q] = patch[q]
    BY <1>2, <2>1, <2>2 DEF UnderWay
  <2>3. CASE PatchFind(q)
    <3>1. /\ patch'[q].row = patch[q].row /\ patch'[q].t = patch[q].t
          /\ UnderWay(q)
      BY <1>0, <2>3 DEF PatchFind, SetPatch, PatchAt, UnderWay, PatchRec
    <3>2. QED BY <2>1, <3>1
  <2>4. ASSUME NEW t \in Tasks, PatchRead(q, t)
        PROVE  Leased(patch'[q].row) \/ Misled(patch[q].t)'
    <3>1. patch'[q].row = task[t] /\ patch'[q].t = t
      BY <1>0, <2>4 DEF PatchRead, SetPatch, NewPatch
    <3>2. QED BY <1>0, <3>1 DEF LeaseInv
  <2>5. ~PatchSave(q)
    BY <1>2, SaveEnds DEF UnderWay
  <2>6. QED BY <2>2, <2>3, <2>4, <2>5, OthersWait DEF PatchStep
<1>3. QED BY <1>1, <1>2 DEF LeaseInv

\* So by every step.
LEMMA NextLease ==
    ASSUME TypeInv, LeaseInv, [Next]_vars
    PROVE  LeaseInv'
<1>0. \A t \in Tasks : task[t] \in TaskRow
  BY DEF TypeInv, TaskInv
<1>1. CASE UNCHANGED <<task, patch>>
  BY <1>1, LeaseFrame DEF KeepsLeased
<1>2. ASSUME NEW w \in Workers, TickStep(w), UNCHANGED patch
      PROVE  LeaseInv'
  BY <1>2, TickKeepsLeased, LeaseFrame
<1>3. ASSUME NEW t \in Tasks, LeaseExpires(t), UNCHANGED patch
      PROVE  LeaseInv'
  <2>1. Leased(task[t]) => Leased([task[t] EXCEPT !.lease = "expired"])
    BY <1>0 DEF TaskRow, Leased
  <2>2. KeepsLeased
    BY <1>3, <2>1 DEF LeaseExpires, WriteTask, KeepsLeased, TypeInv, TaskInv
  <2>3. QED BY <1>3, <2>2, LeaseFrame
<1>4. ASSUME NEW a \in Agents, NEW d \in DispatchIds, AckStep(a, d),
             UNCHANGED patch
      PROVE  LeaseInv'
  BY <1>4, AckKeepsLeased, LeaseFrame
<1>5. CASE \E p \in Patches : PatchStep(p)
  BY <1>5, PatchKeepsLease
<1>6. CASE \/ ClockTick /\ UNCHANGED patch
           \/ \E w \in Workers : /\ StartTick(w) \/ Crash(w) \/ LockLost(w)
                                 /\ UNCHANGED patch
           \/ UNCHANGED vars
  BY <1>1, <1>6 DEF ClockTick, StartTick, Crash, LockLost, rowVars, vars
<1>7. QED
  BY <1>2, <1>3, <1>4, <1>5, <1>6 DEF Next, EngineStep

\* A task that waits for an executor has the lease and the flag by which
\* recoverExpiredExternalAckWaits finds it, although five writers set the
\* state by id alone and overlapping PATCHes write back rows they read before
\* them.  Only a PATCH of the task that named waiting_input itself, or one
\* whose row changed between the two statements of its save(), may leave it
\* without.
THEOREM Waits == Spec => []WaitsAreLeased
<1>1. Init => LeaseInv
  <2>1. \A r \in createTask : Leased(r)
    BY DEF createTask, Leased
  <2>2. QED
    BY <2>1 DEF Init, RowsInit, LeaseInv, UnderWay, NewPatch
<1>2. LeaseInv => WaitsAreLeased
  BY DEF LeaseInv, WaitsAreLeased, Leased, Misled
<1>3. QED BY <1>1, <1>2, InitTypes, NextTypes, NextLease, PTL DEF Spec

-----------------------------------------------------------------------------
(***************************************************************************)
(* Part 5: a completed task had its work done.                             *)
(***************************************************************************)
\* A step leaves the work counters alone, bumps one of them or adds to what
\* stands behind a dispatch.
LEMMA CountersWritten ==
    ASSUME [Next]_vars
    PROVE  /\ \/ UNCHANGED fired
              \/ \E t \in Tasks : fired' = [fired EXCEPT ![t] = Bump(@)]
              \/ \E w \in Workers :
                    fired' = [fired EXCEPT ![worker[w].t] = Bump(@)]
           /\ \/ UNCHANGED effect
              \/ \E d \in DispatchIds, e \in Effects :
                    effect' = [effect EXCEPT ![d] = @ \cup {e}]
<1>1. ASSUME NEW w \in Workers, TickStep(w)
      PROVE  /\ UNCHANGED effect
             /\ \/ UNCHANGED fired
                \/ fired' = [fired EXCEPT ![worker[w].t] = Bump(@)]
  <2>1. CASE deliver(w) \/ PerformRoute(w)
    BY <2>1 DEF deliver, PerformRoute
  <2>2. CASE \/ recoverExpiredLeases(w) \/ ScanAckWaits(w) \/ NextAckWait(w)
             \/ markTimedOutRead(w) \/ markTimedOutWrite(w) \/ FailAckWait(w)
             \/ SelectApprovalGated(w) \/ promoteApprovalGated(w)
             \/ SelectReminder(w) \/ tryClaimForReminder(w)
             \/ ReadReminder(w) \/ finalizeReminderDelivery(w)
             \/ SelectScheduled(w)
    BY <2>2
    DEF recoverExpiredLeases, ScanAckWaits, NextAckWait, markTimedOutRead,
        markTimedOutWrite, FailAckWait, SelectApprovalGated,
        promoteApprovalGated, SelectReminder, tryClaimForReminder,
        ReadReminder, finalizeReminderDelivery, SelectScheduled, OnlyTask,
        OnlyDisp, rowVars
  <2>3. CASE \/ tryClaimForScheduled(w) \/ MarkRunning(w) \/ ReadRunning(w)
             \/ RefuseRoute(w) \/ BeginExternal(w) \/ FindDispatch(w)
             \/ InsertDispatch(w) \/ EmitDispatch(w) \/ AwaitAck(w)
             \/ applyRunResult(w) \/ EndTick(w)
    BY <2>3
    DEF tryClaimForScheduled, MarkRunning, ReadRunning, RefuseRoute,
        BeginExternal, FindDispatch, InsertDispatch, EmitDispatch, AwaitAck,
        applyRunResult, EndTick, OnlyTask, OnlyDisp, rowVars
  <2>4. QED BY <1>1, <2>1, <2>2, <2>3 DEF TickStep
<1>2. ASSUME NEW a \in Agents, NEW d \in DispatchIds, AckStep(a, d)
      PROVE  /\ UNCHANGED fired
             /\ \/ UNCHANGED effect
                \/ \E e \in Effects :
                      effect' = [effect EXCEPT ![d] = @ \cup {e}]
  <2>1. CASE ExecuteAction(a, d)
    BY <2>1 DEF ExecuteAction, Effects
  <2>2. QED
    BY <1>2, <2>1
    DEF AckStep, ReceiveDispatch, LoseDispatch, ReceiveAnswer, LoseExchange,
        FailHandler, RestartExecutor, applyClientAck, MarkAcknowledged,
        ReadAckedTask, acknowledge, rowVars
<1>3. CASE \/ \E w \in Workers : StartTick(w) \/ Crash(w) \/ LockLost(w)
           \/ \E t \in Tasks : LeaseExpires(t)
           \/ ClockTick
           \/ \E p \in Patches : PatchStep(p)
           \/ UNCHANGED vars
  BY <1>3, PatchLeaves
  DEF StartTick, Crash, LockLost, LeaseExpires, ClockTick, OnlyTask, rowVars,
      vars
<1>4. QED BY <1>1, <1>2, <1>3 DEF Next, EngineStep

\* Work that was done stays done: counters only grow, rows stay with their
\* tasks, requests stay on record.
LEMMA WorkStays ==
    ASSUME TypeInv, [Next]_vars
    PROVE  /\ \A t \in Tasks : fired[t] > 0 => fired'[t] > 0
           /\ \A d \in DispatchIds : effect[d] # {} => effect'[d] # {}
           /\ \A t \in Tasks : Performed(t) => Performed(t)'
<1>0. /\ fired \in [Tasks -> 0 .. MaxFired]
      /\ effect \in [DispatchIds -> SUBSET Effects]
  BY DEF TypeInv, CountersInv, EffectInv
<1>1. \A t \in Tasks : fired[t] > 0 => fired'[t] > 0
  BY <1>0, CountersWritten, Bumps
<1>2. \A d \in DispatchIds : effect[d] # {} => effect'[d] # {}
  BY <1>0, CountersWritten
<1>3. ASSUME NEW t \in Tasks, Performed(t)
      PROVE  Performed(t)'
  <2>1. CASE fired[t] > 0
    BY <1>1, <2>1 DEF Performed
  <2>2. ASSUME NEW d \in Rows, disp[d].task = t, effect[d] # {}
        PROVE  Performed(t)'
    <3>1. d \in DispatchIds /\ d \in Rows' /\ disp'[d].task = t
      BY <2>2, RowsStay DEF Rows
    <3>2. QED BY <1>2, <2>2, <3>1 DEF Performed
  <2>3. CASE Asked(t, "completed")
    BY <2>3, LogStays DEF Performed
  <2>4. QED BY <1>3, <2>1, <2>2, <2>3 DEF Performed
<1>4. QED BY <1>1, <1>2, <1>3

\* A tick reports completion only of a task whose route it has performed.
ReportsWork(r) ==
    r.pc = "apply" /\ r.out.es = "completed" => fired[r.t] > 0

\* Every statement of a tick keeps ReportsWork for its replica.
LEMMA TickReportsWork ==
    ASSUME TypeInv, WorkInv, NEW w \in Workers, TickStep(w)
    PROVE  ReportsWork(worker[w])'
<1>0. /\ worker[w] \in WorkerRec
      /\ fired \in [Tasks -> 0 .. MaxFired]
      /\ \A r : SetWorker(w, r) => worker'[w] = r
  BY Facts DEF GoodWorker, TypeInv, WorkerInv, CountersInv, SetWorker
<1>1. \A pc : Goto(w, pc) /\ pc # "apply" => worker'[w].pc # "apply"
  BY <1>0 DEF Goto, WorkerRec
<1>2. \A pc : NextIteration(w, pc) \/ EnterLoop(w, pc)
                => worker'[w].pc = pc
  BY <1>0 DEF NextIteration, EnterLoop, IdleWorker
<1>3. \A es, clear : Finish(w, es, clear) =>
        worker'[w].t = worker[w].t /\ worker'[w].out.es = es
  <2>1. \A o : LET r == [worker[w] EXCEPT !.pc = "apply", !.out = o]
               IN  r.t = worker[w].t /\ r.out = o
    BY <1>0 DEF WorkerRec
  <2>2. TAKE es, clear
  <2>3. HAVE Finish(w, es, clear)
  <2> DEFINE o == [es |-> es, clear |-> clear]
             r == [worker[w] EXCEPT !.pc = "apply", !.out = o]
  <2>4. worker'[w] = r
    BY <1>0, <2>3 DEF Finish
  <2>5. o.es = es
    OBVIOUS
  <2> HIDE DEF o
  <2>6. r.t = worker[w].t /\ r.out = o
    BY <2>1
  <2>7. QED BY <2>4, <2>5, <2>6
<1>4. CASE PerformRoute(w)
  <2>1. worker[w].t \in Tasks
    BY <1>4, HasTask DEF PerformRoute, At, HoldingPcs, MidIteration
  <2>2. worker'[w].t = worker[w].t
    BY <1>3, <1>4 DEF PerformRoute
  <2>3. fired'[worker[w].t] > 0
    BY <1>0, <1>4, <2>1, Bumps DEF PerformRoute
  <2>4. QED BY <2>2, <2>3 DEF ReportsWork
<1>5. CASE RefuseRoute(w)
  <2>1. \E es \in {"failed", "blocked"}, clear \in BOOLEAN :
           Finish(w, es, clear)
    BY <1>5 DEF RefuseRoute
  <2>2. QED BY <1>3, <2>1 DEF ReportsWork
<1>6. CASE FindDispatch(w)
  <2>1. CASE Finish(w, "blocked", FALSE)
    <3>1. worker'[w].out.es = "blocked"
      BY <1>3, <2>1
    <3>2. QED BY <3>1 DEF ReportsWork
  <2>2. CASE Goto(w, "insert")
    BY <1>1, <2>2 DEF ReportsWork
  <2>3. ASSUME NEW d,
               SetWorker(w, [worker[w] EXCEPT !.pc = "wait", !.did = d])
        PROVE  ReportsWork(worker[w])'
    BY <1>0, <2>3 DEF ReportsWork, WorkerRec
  <2>4. QED BY <1>6, <2>1, <2>2, <2>3 DEF FindDispatch
<1>7. CASE InsertDispatch(w) \/ EndTick(w)
  <2>1. CASE ReleaseLeader(w)
    BY <1>0, <2>1 DEF ReleaseLeader, IdleWorker, ReportsWork
  <2>2. ASSUME NEW d,
               SetWorker(w, [worker[w] EXCEPT !.pc = "emit", !.did = d])
        PROVE  ReportsWork(worker[w])'
    BY <1>0, <2>2 DEF ReportsWork, WorkerRec
  <2>3. QED BY <1>7, <2>1, <2>2 DEF InsertDispatch, EndTick
<1>8. CASE \/ recoverExpiredLeases(w) \/ markTimedOutRead(w)
           \/ markTimedOutWrite(w) \/ deliver(w) \/ MarkRunning(w)
           \/ BeginExternal(w) \/ EmitDispatch(w)
  BY <1>1, <1>8
  DEF recoverExpiredLeases, markTimedOutRead, markTimedOutWrite, deliver,
      MarkRunning, BeginExternal, EmitDispatch, ReportsWork
<1>9. CASE \/ promoteApprovalGated(w) \/ finalizeReminderDelivery(w)
           \/ AwaitAck(w) \/ applyRunResult(w)
  BY <1>2, <1>9
  DEF promoteApprovalGated, finalizeReminderDelivery, AwaitAck,
      applyRunResult, ReportsWork
<1>10. CASE ScanAckWaits(w) \/ NextAckWait(w) \/ FailAckWait(w)
  <2>1. worker'[w].pc # "apply"
    BY <1>0, <1>2, <1>10
    DEF ScanAckWaits, NextAckWait, FailAckWait, WorkerRec
  <2>2. QED BY <2>1 DEF ReportsWork
<1>11. CASE SelectApprovalGated(w) \/ SelectReminder(w) \/ SelectScheduled(w)
  <2>1. worker'[w].pc # "apply"
    BY <1>0, <1>2, <1>11
    DEF SelectApprovalGated, SelectReminder, SelectScheduled, Pick, WorkerRec
  <2>2. QED BY <2>1 DEF ReportsWork
<1>12. CASE tryClaimForReminder(w) \/ tryClaimForScheduled(w)
            \/ ReadReminder(w) \/ ReadRunning(w)
  <2>1. worker'[w].pc # "apply"
    BY <1>0, <1>2, <1>12
    DEF tryClaimForReminder, tryClaimForScheduled, Claimed, ReadReminder,
        ReadRunning, WorkerRec
  <2>2. QED BY <2>1 DEF ReportsWork
<1>13. QED
  BY <1>4, <1>5, <1>6, <1>7, <1>8, <1>9, <1>10, <1>11, <1>12 DEF TickStep

\* A step of one replica leaves the others where they are.
LEMMA OthersStay ==
    ASSUME TypeInv, NEW w \in Workers,
           TickStep(w) \/ StartTick(w) \/ Crash(w) \/ LockLost(w),
           NEW v \in Workers \ {w}
    PROVE  worker'[v] = worker[v]
<1>0. \A r : SetWorker(w, r) => worker'[v] = worker[v]
  BY DEF TypeInv, WorkerInv, SetWorker
<1>1. /\ \A pc : Goto(w, pc) \/ NextIteration(w, pc) \/ EnterLoop(w, pc)
                   \/ Claimed(w, pc) => worker'[v] = worker[v]
      /\ \A es, clear : Finish(w, es, clear) => worker'[v] = worker[v]
      /\ \A t, pc : Pick(w, t, pc) => worker'[v] = worker[v]
      /\ ReleaseLeader(w) => worker'[v] = worker[v]
  BY <1>0
  DEF Goto, NextIteration, EnterLoop, Claimed, Finish, Pick, ReleaseLeader
<1>2. CASE \/ recoverExpiredLeases(w) \/ ScanAckWaits(w) \/ NextAckWait(w)
           \/ markTimedOutRead(w) \/ markTimedOutWrite(w) \/ FailAckWait(w)
  BY <1>0, <1>1, <1>2
  DEF recoverExpiredLeases, ScanAckWaits, NextAckWait, markTimedOutRead,
      markTimedOutWrite, FailAckWait
<1>3. CASE \/ SelectApprovalGated(w) \/ promoteApprovalGated(w)
           \/ SelectReminder(w) \/ tryClaimForReminder(w) \/ ReadReminder(w)
           \/ deliver(w) \/ finalizeReminderDelivery(w)
           \/ SelectScheduled(w) \/ tryClaimForScheduled(w)
  BY <1>0, <1>1, <1>3
  DEF SelectApprovalGated, promoteApprovalGated, SelectReminder,
      tryClaimForReminder, ReadReminder, deliver, finalizeReminderDelivery,
      SelectScheduled, tryClaimForScheduled
<1>4. CASE \/ MarkRunning(w) \/ ReadRunning(w) \/ PerformRoute(w)
           \/ RefuseRoute(w) \/ BeginExternal(w) \/ FindDispatch(w)
           \/ InsertDispatch(w) \/ EmitDispatch(w) \/ AwaitAck(w)
           \/ applyRunResult(w) \/ EndTick(w)
  BY <1>0, <1>1, <1>4
  DEF MarkRunning, ReadRunning, PerformRoute, RefuseRoute, BeginExternal,
      FindDispatch, InsertDispatch, EmitDispatch, AwaitAck, applyRunResult,
      EndTick
<1>5. CASE StartTick(w) \/ Crash(w) \/ LockLost(w)
  BY <1>0, <1>1, <1>5 DEF StartTick, Crash, LockLost
<1>6. QED BY <1>2, <1>3, <1>4, <1>5 DEF TickStep

\* Every statement of a tick leaves completed tasks with their work done.
LEMMA TickCompletesWork ==
    ASSUME TypeInv, WorkInv, [Next]_vars, NEW w \in Workers, TickStep(w),
           NEW t \in Tasks, task'[t].es = "completed"
    PROVE  Performed(t)'
<1>0. /\ \A u \in Tasks : task[u] \in TaskRow
      /\ task \in [Tasks -> TaskRow]
  BY DEF TypeInv, TaskInv
<1>1. task[t].es = "completed" => Performed(t)'
  BY WorkStays DEF WorkInv
<1>2. CASE UNCHANGED task
  BY <1>1, <1>2
<1>3. \A u \in Tasks : \A r : WriteTask(u, r) =>
        task'[t] = IF u = t THEN r ELSE task[t]
  BY <1>0 DEF WriteTask
<1>10. \A u \in Tasks : \A r : WriteTask(u, r) /\ r.es # "completed"
          => Performed(t)'
  BY <1>1, <1>3
<1>4. CASE recoverExpiredLeases(w)
  <2>1. [task[t] EXCEPT !.es = "pending", !.lease = "none"].es = "pending"
    BY <1>0 DEF TaskRow
  <2>2. QED BY <1>1, <1>4, <2>1 DEF recoverExpiredLeases
<1>5. CASE FailAckWait(w) \/ finalizeReminderDelivery(w) \/ MarkRunning(w)
           \/ promoteApprovalGated(w) \/ AwaitAck(w)
           \/ tryClaimForReminder(w) \/ tryClaimForScheduled(w)
  <2> DEFINE r == task[worker[w].t]
  <2>1. worker[w].t \in Tasks /\ r \in TaskRow
    BY <1>0, <1>5, HasTask
    DEF FailAckWait, finalizeReminderDelivery, MarkRunning, AwaitAck,
        promoteApprovalGated, tryClaimForReminder, tryClaimForScheduled, At,
        HoldingPcs, MidIteration
  <2> HIDE DEF r
  <2>2. \A did, rem, sched, awaiting :
          /\ [r EXCEPT !.es = "failed", !.lease = "none", !.awaiting = FALSE,
                       !.did = did].es # "completed"
          /\ [r EXCEPT !.rem = rem, !.es = "pending", !.lease = "none",
                       !.awaiting = awaiting, !.did = did].es # "completed"
          /\ [r EXCEPT !.es = "running"].es # "completed"
          /\ [r EXCEPT !.es = "waiting_approval",
                       !.lease = "none"].es # "completed"
          /\ [r EXCEPT !.es = "waiting_input", !.lease = "held",
                       !.sched = sched, !.awaiting = TRUE,
                       !.did = did].es # "completed"
          /\ [r EXCEPT !.es = "running", !.lease = "held"].es # "completed"
          /\ [r EXCEPT !.es = "dispatched", !.lease = "held"].es # "completed"
    BY <2>1 DEF TaskRow
  <2>3. CASE FailAckWait(w)
    BY <1>10, <2>1, <2>2, <2>3 DEF FailAckWait, r
  <2>4. CASE finalizeReminderDelivery(w)
    <3> DEFINE row == [r EXCEPT !.rem = None, !.es = "pending",
                               !.lease = "none",
                               !.awaiting = worker[w].snap.awaiting,
                               !.did = worker[w].snap.did]
    <3>1. row.es # "completed"
      BY <2>2
    <3>2. WriteTask(worker[w].t, row)
      BY <2>4 DEF finalizeReminderDelivery, r
    <3> HIDE DEF row
    <3>3. QED BY <1>10, <2>1, <3>1, <3>2
  <2>5. CASE MarkRunning(w) \/ promoteApprovalGated(w)
    BY <1>2, <1>10, <2>1, <2>2, <2>5 DEF MarkRunning, promoteApprovalGated, r
  <2>6. CASE AwaitAck(w)
    BY <1>10, <2>1, <2>2, <2>6 DEF AwaitAck, r
  <2>7. CASE tryClaimForReminder(w) \/ tryClaimForScheduled(w)
    BY <1>2, <1>10, <2>1, <2>2, <2>7
    DEF tryClaimForReminder, tryClaimForScheduled, r
  <2>8. QED BY <1>5, <2>3, <2>4, <2>5, <2>6, <2>7
<1>7. CASE applyRunResult(w)
  <2>1. worker[w].t \in Tasks /\ worker[w].pc = "apply"
    BY <1>7, HasTask DEF applyRunResult, At, HoldingPcs, MidIteration
  <2>2. CASE worker[w].out.es = "completed"
    <3>1. task'[t] = task[t] \/ worker[w].t = t
      BY <1>3, <1>7, <2>1 DEF applyRunResult
    <3>2. fired[worker[w].t] > 0
      BY <2>1, <2>2 DEF WorkInv
    <3>3. QED BY <1>1, <2>1, <3>1, <3>2, WorkStays DEF Performed
  <2>3. CASE worker[w].out.es # "completed"
    <3> DEFINE r == task[worker[w].t]
    <3>1. r \in TaskRow
      BY <1>0, <2>1
    <3> DEFINE out == worker[w].out
               snap == worker[w].snap
               row == [r EXCEPT !.es = out.es, !.lease = "none",
                         !.sched = IF out.clear THEN None ELSE snap.sched,
                         !.awaiting = snap.awaiting, !.did = snap.did]
    <3>2. WriteTask(worker[w].t, row)
      BY <1>7 DEF applyRunResult
    <3> HIDE DEF r
    <3>3. row.es = out.es
      BY <3>1 DEF TaskRow
    <3> HIDE DEF row
    <3>4. QED BY <1>10, <2>1, <2>3, <3>2, <3>3
  <2>4. QED BY <2>2, <2>3
<1>8. CASE \/ ScanAckWaits(w) \/ NextAckWait(w) \/ markTimedOutRead(w)
           \/ markTimedOutWrite(w) \/ SelectApprovalGated(w)
           \/ SelectReminder(w) \/ ReadReminder(w) \/ deliver(w)
           \/ SelectScheduled(w) \/ ReadRunning(w) \/ PerformRoute(w)
           \/ RefuseRoute(w) \/ BeginExternal(w) \/ FindDispatch(w)
           \/ InsertDispatch(w) \/ EmitDispatch(w) \/ EndTick(w)
  BY <1>2, <1>8
  DEF ScanAckWaits, NextAckWait, markTimedOutRead, markTimedOutWrite,
      SelectApprovalGated, SelectReminder, ReadReminder, deliver,
      SelectScheduled, ReadRunning, PerformRoute, RefuseRoute, BeginExternal,
      FindDispatch, InsertDispatch, EmitDispatch, EndTick, OnlyDisp, rowVars
<1>9. QED BY <1>4, <1>5, <1>7, <1>8 DEF TickStep

\* An acknowledgement of completion is sent after the action was performed,
\* or vouched for by a browser.
Earned(a, d) ==
    job[a][d].pc # "idle" /\ job[a][d].ack = "completed" => effect[d] # {}

\* Every step of an executor or the endpoint keeps Earned.
LEMMA AckReportsWork ==
    ASSUME TypeInv, WorkInv, [Next]_vars,
           NEW a \in Agents, NEW d \in DispatchIds, AckStep(a, d),
           NEW b \in Agents, NEW e \in DispatchIds
    PROVE  Earned(b, e)'
<1> USE DEF JobAt
<1>0. /\ \A j : SetJob(a, d, j) =>
           /\ job'[a][d] = j
           /\ b # a \/ e # d => job'[b][e] = job[b][e]
      /\ job[a][d] \in JobRec
      /\ effect \in [DispatchIds -> SUBSET Effects]
  BY DEF SetJob, TypeInv, JobInv, EffectInv
<1>1. Earned(b, e)
  BY DEF WorkInv, Earned
<1>2. CASE job'[b][e] = job[b][e]
  BY <1>1, <1>2, WorkStays DEF Earned
<1>3. \/ UNCHANGED job
      \/ \E j : SetJob(a, d, j)
  BY DEF AckStep, ReceiveDispatch, LoseDispatch, ExecuteAction, ReceiveAnswer,
         LoseExchange, FailHandler, RestartExecutor, applyClientAck,
         MarkAcknowledged, ReadAckedTask, acknowledge, Send, Answer, Proceed,
         GiveUp
<1>4. ASSUME b = a, e = d
      PROVE  Earned(b, e)'
  <2>0. /\ \A ack : Send(a, d, ack) => job'[a][d].ack = ack
        /\ SetJob(a, d, IdleJob) => job'[a][d].ack = "accepted"
        /\ SetJob(a, d, [IdleJob EXCEPT !.pc = "exec"])
              => job'[a][d].ack = "accepted"
    <3>1. /\ \A ack : [IdleJob EXCEPT !.pc = "sent", !.ack = ack].ack = ack
          /\ IdleJob.ack = "accepted"
          /\ [IdleJob EXCEPT !.pc = "exec"].ack = "accepted"
      BY DEF IdleJob
    <3>2. QED BY <1>0, <3>1 DEF Send
  <2>1. \A ok : Answer(a, d, ok) => job'[a][d].ack = job[a][d].ack
    <3> DEFINE ack == job[a][d].ack
    <3>1. TAKE ok
    <3>2. HAVE Answer(a, d, ok)
    <3>3. job'[a][d] = [IdleJob EXCEPT !.pc = "reply", !.ack = ack, !.ok = ok]
      BY <1>0, <3>2 DEF Answer
    <3> HIDE DEF ack
    <3>4. [IdleJob EXCEPT !.pc = "reply", !.ack = ack, !.ok = ok].ack = ack
      BY DEF IdleJob
    <3>5. QED BY <3>3, <3>4 DEF ack
  <2>2. \A ack : ack # "completed" /\ Send(a, d, ack) => Earned(b, e)'
    BY <1>4, <2>0 DEF Earned
  <2>3. CASE ReceiveDispatch(a, d) \/ LoseDispatch(a, d)
    <3>1. CASE UNCHANGED job
      BY <1>2, <3>1
    <3>2. ASSUME NEW ack \in {"accepted", "rejected"}, Send(a, d, ack)
          PROVE  Earned(b, e)'
      BY <2>2, <3>2
    <3>3. QED BY <2>3, <3>1, <3>2 DEF ReceiveDispatch, LoseDispatch
  <2>4. CASE ExecuteAction(a, d)
    <3>1. ASSUME NEW x, effect' = [effect EXCEPT ![d] = @ \cup {x}]
          PROVE  Earned(b, e)'
      BY <1>0, <1>4, <3>1 DEF Earned
    <3>2. CASE Send(a, d, "failed")
      BY <2>2, <3>2
    <3>3. QED BY <2>4, <3>1, <3>2 DEF ExecuteAction
  <2>5. CASE ReceiveAnswer(a, d) \/ LoseExchange(a, d) \/ RestartExecutor(a, d)
    <3>1. \/ Send(a, d, "failed")
          \/ SetJob(a, d, IdleJob)
          \/ SetJob(a, d, [IdleJob EXCEPT !.pc = "exec"])
      BY <2>5
      DEF ReceiveAnswer, LoseExchange, RestartExecutor, Proceed, GiveUp
    <3>2. QED BY <1>4, <2>0, <3>1 DEF Earned
  <2>6. CASE \/ FailHandler(a, d) \/ applyClientAck(a, d)
             \/ MarkAcknowledged(a, d) \/ ReadAckedTask(a, d)
             \/ acknowledge(a, d)
    <3>1. job[a][d].pc # "idle"
      BY <2>6
      DEF FailHandler, applyClientAck, MarkAcknowledged, ReadAckedTask,
          acknowledge, ServerPcs
    <3>2. \A pc, did : [job[a][d] EXCEPT !.pc = pc, !.did = did].ack
                          = job[a][d].ack
      BY <1>0 DEF JobRec
    <3>3. \A pc : [job[a][d] EXCEPT !.pc = pc].ack = job[a][d].ack
      BY <1>0 DEF JobRec
    <3>4. job'[a][d].ack = job[a][d].ack
      <4>1. CASE \E ok : Answer(a, d, ok)
        BY <2>1, <4>1
      <4>2. CASE \E pc : SetJob(a, d, [job[a][d] EXCEPT !.pc = pc])
        BY <1>0, <3>3, <4>2
      <4>3. CASE ReadAckedTask(a, d)
        <5> DEFINE did == task[disp[d].task].did
        <5>1. job'[a][d] = [job[a][d] EXCEPT !.pc = "write", !.did = did]
          BY <1>0, <4>3 DEF ReadAckedTask
        <5> HIDE DEF did
        <5>2. QED BY <3>2, <5>1
      <4>4. QED
        BY <2>6, <4>1, <4>2, <4>3
        DEF FailHandler, applyClientAck, MarkAcknowledged, acknowledge
    <3>5. QED BY <1>1, <1>4, <3>1, <3>4, WorkStays DEF Earned
  <2>7. QED BY <2>3, <2>4, <2>5, <2>6 DEF AckStep
<1>5. QED BY <1>0, <1>2, <1>3, <1>4

\* So an acknowledgement completes only tasks whose work was done.
LEMMA AckCompletesWork ==
    ASSUME TypeInv, WorkInv, [Next]_vars,
           NEW a \in Agents, NEW d \in DispatchIds, AckStep(a, d),
           NEW t \in Tasks, task'[t].es = "completed"
    PROVE  Performed(t)'
<1>1. CASE UNCHANGED task
  BY <1>1, WorkStays DEF WorkInv
<1>2. CASE acknowledge(a, d)
  <2> DEFINE ack == job[a][d].ack
             r == [task[disp[d].task] EXCEPT !.did = job[a][d].did]
  <2>1. /\ d \in Rows /\ disp[d].task \in Tasks
        /\ job[a][d].did \in DispatchIds \cup {None}
        /\ job[a][d].pc = "write"
    BY <1>2, AtHand DEF acknowledge, JobAt, DispatchRow, JobRec
  <2>2. r \in TaskRow /\ task \in [Tasks -> TaskRow]
    BY <2>1 DEF TypeInv, TaskInv, TaskRow
  <2> HIDE DEF r
  <2>3. /\ [r EXCEPT !.es = "waiting_input", !.lease = "held",
                     !.awaiting = TRUE].es = "waiting_input"
        /\ [r EXCEPT !.es = "failed", !.lease = "none",
                     !.awaiting = FALSE].es = "failed"
    BY <2>2 DEF TaskRow
  <2>4. \/ t # disp[d].task /\ task'[t] = task[t]
        \/ t = disp[d].task /\ ack = "completed"
    BY <1>2, <2>2, <2>3 DEF acknowledge, r
  <2>5. CASE t # disp[d].task /\ task'[t] = task[t]
    BY <2>5, WorkStays DEF WorkInv
  <2>6. CASE t = disp[d].task /\ ack = "completed"
    <3>1. effect[d] # {}
      BY <2>1, <2>6, d \in DispatchIds DEF WorkInv
    <3>2. Performed(t)
      BY <2>1, <2>6, <3>1 DEF Performed
    <3>3. QED BY <3>2, WorkStays
  <2>7. QED BY <2>4, <2>5, <2>6
<1>3. QED
  BY <1>1, <1>2
  DEF AckStep, ReceiveDispatch, LoseDispatch, ExecuteAction, ReceiveAnswer,
      LoseExchange, FailHandler, RestartExecutor, applyClientAck,
      MarkAcknowledged, ReadAckedTask, rowVars

\* Every step leaves completed tasks with their work done.
LEMMA NextCompleted ==
    ASSUME TypeInv, WorkInv, [Next]_vars, NEW t \in Tasks,
           task'[t].es = "completed"
    PROVE  Performed(t)'
<1>0. /\ \A u \in Tasks : task[u] \in TaskRow
      /\ task \in [Tasks -> TaskRow]
  BY DEF TypeInv, TaskInv
<1>1. CASE task'[t].es = task[t].es
  BY <1>1, WorkStays DEF WorkInv
<1>2. CASE \E w \in Workers : TickStep(w)
  BY <1>2, TickCompletesWork
<1>3. CASE \E a \in Agents, d \in DispatchIds : AckStep(a, d)
  BY <1>3, AckCompletesWork
<1>4. ASSUME NEW u \in Tasks, LeaseExpires(u)
      PROVE  Performed(t)'
  <2>1. [task[u] EXCEPT !.lease = "expired"].es = task[u].es
    BY <1>0 DEF TaskRow
  <2>2. task'[t].es = task[t].es
    BY <1>0, <1>4, <2>1 DEF LeaseExpires, WriteTask
  <2>3. QED BY <1>1, <2>2
<1>5. ASSUME NEW p \in Patches, PatchSave(p)
      PROVE  Performed(t)'
  <2>1. PICK asked \in PatchStates \cup {None}, row \in TaskRow :
          SavesAs(p, asked, row)
    BY <1>5, SaveEffect
  <2> DEFINE u == patch[p].t
  <2>2. \/ task'[t] = task[t]
        \/ t = u /\ task'[t] = row
    BY <1>0, <2>1 DEF SavesAs, WriteTask
  <2>3. CASE t = u /\ row.es = "completed"
    <3>1. CASE row.es = task[u].es
      BY <2>3, <3>1, WorkStays DEF WorkInv
    <3>2. CASE patch[p].row.es = "completed"
      BY <2>1, <2>3, <3>2, WorkStays DEF SavesAs, WorkInv
    <3>3. CASE asked = "completed"
      <4>1. /\ patch'[p].pc = "done" /\ patch'[p].t = t
            /\ patch'[p].asked = "completed"
        BY <2>1, <2>3, <3>3 DEF SavesAs, NewPatch, TypeInv, PatchInv
      <4>2. QED BY <4>1 DEF Performed, Asked, PatchAt
    <3>4. QED BY <2>1, <2>3, <3>1, <3>2, <3>3 DEF SavesAs
  <2>4. QED BY <1>1, <2>2, <2>3
<1>6. CASE \/ \E w \in Workers : StartTick(w) \/ Crash(w) \/ LockLost(w)
           \/ ClockTick
           \/ \E p \in Patches :
                (\E u \in Tasks : PatchRead(p, u)) \/ PatchFind(p)
           \/ UNCHANGED vars
  BY <1>1, <1>6
  DEF StartTick, Crash, LockLost, ClockTick, PatchRead, PatchFind, rowVars,
      vars
<1>7. QED
  BY <1>2, <1>3, <1>4, <1>5, <1>6 DEF Next, EngineStep, PatchStep

\* The rows that PATCHes have read: they complete nothing either.
LEMMA NextPatched ==
    ASSUME TypeInv, WorkInv, [Next]_vars, NEW q \in Patches, UnderWay(q)',
           patch'[q].row.es = "completed"
    PROVE  Performed(patch[q].t)'
<1>0. patch \in [Patches -> PatchRec]
  BY DEF TypeInv, PatchInv
<1>1. CASE /\ patch'[q].row = patch[q].row /\ patch'[q].t = patch[q].t
           /\ UnderWay(q)
  <2>1. patch[q].t \in Tasks
    BY <1>1 DEF UnderWay, TypeInv, PatchInv, GoodPatch
  <2>2. Performed(patch[q].t)
    BY <1>1 DEF WorkInv
  <2>3. ASSUME NEW t, Performed(t)', patch'[q].t = t
        PROVE  Performed(patch[q].t)'
    BY <2>3 DEF Performed, Asked
  <2>4. QED BY <1>1, <2>1, <2>2, <2>3, WorkStays
<1>2. CASE patch'[q] = patch[q]
  BY <1>1, <1>2 DEF UnderWay
<1>3. CASE PatchFind(q)
  <2>1. /\ patch'[q].row = patch[q].row /\ patch'[q].t = patch[q].t
        /\ UnderWay(q)
    BY <1>0, <1>3 DEF PatchFind, SetPatch, PatchAt, UnderWay, PatchRec
  <2>2. QED BY <1>1, <2>1
<1>4. ASSUME NEW t \in Tasks, PatchRead(q, t)
      PROVE  Performed(patch[q].t)'
  <2>1. patch'[q].t = t /\ patch'[q].row = task[t]
    BY <1>0, <1>4 DEF PatchRead, SetPatch, NewPatch
  <2>2. Performed(t)'
    BY <2>1, WorkStays DEF WorkInv
  <2>3. QED BY <2>1, <2>2 DEF Performed, Asked
<1>5. ~PatchSave(q)
  BY SaveEnds DEF UnderWay
<1>6. QED BY <1>2, <1>3, <1>4, <1>5, OthersWait DEF PatchStep

\* Every step keeps ReportsWork for every replica.
LEMMA NextReports ==
    ASSUME TypeInv, WorkInv, [Next]_vars, NEW v \in Workers
    PROVE  ReportsWork(worker[v])'
<1>0. ReportsWork(worker[v])
  BY DEF WorkInv, ReportsWork
<1>1. CASE /\ worker'[v].pc = worker[v].pc
           /\ worker'[v].out = worker[v].out
           /\ worker'[v].t = worker[v].t
  <2>1. CASE worker[v].pc = "apply"
    <3>1. worker[v].t \in Tasks
      BY <2>1, HasTask DEF HoldingPcs, MidIteration
    <3>2. QED BY <1>0, <1>1, <2>1, <3>1, WorkStays DEF ReportsWork
  <2>2. QED BY <1>1, <2>1 DEF ReportsWork
<1>2. ASSUME NEW w \in Workers,
             TickStep(w) \/ StartTick(w) \/ Crash(w) \/ LockLost(w)
      PROVE  ReportsWork(worker[v])'
  <2>1. CASE v # w
    BY <1>1, <1>2, <2>1, OthersStay
  <2>2. CASE v = w /\ TickStep(w)
    BY <2>2, TickReportsWork
  <2>3. CASE v = w /\ LockLost(w)
    BY <1>1, <2>3 DEF LockLost
  <2>4. CASE v = w /\ (StartTick(w) \/ Crash(w))
    <3>1. \A r : SetWorker(w, r) => worker'[w] = r
      BY DEF SetWorker, TypeInv, WorkerInv
    <3>2. /\ [IdleWorker EXCEPT !.pc = "recover", !.now = clock].pc = "recover"
          /\ IdleWorker.pc = "idle"
      BY DEF IdleWorker
    <3>4. worker'[w].pc \in {"idle", "recover"}
      BY <2>4, <3>1, <3>2 DEF StartTick, Crash, ReleaseLeader
    <3>5. QED BY <2>4, <3>4 DEF ReportsWork
  <2>5. QED BY <1>2, <2>1, <2>2, <2>3, <2>4
<1>3. ASSUME NEW t \in Tasks, LeaseExpires(t)
      PROVE  ReportsWork(worker[v])'
  <2>1. worker[v] \in WorkerRec
    BY Facts DEF GoodWorker
  <2>2. /\ [worker[v] EXCEPT !.late = TRUE].pc = worker[v].pc
        /\ [worker[v] EXCEPT !.late = TRUE].out = worker[v].out
        /\ [worker[v] EXCEPT !.late = TRUE].t = worker[v].t
    BY <2>1 DEF WorkerRec
  <2>3. worker'[v] \in {worker[v], [worker[v] EXCEPT !.late = TRUE]}
    BY <1>3 DEF LeaseExpires
  <2>4. QED BY <1>1, <2>2, <2>3
<1>4. CASE UNCHANGED worker
  BY <1>1, <1>4
<1>5. QED
  BY <1>2, <1>3, <1>4, PatchLeaves
  DEF Next, EngineStep, ClockTick, engineVars, vars

\* The four conjuncts together.
LEMMA NextWork ==
    ASSUME TypeInv, WorkInv, [Next]_vars
    PROVE  WorkInv'
<1>1. ASSUME NEW a \in Agents, NEW d \in DispatchIds
      PROVE  Earned(a, d)'
  <2>1. CASE UNCHANGED job
    BY <2>1, WorkStays DEF WorkInv, Earned
  <2>2. CASE \E b \in Agents, e \in DispatchIds : AckStep(b, e)
    BY <2>2, AckReportsWork
  <2>3. QED BY <2>1, <2>2, PatchLeaves DEF Next, vars
<1>2. \A t \in Tasks : task'[t].es = "completed" => Performed(t)'
  BY NextCompleted
<1>3. \A q \in Patches : UnderWay(q)' /\ patch'[q].row.es = "completed"
        => Performed(patch[q].t)'
  BY NextPatched
<1>4. \A w \in Workers : ReportsWork(worker[w])'
  BY NextReports
<1>5. QED BY <1>1, <1>2, <1>3, <1>4 DEF WorkInv, ReportsWork, Earned

\* A task is completed only if a notification was delivered, its workflow run,
\* or the action of one of its dispatches performed (or vouched for by a
\* browser, whose word is taken for it), whoever wrote the state: a tick, an
\* acknowledgement, or PATCHes that save rows read earlier.  Only a PATCH that
\* named the state itself completes a task without.
THEOREM Work == Spec => []CompletedWasPerformed
<1>1. Init => WorkInv
  <2>1. \A r \in createTask : r.es = "idle"
    BY DEF createTask
  <2>2. IdleWorker.pc = "idle" /\ IdleJob.pc = "idle"
    BY DEF IdleWorker, IdleJob
  <2>3. QED
    BY <2>1, <2>2
    DEF Init, RowsInit, EngineInit, AckInit, WorkInv, UnderWay, NewPatch
<1>2. WorkInv => CompletedWasPerformed
  BY DEF WorkInv, CompletedWasPerformed, Performed
<1>3. QED BY <1>1, <1>2, InitTypes, NextTypes, NextWork, PTL DEF Spec
=============================================================================
