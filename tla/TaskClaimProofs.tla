-------------------------- MODULE TaskClaimProofs --------------------------
(***************************************************************************)
(* Claims and leases of the task engine, for any number of tasks, replicas,*)
(* executors, crashes, lost locks, answers and PATCHes.  The properties say*)
(* which of these events end what they promise, and until then they hold.  *)
(*                                                                         *)
(* What they share is TickEffect: the twenty-six statements of a tick do   *)
(* seven things to the claims of tasks.                                    *)
(***************************************************************************)
EXTENDS TaskExecutionProofs, TaskRefinement

-----------------------------------------------------------------------------
(***************************************************************************)
(* Part 1: what a statement of a tick does to claims.                      *)
(***************************************************************************)
\* What the replica holds before and after a statement.
Keeping(w) ==
    \A t : /\ Holds(w, t)' <=> Holds(w, t)
           /\ Holds(w, t) => worker'[w].late = worker[w].late
LettingGo(w) == \A t : ~Holds(w, t)'
Taking(w) ==
    \A t : /\ ~Holds(w, t)
           /\ Holds(w, t)' <=> t = worker[w].t
           /\ ~worker'[w].late

Recovers(w) == recoverExpiredLeases(w) /\ Keeping(w)
GivesUp(w) ==
    /\ At(w, "ackfail") /\ worker'[w].pc = "ackrow" /\ Keeping(w)
    /\ worker'[w].todo = worker[w].todo
    /\ \E r : WriteTask(worker[w].t, r) /\ r.es = "failed" /\ r.lease = "none"
Pauses(w) ==
    /\ At(w, "promotecas") /\ worker'[w].pc = "promote" /\ Keeping(w)
    /\ task[worker[w].t].es \in EligibleStates
    /\ \E r : /\ WriteTask(worker[w].t, r)
              /\ r.es = "waiting_approval" /\ r.lease = "none"
Takes(w) ==
    /\ At(w, "remindcas") \/ At(w, "schedcas")
    /\ Taking(w)
    /\ task[worker[w].t].es \in EligibleStates
    /\ \E r : /\ WriteTask(worker[w].t, r)
              /\ r.es \in ClaimedStates /\ r.lease = "held"
Marks(w) ==
    /\ At(w, "markrun") /\ Keeping(w)
    /\ \E r : /\ WriteTask(worker[w].t, r)
              /\ r.es = "running" /\ r.lease = task[worker[w].t].lease
LetsGo(w) ==
    /\ worker[w].pc \in {"remindfin", "wait", "apply"}
    /\ LettingGo(w)
    /\ \E r : /\ WriteTask(worker[w].t, r)
              /\ \/ r.es = "pending" /\ At(w, "remindfin")
                 \/ r.es \in {"waiting_input", "completed", "failed", "blocked"}
              /\ r.lease \in {"none", "held"}
Leaves(w) == UNCHANGED task /\ (Keeping(w) \/ LettingGo(w))

TickEffect(w) ==
    \/ Recovers(w) \/ GivesUp(w) \/ Pauses(w) \/ Takes(w) \/ Marks(w)
    \/ LetsGo(w) \/ Leaves(w)

\* Where the helpers that move a replica leave it.
LEMMA Moves ==
    ASSUME TypeInv, NEW w \in Workers
    PROVE  /\ \A pc : Goto(w, pc) => /\ worker'[w].pc = pc
                                     /\ worker'[w].t = worker[w].t
                                     /\ worker'[w].late = worker[w].late
           /\ \A pc : NextIteration(w, pc) \/ EnterLoop(w, pc) =>
                        worker'[w].pc = pc /\ worker'[w].todo = {}
           /\ \A pc : Claimed(w, pc) => /\ worker'[w].pc = pc
                                        /\ worker'[w].t = worker[w].t
                                        /\ ~worker'[w].late
           /\ \A t, pc : Pick(w, t, pc) => worker'[w].pc = pc
           /\ \A es, clear : Finish(w, es, clear) =>
                        /\ worker'[w].pc = "apply"
                        /\ worker'[w].t = worker[w].t
                        /\ worker'[w].late = worker[w].late
           /\ ReleaseLeader(w) => worker'[w] = IdleWorker
<1>1. /\ worker[w] \in WorkerRec
      /\ \A r : SetWorker(w, r) => worker'[w] = r
  BY Facts DEF GoodWorker, TypeInv, WorkerInv, SetWorker
<1>2. \A pc : Goto(w, pc) => /\ worker'[w].pc = pc
                             /\ worker'[w].t = worker[w].t
                             /\ worker'[w].late = worker[w].late
  BY <1>1 DEF Goto, WorkerRec
<1>3. \A pc : NextIteration(w, pc) \/ EnterLoop(w, pc) =>
                worker'[w].pc = pc /\ worker'[w].todo = {}
  BY <1>1 DEF NextIteration, EnterLoop, IdleWorker
<1>4. \A pc : Claimed(w, pc) => /\ worker'[w].pc = pc
                                /\ worker'[w].t = worker[w].t
                                /\ ~worker'[w].late
  BY <1>1 DEF Claimed, WorkerRec
<1>5. \A t, pc : Pick(w, t, pc) => worker'[w].pc = pc
  BY <1>1 DEF Pick, WorkerRec
<1>6. \A es, clear : Finish(w, es, clear) =>
                /\ worker'[w].pc = "apply"
                /\ worker'[w].t = worker[w].t
                /\ worker'[w].late = worker[w].late
  <2>1. \A o : LET r == [worker[w] EXCEPT !.pc = "apply", !.out = o]
               IN  r.pc = "apply" /\ r.t = worker[w].t /\ r.late = worker[w].late
    BY <1>1 DEF WorkerRec
  <2>2. QED BY <1>1, <2>1 DEF Finish
<1>7. ReleaseLeader(w) => worker'[w] = IdleWorker
  BY <1>1 DEF ReleaseLeader
<1>8. QED BY <1>2, <1>3, <1>4, <1>5, <1>6, <1>7

\* The twenty-six statements of a tick.
LEMMA TickEffects ==
    ASSUME TypeInv, NEW w \in Workers, TickStep(w)
    PROVE  TickEffect(w)
<1> USE DEF TickEffect, At
<1>0. /\ worker[w] \in WorkerRec
      /\ \A r : SetWorker(w, r) => worker'[w] = r
      /\ task \in [Tasks -> TaskRow]
      /\ IdleWorker.pc = "idle"
  BY Facts DEF GoodWorker, TypeInv, WorkerInv, TaskInv, SetWorker, IdleWorker
<1>1. /\ \A t : Holds(w, t) <=> worker[w].t = t /\ worker[w].pc \in HoldingPcs
      /\ \A t : Holds(w, t)' <=> worker'[w].t = t /\ worker'[w].pc \in HoldingPcs
  BY DEF Holds
<1>2. /\ worker[w].pc \in HoldingPcs /\ worker'[w].pc \in HoldingPcs
            /\ worker'[w].t = worker[w].t /\ worker'[w].late = worker[w].late
            => Keeping(w)
      /\ worker[w].pc \notin HoldingPcs /\ worker'[w].pc \notin HoldingPcs
            => Keeping(w)
      /\ worker'[w].pc \notin HoldingPcs => LettingGo(w)
  BY <1>1 DEF Keeping, LettingGo
<1>3. CASE recoverExpiredLeases(w)
  BY <1>2, <1>3, Moves DEF recoverExpiredLeases, Recovers, HoldingPcs
<1>4. CASE ScanAckWaits(w) \/ NextAckWait(w)
  <2>1. CASE ScanAckWaits(w)
    <3>1. worker'[w].pc = "ackrow"
      BY <1>0, <2>1 DEF ScanAckWaits, WorkerRec
    <3>2. QED BY <1>2, <2>1, <3>1 DEF ScanAckWaits, Leaves, rowVars, HoldingPcs
  <2>2. CASE NextAckWait(w)
    <3>1. CASE EnterLoop(w, "promote")
      <4>1. worker'[w].pc = "promote"
        BY <3>1, Moves
      <4>2. worker[w].pc = "ackrow" /\ UNCHANGED task
        BY <2>2 DEF NextAckWait, rowVars
      <4>3. QED BY <1>2, <4>1, <4>2 DEF Leaves, HoldingPcs
    <3>2. ASSUME NEW e, SetWorker(w, [worker[w] EXCEPT
                            !.pc = IF e[2] = None THEN "ackfail" ELSE "markread",
                            !.todo = @ \ {e}, !.t = e[1], !.did = e[2]])
          PROVE  TickEffect(w)
      <4> DEFINE pc == IF e[2] = None THEN "ackfail" ELSE "markread"
                 S == worker[w].todo \ {e}
      <4>0. pc \in {"ackfail", "markread"}
        OBVIOUS
      <4> HIDE DEF pc, S
      <4>3. [worker[w] EXCEPT !.pc = pc, !.todo = S, !.t = e[1], !.did = e[2]].pc = pc
        BY <1>0 DEF WorkerRec
      <4>4. SetWorker(w, [worker[w] EXCEPT !.pc = pc, !.todo = S, !.t = e[1], !.did = e[2]])
        BY <3>2 DEF pc, S
      <4>1. worker'[w].pc \in {"ackfail", "markread"}
        BY <1>0, <4>0, <4>3, <4>4
      <4>2. QED BY <1>2, <2>2, <4>1 DEF NextAckWait, Leaves, rowVars, HoldingPcs
    <3>3. \/ EnterLoop(w, "promote")
          \/ \E e \in worker[w].todo :
               SetWorker(w, [worker[w] EXCEPT
                   !.pc = IF e[2] = None THEN "ackfail" ELSE "markread",
                   !.todo = @ \ {e}, !.t = e[1], !.did = e[2]])
      BY <2>2 DEF NextAckWait
    <3> HIDE DEF TickEffect
    <3>4. QED BY <3>1, <3>2, <3>3
  <2>3. QED BY <1>4, <2>1, <2>2
<1>5. CASE markTimedOutRead(w) \/ markTimedOutWrite(w)
  BY <1>2, <1>5, Moves
  DEF markTimedOutRead, markTimedOutWrite, Leaves, rowVars, OnlyDisp, HoldingPcs
<1>6. CASE FailAckWait(w)
  <2>1. worker'[w].pc = "ackrow" /\ worker'[w].todo = worker[w].todo
    BY <1>0, <1>6 DEF FailAckWait, WorkerRec
  <2>2. worker[w].t \in Tasks
    BY <1>6, HasTask DEF FailAckWait
  <2> DEFINE r == [task[worker[w].t] EXCEPT !.es = "failed", !.lease = "none",
                                            !.awaiting = FALSE, !.did = worker[w].did]
  <2>3. r.es = "failed" /\ r.lease = "none"
    BY <1>0, <2>2 DEF TaskRow
  <2>4. WriteTask(worker[w].t, r) /\ Keeping(w) /\ worker[w].pc = "ackfail"
    BY <1>2, <1>6, <2>1 DEF FailAckWait, HoldingPcs
  <2> HIDE DEF r
  <2>5. QED BY <2>1, <2>3, <2>4 DEF GivesUp
<1>7. CASE SelectApprovalGated(w) \/ SelectReminder(w) \/ SelectScheduled(w)
  BY <1>2, <1>7, Moves
  DEF SelectApprovalGated, SelectReminder, SelectScheduled, Leaves, rowVars, HoldingPcs
<1>8. CASE promoteApprovalGated(w)
  <2>1. Keeping(w) /\ worker'[w].pc = "promote"
    BY <1>2, <1>8, Moves DEF promoteApprovalGated, HoldingPcs
  <2>2. CASE UNCHANGED task
    BY <2>1, <2>2 DEF Leaves
  <2>3. worker[w].t \in Tasks
    BY <1>8, HasTask DEF promoteApprovalGated, MidIteration
  <2> DEFINE r == [task[worker[w].t] EXCEPT !.es = "waiting_approval", !.lease = "none"]
  <2>4. r.es = "waiting_approval" /\ r.lease = "none"
    BY <1>0, <2>3 DEF TaskRow
  <2>5. CASE task[worker[w].t].es \in EligibleStates /\ WriteTask(worker[w].t, r)
    BY <1>8, <2>1, <2>4, <2>5 DEF promoteApprovalGated, Pauses
  <2>6. QED BY <1>8, <2>2, <2>5 DEF promoteApprovalGated
<1>9. CASE tryClaimForReminder(w)
  <2>1. worker[w].t \in Tasks
    BY <1>9, HasTask DEF tryClaimForReminder, MidIteration
  <2> DEFINE r == [task[worker[w].t] EXCEPT !.es = "running", !.lease = "held"]
  <2>2. r.es \in ClaimedStates /\ r.lease = "held"
    BY <1>0, <2>1 DEF TaskRow, ClaimedStates
  <2>3. CASE CanClaimReminder(worker[w].t, worker[w].now)
    <3>1. Claimed(w, "remindread") /\ WriteTask(worker[w].t, r) /\ worker[w].pc = "remindcas"
      BY <1>9, <2>3 DEF tryClaimForReminder
    <3>2. Taking(w)
      BY <1>1, <3>1, Moves DEF Taking, HoldingPcs
    <3>3. QED
      BY <2>2, <2>3, <3>1, <3>2 DEF Takes, CanClaimReminder, Scannable
  <2>4. CASE ~CanClaimReminder(worker[w].t, worker[w].now)
    BY <1>2, <1>9, <2>4, Moves DEF tryClaimForReminder, Leaves, HoldingPcs
  <2>5. QED BY <2>3, <2>4
<1>10. CASE tryClaimForScheduled(w)
  <2>1. worker[w].t \in Tasks
    BY <1>10, HasTask DEF tryClaimForScheduled, MidIteration
  <2> DEFINE r == [task[worker[w].t] EXCEPT !.es = "dispatched", !.lease = "held"]
  <2>2. r.es \in ClaimedStates /\ r.lease = "held"
    BY <1>0, <2>1 DEF TaskRow, ClaimedStates
  <2>3. CASE CanClaimScheduled(worker[w].t, worker[w].now)
    <3>1. Claimed(w, "markrun") /\ WriteTask(worker[w].t, r) /\ worker[w].pc = "schedcas"
      BY <1>10, <2>3 DEF tryClaimForScheduled
    <3>2. Taking(w)
      BY <1>1, <3>1, Moves DEF Taking, HoldingPcs
    <3>3. QED
      BY <2>2, <2>3, <3>1, <3>2 DEF Takes, CanClaimScheduled, Scannable
  <2>4. CASE ~CanClaimScheduled(worker[w].t, worker[w].now)
    BY <1>2, <1>10, <2>4, Moves DEF tryClaimForScheduled, Leaves, HoldingPcs
  <2>5. QED BY <2>3, <2>4
<1>11. CASE ReadReminder(w) \/ ReadRunning(w)
  <2>1. /\ worker[w].pc \in HoldingPcs /\ worker'[w].pc \in HoldingPcs
        /\ worker'[w].t = worker[w].t /\ worker'[w].late = worker[w].late
    BY <1>0, <1>11 DEF ReadReminder, ReadRunning, WorkerRec, HoldingPcs
  <2>2. QED BY <1>2, <1>11, <2>1 DEF ReadReminder, ReadRunning, Leaves, rowVars
<1>12. CASE deliver(w) \/ BeginExternal(w) \/ EmitDispatch(w)
  BY <1>2, <1>12, Moves
  DEF deliver, BeginExternal, EmitDispatch, Leaves, rowVars, HoldingPcs
<1>13. CASE PerformRoute(w) \/ RefuseRoute(w)
  <2>1. \E es, clear : Finish(w, es, clear)
    BY <1>13 DEF PerformRoute, RefuseRoute
  <2>2. worker[w].pc = "route" /\ UNCHANGED task
    BY <1>13 DEF PerformRoute, RefuseRoute, rowVars
  <2>3. QED BY <1>2, <2>1, <2>2, Moves DEF Leaves, HoldingPcs
<1>14. CASE FindDispatch(w)
  <2>1. UNCHANGED task /\ worker[w].pc = "begin"
    BY <1>14 DEF FindDispatch
  <2>2. CASE Finish(w, "blocked", FALSE) \/ Goto(w, "insert")
    BY <1>2, <2>1, <2>2, Moves DEF Leaves, HoldingPcs
  <2>3. ASSUME NEW d, SetWorker(w, [worker[w] EXCEPT !.pc = "wait", !.did = d])
        PROVE  TickEffect(w)
    <3>1. /\ worker'[w].pc = "wait"
          /\ worker'[w].t = worker[w].t /\ worker'[w].late = worker[w].late
      BY <1>0, <2>3 DEF WorkerRec
    <3>2. QED BY <1>2, <2>1, <3>1 DEF Leaves, HoldingPcs
  <2>4. QED BY <1>14, <2>2, <2>3 DEF FindDispatch
<1>15. CASE InsertDispatch(w)
  <2>1. UNCHANGED task /\ worker[w].pc = "insert"
    BY <1>15 DEF InsertDispatch, OnlyDisp
  <2>2. CASE ReleaseLeader(w)
    BY <1>0, <1>2, <2>1, <2>2, Moves DEF Leaves, HoldingPcs
  <2>3. ASSUME NEW d, SetWorker(w, [worker[w] EXCEPT !.pc = "emit", !.did = d])
        PROVE  TickEffect(w)
    <3>1. /\ worker'[w].pc = "emit"
          /\ worker'[w].t = worker[w].t /\ worker'[w].late = worker[w].late
      BY <1>0, <2>3 DEF WorkerRec
    <3>2. QED BY <1>2, <2>1, <3>1 DEF Leaves, HoldingPcs
  <2>4. QED BY <1>15, <2>2, <2>3 DEF InsertDispatch
<1>16. CASE MarkRunning(w)
  <2>1. worker[w].t \in Tasks
    BY <1>16, HasTask DEF MarkRunning, MidIteration, HoldingPcs
  <2> DEFINE r == [task[worker[w].t] EXCEPT !.es = "running"]
  <2>2. r.es = "running" /\ r.lease = task[worker[w].t].lease
    BY <1>0, <2>1 DEF TaskRow
  <2>3. Keeping(w) /\ WriteTask(worker[w].t, r) /\ worker[w].pc = "markrun"
    BY <1>2, <1>16, Moves DEF MarkRunning, HoldingPcs
  <2>4. QED BY <2>2, <2>3 DEF Marks
<1>17. CASE finalizeReminderDelivery(w)
  <2>1. worker[w].t \in Tasks
    BY <1>17, HasTask DEF finalizeReminderDelivery, MidIteration, HoldingPcs
  <2> DEFINE r == [task[worker[w].t] EXCEPT
                     !.rem = None, !.es = "pending", !.lease = "none",
                     !.awaiting = worker[w].snap.awaiting, !.did = worker[w].snap.did]
  <2>2. r.es = "pending" /\ r.lease = "none"
    BY <1>0, <2>1 DEF TaskRow
  <2>3. LettingGo(w) /\ WriteTask(worker[w].t, r) /\ worker[w].pc = "remindfin"
    BY <1>2, <1>17, Moves DEF finalizeReminderDelivery, HoldingPcs
  <2> HIDE DEF r
  <2>4. QED BY <2>2, <2>3 DEF LetsGo
<1>18. CASE AwaitAck(w)
  <2>1. worker[w].t \in Tasks
    BY <1>18, HasTask DEF AwaitAck, MidIteration, HoldingPcs
  <2> DEFINE r == [task[worker[w].t] EXCEPT
                     !.es = "waiting_input", !.lease = "held",
                     !.sched = worker[w].snap.sched,
                     !.awaiting = TRUE, !.did = worker[w].did]
  <2>2. r.es = "waiting_input" /\ r.lease = "held"
    BY <1>0, <2>1 DEF TaskRow
  <2>3. LettingGo(w) /\ WriteTask(worker[w].t, r) /\ worker[w].pc = "wait"
    BY <1>2, <1>18, Moves DEF AwaitAck, HoldingPcs
  <2> HIDE DEF r
  <2>4. QED BY <2>2, <2>3 DEF LetsGo
<1>19. CASE applyRunResult(w)
  <2>1. worker[w].t \in Tasks
    BY <1>19, HasTask DEF applyRunResult, MidIteration, HoldingPcs
  <2> DEFINE out == worker[w].out
             snap == worker[w].snap
             r == [task[worker[w].t] EXCEPT
                     !.es = out.es, !.lease = "none",
                     !.sched = IF out.clear THEN None ELSE snap.sched,
                     !.awaiting = snap.awaiting, !.did = snap.did]
  <2>2. r.es = out.es /\ r.lease = "none"
    BY <1>0, <2>1 DEF TaskRow
  <2>3. worker[w].out.es \in {"completed", "failed", "blocked"}
    BY <1>0 DEF WorkerRec, Outcomes
  <2>4. LettingGo(w) /\ WriteTask(worker[w].t, r) /\ worker[w].pc = "apply"
    BY <1>2, <1>19, Moves DEF applyRunResult, HoldingPcs
  <2> HIDE DEF r
  <2>5. QED BY <2>2, <2>3, <2>4 DEF LetsGo
<1>20. CASE EndTick(w)
  BY <1>0, <1>2, <1>20, Moves DEF EndTick, Leaves, HoldingPcs, rowVars
<1>21. QED
  BY <1>3, <1>4, <1>5, <1>6, <1>7, <1>8, <1>9, <1>10, <1>11, <1>12, <1>13, <1>14,
     <1>15, <1>16, <1>17, <1>18, <1>19, <1>20
  DEF TickStep

Others(w) == \A v \in Workers \ {w} : worker'[v] = worker[v]

Patching == \E p \in Patches : PatchStep(p)

\* All steps: a replica's, a lease that runs out, an acknowledgement, a PATCH.
StepEffect ==
    \/ \E w \in Workers : TickEffect(w) /\ Others(w)
    \/ \E t \in Tasks : LeaseExpires(t)
    \/ UNCHANGED <<task, worker>>
    \/ /\ \E a \in Agents, d \in DispatchIds : acknowledge(a, d)
       /\ UNCHANGED worker
    \/ Patching /\ UNCHANGED worker

LEMMA StepEffects ==
    ASSUME TypeInv, [Next]_vars
    PROVE  StepEffect
<1>1. ASSUME NEW w \in Workers, TickStep(w)
      PROVE  StepEffect
  BY <1>1, TickEffects, OthersStay DEF StepEffect, Others
<1>2. ASSUME NEW w \in Workers, StartTick(w) \/ Crash(w) \/ LockLost(w)
      PROVE  StepEffect
  <2>1. Others(w)
    BY <1>2, OthersStay DEF Others
  <2>2. UNCHANGED task
    BY <1>2 DEF StartTick, Crash, LockLost, rowVars
  <2>3. \A r : SetWorker(w, r) => worker'[w] = r
    BY DEF TypeInv, WorkerInv, SetWorker
  <2>4. Keeping(w) \/ LettingGo(w)
    <3>1. CASE StartTick(w)
      <4>1. [IdleWorker EXCEPT !.pc = "recover", !.now = clock].pc = "recover"
        BY DEF IdleWorker
      <4>2. worker[w].pc = "idle" /\ worker'[w].pc = "recover"
        BY <2>3, <3>1, <4>1 DEF StartTick, At
      <4>3. QED BY <4>2 DEF Keeping, Holds, HoldingPcs
    <3>2. CASE Crash(w)
      <4>1. worker'[w].pc = "idle"
        BY <2>3, <3>2 DEF Crash, ReleaseLeader, IdleWorker
      <4>2. QED BY <4>1 DEF LettingGo, Holds, HoldingPcs
    <3>3. CASE LockLost(w)
      BY <3>3 DEF LockLost, Keeping, Holds
    <3>4. QED BY <1>2, <3>1, <3>2, <3>3
  <2>5. QED BY <2>1, <2>2, <2>4 DEF StepEffect, TickEffect, Leaves
<1>3. ASSUME NEW a \in Agents, NEW d \in DispatchIds, AckStep(a, d), UNCHANGED engineVars
      PROVE  StepEffect
  <2>1. acknowledge(a, d) \/ UNCHANGED task
    BY <1>3
    DEF AckStep, ReceiveDispatch, LoseDispatch, ExecuteAction, ReceiveAnswer,
        LoseExchange, FailHandler, RestartExecutor, applyClientAck,
        MarkAcknowledged, ReadAckedTask, rowVars
  <2>2. QED BY <1>3, <2>1 DEF StepEffect, engineVars
<1>4. CASE ClockTick \/ Patching \/ UNCHANGED vars
  BY <1>4, PatchLeaves DEF StepEffect, ClockTick, Patching, engineVars, vars
<1>5. ASSUME NEW t \in Tasks, LeaseExpires(t)
      PROVE  StepEffect
  BY <1>5 DEF StepEffect
<1>6. QED
  BY <1>1, <1>2, <1>3, <1>4, <1>5 DEF Next, EngineStep, Patching

\* What a lease that runs out changes.
LEMMA Expires ==
    ASSUME TypeInv, NEW t \in Tasks, LeaseExpires(t)
    PROVE  /\ task[t].lease = "held" /\ task'[t].lease = "expired"
           /\ task'[t].es = task[t].es
           /\ \A u \in Tasks \ {t} : task'[u] = task[u]
           /\ \A w \in Workers :
                /\ \A u : Holds(w, u)' <=> Holds(w, u)
                /\ worker'[w].pc = worker[w].pc /\ worker'[w].t = worker[w].t
                /\ worker'[w].out = worker[w].out
                /\ worker'[w].late <=> Holds(w, t) \/ worker[w].late
<1>1. /\ \A u \in Tasks : task[u] \in TaskRow
      /\ task \in [Tasks -> TaskRow]
      /\ \A w \in Workers : worker[w] \in WorkerRec
  BY DEF TypeInv, TaskInv, WorkerInv
<1>2. /\ [task[t] EXCEPT !.lease = "expired"].lease = "expired"
      /\ [task[t] EXCEPT !.lease = "expired"].es = task[t].es
  BY <1>1 DEF TaskRow
<1>3. \A w \in Workers : /\ [worker[w] EXCEPT !.late = TRUE].late = TRUE
                         /\ [worker[w] EXCEPT !.late = TRUE].pc = worker[w].pc
                         /\ [worker[w] EXCEPT !.late = TRUE].t = worker[w].t
                         /\ [worker[w] EXCEPT !.late = TRUE].out = worker[w].out
  BY <1>1 DEF WorkerRec
<1>4. \A w \in Workers :
        worker'[w] = IF Holds(w, t) THEN [worker[w] EXCEPT !.late = TRUE] ELSE worker[w]
  BY DEF LeaseExpires
<1>5. \A w \in Workers :
        /\ worker'[w].pc = worker[w].pc /\ worker'[w].t = worker[w].t
        /\ worker'[w].out = worker[w].out
        /\ worker'[w].late <=> Holds(w, t) \/ worker[w].late
  BY <1>3, <1>4
<1>6. \A w \in Workers : \A u : Holds(w, u)' <=> Holds(w, u)
  BY <1>5 DEF Holds
<1>7. QED BY <1>1, <1>2, <1>5, <1>6 DEF LeaseExpires, WriteTask

-----------------------------------------------------------------------------
(***************************************************************************)
(* Part 2: one leader.  While MySQL keeps its lock only the leader ticks.  *)
(***************************************************************************)
Solo == \A w \in Workers : worker[w].pc # "idle" => leader = w

LEMMA TickKeepsLock ==
    ASSUME NEW w \in Workers, TickStep(w)
    PROVE  worker[w].pc # "idle" /\ (leader' = leader \/ ReleaseLeader(w))
<1>1. CASE InsertDispatch(w) \/ EndTick(w)
  BY <1>1 DEF InsertDispatch, EndTick, At
<1>2. CASE \/ recoverExpiredLeases(w) \/ ScanAckWaits(w) \/ NextAckWait(w)
           \/ markTimedOutRead(w) \/ markTimedOutWrite(w) \/ FailAckWait(w)
           \/ SelectApprovalGated(w) \/ promoteApprovalGated(w)
           \/ SelectReminder(w) \/ tryClaimForReminder(w) \/ ReadReminder(w)
           \/ deliver(w) \/ finalizeReminderDelivery(w)
           \/ SelectScheduled(w) \/ tryClaimForScheduled(w)
  BY <1>2
  DEF recoverExpiredLeases, ScanAckWaits, NextAckWait, markTimedOutRead,
      markTimedOutWrite, FailAckWait, SelectApprovalGated, promoteApprovalGated,
      SelectReminder, tryClaimForReminder, ReadReminder, deliver,
      finalizeReminderDelivery, SelectScheduled, tryClaimForScheduled, At, SameLock
<1>3. CASE \/ MarkRunning(w) \/ ReadRunning(w) \/ PerformRoute(w)
           \/ RefuseRoute(w) \/ BeginExternal(w) \/ FindDispatch(w)
           \/ EmitDispatch(w) \/ AwaitAck(w) \/ applyRunResult(w)
  BY <1>3
  DEF MarkRunning, ReadRunning, PerformRoute, RefuseRoute, BeginExternal,
      FindDispatch, EmitDispatch, AwaitAck, applyRunResult, At, SameLock
<1>4. QED BY <1>1, <1>2, <1>3 DEF TickStep

LEMMA NextSolo ==
    ASSUME drops' = 0, TypeInv, Solo, [Next]_vars
    PROVE  Solo'
<1>1. ASSUME NEW w \in Workers, TickStep(w)
      PROVE  Solo'
  <2>1. leader = w /\ \A v \in Workers \ {w} : worker'[v] = worker[v]
    BY <1>1, TickKeepsLock, OthersStay DEF Solo
  <2>2. \A v \in Workers \ {w} : worker'[v].pc = "idle"
    BY <2>1 DEF Solo
  <2>3. CASE leader' = leader
    BY <2>1, <2>2, <2>3 DEF Solo
  <2>4. CASE ReleaseLeader(w)
    <3>1. worker'[w].pc = "idle"
      BY <2>4, Moves DEF IdleWorker
    <3>2. QED BY <2>2, <3>1 DEF Solo
  <2>5. QED BY <1>1, <2>3, <2>4, TickKeepsLock
<1>2. ASSUME NEW w \in Workers, StartTick(w) \/ Crash(w) \/ LockLost(w)
      PROVE  Solo'
  <2>1. \A v \in Workers \ {w} : worker'[v] = worker[v]
    BY <1>2, OthersStay
  <2>2. CASE StartTick(w)
    <3>1. \A v \in Workers : worker[v].pc = "idle"
      BY <2>2, EngineAssumption DEF StartTick, Solo
    <3>2. QED BY <2>1, <2>2, <3>1 DEF StartTick, Solo
  <2>3. CASE Crash(w)
    <3>1. leader = w
      BY <2>3 DEF Crash, Solo
    <3>2. worker'[w].pc = "idle"
      BY <2>3, Moves DEF Crash, IdleWorker
    <3>3. QED BY <2>1, <3>1, <3>2 DEF Solo
  <2>4. ~LockLost(w)
    BY EngineAssumption DEF LockLost, TypeInv, CountersInv
  <2>5. QED BY <1>2, <2>2, <2>3, <2>4
<1>3. ASSUME NEW t \in Tasks, LeaseExpires(t)
      PROVE  Solo'
  BY <1>3, Expires DEF LeaseExpires, SameLock, Solo
<1>4. CASE UNCHANGED <<leader, worker>>
  BY <1>4 DEF Solo
<1>5. QED
  BY <1>1, <1>2, <1>3, <1>4, PatchLeaves
  DEF Next, EngineStep, ClockTick, engineVars, vars

LEMMA InitSolo == Init => Solo
BY DEF Init, EngineInit, Solo, IdleWorker

\* A replica that is at a statement is alone.
LEMMA Alone ==
    ASSUME Solo, NEW w \in Workers, worker[w].pc # "idle"
    PROVE  \A v \in Workers \ {w} : \A t : ~Holds(v, t)
BY DEF Solo, Holds, HoldingPcs

\* A PATCH that takes a step is not new any more.
LEMMA NextUnpatched ==
    ASSUME TypeInv, [Next]_vars, Unpatched'
    PROVE  Unpatched /\ ~Patching
<1>1. ASSUME NEW p \in Patches, PatchStep(p)
      PROVE  ~PatchAt(p, "new")'
  <2>1. /\ patch \in [Patches -> PatchRec]
        /\ \A r : SetPatch(p, r) => patch'[p] = r
    BY DEF TypeInv, PatchInv, SetPatch
  <2>2. CASE PatchFind(p)
    BY <2>1, <2>2 DEF PatchFind, PatchAt, PatchRec
  <2>3. ASSUME NEW t \in Tasks, PatchRead(p, t)
        PROVE  ~PatchAt(p, "new")'
    BY <2>1, <2>3 DEF PatchRead, PatchAt, NewPatch
  <2>4. CASE PatchSave(p)
    BY <2>4, SaveEnds DEF PatchAt
  <2>5. QED BY <1>1, <2>2, <2>3, <2>4 DEF PatchStep
<1>2. ~Patching
  BY <1>1 DEF Patching, Unpatched
<1>3. UNCHANGED patch
  BY <1>2 DEF Next, vars, Patching
<1>4. QED BY <1>2, <1>3 DEF Unpatched, PatchAt

\* Lost locks are counted, PATCHes leave their records: neither is forgotten.
LEMMA CountsOnlyGrow ==
    ASSUME TypeInv, [Next]_vars
    PROVE  /\ drops' = 0 => drops = 0
           /\ Undisturbed' => Undisturbed
<1>1. drops \in Nat
  BY EngineAssumption DEF TypeInv, CountersInv
<1>2. ASSUME NEW w \in Workers, TickStep(w)
      PROVE  drops' = drops
  <2>1. SameLock => drops' = drops
    BY DEF SameLock
  <2>2. NoBudget => drops' = drops
    BY DEF NoBudget
  <2>3. CASE \/ recoverExpiredLeases(w) \/ ScanAckWaits(w) \/ NextAckWait(w)
             \/ markTimedOutRead(w) \/ markTimedOutWrite(w) \/ FailAckWait(w)
             \/ SelectApprovalGated(w) \/ promoteApprovalGated(w)
             \/ SelectReminder(w) \/ tryClaimForReminder(w) \/ ReadReminder(w)
             \/ deliver(w) \/ finalizeReminderDelivery(w)
    BY <2>1, <2>3
    DEF recoverExpiredLeases, ScanAckWaits, NextAckWait, markTimedOutRead,
        markTimedOutWrite, FailAckWait, SelectApprovalGated, promoteApprovalGated,
        SelectReminder, tryClaimForReminder, ReadReminder, deliver,
        finalizeReminderDelivery
  <2>4. CASE \/ SelectScheduled(w) \/ tryClaimForScheduled(w) \/ MarkRunning(w)
             \/ ReadRunning(w) \/ PerformRoute(w) \/ RefuseRoute(w)
             \/ BeginExternal(w) \/ FindDispatch(w) \/ EmitDispatch(w)
             \/ AwaitAck(w) \/ applyRunResult(w)
    BY <2>1, <2>4
    DEF SelectScheduled, tryClaimForScheduled, MarkRunning, ReadRunning,
        PerformRoute, RefuseRoute, BeginExternal, FindDispatch, EmitDispatch,
        AwaitAck, applyRunResult
  <2>5. CASE InsertDispatch(w) \/ EndTick(w)
    BY <2>2, <2>5 DEF InsertDispatch, EndTick
  <2>6. QED BY <1>2, <2>3, <2>4, <2>5 DEF TickStep
<1>3. drops' = drops \/ drops' = drops + 1
  BY <1>2, PatchLeaves
  DEF Next, EngineStep, StartTick, Crash, LockLost, LeaseExpires, ClockTick, NoBudget,
      SameLock, engineVars, vars
<1>4. QED BY <1>1, <1>3, NextUnpatched DEF Undisturbed

\* What the environment keeps: one leader.
LockInv == drops = 0 => Solo

LEMMA NextLock ==
    ASSUME TypeInv, LockInv, [Next]_vars
    PROVE  /\ LockInv'
           /\ drops' = 0 => Solo /\ Solo'
           /\ Undisturbed' => Undisturbed /\ Solo /\ Solo' /\ ~Patching
<1>1. drops' = 0 => Solo /\ Solo'
  BY CountsOnlyGrow, NextSolo DEF LockInv
<1>2. Undisturbed' => drops' = 0 /\ ~Patching
  BY NextUnpatched DEF Undisturbed
<1>3. QED BY <1>1, <1>2, CountsOnlyGrow DEF LockInv

LEMMA InitLock == Init => LockInv /\ Undisturbed
BY InitSolo
DEF Init, EngineInit, LockInv, Undisturbed, Unpatched, PatchAt, NewPatch

\* An answered dispatch stays answered.
LEMMA UnansweredBefore ==
    ASSUME TypeInv, [Next]_vars, NEW t, Unanswered(t)'
    PROVE  Unanswered(t)
BY RowsStay DEF Unanswered

\* An acknowledgement that comes to the task's row has been recorded before.
LEMMA AckIsRecorded ==
    ASSUME TypeInv, AcceptanceInv, NEW a \in Agents, NEW d \in DispatchIds,
           acknowledge(a, d)
    PROVE  d \in Rows /\ ~Unanswered(disp[d].task)
<1>1. d \in Rows
  BY DEF acknowledge, JobAt, TypeInv, JobInv, GoodJob
<1>2. disp[d].status # "awaiting_client_ack"
  BY DEF acknowledge, JobAt, Answered, AcceptanceInv
<1>3. QED BY <1>1, <1>2 DEF Unanswered

-----------------------------------------------------------------------------
(***************************************************************************)
(* Part 3: under one leader a claim is kept until its replica lets go.     *)
(***************************************************************************)
\* While a worker holds a task no scan picks it up again, not even a worker
\* that is past its lease.
HeldIsNotScanned ==
    Undisturbed =>
        \A w \in Workers, t \in Tasks :
            Holds(w, t) => task[t].es \notin EligibleStates

HeldInv == LockInv /\ HeldIsNotScanned

\* An acknowledgement waits or ends: it never makes a task due.
LEMMA Acks ==
    ASSUME TypeInv, NEW a \in Agents, NEW d \in DispatchIds, acknowledge(a, d)
    PROVE  /\ disp[d].task \in Tasks
           /\ \E r : /\ WriteTask(disp[d].task, r)
                     /\ r.es \in {"waiting_input", "completed", "failed"}
                     /\ r.lease \in {"none", "held"}
                     /\ r.due = task[disp[d].task].due
                     /\ r.rem = task[disp[d].task].rem
                     /\ task[disp[d].task].sched = None => r.sched = None
           /\ d \in Rows
<1>0. d \in Rows
  BY DEF acknowledge, JobAt, TypeInv, JobInv, GoodJob
<1>1. disp[d] \in DispatchRow
  BY <1>0 DEF Rows, TypeInv, DispInv
<1> DEFINE t == disp[d].task
           r == [task[t] EXCEPT !.did = job[a][d].did]
<1> DEFINE r1 == [r EXCEPT !.es = "waiting_input", !.lease = "held", !.awaiting = TRUE]
           r2 == [r EXCEPT !.es = "completed", !.lease = "none",
                           !.awaiting = FALSE, !.sched = None]
           r3 == [r EXCEPT !.es = "failed", !.lease = "none", !.awaiting = FALSE]
<1>3. task[t] \in TaskRow
  BY <1>1 DEF TypeInv, TaskInv, DispatchRow
<1>4. /\ r1.es = "waiting_input" /\ r1.lease = "held"
      /\ r2.es = "completed" /\ r2.lease = "none"
      /\ r3.es = "failed" /\ r3.lease = "none"
      /\ \A x \in {r1, r2, r3} :
            /\ x.due = task[t].due /\ x.rem = task[t].rem
            /\ task[t].sched = None => x.sched = None
  BY <1>3 DEF TaskRow
<1>5. WriteTask(t, r1) \/ WriteTask(t, r2) \/ WriteTask(t, r3)
  BY DEF acknowledge, WriteTask
<1> HIDE DEF r1, r2, r3
<1>6. disp[d].task \in Tasks
  BY <1>1 DEF DispatchRow
<1>7. PICK x \in {r1, r2, r3} : WriteTask(t, x)
  BY <1>5
<1>8. /\ x.es \in {"waiting_input", "completed", "failed"}
      /\ x.lease \in {"none", "held"} /\ x.due = task[t].due /\ x.rem = task[t].rem
      /\ task[t].sched = None => x.sched = None
  BY <1>4, <1>7
<1> HIDE DEF t
<1>9. QED BY <1>0, <1>6, <1>7, <1>8 DEF t

LEMMA Disjoint ==
    /\ ClaimedStates \cap EligibleStates = {}
    /\ TerminalStates \cap EligibleStates = {}
    /\ TerminalStates \cap ClaimedStates = {}
    /\ {"waiting_input", "waiting_approval"} \cap
           (EligibleStates \cup ClaimedStates \cup TerminalStates) = {}
    /\ "pending" \in EligibleStates /\ "running" \in ClaimedStates
    /\ {"completed", "failed", "blocked"} \subseteq TerminalStates
BY DEF ClaimedStates, EligibleStates, TerminalStates

\* The row that a statement writes, and the others.
LEMMA Written ==
    ASSUME TypeInv, NEW t \in Tasks, NEW r, WriteTask(t, r)
    PROVE  task'[t] = r /\ \A u \in Tasks \ {t} : task'[u] = task[u]
BY DEF TypeInv, TaskInv, WriteTask

\* Who holds what after the step of a replica that is alone.
LEMMA Holders ==
    ASSUME Solo, NEW w \in Workers, worker[w].pc # "idle", Others(w)
    PROVE  \A v \in Workers \ {w} : \A t : ~Holds(v, t) /\ ~Holds(v, t)'
<1>1. \A v \in Workers \ {w} : \A t : Holds(v, t)' <=> Holds(v, t)
  BY DEF Others, Holds
<1>2. QED BY <1>1, Alone

\* The task of a step, and who is at it.
LEMMA Working ==
    ASSUME TypeInv, NEW w \in Workers,
           GivesUp(w) \/ Pauses(w) \/ Takes(w) \/ Marks(w) \/ LetsGo(w)
    PROVE  worker[w].pc # "idle" /\ worker[w].t \in Tasks
<1>1. worker[w].pc \in MidIteration \cup {"ackfail"}
  BY DEF GivesUp, Pauses, Takes, Marks, LetsGo, At, MidIteration, HoldingPcs
<1>2. QED BY <1>1, HasTask DEF MidIteration, HoldingPcs

LEMMA NextHeld ==
    ASSUME TypeInv, HeldInv, [Next]_vars
    PROVE  HeldInv'
<1>0. SUFFICES ASSUME Undisturbed', NEW v \in Workers, NEW t \in Tasks, Holds(v, t)'
               PROVE  task'[t].es \notin EligibleStates
  BY NextLock DEF HeldInv, HeldIsNotScanned
<1>1. /\ Solo /\ ~Patching
      /\ \A w \in Workers, u \in Tasks : Holds(w, u) => task[u].es \notin EligibleStates
  BY <1>0, NextLock DEF HeldInv, HeldIsNotScanned
<1>2. Holds(v, t)'
  BY <1>0
<1>3. ASSUME NEW w \in Workers, TickEffect(w), Others(w)
      PROVE  task'[t].es \notin EligibleStates
  <2>1. CASE Leaves(w)
    <3>1. Holds(v, t)
      BY <1>2, <1>3, <2>1 DEF Leaves, Keeping, LettingGo, Others, Holds
    <3>2. QED BY <1>1, <2>1, <3>1 DEF Leaves
  <2>2. CASE Recovers(w)
    <3>1. worker[w].pc = "recover"
      BY <2>2 DEF Recovers, recoverExpiredLeases, At
    <3>2. ~Holds(w, t)'
      BY <2>2, <3>1 DEF Recovers, Keeping, Holds, HoldingPcs
    <3>3. QED BY <1>2, <1>3, <3>1, <3>2, <1>1, Holders
  <2>3. CASE GivesUp(w) \/ Pauses(w) \/ LetsGo(w)
    <3>1. ~Holds(w, t)'
      BY <2>3 DEF GivesUp, Pauses, LetsGo, LettingGo, Keeping, Holds, HoldingPcs, At
    <3>2. QED BY <1>2, <1>3, <2>3, <3>1, <1>1, Holders, Working
  <2>4. CASE Takes(w) \/ Marks(w)
    <3>1. v = w
      BY <1>2, <1>3, <2>4, <1>1, Holders, Working
    <3>2. t = worker[w].t
      BY <1>2, <2>4, <3>1 DEF Takes, Taking, Marks, Keeping, Holds
    <3>3. task'[t].es \in ClaimedStates
      BY <2>4, <3>2, Written, Disjoint DEF Takes, Marks
    <3>4. QED BY <3>3, Disjoint
  <2>5. QED BY <1>3, <2>1, <2>2, <2>3, <2>4 DEF TickEffect
<1>4. ASSUME NEW u \in Tasks, LeaseExpires(u)
      PROVE  task'[t].es \notin EligibleStates
  BY <1>1, <1>2, <1>4, Expires
<1>5. CASE UNCHANGED <<task, worker>>
  BY <1>1, <1>2, <1>5 DEF Holds
<1>6. ASSUME NEW a \in Agents, NEW d \in DispatchIds, acknowledge(a, d), UNCHANGED worker
      PROVE  task'[t].es \notin EligibleStates
  <2>1. Holds(v, t)
    BY <1>2, <1>6 DEF Holds
  <2>2. PICK u \in Tasks : \E r :
           WriteTask(u, r) /\ r.es \in {"waiting_input", "completed", "failed"}
    BY <1>6, Acks
  <2>3. PICK r : WriteTask(u, r) /\ r.es \in {"waiting_input", "completed", "failed"}
    BY <2>2
  <2>4. QED BY <1>1, <2>1, <2>3, Written, Disjoint
<1>7. QED BY <1>1, <1>3, <1>4, <1>5, <1>6, StepEffects DEF StepEffect

\* Until MySQL drops a leader's lock or a user patches a task, no scan picks up a
\* task that a replica holds, over crashes, leases that run out under it and
\* acknowledgements of any age.
THEOREM Held == Spec => []HeldIsNotScanned
<1>1. Init => HeldInv
  BY InitLock
  DEF Init, EngineInit, HeldInv, HeldIsNotScanned, Holds, HoldingPcs, IdleWorker
<1>2. HeldInv => HeldIsNotScanned
  BY DEF HeldInv
<1>3. TypeInv /\ HeldInv /\ [Next]_vars => HeldInv'
  BY NextHeld
<1>4. QED BY <1>1, <1>2, <1>3, InitTypes, NextTypes, PTL DEF Spec

-----------------------------------------------------------------------------
(***************************************************************************)
(* Part 4: leases without a leader.  Any number of leaders may tick at     *)
(* once.  What makes a task due again while a replica works on it is the   *)
(* final write of a reminder by id; without reminders only the recovery    *)
(* does, and it asks for a lease that is over.                             *)
(***************************************************************************)
Undated(t) == task[t].rem = None /\ task[t].due = None
RemindPcs == {"remindcas", "remindread", "deliver", "remindfin"}
NoReminder(t) ==
    /\ Undated(t)
    /\ \A w \in Workers : worker[w].t = t => worker[w].pc \notin RemindPcs

\* No statement writes due_at; reminder_at is cleared when a reminder has been
\* delivered, scheduled_for is written where an execution ends.
LEMMA TickDates ==
    ASSUME TypeInv, NEW w \in Workers, TickStep(w), NEW t \in Tasks
    PROVE  /\ task'[t].due = task[t].due
           /\ \/ task'[t].rem = task[t].rem
              \/ At(w, "remindfin") /\ task'[t].rem = None
           /\ At(w, "remindfin") /\ t = worker[w].t => task'[t].rem = None
           /\ \/ task'[t].sched = task[t].sched
              \/ worker[w].pc \in {"wait", "apply"} /\ t = worker[w].t
<1> DEFINE Kept(r, u) == r.due = task[u].due /\ r.rem = task[u].rem /\ r.sched = task[u].sched
<1>0. /\ \A u \in Tasks : task[u] \in TaskRow
      /\ \A u \in Tasks : u = worker[w].t => task[u] = task[worker[w].t]
  BY DEF TypeInv, TaskInv
<1> DEFINE u == worker[w].t
<1>1. SUFFICES
        \/ /\ ~At(w, "remindfin")
           /\ \A v \in Tasks : Kept(task'[v], v)
        \/ /\ ~At(w, "remindfin") /\ u \in Tasks
           /\ \E r : WriteTask(u, r) /\ Kept(r, u)
        \/ /\ At(w, "remindfin") /\ u \in Tasks
           /\ \E r : /\ WriteTask(u, r) /\ r.rem = None
                     /\ r.due = task[u].due /\ r.sched = task[u].sched
        \/ /\ worker[w].pc \in {"wait", "apply"} /\ u \in Tasks
           /\ \E r : WriteTask(u, r) /\ r.due = task[u].due /\ r.rem = task[u].rem
  BY Written DEF At
<1>2. CASE recoverExpiredLeases(w)
  <2>1. \A v \in Tasks : Kept([task[v] EXCEPT !.es = "pending", !.lease = "none"], v)
    BY <1>0 DEF TaskRow
  <2>2. QED BY <1>0, <1>2, <2>1 DEF recoverExpiredLeases, At
<1>3. CASE FailAckWait(w)
  <2> DEFINE r == [task[u] EXCEPT !.es = "failed", !.lease = "none",
                                  !.awaiting = FALSE, !.did = worker[w].did]
  <2>1. u \in Tasks /\ WriteTask(u, r) /\ ~At(w, "remindfin")
    BY <1>3, HasTask DEF FailAckWait, At
  <2>2. Kept(r, u)
    BY <1>0, <2>1 DEF TaskRow
  <2> HIDE DEF r
  <2>3. QED BY <2>1, <2>2
<1>4. CASE promoteApprovalGated(w)
  <2> DEFINE r == [task[u] EXCEPT !.es = "waiting_approval", !.lease = "none"]
  <2>1. u \in Tasks /\ (WriteTask(u, r) \/ UNCHANGED task) /\ ~At(w, "remindfin")
    BY <1>4, HasTask DEF promoteApprovalGated, At, MidIteration
  <2>2. Kept(r, u)
    BY <1>0, <2>1 DEF TaskRow
  <2> HIDE DEF r
  <2>3. QED BY <2>1, <2>2
<1>5. CASE tryClaimForReminder(w) \/ tryClaimForScheduled(w)
  <2> DEFINE r(es) == [task[u] EXCEPT !.es = es, !.lease = "held"]
  <2>1. /\ u \in Tasks /\ ~At(w, "remindfin")
        /\ \/ WriteTask(u, r("running"))
           \/ WriteTask(u, r("dispatched"))
           \/ UNCHANGED task
    BY <1>5, HasTask DEF tryClaimForReminder, tryClaimForScheduled, At, MidIteration
  <2>2. \A es : Kept(r(es), u)
    BY <1>0, <2>1 DEF TaskRow
  <2> HIDE DEF r
  <2>3. QED BY <2>1, <2>2
<1>6. CASE finalizeReminderDelivery(w)
  <2> DEFINE r == [task[u] EXCEPT
                     !.rem = None, !.es = "pending", !.lease = "none",
                     !.awaiting = worker[w].snap.awaiting, !.did = worker[w].snap.did]
  <2>1. u \in Tasks /\ WriteTask(u, r) /\ At(w, "remindfin")
    BY <1>6, HasTask DEF finalizeReminderDelivery, At, MidIteration, HoldingPcs
  <2>2. r.rem = None /\ r.due = task[u].due /\ r.sched = task[u].sched
    BY <1>0, <2>1 DEF TaskRow
  <2> HIDE DEF r
  <2>3. QED BY <2>1, <2>2
<1>7. CASE MarkRunning(w)
  <2> DEFINE r == [task[u] EXCEPT !.es = "running"]
  <2>1. u \in Tasks /\ WriteTask(u, r) /\ ~At(w, "remindfin")
    BY <1>7, HasTask DEF MarkRunning, At, MidIteration, HoldingPcs
  <2>2. Kept(r, u)
    BY <1>0, <2>1 DEF TaskRow
  <2> HIDE DEF r
  <2>3. QED BY <2>1, <2>2
<1>8. CASE AwaitAck(w)
  <2> DEFINE r == [task[u] EXCEPT
                     !.es = "waiting_input", !.lease = "held",
                     !.sched = worker[w].snap.sched,
                     !.awaiting = TRUE, !.did = worker[w].did]
  <2>1. u \in Tasks /\ WriteTask(u, r) /\ worker[w].pc = "wait"
    BY <1>8, HasTask DEF AwaitAck, At, MidIteration, HoldingPcs
  <2>2. r.rem = task[u].rem /\ r.due = task[u].due
    BY <1>0, <2>1 DEF TaskRow
  <2> HIDE DEF r
  <2>3. QED BY <2>1, <2>2
<1>9. CASE applyRunResult(w)
  <2> DEFINE out == worker[w].out
             snap == worker[w].snap
             r == [task[u] EXCEPT
                     !.es = out.es, !.lease = "none",
                     !.sched = IF out.clear THEN None ELSE snap.sched,
                     !.awaiting = snap.awaiting, !.did = snap.did]
  <2>1. u \in Tasks /\ WriteTask(u, r) /\ worker[w].pc = "apply"
    BY <1>9, HasTask DEF applyRunResult, At, MidIteration, HoldingPcs
  <2>2. r.rem = task[u].rem /\ r.due = task[u].due
    BY <1>0, <2>1 DEF TaskRow
  <2> HIDE DEF r
  <2>3. QED BY <2>1, <2>2
<1>10. CASE UNCHANGED task /\ ~At(w, "remindfin")
  BY <1>10
<1>11. QED
  BY <1>2, <1>3, <1>4, <1>5, <1>6, <1>7, <1>8, <1>9, <1>10
  DEF TickStep, ScanAckWaits, NextAckWait, markTimedOutRead, markTimedOutWrite,
      SelectApprovalGated, SelectReminder, ReadReminder, deliver, SelectScheduled,
      ReadRunning, PerformRoute, RefuseRoute, BeginExternal, FindDispatch,
      InsertDispatch, EmitDispatch, EndTick, rowVars, OnlyDisp, At

\* A replica comes to a statement of a reminder from a reminder that is due.
LEMMA TickReminds ==
    ASSUME TypeInv, NEW t \in Tasks, NoReminder(t), NEW w \in Workers, TickStep(w)
    PROVE  worker'[w].t = t => worker'[w].pc \notin RemindPcs
<1>0. /\ worker[w] \in WorkerRec
      /\ \A r : SetWorker(w, r) => worker'[w] = r
      /\ worker[w].t = t => worker[w].pc \notin RemindPcs
  BY Facts DEF GoodWorker, TypeInv, WorkerInv, SetWorker, NoReminder
<1>1. \A now : t \notin ReminderRows(now)
  BY DEF ReminderRows, ReminderDue, Passed, NoReminder, Undated
<1>2. CASE SelectReminder(w)
  <2>1. CASE EnterLoop(w, "sched")
    BY <2>1, Moves DEF RemindPcs
  <2>2. ASSUME NEW u \in FirstReminder(ReminderRows(worker[w].now)),
               Pick(w, u, "remindcas")
        PROVE  worker'[w].t # t
    <3>1. u # t
      BY <1>1 DEF FirstReminder
    <3>2. worker'[w].t = u
      BY <1>0, <2>2 DEF Pick, WorkerRec
    <3>3. QED BY <3>1, <3>2
  <2>3. QED BY <1>2, <2>1, <2>2 DEF SelectReminder
<1>3. CASE NextAckWait(w) \/ ScanAckWaits(w) \/ FailAckWait(w)
  <2>1. worker'[w].pc \in {"promote", "ackfail", "markread", "ackrow"}
    <3>1. CASE EnterLoop(w, "promote")
      BY <3>1, Moves
    <3>3. ASSUME NEW e, SetWorker(w, [worker[w] EXCEPT
                            !.pc = IF e[2] = None THEN "ackfail" ELSE "markread",
                            !.todo = @ \ {e}, !.t = e[1], !.did = e[2]])
          PROVE  worker'[w].pc \in {"ackfail", "markread"}
      <4> DEFINE pc == IF e[2] = None THEN "ackfail" ELSE "markread"
                 S == worker[w].todo \ {e}
      <4>0. pc \in {"ackfail", "markread"}
        OBVIOUS
      <4> HIDE DEF pc, S
      <4>1. SetWorker(w, [worker[w] EXCEPT !.pc = pc, !.todo = S, !.t = e[1], !.did = e[2]])
        BY <3>3 DEF pc, S
      <4>2. [worker[w] EXCEPT !.pc = pc, !.todo = S, !.t = e[1], !.did = e[2]].pc = pc
        BY <1>0 DEF WorkerRec
      <4>3. QED BY <1>0, <4>0, <4>1, <4>2
    <3>4. CASE NextAckWait(w)
      <4>1. \/ EnterLoop(w, "promote")
            \/ \E e \in worker[w].todo :
                 SetWorker(w, [worker[w] EXCEPT
                     !.pc = IF e[2] = None THEN "ackfail" ELSE "markread",
                     !.todo = @ \ {e}, !.t = e[1], !.did = e[2]])
        BY <3>4 DEF NextAckWait
      <4>2. QED BY <3>1, <3>3, <4>1
    <3>5. CASE ScanAckWaits(w) \/ FailAckWait(w)
      <4>1. worker'[w].pc = "ackrow"
        BY <1>0, <3>5 DEF ScanAckWaits, FailAckWait, WorkerRec
      <4>2. QED BY <4>1
    <3>6. QED BY <1>3, <3>4, <3>5
  <2>2. QED BY <2>1 DEF RemindPcs
<1>4. CASE \/ tryClaimForReminder(w) \/ ReadReminder(w) \/ deliver(w)
           \/ finalizeReminderDelivery(w)
  <2>1. worker[w].t # t
    BY <1>0, <1>4
    DEF tryClaimForReminder, ReadReminder, deliver, finalizeReminderDelivery, At, RemindPcs
  <2>2. CASE Claimed(w, "remindread") \/ Goto(w, "remindfin")
    BY <2>1, <2>2, Moves
  <2>3. CASE NextIteration(w, "remind")
    BY <2>3, Moves DEF RemindPcs
  <2>4. CASE ReadReminder(w)
    BY <1>0, <2>1, <2>4 DEF ReadReminder, WorkerRec
  <2>5. QED
    BY <1>4, <2>2, <2>3, <2>4 DEF tryClaimForReminder, deliver, finalizeReminderDelivery
<1>5. CASE \/ recoverExpiredLeases(w) \/ markTimedOutRead(w) \/ markTimedOutWrite(w)
           \/ promoteApprovalGated(w) \/ MarkRunning(w) \/ BeginExternal(w)
           \/ EmitDispatch(w) \/ AwaitAck(w) \/ applyRunResult(w)
  <2>1. \E pc \in {"ackscan", "markwrite", "ackfail", "promote", "readrun", "begin",
                   "wait", "sched"} : Goto(w, pc) \/ NextIteration(w, pc)
    BY <1>5
    DEF recoverExpiredLeases, markTimedOutRead, markTimedOutWrite,
        promoteApprovalGated, MarkRunning, BeginExternal, EmitDispatch, AwaitAck,
        applyRunResult
  <2>2. QED BY <2>1, Moves DEF RemindPcs
<1>6. CASE SelectApprovalGated(w) \/ SelectScheduled(w)
  <2>1. \/ EnterLoop(w, "remind")
        \/ \E u : Pick(w, u, "promotecas") \/ Pick(w, u, "schedcas")
    BY <1>6 DEF SelectApprovalGated, SelectScheduled
  <2>2. QED BY <2>1, Moves DEF RemindPcs
<1>7. CASE tryClaimForScheduled(w)
  BY <1>7, Moves DEF tryClaimForScheduled, RemindPcs
<1>8. CASE ReadRunning(w)
  <2>1. worker'[w].pc = "route"
    BY <1>0, <1>8 DEF ReadRunning, WorkerRec
  <2>2. QED BY <2>1 DEF RemindPcs
<1>9. CASE PerformRoute(w) \/ RefuseRoute(w)
  <2>1. \E es, clear : Finish(w, es, clear)
    BY <1>9 DEF PerformRoute, RefuseRoute
  <2>2. QED BY <2>1, Moves DEF RemindPcs
<1>10. CASE FindDispatch(w)
  <2>1. CASE Finish(w, "blocked", FALSE) \/ Goto(w, "insert")
    <3>1. worker'[w].pc = "apply" \/ worker'[w].pc = "insert"
      BY <2>1, Moves
    <3>2. QED BY <3>1 DEF RemindPcs
  <2>2. ASSUME NEW d, SetWorker(w, [worker[w] EXCEPT !.pc = "wait", !.did = d])
        PROVE  worker'[w].pc \notin RemindPcs
    BY <1>0, <2>2 DEF WorkerRec, RemindPcs
  <2>3. QED BY <1>10, <2>1, <2>2 DEF FindDispatch
<1>11. CASE InsertDispatch(w) \/ EndTick(w)
  <2>1. CASE ReleaseLeader(w)
    BY <2>1, Moves DEF RemindPcs, IdleWorker
  <2>2. ASSUME NEW d, SetWorker(w, [worker[w] EXCEPT !.pc = "emit", !.did = d])
        PROVE  worker'[w].pc \notin RemindPcs
    BY <1>0, <2>2 DEF WorkerRec, RemindPcs
  <2>3. QED BY <1>11, <2>1, <2>2 DEF InsertDispatch, EndTick
<1>12. QED
  BY <1>2, <1>3, <1>4, <1>5, <1>6, <1>7, <1>8, <1>9, <1>10, <1>11 DEF TickStep

LEMMA NextNoReminder ==
    ASSUME TypeInv, ~Patching, NEW t \in Tasks, NoReminder(t), [Next]_vars
    PROVE  NoReminder(t)'
<1>0. task[t] \in TaskRow /\ task[t].rem = None /\ task[t].due = None
  BY DEF TypeInv, TaskInv, NoReminder, Undated
<1>1. ASSUME NEW w \in Workers, TickStep(w)
      PROVE  NoReminder(t)'
  <2>1. Undated(t)'
    BY <1>1, TickDates DEF NoReminder, Undated
  <2>2. QED BY <1>1, <2>1, TickReminds, OthersStay DEF NoReminder
<1>2. ASSUME NEW w \in Workers, StartTick(w) \/ Crash(w) \/ LockLost(w)
      PROVE  NoReminder(t)'
  <2>1. /\ \A v \in Workers \ {w} : worker'[v] = worker[v]
        /\ UNCHANGED task
    BY <1>2, OthersStay DEF StartTick, Crash, LockLost, rowVars
  <2>2. \A r : SetWorker(w, r) => worker'[w] = r
    BY DEF TypeInv, WorkerInv, SetWorker
  <2>3. [IdleWorker EXCEPT !.pc = "recover", !.now = clock].pc = "recover"
    BY DEF IdleWorker
  <2>4. worker'[w].pc \in {"recover", "idle"} \/ worker'[w] = worker[w]
    <3>1. CASE StartTick(w)
      BY <2>2, <2>3, <3>1 DEF StartTick
    <3>2. CASE Crash(w)
      BY <3>2, Moves DEF Crash, IdleWorker
    <3>3. CASE LockLost(w)
      BY <3>3 DEF LockLost
    <3>4. QED BY <1>2, <3>1, <3>2, <3>3
  <2>5. QED BY <2>1, <2>4 DEF NoReminder, Undated, RemindPcs
<1>3. ASSUME NEW u \in Tasks, LeaseExpires(u)
      PROVE  NoReminder(t)'
  <2>1. task[u] \in TaskRow /\ \A w \in Workers : worker[w] \in WorkerRec
    BY DEF TypeInv, TaskInv, WorkerInv
  <2>2. /\ [task[u] EXCEPT !.lease = "expired"].rem = task[u].rem
        /\ [task[u] EXCEPT !.lease = "expired"].due = task[u].due
    BY <2>1 DEF TaskRow
  <2>3. task'[t].rem = None /\ task'[t].due = None
    <3>1. task'[u] = [task[u] EXCEPT !.lease = "expired"] /\ \A v \in Tasks \ {u} : task'[v] = task[v]
      BY <1>3, Written DEF LeaseExpires
    <3>2. task[t].rem = None /\ task[t].due = None
      BY <1>0 DEF NoReminder, Undated
    <3>3. QED BY <2>2, <3>1, <3>2
  <2>4. \A w \in Workers : worker'[w].t = worker[w].t /\ worker'[w].pc = worker[w].pc
    BY <1>3, <2>1 DEF LeaseExpires, WorkerRec
  <2>5. QED BY <2>3, <2>4 DEF NoReminder, Undated
<1>4. ASSUME NEW a \in Agents, NEW d \in DispatchIds, acknowledge(a, d), UNCHANGED worker
      PROVE  NoReminder(t)'
  <2>1. disp[d].task \in Tasks
    BY <1>4 DEF acknowledge, JobAt, TypeInv, JobInv, GoodJob, Rows, DispInv, DispatchRow
  <2> DEFINE u == disp[d].task
             r == [task[u] EXCEPT !.did = job[a][d].did]
             r1 == [r EXCEPT !.es = "waiting_input", !.lease = "held", !.awaiting = TRUE]
             r2 == [r EXCEPT !.es = "completed", !.lease = "none",
                             !.awaiting = FALSE, !.sched = None]
             r3 == [r EXCEPT !.es = "failed", !.lease = "none", !.awaiting = FALSE]
  <2>2. WriteTask(u, r1) \/ WriteTask(u, r2) \/ WriteTask(u, r3)
    BY <1>4 DEF acknowledge, WriteTask
  <2>3. task[u] \in TaskRow
    BY <2>1 DEF TypeInv, TaskInv
  <2>4. /\ r1.rem = task[u].rem /\ r1.due = task[u].due
        /\ r2.rem = task[u].rem /\ r2.due = task[u].due
        /\ r3.rem = task[u].rem /\ r3.due = task[u].due
    BY <2>3 DEF TaskRow
  <2> HIDE DEF u, r1, r2, r3
  <2>5. u \in Tasks
    BY <2>1 DEF u
  <2>6. Undated(t)'
    BY <1>0, <2>2, <2>4, <2>5, Written DEF Undated
  <2>7. QED BY <1>4, <2>6 DEF NoReminder
<1>5. CASE UNCHANGED <<task, worker>>
  BY <1>5 DEF NoReminder, Undated
<1>6. ASSUME NEW a \in Agents, NEW d \in DispatchIds, AckStep(a, d), UNCHANGED engineVars
      PROVE  NoReminder(t)'
  <2>1. UNCHANGED worker
    BY <1>6 DEF engineVars
  <2>2. CASE acknowledge(a, d)
    BY <1>4, <2>1, <2>2
  <2>3. CASE ~acknowledge(a, d)
    <3>1. UNCHANGED rowVars \/ UNCHANGED task
      BY <1>6, <2>3
      DEF AckStep, ReceiveDispatch, LoseDispatch, ExecuteAction, ReceiveAnswer, LoseExchange,
          FailHandler, RestartExecutor, applyClientAck, MarkAcknowledged, ReadAckedTask
    <3>2. UNCHANGED task
      BY <3>1 DEF rowVars
    <3>3. QED BY <1>5, <2>1, <3>2
  <2>4. QED BY <2>2, <2>3
<1>7. CASE EngineStep
  <2>1. ClockTick => UNCHANGED <<task, worker>>
    BY DEF ClockTick, engineVars
  <2>2. QED BY <1>1, <1>2, <1>3, <1>5, <1>7, <2>1 DEF EngineStep
<1>8. CASE UNCHANGED vars
  BY <1>5, <1>8 DEF vars
<1>9. QED BY <1>6, <1>7, <1>8 DEF Next, Patching

\* A replica within its lease works on a task that no other statement takes.
Safe(t) == task[t].es \notin EligibleStates /\ task[t].lease # "expired"

OneHolderOf(t) ==
    Unpatched =>
        \A v, w \in Workers : HoldsLive(v, t) /\ HoldsLive(w, t) => v = w

LiveInv(t) ==
    /\ Unpatched => /\ NoReminder(t)
                    /\ \A v \in Workers : HoldsLive(v, t) => Safe(t)
    /\ OneHolderOf(t)

LEMMA NextLive ==
    ASSUME TypeInv, LockInv, NEW t \in Tasks, LiveInv(t), [Next]_vars
    PROVE  LiveInv(t)'
<1> SUFFICES ASSUME Unpatched'
             PROVE  LiveInv(t)'
  BY DEF LiveInv, OneHolderOf
<1> DEFINE Good == /\ \A v \in Workers : HoldsLive(v, t) => Safe(t)
                   /\ \A v, w \in Workers :
                        HoldsLive(v, t) /\ HoldsLive(w, t) => v = w
<1>1. /\ ~Patching /\ NoReminder(t)'
      /\ \A w \in Workers : worker[w].t = t => worker[w].pc # "remindfin"
      /\ Good
  <2>1. ~Patching /\ Unpatched
    BY NextUnpatched
  <2>2. QED BY <2>1, NextNoReminder DEF LiveInv, OneHolderOf, NoReminder, RemindPcs
<1>2. SUFFICES Good'
  BY <1>1 DEF LiveInv, OneHolderOf
\* A step that makes no replica live and keeps what the live ones work on safe.
<1>3. ASSUME \A v \in Workers : HoldsLive(v, t)' => HoldsLive(v, t) /\ Safe(t)'
      PROVE  Good'
  BY <1>1, <1>3
<1>4. ASSUME NEW w \in Workers, TickEffect(w), Others(w)
      PROVE  Good'
  <2>1. \A v \in Workers \ {w} : HoldsLive(v, t)' <=> HoldsLive(v, t)
    BY <1>4 DEF Others, Holds, HoldsLive
  <2>2. Keeping(w) \/ LettingGo(w) => (HoldsLive(w, t)' => HoldsLive(w, t))
    BY DEF Keeping, LettingGo, HoldsLive
  <2>3. CASE Leaves(w)
    BY <1>1, <1>3, <2>1, <2>2, <2>3 DEF Leaves, Safe
  <2>4. CASE Recovers(w)
    <3>1. Safe(t) => Safe(t)'
      BY <2>4 DEF Recovers, recoverExpiredLeases, Safe
    <3>2. QED BY <1>1, <1>3, <2>1, <2>2, <2>4, <3>1 DEF Recovers
  <2>5. CASE GivesUp(w) \/ Pauses(w) \/ Marks(w) \/ LetsGo(w)
    <3>1. /\ worker[w].t \in Tasks
          /\ t # worker[w].t => task'[t] = task[t]
      BY <2>5, Working, Written DEF GivesUp, Pauses, Marks, LetsGo
    <3>2. t = worker[w].t => task'[t].es \notin EligibleStates
      BY <1>1, <2>5, <3>1, Written, Disjoint DEF GivesUp, Pauses, Marks, LetsGo, At
    <3>3. task'[t].lease # "expired" \/ task'[t].lease = task[t].lease
      BY <2>5, <3>1, Written DEF GivesUp, Pauses, Marks, LetsGo
    <3>4. Safe(t) => Safe(t)'
      BY <3>1, <3>2, <3>3 DEF Safe
    <3>5. QED
      BY <1>1, <1>3, <2>1, <2>2, <2>5, <3>4 DEF GivesUp, Pauses, Marks, LetsGo
  <2>6. CASE Takes(w)
    <3>1. PICK u \in Tasks : u = worker[w].t
      BY <2>6, Working
    <3>2. PICK r : /\ WriteTask(u, r)
                   /\ r.es \in ClaimedStates /\ r.lease = "held"
      BY <2>6, <3>1 DEF Takes
    <3>3. CASE t # u
      <4>1. ~HoldsLive(w, t)'
        BY <2>6, <3>1, <3>3 DEF Takes, Taking, HoldsLive
      <4>2. Safe(t) => Safe(t)'
        BY <3>2, <3>3, Written DEF Safe
      <4>3. QED BY <1>1, <1>3, <2>1, <4>1, <4>2
    <3>4. CASE t = u
      <4>1. Safe(t)'
        BY <3>2, <3>4, Written, Disjoint DEF Safe
      <4>2. \A v \in Workers : ~HoldsLive(v, t)
        BY <1>1, <2>6, <3>1, <3>4 DEF Takes, Safe
      <4>3. QED BY <2>1, <4>1, <4>2
    <3>5. QED BY <3>3, <3>4
  <2>7. QED BY <1>4, <2>3, <2>4, <2>5, <2>6 DEF TickEffect
<1>5. ASSUME NEW u \in Tasks, LeaseExpires(u)
      PROVE  Good'
  <2>1. \A v \in Workers : HoldsLive(v, t)' => HoldsLive(v, t) /\ t # u
    BY <1>5, Expires DEF HoldsLive
  <2>2. t # u => (Safe(t) => Safe(t)')
    BY <1>5, Expires DEF Safe
  <2>3. QED BY <1>1, <1>3, <2>1, <2>2
<1>6. CASE UNCHANGED <<task, worker>>
  BY <1>1, <1>3, <1>6 DEF Holds, HoldsLive, Safe
<1>7. ASSUME NEW a \in Agents, NEW d \in DispatchIds, acknowledge(a, d), UNCHANGED worker
      PROVE  Good'
  <2>1. PICK u \in Tasks : \E r :
           /\ WriteTask(u, r)
           /\ r.es \in {"waiting_input", "completed", "failed"} /\ r.lease \in {"none", "held"}
    BY <1>7, Acks
  <2>2. Safe(t) => Safe(t)'
    BY <2>1, Written, Disjoint DEF Safe
  <2>3. \A v \in Workers : HoldsLive(v, t)' <=> HoldsLive(v, t)
    BY <1>7 DEF Holds, HoldsLive
  <2>4. QED BY <1>1, <1>3, <2>2, <2>3
<1>8. QED BY <1>1, <1>4, <1>5, <1>6, <1>7, StepEffects DEF StepEffect

LEMMA InitLive ==
    ASSUME Init, NEW t \in Tasks, Undated(t)
    PROVE  LiveInv(t)
<1>1. \A w \in Workers : worker[w].pc = "idle"
  BY DEF Init, EngineInit, IdleWorker
<1>2. QED
  BY <1>1 DEF LiveInv, OneHolderOf, NoReminder, RemindPcs, HoldsLive, Holds, HoldingPcs

\* However many leaders' locks MySQL drops and whatever executors answer, no two
\* replicas work on a task within the leases of their claims, until the first
\* PATCH, if the task begins without a reminder and a due date: the other tasks
\* may have them.
THEOREM LiveHolderOf ==
    ASSUME NEW t \in Tasks
    PROVE  Spec /\ Undated(t) => []OneHolderOf(t)
<1>1. Init /\ Undated(t) => LockInv /\ LiveInv(t)
  BY InitLock, InitLive
<1>2. LiveInv(t) => OneHolderOf(t)
  BY DEF LiveInv
<1>3. TypeInv /\ LockInv /\ LiveInv(t) /\ [Next]_vars => LockInv' /\ LiveInv(t)'
  BY NextLive, NextLock
<1>4. QED BY <1>1, <1>2, <1>3, InitTypes, NextTypes, PTL DEF Spec

\* The same of all tasks, where none begins with a reminder or a due date.
THEOREM LiveHolder == Spec /\ (\A t \in Tasks : Undated(t)) => []OneLiveHolder
<1> DEFINE Live == \A t \in Tasks : LiveInv(t)
           NoDates == \A t \in Tasks : Undated(t)
<1>1. Init /\ NoDates => LockInv /\ Live
  BY InitLock, InitLive
<1>2. Live => OneLiveHolder
  BY DEF LiveInv, OneHolderOf, OneLiveHolder
<1>3. TypeInv /\ LockInv /\ Live /\ [Next]_vars => LockInv' /\ Live'
  BY NextLive, NextLock
<1> HIDE DEF Live, NoDates
<1>4. Spec /\ NoDates => []OneLiveHolder
  BY <1>1, <1>2, <1>3, InitTypes, NextTypes, PTL DEF Spec
<1>5. QED BY <1>4 DEF NoDates

-----------------------------------------------------------------------------
(***************************************************************************)
(* Part 5: a claimed task has a lease until it is answered.  An answer may *)
(* end a task under the replica that holds it, and the replica goes on: it *)
(* then marks a task as running that has no lease.                         *)
(***************************************************************************)
InHand(t) ==
    \/ task[t].es \in ClaimedStates
    \/ ~Unanswered(t) /\ task[t].es \in {"waiting_input"} \cup TerminalStates

ClaimOf(t) ==
    /\ Unanswered(t) /\ task[t].es \in ClaimedStates => task[t].lease # "none"
    /\ \A w \in Workers : Holds(w, t) => InHand(t)

ClaimInv ==
    /\ LockInv /\ AcceptanceInv
    /\ Undisturbed => \A t \in Tasks : ClaimOf(t)

LEMMA NextClaim ==
    ASSUME TypeInv, ClaimInv, [Next]_vars
    PROVE  ClaimInv'
<1>1. SUFFICES ASSUME Undisturbed', NEW t \in Tasks
               PROVE  ClaimOf(t)'
  BY NextLock, NextAcceptance DEF ClaimInv
<1>2. /\ Solo /\ ~Patching
      /\ \A u \in Tasks : ClaimOf(u)
      /\ Unanswered(t)' => Unanswered(t)
  BY <1>1, NextLock, UnansweredBefore DEF ClaimInv
\* Steps after which nobody holds the task, which is not claimed now or as before.
<1>3. ASSUME \A v \in Workers : ~Holds(v, t)',
             task'[t].es \in ClaimedStates => task'[t] = task[t]
      PROVE  ClaimOf(t)'
  BY <1>2, <1>3 DEF ClaimOf
<1>4. ASSUME NEW w \in Workers, TickEffect(w), Others(w)
      PROVE  ClaimOf(t)'
  <2>1. CASE Leaves(w)
    <3>1. \A v \in Workers : Holds(v, t)' => Holds(v, t)
      BY <1>4, <2>1 DEF Leaves, Keeping, LettingGo, Others, Holds
    <3>2. QED BY <1>2, <2>1, <3>1 DEF Leaves, ClaimOf, InHand
  <2>2. CASE Recovers(w)
    <3>1. worker[w].pc = "recover"
      BY <2>2 DEF Recovers, recoverExpiredLeases, At
    <3>2. ~Holds(w, t)'
      BY <2>2, <3>1 DEF Recovers, Keeping, Holds, HoldingPcs
    <3>3. \A v \in Workers : ~Holds(v, t)'
      BY <1>2, <1>4, <3>1, <3>2, Holders
    <3>4. /\ task[t] \in TaskRow
          /\ \/ task'[t] = task[t]
             \/ task'[t] = [task[t] EXCEPT !.es = "pending", !.lease = "none"]
      BY <2>2 DEF Recovers, recoverExpiredLeases, TypeInv, TaskInv
    <3>5. [task[t] EXCEPT !.es = "pending", !.lease = "none"].es = "pending"
      BY <3>4 DEF TaskRow
    <3>6. task'[t].es \in ClaimedStates => task'[t] = task[t]
      BY <3>4, <3>5 DEF ClaimedStates
    <3>7. QED BY <1>3, <3>3, <3>6
  <2>3. CASE GivesUp(w) \/ Pauses(w) \/ LetsGo(w)
    <3>1. ~Holds(w, t)'
      BY <2>3 DEF GivesUp, Pauses, LetsGo, LettingGo, Keeping, Holds, HoldingPcs, At
    <3>2. \A v \in Workers : ~Holds(v, t)'
      BY <1>2, <1>4, <2>3, <3>1, Holders, Working
    <3>3. PICK u \in Tasks : u = worker[w].t
      BY <2>3, Working
    <3>4. \E r : /\ WriteTask(u, r)
                 /\ r.es \in {"pending", "waiting_input", "waiting_approval",
                              "completed", "failed", "blocked"}
      BY <2>3, <3>3 DEF GivesUp, Pauses, LetsGo
    <3>5. PICK r : /\ WriteTask(u, r)
                   /\ r.es \in {"pending", "waiting_input", "waiting_approval",
                                "completed", "failed", "blocked"}
      BY <3>4
    <3>6. r.es \notin ClaimedStates
      BY <3>5 DEF ClaimedStates
    <3>7. QED BY <1>3, <3>2, <3>5, <3>6, Written
  <2>4. CASE Takes(w) \/ Marks(w)
    <3>1. PICK u \in Tasks : u = worker[w].t
      BY <2>4, Working
    <3>2. \A v \in Workers : Holds(v, t)' => v = w /\ t = u
      BY <1>2, <1>4, <2>4, <3>1, Holders, Working
      DEF Takes, Taking, Marks, Keeping, Holds
    <3>3. PICK r : /\ WriteTask(u, r) /\ r.es \in ClaimedStates
                   /\ r.lease = "held" \/ (Marks(w) /\ r.lease = task[u].lease)
      BY <2>4, <3>1, Disjoint DEF Takes, Marks
    <3>4. CASE t # u
      BY <1>3, <3>2, <3>3, <3>4, Written
    <3>5. CASE t = u
      <4>1. Marks(w) => Holds(w, t)
        BY <3>1, <3>5 DEF Marks, Holds, At, HoldingPcs
      <4>2. Marks(w) /\ Unanswered(t) => task[t].lease # "none"
        BY <1>2, <4>1 DEF ClaimOf, InHand
      <4>3. task'[t].es \in ClaimedStates /\ (Unanswered(t)' => task'[t].lease # "none")
        BY <1>2, <3>3, <3>5, <4>2, Written
      <4>4. QED BY <4>3 DEF ClaimOf, InHand
    <3>6. QED BY <3>4, <3>5
  <2>5. QED BY <1>4, <2>1, <2>2, <2>3, <2>4 DEF TickEffect
<1>5. ASSUME NEW u \in Tasks, LeaseExpires(u)
      PROVE  ClaimOf(t)'
  <2>1. /\ task'[t].es = task[t].es
        /\ task'[t].lease = task[t].lease \/ task'[t].lease = "expired"
    BY <1>5, Expires
  <2>2. QED BY <1>2, <1>5, <2>1, Expires DEF ClaimOf, InHand
<1>6. CASE UNCHANGED <<task, worker>>
  BY <1>2, <1>6 DEF Holds, ClaimOf, InHand
<1>7. ASSUME NEW a \in Agents, NEW d \in DispatchIds, acknowledge(a, d), UNCHANGED worker
      PROVE  ClaimOf(t)'
  <2>1. PICK r : /\ WriteTask(disp[d].task, r)
                 /\ r.es \in {"waiting_input", "completed", "failed"}
    BY <1>7, Acks
  <2>2. CASE t # disp[d].task
    <3>1. task'[t] = task[t]
      BY <1>7, <2>1, <2>2, Acks, Written
    <3>2. QED BY <1>2, <1>7, <3>1 DEF Holds, ClaimOf, InHand
  <2>3. CASE t = disp[d].task
    <3>1. ~Unanswered(t)'
      BY <1>2, <1>7, <2>3, AckIsRecorded DEF ClaimInv
    <3>2. task'[t].es \in {"waiting_input", "completed", "failed"}
      BY <2>1, <2>3, Written
    <3>3. QED BY <3>1, <3>2, Disjoint DEF ClaimOf, InHand
  <2>4. QED BY <2>2, <2>3
<1>8. QED BY <1>2, <1>4, <1>5, <1>6, <1>7, StepEffects DEF StepEffect

LEMMA InitClaim == Init => ClaimInv
<1> SUFFICES ASSUME Init PROVE ClaimInv
  OBVIOUS
<1>1. \A t \in Tasks : task[t].es = "idle"
  BY DEF Init, RowsInit, createTask
<1>2. \A w \in Workers : worker[w].pc = "idle"
  BY DEF Init, EngineInit, IdleWorker
<1>3. AcceptanceInv
  BY DEF Init, AckInit, AcceptanceInv, Answered, IdleJob
<1>4. QED
  BY <1>1, <1>2, <1>3, InitLock DEF ClaimInv, ClaimOf, ClaimedStates, Holds, HoldingPcs

\* Until MySQL drops a leader's lock, a user patches a task or the task itself is
\* answered, a claimed task always carries the lease by which a later tick
\* releases it, over crashes and leases that run out under their replica.
THEOREM ClaimLease == Spec => []ClaimIsLeased
<1>1. ClaimInv => ClaimIsLeased
  BY DEF ClaimInv, ClaimOf, ClaimIsLeased
<1>2. TypeInv /\ ClaimInv /\ [Next]_vars => ClaimInv'
  BY NextClaim
<1>3. QED BY <1>1, <1>2, InitClaim, InitTypes, NextTypes, PTL DEF Spec

-----------------------------------------------------------------------------
(***************************************************************************)
(* Part 6: the waits that a tick is about to fail.  It reads their ids in  *)
(* one statement and writes them one by one, by id: what they have become  *)
(* since is not asked.                                                     *)
(***************************************************************************)
AckPcs == {"markread", "markwrite", "ackfail"}
WaitPcs == AckPcs \cup {"ackrow"}
Awaits(w, t) ==
    \/ worker[w].pc \in WaitPcs /\ \E e \in worker[w].todo : e[1] = t
    \/ worker[w].pc \in AckPcs /\ worker[w].t = t

\* What a statement does to them.
Lists(w) ==
    /\ At(w, "ackscan") /\ worker'[w].pc = "ackrow" /\ UNCHANGED task
    /\ worker'[w].todo = {<<t, task[t].did>> : t \in ExpiredWaits}
PicksWait(w) ==
    /\ At(w, "ackrow") /\ worker'[w].pc \in AckPcs /\ UNCHANGED task
    /\ \E e \in worker[w].todo :
         worker'[w].todo = worker[w].todo \ {e} /\ worker'[w].t = e[1]
KeepsWait(w) ==
    /\ worker[w].pc \in AckPcs /\ worker'[w].pc \in AckPcs
    /\ worker'[w].t = worker[w].t /\ worker'[w].todo = worker[w].todo
Fails(w) ==
    /\ At(w, "ackfail") /\ worker'[w].pc = "ackrow"
    /\ worker'[w].todo = worker[w].todo
Drops(w) == worker'[w].pc \notin WaitPcs
TodoEffect(w) == Lists(w) \/ PicksWait(w) \/ KeepsWait(w) \/ Fails(w) \/ Drops(w)

LEMMA TodoEffects ==
    ASSUME TypeInv, NEW w \in Workers, TickStep(w)
    PROVE  TodoEffect(w)
<1>0. /\ worker[w] \in WorkerRec
      /\ \A r : SetWorker(w, r) => worker'[w] = r
  BY Facts DEF GoodWorker, TypeInv, WorkerInv, SetWorker
<1>1. CASE ScanAckWaits(w)
  <2>1. \A S : LET r == [worker[w] EXCEPT !.pc = "ackrow", !.todo = S]
               IN  r.pc = "ackrow" /\ r.todo = S
    BY <1>0 DEF WorkerRec
  <2>2. QED BY <1>0, <1>1, <2>1 DEF ScanAckWaits, TodoEffect, Lists, rowVars
<1>2. CASE NextAckWait(w)
  <2>1. CASE EnterLoop(w, "promote")
    <3>1. worker'[w].pc = "promote"
      BY <2>1, Moves
    <3>2. QED BY <3>1 DEF TodoEffect, Drops, WaitPcs, AckPcs
  <2>2. ASSUME NEW e \in worker[w].todo,
               SetWorker(w, [worker[w] EXCEPT
                   !.pc = IF e[2] = None THEN "ackfail" ELSE "markread",
                   !.todo = @ \ {e}, !.t = e[1], !.did = e[2]])
        PROVE  TodoEffect(w)
    <3> DEFINE pc == IF e[2] = None THEN "ackfail" ELSE "markread"
               S == worker[w].todo \ {e}
               r == [worker[w] EXCEPT !.pc = pc, !.todo = S, !.t = e[1], !.did = e[2]]
    <3>1. r.pc = pc /\ r.todo = S /\ r.t = e[1]
      BY <1>0 DEF WorkerRec
    <3>2. worker'[w] = r
      BY <1>0, <2>2
    <3>3. pc \in AckPcs
      BY DEF AckPcs
    <3> HIDE DEF pc, r
    <3>4. QED BY <1>2, <3>1, <3>2, <3>3 DEF NextAckWait, rowVars, TodoEffect, PicksWait
  <2>3. QED BY <1>2, <2>1, <2>2 DEF NextAckWait
<1>3. CASE markTimedOutRead(w) \/ markTimedOutWrite(w)
  <2>1. worker[w].pc \in AckPcs /\ \E pc \in AckPcs : Goto(w, pc)
    BY <1>3 DEF markTimedOutRead, markTimedOutWrite, At, AckPcs
  <2>2. PICK pc \in AckPcs : Goto(w, pc)
    BY <2>1
  <2>3. worker'[w].todo = worker[w].todo
    BY <1>0, <2>2 DEF Goto, WorkerRec
  <2>4. QED BY <2>1, <2>2, <2>3, Moves DEF TodoEffect, KeepsWait
<1>4. CASE FailAckWait(w)
  BY <1>0, <1>4 DEF FailAckWait, WorkerRec, TodoEffect, Fails
\* No other statement begins or ends at one of these.
<1>5. SUFFICES ASSUME ~ScanAckWaits(w), ~NextAckWait(w), ~markTimedOutRead(w),
                      ~markTimedOutWrite(w), ~FailAckWait(w)
               PROVE  worker'[w].pc \notin WaitPcs
  BY <1>1, <1>2, <1>3, <1>4 DEF TodoEffect, Drops
<1>6. CASE \/ recoverExpiredLeases(w) \/ SelectApprovalGated(w) \/ promoteApprovalGated(w)
           \/ SelectReminder(w) \/ tryClaimForReminder(w) \/ deliver(w)
           \/ finalizeReminderDelivery(w) \/ SelectScheduled(w)
           \/ tryClaimForScheduled(w) \/ MarkRunning(w) \/ BeginExternal(w)
           \/ EmitDispatch(w) \/ AwaitAck(w) \/ applyRunResult(w) \/ EndTick(w)
  <2>1. \/ \E pc \in Pcs \ WaitPcs : \/ Goto(w, pc) \/ NextIteration(w, pc)
                                     \/ EnterLoop(w, pc) \/ Claimed(w, pc)
                                     \/ \E t : Pick(w, t, pc)
        \/ ReleaseLeader(w)
    <3>1. {"ackscan", "promote", "promotecas", "remind", "remindcas", "remindread",
           "remindfin", "sched", "schedcas", "markrun", "readrun", "begin", "wait"}
            \subseteq Pcs \ WaitPcs
      BY DEF Pcs, WaitPcs, AckPcs
    <3>2. CASE SelectApprovalGated(w) \/ SelectReminder(w) \/ SelectScheduled(w)
      BY <3>1, <3>2 DEF SelectApprovalGated, SelectReminder, SelectScheduled
    <3>3. CASE \/ recoverExpiredLeases(w) \/ promoteApprovalGated(w) \/ deliver(w)
               \/ finalizeReminderDelivery(w)
      BY <3>1, <3>3
      DEF recoverExpiredLeases, promoteApprovalGated, deliver, finalizeReminderDelivery
    <3>4. CASE tryClaimForReminder(w) \/ tryClaimForScheduled(w)
      BY <3>1, <3>4 DEF tryClaimForReminder, tryClaimForScheduled
    <3>5. CASE MarkRunning(w) \/ BeginExternal(w) \/ EmitDispatch(w) \/ AwaitAck(w)
      BY <3>1, <3>5 DEF MarkRunning, BeginExternal, EmitDispatch, AwaitAck
    <3>6. CASE applyRunResult(w) \/ EndTick(w)
      BY <3>1, <3>6 DEF applyRunResult, EndTick
    <3>7. QED BY <1>6, <3>2, <3>3, <3>4, <3>5, <3>6
  <2>2. worker'[w].pc = "idle" \/ worker'[w].pc \in Pcs \ WaitPcs
    BY <2>1, Moves DEF IdleWorker
  <2>3. QED BY <2>2 DEF WaitPcs, AckPcs
<1>7. CASE ReadReminder(w) \/ ReadRunning(w)
  <2>1. worker'[w].pc \in {"deliver", "route"}
    BY <1>0, <1>7 DEF ReadReminder, ReadRunning, WorkerRec
  <2>2. QED BY <2>1 DEF WaitPcs, AckPcs
<1>8. CASE PerformRoute(w) \/ RefuseRoute(w)
  <2>1. \E es, clear : Finish(w, es, clear)
    BY <1>8 DEF PerformRoute, RefuseRoute
  <2>2. worker'[w].pc = "apply"
    BY <2>1, Moves
  <2>3. QED BY <2>2 DEF WaitPcs, AckPcs
<1>9. CASE FindDispatch(w) \/ InsertDispatch(w)
  <2>1. \/ Finish(w, "blocked", FALSE) \/ Goto(w, "insert") \/ ReleaseLeader(w)
        \/ \E d : \/ SetWorker(w, [worker[w] EXCEPT !.pc = "wait", !.did = d])
                  \/ SetWorker(w, [worker[w] EXCEPT !.pc = "emit", !.did = d])
    BY <1>9 DEF FindDispatch, InsertDispatch
  <2>2. worker'[w].pc \in {"apply", "insert", "idle", "wait", "emit"}
    <3>1. CASE Finish(w, "blocked", FALSE) \/ Goto(w, "insert")
      <4>1. worker'[w].pc = "apply" \/ worker'[w].pc = "insert"
        BY <3>1, Moves
      <4>2. QED BY <4>1
    <3>2. CASE ReleaseLeader(w)
      BY <3>2, Moves DEF IdleWorker
    <3>3. ASSUME NEW d, \/ SetWorker(w, [worker[w] EXCEPT !.pc = "wait", !.did = d])
                        \/ SetWorker(w, [worker[w] EXCEPT !.pc = "emit", !.did = d])
          PROVE  worker'[w].pc = "wait" \/ worker'[w].pc = "emit"
      BY <1>0, <3>3 DEF WorkerRec
    <3>4. QED BY <2>1, <3>1, <3>2, <3>3
  <2>3. QED BY <2>2 DEF WaitPcs, AckPcs
<1>10. QED BY <1>5, <1>6, <1>7, <1>8, <1>9 DEF TickStep

Same(w) == /\ worker'[w].pc = worker[w].pc /\ worker'[w].t = worker[w].t
           /\ worker'[w].todo = worker[w].todo

LEMMA NextTodo ==
    ASSUME TypeInv, [Next]_vars, NEW w \in Workers
    PROVE  TodoEffect(w) \/ Same(w)
<1>1. ASSUME NEW v \in Workers \ {w},
             TickStep(v) \/ StartTick(v) \/ Crash(v) \/ LockLost(v)
      PROVE  Same(w)
  BY <1>1, OthersStay DEF Same
<1>2. CASE LockLost(w)
  BY <1>2 DEF LockLost, Same
<1>3. CASE StartTick(w)
  <2>1. \A r : SetWorker(w, r) => worker'[w] = r
    BY DEF TypeInv, WorkerInv, SetWorker
  <2>2. [IdleWorker EXCEPT !.pc = "recover", !.now = clock].pc = "recover"
    BY DEF IdleWorker
  <2>3. worker'[w].pc = "recover"
    BY <1>3, <2>1, <2>2 DEF StartTick
  <2>4. QED BY <2>3 DEF TodoEffect, Drops, WaitPcs, AckPcs
<1>4. CASE Crash(w)
  <2>1. worker'[w].pc = "idle"
    BY <1>4, Moves DEF Crash, IdleWorker
  <2>2. QED BY <2>1 DEF TodoEffect, Drops, WaitPcs, AckPcs
<1>5. ASSUME NEW u \in Tasks, LeaseExpires(u)
      PROVE  Same(w)
  <2>1. worker[w] \in WorkerRec
    BY DEF TypeInv, WorkerInv
  <2>2. /\ [worker[w] EXCEPT !.late = TRUE].todo = worker[w].todo
        /\ [worker[w] EXCEPT !.late = TRUE].pc = worker[w].pc
        /\ [worker[w] EXCEPT !.late = TRUE].t = worker[w].t
    BY <2>1 DEF WorkerRec
  <2>3. QED BY <1>5, <2>2 DEF LeaseExpires, Same
<1>6. CASE UNCHANGED worker
  BY <1>6 DEF Same
<1>7. QED
  BY <1>1, <1>2, <1>3, <1>4, <1>5, <1>6, TodoEffects, PatchLeaves
  DEF Next, EngineStep, ClockTick, engineVars, vars

\* A task comes to be failed because a tick has just read that it waits.
LEMMA NextAwaits ==
    ASSUME TypeInv, [Next]_vars, NEW w \in Workers, NEW t \in Tasks, Awaits(w, t)'
    PROVE  \/ Awaits(w, t)
           \/ task[t].es = "waiting_input" /\ UNCHANGED task
<1>1. CASE Lists(w)
  BY <1>1 DEF Lists, Awaits, ExpiredWaits, WaitPcs, AckPcs
<1>2. CASE PicksWait(w)
  BY <1>2 DEF PicksWait, Awaits, At, WaitPcs
<1>3. CASE KeepsWait(w)
  BY <1>3 DEF KeepsWait, Awaits, WaitPcs
<1>4. CASE Fails(w)
  BY <1>4 DEF Fails, Awaits, At, WaitPcs, AckPcs
<1>5. CASE Drops(w)
  BY <1>5 DEF Drops, Awaits, WaitPcs
<1>6. CASE Same(w)
  BY <1>6 DEF Same, Awaits
<1>7. QED BY <1>1, <1>2, <1>3, <1>4, <1>5, <1>6, NextTodo DEF TodoEffect

-----------------------------------------------------------------------------
(***************************************************************************)
(* Part 7: a pause for approval is final.  Most statements write by id, so *)
(* what protects a paused task is that no replica has it in its hands: it  *)
(* is neither held nor in a list of waits to fail.                         *)
(***************************************************************************)
Paused(t) == task[t].es = "waiting_approval"

PauseInv ==
    /\ LockInv /\ AcceptanceInv
    /\ drops = 0 =>
         \A w \in Workers, t \in Tasks :
            Unanswered(t) /\ (Holds(w, t) \/ Awaits(w, t)) =>
                ~Paused(t) \/ Repaused(t)

\* Statements of a tick neither end a pause nor, but for one, begin one.
LEMMA TickKeepsPause ==
    ASSUME drops = 0, TypeInv, PauseInv, NEW w \in Workers, TickEffect(w),
           NEW t \in Tasks, Unanswered(t), ~Repaused(t)
    PROVE  /\ Paused(t) => Paused(t)'
           /\ Paused(t)' => Paused(t) \/ Pauses(w)
<1>1. CASE Leaves(w)
  BY <1>1 DEF Leaves, Paused
<1>2. CASE Recovers(w)
  <2>1. /\ task[t] \in TaskRow
        /\ \/ task'[t] = task[t]
           \/ /\ task[t].es \in ClaimedStates
              /\ task'[t] = [task[t] EXCEPT !.es = "pending", !.lease = "none"]
    BY <1>2 DEF Recovers, recoverExpiredLeases, TypeInv, TaskInv
  <2>2. [task[t] EXCEPT !.es = "pending", !.lease = "none"].es = "pending"
    BY <2>1 DEF TaskRow
  <2>3. QED BY <2>1, <2>2 DEF Paused, ClaimedStates
<1>3. CASE GivesUp(w) \/ Pauses(w) \/ Takes(w) \/ Marks(w) \/ LetsGo(w)
  <2>1. PICK u \in Tasks : u = worker[w].t
    BY <1>3, Working
  <2>2. CASE t # u
    <3>1. task'[t] = task[t]
      BY <1>3, <2>1, <2>2, Written DEF GivesUp, Pauses, Takes, Marks, LetsGo
    <3>2. QED BY <3>1 DEF Paused
  <2>3. CASE t = u /\ Pauses(w)
    BY <2>1, <2>3, Disjoint DEF Pauses, Paused
  <2>4. CASE t = u /\ ~Pauses(w)
    <3>1. ~Paused(t)
      <4>1. CASE GivesUp(w)
        <5>1. Awaits(w, t)
          BY <2>1, <2>4, <4>1 DEF GivesUp, At, Awaits, AckPcs
        <5>2. QED BY <5>1 DEF PauseInv
      <4>2. CASE Takes(w)
        BY <2>1, <2>4, <4>2, Disjoint DEF Takes, Paused
      <4>3. CASE Marks(w) \/ LetsGo(w)
        <5>1. Holds(w, t)
          BY <2>1, <2>4, <4>3 DEF Marks, LetsGo, At, Holds, HoldingPcs
        <5>2. QED BY <5>1 DEF PauseInv
      <4>4. QED BY <1>3, <2>4, <4>1, <4>2, <4>3
    <3>2. \E r : WriteTask(t, r) /\ r.es # "waiting_approval"
      BY <1>3, <2>1, <2>4, Disjoint DEF GivesUp, Takes, Marks, LetsGo
    <3>3. QED BY <3>1, <3>2, Written DEF Paused
  <2>5. QED BY <2>2, <2>3, <2>4
<1>4. QED BY <1>1, <1>2, <1>3 DEF TickEffect

\* What a PATCH does to a pause: it ends or begins one by its save() alone,
\* and that it began one stays on record.
LEMMA PatchPauses ==
    ASSUME TypeInv, [Next]_vars, Patching, NEW t \in Tasks
    PROVE  \/ task'[t] = task[t]
           \/ Saved(t) /\ (Paused(t)' => Paused(t) \/ Repaused(t)')
<1>0. PICK p \in Patches : PatchStep(p)
  BY DEF Patching
<1>1. CASE UNCHANGED task
  BY <1>1
<1>2. CASE PatchSave(p)
  <2>1. PICK asked \in PatchStates \cup {None}, row \in TaskRow :
          SavesAs(p, asked, row)
    BY <1>2, SaveEffect
  <2>2. CASE t # patch[p].t
    BY <2>1, <2>2 DEF SavesAs, WriteTask, TypeInv, TaskInv
  <2>3. CASE t = patch[p].t
    <3>1. Saved(t)
      BY <1>2, <2>3, SaveEnds DEF Saved, PatchSave
    <3>2. task'[t] = row
      BY <2>1, <2>3 DEF SavesAs, WriteTask, TypeInv, TaskInv
    <3>3. /\ patch'[p].pc = "done" /\ patch'[p].t = t
          /\ patch'[p].paused = /\ row.es = "waiting_approval"
                                /\ task[t].es # "waiting_approval"
      BY <2>1, <2>3 DEF SavesAs, NewPatch, TypeInv, PatchInv
    <3>4. row.es = "waiting_approval" /\ task[t].es # "waiting_approval"
            => Repaused(t)'
      BY <3>3 DEF Repaused, PatchAt
    <3>5. QED BY <3>1, <3>2, <3>4 DEF Paused
  <2>4. QED BY <2>2, <2>3
<1>3. QED
  BY <1>0, <1>1, <1>2 DEF PatchStep, PatchRead, PatchFind, rowVars

\* The record of a PATCH that began a pause stays.
LEMMA PausesStay ==
    ASSUME TypeInv, [Next]_vars
    PROVE  \A t : Repaused(t) => Repaused(t)'
BY LogStays DEF Repaused, PatchAt

LEMMA EndsPause ==
    ASSUME drops' = 0, TypeInv, PauseInv, [Next]_vars,
           NEW t \in Tasks, Paused(t), Unanswered(t), ~Repaused(t)
    PROVE  Paused(t)' \/ Saved(t)
<1>0. drops = 0
  BY CountsOnlyGrow
<1>1. ASSUME NEW w \in Workers, TickEffect(w)
      PROVE  Paused(t)'
  BY <1>0, <1>1, TickKeepsPause
<1>2. ASSUME NEW u \in Tasks, LeaseExpires(u)
      PROVE  Paused(t)'
  <2>1. task'[t].es = task[t].es
    BY <1>2, Expires
  <2>2. QED BY <2>1 DEF Paused
<1>3. CASE UNCHANGED <<task, worker>>
  BY <1>3 DEF Paused
<1>4. ASSUME NEW a \in Agents, NEW d \in DispatchIds, acknowledge(a, d)
      PROVE  Paused(t)'
  <2>1. t # disp[d].task
    BY <1>4, AckIsRecorded DEF PauseInv
  <2>2. task'[t] = task[t]
    BY <1>4, <2>1, Acks, Written
  <2>3. QED BY <2>2 DEF Paused
<1>5. CASE Patching
  BY <1>5, PatchPauses DEF Paused
<1>6. QED BY <1>1, <1>2, <1>3, <1>4, <1>5, StepEffects DEF StepEffect

LEMMA NextPause ==
    ASSUME TypeInv, PauseInv, [Next]_vars
    PROVE  PauseInv'
<1>1. LockInv' /\ AcceptanceInv'
  BY NextLock, NextAcceptance DEF PauseInv
<1>2. ASSUME drops' = 0, NEW v \in Workers, NEW t \in Tasks, Unanswered(t)',
             Holds(v, t)' \/ Awaits(v, t)', Paused(t)', ~Repaused(t)'
      PROVE  FALSE
  <2>0. /\ drops = 0 /\ Solo /\ Unanswered(t) /\ ~Repaused(t)
        /\ \A w \in Workers : Holds(w, t) \/ Awaits(w, t) => ~Paused(t)
    BY <1>2, CountsOnlyGrow, NextLock, UnansweredBefore, PausesStay DEF PauseInv
  <2>1. ASSUME NEW w \in Workers, TickEffect(w), Others(w)
        PROVE  FALSE
    <3>1. Paused(t) \/ Pauses(w)
      BY <1>2, <2>0, <2>1, TickKeepsPause
    <3>2. CASE Pauses(w)
      <4>1. worker[w].pc # "idle" /\ worker'[w].pc = "promote"
        BY <3>2 DEF Pauses, At
      <4>2. v = w
        <5>1. SUFFICES ASSUME v # w PROVE FALSE
          OBVIOUS
        <5>2. worker'[v].pc = "idle"
          BY <2>0, <2>1, <4>1, <5>1 DEF Solo, Others
        <5>3. QED BY <1>2, <5>2 DEF Holds, HoldingPcs, Awaits, WaitPcs, AckPcs
      <4>3. QED BY <1>2, <4>1, <4>2 DEF Holds, HoldingPcs, Awaits, WaitPcs, AckPcs
    <3>3. CASE Paused(t) /\ Holds(v, t)'
      <4>1. ~Holds(v, t)
        BY <2>0, <3>3
      <4>2. v = w /\ Takes(w) /\ t = worker[w].t
        BY <2>1, <3>3, <4>1
        DEF Others, Holds, TickEffect, Recovers, GivesUp, Pauses, Takes, Taking,
            Marks, LetsGo, LettingGo, Leaves, Keeping
      <4>3. QED BY <3>3, <4>2, Disjoint DEF Takes, Paused
    <3>4. CASE Paused(t) /\ Awaits(v, t)'
      <4>1. task[t].es = "waiting_input"
        BY <2>0, <3>4, NextAwaits
      <4>2. QED BY <3>4, <4>1 DEF Paused
    <3>5. QED BY <1>2, <3>1, <3>2, <3>3, <3>4
  <2>2. ASSUME NEW u \in Tasks, LeaseExpires(u)
        PROVE  FALSE
    <3>1. Paused(t) /\ (Holds(v, t)' => Holds(v, t))
      BY <1>2, <2>2, Expires DEF Paused
    <3>2. Awaits(v, t)'
      BY <1>2, <2>0, <3>1
    <3>3. task[t].es = "waiting_input"
      BY <2>0, <3>1, <3>2, NextAwaits
    <3>4. QED BY <3>1, <3>3 DEF Paused
  <2>3. CASE UNCHANGED <<task, worker>>
    BY <1>2, <2>0, <2>3 DEF Holds, Awaits, Paused
  <2>4. CASE UNCHANGED worker /\ \E a \in Agents, d \in DispatchIds : acknowledge(a, d)
    <3>1. PICK a \in Agents, d \in DispatchIds : acknowledge(a, d)
      BY <2>4
    <3>2. t # disp[d].task
      BY <2>0, <3>1, AckIsRecorded DEF PauseInv
    <3>3. Paused(t)' <=> Paused(t)
      BY <3>1, <3>2, Acks, Written DEF Paused
    <3>4. QED BY <1>2, <2>0, <2>4, <3>3 DEF Holds, Awaits
  <2>5. CASE Patching /\ UNCHANGED worker
    <3>1. ~Paused(t)
      BY <1>2, <2>0, <2>5 DEF Holds, Awaits
    <3>2. QED BY <1>2, <2>5, <3>1, PatchPauses DEF Paused
  <2>6. QED BY <2>1, <2>2, <2>3, <2>4, <2>5, StepEffects DEF StepEffect
<1>3. QED BY <1>1, <1>2 DEF PauseInv

\* While MySQL keeps the leader's lock, a task that the engine has paused for
\* approval and that no executor has answered stays paused until a save() of a
\* PATCH of this task, whatever requests of users overlap the ticks and
\* whatever crashes.  A pause that a PATCH itself began, asked to or with an
\* old row, may be over a claim and end with the claim.
THEOREM PauseIsFinal == Spec => ApprovalPauseIsFinal
<1>1. Init => PauseInv
  <2> SUFFICES ASSUME Init PROVE PauseInv
    OBVIOUS
  <2>1. \A w \in Workers : worker[w].pc = "idle"
    BY DEF Init, EngineInit, IdleWorker
  <2>3. AcceptanceInv
    BY InitClaim DEF ClaimInv
  <2>4. QED
    BY <2>1, <2>3, InitLock
    DEF PauseInv, Holds, HoldingPcs, Awaits, WaitPcs, AckPcs
<1>2. TypeInv /\ PauseInv /\ [Next]_vars => PauseInv'
  BY NextPause
<1>3. TypeInv /\ PauseInv /\ [Next]_vars =>
        [drops' = 0 =>
           \A t \in Tasks :
              task[t].es = "waiting_approval" /\ Unanswered(t) /\ ~Repaused(t)
                => task'[t].es = "waiting_approval" \/ Saved(t)]_vars
  BY EndsPause DEF Paused
<1>4. QED BY <1>1, <1>2, <1>3, InitTypes, NextTypes, PTL DEF Spec, ApprovalPauseIsFinal

-----------------------------------------------------------------------------
(***************************************************************************)
(* Part 8: the two sides of an execution, that of a reminder and that of a *)
(* schedule, and the tasks that have dispatches.                           *)
(***************************************************************************)
RemindSide == {"remindread", "deliver", "remindfin"}
SchedSide == HoldingPcs \ RemindSide

LEMMA TickSides ==
    ASSUME TypeInv, NEW w \in Workers, TickStep(w)
    PROVE  /\ worker'[w].pc \in RemindSide =>
                \/ worker[w].pc \in RemindSide \ {"remindfin"}
                \/ At(w, "remindcas") /\ CanClaimReminder(worker[w].t, worker[w].now)
           /\ worker'[w].pc \in SchedSide =>
                \/ worker[w].pc \in SchedSide \ {"wait", "apply"}
                \/ At(w, "schedcas") /\ CanClaimScheduled(worker[w].t, worker[w].now)
<1> USE DEF RemindSide, SchedSide, HoldingPcs, At
<1>0. /\ worker[w] \in WorkerRec
      /\ \A r : SetWorker(w, r) => worker'[w] = r
  BY Facts DEF GoodWorker, TypeInv, WorkerInv, SetWorker
\* Statements that leave a side, or never were on one.
<1> DEFINE Away == worker'[w].pc \notin HoldingPcs
<1>1. SUFFICES ASSUME ~Away
               PROVE  \/ /\ worker'[w].pc \in RemindSide
                         /\ \/ worker[w].pc \in RemindSide \ {"remindfin"}
                            \/ /\ At(w, "remindcas")
                               /\ CanClaimReminder(worker[w].t, worker[w].now)
                      \/ /\ worker'[w].pc \in SchedSide
                         /\ \/ worker[w].pc \in SchedSide \ {"wait", "apply"}
                            \/ /\ At(w, "schedcas")
                               /\ CanClaimScheduled(worker[w].t, worker[w].now)
  OBVIOUS
<1>3. CASE tryClaimForReminder(w)
  <2>1. CASE Claimed(w, "remindread") /\ CanClaimReminder(worker[w].t, worker[w].now)
    BY <1>3, <2>1, Moves DEF tryClaimForReminder
  <2>2. CASE NextIteration(w, "remind")
    BY <1>1, <2>2, Moves
  <2>3. QED BY <1>3, <2>1, <2>2 DEF tryClaimForReminder
<1>4. CASE tryClaimForScheduled(w)
  <2>1. CASE Claimed(w, "markrun") /\ CanClaimScheduled(worker[w].t, worker[w].now)
    BY <1>4, <2>1, Moves DEF tryClaimForScheduled
  <2>2. CASE NextIteration(w, "sched")
    BY <1>1, <2>2, Moves
  <2>3. QED BY <1>4, <2>1, <2>2 DEF tryClaimForScheduled
<1>5. CASE ReadReminder(w) \/ ReadRunning(w)
  <2>1. CASE ReadReminder(w)
    <3>1. worker[w].pc = "remindread" /\ worker'[w].pc = "deliver"
      BY <1>0, <2>1 DEF ReadReminder, WorkerRec
    <3>2. QED BY <3>1
  <2>2. CASE ReadRunning(w)
    <3>1. worker[w].pc = "readrun" /\ worker'[w].pc = "route"
      BY <1>0, <2>2 DEF ReadRunning, WorkerRec
    <3>2. QED BY <3>1
  <2>3. QED BY <1>5, <2>1, <2>2
<1>6. CASE deliver(w) \/ MarkRunning(w) \/ BeginExternal(w) \/ EmitDispatch(w)
  <2>1. /\ worker[w].pc \in {"deliver", "markrun", "route", "emit"}
        /\ \/ At(w, "deliver") /\ Goto(w, "remindfin")
           \/ ~At(w, "deliver") /\ \E pc \in {"readrun", "begin", "wait"} : Goto(w, pc)
    BY <1>6 DEF deliver, MarkRunning, BeginExternal, EmitDispatch
  <2>2. \/ At(w, "deliver") /\ worker'[w].pc = "remindfin"
        \/ ~At(w, "deliver") /\ worker'[w].pc \in {"readrun", "begin", "wait"}
    BY <2>1, Moves
  <2>3. QED BY <2>1, <2>2
<1>7. CASE PerformRoute(w) \/ RefuseRoute(w)
  <2>1. \E es, clear : Finish(w, es, clear)
    BY <1>7 DEF PerformRoute, RefuseRoute
  <2>2. QED BY <1>7, <2>1, Moves DEF PerformRoute, RefuseRoute
<1>8. CASE finalizeReminderDelivery(w) \/ AwaitAck(w) \/ applyRunResult(w)
  BY <1>1, <1>8, Moves DEF finalizeReminderDelivery, AwaitAck, applyRunResult
<1>9. CASE FindDispatch(w) \/ InsertDispatch(w)
  <2>1. worker[w].pc \in {"begin", "insert"}
    BY <1>9 DEF FindDispatch, InsertDispatch
  <2>2. worker'[w].pc \notin RemindSide
    <3>1. \/ Finish(w, "blocked", FALSE) \/ Goto(w, "insert") \/ ReleaseLeader(w)
          \/ \E d : \/ SetWorker(w, [worker[w] EXCEPT !.pc = "wait", !.did = d])
                    \/ SetWorker(w, [worker[w] EXCEPT !.pc = "emit", !.did = d])
      BY <1>9 DEF FindDispatch, InsertDispatch
    <3>2. CASE Finish(w, "blocked", FALSE) \/ Goto(w, "insert")
      <4>1. worker'[w].pc = "apply" \/ worker'[w].pc = "insert"
        BY <3>2, Moves
      <4>2. QED BY <4>1
    <3>3. CASE ReleaseLeader(w)
      BY <3>3, Moves DEF IdleWorker
    <3>4. ASSUME NEW d, \/ SetWorker(w, [worker[w] EXCEPT !.pc = "wait", !.did = d])
                        \/ SetWorker(w, [worker[w] EXCEPT !.pc = "emit", !.did = d])
          PROVE  worker'[w].pc = "wait" \/ worker'[w].pc = "emit"
      BY <1>0, <3>4 DEF WorkerRec
    <3>5. QED BY <3>1, <3>2, <3>3, <3>4
  <2>3. QED BY <1>1, <2>1, <2>2
\* The others are no statements of an execution.
<1>10. CASE \/ recoverExpiredLeases(w) \/ promoteApprovalGated(w)
            \/ markTimedOutRead(w) \/ markTimedOutWrite(w)
  <2>1. worker'[w].pc \in {"ackscan", "promote", "markwrite", "ackfail"}
    BY <1>10, Moves
    DEF recoverExpiredLeases, promoteApprovalGated, markTimedOutRead, markTimedOutWrite
  <2>2. QED BY <1>1, <2>1
<1>11. CASE ScanAckWaits(w) \/ NextAckWait(w) \/ FailAckWait(w)
  <2>1. worker'[w].pc \in WaitPcs \/ EnterLoop(w, "promote")
    <3>1. CASE ScanAckWaits(w) \/ FailAckWait(w)
      <4>1. worker'[w].pc = "ackrow"
        BY <1>0, <3>1 DEF ScanAckWaits, FailAckWait, WorkerRec
      <4>2. QED BY <4>1 DEF WaitPcs
    <3>2. CASE NextAckWait(w)
      <4>2. CASE EnterLoop(w, "promote")
        BY <4>2
      <4>3. ASSUME NEW e, SetWorker(w, [worker[w] EXCEPT
                              !.pc = IF e[2] = None THEN "ackfail" ELSE "markread",
                              !.todo = @ \ {e}, !.t = e[1], !.did = e[2]])
            PROVE  worker'[w].pc \in WaitPcs
        <5> DEFINE pc == IF e[2] = None THEN "ackfail" ELSE "markread"
                   S == worker[w].todo \ {e}
                   r == [worker[w] EXCEPT !.pc = pc, !.todo = S, !.t = e[1], !.did = e[2]]
        <5>1. r.pc = pc
          BY <1>0 DEF WorkerRec
        <5>2. worker'[w] = r
          BY <1>0, <4>3
        <5>3. pc \in WaitPcs
          BY DEF WaitPcs, AckPcs
        <5> HIDE DEF pc, r
        <5>4. QED BY <5>1, <5>2, <5>3
      <4>4. QED BY <3>2, <4>2, <4>3 DEF NextAckWait
    <3>3. QED BY <1>11, <3>1, <3>2
  <2>2. QED BY <1>1, <2>1, Moves DEF WaitPcs, AckPcs
<1>12. CASE SelectApprovalGated(w) \/ SelectReminder(w) \/ SelectScheduled(w) \/ EndTick(w)
  <2>1. \/ EnterLoop(w, "remind") \/ EnterLoop(w, "sched") \/ ReleaseLeader(w)
        \/ \E t : Pick(w, t, "promotecas") \/ Pick(w, t, "remindcas") \/ Pick(w, t, "schedcas")
    BY <1>12 DEF SelectApprovalGated, SelectReminder, SelectScheduled, EndTick
  <2>2. worker'[w].pc \in {"remind", "sched", "idle", "promotecas", "remindcas", "schedcas"}
    BY <2>1, Moves DEF IdleWorker
  <2>3. QED BY <1>1, <2>2
<1>13. QED
  BY <1>3, <1>4, <1>5, <1>6, <1>7, <1>8, <1>9, <1>10, <1>11, <1>12 DEF TickStep

\* beginDispatch is entered by the external action route alone.
LEMMA TickBegins ==
    ASSUME TypeInv, NEW w \in Workers, TickStep(w),
           worker'[w].pc \in {"begin", "insert"}
    PROVE  worker'[w].t = worker[w].t /\ (BeginExternal(w) \/ At(w, "begin"))
<1>1. worker[w].pc \in {"schedcas", "markrun", "readrun", "route", "begin", "insert", "emit"}
  BY TickSides DEF SchedSide, RemindSide, HoldingPcs, At
<1>2. CASE tryClaimForScheduled(w) \/ MarkRunning(w) \/ EmitDispatch(w)
  BY <1>2, Moves DEF tryClaimForScheduled, MarkRunning, EmitDispatch
<1>3. CASE ReadRunning(w)
  <2>1. worker[w] \in WorkerRec /\ \A r : SetWorker(w, r) => worker'[w] = r
    BY DEF TypeInv, WorkerInv, SetWorker
  <2>2. worker'[w].pc = "route"
    BY <1>3, <2>1 DEF ReadRunning, WorkerRec
  <2>3. QED BY <2>2
<1>4. CASE PerformRoute(w) \/ RefuseRoute(w)
  <2>1. \E es, clear : Finish(w, es, clear)
    BY <1>4 DEF PerformRoute, RefuseRoute
  <2>2. QED BY <2>1, Moves
<1>5. CASE BeginExternal(w)
  BY <1>5, Moves DEF BeginExternal
<1>6. CASE FindDispatch(w) \/ InsertDispatch(w)
  <2>1. \/ Finish(w, "blocked", FALSE) \/ ReleaseLeader(w)
        \/ At(w, "begin") /\ Goto(w, "insert")
        \/ \E d : \/ SetWorker(w, [worker[w] EXCEPT !.pc = "wait", !.did = d])
                  \/ SetWorker(w, [worker[w] EXCEPT !.pc = "emit", !.did = d])
    BY <1>6 DEF FindDispatch, InsertDispatch
  <2>2. ASSUME NEW d, NEW pc \in {"wait", "emit"},
               SetWorker(w, [worker[w] EXCEPT !.pc = pc, !.did = d])
        PROVE  worker'[w].pc = "wait" \/ worker'[w].pc = "emit"
    <3>. DEFINE r == [worker[w] EXCEPT !.pc = pc, !.did = d]
    <3>1. worker \in [Workers -> WorkerRec]
      BY DEF TypeInv, WorkerInv
    <3>2. r.pc = pc
      BY <3>1 DEF WorkerRec
    <3>3. worker' = [worker EXCEPT ![w] = r]
      BY <2>2 DEF SetWorker
    <3>. HIDE DEF r
    <3>4. worker'[w] = r
      BY <3>1, <3>3
    <3>5. QED BY <3>2, <3>4
  <2>3. CASE Finish(w, "blocked", FALSE) \/ ReleaseLeader(w)
    <3>1. Finish(w, "blocked", FALSE) => worker'[w].pc = "apply"
      BY Moves
    <3>2. ReleaseLeader(w) => worker'[w].pc = "idle"
      BY Moves DEF IdleWorker
    <3>3. QED BY <2>3, <3>1, <3>2
  <2>4. CASE At(w, "begin") /\ Goto(w, "insert")
    BY <2>4, Moves
  <2>5. QED BY <2>1, <2>2, <2>3, <2>4
<1>7. CASE \/ recoverExpiredLeases(w) \/ ScanAckWaits(w) \/ NextAckWait(w)
           \/ markTimedOutRead(w) \/ markTimedOutWrite(w) \/ FailAckWait(w)
           \/ SelectApprovalGated(w) \/ promoteApprovalGated(w)
           \/ SelectReminder(w) \/ tryClaimForReminder(w) \/ ReadReminder(w)
           \/ deliver(w) \/ finalizeReminderDelivery(w) \/ SelectScheduled(w)
           \/ AwaitAck(w) \/ applyRunResult(w) \/ EndTick(w)
  BY <1>1, <1>7
  DEF recoverExpiredLeases, ScanAckWaits, NextAckWait, markTimedOutRead,
      markTimedOutWrite, FailAckWait, SelectApprovalGated, promoteApprovalGated,
      SelectReminder, tryClaimForReminder, ReadReminder, deliver,
      finalizeReminderDelivery, SelectScheduled, AwaitAck, applyRunResult, EndTick, At
<1>8. QED BY <1>2, <1>3, <1>4, <1>5, <1>6, <1>7 DEF TickStep

\* Only tasks of the external action route have dispatches, so that the answers
\* of executors are about these tasks alone.
RouteInv ==
    /\ \A d \in Rows : disp[d].task \in External
    /\ \A w \in Workers : worker[w].pc \in {"begin", "insert"} => worker[w].t \in External

LEMMA NextRoute ==
    ASSUME TypeInv, RouteInv, [Next]_vars
    PROVE  RouteInv'
<1>1. ASSUME NEW d \in Rows'
      PROVE  disp'[d].task \in External
  <2>1. CASE UNCHANGED disp \/ \E e \in Rows, s \in AckStates : AnsweredWith(e, s)
    <3>1. Rows' = Rows
      BY <2>1 DEF AnsweredWith, Rows, TypeInv, DispInv, DispatchRow, NoRow, AckStates
    <3>2. QED BY <1>1, <3>1, RowsStay DEF RouteInv
  <2>2. CASE Inserted
    <3>1. PICK e \in DispatchIds \ Rows, w \in Workers :
            /\ At(w, "insert")
            /\ disp' = [disp EXCEPT ![e] =
                 [task |-> worker[w].t, key |-> worker[w].snap.sched,
                  status |-> "awaiting_client_ack"]]
      BY <2>2 DEF Inserted
    <3>2. Rows' = Rows \cup {e} /\ disp'[e].task = worker[w].t
      BY <3>1 DEF Rows, TypeInv, DispInv, NoRow
    <3>3. QED BY <1>1, <3>1, <3>2, RowsStay DEF RouteInv, At
  <2>3. QED BY <2>1, <2>2, WritesDisp
<1>2. ASSUME NEW w \in Workers, worker'[w].pc \in {"begin", "insert"}
      PROVE  worker'[w].t \in External
  <2>1. CASE TickStep(w)
    <3>1. worker'[w].t = worker[w].t /\ (BeginExternal(w) \/ At(w, "begin"))
      BY <1>2, <2>1, TickBegins
    <3>2. At(w, "route") => worker[w].t \in Tasks
      BY HasTask DEF At, MidIteration, HoldingPcs
    <3>3. QED BY <3>1, <3>2 DEF BeginExternal, RouteInv, External, At
  <2>2. CASE StartTick(w) \/ Crash(w)
    <3>1. [IdleWorker EXCEPT !.pc = "recover", !.now = clock].pc = "recover"
      BY DEF IdleWorker
    <3>2. StartTick(w) => worker'[w].pc = "recover"
      BY <3>1 DEF StartTick, TypeInv, WorkerInv, SetWorker
    <3>3. Crash(w) => worker'[w].pc = "idle"
      BY Moves DEF Crash, IdleWorker
    <3>4. QED BY <1>2, <2>2, <3>2, <3>3
  <2>3. CASE \E u \in Tasks : LeaseExpires(u)
    <3>1. /\ worker'[w].pc = worker[w].pc
          /\ \A t : Holds(w, t)' <=> Holds(w, t)
      BY <2>3, Expires
    <3>2. worker'[w].t = worker[w].t
      BY <1>2, <3>1 DEF Holds, HoldingPcs
    <3>3. QED BY <1>2, <3>1, <3>2 DEF RouteInv
  <2>4. CASE \E v \in Workers \ {w} : TickStep(v) \/ StartTick(v) \/ Crash(v) \/ LockLost(v)
    BY <1>2, <2>4, OthersStay DEF RouteInv
  <2>5. CASE UNCHANGED worker
    BY <1>2, <2>5 DEF RouteInv
  <2>6. QED
    BY <2>1, <2>2, <2>3, <2>4, <2>5, PatchLeaves
    DEF Next, EngineStep, LockLost, ClockTick, engineVars, vars
<1>3. QED BY <1>1, <1>2 DEF RouteInv, External

LEMMA InitRoute == Init => RouteInv
BY DEF Init, RowsInit, EngineInit, IdleWorker, RouteInv, Rows

-----------------------------------------------------------------------------
(***************************************************************************)
(* Part 9: the engine implements TaskLifecycle.  The waits that a tick has *)
(* listed still wait, or have been answered, when their turn comes, and    *)
(* each is listed once.                                                    *)
(***************************************************************************)
Distinct(w) ==
    /\ worker[w].pc \in WaitPcs =>
         \A e, f \in worker[w].todo : e[1] = f[1] => e = f
    /\ worker[w].pc \in AckPcs => \A e \in worker[w].todo : e[1] # worker[w].t

Waited(t) ==
    \/ task[t].es = "waiting_input"
    \/ ~Unanswered(t) /\ task[t].es \in TerminalStates

WaitInv ==
    /\ \A w \in Workers : Distinct(w)
    /\ Undisturbed => \A w \in Workers, t \in Tasks : Awaits(w, t) => Waited(t)

LEMMA NextDistinct ==
    ASSUME TypeInv, [Next]_vars, NEW w \in Workers, Distinct(w)
    PROVE  Distinct(w)'
<1>1. CASE Lists(w)
  BY <1>1 DEF Lists, Distinct, AckPcs
<1>2. CASE PicksWait(w)
  <2>1. \A e, f \in worker[w].todo : e[1] = f[1] => e = f
    BY <1>2 DEF PicksWait, At, Distinct, WaitPcs
  <2>2. QED BY <1>2, <2>1 DEF PicksWait, Distinct
<1>3. CASE KeepsWait(w)
  BY <1>3 DEF KeepsWait, Distinct, WaitPcs
<1>4. CASE Fails(w)
  BY <1>4 DEF Fails, Distinct, At, WaitPcs, AckPcs
<1>5. CASE Drops(w)
  BY <1>5 DEF Drops, Distinct, WaitPcs
<1>6. CASE Same(w)
  BY <1>6 DEF Same, Distinct
<1>7. QED BY <1>1, <1>2, <1>3, <1>4, <1>5, <1>6, NextTodo DEF TodoEffect

LEMMA NextWaits ==
    ASSUME TypeInv, ClaimInv, WaitInv, [Next]_vars
    PROVE  WaitInv'
<1>1. \A w \in Workers : Distinct(w)'
  BY NextDistinct DEF WaitInv
<1>2. SUFFICES ASSUME Undisturbed', NEW v \in Workers, NEW t \in Tasks, Awaits(v, t)'
               PROVE  Waited(t)'
  BY <1>1 DEF WaitInv
<1>3. CASE task[t].es = "waiting_input" /\ UNCHANGED task
  BY <1>3 DEF Waited
<1>4. CASE Awaits(v, t)
  <2>1. /\ Solo /\ ~Patching /\ Waited(t) /\ Distinct(v)
        /\ worker[v].pc \in WaitPcs /\ worker[v].pc # "idle"
    BY <1>2, <1>4, NextLock DEF WaitInv, ClaimInv, Awaits, WaitPcs, AckPcs
  <2>2. task'[t].es = task[t].es => Waited(t)'
    BY <2>1, UnansweredBefore DEF Waited
  <2>3. ASSUME NEW w \in Workers, TickEffect(w)
        PROVE  task'[t].es = task[t].es
    <3>1. CASE Leaves(w)
      BY <3>1 DEF Leaves
    <3>2. CASE Recovers(w)
      <4>1. task[t].es \notin ClaimedStates
        BY <2>1, Disjoint DEF Waited
      <4>2. QED BY <3>2, <4>1 DEF Recovers, recoverExpiredLeases
    <3>3. CASE GivesUp(w) \/ Pauses(w) \/ Takes(w) \/ Marks(w) \/ LetsGo(w)
      <4>1. PICK u \in Tasks : u = worker[w].t
        BY <3>3, Working
      <4>2. w = v
        BY <2>1, <3>3, Working DEF Solo
      <4>3. GivesUp(w)
        BY <2>1, <3>3, <4>2 DEF Pauses, Takes, Marks, LetsGo, At, WaitPcs, AckPcs
      <4>4. \E e \in worker[v].todo : e[1] = t
        BY <1>2, <4>2, <4>3 DEF GivesUp, Awaits, AckPcs
      <4>5. t # u
        BY <2>1, <4>1, <4>2, <4>3, <4>4 DEF GivesUp, At, Distinct, AckPcs
      <4>6. QED BY <4>1, <4>3, <4>5, Written DEF GivesUp
    <3>4. QED BY <2>3, <3>1, <3>2, <3>3 DEF TickEffect
  <2>4. ASSUME NEW u \in Tasks, LeaseExpires(u)
        PROVE  task'[t].es = task[t].es
    BY <2>4, Expires
  <2>5. ASSUME NEW a \in Agents, NEW d \in DispatchIds, acknowledge(a, d)
        PROVE  Waited(t)'
    <3>1. PICK r : /\ WriteTask(disp[d].task, r)
                   /\ r.es \in {"waiting_input", "completed", "failed"}
      BY <2>5, Acks
    <3>2. CASE t # disp[d].task
      BY <2>2, <2>5, <3>1, <3>2, Acks, Written
    <3>3. CASE t = disp[d].task
      <4>1. ~Unanswered(t)'
        BY <2>5, <3>3, AckIsRecorded, UnansweredBefore DEF ClaimInv
      <4>2. task'[t].es \in {"waiting_input", "completed", "failed"}
        BY <3>1, <3>3, Written
      <4>3. QED BY <4>1, <4>2, Disjoint DEF Waited
    <3>4. QED BY <3>2, <3>3
  <2>6. QED BY <2>1, <2>2, <2>3, <2>4, <2>5, StepEffects DEF StepEffect
<1>5. QED BY <1>2, <1>3, <1>4, NextAwaits

\* The lifecycle's variables.
Phase == [t \in Tasks |-> PhaseOf(task[t].es)]
Owner == [t \in Tasks |-> IF \E w \in Workers : Holds(w, t)
                          THEN CHOOSE w \in Workers : Holds(w, t) ELSE None]

LEMMA Phases ==
    /\ \A es \in EligibleStates : PhaseOf(es) = "ready"
    /\ \A es \in ClaimedStates : PhaseOf(es) = "claimed"
    /\ \A es \in TerminalStates : PhaseOf(es) = "closed"
    /\ PhaseOf("waiting_input") = "waiting"
    /\ PhaseOf("waiting_approval") = "paused"
BY DEF PhaseOf, EligibleStates, ClaimedStates, TerminalStates

LEMMA Owners ==
    ASSUME NEW t \in Tasks
    PROVE  /\ Solo => \A w \in Workers : Holds(w, t) => Owner[t] = w
           /\ (\A w \in Workers : ~Holds(w, t)) => Owner[t] = None
<1>1. ASSUME Solo, NEW w \in Workers, Holds(w, t)
      PROVE  Owner[t] = w
  <2> DEFINE v == CHOOSE v \in Workers : Holds(v, t)
  <2>1. v \in Workers /\ Holds(v, t)
    BY <1>1
  <2>2. v = w
    BY <1>1, <2>1 DEF Solo, Holds, HoldingPcs
  <2>3. QED BY <1>1, <2>2 DEF Owner
<1>2. QED BY <1>1 DEF Owner

LEMMA OwnersNext ==
    ASSUME NEW t \in Tasks
    PROVE  /\ Solo' => \A w \in Workers : Holds(w, t)' => Owner'[t] = w
           /\ (\A w \in Workers : ~Holds(w, t)') => Owner'[t] = None
<1> DEFINE H(w) == worker'[w].t = t /\ worker'[w].pc \in HoldingPcs
           v == CHOOSE v \in Workers : H(v)
<1>1. Owner'[t] = IF \E w \in Workers : H(w) THEN v ELSE None
  BY DEF Owner, Holds
<1>2. \A w \in Workers : Holds(w, t)' <=> H(w)
  BY DEF Holds
<1>3. ASSUME Solo', NEW w \in Workers, H(w)
      PROVE  Owner'[t] = w
  <2>1. v \in Workers /\ H(v)
    BY <1>3
  <2>2. v = w
    BY <1>3, <2>1 DEF Solo, HoldingPcs
  <2> HIDE DEF H, v
  <2>3. QED BY <1>1, <1>3, <2>2
<1> HIDE DEF H, v
<1>4. QED BY <1>1, <1>2, <1>3

Promise == INSTANCE TaskLifecycle WITH
    Remote <- External, phase <- Phase, owner <- Owner, kept <- Undisturbed

\* Steps that the lifecycle does not see.
LEMMA OwnersStay ==
    ASSUME Solo, Solo', \A w \in Workers, t \in Tasks : Holds(w, t)' <=> Holds(w, t)
    PROVE  UNCHANGED Owner
<1>1. \A t \in Tasks : Owner'[t] = Owner[t]
  BY Owners, OwnersNext
<1>2. QED BY <1>1 DEF Owner

LEMMA PhasesStay ==
    ASSUME \A t \in Tasks : PhaseOf(task'[t].es) = PhaseOf(task[t].es)
    PROVE  UNCHANGED Phase
BY DEF Phase

\* A step that writes one row.
LEMMA PhaseSet ==
    ASSUME TypeInv, NEW t \in Tasks, NEW r, WriteTask(t, r)
    PROVE  Phase' = [Phase EXCEPT ![t] = PhaseOf(r.es)]
<1>1. \A u \in Tasks : Phase'[u] = IF u = t THEN PhaseOf(r.es) ELSE Phase[u]
  BY Written DEF Phase
<1>2. QED BY <1>1 DEF Phase

LEMMA Simulates ==
    ASSUME Undisturbed', TypeInv, ClaimInv, WaitInv, RouteInv, [Next]_vars
    PROVE  [Promise!Next]_<<Phase, Owner>>
<1>1. /\ Solo /\ Solo' /\ ~Patching
      /\ \A t \in Tasks : ClaimOf(t)
      /\ \A w \in Workers, t \in Tasks : Awaits(w, t) => Waited(t)
  BY NextLock DEF ClaimInv, WaitInv
<1>0. \A t \in Tasks : ~Unanswered(t) => t \in External
  BY DEF Unanswered, RouteInv
<1>2. ASSUME NEW w \in Workers, TickEffect(w), Others(w)
      PROVE  [Promise!Next]_<<Phase, Owner>>
  <2>1. \A v \in Workers \ {w} : \A t : Holds(v, t)' <=> Holds(v, t)
    BY <1>2 DEF Others, Holds
  <2>2. Keeping(w) => UNCHANGED Owner
    BY <1>1, <2>1, OwnersStay DEF Keeping
  \* The replica lets go of u.
  <2>3. ASSUME LettingGo(w), NEW u \in Tasks, Holds(w, u)
        PROVE  Owner[u] # None /\ Owner' = [Owner EXCEPT ![u] = None]
    <3>1. worker[w].pc # "idle"
      BY <2>3 DEF Holds, HoldingPcs
    <3>2. \A v \in Workers, t \in Tasks : /\ ~Holds(v, t)'
                                          /\ Holds(v, t) => v = w /\ t = u
      BY <1>1, <1>2, <2>3, <3>1, Holders DEF LettingGo, Holds
    <3>3. Owner[u] = w
      BY <1>1, <2>3, Owners
    <3>4. \A t \in Tasks : Owner'[t] = IF t = u THEN None ELSE Owner[t]
      BY <3>2, Owners, OwnersNext
    <3>5. QED BY <3>3, <3>4, EngineAssumption DEF Owner
  \* The replica is at a statement of a tick and holds nothing.
  <2>4. ASSUME worker[w].pc # "idle", \A t \in Tasks : ~Holds(w, t)
        PROVE  Promise!Quiet
    <3>1. \A v \in Workers, t \in Tasks : ~Holds(v, t)
      BY <1>1, <1>2, <2>4, Holders
    <3>2. QED BY <3>1, Owners DEF Promise!Quiet
  <2>5. CASE Leaves(w)
    <3>1. UNCHANGED Phase
      BY <2>5, PhasesStay DEF Leaves
    <3>2. CASE Keeping(w)
      BY <2>2, <3>1, <3>2
    <3>3. CASE LettingGo(w) /\ \E u \in Tasks : Holds(w, u)
      BY <2>3, <3>1, <3>3 DEF Promise!Next, Promise!Abandon
    <3>4. CASE LettingGo(w) /\ \A u \in Tasks : ~Holds(w, u)
      BY <1>1, <2>1, <3>1, <3>4, OwnersStay DEF LettingGo
    <3>5. QED BY <2>5, <3>2, <3>3, <3>4 DEF Leaves
  <2>6. CASE Recovers(w)
    <3> DEFINE S == {t \in Tasks : task[t].es \in ClaimedStates /\ task[t].lease = "expired"}
    <3>1. worker[w].pc = "recover" /\ UNCHANGED Owner
      BY <2>2, <2>6 DEF Recovers, recoverExpiredLeases, At
    <3>2. Promise!Quiet
      BY <2>4, <3>1 DEF Holds, HoldingPcs
    <3>3. \A t \in S : Phase[t] = "claimed"
      BY Phases DEF Phase
    <3>4. \A t \in Tasks : Phase'[t] = IF t \in S THEN "ready" ELSE Phase[t]
      <4>1. \A t \in Tasks : task[t] \in TaskRow
        BY DEF TypeInv, TaskInv
      <4>2. \A t \in Tasks :
              [task[t] EXCEPT !.es = "pending", !.lease = "none"].es = "pending"
        BY <4>1 DEF TaskRow
      <4>3. \A t \in Tasks :
              task'[t].es = IF t \in S THEN "pending" ELSE task[t].es
        BY <2>6, <4>2 DEF Recovers, recoverExpiredLeases
      <4>4. PhaseOf("pending") = "ready"
        BY Phases, Disjoint
      <4>5. QED BY <4>3, <4>4 DEF Phase
    <3>5. Phase' = [t \in Tasks |-> IF t \in S THEN "ready" ELSE Phase[t]]
      BY <3>4 DEF Phase
    <3>6. S \in SUBSET Tasks
      OBVIOUS
    <3> HIDE DEF S
    <3>7. QED BY <3>1, <3>2, <3>3, <3>5, <3>6 DEF Promise!Next, Promise!Recover
  <2>7. CASE GivesUp(w) \/ Pauses(w) \/ Takes(w) \/ Marks(w) \/ LetsGo(w)
    <3>1. PICK u \in Tasks : u = worker[w].t
      BY <2>7, Working
    <3>2. worker[w].pc # "idle"
      BY <2>7, Working
    <3>3. CASE GivesUp(w)
      <4>1. Promise!Quiet /\ UNCHANGED Owner
        BY <2>2, <2>4, <3>2, <3>3 DEF GivesUp, At, Holds, HoldingPcs
      <4>2. Awaits(w, u)
        BY <3>1, <3>3 DEF GivesUp, At, Awaits, AckPcs
      <4>3. Waited(u)
        BY <1>1, <4>2
      <4>4. PICK r : WriteTask(u, r) /\ r.es = "failed"
        BY <3>1, <3>3 DEF GivesUp
      <4>5. CASE task[u].es = "waiting_input"
        <5>1. Phase[u] = "waiting"
          BY <4>5, Phases DEF Phase
        <5>2. Phase' = [Phase EXCEPT ![u] = "closed"]
          BY <4>4, PhaseSet, Phases, Disjoint
        <5>3. QED BY <4>1, <5>1, <5>2 DEF Promise!Next, Promise!GiveUpWait
      \* It was answered meanwhile: a task that is over stays over.
      <4>6. CASE task[u].es \in TerminalStates
        <5>1. PhaseOf(r.es) = PhaseOf(task[u].es)
          BY <4>4, <4>6, Phases, Disjoint
        <5>2. QED BY <4>1, <4>4, <5>1, Written, PhasesStay
      <4>7. QED BY <4>3, <4>5, <4>6 DEF Waited
    <3>4. CASE Pauses(w)
      <4>1. Promise!Quiet /\ UNCHANGED Owner
        BY <2>2, <2>4, <3>2, <3>4 DEF Pauses, At, Holds, HoldingPcs
      <4>2. Phase[u] = "ready"
        BY <3>1, <3>4, Phases DEF Pauses, Phase
      <4>3. PICK r : WriteTask(u, r) /\ r.es = "waiting_approval"
        BY <3>1, <3>4 DEF Pauses
      <4>4. Phase' = [Phase EXCEPT ![u] = "paused"]
        BY <4>3, PhaseSet, Phases
      <4>5. QED BY <4>1, <4>2, <4>4 DEF Promise!Next, Promise!Pause
    <3>5. CASE Takes(w)
      <4>1. Promise!Quiet
        BY <2>4, <3>2, <3>5 DEF Takes, Taking
      <4>2. Phase[u] = "ready"
        BY <3>1, <3>5, Phases DEF Takes, Phase
      <4>3. PICK r : WriteTask(u, r) /\ r.es \in ClaimedStates
        BY <3>1, <3>5 DEF Takes
      <4>4. Phase' = [Phase EXCEPT ![u] = "claimed"]
        BY <4>3, PhaseSet, Phases
      <4>5. \A v \in Workers, t \in Tasks : /\ ~Holds(v, t)
                                            /\ Holds(v, t)' <=> v = w /\ t = u
        BY <1>1, <1>2, <3>1, <3>2, <3>5, Holders DEF Takes, Taking
      <4>6. \A t \in Tasks : Owner'[t] = IF t = u THEN w ELSE Owner[t]
        BY <1>1, <4>5, Owners, OwnersNext
      <4>7. Owner' = [Owner EXCEPT ![u] = w]
        BY <4>6 DEF Owner
      <4>8. QED BY <4>1, <4>2, <4>4, <4>7 DEF Promise!Next, Promise!Claim
    <3>6. CASE Marks(w)
      <4>1. Holds(w, u)
        BY <3>1, <3>6 DEF Marks, At, Holds, HoldingPcs
      <4>2. InHand(u) /\ UNCHANGED Owner
        BY <1>1, <2>2, <3>6, <4>1 DEF ClaimOf, Marks
      <4>3. PICK r : WriteTask(u, r) /\ r.es = "running"
        BY <3>1, <3>6 DEF Marks
      <4>4. PhaseOf(r.es) = "claimed"
        BY <4>3, Phases, Disjoint
      <4>5. CASE task[u].es \in ClaimedStates
        <5>1. UNCHANGED Phase
          BY <4>3, <4>4, <4>5, Written, Phases, PhasesStay
        <5>2. QED BY <4>2, <5>1
      <4>6. CASE ~Unanswered(u) /\ task[u].es \in {"waiting_input"} \cup TerminalStates
        <5>1. Phase' = [Phase EXCEPT ![u] = "claimed"]
          BY <4>3, <4>4, PhaseSet
        <5>2. Phase[u] \in {"waiting", "closed"}
          BY <4>6, Phases DEF Phase
        <5>3. u \in External
          BY <1>0, <4>6
        <5>4. Owner[u] # None
          BY <1>1, <4>1, Owners, EngineAssumption
        <5>5. QED BY <4>2, <5>1, <5>2, <5>3, <5>4 DEF Promise!Next, Promise!Resume
      <4>7. QED BY <4>2, <4>5, <4>6 DEF InHand
    <3>7. CASE LetsGo(w)
      <4>1. Holds(w, u) /\ LettingGo(w)
        BY <3>1, <3>7 DEF LetsGo, Holds, HoldingPcs
      <4>2. PICK r : /\ WriteTask(u, r)
                     /\ r.es \in {"pending", "waiting_input", "completed", "failed", "blocked"}
        BY <3>1, <3>7 DEF LetsGo
      <4>3. PhaseOf(r.es) \in {"ready", "waiting", "closed"}
        BY <4>2, Phases, Disjoint
      <4>4. Phase' = [Phase EXCEPT ![u] = PhaseOf(r.es)]
        BY <4>2, PhaseSet
      <4>5. QED BY <2>3, <4>1, <4>3, <4>4 DEF Promise!Next, Promise!LetGo
    <3>8. QED BY <2>7, <3>3, <3>4, <3>5, <3>6, <3>7
  <2>8. QED BY <1>2, <2>5, <2>6, <2>7 DEF TickEffect
<1>3. ASSUME NEW u \in Tasks, LeaseExpires(u)
      PROVE  [Promise!Next]_<<Phase, Owner>>
  <2>1. \A t \in Tasks : task'[t].es = task[t].es
    BY <1>3, Expires
  <2>2. UNCHANGED Phase
    BY <2>1, PhasesStay
  <2>3. UNCHANGED Owner
    BY <1>1, <1>3, Expires, OwnersStay
  <2>4. QED BY <2>2, <2>3
<1>4. CASE UNCHANGED <<task, worker>>
  <2>1. UNCHANGED Phase
    BY <1>4, PhasesStay
  <2>2. \A w \in Workers, t \in Tasks : Holds(w, t)' <=> Holds(w, t)
    BY <1>4 DEF Holds
  <2>3. QED BY <1>1, <2>1, <2>2, OwnersStay
<1>5. ASSUME NEW a \in Agents, NEW d \in DispatchIds, acknowledge(a, d), UNCHANGED worker
      PROVE  [Promise!Next]_<<Phase, Owner>>
  <2>1. PICK u \in Tasks : u = disp[d].task
    BY <1>5, Acks
  <2>2. PICK r : WriteTask(u, r) /\ r.es \in {"waiting_input", "completed", "failed"}
    BY <1>5, <2>1, Acks
  <2>3. PhaseOf(r.es) \in {"waiting", "closed"}
    BY <2>2, Phases, Disjoint
  <2>4. Phase' = [Phase EXCEPT ![u] = PhaseOf(r.es)]
    BY <2>2, PhaseSet
  <2>5. u \in External
    BY <1>0, <1>5, <2>1, AckIsRecorded DEF ClaimInv
  <2>6. \A w \in Workers, t \in Tasks : Holds(w, t)' <=> Holds(w, t)
    BY <1>5 DEF Holds
  <2>7. UNCHANGED Owner
    BY <1>1, <2>6, OwnersStay
  <2>8. QED BY <2>3, <2>4, <2>5, <2>7 DEF Promise!Next, Promise!Answer
<1>6. QED BY <1>1, <1>2, <1>3, <1>4, <1>5, StepEffects DEF StepEffect

LEMMA Begins ==
    ASSUME Init
    PROVE  WaitInv /\ Promise!Init
<1>1. \A t \in Tasks : task[t].es = "idle"
  BY DEF Init, RowsInit, createTask
<1>2. \A w \in Workers : worker[w].pc = "idle"
  BY DEF Init, EngineInit, IdleWorker
<1>3. WaitInv
  BY <1>2 DEF WaitInv, Distinct, Awaits, WaitPcs, AckPcs
<1>4. \A t \in Tasks : Phase[t] = "ready"
  BY <1>1, Phases DEF Phase, EligibleStates
<1>5. \A t \in Tasks : Owner[t] = None
  BY <1>2, Owners DEF Holds, HoldingPcs
<1>6. Promise!Init
  BY <1>4, <1>5 DEF Promise!Init, Phase, Owner
<1>7. QED BY <1>3, <1>6

\* The engine keeps what its class comment promises of a task, for any number of
\* replicas, tasks, executors, crashes and answers of any age: until MySQL drops a
\* leader's lock or a user patches a task, every behaviour of its statements is
\* one of TaskLifecycle.
THEOREM Implements == Spec => ImplementsLifecycle
<1> DEFINE IInv == ClaimInv /\ WaitInv /\ RouteInv
<1>1. TypeInv /\ IInv /\ [Next]_vars =>
        IInv' /\ [Undisturbed' => Promise!Next]_<<Phase, Owner>>
  BY NextClaim, NextWaits, NextRoute, Simulates
<1>2. Init => IInv /\ Promise!Init
  BY InitClaim, InitRoute, Begins
<1> HIDE DEF IInv
<1>3. Spec => Promise!Init /\ [][Undisturbed' => Promise!Next]_<<Phase, Owner>>
  BY <1>1, <1>2, InitTypes, NextTypes, PTL DEF Spec
\* Phase and Owner are the refinement mapping of TaskRefinement.
<1>4. Promise!Spec => ImplementsLifecycle
  BY DEF ImplementsLifecycle, Lifecycle!Spec, Lifecycle!Init, Lifecycle!Next,
         Lifecycle!Claim, Lifecycle!LetGo, Lifecycle!Abandon, Lifecycle!GiveUpWait,
         Lifecycle!Pause, Lifecycle!Answer, Lifecycle!Resume, Lifecycle!Recover,
         Lifecycle!Quiet,
         Promise!Spec, Promise!Init, Promise!Next, Promise!Claim, Promise!LetGo,
         Promise!Abandon, Promise!GiveUpWait, Promise!Pause, Promise!Answer,
         Promise!Resume, Promise!Recover, Promise!Quiet, Phase, Owner, Holds
<1>5. QED BY <1>3, <1>4 DEF Promise!Spec

-----------------------------------------------------------------------------
(***************************************************************************)
(* Part 10: one firing per date.  The task of a replica on the side of the *)
(* reminder still has its reminder, and the firings of one on the side of  *)
(* the schedule have not spent the schedule, although an answer may clear  *)
(* its date, or the last write of the execution bring it back.             *)
(***************************************************************************)
\* The replica has fired for a date, or may have, and is about to clear it.
Ending(w) ==
    \/ At(w, "remindfin")
    \/ At(w, "apply") /\ (worker[w].t \notin External \/ worker[w].out.clear)

\* A tick fires at two statements, and brings the execution to its end there.
LEMMA TickFires ==
    ASSUME TypeInv, NEW w \in Workers, TickStep(w)
    PROVE  /\ \/ UNCHANGED fired
              \/ /\ \/ At(w, "deliver") /\ worker'[w].pc = "remindfin"
                    \/ /\ At(w, "route") /\ worker'[w].pc = "apply"
                       /\ worker[w].t \notin External \/ worker'[w].out.clear
                 /\ worker'[w].t = worker[w].t
                 /\ fired' = [fired EXCEPT ![worker[w].t] = Bump(@)]
           /\ crashes' = crashes
<1>1. CASE deliver(w)
  BY <1>1, Moves DEF deliver, At, SameLock
<1>2. CASE PerformRoute(w)
  <2>1. PICK es, clear : /\ Finish(w, es, clear)
                         /\ Route(worker[w].t) # "external_action" \/ clear
    BY <1>2 DEF PerformRoute, NotificationRoutes
  <2>2. worker'[w].out = [es |-> es, clear |-> clear]
    BY <2>1 DEF Finish, SetWorker, TypeInv, WorkerInv, WorkerRec
  <2>3. QED BY <1>2, <2>1, <2>2, Moves DEF PerformRoute, At, SameLock, External
<1>3. CASE \/ recoverExpiredLeases(w) \/ ScanAckWaits(w) \/ NextAckWait(w)
           \/ markTimedOutRead(w) \/ markTimedOutWrite(w) \/ FailAckWait(w)
           \/ SelectApprovalGated(w) \/ promoteApprovalGated(w)
           \/ SelectReminder(w) \/ tryClaimForReminder(w) \/ ReadReminder(w)
           \/ finalizeReminderDelivery(w) \/ SelectScheduled(w)
  BY <1>3
  DEF recoverExpiredLeases, ScanAckWaits, NextAckWait, markTimedOutRead,
      markTimedOutWrite, FailAckWait, SelectApprovalGated, promoteApprovalGated,
      SelectReminder, tryClaimForReminder, ReadReminder, finalizeReminderDelivery,
      SelectScheduled, OnlyTask, OnlyDisp, rowVars, SameLock
<1>4. CASE \/ tryClaimForScheduled(w) \/ MarkRunning(w) \/ ReadRunning(w)
           \/ RefuseRoute(w) \/ BeginExternal(w) \/ FindDispatch(w)
           \/ InsertDispatch(w) \/ EmitDispatch(w) \/ AwaitAck(w)
           \/ applyRunResult(w) \/ EndTick(w)
  BY <1>4
  DEF tryClaimForScheduled, MarkRunning, ReadRunning, RefuseRoute, BeginExternal,
      FindDispatch, InsertDispatch, EmitDispatch, AwaitAck, applyRunResult, EndTick,
      OnlyTask, OnlyDisp, rowVars, SameLock, NoBudget
<1>5. QED BY <1>1, <1>2, <1>3, <1>4 DEF TickStep

\* The three terms of OncePerDate.  A task without an executor is over when it
\* has been performed; that of an executor may be answered, and be over without.
Reminded(t) == task[t].rem = None
Ended(t) ==
    \/ task[t].sched = None
    \/ t \notin External /\ task[t].es \in TerminalStates
AtEnd(t) == \E w \in Workers : Holds(w, t) /\ Ending(w)
Counted(t) == fired[t] <= crashes + Used(Reminded(t)) + Used(Ended(t)) + Used(AtEnd(t))

\* What is counted of a task, and what whoever holds it has not used up.
FireOf(t) ==
    /\ Counted(t)
    /\ \A w \in Workers :
         Holds(w, t) =>
            IF worker[w].pc \in RemindSide
            THEN ~Reminded(t)
            ELSE fired[t] <= crashes + Used(Reminded(t)) + Used(Ending(w))

FireInv == Undisturbed => \A t \in Tasks : task[t].due = None => FireOf(t)

\* Arithmetic of a step: nothing fires, a firing begins the end of an
\* execution, the end clears its date, a crash cuts the end short.
LEMMA Counts ==
    ASSUME TypeInv, NEW t \in Tasks, Counted(t),
           Reminded(t) => Reminded(t)', Ended(t) => Ended(t)', crashes' \in Nat,
           \/ /\ fired'[t] = fired[t] /\ crashes' = crashes
              /\ \/ AtEnd(t) => AtEnd(t)'
                 \/ ~Reminded(t) /\ Reminded(t)'
                 \/ ~Ended(t) /\ Ended(t)'
           \/ /\ fired'[t] = Bump(fired[t]) /\ crashes' = crashes
              /\ ~AtEnd(t) /\ AtEnd(t)'
           \/ fired'[t] = fired[t] /\ crashes' = crashes + 1
    PROVE  Counted(t)'
<1>1. fired[t] \in Nat /\ crashes \in Nat /\ Bump(fired[t]) <= fired[t] + 1
      /\ Bump(fired[t]) \in Nat
  BY DEF TypeInv, CountersInv, Bump
<1> DEFINE a == Used(Reminded(t))
           b == Used(Ended(t))
           c == Used(AtEnd(t))
           a1 == Used(Reminded(t)')
           b1 == Used(Ended(t)')
           c1 == Used(AtEnd(t)')
<1>2. /\ a \in {0, 1} /\ b \in {0, 1} /\ c \in {0, 1}
      /\ a1 \in {0, 1} /\ b1 \in {0, 1} /\ c1 \in {0, 1}
      /\ a <= a1 /\ b <= b1
  BY DEF Used
<1>3. /\ AtEnd(t)' => c1 = 1
      /\ ~AtEnd(t) => c = 0
      /\ ~Reminded(t) /\ Reminded(t)' => a = 0 /\ a1 = 1
      /\ ~Ended(t) /\ Ended(t)' => b = 0 /\ b1 = 1
  BY DEF Used
<1>4. Counted(t)' <=> fired'[t] <= crashes' + a1 + b1 + c1
  BY DEF Counted, Used
<1>5. fired[t] <= crashes + a + b + c
  BY DEF Counted
<1> HIDE DEF a, b, c, a1, b1, c1
<1>6. fired'[t] <= crashes' + a1 + b1 + c1
  <2>1. CASE fired'[t] = fired[t] /\ crashes' = crashes + 1
    BY <1>1, <1>2, <1>5, <2>1
  <2>2. CASE /\ fired'[t] = Bump(fired[t]) /\ crashes' = crashes
             /\ ~AtEnd(t) /\ AtEnd(t)'
    BY <1>1, <1>2, <1>3, <1>5, <2>2
  <2>3. CASE /\ fired'[t] = fired[t] /\ crashes' = crashes
             /\ \/ AtEnd(t) => AtEnd(t)'
                \/ ~Reminded(t) /\ Reminded(t)'
                \/ ~Ended(t) /\ Ended(t)'
    <3>1. a + b + c <= a1 + b1 + c1
      BY <1>2, <1>3, <2>3
    <3>2. QED BY <1>1, <1>2, <1>5, <2>3, <3>1
  <2>4. QED BY <2>1, <2>2, <2>3
<1>7. QED BY <1>4, <1>6

\* The same of an execution that ends: what it has fired is spent, or there is
\* nothing to spend.
LEMMA Spent ==
    ASSUME TypeInv, NEW t \in Tasks, NEW e \in BOOLEAN,
           fired[t] <= crashes + Used(Reminded(t)) + Used(e),
           Reminded(t) => Reminded(t)', e => Ended(t)',
           fired'[t] = fired[t], crashes' = crashes
    PROVE  Counted(t)'
<1>1. fired[t] \in Nat /\ crashes \in Nat
  BY DEF TypeInv, CountersInv
<1>2. Counted(t)' <=> fired'[t] <= crashes' + Used(Reminded(t)') + Used(Ended(t)') + Used(AtEnd(t)')
  BY DEF Counted, Used
<1>3. /\ Used(Reminded(t)) <= Used(Reminded(t)') /\ Used(e) <= Used(Ended(t)')
      /\ \A c \in {Reminded(t), e, Reminded(t)', Ended(t)', AtEnd(t)'} : Used(c) \in {0, 1}
  BY DEF Used
<1>4. QED BY <1>1, <1>2, <1>3

\* The final write of an execution ends its task and may clear its date.
LEMMA Applies ==
    ASSUME TypeInv, NEW w \in Workers, TickStep(w), At(w, "apply")
    PROVE  /\ applyRunResult(w)
           /\ worker[w].t \in Tasks
           /\ task'[worker[w].t].es \in TerminalStates
           /\ worker[w].out.clear => task'[worker[w].t].sched = None
<1>0. applyRunResult(w)
  <2>1. CASE \/ recoverExpiredLeases(w) \/ ScanAckWaits(w) \/ NextAckWait(w)
             \/ markTimedOutRead(w) \/ markTimedOutWrite(w) \/ FailAckWait(w)
             \/ SelectApprovalGated(w) \/ promoteApprovalGated(w)
             \/ SelectReminder(w) \/ tryClaimForReminder(w) \/ ReadReminder(w)
             \/ deliver(w) \/ finalizeReminderDelivery(w) \/ SelectScheduled(w)
    BY <2>1
    DEF recoverExpiredLeases, ScanAckWaits, NextAckWait, markTimedOutRead,
        markTimedOutWrite, FailAckWait, SelectApprovalGated, promoteApprovalGated,
        SelectReminder, tryClaimForReminder, ReadReminder, deliver,
        finalizeReminderDelivery, SelectScheduled, At
  <2>2. CASE \/ tryClaimForScheduled(w) \/ MarkRunning(w) \/ ReadRunning(w)
             \/ PerformRoute(w) \/ RefuseRoute(w) \/ BeginExternal(w)
             \/ FindDispatch(w) \/ InsertDispatch(w) \/ EmitDispatch(w)
             \/ AwaitAck(w) \/ EndTick(w)
    BY <2>2
    DEF tryClaimForScheduled, MarkRunning, ReadRunning, PerformRoute, RefuseRoute,
        BeginExternal, FindDispatch, InsertDispatch, EmitDispatch, AwaitAck, EndTick, At
  <2>3. QED BY <2>1, <2>2 DEF TickStep
<1>1. PICK u \in Tasks : u = worker[w].t
  BY HasTask DEF At, MidIteration, HoldingPcs
<1> DEFINE out == worker[w].out
           snap == worker[w].snap
           r == [task[u] EXCEPT
                   !.es = out.es, !.lease = "none",
                   !.sched = IF out.clear THEN None ELSE snap.sched,
                   !.awaiting = snap.awaiting, !.did = snap.did]
<1>2. r.es = out.es /\ (out.clear => r.sched = None)
  BY DEF TypeInv, TaskInv, TaskRow
<1>3. out.es \in TerminalStates
  BY Disjoint DEF TypeInv, WorkerInv, WorkerRec, Outcomes
<1>4. WriteTask(u, r)
  BY <1>0, <1>1 DEF applyRunResult
<1> HIDE DEF r
<1>5. QED BY <1>0, <1>1, <1>2, <1>3, <1>4, Written

\* A statement of a tick reopens no task that is over, unless it was answered.
LEMMA TickEnds ==
    ASSUME TypeInv, NEW w \in Workers, TickStep(w),
           NEW t \in Tasks, Unanswered(t), ClaimOf(t)
    PROVE  task[t].es \in TerminalStates => task'[t].es \in TerminalStates
<1>1. TickEffect(w)
  BY TickEffects
<1>2. CASE Leaves(w) /\ ~At(w, "apply")
  BY <1>2 DEF Leaves
<1>3. CASE Recovers(w)
  <2>1. ~At(w, "apply")
    BY <1>3 DEF Recovers, recoverExpiredLeases, At
  <2>2. task[t].es \in TerminalStates => task'[t] = task[t]
    BY <1>3, Disjoint DEF Recovers, recoverExpiredLeases
  <2>3. QED BY <2>1, <2>2
<1>4. CASE At(w, "apply")
  <2>1. PICK r : WriteTask(worker[w].t, r) /\ worker[w].t \in Tasks
    BY <1>4, Applies DEF applyRunResult
  <2>2. CASE t = worker[w].t
    BY <1>4, <2>2, Applies
  <2>3. CASE t # worker[w].t
    BY <2>1, <2>3, Written
  <2>4. QED BY <2>2, <2>3
<1>5. CASE (GivesUp(w) \/ Pauses(w) \/ Takes(w) \/ Marks(w) \/ LetsGo(w)) /\ ~At(w, "apply")
  <2>1. PICK u \in Tasks : u = worker[w].t
    BY <1>5, Working
  <2>2. CASE t # u
    BY <1>5, <2>1, <2>2, Written DEF GivesUp, Pauses, Takes, Marks, LetsGo
  <2>3. CASE t = u /\ GivesUp(w)
    BY <1>5, <2>1, <2>3, Written, Disjoint DEF GivesUp
  <2>4. CASE t = u /\ (Pauses(w) \/ Takes(w))
    BY <1>5, <2>1, <2>4, Disjoint DEF Pauses, Takes
  <2>5. CASE t = u /\ (Marks(w) \/ LetsGo(w))
    <3>1. Holds(w, t)
      BY <2>1, <2>5 DEF Marks, LetsGo, At, Holds, HoldingPcs
    <3>2. QED BY <1>5, <3>1, Disjoint DEF ClaimOf, InHand
  <2>6. QED BY <1>5, <2>2, <2>3, <2>4, <2>5
<1>6. QED BY <1>1, <1>2, <1>3, <1>4, <1>5 DEF TickEffect

LEMMA TickCounts ==
    ASSUME TypeInv, Solo, NEW w \in Workers, TickStep(w), NEW t \in Tasks,
           t \notin External => Unanswered(t) /\ ClaimOf(t),
           task[t].due = None, FireOf(t)
    PROVE  FireOf(t)'
<1>1. /\ worker[w].pc # "idle"
      /\ \A v \in Workers \ {w} : ~Holds(v, t) /\ ~Holds(v, t)'
  BY TickKeepsLock, OthersStay, Holders DEF Others
<1>2. /\ AtEnd(t) <=> Holds(w, t) /\ Ending(w)
      /\ AtEnd(t)' <=> Holds(w, t)' /\ Ending(w)'
  BY <1>1 DEF AtEnd
<1>3. /\ Reminded(t) => Reminded(t)'
      /\ crashes' = crashes /\ crashes \in Nat /\ fired[t] \in Nat
  BY TickDates, TickFires DEF Reminded, TypeInv, CountersInv
<1>4. Holds(w, t) => worker[w].pc \in HoldingPcs /\ t = worker[w].t
  BY DEF Holds
<1>5. Holds(w, t)' => worker'[w].pc \in HoldingPcs /\ t = worker'[w].t
  BY DEF Holds
<1>6. Holds(w, t)' => t = worker[w].t
  <2>1. Keeping(w) \/ LettingGo(w) \/ Taking(w)
    BY TickEffects DEF TickEffect, Recovers, GivesUp, Pauses, Takes, Marks, LetsGo, Leaves
  <2>2. QED BY <1>4, <2>1 DEF Keeping, LettingGo, Taking
\* A firing begins the end of the execution.
<1>7. \/ fired'[t] = fired[t]
      \/ /\ fired'[t] = Bump(fired[t]) /\ Bump(fired[t]) \in 0 .. fired[t] + 1
         /\ Holds(w, t) /\ Holds(w, t)' /\ ~Ending(w) /\ Ending(w)'
         /\ worker[w].pc \in {"deliver", "route"}
  <2>1. fired \in [Tasks -> 0 .. MaxFired] /\ Bump(fired[t]) \in 0 .. fired[t] + 1
    BY DEF TypeInv, CountersInv, Bump
  <2>2. CASE fired'[t] # fired[t]
    <3>1. /\ t = worker[w].t /\ worker'[w].t = t /\ fired'[t] = Bump(fired[t])
          /\ \/ At(w, "deliver") /\ worker'[w].pc = "remindfin"
             \/ /\ At(w, "route") /\ worker'[w].pc = "apply"
                /\ t \notin External \/ worker'[w].out.clear
      BY <2>1, <2>2, TickFires
    <3>2. Holds(w, t) /\ Holds(w, t)' /\ ~Ending(w) /\ Ending(w)'
      BY <3>1 DEF Holds, HoldingPcs, Ending, At
    <3>3. QED BY <2>1, <3>1, <3>2 DEF At
  <2>3. QED BY <2>2
\* The schedule is not taken back but by the last statement of its execution.
<1>8. (Holds(w, t) => worker[w].pc \in RemindSide) => (Ended(t) => Ended(t)')
  <2>1. ASSUME Holds(w, t) => worker[w].pc \in RemindSide
        PROVE  task'[t].sched = task[t].sched
    <3>1. ~(worker[w].pc \in {"wait", "apply"} /\ t = worker[w].t)
      BY <2>1 DEF Holds, HoldingPcs, RemindSide
    <3>2. QED BY <3>1, TickDates
  <2>2. t \notin External => (task[t].es \in TerminalStates => task'[t].es \in TerminalStates)
    BY TickEnds
  <2>3. QED BY <2>1, <2>2 DEF Ended
<1>9. CASE ~Holds(w, t)
  <2>1. fired'[t] = fired[t] /\ ~AtEnd(t)
    BY <1>2, <1>7, <1>9
  <2>2. Counted(t)'
    BY <1>3, <1>8, <1>9, <2>1, Counts DEF FireOf
  <2>3. ASSUME Holds(w, t)'
        PROVE  IF worker'[w].pc \in RemindSide
               THEN ~Reminded(t)'
               ELSE fired'[t] <= crashes' + Used(Reminded(t)') + Used(Ending(w)')
    <3>1. worker[w].pc \notin HoldingPcs
      BY <1>6, <1>9, <2>3 DEF Holds
    <3>2. CASE worker'[w].pc \in RemindSide
      <4>1. At(w, "remindcas") /\ CanClaimReminder(t, worker[w].now)
        BY <1>6, <2>3, <3>1, <3>2, TickSides DEF RemindSide, HoldingPcs
      <4>2. ~Reminded(t)
        BY <4>1 DEF CanClaimReminder, ReminderDue, Passed, Reminded
      <4>3. ~Reminded(t)'
        BY <4>1, <4>2, TickDates DEF Reminded, At
      <4>4. QED BY <3>2, <4>3
    <3>3. CASE worker'[w].pc \notin RemindSide
      <4>1. At(w, "schedcas") /\ CanClaimScheduled(t, worker[w].now)
        BY <1>5, <1>6, <2>3, <3>1, <3>3, TickSides DEF SchedSide
      <4>2. ~Ended(t)
        BY <4>1, Disjoint DEF CanClaimScheduled, Scannable, Passed, Ended
      <4>3. fired[t] <= crashes + Used(Reminded(t))
        BY <1>3, <2>1, <4>2 DEF FireOf, Counted, Used
      <4>4. QED BY <1>3, <2>1, <3>3, <4>3 DEF Used
    <3>4. QED BY <3>2, <3>3
  <2>4. QED BY <1>1, <2>2, <2>3 DEF FireOf
<1>10. CASE Holds(w, t) /\ worker[w].pc \in RemindSide
  <2>1. ~Reminded(t) /\ Counted(t) /\ (Ended(t) => Ended(t)')
    BY <1>8, <1>10 DEF FireOf
  <2>2. Ending(w) <=> At(w, "remindfin")
    BY <1>10 DEF Ending, RemindSide, At
  <2>3. At(w, "remindfin") => Reminded(t)'
    BY <1>4, <1>10, TickDates DEF Reminded
  <2>4. Counted(t)'
    BY <1>2, <1>3, <1>7, <1>10, <2>1, <2>2, <2>3, Counts
  <2>5. ASSUME Holds(w, t)'
        PROVE  worker'[w].pc \in RemindSide /\ ~Reminded(t)'
    <3>1. worker'[w].pc \in RemindSide
      BY <1>5, <1>10, <2>5, TickSides DEF SchedSide, RemindSide, At
    <3>2. ~At(w, "remindfin")
      BY <1>10, <3>1, TickSides DEF RemindSide, At
    <3>3. QED BY <2>1, <3>1, <3>2, TickDates DEF Reminded
  <2>6. QED BY <1>1, <2>4, <2>5 DEF FireOf
<1>11. CASE Holds(w, t) /\ worker[w].pc \notin RemindSide
  <2>1. fired[t] <= crashes + Used(Reminded(t)) + Used(Ending(w))
    BY <1>11 DEF FireOf
  <2>2. CASE Holds(w, t)'
    <3>1. worker'[w].pc \notin RemindSide /\ worker[w].pc \notin {"wait", "apply"}
      BY <1>4, <1>5, <1>11, <2>2, TickSides DEF SchedSide, RemindSide, HoldingPcs, At
    <3>2. ~Ending(w)
      BY <1>11, <3>1 DEF Ending, At, RemindSide
    <3>3. fired'[t] <= crashes' + Used(Reminded(t)') + Used(Ending(w)')
      BY <1>3, <1>7, <2>1, <3>2 DEF Used
    <3>4. Counted(t)' <=> fired'[t] <= crashes' + Used(Reminded(t)') + Used(Ended(t)') + Used(Ending(w)')
      BY <1>2, <2>2 DEF Counted, Used
    <3>5. Counted(t)'
      <4>1. /\ Used(Ended(t)') \in {0, 1} /\ Used(Reminded(t)') \in {0, 1}
            /\ Used(Ending(w)') \in {0, 1} /\ fired'[t] \in Nat
        BY <1>3, <1>7 DEF Used
      <4>2. QED BY <1>3, <3>3, <3>4, <4>1
    <3>6. QED BY <1>1, <3>1, <3>3, <3>5 DEF FireOf
  <2>3. CASE ~Holds(w, t)'
    <3>1. fired'[t] = fired[t]
      BY <1>7, <2>3
    <3>2. Ending(w) => Ended(t)'
      BY <1>4, <1>11, Applies DEF Ending, Ended, At, RemindSide
    <3>3. Counted(t)'
      <4>1. Ending(w) \in BOOLEAN
        BY DEF Ending
      <4>2. QED BY <1>3, <2>1, <3>1, <3>2, <4>1, Spent
    <3>4. QED BY <1>1, <2>3, <3>3 DEF FireOf
  <2>4. QED BY <2>2, <2>3
<1>12. QED BY <1>9, <1>10, <1>11

\* Steps that change no date that counts, fire nothing and claim nothing.
LEMMA OtherStepsCount ==
    ASSUME TypeInv, NEW t \in Tasks, task[t].due = None => FireOf(t),
           task'[t].due = None, task'[t].due = task[t].due,
           task'[t].rem = task[t].rem, Ended(t) => Ended(t)',
           \A w \in Workers : Holds(w, t)' => Holds(w, t) /\ worker'[w].pc = worker[w].pc
                                             /\ worker'[w].t = worker[w].t
                                             /\ worker'[w].out = worker[w].out,
           UNCHANGED fired, crashes' \in Nat,
           \/ crashes' = crashes + 1
           \/ /\ crashes' = crashes
              /\ \A w \in Workers : Holds(w, t) => Holds(w, t)'
    PROVE  FireOf(t)'
<1>1. (Reminded(t)' <=> Reminded(t)) /\ crashes \in Nat /\ fired[t] \in Nat
  BY DEF Reminded, TypeInv, CountersInv
<1>2. \A w \in Workers : Holds(w, t)' => (Ending(w)' <=> Ending(w))
  BY DEF Ending, At
<1>3. crashes' = crashes => (AtEnd(t) => AtEnd(t)')
  BY <1>1, <1>2 DEF AtEnd
<1>4. Counted(t)
  BY DEF FireOf
<1>5. Counted(t)'
  BY <1>1, <1>3, <1>4, Counts
<1>6. ASSUME NEW w \in Workers, Holds(w, t)'
      PROVE  IF worker'[w].pc \in RemindSide
             THEN ~Reminded(t)'
             ELSE fired'[t] <= crashes' + Used(Reminded(t)') + Used(Ending(w)')
  <2>1. CASE worker[w].pc \in RemindSide
    BY <1>1, <1>6, <2>1 DEF FireOf
  <2>2. CASE worker[w].pc \notin RemindSide
    <3>1. fired[t] <= crashes + Used(Reminded(t)) + Used(Ending(w))
      BY <1>6, <2>2 DEF FireOf
    <3>2. fired'[t] <= crashes' + Used(Reminded(t)') + Used(Ending(w)')
      BY <1>1, <1>2, <1>6, <3>1 DEF Used
    <3>3. QED BY <1>6, <2>2, <3>2
  <2>3. QED BY <2>1, <2>2
<1>7. QED BY <1>5, <1>6 DEF FireOf

LEMMA NextFire ==
    ASSUME TypeInv, RouteInv, ClaimInv, FireInv, [Next]_vars
    PROVE  FireInv'
<1>1. SUFFICES ASSUME Undisturbed', NEW t \in Tasks, task'[t].due = None
               PROVE  FireOf(t)'
  BY DEF FireInv
<1>2. /\ drops' = 0 /\ Solo /\ ~Patching
      /\ t \notin External => Unanswered(t) /\ ClaimOf(t)
      /\ task[t].due = None => FireOf(t)
      /\ crashes \in Nat
      /\ \A r : \A w \in Workers : SetWorker(w, r) => worker'[w] = r
  BY <1>1, NextLock
  DEF RouteInv, Unanswered, ClaimInv, FireInv, Undisturbed, TypeInv, CountersInv, WorkerInv, SetWorker
<1>3. ASSUME NEW w \in Workers, TickStep(w)
      PROVE  FireOf(t)'
  <2>1. task[t].due = None
    BY <1>1, <1>3, TickDates
  <2>2. QED BY <1>2, <1>3, <2>1, TickCounts
<1>4. ASSUME NEW w \in Workers, StartTick(w) \/ Crash(w) \/ LockLost(w)
      PROVE  FireOf(t)'
  <2>1. /\ \A v \in Workers \ {w} : worker'[v] = worker[v]
        /\ UNCHANGED <<task, fired>>
    BY <1>4, OthersStay DEF StartTick, Crash, LockLost, rowVars
  <2>2. /\ \A v \in Workers \ {w} : Holds(v, t)' <=> Holds(v, t)
        /\ Ended(t)' <=> Ended(t)
    BY <2>1 DEF Holds, Ended
  <2>3. CASE StartTick(w)
    <3>1. [IdleWorker EXCEPT !.pc = "recover", !.now = clock].pc = "recover"
      BY DEF IdleWorker
    <3>2. worker[w].pc = "idle" /\ worker'[w].pc = "recover" /\ crashes' = crashes
      BY <1>2, <2>3, <3>1 DEF StartTick, At, NoBudget
    <3>3. ~Holds(w, t) /\ ~Holds(w, t)'
      BY <3>2 DEF Holds, HoldingPcs
    <3>4. QED BY <1>1, <1>2, <2>1, <2>2, <3>2, <3>3, OtherStepsCount
  <2>4. CASE Crash(w)
    <3>1. worker'[w].pc = "idle" /\ crashes' = crashes + 1
      BY <2>4, Moves DEF Crash, IdleWorker
    <3>2. ~Holds(w, t)'
      BY <3>1 DEF Holds, HoldingPcs
    <3>3. QED BY <1>1, <1>2, <2>1, <2>2, <3>1, <3>2, OtherStepsCount
  <2>5. ~LockLost(w)
    BY <1>2 DEF LockLost, TypeInv, CountersInv
  <2>6. QED BY <1>4, <2>3, <2>4, <2>5
<1>5. ASSUME NEW u \in Tasks, LeaseExpires(u)
      PROVE  FireOf(t)'
  <2>1. task[u] \in TaskRow
    BY DEF TypeInv, TaskInv
  <2> DEFINE r == [task[u] EXCEPT !.lease = "expired"]
  <2>2. r.due = task[u].due /\ r.rem = task[u].rem /\ r.sched = task[u].sched
    BY <2>1 DEF TaskRow
  <2>3. WriteTask(u, r) /\ UNCHANGED <<fired, crashes>>
    BY <1>5 DEF LeaseExpires, OnlyTask, SameLock
  <2> HIDE DEF r
  <2>4. /\ task'[t].due = task[t].due /\ task'[t].rem = task[t].rem
        /\ task'[t].sched = task[t].sched
    BY <2>2, <2>3, Written
  <2>5. task'[t].es = task[t].es
    BY <1>5, Expires
  <2>6. \A w \in Workers : /\ Holds(w, t)' <=> Holds(w, t)
                           /\ worker'[w].pc = worker[w].pc
                           /\ worker'[w].t = worker[w].t
                           /\ worker'[w].out = worker[w].out
    BY <1>5, Expires
  <2> USE DEF Ended
  <2>7. QED BY <1>1, <1>2, <2>3, <2>4, <2>5, <2>6, OtherStepsCount
\* An answer changes no reminder, and is about a task of an executor.
<1>6. ASSUME task'[t].due = task[t].due, task'[t].rem = task[t].rem,
             Ended(t) => Ended(t)',
             UNCHANGED <<worker, fired, crashes>>
      PROVE  FireOf(t)'
  <2>1. \A w \in Workers : Holds(w, t)' <=> Holds(w, t)
    BY <1>6 DEF Holds
  <2>2. QED BY <1>1, <1>2, <1>6, <2>1, OtherStepsCount
<1>7. ASSUME NEW a \in Agents, NEW d \in DispatchIds, AckStep(a, d), UNCHANGED engineVars
      PROVE  FireOf(t)'
  <2>1. UNCHANGED <<worker, fired, crashes>> /\ (acknowledge(a, d) \/ UNCHANGED task)
    BY <1>7
    DEF AckStep, ReceiveDispatch, LoseDispatch, ExecuteAction, ReceiveAnswer,
        LoseExchange, FailHandler, RestartExecutor, applyClientAck, acknowledge,
        MarkAcknowledged, ReadAckedTask, rowVars, engineVars, OnlyTask
  <2>2. ASSUME acknowledge(a, d)
        PROVE  /\ task'[t].due = task[t].due /\ task'[t].rem = task[t].rem
               /\ Ended(t) => Ended(t)'
    <3>1. disp[d].task \in External
      BY <2>2, Acks DEF RouteInv
    <3>2. CASE t = disp[d].task
      BY <2>2, <3>1, <3>2, Acks, Written DEF Ended
    <3>3. CASE t # disp[d].task
      BY <2>2, <3>3, Acks, Written DEF Ended
    <3>4. QED BY <3>2, <3>3
  <2>3. CASE UNCHANGED task
    BY <1>6, <2>1, <2>3 DEF Ended
  <2>4. QED BY <1>6, <2>1, <2>2, <2>3
<1>8. CASE ClockTick \/ UNCHANGED vars
  BY <1>6, <1>8 DEF Ended, ClockTick, engineVars, vars
<1>9. QED
  BY <1>2, <1>3, <1>4, <1>5, <1>7, <1>8 DEF Next, EngineStep, Patching

\* A task fires once for its reminder and once for its schedule, and once more
\* for each tick that is cut short between a firing and its write, for any
\* number of tasks, replicas and crashes and whatever executors answer: until
\* MySQL drops a leader's lock or a user patches a task, if it has no due date.
THEOREM FiresOnce == Spec => []OncePerDate
<1>1. Init => RouteInv /\ ClaimInv /\ FireInv
  <2> SUFFICES ASSUME Init PROVE FireInv
    BY InitRoute, InitClaim
  <2>1. crashes = 0 /\ \A t \in Tasks : fired[t] = 0
    BY DEF Init, RowsInit, EngineInit
  <2>2. \A w \in Workers, t \in Tasks : ~Holds(w, t)
    BY DEF Init, EngineInit, IdleWorker, Holds, HoldingPcs
  <2>3. \A t \in Tasks : Counted(t)
    BY <2>1 DEF Counted, Used
  <2>4. QED BY <2>2, <2>3 DEF FireInv, FireOf
<1>2. TypeInv /\ FireInv => OncePerDate
  <2> SUFFICES ASSUME TypeInv, NEW t \in Tasks, FireOf(t)
               PROVE  fired[t] <= crashes
                        + Used(task[t].rem = None)
                        + Used(task[t].sched = None \/ task[t].es \in TerminalStates)
                        + Used(\E w \in Workers : Holds(w, t)
                                  /\ worker[w].pc \in {"remindfin", "apply"})
    BY DEF FireInv, OncePerDate
  <2>1. fired[t] \in Nat /\ crashes \in Nat
    BY DEF TypeInv, CountersInv
  <2>2. /\ Ended(t) => task[t].sched = None \/ task[t].es \in TerminalStates
        /\ AtEnd(t) => \E w \in Workers : Holds(w, t)
                                       /\ worker[w].pc \in {"remindfin", "apply"}
    BY DEF Ended, AtEnd, Ending, At
  <2>3. QED BY <2>1, <2>2 DEF FireOf, Counted, Reminded, Used
<1>3. TypeInv /\ RouteInv /\ ClaimInv /\ FireInv /\ [Next]_vars
      => RouteInv' /\ ClaimInv' /\ FireInv'
  BY NextRoute, NextClaim, NextFire
<1>4. QED BY <1>1, <1>2, <1>3, InitTypes, NextTypes, PTL DEF Spec

-----------------------------------------------------------------------------
(***************************************************************************)
(* Part 11: a claim belongs to a replica that works on it.  The one way to *)
(* forget a claim without a crash is the duplicate key of an insert, whose *)
(* exception ends the tick: under one leader the row in its way was there  *)
(* when the tick looked for it, so that its dispatch had been answered.    *)
(***************************************************************************)
\* No claim is left behind by a tick that lives: a task in a claimed state is
\* in the hands of a replica, and a replica at work has its task claimed.
ClaimsAreHeld ==
    Undisturbed /\ crashes = 0 =>
        \A t \in Tasks : Unanswered(t) =>
            (task[t].es \in ClaimedStates <=> \E w \in Workers : Holds(w, t))

\* What a replica at its insert has in its way has been answered.
ClearAhead(w) ==
    At(w, "insert") =>
        \A d \in Rows :
            SameRequest(d, worker[w].t, worker[w].snap.sched) =>
                disp[d].status # "awaiting_client_ack"

HeldClaim(t) ==
    Unanswered(t) /\ task[t].es \in ClaimedStates => \E w \in Workers : Holds(w, t)

OwnInv ==
    /\ ClaimInv
    /\ drops = 0 => \A w \in Workers : ClearAhead(w)
    /\ Undisturbed /\ crashes = 0 => \A t \in Tasks : HeldClaim(t)

\* A tick comes to its insert from the findOne, and it found nothing unanswered.
LEMMA TickInserts ==
    ASSUME TypeInv, NEW w \in Workers, TickStep(w), worker'[w].pc = "insert"
    PROVE  ClearAhead(w)' /\ At(w, "begin")
<1>1. worker'[w].t = worker[w].t /\ (BeginExternal(w) \/ At(w, "begin"))
  BY TickBegins
<1>2. BeginExternal(w) => worker'[w].pc = "begin"
  BY Moves DEF BeginExternal
<1>3. At(w, "begin")
  BY <1>1, <1>2
<1>4. FindDispatch(w)
  <2>1. ~(\/ recoverExpiredLeases(w) \/ ScanAckWaits(w) \/ NextAckWait(w)
          \/ markTimedOutRead(w) \/ markTimedOutWrite(w) \/ FailAckWait(w)
          \/ SelectApprovalGated(w) \/ promoteApprovalGated(w)
          \/ SelectReminder(w) \/ tryClaimForReminder(w) \/ ReadReminder(w)
          \/ deliver(w) \/ finalizeReminderDelivery(w) \/ SelectScheduled(w))
    BY <1>3
    DEF recoverExpiredLeases, ScanAckWaits, NextAckWait, markTimedOutRead,
        markTimedOutWrite, FailAckWait, SelectApprovalGated, promoteApprovalGated,
        SelectReminder, tryClaimForReminder, ReadReminder, deliver,
        finalizeReminderDelivery, SelectScheduled, At
  <2>2. ~(\/ tryClaimForScheduled(w) \/ MarkRunning(w) \/ ReadRunning(w)
          \/ PerformRoute(w) \/ RefuseRoute(w) \/ BeginExternal(w)
          \/ InsertDispatch(w) \/ EmitDispatch(w) \/ AwaitAck(w)
          \/ applyRunResult(w) \/ EndTick(w))
    BY <1>3
    DEF tryClaimForScheduled, MarkRunning, ReadRunning, PerformRoute, RefuseRoute,
        BeginExternal, InsertDispatch, EmitDispatch, AwaitAck, applyRunResult,
        EndTick, At
  <2>3. QED BY <2>1, <2>2 DEF TickStep
<1> DEFINE t == worker[w].t
           key == worker[w].snap.sched
           Unsent == {d \in Rows : SameRequest(d, t, key) /\ disp[d].status
                          \in {"awaiting_client_ack", "accepted", "completed"}}
<1>5. Unsent = {} /\ Goto(w, "insert") /\ UNCHANGED disp
  <2>1. Finish(w, "blocked", FALSE) => worker'[w].pc = "apply"
    BY Moves
  <2>2. ASSUME NEW d, SetWorker(w, [worker[w] EXCEPT !.pc = "wait", !.did = d])
        PROVE  FALSE
    <3>. DEFINE r == [worker[w] EXCEPT !.pc = "wait", !.did = d]
    <3>1. worker \in [Workers -> WorkerRec]
      BY DEF TypeInv, WorkerInv
    <3>2. r.pc = "wait"
      BY <3>1 DEF WorkerRec
    <3>3. worker' = [worker EXCEPT ![w] = r]
      BY <2>2 DEF SetWorker
    <3>. HIDE DEF r
    <3>4. worker'[w] = r
      BY <3>1, <3>3
    <3>5. QED BY <3>2, <3>4
  <2>3. UNCHANGED disp
    BY <1>4 DEF FindDispatch
  <2>4. QED BY <1>4, <2>1, <2>2, <2>3 DEF FindDispatch
<1>6. worker'[w].t = t /\ worker'[w].snap = worker[w].snap
  BY <1>5 DEF Goto, SetWorker, TypeInv, WorkerInv, WorkerRec
<1>7. Rows' = Rows
  BY <1>5 DEF Rows
<1>8. ASSUME NEW d \in Rows, SameRequest(d, t, key)
      PROVE  disp[d].status # "awaiting_client_ack"
  BY <1>5, <1>8
<1> HIDE DEF t, key, Unsent
<1>9. QED
  BY <1>3, <1>5, <1>6, <1>7, <1>8 DEF ClearAhead, SameRequest, t, key

\* What is in the way of a replica at its insert stays answered, and under one
\* leader nobody else inserts.
LEMMA NextClear ==
    ASSUME TypeInv, Solo, [Next]_vars, NEW w \in Workers, ClearAhead(w)
    PROVE  ClearAhead(w)'
<1>1. SUFFICES ASSUME worker'[w].pc = "insert", ~TickStep(w)
               PROVE  ClearAhead(w)'
  BY TickInserts DEF ClearAhead, At
<1>2. \A r : SetWorker(w, r) => worker'[w] = r
  BY DEF TypeInv, WorkerInv, SetWorker
<1>3. ~StartTick(w) /\ ~Crash(w)
  <2>1. [IdleWorker EXCEPT !.pc = "recover", !.now = clock].pc = "recover"
    BY DEF IdleWorker
  <2>2. StartTick(w) => worker'[w].pc = "recover"
    BY <1>2, <2>1 DEF StartTick
  <2>3. Crash(w) => worker'[w].pc = "idle"
    BY Moves DEF Crash, IdleWorker
  <2>4. QED BY <1>1, <2>2, <2>3
<1>4. /\ worker'[w].pc = worker[w].pc
      /\ worker'[w].t = worker[w].t
      /\ worker'[w].snap = worker[w].snap
  <2>1. CASE \E v \in Workers \ {w} : TickStep(v) \/ StartTick(v) \/ Crash(v) \/ LockLost(v)
    BY <2>1, OthersStay
  <2>2. CASE \E t \in Tasks : LeaseExpires(t)
    <3>1. /\ [worker[w] EXCEPT !.late = TRUE].pc = worker[w].pc
          /\ [worker[w] EXCEPT !.late = TRUE].t = worker[w].t
          /\ [worker[w] EXCEPT !.late = TRUE].snap = worker[w].snap
      BY DEF TypeInv, WorkerInv, WorkerRec
    <3>2. \/ worker'[w] = [worker[w] EXCEPT !.late = TRUE]
          \/ worker'[w] = worker[w]
      BY <2>2 DEF LeaseExpires
    <3>3. QED BY <3>1, <3>2
  <2>3. CASE UNCHANGED worker
    BY <2>3
  <2>4. QED
    BY <1>1, <1>3, <2>1, <2>2, <2>3, PatchLeaves
    DEF Next, EngineStep, LockLost, ClockTick, engineVars, vars
<1>5. \A v \in Workers : ~TickStep(v)
  BY <1>1, <1>4, TickKeepsLock DEF Solo
<1>6. Rows' = Rows
  <2>1. CASE \E a \in Agents, d \in DispatchIds : AckStep(a, d)
    <3>1. UNCHANGED disp \/ \E d \in Rows, s \in AckStates : AnsweredWith(d, s)
      BY <2>1, AckWritesDisp
    <3>2. QED
      BY <3>1 DEF AnsweredWith, Rows, TypeInv, DispInv, DispatchRow, NoRow, AckStates
  <2>2. CASE UNCHANGED disp
    BY <2>2 DEF Rows
  <2>3. QED
    BY <1>5, <2>1, <2>2, PatchLeaves
    DEF Next, EngineStep, StartTick, Crash, LockLost, LeaseExpires, ClockTick,
        OnlyTask, rowVars, vars
<1>7. QED
  BY <1>1, <1>4, <1>6, RowsStay DEF ClearAhead, SameRequest, At

\* Where a tick lets go of a task: a write that ends the claim, or the exception
\* of the insert.
LEMMA TickDrops ==
    ASSUME TypeInv, NEW w \in Workers, TickStep(w),
           NEW t \in Tasks, Holds(w, t), ~Holds(w, t)'
    PROVE  \/ task'[t].es \notin ClaimedStates
           \/ /\ At(w, "insert")
              /\ \E d \in Rows : SameRequest(d, t, worker[w].snap.sched)
<1> USE DEF At
<1>0. /\ worker[w].t = t /\ worker[w].pc \in HoldingPcs
      /\ worker'[w].pc \notin HoldingPcs \/ worker'[w].t # t
  BY DEF Holds
<1>1. /\ worker[w] \in WorkerRec /\ task[t] \in TaskRow
      /\ \A r : SetWorker(w, r) => worker'[w] = r
  BY Facts DEF TypeInv, TaskInv, WorkerInv, SetWorker
<1>2. ~(\/ recoverExpiredLeases(w) \/ ScanAckWaits(w) \/ NextAckWait(w)
        \/ markTimedOutRead(w) \/ markTimedOutWrite(w) \/ FailAckWait(w)
        \/ SelectApprovalGated(w) \/ promoteApprovalGated(w)
        \/ SelectReminder(w) \/ tryClaimForReminder(w)
        \/ SelectScheduled(w) \/ tryClaimForScheduled(w) \/ EndTick(w))
  BY <1>0
  DEF recoverExpiredLeases, ScanAckWaits, NextAckWait, markTimedOutRead,
      markTimedOutWrite, FailAckWait, SelectApprovalGated, promoteApprovalGated,
      SelectReminder, tryClaimForReminder, SelectScheduled, tryClaimForScheduled,
      EndTick, HoldingPcs
<1>3. ~(deliver(w) \/ MarkRunning(w) \/ BeginExternal(w) \/ EmitDispatch(w))
  <2>1. ~ \E pc \in HoldingPcs : Goto(w, pc)
    BY <1>0, Moves
  <2>2. QED
    BY <2>1 DEF deliver, MarkRunning, BeginExternal, EmitDispatch, HoldingPcs
<1>4. ~(ReadReminder(w) \/ ReadRunning(w))
  <2>1. ASSUME NEW pc \in HoldingPcs, NEW sn,
               SetWorker(w, [worker[w] EXCEPT !.pc = pc, !.snap = sn])
        PROVE  FALSE
    <3>1. /\ [worker[w] EXCEPT !.pc = pc, !.snap = sn].pc = pc
          /\ [worker[w] EXCEPT !.pc = pc, !.snap = sn].t = t
      BY <1>0, <1>1 DEF WorkerRec
    <3>2. QED BY <1>0, <1>1, <2>1, <3>1
  <2>2. QED BY <2>1 DEF ReadReminder, ReadRunning, HoldingPcs
<1>5. ~(PerformRoute(w) \/ RefuseRoute(w))
  <2>1. ~ \E es, clear : Finish(w, es, clear)
    BY <1>0, Moves DEF HoldingPcs
  <2>2. QED BY <2>1 DEF PerformRoute, RefuseRoute
<1>6. ASSUME NEW pc \in HoldingPcs, NEW d,
             SetWorker(w, [worker[w] EXCEPT !.pc = pc, !.did = d])
      PROVE  FALSE
  <2>1. /\ [worker[w] EXCEPT !.pc = pc, !.did = d].pc = pc
        /\ [worker[w] EXCEPT !.pc = pc, !.did = d].t = t
    BY <1>0, <1>1 DEF WorkerRec
  <2>2. QED BY <1>0, <1>1, <1>6, <2>1
<1>7. ~FindDispatch(w)
  <2>1. ~Finish(w, "blocked", FALSE) /\ ~Goto(w, "insert")
    BY <1>0, Moves DEF HoldingPcs
  <2>2. QED BY <1>6, <2>1 DEF FindDispatch, HoldingPcs
<1>8. CASE InsertDispatch(w)
  BY <1>0, <1>6, <1>8 DEF InsertDispatch, HoldingPcs
<1>9. CASE finalizeReminderDelivery(w) \/ AwaitAck(w) \/ applyRunResult(w)
  <2>1. CASE finalizeReminderDelivery(w)
    <3>1. task'[t].es = "pending"
      BY <1>0, <1>1, <2>1
      DEF finalizeReminderDelivery, WriteTask, TypeInv, TaskInv, TaskRow
    <3>2. QED BY <3>1 DEF ClaimedStates
  <2>2. CASE AwaitAck(w)
    <3>1. task'[t].es = "waiting_input"
      BY <1>0, <1>1, <2>2 DEF AwaitAck, WriteTask, TypeInv, TaskInv, TaskRow
    <3>2. QED BY <3>1 DEF ClaimedStates
  <2>3. CASE applyRunResult(w)
    <3>1. task'[t].es = worker[w].out.es
      BY <1>0, <1>1, <2>3 DEF applyRunResult, WriteTask, TypeInv, TaskInv, TaskRow
    <3>2. worker[w].out.es \in {"completed", "failed", "blocked"}
      BY <1>1 DEF WorkerRec, Outcomes
    <3>3. QED BY <3>1, <3>2 DEF ClaimedStates
  <2>4. QED BY <1>9, <2>1, <2>2, <2>3
<1>10. QED
  BY <1>2, <1>3, <1>4, <1>5, <1>7, <1>8, <1>9 DEF TickStep

\* A crash is counted, and nothing but a crash.
LEMMA NextCrashes ==
    ASSUME TypeInv, [Next]_vars, crashes' = 0
    PROVE  crashes = 0 /\ \A w \in Workers : ~Crash(w)
<1>1. crashes \in Nat
  BY DEF TypeInv, CountersInv
<1>2. \A w \in Workers : ~Crash(w)
  BY <1>1 DEF Crash
<1>3. \A w \in Workers : TickStep(w) => crashes' = crashes
  BY TickFires
<1>4. QED
  BY <1>2, <1>3, PatchLeaves
  DEF Next, EngineStep, StartTick, LockLost, LeaseExpires, ClockTick, NoBudget,
      SameLock, engineVars, vars

\* A step of a tick: the claims of its replica, and those of the others.
LEMMA TickOwns ==
    ASSUME TypeInv, NEW w \in Workers, TickStep(w), ClearAhead(w),
           NEW t \in Tasks, HeldClaim(t), Unanswered(t), Unanswered(t)'
    PROVE  HeldClaim(t)'
<1>1. SUFFICES ASSUME task'[t].es \in ClaimedStates
               PROVE  \E v \in Workers : Holds(v, t)'
  BY DEF HeldClaim
<1>2. TickEffect(w)
  BY TickEffects
<1>3. CASE task[t].es \in ClaimedStates
  <2>1. PICK v \in Workers : Holds(v, t)
    BY <1>3 DEF HeldClaim
  <2>2. CASE v = w
    <3>1. ASSUME NEW d \in Rows, SameRequest(d, t, worker[w].snap.sched), At(w, "insert")
          PROVE  FALSE
      <4>1. worker[w].t = t
        BY <2>1, <2>2 DEF Holds
      <4>2. disp[d].status # "awaiting_client_ack"
        BY <3>1, <4>1 DEF ClearAhead
      <4>3. disp[d].task = t
        BY <3>1 DEF SameRequest
      <4>4. QED BY <4>2, <4>3 DEF Unanswered
    <3>2. Holds(w, t)'
      BY <1>1, <2>1, <2>2, <3>1, TickDrops
    <3>3. QED BY <3>2
  <2>3. CASE v # w
    <3>1. worker'[v] = worker[v]
      BY <2>3, OthersStay
    <3>2. QED BY <2>1, <3>1 DEF Holds
  <2>4. QED BY <2>2, <2>3
<1>4. CASE task[t].es \notin ClaimedStates
  <2>1. CASE Takes(w) \/ Marks(w)
    <3>1. PICK r : WriteTask(worker[w].t, r)
      BY <2>1 DEF Takes, Marks
    <3>2. worker[w].t = t
      <4>1. worker[w].t \in Tasks
        BY <2>1, Working
      <4>2. t # worker[w].t => task'[t] = task[t]
        BY <3>1, <4>1, Written
      <4>3. QED BY <1>1, <1>4, <4>2
    <3>3. Holds(w, t)'
      BY <2>1, <3>2 DEF Takes, Taking, Marks, Keeping, Holds, At, HoldingPcs
    <3>4. QED BY <3>3
  <2>2. CASE GivesUp(w) \/ Pauses(w) \/ LetsGo(w)
    <3>1. PICK u \in Tasks : u = worker[w].t
      BY <2>2, Working
    <3>2. PICK r : /\ WriteTask(u, r)
                   /\ r.es \in {"pending", "waiting_input", "waiting_approval",
                                "completed", "failed", "blocked"}
      BY <2>2, <3>1 DEF GivesUp, Pauses, LetsGo
    <3>3. r.es \notin ClaimedStates
      BY <3>2 DEF ClaimedStates
    <3>4. QED BY <1>1, <1>4, <3>2, <3>3, Written
  <2>3. CASE Recovers(w)
    <3>1. \/ task'[t] = task[t]
          \/ task'[t] = [task[t] EXCEPT !.es = "pending", !.lease = "none"]
      BY <2>3 DEF Recovers, recoverExpiredLeases
    <3>2. [task[t] EXCEPT !.es = "pending", !.lease = "none"].es = "pending"
      BY DEF TypeInv, TaskInv, TaskRow
    <3>3. QED BY <1>1, <1>4, <3>1, <3>2, Disjoint
  <2>4. CASE Leaves(w)
    BY <1>1, <1>4, <2>4 DEF Leaves
  <2>5. QED BY <1>2, <2>1, <2>2, <2>3, <2>4 DEF TickEffect
<1>5. QED BY <1>3, <1>4

LEMMA NextOwn ==
    ASSUME TypeInv, OwnInv, [Next]_vars
    PROVE  OwnInv'
<1>1. ClaimInv'
  BY NextClaim DEF OwnInv
<1>2. drops' = 0 => \A w \in Workers : ClearAhead(w)'
  BY NextClear, NextLock, CountsOnlyGrow DEF OwnInv, ClaimInv
<1>3. SUFFICES ASSUME Undisturbed', crashes' = 0, NEW t \in Tasks, Unanswered(t)'
               PROVE  HeldClaim(t)'
  BY <1>1, <1>2 DEF OwnInv, HeldClaim
<1>4. /\ Undisturbed /\ ~Patching
      /\ \A w \in Workers : ~Crash(w) /\ ClearAhead(w)
      /\ HeldClaim(t) /\ Unanswered(t)
  BY <1>3, NextLock, NextCrashes, UnansweredBefore DEF OwnInv, ClaimInv, Undisturbed
<1>5. CASE \E w \in Workers : TickStep(w)
  BY <1>3, <1>4, <1>5, TickOwns
\* The other steps claim nothing and let go of nothing.
<1>6. ASSUME \A v \in Workers : Holds(v, t) => Holds(v, t)',
             task'[t].es = task[t].es
      PROVE  HeldClaim(t)'
  BY <1>3, <1>4, <1>6 DEF HeldClaim
<1>7. CASE \E w \in Workers : StartTick(w) \/ LockLost(w)
  <2>1. PICK w \in Workers : StartTick(w) \/ LockLost(w)
    BY <1>7
  <2>2. ~Holds(w, t) \/ UNCHANGED worker
    BY <2>1 DEF StartTick, LockLost, At, Holds, HoldingPcs
  <2>3. \A v \in Workers \ {w} : worker'[v] = worker[v]
    BY <2>1, OthersStay
  <2>4. UNCHANGED task
    BY <2>1 DEF StartTick, LockLost, rowVars
  <2>5. QED BY <1>6, <2>2, <2>3, <2>4 DEF Holds
<1>8. CASE \E u \in Tasks : LeaseExpires(u)
  <2>1. PICK u \in Tasks : LeaseExpires(u)
    BY <1>8
  <2>2. task'[t].es = task[t].es /\ \A v \in Workers : Holds(v, t)' <=> Holds(v, t)
    BY <2>1, Expires
  <2>3. QED BY <1>6, <2>2
<1>9. CASE \E a \in Agents, d \in DispatchIds : acknowledge(a, d) /\ UNCHANGED worker
  <2>1. PICK a \in Agents, d \in DispatchIds : acknowledge(a, d) /\ UNCHANGED worker
    BY <1>9
  <2>2. disp[d].task # t
    BY <1>1, <1>4, <2>1, AckIsRecorded DEF OwnInv, ClaimInv
  <2>3. task'[t] = task[t]
    BY <2>1, <2>2, Acks, Written
  <2>4. QED BY <1>6, <2>1, <2>3 DEF Holds
<1>10. CASE UNCHANGED <<task, worker>>
  BY <1>6, <1>10 DEF Holds
<1>11. ASSUME NEW a \in Agents, NEW d \in DispatchIds, AckStep(a, d), UNCHANGED engineVars
       PROVE  acknowledge(a, d) \/ UNCHANGED task
  BY <1>11
  DEF AckStep, ReceiveDispatch, LoseDispatch, ExecuteAction, ReceiveAnswer,
      LoseExchange, FailHandler, RestartExecutor, applyClientAck,
      MarkAcknowledged, ReadAckedTask, rowVars
<1>12. QED
  BY <1>4, <1>5, <1>7, <1>8, <1>9, <1>10, <1>11
  DEF Next, EngineStep, ClockTick, Patching, engineVars, vars

\* As long as no process dies, MySQL keeps the leaders' locks and no user patches
\* a task, every claim is in the hands of a replica at work, and a replica at
\* work has its task claimed, until the task itself is answered: no path through
\* the tick, an exception of the insert included, leaves a claim to its lease.
THEOREM ClaimsHeld == Spec => []ClaimsAreHeld
<1>1. Init => OwnInv
  <2> SUFFICES ASSUME Init PROVE OwnInv
    OBVIOUS
  <2>1. \A t \in Tasks : task[t].es = "idle"
    BY DEF Init, RowsInit, createTask
  <2>2. \A w \in Workers : worker[w].pc = "idle"
    BY DEF Init, EngineInit, IdleWorker
  <2>3. QED
    BY <2>1, <2>2, InitClaim DEF OwnInv, ClearAhead, HeldClaim, ClaimedStates, At
<1>2. OwnInv => ClaimsAreHeld
  BY DEF OwnInv, ClaimInv, ClaimOf, InHand, HeldClaim, ClaimsAreHeld
<1>3. TypeInv /\ OwnInv /\ [Next]_vars => OwnInv'
  BY NextOwn
<1>4. QED BY <1>1, <1>2, <1>3, InitTypes, NextTypes, PTL DEF Spec
=============================================================================
