--------------------------- MODULE TaskExecution ---------------------------
(***************************************************************************)
(* The task execution plane: the engine's ticks on the API replicas, the   *)
(* executors with the acknowledgement endpoint, and the user's PATCH of a  *)
(* task (WorkspaceProductivityService.updateTask), all on the same rows.   *)
(***************************************************************************)
EXTENDS TaskEngine, DispatchAck

CONSTANTS
    Patches,     \* bound: the PATCH requests of a behaviour
    PatchStates  \* execution states they may name; the endpoint takes them all

ASSUME PatchAssumption == PatchStates \subseteq ExecutionStates

VARIABLE patch  \* the PATCH requests, each with its own copy of a row

(***************************************************************************)
(* row     the row as the request read it                                  *)
(* seen    the row as save() found it before it writes                     *)
(* asked   history: the execution state the request named, if any          *)
(* torn    history: the row changed between save()'s two statements        *)
(* paused  history: it moved its task to waiting_approval                  *)
(***************************************************************************)
PatchPcs == {"new", "read", "found", "done"}

PatchRec == [pc : PatchPcs, t : Tasks \cup {None},
             row : TaskRow \cup {None}, seen : TaskRow \cup {None},
             asked : ExecutionStates \cup {None},
             torn : BOOLEAN, paused : BOOLEAN]

NewPatch == [pc |-> "new", t |-> None, row |-> None, seen |-> None,
             asked |-> None, torn |-> FALSE, paused |-> FALSE]

vars == <<clock, task, disp, inbox, fired, effect, leader, worker, crashes,
          drops, job, patch>>

-----------------------------------------------------------------------------
(***************************************************************************)
(* updateTask reads the whole row, changes it in memory and save()s it.    *)
(* save() first SELECTs the row again and then UPDATEs the columns in      *)
(* which the entity differs from it: the columns the request does not name *)
(* revert to their values at the read.                                     *)
(***************************************************************************)
\* What the request may make of the row it read: any columns it names, of
\* those the endpoint accepts.  A task that was done may be opened again.
Edited(row, asked) ==
    [open : BOOLEAN, es : {IF asked = None THEN row.es ELSE asked},
     appr : BOOLEAN, sched : SchedDates \cup {row.sched},
     rem : RemDates \cup {row.rem}, due : DueDates \cup {row.due},
     lease : {row.lease}, awaiting : {row.awaiting}, did : {row.did}]

Column(e, seen, now) == IF e = seen THEN now ELSE e

\* What the UPDATE makes of the row.  Two leases in force look alike here but
\* are different values in the table; metadata is one column.
Updated(e, seen, now) ==
    LET metadata ==
          Column(<<e.awaiting, e.did>>, <<seen.awaiting, seen.did>>,
                 <<now.awaiting, now.did>>)
        leases ==
          IF e.lease # "none" /\ seen.lease # "none"
          THEN {e.lease, now.lease}
          ELSE {Column(e.lease, seen.lease, now.lease)} IN
    {[open |-> Column(e.open, seen.open, now.open),
      es |-> Column(e.es, seen.es, now.es), lease |-> l,
      appr |-> Column(e.appr, seen.appr, now.appr),
      sched |-> Column(e.sched, seen.sched, now.sched),
      rem |-> Column(e.rem, seen.rem, now.rem),
      due |-> Column(e.due, seen.due, now.due),
      awaiting |-> metadata[1], did |-> metadata[2]] : l \in leases}

PatchAt(p, pc) == patch[p].pc = pc

SetPatch(p, r) == patch' = [patch EXCEPT ![p] = r]

PatchRead(p, t) ==
    /\ PatchAt(p, "new")
    /\ SetPatch(p, [NewPatch EXCEPT !.pc = "read", !.t = t, !.row = task[t]])
    /\ UNCHANGED rowVars /\ UNCHANGED engineVars /\ UNCHANGED job

\* save()'s SELECT.
PatchFind(p) ==
    /\ PatchAt(p, "read")
    /\ SetPatch(p, [patch[p] EXCEPT !.pc = "found", !.seen = task[patch[p].t]])
    /\ UNCHANGED rowVars /\ UNCHANGED engineVars /\ UNCHANGED job

PatchSave(p) ==
    /\ PatchAt(p, "found")
    /\ LET t == patch[p].t IN
         \E asked \in PatchStates \cup {None} :
         \E e \in Edited(patch[p].row, asked) :
         \E row \in Updated(e, patch[p].seen, task[t]) :
            /\ WriteTask(t, row)
            /\ SetPatch(p, [NewPatch EXCEPT
                   !.pc = "done", !.t = t, !.asked = asked,
                   !.torn = task[t] # patch[p].seen,
                   !.paused = /\ row.es = "waiting_approval"
                              /\ task[t].es # "waiting_approval"])
    /\ OnlyTask /\ UNCHANGED engineVars /\ UNCHANGED job

PatchStep(p) == (\E t \in Tasks : PatchRead(p, t)) \/ PatchFind(p) \/ PatchSave(p)

-----------------------------------------------------------------------------
Init ==
    /\ RowsInit
    /\ EngineInit
    /\ AckInit
    /\ patch = [p \in Patches |-> NewPatch]

Next ==
    \/ EngineStep /\ UNCHANGED <<job, patch>>
    \/ /\ \E a \in Agents, d \in DispatchIds : AckStep(a, d)
       /\ UNCHANGED engineVars /\ UNCHANGED patch
    \/ \E p \in Patches : PatchStep(p)

Spec == Init /\ [][Next]_vars

(***************************************************************************)
(* Fairness: setInterval starts a tick every two seconds on each replica   *)
(* and every statement of a tick returns or throws; requests under way are *)
(* served; time passes and leases run out.  Nothing is asked of executors  *)
(* or users, and crashes are never forced.                                 *)
(***************************************************************************)
Fairness ==
    /\ \A w \in Workers :
         /\ WF_vars((StartTick(w) \/ TickStep(w)) /\ UNCHANGED <<job, patch>>)
    /\ \A t \in Tasks : WF_vars(LeaseExpires(t) /\ UNCHANGED <<job, patch>>)
    /\ WF_vars(ClockTick /\ UNCHANGED <<job, patch>>)
    /\ \A a \in Agents, d \in DispatchIds :
         WF_vars(HandlerStep(a, d) /\ UNCHANGED engineVars /\ UNCHANGED patch)

FairSpec == Spec /\ Fairness

TypeOK ==
    /\ RowsTypeOK
    /\ EngineTypeOK
    /\ AckTypeOK
    /\ patch \in [Patches -> PatchRec]

-----------------------------------------------------------------------------
(***************************************************************************)
(* Safety of the dispatch protocol.                                        *)
(***************************************************************************)
\* A task and a slot never get two dispatch rows, whatever number of workers
\* run beginDispatch for them at once (it is not a transaction: findOne, then
\* save, and a unique index).
OneRowPerRequest ==
    \A d, e \in Rows : SameRequest(d, disp[e].task, disp[e].key) => d = e

\* What executors work on is on record: no message, job or performed action
\* is about a dispatch that a crash between emission and insert has lost.
DispatchIsRecorded ==
    \A a \in Agents, d \in DispatchIds :
        (d \in inbox[a] \/ ~JobAt(a, d, "idle") \/ effect[d] # {}) => d \in Rows

\* An agent performs an action only after the server has recorded that the
\* dispatch is no longer unanswered, over lost requests and answers, handler
\* failures and other executors' acknowledgements.
AcceptedBeforeAction ==
    \A a \in Agents \ Browsers, d \in DispatchIds :
        JobAt(a, d, "exec") => disp[d].status # "awaiting_client_ack"

\* A PATCH of t has named this execution state, whatever it was then.
Asked(t, es) ==
    \E p \in Patches :
        PatchAt(p, "done") /\ patch[p].t = t /\ patch[p].asked = es

\* A PATCH of t has mixed its copy into a row that changed under its save().
Torn(t) ==
    \E p \in Patches : PatchAt(p, "done") /\ patch[p].t = t /\ patch[p].torn

\* A task waiting for an executor always has the lease and the flag by which
\* the recovery scan finds it, whoever wrote the row last: ticks, answers and
\* overlapping PATCHes that put whole rows back.  Only a user who names the
\* state, or a row written between the two statements of a save(), breaks it.
WaitsAreLeased ==
    \A t \in Tasks : task[t].es = "waiting_input" =>
        \/ task[t].lease # "none" /\ task[t].awaiting
        \/ Asked(t, "waiting_input") \/ Torn(t)

\* A task is completed only if its work was done: a notification delivered,
\* a workflow run, or the action of one of its dispatches performed.  The one
\* word taken for it is a browser's, and a user who says so.
CompletedWasPerformed ==
    \A t \in Tasks : task[t].es = "completed" =>
        \/ fired[t] > 0
        \/ \E d \in Rows : disp[d].task = t /\ effect[d] # {}
        \/ Asked(t, "completed")

-----------------------------------------------------------------------------
(***************************************************************************)
(* Safety of claims and leases.  Most writes of a row are by id, so each   *)
(* of these holds until the first event that the code does not guard       *)
(* against: a lost lock, a PATCH, or an answer about the same task.        *)
(***************************************************************************)
\* MySQL has kept the lock of every leader, and no user has patched a task.
Unpatched == \A p \in Patches : PatchAt(p, "new")

Undisturbed == drops = 0 /\ Unpatched

\* No dispatch of t has been answered, or failed by a tick that gave it up.
Unanswered(t) ==
    \A d \in Rows : disp[d].task = t => disp[d].status = "awaiting_client_ack"

HoldsLive(w, t) == Holds(w, t) /\ ~worker[w].late

\* At most one worker processes a task within the lease of its claim, even
\* when a leader has lost its lock and goes on.  It is about tasks without a
\* reminder, whose final write by id may free the claim of a successor.
OneLiveHolder ==
    Unpatched =>
        \A v, w \in Workers, t \in Tasks :
            HoldsLive(v, t) /\ HoldsLive(w, t) => v = w

\* A claimed task carries a lease, without which recoverExpiredLeases would
\* never release it.
ClaimIsLeased ==
    Undisturbed =>
        \A t \in Tasks :
            Unanswered(t) /\ task[t].es \in ClaimedStates =>
                task[t].lease # "none"

Used(cond) == IF cond THEN 1 ELSE 0

\* A task fires once for its reminder and once for its schedule, and once
\* more for each tick cut short after it fired.
OncePerDate ==
    Undisturbed =>
        \A t \in Tasks : task[t].due = None =>
            fired[t] <= crashes
              + Used(task[t].rem = None)
              + Used(task[t].sched = None \/ task[t].es \in TerminalStates)
              + Used(\E w \in Workers : Holds(w, t)
                        /\ worker[w].pc \in {"remindfin", "apply"})

\* A PATCH has put t into the pause, asked to or with an old row.
Repaused(t) ==
    \E p \in Patches : PatchAt(p, "done") /\ patch[p].t = t /\ patch[p].paused

\* A PATCH of t is saved in this step.
Saved(t) ==
    \E p \in Patches :
        PatchAt(p, "found") /\ patch[p].t = t /\ patch'[p].pc = "done"

\* A task that the engine paused for approval stays paused until the user
\* changes it, whatever PATCHes overlap the ticks.  A PATCH that pauses a
\* task itself may do so over a claim, whose last write ends the pause.
ApprovalPauseIsFinal ==
    [][drops' = 0 =>
         \A t \in Tasks :
            task[t].es = "waiting_approval" /\ Unanswered(t) /\ ~Repaused(t) =>
                task'[t].es = "waiting_approval" \/ Saved(t)]_vars

-----------------------------------------------------------------------------
(***************************************************************************)
(* Liveness under FairSpec.                                                *)
(***************************************************************************)
\* A claimed task is released, finished or handed over in the end, crashes
\* included.
ClaimsEnd ==
    \A t \in Tasks :
        task[t].es \in ClaimedStates ~> task[t].es \notin ClaimedStates

\* No task waits for its executor forever: an answer, or the expired lease.
WaitsEnd ==
    \A t \in Tasks :
        task[t].es = "waiting_input" ~> task[t].es # "waiting_input"

\* A reminder whose time has come is delivered in the end, unless the task
\* is closed or paused.
RemindersAreDelivered ==
    \A t \in Tasks :
        (Scannable(task[t]) /\ Passed(task[t].rem, clock))
            ~> (task[t].rem = None \/ ~task[t].open
                \/ task[t].es \in TerminalStates \cup {"waiting_approval"})

\* A schedule whose time has come is attempted or paused for approval.
SchedulesAreAttempted ==
    \A t \in Tasks :
        (Scannable(task[t]) /\ Passed(task[t].sched, clock))
            ~> (~task[t].open \/ task[t].es \notin
                    EligibleStates \cup ClaimedStates)
=============================================================================
