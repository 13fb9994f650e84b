-------------------------- MODULE SandboxRunProofs --------------------------
(***************************************************************************)
(* Safety of SandboxRun for any number of runs, plans, replicas, requests  *)
(* of the API, turns of the kill switch and crashes: typing, that a gated  *)
(* run is not executed before an admin approved it, and what the sandbox   *)
(* writes to the rows of the job runner's queue.                           *)
(***************************************************************************)
EXTENDS SandboxRun, TLAPS

\* An actor outside the queue's loop is about a run that exists.
Loose == {"idle", "staged", "approved"}
Asking == {"grant_request", "deny_request"}

LocalsOK ==
    \A a \in Actors :
        /\ act[a].pc \notin Loose =>
               act[a].run \in Runs /\ run[act[a].run].status # "absent"
        /\ act[a].pc \in Asking =>
               act[a].req \in Requests /\ request[act[a].req] # None

RequestsOK == \A q \in Requests : request[q] # None => run[request[q].run].status # "absent"

Typed == TypeOK /\ LocalsOK /\ RequestsOK

\* A record of an actor, as far as it concerns that actor alone.
GoodLocals(x) ==
    /\ x \in ActorRec
    /\ x.pc \notin Loose => x.run \in Runs /\ run'[x.run].status # "absent"
    /\ x.pc \in Asking => x.req \in Requests /\ request'[x.req] # None

-----------------------------------------------------------------------------
\* Typing: what a step does to the runs, to the requests and to one actor.

RunsGrow ==
    /\ run' \in [Runs -> RunRow]
    /\ \A r \in Runs : run[r].status # "absent" => run'[r].status # "absent"

RequestsGrow ==
    /\ request' \in [Requests -> RequestRow \cup {None}]
    /\ \A q \in Requests : request[q] # None => request'[q] # None
    /\ RequestsOK'

LEMMA StatusGrows ==
    ASSUME TypeOK, NEW r \in Runs, NEW s \in RunStatus \ {"absent"}, SetStatus(r, s)
    PROVE  RunsGrow
BY DEF TypeOK, SetStatus, RunsGrow, RunRow

LEMMA RunsStay ==
    ASSUME TypeOK, UNCHANGED run
    PROVE  RunsGrow
BY DEF TypeOK, RunsGrow

LEMMA RequestsStay ==
    ASSUME Typed, RunsGrow, UNCHANGED request
    PROVE  RequestsGrow
BY DEF Typed, TypeOK, RequestsOK, RequestsGrow, RunsGrow, RequestRow

\* One actor goes on, the others keep their locals.
LEMMA ActorMoves ==
    ASSUME Typed, RunsGrow, RequestsGrow,
           NEW a \in Actors, NEW x, GoodLocals(x), act' = [act EXCEPT ![a] = x]
    PROVE  act' \in [Actors -> ActorRec] /\ LocalsOK'
<1>1. act \in [Actors -> ActorRec]
  BY DEF Typed, TypeOK
<1>2. act' \in [Actors -> ActorRec]
  BY <1>1 DEF GoodLocals
<1>3. ASSUME NEW b \in Actors
      PROVE  /\ act'[b].pc \notin Loose =>
                    act'[b].run \in Runs /\ run'[act'[b].run].status # "absent"
             /\ act'[b].pc \in Asking =>
                    act'[b].req \in Requests /\ request'[act'[b].req] # None
  <2>1. CASE b = a
    BY <1>1, <2>1 DEF GoodLocals
  <2>2. CASE b # a
    BY <1>1, <2>2 DEF Typed, LocalsOK, RunsGrow, RequestsGrow
  <2>. QED  BY <2>1, <2>2
<1>. QED  BY <1>2, <1>3 DEF LocalsOK

\* The program counter of an actor moves among the places where it has a run.
LEMMA Gone ==
    ASSUME Typed, RunsGrow, RequestsGrow, NEW a \in Actors, NEW pc \in PC,
           pc \notin Loose => act[a].pc \notin Loose,
           pc \notin Asking, Goto(a, pc)
    PROVE  act' \in [Actors -> ActorRec] /\ LocalsOK'
<1>. DEFINE x == [act[a] EXCEPT !.pc = pc]
<1>1. act[a] \in ActorRec
  BY DEF Typed, TypeOK
<1>2. x \in ActorRec /\ x.pc = pc /\ x.run = act[a].run
  BY <1>1 DEF ActorRec
<1>3. GoodLocals(x)
  BY <1>2 DEF GoodLocals, Typed, LocalsOK, RunsGrow
<1>4. act' = [act EXCEPT ![a] = x]
  BY DEF Goto
<1>. QED  BY <1>3, <1>4, ActorMoves

LEMMA RestingIsGood ==
    /\ GoodLocals(Resting)
    /\ GoodLocals([Resting EXCEPT !.pc = "staged"])
    /\ GoodLocals([Resting EXCEPT !.pc = "approved"])
BY DEF GoodLocals, Resting, ActorRec, PC, Loose, Asking

LEMMA Ended ==
    ASSUME Typed, RunsGrow, RequestsGrow, NEW a \in Actors, End(a) \/ TurnToApproved(a)
    PROVE  act' \in [Actors -> ActorRec] /\ LocalsOK'
<1>1. GoodLocals(Ends(a))
  BY RestingIsGood DEF Ends
<1>. QED  BY <1>1, RestingIsGood, ActorMoves DEF End, TurnToApproved

OthersOK ==
    /\ job \in [Runs -> JobStatus]
    /\ systemOn \in BOOLEAN
    /\ switches \in 0..MaxSwitches
    /\ failures \in 0..MaxFailures
    /\ granted \subseteq Runs
    /\ late \subseteq Runs

LEMMA Together ==
    ASSUME RunsGrow, RequestsGrow, act' \in [Actors -> ActorRec], LocalsOK', OthersOK'
    PROVE  Typed'
BY DEF RunsGrow, RequestsGrow, OthersOK, Typed, TypeOK

\* A run whose status is written, and an actor that goes on with it.
LEMMA WriteAndGo ==
    ASSUME Typed, OthersOK', UNCHANGED request,
           NEW a \in Actors, act[a].pc \notin Loose,
           NEW s \in RunStatus \ {"absent"},
           SetStatus(act[a].run, s) \/ UNCHANGED run,
           End(a) \/ TurnToApproved(a) \/ \E pc \in PC \ Asking : Goto(a, pc)
    PROVE  Typed'
<1>1. act[a].run \in Runs
  BY DEF Typed, LocalsOK
<1>2. RunsGrow
  BY <1>1, StatusGrows, RunsStay DEF Typed
<1>3. RequestsGrow
  BY <1>2, RequestsStay
<1>4. act' \in [Actors -> ActorRec] /\ LocalsOK'
  BY <1>2, <1>3, Ended, Gone
<1>. QED  BY <1>2, <1>3, <1>4, Together

\* The only step is that of an actor; what it is about stays.
LEMMA JustGo ==
    ASSUME Typed, OthersOK', UNCHANGED <<run, request>>,
           NEW a \in Actors,
           \/ End(a) \/ TurnToApproved(a)
           \/ \E pc \in PC \ Asking :
                  Goto(a, pc) /\ (pc \notin Loose => act[a].pc \notin Loose)
    PROVE  Typed'
<1>1. RunsGrow /\ RequestsGrow
  BY RunsStay, RequestsStay DEF Typed
<1>2. act' \in [Actors -> ActorRec] /\ LocalsOK'
  BY <1>1, Ended, Gone
<1>. QED  BY <1>1, <1>2, Together

LEMMA InitTyped == Init => Typed
BY SandboxAssumption DEF Init, Typed, TypeOK, LocalsOK, RequestsOK, Resting, ActorRec, PC, Loose,
   Asking, RunRow, RunStatus, Kinds, JobStatus, Actors, SandboxAssumption

LEMMA NodeTyped ==
    ASSUME Typed, NEW n \in Nodes, NodeStep(n)
    PROVE  Typed'
<1>. USE DEF PC, Loose, Asking, RunStatus, Settled, Validating, Executing
<1>0. n \in Actors /\ OthersOK
  BY DEF Actors, Typed, TypeOK, OthersOK
<1>1. CASE StartTick(n)
  BY <1>0, <1>1, JustGo DEF StartTick, KeepRows, KeepHistory, KeepWorld, OthersOK
<1>2. CASE SelectStaged(n)
  <2>1. OthersOK' /\ UNCHANGED <<run, request>>
    BY <1>0, <1>2 DEF SelectStaged, KeepRows, KeepHistory, KeepWorld, OthersOK
  <2>2. CASE Goto(n, "approved")
    BY <1>0, <2>1, <2>2, JustGo
  <2>3. ASSUME NEW r \in Queued("staged"),
               act' = [act EXCEPT ![n].pc = "claim_staged", ![n].run = r]
        PROVE  Typed'
    <3>1. r \in Runs /\ run[r].status = "staged"
      BY DEF Queued
    <3>2. RunsGrow /\ RequestsGrow
      BY <2>1, RunsStay, RequestsStay DEF Typed
    <3>3. act[n] \in ActorRec
      BY <1>0 DEF Typed, TypeOK
    <3>4. GoodLocals([act[n] EXCEPT !.pc = "claim_staged", !.run = r])
      BY <3>1, <3>3, <2>1 DEF GoodLocals, ActorRec
    <3>. QED  BY <1>0, <2>1, <2>3, <3>2, <3>4, ActorMoves, Together
  <2>. QED  BY <1>2, <2>2, <2>3 DEF SelectStaged
<1>3. CASE ClaimStaged(n)
  BY <1>0, <1>3, WriteAndGo DEF ClaimStaged, KeepHistory, KeepWorld, OthersOK
<1>4. CASE SelectApproved(n)
  <2>1. OthersOK' /\ UNCHANGED <<run, request>>
    BY <1>0, <1>4 DEF SelectApproved, KeepRows, KeepHistory, KeepWorld, OthersOK
  <2>2. RunsGrow /\ RequestsGrow
    BY <2>1, RunsStay, RequestsStay DEF Typed
  <2>3. CASE act' = [act EXCEPT ![n] = Resting]
    BY <1>0, <2>1, <2>2, <2>3, RestingIsGood, ActorMoves, Together
  <2>4. ASSUME NEW r \in Queued("approved"),
               act' = [act EXCEPT ![n].pc = "claim_approved", ![n].run = r]
        PROVE  Typed'
    <3>1. r \in Runs /\ run[r].status = "approved"
      BY DEF Queued
    <3>2. act[n] \in ActorRec
      BY <1>0 DEF Typed, TypeOK
    <3>3. GoodLocals([act[n] EXCEPT !.pc = "claim_approved", !.run = r])
      BY <3>1, <3>2, <2>1 DEF GoodLocals, ActorRec
    <3>. QED  BY <1>0, <2>1, <2>2, <2>4, <3>3, ActorMoves, Together
  <2>. QED  BY <1>4, <2>3, <2>4 DEF SelectApproved
<1>5. CASE ClaimApproved(n)
  BY <1>0, <1>5, WriteAndGo DEF ClaimApproved, KeepHistory, KeepWorld, OthersOK
<1>6. CASE PutBack(n)
  BY <1>0, <1>6, WriteAndGo DEF PutBack, KeepHistory, KeepWorld, OthersOK
<1>. QED  BY <1>1, <1>2, <1>3, <1>4, <1>5, <1>6 DEF NodeStep

LEMMA HandlerTyped ==
    ASSUME Typed, NEW h \in Handlers, HandlerStep(h)
    PROVE  Typed'
<1>. USE DEF PC, Loose, Asking, RunStatus, Settled, Creating, Validating, Executing,
             Inline, Approving, Granting, Denying, KeepHistory, KeepWorld, KeepRows, OthersOK
<1>0. h \in Actors /\ OthersOK
  BY DEF Actors, Typed, TypeOK
<1>1. CASE resolveAndBindForRun(h)
  <2>1. act[h].pc \notin Loose /\ act[h].run \in Runs
    BY <1>0, <1>1 DEF resolveAndBindForRun, Typed, LocalsOK
  <2>2. RunsGrow
    <3>. DEFINE r == act[h].run
                row == [run[r] EXCEPT !.bound = TRUE]
    <3>1. run' = [run EXCEPT ![r] = row] /\ r \in Runs
      BY <1>1, <2>1 DEF resolveAndBindForRun
    <3>2. run \in [Runs -> RunRow]
      BY DEF Typed, TypeOK
    <3>3. row \in RunRow /\ row.status = run[r].status
      BY <3>1, <3>2 DEF RunRow
    <3>. HIDE DEF r, row
    <3>. QED  BY <3>1, <3>2, <3>3 DEF RunsGrow
  <2>3. RequestsGrow /\ OthersOK'
    BY <1>0, <1>1, <2>2, RequestsStay DEF resolveAndBindForRun
  <2>4. act' \in [Actors -> ActorRec] /\ LocalsOK'
    BY <1>0, <1>1, <2>1, <2>2, <2>3, Gone DEF resolveAndBindForRun
  <2>. QED  BY <2>2, <2>3, <2>4, Together
<1>2. CASE CreateResave(h)
  <2>1. act[h].pc \notin Loose /\ act[h].run \in Runs
    BY <1>0, <1>2 DEF CreateResave, Typed, LocalsOK
  <2>2. OthersOK'
    BY <1>0, <1>2, <2>1 DEF CreateResave, SavedLate
  <2>. QED  BY <1>0, <1>2, <2>1, <2>2, WriteAndGo DEF CreateResave
<1>3. CASE InlineClaim(h)
  BY <1>0, <1>3, WriteAndGo DEF InlineClaim
<1>4. CASE InlineCheck(h)
  BY <1>0, <1>4, JustGo DEF InlineCheck
<1>5. CASE InlineExecute(h)
  BY <1>0, <1>5, WriteAndGo DEF InlineExecute
<1>6. CASE SaveApproval(h)
  <2>1. act[h].pc \notin Loose /\ act[h].run \in Runs
    BY <1>0, <1>6 DEF SaveApproval, Typed, LocalsOK
  <2>2. OthersOK'
    BY <1>0, <1>6, <2>1 DEF SaveApproval, SavedLate
  <2>. QED  BY <1>0, <1>6, <2>1, <2>2, WriteAndGo DEF SaveApproval
<1>7. CASE ApprovedJob(h)
  BY <1>0, <1>7, JustGo DEF ApprovedJob, JobStatus
<1>8. CASE SaveRequest(h)
  <2>1. act[h].pc \notin Loose /\ act[h].run \in Runs
        /\ act[h].req \in Requests /\ request[act[h].req] # None
    BY <1>0, <1>8 DEF SaveRequest, Typed, LocalsOK
  <2>2. RequestsGrow
    <3>. DEFINE q == act[h].req
                s == IF act[h].pc = "grant_request" THEN "approved" ELSE "rejected"
                row == [request[q] EXCEPT !.status = s]
    <3>1. request[q] \in RequestRow /\ s \in RequestStatus
      BY <2>1 DEF Typed, TypeOK, RequestStatus
    <3>. HIDE DEF s
    <3>2. row \in RequestRow
      BY <3>1 DEF RequestRow
    <3>4. request' = [request EXCEPT ![q] = row]
      BY <1>8 DEF SaveRequest, s
    <3>. HIDE DEF q, row
    <3>3. row # None
      BY <3>2, NullAssumption
    <3>5. row.run = request[q].run
      BY <3>1 DEF row, RequestRow
    <3>6. UNCHANGED run
      BY <1>8 DEF SaveRequest
    <3>7. q \in Requests /\ request[q] # None
      BY <2>1 DEF q
    <3>. QED
      BY <3>2, <3>3, <3>4, <3>5, <3>6, <3>7 DEF Typed, TypeOK, RequestsOK, RequestsGrow
  <2>3. RunsGrow /\ OthersOK'
    BY <1>0, <1>8, <2>1, RunsStay DEF SaveRequest, Typed
  <2>4. act' \in [Actors -> ActorRec] /\ LocalsOK'
    BY <1>0, <1>8, <2>1, <2>2, <2>3, Gone DEF SaveRequest
  <2>. QED  BY <2>2, <2>3, <2>4, Together
<1>9. CASE Resume(h)
  BY <1>0, <1>9, WriteAndGo DEF Resume
<1>10. CASE ResumedJob(h)
  BY <1>0, <1>10, JustGo DEF ResumedJob, JobStatus
<1>11. CASE Block(h)
  BY <1>0, <1>11, WriteAndGo DEF Block
<1>12. CASE BlockedJob(h)
  BY <1>0, <1>12, JustGo DEF BlockedJob, JobStatus
<1>. QED
  BY <1>1, <1>2, <1>3, <1>4, <1>5, <1>6, <1>7, <1>8, <1>9, <1>10, <1>11, <1>12
  DEF HandlerStep

\* An actor goes to a step of its plan with fresh locals.
LEMMA LocalsChange ==
    ASSUME Typed, OthersOK', RequestsGrow, UNCHANGED run,
           NEW a \in Actors, act[a].pc \notin Loose,
           NEW x \in ActorRec, act' = [act EXCEPT ![a] = x],
           x.run = act[a].run, x.pc \notin Asking
    PROVE  Typed'
<1>1. RunsGrow
  BY RunsStay DEF Typed
<1>2. GoodLocals(x)
  BY DEF GoodLocals, Typed, LocalsOK
<1>. QED  BY <1>1, <1>2, ActorMoves, Together

LEMMA LeftPlan ==
    ASSUME Typed, OthersOK', RequestsGrow, UNCHANGED run,
           NEW a \in Actors, act[a].pc \notin Loose,
           NEW pc \in PC \ Asking, Leave(a, pc)
    PROVE  Typed'
<1>. DEFINE x == [act[a] EXCEPT !.pc = pc, !.step = 0]
<1>1. x \in ActorRec /\ x.pc = pc /\ x.run = act[a].run
  BY DEF Typed, TypeOK, ActorRec
<1>2. act' = [act EXCEPT ![a] = x]
  BY DEF Leave
<1>. HIDE DEF x
<1>. QED  BY <1>1, <1>2, LocalsChange

LEMMA RunTyped ==
    ASSUME Typed, NEW a \in Actors, RunStep(a)
    PROVE  Typed'
<1>. USE DEF PC, Loose, Asking, RunStatus, Settled, Creating, Validating, Executing,
             Trying, Inline, KeepHistory, KeepWorld, KeepRows, OthersOK
<1>0. OthersOK /\ act[a] \in ActorRec /\ act \in [Actors -> ActorRec]
  BY DEF Typed, TypeOK
<1>1. CASE ReadPending(a)
  BY <1>0, <1>1, JustGo DEF ReadPending, AfterValidation
<1>2. CASE SaveValidation(a)
  <2>1. act[a].pc \notin Loose /\ act[a].run \in Runs /\ OthersOK'
    BY <1>0, <1>2 DEF SaveValidation, Typed, LocalsOK
  <2>2. CASE act' = [act EXCEPT ![a].pc = "validate_job", ![a].broken = TRUE]
    <3>. DEFINE x == [act[a] EXCEPT !.pc = "validate_job", !.broken = TRUE]
    <3>1. x \in ActorRec /\ x.pc \notin Loose /\ x.pc \notin Asking /\ x.run = act[a].run
      BY <1>0 DEF ActorRec
    <3>2. RunsGrow /\ RequestsGrow
      BY <1>2, <2>1, StatusGrows, RequestsStay DEF SaveValidation, Typed
    <3>3. GoodLocals(x)
      BY <2>1, <3>1, <3>2 DEF GoodLocals, Typed, LocalsOK, RunsGrow
    <3>. QED  BY <1>0, <2>1, <2>2, <3>2, <3>3, ActorMoves, Together
  <2>3. CASE Goto(a, "validate_job") \/ Goto(a, "validate_audit")
    BY <1>0, <1>2, <2>1, <2>3, WriteAndGo DEF SaveValidation
  <2>. QED  BY <1>2, <2>2, <2>3 DEF SaveValidation
<1>3. CASE ReportValidation(a)
  <2>1. act[a].pc \notin Loose /\ OthersOK' /\ RequestsGrow /\ UNCHANGED <<run, request>>
    BY <1>0, <1>3, RunsStay, RequestsStay DEF ReportValidation, JobStatus, Typed
  <2>2. CASE TurnToApproved(a) \/ Goto(a, "validate_audit")
    BY <2>1, <2>2, JustGo
  <2>3. CASE act' = [act EXCEPT ![a].pc = "inline_check", ![a].broken = FALSE]
    <3>. DEFINE x == [act[a] EXCEPT !.pc = "inline_check", !.broken = FALSE]
    <3>1. x \in ActorRec /\ x.pc = "inline_check" /\ x.run = act[a].run
      BY <1>0 DEF ActorRec
    <3>2. act' = [act EXCEPT ![a] = x]
      BY <2>3
    <3>. HIDE DEF x
    <3>. QED  BY <2>1, <3>1, <3>2, LocalsChange
  <2>. QED  BY <1>3, <2>2, <2>3 DEF ReportValidation
<1>4. CASE ReadExecuting(a)
  <2>1. CASE act' = [act EXCEPT ![a].pc = "step", ![a].step = 1, ![a].broken = FALSE]
    <3>1. act[a].pc \notin Loose /\ OthersOK' /\ RequestsGrow
      BY <1>0, <1>4, RunsStay, RequestsStay DEF ReadExecuting, Typed
    <3>. DEFINE x == [act[a] EXCEPT !.pc = "step", !.step = 1, !.broken = FALSE]
    <3>2. x \in ActorRec /\ x.pc = "step" /\ x.run = act[a].run
      BY <1>0 DEF ActorRec
    <3>3. act' = [act EXCEPT ![a] = x] /\ UNCHANGED run
      BY <1>4, <2>1 DEF ReadExecuting
    <3>. HIDE DEF x
    <3>. QED  BY <3>1, <3>2, <3>3, LocalsChange
  <2>2. CASE End(a) \/ Goto(a, "unexecute")
    BY <1>0, <1>4, <2>2, JustGo DEF ReadExecuting
  <2>. QED  BY <1>4, <2>1, <2>2 DEF ReadExecuting
<1>5. CASE RunTypedAction(a)
  <2>1. act[a].pc \notin Loose /\ act[a].run \in Runs /\ OthersOK' /\ UNCHANGED run
    BY <1>0, <1>5 DEF RunTypedAction, Typed, LocalsOK
  <2>2. RequestsGrow
    <3>1. CASE UNCHANGED request
      BY <2>1, <3>1, RunsStay, RequestsStay DEF Typed
    <3>2. ASSUME NEW q \in Requests, request[q] = None,
                 request' = [request EXCEPT ![q] = [run |-> act[a].run, status |-> "pending"]]
          PROVE  RequestsGrow
      <4>1. request'[q] \in RequestRow /\ request'[q].run = act[a].run
        BY <2>1, <3>2 DEF Typed, TypeOK, RequestRow, RequestStatus
      <4>2. request'[q] # None /\ run'[act[a].run].status # "absent"
        BY <2>1, <4>1, NullAssumption DEF Typed, LocalsOK
      <4>. QED  BY <2>1, <3>2, <4>1, <4>2 DEF Typed, TypeOK, RequestsOK, RequestsGrow
    <3>. QED  BY <1>5, <3>1, <3>2 DEF RunTypedAction
  <2>3. ASSUME NEW pc \in {"reread", "pause", "fail"}, Leave(a, pc)
        PROVE  Typed'
    BY <2>1, <2>2, <2>3, LeftPlan
  <2>4. CASE act' = [act EXCEPT ![a].step = act[a].step + 1]
    <3>. DEFINE x == [act[a] EXCEPT !.step = act[a].step + 1]
    <3>0. act[a].pc = "step" /\ act[a].step + 1 \in Nat
      BY <1>0, <1>5 DEF ActorRec, RunTypedAction
    <3>1. x \in ActorRec /\ x.pc = "step" /\ x.run = act[a].run
      BY <1>0, <3>0 DEF ActorRec
    <3>2. act' = [act EXCEPT ![a] = x]
      BY <2>4
    <3>. HIDE DEF x
    <3>. QED  BY <2>1, <2>2, <3>1, <3>2, LocalsChange
  <2>. QED  BY <1>5, <2>3, <2>4 DEF RunTypedAction
<1>6. CASE ExtractFile(a)
  <2>1. act[a].pc \notin Loose /\ OthersOK' /\ RequestsGrow /\ UNCHANGED run
    BY <1>0, <1>6, RunsStay, RequestsStay DEF ExtractFile, Typed
  <2>. QED  BY <1>6, <2>1, LeftPlan DEF ExtractFile
<1>7. CASE Pause(a)
  BY <1>0, <1>7, WriteAndGo DEF Pause
<1>8. CASE Reread(a)
  BY <1>0, <1>8, JustGo DEF Reread
<1>9. CASE Complete(a)
  BY <1>0, <1>9, WriteAndGo DEF Complete
<1>10. CASE IndexFile(a)
  BY <1>0, <1>10, JustGo DEF IndexFile
<1>11. CASE CompleteJob(a)
  BY <1>0, <1>11, JustGo DEF CompleteJob, JobStatus
<1>12. CASE Fail(a)
  BY <1>0, <1>12, WriteAndGo DEF Fail
<1>13. CASE FailJob(a)
  BY <1>0, <1>13, JustGo DEF FailJob, JobStatus
<1>14. CASE WriteAudit(a)
  BY <1>0, <1>14, JustGo DEF WriteAudit, AfterValidation
<1>. QED
  BY <1>1, <1>2, <1>3, <1>4, <1>5, <1>6, <1>7, <1>8, <1>9, <1>10, <1>11, <1>12, <1>13,
     <1>14
  DEF RunStep

LEMMA RequestTyped ==
    ASSUME Typed, NEW h \in Handlers, Request(h)
    PROVE  Typed'
<1>. USE DEF PC, Loose, Asking, RunStatus, Settled, Creating, Approving, Granting, Denying,
             KeepHistory, KeepWorld, KeepRows, OthersOK
<1>0. OthersOK /\ h \in Actors /\ act[h] \in ActorRec /\ act \in [Actors -> ActorRec]
  BY DEF Typed, TypeOK, Actors
<1>1. ASSUME NEW r \in Runs, Create(h, r)
      PROVE  Typed'
  <2>1. RunsGrow /\ run'[r].status # "absent"
    BY <1>1 DEF Create, Typed, TypeOK, RunRow, RunsGrow
  <2>2. RequestsGrow /\ OthersOK'
    BY <1>0, <1>1, <2>1, RequestsStay DEF Create
  <2>3. GoodLocals([act[h] EXCEPT !.pc = "create_bind", !.run = r])
    BY <1>0, <2>1 DEF GoodLocals, ActorRec
  <2>. QED  BY <1>0, <1>1, <2>1, <2>2, <2>3, ActorMoves, Together DEF Create
<1>2. ASSUME NEW r \in Runs, approveSandboxRun(h, r)
      PROVE  Typed'
  <2>1. RunsGrow /\ RequestsGrow
    BY <1>2, RunsStay, RequestsStay DEF approveSandboxRun, Typed
  <2>2. OthersOK'
    BY <1>0, <1>2 DEF approveSandboxRun
  <2>3. GoodLocals([act[h] EXCEPT !.pc = "approve_save", !.run = r])
    BY <1>0, <1>2 DEF GoodLocals, ActorRec, approveSandboxRun
  <2>. QED  BY <1>0, <1>2, <2>1, <2>2, <2>3, ActorMoves, Together DEF approveSandboxRun
<1>3. ASSUME NEW q \in Requests, NEW pc \in Asking, request[q] # None,
             act' = [act EXCEPT ![h].pc = pc, ![h].run = request[q].run, ![h].req = q],
             KeepRows, UNCHANGED request, OthersOK',
             run[request[q].run].status # "absent"
      PROVE  Typed'
  <2>1. RunsGrow /\ RequestsGrow
    BY <1>3, RunsStay, RequestsStay DEF Typed
  <2>2. request[q].run \in Runs
    BY <1>3 DEF Typed, TypeOK, RequestRow
  <2>3. GoodLocals([act[h] EXCEPT !.pc = pc, !.run = request[q].run, !.req = q])
    BY <1>0, <1>3, <2>2 DEF GoodLocals, ActorRec
  <2>. QED  BY <1>0, <1>3, <2>1, <2>3, ActorMoves, Together
<1>4. ASSUME NEW q \in Requests, approveRequest(h, q)
      PROVE  Typed'
  BY <1>0, <1>3, <1>4 DEF approveRequest
<1>5. ASSUME NEW q \in Requests, rejectRequest(h, q)
      PROVE  Typed'
  BY <1>0, <1>3, <1>5 DEF rejectRequest, Typed, RequestsOK
<1>. QED  BY <1>1, <1>2, <1>4, <1>5 DEF Request

LEMMA StepTyped == Typed /\ [Next]_vars => Typed'
<1>. SUFFICES ASSUME Typed, [Next]_vars
              PROVE  Typed'
  OBVIOUS
<1>. USE DEF KeepRows, KeepHistory, KeepWorld, OthersOK
<1>1. CASE UNCHANGED vars
  BY <1>1 DEF vars, Typed, TypeOK, LocalsOK, RequestsOK
<1>2. ASSUME NEW n \in Nodes, NodeStep(n)
      PROVE  Typed'
  BY <1>2, NodeTyped
<1>3. ASSUME NEW h \in Handlers, HandlerStep(h) \/ Request(h)
      PROVE  Typed'
  BY <1>3, HandlerTyped, RequestTyped
<1>4. ASSUME NEW a \in Actors, RunStep(a)
      PROVE  Typed'
  BY <1>4, RunTyped
<1>5. ASSUME NEW a \in Actors, Throw(a)
      PROVE  Typed'
  <2>1. OthersOK' /\ Leave(a, "fail") /\ act[a].pc \notin Loose /\ UNCHANGED <<run, request>>
    BY <1>5, SandboxAssumption DEF Throw, Typed, TypeOK, Loose, Trying, SandboxAssumption
  <2>2. RequestsGrow
    BY <2>1, RunsStay, RequestsStay DEF Typed
  <2>. QED  BY <1>5, <2>1, <2>2, LeftPlan DEF PC, Executing, Asking
<1>5a. ASSUME NEW a \in Actors, ThrowInvalid(a)
       PROVE  Typed'
  <2>. DEFINE x == [act[a] EXCEPT !.pc = "validate_save", !.broken = TRUE]
  <2>1. OthersOK' /\ act[a].pc \notin Loose /\ RunsGrow /\ RequestsGrow
    BY <1>5a, SandboxAssumption, RunsStay, RequestsStay
    DEF ThrowInvalid, Typed, TypeOK, Loose, SandboxAssumption
  <2>2. act[a] \in ActorRec /\ act[a].run \in Runs /\ run[act[a].run].status # "absent"
    BY <2>1 DEF Typed, TypeOK, LocalsOK
  <2>3. x \in ActorRec /\ x.pc \notin Asking /\ x.run = act[a].run /\ x.pc = "validate_save"
    BY <2>2 DEF ActorRec, PC, Validating, Asking
  <2>4. GoodLocals(x)
    BY <2>1, <2>2, <2>3 DEF GoodLocals, Typed, LocalsOK, RunsGrow
  <2>5. act' = [act EXCEPT ![a] = x]
    BY <1>5a, <2>2 DEF ThrowInvalid, ActorRec
  <2>. QED  BY <2>1, <2>4, <2>5, ActorMoves, Together
<1>6. ASSUME NEW a \in Actors, Crash(a)
      PROVE  Typed'
  <2>1. OthersOK' /\ RunsGrow
    BY <1>6, RunsStay, SandboxAssumption DEF Crash, Typed, TypeOK, SandboxAssumption
  <2>2. RequestsGrow
    BY <1>6, <2>1, RequestsStay DEF Crash
  <2>. QED  BY <1>6, <2>1, <2>2, RestingIsGood, ActorMoves, Together DEF Crash
<1>7. ASSUME NEW q \in Requests, ExpireRequest(q)
      PROVE  Typed'
  <2>. DEFINE row == [request[q] EXCEPT !.status = "expired"]
  <2>1. row \in RequestRow /\ row.run = request[q].run
    BY <1>7 DEF ExpireRequest, Typed, TypeOK, RequestRow, RequestStatus
  <2>2. request' = [request EXCEPT ![q] = row] /\ request[q] # None
    BY <1>7 DEF ExpireRequest
  <2>. HIDE DEF row
  <2>3. row # None
    BY <2>1, NullAssumption
  <2>4. UNCHANGED <<run, act>> /\ OthersOK'
    BY <1>7 DEF ExpireRequest, Typed, TypeOK
  <2>5. RunsGrow /\ RequestsGrow
    BY <2>1, <2>2, <2>3, <2>4, RunsStay DEF Typed, TypeOK, RequestsOK, RequestsGrow
  <2>6. act' \in [Actors -> ActorRec] /\ LocalsOK'
    BY <2>4, <2>5 DEF Typed, TypeOK, LocalsOK, RequestsGrow
  <2>. QED  BY <2>4, <2>5, <2>6, Together
<1>8. CASE Switch
  BY <1>8, SandboxAssumption
  DEF Switch, Typed, TypeOK, LocalsOK, RequestsOK, SandboxAssumption
<1>. QED  BY <1>1, <1>2, <1>3, <1>4, <1>5, <1>5a, <1>6, <1>7, <1>8 DEF Next

\* Every reachable state is well typed, whatever number of runs, replicas and
\* requests there are.
THEOREM SandboxTyping == Spec => []TypeOK
<1>1. Typed => TypeOK
  BY DEF Typed
<1>. QED  BY <1>1, InitTyped, StepTyped, PTL DEF Spec

-----------------------------------------------------------------------------
\* Approval: an actor that may release or execute a gated run works on one
\* that was granted.  The invariant is about the actors as well as the rows,
\* since a row is written long after it was read.
Releasing == {"read_executing", "unexecute", "step", "pause", "reread", "complete",
              "approve_save", "approve_bind", "approve_resave",
              "grant_request", "grant_run", "grant_job"}

ActorsCleared ==
    \A a \in Actors :
        act[a].pc \in Releasing /\ run[act[a].run].gated => act[a].run \in granted

Cleared == ApprovedBeforeExecution /\ ActorsCleared

GateStays ==
    /\ \A r \in Runs : run[r].status # "absent" => run'[r].gated = run[r].gated
    /\ granted \subseteq granted'

\* What is left to show of a step of one actor: its own row and locals.
LEMMA ClearedMoves ==
    ASSUME Typed, Typed', Cleared, GateStays, ApprovedBeforeExecution',
           NEW a \in Actors, NEW x, act' = [act EXCEPT ![a] = x],
           x.pc \in Releasing /\ run'[x.run].gated => x.run \in granted'
    PROVE  Cleared'
<1>1. act \in [Actors -> ActorRec]
  BY DEF Typed, TypeOK
<1>2. ASSUME NEW b \in Actors, act'[b].pc \in Releasing, run'[act'[b].run].gated
      PROVE  act'[b].run \in granted'
  <2>1. CASE b = a
    BY <1>1, <1>2, <2>1
  <2>2. CASE b # a
    <3>1. act'[b] = act[b]
      BY <1>1, <2>2
    <3>2. act[b].run \in Runs /\ run[act[b].run].status # "absent"
      BY <1>2, <3>1 DEF Typed, LocalsOK, Loose, Releasing
    <3>. QED  BY <1>2, <3>1, <3>2 DEF Cleared, ActorsCleared, GateStays
  <2>. QED  BY <2>1, <2>2
<1>. QED  BY <1>2 DEF Cleared, ActorsCleared

\* The status of a run is written; it may be released if it was granted.
LEMMA StatusCleared ==
    ASSUME Typed, Cleared, UNCHANGED granted, NEW r \in Runs, NEW s \in RunStatus,
           SetStatus(r, s) \/ UNCHANGED run,
           s \in Released /\ run[r].gated => r \in granted
    PROVE  GateStays /\ ApprovedBeforeExecution' /\ run'[r].gated = run[r].gated
<1>1. run \in [Runs -> RunRow]
  BY DEF Typed, TypeOK
<1>2. CASE UNCHANGED run
  BY <1>2 DEF Cleared, ApprovedBeforeExecution, GateStays
<1>3. CASE SetStatus(r, s)
  <2>1. \A t \in Runs : run'[t].gated = run[t].gated
    BY <1>1, <1>3 DEF SetStatus, RunRow
  <2>2. \A t \in Runs \ {r} : run'[t] = run[t]
    BY <1>1, <1>3 DEF SetStatus
  <2>3. run'[r].status = s
    BY <1>1, <1>3 DEF SetStatus, RunRow
  <2>. QED  BY <2>1, <2>2, <2>3 DEF Cleared, ApprovedBeforeExecution, GateStays
<1>. QED  BY <1>2, <1>3

\* An actor writes the status of its run and goes on, or ends.
LEMMA WriteCleared ==
    ASSUME Typed, Typed', Cleared, UNCHANGED granted,
           NEW a \in Actors, act[a].pc \notin Loose, NEW s \in RunStatus,
           SetStatus(act[a].run, s) \/ UNCHANGED run,
           s \in Released /\ run[act[a].run].gated => act[a].run \in granted,
           End(a) \/ TurnToApproved(a) \/ \E pc \in PC :
               /\ Goto(a, pc)
               /\ pc \in Releasing =>
                      act[a].pc \in Releasing \/ s \in Released \/ ~run[act[a].run].gated
    PROVE  Cleared'
<1>1. act[a].run \in Runs /\ act[a] \in ActorRec
  BY DEF Typed, TypeOK, LocalsOK
<1>2. GateStays /\ ApprovedBeforeExecution' /\ run'[act[a].run].gated = run[act[a].run].gated
  BY <1>1, StatusCleared
<1>3. CASE End(a) \/ TurnToApproved(a)
  <2>1. Ends(a).pc \notin Releasing /\ [Resting EXCEPT !.pc = "approved"].pc \notin Releasing
    BY DEF Ends, Resting, Releasing
  <2>. QED  BY <1>2, <1>3, <2>1, ClearedMoves DEF End, TurnToApproved
<1>4. ASSUME NEW pc \in PC, Goto(a, pc),
             pc \in Releasing =>
                 act[a].pc \in Releasing \/ s \in Released \/ ~run[act[a].run].gated
      PROVE  Cleared'
  <2>. DEFINE x == [act[a] EXCEPT !.pc = pc]
  <2>1. x.pc = pc /\ x.run = act[a].run
    BY <1>1 DEF ActorRec
  <2>2. act' = [act EXCEPT ![a] = x]
    BY <1>4 DEF Goto
  <2>3. pc \in Releasing /\ run[act[a].run].gated => act[a].run \in granted
    BY <1>4 DEF Cleared, ActorsCleared
  <2>. HIDE DEF x
  <2>. QED  BY <1>2, <2>1, <2>2, <2>3, ClearedMoves DEF GateStays
<1>. QED  BY <1>3, <1>4

\* A step that leaves the runs alone and moves only a program counter.
LEMMA GoCleared ==
    ASSUME Typed, Typed', Cleared, UNCHANGED <<run, granted>>,
           NEW a \in Actors,
           End(a) \/ TurnToApproved(a) \/ \E pc \in PC :
               Goto(a, pc) /\ (pc \in Releasing => act[a].pc \in Releasing)
    PROVE  Cleared'
<1>1. GateStays /\ ApprovedBeforeExecution'
  BY DEF GateStays, Cleared, ApprovedBeforeExecution
<1>2. CASE End(a) \/ TurnToApproved(a)
  <2>1. Ends(a).pc \notin Releasing /\ [Resting EXCEPT !.pc = "approved"].pc \notin Releasing
    BY DEF Ends, Resting, Releasing
  <2>. QED  BY <1>1, <1>2, <2>1, ClearedMoves DEF End, TurnToApproved
<1>3. ASSUME NEW pc \in PC, Goto(a, pc), pc \in Releasing => act[a].pc \in Releasing
      PROVE  Cleared'
  <2>. DEFINE x == [act[a] EXCEPT !.pc = pc]
  <2>1. x.pc = pc /\ x.run = act[a].run
    BY DEF ActorRec, Typed, TypeOK
  <2>2. act' = [act EXCEPT ![a] = x]
    BY <1>3 DEF Goto
  <2>3. pc \in Releasing /\ run[act[a].run].gated => act[a].run \in granted
    BY <1>3 DEF Cleared, ActorsCleared
  <2>. HIDE DEF x
  <2>. QED  BY <1>1, <2>1, <2>2, <2>3, ClearedMoves
<1>. QED  BY <1>2, <1>3

\* An actor's locals change, the run they are about does not.
LEMMA LocalsCleared ==
    ASSUME Typed, Typed', Cleared, UNCHANGED <<run, granted>>,
           NEW a \in Actors, NEW x, act' = [act EXCEPT ![a] = x],
           x.pc \in Releasing => x.run = act[a].run /\ act[a].pc \in Releasing
    PROVE  Cleared'
<1>1. GateStays /\ ApprovedBeforeExecution'
  BY DEF GateStays, Cleared, ApprovedBeforeExecution
<1>2. x.pc \in Releasing /\ run[x.run].gated => x.run \in granted
  BY DEF Cleared, ActorsCleared
<1>. QED  BY <1>1, <1>2, ClearedMoves

LEMMA LeaveCleared ==
    ASSUME Typed, Typed', Cleared, UNCHANGED <<run, granted>>,
           NEW a \in Actors, NEW pc \in PC, Leave(a, pc),
           pc \in Releasing => act[a].pc \in Releasing
    PROVE  Cleared'
<1>. DEFINE x == [act[a] EXCEPT !.pc = pc, !.step = 0]
<1>1. x.run = act[a].run /\ x.pc = pc /\ act' = [act EXCEPT ![a] = x]
  BY DEF Typed, TypeOK, ActorRec, Leave
<1>. HIDE DEF x
<1>. QED  BY <1>1, LocalsCleared

LEMMA InitCleared == Init => Cleared
BY DEF Init, Cleared, ApprovedBeforeExecution, ActorsCleared, Released, Releasing, Resting

LEMMA NodeCleared ==
    ASSUME Typed, Typed', Cleared, NEW n \in Nodes, NodeStep(n)
    PROVE  Cleared'
<1>. USE DEF RunStatus, Settled, PC, Loose, Validating, Executing, KeepRows, KeepHistory
<1>0. n \in Actors /\ act[n] \in ActorRec
  BY DEF Actors, Typed, TypeOK
<1>1. CASE StartTick(n)
  BY <1>0, <1>1, GoCleared DEF StartTick, Releasing
<1>2. CASE SelectStaged(n)
  <2>1. CASE Goto(n, "approved")
    BY <1>0, <1>2, <2>1, GoCleared DEF SelectStaged, Releasing
  <2>2. ASSUME NEW r \in Runs, act' = [act EXCEPT ![n].pc = "claim_staged", ![n].run = r]
        PROVE  Cleared'
    <3>. DEFINE x == [act[n] EXCEPT !.pc = "claim_staged", !.run = r]
    <3>1. x.pc \notin Releasing /\ act' = [act EXCEPT ![n] = x]
      BY <1>0, <2>2 DEF ActorRec, Releasing
    <3>2. UNCHANGED <<run, granted>>
      BY <1>2 DEF SelectStaged
    <3>. HIDE DEF x
    <3>. QED  BY <1>0, <3>1, <3>2, LocalsCleared
  <2>. QED  BY <1>2, <2>1, <2>2 DEF SelectStaged, Queued
<1>3. CASE ClaimStaged(n)
  <2>1. SetStatus(act[n].run, "validation_pending") \/ UNCHANGED run
    BY <1>3 DEF ClaimStaged
  <2>. QED  BY <1>0, <1>3, <2>1, WriteCleared DEF ClaimStaged, Released, Releasing
<1>4. CASE SelectApproved(n)
  <2>1. CASE act' = [act EXCEPT ![n] = Resting]
    <3>1. Resting.pc \notin Releasing
      BY DEF Resting, Releasing
    <3>. QED  BY <1>0, <1>4, <2>1, <3>1, LocalsCleared DEF SelectApproved
  <2>2. ASSUME NEW r \in Runs, act' = [act EXCEPT ![n].pc = "claim_approved", ![n].run = r]
        PROVE  Cleared'
    <3>. DEFINE x == [act[n] EXCEPT !.pc = "claim_approved", !.run = r]
    <3>1. x.pc \notin Releasing /\ act' = [act EXCEPT ![n] = x]
      BY <1>0, <2>2 DEF ActorRec, Releasing
    <3>. HIDE DEF x
    <3>. QED  BY <1>0, <1>4, <3>1, LocalsCleared DEF SelectApproved
  <2>. QED  BY <1>4, <2>1, <2>2 DEF SelectApproved, Queued
<1>5. CASE ClaimApproved(n)
  <2>1. act[n].run \in Runs /\ act[n].pc \notin Loose
    BY <1>0, <1>5 DEF ClaimApproved, Typed, LocalsOK
  <2>2. CASE run[act[n].run].status = "approved"
    <3>1. run[act[n].run].gated => act[n].run \in granted
      BY <2>1, <2>2 DEF Cleared, ApprovedBeforeExecution, Released
    <3>. QED  BY <1>0, <1>5, <2>1, <2>2, <3>1, WriteCleared DEF ClaimApproved, Released
  <2>3. CASE run[act[n].run].status # "approved"
    BY <1>0, <1>5, <2>3, GoCleared DEF ClaimApproved
  <2>. QED  BY <2>2, <2>3
<1>6. CASE PutBack(n)
  <2>1. CASE act[n].pc = "unclaim"
    BY <1>0, <1>6, <2>1, WriteCleared DEF PutBack, Released, Releasing
  <2>2. CASE act[n].pc = "unexecute"
    <3>1. run[act[n].run].gated => act[n].run \in granted
      BY <1>0, <2>2 DEF Cleared, ActorsCleared, Releasing
    <3>. QED  BY <1>0, <1>6, <2>2, <3>1, WriteCleared DEF PutBack
  <2>. QED  BY <1>6, <2>1, <2>2 DEF PutBack
<1>. QED  BY <1>1, <1>2, <1>3, <1>4, <1>5, <1>6 DEF NodeStep

LEMMA HandlerCleared ==
    ASSUME Typed, Typed', Cleared, NEW h \in Handlers, HandlerStep(h)
    PROVE  Cleared'
<1>. USE DEF RunStatus, Settled, PC, Loose, Creating, Validating, Executing, Inline, Approving, Granting,
             Denying, KeepRows, KeepHistory
<1>0. h \in Actors /\ act[h] \in ActorRec
  BY DEF Actors, Typed, TypeOK
<1>1. CASE resolveAndBindForRun(h)
  <2>1. act[h].run \in Runs /\ act[h].pc \notin Loose /\ run \in [Runs -> RunRow]
    BY <1>0, <1>1 DEF resolveAndBindForRun, Typed, LocalsOK, TypeOK
  <2>2. \A r \in Runs : run'[r].gated = run[r].gated /\ run'[r].status = run[r].status
    BY <1>1, <2>1 DEF resolveAndBindForRun, RunRow
  <2>3. GateStays /\ ApprovedBeforeExecution'
    BY <1>1, <2>2 DEF resolveAndBindForRun, GateStays, Cleared, ApprovedBeforeExecution
  <2>. DEFINE pc == IF act[h].pc = "create_bind" THEN "create_save" ELSE "approve_resave"
              x == [act[h] EXCEPT !.pc = pc]
  <2>4. x.pc = pc /\ x.run = act[h].run /\ act' = [act EXCEPT ![h] = x]
    BY <1>0, <1>1 DEF resolveAndBindForRun, Goto, ActorRec
  <2>5. pc \in Releasing => act[h].pc \in Releasing
    BY <1>1 DEF resolveAndBindForRun, Releasing
  <2>6. UNCHANGED granted
    BY <1>1 DEF resolveAndBindForRun
  <2>7. x.pc \in Releasing /\ run'[x.run].gated => x.run \in granted'
    BY <1>0, <2>1, <2>2, <2>4, <2>5, <2>6 DEF Cleared, ActorsCleared
  <2>. HIDE DEF pc, x
  <2>. QED  BY <1>0, <2>3, <2>4, <2>7, ClearedMoves
<1>2. CASE CreateResave(h)
  BY <1>0, <1>2, WriteCleared DEF CreateResave, Released, Releasing
<1>3. CASE InlineClaim(h)
  BY <1>0, <1>3, WriteCleared DEF InlineClaim, Released, Releasing
<1>4. CASE InlineCheck(h)
  BY <1>0, <1>4, GoCleared DEF InlineCheck, Releasing
<1>5. CASE InlineExecute(h)
  <2>1. act[h].run \in Runs /\ act[h].pc \notin Loose
    BY <1>0, <1>5 DEF InlineExecute, Typed, LocalsOK
  <2>2. CASE run[act[h].run].status = "approved"
    <3>1. run[act[h].run].gated => act[h].run \in granted
      BY <2>1, <2>2 DEF Cleared, ApprovedBeforeExecution, Released
    <3>. QED  BY <1>0, <1>5, <2>1, <2>2, <3>1, WriteCleared DEF InlineExecute, Released
  <2>3. CASE run[act[h].run].status # "approved"
    BY <1>0, <1>5, <2>3, GoCleared DEF InlineExecute
  <2>. QED  BY <2>2, <2>3
<1>6. CASE SaveApproval(h)
  <2>1. run[act[h].run].gated => act[h].run \in granted
    BY <1>0, <1>6 DEF SaveApproval, Cleared, ActorsCleared, Releasing
  <2>. QED  BY <1>0, <1>6, <2>1, WriteCleared DEF SaveApproval, Released
<1>7. CASE ApprovedJob(h)
  BY <1>0, <1>7, GoCleared DEF ApprovedJob
<1>8. CASE SaveRequest(h)
  BY <1>0, <1>8, GoCleared DEF SaveRequest, Releasing
<1>9. CASE Resume(h)
  <2>1. run[act[h].run].gated => act[h].run \in granted
    BY <1>0, <1>9 DEF Resume, Cleared, ActorsCleared, Releasing
  <2>. QED  BY <1>0, <1>9, <2>1, WriteCleared DEF Resume, Released
<1>10. CASE ResumedJob(h)
  BY <1>0, <1>10, GoCleared DEF ResumedJob, Releasing
<1>11. CASE Block(h)
  BY <1>0, <1>11, WriteCleared DEF Block, Released, Releasing
<1>12. CASE BlockedJob(h)
  BY <1>0, <1>12, GoCleared DEF BlockedJob
<1>. QED
  BY <1>1, <1>2, <1>3, <1>4, <1>5, <1>6, <1>7, <1>8, <1>9, <1>10, <1>11, <1>12
  DEF HandlerStep

LEMMA RunCleared ==
    ASSUME Typed, Typed', Cleared, NEW a \in Actors, RunStep(a)
    PROVE  Cleared'
<1>. USE DEF RunStatus, Settled, PC, Loose, Validating, Executing, Trying, Inline, KeepRows, KeepHistory
<1>0. act[a] \in ActorRec
  BY DEF Typed, TypeOK
<1>1. CASE ReadPending(a)
  BY <1>1, GoCleared DEF ReadPending, AfterValidation, Releasing
<1>2. CASE SaveValidation(a)
  <2>1. act[a].pc \notin Loose /\ act[a].run \in Runs /\ UNCHANGED granted
    BY <1>2 DEF SaveValidation, Typed, LocalsOK
  <2>2. CASE act' = [act EXCEPT ![a].pc = "validate_job", ![a].broken = TRUE]
             /\ SetStatus(act[a].run, "validation_failed")
    <3>1. GateStays /\ ApprovedBeforeExecution'
      BY <2>1, <2>2, StatusCleared DEF Released
    <3>. DEFINE x == [act[a] EXCEPT !.pc = "validate_job", !.broken = TRUE]
    <3>2. x.pc \notin Releasing /\ act' = [act EXCEPT ![a] = x]
      BY <1>0, <2>2 DEF ActorRec, Releasing
    <3>. HIDE DEF x
    <3>. QED  BY <3>1, <3>2, ClearedMoves
  <2>3. CASE SetStatus(act[a].run, "approval_pending") /\ Goto(a, "validate_job")
    <3>1. "approval_pending" \in RunStatus \ Released /\ "validate_job" \in PC \ Releasing
      BY DEF Released, Releasing
    <3>. QED  BY <2>1, <2>3, <3>1, WriteCleared
  <2>4. CASE SetStatus(act[a].run, "approved") /\ Goto(a, "validate_audit")
             /\ ~run[act[a].run].gated
    BY <2>1, <2>4, WriteCleared DEF Releasing
  <2>. QED  BY <1>2, <2>2, <2>3, <2>4 DEF SaveValidation
<1>3. CASE ReportValidation(a)
  <2>1. CASE TurnToApproved(a) \/ Goto(a, "validate_audit")
    BY <1>3, <2>1, GoCleared DEF ReportValidation, Releasing
  <2>2. CASE act' = [act EXCEPT ![a].pc = "inline_check", ![a].broken = FALSE]
    <3>. DEFINE x == [act[a] EXCEPT !.pc = "inline_check", !.broken = FALSE]
    <3>1. x.pc \notin Releasing /\ act' = [act EXCEPT ![a] = x]
      BY <1>0, <2>2 DEF ActorRec, Releasing
    <3>. HIDE DEF x
    <3>. QED  BY <1>3, <3>1, LocalsCleared DEF ReportValidation
  <2>. QED  BY <1>3, <2>1, <2>2 DEF ReportValidation
<1>4. CASE ReadExecuting(a)
  <2>1. CASE act' = [act EXCEPT ![a].pc = "step", ![a].step = 1, ![a].broken = FALSE]
    <3>. DEFINE x == [act[a] EXCEPT !.pc = "step", !.step = 1, !.broken = FALSE]
    <3>1. x.run = act[a].run /\ act' = [act EXCEPT ![a] = x]
      BY <1>0, <2>1 DEF ActorRec
    <3>2. act[a].pc \in Releasing /\ UNCHANGED <<run, granted>>
      BY <1>4 DEF ReadExecuting, Releasing
    <3>. HIDE DEF x
    <3>. QED  BY <3>1, <3>2, LocalsCleared
  <2>2. CASE End(a) \/ Goto(a, "unexecute")
    BY <1>4, <2>2, GoCleared DEF ReadExecuting, Releasing
  <2>. QED  BY <1>4, <2>1, <2>2 DEF ReadExecuting
<1>5. CASE RunTypedAction(a)
  <2>1. act[a].pc \in Releasing /\ UNCHANGED <<run, granted>>
    BY <1>5 DEF RunTypedAction, Releasing
  <2>2. ASSUME NEW pc \in PC, Leave(a, pc)
        PROVE  Cleared'
    BY <2>1, <2>2, LeaveCleared
  <2>3. CASE act' = [act EXCEPT ![a].step = act[a].step + 1]
    <3>1. [act[a] EXCEPT !.step = act[a].step + 1].run = act[a].run
      BY <1>0 DEF ActorRec
    <3>. QED  BY <2>1, <2>3, <3>1, LocalsCleared
  <2>. QED  BY <1>5, <2>2, <2>3 DEF RunTypedAction
<1>6. CASE ExtractFile(a)
  BY <1>6, LeaveCleared DEF ExtractFile, Releasing
<1>7. CASE Pause(a)
  <2>1. run[act[a].run].gated => act[a].run \in granted
    BY <1>7 DEF Pause, Cleared, ActorsCleared, Releasing
  <2>. QED  BY <1>7, <2>1, WriteCleared DEF Pause, Releasing
<1>8. CASE Reread(a)
  BY <1>8, GoCleared DEF Reread, Releasing
<1>9. CASE Complete(a)
  <2>1. run[act[a].run].gated => act[a].run \in granted
    BY <1>9 DEF Complete, Cleared, ActorsCleared, Releasing
  <2>. QED  BY <1>9, <2>1, WriteCleared DEF Complete, Releasing
<1>10. CASE IndexFile(a)
  BY <1>10, GoCleared DEF IndexFile, Releasing
<1>11. CASE CompleteJob(a)
  BY <1>11, GoCleared DEF CompleteJob, Releasing
<1>12. CASE Fail(a)
  <2>1. "failed" \in RunStatus \ Released /\ "job_fail" \in PC \ Releasing
    BY DEF Released, Releasing
  <2>2. /\ act[a].pc \notin Loose /\ UNCHANGED granted
        /\ SetStatus(act[a].run, "failed") /\ Goto(a, "job_fail")
    BY <1>12 DEF Fail
  <2>. QED  BY <2>1, <2>2, WriteCleared
<1>13. CASE FailJob(a)
  BY <1>13, GoCleared DEF FailJob
<1>14. CASE WriteAudit(a)
  BY <1>14, GoCleared DEF WriteAudit, AfterValidation, Releasing
<1>. QED
  BY <1>1, <1>2, <1>3, <1>4, <1>5, <1>6, <1>7, <1>8, <1>9, <1>10, <1>11, <1>12, <1>13,
     <1>14
  DEF RunStep

LEMMA RequestCleared ==
    ASSUME Typed, Typed', Cleared, NEW h \in Handlers, Request(h)
    PROVE  Cleared'
<1>. USE DEF KeepRows, KeepHistory
<1>0. h \in Actors /\ act[h] \in ActorRec /\ run \in [Runs -> RunRow]
  BY DEF Typed, TypeOK, Actors
<1>1. ASSUME NEW r \in Runs, Create(h, r)
      PROVE  Cleared'
  <2>1. GateStays /\ ApprovedBeforeExecution'
    BY <1>0, <1>1
    DEF Create, GateStays, Cleared, ApprovedBeforeExecution, Released, RunRow
  <2>. DEFINE x == [act[h] EXCEPT !.pc = "create_bind", !.run = r]
  <2>2. x.pc \notin Releasing /\ act' = [act EXCEPT ![h] = x]
    BY <1>0, <1>1 DEF ActorRec, Releasing, Create
  <2>. HIDE DEF x
  <2>. QED  BY <1>0, <2>1, <2>2, ClearedMoves
<1>2. ASSUME NEW r \in Runs, approveSandboxRun(h, r)
      PROVE  Cleared'
  <2>1. GateStays /\ ApprovedBeforeExecution' /\ r \in granted'
    BY <1>2 DEF approveSandboxRun, GateStays, Cleared, ApprovedBeforeExecution
  <2>. DEFINE x == [act[h] EXCEPT !.pc = "approve_save", !.run = r]
  <2>2. x.run = r /\ act' = [act EXCEPT ![h] = x]
    BY <1>0, <1>2 DEF ActorRec, approveSandboxRun
  <2>. HIDE DEF x
  <2>. QED  BY <1>0, <2>1, <2>2, ClearedMoves
<1>3. ASSUME NEW q \in Requests, approveRequest(h, q)
      PROVE  Cleared'
  <2>1. GateStays /\ ApprovedBeforeExecution' /\ UNCHANGED <<run, granted>>
    BY <1>3 DEF approveRequest, GateStays, Cleared, ApprovedBeforeExecution
  <2>2. request[q].run \in Runs /\ run[request[q].run].status \in Released
    BY <1>3 DEF approveRequest, Typed, TypeOK, RequestRow, Released
  <2>3. run[request[q].run].gated => request[q].run \in granted
    BY <2>2 DEF Cleared, ApprovedBeforeExecution
  <2>. DEFINE x == [act[h] EXCEPT !.pc = "grant_request", !.run = request[q].run, !.req = q]
  <2>4. x.run = request[q].run /\ act' = [act EXCEPT ![h] = x]
    BY <1>0, <1>3 DEF ActorRec, approveRequest
  <2>. HIDE DEF x
  <2>. QED  BY <1>0, <2>1, <2>3, <2>4, ClearedMoves
<1>4. ASSUME NEW q \in Requests, rejectRequest(h, q)
      PROVE  Cleared'
  <2>. DEFINE x == [act[h] EXCEPT !.pc = "deny_request", !.run = request[q].run, !.req = q]
  <2>1. x.pc \notin Releasing /\ act' = [act EXCEPT ![h] = x] /\ UNCHANGED <<run, granted>>
    BY <1>0, <1>4 DEF ActorRec, Releasing, rejectRequest
  <2>. HIDE DEF x
  <2>. QED  BY <1>0, <2>1, LocalsCleared
<1>. QED  BY <1>1, <1>2, <1>3, <1>4 DEF Request

LEMMA StepCleared == Typed /\ Typed' /\ Cleared /\ [Next]_vars => Cleared'
<1>. SUFFICES ASSUME Typed, Typed', Cleared, [Next]_vars
              PROVE  Cleared'
  OBVIOUS
<1>. USE DEF KeepRows, KeepHistory
<1>1. CASE UNCHANGED <<run, act, granted>>
  BY <1>1 DEF Cleared, ApprovedBeforeExecution, ActorsCleared
<1>2. ASSUME NEW a \in Actors, Throw(a)
      PROVE  Cleared'
  <2>1. UNCHANGED <<run, granted>> /\ Leave(a, "fail")
    BY <1>2 DEF Throw
  <2>. QED  BY <2>1, LeaveCleared DEF PC, Executing, Releasing
<1>2a. ASSUME NEW a \in Actors, ThrowInvalid(a)
       PROVE  Cleared'
  <2>. DEFINE x == [act[a] EXCEPT !.pc = "validate_save", !.broken = TRUE]
  <2>1. act[a] \in ActorRec /\ act \in [Actors -> ActorRec]
    BY DEF Typed, TypeOK
  <2>2. x.pc \notin Releasing /\ act' = [act EXCEPT ![a] = x]
    BY <1>2a, <2>1 DEF ThrowInvalid, ActorRec, Releasing
  <2>. HIDE DEF x
  <2>. QED  BY <1>2a, <2>2, LocalsCleared DEF ThrowInvalid
<1>3. ASSUME NEW a \in Actors, Crash(a)
      PROVE  Cleared'
  <2>1. Resting.pc \notin Releasing
    BY DEF Resting, Releasing
  <2>. QED  BY <1>3, <2>1, LocalsCleared DEF Crash
<1>. QED
  BY <1>1, <1>2, <1>2a, <1>3, NodeCleared, HandlerCleared, RunCleared, RequestCleared
  DEF Next, vars, ExpireRequest, Switch

\* No gated run is queued for execution, executed, paused or completed unless an
\* admin passed the check of approveSandboxRun for it: not over the second saves
\* of its creator, the kill switch, restarts, or two admins at once.
THEOREM SandboxApproval == Spec => []ApprovedBeforeExecution
<1>1. Typed /\ Cleared => ApprovedBeforeExecution
  BY DEF Cleared
<1>2. Init => Typed /\ Cleared
  BY InitTyped, InitCleared
<1>3. Typed /\ Cleared /\ [Next]_vars => Typed' /\ Cleared'
  BY StepTyped, StepCleared
<1>. QED  BY <1>1, <1>2, <1>3, PTL DEF Spec


-----------------------------------------------------------------------------
\* What the sandbox does to the rows of ai_jobs, for the job runner's queue

\* The sandbox writes the job of a run it has created, one at a time, and only
\* as running, completed or failed.  It is what JobQueue assumes of the sandbox
\* (SandboxReports): a job that was never handed over is never reported on.
ReportsAreOfRuns ==
    [][job' # job =>
         \E r \in Runs, status \in {"running", "completed", "failed"} :
             /\ run[r].status # "absent"
             /\ job' = [job EXCEPT ![r] = status]]_vars

\* The statements that write a job, of actors that have a run.
ReportedBy(a) ==
    /\ act[a].pc \notin Loose
    /\ \E status \in {"running", "completed", "failed"} :
         job' = [job EXCEPT ![act[a].run] = status]

LEMMA StepReports ==
    ASSUME Typed, Next, job' # job
    PROVE  \E a \in Actors : ReportedBy(a)
<1>. USE DEF KeepRows
<1>1. ASSUME NEW n \in Nodes, NodeStep(n)
      PROVE  UNCHANGED job
  BY <1>1 DEF NodeStep, StartTick, SelectStaged, ClaimStaged, SelectApproved, ClaimApproved,
              PutBack
<1>2. ASSUME NEW h \in Handlers, HandlerStep(h), job' # job
      PROVE  ReportedBy(h)
  <2>1. ApprovedJob(h) \/ ResumedJob(h) \/ BlockedJob(h)
    BY <1>2 DEF HandlerStep, resolveAndBindForRun, CreateResave, InlineClaim, InlineCheck,
                InlineExecute, SaveApproval, SaveRequest, Resume, Block
  <2>. QED  BY <2>1 DEF ReportedBy, ApprovedJob, ResumedJob, BlockedJob, Loose
<1>3. ASSUME NEW h \in Handlers, Request(h)
      PROVE  UNCHANGED job
  BY <1>3 DEF Request, Create, approveSandboxRun, approveRequest, rejectRequest
<1>4. ASSUME NEW a \in Actors, RunStep(a), job' # job
      PROVE  ReportedBy(a)
  <2>1. ReportValidation(a) \/ CompleteJob(a) \/ FailJob(a)
    BY <1>4 DEF RunStep, ReadPending, SaveValidation, WriteAudit, ReadExecuting,
                RunTypedAction, ExtractFile, Pause, Reread, Complete, IndexFile, Fail
  <2>. QED  BY <2>1 DEF ReportedBy, ReportValidation, CompleteJob, FailJob, Loose
<1>5. \A h \in Handlers : h \in Actors
  BY DEF Actors
<1>. QED
  BY <1>1, <1>2, <1>3, <1>4, <1>5
  DEF Next, Throw, ThrowInvalid, Crash, ExpireRequest, Switch

\* The assumption that JobQueue makes of the sandbox is true of the sandbox, for
\* any number of runs, replicas, requests and crashes.
THEOREM SandboxContract == Spec => ReportsAreOfRuns
<1>1. ASSUME Typed, Next, job' # job
      PROVE  \E r \in Runs, status \in {"running", "completed", "failed"} :
                 /\ run[r].status # "absent"
                 /\ job' = [job EXCEPT ![r] = status]
  <2>1. PICK a \in Actors : ReportedBy(a)
    BY <1>1, StepReports
  <2>2. act[a].run \in Runs /\ run[act[a].run].status # "absent"
    BY <1>1, <2>1 DEF ReportedBy, Typed, LocalsOK
  <2>. QED  BY <2>1, <2>2 DEF ReportedBy
<1>2. Typed /\ [Next]_vars =>
        [job' # job =>
           \E r \in Runs, status \in {"running", "completed", "failed"} :
               /\ run[r].status # "absent"
               /\ job' = [job EXCEPT ![r] = status]]_vars
  BY <1>1 DEF vars
<1>. QED  BY <1>2, InitTyped, StepTyped, PTL DEF Spec, ReportsAreOfRuns
=============================================================================
