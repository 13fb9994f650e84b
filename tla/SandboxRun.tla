----------------------------- MODULE SandboxRun -----------------------------
(***************************************************************************)
(* Sandbox runs: how a plan of typed actions is staged, validated,         *)
(* approved, executed step by step and paused for approval.                *)
(*                                                                         *)
(* A row of sandbox_runs is moved by the job runner of every replica       *)
(* (nodes) and by requests of the API (handlers).  The job runner moves it *)
(* by compare-and-set; everyone else reads the row, checks its status and  *)
(* saves it by id later.  An action is one statement on runs, approval     *)
(* requests or jobs; what an actor keeps between two statements is in      *)
(* act[a].  The diff a run leaves behind is PatchReview's.                 *)
(***************************************************************************)
EXTENDS Naturals, Sequences, FiniteSets

CONSTANTS
    Runs,           \* primary keys of sandbox_runs
    Plan,           \* the typed actions of a run, by type
    Rank,           \* order of the queue: by runPriority, then by creation
    Rules,          \* the rules of the bound policy version
    Nodes,          \* replicas with a job runner
    Handlers,       \* requests of the API in flight
    Deciders,       \* those that may answer an approval request
    Requests,       \* primary keys of sandbox_approval_requests
    None,           \* SQL NULL
    MaxSwitches,    \* how often the kill switch is thrown
    MaxFailures     \* crashes of an actor and statements that throw

Actors == Nodes \cup Handlers
\* A plan of actions, a plan that its creator runs itself, an extraction.
Kinds == {"operator", "inline", "extract"}

ASSUME SandboxAssumption ==
    /\ Nodes \cap Handlers = {}
    /\ Deciders \subseteq Handlers
    /\ Plan \in [Runs -> Seq(STRING)]
    /\ Rank \in [Runs -> Nat]
    /\ None \notin Runs \cup Requests
    /\ MaxSwitches \in Nat /\ MaxFailures \in Nat

VARIABLES
    run,        \* sandbox_runs: status, kind, requiresApproval, whether a policy is bound
    job,        \* status of the ai_jobs row of a run
    request,    \* sandbox_approval_requests
    act,        \* where each actor is, and its locals
    systemOn,   \* the kill switch
    switches, failures,
    granted,    \* history: runs for which approveSandboxRun passed its check
    late        \* history: runs with a row or request saved over a status not read

vars == <<run, job, request, act, systemOn, switches, failures, granted, late>>

Settled == {"completed", "failed", "blocked", "validation_failed"}
RunStatus == {"absent", "staged", "validation_pending", "approval_pending",
              "approved", "executing", "paused_approval_required"} \cup Settled
JobStatus == {"running", "completed", "failed"}
RunRow == [status : RunStatus, kind : Kinds, gated : BOOLEAN, bound : BOOLEAN]
RequestStatus == {"pending", "approved", "rejected", "expired"}
RequestRow == [run : Runs, status : RequestStatus]
ASSUME NullAssumption == None \notin RequestRow

Creating == {"create_bind", "create_save"}
Validating == {"validate", "validate_save", "validate_job", "validate_audit"}
\* Inside the try block of executeSandboxRunAfterClaim, and its end.
Trying == {"step", "pause", "reread", "complete", "index", "job_done", "audit"}
Executing == {"read_executing", "fail", "job_fail"} \cup Trying
Inline == {"inline_claim", "inline_check", "inline_execute"}
Approving == {"approve_save", "approve_bind", "approve_resave", "approve_job"}
Granting == {"grant_request", "grant_run", "grant_job"}
Denying == {"deny_request", "deny_run", "deny_job"}
PC == {"idle", "staged", "claim_staged", "unclaim", "approved", "claim_approved",
       "unexecute"} \cup Creating \cup Validating \cup Executing \cup Inline
      \cup Approving \cup Granting \cup Denying

\* Locals of a tick or a request: the run, the step of its plan, whether its
\* validation has failed, and the approval request it is about.
ActorRec == [pc : PC, run : Runs \cup {None}, step : Nat, broken : BOOLEAN,
             req : Requests \cup {None}]

Resting == [pc |-> "idle", run |-> None, step |-> 0, broken |-> FALSE,
            req |-> None]

TypeOK ==
    /\ run \in [Runs -> RunRow]
    /\ job \in [Runs -> JobStatus]
    /\ request \in [Requests -> RequestRow \cup {None}]
    /\ act \in [Actors -> ActorRec]
    /\ systemOn \in BOOLEAN
    /\ switches \in 0..MaxSwitches
    /\ failures \in 0..MaxFailures
    /\ granted \subseteq Runs
    /\ late \subseteq Runs

Init ==
    /\ run = [r \in Runs |-> [status |-> "absent", kind |-> "operator", gated |-> FALSE, bound |-> FALSE]]
    /\ job = [r \in Runs |-> "running"]
    /\ request = [q \in Requests |-> None]
    /\ act = [a \in Actors |-> Resting]
    /\ systemOn = TRUE
    /\ switches = 0
    /\ failures = 0
    /\ granted = {}
    /\ late = {}

----------------------------------------------------------------------------
\* Statements and locals

SetStatus(r, s) == run' = [run EXCEPT ![r].status = s]
Goto(a, pc) == act' = [act EXCEPT ![a].pc = pc]

\* The end of a request.  A job runner goes on with its next slot, which asks
\* the kill switch no more than the first, or waits for the next tick.
Ends(a) == IF a \in Handlers THEN Resting ELSE [Resting EXCEPT !.pc = "staged"]
End(a) == act' = [act EXCEPT ![a] = Ends(a)]
TurnToApproved(n) == act' = [act EXCEPT ![n] = [Resting EXCEPT !.pc = "approved"]]

KeepWorld == UNCHANGED <<systemOn, switches, failures>>
KeepRows == UNCHANGED <<run, job>>
KeepHistory == UNCHANGED <<granted, late>>

SavedLate(r, s) == late' = IF run[r].status # s THEN late \cup {r} ELSE late

\* What the policy says of an action type: deny goes before approval, approval
\* before a rewrite, and what no rule allows is denied.
Decision(type) ==
    CASE type \in Rules.deny -> "deny"
      [] type \notin Rules.deny /\ type \in Rules.requireApproval -> "require_approval"
      [] OTHER -> IF type \in Rules.rewrites \cup Rules.allow THEN "allow" ELSE "deny"

----------------------------------------------------------------------------
\* Creation

Create(h, r) ==
    /\ act[h].pc = "idle"
    /\ systemOn
    /\ run[r].status = "absent"
    /\ \E kind \in Kinds, gated \in BOOLEAN :
         /\ kind = "inline" => ~gated
         /\ run' = [run EXCEPT ![r] = [status |-> "staged", kind |-> kind,
                                      gated |-> gated, bound |-> FALSE]]
    /\ act' = [act EXCEPT ![h].pc = "create_bind", ![h].run = r]
    /\ UNCHANGED job /\ KeepHistory /\ UNCHANGED request /\ KeepWorld

resolveAndBindForRun(h) ==
    /\ act[h].pc \in {"create_bind", "approve_bind"}
    /\ run' = [run EXCEPT ![act[h].run].bound = TRUE]
    /\ Goto(h, IF act[h].pc = "create_bind" THEN "create_save" ELSE "approve_resave")
    /\ UNCHANGED job /\ KeepHistory /\ UNCHANGED request /\ KeepWorld

\* The entity is saved again for its policy version: its status, staged, is
\* written over whatever the job runner has made of the run meanwhile.
CreateResave(h) ==
    /\ act[h].pc = "create_save"
    /\ SetStatus(act[h].run, "staged")
    /\ SavedLate(act[h].run, "staged")
    /\ IF run[act[h].run].kind = "inline" THEN Goto(h, "inline_claim") ELSE End(h)
    /\ UNCHANGED <<job, granted>> /\ UNCHANGED request /\ KeepWorld

----------------------------------------------------------------------------
\* The job runner's queue

\* Mutant: the queue also takes the runs that their creators execute.
QueuedMutant(s) == {r \in Runs : run[r].status = s}

Queued(s) == {r \in Runs : run[r].status = s /\ run[r].kind # "inline"}
IsFirst(r, S) == r \in S /\ \A t \in S : Rank[r] <= Rank[t]

StartTick(n) ==
    /\ act[n].pc = "idle"
    /\ systemOn
    /\ Goto(n, "staged")
    /\ KeepRows /\ KeepHistory /\ UNCHANGED request /\ KeepWorld

SelectStaged(n) ==
    /\ act[n].pc = "staged"
    /\ \/ \E r \in Queued("staged") :
            /\ IsFirst(r, Queued("staged"))
            /\ act' = [act EXCEPT ![n].pc = "claim_staged", ![n].run = r]
       \/ /\ Queued("staged") = {}
          /\ Goto(n, "approved")
    /\ KeepRows /\ KeepHistory /\ UNCHANGED request /\ KeepWorld

\* Mutant: the claim is an update by id, which always finds its row.
ClaimStagedMutant(n) ==
    /\ act[n].pc = "claim_staged"
    /\ SetStatus(act[n].run, "validation_pending")
    /\ Goto(n, "validate")
    /\ UNCHANGED job /\ KeepHistory /\ UNCHANGED request /\ KeepWorld

ClaimStaged(n) ==
    /\ act[n].pc = "claim_staged"
    /\ IF run[act[n].run].status = "staged"
         THEN SetStatus(act[n].run, "validation_pending") /\ Goto(n, "validate")
         ELSE TurnToApproved(n) /\ UNCHANGED run
    /\ UNCHANGED job /\ KeepHistory /\ UNCHANGED request /\ KeepWorld

SelectApproved(n) ==
    /\ act[n].pc = "approved"
    /\ \/ \E r \in Queued("approved") :
            /\ IsFirst(r, Queued("approved"))
            /\ act' = [act EXCEPT ![n].pc = "claim_approved", ![n].run = r]
       \/ /\ Queued("approved") = {}
          /\ act' = [act EXCEPT ![n] = Resting]
    /\ KeepRows /\ KeepHistory /\ UNCHANGED request /\ KeepWorld

\* Bound: an execution starts only while a request id is left for each one that
\* may still come to a step that needs approval.
MayAsk == {"read_executing", "step"} \cup Granting
IdsLeft == Cardinality({q \in Requests : request[q] = None})
             > Cardinality({a \in Actors : act[a].pc \in MayAsk})

\* Mutant: the claim is an update by id, which always finds its row.
ClaimApprovedMutant(n) ==
    /\ act[n].pc = "claim_approved"
    /\ IdsLeft
    /\ SetStatus(act[n].run, "executing")
    /\ Goto(n, "read_executing")
    /\ UNCHANGED job /\ KeepHistory /\ UNCHANGED request /\ KeepWorld

ClaimApproved(n) ==
    /\ act[n].pc = "claim_approved"
    /\ IF run[act[n].run].status = "approved"
         THEN /\ IdsLeft
              /\ SetStatus(act[n].run, "executing")
              /\ Goto(n, "read_executing")
         ELSE End(n) /\ UNCHANGED run
    /\ UNCHANGED job /\ KeepHistory /\ UNCHANGED request /\ KeepWorld

\* Mutant: what was claimed for validation is put back among the approved runs.
PutBackMutant(n) ==
    /\ act[n].pc \in {"unclaim", "unexecute"}
    /\ SetStatus(act[n].run, "approved")
    /\ IF act[n].pc = "unclaim" THEN TurnToApproved(n) ELSE End(n)
    /\ UNCHANGED job /\ KeepHistory /\ UNCHANGED request /\ KeepWorld

\* The kill switch stopped what the runner had claimed: it is put back.
PutBack(n) ==
    /\ act[n].pc \in {"unclaim", "unexecute"}
    /\ LET r == act[n].run
           from == IF act[n].pc = "unclaim" THEN "validation_pending" ELSE "executing"
           to == IF act[n].pc = "unclaim" THEN "staged" ELSE "approved"
       IN  IF run[r].status = from THEN SetStatus(r, to) ELSE UNCHANGED run
    /\ IF act[n].pc = "unclaim" THEN TurnToApproved(n) ELSE End(n)
    /\ UNCHANGED job /\ KeepHistory /\ UNCHANGED request /\ KeepWorld

----------------------------------------------------------------------------
\* Validation, by the job runner or by the creator of an inline run

AfterValidation(a) ==
    IF a \in Handlers THEN Goto(a, "inline_check") ELSE TurnToApproved(a)

ReadPending(a) ==
    /\ act[a].pc = "validate"
    /\ IF run[act[a].run].status # "validation_pending" THEN AfterValidation(a)
       ELSE IF systemOn THEN Goto(a, "validate_save")
       ELSE IF a \in Nodes THEN Goto(a, "unclaim") ELSE End(a)
    /\ KeepRows /\ KeepHistory /\ UNCHANGED request /\ KeepWorld

\* An empty plan is refused; of a file anything may be wrong.
MayBeInvalid(r) == Plan[r] = <<>> \/ run[r].kind = "extract"
MayBeValid(r) == Plan[r] # <<>> \/ run[r].kind = "extract"

SaveValidation(a) ==
    /\ act[a].pc = "validate_save"
    /\ LET r == act[a].run
       IN  \/ /\ MayBeInvalid(r) \/ act[a].broken
              /\ SetStatus(r, "validation_failed")
              /\ act' = [act EXCEPT ![a].pc = "validate_job", ![a].broken = TRUE]
           \/ /\ MayBeValid(r) /\ ~act[a].broken
              /\ run[r].gated
              /\ SetStatus(r, "approval_pending")
              /\ Goto(a, "validate_job")
           \/ /\ MayBeValid(r) /\ ~act[a].broken
              /\ ~run[r].gated
              /\ SetStatus(r, "approved")
              /\ Goto(a, "validate_audit")
    /\ UNCHANGED job /\ KeepHistory /\ UNCHANGED request /\ KeepWorld

ReportValidation(a) ==
    /\ act[a].pc = "validate_job"
    /\ job' = [job EXCEPT ![act[a].run] = IF act[a].broken THEN "failed" ELSE "running"]
    /\ IF ~act[a].broken THEN Goto(a, "validate_audit")
       ELSE IF a \in Handlers THEN act' = [act EXCEPT ![a].pc = "inline_check", ![a].broken = FALSE]
       ELSE TurnToApproved(a)
    /\ UNCHANGED run /\ KeepHistory /\ UNCHANGED request /\ KeepWorld

\* What is still awaited once the rows are written: the answer of the last
\* statement, the audit, and the log and the suggestion of an extraction.
WriteAudit(a) ==
    /\ act[a].pc \in {"validate_audit", "audit"}
    /\ IF act[a].pc = "audit" THEN End(a) ELSE AfterValidation(a)
    /\ KeepRows /\ KeepHistory /\ UNCHANGED request /\ KeepWorld

----------------------------------------------------------------------------
\* finishCciInlineSandboxRun: the creator takes the runner's part.  When the
\* second claim fails it waits for the run and changes nothing more.

InlineClaim(h) ==
    /\ act[h].pc = "inline_claim"
    /\ IF run[act[h].run].status = "staged"
         THEN SetStatus(act[h].run, "validation_pending") /\ Goto(h, "validate")
         ELSE End(h) /\ UNCHANGED run
    /\ UNCHANGED job /\ KeepHistory /\ UNCHANGED request /\ KeepWorld

InlineCheck(h) ==
    /\ act[h].pc = "inline_check"
    /\ IF run[act[h].run].status = "approved" THEN Goto(h, "inline_execute") ELSE End(h)
    /\ KeepRows /\ KeepHistory /\ UNCHANGED request /\ KeepWorld

InlineExecute(h) ==
    /\ act[h].pc = "inline_execute"
    /\ IF run[act[h].run].status = "approved"
         THEN /\ IdsLeft
              /\ SetStatus(act[h].run, "executing")
              /\ Goto(h, "read_executing")
         ELSE End(h) /\ UNCHANGED run
    /\ UNCHANGED job /\ KeepHistory /\ UNCHANGED request /\ KeepWorld

----------------------------------------------------------------------------
\* executeSandboxRunAfterClaim

\* Mutant: the status from before the claim is asked for.
ReadExecutingMutant(a) ==
    /\ act[a].pc = "read_executing"
    /\ IF run[act[a].run].status # "approved" THEN End(a)
       ELSE act' = [act EXCEPT ![a].pc = "step", ![a].step = 1, ![a].broken = FALSE]
    /\ KeepRows /\ KeepHistory /\ UNCHANGED request /\ KeepWorld

ReadExecuting(a) ==
    /\ act[a].pc = "read_executing"
    /\ IF run[act[a].run].status # "executing" THEN End(a)
       ELSE IF systemOn
         THEN act' = [act EXCEPT ![a].pc = "step", ![a].step = 1, ![a].broken = FALSE]
       ELSE IF a \in Nodes THEN Goto(a, "unexecute") ELSE End(a)
    /\ KeepRows /\ KeepHistory /\ UNCHANGED request /\ KeepWorld

\* The plan is over, with or without a step that did not complete: the list of
\* commands, in which the code looks for one, is always empty.
Leave(a, pc) == act' = [act EXCEPT ![a].pc = pc, ![a].step = 0]

\* One typed action.  The policy is that of the binding; a run that has none
\* yet fails.  A path outside the workspace throws.
RunTypedAction(a) ==
    /\ act[a].pc = "step"
    /\ run[act[a].run].kind # "extract"
    /\ LET r == act[a].run
           i == act[a].step
       IN  IF i > Len(Plan[r]) THEN Leave(a, "reread") /\ UNCHANGED request
           ELSE IF ~run[r].bound THEN Leave(a, "fail") /\ UNCHANGED request
           ELSE \/ /\ Decision(Plan[r][i]) = "deny"
                   /\ Leave(a, "reread")
                   /\ UNCHANGED request
                \/ /\ Decision(Plan[r][i]) = "require_approval"
                   /\ \E q \in Requests :
                        /\ request[q] = None
                        /\ request' = [request EXCEPT ![q] = [run |-> r, status |-> "pending"]]
                   /\ Leave(a, "pause")
                \/ /\ Decision(Plan[r][i]) = "allow"
                   /\ \/ act' = [act EXCEPT ![a].step = i + 1]
                      \/ Leave(a, "reread") \/ Leave(a, "fail")
                   /\ UNCHANGED request
    /\ KeepRows /\ KeepHistory /\ KeepWorld

ExtractFile(a) ==
    /\ act[a].pc = "step"
    /\ run[act[a].run].kind = "extract"
    /\ Leave(a, "complete") \/ Leave(a, "fail")
    /\ KeepRows /\ KeepHistory /\ UNCHANGED request /\ KeepWorld

\* Mutant: the status as the column of migration 005, VARCHAR(20), would cut it.
PauseMutant(a) ==
    /\ act[a].pc = "pause"
    /\ SetStatus(act[a].run, "paused_approval_requ")
    /\ Goto(a, "reread")
    /\ UNCHANGED job /\ KeepHistory /\ UNCHANGED request /\ KeepWorld

Pause(a) ==
    /\ act[a].pc = "pause"
    /\ SetStatus(act[a].run, "paused_approval_required")
    /\ Goto(a, "reread")
    /\ UNCHANGED job /\ KeepHistory /\ UNCHANGED request /\ KeepWorld

\* Only the row says that the plan was interrupted.
Reread(a) ==
    /\ act[a].pc = "reread"
    /\ IF run[act[a].run].status = "paused_approval_required" THEN End(a)
                                                              ELSE Goto(a, "complete")
    /\ KeepRows /\ KeepHistory /\ UNCHANGED request /\ KeepWorld

Complete(a) ==
    /\ act[a].pc = "complete"
    /\ SetStatus(act[a].run, "completed")
    /\ Goto(a, IF run[act[a].run].kind = "extract" THEN "index" ELSE "job_done")
    /\ UNCHANGED job /\ KeepHistory /\ UNCHANGED request /\ KeepWorld

\* Metadata, chunks and embeddings of the file, after the run is completed.
IndexFile(a) ==
    /\ act[a].pc = "index"
    /\ Goto(a, "job_done")
    /\ KeepRows /\ KeepHistory /\ UNCHANGED request /\ KeepWorld

CompleteJob(a) ==
    /\ act[a].pc = "job_done"
    /\ job' = [job EXCEPT ![act[a].run] = "completed"]
    /\ Goto(a, "audit")
    /\ UNCHANGED run /\ KeepHistory /\ UNCHANGED request /\ KeepWorld

\* Mutant: the catch forgets the job.
FailMutant(a) ==
    /\ act[a].pc = "fail"
    /\ SetStatus(act[a].run, "failed")
    /\ End(a)
    /\ UNCHANGED job /\ KeepHistory /\ UNCHANGED request /\ KeepWorld

Fail(a) ==
    /\ act[a].pc = "fail"
    /\ SetStatus(act[a].run, "failed")
    /\ Goto(a, "job_fail")
    /\ UNCHANGED job /\ KeepHistory /\ UNCHANGED request /\ KeepWorld

FailJob(a) ==
    /\ act[a].pc = "job_fail"
    /\ job' = [job EXCEPT ![act[a].run] = "failed"]
    /\ End(a)
    /\ UNCHANGED run /\ KeepHistory /\ UNCHANGED request /\ KeepWorld

----------------------------------------------------------------------------
\* Approval of a run before it is executed

approveSandboxRun(h, r) ==
    /\ act[h].pc = "idle"
    /\ systemOn
    /\ run[r].status = "approval_pending"
    /\ granted' = granted \cup {r}
    /\ act' = [act EXCEPT ![h].pc = "approve_save", ![h].run = r]
    /\ KeepRows /\ UNCHANGED late /\ UNCHANGED request /\ KeepWorld

\* Saved twice, before and after the policy is bound.
SaveApproval(h) ==
    /\ act[h].pc \in {"approve_save", "approve_resave"}
    /\ SetStatus(act[h].run, "approved")
    /\ SavedLate(act[h].run, IF act[h].pc = "approve_save" THEN "approval_pending" ELSE "approved")
    /\ Goto(h, IF act[h].pc = "approve_save" THEN "approve_bind" ELSE "approve_job")
    /\ UNCHANGED <<job, granted>> /\ UNCHANGED request /\ KeepWorld

ApprovedJob(h) ==
    /\ act[h].pc = "approve_job"
    /\ job' = [job EXCEPT ![act[h].run] = "running"]
    /\ End(h)
    /\ UNCHANGED run /\ KeepHistory /\ UNCHANGED request /\ KeepWorld

----------------------------------------------------------------------------
\* Approval and rejection of a step of a paused run

approveRequest(h, q) ==
    /\ act[h].pc = "idle"
    /\ systemOn
    /\ request[q] # None
    /\ request[q].status = "pending"
    /\ run[request[q].run].status = "paused_approval_required"
    /\ IdsLeft
    /\ act' = [act EXCEPT ![h].pc = "grant_request", ![h].run = request[q].run, ![h].req = q]
    /\ KeepRows /\ KeepHistory /\ UNCHANGED request /\ KeepWorld

\* The status of the run is not looked at.
rejectRequest(h, q) ==
    /\ act[h].pc = "idle"
    /\ systemOn
    /\ request[q] # None
    /\ request[q].status = "pending"
    /\ act' = [act EXCEPT ![h].pc = "deny_request", ![h].run = request[q].run, ![h].req = q]
    /\ KeepRows /\ KeepHistory /\ UNCHANGED request /\ KeepWorld

SaveRequest(h) ==
    /\ act[h].pc \in {"grant_request", "deny_request"}
    /\ request' = [request EXCEPT ![act[h].req].status =
                     IF act[h].pc = "grant_request" THEN "approved" ELSE "rejected"]
    /\ late' = IF request[act[h].req].status # "pending" THEN late \cup {act[h].run} ELSE late
    /\ Goto(h, IF act[h].pc = "grant_request" THEN "grant_run" ELSE "deny_run")
    /\ KeepRows /\ UNCHANGED granted /\ KeepWorld

\* The plan starts again from its first step, in the request of the admin.
Resume(h) ==
    /\ act[h].pc = "grant_run"
    /\ SetStatus(act[h].run, "executing")
    /\ Goto(h, "grant_job")
    /\ UNCHANGED job /\ KeepHistory /\ UNCHANGED request /\ KeepWorld

ResumedJob(h) ==
    /\ act[h].pc = "grant_job"
    /\ job' = [job EXCEPT ![act[h].run] = "running"]
    /\ Goto(h, "read_executing")
    /\ UNCHANGED run /\ KeepHistory /\ UNCHANGED request /\ KeepWorld

Block(h) ==
    /\ act[h].pc = "deny_run"
    /\ SetStatus(act[h].run, "blocked")
    /\ Goto(h, "deny_job")
    /\ UNCHANGED job /\ KeepHistory /\ UNCHANGED request /\ KeepWorld

BlockedJob(h) ==
    /\ act[h].pc = "deny_job"
    /\ job' = [job EXCEPT ![act[h].run] = "failed"]
    /\ End(h)
    /\ UNCHANGED run /\ KeepHistory /\ UNCHANGED request /\ KeepWorld

\* Retention: a request nobody answered for a day.
ExpireRequest(q) ==
    /\ request[q] # None
    /\ request[q].status = "pending"
    /\ request' = [request EXCEPT ![q].status = "expired"]
    /\ KeepRows /\ KeepHistory /\ UNCHANGED act /\ KeepWorld

----------------------------------------------------------------------------
\* Failures and the kill switch

\* A statement inside the try block throws: the catch reports a failure, also
\* of a run that was already saved as completed, and its job with it.
Throw(a) ==
    /\ failures < MaxFailures
    /\ act[a].pc \in Trying
    /\ failures' = failures + 1
    /\ Leave(a, "fail")
    /\ KeepRows /\ KeepHistory /\ UNCHANGED request /\ UNCHANGED <<systemOn, switches>>

\* A statement of a validation throws, which its catch reports as a failed one,
\* also of a run that was already saved as awaiting approval or as approved, and
\* that another actor may be executing.
ThrowInvalid(a) ==
    /\ failures < MaxFailures
    /\ act[a].pc \in {"validate_save", "validate_job", "validate_audit"}
    /\ ~act[a].broken
    /\ failures' = failures + 1
    /\ act' = [act EXCEPT ![a].pc = "validate_save", ![a].broken = TRUE]
    /\ KeepRows /\ KeepHistory /\ UNCHANGED request /\ UNCHANGED <<systemOn, switches>>

\* The process dies, or a statement outside the try block throws.
Crash(a) ==
    /\ failures < MaxFailures
    /\ act[a].pc # "idle"
    /\ failures' = failures + 1
    /\ act' = [act EXCEPT ![a] = Resting]
    /\ KeepRows /\ KeepHistory /\ UNCHANGED request /\ UNCHANGED <<systemOn, switches>>

Switch ==
    /\ switches < MaxSwitches
    /\ switches' = switches + 1
    /\ systemOn' = ~systemOn
    /\ KeepRows /\ KeepHistory /\ UNCHANGED request /\ UNCHANGED <<act, failures>>

----------------------------------------------------------------------------
NodeStep(n) ==
    \/ StartTick(n) \/ SelectStaged(n) \/ ClaimStaged(n)
    \/ SelectApproved(n) \/ ClaimApproved(n) \/ PutBack(n)

\* The statements that follow once a request has been received.
HandlerStep(h) ==
    \/ resolveAndBindForRun(h) \/ CreateResave(h)
    \/ InlineClaim(h) \/ InlineCheck(h) \/ InlineExecute(h)
    \/ SaveApproval(h) \/ ApprovedJob(h)
    \/ SaveRequest(h) \/ Resume(h) \/ ResumedJob(h) \/ Block(h) \/ BlockedJob(h)

RunStep(a) ==
    \/ ReadPending(a) \/ SaveValidation(a) \/ ReportValidation(a) \/ WriteAudit(a)
    \/ ReadExecuting(a) \/ RunTypedAction(a) \/ ExtractFile(a) \/ Pause(a)
    \/ Reread(a) \/ Complete(a) \/ IndexFile(a)
    \/ CompleteJob(a) \/ Fail(a) \/ FailJob(a)

Request(h) ==
    \/ \E r \in Runs : Create(h, r) \/ approveSandboxRun(h, r)
    \/ \E q \in Requests : h \in Deciders /\ (approveRequest(h, q) \/ rejectRequest(h, q))

Next ==
    \/ \E n \in Nodes : NodeStep(n)
    \/ \E h \in Handlers : HandlerStep(h) \/ Request(h)
    \/ \E a \in Actors : RunStep(a) \/ Throw(a) \/ ThrowInvalid(a) \/ Crash(a)
    \/ \E q \in Requests : ExpireRequest(q)
    \/ Switch

Spec == Init /\ [][Next]_vars

\* A tick every two seconds, and every awaited statement returns.
FairSpec ==
    /\ Spec
    /\ \A n \in Nodes : WF_vars(NodeStep(n) \/ RunStep(n))
    /\ \A h \in Handlers : WF_vars(HandlerStep(h) \/ RunStep(h))

----------------------------------------------------------------------------
\* What an admin relies on

\* A run that was created to be approved first reaches neither the queue of
\* approved runs nor an execution before an admin approved it, whatever the
\* creator's second save, the kill switch and restarts do to its row.
Released == {"approved", "executing", "paused_approval_required", "completed"}
ApprovedBeforeExecution ==
    \A r \in Runs : run[r].gated /\ run[r].status \in Released => r \in granted

\* An inline run is executed by the request that created it: the job runner
\* does not race on it, so that its second claim never fails.
InlineIsNotRaced ==
    \A h \in Handlers :
        act[h].pc = "inline_execute" => run[act[h].run].status = "approved"

\* Two replicas, or a replica and the request of an admin, or two admins, never
\* perform steps of one run at once, unless one of them saved a row over a status
\* it had not read: the second save of a creation or of an approval, or the second
\* answer to one request.
OneStepper ==
    \A a, b \in Actors :
        act[a].pc = "step" /\ act[b].pc = "step" /\ act[a].run = act[b].run
            => a = b \/ act[a].run \in late

\* When nothing is under way any more, the job of a run that ended is not left
\* running.  It needs that nothing died between run and job, and that no approval
\* came first: those of a run and of a step set the job to running after they have
\* released the run, which may have ended by then.
Idle(r) == \A a \in Actors : act[a].run # r
Resumed(r) ==
    \E q \in Requests :
        /\ request[q] # None /\ request[q].run = r
        /\ \/ request[q].status = "approved"
           \/ request[q].status = "rejected" /\ r \in late
JobsFollowRuns ==
    \A r \in Runs :
        failures = 0 /\ ~run[r].gated /\ ~Resumed(r) /\ run[r].status \in Settled /\ Idle(r)
            => job[r] # "running"

\* A staged run of the queue is decided: it ends or waits for an admin, unless
\* something crashed, the system is turned off or the bound on requests is met.
Decided(r) == run[r].status \in Settled \cup {"approval_pending", "paused_approval_required"}
OutOfIds == \A q \in Requests : request[q] # None
StagedRunsAreDecided ==
    \A r \in Runs :
        run[r].status = "staged" /\ run[r].kind # "inline" ~>
            Decided(r) \/ ~systemOn \/ failures > 0 \/ OutOfIds
=============================================================================
