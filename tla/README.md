# Verification of Malv's protocols

Malv is a NestJS API with a web client, desktop and mobile agents, and a
worker that talks to models.  What it does without one user waiting for one
answer is decided by a few small protocols over MySQL rows, Redis keys, a
socket and a cookie: which replica runs a due task or a queued job, which
executor performs an external action, who lets a gated step or a self-upgrade
through, which reply belongs to which row of a chat, which tab holds the one
refresh token.  This directory holds TLA+ specifications of those protocols,
TLC configurations that model-check them, and TLAPS proofs about them.

All paths below are relative to the repository; `api/` abbreviates
`src/apps/api/src/`.

1. The system and its parts
2. What is modelled, and how it corresponds to the code
3. Runs, bounds and what they show
4. Fairness
5. Proofs
6. Where the code and its comments disagree
7. What is not modelled, and what is left

## 1. The system and its parts

### 1.1 Task execution engine
`api/workspace/workspace-task-execution-engine.service.ts`, with
`…-engine.util.ts`.

*State.* Rows of `workspace_tasks`: `status`, `archived_at`,
`execution_state`, `execution_lease_owner/expires_at`, `requires_approval`,
`scheduled_for`, `reminder_at`, `due_at`, `metadata`.  Locals of a tick.

*Operations.* `processDueTasksTick` runs every two seconds on each replica,
behind the cluster leader lock: release expired leases, fail expired waits,
then three loops bounded by a batch size: due tasks that need approval are
paused, due reminders are claimed and delivered, due schedules are claimed
and routed (`executeRoutedTask`, `runRoute`, `applyRunResult`).

*Interactions.* Calls notification delivery, beast orchestration, the kill
switch and `beginDispatch`; shares its rows with `updateTask` and with the
acknowledgement endpoint.

*Hard.* No statement is in a transaction.  A claim is a compare-and-set, but
every write that *ends* an execution is by id alone.  The row is read once
and written back later.  A replica may die, or lose its lock, between any two
statements.

*Correct when.* A claimed task is held by one replica, is not scanned, and is
released if the replica dies.  A date fires once.  A due task is attempted.
A pause for approval lasts until the user ends it.  A completed task had its
work done.

### 1.2 Cluster leader lock
`api/infra/cluster-leader.service.ts`.  State: MySQL's `GET_LOCK`.
`runIfLeader` takes it, runs the callback, releases it.  Hard: MySQL drops
the lock with its connection while the callback goes on.

### 1.3 External action dispatch
`api/execution-bridge/malv-external-action-dispatch.service.ts`.

*State.* `malv_external_action_dispatch` with a unique index on
`(task_id, request_key)`; the key is made of the task's `scheduled_for`.

*Operations.* `beginDispatch` (look for a dispatch of the slot, replay an
unanswered one, refuse a duplicate, insert, emit), `markTimedOut`,
`applyClientAck`.

*Hard.* Find, insert and emission are separate; the emission may be lost or
repeated; a crash may fall between any two; two leaders may run it at once.

*Correct when.* One row per task and slot; nothing is emitted that is not on
record.

### 1.4 Acknowledgement endpoint
`api/workspace/workspace-external-dispatch-ack.service.ts`.  `acknowledge`
calls `applyClientAck`, reads the task and updates it by id.  Hard: dispatch
and task are two updates without a transaction, concurrent with the engine's
timeouts, retries and final writes.  Correct when a task that waits always
carries the lease and the flag the timeout looks for, and when it is completed
only if the action was performed, or an executor that cannot tell says so.

### 1.5 Executors
`src/agents/shared/malv-execution-agent-core.mjs` (desktop, Android, iOS and
simulated mobile) and
the browser tab in `src/apps/web/src/lib/realtime/socket.ts`.  Each takes a
dispatch from the socket, acknowledges *accepted* or *rejected*, performs the
action, acknowledges *completed* or *failed*.  Hard: every request and every
answer may be lost; the two react differently to that; a browser reports as
completed what it did not do (a notification it may not show, a type it does
not know).  Correct when an agent acts only on an acceptance the server has
recorded.

### 1.6 Workspace productivity
`api/workspace/workspace-productivity.service.ts`.  `createTask` and
`updateTask` (read the row, change any of its columns, `save()`).  Hard: the row
that is saved was read before whatever the engine, or another PATCH, did
meanwhile, and the endpoint accepts every execution state.

### 1.7 Job runner queues
`api/job-runner/job-runner.service.ts`.

*State.* `ai_jobs` (status, attempts, back-off, priority, shard),
`ai_job_leases` (one row per job: owner, token, expiry, version).  Locals of a
tick: slots left, jobs per shard, the job in hand.

*Operations.* Every two seconds and on every replica: for each slot pick the
first queued job whose shard is within budget, insert or steal its lease,
claim it by compare-and-set, run it (an extraction with retries, a proactive
suggestion) or hand it to the sandbox, release the lease; then, as leader,
delete very old leases, put jobs with stale leases back in the queue, and run
the engine's tick; last, renew the node's leases and delete every expired one.

*Interactions.* Calls the extraction service and the sandbox service, which
later writes the job's status by id; asks the kill switch; holds the leader
lock around the engine's tick.

*Hard.* Lease and job are two tables without a transaction.  The renewal
comes once per tick, after the jobs, so that a long job outlives its lease; a
thief checks a version that a renewal does not change; the recovery acts on a
list it read before; a crash may fall anywhere, and a release that throws leaves
a lease its own node goes on renewing.

*Correct when.* A lease in force is not taken; a job is run once for each
time it was queued; nothing queued waits for ever; the job of a dead replica
is run again.

### 1.8 Sandbox runs and approvals
`api/sandbox/sandbox-execution.service.ts`, `operator-runtime.service.ts`,
`runtime-policy.service.ts`.

*State.* `sandbox_runs` (status, whether approval is required, the bound
policy), `sandbox_approval_requests`, the `ai_jobs` row of the run.

*Operations.* A handler creates a run, binds a policy and saves it again.  The
job runner claims a staged run and validates it, claims an approved one and
performs its plan of typed actions, each after a decision of the policy.  An
action that needs approval pauses the run with a request; an admin approves it
(the plan starts again, in the admin's request) or rejects it; retention
expires it.  An inline run is claimed and executed by the request that created
it.

*Hard.* Claims are compare-and-sets, everything else saves a row it has read.
Two saves where one was meant (creation, approval); the kill switch puts runs
back; run, request, job and audit are tables without a transaction, and a catch
writes a failure over whatever its `try` has saved.

*Correct when.* A gated run does nothing before its approval; one actor at a
time performs steps; the job ends with its run; a staged run is decided.

### 1.9 Patch proposals and self-upgrade
`applyPatchProposal` and `rejectPatchProposal` of the sandbox service,
`api/self-upgrade/self-upgrade.service.ts`.

*State.* `sandbox_patch_proposals`, `self_upgrade_requests`,
`self_upgrade_review_sessions`, the git tree of the operator, a worktree for
each request.

*Operations.* `analyze`, `generate` (a diff, a proposal, a validation, a
preview), `revalidate`, and the verdicts `requestRevision`, `reject`,
`approveApply`, `applyToProduction`.

*Hard.* Every handler saves whole entities it read at its start, some of them
minutes later; two admins may be at any two of them; git is between.

*Correct when.* What is marked as applied was approved and is in the tree, and
a proposal gets one verdict.

### 1.10 Chat turns
Server: `chat:send` and `chat:cancel` in `api/realtime/realtime.gateway.ts`,
`api/chat/chat.service.ts`, `chat-run-registry.service.ts`,
`api/common/malv-distributed-coordination.service.ts`.  Browser:
`src/apps/web/src/lib/chat/useMalvChat.ts`, `malvChatClient.ts`.

*State.* The message rows; the registry of turns in flight of each replica;
cancel markers in Redis, or in memory when it does not answer; in the browser
the rows, the one active turn, the scope the socket handlers are bound to, and
the payload of a retry.

*Hard.* The browser chooses the identifier of a turn and keeps it on a retry,
so that two runs of one turn overlap; a cancel may reach another replica than
the run, or come before it; chunks carry no identifier; a turn is ended by a
timer, an event, an error, a stop or a reconnect, whichever comes first; an
event sets refs at once, while the rows its successors read are those of the
last render.

*Correct when.* A stop stops the turn it names; the registry and the rows do
not outlive their runs; an ended row stays so.

### 1.11 Authentication
Server: `api/auth/auth.service.ts`, `auth.controller.ts`.  Browser:
`src/apps/web/src/lib/auth/refreshSession.ts`, `session.ts`,
`AuthProvider.tsx`, `lib/api/http.ts`.

*State.* `refresh_tokens`, `sessions`; the cookie of the browser; in each tab
the access token, the status and the promise of the refresh under way.

*Operations.* `login`, `refresh` (spend the token, revoke its session, insert
the next one, save a session), `logout`, `resetPassword`; in a tab the
bootstrap of a page, a call that meets a 401, login, logout.

*Hard.* A refresh is a check and several statements; two tabs present one
cookie at once; the last answer to arrive sets it; a logout throws after it has
spent the token.

*Correct when.* A login has one living token; a refresh revokes the session of
the token it spends; the browser is not left with a spent token of a login that
goes on.

### 1.12 Kill switch and supervisor
`api/kill-switch/`, `src/apps/supervisor/`.  A cached boolean that is read
before work starts.  Hard: it is stale for as long as the cache lives.

### 1.13 The rest
Beast orchestration and inference, calls and voice, workspace runtime
sessions, collaboration, memory, files, studio and other admin tools, the rest
of the user interfaces.  `PROJECT.json` lists each with the reason it is not
modelled.

### 1.14 How they interact

```
 setInterval 2 s ──> cluster leader lock ──> engine tick ──> notifications
                                               │    │
                     updateTask (PATCH) ──> workspace_tasks <── acknowledge
                                                    │               ^
                                    beginDispatch ──> dispatch rows │ HTTP
                                          │                         │
                                          └── socket room ──> executors
```

```
 job runner tick ──> ai_jobs <── sandbox run (status by id)
    │   │   │           ^
    │   │   └──> ai_job_leases <── heartbeat, steal, retention
    │   └── leader: recovery of stale leases, engine tick
    └── kill switch (cached)
```

```
 creator ──> sandbox_runs <── job runner tick (validate, execute)
                 │    ^
        approval requests <── admin (approve: executes; reject), retention
                 │
          patch proposals <── self-upgrade: request, preview <── admins
                 └── git tree
```

```
 tab: hook ── client ══ socket ══ gateway ── registry ── chat service ── messages
                                     └── cancel markers (Redis or memory)
 tabs ── cookie ── auth controller ── auth service ── refresh_tokens, sessions
```

The tables, the git tree and Redis are the only state shared between replicas.  The hazards of
this picture are listed in `PROJECT.json`, each at the line where it bites and
with the properties that would show it going wrong.

## 2. What is modelled, and how it corresponds to the code

| module | models | state |
|---|---|---|
| `TaskRows` | the two tables, the socket messages, predicates of the queries | `task`, `disp`, `inbox`, `clock`, and the histories `fired`, `effect` |
| `TaskEngine` | `processDueTasksTick` on any number of replicas, the leader lock, leases, crashes | `leader`, `worker`, `crashes`, `drops` |
| `DispatchAck` | executors, `acknowledge`, `applyClientAck` | `job` |
| `TaskExecution` | the composition of the three with any number of `updateTask`s; fairness; the properties | `patch` |
| `TaskLifecycle` | the promise of the engine's class comment, without rows or leases, and its exception | `phase`, `owner`, `kept` |
| `TaskRefinement` | the mapping under which `TaskExecution` implements it | – |
| `TaskInvariants` | the inductive invariant, in parts | – |
| `TaskExecutionProofs` | rows, dispatches and waits: theorems and their proofs | – |
| `TaskClaimProofs` | claims, leases, dates, the pause and the refinement: theorems and their proofs | – |
| `JobQueue` | the tick of the job runner on `ai_jobs`, its leases, heartbeat and recovery, the kill switch | `job`, `lease`, `node`, `leader`, `systemOn`, `seen`, `handed`, and the history `credit` |
| `JobQueueProofs` | its theorems and their proofs | – |
| `SandboxRun` | sandbox runs from creation to their end: two queues, validation, plan, approvals, job | `run`, `job`, `request`, `act`, `systemOn`, and the histories `granted`, `late` |
| `RunLifecycle` | what a run goes through, from hand to hand, without rows or statements | `turn`, `gated`, `checking`, `executing`, `asking`, `kept` |
| `RunRefinement` | the mapping under which `SandboxRun` implements it | – |
| `SandboxRunProofs` | its typing and the approval, with their proofs | – |
| `SandboxOwnerProofs` | who owns a run and reports its job, and the refinement, with proofs | – |
| `PatchReview` | proposals of a diff, applied to the git tree or rejected | `patch`, `tree`, `review`, and the history `contested` |
| `SelfUpgrade` | the handlers of a self-upgrade, on top of `PatchReview` | `upgrade`, `reported`, `preview`, `act`, and the history `approved` |
| `SelfUpgradeProofs` | the theorems of both and their proofs | – |
| `ChatServer` | `chat:send`, `chat:cancel`, registry, markers, message rows, the socket | `run`, `registry`, `redis`, `marker`, `fallback`, `cancels`, `msg`, `conn`, `down`, and the history `stopped` |
| `ChatTurns` | the chat of a tab, on top of `ChatServer` | `row`, `shown`, `active`, `streamed`, `frame`, `generating`, `scope`, `ignoring`, `acking`, `retry`, `finalized` |
| `ChatProofs` | the theorems of both and their proofs | – |
| `RefreshTokens` | tokens and sessions of one user, requests that present any token any number of times | `token`, `line`, `session`, `req` |
| `AuthTabs` | the tabs that share a cookie, on top of `RefreshTokens`, which it implements | `cookie`, `by`, `mem`, `status`, `boots` |
| `AuthProofs` | the theorems of both and their proofs | – |
| `MCTaskExecution`, `MCJobQueue`, `MCSandboxRun`, `MCSelfUpgrade`, `MCChatTurns`, `MCAuthTabs` | values of constants for TLC | – |

**One action is one SQL statement, or one socket emission.**  In the modules
of the tasks `worker[w].pc`
names the statement a replica runs next; everything the code keeps in local
variables across an `await` is a field of `worker[w]` (`now`, read once per
tick; `snap`, the columns of the row read in `executeRoutedTask` and written
back at its end; `todo`, the selected expired waits; `did`; `out`).  The
`WHERE` of a claim is the guard of its action, and a claim that changes no row
goes on with the next iteration.  Names of actions are the names of the
methods where a method is one statement (`tryClaimForReminder`,
`finalizeReminderDelivery`, `applyRunResult`, `applyClientAck`,
`acknowledge`).

| step of the code | action |
|---|---|
| `GET_LOCK`, `RELEASE_LOCK` | `StartTick`, `ReleaseLeader` (in `EndTick`, `Crash`, a failed insert) |
| `recoverExpiredLeases` | `recoverExpiredLeases` |
| `recoverExpiredExternalAckWaits` | `ScanAckWaits`, `NextAckWait`, `markTimedOutRead`, `markTimedOutWrite`, `FailAckWait` |
| `promoteApprovalGatedScheduledBatch` | `SelectApprovalGated`, `promoteApprovalGated` |
| `processReminderBatch` | `SelectReminder`, `tryClaimForReminder`, `ReadReminder`, `deliver`, `finalizeReminderDelivery` |
| `processScheduledExecutionBatch` | `SelectScheduled`, `tryClaimForScheduled`, then `executeRoutedTask` |
| `executeRoutedTask` | `MarkRunning`, `ReadRunning`, `PerformRoute`, `RefuseRoute` or `BeginExternal`, then `AwaitAck` or `applyRunResult` |
| `beginDispatch` | `FindDispatch`, `InsertDispatch`, `EmitDispatch` |
| socket handler of an executor | `ReceiveDispatch`, `ExecuteAction`, `ReceiveAnswer`, `LoseExchange` |
| `acknowledge` | `applyClientAck`, `MarkAcknowledged`, `ReadAckedTask`, `acknowledge` |
| `updateTask` | `PatchRead`, then `save()`: `PatchFind`, `PatchSave` |
| `tick` of the job runner | `StartTick`, `EnterQueue`; per slot `SelectQueued`, `InsertLease`, `FindLease`, `StealLease`, `ClaimJob` |
| the three kinds of job | `ProcessExtraction`, `SaveSuggestion`, `CreateSandboxRun`; then `FinishJob` or `RequeueJob`, `ReleaseLease` |
| leader's part and heartbeat | `Lead`, `RetainLeases`, `SelectStale`, `RecoverJob`, `Abdicate`, `RenewLeases`, `SweepLeases` |
| time, failure (queue) | `LeaseAges`, `BackoffOver`, `getState`, `Switch`, `Throw`, `LoseAnswer`, `Crash`, `Restart`, `DropLock`, `SandboxReports` |
| creation and approval of a sandbox run | `Create`, `resolveAndBindForRun`, `CreateResave`; `approveSandboxRun`, `SaveApproval`, `ApprovedJob` |
| `processSandboxQueue` | `SelectStaged`, `ClaimStaged`, `SelectApproved`, `ClaimApproved`, `PutBack` |
| `validateSandboxRunAfterClaim` | `ReadPending`, `SaveValidation`, `ReportValidation`, `WriteAudit`, `ThrowInvalid` |
| `executeSandboxRunAfterClaim` | `ReadExecuting`, `RunTypedAction` or `ExtractFile`, `Pause`, `Reread`, `Complete`, `IndexFile`, `CompleteJob`, `WriteAudit`, `Fail`, `FailJob` |
| `approveRequest`, `rejectRequest`, expiry | `approveRequest`, `SaveRequest`, `Resume`, `ResumedJob`; `rejectRequest`, `Block`, `BlockedJob`; `ExpireRequest` |
| `finishCciInlineSandboxRun` | `InlineClaim`, `InlineCheck`, `InlineExecute` |
| `applyPatchProposal` | `applyPatchProposal`, `SavePatch`, `CheckPatch`, `ApplyPatch`, `SavePatch` |
| `analyze`, `generate` | `analyze`, `StartAnalysis`, `Study`, `EndAnalysis`; `generate`, `supersedeOpenReviews`, `StartGeneration`, `ensureWorktree`, `Diff`, `ProposeDiff`, `StartValidation`, `Package`, `Present` |
| the verdicts, `revalidate` | `decide`, `latestReview`, `Answered`, `SaveReview`, `SaveVerdict`, `RemoveWorktree`; `revalidate`, `SaveRevalidation` |
| `chat:send` | `onChatSend`, `registerTurn`, `SavePlaceholder`, `AskChunk`, `EmitChunk`, `EndInference`, `SaveInterrupted`, `SafeReply`, `Deliver`, `Finalize`, `unregisterTurn` |
| `chat:cancel` | `onChatCancel` (the marker), `requestCancel` (the abort) |
| the hook and client of a tab | `send`, `retryLast`, `stopReply`, `onAck`, `onRefused`, `onChunk`, `onMalvOrch`, `onError`, `AckTimeout`, `Watchdog`; React's `Render`, and `PaintFrame` |
| `AuthService` | `FindToken`, `Rotate`, `RevokeSession`, `Issue`, `SaveSession`; `Spend`; `SpendAll`, `RevokeAll` |
| a tab | `Mount`, `MeAnswers`, `CallRefreshes`, `RetryAnswers`, `Login`, `Logout`, and the answers `RefreshOk`, `RefreshFailed`, `LoginAnswered`, `LogoutAnswered`, `OrphanAnswered` |
| time, failure (sandbox, upgrade) | `Throw`, `ThrowInvalid`, `Crash`, `Switch`; `Throw`, `ReviewDirectly` |
| time, failure (chat, tabs) | `MarkerExpires`, `RedisFlips`, `Crash`, `Disconnect`, `Reconnect`, `JobFails`; `Fail`, `Reload` |
| time, failure (tasks) | `ClockTick`, `LeaseExpires`, `Crash`, `LockLost`, `FailHandler`, `LoseDispatch`, `RestartExecutor` |

Abstractions, and why they lose nothing the properties tell apart:

- *Leases.*  A lease is `none`, `held` or `expired`, and a held lease may
  expire at any moment.  The three durations are left out, so the model has
  more behaviours than the code: everything that is safe here is safe for
  every configuration of the durations.  `late` records that a replica has
  outlived the lease of its claim.
- *`status` and `archived_at`* are one flag, `open`, since every query uses
  them together.
- *Routes.*  `execution_type` is constant: no request changes it.  The
  metadata hint and the fallbacks of a `manual` task only choose another
  route.
- *Refusals.*  Every reason for which a route stops before doing something
  (kill switch, no inference, no bridge, a device that does not support the
  action, a malformed envelope) is one nondeterministic `RefuseRoute`, with
  the outcome the code gives it.  The kill switch's early return at the start
  of a tick is left out: safety does not depend on it, liveness assumes the
  system is on.
- *PATCH.*  `Edited` lets a request change any of the columns the engine reads,
  several at once, and `PatchStates` names the execution states it may ask for;
  the endpoint takes all twelve, and so do the proofs.  A user may also put back
  the state that was read.  What the DTO does not accept (lease, metadata) keeps
  the value of the read.
- *`save()`* is two statements: it loads the row again (`PatchFind`) and writes
  the columns in which the entity differs from what it loaded (`PatchSave`); a
  row that changes in between is *torn*, part of it new and part of it old.
  `metadata` is one column.  Two leases in force look alike in the model but
  differ in the table, so that either may be the one that stays.
- *Executors.*  What stands behind an acknowledgement is a set: *performed*, or
  *vouched* by a browser that did nothing.  The actions that the shared core of
  the agents only logs (notifications, deep links) are performed when it has
  logged them, which is what they promise.
- *Device targeting.*  A dispatch is emitted to all agents; that an agent is
  not targeted is one more way a message is lost.  The branches of
  `applyClientAck` for an unknown row or device cannot be reached by an
  executor that received the dispatch.
- *Batch limit* of the scan of expired waits: not modelled; it is larger than
  any set of tasks checked, and the proofs do not depend on it.
- *Ages of a job lease.*  In force, expired, past the steal grace, past the
  stale recovery delay: the order of the default durations (20 s, then 5 s
  and 120 s past the expiry).  A lease may age at any moment.  The history
  `late` marks a replica whose lease has run out while it holds a job.
- *Forgotten leases.*  If `releaseJobLease` throws in the catch of a job, the
  tick ends with the row in place; an insert or a steal whose answer is lost
  (`LoseAnswer`) leaves one too, which its own node takes for another's.  A live
  node renews by its name, such a row with the others.
- *Tokens and versions.*  A token is the replica that wrote it, since a
  replica holds one job at a time; a version is the set of replicas that have
  read it, which is all that a check of the version depends on.
- *Kill switch.*  `seen[n]` is the answer of `getState` on replica `n`, stale
  until the cache is over; a supervisor that cannot be reached answers off.
- *`credit`* counts what a job may still be run for: one for its creation and
  one each time a retry or the recovery puts it back; a run takes one.  It
  saturates at one more than the replicas, and is kept for the jobs in
  `Counted`.
- *Order of the queue.*  By priority; jobs of one priority in any order.
- *The lease table.*  `worker_node_name` (migration 007:130) is `NOT NULL`
  without a default and is not written by the entity.  The model takes the
  insert to succeed, as on a server that is not in strict mode.  On a strict
  one every insert fails, which `tryAcquireJobLease` takes for a lease of
  another node, and the queue stands still.
- *Sandbox.*  A plan is a sequence of types of actions; the decision of the
  policy on each is computed from the rules as in the code, its outcome is a
  choice.  Files, commands, diffs and records of commands are left out.  A
  `save()` of a loaded run or request writes its status and whatever else the
  handler changed.  `late` marks the runs that a second save has taken back.
- *Git.*  `git apply --check` and `git apply` may take any diff and refuse any,
  one that was applied before included: its context may repeat, and paths
  outside the directory are skipped with exit code 0.  `tree` counts how often
  git answered that it applied a diff.  `contested` marks the proposals whose
  reviews overlapped, or one of whose reviews died between that answer and the
  save of the row.
- *Self-upgrade.*  Studies, worktrees, validation and packaging succeed or
  throw.  A handler keeps of an entity what it writes back.
- *Chat.*  A row is its status; of the text the model keeps whether there is
  any (`streamed`).  What a model answers is any number of chunks, an exception
  or nothing.  Events to the browser keep their order, since they use one
  socket; requests do not, since each has a handler of its own.
- *React.*  `row` and `generating` are what the handlers have asked for, `shown`
  what was rendered last: `messagesRef.current` and the `generationActive` that
  buttons and guards go by.  `Render` may come at any moment between two events;
  only after a click it comes before the next one (`Flushed`), and it then
  renders whatever other updates are pending.  The event of *thinking* makes a
  row active again and marks it as a chunk does, by the same guards, and is left
  out; so are the other ways to begin or abandon a turn (edit, regenerate, new
  chat).
- *Tokens.*  A session has the name of its token.  Access tokens are present
  or not; an expired one is a 401 at any call.  The passwords, addresses and
  devices of a login are one refusal.
- *Audit rows* and events on the bus are left out everywhere.  Where an audit is
  awaited after the rows of a run or a job were saved, its failure is a step of
  its own (`WriteAudit`, after which `Throw` and `ThrowInvalid` still have the
  catch write over them); elsewhere it is one more `Throw` between two
  statements that are modelled.
- *Left out of the queue:* the scan that inserts proactive
  jobs (`Init` has them queued), events and metrics, activity rows, wording of messages, deletion of tasks.

The abstract specification `TaskLifecycle` has five phases and an owner.  It
says that one replica at a time works, that a task is processed by the replica
that claimed it, that what a lost replica leaves behind becomes due again, and
that finished and paused tasks stay so.  The answers of executors are its one
exception: whenever they come, the task they are about waits or is over
(`Answer`), and a replica that is working on it goes on (`Resume`).  `Remote`
names the tasks that can be answered: those routed to `external_action`.  The
promise is made for as long as the environment does its part (`kept`): MySQL
keeps the lock of the leader, and no user saves a row over it.

**The abstract specification of a sandbox run** (`RunLifecycle`) is not written
down anywhere in one place; it is what the statuses of a run mean to those who
claim it.  A run in nobody's hands has a turn: to be created, checked, approved
or executed, or it is closed.  It passes into the hands of one actor that checks
it, of one that executes it, or of the one request it waits for, and out of them
by `EndCheck`, `EndExecution`, `Ask`, `Resume` and `Refuse`; while it is in
somebody's hands, and after its end, its turn is closed.  So a run that is closed
and in nobody's hands is never executed again, and what `Approve` lets pass was
created to be approved.  One step takes a run back that is in nobody's hands:
`Withdraw`, of a run that passed its check, gated or not, when the check fails
after that (`validateSandboxRunAfterClaim` catches what it throws after it has
saved *approval_pending* or *approved*, a failing audit included).  Whatever else
an actor saves after it has let go of a run finds it closed.  Hands are read off the actors and requests of
`SandboxRun` (`Checkers`, `Executors`, `Askers`), the turn off the status of
the row; where an actor has paused or ended a plan but not yet saved the status
that says so, nobody holds the run and the row still says *executing*, which
nobody claims.  `kept` are the runs of which nothing was saved over a status
that its writer had not read.

## 3. Runs, bounds and what they show

Deadlock checking is on in the runs of tasks, queues and self-upgrades, where
an actor can always start something.  It is off in `sandbox`, `chat` and
`auth`: there the bound on requests, sends or tokens may be met with nothing
left to do.

| run | instance | what it shows |
|---|---|---|
| `engine` | two replicas; a reminder and a workflow task with every combination of dates (now, later) and approval; a crash | `OncePerDate`; liveness `ClaimsEnd`, `RemindersAreDelivered`, `SchedulesAreAttempted` |
| `dispatch` | an external task, one replica, an agent, two dispatch ids, two crashes | `TypeOK`, `DispatchIsRecorded`, `AcceptedBeforeAction`, `CompletedWasPerformed`; liveness `WaitsEnd` |
| `overlap` | two leaders at once on one external task, an agent | `OneRowPerRequest`, `OneLiveHolder` (for a task without a reminder) when the leader lock is lost once |
| `edits` | two PATCHes at once that change any columns and ask for *pending*, *waiting_input*, *waiting_approval* or no state; an external task gated or not, which nobody answers (0.9 million states) | `WaitsAreLeased`, `ApprovalPauseIsFinal` although rows are saved from old reads, over the engine's and over each other's |
| `lifecycle` | an external task with a browser that answers and a checklist, each due or not, gated or not; two replicas, two dispatch ids, a crash | `ClaimIsLeased`; `ImplementsLifecycle`: the engine and its executors refine `TaskLifecycle` |
| `jobs` | an upload, two replicas that restart, two failures (crash, throw, lost answer, lost lock), the kill switch thrown twice, two slots | `TypeOK`, `OneLiveRunner`, `RunsAreAskedFor` |
| `served` | an extraction that may be retried, a proactive job behind it in another shard, two replicas, one failure | liveness `QueuedJobsAreServed` |
| `sandbox` | a run of any kind, gated or not, with a harmless and a gated step; two replicas; one handler of a creator or an admin; two approval requests; a failure; the kill switch thrown once (2.0 million states) | `TypeOK`, `ApprovedBeforeExecution`, `InlineIsNotRaced`, `OneStepper`, `JobsFollowRuns`; `ImplementsRunLifecycle`: the services refine `RunLifecycle`; liveness `StagedRunsAreDecided` |
| `upgrade` | one request, two proposals, two admins, one handler that dies or one review past the service (3.8 million) | `TypeOK`, `AppliedWasApproved`, `OneVerdict`, `AppliedIsInTree` |
| `chat` | two turns, two sends, two replicas, one fault (4.4 million) | `TypeOK`, `InterruptedWasStopped`, `RegisteredIsInFlight`, `PlaceholderHasRun`, `RowsSettle` |
| `auth` | three tokens, four requests, two tabs with up to two bootstraps each, a password reset, a fault (0.5 million) | `TypeOK`, `OneHeir`, `SessionMatchesToken`, `CookieIsReplaced`, `WaitersHaveFlight` |
| `v_stale` | see section 6 | a comment and a report of the repository that the code does not meet |

The properties in words:

- `OneRowPerRequest`: whatever number of leaders run `beginDispatch` at once,
  a task and slot have one dispatch row.
- `DispatchIsRecorded`: no message, job or performed action is about a
  dispatch that a crash has lost.
- `AcceptedBeforeAction`: an agent acts only after the server has recorded the
  answer.
- `WaitsAreLeased`: a waiting task carries the lease and flag that the
  recovery asks for, whoever wrote the row last.  It is what `WaitsEnd` rests
  on.  Two things break it, and are named in it: a PATCH that itself asks for
  *waiting_input* (`Asked`), and one whose `save()` was torn (`Torn`).
- `CompletedWasPerformed`: no interleaving of timeouts, acknowledgements and
  crashes, nor of PATCHes (section 5), completes a task whose work was not done.
  The code takes two words for it: a browser's, and that of a user who asks for
  *completed*.
- `OneLiveHolder`: until the first PATCH two replicas never process one task
  within their leases, although a lost lock leaves two leaders.  It holds for
  tasks without a reminder; with one, a single lost lock is enough to break it
  (section 6).
- `ClaimIsLeased`: a claim can be recovered.
- `ImplementsLifecycle`: a task is claimed by one replica at a time, which alone
  lets it go, and is not taken by a scan meanwhile, not even after its lease; a
  finished or paused one stays so unless an executor answers.
- `OncePerDate`: a task without a `due_at` fires at most once for its reminder
  and once for its schedule, plus once for each crash after it fired.
- `ApprovalPauseIsFinal`: the engine never resumes a task it has paused, whatever
  PATCHes overlap its ticks.  A pause that a PATCH wrote (`Repaused`) is left
  out: it may be written over a claim, whose last write, by id, ends it.
- `ClaimsEnd`, `WaitsEnd`, `RemindersAreDelivered`, `SchedulesAreAttempted`:
  claims are released, waits are over, due dates are served.

Four of these carry in their statement the event that ends what they promise.
`Undisturbed`: no lock was lost and no PATCH was sent so far; `Unanswered(t)`:
no dispatch of `t` has been answered or given up.  Section 5 says which event
ends which promise.

- `OneLiveRunner`: a replica whose lease is in force is alone in running its
  job, although the recovery may put that job back while it runs.
- `RunsAreAskedFor`: stealing, recovery, restarts and late writers never make
  the queue run a job once more than it was put there.
- `QueuedJobsAreServed`: neither the lease of a dead replica nor a job ahead
  in the queue holds a job up for ever.  What does is a lease that a live replica
  renews and has forgotten (`Forgotten`), after a release that threw or an
  answer that was lost: the code has nothing that ends it, and the job at the
  head of the queue is never leased.  For the same reason the run has no
  replica that restarts under the name of its dead process.

- `ApprovedBeforeExecution`: a run that must be approved reaches neither the
  approved queue nor an execution before an admin approved it, whatever the
  put-backs of the kill switch and second saves of its row do.
- `InlineIsNotRaced`: the job runner leaves an inline run to its creator, whose
  second claim never fails.
- `OneStepper`: two actors, replicas or admins, never perform steps of one run
  at once, unless one of them saved a row over a status it had not read
  (`late`).  The code allows that in three places: the second save of a
  creation, the second save of an approval, and the second answer to one
  approval request.
- `JobsFollowRuns`: a run that ended leaves no running job.  It holds without
  a failure, for runs without an approval in front or in between:
  `approveSandboxRun` and `approveRequest` set the job to running after they
  have released the run, which may have ended by then.
- `ImplementsRunLifecycle`: validation, execution and the wait for an admin hand
  one run to each other, nobody enters it from the side, what is closed is not
  executed again, and what an actor saves after it let go of a run changes
  nothing, but for a check that fails late, unless the run was saved late.
- `StagedRunsAreDecided`: a staged run ends or waits for an admin, unless
  something crashed, the system is off, or the bound on requests is met.
- `AppliedWasApproved`, `AppliedIsInTree`: no interleaving of two admins with
  stale copies of three tables marks a diff as applied that was not approved or
  is not in the tree.
- `OneVerdict`: a proposal whose reviews do not overlap is applied once or not at
  all, and its row says which, over routes, self-upgrades and previews that
  share it and a git that would take it again.  Reviews that overlap between the
  read of the row and the last save (`contested`) may apply a diff twice, or
  leave *rejected* on a diff that is in the tree.
- `InterruptedWasStopped`: no reply is recorded as interrupted unless its user
  stopped that turn.
- `RegisteredIsInFlight`, `PlaceholderHasRun`: a registration or a row that
  says *thinking* belongs to a run that is still to end it, although a retry
  shares its identifier.
- `RowsSettle`: a row of the chat that a reply or a stop has ended changes only
  by a retry.  One that a timer has ended also changes by its reply, and comes
  back by a chunk handled before the render of that end: the watchdog does not
  add the row to the finalized ones, and the guard of a chunk reads the rows of
  the last render.  Once rendered, the end holds against chunks too.
- `OneHeir`: of the tokens that descend from a login one at most is active.
- `SessionMatchesToken`: token and session end together, but for a refresh
  under way, a reset, a failure, or a line that has ended (`LineEnded`): a
  logout spends the token and leaves the session (section 6).
- `CookieIsReplaced`: a cookie with a spent token of a line that goes on is about
  to be replaced.
- `WaitersHaveFlight`: whoever waits for the refresh of a tab waits for the
  one refresh that is under way.

Bounds, each a constant named in the module that uses it:

- `MaxTime` 0 or 1.  Only the order of a date and the clock matters; 1 gives a
  task that becomes due during a tick whose `now` was read before.
- `MaxFired` saturates the work counters: 4 where `OncePerDate` counts (two
  dates, a crash and one more), 1 where only "done or not" matters.
- `BatchSize` 1 in `engine`, with two tasks: the limit leaves due rows for
  later ticks, which is when one could starve; 2 in `lifecycle`, where a loop
  also ends with an empty result and one tick works on both tasks.
- `MaxCrashes` 1 in `engine` and `lifecycle`, 2 in `dispatch`, where a crash
  during the retry that follows a crash is of interest (a replayed dispatch,
  a key that was reset).
- `MaxLockDrops` 1 in `overlap`: two leaders at once, on a task that has a
  schedule and no reminder.  `LiveHolder` (section 5) covers any number of
  losses.
- Two `Patches` in `edits`, none elsewhere: two stale rows that are saved over
  each other and over the engine.  `PatchStates` are three of the twelve states:
  one the scan takes up, and the two that the properties are about; the proofs
  have them all.
- Two dispatch ids: a second insert for the slot, or for another slot of the
  task after a reschedule, is possible; one task, since dispatches of
  different tasks share nothing.
- One agent: the acknowledgements of one dispatch are already concurrent with
  the engine's.

- In the job queue `MaxCrashes` counts crashes, throws, lost answers and lost
  locks: 2 in
  `jobs`, where a crash between lease and claim and a second failure in the
  thief are of interest, 1 in `served`.  `MaxSwitches` 2 turns the system off
  and on again.  Safety is about one job at a time, so `jobs` has one; `served`
  has two, since what it shows is that the first does not block the second.
  `Counted` is the job of `jobs`; `served` counts none, which liveness does not
  need.  `Deletable` is the job of `jobs`.  `served` has none: nobody ends the job
  of a deleted user, and a release that is each time slower than the recovery
  (over two minutes) would have it claimed again for ever.

- In `sandbox` one run, since runs meet only in the order of the queue; a plan
  of two steps, one of which is paused, so that what follows a resume is a
  second pause; two approval requests, so that the plan can start again once
  (`IdsLeft` holds an execution back unless an id is left for every actor that
  may still ask for one); one handler, since two admins are the proofs' part;
  `MaxSwitches` 1 and `MaxFailures` 1, at any statement.
- In `upgrade` two proposals, so that a preview is superseded by another one;
  two admins, at any two statements; `MaxIntrusions` 1.
- In `chat` two runs: a retry that overlaps its first run, or two turns with
  one of them late; `MaxFaults` 1 of any kind.
- In `auth` three tokens: a login and two generations of heirs, or two logins;
  four requests, two for each tab, whose page may have gone; `MaxBoots` 2,
  since a bootstrap may begin while another is under way;
  `MaxResets` 1, `MaxFaults` 1.

`overlap`, `lifecycle`, `edits`, `upgrade` and `auth` use symmetry of replicas, PATCHes,
handlers, tabs and primary keys; no run with a liveness property does.

Every property of a passing run has a mutant: a definition that changes one
action the way a plausible bug would (a claim without compare-and-set, a
lease forgotten, an emission before the insert, a reminder date that is not
cleared…).  The mutants stand in the modules before the definitions they
replace, each marked `Mutant`.

## 4. Fairness

`FairSpec` adds weak fairness of

- each replica's next statement or start of a tick: `setInterval` starts a
  tick every two seconds (`job-runner.service.ts`, `onModuleInit`) and every
  awaited statement returns or throws;
- the clock and the expiry of each lease: time passes;
- the statements of an API handler that has received its request.

In `JobQueue`: each replica's next statement, the ages of leases, the end of a
back-off and of the kill switch's cache.  A run of a job ends: the extraction
has its own timeouts, the other two are a few statements.

In `SandboxRun`: each replica's next statement, for the same reason, and the
next statement of a handler that has begun.  Nobody has to create, approve or
reject anything.  `SelfUpgrade`, `ChatTurns` and `AuthTabs` state safety only:
what they wait for is a user, a model or a network, none of which is fair.

Nothing is asked of executors, of users, or of messages: `WaitsEnd` holds
although every message and every answer may be lost.  Crashes are never
forced, and only bounded in number, so that a behaviour in which the system
crashes for ever does not count against liveness.  Two replicas compete for
the lock without strong fairness: which one ticks does not matter, since
either serves every due row.

## 5. Proofs

`TaskExecutionProofs` proves, with TLAPS, for **any** finite or infinite sets
of tasks, replicas, agents, browsers and dispatch ids, for any bounds, for
crashes, lost locks and PATCH requests at any moment:

| theorem | statement |
|---|---|
| `Typing` | `Spec => []TypeOK` |
| `Recorded` | `Spec => []DispatchIsRecorded` |
| `OneRow` | `Spec => []OneRowPerRequest` |
| `Acceptance` | `Spec => []AcceptedBeforeAction` |
| `Waits` | `Spec => []WaitsAreLeased` |
| `Work` | `Spec => []CompletedWasPerformed` |

*Assumptions*: those the modules state about their constants.
`NoneAssumption` (SQL `NULL` is not a number, a task, a dispatch id or an
agent), `BoundAssumption`, `TaskAssumption` (dates are instants or `NULL`),
`EngineAssumption`, `BrowserAssumption`, `PatchAssumption`.

*The argument.*

1. `TypeOK` is not inductive: a statement is well-typed only if the locals it
   uses were set by the statements before it, and if the dispatch whose status
   it updates is a row.  `TypeInv` adds `LocalsOK` (which locals each `pc`
   relies on) and `Known`: every dispatch id held by a task, a tick, a
   message, a request or a PATCH is the id of a row.  The latter contains
   `DispatchIsRecorded`, so typing and recording are one induction.  It is
   split by variable; each action has one lemma per group of variables that it
   changes.
2. Who writes `disp`: every step keeps the task and key of existing rows
   (`RowsStay`) and only `InsertDispatch` adds one, under the unique index.
   `OneRow` follows.
3. `AcceptanceInv` strengthens `AcceptedBeforeAction` with the requests that
   went through before the agent hears of it (`Answered`): a status never
   returns to *awaiting*.
4. `LeaseInv` strengthens `WaitsAreLeased` with the rows that PATCHes have read:
   a row that is saved whole is either one of those or the one `save()` found,
   unless it is torn or was told to wait (`Misled`).
5. `WorkInv` strengthens `CompletedWasPerformed` with everyone about to report
   completion: a tick at `applyRunResult`, an executor or handler with a
   *completed* acknowledgement, a PATCH that has read a completed row or asks
   for one.  It uses `RowsStay`, since the row that justifies completion must remain the
   row of that task.

`TaskClaimProofs` proves, from the same assumptions and for the same `Spec`:
crashes, lost locks, PATCHes, agents and browsers in any number:

| theorem | statement |
|---|---|
| `Held` | `Spec => []HeldIsNotScanned` |
| `ClaimLease` | `Spec => []ClaimIsLeased` |
| `PauseIsFinal` | `Spec => ApprovalPauseIsFinal` |
| `FiresOnce` | `Spec => []OncePerDate` |
| `Implements` | `Spec => ImplementsLifecycle` |
| `LiveHolderOf` | what `OneLiveHolder` says of a task, if that task has neither `reminder_at` nor `due_at` |
| `LiveHolder` | `OneLiveHolder`, if no task has one |
| `ClaimsHeld` | `Spec => []ClaimsAreHeld`, stated there: a task nobody answered is claimed exactly while a replica holds it, until a lock is lost, a user patches a task or a replica dies |

*What ends a promise* is an event of the behaviour, named in the property, and
never a restriction of the constants.  Each is there because TLC shows that
the code does not keep the promise beyond it:

| event | what the code does then | promises it ends |
|---|---|---|
| a lost lock | two leaders, whose final writes are by id | all but `OneLiveHolder` |
| a crash | the claim stays until its lease is over | `ClaimsAreHeld`; in `OncePerDate` it costs one more firing |
| a PATCH | saves the execution state it has read, or any it names, over a claim | all but `ApprovalPauseIsFinal`, of which it ends only the pause it wrote |
| an answer about the task | ends the task under its replica, whose update to `running` then sets no lease; a late one ends the pause | `ClaimIsLeased`, `ClaimsAreHeld`, `ApprovalPauseIsFinal`, of that task |
| a `due_at` on the task | a delivery does not clear it, so that each tick delivers (section 6) | `OncePerDate`, of that task |
| a `reminder_at` or `due_at` on the task | the final write of a delivery is by id and sets the task to pending | `OneLiveHolder`, of that task |

*The argument.*

1. `TickEffect`: whatever the statement, a tick does one of seven things to
   the claims of tasks, from `Recovers` to `Leaves`; `StepEffect` adds the
   steps of the environment.  The invariants below are proved against these.
2. `LockInv`: while no lock was lost, a replica in a tick is the leader
   (`Solo`), and before the first PATCH none is under way.  Nor does an answer
   become undone: `UnansweredBefore` goes back from a state to the one before
   it, and `AckIsRecorded` forward from a handler to the row that it has
   answered.  Together they carry each promise to the event that ends it.
3. `HeldInv` follows: a held task is not taken by a scan (`HeldIsNotScanned`,
   which `ImplementsLifecycle` implies): only another replica could make it due.
   An acknowledgement does not, since it leaves the task waiting or over.
4. `LiveInv` needs no leader.  A replica within its lease keeps its task out
   of the eligible states and its lease from being over; then neither a claim
   nor the recovery finds the task, and the only write by id that would make it
   due, that of a reminder, is not there (`NoReminder`).  It is about one task,
   so that the reminders of others do not matter.
5. `ClaimInv`: a claimed task has a lease, and a held task that was not
   answered is claimed (`ClaimOf`), so that the update to `running` finds the
   lease of the claim.
6. `PauseInv`: statements that write by id do not look at the state they
   overwrite.  A paused task is safe from them since no replica has it in its
   hands, neither as its claim nor in the list of waits it is about to fail
   (`Awaits`), and an acknowledgement that could end the pause is about a row
   that says so (`AcceptanceInv`).
7. `RouteInv`: only tasks routed to `external_action` have dispatches, so that
   an answer is about one of those, and only they wait.  `TickSides` and
   `TickBegins` follow a replica on the side of the reminder and on that of
   the schedule.
8. `Implements` maps a task to its phase and to whoever holds it (`Phase`,
   `Owner`), a function by `Solo`.  A step of the abstract specification
   starts from a phase, so that the concrete state must be known where the
   code writes blindly.  `ClaimInv` knows it for a claim; `WaitInv` for the
   waits, each of which is listed once (`Distinct`) and still waits when its
   turn comes, or was answered since (`Waited`).  A replica that goes on with
   a task answered under its hands takes the step `Resume`.
9. `FireInv` counts, for each task, the dates it has spent (`Counted`): the
   reminder that was cleared, the schedule that was cleared or left behind by a
   finished task, and whoever is about to spend one (`AtEnd`).  A replica on the
   side of the reminder still has it to spend.  One on the side of the schedule
   has fired only for what is spent otherwise (`FireOf`), although an answer may
   clear its date meanwhile and its last write bring it back; that is why the
   schedule of an external task counts as spent only once it is gone
   (`Ended`), and why answers do not end `OncePerDate`.  A firing begins the end
   of an execution, the end spends its date, and only a crash separates the two.
10. `ClaimsAreHeld` says that a tick that lives forgets no claim.  It could
    forget one at its insert, where the duplicate key of a row with the same
    slot throws and ends the tick.  `ClearAhead` shows that under one leader
    the row in the way was there when `findOne` looked, and was not waiting:
    its dispatch has been answered, which is what the property leaves out.
    With two leaders it may be the other's row, which is why the property ends
    with a lost lock.

`JobQueueProofs` proves for any jobs, any finite set of replicas, any
priorities, shards, budgets, slots and bounds:

| theorem | statement |
|---|---|
| `QueueTyping` | `Spec => []TypeOK` |
| `LiveRunner` | `Spec => []OneLiveRunner` |
| `AskedFor` | `Spec => []RunsAreAskedFor` |
| `HasRunner` | `Spec => []RunningHasRunner`, stated there: until a process dies, a statement throws or an answer is lost, a job shown as running is run by a replica, unless its user was deleted or a sandbox run has it |

from `QueueAssumption` alone.

1. `Typed` adds to `TypeOK` that a tick has a job and a slot wherever it uses
   one.
2. `OneLiveRunner` speaks of two replicas; what is inductive is about one:
   `LeaseInForce` says that the lease row of a replica that is not late is its
   own, of age 0 and read by no thief.  Two of them would share the one row of
   a job.  `OthersKeep` shows for each statement why it leaves such a row
   alone: the insert finds a row, the thief has not read it, the sweep, the
   recovery and retention look for older ones, the release for its own.
3. `CreditCovers` strengthens `RunsAreAskedFor`, for any set of jobs `Counted`:
   the credit of a job covers
   its place in the queue and each replica that has claimed it and not run it
   yet (`Claimants`, counted by `Cardinality`).  A claim turns the former into
   the latter, a run uses it up, a put-back by the kill switch returns it.
4. `RunningHasRunner` is inductive with `Typed`: `TickHasRunner` goes through
   the exits of a run, each of which writes what became of the job before its
   replica lets go of it.  Two replicas may run one job, after a steal or a
   recovery; the one that finishes first ends the job for both.

`SandboxRunProofs` proves for any runs, plans, rules, replicas, handlers,
approval requests and bounds:

| theorem | statement |
|---|---|
| `SandboxTyping` | `Spec => []TypeOK` |
| `SandboxApproval` | `Spec => []ApprovedBeforeExecution` |
| `SandboxContract` | `Spec => ReportsAreOfRuns`, stated there: what the sandbox writes to `ai_jobs` is *running*, *completed* or *failed*, one job at a time, and only to that of a run it has created |

from `SandboxAssumption` and `NullAssumption`.

1. `Typed` adds to `TypeOK` the locals each statement relies on (`LocalsOK`: a
   run that exists, a step of its plan, a request) and that every request is
   about a run that exists (`RequestsOK`).
2. `ApprovedBeforeExecution` is about rows, and a row may be saved from what a
   handler has read.  `Cleared` adds the actors: whoever is about to write a
   released status to a gated run (claim, put-back, second save, resume)
   stands where only an approved run can have brought it.  Each action then
   has one lemma: it releases a run whose row or whose actor was cleared.
3. `ReportsAreOfRuns` is what `JobQueue` assumes of its environment in
   `SandboxReports`.  It follows from `Typed`: whoever reports a job has a run
   that exists.

`SandboxOwnerProofs` proves, from the same assumptions, the other three
invariants of the run, the refinement, and that work in progress is somebody's:

| theorem | statement |
|---|---|
| `SandboxOneStepper` | `Spec => []OneStepper` |
| `SandboxInline` | `Spec => []InlineIsNotRaced` |
| `SandboxJobs` | `Spec => []JobsFollowRuns` |
| `ImplementsRuns` | `Spec => ImplementsRunLifecycle` |
| `SandboxWork` | `Spec => []WorkHasActor`, stated there: until something fails, a run shown as being validated or executed has an actor that still has to write what comes of it, unless the kill switch stopped a request that had it in hand |

1. `OneStepper` speaks of steps; what is inductive is about owners.  `Owned`
   says of a run that was not saved late that it is held by one actor
   (`OneHolder`) or by one pending request (`AsksAlone`), never by both, and
   that its status says that it is free only if neither holds it
   (`FreeIsFree`).  A compare-and-set then takes a free run only, a pause
   hands the run from the actor to its request, an answer hands it back.
   `OwnerMoves` is the one lemma for all actions that leave requests alone.
2. `Unraced` says of an inline run that the only actor there is for it is the
   request that created it (`MakersAlone`): the queue does not select it
   (`ActorKindsOK`), it is never gated (`KindsOK`), and nobody else can get to
   its row before it asks for an approval.
3. `Followed` says that a settled run with a running job has an actor on its
   way to report it (`JobsReported`).  It needs both: another actor with a
   statement left for the job would set it back, and by `Owned` there is none
   but those of an approval, which `GatedActors` and `ResumedActors` trace to
   the runs the property leaves out.
4. `ImplementsRuns` reads `Owned` as what the mapping of a run looks like
   (`OneHand`): nobody's, one actor's or one request's, and closed whenever it
   is somebody's.  A statement moves one run.  `Passes` lists what it may make of
   the role of its actor (checking, executing or none) and of the status;
   `LifePasses` proves that each entry is a step of `RunLifecycle`, and each
   action then has to show which entry it is.  The steps that hand a run to a
   request or back (`QuestionLives`, `AnswerLives`, `ExpiryLives`) have lemmas of
   their own.  What `Owned` does not say is that an actor without a run of its
   own saves no news of it: the end of a plan it paused or finished, a
   rejection, a check that fails late.  `Bygone` does.  It names two states of
   a run that no step leaves (`PastStays`): `Over`, closed and held at most by
   the admin who resumed it, and `Passed`, gated and past its check; and an
   actor lets go of its run only in one of them (`PastMoves`).
5. `WorkHasActor` needs no owner.  It holds of late runs too, since whoever
   saves over a newer status goes on to the statements of the status it saved.
   `WorkMoves` has one condition per run: the actor that moves takes it, or
   leaves it as it is to whoever has it.  The exception is `ByRequest`: the job
   runner puts back what the switch stops, a request that executes its inline
   run or the run an admin resumed does not (section 6).

`AuthProofs` proves for any tabs, tokens, requests and bounds:

| theorem | statement |
|---|---|
| `AuthTyping` | `AuthSpec => []AuthTypeOK` |
| `LineHasOneHeir` | `AuthSpec => []OneHeir` |
| `TabsImplementTokens` | `Spec => AuthSpec`: every step of the browser and its calls is a step of `RefreshTokens` or leaves it alone |
| `BrowserHasOneHeir` | `Spec => []OneHeir` |
| `TabTyping` | `Spec => []TypeOK` |
| `WaitersAreAnswered` | `Spec => []WaitersHaveFlight` |
| `SessionEndsWithToken` | `Spec => []SessionMatchesToken` |
| `SpentCookieIsReplaced` | `Spec => []CookieIsReplaced` |

from `TokensAssumption` and `TabsAssumption` (a bootstrap needs `MaxBoots` of at
least 1).

1. `OneHeir` is not inductive: a refresh between the update that spends a
   token and the insert of the next one must be counted with the active
   tokens. `AuthInv` says that the right to the heir of a line is held once,
   by an active token or by one refresh (`RightIsHeldOnce`), that the token of
   such a refresh is spent (`RotatedIsSpent`), and that lines are those of
   tokens that were born (`LinesAreBorn`). `RefreshTokens` lets any request
   present any token at any time, so that the theorem does not depend on what
   a browser does; `TabsImplementTokens` is the refinement that carries it to
   the tabs.
2. `PagesOK` adds to the types that the bootstraps of a page keep within their
   bound together, which requests reach which statement (`KindsOK`), and, for
   the waiters, that a page has one refresh (`OneFlight`) and that it has one
   if somebody waits (`Awaited`).  `Leave` empties both sides at once; an
   answer empties them together with the promise.
3. The other two properties speak of behaviours without a failure, a lost
   answer or a reset.  A logout is no failure: what it leaves is the token and
   the session of a line that has ended (`LineEnded`), and a line that has ended
   stays so.  `CalmBody` is inductive there: every request is
   awaited, so that each answer sets the cookie; what a request presents was
   issued (`Born`); a request that has issued a token is alone in holding it
   until it is answered (`NewIsOurs`), so that nobody spends it before it is
   in the cookie; and a request about to revoke a session has spent its token
   (`RevokesSpent`).

`SelfUpgradeProofs` proves for any requests, proposals, admins and bounds:

| theorem | statement |
|---|---|
| `UpgradeTyping` | `Spec => []TypeOK` |
| `AppliedIsApproved` | `Spec => []AppliedWasApproved` |
| `ReviewedOnce` | `Spec => []OneVerdict` |
| `AppliedStaysInTree` | `Spec => []AppliedIsInTree` |
| `UpgradeServed` | `Spec => []RequestIsServed`, stated there: until a handler dies or throws, or the admin routes of patch proposals are used, a request shown as being analyzed, generated or validated has a handler at the statements that follow that status |

from `ReviewAssumption` and `UpgradeAssumption`.  Every handler saves copies,
so an invariant about rows must be one about copies.  `Backed` says of a copy
of a preview that what it says is true: *applied* means approved and in the
tree.  It cannot become false, since approvals and the tree only grow
(`Grows`).  `PreviewsBacked` says it of the rows, `HandlersOK` of what each
handler has read, and of the next statement of one that is past its check;
saving a copy then keeps both.  `OneVerdict` is inductive with what the one
review that has an uncontested proposal in hand knows: before git's answer the
diff is not in the tree, after it the row is about to say so; nothing is assumed
of git.  `RequestIsServed` holds although handlers of one request
save over each other: whoever saves such a status goes on to the statements
that serve it (`SavesServed`), and leaves them only by saving the next one.

`ChatProofs` proves for any turns, sends, replicas and bounds:

| theorem | statement |
|---|---|
| `ChatTyping` | `Spec => []TypeOK` |
| `InterruptionWasAsked` | `Spec => []InterruptedWasStopped` |
| `RegistrationEnds` | `Spec => []RegisteredIsInFlight` |
| `PlaceholderIsOwed` | `Spec => []PlaceholderHasRun` |
| `EndedRowsStay` | `Spec => RowsSettle` |

from `ChatAssumption` (there is a replica).

1. `ServerInv`: whatever could interrupt a turn names one that was stopped, be
   it a marker in Redis or in the memory of a replica, a cancel on its way, or
   the abort flag and the terminal status of a run (`StopsOK`, `RunsOK`).
   `Owed` follows the run that wrote a placeholder to the statement that ends
   it: a retry overwrites the row with its own name, or loses nothing.
2. `ClientInv`: the active row of a tab is not finalized (`ActiveIsOpen`),
   although a timer may have ended it.  A chunk, which carries no identifier, and
   a frame, which paints the active row, are thus credited to a row that neither a
   reply nor a stop has ended; that a rendered end holds too is the guard of
   `Delta`.

*Only model-checked.*  Liveness under fairness (`ClaimsEnd`, `WaitsEnd`,
`RemindersAreDelivered`, `SchedulesAreAttempted`, `QueuedJobsAreServed`,
`StagedRunsAreDecided`) and `ENABLED` are beyond the prover and stay with TLC.
Every safety property of a passing run is stated by one of the theorems above.

*Only proved.*  `ClaimsAreHeld`, `RunningHasRunner`, `WorkHasActor`,
`RequestIsServed` and `ReportsAreOfRuns` are stated beside their proofs and
are not properties of a run.  The first four say the same of four components:
while nothing dies, a row that says that work is going on tells the truth.
Each names the events after which it may not, and the rows it then leaves are
those a recovery is for, where the code has one.

## 6. Where the code and its comments disagree

| run | the code | the text |
|---|---|---|
| `v_stale` | the heartbeat of every replica deletes leases as soon as they expire; the recovery looks for leases that expired two minutes ago, so the job of a dead replica stays running while another one ticks | job runner :440, "re-queue jobs whose leases expired without release (multi-node safe)" |

The run checks the one property `CrashedJobsAreRequeued` and is expected to be
violated.  The following were met while modelling.  The models have these
behaviours, and the properties above are stated so that they hold beside them:

- A reminder task with only `due_at` stays due after its delivery and is
  delivered by every tick (engine :53, "scans cannot double-fire").
- The final write of a reminder is by id: a replica that lost its lock and
  outlived its lease clears the lease and sets the task of its successor to
  pending, and claims it again in the rest of its own tick (engine :51, "only
  one replica processes a due task at a time").
- Two acknowledgements pass the check on the status of a dispatch; the later
  write replaces a terminal status.
- An acknowledgement that ends a task between its claim and the update to
  `running` leaves `running` without a lease; a crash then leaves it so.
- A preview of a self-upgrade is a patch proposal like any other: the admin
  route of proposals applies it without the approval of the preview
  (self-upgrade service :24).  `AppliedWasApproved` speaks of what the preview
  says, and holds.
- An approved step is asked about again: `approveRequest` starts the whole
  plan, whose decision on that step has not changed.
- The results of a plan that `executeSandboxRunAfterClaim` looks at are always
  empty: a denied step ends in a completed run.
- A step that is approved between the save that pauses a run and the read at
  the end of its plan: the old runner finds the run executing again and
  completes it, while the admin's request starts the plan once more; the job
  it sets to running may stay so behind a completed run.
- Two approvals of one request pass the same check, and both start the plan.
- A run that is validated or executed when its process dies has no recovery; a
  run whose request expired stays paused.
- The kill switch may stop a run between its claim and its first step.  The
  job runner puts such a run back; a request that works on its inline run, or
  on the run an admin resumed, does not, and the run stays *validation_pending*
  or *executing* with nobody at it.
- A step that is rejected between the insert of its approval request and the
  save that pauses its run: the rejection blocks the run, the save overwrites
  *blocked*, and the run waits for an answer to a request that has had one.
- Chunks of the chat are credited to whichever turn is in scope, and a late
  refusal tears down the scope of the next turn.
- A chunk handled between the watchdog and the render of its end restores the
  row: `generationActive` stays false, so that the stop button is gone and the
  user may send the next turn, which leaves the old row *streaming* for good.
- A logout with a cookie always fails (`auth.service.ts` :387): its update of
  `sessions` filters by the `tokenHash` of the related token, which TypeORM
  resolves in a `find` but not in an `update`, and throws after the token was
  spent (:386).  The session stays active and `clearRefreshCookie`
  (`auth.controller.ts` :148) is not reached; the unit test replaces the
  repository's `update` by a stub.
- A browser acknowledges as completed a notification it may not show and an
  action whose type it does not know (`socket.ts` :90): the task is completed.
- A PATCH may name any execution state: one that says *waiting_input* makes a
  wait without a lease, which no recovery ends; *completed* completes a task;
  *waiting_approval* over a claim is ended by the last write of the tick.
- A release that throws in the catch of a job leaves a lease that its own node
  renews for ever, as does an insert or a steal whose answer is lost.
- An audit that fails after an ungated extraction was validated writes
  *validation_failed* over the approved run, which another replica may be
  executing, and fails its job.
- Two reviews of one proposal may apply its diff twice, or leave *rejected* on a
  diff that is in the tree.

`updateTask` saves the execution state it read
before a claim, which makes a claimed task eligible again.  The recovery of
stale leases updates by id and status from a list it read before, so that a
job whose lease was stolen in between is put back while it runs;
`OneLiveRunner` says why that is harmless within the lease.

## 7. What is not modelled, and what is left

Not modelled, because it is I/O, prompt assembly or user interface: beast
orchestration, inference, the worker, studio, memory, files, imported front
ends, scripts.  Most of the repository's lines are of this kind, so that the
share of it that is modelled is small.  Not modelled although it has state of
its own: calls and voice, whose handlers save whole rows from old reads
without any statement of what they should exclude; workspace runtime sessions;
the HTTP path of the chat, which has neither cancel nor registry; OAuth and
verification of addresses.

Left, in order of importance:

1. `JobQueue` composed with `SandboxRun` in place of `SandboxReports`.  For
   safety, `SandboxContract` proves what the former assumes of the latter; what
   is left is liveness across the two, which needs the joint model.
2. Properties for hazards without one in `PROJECT.json`: performed actions per
   slot, a plan that gets past an approved step, recovery of executing runs.
   Each needs a decision on what the code should do.
3. Call sessions.
