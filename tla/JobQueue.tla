------------------------------ MODULE JobQueue ------------------------------
(***************************************************************************)
(* The ai_jobs queue of BackgroundJobRunnerService: every replica scans    *)
(* for queued jobs, takes the lease row of one (ai_job_leases, unique per  *)
(* job), claims the job by compare-and-set, runs it and lets go; a         *)
(* heartbeat renews and sweeps leases, the cluster leader re-queues jobs   *)
(* whose lease is stale.  One action is one SQL statement.  The proactive  *)
(* scan, which inserts jobs, and the sandbox queue are left out.           *)
(***************************************************************************)
EXTENDS Integers, FiniteSets

CONSTANTS
    Jobs,         \* rows of ai_jobs
    Nodes,        \* replicas, by worker node name
    None,         \* no node, no job
    JobType,      \* job_type of each job
    Priority,     \* queue_priority of each job
    Shards,       \* shard keys
    Shard,        \* shard_key of each job
    Budget,       \* JOB_SHARD_BUDGETS_JSON: jobs of one shard per tick
    Slots,        \* JOB_RUNNER_MAX_CONCURRENCY
    MaxAttempts,  \* max_attempts of a job
    Deletable,    \* jobs whose user may have been deleted when they run
    Restarts,     \* nodes that come back under their name after a crash
    Counted,      \* bound: jobs whose runs are counted
    MaxCrashes,   \* bound: crashes, statements that throw, lost answers
    MaxSwitches   \* bound: times the kill switch is thrown, either way

ASSUME QueueAssumption ==
    /\ None \notin Nodes \cup Jobs
    /\ IsFiniteSet(Nodes)
    /\ JobType \in [Jobs -> {"multimodal_deep_extract", "beast_proactive",
                             "file_understand"}]
    /\ Priority \in [Jobs -> Nat]
    /\ Shard \in [Jobs -> Shards]
    /\ Slots \in Nat \ {0}
    /\ Budget \in Nat \ {0}
    /\ MaxAttempts \in Nat \ {0}
    /\ Deletable \subseteq Jobs
    /\ Restarts \subseteq Nodes
    /\ Counted \subseteq Jobs
    /\ MaxCrashes \in Nat
    /\ MaxSwitches \in Nat

VARIABLES
    job,       \* ai_jobs
    lease,     \* ai_job_leases
    node,      \* the tick of each replica
    leader,    \* holder of the cluster leader lock, or None
    systemOn,  \* the supervisor's kill switch
    seen,      \* what getState of each replica answers
    handed,    \* jobs that have a sandbox run
    credit,    \* history: runs a job is still good for
    crashes, switches

vars == <<job, lease, node, leader, systemOn, seen, handed, credit, crashes,
          switches>>

(***************************************************************************)
(* The age of a lease, in the order of the default thresholds:             *)
(* 0 in force, 1 expired, 2 past JOB_LEASE_STEAL_GRACE_MS, 3 past          *)
(* JOB_LEASE_STALE_RECOVERY_MS.  readers are the nodes that have read this *)
(* version of the row: only they may replace it (version = :version).      *)
(***************************************************************************)
StealGrace == 2
StaleRecovery == 3

LeaseRow == [owner : Nodes, age : 0 .. 3, readers : SUBSET Nodes]
NoLease == [owner |-> None, age |-> 0, readers |-> {}]

\* wait: next_retry_after lies in the future.
JobRow == [status : {"queued", "running", "completed", "failed"},
           attempts : 0 .. MaxAttempts, wait : BOOLEAN]

Pcs == {"down", "idle", "gate", "queue", "insert", "findlease", "steal",
        "claim", "run", "finish", "requeue", "release", "lead", "retain",
        "stale", "recover", "renew", "sweep"}

\* With the lease of a job in hand.
HoldingPcs == {"claim", "run", "finish", "requeue", "release"}

\* Between the claim of a job and the last write to it.
RunningPcs == {"run", "finish", "requeue"}

(***************************************************************************)
(* left   slots left in this tick          used  usedByShard               *)
(* j      the picked job, as read: tries is its attempt_count              *)
(* out    what becomes of it               threw the catch block runs      *)
(* todo   stale leases to recover          late  history: the lease of j   *)
(*                                               has run out               *)
(***************************************************************************)
NodeRec ==
    [pc : Pcs, left : 0 .. Slots, used : [Shards -> Nat],
     j : Jobs \cup {None}, tries : 0 .. MaxAttempts,
     out : {"completed", "failed", "retry"}, threw : BOOLEAN,
     todo : SUBSET Jobs, late : BOOLEAN]

IdleNode ==
    [pc |-> "idle", left |-> 0, used |-> [s \in Shards |-> 0], j |-> None,
     tries |-> 0, out |-> "failed", threw |-> FALSE, todo |-> {},
     late |-> FALSE]

TypeOK ==
    /\ job \in [Jobs -> JobRow]
    /\ lease \in [Jobs -> LeaseRow \cup {NoLease}]
    /\ node \in [Nodes -> NodeRec]
    /\ leader \in Nodes \cup {None}
    /\ systemOn \in BOOLEAN
    /\ seen \in [Nodes -> BOOLEAN]
    /\ handed \subseteq Jobs
    /\ credit \in [Jobs -> Int]
    /\ crashes \in 0 .. MaxCrashes
    /\ switches \in 0 .. MaxSwitches

Init ==
    /\ job = [j \in Jobs |->
                [status |-> "queued", attempts |-> 0, wait |-> FALSE]]
    /\ lease = [j \in Jobs |-> NoLease]
    /\ node = [n \in Nodes |-> IdleNode]
    /\ leader = None
    /\ systemOn = TRUE
    /\ seen = [n \in Nodes |-> TRUE]
    /\ handed = {}
    /\ credit = [j \in Jobs |-> 1]
    /\ crashes = 0
    /\ switches = 0

At(n, pc) == node[n].pc = pc

Holds(n, j) == node[n].j = j /\ node[n].pc \in HoldingPcs
Runs(n, j) == node[n].j = j /\ node[n].pc \in RunningPcs

SetNode(n, r) == node' = [node EXCEPT ![n] = r]
Goto(n, pc) == SetNode(n, [node[n] EXCEPT !.pc = pc])

\* `continue`: the next slot of the queue loop.
NextSlot(n) ==
    SetNode(n, [IdleNode EXCEPT !.pc = "queue", !.left = node[n].left - 1,
                                !.used = node[n].used])

Write(j, status) == job' = [job EXCEPT ![j].status = status]

NoJob == UNCHANGED <<job, handed, credit>>
NoRow == UNCHANGED <<job, lease, handed, credit>>
Calm == UNCHANGED <<leader, systemOn, seen, crashes, switches>>

-----------------------------------------------------------------------------
(***************************************************************************)
(* KillSwitchService.getState answers from a cache of two seconds, or asks *)
(* the supervisor.  FALSE also stands for a supervisor that cannot be      *)
(* reached, which throws where off returns or throws, with the same        *)
(* effect.                                                                 *)
(***************************************************************************)
getState(n) ==
    /\ seen[n] # systemOn
    /\ seen' = [seen EXCEPT ![n] = systemOn]
    /\ NoRow
    /\ UNCHANGED <<node, leader, systemOn, crashes, switches>>

StartTick(n) ==
    /\ At(n, "idle")
    /\ Goto(n, IF seen[n] THEN "gate" ELSE "idle")
    /\ NoRow
    /\ Calm

EnterQueue(n) ==
    /\ At(n, "gate")
    /\ IF seen[n]
       THEN SetNode(n, [IdleNode EXCEPT !.pc = "queue", !.left = Slots])
       ELSE SetNode(n, IdleNode)
    /\ NoRow
    /\ Calm

-----------------------------------------------------------------------------
(***************************************************************************)
(* processAiJobsQueue: pick, lease, claim.                                 *)
(***************************************************************************)
Queued(n) ==
    {j \in Jobs : /\ job[j].status = "queued"
                  /\ ~job[j].wait
                  /\ node[n].used[Shard[j]] < Budget}

\* Mutant: the loop runs while slot <= maxConcurrency.
SelectOneMore(n) ==
    /\ At(n, "queue")
    /\ \/ /\ Queued(n) = {}
          /\ SetNode(n, [IdleNode EXCEPT !.pc = "lead"])
       \/ \E j \in Queued(n) :
            /\ \A k \in Queued(n) : Priority[k] <= Priority[j]
            /\ SetNode(n, [node[n] EXCEPT !.pc = "insert", !.j = j,
                                          !.tries = job[j].attempts])
    /\ NoRow
    /\ Calm

SelectQueued(n) ==
    /\ At(n, "queue")
    /\ \/ /\ node[n].left = 0 \/ Queued(n) = {}
          /\ SetNode(n, [IdleNode EXCEPT !.pc = "lead"])
       \/ /\ node[n].left > 0
          /\ \E j \in Queued(n) :
               /\ \A k \in Queued(n) : Priority[k] <= Priority[j]
               /\ SetNode(n, [node[n] EXCEPT !.pc = "insert", !.j = j,
                                             !.tries = job[j].attempts])
    /\ NoRow
    /\ Calm

\* tryAcquireJobLease took the lease: the shard is charged.
Acquired(n) ==
    SetNode(n, [node[n] EXCEPT !.pc = "claim", !.late = FALSE,
                               !.used[Shard[node[n].j]] = @ + 1])

\* INSERT under UNIQUE (ai_job_id).
InsertLease(n) ==
    /\ At(n, "insert")
    /\ LET j == node[n].j IN
         \/ /\ lease[j] = NoLease
            /\ lease' = [lease EXCEPT ![j] =
                   [owner |-> n, age |-> 0, readers |-> {}]]
            /\ Acquired(n)
         \/ /\ lease[j] # NoLease
            /\ Goto(n, "findlease")
            /\ UNCHANGED lease
    /\ NoJob
    /\ Calm

FindLease(n) ==
    /\ At(n, "findlease")
    /\ LET j == node[n].j IN
         IF lease[j] # NoLease /\ lease[j].age >= StealGrace
         THEN /\ lease' = [lease EXCEPT ![j].readers = @ \cup {n}]
              /\ Goto(n, "steal")
         ELSE /\ NextSlot(n)
              /\ UNCHANGED lease
    /\ NoJob
    /\ Calm

\* UPDATE ... WHERE id = :id AND version = :version; the expiry read before
\* is not part of the condition.
StealLease(n) ==
    /\ At(n, "steal")
    /\ LET j == node[n].j IN
         \/ /\ n \in lease[j].readers
            /\ lease' = [lease EXCEPT ![j] =
                   [owner |-> n, age |-> 0, readers |-> {}]]
            /\ Acquired(n)
         \/ /\ n \notin lease[j].readers
            /\ NextSlot(n)
            /\ UNCHANGED lease
    /\ NoJob
    /\ Calm

\* Mutant: UPDATE ... WHERE id = :id, without the compare of the status.
ClaimAnyway(n) ==
    /\ At(n, "claim")
    /\ Write(node[n].j, "running")
    /\ Goto(n, "run")
    /\ UNCHANGED <<lease, handed, credit>>
    /\ Calm

\* That a job has no user, and is let go, is noticed after the claim.
AfterClaim(j) == {"run"} \cup (IF j \in Deletable THEN {"release"} ELSE {})

ClaimJob(n) ==
    /\ At(n, "claim")
    /\ LET j == node[n].j IN
         \/ /\ job[j].status = "queued"
            /\ Write(j, "running")
            /\ \E pc \in AfterClaim(j) : Goto(n, pc)
         \/ /\ job[j].status # "queued"
            /\ Goto(n, "release")
            /\ UNCHANGED job
    /\ UNCHANGED <<lease, handed, credit>>
    /\ Calm

-----------------------------------------------------------------------------
(***************************************************************************)
(* The three kinds of job.  A run takes one credit: one is given with the  *)
(* job, and one more each time it is put back after a run may have begun.  *)
(***************************************************************************)
Take(j) ==
    credit' = [credit EXCEPT ![j] = IF j \in Counted THEN @ - 1 ELSE @]

\* Bound: more credit than replicas can use is not counted.
MaxCredit == Cardinality(Nodes) + 1

Give(j) ==
    credit' = [credit EXCEPT ![j] =
        IF j \in Counted /\ @ < MaxCredit THEN @ + 1 ELSE @]

Finish(n, out) ==
    SetNode(n, [node[n] EXCEPT !.pc = "finish", !.out = out])

\* processQueuedJob stores its own failures and throws only if it cannot.
ProcessExtraction(n) ==
    /\ At(n, "run")
    /\ JobType[node[n].j] = "multimodal_deep_extract"
    /\ Take(node[n].j)
    /\ \E out \in {"completed", "failed", "retry"} : Finish(n, out)
    /\ UNCHANGED <<job, lease, handed>>
    /\ Calm

SaveSuggestion(n) ==
    /\ At(n, "run")
    /\ JobType[node[n].j] = "beast_proactive"
    /\ Take(node[n].j)
    /\ Finish(n, "completed")
    /\ UNCHANGED <<job, lease, handed>>
    /\ Calm

\* The sandbox service asks the kill switch once more.
CreateSandboxRun(n) ==
    /\ At(n, "run")
    /\ JobType[node[n].j] = "file_understand"
    /\ LET j == node[n].j IN
         \/ /\ ~seen[n]
            /\ Goto(n, "requeue")
            /\ UNCHANGED <<handed, credit>>
         \/ /\ seen[n]
            /\ handed' = handed \cup {j}
            /\ Take(j)
            /\ Goto(n, "release")
         \* no fileId in the payload
         \/ Finish(n, "failed") /\ UNCHANGED <<handed, credit>>
    /\ UNCHANGED <<job, lease>>
    /\ Calm

RequeueJob(n) ==
    /\ At(n, "requeue")
    /\ LET j == node[n].j IN
         IF job[j].status = "running" THEN Write(j, "queued")
                                      ELSE UNCHANGED job
    /\ Goto(n, "release")
    /\ UNCHANGED <<lease, handed, credit>>
    /\ Calm

\* UPDATE by id alone, from the attempt_count read when the job was picked.
FinishJob(n) ==
    /\ At(n, "finish")
    /\ LET j == node[n].j
           again == node[n].out = "retry" /\ node[n].tries + 1 < MaxAttempts
       IN \/ /\ again
             /\ job' = [job EXCEPT ![j] =
                    [status |-> "queued", attempts |-> node[n].tries + 1,
                     wait |-> TRUE]]
             /\ Give(j)
          \/ /\ ~again
             /\ Write(j, IF node[n].out = "completed" THEN "completed"
                                                      ELSE "failed")
             /\ UNCHANGED credit
    /\ Goto(n, "release")
    /\ UNCHANGED <<lease, handed>>
    /\ Calm

\* Mutant: the token is not part of the condition.
ReleaseAnyLease(n) ==
    /\ At(n, "release")
    /\ lease' = [lease EXCEPT ![node[n].j] = NoLease]
    /\ IF node[n].threw THEN SetNode(n, IdleNode) ELSE NextSlot(n)
    /\ NoJob
    /\ Calm

\* DELETE by job, node and token.
ReleaseLease(n) ==
    /\ At(n, "release")
    /\ LET j == node[n].j IN
         lease' = IF lease[j].owner = n THEN [lease EXCEPT ![j] = NoLease]
                                        ELSE lease
    /\ IF node[n].threw THEN SetNode(n, IdleNode) ELSE NextSlot(n)
    /\ NoJob
    /\ Calm

-----------------------------------------------------------------------------
(***************************************************************************)
(* The leader's part of the tick, and the heartbeat.                       *)
(***************************************************************************)
Lead(n) ==
    /\ At(n, "lead")
    /\ \/ /\ leader = None
          /\ leader' = n
          /\ Goto(n, "retain")
       \/ /\ leader # None
          /\ Goto(n, "renew")
          /\ UNCHANGED leader
    /\ NoRow
    /\ UNCHANGED <<systemOn, seen, crashes, switches>>

Delete(S) == lease' = [j \in Jobs |-> IF j \in S THEN NoLease ELSE lease[j]]

Aged(age) == {j \in Jobs : lease[j] # NoLease /\ lease[j].age >= age}

\* runRetentionCleanup deletes the oldest of the stale leases.
RetainLeases(n) ==
    /\ At(n, "retain")
    /\ \E S \in SUBSET Aged(StaleRecovery) : Delete(S)
    /\ Goto(n, "stale")
    /\ NoJob
    /\ Calm

SelectStale(n) ==
    /\ At(n, "stale")
    /\ SetNode(n, [node[n] EXCEPT !.pc = "recover",
                                  !.todo = Aged(StaleRecovery)])
    /\ NoRow
    /\ Calm

\* One job of recoverStaleJobLeases: the lease row stays as it is.
RecoverJob(n) ==
    /\ At(n, "recover")
    /\ \E j \in node[n].todo :
         /\ SetNode(n, [node[n] EXCEPT !.todo = @ \ {j}])
         /\ \/ /\ job[j].status = "running"
               /\ Write(j, "queued")
               /\ Give(j)
            \/ /\ job[j].status # "running"
               /\ UNCHANGED <<job, credit>>
    /\ UNCHANGED <<lease, handed>>
    /\ Calm

Unlock(n) == leader' = IF leader = n THEN None ELSE leader

\* The engine's tick, under the same lock, is TaskEngine.
Abdicate(n) ==
    /\ At(n, "recover")
    /\ node[n].todo = {}
    /\ Unlock(n)
    /\ Goto(n, "renew")
    /\ NoRow
    /\ UNCHANGED <<systemOn, seen, crashes, switches>>

\* Mutant: every lease is renewed, whoever owns it.
RenewAll(n) ==
    /\ At(n, "renew")
    /\ lease' = [j \in Jobs |-> [lease[j] EXCEPT !.age = 0]]
    /\ Goto(n, "sweep")
    /\ NoJob
    /\ Calm

\* By node name: leases of an earlier process of that name included.
RenewLeases(n) ==
    /\ At(n, "renew")
    /\ lease' = [j \in Jobs |-> IF lease[j].owner = n
                                THEN [lease[j] EXCEPT !.age = 0]
                                ELSE lease[j]]
    /\ Goto(n, "sweep")
    /\ NoJob
    /\ Calm

\* Expired leases of every node, whatever became of their jobs.
SweepLeases(n) ==
    /\ At(n, "sweep")
    /\ Delete(Aged(1))
    /\ SetNode(n, IdleNode)
    /\ NoJob
    /\ Calm

TickStep(n) ==
    \/ StartTick(n) \/ EnterQueue(n) \/ SelectQueued(n) \/ InsertLease(n)
    \/ FindLease(n) \/ StealLease(n) \/ ClaimJob(n) \/ ProcessExtraction(n)
    \/ SaveSuggestion(n) \/ CreateSandboxRun(n) \/ RequeueJob(n)
    \/ FinishJob(n) \/ ReleaseLease(n) \/ Lead(n) \/ RetainLeases(n)
    \/ SelectStale(n) \/ RecoverJob(n) \/ Abdicate(n) \/ RenewLeases(n)
    \/ SweepLeases(n)

-----------------------------------------------------------------------------
(***************************************************************************)
(* What happens to the runner.                                             *)
(***************************************************************************)

\* A statement throws.  The queue loop releases the lease and ends the tick;
\* if that release throws too, the row is left behind.  The leader's part
\* logs, unlocks and lets the heartbeat follow.
Throw(n) ==
    /\ crashes < MaxCrashes
    /\ crashes' = crashes + 1
    /\ \/ /\ node[n].pc \in HoldingPcs
          /\ ~node[n].threw
          /\ SetNode(n, [node[n] EXCEPT !.pc = "release", !.threw = TRUE])
          /\ UNCHANGED leader
       \/ /\ node[n].pc \in {"gate", "queue", "findlease", "steal", "renew",
                             "sweep"} \cup HoldingPcs
          /\ SetNode(n, IdleNode)
          /\ UNCHANGED leader
       \/ /\ node[n].pc \in {"retain", "stale", "recover"}
          /\ Goto(n, "renew")
          /\ Unlock(n)
    /\ NoRow
    /\ UNCHANGED <<systemOn, seen, switches>>

\* The lease row is written, its answer is lost: the handler of the INSERT
\* finds its own row, that of the steal ends the tick.
LoseAnswer(n) ==
    /\ crashes < MaxCrashes
    /\ crashes' = crashes + 1
    /\ LET j == node[n].j IN
         /\ \/ /\ At(n, "insert")
               /\ lease[j] = NoLease
               /\ Goto(n, "findlease")
            \/ /\ At(n, "steal")
               /\ n \in lease[j].readers
               /\ SetNode(n, IdleNode)
         /\ lease' = [lease EXCEPT ![j] =
                [owner |-> n, age |-> 0, readers |-> {}]]
    /\ NoJob
    /\ UNCHANGED <<leader, systemOn, seen, switches>>

\* The process dies, and its MySQL session with it.
Crash(n) ==
    /\ ~At(n, "down")
    /\ crashes < MaxCrashes
    /\ crashes' = crashes + 1
    /\ SetNode(n, [IdleNode EXCEPT !.pc = "down"])
    /\ Unlock(n)
    /\ NoRow
    /\ UNCHANGED <<systemOn, seen, switches>>

Restart(n) ==
    /\ n \in Restarts
    /\ At(n, "down")
    /\ SetNode(n, IdleNode)
    /\ NoRow
    /\ Calm

\* MySQL ends the session that has the lock; its node goes on.
DropLock ==
    /\ leader # None
    /\ crashes < MaxCrashes
    /\ crashes' = crashes + 1
    /\ leader' = None
    /\ NoRow
    /\ UNCHANGED <<node, systemOn, seen, switches>>

LeaseAges(j) ==
    /\ lease[j] # NoLease
    /\ lease[j].age < StaleRecovery
    /\ lease' = [lease EXCEPT ![j].age = @ + 1]
    /\ node' = [n \in Nodes |-> [node[n] EXCEPT !.late = @ \/ Holds(n, j)]]
    /\ NoJob
    /\ Calm

BackoffOver(j) ==
    /\ job[j].wait
    /\ job' = [job EXCEPT ![j].wait = FALSE]
    /\ UNCHANGED <<lease, node, handed, credit>>
    /\ Calm

Switch ==
    /\ switches < MaxSwitches
    /\ switches' = switches + 1
    /\ systemOn' = ~systemOn
    /\ NoRow
    /\ UNCHANGED <<node, leader, seen, crashes>>

\* SandboxExecutionService writes the status of its job by id.
SandboxReports(j) ==
    /\ j \in handed
    /\ \E status \in {"running", "completed", "failed"} : Write(j, status)
    /\ UNCHANGED <<lease, node, handed, credit>>
    /\ Calm

Next ==
    \/ \E n \in Nodes : \/ TickStep(n) \/ Throw(n) \/ LoseAnswer(n)
                        \/ Crash(n) \/ Restart(n) \/ getState(n)
    \/ \E j \in Jobs : LeaseAges(j) \/ BackoffOver(j) \/ SandboxReports(j)
    \/ DropLock \/ Switch

Spec == Init /\ [][Next]_vars

\* The interval timer of a live process, the clock, and statements that end.
Fairness ==
    /\ \A n \in Nodes : WF_vars(TickStep(n)) /\ WF_vars(getState(n))
    /\ \A j \in Jobs : WF_vars(LeaseAges(j)) /\ WF_vars(BackoffOver(j))

FairSpec == Spec /\ Fairness

-----------------------------------------------------------------------------
(***************************************************************************)
(* Properties                                                              *)
(***************************************************************************)

\* Two replicas never run one job while both their leases are in force:
\* stealing, the heartbeat, the sweep and the recovery of another replica
\* take a job away only from a runner whose lease has run out
\* (tryAcquireJobLease, heartbeatWorker, recoverStaleJobLeases).
OneLiveRunner ==
    \A j \in Jobs, n, m \in Nodes :
        /\ Runs(n, j) /\ ~node[n].late
        /\ Runs(m, j) /\ ~node[m].late
        => n = m

\* A job is run once for each time it was put in the queue, by its creator,
\* a retry or the recovery: losing a lease, a crash, the kill switch or a
\* late writer never makes the queue run it once more (processAiJobsQueue).
RunsAreAskedFor == \A j \in Counted : credit[j] >= 0

\* What OneLiveRunner rests on: until the lease of a replica runs out, the
\* row is its own and no thief has read it (heartbeatWorker, releaseJobLease
\* and tryAcquireJobLease of the others keep off it).
LeaseInForce ==
    \A j \in Jobs, n \in Nodes :
        Holds(n, j) /\ ~node[n].late =>
            lease[j] = [owner |-> n, age |-> 0, readers |-> {}]

\* What RunsAreAskedFor rests on: the credit of a job covers its place in
\* the queue and every replica that has claimed it and not run it yet.
Claimants(j) == {n \in Nodes : node[n].j = j /\ node[n].pc \in {"run", "requeue"}}

CreditCovers ==
    \A j \in Counted :
        credit[j] >= Cardinality(Claimants(j))
                       + (IF job[j].status = "queued" THEN 1 ELSE 0)

\* A job in the queue is picked up, or leaves it, while the system is on:
\* neither a dead replica's lease nor a job ahead of it in the queue holds
\* it up for ever (processAiJobsQueue takes the first job at every slot).
\* What does is a lease that a live replica renews and has forgotten: the
\* release of the catch block threw, or the answer to its own write was lost.
Forgotten ==
    \E j \in Jobs, n \in Nodes :
        lease[j].owner = n /\ ~At(n, "down") /\ ~Holds(n, j)

QueuedJobsAreServed ==
    \A j \in Jobs :
        job[j].status = "queued" ~>
            (job[j].status # "queued" \/ ~systemOn \/ Forgotten)

\* A job whose replica died while it was running it is put back in the
\* queue, or at least ends (recoverStaleJobLeases: "re-queue jobs whose
\* leases expired without release").
DeadRunner(j) == \E n \in Nodes : lease[j].owner = n /\ At(n, "down")

CrashedJobsAreRequeued ==
    \A j \in {k \in Jobs : JobType[k] # "file_understand"} :
        (job[j].status = "running" /\ DeadRunner(j))
            ~> job[j].status # "running"
=============================================================================
