--------------------------- MODULE JobQueueProofs ---------------------------
(***************************************************************************)
(* Safety of JobQueue for any number of jobs, replicas, slots, crashes and *)
(* turns of the kill switch: typing, one live runner per job, one run for  *)
(* each time a job was put in the queue, and a runner for each job that is *)
(* shown as running.                                                       *)
(***************************************************************************)
EXTENDS JobQueue, FiniteSetTheorems, TLAPS

\* The locals each statement of a tick relies on.
LocalsOK ==
    \A n \in Nodes :
        node[n].pc \in {"insert", "findlease", "steal"} \cup HoldingPcs =>
            node[n].j \in Jobs /\ node[n].left > 0

Typed == TypeOK /\ LocalsOK

\* What a record of a replica must satisfy on its own.
GoodNode(r) ==
    /\ r \in NodeRec
    /\ r.pc \in {"insert", "findlease", "steal"} \cup HoldingPcs =>
           r.j \in Jobs /\ r.left > 0

NodesOK == node \in [Nodes -> NodeRec] /\ \A n \in Nodes : GoodNode(node[n])

-----------------------------------------------------------------------------
\* Typing, table by table.
LEMMA Split == Typed <=> /\ TypeOK
                         /\ NodesOK
BY DEF Typed, TypeOK, LocalsOK, NodesOK, GoodNode

\* The record of one replica is replaced by a good one.
LEMMA NodeSet ==
    ASSUME Typed, NEW n \in Nodes, NEW r, GoodNode(r), SetNode(n, r)
    PROVE  /\ NodesOK'
           /\ node'[n] = r
           /\ \A m \in Nodes \ {n} : node'[m] = node[m]
BY Split DEF NodesOK, GoodNode, SetNode

\* The records a tick starts, continues and ends with.
LEMMA IdleIsGood ==
    /\ GoodNode(IdleNode)
    /\ GoodNode([IdleNode EXCEPT !.pc = "down"])
    /\ GoodNode([IdleNode EXCEPT !.pc = "lead"])
    /\ GoodNode([IdleNode EXCEPT !.pc = "queue", !.left = Slots])
<1>. DEFINE none == [s \in Shards |-> 0]
<1>1. none \in [Shards -> Nat]
  OBVIOUS
<1>2. IdleNode = [pc |-> "idle", left |-> 0, used |-> none, j |-> None,
                  tries |-> 0, out |-> "failed", threw |-> FALSE, todo |-> {},
                  late |-> FALSE]
  BY DEF IdleNode
<1>3. /\ {} \in SUBSET Jobs /\ None \in Jobs \cup {None}
      /\ 0 \in 0 .. Slots /\ Slots \in 0 .. Slots /\ 0 \in 0 .. MaxAttempts
  BY QueueAssumption DEF QueueAssumption
<1>. HIDE DEF none
<1>4. IdleNode \in NodeRec
  BY <1>1, <1>2, <1>3 DEF NodeRec, Pcs
<1>. QED  BY <1>1, <1>2, <1>3, <1>4 DEF GoodNode, NodeRec, Pcs, HoldingPcs

\* A statement that only moves the program counter.
LEMMA Moved ==
    ASSUME Typed, NEW n \in Nodes, NEW pc \in Pcs, Goto(n, pc),
           pc \in {"insert", "findlease", "steal"} \cup HoldingPcs =>
               node[n].pc \in {"insert", "findlease", "steal"} \cup HoldingPcs
    PROVE  NodesOK'
<1>1. GoodNode([node[n] EXCEPT !.pc = pc])
  BY Split DEF NodesOK, GoodNode, NodeRec
<1>. QED  BY <1>1, NodeSet DEF Goto

\* The loop goes to its next slot, or the tick ends.
LEMMA LoopMoved ==
    ASSUME Typed, NEW n \in Nodes,
           node[n].pc \in {"insert", "findlease", "steal"} \cup HoldingPcs,
           NextSlot(n)
    PROVE  NodesOK'
<1>1. node[n].left \in 0 .. Slots /\ node[n].left > 0
      /\ node[n].used \in [Shards -> Nat]
  BY Split DEF NodesOK, GoodNode, NodeRec
<1>2. node[n].left - 1 \in 0 .. Slots
  BY <1>1, QueueAssumption DEF QueueAssumption
<1>. DEFINE left == node[n].left - 1
            used == node[n].used
<1>3. left \in 0 .. Slots /\ used \in [Shards -> Nat]
  BY <1>1, <1>2
<1>4. SetNode(n, [IdleNode EXCEPT !.pc = "queue", !.left = left,
                                  !.used = used])
  BY DEF NextSlot
<1>. HIDE DEF left, used
<1>5. GoodNode([IdleNode EXCEPT !.pc = "queue", !.left = left,
                                !.used = used])
  <2>. DEFINE r == [IdleNode EXCEPT !.pc = "queue", !.left = left,
                                    !.used = used]
  <2>1. IdleNode \in NodeRec
    BY IdleIsGood DEF GoodNode
  <2>2. "queue" \in Pcs
    BY DEF Pcs
  <2>3. r \in NodeRec /\ r.pc = "queue"
    BY <1>3, <2>1, <2>2 DEF NodeRec
  <2>. QED  BY <2>3 DEF GoodNode, HoldingPcs
<1>. QED  BY <1>4, <1>5, NodeSet

\* A lease was acquired.
LEMMA LeaseMoved ==
    ASSUME Typed, NEW n \in Nodes,
           node[n].pc \in {"insert", "steal"}, Acquired(n)
    PROVE  NodesOK'
<1>. DEFINE charged == [node[n].used EXCEPT ![Shard[node[n].j]] = @ + 1]
<1>1. GoodNode(node[n]) /\ node[n].j \in Jobs
  BY Split DEF NodesOK, GoodNode
<1>2. charged \in [Shards -> Nat]
  BY <1>1, QueueAssumption DEF GoodNode, NodeRec, QueueAssumption
<1>3. SetNode(n, [[node[n] EXCEPT !.pc = "claim", !.late = FALSE]
                    EXCEPT !.used = charged])
  BY <1>1 DEF Acquired, SetNode, GoodNode, NodeRec
<1>. HIDE DEF charged
<1>4. GoodNode([[node[n] EXCEPT !.pc = "claim", !.late = FALSE]
                   EXCEPT !.used = charged])
  BY <1>1, <1>2 DEF GoodNode, NodeRec, Pcs, HoldingPcs
<1>. QED  BY <1>3, <1>4, NodeSet

\* The leases of some jobs are deleted.
LEMMA LeasesDeleted ==
    ASSUME Typed, NEW S, Delete(S)
    PROVE  lease' \in [Jobs -> LeaseRow \cup {NoLease}]
BY DEF Typed, TypeOK, Delete

\* A status is written to one job.
LEMMA StatusWritten ==
    ASSUME Typed, NEW j \in Jobs,
           NEW s \in {"queued", "running", "completed", "failed"}, Write(j, s)
    PROVE  job' \in [Jobs -> JobRow]
BY DEF Typed, TypeOK, Write, JobRow

\* Credit is an integer before and after it is taken or given.
LEMMA CreditTyped ==
    ASSUME Typed, NEW j \in Jobs, Take(j) \/ Give(j)
    PROVE  credit' \in [Jobs -> Int]
BY FS_CardinalityType, QueueAssumption
DEF Typed, TypeOK, Take, Give, MaxCredit, QueueAssumption

-----------------------------------------------------------------------------
\* Part 1: typing holds at the start,
LEMMA InitTyped == Init => Typed
<1>. SUFFICES ASSUME Init PROVE Typed
  OBVIOUS
<1>1. NodesOK
  <2>1. IdleNode \in NodeRec
    BY IdleIsGood DEF GoodNode
  <2>. QED  BY <2>1, IdleIsGood DEF Init, NodesOK
<1>2. TypeOK
  BY <1>1, QueueAssumption, FS_CardinalityType
  DEF Init, TypeOK, NodesOK, JobRow, QueueAssumption
<1>. QED  BY <1>1, <1>2, Split

\* The rows and the history.
Tables ==
    /\ job \in [Jobs -> JobRow]
    /\ lease \in [Jobs -> LeaseRow \cup {NoLease}]
    /\ handed \subseteq Jobs
    /\ credit \in [Jobs -> Int]

\* The lock, the kill switch and the bounds.
Globals ==
    /\ leader \in Nodes \cup {None}
    /\ systemOn \in BOOLEAN
    /\ seen \in [Nodes -> BOOLEAN]
    /\ crashes \in 0 .. MaxCrashes
    /\ switches \in 0 .. MaxSwitches

\* Typed in the pieces that a statement changes together.
LEMMA Pieces == Typed <=> Tables /\ Globals /\ NodesOK
BY Split DEF TypeOK, Tables, Globals, NodesOK

\* and after every statement of a tick,
LEMMA TickTyped ==
    ASSUME Typed, NEW n \in Nodes, TickStep(n)
    PROVE  Tables' /\ Globals' /\ NodesOK'
<1>1. Tables /\ Globals /\ NodesOK
  BY Pieces
<1>2. GoodNode(node[n]) /\ node[n] \in NodeRec
  BY <1>1 DEF NodesOK, GoodNode
<1>3. GoodNode(IdleNode)
  BY IdleIsGood
<1>4. CASE StartTick(n)
  BY <1>4, <1>1, <1>2, Moved
  DEF StartTick, Tables, Globals, Calm, At, Pcs, HoldingPcs, NoRow
<1>5. CASE EnterQueue(n)
  BY <1>5, <1>1, <1>2, NodeSet, IdleIsGood
  DEF EnterQueue, Tables, Globals, Calm, At, Pcs, HoldingPcs, NoRow
<1>6. CASE SelectQueued(n)
  <2>1. CASE SetNode(n, [IdleNode EXCEPT !.pc = "lead"])
    BY <1>6, <1>1, <2>1, NodeSet, IdleIsGood
    DEF SelectQueued, NoRow, Calm, Tables, Globals
  <2>2. ASSUME NEW j \in Queued(n), node[n].left > 0,
               SetNode(n, [node[n] EXCEPT !.pc = "insert", !.j = j,
                                          !.tries = job[j].attempts])
        PROVE  Tables' /\ Globals' /\ NodesOK'
    <3>1. j \in Jobs /\ job[j].attempts \in 0 .. MaxAttempts
      BY <1>1, <2>2 DEF Queued, Tables, JobRow
    <3>2. GoodNode([node[n] EXCEPT !.pc = "insert", !.j = j,
                                   !.tries = job[j].attempts])
      BY <1>2, <2>2, <3>1 DEF GoodNode, NodeRec, Pcs
    <3>. QED  BY <1>6, <1>1, <2>2, <3>2, NodeSet
              DEF SelectQueued, NoRow, Calm, Tables, Globals
  <2>. QED  BY <1>6, <2>1, <2>2 DEF SelectQueued
<1>7. CASE InsertLease(n)
  <2>1. node[n].j \in Jobs
    BY <1>7, <1>2 DEF InsertLease, At, GoodNode, HoldingPcs
  <2>2. lease' \in [Jobs -> LeaseRow \cup {NoLease}]
    BY <1>7, <1>1, <2>1 DEF InsertLease, Tables, LeaseRow
  <2>. QED  BY <1>7, <1>1, <2>2, Moved, LeaseMoved
            DEF InsertLease, NoJob, Tables, Globals, Calm, At, Pcs, HoldingPcs
<1>8. CASE FindLease(n)
  <2>1. node[n].j \in Jobs
    BY <1>8, <1>2 DEF FindLease, At, GoodNode, HoldingPcs
  <2>2. CASE lease[node[n].j] # NoLease
    <3>1. lease[node[n].j] \in LeaseRow
      BY <1>1, <2>1, <2>2 DEF Tables
    <3>2. [lease[node[n].j] EXCEPT !.readers = @ \cup {n}] \in LeaseRow
      BY <3>1 DEF LeaseRow
    <3>. QED  BY <1>8, <1>1, <3>2, Moved, LoopMoved
              DEF FindLease, NoJob, Tables, Globals, Calm, At, Pcs, HoldingPcs
  <2>3. CASE lease[node[n].j] = NoLease
    BY <1>8, <1>1, <2>3, LoopMoved
    DEF FindLease, NoJob, Tables, Globals, Calm, At, Pcs, HoldingPcs
  <2>. QED  BY <2>2, <2>3
<1>9. CASE StealLease(n)
  <2>1. node[n].j \in Jobs
    BY <1>9, <1>2 DEF StealLease, At, GoodNode, HoldingPcs
  <2>2. lease' \in [Jobs -> LeaseRow \cup {NoLease}]
    BY <1>9, <1>1, <2>1 DEF StealLease, Tables, LeaseRow
  <2>. QED  BY <1>9, <1>1, <2>2, LeaseMoved, LoopMoved
            DEF StealLease, NoJob, Tables, Globals, Calm, At, Pcs, HoldingPcs
<1>10. CASE ClaimJob(n)
  <2>1. node[n].j \in Jobs
    BY <1>10, <1>2 DEF ClaimJob, At, GoodNode, HoldingPcs
  <2>2. job' \in [Jobs -> JobRow]
    BY <1>10, <2>1, <1>1, StatusWritten DEF ClaimJob, Tables
  <2>. QED  BY <1>10, <1>1, <2>2, Moved
            DEF ClaimJob, AfterClaim, Tables, Globals, Calm, At, Pcs, HoldingPcs
<1>11. CASE ProcessExtraction(n)
  <2>1. node[n].j \in Jobs
    BY <1>11, <1>2 DEF ProcessExtraction, At, GoodNode, HoldingPcs
  <2>2. \A out \in {"completed", "failed", "retry"} :
          Finish(n, out) => NodesOK'
    BY <1>2, <2>1, <1>11, NodeSet
    DEF Finish, GoodNode, NodeRec, Pcs, HoldingPcs, ProcessExtraction, At
  <2>3. credit' \in [Jobs -> Int]
    BY <1>11, <1>1, <2>1, CreditTyped DEF ProcessExtraction, Tables
  <2>. QED  BY <1>11, <1>1, <2>2, <2>3 DEF ProcessExtraction, Tables, Globals, Calm
<1>12. CASE SaveSuggestion(n)
  <2>1. node[n].j \in Jobs
    BY <1>12, <1>2 DEF SaveSuggestion, At, GoodNode, HoldingPcs
  <2>2. \A out \in {"completed", "failed", "retry"} :
          Finish(n, out) => NodesOK'
    BY <1>2, <2>1, <1>12, NodeSet
    DEF Finish, GoodNode, NodeRec, Pcs, HoldingPcs, SaveSuggestion, At
  <2>3. credit' \in [Jobs -> Int]
    BY <1>12, <1>1, <2>1, CreditTyped DEF SaveSuggestion, Tables
  <2>. QED  BY <1>12, <1>1, <2>2, <2>3 DEF SaveSuggestion, Tables, Globals, Calm
<1>13. CASE CreateSandboxRun(n)
  <2>1. node[n].j \in Jobs
    BY <1>13, <1>2 DEF CreateSandboxRun, At, GoodNode, HoldingPcs
  <2>2. \A out \in {"completed", "failed", "retry"} :
          Finish(n, out) => NodesOK'
    BY <1>2, <2>1, <1>13, NodeSet
    DEF Finish, GoodNode, NodeRec, Pcs, HoldingPcs, CreateSandboxRun, At
  <2>3. credit' \in [Jobs -> Int]
    BY <1>13, <1>1, <2>1, CreditTyped DEF CreateSandboxRun, Tables
  <2>. QED  BY <1>13, <1>1, <2>1, <2>2, <2>3, Moved DEF CreateSandboxRun, Tables, Globals, Calm, At, Pcs, HoldingPcs
<1>14. CASE RequeueJob(n)
  <2>1. node[n].j \in Jobs
    BY <1>14, <1>2 DEF RequeueJob, At, GoodNode, HoldingPcs
  <2>2. job' \in [Jobs -> JobRow]
    BY <1>14, <2>1, <1>1, StatusWritten DEF RequeueJob, Tables
  <2>. QED  BY <1>14, <1>1, <2>2, Moved DEF RequeueJob, Tables, Globals, Calm, At, Pcs, HoldingPcs
<1>15. CASE FinishJob(n)
  <2>1. node[n].j \in Jobs
    BY <1>15, <1>2 DEF FinishJob, At, GoodNode, HoldingPcs
  <2>2. job' \in [Jobs -> JobRow]
    <3>1. node[n].tries \in 0 .. MaxAttempts
      BY <1>2 DEF NodeRec
    <3>2. CASE node[n].tries + 1 < MaxAttempts
      <4>1. node[n].tries + 1 \in 0 .. MaxAttempts
        BY <3>1, <3>2, QueueAssumption DEF QueueAssumption
      <4>2. [status |-> "queued", attempts |-> node[n].tries + 1,
             wait |-> TRUE] \in JobRow
        BY <4>1 DEF JobRow
      <4>. QED  BY <1>15, <1>1, <2>1, <3>2, <4>2, StatusWritten
                DEF FinishJob, Tables
    <3>3. CASE ~(node[n].tries + 1 < MaxAttempts)
      BY <1>15, <2>1, <3>3, StatusWritten DEF FinishJob
    <3>. QED  BY <3>2, <3>3
  <2>3. credit' \in [Jobs -> Int]
    BY <1>15, <1>1, <2>1, CreditTyped DEF FinishJob, Tables
  <2>. QED  BY <1>15, <1>1, <2>2, <2>3, Moved DEF FinishJob, Tables, Globals, Calm, At, Pcs, HoldingPcs
<1>16. CASE ReleaseLease(n)
  <2>1. node[n].j \in Jobs
    BY <1>16, <1>2 DEF ReleaseLease, At, GoodNode, HoldingPcs
  <2>2. lease' \in [Jobs -> LeaseRow \cup {NoLease}]
    BY <1>16, <1>1, <2>1 DEF ReleaseLease, Tables
  <2>. QED  BY <1>16, <1>1, <1>3, <2>2, LoopMoved, NodeSet
            DEF ReleaseLease, NoJob, Tables, Globals, Calm, At, Pcs, HoldingPcs
<1>17. CASE Lead(n)
  BY <1>17, <1>1, <1>2, Moved
  DEF Lead, Tables, Globals, Calm, At, Pcs, HoldingPcs, NoRow
<1>18. CASE RetainLeases(n)
  BY <1>18, <1>1, <1>2, Moved, LeasesDeleted
  DEF RetainLeases, Tables, Globals, Calm, At, Pcs, HoldingPcs, NoJob
<1>19. CASE SelectStale(n)
  <2>1. GoodNode([node[n] EXCEPT !.pc = "recover",
                                 !.todo = Aged(StaleRecovery)])
    BY <1>2 DEF GoodNode, NodeRec, Pcs, HoldingPcs, Aged
  <2>. QED  BY <1>19, <1>1, <2>1, NodeSet
            DEF SelectStale, NoRow, Calm, Tables, Globals
<1>20. CASE RecoverJob(n)
  <2>1. \A j \in node[n].todo :
           GoodNode([node[n] EXCEPT !.todo = @ \ {j}]) /\ j \in Jobs
    BY <1>2 DEF GoodNode, NodeRec
  <2>2. NodesOK'
    BY <1>20, <2>1, NodeSet DEF RecoverJob
  <2>3. job' \in [Jobs -> JobRow]
    BY <1>20, <1>1, <2>1, StatusWritten DEF RecoverJob, Tables
  <2>4. credit' \in [Jobs -> Int]
    BY <1>20, <1>1, <2>1, CreditTyped DEF RecoverJob, Tables
  <2>. QED  BY <1>20, <1>1, <2>2, <2>3, <2>4 DEF RecoverJob, Calm, Tables, Globals
<1>21. CASE Abdicate(n)
  BY <1>21, <1>1, <1>2, Moved
  DEF Abdicate, Tables, Globals, Calm, At, Pcs, HoldingPcs, NoRow, Unlock
<1>22. CASE RenewLeases(n)
  <2>1. lease' \in [Jobs -> LeaseRow \cup {NoLease}]
    BY <1>22, <1>1 DEF RenewLeases, Tables, LeaseRow, NoLease
  <2>. QED  BY <1>22, <1>1, <2>1, Moved DEF RenewLeases, NoJob, Tables, Globals, Calm, At, Pcs, HoldingPcs
<1>23. CASE SweepLeases(n)
  BY <1>23, <1>1, <1>2, <1>3, NodeSet, LeasesDeleted
  DEF SweepLeases, NoJob, Tables, Globals, Calm, At, Pcs, HoldingPcs
<1>. QED  BY <1>4, <1>5, <1>6, <1>7, <1>8, <1>9, <1>10, <1>11, <1>12, <1>13, <1>14, <1>15, <1>16, <1>17, <1>18, <1>19, <1>20, <1>21, <1>22, <1>23 DEF TickStep

\* and after everything that can happen to a replica.
LEMMA StepTyped == Typed /\ [Next]_vars => Typed'
<1>. SUFFICES ASSUME Typed, [Next]_vars
              PROVE  Tables' /\ Globals' /\ NodesOK'
  BY DEF Typed, TypeOK, LocalsOK, Tables, Globals, NodesOK, GoodNode
<1>1. Tables /\ Globals /\ NodesOK
  BY Pieces
<1>2. ASSUME NEW n \in Nodes, TickStep(n) PROVE Tables' /\ Globals' /\ NodesOK'
  BY <1>2, TickTyped
<1>3. ASSUME NEW n \in Nodes, Throw(n) PROVE Tables' /\ Globals' /\ NodesOK'
  <2>1. GoodNode(node[n])
    BY <1>1 DEF NodesOK
  <2>2. crashes' \in 0 .. MaxCrashes
    BY <1>1, <1>3, QueueAssumption DEF Throw, Globals, QueueAssumption
  <2>3. ASSUME node[n].pc \in HoldingPcs,
               SetNode(n, [node[n] EXCEPT !.pc = "release", !.threw = TRUE])
        PROVE  NodesOK'
    BY <2>1, <2>3, NodeSet DEF GoodNode, NodeRec, Pcs, HoldingPcs
  <2>4. NodesOK'
    BY <1>3, <2>3, Moved, NodeSet, IdleIsGood DEF Throw, Pcs, HoldingPcs
  <2>. QED  BY <1>1, <1>3, <2>2, <2>4 DEF Throw, Unlock, NoRow, Tables, Globals
<1>4. ASSUME NEW n \in Nodes, Crash(n) PROVE Tables' /\ Globals' /\ NodesOK'
  BY <1>1, <1>4, NodeSet, IdleIsGood, QueueAssumption
  DEF Crash, Unlock, NoRow, Tables, Globals, QueueAssumption
<1>5. ASSUME NEW n \in Nodes, Restart(n) PROVE Tables' /\ Globals' /\ NodesOK'
  BY <1>1, <1>5, NodeSet, IdleIsGood DEF Restart, NoRow, Calm, Tables, Globals
<1>6. ASSUME NEW n \in Nodes, getState(n) PROVE Tables' /\ Globals' /\ NodesOK'
  BY <1>1, <1>6 DEF getState, NoRow, Tables, Globals, NodesOK
<1>7. ASSUME NEW j \in Jobs, LeaseAges(j) PROVE Tables' /\ Globals' /\ NodesOK'
  <2>1. lease' \in [Jobs -> LeaseRow \cup {NoLease}]
    BY <1>1, <1>7 DEF LeaseAges, Tables, LeaseRow, StaleRecovery
  <2>2. \A n \in Nodes :
          GoodNode([node[n] EXCEPT !.late = @ \/ Holds(n, j)])
    <3>1. SUFFICES ASSUME NEW n \in Nodes, NEW x \in BOOLEAN
                   PROVE  GoodNode([node[n] EXCEPT !.late = x])
      BY <1>1 DEF NodesOK, NodeRec, Holds
    <3>. QED  BY <1>1 DEF NodesOK, GoodNode, NodeRec
  <2>3. NodesOK'
    BY <1>7, <2>2 DEF LeaseAges, NodesOK, GoodNode
  <2>. QED  BY <1>1, <1>7, <2>1, <2>3 DEF LeaseAges, NoJob, Calm, Tables, Globals
<1>8. ASSUME NEW j \in Jobs, BackoffOver(j) PROVE Tables' /\ Globals' /\ NodesOK'
  BY <1>1, <1>8 DEF BackoffOver, Calm, Tables, Globals, NodesOK, JobRow
<1>9. ASSUME NEW j \in Jobs, SandboxReports(j)
      PROVE  Tables' /\ Globals' /\ NodesOK'
  <2>1. job' \in [Jobs -> JobRow]
    BY <1>9, StatusWritten DEF SandboxReports
  <2>. QED  BY <1>1, <1>9, <2>1
            DEF SandboxReports, Calm, Tables, Globals, NodesOK
<1>10. ASSUME DropLock \/ Switch \/ UNCHANGED vars
       PROVE  Tables' /\ Globals' /\ NodesOK'
  <2>1. NodesOK'
    BY <1>1, <1>10 DEF DropLock, Switch, vars, NodesOK
  <2>2. Tables'
    BY <1>1, <1>10 DEF DropLock, Switch, vars, NoRow, Tables
  <2>3. Globals'
    <3>1. CASE DropLock
      BY <1>1, <3>1, QueueAssumption DEF DropLock, Globals, QueueAssumption
    <3>2. CASE Switch
      BY <1>1, <3>2, QueueAssumption DEF Switch, Globals, QueueAssumption
    <3>3. CASE UNCHANGED vars
      BY <1>1, <3>3 DEF vars, Globals
    <3>. QED  BY <1>10, <3>1, <3>2, <3>3
  <2>. QED  BY <2>1, <2>2, <2>3
<1>11. ASSUME NEW n \in Nodes, LoseAnswer(n)
       PROVE  Tables' /\ Globals' /\ NodesOK'
  <2>1. NodesOK'
    BY <1>1, <1>11, Moved, NodeSet, IdleIsGood
    DEF LoseAnswer, At, Pcs, HoldingPcs
  <2>2. Tables'
    <3>1. GoodNode(node[n]) /\ node[n].pc \in {"insert", "steal"}
      BY <1>1, <1>11 DEF LoseAnswer, At, NodesOK
    <3>2. node[n].j \in Jobs
      BY <3>1 DEF GoodNode
    <3>. QED  BY <1>1, <1>11, <3>2 DEF LoseAnswer, NoJob, Tables, LeaseRow
  <2>3. Globals'
    BY <1>1, <1>11, QueueAssumption DEF LoseAnswer, Globals, QueueAssumption
  <2>. QED  BY <2>1, <2>2, <2>3
<1>. QED
  BY <1>2, <1>3, <1>4, <1>5, <1>6, <1>7, <1>8, <1>9, <1>10, <1>11 DEF Next

\* Every variable keeps its range and every statement of a tick finds a job
\* to work on, whatever crashes, throws or runs out in between.
THEOREM QueueTyping == Spec => []TypeOK
<1>1. Typed => TypeOK
  BY DEF Typed
<1>. QED  BY <1>1, InitTyped, StepTyped, PTL DEF Spec

-----------------------------------------------------------------------------
(***************************************************************************)
(* Part 2: a replica keeps its lease while it is in force.                 *)
(***************************************************************************)
\* A tick moves the record of its own replica alone.
LEMMA OnlySelf ==
    ASSUME NEW n \in Nodes, NEW m \in Nodes \ {n},
           node \in [Nodes -> NodeRec],
           TickStep(n) \/ Throw(n) \/ LoseAnswer(n) \/ Crash(n) \/ Restart(n)
    PROVE  node'[m] = node[m]
BY DEF TickStep, StartTick, EnterQueue, SelectQueued, InsertLease, FindLease,
       StealLease, ClaimJob, ProcessExtraction, SaveSuggestion,
       CreateSandboxRun, RequeueJob, FinishJob, ReleaseLease, Lead,
       RetainLeases, SelectStale, RecoverJob, Abdicate, RenewLeases,
       SweepLeases, Throw, LoseAnswer, Crash, Restart, Finish, NextSlot, Acquired, Goto,
       SetNode

\* What the ways to leave a statement do to the record of the replica.
LEMMA Fields ==
    ASSUME NEW n \in Nodes, node \in [Nodes -> NodeRec]
    PROVE  /\ \A pc \in Pcs : Goto(n, pc) =>
                 /\ node'[n].pc = pc
                 /\ node'[n].j = node[n].j
                 /\ node'[n].late = node[n].late
           /\ \A out : Finish(n, out) =>
                 /\ node'[n].pc = "finish"
                 /\ node'[n].j = node[n].j
                 /\ node'[n].late = node[n].late
           /\ Acquired(n) => node'[n].pc = "claim" /\ node'[n].j = node[n].j
           /\ NextSlot(n) => node'[n].pc = "queue"
           /\ SetNode(n, IdleNode) => node'[n].pc = "idle"
           /\ \A pc \in Pcs : \A left :
                 SetNode(n, [IdleNode EXCEPT !.pc = pc, !.left = left])
                   => node'[n].pc = pc
           /\ \A pc \in Pcs : SetNode(n, [IdleNode EXCEPT !.pc = pc])
                => node'[n].pc = pc
<1>1. \A pc \in Pcs : Goto(n, pc) =>
          /\ node'[n].pc = pc
          /\ node'[n].j = node[n].j
          /\ node'[n].late = node[n].late
  BY DEF Goto, SetNode, NodeRec
<1>2. \A out : Finish(n, out) =>
          /\ node'[n].pc = "finish"
          /\ node'[n].j = node[n].j
          /\ node'[n].late = node[n].late
  BY DEF Finish, SetNode, NodeRec
<1>3. Acquired(n) => node'[n].pc = "claim" /\ node'[n].j = node[n].j
  BY DEF Acquired, SetNode, NodeRec
<1>4. NextSlot(n) => node'[n].pc = "queue"
  BY DEF NextSlot, SetNode, IdleNode
<1>5. SetNode(n, IdleNode) => node'[n].pc = "idle"
  BY DEF SetNode, IdleNode
<1>6. \A pc \in Pcs : \A left :
          SetNode(n, [IdleNode EXCEPT !.pc = pc, !.left = left])
            => node'[n].pc = pc
  BY DEF SetNode, IdleNode
<1>7. \A pc \in Pcs : SetNode(n, [IdleNode EXCEPT !.pc = pc])
          => node'[n].pc = pc
  BY DEF SetNode, IdleNode
<1>. QED  BY <1>1, <1>2, <1>3, <1>4, <1>5, <1>6, <1>7

\* The lease row of a replica that is not late.
InForce(n) == [owner |-> n, age |-> 0, readers |-> {}]

\* A tick leaves the lease in force of another replica as it is.
LEMMA OthersKeep ==
    ASSUME Typed, NEW n \in Nodes, NEW m \in Nodes \ {n}, NEW k \in Jobs,
           lease[k] = InForce(m), TickStep(n)
    PROVE  lease'[k] = lease[k]
<1>1. lease \in [Jobs -> LeaseRow \cup {NoLease}] /\ lease[k] # NoLease
  BY QueueAssumption DEF Typed, TypeOK, NoLease, InForce, QueueAssumption
<1>2. node[n].pc \in {"insert", "findlease", "steal"} \cup HoldingPcs
         => node[n].j \in Jobs
  BY DEF Typed, LocalsOK
<1>3. lease[k].owner = m /\ lease[k].age = 0 /\ lease[k].readers = {}
  BY DEF InForce
<1>4. CASE InsertLease(n)
  BY <1>1, <1>2, <1>4 DEF InsertLease, At
<1>5. CASE FindLease(n)
  BY <1>1, <1>2, <1>3, <1>5 DEF FindLease, At, StealGrace
<1>6. CASE StealLease(n)
  BY <1>1, <1>2, <1>3, <1>6 DEF StealLease, At
<1>7. CASE ReleaseLease(n)
  BY <1>1, <1>3, <1>7 DEF ReleaseLease
<1>8. CASE RetainLeases(n)
  BY <1>3, <1>8 DEF RetainLeases, Delete, Aged, StaleRecovery
<1>9. CASE RenewLeases(n)
  BY <1>3, <1>9 DEF RenewLeases
<1>10. CASE SweepLeases(n)
  BY <1>3, <1>10 DEF SweepLeases, Delete, Aged
<1>11. CASE UNCHANGED lease
  BY <1>11
<1>. QED
  BY <1>4, <1>5, <1>6, <1>7, <1>8, <1>9, <1>10, <1>11
  DEF TickStep, StartTick, EnterQueue, SelectQueued, ClaimJob,
      ProcessExtraction, SaveSuggestion, CreateSandboxRun, RequeueJob,
      FinishJob, Lead, SelectStale, RecoverJob, Abdicate, NoRow

\* A replica that is left with a job after a statement has just leased it,
\* or had it before and did not touch the lease.
LEMMA OwnLease ==
    ASSUME Typed, LeaseInForce, NEW n \in Nodes, NEW k \in Jobs,
           TickStep(n), Holds(n, k)', ~node'[n].late
    PROVE  lease'[k] = InForce(n)
<1>1. /\ node \in [Nodes -> NodeRec]
      /\ lease \in [Jobs -> LeaseRow \cup {NoLease}]
  BY DEF Typed, TypeOK
<1>2. CASE InsertLease(n)
  BY <1>1, <1>2, Fields
  DEF InsertLease, Holds, HoldingPcs, InForce, Pcs
<1>3. CASE StealLease(n)
  BY <1>1, <1>3, Fields
  DEF StealLease, Holds, HoldingPcs, InForce, Pcs
<1>4. CASE \/ ClaimJob(n) \/ ProcessExtraction(n) \/ SaveSuggestion(n)
           \/ CreateSandboxRun(n) \/ RequeueJob(n) \/ FinishJob(n)
  <2>1. Holds(n, k) /\ ~node[n].late /\ lease' = lease
    BY <1>1, <1>4, Fields
    DEF ClaimJob, AfterClaim, ProcessExtraction, SaveSuggestion,
        CreateSandboxRun, RequeueJob, FinishJob, At, Holds, HoldingPcs, Pcs
  <2>. QED  BY <2>1 DEF LeaseInForce, InForce
<1>5. CASE ~(\/ InsertLease(n) \/ StealLease(n) \/ ClaimJob(n)
             \/ ProcessExtraction(n) \/ SaveSuggestion(n)
             \/ CreateSandboxRun(n) \/ RequeueJob(n) \/ FinishJob(n))
  <2>1. node'[n].pc \notin HoldingPcs
    <3>1. CASE SelectQueued(n) \/ SelectStale(n) \/ RecoverJob(n)
      <4>1. node[n] \in NodeRec /\ \A r : SetNode(n, r) => node'[n] = r
        BY <1>1 DEF SetNode
      <4>2. CASE SelectQueued(n)
        BY <4>1, <4>2 DEF SelectQueued, NodeRec, IdleNode, HoldingPcs
      <4>3. CASE SelectStale(n)
        BY <4>1, <4>3 DEF SelectStale, NodeRec, HoldingPcs
      <4>4. CASE RecoverJob(n)
        BY <4>1, <4>4 DEF RecoverJob, At, NodeRec, HoldingPcs
      <4>. QED  BY <3>1, <4>2, <4>3, <4>4
    <3>2. CASE ~(SelectQueued(n) \/ SelectStale(n) \/ RecoverJob(n))
      BY <1>1, <1>5, <3>2, Fields
      DEF TickStep, StartTick, EnterQueue, FindLease, ReleaseLease, Lead,
          RetainLeases, Abdicate, RenewLeases, SweepLeases, HoldingPcs, Pcs
    <3>. QED  BY <3>1, <3>2
  <2>. QED  BY <2>1 DEF Holds
<1>. QED  BY <1>2, <1>3, <1>4, <1>5

\* No step touches a lease in force but its own replica's.
LEMMA StepInForce == Typed /\ LeaseInForce /\ [Next]_vars => LeaseInForce'
<1>. SUFFICES ASSUME Typed, LeaseInForce, [Next]_vars,
                     NEW k \in Jobs, NEW m \in Nodes,
                     Holds(m, k)', ~node'[m].late
              PROVE  lease'[k] = InForce(m)
  BY DEF LeaseInForce, InForce
<1>1. /\ node \in [Nodes -> NodeRec]
      /\ lease \in [Jobs -> LeaseRow \cup {NoLease}]
  BY DEF Typed, TypeOK
<1>2. Holds(m, k) /\ ~node[m].late => lease[k] = InForce(m)
  BY DEF LeaseInForce, InForce
<1>3. CASE UNCHANGED <<lease, node>>
  BY <1>2, <1>3 DEF Holds
<1>4. ASSUME NEW n \in Nodes, TickStep(n) PROVE lease'[k] = InForce(m)
  <2>1. CASE n = m
    BY <1>4, <2>1, OwnLease
  <2>2. CASE n # m
    <3>1. node'[m] = node[m]
      BY <1>1, <1>4, <2>2, OnlySelf
    <3>. QED  BY <1>2, <1>4, <2>2, <3>1, OthersKeep DEF Holds
  <2>. QED  BY <2>1, <2>2
<1>5. ASSUME NEW n \in Nodes, Throw(n) \/ Crash(n) \/ Restart(n)
      PROVE  lease'[k] = InForce(m)
  <2>1. lease' = lease
    BY <1>5 DEF Throw, Crash, Restart, NoRow
  <2>2. CASE n = m
    <3>1. CASE /\ node[n].pc \in HoldingPcs
               /\ SetNode(n, [node[n] EXCEPT !.pc = "release", !.threw = TRUE])
      BY <1>1, <2>1, <1>2, <2>2, <3>1 DEF SetNode, Holds, NodeRec
    <3>2. CASE ~SetNode(n, [node[n] EXCEPT !.pc = "release", !.threw = TRUE])
      BY <1>1, <1>5, <2>2, <3>2, Fields
      DEF Throw, Crash, Restart, Holds, HoldingPcs, Pcs
    <3>. QED  BY <1>5, <3>1, <3>2, <1>1, <2>2, Fields
              DEF Throw, Crash, Restart, Holds, HoldingPcs, Pcs
  <2>3. CASE n # m
    <3>1. node'[m] = node[m]
      BY <1>1, <1>5, <2>3, OnlySelf
    <3>. QED  BY <1>2, <2>1, <3>1 DEF Holds
  <2>. QED  BY <2>2, <2>3
<1>6. ASSUME NEW j \in Jobs, LeaseAges(j) PROVE lease'[k] = InForce(m)
  <2>1. Holds(m, k) /\ node'[m].late = (node[m].late \/ Holds(m, j))
    BY <1>1, <1>6 DEF LeaseAges, Holds, NodeRec
  <2>2. j # k
    BY <2>1
  <2>. QED  BY <1>1, <1>2, <1>6, <2>1, <2>2 DEF LeaseAges
<1>7. ASSUME NEW n \in Nodes, LoseAnswer(n) PROVE lease'[k] = InForce(m)
  <2>1. node'[n].pc \in {"idle", "findlease"}
    BY <1>1, <1>7, Fields DEF LoseAnswer, Pcs
  <2>2. n # m
    BY <2>1 DEF Holds, HoldingPcs
  <2>3. node'[m] = node[m]
    BY <1>1, <1>7, <2>2, OnlySelf
  <2>4. lease[k] = InForce(m)
    BY <1>2, <2>3 DEF Holds
  <2>5. lease[k] # NoLease /\ lease[k].readers = {}
    BY <2>4, QueueAssumption DEF InForce, NoLease, QueueAssumption
  <2>6. node[n].j # k
    BY <1>7, <2>5 DEF LoseAnswer
  <2>. QED  BY <1>1, <1>7, <2>4, <2>6 DEF LoseAnswer
<1>. QED
  BY <1>3, <1>4, <1>5, <1>6, <1>7
  DEF Next, vars, getState, BackoffOver, SandboxReports, DropLock, Switch,
      NoRow

\* Two replicas never run one job under leases that are both in force:
\* InForce(n) and InForce(m) are the one row of the job.
THEOREM LiveRunner == Spec => []OneLiveRunner
<1>1. Init => LeaseInForce
  BY DEF Init, LeaseInForce, Holds, HoldingPcs, IdleNode
<1>2. LeaseInForce => OneLiveRunner
  <2>. SUFFICES ASSUME LeaseInForce, NEW j \in Jobs,
                       NEW n \in Nodes, NEW m \in Nodes,
                       Runs(n, j), ~node[n].late, Runs(m, j), ~node[m].late
                PROVE  n = m
    BY DEF OneLiveRunner
  <2>1. Holds(n, j) /\ Holds(m, j)
    BY DEF Runs, Holds, RunningPcs, HoldingPcs
  <2>2. lease[j] = InForce(n) /\ lease[j] = InForce(m)
    BY <2>1 DEF LeaseInForce, InForce
  <2>. QED  BY <2>2 DEF InForce
<1>. QED
  BY <1>1, <1>2, InitTyped, StepTyped, StepInForce, PTL DEF Spec

-----------------------------------------------------------------------------
(***************************************************************************)
(* Part 3: credit covers the queue and the claims.                         *)
(***************************************************************************)
\* The two parts of CreditCovers.
InQueue(j) == IF job[j].status = "queued" THEN 1 ELSE 0

InClaim(n, j) == node[n].j = j /\ node[n].pc \in {"run", "requeue"}

\* How the number of claimants moves with one replica.
LEMMA Cards ==
    ASSUME NEW n \in Nodes, NEW k,
           \A m \in Nodes \ {n} : node'[m] = node[m]
    PROVE  /\ Cardinality(Claimants(k)) \in Nat
           /\ Cardinality(Claimants(k)') \in Nat
           /\ Cardinality(Nodes) \in Nat
           /\ Cardinality(Claimants(k)') <= Cardinality(Nodes)
           /\ Cardinality(Claimants(k)') <= Cardinality(Claimants(k)) + 1
           /\ ~InClaim(n, k)' =>
                  Cardinality(Claimants(k)') <= Cardinality(Claimants(k))
           /\ InClaim(n, k) =>
                  Cardinality(Claimants(k)') <= Cardinality(Claimants(k))
           /\ InClaim(n, k) /\ ~InClaim(n, k)' =>
                  Cardinality(Claimants(k)') + 1 <= Cardinality(Claimants(k))
<1>. DEFINE S == Claimants(k)
            T == {m \in Nodes : InClaim(m, k)'}
<1>1. S \subseteq Nodes /\ T \subseteq Nodes /\ T = Claimants(k)'
  BY DEF Claimants, InClaim
<1>2. n \in S <=> InClaim(n, k)
  BY DEF Claimants, InClaim
<1>3. n \in T <=> InClaim(n, k)'
  OBVIOUS
<1>4. T \subseteq S \cup {n}
  BY DEF Claimants, InClaim
<1>. HIDE DEF S, T
<1>5. IsFiniteSet(Nodes) /\ IsFiniteSet(S) /\ IsFiniteSet(T)
  BY <1>1, QueueAssumption, FS_Subset DEF QueueAssumption
<1>6. /\ Cardinality(Nodes) \in Nat /\ Cardinality(S) \in Nat
      /\ Cardinality(T) \in Nat /\ Cardinality(T) <= Cardinality(Nodes)
  BY <1>1, <1>5, FS_CardinalityType, FS_Subset
<1>7. IsFiniteSet(S \cup {n}) /\ Cardinality(S \cup {n}) <= Cardinality(S) + 1
      /\ Cardinality(S \cup {n}) \in Nat
  <2>1. /\ IsFiniteSet(S \cup {n})
        /\ Cardinality(S \cup {n}) =
             IF n \in S THEN Cardinality(S) ELSE Cardinality(S) + 1
    BY <1>5, FS_AddElement
  <2>. QED  BY <1>6, <2>1
<1>8. Cardinality(T) <= Cardinality(S) + 1
  <2>1. Cardinality(T) <= Cardinality(S \cup {n})
    BY <1>4, <1>7, FS_Subset
  <2>. QED  BY <1>6, <1>7, <2>1
<1>9. T \subseteq S => Cardinality(T) <= Cardinality(S)
  BY <1>5, FS_Subset
<1>10. n \in S /\ n \notin T => Cardinality(T) + 1 <= Cardinality(S)
  <2>. SUFFICES ASSUME n \in S, n \notin T
                PROVE  Cardinality(T) + 1 <= Cardinality(S)
    OBVIOUS
  <2>1. IsFiniteSet(S \ {n}) /\ Cardinality(S \ {n}) = Cardinality(S) - 1
    BY <1>5, FS_RemoveElement
  <2>2. Cardinality(T) <= Cardinality(S \ {n})
    BY <1>4, <2>1, FS_Subset
  <2>. QED  BY <1>6, <2>1, <2>2
<1>. QED
  BY <1>1, <1>2, <1>3, <1>4, <1>6, <1>8, <1>9, <1>10 DEF S

\* A statement of a tick keeps the credit of a job at or above its use.
LEMMA TickCovers ==
    ASSUME Typed, CreditCovers, NEW n \in Nodes, NEW k \in Counted,
           TickStep(n)
    PROVE  credit'[k] >= Cardinality(Claimants(k)') + InQueue(k)'
<1>. DEFINE c == Cardinality(Claimants(k))
            d == Cardinality(Claimants(k)')
            max == Cardinality(Nodes)
<1>1. /\ node \in [Nodes -> NodeRec] /\ node[n] \in NodeRec
      /\ job \in [Jobs -> JobRow] /\ credit \in [Jobs -> Int]
      /\ credit[k] \in Int /\ k \in Jobs
  BY QueueAssumption DEF Typed, TypeOK, QueueAssumption
<1>2. node[n].pc \in HoldingPcs => node[n].j \in Jobs
  BY DEF Typed, LocalsOK
<1>3. \A m \in Nodes \ {n} : node'[m] = node[m]
  BY <1>1, OnlySelf
<1>4. credit[k] >= c + InQueue(k)
  BY DEF CreditCovers, InQueue
<1>5. /\ c \in Nat /\ d \in Nat /\ max \in Nat /\ d <= max /\ d <= c + 1
      /\ ~InClaim(n, k)' => d <= c
      /\ InClaim(n, k) => d <= c
      /\ InClaim(n, k) /\ ~InClaim(n, k)' => d + 1 <= c
  BY <1>3, Cards
<1>6. InQueue(k) \in {0, 1} /\ InQueue(k)' \in {0, 1}
  BY DEF InQueue
<1>. HIDE DEF c, d, max
<1>. SUFFICES credit'[k] >= d + InQueue(k)'
  BY DEF d
<1>7. ASSUME NEW j \in Jobs, Give(j), ~InClaim(n, k)',
             j # k => job'[k] = job[k]
      PROVE  credit'[k] >= d + InQueue(k)'
  <2>1. CASE j = k
    BY <1>1, <1>4, <1>5, <1>6, <1>7, <2>1 DEF Give, MaxCredit, max
  <2>2. CASE j # k
    <3>1. credit'[k] = credit[k] /\ InQueue(k)' = InQueue(k)
      BY <1>1, <1>7, <2>2 DEF Give, InQueue
    <3>. QED  BY <1>1, <1>4, <1>5, <1>6, <1>7, <3>1
  <2>. QED  BY <2>1, <2>2
<1>8. ASSUME NEW j \in Jobs, Take(j), ~InClaim(n, k)', job' = job,
             InClaim(n, j)
      PROVE  credit'[k] >= d + InQueue(k)'
  <2>1. InQueue(k)' = InQueue(k)
    BY <1>8 DEF InQueue
  <2>2. CASE j = k
    BY <1>1, <1>4, <1>5, <1>6, <1>8, <2>1, <2>2 DEF Take
  <2>3. CASE j # k
    <3>1. credit'[k] = credit[k]
      BY <1>1, <1>8, <2>3 DEF Take
    <3>. QED  BY <1>1, <1>4, <1>5, <1>6, <1>8, <2>1, <3>1
  <2>. QED  BY <2>2, <2>3
<1>9. ASSUME credit' = credit, ~InClaim(n, k)' \/ InClaim(n, k),
             InQueue(k)' <= InQueue(k)
      PROVE  credit'[k] >= d + InQueue(k)'
  BY <1>1, <1>4, <1>5, <1>6, <1>9
<1>10. CASE ClaimJob(n)
  <2>1. node[n].j \in Jobs
    BY <1>2, <1>10 DEF ClaimJob, At, HoldingPcs
  <2>2. CASE node[n].j # k
    <3>1. ~InClaim(n, k)' /\ job'[k] = job[k]
      BY <1>1, <1>10, <2>1, <2>2, Fields
      DEF ClaimJob, AfterClaim, InClaim, Write, Pcs
    <3>2. InQueue(k)' = InQueue(k)
      BY <3>1 DEF InQueue
    <3>. QED  BY <1>6, <1>9, <1>10, <3>1, <3>2 DEF ClaimJob
  <2>3. CASE node[n].j = k /\ job[k].status = "queued"
    <3>1. job'[k].status = "running"
      BY <1>1, <1>10, <2>3 DEF ClaimJob, Write, JobRow
    <3>2. InQueue(k) = 1 /\ InQueue(k)' = 0
      BY <2>3, <3>1 DEF InQueue
    <3>. QED  BY <1>1, <1>4, <1>5, <1>10, <3>2 DEF ClaimJob
  <2>4. CASE node[n].j = k /\ job[k].status # "queued"
    <3>1. ~InClaim(n, k)' /\ job' = job
      BY <1>1, <1>10, <2>4, Fields DEF ClaimJob, InClaim, Pcs
    <3>2. InQueue(k)' = InQueue(k)
      BY <3>1 DEF InQueue
    <3>. QED  BY <1>6, <1>9, <1>10, <3>1, <3>2 DEF ClaimJob
  <2>. QED  BY <2>2, <2>3, <2>4
<1>11. CASE ProcessExtraction(n) \/ SaveSuggestion(n)
  <2>1. InClaim(n, node[n].j) /\ node[n].j \in Jobs /\ Take(node[n].j)
    BY <1>2, <1>11
    DEF ProcessExtraction, SaveSuggestion, InClaim, At, HoldingPcs
  <2>2. ~InClaim(n, k)' /\ job' = job
    BY <1>1, <1>11, Fields DEF ProcessExtraction, SaveSuggestion, InClaim
  <2>. QED  BY <1>8, <2>1, <2>2
<1>12. CASE CreateSandboxRun(n)
  <2>1. InClaim(n, node[n].j) /\ node[n].j \in Jobs /\ job' = job
    BY <1>2, <1>12 DEF CreateSandboxRun, InClaim, At, HoldingPcs
  <2>2. InQueue(k)' = InQueue(k)
    BY <2>1 DEF InQueue
  <2>3. CASE Goto(n, "requeue") /\ credit' = credit
    <3>1. ~InClaim(n, k)' \/ InClaim(n, k)
      BY <1>1, <2>1, <2>3, Fields DEF InClaim, Pcs
    <3>. QED  BY <1>6, <1>9, <2>2, <2>3, <3>1
  <2>4. CASE Goto(n, "release") /\ Take(node[n].j)
    <3>1. ~InClaim(n, k)'
      BY <1>1, <2>4, Fields DEF InClaim, Pcs
    <3>. QED  BY <1>8, <2>1, <2>4, <3>1
  <2>5. CASE Finish(n, "failed") /\ credit' = credit
    <3>1. ~InClaim(n, k)'
      BY <1>1, <2>5, Fields DEF InClaim
    <3>. QED  BY <1>6, <1>9, <2>2, <2>5, <3>1
  <2>. QED  BY <1>12, <2>3, <2>4, <2>5 DEF CreateSandboxRun
<1>13. CASE RequeueJob(n)
  <2>1. InClaim(n, node[n].j) /\ node[n].j \in Jobs /\ ~InClaim(n, k)'
    BY <1>1, <1>2, <1>13, Fields
    DEF RequeueJob, InClaim, At, HoldingPcs, Pcs
  <2>2. CASE node[n].j = k
    BY <1>1, <1>4, <1>5, <1>6, <1>13, <2>1, <2>2 DEF RequeueJob
  <2>3. CASE node[n].j # k
    <3>1. job'[k] = job[k]
      BY <1>1, <1>13, <2>1, <2>3 DEF RequeueJob, Write
    <3>2. InQueue(k)' = InQueue(k)
      BY <3>1 DEF InQueue
    <3>. QED  BY <1>6, <1>9, <1>13, <2>1, <3>2 DEF RequeueJob
  <2>. QED  BY <2>2, <2>3
<1>14. CASE FinishJob(n)
  <2>1. node[n].j \in Jobs /\ ~InClaim(n, k)'
    BY <1>1, <1>2, <1>14, Fields
    DEF FinishJob, InClaim, At, HoldingPcs, Pcs
  <2>2. node[n].j # k => job'[k] = job[k]
    BY <1>1, <1>14, <2>1 DEF FinishJob, Write
  <2>3. CASE Give(node[n].j)
    BY <1>7, <2>1, <2>2, <2>3
  <2>4. CASE credit' = credit /\ ~Give(node[n].j)
    <3>1. node[n].j = k => job'[k].status \in {"completed", "failed"}
      BY <1>1, <1>14, <2>1, <2>4 DEF FinishJob, Write, JobRow
    <3>2. InQueue(k)' <= InQueue(k)
      BY <1>6, <2>2, <3>1 DEF InQueue
    <3>. QED  BY <1>9, <2>1, <2>4, <3>2
  <2>. QED  BY <1>14, <2>3, <2>4 DEF FinishJob
<1>15. CASE RecoverJob(n)
  <2>1. ~InClaim(n, k)'
    BY <1>1, <1>15 DEF RecoverJob, SetNode, At, InClaim, NodeRec
  <2>2. PICK j \in node[n].todo :
          \/ Write(j, "queued") /\ Give(j)
          \/ UNCHANGED <<job, credit>>
    BY <1>15 DEF RecoverJob
  <2>3. j \in Jobs
    BY <1>1 DEF NodeRec
  <2>4. CASE Write(j, "queued") /\ Give(j)
    <3>1. j # k => job'[k] = job[k]
      BY <1>1, <2>3, <2>4 DEF Write
    <3>. QED  BY <1>7, <2>1, <2>3, <2>4, <3>1
  <2>5. CASE UNCHANGED <<job, credit>>
    <3>1. InQueue(k)' = InQueue(k)
      BY <2>5 DEF InQueue
    <3>. QED  BY <1>6, <1>9, <2>1, <2>5, <3>1
  <2>. QED  BY <2>2, <2>4, <2>5
<1>16. CASE ~(\/ ClaimJob(n) \/ ProcessExtraction(n) \/ SaveSuggestion(n)
              \/ CreateSandboxRun(n) \/ RequeueJob(n) \/ FinishJob(n)
              \/ RecoverJob(n))
  <2>1. UNCHANGED <<job, credit>>
    BY <1>16
    DEF TickStep, StartTick, EnterQueue, SelectQueued, InsertLease, FindLease,
        StealLease, ReleaseLease, Lead, RetainLeases, SelectStale, Abdicate,
        RenewLeases, SweepLeases, NoJob, NoRow
  <2>2. node'[n].pc \notin {"run", "requeue"}
    <3>1. CASE SelectQueued(n) \/ SelectStale(n)
      <4>1. ASSUME NEW j, NEW t,
                   SetNode(n, [node[n] EXCEPT !.pc = "insert", !.j = j,
                                              !.tries = t])
            PROVE  node'[n].pc = "insert"
        BY <1>1, <4>1 DEF SetNode, NodeRec
      <4>2. SelectStale(n) => node'[n].pc = "recover"
        BY <1>1 DEF SelectStale, SetNode, NodeRec
      <4>. QED  BY <1>1, <3>1, <4>1, <4>2, Fields DEF SelectQueued, Pcs
    <3>2. CASE ~(SelectQueued(n) \/ SelectStale(n))
      BY <1>1, <1>16, <3>2, Fields
      DEF TickStep, StartTick, EnterQueue, InsertLease, FindLease, StealLease,
          ReleaseLease, Lead, RetainLeases, Abdicate, RenewLeases,
          SweepLeases, Pcs
    <3>. QED  BY <3>1, <3>2
  <2>3. ~InClaim(n, k)' /\ InQueue(k)' = InQueue(k)
    BY <2>1, <2>2 DEF InClaim, InQueue
  <2>. QED  BY <1>6, <1>9, <2>1, <2>3
<1>. QED
  BY <1>10, <1>11, <1>12, <1>13, <1>14, <1>15, <1>16

\* What happens to a replica only takes claims away.
LEMMA StepCovers == Typed /\ CreditCovers /\ [Next]_vars => CreditCovers'
<1>. SUFFICES ASSUME Typed, CreditCovers, [Next]_vars, NEW k \in Counted
              PROVE  credit'[k] >= Cardinality(Claimants(k)') + InQueue(k)'
  BY DEF CreditCovers, InQueue
<1>1. /\ node \in [Nodes -> NodeRec] /\ job \in [Jobs -> JobRow]
      /\ credit[k] \in Int /\ k \in Jobs
  BY QueueAssumption DEF Typed, TypeOK, QueueAssumption
<1>2. credit[k] >= Cardinality(Claimants(k)) + InQueue(k)
  BY DEF CreditCovers, InQueue
<1>3. ASSUME credit' = credit, InQueue(k)' <= InQueue(k),
             Claimants(k)' = Claimants(k)
      PROVE  credit'[k] >= Cardinality(Claimants(k)') + InQueue(k)'
  <2>1. Cardinality(Claimants(k)) \in Nat
    BY QueueAssumption, FS_Subset, FS_CardinalityType
    DEF Claimants, QueueAssumption
  <2>. QED  BY <1>1, <1>2, <1>3, <2>1 DEF InQueue
<1>4. ASSUME NEW n \in Nodes,
             Throw(n) \/ LoseAnswer(n) \/ Crash(n) \/ Restart(n)
      PROVE  credit'[k] >= Cardinality(Claimants(k)') + InQueue(k)'
  <2>1. \A m \in Nodes \ {n} : node'[m] = node[m]
    BY <1>1, <1>4, OnlySelf
  <2>2. node'[n].pc \notin {"run", "requeue"}
    <3>1. CASE SetNode(n, [node[n] EXCEPT !.pc = "release", !.threw = TRUE])
      BY <1>1, <3>1 DEF SetNode, NodeRec
    <3>2. CASE ~SetNode(n, [node[n] EXCEPT !.pc = "release", !.threw = TRUE])
      BY <1>1, <1>4, <3>2, Fields DEF Throw, LoseAnswer, Crash, Restart, Pcs
    <3>. QED  BY <3>1, <3>2
  <2>3. credit' = credit /\ InQueue(k)' = InQueue(k)
    BY <1>4 DEF Throw, LoseAnswer, Crash, Restart, NoRow, NoJob, InQueue
  <2>4. ~InClaim(n, k)'
    BY <2>2 DEF InClaim
  <2>5. /\ Cardinality(Claimants(k)) \in Nat
        /\ Cardinality(Claimants(k)') \in Nat
        /\ Cardinality(Claimants(k)') <= Cardinality(Claimants(k))
    BY <2>1, <2>4, Cards
  <2>. QED  BY <1>1, <1>2, <2>3, <2>5 DEF InQueue
<1>5. ASSUME NEW j \in Jobs, LeaseAges(j)
      PROVE  credit'[k] >= Cardinality(Claimants(k)') + InQueue(k)'
  <2>1. Claimants(k)' = Claimants(k)
    BY <1>1, <1>5 DEF LeaseAges, Claimants, NodeRec
  <2>2. credit' = credit /\ InQueue(k)' = InQueue(k)
    BY <1>5 DEF LeaseAges, NoJob, InQueue
  <2>. QED  BY <1>3, <2>1, <2>2 DEF InQueue
<1>6. ASSUME NEW j \in Jobs, BackoffOver(j) \/ SandboxReports(j)
      PROVE  credit'[k] >= Cardinality(Claimants(k)') + InQueue(k)'
  <2>1. Claimants(k)' = Claimants(k) /\ credit' = credit
    BY <1>6 DEF BackoffOver, SandboxReports, Claimants
  <2>2. job'[k].status = "queued" => job[k].status = "queued"
    BY <1>1, <1>6 DEF BackoffOver, SandboxReports, Write, JobRow
  <2>. QED  BY <1>3, <2>1, <2>2 DEF InQueue
<1>7. CASE UNCHANGED <<job, node, credit>>
  BY <1>3, <1>7 DEF Claimants, InQueue
<1>8. ASSUME NEW n \in Nodes, TickStep(n)
      PROVE  credit'[k] >= Cardinality(Claimants(k)') + InQueue(k)'
  BY <1>8, TickCovers
<1>. QED
  BY <1>4, <1>5, <1>6, <1>7, <1>8
  DEF Next, vars, getState, DropLock, Switch, NoRow

\* No job is run more often than it was put in the queue: credit covers
\* the queue and the claims, so it cannot fall below zero.
THEOREM AskedFor == Spec => []RunsAreAskedFor
<1>1. Init => CreditCovers
  <2>. SUFFICES ASSUME Init PROVE CreditCovers
    OBVIOUS
  <2>1. \A j \in Counted : Claimants(j) = {}
    BY DEF Init, Claimants, IdleNode
  <2>2. Cardinality({}) = 0
    BY FS_EmptySet
  <2>3. ASSUME NEW j \in Counted
        PROVE  credit[j] >= Cardinality(Claimants(j)) + InQueue(j)
    <3>1. credit[j] = 1 /\ Cardinality(Claimants(j)) = 0
      BY <2>1, <2>2, QueueAssumption DEF Init, QueueAssumption
    <3>. QED  BY <3>1 DEF InQueue
  <2>. QED  BY <2>3 DEF CreditCovers, InQueue
<1>2. Typed /\ CreditCovers => RunsAreAskedFor
  <2>. SUFFICES ASSUME Typed, CreditCovers, NEW j \in Counted
                PROVE  credit[j] >= 0
    BY DEF RunsAreAskedFor
  <2>1. Cardinality(Claimants(j)) \in Nat
    BY QueueAssumption, FS_Subset, FS_CardinalityType
    DEF Claimants, QueueAssumption
  <2>. QED  BY <2>1, QueueAssumption
            DEF Typed, TypeOK, CreditCovers, QueueAssumption
<1>. QED
  BY <1>1, <1>2, InitTyped, StepTyped, StepCovers, PTL DEF Spec
-----------------------------------------------------------------------------
(***************************************************************************)
(* Part 4: a running job is in somebody's hands.                           *)
(***************************************************************************)
\* As long as no process dies, no statement throws and no answer is lost, a job
\* shown as running is being run by some replica, or a sandbox run has it: no exit of
\* processAiJobsQueue, and no replica that works on the job beside another,
\* lets go of it without writing what became of it.  A job whose user was
\* deleted is the exception: it is let go after the claim.
RunningHasRunner ==
    crashes = 0 =>
        \A j \in Jobs \ (handed \cup Deletable) :
            job[j].status = "running" => \E n \in Nodes : Runs(n, j)

\* A statement of a tick leaves every running job with a runner.
LEMMA TickHasRunner ==
    ASSUME Typed, NEW n \in Nodes, NEW k \in Jobs \ (handed' \cup Deletable),
           TickStep(n), job'[k].status = "running",
           job[k].status = "running" => \E m \in Nodes : Runs(m, k)
    PROVE  \E m \in Nodes : Runs(m, k)'
<1>1. /\ node \in [Nodes -> NodeRec] /\ job \in [Jobs -> JobRow]
      /\ k \in Jobs /\ k \notin Deletable
  BY DEF Typed, TypeOK
<1>2. node[n].pc \in HoldingPcs => node[n].j \in Jobs
  BY DEF Typed, LocalsOK
<1>3. \A m \in Nodes \ {n} : node'[m] = node[m]
  BY <1>1, OnlySelf
<1>4. ASSUME job[k].status = "running", ~Runs(n, k)
      PROVE  \E m \in Nodes : Runs(m, k)'
  <2>1. PICK m \in Nodes : Runs(m, k)
    BY <1>4
  <2>2. m \in Nodes \ {n}
    BY <1>4, <2>1
  <2>. QED  BY <1>3, <2>1, <2>2 DEF Runs
<1>5. CASE ClaimJob(n)
  <2>1. node[n].j \in Jobs /\ ~Runs(n, k)
    BY <1>2, <1>5 DEF ClaimJob, At, HoldingPcs, Runs, RunningPcs
  <2>2. CASE node[n].j = k /\ job[k].status = "queued"
    <3>1. Goto(n, "run")
      BY <1>1, <1>5, <2>2 DEF ClaimJob, AfterClaim
    <3>2. node'[n].pc = "run" /\ node'[n].j = k
      BY <1>1, <2>2, <3>1, Fields DEF Pcs
    <3>. QED  BY <3>2 DEF Runs, RunningPcs
  <2>3. CASE ~(node[n].j = k /\ job[k].status = "queued")
    <3>1. job'[k] = job[k]
      BY <1>1, <1>5, <2>1, <2>3 DEF ClaimJob, Write
    <3>. QED  BY <1>4, <2>1, <3>1
  <2>. QED  BY <2>2, <2>3
<1>6. CASE RequeueJob(n) \/ FinishJob(n)
  <2>1. node[n].j \in Jobs
    BY <1>2, <1>6 DEF RequeueJob, FinishJob, At, HoldingPcs
  <2>2. node[n].j # k
    <3>1. SUFFICES ASSUME node[n].j = k PROVE FALSE
      OBVIOUS
    <3>2. RequeueJob(n) => job'[k].status # "running"
      BY <1>1, <3>1 DEF RequeueJob, Write, JobRow
    <3>3. FinishJob(n) => job'[k].status # "running"
      BY <1>1, <3>1 DEF FinishJob, Write, JobRow
    <3>. QED  BY <1>6, <3>2, <3>3
  <2>3. job'[k] = job[k]
    <3>1. RequeueJob(n) => job'[k] = job[k]
      BY <1>1, <2>1, <2>2 DEF RequeueJob, Write
    <3>2. FinishJob(n) => job'[k] = job[k]
      BY <1>1, <2>1, <2>2 DEF FinishJob, Write
    <3>. QED  BY <1>6, <3>1, <3>2
  <2>. QED  BY <1>4, <2>2, <2>3 DEF Runs
<1>7. CASE ProcessExtraction(n) \/ SaveSuggestion(n) \/ CreateSandboxRun(n)
  <2>1. job' = job
    BY <1>7 DEF ProcessExtraction, SaveSuggestion, CreateSandboxRun
  <2>2. ASSUME Runs(n, k) PROVE Runs(n, k)'
    <3>1. CASE ProcessExtraction(n) \/ SaveSuggestion(n)
      BY <1>1, <2>2, <3>1, Fields
      DEF ProcessExtraction, SaveSuggestion, Runs, RunningPcs
    <3>2. CASE CreateSandboxRun(n)
      <4>1. Goto(n, "requeue") \/ Finish(n, "failed")
        BY <1>1, <2>2, <3>2 DEF CreateSandboxRun, Runs
      <4>. QED  BY <1>1, <2>2, <4>1, Fields DEF Runs, RunningPcs, Pcs
    <3>. QED  BY <1>7, <3>1, <3>2
  <2>. QED  BY <1>4, <2>1, <2>2
<1>8. CASE RecoverJob(n)
  <2>1. ~Runs(n, k)
    BY <1>8 DEF RecoverJob, At, Runs, RunningPcs
  <2>2. PICK j \in node[n].todo : Write(j, "queued") \/ job' = job
    BY <1>8 DEF RecoverJob
  <2>3. job[k].status = "running"
    <3>1. Write(j, "queued") =>
            (j # k /\ job'[k] = job[k]) \/ job'[k].status = "queued"
      BY <1>1 DEF Write, JobRow
    <3>. QED  BY <2>2, <3>1
  <2>. QED  BY <1>4, <2>1, <2>3
<1>9. CASE ~(\/ ClaimJob(n) \/ ProcessExtraction(n) \/ SaveSuggestion(n)
             \/ CreateSandboxRun(n) \/ RequeueJob(n) \/ FinishJob(n)
             \/ RecoverJob(n))
  <2>1. job' = job
    BY <1>9
    DEF TickStep, StartTick, EnterQueue, SelectQueued, InsertLease, FindLease,
        StealLease, ReleaseLease, Lead, RetainLeases, SelectStale, Abdicate,
        RenewLeases, SweepLeases, NoJob, NoRow
  <2>2. node[n].pc \notin RunningPcs
    BY <1>9
    DEF TickStep, StartTick, EnterQueue, SelectQueued, InsertLease, FindLease,
        StealLease, ReleaseLease, Lead, RetainLeases, SelectStale, Abdicate,
        RenewLeases, SweepLeases, At, RunningPcs
  <2>. QED  BY <1>4, <2>1, <2>2 DEF Runs
<1>. QED  BY <1>5, <1>6, <1>7, <1>8, <1>9

\* The bound on crashes is what failures are counted against: without one
\* no replica is stopped between a claim and the write that ends it.
LEMMA StepHasRunner ==
    Typed /\ RunningHasRunner /\ [Next]_vars => RunningHasRunner'
<1>. SUFFICES ASSUME Typed, RunningHasRunner, [Next]_vars, crashes' = 0,
                     NEW k \in Jobs \ (handed' \cup Deletable),
                     job'[k].status = "running"
              PROVE  \E m \in Nodes : Runs(m, k)'
  BY DEF RunningHasRunner
<1>1. /\ node \in [Nodes -> NodeRec] /\ job \in [Jobs -> JobRow]
      /\ k \in Jobs /\ k \notin Deletable /\ crashes \in Nat
  BY QueueAssumption DEF Typed, TypeOK, QueueAssumption
<1>2. ASSUME crashes = 0, handed \subseteq handed', job[k].status = "running"
      PROVE  \E m \in Nodes : Runs(m, k)
  BY <1>1, <1>2 DEF RunningHasRunner
<1>3. ASSUME NEW n \in Nodes, TickStep(n)
      PROVE  \E m \in Nodes : Runs(m, k)'
  <2>1. crashes = 0
    BY <1>3
    DEF TickStep, StartTick, EnterQueue, SelectQueued, InsertLease, FindLease,
        StealLease, ClaimJob, ProcessExtraction, SaveSuggestion,
        CreateSandboxRun, RequeueJob, FinishJob, ReleaseLease, Lead,
        RetainLeases, SelectStale, RecoverJob, Abdicate, RenewLeases,
        SweepLeases, Calm
  <2>2. handed \subseteq handed'
    BY <1>3
    DEF TickStep, StartTick, EnterQueue, SelectQueued, InsertLease, FindLease,
        StealLease, ClaimJob, ProcessExtraction, SaveSuggestion,
        CreateSandboxRun, RequeueJob, FinishJob, ReleaseLease, Lead,
        RetainLeases, SelectStale, RecoverJob, Abdicate, RenewLeases,
        SweepLeases, NoJob, NoRow
  <2>. QED  BY <1>2, <1>3, <2>1, <2>2, TickHasRunner
<1>4. ~(\/ DropLock
        \/ \E n \in Nodes : Throw(n) \/ LoseAnswer(n) \/ Crash(n))
  <2>. SUFFICES ASSUME DropLock \/ \E n \in Nodes :
                           Throw(n) \/ LoseAnswer(n) \/ Crash(n)
                PROVE  FALSE
    OBVIOUS
  <2>1. crashes' = crashes + 1
    BY <1>4 DEF Throw, LoseAnswer, Crash, DropLock
  <2>. QED  BY <1>1, <2>1
<1>5. ASSUME NEW n \in Nodes, Restart(n)
      PROVE  \E m \in Nodes : Runs(m, k)'
  <2>1. PICK m \in Nodes : Runs(m, k)
    BY <1>2, <1>5 DEF Restart, NoRow, Calm
  <2>2. m # n
    BY <1>5, <2>1 DEF Restart, At, Runs, RunningPcs
  <2>3. node'[m] = node[m]
    BY <1>1, <1>5, <2>2, OnlySelf
  <2>. QED  BY <2>1, <2>3 DEF Runs
<1>6. ASSUME NEW j \in Jobs, LeaseAges(j)
      PROVE  \E m \in Nodes : Runs(m, k)'
  <2>1. PICK m \in Nodes : Runs(m, k)
    BY <1>2, <1>6 DEF LeaseAges, NoJob, Calm
  <2>2. node'[m].pc = node[m].pc /\ node'[m].j = node[m].j
    BY <1>1, <1>6 DEF LeaseAges, NodeRec
  <2>. QED  BY <2>1, <2>2 DEF Runs
<1>7. ASSUME NEW j \in Jobs, BackoffOver(j) \/ SandboxReports(j)
      PROVE  \E m \in Nodes : Runs(m, k)'
  <2>1. node' = node /\ handed' = handed /\ crashes' = crashes
    BY <1>7 DEF BackoffOver, SandboxReports, Calm
  <2>2. BackoffOver(j) => job'[k].status = job[k].status
    BY <1>1 DEF BackoffOver, JobRow
  <2>3. SandboxReports(j) => job'[k] = job[k]
    BY <1>1, <2>1 DEF SandboxReports, Write
  <2>. QED  BY <1>2, <1>7, <2>1, <2>2, <2>3 DEF Runs
<1>8. CASE UNCHANGED <<job, node, handed, crashes>>
  BY <1>2, <1>8 DEF Runs
<1>. QED
  BY <1>3, <1>4, <1>5, <1>6, <1>7, <1>8
  DEF Next, vars, getState, DropLock, Switch, NoRow

\* Without a crash, a statement that throws or a lost answer, every running job is being
\* run by a replica or has been handed to the sandbox.
THEOREM HasRunner == Spec => []RunningHasRunner
<1>1. Init => RunningHasRunner
  BY DEF Init, RunningHasRunner
<1>. QED  BY <1>1, InitTyped, StepTyped, StepHasRunner, PTL DEF Spec
=============================================================================
