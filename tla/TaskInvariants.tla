--------------------------- MODULE TaskInvariants ---------------------------
(***************************************************************************)
(* The inductive invariant behind the safety properties of TaskExecution,  *)
(* in parts.  Each part strengthens one property with what the statements  *)
(* between a read and a write carry along: the locals of a tick, the       *)
(* request of an executor, the row a PATCH has read.                       *)
(***************************************************************************)
EXTENDS TaskExecution

(***************************************************************************)
(* Typing, with two facts that keep it: the locals of a tick are the ones  *)
(* its pc relies on, and a dispatch id that anybody holds on to, whatever  *)
(* crashed in between, is the id of a row (DispatchIsRecorded).  One part  *)
(* per variable, so that a step is checked on the variables it changes.    *)
(***************************************************************************)
Known == Rows \cup {None}

GoodTask(r) == r \in TaskRow /\ r.did \in Known

LocalsOK(r) ==
    /\ r.pc \in HoldingPcs \cup {"promotecas", "remindcas", "schedcas"} =>
           r.t \in Tasks /\ r.left > 0
    /\ r.pc \in {"markread", "markwrite"} => r.t \in Tasks /\ r.did # None
    /\ r.pc = "ackfail" => r.t \in Tasks
    /\ r.pc \in {"emit", "wait"} => r.did # None

GoodWorker(r) ==
    /\ r \in WorkerRec
    /\ LocalsOK(r)
    /\ r.did \in Known
    /\ r.snap.did \in Known
    /\ \A e \in r.todo : e[2] \in Known

GoodJob(d, j) ==
    /\ j \in JobRec
    /\ j.did \in Known
    /\ j.pc # "idle" => d \in Rows

DispInv == disp \in [DispatchIds -> DispatchRow \cup {NoRow}]

TaskInv == /\ task \in [Tasks -> TaskRow]
           /\ \A t \in Tasks : GoodTask(task[t])

WorkerInv == /\ worker \in [Workers -> WorkerRec]
             /\ \A w \in Workers : GoodWorker(worker[w])

JobInv == /\ job \in [Agents -> [DispatchIds -> JobRec]]
          /\ \A a \in Agents, d \in DispatchIds : GoodJob(d, job[a][d])

InboxInv == /\ inbox \in [Agents -> SUBSET DispatchIds]
            /\ \A a \in Agents : inbox[a] \subseteq Rows

EffectInv == /\ effect \in [DispatchIds -> SUBSET Effects]
             /\ \A d \in DispatchIds : effect[d] # {} => d \in Rows

UnderWay(p) == patch[p].pc \in {"read", "found"}

GoodPatch(r) ==
    /\ r \in PatchRec
    /\ r.pc \in {"read", "found"} => r.t \in Tasks /\ GoodTask(r.row)
    /\ r.pc = "found" => GoodTask(r.seen)

PatchInv == /\ patch \in [Patches -> PatchRec]
            /\ \A p \in Patches : GoodPatch(patch[p])

CountersInv == /\ clock \in Instants
               /\ fired \in [Tasks -> 0 .. MaxFired]
               /\ leader \in Workers \cup {None}
               /\ crashes \in 0 .. MaxCrashes
               /\ drops \in 0 .. MaxLockDrops

TypeInv ==
    /\ DispInv /\ TaskInv /\ WorkerInv /\ JobInv /\ InboxInv /\ EffectInv
    /\ PatchInv /\ CountersInv

\* Strengthens AcceptedBeforeAction: so does an executor whose request went
\* through, before it hears of it.
Answered(a, d) ==
    \/ job[a][d].pc \in {"read", "write"}
    \/ job[a][d].pc = "reply" /\ job[a][d].ok
    \/ job[a][d].pc = "exec" /\ a \notin Browsers

AcceptanceInv ==
    \A a \in Agents, d \in DispatchIds :
        Answered(a, d) => disp[d].status # "awaiting_client_ack"

\* Strengthens WaitsAreLeased with the rows that PATCHes have read.
Leased(r) == r.es = "waiting_input" => r.lease # "none" /\ r.awaiting

Misled(t) == Asked(t, "waiting_input") \/ Torn(t)

LeaseInv ==
    /\ \A t \in Tasks : Leased(task[t]) \/ Misled(t)
    /\ \A p \in Patches : UnderWay(p) =>
         Leased(patch[p].row) \/ Misled(patch[p].t)

\* Strengthens CompletedWasPerformed with those about to report completion.
Performed(t) ==
    \/ fired[t] > 0
    \/ \E d \in Rows : disp[d].task = t /\ effect[d] # {}
    \/ Asked(t, "completed")

WorkInv ==
    /\ \A t \in Tasks : task[t].es = "completed" => Performed(t)
    /\ \A p \in Patches :
         UnderWay(p) /\ patch[p].row.es = "completed" => Performed(patch[p].t)
    /\ \A w \in Workers :
         worker[w].pc = "apply" /\ worker[w].out.es = "completed"
            => fired[worker[w].t] > 0
    /\ \A a \in Agents, d \in DispatchIds :
         job[a][d].pc # "idle" /\ job[a][d].ack = "completed" => effect[d] # {}
=============================================================================
