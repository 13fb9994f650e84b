--------------------------- MODULE RunRefinement ---------------------------
(***************************************************************************)
(* The sandbox services implement RunLifecycle, but for the runs of which  *)
(* a row or a request was saved over a status its writer had not read.     *)
(* Crashes, statements that throw and the kill switch are allowed.         *)
(***************************************************************************)
EXTENDS SandboxRun

TurnOf(status) ==
    CASE status = "absent"            -> "create"
      [] status = "staged"            -> "check"
      [] status = "approval_pending"  -> "approve"
      [] status = "approved"          -> "execute"
      [] OTHER                        -> "closed"

\* From the claim of a run to the statement that lets go of it.
Checks(x) ==
    \/ x.pc \in {"validate", "unclaim"}
    \/ x.pc = "validate_save" /\ ~x.broken
Executes(x) ==
    x.pc \in {"read_executing", "unexecute", "step", "grant_run", "grant_job"}
Asks(q, r) == request[q] # None /\ request[q].run = r /\ request[q].status = "pending"

\* The refinement mapping.
Turn == [r \in Runs |-> TurnOf(run[r].status)]
Gated == [r \in Runs |-> run[r].gated]
Checkers == [r \in Runs |-> {a \in Actors : Checks(act[a]) /\ act[a].run = r}]
Executors == [r \in Runs |-> {a \in Actors : Executes(act[a]) /\ act[a].run = r}]
Askers == [r \in Runs |-> {q \in Requests : Asks(q, r)}]

Lifecycle == INSTANCE RunLifecycle WITH
    turn <- Turn, gated <- Gated, checking <- Checkers, executing <- Executors,
    asking <- Askers, kept <- Runs \ late

\* Whatever the order of the statements of replicas, creators and admins, a run
\* is validated, approved if it has to be, and executed by one of them at a
\* time, and what is closed is not executed again.
ImplementsRunLifecycle == Lifecycle!Spec
=============================================================================
