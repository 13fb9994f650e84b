--------------------------- MODULE TaskRefinement ---------------------------
(***************************************************************************)
(* The task engine implements TaskLifecycle as long as MySQL keeps the     *)
(* leader's lock and no user patches a task.  Crashes at any statement,    *)
(* failed inserts, leases that run out under a live worker, and answers of *)
(* executors at any time are allowed.                                      *)
(***************************************************************************)
EXTENDS TaskExecution

PhaseOf(es) ==
    CASE es \in EligibleStates     -> "ready"
      [] es \in ClaimedStates      -> "claimed"
      [] es = "waiting_input"      -> "waiting"
      [] es = "waiting_approval"   -> "paused"
      [] es \in TerminalStates     -> "closed"

External == {t \in Tasks : Route(t) = "external_action"}

Lifecycle == INSTANCE TaskLifecycle WITH
    Remote <- External,
    phase <- [t \in Tasks |-> PhaseOf(task[t].es)],
    owner <- [t \in Tasks |->
                IF \E w \in Workers : Holds(w, t)
                THEN CHOOSE w \in Workers : Holds(w, t) ELSE None],
    kept <- Undisturbed

\* Until the first lost lock or PATCH, every behaviour of the engine and its
\* executors is one of the lifecycle the class comment of the engine
\* describes, over all its statements and the crashes between them.
ImplementsLifecycle == Lifecycle!Spec
=============================================================================
