-------------------------- MODULE MCTaskExecution --------------------------
(***************************************************************************)
(* Instances of TaskExecution for TLC: values for the constants that a     *)
(* configuration file cannot write.                                        *)
(***************************************************************************)
EXTENDS TaskRefinement, TLC

CONSTANTS t1, t2, null

\* One reminder and one workflow task: the routes without an executor.
MCInternal == (t1 :> "reminder") @@ (t2 :> "workflow_task")

MCExternal == (t1 :> "external_action")

\* A task that waits for an executor and one that is left to a person.
MCMixed == (t1 :> "external_action") @@ (t2 :> "manual_checklist")

Now == {0}
NowOrNever == {0, null}
NowOrLater == {0, 1}
Never == {null}

\* Replicas, primary keys and requests are interchangeable; safety runs only.
Interchangeable ==
    Permutations(Workers) \cup Permutations(DispatchIds) \cup Permutations(Patches)
=============================================================================
