---------------------------- MODULE RunLifecycle ----------------------------
(***************************************************************************)
(* What a sandbox run goes through, without rows, statements or jobs: it   *)
(* is checked, approved if it was created to be, executed, and perhaps     *)
(* paused by a step that an admin has to allow.  It is in one hand at a    *)
(* time, passes from hand to hand by the steps below only, and once it is  *)
(* closed and in nobody's hands it stays so: it is never executed again.   *)
(***************************************************************************)
CONSTANTS Runs, Actors, Requests

VARIABLES
    turn,       \* what may be done with a run that is in nobody's hands
    gated,      \* whether it was created to be approved
    checking,   \* the actors that are validating it
    executing,  \* the actors that are performing its plan
    asking,     \* the approval requests it waits for
    kept        \* the runs whose row was never saved over a status not read

Turns == {"create", "check", "approve", "execute", "closed"}

TypeOK ==
    /\ turn \in [Runs -> Turns]
    /\ gated \in [Runs -> BOOLEAN]
    /\ checking \in [Runs -> SUBSET Actors]
    /\ executing \in [Runs -> SUBSET Actors]
    /\ asking \in [Runs -> SUBSET Requests]
    /\ kept \subseteq Runs

Init ==
    /\ turn = [r \in Runs |-> "create"]
    /\ checking = [r \in Runs |-> {}]
    /\ executing = [r \in Runs |-> {}]
    /\ asking = [r \in Runs |-> {}]

\* The run is in nobody's hands.
Loose(r) == checking[r] = {} /\ executing[r] = {} /\ asking[r] = {}

Hands(r) == <<checking[r], executing[r], asking[r]>>

\* What becomes of a run, and in whose hands it is after the step.
Becomes(r, t) == turn'[r] = t /\ gated'[r] = gated[r]
GoesTo(r, C, E, Q) == checking'[r] = C /\ executing'[r] = E /\ asking'[r] = Q

Create(r) ==
    /\ turn[r] = "create"
    /\ turn'[r] = "check"
    /\ UNCHANGED Hands(r)

Check(r, a) ==
    /\ turn[r] = "check" /\ Loose(r)
    /\ Becomes(r, "closed")
    /\ GoesTo(r, {a}, {}, {})

\* The check failed, was given up, or says what comes next.
EndCheck(r) ==
    /\ checking[r] # {}
    /\ \E t \in {"check", "closed", IF gated[r] THEN "approve" ELSE "execute"} :
         Becomes(r, t)
    /\ GoesTo(r, {}, {}, {})

Approve(r) ==
    /\ turn[r] = "approve"
    /\ Becomes(r, "execute")
    /\ UNCHANGED Hands(r)

Execute(r, a) ==
    /\ turn[r] = "execute" /\ Loose(r)
    /\ Becomes(r, "closed")
    /\ GoesTo(r, {}, {a}, {})

\* The plan is over, or was stopped before its first step.
EndExecution(r) ==
    /\ executing[r] # {}
    /\ \E t \in {"execute", "closed"} : Becomes(r, t)
    /\ GoesTo(r, {}, {}, {})

Ask(r, q) ==
    /\ executing[r] # {}
    /\ Becomes(r, "closed")
    /\ GoesTo(r, {}, {}, {q})

\* An admin allows the step, and executes the plan.
Resume(r, a) ==
    /\ asking[r] # {}
    /\ Becomes(r, "closed")
    /\ GoesTo(r, {}, {a}, {})

\* An admin rejects the step, or nobody answers.
Refuse(r) ==
    /\ asking[r] # {}
    /\ Becomes(r, "closed")
    /\ GoesTo(r, {}, {}, {})

\* The check fails after it has passed the run on.
Withdraw(r) ==
    /\ turn[r] \in {"approve", "execute"}
    /\ Becomes(r, "closed")
    /\ UNCHANGED Hands(r)

Next(r) ==
    \/ Create(r) \/ EndCheck(r) \/ Approve(r) \/ EndExecution(r)
    \/ Refuse(r) \/ Withdraw(r)
    \/ \E a \in Actors : Check(r, a) \/ Execute(r, a) \/ Resume(r, a)
    \/ \E q \in Requests : Ask(r, q)

Unmoved(r) == UNCHANGED <<turn[r], gated[r], Hands(r)>>

Spec ==
    /\ Init
    /\ [][\A r \in kept' : Next(r) \/ Unmoved(r)]_<<turn, gated, checking, executing, asking>>
=============================================================================
