--------------------------- MODULE TaskLifecycle ---------------------------
(***************************************************************************)
(* What the class comment of WorkspaceTaskExecutionEngineService promises  *)
(* of a task, without rows, leases, statements or messages: one replica at *)
(* a time processes due tasks, a task is processed by the replica that     *)
(* claimed it, what a lost replica leaves behind becomes due again, and a  *)
(* task that is finished or paused for approval stays so.  The answers of  *)
(* executors are its one exception: they may come at any time.             *)
(***************************************************************************)
CONSTANTS
    Tasks, Workers, None,
    Remote  \* the tasks that executors may answer

VARIABLES
    phase,  \* "ready", "claimed", "waiting", "paused" or "closed", per task
    owner,  \* the replica that processes it, or None
    kept    \* the environment has kept its part so far: the engine's lock is
            \* the engine's, and so are the rows

Phases == {"ready", "claimed", "waiting", "paused", "closed"}

TypeOK ==
    /\ phase \in [Tasks -> Phases]
    /\ owner \in [Tasks -> Workers \cup {None}]
    /\ kept \in BOOLEAN

Init ==
    /\ phase = [t \in Tasks |-> "ready"]
    /\ owner = [t \in Tasks |-> None]

\* No replica is processing anything.
Quiet == \A t \in Tasks : owner[t] = None

Claim(w, t) ==
    /\ Quiet
    /\ phase[t] = "ready"
    /\ phase' = [phase EXCEPT ![t] = "claimed"]
    /\ owner' = [owner EXCEPT ![t] = w]

\* The owner ends its work: once more later, wait for an executor, or done.
LetGo(t) ==
    /\ owner[t] # None
    /\ owner' = [owner EXCEPT ![t] = None]
    /\ \E p \in {"ready", "waiting", "closed"} :
         phase' = [phase EXCEPT ![t] = p]

\* The owner is lost in the middle of its work.
Abandon(t) ==
    /\ owner[t] # None
    /\ owner' = [owner EXCEPT ![t] = None]
    /\ UNCHANGED phase

\* Work left behind becomes due again.
Recover(S) ==
    /\ Quiet
    /\ \A t \in S : phase[t] = "claimed"
    /\ phase' = [t \in Tasks |-> IF t \in S THEN "ready" ELSE phase[t]]
    /\ UNCHANGED owner

GiveUpWait(t) ==
    /\ Quiet
    /\ phase[t] = "waiting"
    /\ phase' = [phase EXCEPT ![t] = "closed"]
    /\ UNCHANGED owner

Pause(t) ==
    /\ Quiet
    /\ phase[t] = "ready"
    /\ phase' = [phase EXCEPT ![t] = "paused"]
    /\ UNCHANGED owner

\* An executor answers, in time, late or once more: its task waits for the
\* next answer or is over, whatever it was.
Answer(t) ==
    /\ t \in Remote
    /\ \E p \in {"waiting", "closed"} : phase' = [phase EXCEPT ![t] = p]
    /\ UNCHANGED owner

\* The owner goes on with a task that was answered under its hands.
Resume(t) ==
    /\ t \in Remote
    /\ owner[t] # None
    /\ phase[t] \in {"waiting", "closed"}
    /\ phase' = [phase EXCEPT ![t] = "claimed"]
    /\ UNCHANGED owner

Next ==
    \/ \E t \in Tasks :
         \/ \E w \in Workers : Claim(w, t)
         \/ LetGo(t) \/ Abandon(t) \/ GiveUpWait(t) \/ Pause(t)
         \/ Answer(t) \/ Resume(t)
    \/ \E S \in SUBSET Tasks : Recover(S)

Spec == Init /\ [][kept' => Next]_<<phase, owner>>
=============================================================================
