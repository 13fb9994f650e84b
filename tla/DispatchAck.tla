---------------------------- MODULE DispatchAck ----------------------------
(***************************************************************************)
(* The executors of external actions and the endpoint they acknowledge to: *)
(* POST malv/external-dispatch/:id/ack, i.e. acknowledge() of              *)
(* WorkspaceExternalDispatchAckService on top of applyClientAck().         *)
(*                                                                         *)
(* An executor awaits each acknowledgement before it goes on, so it has at *)
(* most one request per dispatch under way: job[a][d] is both the state of *)
(* the executor and of the API handler that serves its request.            *)
(***************************************************************************)
EXTENDS TaskRows

CONSTANT Browsers  \* agents that are browser tabs; the rest run agents/shared

ASSUME BrowserAssumption == Browsers \subseteq Agents

VARIABLE job  \* per executor and dispatch

(***************************************************************************)
(* idle  nothing under way            find   applyClientAck: findOne       *)
(* exec  performing the action        mark   applyClientAck: update        *)
(* sent  request on its way           read   acknowledge: read the task    *)
(* reply answer on its way            write  acknowledge: update the task  *)
(***************************************************************************)
JobPcs == {"idle", "exec", "sent", "mark", "read", "write", "reply"}
ServerPcs == {"mark", "read", "write"}

AckStates == {"accepted", "completed", "rejected", "failed"}

JobRec == [pc : JobPcs, ack : AckStates, did : DispatchIds \cup {None},
           ok : BOOLEAN]

IdleJob == [pc |-> "idle", ack |-> "accepted", did |-> None, ok |-> FALSE]

AckTypeOK == job \in [Agents -> [DispatchIds -> JobRec]]

AckInit == job = [a \in Agents |-> [d \in DispatchIds |-> IdleJob]]

JobAt(a, d, pc) == job[a][d].pc = pc

SetJob(a, d, rec) == job' = [job EXCEPT ![a][d] = rec]

Send(a, d, ack) == SetJob(a, d, [IdleJob EXCEPT !.pc = "sent", !.ack = ack])

Answer(a, d, ok) ==
    SetJob(a, d, [IdleJob EXCEPT !.pc = "reply", !.ack = job[a][d].ack,
                                 !.ok = ok])

-----------------------------------------------------------------------------
(***************************************************************************)
(* The executor.                                                           *)
(***************************************************************************)
\* A message is taken from the socket.  agents/shared ignores a dispatch it
\* is working on; a browser has no such guard and takes it up afterwards.
ReceiveDispatch(a, d) ==
    /\ d \in inbox[a]
    /\ inbox' = [inbox EXCEPT ![a] = @ \ {d}]
    /\ \/ /\ JobAt(a, d, "idle")
          /\ \E ack \in {"accepted", "rejected"} : Send(a, d, ack)
       \/ /\ ~JobAt(a, d, "idle")
          /\ a \notin Browsers
          /\ UNCHANGED job
    /\ UNCHANGED <<clock, task, disp, fired, effect>>

\* The socket is down, or the protocol version is not the agent's.
LoseDispatch(a, d) ==
    /\ d \in inbox[a]
    /\ inbox' = [inbox EXCEPT ![a] = @ \ {d}]
    /\ UNCHANGED <<clock, task, disp, fired, effect, job>>

\* Mutant: a failed action is reported as completed.
ReportCompleted(a, d) ==
    /\ JobAt(a, d, "exec")
    /\ Send(a, d, "completed")
    /\ effect' \in {effect, [effect EXCEPT ![d] = @ \cup {"performed"}]}
    /\ UNCHANGED <<clock, task, disp, inbox, fired>>

\* The action succeeds, fails before it did anything, or fails (times out)
\* after it did.  A browser that may not show notifications, or that does not
\* know the type of the action, does nothing and reports it as completed.
ExecuteAction(a, d) ==
    /\ JobAt(a, d, "exec")
    /\ \/ /\ effect' = [effect EXCEPT ![d] = @ \cup {"performed"}]
          /\ \E ack \in {"completed", "failed"} : Send(a, d, ack)
       \/ /\ Send(a, d, "failed")
          /\ UNCHANGED effect
       \/ /\ a \in Browsers
          /\ Send(a, d, "completed")
          /\ effect' = [effect EXCEPT ![d] = @ \cup {"vouched"}]
    /\ UNCHANGED <<clock, task, disp, inbox, fired>>

\* After the answer to an acknowledgement that went well.
Proceed(a, d) ==
    IF job[a][d].ack = "accepted"
    THEN SetJob(a, d, [IdleJob EXCEPT !.pc = "exec"])
    ELSE SetJob(a, d, IdleJob)

\* After one that did not: an agent gives up an acceptance, and reports a
\* completion it could not report as a failure.
GiveUp(a, d) ==
    IF job[a][d].ack = "completed"
    THEN Send(a, d, "failed")
    ELSE SetJob(a, d, IdleJob)

\* A browser does not look at the HTTP status or at the body.
ReceiveAnswer(a, d) ==
    /\ JobAt(a, d, "reply")
    /\ IF job[a][d].ok \/ a \in Browsers THEN Proceed(a, d) ELSE GiveUp(a, d)
    /\ UNCHANGED rowVars

\* The request or its answer is lost: fetch rejects.  Only the acceptance of
\* a browser is outside the try block; it ends the handler like any other.
LoseExchange(a, d) ==
    /\ job[a][d].pc \in {"sent", "reply"}
    /\ GiveUp(a, d)
    /\ UNCHANGED rowVars

\* The API replica dies, or a statement throws, between two statements.
FailHandler(a, d) ==
    /\ job[a][d].pc \in ServerPcs
    /\ Answer(a, d, FALSE)
    /\ UNCHANGED rowVars

\* The executor restarts while no request of its own is being served.
RestartExecutor(a, d) ==
    /\ job[a][d].pc \in {"exec", "sent", "reply"}
    /\ SetJob(a, d, IdleJob)
    /\ UNCHANGED rowVars

-----------------------------------------------------------------------------
(***************************************************************************)
(* The endpoint, one statement at a time.                                  *)
(***************************************************************************)
\* Mutant: an acceptance is answered without recording it.
AnswerAcceptance(a, d) ==
    /\ JobAt(a, d, "sent")
    /\ IF job[a][d].ack = "accepted" \/ disp[d].status \in TerminalDispatch
       THEN Answer(a, d, TRUE)
       ELSE SetJob(a, d, [job[a][d] EXCEPT !.pc = "mark"])
    /\ UNCHANGED rowVars

\* What applyClientAck decides from the row it reads.  The row exists and the
\* device is the right one: only executors it was emitted to acknowledge it.
applyClientAck(a, d) ==
    /\ JobAt(a, d, "sent")
    /\ LET status == disp[d].status
           ack == job[a][d].ack IN
         \* a duplicate, whatever is acknowledged
         \/ /\ status \in TerminalDispatch
            /\ Answer(a, d, TRUE)
         \/ /\ status = "accepted"
            /\ ack = "accepted"
            /\ Answer(a, d, TRUE)
         \/ /\ \/ status = "awaiting_client_ack"
               \/ status = "accepted" /\ ack # "accepted"
            /\ SetJob(a, d, [job[a][d] EXCEPT !.pc = "mark"])
    /\ UNCHANGED rowVars

\* UPDATE of the dispatch row, by id alone.
MarkAcknowledged(a, d) ==
    /\ JobAt(a, d, "mark")
    /\ disp' = [disp EXCEPT ![d].status = job[a][d].ack]
    /\ SetJob(a, d, [job[a][d] EXCEPT !.pc = "read"])
    /\ UNCHANGED <<clock, task, inbox, fired, effect>>

ReadAckedTask(a, d) ==
    /\ JobAt(a, d, "read")
    /\ SetJob(a, d, [job[a][d] EXCEPT !.pc = "write",
                                      !.did = task[disp[d].task].did])
    /\ UNCHANGED rowVars

\* Mutant: the acknowledged status is stored as the execution state.
StoreAckAsState(a, d) ==
    /\ JobAt(a, d, "write")
    /\ task' = [task EXCEPT ![disp[d].task].es = job[a][d].ack]
    /\ Answer(a, d, TRUE)
    /\ UNCHANGED <<clock, disp, inbox, fired, effect>>

\* UPDATE of the task, by id alone; the metadata is the one just read.
acknowledge(a, d) ==
    /\ JobAt(a, d, "write")
    /\ LET t == disp[d].task
           r == [task[t] EXCEPT !.did = job[a][d].did]
           ack == job[a][d].ack IN
         task' = [task EXCEPT ![t] =
            IF ack = "accepted"
            THEN [r EXCEPT !.es = "waiting_input", !.lease = "held",
                           !.awaiting = TRUE]
            ELSE IF ack = "completed"
            THEN [r EXCEPT !.es = "completed", !.lease = "none",
                           !.awaiting = FALSE, !.sched = None]
            ELSE [r EXCEPT !.es = "failed", !.lease = "none",
                           !.awaiting = FALSE]]
    /\ Answer(a, d, TRUE)
    /\ UNCHANGED <<clock, disp, inbox, fired, effect>>

AckStep(a, d) ==
    \/ ReceiveDispatch(a, d) \/ LoseDispatch(a, d) \/ ExecuteAction(a, d)
    \/ ReceiveAnswer(a, d) \/ LoseExchange(a, d) \/ FailHandler(a, d)
    \/ RestartExecutor(a, d) \/ applyClientAck(a, d) \/ MarkAcknowledged(a, d)
    \/ ReadAckedTask(a, d) \/ acknowledge(a, d)

\* The part of AckStep in which the API serves a request it has received.
HandlerStep(a, d) ==
    MarkAcknowledged(a, d) \/ ReadAckedTask(a, d) \/ acknowledge(a, d)
=============================================================================
