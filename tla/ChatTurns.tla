----------------------------- MODULE ChatTurns ------------------------------
(***************************************************************************)
(* The chat of one browser tab on top of ChatServer: MalvChatClient, which *)
(* binds the socket's events to the message being answered, and the hook   *)
(* useMalvChat, which shows the rows.  A disconnect empties the queue of   *)
(* events and may lose the requests that no replica has handled yet.       *)
(*                                                                         *)
(* An event sets refs at once and queues updates of the rows, which React  *)
(* renders later: the handlers read the rows of the last render.           *)
(***************************************************************************)
EXTENDS ChatServer

VARIABLES
    row,        \* the status of each assistant row, with every update that is queued
    shown,      \* the last render: the rows, which are messagesRef, and generationActive
    active,     \* activeAssistantIdRef
    streamed,   \* assistantStreamCanonicalRef, which is the active row's, holds text
    frame,      \* assistantStreamRafRef: a frame will paint what has been streamed
    generating, \* generationActive
    scope,      \* the message the socket handlers are bound to
    ignoring,   \* ignoreIncoming
    acking,     \* the send whose acknowledgement is awaited
    retry,      \* lastRetryPayloadRef
    finalized   \* finalizedAssistantMessageIdsRef

rowVars == <<row, active, streamed, frame, generating, finalized>>
clientVars == <<rowVars, shown, scope, ignoring, acking, retry>>
vars == <<serverVars, wireVars, faults, clientVars>>

Terminal == {"done", "partial_done", "interrupted", "error"}
Status == {"none", "preparing", "streaming"} \cup Terminal

TypeOK ==
    /\ ServerTypeOK
    /\ row \in [Turns -> Status]
    /\ shown \in [row : [Turns -> Status], generating : BOOLEAN]
    /\ {active, scope, retry} \subseteq Turns \cup {None}
    /\ acking \in Runs \cup {None}
    /\ {streamed, frame, generating, ignoring} \subseteq BOOLEAN
    /\ finalized \subseteq Turns

Init ==
    /\ ServerInit
    /\ row = [m \in Turns |-> "none"]
    /\ shown = [row |-> row, generating |-> FALSE]
    /\ active = None /\ scope = None /\ retry = None /\ acking = None
    /\ streamed = FALSE /\ frame = FALSE
    /\ generating = FALSE /\ ignoring = FALSE
    /\ finalized = {}

----------------------------------------------------------------------------
\* React

Render ==
    /\ shown # [row |-> row, generating |-> generating]
    /\ shown' = [row |-> row, generating |-> generating]
    /\ UNCHANGED <<serverVars, wireVars, faults, rowVars, scope, ignoring, acking, retry>>

\* What a click updates is rendered before the next event.
Flushed == shown' = [row |-> row', generating |-> generating']

\* The frame of scheduleAssistantStreamVisualFlush.
PaintFrame ==
    /\ frame /\ frame' = FALSE
    /\ row' = IF active # None /\ streamed THEN [row EXCEPT ![active] = "streaming"] ELSE row
    /\ UNCHANGED <<serverVars, wireVars, faults, active, streamed, generating, finalized,
                   shown, scope, ignoring, acking, retry>>

----------------------------------------------------------------------------
\* The user, who goes by what is shown

Idle == ~shown.generating /\ acking = None

\* send and retryLast: rows and refs of the hook, then runSocketPipeline.
Begin(m) ==
    /\ Idle /\ conn # None
    /\ \E r \in Runs : run[r].pc = "free"
    /\ LET r == CHOOSE x \in Runs : run[x].pc = "free"
       IN  /\ run' = [run EXCEPT ![r] = [NoRun EXCEPT !.pc = "sent", !.m = m,
                                                     !.node = conn, !.heard = TRUE]]
           /\ acking' = r
    /\ row' = [row EXCEPT ![m] = "preparing"]
    /\ active' = m /\ streamed' = FALSE /\ generating' = TRUE
    /\ scope' = m /\ ignoring' = FALSE
    /\ finalized' = finalized \ {m}
    /\ retry' = m
    /\ Flushed
    /\ UNCHANGED <<registry, redis, marker, fallback, cancels, msg, stopped,
                   wireVars, faults, frame>>

\* A fresh id: which one is the same to everybody.
send ==
    LET fresh == {m \in Turns : row[m] = "none"}
    IN  fresh # {} /\ Begin(CHOOSE m \in fresh : TRUE)

retryLast ==
    /\ retry # None
    /\ shown.row[retry] \in {"error", "interrupted"}
    /\ Begin(retry)

Settle(m, status) == row' = [row EXCEPT ![m] = status]
Quiet == generating' = FALSE /\ active' = None /\ streamed' = FALSE

\* Mutant: a stop cancels whatever the ref holds.
stopReplyMutant ==
    /\ shown.generating
    /\ cancels' = IF conn = None THEN cancels
                   ELSE cancels \cup {[m |-> active, node |-> conn, marked |-> FALSE]}
    /\ ignoring' = TRUE /\ scope' = None /\ acking' = None
    /\ Quiet /\ frame' = FALSE
    /\ UNCHANGED <<run, registry, redis, marker, fallback, msg, stopped, wireVars,
                   faults, retry, row, finalized>>
    /\ Flushed

\* The button is there while the last render says that a reply is under way.
stopReply ==
    /\ shown.generating
    /\ IF active = None
         THEN UNCHANGED <<cancels, row, finalized>>
         ELSE /\ cancels' = IF conn = None THEN cancels
                             ELSE cancels \cup {[m |-> active, node |-> conn, marked |-> FALSE]}
              /\ finalized' = finalized \cup {active}
              /\ Settle(active, "interrupted")
    /\ ignoring' = TRUE /\ scope' = None /\ acking' = None
    /\ Quiet /\ Flushed /\ frame' = FALSE
    /\ UNCHANGED <<run, registry, redis, marker, fallback, msg, stopped, wireVars,
                   faults, retry>>

----------------------------------------------------------------------------
\* handleOrchestrationEvent, for an event bound to message m

\* An event with a message id is for the active row, or restores it.
Mine(m) == active \in {m, None} /\ m \notin finalized

\* Mutant: whether the row has ended is not looked at.
DeltaMutant(m) ==
    IF Mine(m)
      THEN /\ active' = m /\ streamed' = TRUE /\ frame' = TRUE
           /\ UNCHANGED <<row, generating, finalized>>
      ELSE UNCHANGED rowVars

\* A chunk is dropped when its row had ended by the last render: the watchdog does not
\* finalize the row, so that a chunk before the next render makes it active again.
Delta(m) ==
    IF Mine(m) /\ shown.row[m] \notin Terminal
      THEN /\ active' = m /\ streamed' = TRUE /\ frame' = TRUE
           /\ UNCHANGED <<row, generating, finalized>>
      ELSE UNCHANGED rowVars

Shown(terminal) == CASE terminal = "completed" -> "done"
                     [] terminal = "partial" -> "partial_done"
                     [] terminal = "interrupted" -> "interrupted"

Done(m, terminal) ==
    IF Mine(m)
      THEN /\ Settle(m, Shown(terminal))
           /\ finalized' = finalized \cup {m}
           /\ Quiet /\ frame' = FALSE
      ELSE UNCHANGED rowVars

\* An error after text is a reply that ended early, unless the server says that
\* there was no output.
Error(m, fatal) ==
    IF active \in {None, m}
      THEN /\ IF active = None THEN UNCHANGED row
              ELSE Settle(m, IF streamed /\ ~fatal THEN "done" ELSE "error")
           /\ Quiet /\ frame' = FALSE
           /\ UNCHANGED finalized
      ELSE UNCHANGED rowVars

----------------------------------------------------------------------------
\* MalvChatClient: what the socket delivers

Deliverable(type) == down # <<>> /\ Head(down).type = type /\ down' = Tail(down)
KeepServer == UNCHANGED <<serverVars, conn, faults, shown, retry, ignoring>>
Dropped == UNCHANGED <<rowVars, scope>>
Answered(r) == acking' = IF acking = r THEN None ELSE acking

onAck ==
    /\ Deliverable("ack")
    /\ Answered(Head(down).r)
    /\ Dropped /\ KeepServer

\* The callback of a send that was refused, even when another one is under way.
onRefused ==
    /\ Deliverable("refused")
    /\ Answered(Head(down).r)
    /\ IF ignoring THEN Dropped
       ELSE Error(run[Head(down).r].m, FALSE) /\ scope' = None
    /\ KeepServer

onChunk ==
    /\ Deliverable("chunk")
    /\ IF scope = None THEN Dropped
       ELSE Delta(scope) /\ UNCHANGED scope
    /\ UNCHANGED acking /\ KeepServer

onMalvOrch ==
    /\ Deliverable("done")
    /\ IF scope = None THEN Dropped
       ELSE Done(scope, Head(down).terminal) /\ scope' = None
    /\ UNCHANGED acking /\ KeepServer

\* chat:error, and a job:update that says "failed", of whichever job.
onError ==
    /\ Deliverable("error") \/ Deliverable("job_failed")
    /\ IF scope = None THEN Dropped
       ELSE Error(scope, Head(down).type = "error") /\ scope' = None
    /\ UNCHANGED acking /\ KeepServer

\* The two timers are long: they fire when nothing is left to wait for or, bounded
\* as a fault, early.
Overdue(nothingComes) == IF down = <<>> /\ nothingComes THEN UNCHANGED faults ELSE Fault
KeepServerButFaults == UNCHANGED <<serverVars, conn, shown, retry, ignoring>>

\* No acknowledgement within ACK_MS.
AckTimeout ==
    /\ acking # None
    /\ Overdue(~run[acking].heard)
    /\ acking' = None
    /\ Error(active, FALSE)
    /\ scope' = None
    /\ UNCHANGED down /\ KeepServerButFaults

\* GENERATION_WATCHDOG_MS, longer than ACK_MS: the handlers stay bound, a scheduled
\* frame stays scheduled, and the row is not finalized.
Watchdog ==
    /\ generating /\ active # None /\ acking = None
    /\ Overdue(\A r \in Runs : run[r].pc \in {"free", "ended", "dead"})
    /\ Settle(active, IF streamed THEN "partial_done" ELSE "error")
    /\ Quiet
    /\ UNCHANGED <<serverVars, wireVars, frame, finalized, shown, scope, ignoring, acking, retry>>

----------------------------------------------------------------------------
\* The connection

\* What was on the way to the server may be lost with the socket.
Disconnect ==
    /\ conn # None
    /\ Fault
    /\ conn' = None /\ down' = <<>>
    /\ \E lost \in BOOLEAN :
         /\ run' = [r \in Runs |-> IF lost /\ run[r].pc = "sent" THEN Gone(r)
                                   ELSE [run[r] EXCEPT !.heard = FALSE]]
         /\ cancels' = IF lost THEN {c \in cancels : c.marked} ELSE cancels
    /\ UNCHANGED <<registry, redis, marker, fallback, msg, stopped, clientVars>>

Reconnect(n) ==
    /\ conn = None
    /\ conn' = n
    /\ UNCHANGED <<serverVars, down, faults, clientVars>>

\* A background job of the user fails: the event is everybody's.
JobFails ==
    /\ Fault
    /\ Emit(<<Says("job_failed", None, "completed")>>)
    /\ UNCHANGED <<serverVars, conn, clientVars>>

Receive == onAck \/ onRefused \/ onChunk \/ onMalvOrch \/ onError

Next ==
    \/ (ServerStep \/ ServerFault) /\ UNCHANGED clientVars
    \/ send \/ retryLast \/ stopReply
    \/ Render \/ PaintFrame
    \/ Receive \/ AckTimeout \/ Watchdog
    \/ Disconnect \/ JobFails \/ \E n \in Nodes : Reconnect(n)

Spec == Init /\ [][Next]_vars

----------------------------------------------------------------------------
\* An ended row changes when the user retries, when the reply arrives after a timer
\* ended it, or once a chunk has made it active again; and only a chunk that the tab
\* handles before it has rendered the end of a row that no reply and no stop ended does.
SettlesRows ==
    \A m \in Turns : row[m] \in Terminal =>
        /\ row'[m] # row[m] =>
             \/ row'[m] = "preparing"
             \/ m \notin finalized /\ (m \in finalized' \/ active = m)
        /\ active # m /\ active' = m =>
             \/ row'[m] = "preparing"
             \/ m \notin finalized /\ shown.row[m] \notin Terminal

\* A reply that the server or the user has ended is final until the user retries,
\* whatever chunk, error, timer, frame or render comes late; a row that a timer has
\* ended comes back only by a chunk that overtakes the render of that end.
RowsSettle == [][SettlesRows]_vars

\* A row that says "thinking" in the database belongs to a run that will still
\* write its end, also when a retry of the turn overlaps: only a crash or a write
\* that fails leaves it so.
PlaceholderHasRun ==
    \A m \in Turns : msg[m].status = "thinking" =>
        LET r == msg[m].by
        IN  /\ run[r].m = m
            /\ \/ run[r].pc \in {"infer", "interrupted", "failed", "deliver", "finalize", "dead"}
               \/ run[r].pc \in {"unregister", "ended"} /\ faults > 0

\* Nobody's turn is recorded as interrupted without a stop of that turn.
InterruptedWasStopped ==
    \A m \in Turns : msg[m].status = "interrupted" => m \in stopped

\* A registration does not outlive its run, although runs of one turn overlap:
\* the map of the registry does not grow, and a cancel aborts nothing of the past.
RegisteredIsInFlight ==
    \A n \in Nodes, m \in Turns : registry[n][m] # None =>
        LET r == registry[n][m]
        IN  run[r].pc \notin {"free", "sent", "ended", "dead"} /\ run[r].m = m /\ run[r].node = n
=============================================================================
