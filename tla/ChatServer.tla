----------------------------- MODULE ChatServer -----------------------------
(***************************************************************************)
(* Chat turns on the API: the gateway's chat:send and chat:cancel, the     *)
(* registry of turns in flight, the cancel markers shared by the replicas, *)
(* and ChatService, which keeps the row of the assistant's message.        *)
(*                                                                         *)
(* A run is one chat:send; a turn is the message it answers, whose id the  *)
(* browser chooses and keeps when the user retries.                        *)
(***************************************************************************)
EXTENDS Naturals, Sequences, FiniteSets

CONSTANTS
    Turns,          \* ids of assistant messages
    Runs,           \* sends that reach the API
    Nodes,          \* replicas of the API
    None,
    MaxFaults       \* bound: refusals, exceptions, failed writes, late timers, crashes, outages

ASSUME ChatAssumption ==
    /\ None \notin Turns \cup Runs \cup Nodes /\ Nodes # {}
    /\ MaxFaults \in Nat

VARIABLES
    run,        \* the handler of each send
    registry,   \* byAssistantMessageId of each replica: the run registered for a turn
    redis,      \* Redis answers
    marker,     \* malv:chat:cancel:<id> in Redis
    fallback,   \* cancelFallback of each replica
    cancels,    \* chat:cancel on the way, and between their marker and the abort
    msg,        \* the row of each assistant message, and the run that wrote it last
    conn,       \* the replica the browser's socket is on
    down,       \* the events on their way to the browser
    stopped,    \* history: turns whose cancel reached the API
    faults

serverVars == <<run, registry, redis, marker, fallback, cancels, msg, stopped>>
wireVars == <<conn, down>>

PC == {"free", "sent", "start", "infer", "interrupted", "tell", "failed", "deliver",
       "finalize", "unregister", "ended", "dead"}
Terminals == {"completed", "interrupted", "partial"}
RunRec == [pc : PC, m : Turns \cup {None}, node : Nodes \cup {None}, aborted : BOOLEAN,
           asked : BOOLEAN, saw : BOOLEAN, deferred : BOOLEAN, terminal : Terminals,
           heard : BOOLEAN]
NoRun == [pc |-> "free", m |-> None, node |-> None, aborted |-> FALSE, asked |-> FALSE,
          saw |-> FALSE, deferred |-> TRUE, terminal |-> "completed", heard |-> FALSE]
Gone(r) == [NoRun EXCEPT !.pc = "ended", !.m = run[r].m]

RowStatus == {"none", "thinking", "done", "interrupted"}
MsgRow == [status : RowStatus, by : Runs \cup {None}]
Cancel == [m : Turns, node : Nodes, marked : BOOLEAN]
Event == [type : {"ack", "refused", "chunk", "done", "error", "job_failed"},
          r : Runs \cup {None}, terminal : Terminals]

ServerTypeOK ==
    /\ run \in [Runs -> RunRec]
    /\ registry \in [Nodes -> [Turns -> Runs \cup {None}]]
    /\ redis \in BOOLEAN
    /\ marker \subseteq Turns
    /\ fallback \in [Nodes -> SUBSET Turns]
    /\ cancels \subseteq Cancel
    /\ msg \in [Turns -> MsgRow]
    /\ conn \in Nodes \cup {None}
    /\ down \in Seq(Event)
    /\ stopped \subseteq Turns
    /\ faults \in 0 .. MaxFaults

ServerInit ==
    /\ run = [r \in Runs |-> NoRun]
    /\ registry = [n \in Nodes |-> [m \in Turns |-> None]]
    /\ redis = TRUE
    /\ marker = {} /\ fallback = [n \in Nodes |-> {}]
    /\ cancels = {}
    /\ msg = [m \in Turns |-> [status |-> "none", by |-> None]]
    /\ conn = CHOOSE n \in Nodes : TRUE
    /\ down = <<>>
    /\ stopped = {}
    /\ faults = 0

----------------------------------------------------------------------------
\* MalvDistributedCoordinationService and ChatRunRegistryService

Fault == faults < MaxFaults /\ faults' = faults + 1

isCancelRequested(n, m) == IF redis THEN m \in marker ELSE m \in fallback[n]

recordCancelRequested(n, m) ==
    IF redis THEN marker' = marker \cup {m} /\ UNCHANGED fallback
             ELSE fallback' = [fallback EXCEPT ![n] = @ \cup {m}] /\ UNCHANGED marker

clearCancelRequested(n, m) ==
    /\ fallback' = [fallback EXCEPT ![n] = @ \ {m}]
    /\ marker' = IF redis THEN marker \ {m} ELSE marker

\* The registration of a turn is the latest one of its id, whichever run made it.
isCancelled(n, m) ==
    \/ registry[n][m] # None /\ run[registry[n][m]].aborted
    \/ isCancelRequested(n, m)

registerTurn(r) == registry' = [registry EXCEPT ![run[r].node][run[r].m] = r]

\* A key of Redis expires; Redis comes and goes.
MarkerExpires(m) ==
    /\ m \in marker
    /\ Fault
    /\ marker' = marker \ {m}
    /\ UNCHANGED <<run, registry, redis, fallback, cancels, msg, stopped, wireVars>>

RedisFlips ==
    /\ Fault
    /\ redis' = ~redis
    /\ UNCHANGED <<run, registry, marker, fallback, cancels, msg, stopped, wireVars>>

----------------------------------------------------------------------------
\* chat:cancel

onChatCancel(c) ==
    /\ c \in cancels /\ ~c.marked
    /\ recordCancelRequested(c.node, c.m)
    /\ cancels' = (cancels \ {c}) \cup {[c EXCEPT !.marked = TRUE]}
    /\ stopped' = stopped \cup {c.m}
    /\ UNCHANGED <<run, registry, redis, msg, wireVars, faults>>

\* requestCancel after the marker: the abort of the registered run, if any.
requestCancel(c) ==
    /\ c \in cancels /\ c.marked
    /\ cancels' = cancels \ {c}
    /\ LET r == registry[c.node][c.m]
       IN  run' = IF r = None THEN run ELSE [run EXCEPT ![r].aborted = TRUE]
    /\ UNCHANGED <<registry, redis, marker, fallback, msg, stopped, wireVars, faults>>

----------------------------------------------------------------------------
\* chat:send

Move(r, pc) == run' = [run EXCEPT ![r].pc = pc]
Says(type, r, terminal) == [type |-> type, r |-> r, terminal |-> terminal]

\* Events go to the sockets of the user's room: to nobody while there is none.
Emit(events) == down' = IF conn = None THEN down ELSE down \o events
Answer(r, type) ==
    down' = IF run[r].heard THEN Append(down, Says(type, r, "completed")) ELSE down

KeepRegistry == UNCHANGED <<registry, redis, marker, fallback, cancels, stopped>>

\* The rollout gate and the rate limit refuse, or the turn is registered and
\* acknowledged before any work.  They await, so that a later cancel may overtake.
onChatSend(r) ==
    /\ run[r].pc = "sent"
    /\ \/ /\ Fault
          /\ Answer(r, "refused")
          /\ run' = [run EXCEPT ![r] = Gone(r)]
          /\ UNCHANGED registry
       \/ /\ registerTurn(r)
          /\ Answer(r, "ack")
          /\ Move(r, "start")
          /\ UNCHANGED faults
    /\ UNCHANGED <<redis, marker, fallback, cancels, msg, stopped, conn>>

SaveRow(r, status) == msg' = [msg EXCEPT ![run[r].m] = [status |-> status, by |-> r]]

\* handleChat of ChatService: the kill switch or the conversation may refuse; the
\* placeholder is saved over the row of an earlier run of the turn.
SavePlaceholder(r) ==
    /\ run[r].pc = "start"
    /\ \/ /\ Fault
          /\ Emit(<<Says("error", r, "completed")>>)
          /\ Move(r, "unregister")
          /\ UNCHANGED msg
       \/ /\ SaveRow(r, "thinking")
          /\ Move(r, "infer")
          /\ UNCHANGED <<down, faults>>
    /\ UNCHANGED conn /\ KeepRegistry

\* onAssistantStreamChunk asks whether the turn is cancelled and emits later.
AskChunk(r) ==
    /\ run[r].pc = "infer" /\ ~run[r].asked /\ ~run[r].saw
    /\ ~isCancelled(run[r].node, run[r].m)
    /\ run' = [run EXCEPT ![r].asked = TRUE]
    /\ UNCHANGED <<msg, wireVars, faults>> /\ KeepRegistry

EmitChunk(r) ==
    /\ run[r].pc = "infer" /\ run[r].asked
    /\ run' = [run EXCEPT ![r].asked = FALSE, ![r].saw = TRUE]
    /\ Emit(<<Says("chunk", r, "completed")>>)
    /\ UNCHANGED <<msg, conn, faults>> /\ KeepRegistry

\* Mutant: every exception of the orchestrator counts as an abort.
EndInferenceMutant(r) ==
    /\ run[r].pc = "infer" /\ ~run[r].asked
    /\ \/ Move(r, "deliver") /\ UNCHANGED faults
       \/ Fault /\ Move(r, "interrupted")
    /\ UNCHANGED <<msg, wireVars>> /\ KeepRegistry

\* The orchestrator ends: with a reply, whatever was cancelled meanwhile; with an
\* AbortError, if this run's signal was aborted; or with another exception.
EndInference(r) ==
    /\ run[r].pc = "infer" /\ ~run[r].asked
    /\ \/ Move(r, "deliver") /\ UNCHANGED faults
       \/ run[r].aborted /\ Move(r, "interrupted") /\ UNCHANGED faults
       \/ Fault /\ Move(r, "failed")
    /\ UNCHANGED <<msg, wireVars>> /\ KeepRegistry

\* finalizeAssistantTurn inside handleChat, whose catch meets its failure.
SaveInterrupted(r) ==
    /\ run[r].pc = "interrupted"
    /\ \/ SaveRow(r, "interrupted") /\ Move(r, "tell") /\ UNCHANGED faults
       \/ Fault /\ Move(r, "failed") /\ UNCHANGED msg
    /\ UNCHANGED wireVars /\ KeepRegistry

TellInterrupted(r) ==
    /\ run[r].pc = "tell"
    /\ Emit(<<Says("done", r, "interrupted")>>)
    /\ Move(r, "unregister")
    /\ UNCHANGED <<msg, conn, faults>> /\ KeepRegistry

\* The catch of handleChat writes the notice that the agent is unavailable, which
\* the gateway then delivers as a reply; when that write fails too, the gateway
\* finishes with what was streamed, if anything.
SafeReply(r) ==
    /\ run[r].pc = "failed"
    /\ \/ /\ SaveRow(r, "done")
          /\ run' = [run EXCEPT ![r].pc = "deliver", ![r].deferred = FALSE]
          /\ UNCHANGED <<down, faults>>
       \/ /\ Fault
          /\ UNCHANGED msg
          /\ IF run[r].saw
               THEN /\ Emit(<<Says("done", r, "partial")>>)
                    /\ run' = [run EXCEPT ![r].pc = "finalize", ![r].terminal = "partial"]
               ELSE /\ Emit(<<Says("error", r, "completed")>>)
                    /\ Move(r, "unregister")
    /\ UNCHANGED conn /\ KeepRegistry

\* A reply that was not streamed goes out whole, unless the turn is cancelled;
\* assistant_done follows in the same step.
Deliver(r) ==
    /\ run[r].pc = "deliver"
    /\ LET cut == ~run[r].saw /\ isCancelled(run[r].node, run[r].m)
           end == IF cut THEN "interrupted" ELSE "completed"
           body == IF run[r].saw \/ cut THEN <<>> ELSE <<Says("chunk", r, end)>>
       IN  /\ Emit(Append(body, Says("done", r, end)))
           /\ run' = [run EXCEPT ![r].pc = "finalize", ![r].terminal = end]
    /\ UNCHANGED <<msg, conn, faults>> /\ KeepRegistry

\* Mutant: a turn that was cut before its first word is not finalized.
FinalizeMutant(r) ==
    /\ run[r].pc = "finalize"
    /\ Move(r, "unregister")
    /\ IF run[r].deferred /\ run[r].terminal # "interrupted"
         THEN \/ SaveRow(r, "done") /\ UNCHANGED faults
              \/ Fault /\ UNCHANGED msg
         ELSE UNCHANGED <<msg, faults>>
    /\ UNCHANGED wireVars /\ KeepRegistry

\* finalizeAssistantTurn after assistant_done; a failure is logged.
Finalize(r) ==
    /\ run[r].pc = "finalize"
    /\ Move(r, "unregister")
    /\ IF run[r].deferred
         THEN \/ /\ SaveRow(r, IF run[r].terminal = "interrupted" THEN "interrupted" ELSE "done")
                 /\ UNCHANGED faults
              \/ Fault /\ UNCHANGED msg
         ELSE UNCHANGED <<msg, faults>>
    /\ UNCHANGED wireVars /\ KeepRegistry

\* Mutant: the registration stays after the run.
unregisterTurnMutant(r) ==
    /\ run[r].pc = "unregister"
    /\ clearCancelRequested(run[r].node, run[r].m)
    /\ run' = [run EXCEPT ![r] = Gone(r)]
    /\ UNCHANGED <<registry, redis, cancels, msg, stopped, wireVars, faults>>

unregisterTurn(r) ==
    /\ run[r].pc = "unregister"
    /\ registry' = [registry EXCEPT ![run[r].node][run[r].m] = None]
    /\ clearCancelRequested(run[r].node, run[r].m)
    /\ run' = [run EXCEPT ![r] = Gone(r)]
    /\ UNCHANGED <<redis, cancels, msg, stopped, wireVars, faults>>

----------------------------------------------------------------------------
\* A replica dies, and the socket with it if it was there.
Crash(n) ==
    /\ Fault
    /\ run' = [r \in Runs |-> IF run[r].node = n /\ run[r].pc \notin {"free", "ended"}
                                THEN [Gone(r) EXCEPT !.pc = "dead"] ELSE run[r]]
    /\ registry' = [registry EXCEPT ![n] = [m \in Turns |-> None]]
    /\ fallback' = [fallback EXCEPT ![n] = {}]
    /\ cancels' = {c \in cancels : c.node # n}
    /\ IF conn = n THEN conn' = None /\ down' = <<>> ELSE UNCHANGED wireVars
    /\ UNCHANGED <<redis, marker, msg, stopped>>

RunStep(r) ==
    \/ onChatSend(r) \/ SavePlaceholder(r) \/ EmitChunk(r) \/ EndInference(r)
    \/ SaveInterrupted(r) \/ TellInterrupted(r) \/ SafeReply(r) \/ Deliver(r)
    \/ Finalize(r) \/ unregisterTurn(r)

CancelStep == \E c \in cancels : onChatCancel(c) \/ requestCancel(c)

ServerStep == CancelStep \/ \E r \in Runs : RunStep(r) \/ AskChunk(r)

ServerFault ==
    \/ RedisFlips
    \/ \E m \in Turns : MarkerExpires(m)
    \/ \E n \in Nodes : Crash(n)
=============================================================================
