----------------------------- MODULE ChatProofs -----------------------------
(***************************************************************************)
(* Safety of ChatTurns for any number of turns, sends, replicas and faults *)
(* (the faults of any kind that MaxFaults counts): typing, the registry,   *)
(* what the rows of the database say, and the rows of the tab.             *)
(***************************************************************************)
EXTENDS ChatTurns, SequenceTheorems, TLAPS

InFlight == PC \ {"free", "sent", "ended", "dead"}

\* The statements after which a run will still write the end of its message.
Writing == {"infer", "interrupted", "failed", "deliver", "finalize"}

\* A run x, with the turns st that were stopped.
RunOK(x, st) ==
    /\ x.pc \notin {"free", "ended", "dead"} => x.m \in Turns /\ x.node \in Nodes
    /\ x.aborted => x.m \in st
    /\ x.pc = "interrupted" => x.m \in st
    /\ x.pc = "finalize" /\ x.terminal = "interrupted" => x.m \in st
    /\ ~x.deferred => x.pc \in {"deliver", "finalize", "unregister", "ended", "dead"}

\* A run that may have left a placeholder, with f faults.
MayOwe(x, f) ==
    \/ x.pc \in Writing /\ x.deferred
    \/ x.pc = "dead"
    \/ x.pc \in {"unregister", "ended"} /\ f > 0

\* Words and refusals come from a run.
Voiced == {e \in Event : e.type \in {"chunk", "done", "refused", "ack"} => e.r \in Runs}

RunsOK == \A r \in Runs : RunOK(run[r], stopped)
StopsOK ==
    /\ marker \subseteq stopped
    /\ \A n \in Nodes : fallback[n] \subseteq stopped
    /\ \A c \in cancels : c.marked => c.m \in stopped
Owed == \A m \in Turns : msg[m].status = "thinking" =>
            /\ msg[m].by \in Runs /\ run[msg[m].by].m = m
            /\ MayOwe(run[msg[m].by], faults)

ServerInv ==
    /\ ServerTypeOK
    /\ down \in Seq(Voiced)
    /\ RunsOK
    /\ StopsOK
    /\ RegisteredIsInFlight
    /\ InterruptedWasStopped
    /\ Owed

\* No reply and no stop has ended the active row, although a timer may have.
ActiveIsOpen == active # None => active \notin finalized

RowsInv ==
    /\ row \in [Turns -> Status]
    /\ active \in Turns \cup {None}
    /\ {streamed, frame, generating} \subseteq BOOLEAN
    /\ finalized \subseteq Turns
    /\ ActiveIsOpen

ClientInv ==
    /\ RowsInv
    /\ shown \in [row : [Turns -> Status], generating : BOOLEAN]
    /\ {scope, retry} \subseteq Turns \cup {None}
    /\ acking \in Runs \cup {None}
    /\ ignoring \in BOOLEAN

ChatInv == ServerInv /\ ClientInv

-----------------------------------------------------------------------------
\* Events

LEMMA SaysVoiced ==
    ASSUME NEW r \in Runs, NEW terminal \in Terminals,
           NEW type \in {"ack", "refused", "chunk", "done", "error"}
    PROVE  Says(type, r, terminal) \in Voiced
BY DEF Says, Voiced, Event

LEMMA Emits ==
    ASSUME down \in Seq(Voiced), NEW events \in Seq(Voiced), Emit(events)
    PROVE  down' \in Seq(Voiced)
BY ConcatProperties DEF Emit

LEMMA EmitsOne ==
    ASSUME down \in Seq(Voiced), NEW r \in Runs, NEW terminal \in Terminals,
           NEW type \in {"ack", "refused", "chunk", "done", "error"},
           Emit(<<Says(type, r, terminal)>>)
    PROVE  down' \in Seq(Voiced)
<1>1. Says(type, r, terminal) \in Voiced
  BY SaysVoiced
<1>2. <<Says(type, r, terminal)>> \in Seq(Voiced)
  BY <1>1
<1>. QED  BY <1>2, Emits

LEMMA Answers ==
    ASSUME down \in Seq(Voiced), NEW r \in Runs, NEW type \in {"ack", "refused"},
           Answer(r, type)
    PROVE  down' \in Seq(Voiced)
<1>1. Says(type, r, "completed") \in Voiced
  BY SaysVoiced DEF Terminals
<1>. QED  BY <1>1, AppendProperties DEF Answer

LEMMA VoicedIsEvent == Seq(Voiced) \subseteq Seq(Event)
<1>1. Voiced \subseteq Event
  BY DEF Voiced
<1>. QED  BY <1>1, SeqMonotonic

-----------------------------------------------------------------------------
\* Steps of the server

FaultsOK == faults' \in 0 .. MaxFaults /\ faults' >= faults

LEMMA CountsFaults ==
    ASSUME ServerInv, UNCHANGED faults \/ Fault
    PROVE  /\ FaultsOK /\ faults \in Nat
           /\ Fault => faults' > 0
BY ChatAssumption DEF FaultsOK, Fault, ServerInv, ServerTypeOK

\* A run goes on while it is in flight; it may write the row of its message.
LEMMA RunGoesOn ==
    ASSUME ServerInv, FaultsOK, KeepRegistry, UNCHANGED conn, down' \in Seq(Voiced),
           NEW r \in Runs, NEW x \in RunRec, run' = [run EXCEPT ![r] = x],
           run[r].pc \in InFlight, x.pc \in InFlight,
           x.m = run[r].m, x.node = run[r].node, RunOK(x, stopped),
           \/ /\ UNCHANGED msg
              /\ MayOwe(run[r], faults) => MayOwe(x, faults')
           \/ \E status \in RowStatus \ {"none"} :
                /\ SaveRow(r, status)
                /\ status = "interrupted" => x.m \in stopped
                /\ status = "thinking" => MayOwe(x, faults')
    PROVE  ServerInv'
<1>1. run \in [Runs -> RunRec] /\ msg \in [Turns -> MsgRow] /\ x.m \in Turns /\ faults \in Nat
  BY DEF ServerInv, ServerTypeOK, RunOK, InFlight
<1>2. /\ run' \in [Runs -> RunRec] /\ run'[r] = x
      /\ \A k \in Runs \ {r} : run'[k] = run[k]
  BY <1>1
<1>3. /\ msg' \in [Turns -> MsgRow]
      /\ \A m \in Turns : msg'[m] = msg[m] \/ (m = x.m /\ msg'[m].by = r)
  <2>1. ASSUME NEW status \in RowStatus, SaveRow(r, status)
        PROVE  /\ msg' \in [Turns -> MsgRow]
               /\ \A m \in Turns : msg'[m] = msg[m] \/ (m = x.m /\ msg'[m].by = r)
    <3>1. [status |-> status, by |-> r] \in MsgRow
      BY DEF MsgRow
    <3>. QED  BY <1>1, <2>1, <3>1 DEF SaveRow
  <2>. QED  BY <1>1, <2>1
<1>4. ServerTypeOK'
  BY <1>2, <1>3, VoicedIsEvent DEF ServerInv, ServerTypeOK, KeepRegistry, FaultsOK
<1>5. RunsOK'
  BY <1>2 DEF ServerInv, RunsOK, KeepRegistry
<1>6. StopsOK'
  BY DEF ServerInv, StopsOK, KeepRegistry
<1>7. RegisteredIsInFlight'
  BY <1>2 DEF ServerInv, RegisteredIsInFlight, KeepRegistry, InFlight
<1>8. InterruptedWasStopped'
  <2>1. ASSUME NEW status \in RowStatus, SaveRow(r, status),
               status = "interrupted" => x.m \in stopped,
               NEW m \in Turns, msg'[m].status = "interrupted"
        PROVE  m \in stopped
    BY <1>1, <2>1 DEF ServerInv, InterruptedWasStopped, SaveRow
  <2>. QED  BY <2>1 DEF ServerInv, InterruptedWasStopped, KeepRegistry
<1>9. Owed'
  <2>. SUFFICES ASSUME NEW m \in Turns, msg'[m].status = "thinking"
                PROVE  /\ msg'[m].by \in Runs /\ run'[msg'[m].by].m = m
                       /\ MayOwe(run'[msg'[m].by], faults')
    BY DEF Owed
  <2>1. ASSUME NEW k \in Runs, MayOwe(run[k], faults) PROVE MayOwe(run[k], faults')
    <3>1. faults' \in Nat /\ faults' >= faults
      BY DEF FaultsOK
    <3>. HIDE DEF FaultsOK
    <3>. QED  BY <1>1, <2>1, <3>1 DEF MayOwe
  <2>2. CASE UNCHANGED msg /\ (MayOwe(run[r], faults) => MayOwe(x, faults'))
    BY <1>2, <2>1, <2>2 DEF ServerInv, Owed
  <2>3. ASSUME NEW status \in RowStatus, SaveRow(r, status),
               status = "thinking" => MayOwe(x, faults')
        PROVE  /\ msg'[m].by \in Runs /\ run'[msg'[m].by].m = m
               /\ MayOwe(run'[msg'[m].by], faults')
    <3>1. CASE m = x.m
      BY <1>1, <1>2, <2>3, <3>1 DEF SaveRow
    <3>2. CASE m # x.m
      <4>1. msg'[m] = msg[m]
        BY <1>1, <2>3, <3>2 DEF SaveRow
      <4>2. msg[m].by # r
        BY <3>2, <4>1 DEF ServerInv, Owed
      <4>. QED  BY <1>2, <2>1, <4>1, <4>2 DEF ServerInv, Owed
    <3>. QED  BY <3>1, <3>2
  <2>. QED  BY <2>2, <2>3
<1>. QED  BY <1>4, <1>5, <1>6, <1>7, <1>8, <1>9 DEF ServerInv

LEMMA RunFields ==
    ASSUME ServerInv, NEW r \in Runs
    PROVE  /\ run \in [Runs -> RunRec] /\ run[r] \in RunRec
           /\ RunOK(run[r], stopped)
           /\ run[r].pc \in InFlight \cup {"sent"} => run[r].m \in Turns /\ run[r].node \in Nodes
<1>1. run \in [Runs -> RunRec] /\ RunOK(run[r], stopped)
  BY DEF ServerInv, ServerTypeOK, RunsOK
<1>. QED  BY <1>1 DEF RunOK, InFlight

LEMMA Moves ==
    ASSUME ServerInv, FaultsOK, KeepRegistry, UNCHANGED conn, down' \in Seq(Voiced),
           NEW r \in Runs, NEW pc \in InFlight, run[r].pc \in InFlight, Move(r, pc),
           pc = "interrupted" => run[r].m \in stopped,
           pc # "finalize",
           ~run[r].deferred => pc = "unregister",
           \/ /\ UNCHANGED msg
              /\ MayOwe(run[r], faults) =>
                   \/ pc \in Writing /\ run[r].deferred
                   \/ pc = "unregister" /\ faults' > 0
           \/ \E status \in RowStatus \ {"none"} :
                /\ SaveRow(r, status)
                /\ status = "interrupted" => run[r].m \in stopped
                /\ status = "thinking" => pc \in Writing /\ run[r].deferred
    PROVE  ServerInv'
<1>. DEFINE x == [run[r] EXCEPT !.pc = pc]
<1>1. run[r] \in RunRec /\ run \in [Runs -> RunRec] /\ RunOK(run[r], stopped)
  BY RunFields
<1>2. /\ x \in RunRec /\ x.pc = pc /\ x.m = run[r].m /\ x.node = run[r].node
      /\ x.aborted = run[r].aborted /\ x.deferred = run[r].deferred
  BY <1>1 DEF RunRec, InFlight
<1>3. run' = [run EXCEPT ![r] = x]
  BY <1>1 DEF Move
<1>. HIDE DEF x
<1>4. RunOK(x, stopped)
  BY <1>1, <1>2 DEF RunOK, InFlight
<1>5. /\ pc \in Writing /\ run[r].deferred => MayOwe(x, faults')
      /\ pc = "unregister" /\ faults' > 0 => MayOwe(x, faults')
  BY <1>2 DEF MayOwe
<1>. QED  BY <1>2, <1>3, <1>4, <1>5, RunGoesOn

LEMMA BeginningKeeps ==
    ASSUME ServerInv, NEW r \in Runs,
           SavePlaceholder(r) \/ AskChunk(r) \/ EmitChunk(r) \/ EndInference(r)
    PROVE  ServerInv'
<1>1. /\ run[r] \in RunRec /\ run \in [Runs -> RunRec] /\ RunOK(run[r], stopped)
      /\ down \in Seq(Voiced)
  BY RunFields DEF ServerInv
<1>2. CASE SavePlaceholder(r)
  <2>1. /\ KeepRegistry /\ UNCHANGED conn /\ run[r].pc = "start" /\ run[r].deferred
        /\ ~MayOwe(run[r], faults)
    BY <1>1, <1>2 DEF SavePlaceholder, RunOK, RunRec, MayOwe, Writing
  <2>2. CASE Fault /\ Emit(<<Says("error", r, "completed")>>) /\ Move(r, "unregister")
             /\ UNCHANGED msg
    <3>1. down' \in Seq(Voiced)
      BY <1>1, <2>2, EmitsOne DEF Terminals
    <3>. QED  BY <2>1, <2>2, <3>1, CountsFaults, Moves DEF InFlight, PC
  <2>3. CASE SaveRow(r, "thinking") /\ Move(r, "infer") /\ UNCHANGED <<down, faults>>
    BY <1>1, <2>1, <2>3, CountsFaults, Moves DEF InFlight, PC, RowStatus, Writing
  <2>. QED  BY <1>2, <2>2, <2>3 DEF SavePlaceholder
<1>3. CASE AskChunk(r)
  <2>. DEFINE x == [run[r] EXCEPT !.asked = TRUE]
  <2>1. /\ KeepRegistry /\ UNCHANGED <<msg, conn, down, faults>> /\ run[r].pc = "infer"
        /\ run' = [run EXCEPT ![r] = x]
    BY <1>1, <1>3 DEF AskChunk, wireVars
  <2>2. /\ x \in RunRec /\ x.pc = "infer" /\ x.m = run[r].m /\ x.node = run[r].node
        /\ x.aborted = run[r].aborted /\ x.deferred = run[r].deferred
    BY <1>1, <2>1 DEF RunRec
  <2>. HIDE DEF x
  <2>3. RunOK(x, stopped) /\ (MayOwe(run[r], faults) => MayOwe(x, faults))
    BY <1>1, <2>1, <2>2 DEF RunOK, MayOwe
  <2>. QED  BY <1>1, <2>1, <2>2, <2>3, CountsFaults, RunGoesOn DEF InFlight, PC
<1>4. CASE EmitChunk(r)
  <2>. DEFINE x == [run[r] EXCEPT !.asked = FALSE, !.saw = TRUE]
  <2>1. /\ KeepRegistry /\ UNCHANGED <<msg, conn, faults>> /\ run[r].pc = "infer"
        /\ run' = [run EXCEPT ![r] = x]
    BY <1>1, <1>4 DEF EmitChunk
  <2>2. down' \in Seq(Voiced)
    BY <1>1, <1>4, EmitsOne DEF Terminals, EmitChunk
  <2>3. /\ x \in RunRec /\ x.pc = "infer" /\ x.m = run[r].m /\ x.node = run[r].node
        /\ x.aborted = run[r].aborted /\ x.deferred = run[r].deferred
    BY <1>1, <2>1 DEF RunRec
  <2>. HIDE DEF x
  <2>4. RunOK(x, stopped) /\ (MayOwe(run[r], faults) => MayOwe(x, faults))
    BY <1>1, <2>1, <2>3 DEF RunOK, MayOwe
  <2>. QED  BY <2>1, <2>2, <2>3, <2>4, CountsFaults, RunGoesOn DEF InFlight, PC
<1>5. CASE EndInference(r)
  <2>1. /\ KeepRegistry /\ UNCHANGED <<msg, conn, down>> /\ run[r].pc = "infer"
        /\ run[r].deferred
    BY <1>1, <1>5 DEF EndInference, wireVars, RunOK, RunRec
  <2>2. PICK pc \in {"deliver", "interrupted", "failed"} :
            /\ Move(r, pc)
            /\ UNCHANGED faults \/ Fault
            /\ pc = "interrupted" => run[r].aborted
    BY <1>5 DEF EndInference
  <2>. QED  BY <1>1, <2>1, <2>2, CountsFaults, Moves DEF InFlight, PC, Writing, RunOK
<1>. QED  BY <1>2, <1>3, <1>4, <1>5

\* What isCancelled says is the doing of a chat:cancel.
LEMMA CancelledWasStopped ==
    ASSUME ServerInv, NEW n \in Nodes, NEW m \in Turns, isCancelled(n, m)
    PROVE  m \in stopped
<1>1. ASSUME registry[n][m] # None, run[registry[n][m]].aborted PROVE m \in stopped
  <2>1. registry[n][m] \in Runs /\ run[registry[n][m]].m = m
    BY <1>1 DEF ServerInv, ServerTypeOK, RegisteredIsInFlight
  <2>. QED  BY <1>1, <2>1 DEF ServerInv, RunsOK, RunOK
<1>2. ASSUME isCancelRequested(n, m) PROVE m \in stopped
  BY <1>2 DEF isCancelRequested, ServerInv, StopsOK
<1>. QED  BY <1>1, <1>2 DEF isCancelled

LEMMA InterruptionKeeps ==
    ASSUME ServerInv, NEW r \in Runs, SaveInterrupted(r) \/ TellInterrupted(r)
    PROVE  ServerInv'
<1>1. /\ run[r] \in RunRec /\ RunOK(run[r], stopped) /\ down \in Seq(Voiced)
  BY RunFields DEF ServerInv
<1>2. CASE SaveInterrupted(r)
  <2>1. /\ KeepRegistry /\ UNCHANGED <<conn, down>> /\ run[r].pc = "interrupted"
        /\ run[r].deferred /\ run[r].m \in stopped
    BY <1>1, <1>2 DEF SaveInterrupted, wireVars, RunOK, RunRec
  <2>2. CASE SaveRow(r, "interrupted") /\ Move(r, "tell") /\ UNCHANGED faults
    BY <1>1, <2>1, <2>2, CountsFaults, Moves DEF InFlight, PC, RowStatus
  <2>3. CASE Fault /\ Move(r, "failed") /\ UNCHANGED msg
    BY <1>1, <2>1, <2>3, CountsFaults, Moves DEF InFlight, PC, Writing
  <2>. QED  BY <1>2, <2>2, <2>3 DEF SaveInterrupted
<1>3. CASE TellInterrupted(r)
  <2>1. /\ KeepRegistry /\ UNCHANGED <<msg, conn, faults>> /\ run[r].pc = "tell"
        /\ Move(r, "unregister") /\ ~MayOwe(run[r], faults)
    BY <1>3 DEF TellInterrupted, MayOwe, Writing
  <2>2. down' \in Seq(Voiced)
    BY <1>1, <1>3, EmitsOne DEF Terminals, TellInterrupted
  <2>. QED  BY <2>1, <2>2, CountsFaults, Moves DEF InFlight, PC
<1>. QED  BY <1>2, <1>3

LEMMA SafeReplyKeeps ==
    ASSUME ServerInv, NEW r \in Runs, SafeReply(r)
    PROVE  ServerInv'
<1>1. /\ run[r] \in RunRec /\ run \in [Runs -> RunRec] /\ RunOK(run[r], stopped)
      /\ down \in Seq(Voiced)
      /\ KeepRegistry /\ UNCHANGED conn /\ run[r].pc = "failed" /\ run[r].deferred
  BY RunFields DEF ServerInv, SafeReply, RunOK, RunRec
<1>2. CASE /\ SaveRow(r, "done")
           /\ run' = [run EXCEPT ![r].pc = "deliver", ![r].deferred = FALSE]
           /\ UNCHANGED <<down, faults>>
  <2>. DEFINE x == [run[r] EXCEPT !.pc = "deliver", !.deferred = FALSE]
  <2>1. run' = [run EXCEPT ![r] = x]
    BY <1>1, <1>2
  <2>2. /\ x \in RunRec /\ x.pc = "deliver" /\ x.m = run[r].m /\ x.node = run[r].node
        /\ x.aborted = run[r].aborted
    BY <1>1 DEF RunRec, PC
  <2>. HIDE DEF x
  <2>3. RunOK(x, stopped)
    BY <1>1, <2>2 DEF RunOK
  <2>4. /\ FaultsOK /\ down' \in Seq(Voiced) /\ x.pc \in InFlight /\ run[r].pc \in InFlight
        /\ "done" \in RowStatus \ {"none"} /\ SaveRow(r, "done")
    BY <1>1, <1>2, <2>2, CountsFaults DEF InFlight, PC, RowStatus
  <2>. QED  BY <1>1, <2>1, <2>2, <2>3, <2>4, RunGoesOn
<1>3. CASE /\ Fault /\ UNCHANGED msg
           /\ Emit(<<Says("done", r, "partial")>>)
           /\ run' = [run EXCEPT ![r].pc = "finalize", ![r].terminal = "partial"]
  <2>. DEFINE x == [run[r] EXCEPT !.pc = "finalize", !.terminal = "partial"]
  <2>1. run' = [run EXCEPT ![r] = x]
    BY <1>1, <1>3
  <2>2. /\ x \in RunRec /\ x.pc = "finalize" /\ x.m = run[r].m /\ x.node = run[r].node
        /\ x.aborted = run[r].aborted /\ x.deferred /\ x.terminal = "partial"
    BY <1>1 DEF RunRec, PC, Terminals
  <2>. HIDE DEF x
  <2>3. RunOK(x, stopped) /\ MayOwe(x, faults')
    BY <1>1, <2>2 DEF RunOK, MayOwe, Writing
  <2>4. down' \in Seq(Voiced)
    BY <1>1, <1>3, EmitsOne DEF Terminals
  <2>. QED  BY <1>1, <1>3, <2>1, <2>2, <2>3, <2>4, CountsFaults, RunGoesOn DEF InFlight, PC
<1>4. CASE /\ Fault /\ UNCHANGED msg
           /\ Emit(<<Says("error", r, "completed")>>) /\ Move(r, "unregister")
  <2>1. down' \in Seq(Voiced)
    BY <1>1, <1>4, EmitsOne DEF Terminals
  <2>. QED  BY <1>1, <1>4, <2>1, CountsFaults, Moves DEF InFlight, PC
<1>. QED  BY <1>2, <1>3, <1>4 DEF SafeReply

LEMMA DeliverKeeps ==
    ASSUME ServerInv, NEW r \in Runs, Deliver(r)
    PROVE  ServerInv'
<1>1. /\ run[r] \in RunRec /\ run \in [Runs -> RunRec] /\ RunOK(run[r], stopped)
      /\ down \in Seq(Voiced)
      /\ KeepRegistry /\ UNCHANGED <<msg, conn, faults>> /\ run[r].pc = "deliver"
      /\ run[r].m \in Turns /\ run[r].node \in Nodes
  BY RunFields DEF ServerInv, Deliver, InFlight, PC
<1>. DEFINE cut == ~run[r].saw /\ isCancelled(run[r].node, run[r].m)
            end == IF cut THEN "interrupted" ELSE "completed"
            body == IF run[r].saw \/ cut THEN <<>> ELSE <<Says("chunk", r, end)>>
            x == [run[r] EXCEPT !.pc = "finalize", !.terminal = end]
<1>2. Emit(Append(body, Says("done", r, end))) /\ run' = [run EXCEPT ![r] = x]
  BY <1>1 DEF Deliver
<1>3. cut => run[r].m \in stopped
  BY <1>1, CancelledWasStopped
<1>. HIDE DEF cut
<1>4. end \in Terminals /\ (end = "interrupted" => run[r].m \in stopped)
  BY <1>3 DEF Terminals
<1>. HIDE DEF end
<1>5. Says("chunk", r, end) \in Voiced /\ Says("done", r, end) \in Voiced
  BY <1>4, SaysVoiced
<1>6. body \in Seq(Voiced)
  BY <1>5
<1>. HIDE DEF body
<1>7. down' \in Seq(Voiced)
  BY <1>1, <1>2, <1>5, <1>6, AppendProperties, Emits
<1>8. /\ x \in RunRec /\ x.pc = "finalize" /\ x.m = run[r].m /\ x.node = run[r].node
      /\ x.aborted = run[r].aborted /\ x.deferred = run[r].deferred /\ x.terminal = end
  BY <1>1, <1>4 DEF RunRec, PC
<1>. HIDE DEF x
<1>9. RunOK(x, stopped) /\ (MayOwe(run[r], faults) => MayOwe(x, faults))
  BY <1>1, <1>4, <1>8 DEF RunOK, MayOwe, Writing
<1>. QED  BY <1>1, <1>2, <1>7, <1>8, <1>9, CountsFaults, RunGoesOn DEF InFlight, PC

LEMMA FinalizeKeeps ==
    ASSUME ServerInv, NEW r \in Runs, Finalize(r)
    PROVE  ServerInv'
<1>1. /\ run[r] \in RunRec /\ RunOK(run[r], stopped) /\ down \in Seq(Voiced)
      /\ KeepRegistry /\ UNCHANGED <<down, conn>> /\ run[r].pc = "finalize"
      /\ Move(r, "unregister")
  BY RunFields DEF ServerInv, Finalize, wireVars
<1>. DEFINE status == IF run[r].terminal = "interrupted" THEN "interrupted" ELSE "done"
<1>2. CASE SaveRow(r, status) /\ UNCHANGED faults
  <2>1. /\ status \in RowStatus \ {"none"} /\ status # "thinking"
        /\ status = "interrupted" => run[r].m \in stopped
    BY <1>1 DEF RunOK, RowStatus
  <2>. HIDE DEF status
  <2>. QED  BY <1>1, <1>2, <2>1, CountsFaults, Moves DEF InFlight, PC
<1>3. CASE Fault /\ UNCHANGED msg
  BY <1>1, <1>3, CountsFaults, Moves DEF InFlight, PC
<1>4. CASE ~run[r].deferred /\ UNCHANGED <<msg, faults>>
  <2>1. ~MayOwe(run[r], faults)
    BY <1>1, <1>4 DEF MayOwe
  <2>. QED  BY <1>1, <1>4, <2>1, CountsFaults, Moves DEF InFlight, PC
<1>. QED  BY <1>2, <1>3, <1>4 DEF Finalize

LEMMA GoneIs ==
    ASSUME ServerInv, NEW r \in Runs
    PROVE  /\ Gone(r) \in RunRec /\ Gone(r).pc = "ended" /\ Gone(r).m = run[r].m
           /\ ~Gone(r).aborted /\ Gone(r).deferred
BY RunFields DEF Gone, NoRun, RunRec, PC, Terminals

\* A run ends: no replica has it registered.
LEMMA RunEnds ==
    ASSUME ServerInv, FaultsOK, UNCHANGED <<redis, cancels, msg, stopped, conn>>,
           down' \in Seq(Voiced), marker' \subseteq marker,
           fallback' \in [Nodes -> SUBSET Turns], \A n \in Nodes : fallback'[n] \subseteq fallback[n],
           NEW r \in Runs, run' = [run EXCEPT ![r] = Gone(r)],
           run[r].pc \in {"sent", "unregister"},
           registry' \in [Nodes -> [Turns -> Runs \cup {None}]],
           \A n \in Nodes, m \in Turns :
               \/ registry'[n][m] = None
               \/ registry'[n][m] = registry[n][m] /\ registry[n][m] # r
    PROVE  ServerInv'
<1>. DEFINE x == Gone(r)
<1>1. run \in [Runs -> RunRec] /\ faults \in Nat /\ faults' >= faults /\ faults' \in Nat
  BY DEF ServerInv, ServerTypeOK, FaultsOK
<1>2. /\ x \in RunRec /\ x.pc = "ended" /\ x.m = run[r].m /\ ~x.aborted /\ x.deferred
  BY GoneIs
<1>. HIDE DEF x
<1>3. /\ run' \in [Runs -> RunRec] /\ run'[r] = x
      /\ \A k \in Runs \ {r} : run'[k] = run[k]
  BY <1>1, <1>2 DEF x
<1>4. ServerTypeOK'
  BY <1>3, VoicedIsEvent DEF ServerInv, ServerTypeOK, FaultsOK
<1>5. RunsOK'
  BY <1>2, <1>3 DEF ServerInv, RunsOK, RunOK
<1>6. StopsOK'
  BY DEF ServerInv, StopsOK
<1>7. RegisteredIsInFlight'
  BY <1>3 DEF ServerInv, ServerTypeOK, RegisteredIsInFlight
<1>8. Owed'
  <2>1. ASSUME NEW k \in Runs, MayOwe(run[k], faults) PROVE MayOwe(run'[k], faults')
    BY <1>1, <1>2, <1>3, <2>1 DEF MayOwe, Writing
  <2>2. \A k \in Runs : run'[k].m = run[k].m
    BY <1>2, <1>3
  <2>. QED  BY <2>1, <2>2 DEF ServerInv, Owed
<1>9. InterruptedWasStopped'
  BY DEF ServerInv, InterruptedWasStopped
<1>. QED  BY <1>4, <1>5, <1>6, <1>7, <1>8, <1>9 DEF ServerInv

LEMMA UnregisterKeeps ==
    ASSUME ServerInv, NEW r \in Runs, unregisterTurn(r)
    PROVE  ServerInv'
<1>. DEFINE n == run[r].node
            t == run[r].m
<1>1. /\ UNCHANGED <<redis, cancels, msg, stopped, conn, down, faults>>
      /\ run' = [run EXCEPT ![r] = Gone(r)] /\ run[r].pc = "unregister"
      /\ registry' = [registry EXCEPT ![n][t] = None]
      /\ n \in Nodes /\ t \in Turns
  BY RunFields DEF unregisterTurn, wireVars, InFlight, PC
<1>2. /\ registry \in [Nodes -> [Turns -> Runs \cup {None}]]
      /\ fallback \in [Nodes -> SUBSET Turns] /\ down \in Seq(Voiced)
  BY DEF ServerInv, ServerTypeOK
<1>3. /\ marker' \subseteq marker /\ fallback' \in [Nodes -> SUBSET Turns]
      /\ \A k \in Nodes : fallback'[k] \subseteq fallback[k]
  BY <1>1, <1>2 DEF unregisterTurn, clearCancelRequested
<1>4. \A k \in Nodes, m \in Turns : registry[k][m] = r => k = n /\ m = t
  BY ChatAssumption DEF ServerInv, RegisteredIsInFlight
<1>. HIDE DEF n, t
<1>5. /\ registry' \in [Nodes -> [Turns -> Runs \cup {None}]]
      /\ \A k \in Nodes, m \in Turns :
           registry'[k][m] = IF k = n /\ m = t THEN None ELSE registry[k][m]
  BY <1>1, <1>2
<1>6. ASSUME NEW k \in Nodes, NEW m \in Turns
      PROVE  \/ registry'[k][m] = None
             \/ registry'[k][m] = registry[k][m] /\ registry[k][m] # r
  BY <1>4, <1>5
<1>7. FaultsOK /\ down' \in Seq(Voiced)
  BY <1>1, <1>2, CountsFaults
<1>. QED  BY <1>1, <1>3, <1>5, <1>6, <1>7, RunEnds

LEMMA SendKeeps ==
    ASSUME ServerInv, NEW r \in Runs, onChatSend(r)
    PROVE  ServerInv'
<1>1. /\ run[r] \in RunRec /\ run \in [Runs -> RunRec] /\ RunOK(run[r], stopped)
      /\ registry \in [Nodes -> [Turns -> Runs \cup {None}]]
      /\ fallback \in [Nodes -> SUBSET Turns] /\ down \in Seq(Voiced)
      /\ run[r].pc = "sent" /\ run[r].node \in Nodes /\ run[r].m \in Turns
      /\ UNCHANGED <<redis, marker, fallback, cancels, msg, stopped, conn>>
      /\ r # None
  BY RunFields, ChatAssumption DEF ServerInv, ServerTypeOK, onChatSend
<1>2. \A n \in Nodes, m \in Turns : registry[n][m] # r
  BY <1>1 DEF ServerInv, RegisteredIsInFlight
<1>3. CASE Fault /\ Answer(r, "refused") /\ run' = [run EXCEPT ![r] = Gone(r)]
           /\ UNCHANGED registry
  <2>1. down' \in Seq(Voiced)
    BY <1>1, <1>3, Answers
  <2>. QED  BY <1>1, <1>2, <1>3, <2>1, CountsFaults, RunEnds
<1>4. CASE registerTurn(r) /\ Answer(r, "ack") /\ Move(r, "start") /\ UNCHANGED faults
  <2>. DEFINE x == [run[r] EXCEPT !.pc = "start"]
              n == run[r].node
              t == run[r].m
  <2>1. /\ x \in RunRec /\ x.pc = "start" /\ x.m = t /\ x.node = n
        /\ x.aborted = run[r].aborted /\ x.deferred = run[r].deferred
        /\ x.terminal = run[r].terminal
    BY <1>1 DEF RunRec, PC
  <2>2. run' = [run EXCEPT ![r] = x]
    BY <1>1, <1>4 DEF Move
  <2>. HIDE DEF x
  <2>3. /\ run' \in [Runs -> RunRec] /\ run'[r] = x
        /\ \A k \in Runs \ {r} : run'[k] = run[k]
    BY <1>1, <2>1, <2>2
  <2>4. registry' = [registry EXCEPT ![n][t] = r]
    BY <1>4 DEF registerTurn
  <2>. HIDE DEF n, t
  <2>5. n \in Nodes /\ t \in Turns
    BY <1>1 DEF n, t
  <2>6. /\ registry' \in [Nodes -> [Turns -> Runs \cup {None}]]
        /\ \A k \in Nodes, m \in Turns :
             registry'[k][m] = IF k = n /\ m = t THEN r ELSE registry[k][m]
    BY <1>1, <2>4, <2>5
  <2>7. down' \in Seq(Voiced)
    BY <1>1, <1>4, Answers
  <2>8. ServerTypeOK'
    BY <1>1, <1>4, <2>3, <2>6, <2>7, VoicedIsEvent DEF ServerInv, ServerTypeOK
  <2>9. RunsOK'
    <3>1. RunOK(x, stopped)
      BY <1>1, <2>1, <2>5 DEF RunOK, t
    <3>. QED  BY <1>1, <2>3, <3>1 DEF ServerInv, RunsOK
  <2>10. StopsOK' /\ InterruptedWasStopped'
    BY <1>1 DEF ServerInv, StopsOK, InterruptedWasStopped
  <2>11. RegisteredIsInFlight'
    <3>1. ASSUME NEW k \in Nodes, NEW m \in Turns, registry'[k][m] # None
          PROVE  LET y == run'[registry'[k][m]]
                 IN  y.pc \notin {"free", "sent", "ended", "dead"} /\ y.m = m /\ y.node = k
      <4>1. CASE k = n /\ m = t
        BY <2>1, <2>3, <2>6, <4>1
      <4>2. CASE ~(k = n /\ m = t)
        <5>1. registry'[k][m] = registry[k][m] /\ registry[k][m] \in Runs \ {r}
          BY <1>1, <1>2, <2>6, <3>1, <4>2
        <5>. QED  BY <2>3, <3>1, <5>1 DEF ServerInv, RegisteredIsInFlight
      <4>. QED  BY <4>1, <4>2
    <3>. QED  BY <3>1 DEF RegisteredIsInFlight
  <2>12. Owed'
    <3>1. ~MayOwe(run[r], faults)
      BY <1>1 DEF MayOwe, Writing
    <3>2. Owed
      BY DEF ServerInv
    <3>3. ASSUME NEW m \in Turns, msg[m].status = "thinking"
          PROVE  /\ msg[m].by \in Runs \ {r} /\ run[msg[m].by].m = m
                 /\ MayOwe(run[msg[m].by], faults)
      BY <3>1, <3>2, <3>3 DEF Owed
    <3>4. \A k \in Runs \ {r} : run'[k] = run[k]
      BY <1>1, <2>3
    <3>. QED  BY <1>1, <1>4, <3>3, <3>4 DEF Owed
  <2>. QED  BY <2>7, <2>8, <2>9, <2>10, <2>11, <2>12 DEF ServerInv
<1>. QED  BY <1>3, <1>4 DEF onChatSend

-----------------------------------------------------------------------------
\* chat:cancel, Redis and crashes

LEMMA CancelKeeps ==
    ASSUME ServerInv, NEW c \in cancels, onChatCancel(c) \/ requestCancel(c)
    PROVE  ServerInv'
<1>1. /\ cancels \subseteq Cancel /\ c \in Cancel /\ c.m \in Turns /\ c.node \in Nodes
      /\ marker \subseteq Turns /\ fallback \in [Nodes -> SUBSET Turns] /\ stopped \subseteq Turns
      /\ run \in [Runs -> RunRec] /\ registry \in [Nodes -> [Turns -> Runs \cup {None}]]
  BY DEF ServerInv, ServerTypeOK, Cancel
<1>2. CASE onChatCancel(c)
  <2>1. /\ UNCHANGED <<run, registry, redis, msg, conn, down, faults>>
        /\ stopped' = stopped \cup {c.m}
    BY <1>2 DEF onChatCancel, wireVars
  <2>2. [c EXCEPT !.marked = TRUE] \in Cancel /\ [c EXCEPT !.marked = TRUE].m = c.m
    BY <1>1 DEF Cancel
  <2>3. cancels' \subseteq Cancel /\ \A d \in cancels' : d \in cancels \/ d.m = c.m
    BY <1>1, <1>2, <2>2 DEF onChatCancel
  <2>4. /\ marker' \subseteq marker \cup {c.m} /\ fallback' \in [Nodes -> SUBSET Turns]
        /\ \A n \in Nodes : fallback'[n] \subseteq fallback[n] \cup {c.m}
    BY <1>1, <1>2 DEF onChatCancel, recordCancelRequested
  <2>5. ServerTypeOK'
    BY <1>1, <2>1, <2>3, <2>4 DEF ServerInv, ServerTypeOK
  <2>6. StopsOK'
    BY <2>1, <2>3, <2>4 DEF ServerInv, StopsOK
  <2>7. RunsOK'
    BY <2>1 DEF ServerInv, RunsOK, RunOK
  <2>8. RegisteredIsInFlight' /\ InterruptedWasStopped' /\ Owed'
    BY <2>1 DEF ServerInv, RegisteredIsInFlight, InterruptedWasStopped, Owed
  <2>. QED  BY <2>1, <2>5, <2>6, <2>7, <2>8 DEF ServerInv
<1>3. CASE requestCancel(c)
  <2>. DEFINE r == registry[c.node][c.m]
  <2>1. /\ UNCHANGED <<registry, redis, marker, fallback, msg, stopped, conn, down, faults>>
        /\ cancels' \subseteq cancels /\ c.marked
        /\ run' = IF r = None THEN run ELSE [run EXCEPT ![r].aborted = TRUE]
    BY <1>3 DEF requestCancel, wireVars
  <2>2. c.m \in stopped
    BY <2>1 DEF ServerInv, StopsOK
  <2>3. r # None => r \in Runs /\ run[r].m = c.m
    BY <1>1 DEF ServerInv, RegisteredIsInFlight
  <2>4. ASSUME NEW k \in Runs
        PROVE  /\ run'[k] \in RunRec
               /\ run'[k].pc = run[k].pc /\ run'[k].m = run[k].m /\ run'[k].node = run[k].node
               /\ run'[k].deferred = run[k].deferred /\ run'[k].terminal = run[k].terminal
               /\ run'[k].aborted => run[k].aborted \/ run[k].m = c.m
    <3>1. run[k] \in RunRec
      BY <1>1
    <3>. DEFINE y == [run[k] EXCEPT !.aborted = TRUE]
    <3>2. /\ y \in RunRec /\ y.pc = run[k].pc /\ y.m = run[k].m /\ y.node = run[k].node
          /\ y.deferred = run[k].deferred /\ y.terminal = run[k].terminal
      BY <3>1 DEF RunRec
    <3>3. \/ run'[k] = run[k]
          \/ k = r /\ r # None /\ run'[k] = y
      BY <1>1, <2>1
    <3>. HIDE DEF y, r
    <3>. QED  BY <2>3, <3>1, <3>2, <3>3
  <2>5. run' \in [Runs -> RunRec]
    <3>1. run' = [k \in Runs |-> run'[k]]
      BY <1>1, <2>1
    <3>. QED  BY <2>4, <3>1
  <2>. HIDE DEF r
  <2>6. ServerTypeOK'
    BY <2>1, <2>5 DEF ServerInv, ServerTypeOK
  <2>7. RunsOK'
    BY <2>1, <2>2, <2>4 DEF ServerInv, RunsOK, RunOK
  <2>8. StopsOK' /\ InterruptedWasStopped'
    BY <2>1 DEF ServerInv, StopsOK, InterruptedWasStopped
  <2>9. RegisteredIsInFlight'
    BY <1>1, <2>1, <2>4 DEF ServerInv, RegisteredIsInFlight
  <2>10. Owed'
    BY <2>1, <2>4 DEF ServerInv, Owed, MayOwe
  <2>. QED  BY <2>1, <2>6, <2>7, <2>8, <2>9, <2>10 DEF ServerInv
<1>. QED  BY <1>2, <1>3

LEMMA WireKeeps ==
    ASSUME ServerInv, FaultsOK, UNCHANGED <<run, registry, fallback, msg, stopped>>,
           redis' \in BOOLEAN, marker' \subseteq marker, cancels' \subseteq Cancel,
           \A c \in cancels' : c \in cancels \/ ~c.marked,
           conn' \in Nodes \cup {None}, down' \in Seq(Voiced)
    PROVE  ServerInv'
<1>1. ServerTypeOK'
  BY VoicedIsEvent DEF ServerInv, ServerTypeOK, FaultsOK
<1>2. RunsOK' /\ StopsOK' /\ RegisteredIsInFlight' /\ InterruptedWasStopped'
  BY DEF ServerInv, RunsOK, StopsOK, RegisteredIsInFlight, InterruptedWasStopped
<1>3. faults \in Nat /\ faults' \in Nat /\ faults' >= faults
  BY DEF ServerInv, ServerTypeOK, FaultsOK
<1>4. Owed'
  BY <1>3 DEF ServerInv, Owed, MayOwe
<1>. QED  BY <1>1, <1>2, <1>4 DEF ServerInv

\* Several runs change; those that stay registered stay what they are.
LEMMA RunsChange ==
    ASSUME ServerInv, FaultsOK, UNCHANGED <<redis, marker, msg, stopped>>,
           conn' \in Nodes \cup {None}, down' \in Seq(Voiced), cancels' \subseteq Cancel,
           \A c \in cancels' : c \in cancels \/ ~c.marked,
           fallback' \in [Nodes -> SUBSET Turns], \A n \in Nodes : fallback'[n] \subseteq fallback[n],
           registry' \in [Nodes -> [Turns -> Runs \cup {None}]],
           run' \in [Runs -> RunRec],
           \A k \in Runs :
               /\ RunOK(run'[k], stopped)
               /\ MayOwe(run[k], faults) => MayOwe(run'[k], faults') /\ run'[k].m = run[k].m,
           \A n \in Nodes, m \in Turns :
               \/ registry'[n][m] = None
               \/ LET r == registry[n][m]
                  IN  /\ registry'[n][m] = r
                      /\ r # None =>
                           /\ run'[r].pc = run[r].pc /\ run'[r].m = run[r].m
                           /\ run'[r].node = run[r].node
    PROVE  ServerInv'
<1>1. ServerTypeOK'
  BY VoicedIsEvent DEF ServerInv, ServerTypeOK, FaultsOK
<1>2. RunsOK' /\ StopsOK' /\ InterruptedWasStopped'
  BY DEF ServerInv, RunsOK, StopsOK, InterruptedWasStopped
<1>3. RegisteredIsInFlight'
  <2>. SUFFICES ASSUME NEW n \in Nodes, NEW m \in Turns, registry'[n][m] # None
                PROVE  LET r == registry'[n][m]
                       IN  /\ run'[r].pc \notin {"free", "sent", "ended", "dead"}
                           /\ run'[r].m = m /\ run'[r].node = n
    BY DEF RegisteredIsInFlight
  <2>1. /\ run'[registry'[n][m]].pc = run[registry[n][m]].pc
        /\ run'[registry'[n][m]].m = run[registry[n][m]].m
        /\ run'[registry'[n][m]].node = run[registry[n][m]].node
        /\ registry[n][m] = registry'[n][m]
    OBVIOUS
  <2>2. LET r == registry[n][m]
        IN  /\ run[r].pc \notin {"free", "sent", "ended", "dead"}
            /\ run[r].m = m /\ run[r].node = n
    <3>1. RegisteredIsInFlight
      BY DEF ServerInv
    <3>. QED  BY <2>1, <3>1 DEF RegisteredIsInFlight
  <2>. QED  BY <2>1, <2>2
<1>4. Owed'
  BY DEF ServerInv, Owed
<1>. QED  BY <1>1, <1>2, <1>3, <1>4 DEF ServerInv

LEMMA GoneOK ==
    ASSUME ServerInv, NEW r \in Runs
    PROVE  /\ RunOK(Gone(r), stopped)
           /\ [Gone(r) EXCEPT !.pc = "dead"] \in RunRec
           /\ [Gone(r) EXCEPT !.pc = "dead"].pc = "dead"
           /\ [Gone(r) EXCEPT !.pc = "dead"].m = run[r].m
           /\ RunOK([Gone(r) EXCEPT !.pc = "dead"], stopped)
<1>. DEFINE x == Gone(r)
<1>1. x \in RunRec /\ x.pc = "ended" /\ x.m = run[r].m /\ ~x.aborted /\ x.deferred
  BY GoneIs
<1>. HIDE DEF x
<1>2. RunOK(x, stopped)
  BY <1>1 DEF RunOK
<1>. DEFINE y == [x EXCEPT !.pc = "dead"]
<1>3. y \in RunRec /\ y.pc = "dead" /\ y.m = x.m /\ y.aborted = x.aborted /\ y.deferred = x.deferred
  BY <1>1 DEF RunRec, PC
<1>. HIDE DEF y
<1>4. RunOK(y, stopped)
  BY <1>1, <1>3 DEF RunOK
<1>. QED  BY <1>1, <1>2, <1>3, <1>4 DEF x, y

LEMMA CrashKeeps ==
    ASSUME ServerInv, NEW n \in Nodes, Crash(n)
    PROVE  ServerInv'
<1>1. /\ UNCHANGED <<redis, marker, msg, stopped>> /\ FaultsOK
      /\ run' = [r \in Runs |-> IF run[r].node = n /\ run[r].pc \notin {"free", "ended"}
                                  THEN [Gone(r) EXCEPT !.pc = "dead"] ELSE run[r]]
      /\ registry' = [registry EXCEPT ![n] = [m \in Turns |-> None]]
      /\ fallback' = [fallback EXCEPT ![n] = {}]
      /\ cancels' \subseteq cancels
  BY CountsFaults DEF Crash
<1>2. /\ run \in [Runs -> RunRec] /\ registry \in [Nodes -> [Turns -> Runs \cup {None}]]
      /\ fallback \in [Nodes -> SUBSET Turns] /\ cancels \subseteq Cancel
      /\ conn \in Nodes \cup {None} /\ down \in Seq(Voiced)
      /\ faults \in Nat /\ faults' \in Nat /\ faults' >= faults
  BY <1>1 DEF ServerInv, ServerTypeOK, FaultsOK
<1>3. conn' \in Nodes \cup {None} /\ down' \in Seq(Voiced)
  <2>1. CASE conn = n /\ conn' = None /\ down' = <<>>
    BY <2>1
  <2>2. CASE UNCHANGED <<conn, down>>
    BY <1>2, <2>2
  <2>. QED  BY <2>1, <2>2 DEF Crash, wireVars
<1>4. ASSUME NEW k \in Runs
      PROVE  /\ run'[k] \in RunRec /\ RunOK(run'[k], stopped)
             /\ MayOwe(run[k], faults) => MayOwe(run'[k], faults') /\ run'[k].m = run[k].m
             /\ run[k].node # n => run'[k] = run[k]
  <2>1. CASE run[k].node = n /\ run[k].pc \notin {"free", "ended"}
    <3>1. run'[k] = [Gone(k) EXCEPT !.pc = "dead"]
      BY <1>1, <2>1
    <3>2. /\ run'[k] \in RunRec /\ RunOK(run'[k], stopped)
          /\ run'[k].pc = "dead" /\ run'[k].m = run[k].m
      BY <3>1, GoneOK
    <3>. QED  BY <2>1, <3>2 DEF MayOwe
  <2>2. CASE ~(run[k].node = n /\ run[k].pc \notin {"free", "ended"})
    <3>1. run'[k] = run[k]
      BY <1>1, <2>2
    <3>. QED  BY <1>2, <3>1, RunFields DEF MayOwe
  <2>. QED  BY <2>1, <2>2
<1>5. run' \in [Runs -> RunRec]
  BY <1>1, <1>4
<1>6. /\ fallback' \in [Nodes -> SUBSET Turns]
      /\ \A k \in Nodes : fallback'[k] \subseteq fallback[k]
      /\ registry' \in [Nodes -> [Turns -> Runs \cup {None}]]
  BY <1>1, <1>2
<1>7. ASSUME NEW k \in Nodes, NEW m \in Turns
      PROVE  \/ registry'[k][m] = None
             \/ LET r == registry[k][m]
                IN  /\ registry'[k][m] = r
                    /\ r # None =>
                         /\ run'[r].pc = run[r].pc /\ run'[r].m = run[r].m
                         /\ run'[r].node = run[r].node
  <2>1. CASE k = n
    BY <1>1, <1>2, <2>1
  <2>2. CASE k # n
    <3>1. registry'[k][m] = registry[k][m]
      BY <1>1, <1>2, <2>2
    <3>2. registry[k][m] # None => registry[k][m] \in Runs /\ run[registry[k][m]].node = k
      BY <1>2 DEF ServerInv, RegisteredIsInFlight
    <3>. QED  BY <1>4, <2>2, <3>1, <3>2
  <2>. QED  BY <2>1, <2>2
<1>. QED  BY <1>1, <1>2, <1>3, <1>4, <1>5, <1>6, <1>7, RunsChange

LEMMA FaultKeeps ==
    ASSUME ServerInv, ServerFault
    PROVE  ServerInv'
<1>1. /\ conn \in Nodes \cup {None} /\ down \in Seq(Voiced) /\ cancels \subseteq Cancel
      /\ redis \in BOOLEAN
  BY DEF ServerInv, ServerTypeOK
<1>2. CASE RedisFlips
  BY <1>1, <1>2, CountsFaults, WireKeeps DEF RedisFlips, wireVars
<1>3. ASSUME NEW m \in Turns, MarkerExpires(m) PROVE ServerInv'
  BY <1>1, <1>3, CountsFaults, WireKeeps DEF MarkerExpires, wireVars
<1>. QED  BY <1>2, <1>3, CrashKeeps DEF ServerFault

LEMMA ServerKeeps ==
    ASSUME ServerInv, ServerStep \/ ServerFault
    PROVE  ServerInv'
<1>1. ASSUME NEW r \in Runs, RunStep(r) \/ AskChunk(r) PROVE ServerInv'
  BY <1>1, SendKeeps, BeginningKeeps, InterruptionKeeps, SafeReplyKeeps, DeliverKeeps,
     FinalizeKeeps, UnregisterKeeps DEF RunStep
<1>2. CASE CancelStep
  BY <1>2, CancelKeeps DEF CancelStep
<1>. QED  BY <1>1, <1>2, FaultKeeps DEF ServerStep

-----------------------------------------------------------------------------
\* The rows of the tab

LEMMA NoneIsNoTurn == None \notin Turns /\ None \notin Runs
BY ChatAssumption

\* A step that leaves the rows and the refs alone.
LEMMA NothingSettles ==
    ASSUME RowsInv, UNCHANGED rowVars
    PROVE  RowsInv' /\ SettlesRows
<1>1. UNCHANGED <<row, active, streamed, frame, generating, finalized>>
  BY DEF rowVars
<1>. QED  BY <1>1 DEF RowsInv, ActiveIsOpen, SettlesRows

LEMMA DeltaSettles ==
    ASSUME RowsInv, NEW m \in Turns, Delta(m)
    PROVE  RowsInv' /\ SettlesRows
<1>1. CASE Mine(m) /\ shown.row[m] \notin Terminal
  <2>1. /\ active' = m /\ streamed' = TRUE /\ frame' = TRUE /\ m \notin finalized
        /\ UNCHANGED <<row, generating, finalized>>
    BY <1>1 DEF Delta, Mine
  <2>2. RowsInv'
    BY <2>1 DEF RowsInv, ActiveIsOpen
  <2>. QED  BY <1>1, <2>1, <2>2 DEF SettlesRows
<1>2. CASE UNCHANGED rowVars
  BY <1>2, NothingSettles
<1>. QED  BY <1>1, <1>2 DEF Delta

\* A row is set to a status by a step after which no row is active.
LEMMA RowEnds ==
    ASSUME RowsInv, NEW m \in Turns, NEW status \in Terminal, Settle(m, status), Quiet,
           frame' \in BOOLEAN, finalized' \subseteq Turns,
           m \notin finalized /\ (m \in finalized' \/ active = m)
    PROVE  RowsInv' /\ SettlesRows
<1>1. row \in [Turns -> Status] /\ status \in Status /\ None \notin Turns
  BY NoneIsNoTurn DEF RowsInv, Status
<1>2. row' \in [Turns -> Status] /\ \A k \in Turns \ {m} : row'[k] = row[k]
  BY <1>1 DEF Settle
<1>3. active' = None /\ generating' = FALSE /\ streamed' = FALSE
  BY DEF Quiet
<1>4. RowsInv'
  BY <1>2, <1>3 DEF RowsInv, ActiveIsOpen
<1>. QED  BY <1>1, <1>2, <1>3, <1>4 DEF SettlesRows

LEMMA DoneSettles ==
    ASSUME RowsInv, NEW m \in Turns, NEW terminal \in Terminals, Done(m, terminal)
    PROVE  RowsInv' /\ SettlesRows
<1>1. CASE Mine(m)
  <2>1. /\ Settle(m, Shown(terminal)) /\ finalized' = finalized \cup {m} /\ m \notin finalized
        /\ Quiet /\ frame' = FALSE
    BY <1>1 DEF Done, Mine
  <2>2. Shown(terminal) \in Terminal
    BY DEF Shown, Terminals, Terminal
  <2>3. finalized' \subseteq Turns
    BY <2>1 DEF RowsInv
  <2>. QED  BY <2>1, <2>2, <2>3, RowEnds
<1>2. CASE UNCHANGED rowVars
  BY <1>2, NothingSettles
<1>. QED  BY <1>1, <1>2 DEF Done

\* The active row ends.
LEMMA ActiveEnds ==
    ASSUME RowsInv, active # None, NEW status \in Terminal, Settle(active, status), Quiet,
           frame' \in BOOLEAN, finalized' \subseteq Turns
    PROVE  RowsInv' /\ SettlesRows
<1>1. active \in Turns /\ active \notin finalized
  BY DEF RowsInv, ActiveIsOpen
<1>. QED  BY <1>1, RowEnds

LEMMA ErrorSettles ==
    ASSUME RowsInv, NEW m, NEW fatal \in BOOLEAN, Error(m, fatal)
    PROVE  RowsInv' /\ SettlesRows
<1>1. CASE active = None
  <2>1. UNCHANGED <<row, finalized>> /\ Quiet /\ frame' = FALSE
    BY <1>1 DEF Error
  <2>. QED  BY <2>1, NoneIsNoTurn DEF RowsInv, ActiveIsOpen, SettlesRows, Quiet
<1>2. CASE active # None /\ active = m
  <2>1. PICK status \in Terminal : Settle(active, status)
    BY <1>2 DEF Error, Terminal
  <2>2. Quiet /\ frame' = FALSE /\ finalized' \subseteq Turns
    BY <1>2 DEF Error, RowsInv
  <2>. QED  BY <1>2, <2>1, <2>2, ActiveEnds
<1>3. CASE UNCHANGED rowVars
  BY <1>3, NothingSettles
<1>. QED  BY <1>1, <1>2, <1>3 DEF Error

\* A frame writes over an ended row only if a chunk has made it active again.
LEMMA PaintSettles ==
    ASSUME RowsInv, PaintFrame
    PROVE  RowsInv' /\ SettlesRows
<1>1. /\ row \in [Turns -> Status] /\ UNCHANGED <<active, streamed, generating, finalized>>
      /\ frame' = FALSE /\ "streaming" \in Status
  BY DEF RowsInv, PaintFrame, Status
<1>2. /\ row' \in [Turns -> Status]
      /\ \A k \in Turns : row'[k] # row[k] => k = active /\ active # None
  BY <1>1 DEF PaintFrame
<1>3. RowsInv'
  BY <1>1, <1>2 DEF RowsInv, ActiveIsOpen
<1>. QED  BY <1>1, <1>2, <1>3 DEF SettlesRows, RowsInv, ActiveIsOpen

-----------------------------------------------------------------------------
\* What the tab does, what it receives, and what its connection does to it

LEMMA DeliverableIs ==
    ASSUME ServerInv, NEW type, Deliverable(type)
    PROVE  /\ Head(down) \in Voiced /\ Head(down) \in Event /\ Head(down).type = type
           /\ down' \in Seq(Voiced)
<1>1. down \in Seq(Voiced) /\ down # <<>> /\ down' = Tail(down) /\ Head(down).type = type
  BY DEF Deliverable, ServerInv
<1>. QED  BY <1>1, HeadTailProperties DEF Voiced

\* A step of the tab that leaves the API alone.
LEMMA TabKeeps ==
    ASSUME ServerInv, FaultsOK, UNCHANGED <<serverVars, conn>>, down' \in Seq(Voiced)
    PROVE  ServerInv'
<1>1. redis \in BOOLEAN /\ cancels \subseteq Cancel /\ conn \in Nodes \cup {None}
  BY DEF ServerInv, ServerTypeOK
<1>. QED  BY <1>1, WireKeeps DEF serverVars

LEMMA ReceiveKeeps ==
    ASSUME ChatInv, Receive
    PROVE  ChatInv' /\ SettlesRows
<1>1. /\ ServerInv /\ RowsInv /\ scope \in Turns \cup {None} /\ retry \in Turns \cup {None}
      /\ acking \in Runs \cup {None} /\ ignoring \in BOOLEAN
      /\ shown \in [row : [Turns -> Status], generating : BOOLEAN]
  BY DEF ChatInv, ClientInv
<1>2. PICK type : Deliverable(type) /\ KeepServer
  BY DEF Receive, onAck, onRefused, onChunk, onMalvOrch, onError
<1>3. /\ Head(down) \in Voiced /\ Head(down) \in Event /\ Head(down).type = type
      /\ down' \in Seq(Voiced)
  BY <1>1, <1>2, DeliverableIs
<1>4. ServerInv' /\ UNCHANGED <<shown, retry, ignoring>>
  BY <1>1, <1>2, <1>3, CountsFaults, TabKeeps DEF KeepServer
<1>5. Dropped => RowsInv' /\ SettlesRows /\ UNCHANGED scope
  BY <1>1, NothingSettles DEF Dropped
<1>6. /\ RowsInv' /\ SettlesRows
      /\ scope' \in {scope, None} /\ acking' \in {acking, None}
  <2>1. CASE onAck
    BY <1>5, <2>1 DEF onAck, Answered
  <2>2. CASE onRefused
    BY <1>1, <1>5, <2>2, ErrorSettles DEF onRefused, Answered
  <2>3. CASE onChunk
    BY <1>1, <1>5, <2>3, DeltaSettles DEF onChunk
  <2>4. CASE onMalvOrch
    <3>1. Head(down).terminal \in Terminals
      BY <1>3 DEF Event
    <3>. QED  BY <1>1, <1>5, <2>4, <3>1, DoneSettles DEF onMalvOrch
  <2>5. CASE onError
    BY <1>1, <1>5, <2>5, ErrorSettles DEF onError
  <2>. QED  BY <2>1, <2>2, <2>3, <2>4, <2>5 DEF Receive
<1>. QED  BY <1>1, <1>4, <1>6 DEF ChatInv, ClientInv

LEMMA TimersKeep ==
    ASSUME ChatInv, AckTimeout \/ Watchdog
    PROVE  ChatInv' /\ SettlesRows
<1>1. /\ ServerInv /\ RowsInv /\ scope \in Turns \cup {None} /\ retry \in Turns \cup {None}
      /\ acking \in Runs \cup {None} /\ ignoring \in BOOLEAN /\ down \in Seq(Voiced)
      /\ shown \in [row : [Turns -> Status], generating : BOOLEAN]
  BY DEF ChatInv, ClientInv, ServerInv
<1>2. UNCHANGED faults \/ Fault
  BY DEF AckTimeout, Watchdog, Overdue
<1>3. ServerInv'
  BY <1>1, <1>2, CountsFaults, TabKeeps DEF AckTimeout, Watchdog, KeepServerButFaults, wireVars
<1>4. CASE AckTimeout
  BY <1>1, <1>3, <1>4, ErrorSettles DEF AckTimeout, KeepServerButFaults, ChatInv, ClientInv
<1>5. CASE Watchdog
  <2>1. PICK status \in Terminal : Settle(active, status)
    BY <1>5 DEF Watchdog, Terminal
  <2>2. active # None /\ Quiet /\ frame' \in BOOLEAN /\ finalized' \subseteq Turns
    BY <1>1, <1>5 DEF Watchdog, RowsInv
  <2>3. RowsInv' /\ SettlesRows
    BY <1>1, <2>1, <2>2, ActiveEnds
  <2>. QED  BY <1>1, <1>3, <1>5, <2>3 DEF Watchdog, ChatInv, ClientInv
<1>. QED  BY <1>4, <1>5

LEMMA BeginKeeps ==
    ASSUME ChatInv, NEW m \in Turns, Begin(m)
    PROVE  ChatInv' /\ SettlesRows
<1>1. ServerInv /\ ClientInv /\ RowsInv
  BY DEF ChatInv, ClientInv
<1>2. PICK r \in Runs : /\ run[r].pc = "free" /\ acking' = r
                        /\ run' = [run EXCEPT ![r] = [NoRun EXCEPT !.pc = "sent", !.m = m,
                                                          !.node = conn, !.heard = TRUE]]
  BY DEF Begin
<1>. DEFINE x == [NoRun EXCEPT !.pc = "sent", !.m = m, !.node = conn, !.heard = TRUE]
<1>3. conn \in Nodes
  BY <1>1 DEF Begin, ServerInv, ServerTypeOK
<1>4. /\ x \in RunRec /\ x.pc = "sent" /\ x.m = m /\ x.node = conn /\ ~x.aborted /\ x.deferred
  BY <1>3 DEF NoRun, RunRec, PC, Terminals
<1>. HIDE DEF x
<1>5. RunOK(x, stopped)
  BY <1>3, <1>4 DEF RunOK
<1>6. /\ run \in [Runs -> RunRec] /\ registry \in [Nodes -> [Turns -> Runs \cup {None}]]
      /\ fallback \in [Nodes -> SUBSET Turns] /\ cancels \subseteq Cancel
      /\ conn \in Nodes \cup {None} /\ down \in Seq(Voiced)
  BY <1>1 DEF ServerInv, ServerTypeOK
<1>7. /\ UNCHANGED <<registry, redis, marker, fallback, cancels, msg, stopped, conn, down, faults>>
      /\ FaultsOK
  BY <1>1, CountsFaults DEF Begin, wireVars
<1>8. /\ run' \in [Runs -> RunRec] /\ run'[r] = x
      /\ \A k \in Runs \ {r} : run'[k] = run[k]
  BY <1>2, <1>4, <1>6 DEF x
<1>9. \A k \in Runs : RunOK(run[k], stopped)
  BY <1>1, RunFields
<1>10. ~MayOwe(run[r], faults)
  BY <1>2 DEF MayOwe, Writing
<1>11. \A n \in Nodes, t \in Turns : registry[n][t] # None =>
           registry[n][t] \in Runs \ {r}
  BY <1>1, <1>2, <1>6 DEF ServerInv, RegisteredIsInFlight
<1>12. ServerInv'
  BY <1>1, <1>5, <1>6, <1>7, <1>8, <1>9, <1>10, <1>11, RunsChange
<1>13. row' = [row EXCEPT ![m] = "preparing"] /\ row \in [Turns -> Status]
  BY <1>1 DEF Begin, RowsInv
<1>14. /\ row' \in [Turns -> Status] /\ row'[m] = "preparing"
       /\ \A k \in Turns \ {m} : row'[k] = row[k]
  BY <1>13 DEF Status
<1>15. /\ active' = m /\ streamed' = FALSE /\ generating' = TRUE /\ UNCHANGED frame
       /\ finalized' = finalized \ {m}
  BY DEF Begin
<1>16. RowsInv'
  BY <1>1, <1>14, <1>15 DEF RowsInv, ActiveIsOpen
<1>17. SettlesRows
  BY <1>14, <1>15 DEF SettlesRows
<1>18. shown' \in [row : [Turns -> Status], generating : BOOLEAN]
  BY <1>14, <1>15 DEF Begin, Flushed
<1>19. ClientInv'
  BY <1>1, <1>2, <1>16, <1>18 DEF Begin, ClientInv
<1>. QED  BY <1>12, <1>17, <1>19 DEF ChatInv

LEMMA UserKeeps ==
    ASSUME ChatInv, send \/ retryLast \/ stopReply
    PROVE  ChatInv' /\ SettlesRows
<1>1. ServerInv /\ ClientInv /\ RowsInv
  BY DEF ChatInv, ClientInv
<1>2. CASE send
  <2>1. PICK m \in Turns : Begin(m)
    BY <1>2 DEF send
  <2>. QED  BY <2>1, BeginKeeps
<1>3. CASE retryLast
  <2>1. retry \in Turns /\ Begin(retry)
    BY <1>1, <1>3 DEF retryLast, ClientInv
  <2>. QED  BY <2>1, BeginKeeps
<1>4. CASE stopReply
  <2>1. /\ cancels \subseteq Cancel /\ conn \in Nodes \cup {None} /\ down \in Seq(Voiced)
        /\ redis \in BOOLEAN /\ active \in Turns \cup {None} /\ None \notin Turns
    BY <1>1, NoneIsNoTurn DEF ServerInv, ServerTypeOK, RowsInv
  <2>2. cancels' \subseteq Cancel /\ \A c \in cancels' : c \in cancels \/ ~c.marked
    <3>. DEFINE c == [m |-> active, node |-> conn, marked |-> FALSE]
    <3>1. conn # None /\ active # None => c \in Cancel /\ ~c.marked
      BY <2>1 DEF Cancel
    <3>2. \/ cancels' = cancels
          \/ conn # None /\ active # None /\ cancels' = cancels \cup {c}
      BY <1>4 DEF stopReply
    <3>. HIDE DEF c
    <3>. QED  BY <2>1, <3>1, <3>2
  <2>3. ServerInv'
    BY <1>1, <1>4, <2>1, <2>2, CountsFaults, WireKeeps DEF stopReply, wireVars
  <2>4. Quiet /\ frame' = FALSE
    BY <1>4 DEF stopReply
  <2>5. RowsInv' /\ SettlesRows
    <3>1. CASE active = None
      <4>1. UNCHANGED <<row, finalized>>
        BY <1>4, <3>1 DEF stopReply
      <4>. QED  BY <1>1, <2>1, <2>4, <4>1 DEF RowsInv, ActiveIsOpen, SettlesRows, Quiet
    <3>2. CASE active # None
      <4>1. Settle(active, "interrupted") /\ finalized' \subseteq Turns
        BY <1>1, <1>4, <2>1, <3>2 DEF stopReply, RowsInv
      <4>. QED  BY <1>1, <2>4, <3>2, <4>1, ActiveEnds DEF Terminal
    <3>. QED  BY <3>1, <3>2
  <2>6. shown' \in [row : [Turns -> Status], generating : BOOLEAN]
    BY <1>4, <2>5 DEF stopReply, Flushed, RowsInv
  <2>. QED  BY <1>1, <1>4, <2>3, <2>5, <2>6 DEF stopReply, ChatInv, ClientInv
<1>. QED  BY <1>2, <1>3, <1>4

\* A render and a frame.
LEMMA ReactKeeps ==
    ASSUME ChatInv, Render \/ PaintFrame
    PROVE  ChatInv' /\ SettlesRows
<1>1. ServerInv /\ ClientInv /\ RowsInv /\ down \in Seq(Voiced)
  BY DEF ChatInv, ClientInv, ServerInv
<1>2. UNCHANGED <<serverVars, conn, down, faults, scope, ignoring, acking, retry>>
  BY DEF Render, PaintFrame, wireVars
<1>3. ServerInv'
  BY <1>1, <1>2, CountsFaults, TabKeeps
<1>4. RowsInv' /\ SettlesRows
  BY <1>1, NothingSettles, PaintSettles DEF Render
<1>5. shown' \in [row : [Turns -> Status], generating : BOOLEAN]
  BY <1>1 DEF Render, PaintFrame, ClientInv, RowsInv
<1>. QED  BY <1>1, <1>2, <1>3, <1>4, <1>5 DEF ChatInv, ClientInv

LEMMA DisconnectKeeps ==
    ASSUME ServerInv, Disconnect
    PROVE  ServerInv'
<1>1. PICK lost \in BOOLEAN :
        /\ run' = [r \in Runs |-> IF lost /\ run[r].pc = "sent" THEN Gone(r)
                                  ELSE [run[r] EXCEPT !.heard = FALSE]]
        /\ cancels' = IF lost THEN {c \in cancels : c.marked} ELSE cancels
  BY DEF Disconnect
<1>2. /\ UNCHANGED <<registry, redis, marker, fallback, msg, stopped>> /\ FaultsOK
      /\ conn' = None /\ down' = <<>> /\ <<>> \in Seq(Voiced)
  BY CountsFaults DEF Disconnect
<1>3. /\ run \in [Runs -> RunRec] /\ registry \in [Nodes -> [Turns -> Runs \cup {None}]]
      /\ fallback \in [Nodes -> SUBSET Turns] /\ cancels \subseteq Cancel
      /\ faults \in Nat /\ faults' \in Nat /\ faults' >= faults
  BY <1>2 DEF ServerInv, ServerTypeOK, FaultsOK
<1>4. cancels' \subseteq cancels
  BY <1>1
<1>5. ASSUME NEW k \in Runs
      PROVE  /\ run'[k] \in RunRec /\ RunOK(run'[k], stopped)
             /\ MayOwe(run[k], faults) => MayOwe(run'[k], faults') /\ run'[k].m = run[k].m
             /\ run[k].pc # "sent" => /\ run'[k].pc = run[k].pc /\ run'[k].m = run[k].m
                                      /\ run'[k].node = run[k].node
  <2>1. CASE lost /\ run[k].pc = "sent"
    <3>1. run'[k] = Gone(k) /\ ~MayOwe(run[k], faults)
      BY <1>1, <2>1 DEF MayOwe, Writing
    <3>. QED  BY <2>1, <3>1, GoneIs, GoneOK
  <2>2. CASE ~(lost /\ run[k].pc = "sent")
    <3>. DEFINE y == [run[k] EXCEPT !.heard = FALSE]
    <3>1. run'[k] = y
      BY <1>1, <2>2
    <3>2. /\ y \in RunRec /\ y.pc = run[k].pc /\ y.m = run[k].m /\ y.node = run[k].node
          /\ y.aborted = run[k].aborted /\ y.deferred = run[k].deferred
          /\ y.terminal = run[k].terminal
      BY <1>3 DEF RunRec
    <3>. HIDE DEF y
    <3>3. RunOK(y, stopped)
      BY <3>2, RunFields DEF RunOK
    <3>4. MayOwe(run[k], faults) => MayOwe(y, faults')
      BY <1>3, <3>2 DEF MayOwe
    <3>. QED  BY <3>1, <3>2, <3>3, <3>4
  <2>. QED  BY <2>1, <2>2
<1>6. run' \in [Runs -> RunRec]
  BY <1>1, <1>5
<1>7. \A n \in Nodes, m \in Turns : registry[n][m] # None =>
          registry[n][m] \in Runs /\ run[registry[n][m]].pc # "sent"
  BY <1>3 DEF ServerInv, RegisteredIsInFlight
<1>. QED  BY <1>2, <1>3, <1>4, <1>5, <1>6, <1>7, RunsChange

LEMMA ConnectionKeeps ==
    ASSUME ChatInv, Disconnect \/ JobFails \/ \E n \in Nodes : Reconnect(n)
    PROVE  ChatInv' /\ SettlesRows
<1>1. ServerInv /\ ClientInv
  BY DEF ChatInv
<1>2. UNCHANGED clientVars
  BY DEF Disconnect, JobFails, Reconnect
<1>3. ClientInv' /\ SettlesRows
  BY <1>1, <1>2, NothingSettles DEF clientVars, ClientInv
<1>4. redis \in BOOLEAN /\ cancels \subseteq Cancel /\ down \in Seq(Voiced)
  BY <1>1 DEF ServerInv, ServerTypeOK
<1>5. CASE JobFails
  <2>1. Says("job_failed", None, "completed") \in Voiced
    BY DEF Says, Voiced, Event, Terminals
  <2>2. <<Says("job_failed", None, "completed")>> \in Seq(Voiced)
    BY <2>1
  <2>3. down' \in Seq(Voiced)
    BY <1>4, <1>5, <2>2, Emits DEF JobFails
  <2>. QED  BY <1>1, <1>3, <1>5, <2>3, CountsFaults, TabKeeps DEF JobFails, ChatInv
<1>6. ASSUME NEW n \in Nodes, Reconnect(n) PROVE ServerInv'
  BY <1>1, <1>4, <1>6, CountsFaults, WireKeeps DEF Reconnect, serverVars
<1>. QED  BY <1>1, <1>3, <1>5, <1>6, DisconnectKeeps DEF ChatInv

-----------------------------------------------------------------------------
\* The invariant

LEMMA InitInv == Init => ChatInv
<1>. SUFFICES ASSUME Init PROVE ChatInv
  OBVIOUS
<1>1. NoRun \in RunRec /\ NoRun.pc = "free" /\ ~NoRun.aborted /\ NoRun.deferred
  BY DEF NoRun, RunRec, PC, Terminals
<1>2. conn \in Nodes /\ 0 \in 0 .. MaxFaults
  BY ChatAssumption DEF Init, ServerInit
<1>3. <<>> \in Seq(Event) /\ <<>> \in Seq(Voiced)
  OBVIOUS
<1>4. ServerTypeOK
  BY <1>1, <1>2, <1>3 DEF Init, ServerInit, ServerTypeOK, MsgRow, RowStatus
<1>5. RunsOK
  <2>1. RunOK(NoRun, stopped)
    BY <1>1 DEF RunOK
  <2>. QED  BY <2>1 DEF Init, ServerInit, RunsOK
<1>6. StopsOK /\ RegisteredIsInFlight /\ InterruptedWasStopped /\ Owed
  BY DEF Init, ServerInit, StopsOK, RegisteredIsInFlight, InterruptedWasStopped, Owed
<1>7. RowsInv
  BY DEF Init, RowsInv, Status, ActiveIsOpen
<1>8. ClientInv
  BY <1>7 DEF Init, ClientInv, RowsInv
<1>. QED  BY <1>3, <1>4, <1>5, <1>6, <1>8 DEF Init, ServerInit, ChatInv, ServerInv

LEMMA StepInv == ChatInv /\ [Next]_vars => ChatInv' /\ [SettlesRows]_vars
<1>. SUFFICES ASSUME ChatInv, [Next]_vars PROVE ChatInv' /\ (SettlesRows \/ UNCHANGED vars)
  OBVIOUS
<1>1. CASE UNCHANGED vars
  <2>1. UNCHANGED <<serverVars, conn, down, faults>> /\ UNCHANGED clientVars
    BY <1>1 DEF vars, wireVars
  <2>2. down \in Seq(Voiced) /\ ServerInv /\ ClientInv
    BY DEF ChatInv, ServerInv
  <2>3. ServerInv'
    BY <2>1, <2>2, CountsFaults, TabKeeps
  <2>4. ClientInv'
    BY <2>1, <2>2, NothingSettles DEF clientVars, ClientInv
  <2>. QED  BY <1>1, <2>3, <2>4 DEF ChatInv
<1>2. CASE (ServerStep \/ ServerFault) /\ UNCHANGED clientVars
  <2>1. ServerInv'
    BY <1>2, ServerKeeps DEF ChatInv
  <2>2. ClientInv' /\ SettlesRows
    BY <1>2, NothingSettles DEF ChatInv, clientVars, ClientInv
  <2>. QED  BY <2>1, <2>2 DEF ChatInv
<1>3. CASE send \/ retryLast \/ stopReply
  BY <1>3, UserKeeps
<1>4. CASE Receive \/ AckTimeout \/ Watchdog
  BY <1>4, ReceiveKeeps, TimersKeep
<1>5. CASE Disconnect \/ JobFails \/ \E n \in Nodes : Reconnect(n)
  BY <1>5, ConnectionKeeps
<1>6. CASE Render \/ PaintFrame
  BY <1>6, ReactKeeps
<1>. QED  BY <1>1, <1>2, <1>3, <1>4, <1>5, <1>6 DEF Next

LEMMA AlwaysChatInv == Spec => []ChatInv
<1>1. ChatInv /\ [Next]_vars => ChatInv'
  BY StepInv
<1>. QED  BY <1>1, InitInv, PTL DEF Spec

-----------------------------------------------------------------------------
\* The theorems

\* Whatever is retried, stopped, lost or restarted, the runs, the registry, the
\* rows and the state of the tab keep their types.
THEOREM ChatTyping == Spec => []TypeOK
<1>1. ChatInv => TypeOK
  BY DEF ChatInv, ServerInv, ClientInv, RowsInv, TypeOK
<1>. QED  BY <1>1, AlwaysChatInv, PTL

\* No message is recorded as interrupted that nobody stopped, however cancels,
\* retries with the same identifier, replicas and outages of Redis interleave.
THEOREM InterruptionWasAsked == Spec => []InterruptedWasStopped
<1>1. ChatInv => InterruptedWasStopped
  BY DEF ChatInv, ServerInv
<1>. QED  BY <1>1, AlwaysChatInv, PTL

\* What registerTurn put into the registry of a replica is taken out before its
\* run is over, also when a second run of the turn has replaced it.
THEOREM RegistrationEnds == Spec => []RegisteredIsInFlight
<1>1. ChatInv => RegisteredIsInFlight
  BY DEF ChatInv, ServerInv
<1>. QED  BY <1>1, AlwaysChatInv, PTL

\* A placeholder that ChatService saved belongs to a run that will still write
\* its end, unless something failed.
THEOREM PlaceholderIsOwed == Spec => []PlaceholderHasRun
<1>1. ChatInv => PlaceholderHasRun
  <2>. SUFFICES ASSUME ChatInv, NEW m \in Turns, msg[m].status = "thinking"
                PROVE  LET r == msg[m].by
                       IN  /\ run[r].m = m
                           /\ \/ run[r].pc \in Writing \cup {"dead"}
                              \/ run[r].pc \in {"unregister", "ended"} /\ faults > 0
    BY DEF PlaceholderHasRun, Writing
  <2>. QED  BY DEF ChatInv, ServerInv, Owed, MayOwe
<1>. QED  BY <1>1, AlwaysChatInv, PTL

\* Whatever chunk, error, timer, frame or render comes late, a row that a reply or a
\* stop has ended changes only on a retry; one that the watchdog has ended changes
\* when its reply comes, or after a chunk handled before the end was rendered.
THEOREM EndedRowsStay == Spec => RowsSettle
<1>1. ChatInv /\ [Next]_vars => [SettlesRows]_vars
  BY StepInv
<1>. QED  BY <1>1, AlwaysChatInv, PTL DEF Spec, RowsSettle
=============================================================================
