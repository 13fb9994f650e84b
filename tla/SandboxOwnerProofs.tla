------------------------- MODULE SandboxOwnerProofs -------------------------
(***************************************************************************)
(* Who owns a sandbox run, for any number of runs, replicas, requests and  *)
(* admins: two actors perform steps of one run only after a row has been   *)
(* saved over a status its writer had not read, nobody races with the      *)
(* creator of an inline run, and a run that ended leaves no running job.   *)
(*                                                                         *)
(* A run is owned by the actor that claimed it or resumed it, from there   *)
(* to the last of its steps, or by the request it waits for.  A compare-   *)
(* and-set takes it only while its status says that nobody owns it; the    *)
(* saves by id are those that could write such a status behind an owner's  *)
(* back, and each of them that does is counted in late.  From the owner of *)
(* a run follows who has its job to report once the run has ended.  Whether*)
(* owned or not, a run in progress has somebody who works on it.           *)
(***************************************************************************)
EXTENDS SandboxRunProofs, RunRefinement

Moving == {"validate", "unclaim", "read_executing", "unexecute", "step",
           "grant_run", "grant_job"}
Holding(x) == x.pc \in Moving \/ (x.pc = "validate_save" /\ ~x.broken)
Holds(a, r) == Holding(act[a]) /\ act[a].run = r
Free == {"absent", "staged", "approved", "approval_pending"}

OneHolder ==
    \A r \in Runs \ late : \A a, b \in Actors : Holds(a, r) /\ Holds(b, r) => a = b
AsksAlone ==
    \A r \in Runs \ late : \A q \in Requests :
        Asks(q, r) => /\ \A a \in Actors : ~Holds(a, r)
                      /\ \A p \in Requests : Asks(p, r) => p = q
FreeIsFree ==
    \A r \in Runs \ late :
        run[r].status \in Free => /\ \A a \in Actors : ~Holds(a, r)
                                  /\ \A q \in Requests : ~Asks(q, r)

\* An admin answers a request about the run he is going to move.
AnswersHis ==
    \A a \in Actors : act[a].pc \in Asking => request[act[a].req].run = act[a].run

Owned == OneHolder /\ AsksAlone /\ FreeIsFree /\ AnswersHis

-----------------------------------------------------------------------------
\* The step of an actor that leaves the requests alone: it comes to hold a run
\* only if it held it or nobody did, and a run is freed only by its holder.
LEMMA OwnerMoves ==
    ASSUME Typed, Typed', Owned, NEW a \in Actors, NEW x, act' = [act EXCEPT ![a] = x],
           UNCHANGED request, late \subseteq late',
           x.pc \in Asking => request[x.req].run = x.run,
           \A r \in Runs \ late' :
               /\ Holding(x) /\ x.run = r => Holds(a, r) \/ run[r].status \in Free
               /\ run'[r].status \in Free =>
                      ~(Holding(x) /\ x.run = r) /\ (Holds(a, r) \/ run[r].status \in Free)
    PROVE  Owned'
<1>1. act \in [Actors -> ActorRec] /\ act'[a] = x /\ \A b \in Actors \ {a} : act'[b] = act[b]
  BY DEF Typed, TypeOK
<1>2. \A r, b : Holds(b, r)' <=> (Holding(act'[b]) /\ act'[b].run = r)
  BY DEF Holds, Holding
<1>3. \A r, q : Asks(q, r)' <=> Asks(q, r)
  BY DEF Asks
<1>4. AnswersHis'
  BY <1>1 DEF Owned, AnswersHis
<1>5. ASSUME NEW r \in Runs \ late'
      PROVE  /\ \A b \in Actors : Holds(b, r)' => Holds(b, r) \/ (b = a /\ run[r].status \in Free)
             /\ \A b, c \in Actors : Holds(b, r)' /\ Holds(c, r)' => b = c
  BY <1>1, <1>2 DEF Owned, OneHolder, FreeIsFree, Holds
<1>6. OneHolder'
  BY <1>5 DEF OneHolder
<1>7. AsksAlone'
  BY <1>3, <1>5 DEF AsksAlone, Owned, FreeIsFree
<1>8. ASSUME NEW r \in Runs \ late', run'[r].status \in Free
      PROVE  (\A b \in Actors : ~Holds(b, r)') /\ \A q \in Requests : ~Asks(q, r)'
  <2>1. ~Holds(a, r)'
    BY <1>1, <1>2, <1>8
  <2>2. ASSUME NEW b \in Actors \ {a}
        PROVE  ~Holds(b, r)'
    BY <1>1, <1>2, <1>8, <2>2 DEF Owned, OneHolder, FreeIsFree, Holds
  <2>3. \A q \in Requests : ~Asks(q, r)
    BY <1>8 DEF Owned, AsksAlone, FreeIsFree
  <2>. QED  BY <1>3, <2>1, <2>2, <2>3
<1>9. FreeIsFree'
  BY <1>8 DEF FreeIsFree
<1>. QED  BY <1>4, <1>6, <1>7, <1>9 DEF Owned

\* The same for the step of an actor that has a run and keeps to it.
LEMMA OwnerWorks ==
    ASSUME Typed, Typed', Owned, NEW a \in Actors, act[a].pc \notin Loose,
           NEW x, act' = [act EXCEPT ![a] = x], x.pc \notin Asking,
           UNCHANGED request, late \subseteq late',
           NEW s \in RunStatus, SetStatus(act[a].run, s) \/ UNCHANGED run,
           Holding(x) => x.run = act[a].run,
           act[a].run \notin late' =>
               /\ Holding(x) => Holding(act[a]) \/ run[act[a].run].status \in Free
               /\ run'[act[a].run].status \in Free =>
                      ~Holding(x) /\ (Holding(act[a]) \/ run[act[a].run].status \in Free)
    PROVE  Owned'
<1>1. act[a].run \in Runs /\ run \in [Runs -> RunRow]
  BY DEF Typed, TypeOK, LocalsOK
<1>2. \A r \in Runs \ {act[a].run} : run'[r] = run[r]
  BY <1>1 DEF SetStatus
<1>3. ASSUME NEW r \in Runs \ late'
      PROVE  /\ Holding(x) /\ x.run = r => Holds(a, r) \/ run[r].status \in Free
             /\ run'[r].status \in Free =>
                    ~(Holding(x) /\ x.run = r) /\ (Holds(a, r) \/ run[r].status \in Free)
  <2>1. CASE r = act[a].run
    BY <2>1 DEF Holds
  <2>2. CASE r # act[a].run
    BY <1>2, <2>2
  <2>. QED  BY <2>1, <2>2
<1>. QED  BY <1>3, OwnerMoves

\* Nothing is written, and the actor comes to hold nothing.
LEMMA OwnerLooks ==
    ASSUME Typed, Typed', Owned, NEW a \in Actors, NEW x, act' = [act EXCEPT ![a] = x],
           UNCHANGED <<run, request>>, late \subseteq late', ~Holding(x),
           x.pc \in Asking => request[x.req].run = x.run
    PROVE  Owned'
BY OwnerMoves

\* It ends, or goes to a place where it holds nothing.
LetsGo(a) ==
    \/ End(a) \/ TurnToApproved(a)
    \/ \E pc \in PC \ (Asking \cup Moving \cup {"validate_save"}) : Goto(a, pc) \/ Leave(a, pc)

LEMMA HoldsNothing ==
    ASSUME Typed, NEW a \in Actors, LetsGo(a)
    PROVE  \E x : act' = [act EXCEPT ![a] = x] /\ ~Holding(x) /\ x.pc \notin Asking
<1>. USE DEF Holding, Moving, Asking
<1>0. act[a] \in ActorRec
  BY DEF Typed, TypeOK
<1>1. CASE End(a) \/ TurnToApproved(a)
  <2>1. Ends(a).pc \in Loose /\ [Resting EXCEPT !.pc = "approved"].pc \in Loose
    BY DEF Ends, Resting, Loose
  <2>. QED  BY <1>1, <2>1 DEF End, TurnToApproved, Loose
<1>2. ASSUME NEW pc \in PC \ (Asking \cup Moving \cup {"validate_save"}), Goto(a, pc)
      PROVE  \E x : act' = [act EXCEPT ![a] = x] /\ ~Holding(x) /\ x.pc \notin Asking
  <2>1. [act[a] EXCEPT !.pc = pc].pc = pc
    BY <1>0 DEF ActorRec
  <2>. QED  BY <1>2, <2>1 DEF Goto
<1>3. ASSUME NEW pc \in PC \ (Asking \cup Moving \cup {"validate_save"}), Leave(a, pc)
      PROVE  \E x : act' = [act EXCEPT ![a] = x] /\ ~Holding(x) /\ x.pc \notin Asking
  <2>1. [act[a] EXCEPT !.pc = pc, !.step = 0].pc = pc
    BY <1>0 DEF ActorRec
  <2>. QED  BY <1>3, <2>1 DEF Leave
<1>. QED  BY <1>1, <1>2, <1>3 DEF LetsGo

LEMMA OwnerRests ==
    ASSUME Typed, Typed', Owned, NEW a \in Actors,
           UNCHANGED <<run, request>>, late \subseteq late', LetsGo(a)
    PROVE  Owned'
BY HoldsNothing, OwnerLooks

LEMMA OwnerLetsGo ==
    ASSUME Typed, Typed', Owned, NEW a \in Actors, act[a].pc \notin Loose,
           UNCHANGED request, late \subseteq late', LetsGo(a),
           NEW s \in RunStatus, SetStatus(act[a].run, s),
           s \in Free => \/ Holding(act[a]) \/ run[act[a].run].status \in Free
                        \/ act[a].run \in late'
    PROVE  Owned'
<1>1. act[a].run \in Runs /\ run \in [Runs -> RunRow]
  BY DEF Typed, TypeOK, LocalsOK
<1>2. run'[act[a].run].status = s
  BY <1>1 DEF SetStatus, RunRow
<1>3. PICK x : act' = [act EXCEPT ![a] = x] /\ ~Holding(x) /\ x.pc \notin Asking
  BY HoldsNothing
<1>. QED  BY <1>2, <1>3, OwnerWorks

\* It goes on with the run it holds.
LEMMA OwnerMovesOn ==
    ASSUME Typed, Typed', Owned, NEW a \in Actors, act[a].pc \notin Loose,
           UNCHANGED <<run, request>>, late \subseteq late', Holding(act[a]),
           NEW x, act' = [act EXCEPT ![a] = x], x.pc \notin Asking, x.run = act[a].run
    PROVE  Owned'
<1>1. act[a].run \in Runs /\ run \in [Runs -> RunRow]
  BY DEF Typed, TypeOK, LocalsOK
<1>2. act[a].run \notin late' => run[act[a].run].status \notin Free
  BY <1>1 DEF Owned, FreeIsFree, Holds
<1>3. run[act[a].run].status \in RunStatus
  BY <1>1 DEF RunRow
<1>. QED  BY <1>2, <1>3, OwnerWorks

LEMMA OwnerHoldsOn ==
    ASSUME Typed, Typed', Owned, NEW a \in Actors, act[a].pc \notin Loose,
           UNCHANGED <<run, request>>, late \subseteq late', Holding(act[a]),
           NEW pc \in PC \ Asking, Goto(a, pc)
    PROVE  Owned'
<1>. DEFINE x == [act[a] EXCEPT !.pc = pc]
<1>1. x.pc = pc /\ x.run = act[a].run /\ act' = [act EXCEPT ![a] = x]
  BY DEF Typed, TypeOK, ActorRec, Goto
<1>. HIDE DEF x
<1>. QED  BY <1>1, OwnerMovesOn

\* It writes the status of a run that it holds or that nobody does.
LEMMA OwnerTakes ==
    ASSUME Typed, Typed', Owned, NEW a \in Actors, act[a].pc \notin Loose,
           UNCHANGED request, late \subseteq late',
           Holding(act[a]) \/ run[act[a].run].status \in Free,
           NEW s \in RunStatus \ Free, SetStatus(act[a].run, s),
           NEW pc \in PC \ Asking, Goto(a, pc)
    PROVE  Owned'
<1>. DEFINE x == [act[a] EXCEPT !.pc = pc]
<1>1. act[a] \in ActorRec /\ act[a].run \in Runs /\ run \in [Runs -> RunRow]
  BY DEF Typed, TypeOK, LocalsOK
<1>2. x.pc = pc /\ x.run = act[a].run /\ act' = [act EXCEPT ![a] = x]
  BY <1>1 DEF ActorRec, Goto
<1>. HIDE DEF x
<1>3. run'[act[a].run].status = s
  BY <1>1 DEF SetStatus, RunRow
<1>. QED  BY <1>2, <1>3, OwnerWorks

LEMMA InitOwned == Init => Owned
<1>. SUFFICES ASSUME Init PROVE Owned
  OBVIOUS
<1>1. \A a \in Actors : act[a].pc = "idle"
  BY DEF Init, Resting
<1>2. \A q \in Requests : request[q] = None
  BY DEF Init
<1>. QED
  BY <1>1, <1>2
  DEF Owned, OneHolder, AsksAlone, FreeIsFree, AnswersHis, Holds, Holding, Moving, Asks, Asking

LEMMA NodeOwned ==
    ASSUME Typed, Typed', Owned, NEW n \in Nodes, NodeStep(n)
    PROVE  Owned'
<1>. USE DEF RunStatus, Settled, PC, Loose, Asking, Moving, LetsGo, Validating, Executing, KeepRows,
             KeepHistory
<1>0. n \in Actors /\ act[n] \in ActorRec
  BY DEF Actors, Typed, TypeOK
<1>2. ASSUME NEW pc \in {"claim_staged", "claim_approved"}, NEW r \in Runs,
             act' = [act EXCEPT ![n].pc = pc, ![n].run = r], UNCHANGED <<run, request, late>>
      PROVE  Owned'
  <2>. DEFINE x == [act[n] EXCEPT !.pc = pc, !.run = r]
  <2>1. x.pc = pc /\ act' = [act EXCEPT ![n] = x]
    BY <1>0, <1>2 DEF ActorRec
  <2>. HIDE DEF x
  <2>. QED  BY <1>0, <1>2, <2>1, OwnerLooks DEF Holding
<1>3. CASE StartTick(n)
  BY <1>0, <1>3, OwnerRests DEF StartTick
<1>4. CASE SelectStaged(n)
  <2>1. CASE Goto(n, "approved")
    BY <1>0, <1>4, <2>1, OwnerRests DEF SelectStaged
  <2>. QED  BY <1>2, <1>4, <2>1 DEF SelectStaged, Queued
<1>5. CASE ClaimStaged(n)
  <2>1. CASE run[act[n].run].status = "staged"
    <3>1. /\ SetStatus(act[n].run, "validation_pending") /\ Goto(n, "validate")
          /\ UNCHANGED <<request, late>>
      BY <1>5, <2>1 DEF ClaimStaged
    <3>2. act[n].pc \notin Loose /\ run[act[n].run].status \in Free
      BY <1>5, <2>1 DEF ClaimStaged, Free
    <3>3. "validation_pending" \in RunStatus \ Free /\ "validate" \in PC \ Asking
      BY DEF Free
    <3>. QED  BY <1>0, <3>1, <3>2, <3>3, OwnerTakes
  <2>2. CASE run[act[n].run].status # "staged"
    BY <1>0, <1>5, <2>2, OwnerRests DEF ClaimStaged
  <2>. QED  BY <2>1, <2>2
<1>6. CASE SelectApproved(n)
  <2>1. CASE act' = [act EXCEPT ![n] = Resting]
    BY <1>0, <1>6, <2>1, OwnerLooks DEF SelectApproved, Resting, Holding
  <2>. QED  BY <1>2, <1>6, <2>1 DEF SelectApproved, Queued
<1>7. CASE ClaimApproved(n)
  <2>1. CASE run[act[n].run].status = "approved"
    <3>1. /\ SetStatus(act[n].run, "executing") /\ Goto(n, "read_executing")
          /\ UNCHANGED <<request, late>>
      BY <1>7, <2>1 DEF ClaimApproved
    <3>2. act[n].pc \notin Loose /\ run[act[n].run].status \in Free
      BY <1>7, <2>1 DEF ClaimApproved, Free
    <3>3. "executing" \in RunStatus \ Free /\ "read_executing" \in PC \ Asking
      BY DEF Free
    <3>. QED  BY <1>0, <3>1, <3>2, <3>3, OwnerTakes
  <2>2. CASE run[act[n].run].status # "approved"
    BY <1>0, <1>7, <2>2, OwnerRests DEF ClaimApproved
  <2>. QED  BY <2>1, <2>2
<1>8. CASE PutBack(n)
  <2>1. Holding(act[n]) /\ act[n].pc \notin Loose /\ UNCHANGED <<request, late>>
    BY <1>8 DEF PutBack, Holding, Moving
  <2>2. End(n) \/ TurnToApproved(n)
    BY <1>8 DEF PutBack
  <2>3. CASE UNCHANGED run
    BY <1>0, <2>1, <2>2, <2>3, OwnerRests
  <2>4. ASSUME NEW s \in {"staged", "approved"}, SetStatus(act[n].run, s)
        PROVE  Owned'
    BY <1>0, <2>1, <2>2, <2>4, OwnerLetsGo
  <2>. QED  BY <1>8, <2>3, <2>4 DEF PutBack
<1>. QED  BY <1>3, <1>4, <1>5, <1>6, <1>7, <1>8 DEF NodeStep

\* Only the first answer to a request is not late: it passes the run from the
\* request, which nobody else asks with, to the admin.
LEMMA AnswerOwned ==
    ASSUME Typed, Typed', Owned, NEW h \in Handlers, SaveRequest(h)
    PROVE  Owned'
<1>. DEFINE q == act[h].req
            s == act[h].run
            pc == IF act[h].pc = "grant_request" THEN "grant_run" ELSE "deny_run"
            x == [act[h] EXCEPT !.pc = pc]
<1>1. /\ act \in [Actors -> ActorRec] /\ h \in Actors
      /\ request \in [Requests -> RequestRow \cup {None}]
      /\ q \in Requests /\ request[q] # None /\ act[h].pc \in Asking
  BY DEF SaveRequest, Typed, TypeOK, LocalsOK, Actors, Asking
<1>2. request[q] \in RequestRow /\ request[q].run = s
  BY <1>1 DEF Owned, AnswersHis
<1>3. /\ request'[q].run = s /\ request'[q].status # "pending"
      /\ \A p \in Requests \ {q} : request'[p] = request[p]
  BY <1>1, <1>2 DEF SaveRequest, RequestRow
<1>4. /\ act'[h].run = s /\ act'[h].pc = pc
      /\ \A b \in Actors \ {h} : act'[b] = act[b]
  BY <1>1 DEF SaveRequest, Goto, ActorRec
<1>5. UNCHANGED run /\ late \subseteq late' /\ (s \notin late' => request[q].status = "pending")
  BY DEF SaveRequest, KeepRows
<1>. HIDE DEF q, s
<1>6. ASSUME NEW r \in Runs \ late', NEW b \in Actors
      PROVE  Holds(b, r)' => IF r = s THEN b = h ELSE Holds(b, r)
  <2>1. CASE b = h
    <3>1. act'[h].run = s
      BY <1>4
    <3>. QED  BY <2>1, <3>1, <1>4 DEF Holds
  <2>2. CASE b # h /\ r # s
    BY <1>4, <2>2 DEF Holds, Holding
  <2>3. CASE b # h /\ r = s
    <3>1. Asks(q, r)
      BY <1>1, <1>2, <1>5, <2>3 DEF Asks
    <3>2. ~Holds(b, r)
      BY <1>1, <1>5, <3>1 DEF Owned, AsksAlone
    <3>. QED  BY <1>4, <2>3, <3>2 DEF Holds, Holding
  <2>. QED  BY <2>1, <2>2, <2>3
<1>7. ASSUME NEW r \in Runs \ late', NEW p \in Requests
      PROVE  Asks(p, r)' => r # s /\ Asks(p, r)
  <2>1. CASE p = q
    BY <1>3, <2>1 DEF Asks
  <2>2. CASE p # q /\ r # s
    BY <1>3, <2>2 DEF Asks
  <2>3. CASE p # q /\ r = s
    <3>1. Asks(q, r)
      BY <1>1, <1>2, <1>5, <2>3 DEF Asks
    <3>2. ~Asks(p, r)
      BY <1>1, <1>5, <2>3, <3>1 DEF Owned, AsksAlone
    <3>. QED  BY <1>3, <2>3, <3>2 DEF Asks
  <2>. QED  BY <2>1, <2>2, <2>3
<1>8. OneHolder'
  BY <1>5, <1>6 DEF OneHolder, Owned
<1>9. AsksAlone'
  BY <1>5, <1>6, <1>7 DEF AsksAlone, Owned
<1>10. FreeIsFree'
  <2>1. ASSUME NEW r \in Runs \ late', run[r].status \in Free
        PROVE  r # s
    BY <1>1, <1>2, <1>5, <2>1 DEF Owned, FreeIsFree, Asks
  <2>. QED  BY <1>5, <1>6, <1>7, <2>1 DEF FreeIsFree, Owned
<1>11. AnswersHis'
  <2>1. pc \notin Asking
    BY DEF Asking
  <2>2. \A p \in Requests : request'[p].run = request[p].run
    BY <1>2, <1>3
  <2>3. \A b \in Actors : act[b].pc \in Asking => act[b].req \in Requests
    BY DEF Typed, LocalsOK
  <2>. QED  BY <1>4, <2>1, <2>2, <2>3 DEF AnswersHis, Owned
<1>. QED  BY <1>8, <1>9, <1>10, <1>11 DEF Owned

LEMMA HandlerOwned ==
    ASSUME Typed, Typed', Owned, NEW h \in Handlers, HandlerStep(h)
    PROVE  Owned'
<1>. USE DEF RunStatus, Settled, PC, Loose, Asking, Moving, Free, LetsGo, Creating, Validating,
             Executing, Inline, Approving, Granting, Denying, KeepRows, KeepHistory
<1>0. h \in Actors /\ act[h] \in ActorRec
  BY DEF Actors, Typed, TypeOK
<1>1. CASE resolveAndBindForRun(h)
  <2>. DEFINE pc == IF act[h].pc = "create_bind" THEN "create_save" ELSE "approve_resave"
              x == [act[h] EXCEPT !.pc = pc]
  <2>1. x.pc = pc /\ act' = [act EXCEPT ![h] = x] /\ UNCHANGED <<request, late>>
    BY <1>0, <1>1 DEF resolveAndBindForRun, Goto, ActorRec
  <2>2. act[h].run \in Runs /\ run \in [Runs -> RunRow]
    BY <1>0, <1>1 DEF resolveAndBindForRun, Typed, TypeOK, LocalsOK
  <2>3. \A r \in Runs : run'[r].status = run[r].status
    BY <1>1, <2>2 DEF resolveAndBindForRun, RunRow
  <2>4. ~Holding(x) /\ x.pc \notin Asking
    BY <2>1 DEF Holding
  <2>. HIDE DEF pc, x
  <2>. QED  BY <1>0, <2>1, <2>3, <2>4, OwnerMoves
<1>2. CASE CreateResave(h)
  <2>1. act[h].run \in Runs /\ late \subseteq Runs
    BY <1>0, <1>2 DEF CreateResave, Typed, TypeOK, LocalsOK
  <2>2. late \subseteq late' /\ (run[act[h].run].status \in Free \/ act[h].run \in late')
    BY <1>2, <2>1 DEF CreateResave, SavedLate
  <2>3. /\ SetStatus(act[h].run, "staged") /\ LetsGo(h) /\ UNCHANGED request
        /\ act[h].pc \notin Loose
    BY <1>2 DEF CreateResave
  <2>4. "staged" \in RunStatus
    OBVIOUS
  <2>. QED  BY <1>0, <2>2, <2>3, <2>4, OwnerLetsGo
<1>3. CASE InlineClaim(h)
  <2>1. CASE run[act[h].run].status = "staged"
    <3>1. /\ SetStatus(act[h].run, "validation_pending") /\ Goto(h, "validate")
          /\ UNCHANGED <<request, late>>
      BY <1>3, <2>1 DEF InlineClaim
    <3>2. act[h].pc \notin Loose /\ run[act[h].run].status \in Free
      BY <1>3, <2>1 DEF InlineClaim
    <3>. QED  BY <1>0, <3>1, <3>2, OwnerTakes
  <2>2. CASE run[act[h].run].status # "staged"
    BY <1>0, <1>3, <2>2, OwnerRests DEF InlineClaim
  <2>. QED  BY <2>1, <2>2
<1>4. CASE InlineCheck(h)
  BY <1>0, <1>4, OwnerRests DEF InlineCheck
<1>5. CASE InlineExecute(h)
  <2>1. CASE run[act[h].run].status = "approved"
    <3>1. /\ SetStatus(act[h].run, "executing") /\ Goto(h, "read_executing")
          /\ UNCHANGED <<request, late>>
      BY <1>5, <2>1 DEF InlineExecute
    <3>2. act[h].pc \notin Loose /\ run[act[h].run].status \in Free
      BY <1>5, <2>1 DEF InlineExecute
    <3>. QED  BY <1>0, <3>1, <3>2, OwnerTakes
  <2>2. CASE run[act[h].run].status # "approved"
    BY <1>0, <1>5, <2>2, OwnerRests DEF InlineExecute
  <2>. QED  BY <2>1, <2>2
<1>6. CASE SaveApproval(h)
  <2>1. act[h].run \in Runs /\ late \subseteq Runs
    BY <1>0, <1>6 DEF SaveApproval, Typed, TypeOK, LocalsOK
  <2>2. late \subseteq late' /\ (run[act[h].run].status \in Free \/ act[h].run \in late')
    BY <1>6, <2>1 DEF SaveApproval, SavedLate
  <2>3. /\ SetStatus(act[h].run, "approved") /\ LetsGo(h) /\ UNCHANGED request
        /\ act[h].pc \notin Loose
    BY <1>6 DEF SaveApproval
  <2>4. "approved" \in RunStatus
    OBVIOUS
  <2>. QED  BY <1>0, <2>2, <2>3, <2>4, OwnerLetsGo
<1>7. CASE ApprovedJob(h)
  BY <1>0, <1>7, OwnerRests DEF ApprovedJob
<1>8. CASE SaveRequest(h)
  BY <1>8, AnswerOwned
<1>9. CASE Resume(h)
  <2>1. /\ SetStatus(act[h].run, "executing") /\ Goto(h, "grant_job")
        /\ UNCHANGED <<request, late>>
    BY <1>9 DEF Resume
  <2>2. act[h].pc \notin Loose /\ Holding(act[h])
    BY <1>9 DEF Resume, Holding
  <2>. QED  BY <1>0, <2>1, <2>2, OwnerTakes
<1>10. CASE ResumedJob(h)
  <2>1. Goto(h, "read_executing") /\ UNCHANGED <<run, request, late>>
    BY <1>10 DEF ResumedJob
  <2>2. act[h].pc \notin Loose /\ Holding(act[h])
    BY <1>10 DEF ResumedJob, Holding
  <2>. QED  BY <1>0, <2>1, <2>2, OwnerHoldsOn
<1>11. CASE Block(h)
  <2>1. /\ SetStatus(act[h].run, "blocked") /\ LetsGo(h) /\ UNCHANGED <<request, late>>
        /\ act[h].pc \notin Loose
    BY <1>11 DEF Block
  <2>. QED  BY <1>0, <2>1, OwnerLetsGo
<1>12. CASE BlockedJob(h)
  BY <1>0, <1>12, OwnerRests DEF BlockedJob
<1>. QED
  BY <1>1, <1>2, <1>3, <1>4, <1>5, <1>6, <1>7, <1>8, <1>9, <1>10, <1>11, <1>12
  DEF HandlerStep

\* A step that needs approval: the run passes from its actor to a new request.
LEMMA QuestionOwned ==
    ASSUME Typed, Typed', Owned, NEW a \in Actors, Holding(act[a]), act[a].run \in Runs,
           NEW q \in Requests, request[q] = None,
           request' = [request EXCEPT ![q] = [run |-> act[a].run, status |-> "pending"]],
           UNCHANGED <<run, late>>, Leave(a, "pause")
    PROVE  Owned'
<1>. DEFINE s == act[a].run
            x == [act[a] EXCEPT !.pc = "pause", !.step = 0]
<1>1. act \in [Actors -> ActorRec] /\ request \in [Requests -> RequestRow \cup {None}]
  BY DEF Typed, TypeOK
<1>2. x.pc = "pause" /\ act' = [act EXCEPT ![a] = x]
  BY <1>1 DEF ActorRec, Leave
<1>. HIDE DEF x
<1>3. act'[a].pc = "pause" /\ \A b \in Actors \ {a} : act'[b] = act[b]
  BY <1>1, <1>2
<1>4. /\ request'[q] # None /\ request'[q].run = s
      /\ \A p \in Requests \ {q} : request'[p] = request[p]
  <2>1. request'[q] = [run |-> s, status |-> "pending"]
    BY <1>1
  <2>2. request'[q] \in RequestRow
    BY <2>1 DEF RequestRow, RequestStatus
  <2>. QED  BY <1>1, <2>1, <2>2, NullAssumption
<1>. HIDE DEF s
<1>5. ASSUME NEW r \in Runs \ late, NEW b \in Actors
      PROVE  Holds(b, r)' => Holds(b, r) /\ r # s
  <2>1. CASE b = a
    BY <1>3, <2>1 DEF Holds, Holding, Moving
  <2>2. CASE b # a
    <3>1. Holds(b, r) => r # s
      BY <2>2 DEF Owned, OneHolder, Holds, s
    <3>. QED  BY <1>3, <2>2, <3>1 DEF Holds, Holding
  <2>. QED  BY <2>1, <2>2
<1>6. ASSUME NEW r \in Runs \ late, NEW p \in Requests
      PROVE  Asks(p, r)' => IF r = s THEN p = q ELSE Asks(p, r)
  <2>1. CASE p = q
    BY <1>4, <2>1 DEF Asks
  <2>2. CASE p # q /\ r # s
    BY <1>4, <2>2 DEF Asks
  <2>3. CASE p # q /\ r = s
    <3>1. ~Asks(p, r)
      BY <2>3 DEF Owned, AsksAlone, Holds, s
    <3>. QED  BY <1>4, <2>3, <3>1 DEF Asks
  <2>. QED  BY <2>1, <2>2, <2>3
<1>7. OneHolder'
  BY <1>5 DEF OneHolder, Owned
<1>8. AsksAlone'
  BY <1>5, <1>6 DEF AsksAlone, Owned
<1>9. FreeIsFree'
  <2>1. s \in Runs \ late => run[s].status \notin Free
    BY DEF Owned, FreeIsFree, Holds, s
  <2>. QED  BY <1>5, <1>6, <2>1 DEF FreeIsFree, Owned
<1>10. AnswersHis'
  <2>1. \A b \in Actors : act[b].pc \in Asking => act[b].req \in Requests \ {q}
    BY DEF Typed, LocalsOK
  <2>. QED  BY <1>3, <1>4, <2>1 DEF AnswersHis, Owned, Asking
<1>. QED  BY <1>7, <1>8, <1>9, <1>10 DEF Owned

LEMMA RunOwned ==
    ASSUME Typed, Typed', Owned, NEW a \in Actors, RunStep(a)
    PROVE  Owned'
<1>. USE DEF RunStatus, Settled, PC, Loose, Asking, Moving, Free, LetsGo, Validating, Executing,
             Trying, Inline, KeepRows, KeepHistory
<1>0. act[a] \in ActorRec /\ run \in [Runs -> RunRow] /\ (act[a].pc \notin Loose => act[a].run \in Runs)
  BY DEF Typed, TypeOK, LocalsOK
<1>1. CASE ReadPending(a)
  <2>1. Holding(act[a]) /\ UNCHANGED <<run, request, late>> /\ act[a].pc \notin Loose
    BY <1>1 DEF ReadPending, Holding
  <2>2. ASSUME NEW pc \in {"validate_save", "unclaim"}, Goto(a, pc)
        PROVE  Owned'
    BY <2>1, <2>2, OwnerHoldsOn
  <2>3. CASE AfterValidation(a) \/ End(a)
    BY <2>1, <2>3, OwnerRests DEF AfterValidation
  <2>. QED  BY <1>1, <2>2, <2>3 DEF ReadPending
<1>2. CASE SaveValidation(a)
  <2>1. act[a].pc \notin Loose /\ UNCHANGED <<request, late>>
    BY <1>2 DEF SaveValidation
  <2>2. CASE act' = [act EXCEPT ![a].pc = "validate_job", ![a].broken = TRUE]
             /\ SetStatus(act[a].run, "validation_failed")
    <3>. DEFINE x == [act[a] EXCEPT !.pc = "validate_job", !.broken = TRUE]
    <3>1. x.pc = "validate_job" /\ act' = [act EXCEPT ![a] = x]
      BY <1>0, <2>2 DEF ActorRec
    <3>2. run'[act[a].run].status = "validation_failed"
      BY <1>0, <2>1, <2>2 DEF SetStatus, RunRow
    <3>. HIDE DEF x
    <3>3. ~Holding(x)
      BY <3>1 DEF Holding
    <3>. QED  BY <2>1, <2>2, <3>1, <3>2, <3>3, OwnerWorks
  <2>3. ASSUME NEW s \in {"approval_pending", "approved"}, SetStatus(act[a].run, s),
               ~act[a].broken, NEW pc \in {"validate_job", "validate_audit"}, Goto(a, pc)
        PROVE  Owned'
    <3>1. Holding(act[a])
      BY <1>2, <2>3 DEF SaveValidation, Holding
    <3>2. LetsGo(a)
      BY <2>3
    <3>. QED  BY <2>1, <2>3, <3>1, <3>2, OwnerLetsGo
  <2>. QED  BY <1>2, <2>2, <2>3 DEF SaveValidation
<1>3. CASE ReportValidation(a)
  <2>1. CASE TurnToApproved(a) \/ Goto(a, "validate_audit")
    BY <1>3, <2>1, OwnerRests DEF ReportValidation
  <2>2. CASE act' = [act EXCEPT ![a].pc = "inline_check", ![a].broken = FALSE]
    <3>. DEFINE x == [act[a] EXCEPT !.pc = "inline_check", !.broken = FALSE]
    <3>1. x.pc = "inline_check" /\ act' = [act EXCEPT ![a] = x]
      BY <1>0, <2>2 DEF ActorRec
    <3>. HIDE DEF x
    <3>. QED  BY <1>3, <3>1, OwnerLooks DEF ReportValidation, Holding
  <2>. QED  BY <1>3, <2>1, <2>2 DEF ReportValidation
<1>4. CASE ReadExecuting(a)
  <2>1. Holding(act[a]) /\ UNCHANGED <<run, request, late>> /\ act[a].pc \notin Loose
    BY <1>4 DEF ReadExecuting, Holding
  <2>2. CASE act' = [act EXCEPT ![a].pc = "step", ![a].step = 1, ![a].broken = FALSE]
    <3>. DEFINE x == [act[a] EXCEPT !.pc = "step", !.step = 1, !.broken = FALSE]
    <3>1. x.pc = "step" /\ x.run = act[a].run /\ act' = [act EXCEPT ![a] = x]
      BY <1>0, <2>2 DEF ActorRec
    <3>. HIDE DEF x
    <3>. QED  BY <2>1, <3>1, OwnerMovesOn
  <2>3. CASE Goto(a, "unexecute")
    BY <2>1, <2>3, OwnerHoldsOn
  <2>4. CASE End(a)
    BY <2>1, <2>4, OwnerRests
  <2>. QED  BY <1>4, <2>2, <2>3, <2>4 DEF ReadExecuting
<1>5. CASE RunTypedAction(a)
  <2>1. /\ Holding(act[a]) /\ UNCHANGED <<run, late>> /\ act[a].pc \notin Loose
        /\ act[a].pc = "step"
    BY <1>5 DEF RunTypedAction, Holding
  <2>2. ASSUME NEW pc \in {"reread", "fail"}, Leave(a, pc), UNCHANGED request
        PROVE  Owned'
    BY <2>1, <2>2, OwnerRests
  <2>3. CASE act' = [act EXCEPT ![a].step = act[a].step + 1] /\ UNCHANGED request
    <3>. DEFINE x == [act[a] EXCEPT !.step = act[a].step + 1]
    <3>1. x.pc = "step" /\ x.run = act[a].run /\ act' = [act EXCEPT ![a] = x]
      BY <1>0, <2>1, <2>3 DEF ActorRec
    <3>. HIDE DEF x
    <3>. QED  BY <2>1, <2>3, <3>1, OwnerMovesOn
  <2>. QED  BY <1>0, <1>5, <2>1, <2>2, <2>3, QuestionOwned DEF RunTypedAction
<1>6. CASE ExtractFile(a)
  BY <1>6, OwnerRests DEF ExtractFile
<1>7. CASE Pause(a)
  <2>1. /\ SetStatus(act[a].run, "paused_approval_required") /\ LetsGo(a)
        /\ UNCHANGED <<request, late>> /\ act[a].pc \notin Loose
    BY <1>7 DEF Pause
  <2>. QED  BY <2>1, OwnerLetsGo
<1>8. CASE Reread(a)
  BY <1>8, OwnerRests DEF Reread
<1>9. CASE Complete(a)
  <2>1. /\ SetStatus(act[a].run, "completed") /\ LetsGo(a)
        /\ UNCHANGED <<request, late>> /\ act[a].pc \notin Loose
    BY <1>9 DEF Complete
  <2>. QED  BY <2>1, OwnerLetsGo
<1>10. CASE IndexFile(a)
  BY <1>10, OwnerRests DEF IndexFile
<1>11. CASE CompleteJob(a)
  BY <1>11, OwnerRests DEF CompleteJob
<1>12. CASE Fail(a)
  <2>1. /\ SetStatus(act[a].run, "failed") /\ LetsGo(a)
        /\ UNCHANGED <<request, late>> /\ act[a].pc \notin Loose
    BY <1>12 DEF Fail
  <2>. QED  BY <2>1, OwnerLetsGo
<1>13. CASE FailJob(a)
  BY <1>13, OwnerRests DEF FailJob
<1>14. CASE WriteAudit(a)
  BY <1>14, OwnerRests DEF WriteAudit, AfterValidation
<1>. QED
  BY <1>1, <1>2, <1>3, <1>4, <1>5, <1>6, <1>7, <1>8, <1>9, <1>10, <1>11, <1>12, <1>13,
     <1>14
  DEF RunStep

LEMMA RequestOwned ==
    ASSUME Typed, Typed', Owned, NEW h \in Handlers, Request(h)
    PROVE  Owned'
<1>. USE DEF Asking, Moving, Holding, KeepRows, KeepHistory
<1>0. h \in Actors /\ act[h] \in ActorRec /\ run \in [Runs -> RunRow]
  BY DEF Typed, TypeOK, Actors
<1>1. ASSUME NEW r \in Runs, Create(h, r)
      PROVE  Owned'
  <2>. DEFINE x == [act[h] EXCEPT !.pc = "create_bind", !.run = r]
  <2>1. x.pc = "create_bind" /\ act' = [act EXCEPT ![h] = x] /\ UNCHANGED <<request, late>>
    BY <1>0, <1>1 DEF ActorRec, Create
  <2>. HIDE DEF x
  <2>2. run[r].status \in Free /\ \A t \in Runs \ {r} : run'[t] = run[t]
    BY <1>0, <1>1 DEF Create, Free
  <2>. QED  BY <1>0, <2>1, <2>2, OwnerMoves
<1>2. ASSUME NEW r \in Runs, approveSandboxRun(h, r)
      PROVE  Owned'
  <2>. DEFINE x == [act[h] EXCEPT !.pc = "approve_save", !.run = r]
  <2>1. /\ x.pc = "approve_save" /\ act' = [act EXCEPT ![h] = x]
        /\ UNCHANGED <<run, request, late>>
    BY <1>0, <1>2 DEF ActorRec, approveSandboxRun
  <2>. HIDE DEF x
  <2>. QED  BY <1>0, <2>1, OwnerLooks
<1>3. ASSUME NEW q \in Requests, NEW pc \in Asking, UNCHANGED <<run, request, late>>,
             act' = [act EXCEPT ![h].pc = pc, ![h].run = request[q].run, ![h].req = q]
      PROVE  Owned'
  <2>. DEFINE x == [act[h] EXCEPT !.pc = pc, !.run = request[q].run, !.req = q]
  <2>1. x.pc = pc /\ x.req = q /\ x.run = request[q].run /\ act' = [act EXCEPT ![h] = x]
    BY <1>0, <1>3 DEF ActorRec
  <2>. HIDE DEF x
  <2>. QED  BY <1>0, <1>3, <2>1, OwnerLooks
<1>. QED  BY <1>1, <1>2, <1>3 DEF Request, approveRequest, rejectRequest

LEMMA StepOwned == Typed /\ Typed' /\ Owned /\ [Next]_vars => Owned'
<1>. SUFFICES ASSUME Typed, Typed', Owned, [Next]_vars
              PROVE  Owned'
  OBVIOUS
<1>. USE DEF KeepRows, KeepHistory
<1>1. CASE UNCHANGED <<run, request, act, late>>
  BY <1>1
  DEF Owned, OneHolder, AsksAlone, FreeIsFree, AnswersHis, Holds, Holding, Asks
<1>2. ASSUME NEW a \in Actors, Throw(a)
      PROVE  Owned'
  <2>1. UNCHANGED <<run, request, late>> /\ Leave(a, "fail")
    BY <1>2 DEF Throw
  <2>. QED  BY <2>1, OwnerRests DEF LetsGo, PC, Executing, Asking, Moving
<1>3. ASSUME NEW a \in Actors, ThrowInvalid(a)
      PROVE  Owned'
  <2>. DEFINE x == [act[a] EXCEPT !.pc = "validate_save", !.broken = TRUE]
  <2>1. x.pc = "validate_save" /\ x.broken /\ act' = [act EXCEPT ![a] = x]
    BY <1>3 DEF ThrowInvalid, Typed, TypeOK, ActorRec
  <2>. HIDE DEF x
  <2>. QED  BY <1>3, <2>1, OwnerLooks DEF ThrowInvalid, Holding, Moving, Asking
<1>4. ASSUME NEW a \in Actors, Crash(a)
      PROVE  Owned'
  BY <1>4, OwnerLooks DEF Crash, Resting, Holding, Moving, Asking
<1>5. ASSUME NEW q \in Requests, ExpireRequest(q)
      PROVE  Owned'
  <2>1. /\ UNCHANGED <<run, act, late>> /\ request[q] # None
        /\ request' = [request EXCEPT ![q].status = "expired"]
        /\ request \in [Requests -> RequestRow \cup {None}]
    BY <1>5 DEF ExpireRequest, Typed, TypeOK
  <2>2. \A p \in Requests : request[p] # None => request'[p].run = request[p].run
    BY <2>1 DEF RequestRow
  <2>3. \A p \in Requests : \A r : Asks(p, r)' => Asks(p, r)
    BY <2>1 DEF Asks, RequestRow
  <2>4. \A a, r : Holds(a, r)' <=> Holds(a, r)
    BY <2>1 DEF Holds, Holding
  <2>5. AnswersHis'
    BY <2>1, <2>2 DEF Owned, AnswersHis, Typed, LocalsOK
  <2>6. OneHolder' /\ AsksAlone' /\ FreeIsFree'
    BY <2>1, <2>3, <2>4 DEF Owned, OneHolder, AsksAlone, FreeIsFree
  <2>. QED  BY <2>5, <2>6 DEF Owned
<1>. QED
  BY <1>1, <1>2, <1>3, <1>4, <1>5, NodeOwned, HandlerOwned, RunOwned, RequestOwned
  DEF Next, vars, Switch

\* Two replicas, a replica and an admin, or two admins perform steps of one run at
\* once only after one of them saved a row over a status it had not read.
THEOREM SandboxOneStepper == Spec => []OneStepper
<1>1. Typed /\ Owned => OneStepper
  <2>. SUFFICES ASSUME Typed, Owned, NEW a \in Actors, NEW b \in Actors,
                       act[a].pc = "step", act[b].pc = "step", act[a].run = act[b].run,
                       act[a].run \notin late
                PROVE  a = b
    BY DEF OneStepper
  <2>1. act[a].run \in Runs
    BY DEF Typed, LocalsOK, Loose
  <2>. QED  BY <2>1 DEF Owned, OneHolder, Holds, Holding, Moving
<1>2. Init => Typed /\ Owned
  BY InitTyped, InitOwned
<1>3. Typed /\ Owned /\ [Next]_vars => Typed' /\ Owned'
  BY StepTyped, StepOwned
<1>. QED  BY <1>1, <1>2, <1>3, PTL DEF Spec

-----------------------------------------------------------------------------
\* Inline runs: until its creator begins to execute it, no other actor and no
\* request is about such a run.
Checking == Validating \cup Inline
Making == Creating \cup Checking

KindsOK ==
    \A r \in Runs : /\ run[r].kind = "inline" => ~run[r].gated
                    /\ run[r].status = "approval_pending" => run[r].gated
ActorKindsOK ==
    /\ \A n \in Nodes : act[n].pc \notin Loose => run[act[n].run].kind # "inline"
    /\ \A h \in Handlers : act[h].pc \in Checking => run[act[h].run].kind = "inline"
Makes(h) == act[h].pc \in Making /\ run[act[h].run].kind = "inline"
MakersAlone ==
    \A h \in Handlers :
        Makes(h) =>
            /\ \A b \in Actors \ {h} : act[b].pc \notin Loose => act[b].run # act[h].run
            /\ \A q \in Requests : request[q] # None => request[q].run # act[h].run
Unraced == KindsOK /\ ActorKindsOK /\ MakersAlone /\ InlineIsNotRaced

\* Nobody makes a run that is of the queue, new, or asked about.
NotMade(r) ==
    \/ run[r].kind # "inline" \/ run[r].status = "absent"
    \/ \E q \in Requests : request[q] # None /\ request[q].run = r

RequestsAre(a) ==
    \A q \in Requests : request'[q] # None =>
        \/ request[q] # None /\ request'[q].run = request[q].run
        \/ act[a].pc \notin Loose \cup Making /\ request'[q].run = act[a].run

LEMMA InlineMoves ==
    ASSUME Typed, Typed', Unraced, KindsOK', NEW a \in Actors, NEW x,
           act' = [act EXCEPT ![a] = x], RequestsAre(a),
           \A r \in Runs :
               /\ run[r].status # "absent" => run'[r].kind = run[r].kind
               /\ \/ run'[r].status = run[r].status \/ run[r].status = "absent"
                  \/ act[a].pc \notin Loose /\ r = act[a].run,
           x.pc \notin Loose => (act[a].pc \notin Loose /\ x.run = act[a].run) \/ NotMade(x.run),
           a \in Nodes /\ x.pc \notin Loose => run'[x.run].kind # "inline",
           a \in Handlers /\ x.pc \in Checking => run'[x.run].kind = "inline",
           a \in Handlers /\ x.pc \in Making =>
               /\ run[x.run].status = "absent" \/ (act[a].pc \in Making /\ x.run = act[a].run)
               /\ x.pc = "inline_execute" => run'[x.run].status = "approved"
    PROVE  Unraced'
<1>1. /\ act \in [Actors -> ActorRec] /\ act'[a] = x
      /\ \A b \in Actors \ {a} : act'[b] = act[b]
  BY DEF Typed, TypeOK
<1>2. \A b \in Actors : act[b].pc \notin Loose => act[b].run \in Runs /\ run[act[b].run].status # "absent"
  BY DEF Typed, LocalsOK
<1>3. \A q \in Requests : request[q] # None => run[request[q].run].status # "absent"
  BY DEF Typed, RequestsOK
<1>4. Making \cap Loose = {} /\ Checking \subseteq Making /\ "inline_execute" \in Checking
  BY DEF Making, Checking, Loose, Creating, Validating, Inline
<1>5. \A n \in Nodes : n \in Actors
  BY DEF Actors
<1>6. \A h \in Handlers : h \in Actors
  BY DEF Actors
<1>7. ActorKindsOK'
  <2>1. ASSUME NEW n \in Nodes, act'[n].pc \notin Loose
        PROVE  run'[act'[n].run].kind # "inline"
    <3>1. CASE n = a
      BY <1>1, <2>1, <3>1
    <3>2. CASE n # a
      BY <1>1, <1>2, <1>5, <2>1, <3>2 DEF Unraced, ActorKindsOK
    <3>. QED  BY <3>1, <3>2
  <2>2. ASSUME NEW h \in Handlers, act'[h].pc \in Checking
        PROVE  run'[act'[h].run].kind = "inline"
    <3>1. CASE h = a
      BY <1>1, <2>2, <3>1
    <3>2. CASE h # a
      <4>1. act'[h] = act[h] /\ act[h].pc \notin Loose
        BY <1>1, <1>4, <1>6, <2>2, <3>2
      <4>. QED  BY <1>2, <1>6, <2>2, <4>1 DEF Unraced, ActorKindsOK
    <3>. QED  BY <3>1, <3>2
  <2>. QED  BY <2>1, <2>2 DEF ActorKindsOK
<1>8. ASSUME NEW h \in Handlers \ {a}, act[h].pc \in Making, run'[act[h].run].kind = "inline"
      PROVE  /\ act[h].run \in Runs /\ Makes(h)
             /\ act[a].pc \notin Loose => act[a].run # act[h].run
             /\ x.pc \notin Loose => x.run # act[h].run
             /\ run'[act[h].run].status = run[act[h].run].status
  <2>1. act[h].run \in Runs /\ run[act[h].run].status # "absent"
    BY <1>2, <1>4, <1>6, <1>8
  <2>2. Makes(h)
    BY <1>8, <2>1 DEF Makes
  <2>3. act[a].pc \notin Loose => act[a].run # act[h].run
    BY <2>2 DEF Unraced, MakersAlone
  <2>4. ~NotMade(act[h].run)
    BY <2>1, <2>2 DEF Unraced, MakersAlone, NotMade, Makes
  <2>. QED  BY <2>1, <2>2, <2>3, <2>4
<1>9. ASSUME NEW h \in Handlers, Makes(h)'
      PROVE  /\ \A b \in Actors \ {h} : act'[b].pc \notin Loose => act'[b].run # act'[h].run
             /\ \A q \in Requests : request'[q] # None => request'[q].run # act'[h].run
  <2>1. CASE h # a
    <3>1. act'[h] = act[h] /\ act[h].pc \in Making /\ run'[act[h].run].kind = "inline"
      BY <1>1, <1>6, <1>9, <2>1 DEF Makes
    <3>2. /\ Makes(h)
          /\ act[a].pc \notin Loose => act[a].run # act[h].run
          /\ x.pc \notin Loose => x.run # act[h].run
      BY <1>8, <2>1, <3>1
    <3>3. ASSUME NEW b \in Actors \ {h}, act'[b].pc \notin Loose
          PROVE  act'[b].run # act[h].run
      BY <1>1, <3>2, <3>3 DEF Unraced, MakersAlone
    <3>4. ASSUME NEW q \in Requests, request'[q] # None
          PROVE  request'[q].run # act[h].run
      BY <1>4, <1>8, <2>1, <3>1, <3>2, <3>4 DEF Unraced, MakersAlone, RequestsAre
    <3>. QED  BY <3>1, <3>3, <3>4
  <2>2. CASE h = a /\ run[x.run].status = "absent"
    <3>1. act'[h].run = x.run
      BY <1>1, <2>2
    <3>2. \A b \in Actors \ {h} : act[b].pc \notin Loose => act[b].run # x.run
      BY <1>2, <2>2
    <3>3. \A q \in Requests : request'[q] # None => request'[q].run # x.run
      BY <1>2, <1>3, <2>2 DEF RequestsAre
    <3>. QED  BY <1>1, <2>2, <3>1, <3>2, <3>3
  <2>3. CASE h = a /\ run[x.run].status # "absent"
    <3>1. act'[h].run = act[h].run /\ act[h].pc \in Making /\ x.run = act[h].run
      BY <1>1, <1>9, <2>3 DEF Makes
    <3>2. act[h].run \in Runs /\ run[act[h].run].status # "absent"
      BY <1>2, <1>4, <1>6, <3>1
    <3>3. Makes(h)
      BY <1>9, <3>1, <3>2 DEF Makes
    <3>4. \A q \in Requests : request'[q] # None => request'[q].run # act[h].run
      BY <2>3, <3>1, <3>3 DEF Unraced, MakersAlone, RequestsAre
    <3>5. \A b \in Actors \ {h} : act'[b] = act[b]
      BY <1>1, <2>3
    <3>. QED  BY <3>1, <3>3, <3>4, <3>5 DEF Unraced, MakersAlone
  <2>. QED  BY <2>1, <2>2, <2>3
<1>10. MakersAlone'
  BY <1>9 DEF MakersAlone
<1>11. InlineIsNotRaced'
  <2>. SUFFICES ASSUME NEW h \in Handlers, act'[h].pc = "inline_execute"
                PROVE  run'[act'[h].run].status = "approved"
    BY DEF InlineIsNotRaced
  <2>1. CASE h = a
    BY <1>1, <1>4, <2>1
  <2>2. CASE h # a
    <3>1. act'[h] = act[h]
      BY <1>1, <1>6, <2>2
    <3>2. act[h].pc \in Making /\ run'[act[h].run].kind = "inline"
      BY <1>4, <1>7, <3>1 DEF ActorKindsOK
    <3>. QED  BY <1>8, <2>2, <3>1, <3>2 DEF Unraced, InlineIsNotRaced
  <2>. QED  BY <2>1, <2>2
<1>. QED  BY <1>7, <1>10, <1>11 DEF Unraced

\* The step of an actor that has a run, writes at most its status and asks nobody.
LEMMA InlineWorks ==
    ASSUME Typed, Typed', Unraced, NEW a \in Actors, act[a].pc \notin Loose,
           NEW x, act' = [act EXCEPT ![a] = x],
           x.pc \notin Loose => x.run = act[a].run, UNCHANGED request,
           NEW s \in RunStatus, SetStatus(act[a].run, s) \/ UNCHANGED run,
           SetStatus(act[a].run, s) /\ s = "approval_pending" => run[act[a].run].gated,
           a \in Handlers /\ x.pc \in Checking =>
               act[a].pc \in Checking \/ run[act[a].run].kind = "inline",
           a \in Handlers /\ x.pc \in Making => act[a].pc \in Making,
           x.pc = "inline_execute" => run'[act[a].run].status = "approved"
    PROVE  Unraced'
<1>1. act[a].run \in Runs /\ run \in [Runs -> RunRow] /\ (a \in Nodes => a \notin Handlers)
  BY SandboxAssumption DEF Typed, TypeOK, LocalsOK, SandboxAssumption
<1>2. \A r \in Runs :
          /\ run'[r].kind = run[r].kind /\ run'[r].gated = run[r].gated
          /\ \/ run'[r].status = run[r].status
             \/ r = act[a].run /\ run'[r].status = s /\ SetStatus(r, s)
  BY <1>1 DEF SetStatus, RunRow
<1>3. KindsOK'
  BY <1>2 DEF KindsOK, Unraced
<1>4. RequestsAre(a)
  BY DEF RequestsAre
<1>5. x.pc \in Making => x.pc \notin Loose
  BY DEF Making, Checking, Loose, Creating, Validating, Inline
<1>6. x.pc \in Checking => x.pc \in Making
  BY DEF Making
<1>7. a \in Nodes /\ x.pc \notin Loose => run'[x.run].kind # "inline"
  BY <1>1, <1>2 DEF Unraced, ActorKindsOK
<1>8. a \in Handlers /\ x.pc \in Checking => run'[x.run].kind = "inline"
  BY <1>1, <1>2, <1>5, <1>6 DEF Unraced, ActorKindsOK
<1>9. a \in Handlers /\ x.pc \in Making =>
          /\ run[x.run].status = "absent" \/ (act[a].pc \in Making /\ x.run = act[a].run)
          /\ x.pc = "inline_execute" => run'[x.run].status = "approved"
  BY <1>5
<1>. QED  BY <1>2, <1>3, <1>4, <1>7, <1>8, <1>9, InlineMoves

\* It ends, or goes to a place outside the creation of a run.
InlineLeaves(a) ==
    \/ End(a) \/ TurnToApproved(a)
    \/ \E pc \in PC \ Making : Goto(a, pc) \/ Leave(a, pc)

LEMMA InlineLeft ==
    ASSUME Typed, Typed', Unraced, NEW a \in Actors, act[a].pc \notin Loose,
           UNCHANGED request, InlineLeaves(a),
           NEW s \in RunStatus \ {"approval_pending"}, SetStatus(act[a].run, s) \/ UNCHANGED run
    PROVE  Unraced'
<1>0. act[a] \in ActorRec
  BY DEF Typed, TypeOK
<1>1. \E x : /\ act' = [act EXCEPT ![a] = x]
             /\ x.pc \in Loose \/ (x.pc \notin Making /\ x.run = act[a].run)
  <2>1. CASE End(a) \/ TurnToApproved(a)
    <3>. DEFINE x == IF End(a) THEN Ends(a) ELSE [Resting EXCEPT !.pc = "approved"]
    <3>1. x.pc \in Loose
      BY DEF Ends, Resting, Loose
    <3>2. act' = [act EXCEPT ![a] = x]
      BY <2>1 DEF End, TurnToApproved
    <3>. HIDE DEF x
    <3>. QED  BY <3>1, <3>2
  <2>2. ASSUME NEW pc \in PC \ Making, Goto(a, pc)
        PROVE  \E x : act' = [act EXCEPT ![a] = x] /\ x.pc \notin Making /\ x.run = act[a].run
    <3>1. [act[a] EXCEPT !.pc = pc].pc = pc /\ [act[a] EXCEPT !.pc = pc].run = act[a].run
      BY <1>0 DEF ActorRec
    <3>. QED  BY <2>2, <3>1 DEF Goto
  <2>3. ASSUME NEW pc \in PC \ Making, Leave(a, pc)
        PROVE  \E x : act' = [act EXCEPT ![a] = x] /\ x.pc \notin Making /\ x.run = act[a].run
    <3>. DEFINE x == [act[a] EXCEPT !.pc = pc, !.step = 0]
    <3>1. x.pc = pc /\ x.run = act[a].run
      BY <1>0 DEF ActorRec
    <3>2. act' = [act EXCEPT ![a] = x]
      BY <2>3 DEF Leave
    <3>. HIDE DEF x
    <3>. QED  BY <2>3, <3>1, <3>2
  <2>. QED  BY <2>1, <2>2, <2>3 DEF InlineLeaves
<1>2. PICK x : /\ act' = [act EXCEPT ![a] = x]
               /\ x.pc \in Loose \/ (x.pc \notin Making /\ x.run = act[a].run)
  BY <1>1
<1>3. x.pc \notin Making /\ x.pc \notin Checking /\ x.pc # "inline_execute"
  BY <1>2 DEF Making, Checking, Loose, Creating, Validating, Inline
<1>. QED  BY <1>2, <1>3, InlineWorks

LEMMA InitUnraced == Init => Unraced
<1>. SUFFICES ASSUME Init PROVE Unraced
  OBVIOUS
<1>1. (\A n \in Nodes : act[n].pc = "idle") /\ \A h \in Handlers : act[h].pc = "idle"
  BY DEF Init, Resting, Actors
<1>2. "idle" \notin Making /\ "idle" \notin Checking /\ "idle" \in Loose
  BY DEF Making, Checking, Creating, Validating, Inline, Loose
<1>3. KindsOK
  BY DEF Init, KindsOK
<1>. QED
  BY <1>1, <1>2, <1>3
  DEF Unraced, ActorKindsOK, MakersAlone, Makes, InlineIsNotRaced

\* Nothing is written.
LEMMA InlineLooks ==
    ASSUME Typed, Typed', Unraced, NEW a \in Actors, act[a].pc \notin Loose,
           NEW x, act' = [act EXCEPT ![a] = x], UNCHANGED <<run, request>>,
           x.pc \notin Loose => x.run = act[a].run,
           a \in Handlers /\ x.pc \in Checking => act[a].pc \in Checking,
           a \in Handlers /\ x.pc \in Making => act[a].pc \in Making,
           x.pc = "inline_execute" => run[act[a].run].status = "approved"
    PROVE  Unraced'
<1>1. \E s \in RunStatus \ {"approval_pending"} : TRUE
  BY DEF RunStatus
<1>. QED  BY <1>1, InlineWorks

LEMMA InlineRests ==
    ASSUME Typed, Typed', Unraced, NEW a \in Actors, act[a].pc \notin Loose,
           UNCHANGED <<run, request>>, InlineLeaves(a)
    PROVE  Unraced'
<1>1. \E s \in RunStatus \ {"approval_pending"} : TRUE
  BY DEF RunStatus
<1>. QED  BY <1>1, InlineLeft

\* An actor goes on with the creation of a run, or to it when it is inline.
LEMMA InlineGoes ==
    ASSUME Typed, Typed', Unraced, NEW a \in Actors, act[a].pc \notin Loose, UNCHANGED request,
           NEW pc \in PC, Goto(a, pc),
           NEW s \in RunStatus \ {"approval_pending"}, SetStatus(act[a].run, s) \/ UNCHANGED run,
           a \in Handlers /\ pc \in Checking =>
               act[a].pc \in Checking \/ run[act[a].run].kind = "inline",
           a \in Handlers /\ pc \in Making => act[a].pc \in Making,
           pc = "inline_execute" => run'[act[a].run].status = "approved"
    PROVE  Unraced'
<1>. DEFINE x == [act[a] EXCEPT !.pc = pc]
<1>1. x.pc = pc /\ x.run = act[a].run /\ act' = [act EXCEPT ![a] = x]
  BY DEF Typed, TypeOK, ActorRec, Goto
<1>. HIDE DEF x
<1>2. /\ a \in Handlers /\ x.pc \in Checking =>
             act[a].pc \in Checking \/ run[act[a].run].kind = "inline"
      /\ a \in Handlers /\ x.pc \in Making => act[a].pc \in Making
      /\ x.pc = "inline_execute" => run'[act[a].run].status = "approved"
  BY <1>1
<1>. QED  BY <1>1, <1>2, InlineWorks

\* From one statement of a check to the next, without a write.
LEMMA InlineChecks ==
    ASSUME Typed, Typed', Unraced, NEW a \in Actors, act[a].pc \in Checking,
           UNCHANGED run, UNCHANGED request,
           NEW pc \in {"validate_save", "validate_audit", "inline_check"}, Goto(a, pc)
    PROVE  Unraced'
<1>1. "approved" \in RunStatus \ {"approval_pending"}
  BY DEF RunStatus
<1>2. pc \in PC /\ pc # "inline_execute" /\ act[a].pc \notin Loose /\ act[a].pc \in Making
  BY DEF PC, Loose, Making, Checking, Validating, Inline
<1>. QED  BY <1>1, <1>2, InlineGoes

\* An actor that had no run, or gives its run up, and reads.
LEMMA InlineIdles ==
    ASSUME Typed, Typed', Unraced, NEW a \in Actors, NEW x, act' = [act EXCEPT ![a] = x],
           UNCHANGED <<run, request>>, x.pc \notin Making,
           x.pc \notin Loose => NotMade(x.run) /\ (a \in Nodes => run[x.run].kind # "inline")
    PROVE  Unraced'
<1>1. x.pc \notin Checking
  BY DEF Making
<1>2. KindsOK'
  BY DEF Unraced, KindsOK
<1>3. RequestsAre(a)
  BY DEF RequestsAre
<1>. QED  BY <1>1, <1>2, <1>3, InlineMoves

LEMMA NodeUnraced ==
    ASSUME Typed, Typed', Unraced, NEW n \in Nodes, NodeStep(n)
    PROVE  Unraced'
<1>. USE DEF RunStatus, Settled, PC, Loose, Creating, Validating, Executing, Inline, Checking,
             Making, InlineLeaves, KeepRows
<1>0. n \in Actors /\ act[n] \in ActorRec /\ n \notin Handlers
  BY SandboxAssumption DEF Actors, Typed, TypeOK, SandboxAssumption
<1>1. ASSUME NEW pc \in {"staged", "approved"}, Goto(n, pc), UNCHANGED <<run, request>>
      PROVE  Unraced'
  <2>. DEFINE x == [act[n] EXCEPT !.pc = pc]
  <2>1. x.pc = pc /\ act' = [act EXCEPT ![n] = x]
    BY <1>0, <1>1 DEF ActorRec, Goto
  <2>. HIDE DEF x
  <2>. QED  BY <1>0, <1>1, <2>1, InlineIdles
<1>2. ASSUME NEW pc \in {"claim_staged", "claim_approved"}, NEW r \in Runs,
             run[r].kind # "inline",
             act' = [act EXCEPT ![n].pc = pc, ![n].run = r], UNCHANGED <<run, request>>
      PROVE  Unraced'
  <2>. DEFINE x == [act[n] EXCEPT !.pc = pc, !.run = r]
  <2>1. x.pc = pc /\ x.run = r /\ act' = [act EXCEPT ![n] = x]
    BY <1>0, <1>2 DEF ActorRec
  <2>. HIDE DEF x
  <2>. QED  BY <1>0, <1>2, <2>1, InlineIdles DEF NotMade
<1>3. CASE StartTick(n)
  BY <1>1, <1>3 DEF StartTick
<1>4. CASE SelectStaged(n)
  BY <1>1, <1>2, <1>4 DEF SelectStaged, Queued
<1>5. CASE ClaimStaged(n)
  <2>1. CASE run[act[n].run].status = "staged"
    <3>1. /\ SetStatus(act[n].run, "validation_pending") /\ Goto(n, "validate")
          /\ UNCHANGED request /\ act[n].pc \notin Loose
      BY <1>5, <2>1 DEF ClaimStaged
    <3>. QED  BY <1>0, <3>1, InlineGoes
  <2>2. CASE run[act[n].run].status # "staged"
    BY <1>0, <1>5, <2>2, InlineRests DEF ClaimStaged
  <2>. QED  BY <2>1, <2>2
<1>6. CASE SelectApproved(n)
  <2>1. CASE act' = [act EXCEPT ![n] = Resting]
    BY <1>0, <1>6, <2>1, InlineIdles DEF SelectApproved, Resting
  <2>. QED  BY <1>2, <1>6, <2>1 DEF SelectApproved, Queued
<1>7. CASE ClaimApproved(n)
  <2>1. CASE run[act[n].run].status = "approved"
    <3>1. /\ SetStatus(act[n].run, "executing") /\ Goto(n, "read_executing")
          /\ UNCHANGED request /\ act[n].pc \notin Loose
      BY <1>7, <2>1 DEF ClaimApproved
    <3>. QED  BY <1>0, <3>1, InlineLeft
  <2>2. CASE run[act[n].run].status # "approved"
    BY <1>0, <1>7, <2>2, InlineRests DEF ClaimApproved
  <2>. QED  BY <2>1, <2>2
<1>8. CASE PutBack(n)
  <2>1. act[n].pc \notin Loose /\ UNCHANGED request /\ (End(n) \/ TurnToApproved(n))
    BY <1>8 DEF PutBack
  <2>2. CASE UNCHANGED run
    BY <1>0, <2>1, <2>2, InlineRests
  <2>3. ASSUME NEW s \in {"staged", "approved"}, SetStatus(act[n].run, s)
        PROVE  Unraced'
    BY <1>0, <2>1, <2>3, InlineLeft
  <2>. QED  BY <1>8, <2>2, <2>3 DEF PutBack
<1>. QED  BY <1>3, <1>4, <1>5, <1>6, <1>7, <1>8 DEF NodeStep

LEMMA HandlerUnraced ==
    ASSUME Typed, Typed', Unraced, NEW h \in Handlers, HandlerStep(h)
    PROVE  Unraced'
<1>. USE DEF RunStatus, Settled, PC, Loose, Creating, Validating, Executing, Inline, Approving,
             Granting, Denying, Checking, Making, InlineLeaves, KeepRows
<1>0. h \in Actors /\ act[h] \in ActorRec /\ run \in [Runs -> RunRow] /\ h \notin Nodes
  BY SandboxAssumption DEF Actors, Typed, TypeOK, SandboxAssumption
<1>1. CASE resolveAndBindForRun(h)
  <2>. DEFINE pc == IF act[h].pc = "create_bind" THEN "create_save" ELSE "approve_resave"
              x == [act[h] EXCEPT !.pc = pc]
  <2>1. x.pc = pc /\ x.run = act[h].run /\ act' = [act EXCEPT ![h] = x] /\ UNCHANGED request
    BY <1>0, <1>1 DEF resolveAndBindForRun, Goto, ActorRec
  <2>2. act[h].pc \notin Loose /\ act[h].run \in Runs
    BY <1>0, <1>1 DEF resolveAndBindForRun, Typed, LocalsOK
  <2>3. \A r \in Runs : /\ run'[r].status = run[r].status /\ run'[r].kind = run[r].kind
                        /\ run'[r].gated = run[r].gated
    BY <1>0, <1>1, <2>2 DEF resolveAndBindForRun, RunRow
  <2>4. KindsOK' /\ RequestsAre(h)
    BY <2>1, <2>3 DEF Unraced, KindsOK, RequestsAre
  <2>5. pc \notin Checking /\ (pc \in Making => act[h].pc \in Making) /\ pc # "inline_execute"
    BY <1>1 DEF resolveAndBindForRun
  <2>. HIDE DEF pc, x
  <2>6. x.pc \notin Checking /\ x.pc # "inline_execute" /\ (x.pc \in Making => act[h].pc \in Making)
    BY <2>1, <2>5
  <2>. HIDE DEF Loose, Checking, Making
  <2>. QED  BY <1>0, <2>1, <2>2, <2>3, <2>4, <2>6, InlineMoves
<1>2. CASE CreateResave(h)
  <2>1. SetStatus(act[h].run, "staged") /\ UNCHANGED request /\ act[h].pc \in Creating
    BY <1>2 DEF CreateResave
  <2>2. CASE run[act[h].run].kind = "inline"
    <3>1. Goto(h, "inline_claim")
      BY <1>2, <2>2 DEF CreateResave
    <3>. QED  BY <1>0, <2>1, <2>2, <3>1, InlineGoes
  <2>3. CASE run[act[h].run].kind # "inline"
    <3>1. End(h)
      BY <1>2, <2>3 DEF CreateResave
    <3>. QED  BY <1>0, <2>1, <3>1, InlineLeft
  <2>. QED  BY <2>2, <2>3
<1>3. CASE InlineClaim(h)
  <2>1. CASE run[act[h].run].status = "staged"
    <3>1. /\ SetStatus(act[h].run, "validation_pending") /\ Goto(h, "validate")
          /\ UNCHANGED request /\ act[h].pc \in Inline
      BY <1>3, <2>1 DEF InlineClaim
    <3>. QED  BY <1>0, <3>1, InlineGoes
  <2>2. CASE run[act[h].run].status # "staged"
    BY <1>0, <1>3, <2>2, InlineRests DEF InlineClaim
  <2>. QED  BY <2>1, <2>2
<1>4. CASE InlineCheck(h)
  <2>1. CASE run[act[h].run].status = "approved"
    <3>. DEFINE x == [act[h] EXCEPT !.pc = "inline_execute"]
    <3>1. x.pc = "inline_execute" /\ x.run = act[h].run /\ act' = [act EXCEPT ![h] = x]
      BY <1>0, <1>4, <2>1 DEF InlineCheck, Goto, ActorRec
    <3>2. act[h].pc \in Inline /\ UNCHANGED <<run, request>>
      BY <1>4 DEF InlineCheck
    <3>. HIDE DEF x
    <3>. QED  BY <1>0, <2>1, <3>1, <3>2, InlineLooks
  <2>2. CASE run[act[h].run].status # "approved"
    BY <1>0, <1>4, <2>2, InlineRests DEF InlineCheck
  <2>. QED  BY <2>1, <2>2
<1>5. CASE InlineExecute(h)
  <2>1. CASE run[act[h].run].status = "approved"
    <3>1. /\ SetStatus(act[h].run, "executing") /\ Goto(h, "read_executing")
          /\ UNCHANGED request /\ act[h].pc \notin Loose
      BY <1>5, <2>1 DEF InlineExecute
    <3>. QED  BY <1>0, <3>1, InlineLeft
  <2>2. CASE run[act[h].run].status # "approved"
    BY <1>0, <1>5, <2>2, InlineRests DEF InlineExecute
  <2>. QED  BY <2>1, <2>2
<1>6. CASE SaveApproval(h)
  <2>1. /\ SetStatus(act[h].run, "approved") /\ InlineLeaves(h)
        /\ UNCHANGED request /\ act[h].pc \notin Loose
    BY <1>6 DEF SaveApproval
  <2>. QED  BY <1>0, <2>1, InlineLeft
<1>7. CASE ApprovedJob(h)
  BY <1>0, <1>7, InlineRests DEF ApprovedJob
<1>8. CASE SaveRequest(h)
  <2>. DEFINE q == act[h].req
              pc == IF act[h].pc = "grant_request" THEN "grant_run" ELSE "deny_run"
              x == [act[h] EXCEPT !.pc = pc]
  <2>1. x.pc = pc /\ x.run = act[h].run /\ act' = [act EXCEPT ![h] = x] /\ UNCHANGED run
    BY <1>0, <1>8 DEF SaveRequest, Goto, ActorRec
  <2>2. /\ act[h].pc \notin Loose /\ q \in Requests /\ request[q] # None
        /\ request \in [Requests -> RequestRow \cup {None}]
    BY <1>0, <1>8 DEF SaveRequest, Typed, TypeOK, LocalsOK, Asking
  <2>3. RequestsAre(h)
    BY <1>8, <2>2 DEF SaveRequest, RequestsAre, RequestRow
  <2>4. x.pc \notin Making
    BY <2>1
  <2>5. KindsOK'
    BY <2>1 DEF Unraced, KindsOK
  <2>. HIDE DEF q, pc, x
  <2>6. x.pc \notin Checking
    BY <2>4
  <2>. HIDE DEF Loose, Checking, Making
  <2>. QED  BY <1>0, <2>1, <2>2, <2>3, <2>4, <2>5, <2>6, InlineMoves
<1>9. CASE Resume(h)
  <2>1. /\ SetStatus(act[h].run, "executing") /\ InlineLeaves(h)
        /\ UNCHANGED request /\ act[h].pc \notin Loose
    BY <1>9 DEF Resume
  <2>. QED  BY <1>0, <2>1, InlineLeft
<1>10. CASE ResumedJob(h)
  BY <1>0, <1>10, InlineRests DEF ResumedJob
<1>11. CASE Block(h)
  <2>1. /\ SetStatus(act[h].run, "blocked") /\ InlineLeaves(h)
        /\ UNCHANGED request /\ act[h].pc \notin Loose
    BY <1>11 DEF Block
  <2>. QED  BY <1>0, <2>1, InlineLeft
<1>12. CASE BlockedJob(h)
  BY <1>0, <1>12, InlineRests DEF BlockedJob
<1>. QED
  BY <1>1, <1>2, <1>3, <1>4, <1>5, <1>6, <1>7, <1>8, <1>9, <1>10, <1>11, <1>12
  DEF HandlerStep

LEMMA RunUnraced ==
    ASSUME Typed, Typed', Unraced, NEW a \in Actors, RunStep(a)
    PROVE  Unraced'
<1>. USE DEF RunStatus, Settled, PC, Loose, Creating, Validating, Executing, Trying, Inline,
             Checking, Making, InlineLeaves, KeepRows
<1>0. act[a] \in ActorRec /\ run \in [Runs -> RunRow]
  BY DEF Typed, TypeOK
<1>1. CASE ReadPending(a)
  <2>1. act[a].pc \in Checking /\ UNCHANGED <<run, request>>
    BY <1>1 DEF ReadPending
  <2>2. ASSUME NEW pc \in {"validate_save", "inline_check"}, Goto(a, pc)
        PROVE  Unraced'
    BY <2>1, <2>2, InlineChecks
  <2>3. CASE TurnToApproved(a) \/ Goto(a, "unclaim") \/ End(a)
    BY <2>1, <2>3, InlineRests
  <2>. QED  BY <1>1, <2>2, <2>3 DEF ReadPending, AfterValidation
<1>2. CASE SaveValidation(a)
  <2>1. act[a].pc = "validate_save" /\ UNCHANGED request
    BY <1>2 DEF SaveValidation
  <2>2. ASSUME NEW x, act' = [act EXCEPT ![a] = x], x.pc = "validate_job", x.run = act[a].run,
               NEW s \in RunStatus, SetStatus(act[a].run, s),
               s = "approval_pending" => run[act[a].run].gated
        PROVE  Unraced'
    BY <2>1, <2>2, InlineWorks
  <2>3. CASE act' = [act EXCEPT ![a].pc = "validate_job", ![a].broken = TRUE]
             /\ SetStatus(act[a].run, "validation_failed")
    <3>. DEFINE x == [act[a] EXCEPT !.pc = "validate_job", !.broken = TRUE]
    <3>1. x.pc = "validate_job" /\ x.run = act[a].run /\ act' = [act EXCEPT ![a] = x]
      BY <1>0, <2>3 DEF ActorRec
    <3>. HIDE DEF x
    <3>. QED  BY <2>2, <2>3, <3>1
  <2>4. CASE /\ SetStatus(act[a].run, "approval_pending") /\ Goto(a, "validate_job")
             /\ run[act[a].run].gated
    <3>. DEFINE x == [act[a] EXCEPT !.pc = "validate_job"]
    <3>1. x.pc = "validate_job" /\ x.run = act[a].run /\ act' = [act EXCEPT ![a] = x]
      BY <1>0, <2>4 DEF ActorRec, Goto
    <3>. HIDE DEF x
    <3>. QED  BY <2>2, <2>4, <3>1
  <2>5. CASE SetStatus(act[a].run, "approved") /\ Goto(a, "validate_audit")
    BY <2>1, <2>5, InlineGoes
  <2>. QED  BY <1>2, <2>3, <2>4, <2>5 DEF SaveValidation
<1>3. CASE ReportValidation(a)
  <2>1. CASE TurnToApproved(a)
    BY <1>3, <2>1, InlineRests DEF ReportValidation
  <2>3. CASE Goto(a, "validate_audit")
    <3>1. act[a].pc = "validate_job" /\ UNCHANGED <<run, request>>
      BY <1>3 DEF ReportValidation
    <3>. QED  BY <2>3, <3>1, InlineChecks
  <2>2. CASE act' = [act EXCEPT ![a].pc = "inline_check", ![a].broken = FALSE]
    <3>. DEFINE x == [act[a] EXCEPT !.pc = "inline_check", !.broken = FALSE]
    <3>1. x.pc = "inline_check" /\ x.run = act[a].run /\ act' = [act EXCEPT ![a] = x]
      BY <1>0, <2>2 DEF ActorRec
    <3>2. act[a].pc = "validate_job" /\ UNCHANGED <<run, request>>
      BY <1>3 DEF ReportValidation
    <3>. HIDE DEF x
    <3>. QED  BY <3>1, <3>2, InlineLooks
  <2>. QED  BY <1>3, <2>1, <2>2, <2>3 DEF ReportValidation
<1>4. CASE ReadExecuting(a)
  <2>1. CASE act' = [act EXCEPT ![a].pc = "step", ![a].step = 1, ![a].broken = FALSE]
    <3>. DEFINE x == [act[a] EXCEPT !.pc = "step", !.step = 1, !.broken = FALSE]
    <3>1. x.pc = "step" /\ x.run = act[a].run /\ act' = [act EXCEPT ![a] = x]
      BY <1>0, <2>1 DEF ActorRec
    <3>2. act[a].pc \notin Loose /\ UNCHANGED <<run, request>>
      BY <1>4 DEF ReadExecuting
    <3>. HIDE DEF x
    <3>. QED  BY <3>1, <3>2, InlineLooks
  <2>2. CASE Goto(a, "unexecute") \/ End(a)
    BY <1>4, <2>2, InlineRests DEF ReadExecuting
  <2>. QED  BY <1>4, <2>1, <2>2 DEF ReadExecuting
<1>5. CASE RunTypedAction(a)
  <2>1. UNCHANGED run /\ act[a].pc = "step"
    BY <1>5 DEF RunTypedAction
  <2>2. ASSUME NEW pc \in {"reread", "fail"}, Leave(a, pc), UNCHANGED request
        PROVE  Unraced'
    BY <2>1, <2>2, InlineRests
  <2>3. CASE act' = [act EXCEPT ![a].step = act[a].step + 1] /\ UNCHANGED request
    <3>. DEFINE x == [act[a] EXCEPT !.step = act[a].step + 1]
    <3>1. x.pc = "step" /\ x.run = act[a].run /\ act' = [act EXCEPT ![a] = x]
      BY <1>0, <2>1, <2>3 DEF ActorRec
    <3>. HIDE DEF x
    <3>. QED  BY <2>1, <2>3, <3>1, InlineLooks
  <2>4. ASSUME NEW q \in Requests, request[q] = None, Leave(a, "pause"),
               request' = [request EXCEPT ![q] = [run |-> act[a].run, status |-> "pending"]]
        PROVE  Unraced'
    <3>. DEFINE x == [act[a] EXCEPT !.pc = "pause", !.step = 0]
    <3>1. x.pc = "pause" /\ x.run = act[a].run /\ act' = [act EXCEPT ![a] = x]
      BY <1>0, <2>4 DEF ActorRec, Leave
    <3>2. request \in [Requests -> RequestRow \cup {None}]
      BY DEF Typed, TypeOK
    <3>3. RequestsAre(a)
      BY <2>1, <2>4, <3>2 DEF RequestsAre
    <3>4. KindsOK'
      BY <2>1 DEF Unraced, KindsOK
    <3>5. a \in Nodes => run[act[a].run].kind # "inline"
      BY <2>1 DEF Unraced, ActorKindsOK
    <3>. HIDE DEF x
    <3>. QED  BY <2>1, <3>1, <3>3, <3>4, <3>5, InlineMoves
  <2>. QED  BY <1>5, <2>2, <2>3, <2>4 DEF RunTypedAction
<1>6. CASE ExtractFile(a)
  BY <1>6, InlineRests DEF ExtractFile
<1>7. CASE Pause(a)
  <2>1. /\ SetStatus(act[a].run, "paused_approval_required") /\ InlineLeaves(a)
        /\ UNCHANGED request /\ act[a].pc \notin Loose
    BY <1>7 DEF Pause
  <2>. QED  BY <2>1, InlineLeft
<1>8. CASE Reread(a)
  BY <1>8, InlineRests DEF Reread
<1>9. CASE Complete(a)
  <2>1. /\ SetStatus(act[a].run, "completed") /\ InlineLeaves(a)
        /\ UNCHANGED request /\ act[a].pc \notin Loose
    BY <1>9 DEF Complete
  <2>. QED  BY <2>1, InlineLeft
<1>10. CASE IndexFile(a)
  BY <1>10, InlineRests DEF IndexFile
<1>11. CASE CompleteJob(a)
  BY <1>11, InlineRests DEF CompleteJob
<1>12. CASE Fail(a)
  <2>1. /\ SetStatus(act[a].run, "failed") /\ InlineLeaves(a)
        /\ UNCHANGED request /\ act[a].pc \notin Loose
    BY <1>12 DEF Fail
  <2>. QED  BY <2>1, InlineLeft
<1>13. CASE FailJob(a)
  BY <1>13, InlineRests DEF FailJob
<1>14. CASE WriteAudit(a)
  <2>1. act[a].pc \notin Loose /\ UNCHANGED <<run, request>>
    BY <1>14 DEF WriteAudit
  <2>2. CASE End(a) \/ TurnToApproved(a)
    BY <2>1, <2>2, InlineRests
  <2>3. CASE act[a].pc = "validate_audit" /\ Goto(a, "inline_check")
    BY <2>1, <2>3, InlineChecks
  <2>. QED  BY <1>14, <2>2, <2>3 DEF WriteAudit, AfterValidation
<1>. QED
  BY <1>1, <1>2, <1>3, <1>4, <1>5, <1>6, <1>7, <1>8, <1>9, <1>10, <1>11, <1>12, <1>13,
     <1>14
  DEF RunStep

LEMMA RequestUnraced ==
    ASSUME Typed, Typed', Unraced, NEW h \in Handlers, Request(h)
    PROVE  Unraced'
<1>. USE DEF Loose, Creating, Validating, Inline, Checking, Making, KeepRows
<1>0. h \in Actors /\ act[h] \in ActorRec /\ run \in [Runs -> RunRow] /\ h \notin Nodes
  BY SandboxAssumption DEF Typed, TypeOK, Actors, SandboxAssumption
<1>1. ASSUME NEW r \in Runs, Create(h, r)
      PROVE  Unraced'
  <2>. DEFINE x == [act[h] EXCEPT !.pc = "create_bind", !.run = r]
  <2>1. x.pc = "create_bind" /\ x.run = r /\ act' = [act EXCEPT ![h] = x] /\ UNCHANGED request
    BY <1>0, <1>1 DEF ActorRec, Create
  <2>2. /\ run[r].status = "absent" /\ \A t \in Runs \ {r} : run'[t] = run[t]
        /\ run'[r].status = "staged" /\ (run'[r].kind = "inline" => ~run'[r].gated)
    BY <1>0, <1>1 DEF Create
  <2>3. KindsOK' /\ RequestsAre(h) /\ NotMade(r)
    BY <2>1, <2>2 DEF Unraced, KindsOK, RequestsAre, NotMade
  <2>. HIDE DEF x
  <2>. QED  BY <1>0, <2>1, <2>2, <2>3, InlineMoves
<1>2. ASSUME NEW r \in Runs, approveSandboxRun(h, r)
      PROVE  Unraced'
  <2>. DEFINE x == [act[h] EXCEPT !.pc = "approve_save", !.run = r]
  <2>1. /\ x.pc = "approve_save" /\ x.run = r /\ act' = [act EXCEPT ![h] = x]
        /\ UNCHANGED <<run, request>>
    BY <1>0, <1>2 DEF ActorRec, approveSandboxRun
  <2>2. NotMade(r)
    BY <1>2 DEF approveSandboxRun, Unraced, KindsOK, NotMade
  <2>. HIDE DEF x
  <2>. QED  BY <1>0, <2>1, <2>2, InlineIdles
<1>3. ASSUME NEW q \in Requests, request[q] # None, NEW pc \in Asking, UNCHANGED <<run, request>>,
             act' = [act EXCEPT ![h].pc = pc, ![h].run = request[q].run, ![h].req = q]
      PROVE  Unraced'
  <2>. DEFINE x == [act[h] EXCEPT !.pc = pc, !.run = request[q].run, !.req = q]
  <2>1. x.pc = pc /\ x.run = request[q].run /\ act' = [act EXCEPT ![h] = x]
    BY <1>0, <1>3 DEF ActorRec
  <2>2. NotMade(x.run)
    BY <1>3, <2>1 DEF NotMade
  <2>3. x.pc \notin Making
    BY <2>1 DEF Asking
  <2>. HIDE DEF x
  <2>. QED  BY <1>0, <1>3, <2>1, <2>2, <2>3, InlineIdles
<1>. QED  BY <1>1, <1>2, <1>3 DEF Request, approveRequest, rejectRequest, Asking

LEMMA StepUnraced == Typed /\ Typed' /\ Unraced /\ [Next]_vars => Unraced'
<1>. SUFFICES ASSUME Typed, Typed', Unraced, [Next]_vars
              PROVE  Unraced'
  OBVIOUS
<1>. USE DEF KeepRows
<1>1. CASE UNCHANGED <<run, request, act>>
  BY <1>1
  DEF Unraced, KindsOK, ActorKindsOK, MakersAlone, Makes, InlineIsNotRaced
<1>2. ASSUME NEW a \in Actors, Throw(a)
      PROVE  Unraced'
  <2>1. UNCHANGED <<run, request>> /\ Leave(a, "fail") /\ act[a].pc \notin Loose
    BY <1>2 DEF Throw, Trying, Loose
  <2>. QED
    BY <2>1, InlineRests
    DEF InlineLeaves, PC, Executing, Making, Checking, Creating, Validating, Inline
<1>3. ASSUME NEW a \in Actors, ThrowInvalid(a)
      PROVE  Unraced'
  <2>. DEFINE x == [act[a] EXCEPT !.pc = "validate_save", !.broken = TRUE]
  <2>1. x.pc = "validate_save" /\ x.run = act[a].run /\ act' = [act EXCEPT ![a] = x]
    BY <1>3 DEF ThrowInvalid, Typed, TypeOK, ActorRec
  <2>2. act[a].pc \in Validating /\ UNCHANGED <<run, request>>
    BY <1>3 DEF ThrowInvalid, Validating
  <2>. HIDE DEF x
  <2>. QED  BY <2>1, <2>2, InlineLooks DEF Loose, Checking, Making, Validating
<1>4. ASSUME NEW a \in Actors, Crash(a)
      PROVE  Unraced'
  <2>1. Resting.pc \in Loose /\ Resting.pc \notin Making
    BY DEF Resting, Loose, Making, Checking, Creating, Validating, Inline
  <2>. QED  BY <1>4, <2>1, InlineIdles DEF Crash
<1>5. ASSUME NEW q \in Requests, ExpireRequest(q)
      PROVE  Unraced'
  <2>1. /\ UNCHANGED <<run, act>> /\ request[q] # None
        /\ request' = [request EXCEPT ![q].status = "expired"]
        /\ request \in [Requests -> RequestRow \cup {None}]
    BY <1>5 DEF ExpireRequest, Typed, TypeOK
  <2>2. \A p \in Requests : request'[p] # None => request[p] # None /\ request'[p].run = request[p].run
    BY <2>1 DEF RequestRow
  <2>3. MakersAlone'
    BY <2>1, <2>2 DEF Unraced, MakersAlone, Makes
  <2>. QED  BY <2>1, <2>3 DEF Unraced, KindsOK, ActorKindsOK, InlineIsNotRaced
<1>. QED
  BY <1>1, <1>2, <1>3, <1>4, <1>5, NodeUnraced, HandlerUnraced, RunUnraced, RequestUnraced
  DEF Next, vars, Switch

\* The creator of an inline run is the only one to execute it: its second claim
\* finds the run as its first one left it, whatever job runners, admins and
\* restarts do meanwhile.
THEOREM SandboxInline == Spec => []InlineIsNotRaced
<1>1. Typed /\ Unraced => InlineIsNotRaced
  BY DEF Unraced
<1>2. Init => Typed /\ Unraced
  BY InitTyped, InitUnraced
<1>3. Typed /\ Unraced /\ [Next]_vars => Typed' /\ Unraced'
  BY StepTyped, StepUnraced
<1>. QED  BY <1>1, <1>2, <1>3, PTL DEF Spec

-----------------------------------------------------------------------------
\* Jobs: whoever ends a run has its job to report, and what sets a job to
\* running is the approval of a gated run or of a step.
Reporting(x) ==
    x.pc \in {"index", "job_done", "job_fail", "deny_job"} \/ (x.pc = "validate_job" /\ x.broken)
OfGated(x) == x.pc \in Approving \/ (x.pc = "validate_job" /\ ~x.broken)
Resuming == {"grant_run", "grant_job"}

\* A request whose run counts as resumed from now on.
ForGood(q, r) ==
    /\ request[q] # None /\ request[q].run = r
    /\ request[q].status = "approved" \/ (request[q].status = "rejected" /\ r \in late)
ForGoodNext(q, r) ==
    /\ request'[q] # None /\ request'[q].run = r
    /\ request'[q].status = "approved" \/ (request'[q].status = "rejected" /\ r \in late')

JobOpen(r) ==
    /\ failures = 0 /\ ~run[r].gated /\ run[r].status \in Settled /\ job[r] = "running"
    /\ \A q \in Requests : ~ForGood(q, r)
JobsReported ==
    \A r \in Runs : JobOpen(r) => \E a \in Actors : Reporting(act[a]) /\ act[a].run = r
GatedActors == \A a \in Actors : OfGated(act[a]) => run[act[a].run].gated
ResumedActors ==
    \A a \in Actors : act[a].pc \in Resuming =>
        act[a].req \in Requests /\ ForGood(act[a].req, act[a].run)
Followed == JobsReported /\ GatedActors /\ ResumedActors

LEMMA JobMoves ==
    ASSUME Typed, Typed', Followed, NEW a \in Actors, NEW x, act' = [act EXCEPT ![a] = x],
           \A r \in Runs : run[r].status # "absent" => run'[r].gated = run[r].gated,
           \A q \in Requests : \A r : ForGood(q, r) => ForGoodNext(q, r),
           OfGated(x) => run'[x.run].gated,
           x.pc \in Resuming => x.req \in Requests /\ ForGoodNext(x.req, x.run),
           \A r \in Runs : JobOpen(r)' =>
               \/ Reporting(x) /\ x.run = r
               \/ JobOpen(r) /\ ~(Reporting(act[a]) /\ act[a].run = r)
    PROVE  Followed'
<1>1. /\ act \in [Actors -> ActorRec] /\ act'[a] = x
      /\ \A b \in Actors \ {a} : act'[b] = act[b]
  BY DEF Typed, TypeOK
<1>2. \A q, r : ForGood(q, r)' <=> ForGoodNext(q, r)
  BY DEF ForGood, ForGoodNext
<1>3. ASSUME NEW r \in Runs, JobOpen(r)'
      PROVE  \E b \in Actors : Reporting(act'[b]) /\ act'[b].run = r
  <2>1. CASE Reporting(x) /\ x.run = r
    BY <1>1, <2>1
  <2>2. CASE JobOpen(r) /\ ~(Reporting(act[a]) /\ act[a].run = r)
    <3>1. PICK b \in Actors : Reporting(act[b]) /\ act[b].run = r
      BY <2>2 DEF Followed, JobsReported
    <3>2. act'[b] = act[b]
      BY <1>1, <2>2, <3>1
    <3>. QED  BY <3>1, <3>2
  <2>. QED  BY <1>3, <2>1, <2>2
<1>4. \A b : Reporting(act[b])' <=> Reporting(act'[b])
  BY DEF Reporting
<1>5. JobsReported'
  BY <1>3, <1>4 DEF JobsReported
<1>6. GatedActors'
  <2>1. ASSUME NEW b \in Actors, OfGated(act'[b])
        PROVE  run'[act'[b].run].gated
    <3>1. CASE b = a
      BY <1>1, <2>1, <3>1
    <3>2. CASE b # a
      <4>1. act'[b] = act[b] /\ act[b].pc \notin Loose
        BY <1>1, <2>1, <3>2 DEF OfGated, Approving, Loose
      <4>2. act[b].run \in Runs /\ run[act[b].run].status # "absent"
        BY <4>1 DEF Typed, LocalsOK
      <4>. QED  BY <2>1, <4>1, <4>2 DEF Followed, GatedActors
    <3>. QED  BY <3>1, <3>2
  <2>2. \A b : OfGated(act[b])' <=> OfGated(act'[b])
    BY DEF OfGated
  <2>. QED  BY <2>1, <2>2 DEF GatedActors
<1>7. ResumedActors'
  <2>1. ASSUME NEW b \in Actors, act'[b].pc \in Resuming
        PROVE  act'[b].req \in Requests /\ ForGoodNext(act'[b].req, act'[b].run)
    <3>1. CASE b = a
      BY <1>1, <2>1, <3>1
    <3>2. CASE b # a
      BY <1>1, <2>1, <3>2 DEF Followed, ResumedActors
    <3>. QED  BY <3>1, <3>2
  <2>2. \A b : ForGood(act[b].req, act[b].run)' <=> ForGoodNext(act'[b].req, act'[b].run)
    BY DEF ForGood, ForGoodNext
  <2>. QED  BY <2>1, <2>2 DEF ResumedActors, Resuming
<1>. QED  BY <1>5, <1>6, <1>7 DEF Followed

\* An actor that has a run writes at most its status.
LEMMA JobWorks ==
    ASSUME Typed, Typed', Followed, NEW a \in Actors, act[a].pc \notin Loose,
           NEW x, act' = [act EXCEPT ![a] = x],
           UNCHANGED <<job, request, failures>>, late \subseteq late',
           NEW s \in RunStatus, SetStatus(act[a].run, s) \/ UNCHANGED run,
           OfGated(x) => x.run = act[a].run /\ run[act[a].run].gated,
           x.pc \in Resuming =>
               act[a].pc \in Resuming /\ x.run = act[a].run /\ x.req = act[a].req,
           (SetStatus(act[a].run, s) /\ s \in Settled) \/ Reporting(act[a]) =>
               Reporting(x) /\ x.run = act[a].run
    PROVE  Followed'
<1>1. act[a].run \in Runs /\ run \in [Runs -> RunRow]
  BY DEF Typed, TypeOK, LocalsOK
<1>2. \A r \in Runs :
          /\ run'[r].gated = run[r].gated
          /\ \/ run'[r].status = run[r].status
             \/ r = act[a].run /\ run'[r].status = s /\ SetStatus(act[a].run, s)
  BY <1>1 DEF SetStatus, RunRow
<1>3. \A q \in Requests : \A r : ForGood(q, r) => ForGoodNext(q, r)
  BY DEF ForGood, ForGoodNext
<1>4. \A q \in Requests : \A r : ForGood(q, r) => ForGood(q, r)'
  BY DEF ForGood
<1>5. ASSUME NEW r \in Runs, JobOpen(r)'
      PROVE  \/ Reporting(x) /\ x.run = r
             \/ JobOpen(r) /\ ~(Reporting(act[a]) /\ act[a].run = r)
  BY <1>2, <1>4, <1>5 DEF JobOpen
<1>6. x.pc \in Resuming => x.req \in Requests /\ ForGoodNext(x.req, x.run)
  BY <1>3 DEF Followed, ResumedActors
<1>. QED  BY <1>1, <1>2, <1>3, <1>5, <1>6, JobMoves

\* Nothing is written, and the actor has nothing to report, or something failed.
LEMMA JobLooks ==
    ASSUME Typed, Typed', Followed, NEW a \in Actors, NEW x, act' = [act EXCEPT ![a] = x],
           UNCHANGED <<run, job, request>>, late \subseteq late',
           (UNCHANGED failures /\ ~Reporting(act[a])) \/ failures' # 0,
           OfGated(x) => run[x.run].gated,
           x.pc \notin Resuming
    PROVE  Followed'
<1>3. \A q \in Requests : \A r : ForGood(q, r) => ForGoodNext(q, r)
  BY DEF ForGood, ForGoodNext
<1>4. \A q \in Requests : \A r : ForGood(q, r) => ForGood(q, r)'
  BY DEF ForGood
<1>5. \A r \in Runs : JobOpen(r)' => JobOpen(r) /\ ~(Reporting(act[a]) /\ act[a].run = r)
  BY <1>4 DEF JobOpen
<1>. QED  BY <1>3, <1>5, JobMoves

\* An actor writes the job of its run, to running only after an approval.
LEMMA JobWrites ==
    ASSUME Typed, Typed', Followed, NEW a \in Actors, act[a].pc \notin Loose,
           NEW x, act' = [act EXCEPT ![a] = x],
           UNCHANGED <<run, request, failures>>, late \subseteq late',
           NEW v \in JobStatus, job' = [job EXCEPT ![act[a].run] = v],
           \/ v # "running" \/ run[act[a].run].gated
           \/ \E q \in Requests : ForGood(q, act[a].run),
           ~OfGated(x), x.pc \notin Resuming
    PROVE  Followed'
<1>1. act[a].run \in Runs /\ job \in [Runs -> JobStatus]
  BY DEF Typed, TypeOK, LocalsOK
<1>3. \A q \in Requests : \A r : ForGood(q, r) => ForGoodNext(q, r)
  BY DEF ForGood, ForGoodNext
<1>4. \A q \in Requests : \A r : ForGood(q, r) => ForGood(q, r)'
  BY DEF ForGood
<1>5. ASSUME NEW r \in Runs, JobOpen(r)'
      PROVE  JobOpen(r) /\ ~(Reporting(act[a]) /\ act[a].run = r)
  <2>1. r # act[a].run
    BY <1>1, <1>4, <1>5 DEF JobOpen
  <2>2. job'[r] = job[r]
    BY <1>1, <2>1
  <2>. QED  BY <1>4, <1>5, <2>1, <2>2 DEF JobOpen
<1>. QED  BY <1>3, <1>5, JobMoves

\* An actor that ends, or goes to a place where it owes nothing to a job.
Loud == Approving \cup Resuming \cup {"validate_job"}
QuietGo(a) ==
    \/ End(a) \/ TurnToApproved(a)
    \/ \E pc \in PC \ Loud : Goto(a, pc) \/ Leave(a, pc)

LEMMA Quiet ==
    ASSUME Typed, NEW a \in Actors, QuietGo(a)
    PROVE  \E x : act' = [act EXCEPT ![a] = x] /\ ~OfGated(x) /\ x.pc \notin Resuming
<1>. USE DEF OfGated, Resuming, Loud
<1>0. act[a] \in ActorRec
  BY DEF Typed, TypeOK
<1>1. CASE End(a) \/ TurnToApproved(a)
  <2>1. Ends(a).pc \in Loose /\ [Resting EXCEPT !.pc = "approved"].pc \in Loose
    BY DEF Ends, Resting, Loose
  <2>. QED  BY <1>1, <2>1 DEF End, TurnToApproved, Loose, Approving
<1>2. ASSUME NEW pc \in PC \ Loud, Goto(a, pc)
      PROVE  \E x : act' = [act EXCEPT ![a] = x] /\ ~OfGated(x) /\ x.pc \notin Resuming
  <2>1. [act[a] EXCEPT !.pc = pc].pc = pc
    BY <1>0 DEF ActorRec
  <2>. QED  BY <1>2, <2>1 DEF Goto
<1>3. ASSUME NEW pc \in PC \ Loud, Leave(a, pc)
      PROVE  \E x : act' = [act EXCEPT ![a] = x] /\ ~OfGated(x) /\ x.pc \notin Resuming
  <2>1. [act[a] EXCEPT !.pc = pc, !.step = 0].pc = pc
    BY <1>0 DEF ActorRec
  <2>. QED  BY <1>3, <2>1 DEF Leave
<1>. QED  BY <1>1, <1>2, <1>3 DEF QuietGo

LEMMA JobRests ==
    ASSUME Typed, Typed', Followed, NEW a \in Actors, QuietGo(a),
           UNCHANGED <<run, job, request>>, late \subseteq late',
           (UNCHANGED failures /\ ~Reporting(act[a])) \/ failures' # 0
    PROVE  Followed'
BY Quiet, JobLooks

LEMMA JobStates ==
    ASSUME Typed, Typed', Followed, NEW a \in Actors, act[a].pc \notin Loose, QuietGo(a),
           UNCHANGED <<job, request, failures>>, late \subseteq late', ~Reporting(act[a]),
           NEW s \in RunStatus \ Settled, SetStatus(act[a].run, s)
    PROVE  Followed'
<1>1. PICK x : act' = [act EXCEPT ![a] = x] /\ ~OfGated(x) /\ x.pc \notin Resuming
  BY Quiet
<1>2. ~(SetStatus(act[a].run, s) /\ s \in Settled)
  OBVIOUS
<1>. QED  BY <1>1, <1>2, JobWorks

LEMMA JobEnds ==
    ASSUME Typed, Typed', Followed, NEW a \in Actors, act[a].pc \notin Loose, QuietGo(a),
           UNCHANGED <<run, request, failures>>, late \subseteq late',
           NEW v \in JobStatus, job' = [job EXCEPT ![act[a].run] = v],
           \/ v # "running" \/ run[act[a].run].gated
           \/ \E q \in Requests : ForGood(q, act[a].run)
    PROVE  Followed'
<1>1. PICK x : act' = [act EXCEPT ![a] = x] /\ ~OfGated(x) /\ x.pc \notin Resuming
  BY Quiet
<1>. QED  BY <1>1, JobWrites

\* An actor settles its run, and goes to where it reports that.
LEMMA JobSettles ==
    ASSUME Typed, Typed', Followed, NEW a \in Actors, act[a].pc \notin Loose,
           UNCHANGED <<job, request, failures>>, late \subseteq late',
           NEW s \in RunStatus, SetStatus(act[a].run, s) \/ UNCHANGED run,
           NEW pc \in {"index", "job_done", "job_fail", "deny_job"}, Goto(a, pc)
    PROVE  Followed'
<1>. DEFINE x == [act[a] EXCEPT !.pc = pc]
<1>1. x.pc = pc /\ x.run = act[a].run /\ act' = [act EXCEPT ![a] = x]
  BY DEF Typed, TypeOK, ActorRec, Goto
<1>. HIDE DEF x
<1>2. Reporting(x) /\ ~OfGated(x) /\ x.pc \notin Resuming
  BY <1>1 DEF Reporting, OfGated, Approving, Resuming
<1>. QED  BY <1>1, <1>2, JobWorks

LEMMA InitFollowed == Init => Followed
<1>. SUFFICES ASSUME Init PROVE Followed
  OBVIOUS
<1>1. \A a \in Actors : ~OfGated(act[a]) /\ act[a].pc \notin Resuming
  BY DEF Init, Resting, OfGated, Approving, Resuming
<1>2. \A r \in Runs : ~JobOpen(r)
  BY DEF Init, JobOpen, Settled
<1>. QED  BY <1>1, <1>2 DEF Followed, JobsReported, GatedActors, ResumedActors

LEMMA NodeFollowed ==
    ASSUME Typed, Typed', Followed, NEW n \in Nodes, NodeStep(n)
    PROVE  Followed'
<1>. USE DEF RunStatus, Settled, PC, Loose, Validating, Executing, Approving, Resuming, Loud,
             QuietGo, Reporting, KeepRows, KeepHistory, KeepWorld
<1>0. n \in Actors /\ act[n] \in ActorRec
  BY DEF Actors, Typed, TypeOK
<1>1. ASSUME NEW pc \in {"claim_staged", "claim_approved"}, NEW r \in Runs,
             ~Reporting(act[n]), UNCHANGED <<run, job, request, late, failures>>,
             act' = [act EXCEPT ![n].pc = pc, ![n].run = r]
      PROVE  Followed'
  <2>. DEFINE x == [act[n] EXCEPT !.pc = pc, !.run = r]
  <2>1. x.pc = pc /\ act' = [act EXCEPT ![n] = x]
    BY <1>0, <1>1 DEF ActorRec
  <2>. HIDE DEF x
  <2>2. ~OfGated(x) /\ x.pc \notin Resuming
    BY <2>1 DEF OfGated
  <2>. QED  BY <1>0, <1>1, <2>1, <2>2, JobLooks
<1>2. ASSUME QuietGo(n), ~Reporting(act[n]), UNCHANGED <<run, job, request, late, failures>>
      PROVE  Followed'
  BY <1>0, <1>2, JobRests
<1>3. CASE StartTick(n)
  BY <1>2, <1>3 DEF StartTick
<1>4. CASE SelectStaged(n)
  BY <1>1, <1>2, <1>4 DEF SelectStaged, Queued
<1>5. CASE ClaimStaged(n)
  <2>1. CASE run[act[n].run].status = "staged"
    <3>1. /\ /\ SetStatus(act[n].run, "validation_pending") /\ QuietGo(n)
          /\ act[n].pc = "claim_staged"
          /\ UNCHANGED <<job, request, late, failures>>
      BY <1>5, <2>1 DEF ClaimStaged
    <3>. QED  BY <1>0, <3>1, JobStates
  <2>2. CASE run[act[n].run].status # "staged"
    BY <1>2, <1>5, <2>2 DEF ClaimStaged
  <2>. QED  BY <2>1, <2>2
<1>6. CASE SelectApproved(n)
  <2>1. CASE act' = [act EXCEPT ![n] = Resting]
    <3>1. ~OfGated(Resting) /\ Resting.pc \notin Resuming
      BY DEF OfGated, Resting
    <3>. QED  BY <1>0, <1>6, <2>1, <3>1, JobLooks DEF SelectApproved
  <2>. QED  BY <1>1, <1>6, <2>1 DEF SelectApproved, Queued
<1>7. CASE ClaimApproved(n)
  <2>1. CASE run[act[n].run].status = "approved"
    <3>1. /\ SetStatus(act[n].run, "executing") /\ QuietGo(n) /\ act[n].pc = "claim_approved"
          /\ UNCHANGED <<job, request, late, failures>>
      BY <1>7, <2>1 DEF ClaimApproved
    <3>. QED  BY <1>0, <3>1, JobStates
  <2>2. CASE run[act[n].run].status # "approved"
    BY <1>2, <1>7, <2>2 DEF ClaimApproved
  <2>. QED  BY <2>1, <2>2
<1>8. CASE PutBack(n)
  <2>1. /\ QuietGo(n) /\ act[n].pc \in {"unclaim", "unexecute"}
        /\ UNCHANGED <<job, request, late, failures>>
    BY <1>8 DEF PutBack
  <2>2. CASE UNCHANGED run
    BY <1>2, <2>1, <2>2
  <2>3. ASSUME NEW s \in {"staged", "approved"}, SetStatus(act[n].run, s)
        PROVE  Followed'
    BY <1>0, <2>1, <2>3, JobStates
  <2>. QED  BY <1>8, <2>2, <2>3 DEF PutBack
<1>. QED  BY <1>3, <1>4, <1>5, <1>6, <1>7, <1>8 DEF NodeStep

\* An answer: a request that was answered before stays one of a resumed run.
LEMMA AnswerFollowed ==
    ASSUME Typed, Typed', Owned, Followed, NEW h \in Handlers, SaveRequest(h)
    PROVE  Followed'
<1>. DEFINE q == act[h].req
            pc == IF act[h].pc = "grant_request" THEN "grant_run" ELSE "deny_run"
            x == [act[h] EXCEPT !.pc = pc]
<1>1. /\ act[h] \in ActorRec /\ h \in Actors
      /\ request \in [Requests -> RequestRow \cup {None}]
      /\ q \in Requests /\ request[q] # None /\ act[h].pc \in Asking
  BY DEF SaveRequest, Typed, TypeOK, LocalsOK, Actors, Asking
<1>2. request[q] \in RequestRow /\ request[q].run = act[h].run
  BY <1>1 DEF Owned, AnswersHis
<1>3. /\ request'[q].run = act[h].run /\ request'[q] # None
      /\ request'[q].status = IF act[h].pc = "grant_request" THEN "approved" ELSE "rejected"
      /\ \A p \in Requests \ {q} : request'[p] = request[p]
  <2>. DEFINE status == IF act[h].pc = "grant_request" THEN "approved" ELSE "rejected"
  <2>1. request' = [request EXCEPT ![q].status = status] /\ status \in RequestStatus
    BY DEF SaveRequest, RequestStatus
  <2>. HIDE DEF q, status
  <2>2. request'[q] \in RequestRow
    BY <1>1, <1>2, <2>1 DEF RequestRow
  <2>3. request'[q].run = act[h].run /\ request'[q].status = status /\ request'[q] # None
    BY <1>1, <1>2, <2>1, <2>2, NullAssumption DEF RequestRow
  <2>. QED  BY <1>1, <2>1, <2>3 DEF status
<1>4. x.pc = pc /\ x.run = act[h].run /\ x.req = q /\ act' = [act EXCEPT ![h] = x]
  BY <1>1 DEF SaveRequest, Goto, ActorRec
<1>5. /\ UNCHANGED <<run, job, failures>> /\ late \subseteq late'
      /\ act[h].run \notin late' => request[q].status = "pending"
  BY DEF SaveRequest, KeepRows, KeepWorld
<1>6. ~Reporting(act[h]) /\ ~OfGated(x) /\ (x.pc \in Resuming => act[h].pc = "grant_request")
  BY <1>1, <1>4 DEF Reporting, OfGated, Approving, Resuming, Asking
<1>. HIDE DEF q, pc, x
<1>7. ASSUME NEW p \in Requests, NEW r, ForGood(p, r)
      PROVE  ForGoodNext(p, r)
  <2>1. CASE p = q
    <3>1. r = act[h].run /\ r \in late'
      BY <1>2, <1>5, <1>7, <2>1 DEF ForGood
    <3>. QED  BY <1>3, <2>1, <3>1 DEF ForGoodNext
  <2>2. CASE p # q
    BY <1>3, <1>5, <1>7, <2>2 DEF ForGood, ForGoodNext
  <2>. QED  BY <2>1, <2>2
<1>8. x.pc \in Resuming => x.req \in Requests /\ ForGoodNext(x.req, x.run)
  BY <1>1, <1>3, <1>4, <1>6 DEF ForGoodNext
<1>9. ASSUME NEW r \in Runs, JobOpen(r)'
      PROVE  JobOpen(r)
  <2>1. \A p \in Requests : ForGood(p, r) => ForGood(p, r)'
    BY <1>7 DEF ForGood, ForGoodNext
  <2>. QED  BY <1>5, <1>9, <2>1 DEF JobOpen
<1>. QED  BY <1>1, <1>4, <1>5, <1>6, <1>7, <1>8, <1>9, JobMoves

LEMMA HandlerFollowed ==
    ASSUME Typed, Typed', Owned, Followed, NEW h \in Handlers, HandlerStep(h)
    PROVE  Followed'
<1>. USE DEF RunStatus, Settled, PC, Loose, Creating, Validating, Executing, Inline, Approving,
             Granting, Denying, Resuming, Loud, QuietGo, Reporting, KeepRows, KeepHistory, KeepWorld
<1>0. /\ h \in Actors /\ act[h] \in ActorRec /\ run \in [Runs -> RunRow]
      /\ OfGated(act[h]) => run[act[h].run].gated
      /\ act[h].pc \notin Loose => act[h].run \in Runs
  BY DEF Actors, Typed, TypeOK, LocalsOK, Followed, GatedActors
<1>1. CASE resolveAndBindForRun(h)
  <2>. DEFINE pc == IF act[h].pc = "create_bind" THEN "create_save" ELSE "approve_resave"
              x == [act[h] EXCEPT !.pc = pc]
  <2>1. /\ x.pc = pc /\ x.run = act[h].run /\ act' = [act EXCEPT ![h] = x]
        /\ UNCHANGED <<job, request, late, failures>>
    BY <1>0, <1>1 DEF resolveAndBindForRun, Goto, ActorRec
  <2>2. act[h].pc \in {"create_bind", "approve_bind"} /\ act[h].run \in Runs
    BY <1>0, <1>1 DEF resolveAndBindForRun
  <2>3. \A r \in Runs : run'[r].status = run[r].status /\ run'[r].gated = run[r].gated
    BY <1>0, <1>1, <2>2 DEF resolveAndBindForRun, RunRow
  <2>4. OfGated(x) => run'[x.run].gated
    BY <1>0, <2>1, <2>2, <2>3 DEF OfGated
  <2>5. x.pc \notin Resuming /\ ~Reporting(act[h])
    BY <2>1, <2>2
  <2>6. \A q \in Requests : \A r : ForGood(q, r) => ForGoodNext(q, r)
    BY <2>1 DEF ForGood, ForGoodNext
  <2>7. \A q \in Requests : \A r : ForGood(q, r) => ForGood(q, r)'
    BY <2>1 DEF ForGood
  <2>8. \A r \in Runs : JobOpen(r)' => JobOpen(r)
    BY <2>1, <2>3, <2>7 DEF JobOpen
  <2>. HIDE DEF pc, x
  <2>. QED  BY <1>0, <2>1, <2>3, <2>4, <2>5, <2>6, <2>8, JobMoves
<1>2. CASE CreateResave(h)
  <2>1. /\ SetStatus(act[h].run, "staged") /\ QuietGo(h) /\ act[h].pc = "create_save"
        /\ UNCHANGED <<job, request, failures>>
    BY <1>2 DEF CreateResave
  <2>2. late \subseteq late'
    BY <1>2 DEF CreateResave, SavedLate
  <2>. QED  BY <1>0, <2>1, <2>2, JobStates
<1>3. CASE InlineClaim(h)
  <2>1. CASE run[act[h].run].status = "staged"
    <3>1. /\ /\ SetStatus(act[h].run, "validation_pending") /\ QuietGo(h)
          /\ act[h].pc = "inline_claim"
          /\ UNCHANGED <<job, request, late, failures>>
      BY <1>3, <2>1 DEF InlineClaim
    <3>. QED  BY <1>0, <3>1, JobStates
  <2>2. CASE run[act[h].run].status # "staged"
    BY <1>0, <1>3, <2>2, JobRests DEF InlineClaim
  <2>. QED  BY <2>1, <2>2
<1>4. CASE InlineCheck(h)
  BY <1>0, <1>4, JobRests DEF InlineCheck
<1>5. CASE InlineExecute(h)
  <2>1. CASE run[act[h].run].status = "approved"
    <3>1. /\ SetStatus(act[h].run, "executing") /\ QuietGo(h) /\ act[h].pc = "inline_execute"
          /\ UNCHANGED <<job, request, late, failures>>
      BY <1>5, <2>1 DEF InlineExecute
    <3>. QED  BY <1>0, <3>1, JobStates
  <2>2. CASE run[act[h].run].status # "approved"
    BY <1>0, <1>5, <2>2, JobRests DEF InlineExecute
  <2>. QED  BY <2>1, <2>2
<1>6. CASE SaveApproval(h)
  <2>. DEFINE pc == IF act[h].pc = "approve_save" THEN "approve_bind" ELSE "approve_job"
              x == [act[h] EXCEPT !.pc = pc]
  <2>1. x.pc = pc /\ x.run = act[h].run /\ act' = [act EXCEPT ![h] = x]
    BY <1>0, <1>6 DEF SaveApproval, Goto, ActorRec
  <2>2. /\ SetStatus(act[h].run, "approved") /\ act[h].pc \in {"approve_save", "approve_resave"}
        /\ UNCHANGED <<job, request, failures>>
    BY <1>6 DEF SaveApproval
  <2>3. late \subseteq late'
    BY <1>6 DEF SaveApproval, SavedLate
  <2>4. run[act[h].run].gated
    BY <1>0, <2>2 DEF OfGated
  <2>5. x.pc \notin Resuming /\ ~Reporting(act[h])
    BY <2>1, <2>2
  <2>. HIDE DEF pc, x
  <2>. QED  BY <1>0, <2>1, <2>2, <2>3, <2>4, <2>5, JobWorks
<1>7. CASE ApprovedJob(h)
  <2>1. OfGated(act[h]) /\ act[h].pc = "approve_job"
    BY <1>7 DEF ApprovedJob, OfGated
  <2>2. "running" \in JobStatus
    BY DEF JobStatus
  <2>. QED  BY <1>0, <1>7, <2>1, <2>2, JobEnds DEF ApprovedJob
<1>8. CASE SaveRequest(h)
  BY <1>8, AnswerFollowed
<1>9. CASE Resume(h)
  <2>. DEFINE x == [act[h] EXCEPT !.pc = "grant_job"]
  <2>1. /\ x.pc = "grant_job" /\ x.run = act[h].run /\ x.req = act[h].req
        /\ act' = [act EXCEPT ![h] = x]
    BY <1>0, <1>9 DEF Resume, Goto, ActorRec
  <2>2. /\ SetStatus(act[h].run, "executing") /\ act[h].pc = "grant_run"
        /\ UNCHANGED <<job, request, late, failures>>
    BY <1>9 DEF Resume
  <2>. HIDE DEF x
  <2>3. ~OfGated(x)
    BY <2>1 DEF OfGated
  <2>. QED  BY <1>0, <2>1, <2>2, <2>3, JobWorks
<1>10. CASE ResumedJob(h)
  <2>1. act[h].req \in Requests /\ ForGood(act[h].req, act[h].run)
    BY <1>0, <1>10 DEF ResumedJob, Followed, ResumedActors
  <2>2. "running" \in JobStatus
    BY DEF JobStatus
  <2>. QED  BY <1>0, <1>10, <2>1, <2>2, JobEnds DEF ResumedJob
<1>11. CASE Block(h)
  <2>1. /\ SetStatus(act[h].run, "blocked") /\ Goto(h, "deny_job") /\ act[h].pc = "deny_run"
        /\ UNCHANGED <<job, request, late, failures>>
    BY <1>11 DEF Block
  <2>. QED  BY <1>0, <2>1, JobSettles
<1>12. CASE BlockedJob(h)
  <2>1. "failed" \in JobStatus
    BY DEF JobStatus
  <2>. QED  BY <1>0, <1>12, <2>1, JobEnds DEF BlockedJob
<1>. QED
  BY <1>1, <1>2, <1>3, <1>4, <1>5, <1>6, <1>7, <1>8, <1>9, <1>10, <1>11, <1>12
  DEF HandlerStep

LEMMA RunFollowed ==
    ASSUME Typed, Typed', Followed, NEW a \in Actors, RunStep(a)
    PROVE  Followed'
<1>. USE DEF RunStatus, Settled, PC, Loose, Validating, Executing, Trying, Inline, Approving,
             Resuming, Loud, QuietGo, Reporting, KeepRows, KeepHistory, KeepWorld
<1>0. /\ act[a] \in ActorRec /\ run \in [Runs -> RunRow]
      /\ OfGated(act[a]) => run[act[a].run].gated
  BY DEF Typed, TypeOK, Followed, GatedActors
<1>1. CASE ReadPending(a)
  BY <1>1, JobRests DEF ReadPending, AfterValidation
<1>2. CASE SaveValidation(a)
  <2>1. act[a].pc = "validate_save" /\ UNCHANGED <<job, request, late, failures>>
    BY <1>2 DEF SaveValidation
  <2>2. CASE act' = [act EXCEPT ![a].pc = "validate_job", ![a].broken = TRUE]
             /\ SetStatus(act[a].run, "validation_failed")
    <3>. DEFINE x == [act[a] EXCEPT !.pc = "validate_job", !.broken = TRUE]
    <3>1. /\ x.pc = "validate_job" /\ x.broken /\ x.run = act[a].run
          /\ act' = [act EXCEPT ![a] = x]
      BY <1>0, <2>2 DEF ActorRec
    <3>. HIDE DEF x
    <3>2. ~OfGated(x)
      BY <3>1 DEF OfGated
    <3>. QED  BY <2>1, <2>2, <3>1, <3>2, JobWorks
  <2>3. CASE /\ SetStatus(act[a].run, "approval_pending") /\ Goto(a, "validate_job")
             /\ run[act[a].run].gated
    <3>. DEFINE x == [act[a] EXCEPT !.pc = "validate_job"]
    <3>1. x.pc = "validate_job" /\ x.run = act[a].run /\ act' = [act EXCEPT ![a] = x]
      BY <1>0, <2>3 DEF ActorRec, Goto
    <3>. HIDE DEF x
    <3>. QED  BY <2>1, <2>3, <3>1, JobWorks
  <2>4. CASE SetStatus(act[a].run, "approved") /\ Goto(a, "validate_audit")
    BY <2>1, <2>4, JobStates
  <2>. QED  BY <1>2, <2>2, <2>3, <2>4 DEF SaveValidation
<1>3. CASE ReportValidation(a)
  <2>. DEFINE v == IF act[a].broken THEN "failed" ELSE "running"
  <2>1. /\ act[a].pc = "validate_job" /\ UNCHANGED <<run, request, late, failures>>
        /\ job' = [job EXCEPT ![act[a].run] = v] /\ v \in JobStatus
    BY <1>3 DEF ReportValidation, JobStatus
  <2>2. v # "running" \/ run[act[a].run].gated
    BY <1>0, <2>1 DEF OfGated
  <2>. HIDE DEF v
  <2>3. CASE TurnToApproved(a) \/ Goto(a, "validate_audit")
    BY <2>1, <2>2, <2>3, JobEnds
  <2>4. CASE act' = [act EXCEPT ![a].pc = "inline_check", ![a].broken = FALSE]
    <3>. DEFINE x == [act[a] EXCEPT !.pc = "inline_check", !.broken = FALSE]
    <3>1. x.pc = "inline_check" /\ act' = [act EXCEPT ![a] = x]
      BY <1>0, <2>4 DEF ActorRec
    <3>. HIDE DEF x
    <3>2. ~OfGated(x) /\ x.pc \notin Resuming
      BY <3>1 DEF OfGated
    <3>. QED  BY <2>1, <2>2, <3>1, <3>2, JobWrites
  <2>. QED  BY <1>3, <2>3, <2>4 DEF ReportValidation
<1>4. CASE ReadExecuting(a)
  <2>1. CASE act' = [act EXCEPT ![a].pc = "step", ![a].step = 1, ![a].broken = FALSE]
    <3>. DEFINE x == [act[a] EXCEPT !.pc = "step", !.step = 1, !.broken = FALSE]
    <3>1. x.pc = "step" /\ act' = [act EXCEPT ![a] = x]
      BY <1>0, <2>1 DEF ActorRec
    <3>2. act[a].pc = "read_executing" /\ UNCHANGED <<run, job, request, late, failures>>
      BY <1>4 DEF ReadExecuting
    <3>. HIDE DEF x
    <3>3. ~OfGated(x) /\ x.pc \notin Resuming
      BY <3>1 DEF OfGated
    <3>. QED  BY <3>1, <3>2, <3>3, JobLooks
  <2>2. CASE Goto(a, "unexecute") \/ End(a)
    BY <1>4, <2>2, JobRests DEF ReadExecuting
  <2>. QED  BY <1>4, <2>1, <2>2 DEF ReadExecuting
<1>5. CASE RunTypedAction(a)
  <2>1. UNCHANGED <<run, job, late, failures>> /\ act[a].pc = "step"
    BY <1>5 DEF RunTypedAction
  <2>2. ASSUME NEW pc \in {"reread", "fail"}, Leave(a, pc), UNCHANGED request
        PROVE  Followed'
    BY <2>1, <2>2, JobRests
  <2>3. CASE act' = [act EXCEPT ![a].step = act[a].step + 1] /\ UNCHANGED request
    <3>. DEFINE x == [act[a] EXCEPT !.step = act[a].step + 1]
    <3>1. x.pc = "step" /\ act' = [act EXCEPT ![a] = x]
      BY <1>0, <2>1, <2>3 DEF ActorRec
    <3>. HIDE DEF x
    <3>2. ~OfGated(x) /\ x.pc \notin Resuming
      BY <3>1 DEF OfGated
    <3>. QED  BY <2>1, <2>3, <3>1, <3>2, JobLooks
  <2>4. ASSUME NEW q \in Requests, request[q] = None, Leave(a, "pause"),
               request' = [request EXCEPT ![q] = [run |-> act[a].run, status |-> "pending"]]
        PROVE  Followed'
    <3>. DEFINE x == [act[a] EXCEPT !.pc = "pause", !.step = 0]
    <3>1. x.pc = "pause" /\ act' = [act EXCEPT ![a] = x]
      BY <1>0, <2>4 DEF ActorRec, Leave
    <3>2. \A p \in Requests : request[p] # None => request'[p] = request[p]
      BY <2>4 DEF Typed, TypeOK
    <3>3. \A p \in Requests : \A r : ForGood(p, r) => ForGoodNext(p, r)
      BY <2>1, <3>2 DEF ForGood, ForGoodNext
    <3>4. \A p \in Requests : \A r : ForGood(p, r) => ForGood(p, r)'
      BY <2>1, <3>2 DEF ForGood
    <3>. HIDE DEF x
    <3>5. ~OfGated(x) /\ x.pc \notin Resuming /\ ~Reporting(act[a])
      BY <2>1, <3>1 DEF OfGated
    <3>6. \A r \in Runs : JobOpen(r)' => JobOpen(r)
      BY <2>1, <3>4 DEF JobOpen
    <3>. QED  BY <2>1, <3>1, <3>3, <3>5, <3>6, JobMoves
  <2>. QED  BY <1>5, <2>2, <2>3, <2>4 DEF RunTypedAction
<1>6. CASE ExtractFile(a)
  BY <1>6, JobRests DEF ExtractFile
<1>7. CASE Pause(a)
  <2>1. /\ SetStatus(act[a].run, "paused_approval_required") /\ QuietGo(a)
        /\ UNCHANGED <<job, request, late, failures>> /\ act[a].pc = "pause"
    BY <1>7 DEF Pause
  <2>. QED  BY <2>1, JobStates
<1>8. CASE Reread(a)
  BY <1>8, JobRests DEF Reread
<1>9. CASE Complete(a)
  <2>1. /\ SetStatus(act[a].run, "completed") /\ \E pc \in {"index", "job_done"} : Goto(a, pc)
        /\ UNCHANGED <<job, request, late, failures>> /\ act[a].pc = "complete"
    BY <1>9 DEF Complete
  <2>. QED  BY <2>1, JobSettles
<1>10. CASE IndexFile(a)
  <2>1. /\ Goto(a, "job_done") /\ act[a].pc = "index"
        /\ UNCHANGED <<run, job, request, late, failures>>
    BY <1>10 DEF IndexFile
  <2>2. \E s \in RunStatus : TRUE
    OBVIOUS
  <2>. QED  BY <2>1, <2>2, JobSettles
<1>11. CASE CompleteJob(a)
  <2>1. "completed" \in JobStatus
    BY DEF JobStatus
  <2>. QED  BY <1>11, <2>1, JobEnds DEF CompleteJob
<1>12. CASE Fail(a)
  <2>1. /\ SetStatus(act[a].run, "failed") /\ Goto(a, "job_fail") /\ act[a].pc = "fail"
        /\ UNCHANGED <<job, request, late, failures>>
    BY <1>12 DEF Fail
  <2>. QED  BY <2>1, JobSettles
<1>13. CASE FailJob(a)
  <2>1. "failed" \in JobStatus
    BY DEF JobStatus
  <2>. QED  BY <1>13, <2>1, JobEnds DEF FailJob
<1>14. CASE WriteAudit(a)
  BY <1>14, JobRests DEF WriteAudit, AfterValidation
<1>. QED
  BY <1>1, <1>2, <1>3, <1>4, <1>5, <1>6, <1>7, <1>8, <1>9, <1>10, <1>11, <1>12, <1>13,
     <1>14
  DEF RunStep

LEMMA RequestFollowed ==
    ASSUME Typed, Typed', Unraced, Followed, NEW h \in Handlers, Request(h)
    PROVE  Followed'
<1>. USE DEF Approving, Resuming, Reporting, KeepRows, KeepHistory, KeepWorld
<1>0. h \in Actors /\ act[h] \in ActorRec /\ run \in [Runs -> RunRow]
  BY DEF Typed, TypeOK, Actors
<1>1. ASSUME NEW r \in Runs, Create(h, r)
      PROVE  Followed'
  <2>. DEFINE x == [act[h] EXCEPT !.pc = "create_bind", !.run = r]
  <2>1. /\ x.pc = "create_bind" /\ act' = [act EXCEPT ![h] = x] /\ act[h].pc = "idle"
        /\ UNCHANGED <<job, request, late, failures>>
    BY <1>0, <1>1 DEF ActorRec, Create
  <2>2. /\ run[r].status = "absent" /\ run'[r].status = "staged"
        /\ \A t \in Runs \ {r} : run'[t] = run[t]
    BY <1>0, <1>1 DEF Create
  <2>3. \A q \in Requests : \A t : ForGood(q, t) => ForGoodNext(q, t)
    BY <2>1 DEF ForGood, ForGoodNext
  <2>4. \A q \in Requests : \A t : ForGood(q, t) => ForGood(q, t)'
    BY <2>1 DEF ForGood
  <2>5. \A t \in Runs : JobOpen(t)' => JobOpen(t)
    BY <2>1, <2>2, <2>4 DEF JobOpen, Settled
  <2>. HIDE DEF x
  <2>6. ~OfGated(x) /\ x.pc \notin Resuming /\ ~Reporting(act[h])
    BY <2>1 DEF OfGated
  <2>. QED  BY <1>0, <2>1, <2>2, <2>3, <2>5, <2>6, JobMoves
<1>2. ASSUME NEW r \in Runs, approveSandboxRun(h, r)
      PROVE  Followed'
  <2>. DEFINE x == [act[h] EXCEPT !.pc = "approve_save", !.run = r]
  <2>1. /\ x.pc = "approve_save" /\ x.run = r /\ act' = [act EXCEPT ![h] = x]
        /\ act[h].pc = "idle" /\ UNCHANGED <<run, job, request, late, failures>>
    BY <1>0, <1>2 DEF ActorRec, approveSandboxRun
  <2>2. run[r].gated
    BY <1>2 DEF approveSandboxRun, Unraced, KindsOK
  <2>. HIDE DEF x
  <2>. QED  BY <1>0, <2>1, <2>2, JobLooks
<1>3. ASSUME NEW q \in Requests, NEW pc \in Asking, act[h].pc = "idle",
             UNCHANGED <<run, job, request, late, failures>>,
             act' = [act EXCEPT ![h].pc = pc, ![h].run = request[q].run, ![h].req = q]
      PROVE  Followed'
  <2>. DEFINE x == [act[h] EXCEPT !.pc = pc, !.run = request[q].run, !.req = q]
  <2>1. x.pc = pc /\ act' = [act EXCEPT ![h] = x]
    BY <1>0, <1>3 DEF ActorRec
  <2>. HIDE DEF x
  <2>2. ~OfGated(x) /\ x.pc \notin Resuming
    BY <2>1 DEF OfGated, Asking
  <2>. QED  BY <1>0, <1>3, <2>1, <2>2, JobLooks
<1>. QED  BY <1>1, <1>2, <1>3 DEF Request, approveRequest, rejectRequest, Asking

LEMMA StepFollowed == Typed /\ Typed' /\ Owned /\ Unraced /\ Followed /\ [Next]_vars => Followed'
<1>. SUFFICES ASSUME Typed, Typed', Owned, Unraced, Followed, [Next]_vars
              PROVE  Followed'
  OBVIOUS
<1>. USE DEF KeepRows, KeepHistory
<1>0. failures + 1 # 0
  BY SandboxAssumption DEF Typed, TypeOK, SandboxAssumption
<1>1. CASE UNCHANGED <<run, job, request, act, failures, late>>
  BY <1>1
  DEF Followed, JobsReported, JobOpen, ForGood, Reporting, GatedActors, OfGated, ResumedActors
<1>2. ASSUME NEW a \in Actors, Throw(a)
      PROVE  Followed'
  <2>1. UNCHANGED <<run, job, request, late>> /\ Leave(a, "fail") /\ failures' # 0
    BY <1>0, <1>2 DEF Throw
  <2>. QED  BY <2>1, JobRests DEF QuietGo, PC, Executing, Loud, Approving, Resuming
<1>3. ASSUME NEW a \in Actors, ThrowInvalid(a)
      PROVE  Followed'
  <2>. DEFINE x == [act[a] EXCEPT !.pc = "validate_save", !.broken = TRUE]
  <2>1. x.pc = "validate_save" /\ act' = [act EXCEPT ![a] = x]
    BY <1>3 DEF ThrowInvalid, Typed, TypeOK, ActorRec
  <2>2. UNCHANGED <<run, job, request, late>> /\ failures' # 0
    BY <1>0, <1>3 DEF ThrowInvalid
  <2>. HIDE DEF x
  <2>. QED  BY <2>1, <2>2, JobLooks DEF OfGated, Approving, Resuming
<1>4. ASSUME NEW a \in Actors, Crash(a)
      PROVE  Followed'
  <2>1. ~OfGated(Resting) /\ Resting.pc \notin Resuming
    BY DEF Resting, OfGated, Approving, Resuming
  <2>. QED  BY <1>0, <1>4, <2>1, JobLooks DEF Crash
<1>5. ASSUME NEW q \in Requests, ExpireRequest(q)
      PROVE  Followed'
  <2>1. /\ UNCHANGED <<run, job, act, failures, late>> /\ request[q].status = "pending"
        /\ \A p \in Requests \ {q} : request'[p] = request[p]
    BY <1>5 DEF ExpireRequest, KeepWorld, Typed, TypeOK
  <2>2. \A p \in Requests : \A r : ForGood(p, r) => ForGood(p, r)'
    BY <2>1 DEF ForGood
  <2>3. JobsReported'
    BY <2>1, <2>2 DEF Followed, JobsReported, JobOpen, Reporting
  <2>4. GatedActors'
    BY <2>1 DEF Followed, GatedActors, OfGated
  <2>5. ResumedActors'
    <3>. SUFFICES ASSUME NEW a \in Actors, act'[a].pc \in Resuming
                  PROVE  act'[a].req \in Requests /\ ForGood(act[a].req, act[a].run)'
      BY DEF ResumedActors, Resuming
    <3>1. act[a].req \in Requests /\ ForGood(act[a].req, act[a].run)
      BY <2>1 DEF Followed, ResumedActors
    <3>. QED  BY <2>1, <3>1 DEF ForGood
  <2>. QED  BY <2>3, <2>4, <2>5 DEF Followed
<1>. QED
  BY <1>1, <1>2, <1>3, <1>4, <1>5, NodeFollowed, HandlerFollowed, RunFollowed, RequestFollowed
  DEF Next, vars, Switch

\* When nothing is under way for a run that has ended, its job is not left
\* running, unless something failed or an approval came before: the one that
\* settles a run reports it, and only an approval sets a job to running.
THEOREM SandboxJobs == Spec => []JobsFollowRuns
<1>1. Typed /\ Followed => JobsFollowRuns
  <2>. SUFFICES ASSUME Typed, Followed, NEW r \in Runs,
                       failures = 0, ~run[r].gated, ~Resumed(r), run[r].status \in Settled,
                       Idle(r), job[r] = "running"
                PROVE  FALSE
    BY DEF JobsFollowRuns
  <2>1. JobOpen(r)
    BY DEF JobOpen, Resumed, ForGood
  <2>. QED  BY <2>1 DEF Followed, JobsReported, Idle
<1>2. Init => Typed /\ Owned /\ Unraced /\ Followed
  BY InitTyped, InitOwned, InitUnraced, InitFollowed
<1>3. Typed /\ Owned /\ Unraced /\ Followed /\ [Next]_vars
          => Typed' /\ Owned' /\ Unraced' /\ Followed'
  BY StepTyped, StepOwned, StepUnraced, StepFollowed
<1>. QED  BY <1>1, <1>2, <1>3, PTL DEF Spec

-----------------------------------------------------------------------------
\* What an actor that has let go of a run may still save of it: the end of an
\* execution, a rejection, or the failure of a check that it had already passed on.
\* By then the run is over, but for an admin who resumes it, or it passed its check
\* and waits to be approved and executed: nobody checks it again.
Spent(x) ==
    x.pc \in {"pause", "reread", "complete", "index", "job_done", "audit", "fail", "deny_run"}
Rechecks(x) ==
    \/ x.pc \in {"validate_job", "validate_audit"} /\ ~x.broken
    \/ x.pc = "validate_save" /\ x.broken
Uncheckable == {"absent", "staged"}

Over(r) ==
    /\ run[r].status \notin Free
    /\ \A c \in Actors : Holds(c, r) => c \in Handlers /\ Executes(act[c])
Passed(r) ==
    /\ run[r].status \notin Uncheckable
    /\ \A c \in Actors : Holds(c, r) => Executes(act[c])
Bygone ==
    \A r \in Runs \ late : \A b \in Actors :
        act[b].run = r => /\ Spent(act[b]) => Over(r)
                          /\ Rechecks(act[b]) => Over(r) \/ Passed(r)

\* The step of one actor, as far as a run is concerned that may be over or passed.
Mild(a, x, r) ==
    /\ run[r].status # "absent" => run'[r].gated = run[r].gated
    /\ Holding(x) /\ x.run = r =>
           \/ Holds(a, r) /\ (Executes(act[a]) => Executes(x))
           \/ Checks(x) /\ run[r].status = "staged"
           \/ Executes(x) /\ (run[r].status = "approved" \/ a \in Handlers)
    /\ run'[r].status \in Free =>
           run[r].status \in Free \/ (Holds(a, r) /\ ~(a \in Handlers /\ Executes(act[a])))
    /\ run'[r].status \in Uncheckable =>
           run[r].status \in Uncheckable \/ (Holds(a, r) /\ Checks(act[a]))

LEMMA HoldersDo ==
    ASSUME NEW x
    PROVE  /\ Holding(x) <=> Checks(x) \/ Executes(x)
           /\ ~(Checks(x) /\ Executes(x))
           /\ Holding(x) => ~Spent(x) /\ ~Rechecks(x)
BY DEF Holding, Moving, Checks, Executes, Spent, Rechecks

LEMMA PastStays ==
    ASSUME Typed, NEW a \in Actors, NEW x, act' = [act EXCEPT ![a] = x], NEW r \in Runs,
           Mild(a, x, r)
    PROVE  (Over(r) => Over(r)') /\ (Passed(r) => Passed(r)')
<1>1. act'[a] = x /\ \A b \in Actors \ {a} : act'[b] = act[b]
  BY DEF Typed, TypeOK
<1>2. \A b \in Actors \ {a} : Holds(b, r)' => Holds(b, r) /\ (Executes(act[b]) => Executes(act'[b]))
  BY <1>1 DEF Holds, Holding
<1>3. Holds(a, r)' => Holding(x) /\ x.run = r
  BY <1>1 DEF Holds, Holding
<1>4. ASSUME Over(r)
      PROVE  Over(r)'
  <2>1. run'[r].status \notin Free
    BY <1>4 DEF Mild, Over
  <2>2. ASSUME NEW c \in Actors, Holds(c, r)'
        PROVE  c \in Handlers /\ Executes(act'[c])
    <3>1. CASE c # a
      BY <1>2, <1>4, <2>2, <3>1 DEF Over
    <3>2. CASE c = a
      <4>1. Holding(x) /\ x.run = r
        BY <1>3, <2>2, <3>2
      <4>2. run[r].status # "staged" /\ run[r].status # "approved"
        BY <1>4 DEF Over, Free
      <4>3. a \in Handlers /\ Executes(x)
        BY <1>4, <4>1, <4>2 DEF Mild, Over
      <4>. QED  BY <1>1, <3>2, <4>3
    <3>. QED  BY <3>1, <3>2
  <2>3. \A c \in Actors : (Holds(c, r) => c \in Handlers /\ Executes(act[c]))'
    BY <2>2 DEF Executes
  <2>. QED  BY <2>1, <2>3 DEF Over
<1>5. ASSUME Passed(r)
      PROVE  Passed(r)'
  <2>1. run[r].status # "absent" /\ run[r].status # "staged"
    BY <1>5 DEF Passed, Uncheckable
  <2>2. run'[r].status \notin Uncheckable
    BY <1>5, <2>1, HoldersDo DEF Mild, Passed
  <2>3. ASSUME NEW c \in Actors, Holds(c, r)'
        PROVE  Executes(act'[c])
    <3>1. CASE c # a
      BY <1>2, <1>5, <2>3, <3>1 DEF Passed
    <3>2. CASE c = a
      <4>1. Holding(x) /\ x.run = r
        BY <1>3, <2>3, <3>2
      <4>2. Executes(x)
        BY <1>5, <2>1, <4>1 DEF Mild, Passed
      <4>. QED  BY <1>1, <3>2, <4>2
    <3>. QED  BY <3>1, <3>2
  <2>4. \A c \in Actors : (Holds(c, r) => Executes(act[c]))'
    BY <2>3 DEF Executes
  <2>. QED  BY <2>2, <2>4 DEF Passed
<1>. QED  BY <1>4, <1>5

\* An actor that lets go of a run leaves it over, or passed.
LEMMA PastMoves ==
    ASSUME Typed, Owned, Bygone, NEW a \in Actors, NEW x, act' = [act EXCEPT ![a] = x],
           late \subseteq late',
           \A r \in Runs \ late' :
               /\ Mild(a, x, r)
               /\ x.run = r /\ Spent(x) =>
                      \/ act[a].run = r /\ Spent(act[a])
                      \/ Holds(a, r) /\ run'[r].status \notin Free
               /\ x.run = r /\ Rechecks(x) =>
                      \/ act[a].run = r /\ Rechecks(act[a])
                      \/ Holds(a, r) /\ run'[r].status \notin Uncheckable
    PROVE  Bygone'
<1>1. act'[a] = x /\ \A b \in Actors \ {a} : act'[b] = act[b]
  BY DEF Typed, TypeOK
<1>2. ASSUME NEW r \in Runs \ late', NEW b \in Actors, act'[b].run = r
      PROVE  /\ Spent(act'[b]) => Over(r)'
             /\ Rechecks(act'[b]) => Over(r)' \/ Passed(r)'
  <2>1. (Over(r) => Over(r)') /\ (Passed(r) => Passed(r)')
    BY PastStays
  <2>2. CASE b # a
    BY <1>1, <1>2, <2>1, <2>2 DEF Bygone
  <2>3. CASE b = a /\ Holds(a, r) /\ (Spent(x) \/ Rechecks(x))
    <3>1. ~Holding(x)
      BY <2>3, HoldersDo
    <3>2. \A c \in Actors : ~Holds(c, r)'
      BY <1>1, <2>3, <3>1 DEF Holds, Holding, Owned, OneHolder
    <3>3. run'[r].status \notin Free => Over(r)'
      BY <3>2 DEF Over
    <3>4. run'[r].status \notin Uncheckable => Passed(r)'
      BY <3>2 DEF Passed
    <3>5. act'[b] = x /\ x.run = r
      BY <1>1, <1>2, <2>3
    <3>6. r \notin late => (act[a].run = r /\ Spent(act[a]) => Over(r))
                           /\ (act[a].run = r /\ Rechecks(act[a]) => Over(r) \/ Passed(r))
      BY DEF Bygone
    <3>. QED  BY <2>1, <3>3, <3>4, <3>5, <3>6
  <2>4. CASE b = a /\ ~Holds(a, r)
    <3>1. act'[b] = x /\ x.run = r
      BY <1>1, <1>2, <2>4
    <3>2. r \notin late => (act[a].run = r /\ Spent(act[a]) => Over(r))
                           /\ (act[a].run = r /\ Rechecks(act[a]) => Over(r) \/ Passed(r))
      BY DEF Bygone
    <3>. QED  BY <2>1, <2>4, <3>1, <3>2
  <2>5. CASE b = a /\ ~Spent(x) /\ ~Rechecks(x)
    BY <1>1, <2>5
  <2>. QED  BY <2>2, <2>3, <2>4, <2>5
<1>3. ASSUME NEW r \in Runs \ late', NEW b \in Actors
      PROVE  (act[b].run = r => /\ Spent(act[b]) => Over(r)
                                /\ Rechecks(act[b]) => Over(r) \/ Passed(r))'
  BY <1>2 DEF Spent, Rechecks
<1>. QED  BY <1>3 DEF Bygone

\* The step of an actor that has a run and writes at most its status.
LEMMA PastWorks ==
    ASSUME Typed, Owned, Bygone, NEW a \in Actors, act[a].pc \notin Loose,
           NEW x, act' = [act EXCEPT ![a] = x], late \subseteq late',
           NEW s \in RunStatus, SetStatus(act[a].run, s) \/ (UNCHANGED run /\ s = run[act[a].run].status),
           x.pc \in Loose \/ x.run = act[a].run,
           act[a].run \notin late' =>
               /\ Holding(x) =>
                      \/ Holding(act[a]) /\ (Executes(act[a]) => Executes(x))
                      \/ Checks(x) /\ run[act[a].run].status = "staged"
                      \/ Executes(x) /\ run[act[a].run].status = "approved"
               /\ s \in Free =>
                      \/ run[act[a].run].status \in Free
                      \/ Holding(act[a]) /\ ~(a \in Handlers /\ Executes(act[a]))
               /\ s \in Uncheckable => run[act[a].run].status \in Uncheckable \/ Checks(act[a])
               /\ Spent(x) => Spent(act[a]) \/ (Holding(act[a]) /\ s \notin Free)
               /\ Rechecks(x) =>
                      \/ Rechecks(act[a])
                      \/ Holding(act[a]) /\ s \notin Uncheckable
    PROVE  Bygone'
<1>1. act[a].run \in Runs /\ run \in [Runs -> RunRow]
  BY DEF Typed, TypeOK, LocalsOK
<1>2. /\ run'[act[a].run].status = s /\ run'[act[a].run].gated = run[act[a].run].gated
      /\ \A r \in Runs \ {act[a].run} : run'[r] = run[r]
  BY <1>1 DEF SetStatus, RunRow
<1>3. x.pc \in Loose => ~Holding(x) /\ ~Spent(x) /\ ~Rechecks(x)
  BY DEF Loose, Holding, Moving, Spent, Rechecks
<1>4. ASSUME NEW r \in Runs \ late', r # act[a].run
      PROVE  /\ Mild(a, x, r)
             /\ ~(x.run = r /\ Spent(x)) /\ ~(x.run = r /\ Rechecks(x))
  BY <1>2, <1>3, <1>4 DEF Mild
<1>5. ASSUME NEW r \in Runs \ late', r = act[a].run
      PROVE  /\ Mild(a, x, r)
             /\ Spent(x) => Spent(act[a]) \/ (Holds(a, r) /\ run'[r].status \notin Free)
             /\ Rechecks(x) =>
                    \/ Rechecks(act[a])
                    \/ Holds(a, r) /\ run'[r].status \notin Uncheckable
  <2>1. Holds(a, r) <=> Holding(act[a])
    BY <1>5 DEF Holds
  <2>2. Mild(a, x, r)
    BY <1>2, <1>5, <2>1, HoldersDo DEF Mild
  <2>. QED  BY <1>2, <1>5, <2>1, <2>2
<1>6. ASSUME NEW r \in Runs \ late'
      PROVE  /\ Mild(a, x, r)
             /\ x.run = r /\ Spent(x) =>
                    \/ act[a].run = r /\ Spent(act[a])
                    \/ Holds(a, r) /\ run'[r].status \notin Free
             /\ x.run = r /\ Rechecks(x) =>
                    \/ act[a].run = r /\ Rechecks(act[a])
                    \/ Holds(a, r) /\ run'[r].status \notin Uncheckable
  <2>1. CASE r = act[a].run
    BY <1>5, <2>1
  <2>2. CASE r # act[a].run
    BY <1>4, <2>2
  <2>. QED  BY <2>1, <2>2
<1>. QED  BY <1>6, PastMoves

\* Nothing is written, and the actor goes on with nothing of the kind.
LEMMA PastLooks ==
    ASSUME Typed, Owned, Bygone, NEW a \in Actors, NEW x, act' = [act EXCEPT ![a] = x],
           UNCHANGED run, late \subseteq late', ~Holding(x), ~Spent(x), ~Rechecks(x)
    PROVE  Bygone'
<1>1. \A r \in Runs \ late' : Mild(a, x, r)
  BY DEF Mild
<1>. QED  BY <1>1, PastMoves

\* Where an actor goes.
LEMMA Going ==
    ASSUME Typed, NEW a \in Actors, NEW pc \in PC, Goto(a, pc) \/ Leave(a, pc)
    PROVE  \E x : /\ act' = [act EXCEPT ![a] = x] /\ x.pc = pc
                  /\ x.run = act[a].run /\ x.broken = act[a].broken
<1>1. act[a] \in ActorRec
  BY DEF Typed, TypeOK
<1>2. CASE Goto(a, pc)
  <2>. DEFINE x == [act[a] EXCEPT !.pc = pc]
  <2>1. x.pc = pc /\ x.run = act[a].run /\ x.broken = act[a].broken
    BY <1>1 DEF ActorRec
  <2>. QED  BY <1>2, <2>1 DEF Goto
<1>3. CASE Leave(a, pc)
  <2>. DEFINE x == [act[a] EXCEPT !.pc = pc, !.step = 0]
  <2>1. x.pc = pc /\ x.run = act[a].run /\ x.broken = act[a].broken
    BY <1>1 DEF ActorRec
  <2>. QED  BY <1>3, <2>1 DEF Leave
<1>. QED  BY <1>2, <1>3

LEMMA Resigning ==
    ASSUME NEW a \in Actors, End(a) \/ TurnToApproved(a)
    PROVE  \E x : act' = [act EXCEPT ![a] = x] /\ x.pc \in Loose
<1>1. Ends(a).pc \in Loose /\ [Resting EXCEPT !.pc = "approved"].pc \in Loose
  BY DEF Ends, Resting, Loose
<1>. QED  BY <1>1 DEF End, TurnToApproved

LEMMA LooseIsIdle ==
    ASSUME NEW x, x.pc \in Loose
    PROVE  ~Holding(x) /\ ~Spent(x) /\ ~Rechecks(x)
BY DEF Loose, Holding, Moving, Spent, Rechecks

LEMMA PastEnds ==
    ASSUME Typed, Owned, Bygone, NEW a \in Actors, UNCHANGED run, late \subseteq late',
           End(a) \/ TurnToApproved(a)
    PROVE  Bygone'
BY Resigning, LooseIsIdle, PastLooks

\* The same, and the status of its run is written.
LEMMA PastSettles ==
    ASSUME Typed, Owned, Bygone, NEW a \in Actors, act[a].pc \notin Loose, late \subseteq late',
           End(a) \/ TurnToApproved(a), NEW s \in RunStatus, SetStatus(act[a].run, s),
           act[a].run \notin late' =>
               /\ s \in Free =>
                      \/ run[act[a].run].status \in Free
                      \/ Holding(act[a]) /\ ~(a \in Handlers /\ Executes(act[a]))
               /\ s \in Uncheckable => run[act[a].run].status \in Uncheckable \/ Checks(act[a])
    PROVE  Bygone'
<1>1. PICK x : act' = [act EXCEPT ![a] = x] /\ x.pc \in Loose
  BY Resigning
<1>2. ~Holding(x) /\ ~Spent(x) /\ ~Rechecks(x)
  BY <1>1, LooseIsIdle
<1>. QED  BY <1>1, <1>2, PastWorks

\* An actor goes on with its run, whose status it writes or leaves.
LEMMA PastGoes ==
    ASSUME Typed, Owned, Bygone, NEW a \in Actors, act[a].pc \notin Loose, late \subseteq late',
           NEW pc \in PC, Goto(a, pc) \/ Leave(a, pc),
           NEW s \in RunStatus, SetStatus(act[a].run, s) \/ (UNCHANGED run /\ s = run[act[a].run].status),
           \A x : x.pc = pc /\ x.broken = act[a].broken /\ act[a].run \notin late' =>
               /\ Holding(x) =>
                      \/ Holding(act[a]) /\ (Executes(act[a]) => Executes(x))
                      \/ Checks(x) /\ run[act[a].run].status = "staged"
                      \/ Executes(x) /\ run[act[a].run].status = "approved"
               /\ s \in Free =>
                      \/ run[act[a].run].status \in Free
                      \/ Holding(act[a]) /\ ~(a \in Handlers /\ Executes(act[a]))
               /\ s \in Uncheckable => run[act[a].run].status \in Uncheckable \/ Checks(act[a])
               /\ Spent(x) => Spent(act[a]) \/ (Holding(act[a]) /\ s \notin Free)
               /\ Rechecks(x) =>
                      \/ Rechecks(act[a])
                      \/ Holding(act[a]) /\ s \notin Uncheckable
    PROVE  Bygone'
<1>1. PICK x : /\ act' = [act EXCEPT ![a] = x] /\ x.pc = pc
               /\ x.run = act[a].run /\ x.broken = act[a].broken
  BY Going
<1>. QED  BY <1>1, PastWorks

\* An actor that works on a run writes that the run is over, as far as it has
\* come, and goes on to report it.
LEMMA PastSaves ==
    ASSUME Typed, Owned, Bygone, NEW a \in Actors, act[a].pc \notin Loose, UNCHANGED late,
           Spent(act[a]), NEW pc \in {"reread", "index", "job_done", "job_fail"}, Goto(a, pc) \/ Leave(a, pc),
           NEW s \in RunStatus \ (Free \cup Uncheckable), SetStatus(act[a].run, s)
    PROVE  Bygone'
<1>1. ASSUME NEW x, x.pc = pc
      PROVE  ~Holding(x) /\ ~Rechecks(x)
  BY <1>1 DEF Holding, Moving, Rechecks
<1>2. pc \in PC /\ s \notin Free /\ s \notin Uncheckable
  BY DEF PC, Executing, Trying, Inline
<1>3. \A x : x.pc = pc /\ Spent(x) => Spent(act[a])
  OBVIOUS
<1>. QED  BY <1>1, <1>2, <1>3, PastGoes

\* A validation passes: the run may be checked once more, as one that passed.
LEMMA PastPasses ==
    ASSUME Typed, Owned, Bygone, NEW a \in Actors, act[a].pc = "validate_save", ~act[a].broken,
           UNCHANGED late, NEW s \in {"approval_pending", "approved"}, SetStatus(act[a].run, s),
           NEW pc \in {"validate_job", "validate_audit"}, Goto(a, pc)
    PROVE  Bygone'
<1>1. Holding(act[a]) /\ ~Executes(act[a]) /\ act[a].pc \notin Loose
  BY DEF Holding, Executes, Loose
<1>2. pc \in PC /\ s \in RunStatus /\ s \notin Uncheckable
  BY DEF PC, Validating, RunStatus, Settled, Uncheckable
<1>3. ASSUME NEW x, x.pc = pc
      PROVE  ~Holding(x) /\ ~Spent(x)
  BY <1>3 DEF Holding, Moving, Spent
<1>. QED  BY <1>1, <1>2, <1>3, PastGoes

\* The same without a write, for a holder of its run or an actor that has let go.
LEMMA PastReads ==
    ASSUME Typed, Owned, Bygone, NEW a \in Actors, act[a].pc \notin Loose, late \subseteq late',
           UNCHANGED run, NEW pc \in PC, Goto(a, pc) \/ Leave(a, pc),
           \A x : x.pc = pc /\ x.broken = act[a].broken =>
               /\ Holding(x) => Holding(act[a]) /\ (Executes(act[a]) => Executes(x))
               /\ Spent(x) => Spent(act[a]) \/ Holding(act[a])
               /\ Rechecks(x) => Rechecks(act[a]) \/ Holding(act[a])
    PROVE  Bygone'
<1>1. act[a].run \in Runs /\ run \in [Runs -> RunRow]
  BY DEF Typed, TypeOK, LocalsOK
<1>2. run[act[a].run].status \in RunStatus
  BY <1>1 DEF RunRow
<1>3. act[a].run \notin late' /\ Holding(act[a]) => run[act[a].run].status \notin Free
  BY <1>1 DEF Owned, FreeIsFree, Holds
<1>4. run[act[a].run].status \in Uncheckable => run[act[a].run].status \in Free
  BY DEF Uncheckable, Free
<1>. QED  BY <1>2, <1>3, <1>4, PastGoes

LEMMA InitBygone == Init => Bygone
<1>. SUFFICES ASSUME Init PROVE Bygone
  OBVIOUS
<1>1. \A b \in Actors : act[b].pc \in Loose
  BY DEF Init, Resting, Loose
<1>2. \A b \in Actors : ~Spent(act[b]) /\ ~Rechecks(act[b])
  BY <1>1, LooseIsIdle
<1>. QED  BY <1>2 DEF Bygone

LEMMA NodeBygone ==
    ASSUME Typed, Owned, Bygone, NEW n \in Nodes, NodeStep(n)
    PROVE  Bygone'
<1>. USE DEF RunStatus, Settled, PC, Validating, Executing, KeepRows, KeepHistory
<1>0. n \in Actors /\ act[n] \in ActorRec /\ n \notin Handlers
  BY SandboxAssumption DEF Actors, Typed, TypeOK, SandboxAssumption
<1>1. ASSUME NEW pc \in {"staged", "approved", "claim_staged", "claim_approved"}, NEW x,
             x.pc = pc, act' = [act EXCEPT ![n] = x], UNCHANGED <<run, late>>
      PROVE  Bygone'
  <2>1. ~Holding(x) /\ ~Spent(x) /\ ~Rechecks(x)
    BY <1>1 DEF Holding, Moving, Spent, Rechecks
  <2>. QED  BY <1>0, <1>1, <2>1, PastLooks
<1>2. ASSUME NEW pc \in {"claim_staged", "claim_approved"}, NEW r \in Runs,
             act' = [act EXCEPT ![n].pc = pc, ![n].run = r], UNCHANGED <<run, late>>
      PROVE  Bygone'
  <2>. DEFINE x == [act[n] EXCEPT !.pc = pc, !.run = r]
  <2>1. x.pc = pc /\ act' = [act EXCEPT ![n] = x]
    BY <1>0, <1>2 DEF ActorRec
  <2>. HIDE DEF x
  <2>. QED  BY <1>1, <1>2, <2>1
<1>3. ASSUME NEW pc \in {"staged", "approved"}, Goto(n, pc), UNCHANGED <<run, late>>
      PROVE  Bygone'
  BY <1>0, <1>1, <1>3, Going
<1>4. CASE StartTick(n)
  BY <1>3, <1>4 DEF StartTick
<1>5. CASE SelectStaged(n)
  BY <1>2, <1>3, <1>5 DEF SelectStaged, Queued
<1>6. CASE ClaimStaged(n)
  <2>1. act[n].pc = "claim_staged" /\ act[n].pc \notin Loose /\ UNCHANGED late
    BY <1>6 DEF ClaimStaged, Loose
  <2>2. CASE SetStatus(act[n].run, "validation_pending") /\ Goto(n, "validate")
             /\ run[act[n].run].status = "staged"
    <3>1. \A x : x.pc = "validate" => Checks(x) /\ ~Spent(x) /\ ~Rechecks(x)
      BY DEF Checks, Spent, Rechecks
    <3>2. "validation_pending" \notin Free /\ "validation_pending" \notin Uncheckable
      BY DEF Free, Uncheckable
    <3>. QED  BY <1>0, <2>1, <2>2, <3>1, <3>2, PastGoes
  <2>3. CASE TurnToApproved(n) /\ UNCHANGED run
    BY <1>0, <2>1, <2>3, PastEnds
  <2>. QED  BY <1>6, <2>2, <2>3 DEF ClaimStaged
<1>7. CASE SelectApproved(n)
  <2>1. CASE act' = [act EXCEPT ![n] = Resting]
    <3>1. Resting.pc \in Loose
      BY DEF Resting, Loose
    <3>. QED  BY <1>0, <1>7, <2>1, <3>1, LooseIsIdle, PastLooks DEF SelectApproved
  <2>. QED  BY <1>2, <1>7, <2>1 DEF SelectApproved, Queued
<1>8. CASE ClaimApproved(n)
  <2>1. act[n].pc = "claim_approved" /\ act[n].pc \notin Loose /\ UNCHANGED late
    BY <1>8 DEF ClaimApproved, Loose
  <2>2. CASE SetStatus(act[n].run, "executing") /\ Goto(n, "read_executing")
             /\ run[act[n].run].status = "approved"
    <3>1. \A x : x.pc = "read_executing" => Executes(x) /\ ~Spent(x) /\ ~Rechecks(x)
      BY DEF Executes, Spent, Rechecks
    <3>2. "executing" \notin Free /\ "executing" \notin Uncheckable
      BY DEF Free, Uncheckable
    <3>. QED  BY <1>0, <2>1, <2>2, <3>1, <3>2, PastGoes
  <2>3. CASE End(n) /\ UNCHANGED run
    BY <1>0, <2>1, <2>3, PastEnds
  <2>. QED  BY <1>8, <2>2, <2>3 DEF ClaimApproved
<1>9. CASE PutBack(n)
  <2>1. /\ act[n].pc \in {"unclaim", "unexecute"} /\ act[n].pc \notin Loose /\ UNCHANGED late
        /\ End(n) \/ TurnToApproved(n)
    BY <1>9 DEF PutBack, Loose
  <2>2. CASE UNCHANGED run
    BY <1>0, <2>1, <2>2, PastEnds
  <2>3. CASE SetStatus(act[n].run, IF act[n].pc = "unclaim" THEN "staged" ELSE "approved")
    <3>1. Holding(act[n]) /\ (act[n].pc = "unclaim" => Checks(act[n]))
      BY <2>1 DEF Holding, Moving, Checks
    <3>2. "approved" \notin Uncheckable
      BY DEF Uncheckable
    <3>. QED  BY <1>0, <2>1, <2>3, <3>1, <3>2, PastSettles
  <2>. QED  BY <1>9, <2>2, <2>3 DEF PutBack
<1>. QED  BY <1>4, <1>5, <1>6, <1>7, <1>8, <1>9 DEF NodeStep

\* A request that was answered for the first time: nobody held its run.
LEMMA AnswerBygone ==
    ASSUME Typed, Owned, Bygone, NEW h \in Handlers, SaveRequest(h)
    PROVE  Bygone'
<1>. DEFINE pc == IF act[h].pc = "grant_request" THEN "grant_run" ELSE "deny_run"
            s == act[h].run
<1>0. h \in Actors /\ act \in [Actors -> ActorRec]
  BY DEF Actors, Typed, TypeOK
<1>1. /\ act[h].pc \in Asking /\ Goto(h, pc) /\ pc \in PC /\ UNCHANGED run /\ late \subseteq late'
      /\ s \notin late' => request[act[h].req].status = "pending"
  BY DEF SaveRequest, KeepRows, Asking, PC, Granting, Denying
<1>2. PICK x : /\ act' = [act EXCEPT ![h] = x] /\ x.pc = pc
               /\ x.run = s /\ x.broken = act[h].broken
  BY <1>0, <1>1, Going
<1>3. ~Checks(x) /\ ~Rechecks(x) /\ (pc = "grant_run" => Executes(x) /\ ~Spent(x))
      /\ (pc = "deny_run" => ~Holding(x))
  BY <1>2 DEF Checks, Rechecks, Executes, Spent, Holding, Moving
<1>4. ASSUME NEW r \in Runs \ late'
      PROVE  (Over(r) => Over(r)') /\ (Passed(r) => Passed(r)')
  <2>1. Mild(h, x, r)
    BY <1>1, <1>2, <1>3 DEF Mild, Holding, Moving
  <2>. QED  BY <1>0, <1>2, <2>1, PastStays
<1>5. act'[h] = x /\ \A b \in Actors \ {h} : act'[b] = act[b]
  BY <1>0, <1>2
<1>6. ASSUME NEW r \in Runs \ late', r = s, pc = "deny_run"
      PROVE  Over(r)'
  <2>1. act[h].req \in Requests /\ request[act[h].req] # None /\ request[act[h].req].run = r
    BY <1>0, <1>1, <1>6 DEF Typed, LocalsOK, Owned, AnswersHis
  <2>2. Asks(act[h].req, r) /\ r \in Runs \ late
    BY <1>1, <1>6, <2>1 DEF Asks
  <2>3. (\A b \in Actors : ~Holds(b, r)) /\ run[r].status \notin Free
    BY <2>1, <2>2 DEF Owned, AsksAlone, FreeIsFree
  <2>4. \A b \in Actors : ~Holds(b, r)'
    BY <1>3, <1>5, <1>6, <2>3 DEF Holds, Holding
  <2>. QED  BY <1>1, <2>3, <2>4 DEF Over
<1>7. ASSUME NEW r \in Runs \ late', NEW b \in Actors, act'[b].run = r
      PROVE  /\ Spent(act'[b]) => Over(r)'
             /\ Rechecks(act'[b]) => Over(r)' \/ Passed(r)'
  <2>1. CASE b = h
    BY <1>2, <1>3, <1>5, <1>6, <1>7, <2>1
  <2>2. CASE b # h
    BY <1>1, <1>4, <1>5, <1>7, <2>2 DEF Bygone
  <2>. QED  BY <2>1, <2>2
<1>8. ASSUME NEW r \in Runs \ late', NEW b \in Actors
      PROVE  (act[b].run = r => /\ Spent(act[b]) => Over(r)
                                /\ Rechecks(act[b]) => Over(r) \/ Passed(r))'
  BY <1>7 DEF Spent, Rechecks
<1>. QED  BY <1>8 DEF Bygone

LEMMA HandlerBygone ==
    ASSUME Typed, Owned, Bygone, NEW h \in Handlers, HandlerStep(h)
    PROVE  Bygone'
<1>. USE DEF RunStatus, Settled, PC, Loose, Creating, Validating, Executing, Inline, Approving,
             Granting, Denying, KeepRows, KeepHistory
<1>0. h \in Actors /\ act[h] \in ActorRec /\ run \in [Runs -> RunRow]
  BY DEF Actors, Typed, TypeOK
<1>1. \A s \in {"executing", "blocked"} : s \notin Free /\ s \notin Uncheckable
  BY DEF Free, Uncheckable
<1>2. ASSUME NEW pc \in {"create_save", "approve_resave", "inline_claim", "inline_execute",
                         "approve_bind", "approve_job", "deny_job"}, NEW x, x.pc = pc
      PROVE  ~Holding(x) /\ ~Spent(x) /\ ~Rechecks(x)
  BY <1>2 DEF Holding, Moving, Spent, Rechecks
<1>3. CASE resolveAndBindForRun(h)
  <2>1. act[h].pc \notin Loose /\ act[h].run \in Runs /\ UNCHANGED late
    BY <1>0, <1>3 DEF resolveAndBindForRun, Typed, LocalsOK
  <2>2. \A r \in Runs : run'[r].status = run[r].status /\ run'[r].gated = run[r].gated
    BY <1>0, <1>3, <2>1 DEF resolveAndBindForRun, RunRow
  <2>3. PICK x : act' = [act EXCEPT ![h] = x] /\ x.pc \in {"create_save", "approve_resave"}
    BY <1>0, <1>3, Going DEF resolveAndBindForRun
  <2>4. ~Holding(x) /\ ~Spent(x) /\ ~Rechecks(x)
    BY <1>2, <2>3
  <2>5. \A r \in Runs \ late' : Mild(h, x, r)
    BY <2>2, <2>4 DEF Mild
  <2>. QED  BY <1>0, <2>1, <2>3, <2>4, <2>5, PastMoves
<1>4. CASE CreateResave(h)
  <2>1. /\ act[h].pc \notin Loose /\ SetStatus(act[h].run, "staged") /\ late \subseteq late'
        /\ act[h].run \notin late' => run[act[h].run].status = "staged"
    BY <1>0, <1>4 DEF CreateResave, SavedLate, Typed, LocalsOK
  <2>2. "staged" \in Free /\ "staged" \in Uncheckable
    BY DEF Free, Uncheckable
  <2>3. CASE Goto(h, "inline_claim")
    <3>1. \A x : x.pc = "inline_claim" => ~Holding(x) /\ ~Spent(x) /\ ~Rechecks(x)
      BY <1>2
    <3>2. act[h].run \notin late' => run[act[h].run].status \in Free \cap Uncheckable
      BY <2>1, <2>2
    <3>3. "inline_claim" \in PC /\ "staged" \in RunStatus
      OBVIOUS
    <3>. QED  BY <1>0, <2>1, <2>3, <3>1, <3>2, <3>3, PastGoes
  <2>4. CASE End(h)
    BY <1>0, <2>1, <2>2, <2>4, PastSettles
  <2>. QED  BY <1>4, <2>3, <2>4 DEF CreateResave
<1>5. CASE InlineClaim(h)
  <2>1. act[h].pc \notin Loose /\ UNCHANGED late
    BY <1>5 DEF InlineClaim
  <2>2. CASE SetStatus(act[h].run, "validation_pending") /\ Goto(h, "validate")
             /\ run[act[h].run].status = "staged"
    <3>1. \A x : x.pc = "validate" => Checks(x) /\ ~Spent(x) /\ ~Rechecks(x)
      BY DEF Checks, Spent, Rechecks
    <3>2. "validation_pending" \notin Free /\ "validation_pending" \notin Uncheckable
      BY DEF Free, Uncheckable
    <3>. QED  BY <1>0, <2>1, <2>2, <3>1, <3>2, PastGoes
  <2>3. CASE End(h) /\ UNCHANGED run
    BY <1>0, <2>1, <2>3, PastEnds
  <2>. QED  BY <1>5, <2>2, <2>3 DEF InlineClaim
<1>6. CASE InlineCheck(h)
  <2>1. CASE Goto(h, "inline_execute")
    BY <1>0, <1>2, <1>6, <2>1, PastReads DEF InlineCheck
  <2>2. CASE End(h)
    BY <1>0, <1>6, <2>2, PastEnds DEF InlineCheck
  <2>. QED  BY <1>6, <2>1, <2>2 DEF InlineCheck
<1>7. CASE InlineExecute(h)
  <2>1. act[h].pc \notin Loose /\ UNCHANGED late
    BY <1>7 DEF InlineExecute
  <2>2. CASE SetStatus(act[h].run, "executing") /\ Goto(h, "read_executing")
             /\ run[act[h].run].status = "approved"
    <3>1. \A x : x.pc = "read_executing" => Executes(x) /\ ~Spent(x) /\ ~Rechecks(x)
      BY DEF Executes, Spent, Rechecks
    <3>. QED  BY <1>0, <1>1, <2>1, <2>2, <3>1, PastGoes
  <2>3. CASE End(h) /\ UNCHANGED run
    BY <1>0, <2>1, <2>3, PastEnds
  <2>. QED  BY <1>7, <2>2, <2>3 DEF InlineExecute
<1>8. CASE SaveApproval(h)
  <2>1. /\ act[h].pc \notin Loose /\ SetStatus(act[h].run, "approved") /\ late \subseteq late'
        /\ act[h].run \notin late' => run[act[h].run].status \in {"approval_pending", "approved"}
        /\ Goto(h, "approve_bind") \/ Goto(h, "approve_job")
    BY <1>0, <1>8 DEF SaveApproval, SavedLate, Typed, LocalsOK
  <2>2. {"approval_pending", "approved"} \subseteq Free /\ "approved" \notin Uncheckable
    BY DEF Free, Uncheckable
  <2>. QED  BY <1>0, <1>2, <2>1, <2>2, PastGoes
<1>9. CASE ApprovedJob(h)
  BY <1>0, <1>9, PastEnds DEF ApprovedJob
<1>10. CASE Resume(h)
  <2>1. \A x : x.pc = "grant_job" => Executes(x) /\ ~Spent(x) /\ ~Rechecks(x)
    BY DEF Executes, Spent, Rechecks
  <2>2. /\ act[h].pc = "grant_run" /\ Holding(act[h])
        /\ SetStatus(act[h].run, "executing") /\ Goto(h, "grant_job") /\ UNCHANGED late
    BY <1>10 DEF Resume, Holding, Moving
  <2>. QED  BY <1>0, <1>1, <2>1, <2>2, PastGoes
<1>11. CASE ResumedJob(h)
  <2>1. \A x : x.pc = "read_executing" => Executes(x) /\ ~Spent(x) /\ ~Rechecks(x)
    BY DEF Executes, Spent, Rechecks
  <2>2. /\ act[h].pc = "grant_job" /\ Holding(act[h])
        /\ Goto(h, "read_executing") /\ UNCHANGED <<run, late>>
    BY <1>11 DEF ResumedJob, Holding, Moving
  <2>. QED  BY <1>0, <2>1, <2>2, PastReads
<1>12. CASE Block(h)
  <2>1. /\ act[h].pc \notin Loose /\ SetStatus(act[h].run, "blocked")
        /\ Goto(h, "deny_job") /\ UNCHANGED late
    BY <1>12 DEF Block
  <2>. QED  BY <1>0, <1>1, <1>2, <2>1, PastGoes
<1>13. CASE BlockedJob(h)
  BY <1>0, <1>13, PastEnds DEF BlockedJob
<1>. QED
  BY <1>3, <1>4, <1>5, <1>6, <1>7, <1>8, <1>9, <1>10, <1>11, <1>12, <1>13, AnswerBygone
  DEF HandlerStep

LEMMA RunBygone ==
    ASSUME Typed, Owned, Bygone, NEW a \in Actors, RunStep(a)
    PROVE  Bygone'
<1>. USE DEF RunStatus, Settled, PC, Loose, Validating, Executing, Trying, Inline, KeepRows,
             KeepHistory, Holding, Moving, Spent, Rechecks, Checks, Executes
<1>0. act[a] \in ActorRec
  BY DEF Typed, TypeOK
<1>1. CASE ReadPending(a)
  <2>1. act[a].pc = "validate" /\ UNCHANGED <<run, late>>
    BY <1>1 DEF ReadPending
  <2>2. ASSUME NEW pc \in {"validate_save", "unclaim", "inline_check"}, Goto(a, pc)
        PROVE  Bygone'
    BY <2>1, <2>2, PastReads
  <2>3. CASE End(a) \/ TurnToApproved(a)
    BY <2>1, <2>3, PastEnds
  <2>. QED  BY <1>1, <2>2, <2>3 DEF ReadPending, AfterValidation
<1>2. CASE SaveValidation(a)
  <2>1. act[a].pc = "validate_save" /\ UNCHANGED late
    BY <1>2 DEF SaveValidation
  <2>2. CASE act' = [act EXCEPT ![a].pc = "validate_job", ![a].broken = TRUE]
             /\ SetStatus(act[a].run, "validation_failed")
    <3>. DEFINE x == [act[a] EXCEPT !.pc = "validate_job", !.broken = TRUE]
    <3>1. /\ x.pc = "validate_job" /\ x.broken /\ x.run = act[a].run
          /\ act' = [act EXCEPT ![a] = x]
      BY <1>0, <2>2 DEF ActorRec
    <3>. HIDE DEF x
    <3>2. "validation_failed" \notin Free /\ "validation_failed" \notin Uncheckable
      BY DEF Free, Uncheckable
    <3>. QED  BY <2>1, <2>2, <3>1, <3>2, PastWorks
  <2>3. ASSUME NEW s \in {"approval_pending", "approved"}, SetStatus(act[a].run, s),
               ~act[a].broken, NEW pc \in {"validate_job", "validate_audit"}, Goto(a, pc)
        PROVE  Bygone'
    BY <2>1, <2>3, PastPasses
  <2>. QED  BY <1>2, <2>2, <2>3 DEF SaveValidation
<1>3. CASE ReportValidation(a)
  <2>1. CASE TurnToApproved(a)
    BY <1>3, <2>1, PastEnds DEF ReportValidation
  <2>2. CASE act' = [act EXCEPT ![a].pc = "inline_check", ![a].broken = FALSE]
    <3>. DEFINE x == [act[a] EXCEPT !.pc = "inline_check", !.broken = FALSE]
    <3>1. x.pc = "inline_check" /\ act' = [act EXCEPT ![a] = x]
      BY <1>0, <2>2 DEF ActorRec
    <3>. HIDE DEF x
    <3>. QED  BY <1>3, <3>1, PastLooks DEF ReportValidation
  <2>3. CASE ~act[a].broken /\ Goto(a, "validate_audit")
    BY <1>3, <2>3, PastReads DEF ReportValidation
  <2>. QED  BY <1>3, <2>1, <2>2, <2>3 DEF ReportValidation
<1>4. CASE ReadExecuting(a)
  <2>1. act[a].pc = "read_executing" /\ UNCHANGED <<run, late>>
    BY <1>4 DEF ReadExecuting
  <2>2. CASE act' = [act EXCEPT ![a].pc = "step", ![a].step = 1, ![a].broken = FALSE]
    <3>. DEFINE x == [act[a] EXCEPT !.pc = "step", !.step = 1, !.broken = FALSE]
    <3>1. x.pc = "step" /\ x.run = act[a].run /\ act' = [act EXCEPT ![a] = x]
      BY <1>0, <2>2 DEF ActorRec
    <3>. HIDE DEF x
    <3>2. \A r \in Runs \ late' : Mild(a, x, r)
      BY <2>1, <3>1 DEF Mild, Holds
    <3>. QED  BY <2>1, <3>1, <3>2, PastMoves
  <2>3. CASE Goto(a, "unexecute")
    BY <2>1, <2>3, PastReads
  <2>4. CASE End(a)
    BY <2>1, <2>4, PastEnds
  <2>. QED  BY <1>4, <2>2, <2>3, <2>4 DEF ReadExecuting
<1>5. CASE RunTypedAction(a)
  <2>1. act[a].pc = "step" /\ UNCHANGED <<run, late>>
    BY <1>5 DEF RunTypedAction
  <2>2. ASSUME NEW pc \in {"reread", "fail", "pause"}, Leave(a, pc)
        PROVE  Bygone'
    BY <2>1, <2>2, PastReads
  <2>3. CASE act' = [act EXCEPT ![a].step = act[a].step + 1]
    <3>. DEFINE x == [act[a] EXCEPT !.step = act[a].step + 1]
    <3>1. x.pc = "step" /\ x.run = act[a].run /\ act' = [act EXCEPT ![a] = x]
      BY <1>0, <2>1, <2>3 DEF ActorRec
    <3>. HIDE DEF x
    <3>2. \A r \in Runs \ late' : Mild(a, x, r)
      BY <2>1, <3>1 DEF Mild, Holds
    <3>. QED  BY <2>1, <3>1, <3>2, PastMoves
  <2>. QED  BY <1>5, <2>2, <2>3 DEF RunTypedAction
<1>6. CASE ExtractFile(a)
  BY <1>6, PastReads DEF ExtractFile
<1>7. \A s \in {"paused_approval_required", "completed", "failed"} : s \notin Free /\ s \notin Uncheckable
  BY DEF Free, Uncheckable
<1>8. CASE Pause(a)
  <2>1. /\ act[a].pc = "pause" /\ UNCHANGED late /\ Goto(a, "reread")
        /\ SetStatus(act[a].run, "paused_approval_required")
    BY <1>8 DEF Pause
  <2>. QED  BY <1>7, <2>1, PastSaves
<1>9. CASE Reread(a)
  <2>1. CASE Goto(a, "complete")
    BY <1>9, <2>1, PastReads DEF Reread
  <2>. QED  BY <1>9, <2>1, PastEnds DEF Reread
<1>10. CASE Complete(a)
  <2>1. /\ act[a].pc = "complete" /\ UNCHANGED late
        /\ SetStatus(act[a].run, "completed")
        /\ Goto(a, "index") \/ Goto(a, "job_done")
    BY <1>10 DEF Complete
  <2>. QED  BY <1>7, <2>1, PastSaves
<1>11. CASE IndexFile(a)
  BY <1>11, PastReads DEF IndexFile
<1>12. CASE CompleteJob(a)
  BY <1>12, PastReads DEF CompleteJob
<1>13. CASE Fail(a)
  <2>1. /\ act[a].pc = "fail" /\ UNCHANGED late /\ Goto(a, "job_fail")
        /\ SetStatus(act[a].run, "failed")
    BY <1>13 DEF Fail
  <2>. QED  BY <1>7, <2>1, PastSaves
<1>14. CASE FailJob(a)
  BY <1>14, PastEnds DEF FailJob
<1>15. CASE WriteAudit(a)
  <2>1. /\ act[a].pc \in {"validate_audit", "audit"} /\ UNCHANGED <<run, late>>
        /\ End(a) \/ TurnToApproved(a) \/ Goto(a, "inline_check")
    BY <1>15 DEF WriteAudit, AfterValidation
  <2>2. CASE Goto(a, "inline_check")
    BY <2>1, <2>2, PastReads
  <2>. QED  BY <2>1, <2>2, PastEnds
<1>. QED
  BY <1>1, <1>2, <1>3, <1>4, <1>5, <1>6, <1>8, <1>9, <1>10, <1>11, <1>12, <1>13, <1>14,
     <1>15
  DEF RunStep

LEMMA StepBygone == Typed /\ Owned /\ Bygone /\ [Next]_vars => Bygone'
<1>. SUFFICES ASSUME Typed, Owned, Bygone, [Next]_vars
              PROVE  Bygone'
  OBVIOUS
<1>. USE DEF KeepRows, KeepHistory
<1>0. act \in [Actors -> ActorRec] /\ run \in [Runs -> RunRow]
  BY DEF Typed, TypeOK
<1>1. CASE UNCHANGED <<run, act, late>>
  BY <1>1 DEF Bygone, Over, Passed, Spent, Rechecks, Holds, Holding, Executes
<1>2. ASSUME NEW h \in Handlers, Request(h)
      PROVE  Bygone'
  <2>0. h \in Actors /\ act[h] \in ActorRec
    BY <1>0 DEF Actors
  <2>1. ASSUME NEW pc \in {"create_bind", "approve_save"} \cup Asking, NEW x, x.pc = pc
        PROVE  ~Holding(x) /\ ~Spent(x) /\ ~Rechecks(x)
    BY <2>1 DEF Asking, Holding, Moving, Spent, Rechecks
  <2>2. ASSUME NEW r \in Runs, Create(h, r)
        PROVE  Bygone'
    <3>. DEFINE x == [act[h] EXCEPT !.pc = "create_bind", !.run = r]
    <3>1. x.pc = "create_bind" /\ act' = [act EXCEPT ![h] = x] /\ UNCHANGED late
      BY <2>0, <2>2 DEF ActorRec, Create
    <3>. HIDE DEF x
    <3>2. /\ run[r].status = "absent" /\ run'[r].status = "staged"
          /\ \A t \in Runs \ {r} : run'[t] = run[t]
      BY <1>0, <2>2 DEF Create
    <3>3. ~Holding(x) /\ ~Spent(x) /\ ~Rechecks(x)
      BY <2>1, <3>1
    <3>4. \A t \in Runs \ late' : Mild(h, x, t)
      BY <3>2, <3>3 DEF Mild, Free, Uncheckable
    <3>. QED  BY <2>0, <3>1, <3>3, <3>4, PastMoves
  <2>3. ASSUME NEW r \in Runs, approveSandboxRun(h, r)
        PROVE  Bygone'
    <3>. DEFINE x == [act[h] EXCEPT !.pc = "approve_save", !.run = r]
    <3>1. x.pc = "approve_save" /\ act' = [act EXCEPT ![h] = x] /\ UNCHANGED <<run, late>>
      BY <2>0, <2>3 DEF ActorRec, approveSandboxRun
    <3>. HIDE DEF x
    <3>. QED  BY <2>0, <2>1, <3>1, PastLooks
  <2>4. ASSUME NEW q \in Requests, NEW pc \in Asking, UNCHANGED <<run, late>>,
               act' = [act EXCEPT ![h].pc = pc, ![h].run = request[q].run, ![h].req = q]
        PROVE  Bygone'
    <3>. DEFINE x == [act[h] EXCEPT !.pc = pc, !.run = request[q].run, !.req = q]
    <3>1. x.pc = pc /\ act' = [act EXCEPT ![h] = x]
      BY <2>0, <2>4 DEF ActorRec
    <3>. HIDE DEF x
    <3>. QED  BY <2>0, <2>1, <2>4, <3>1, PastLooks
  <2>. QED  BY <1>2, <2>2, <2>3, <2>4 DEF Request, approveRequest, rejectRequest, Asking
<1>3. ASSUME NEW a \in Actors, Throw(a)
      PROVE  Bygone'
  BY <1>3, PastReads
  DEF Throw, Trying, Loose, PC, Executing, Holding, Moving, Spent, Rechecks, Checks, Executes
<1>4. ASSUME NEW a \in Actors, ThrowInvalid(a)
      PROVE  Bygone'
  <2>. DEFINE x == [act[a] EXCEPT !.pc = "validate_save", !.broken = TRUE]
  <2>1. /\ x.pc = "validate_save" /\ x.broken /\ x.run = act[a].run
        /\ act' = [act EXCEPT ![a] = x] /\ UNCHANGED <<run, late>>
    BY <1>0, <1>4 DEF ThrowInvalid, ActorRec
  <2>. HIDE DEF x
  <2>2. ~Holding(x) /\ ~Spent(x) /\ (Holding(act[a]) \/ Rechecks(act[a]))
    BY <1>4, <2>1 DEF ThrowInvalid, Holding, Moving, Spent, Rechecks
  <2>3. act[a].pc \notin Loose /\ act[a].run \in Runs
    BY <1>4 DEF ThrowInvalid, Loose, Typed, LocalsOK
  <2>4. run[act[a].run].status \in RunStatus
    BY <1>0, <2>3 DEF RunRow
  <2>5. act[a].run \notin late' /\ Holding(act[a]) => run[act[a].run].status \notin Free
    BY <2>1, <2>3 DEF Owned, FreeIsFree, Holds
  <2>6. run[act[a].run].status \in Uncheckable => run[act[a].run].status \in Free
    BY DEF Uncheckable, Free
  <2>. QED  BY <2>1, <2>2, <2>3, <2>4, <2>5, <2>6, PastWorks
<1>5. ASSUME NEW a \in Actors, Crash(a)
      PROVE  Bygone'
  <2>1. Resting.pc \in Loose
    BY DEF Resting, Loose
  <2>. QED  BY <1>5, <2>1, LooseIsIdle, PastLooks DEF Crash
<1>. QED
  BY <1>1, <1>2, <1>3, <1>4, <1>5, NodeBygone, HandlerBygone, RunBygone
  DEF Next, vars, Switch, ExpireRequest

-----------------------------------------------------------------------------
\* The lifecycle of a run.  A step moves one run: it changes the role its actor
\* plays for that run, and the turn of the run, as RunLifecycle allows.
Role(x) == IF Checks(x) THEN "checks" ELSE IF Executes(x) THEN "executes" ELSE "none"
Roles == {"checks", "executes"}
Plays(b, r, role) == Role(act[b]) = role /\ act[b].run = r

LEMMA RolesHold ==
    /\ \A x : Role(x) \in {"checks", "executes", "none"}
    /\ \A x : Holding(x) <=> Role(x) # "none"
    /\ \A x : Checks(x) <=> Role(x) = "checks"
    /\ \A x : Executes(x) <=> Role(x) = "executes"
BY DEF Role, Checks, Executes, Holding, Moving

LEMMA MappingIs ==
    ASSUME NEW r \in Runs
    PROVE  /\ Turn[r] = TurnOf(run[r].status) /\ Turn'[r] = TurnOf(run'[r].status)
           /\ Gated[r] = run[r].gated /\ Gated'[r] = run'[r].gated
           /\ Checkers[r] = {b \in Actors : Plays(b, r, "checks")}
           /\ Checkers'[r] = {b \in Actors : Plays(b, r, "checks")'}
           /\ Executors[r] = {b \in Actors : Plays(b, r, "executes")}
           /\ Executors'[r] = {b \in Actors : Plays(b, r, "executes")'}
           /\ Askers[r] = {q \in Requests : Asks(q, r)}
           /\ Askers'[r] = {q \in Requests : Asks(q, r)'}
<1>1. Turn[r] = TurnOf(run[r].status) /\ Turn'[r] = TurnOf(run'[r].status)
  BY DEF Turn
<1>2. Gated[r] = run[r].gated /\ Gated'[r] = run'[r].gated
  BY DEF Gated
<1>3. Checkers[r] = {b \in Actors : Plays(b, r, "checks")}
  BY RolesHold DEF Checkers, Plays
<1>4. Checkers'[r] = {b \in Actors : Plays(b, r, "checks")'}
  BY RolesHold DEF Checkers, Plays
<1>5. Executors[r] = {b \in Actors : Plays(b, r, "executes")}
  BY RolesHold DEF Executors, Plays
<1>6. Executors'[r] = {b \in Actors : Plays(b, r, "executes")'}
  BY RolesHold DEF Executors, Plays
<1>7. Askers[r] = {q \in Requests : Asks(q, r)} /\ Askers'[r] = {q \in Requests : Asks(q, r)'}
  BY DEF Askers
<1>. QED  BY <1>1, <1>2, <1>3, <1>4, <1>5, <1>6, <1>7

\* In nobody's hands, in those of one actor, or asked about once.
LEMMA OneHand ==
    ASSUME Owned, NEW r \in Runs \ late
    PROVE  /\ run[r].status \in Free =>
                  Checkers[r] = {} /\ Executors[r] = {} /\ Askers[r] = {}
           /\ \A b \in Actors : Holds(b, r) =>
                  /\ Checkers[r] = IF Role(act[b]) = "checks" THEN {b} ELSE {}
                  /\ Executors[r] = IF Role(act[b]) = "executes" THEN {b} ELSE {}
                  /\ Askers[r] = {} /\ TurnOf(run[r].status) = "closed"
           /\ \A q \in Requests : Asks(q, r) =>
                  /\ Checkers[r] = {} /\ Executors[r] = {} /\ Askers[r] = {q}
                  /\ TurnOf(run[r].status) = "closed"
<1>1. \A b \in Actors, role \in Roles : Plays(b, r, role) => Holds(b, r)
  BY RolesHold DEF Plays, Holds, Roles
<1>2. run[r].status \notin Free => TurnOf(run[r].status) = "closed"
  BY DEF TurnOf, Free
<1>3. run[r].status \in Free => Checkers[r] = {} /\ Executors[r] = {} /\ Askers[r] = {}
  BY <1>1, MappingIs DEF Owned, FreeIsFree, Roles
<1>4. ASSUME NEW b \in Actors, Holds(b, r)
      PROVE  /\ Checkers[r] = IF Role(act[b]) = "checks" THEN {b} ELSE {}
             /\ Executors[r] = IF Role(act[b]) = "executes" THEN {b} ELSE {}
             /\ Askers[r] = {} /\ TurnOf(run[r].status) = "closed"
  <2>1. \A c \in Actors, role \in Roles : Plays(c, r, role) => c = b
    BY <1>1, <1>4 DEF Owned, OneHolder
  <2>2. \A role : Plays(b, r, role) <=> Role(act[b]) = role
    BY <1>4 DEF Plays, Holds
  <2>3. \A q \in Requests : ~Asks(q, r)
    BY <1>4 DEF Owned, AsksAlone
  <2>4. run[r].status \notin Free
    BY <1>4 DEF Owned, FreeIsFree
  <2>. QED  BY <1>2, <2>1, <2>2, <2>3, <2>4, MappingIs DEF Roles
<1>5. ASSUME NEW q \in Requests, Asks(q, r)
      PROVE  /\ Checkers[r] = {} /\ Executors[r] = {} /\ Askers[r] = {q}
             /\ TurnOf(run[r].status) = "closed"
  <2>1. (\A b \in Actors : ~Holds(b, r)) /\ \A p \in Requests : Asks(p, r) => p = q
    BY <1>5 DEF Owned, AsksAlone
  <2>2. run[r].status \notin Free
    BY <1>5 DEF Owned, FreeIsFree
  <2>. QED  BY <1>1, <1>2, <1>5, <2>1, <2>2, MappingIs DEF Roles
<1>. QED  BY <1>3, <1>4, <1>5

Lives(r) == Lifecycle!Next(r) \/ Lifecycle!Unmoved(r)

\* A run whose row and whose hands stay the same.
LEMMA LifeRests ==
    ASSUME NEW r \in Runs,
           run'[r].status = run[r].status, run'[r].gated = run[r].gated,
           \A b \in Actors, role \in Roles :
               Plays(b, r, role)' <=> Plays(b, r, role),
           \A q \in Requests : Asks(q, r)' <=> Asks(q, r)
    PROVE  Lives(r)
BY MappingIs DEF Lives, Roles, Lifecycle!Unmoved, Lifecycle!Hands

\* What a step may make of the role of its actor, and of the status of its run.
Passes(x, y, row, s) ==
    \/ /\ Role(y) = Role(x)
       /\ \/ TurnOf(s) = TurnOf(row.status)
          \/ row.status = "approval_pending" /\ s = "approved"
          \/ TurnOf(row.status) \in {"approve", "execute"} /\ TurnOf(s) = "closed"
    \/ /\ Role(x) = "none" /\ TurnOf(s) = "closed"
       /\ \/ Role(y) = "checks" /\ row.status = "staged"
          \/ Role(y) = "executes" /\ row.status = "approved"
    \/ /\ Role(x) = "checks" /\ Role(y) = "none"
       /\ \/ TurnOf(s) \in {TurnOf(row.status), "closed", "check"}
          \/ s = IF row.gated THEN "approval_pending" ELSE "approved"
    \/ /\ Role(x) = "executes" /\ Role(y) = "none"
       /\ TurnOf(s) \in {TurnOf(row.status), "closed", "execute"}

\* What is saved late is no news: the run was closed, unless its check failed after
\* it had passed the run on.
LEMMA LatePasses ==
    ASSUME Typed, Bygone, NEW a \in Actors, act[a].run \in Runs \ late,
           NEW y, Role(y) = "none", NEW s \in RunStatus, TurnOf(s) = "closed",
           Spent(act[a]) \/ Rechecks(act[a])
    PROVE  Passes(act[a], y, run[act[a].run], s)
<1>. DEFINE row == run[act[a].run]
<1>1. Over(act[a].run) \/ Passed(act[a].run)
  BY DEF Bygone
<1>2. Role(act[a]) = "none"
  BY HoldersDo, RolesHold
<1>3. CASE Over(act[a].run)
  <2>1. TurnOf(row.status) = "closed"
    BY <1>3 DEF Over, Free, TurnOf
  <2>. QED  BY <1>2, <2>1 DEF Passes
<1>4. CASE Passed(act[a].run)
  <2>1. TurnOf(row.status) \in {"approve", "execute", "closed"}
    BY <1>4 DEF Passed, Uncheckable, TurnOf
  <2>. QED  BY <1>2, <2>1 DEF Passes
<1>. QED  BY <1>1, <1>3, <1>4

LEMMA LifePasses ==
    ASSUME Typed, Owned, NEW a \in Actors, NEW x, act' = [act EXCEPT ![a] = x],
           UNCHANGED request, late \subseteq late', NEW r \in Runs \ late',
           Role(act[a]) # "none" => act[a].run = r, Role(x) # "none" => x.run = r,
           run'[r].gated = run[r].gated, Passes(act[a], x, run[r], run'[r].status)
    PROVE  Lives(r)
<1>. DEFINE from == run[r].status
            to == run'[r].status
<1>1. act'[a] = x /\ \A b \in Actors \ {a} : act'[b] = act[b]
  BY DEF Typed, TypeOK
<1>2. r \in Runs \ late
  OBVIOUS
<1>3. \A q \in Requests : Asks(q, r)' <=> Asks(q, r)
  BY DEF Asks
<1>4. Askers'[r] = Askers[r]
  <2>1. Askers[r] = {q \in Requests : Asks(q, r)} /\ Askers'[r] = {q \in Requests : Asks(q, r)'}
    BY <1>2, MappingIs
  <2>. QED  BY <1>3, <2>1
<1>5. \A b \in Actors \ {a} : \A role \in Roles : Plays(b, r, role)' <=> Plays(b, r, role)
  BY <1>1 DEF Plays, Role, Checks, Executes
<1>6. Role(act[a]) # "none" => Holds(a, r)
  BY RolesHold DEF Holds
<1>7. /\ Turn[r] = TurnOf(from) /\ Turn'[r] = TurnOf(to) /\ Gated'[r] = Gated[r]
      /\ Gated[r] = run[r].gated
  BY <1>2, MappingIs
<1>8. /\ Checkers[r] = {b \in Actors : Plays(b, r, "checks")}
       /\ Checkers'[r] = {b \in Actors : Plays(b, r, "checks")'}
       /\ Executors[r] = {b \in Actors : Plays(b, r, "executes")}
       /\ Executors'[r] = {b \in Actors : Plays(b, r, "executes")'}
  BY <1>2, MappingIs
<1>9. CASE Role(x) = Role(act[a])
  <2>1. \A role \in Roles : Plays(a, r, role)' <=> Plays(a, r, role)
    BY <1>1, <1>9, RolesHold DEF Plays, Roles, Role, Checks, Executes
  <2>2. Checkers'[r] = Checkers[r] /\ Executors'[r] = Executors[r]
    <3>1. \A b \in Actors : \A role \in Roles : Plays(b, r, role)' <=> Plays(b, r, role)
      BY <1>5, <2>1
    <3>. QED  BY <1>8, <3>1 DEF Roles
  <2>3. CASE TurnOf(to) = TurnOf(from)
    BY <1>4, <1>7, <2>2, <2>3 DEF Lives, Lifecycle!Unmoved, Lifecycle!Hands
  <2>4. CASE TurnOf(from) \in {"approve", "execute"} /\ TurnOf(to) = "closed"
    BY <1>4, <1>7, <2>2, <2>4
    DEF Lives, Lifecycle!Next, Lifecycle!Withdraw, Lifecycle!Becomes, Lifecycle!Hands
  <2>5. CASE from = "approval_pending" /\ to = "approved"
    <3>1. TurnOf(from) = "approve" /\ TurnOf(to) = "execute"
      BY <2>5 DEF TurnOf
    <3>. QED  BY <1>4, <1>7, <2>2, <3>1
         DEF Lives, Lifecycle!Next, Lifecycle!Approve, Lifecycle!Becomes, Lifecycle!Hands
  <2>. QED  BY <1>9, <2>3, <2>4, <2>5, RolesHold DEF Passes
<1>10. CASE Role(act[a]) = "none" /\ Role(x) # "none"
  <2>1. from \in {"staged", "approved"} /\ TurnOf(to) = "closed"
    BY <1>10 DEF Passes
  <2>2. Checkers[r] = {} /\ Executors[r] = {} /\ Askers[r] = {}
    BY <1>2, <2>1, OneHand DEF Free
  <2>3. /\ Checkers'[r] = IF Role(x) = "checks" THEN {a} ELSE {}
        /\ Executors'[r] = IF Role(x) = "executes" THEN {a} ELSE {}
    <3>1. \A b \in Actors : \A role \in Roles : Plays(b, r, role)' <=> b = a /\ Role(x) = role
      BY <1>1, <1>5, <1>10, <1>8, <2>2 DEF Roles, Plays, Role, Checks, Executes
    <3>. QED  BY <1>8, <3>1 DEF Roles
  <2>4. CASE Role(x) = "checks" /\ from = "staged"
    <3>1. TurnOf(from) = "check"
      BY <2>4 DEF TurnOf
    <3>2. Lifecycle!Check(r, a)
      BY <1>4, <1>7, <2>1, <2>2, <2>3, <2>4, <3>1
      DEF Lifecycle!Check, Lifecycle!Loose, Lifecycle!Becomes, Lifecycle!GoesTo
    <3>. QED  BY <3>2 DEF Lives, Lifecycle!Next
  <2>5. CASE Role(x) = "executes" /\ from = "approved"
    <3>1. TurnOf(from) = "execute"
      BY <2>5 DEF TurnOf
    <3>2. Lifecycle!Execute(r, a)
      BY <1>4, <1>7, <2>1, <2>2, <2>3, <2>5, <3>1
      DEF Lifecycle!Execute, Lifecycle!Loose, Lifecycle!Becomes, Lifecycle!GoesTo
    <3>. QED  BY <3>2 DEF Lives, Lifecycle!Next
  <2>. QED  BY <1>10, <2>4, <2>5 DEF Passes
<1>11. CASE Role(act[a]) # "none" /\ Role(x) = "none"
  <2>1. Holds(a, r)
    BY <1>6, <1>11
  <2>2. /\ Checkers[r] = IF Role(act[a]) = "checks" THEN {a} ELSE {}
        /\ Executors[r] = IF Role(act[a]) = "executes" THEN {a} ELSE {}
        /\ Askers[r] = {} /\ TurnOf(from) = "closed"
    BY <1>2, <2>1, OneHand
  <2>3. Checkers'[r] = {} /\ Executors'[r] = {}
    BY <1>1, <1>2, <1>5, <1>11, <2>2, MappingIs, RolesHold DEF Roles, Plays, Role, Checks, Executes
  <2>4. CASE Role(act[a]) = "checks"
    <3>1. TurnOf(to) \in {"check", "closed", IF run[r].gated THEN "approve" ELSE "execute"}
      BY <1>11, <2>2, <2>4 DEF Passes, TurnOf
    <3>2. Lifecycle!EndCheck(r)
      BY <1>4, <1>7, <2>2, <2>3, <2>4, <3>1
      DEF Lifecycle!EndCheck, Lifecycle!Becomes, Lifecycle!GoesTo
    <3>. QED  BY <3>2 DEF Lives, Lifecycle!Next
  <2>5. CASE Role(act[a]) = "executes"
    <3>1. TurnOf(to) \in {"execute", "closed"}
      BY <1>11, <2>2, <2>5 DEF Passes
    <3>2. Lifecycle!EndExecution(r)
      BY <1>4, <1>7, <2>2, <2>3, <2>5, <3>1
      DEF Lifecycle!EndExecution, Lifecycle!Becomes, Lifecycle!GoesTo
    <3>. QED  BY <3>2 DEF Lives, Lifecycle!Next
  <2>. QED  BY <1>11, <2>4, <2>5, RolesHold
<1>. QED  BY <1>9, <1>10, <1>11, RolesHold DEF Passes


\* The run is not the one the actor moves.
LEMMA LifeOfOthers ==
    ASSUME Typed, NEW a \in Actors, NEW x, act' = [act EXCEPT ![a] = x], UNCHANGED request,
           NEW r \in Runs, run'[r].status = run[r].status, run'[r].gated = run[r].gated,
           Role(act[a]) = "none" \/ act[a].run # r, Role(x) = "none" \/ x.run # r
    PROVE  Lives(r)
<1>1. act'[a] = x /\ \A b \in Actors \ {a} : act'[b] = act[b]
  BY DEF Typed, TypeOK
<1>2. \A b \in Actors \ {a} : \A role \in Roles : Plays(b, r, role)' <=> Plays(b, r, role)
  BY <1>1 DEF Plays, Role, Checks, Executes
<1>3. \A role \in Roles : ~Plays(a, r, role)
  BY RolesHold DEF Plays, Roles
<1>4. \A role \in Roles : ~Plays(a, r, role)'
  BY <1>1, RolesHold DEF Plays, Roles, Role, Checks, Executes
<1>5. \A q \in Requests : Asks(q, r)' <=> Asks(q, r)
  BY DEF Asks
<1>. QED  BY <1>2, <1>3, <1>4, <1>5, LifeRests

AllLive == \A r \in Runs \ late' : Lives(r)

\* The step of an actor that sets the status of its run.
LEMMA LifeSets ==
    ASSUME Typed, Owned, NEW a \in Actors, act[a].pc \notin Loose,
           UNCHANGED request, late \subseteq late', NEW x, act' = [act EXCEPT ![a] = x],
           Role(x) # "none" => x.run = act[a].run,
           NEW s \in RunStatus, SetStatus(act[a].run, s),
           act[a].run \notin late' => Passes(act[a], x, run[act[a].run], s)
    PROVE  AllLive
<1>1. act[a].run \in Runs /\ run \in [Runs -> RunRow]
  BY DEF Typed, TypeOK, LocalsOK
<1>2. /\ run'[act[a].run].status = s /\ run'[act[a].run].gated = run[act[a].run].gated
      /\ \A r \in Runs \ {act[a].run} : run'[r] = run[r]
  BY <1>1 DEF SetStatus, RunRow
<1>3. ASSUME NEW r \in Runs \ late'
      PROVE  Lives(r)
  <2>1. CASE r = act[a].run
    BY <1>2, <2>1, LifePasses
  <2>2. CASE r # act[a].run
    BY <1>2, <2>2, LifeOfOthers
  <2>. QED  BY <2>1, <2>2
<1>. QED  BY <1>3 DEF AllLive

\* No status changes, and the actor keeps its role or ends it.
LEMMA LifeLooks ==
    ASSUME Typed, Owned, NEW a \in Actors, UNCHANGED <<run, request>>, late \subseteq late',
           NEW x, act' = [act EXCEPT ![a] = x],
           Role(x) = "none" \/ (Role(x) = Role(act[a]) /\ x.run = act[a].run)
    PROVE  AllLive
<1>1. ASSUME NEW r \in Runs \ late'
      PROVE  Lives(r)
  <2>1. CASE r = act[a].run
    <3>1. Passes(act[a], x, run[r], run'[r].status)
      BY RolesHold DEF Passes
    <3>. QED  BY <2>1, <3>1, LifePasses
  <2>2. CASE r # act[a].run
    BY <2>2, LifeOfOthers
  <2>. QED  BY <2>1, <2>2
<1>. QED  BY <1>1 DEF AllLive

LEMMA LifeLeft ==
    ASSUME Typed, Owned, NEW a \in Actors, UNCHANGED <<run, request>>, late \subseteq late',
           LetsGo(a)
    PROVE  AllLive
<1>1. PICK x : act' = [act EXCEPT ![a] = x] /\ ~Holding(x)
  BY HoldsNothing
<1>. QED  BY <1>1, LifeLooks, RolesHold

\* The actor ends its role, if it has one, with the status it writes.
LEMMA LifeLetsGo ==
    ASSUME Typed, Owned, NEW a \in Actors, act[a].pc \notin Loose,
           UNCHANGED request, late \subseteq late', LetsGo(a),
           NEW s \in RunStatus, SetStatus(act[a].run, s),
           act[a].run \notin late' => Passes(act[a], Resting, run[act[a].run], s)
    PROVE  AllLive
<1>1. PICK x : act' = [act EXCEPT ![a] = x] /\ ~Holding(x)
  BY HoldsNothing
<1>2. Role(x) = "none" /\ Role(Resting) = "none"
  BY <1>1, RolesHold DEF Role, Checks, Executes, Resting
<1>3. act[a].run \notin late' => Passes(act[a], x, run[act[a].run], s)
  BY <1>2 DEF Passes
<1>. QED  BY <1>1, <1>2, <1>3, LifeSets

\* It goes on with its run and begins or keeps its role.
LEMMA LifeTakes ==
    ASSUME Typed, Owned, NEW a \in Actors, act[a].pc \notin Loose,
           UNCHANGED request, late \subseteq late', NEW pc \in PC, Goto(a, pc),
           NEW s \in RunStatus, SetStatus(act[a].run, s), TurnOf(s) = "closed",
           \/ Role(act[a]) = "none" /\ pc = "validate" /\ run[act[a].run].status = "staged"
           \/ Role(act[a]) = "none" /\ pc = "read_executing" /\ run[act[a].run].status = "approved"
           \/ Role(act[a]) = "executes" /\ pc = "grant_job"
    PROVE  AllLive
<1>. DEFINE x == [act[a] EXCEPT !.pc = pc]
<1>1. x.pc = pc /\ x.run = act[a].run /\ act' = [act EXCEPT ![a] = x]
  BY DEF Typed, TypeOK, ActorRec, Goto
<1>. HIDE DEF x
<1>2. Role(x) = IF pc = "validate" THEN "checks" ELSE "executes"
  BY <1>1 DEF Role, Checks, Executes
<1>3. act[a].run \notin late' => Passes(act[a], x, run[act[a].run], s)
  <2>1. act[a].run \in Runs
    BY DEF Typed, LocalsOK
  <2>2. Role(act[a]) # "none" /\ act[a].run \notin late =>
            TurnOf(run[act[a].run].status) = "closed"
    BY <2>1, OneHand, RolesHold DEF Holds
  <2>. QED  BY <1>2, <2>2 DEF Passes
<1>. QED  BY <1>1, <1>3, LifeSets


LEMMA NodeLives ==
    ASSUME Typed, Owned, NEW n \in Nodes, NodeStep(n)
    PROVE  AllLive
<1>. USE DEF RunStatus, Settled, PC, Loose, Asking, Moving, LetsGo, Validating, Executing, KeepRows,
             KeepHistory, TurnOf
<1>0. n \in Actors /\ act[n] \in ActorRec
  BY DEF Actors, Typed, TypeOK
<1>1. ASSUME NEW pc \in {"claim_staged", "claim_approved"}, NEW r \in Runs,
             act' = [act EXCEPT ![n].pc = pc, ![n].run = r], UNCHANGED <<run, request, late>>
      PROVE  AllLive
  <2>. DEFINE x == [act[n] EXCEPT !.pc = pc, !.run = r]
  <2>1. x.pc = pc /\ act' = [act EXCEPT ![n] = x]
    BY <1>0, <1>1 DEF ActorRec
  <2>. HIDE DEF x
  <2>2. Role(x) = "none"
    BY <2>1 DEF Role, Checks, Executes
  <2>. QED  BY <1>0, <1>1, <2>1, <2>2, LifeLooks
<1>2. CASE StartTick(n)
  BY <1>0, <1>2, LifeLeft DEF StartTick
<1>3. CASE SelectStaged(n)
  <2>1. CASE Goto(n, "approved")
    BY <1>0, <1>3, <2>1, LifeLeft DEF SelectStaged
  <2>. QED  BY <1>1, <1>3, <2>1 DEF SelectStaged, Queued
<1>4. CASE ClaimStaged(n)
  <2>1. CASE run[act[n].run].status = "staged"
    <3>1. /\ SetStatus(act[n].run, "validation_pending") /\ Goto(n, "validate")
          /\ UNCHANGED <<request, late>> /\ act[n].pc = "claim_staged"
      BY <1>4, <2>1 DEF ClaimStaged
    <3>2. Role(act[n]) = "none" /\ act[n].pc \notin Loose
      BY <3>1 DEF Role, Checks, Executes
    <3>3. "validation_pending" \in RunStatus /\ TurnOf("validation_pending") = "closed"
      OBVIOUS
    <3>. QED  BY <1>0, <2>1, <3>1, <3>2, <3>3, LifeTakes
  <2>2. CASE run[act[n].run].status # "staged"
    BY <1>0, <1>4, <2>2, LifeLeft DEF ClaimStaged
  <2>. QED  BY <2>1, <2>2
<1>5. CASE SelectApproved(n)
  <2>1. CASE act' = [act EXCEPT ![n] = Resting]
    <3>1. Role(Resting) = "none"
      BY DEF Role, Checks, Executes, Resting
    <3>. QED  BY <1>0, <1>5, <2>1, <3>1, LifeLooks DEF SelectApproved
  <2>. QED  BY <1>1, <1>5, <2>1 DEF SelectApproved, Queued
<1>6. CASE ClaimApproved(n)
  <2>1. CASE run[act[n].run].status = "approved"
    <3>1. /\ SetStatus(act[n].run, "executing") /\ Goto(n, "read_executing")
          /\ UNCHANGED <<request, late>> /\ act[n].pc = "claim_approved"
      BY <1>6, <2>1 DEF ClaimApproved
    <3>2. Role(act[n]) = "none" /\ act[n].pc \notin Loose
      BY <3>1 DEF Role, Checks, Executes
    <3>3. "executing" \in RunStatus /\ TurnOf("executing") = "closed"
      OBVIOUS
    <3>. QED  BY <1>0, <2>1, <3>1, <3>2, <3>3, LifeTakes
  <2>2. CASE run[act[n].run].status # "approved"
    BY <1>0, <1>6, <2>2, LifeLeft DEF ClaimApproved
  <2>. QED  BY <2>1, <2>2
<1>7. CASE PutBack(n)
  <2>1. act[n].pc \notin Loose /\ UNCHANGED <<request, late>> /\ (End(n) \/ TurnToApproved(n))
    BY <1>7 DEF PutBack
  <2>2. Role(Resting) = "none"
    BY DEF Role, Checks, Executes, Resting
  <2>3. CASE UNCHANGED run
    BY <1>0, <2>1, <2>3, LifeLeft
  <2>4. CASE act[n].pc = "unclaim" /\ SetStatus(act[n].run, "staged")
    <3>1. Role(act[n]) = "checks"
      BY <2>4 DEF Role, Checks
    <3>2. Passes(act[n], Resting, run[act[n].run], "staged")
      BY <2>2, <3>1 DEF Passes
    <3>. QED  BY <1>0, <2>1, <2>4, <3>2, LifeLetsGo
  <2>5. CASE act[n].pc = "unexecute" /\ SetStatus(act[n].run, "approved")
    <3>1. Role(act[n]) = "executes"
      BY <2>5 DEF Role, Checks, Executes
    <3>2. Passes(act[n], Resting, run[act[n].run], "approved")
      BY <2>2, <3>1 DEF Passes
    <3>. QED  BY <1>0, <2>1, <2>5, <3>2, LifeLetsGo
  <2>. QED  BY <1>7, <2>3, <2>4, <2>5 DEF PutBack
<1>. QED  BY <1>2, <1>3, <1>4, <1>5, <1>6, <1>7 DEF NodeStep

\* The first answer to a request hands the run to the admin, or to nobody.
LEMMA AnswerLives ==
    ASSUME Typed, Owned, NEW h \in Handlers, SaveRequest(h)
    PROVE  AllLive
<1>. DEFINE q == act[h].req
            s == act[h].run
            pc == IF act[h].pc = "grant_request" THEN "grant_run" ELSE "deny_run"
            x == [act[h] EXCEPT !.pc = pc]
<1>1. /\ act \in [Actors -> ActorRec] /\ h \in Actors
      /\ request \in [Requests -> RequestRow \cup {None}]
      /\ q \in Requests /\ request[q] # None /\ act[h].pc \in Asking
  BY DEF SaveRequest, Typed, TypeOK, LocalsOK, Actors, Asking
<1>2. request[q] \in RequestRow /\ request[q].run = s
  BY <1>1 DEF Owned, AnswersHis
<1>3. /\ request'[q].run = s /\ request'[q].status # "pending"
      /\ \A p \in Requests \ {q} : request'[p] = request[p]
  BY <1>1, <1>2 DEF SaveRequest, RequestRow
<1>4. x.pc = pc /\ x.run = s /\ act' = [act EXCEPT ![h] = x]
  BY <1>1 DEF SaveRequest, Goto, ActorRec
<1>5. UNCHANGED run /\ late \subseteq late' /\ (s \notin late' => request[q].status = "pending")
  BY DEF SaveRequest, KeepRows
<1>6. Role(act[h]) = "none"
  BY <1>1 DEF Role, Checks, Executes, Asking
<1>7. Role(x) = IF pc = "grant_run" THEN "executes" ELSE "none"
  BY <1>4 DEF Role, Checks, Executes
<1>. HIDE DEF q, s, pc, x
<1>8. /\ act'[h] = x /\ \A b \in Actors \ {h} : act'[b] = act[b]
  BY <1>1, <1>4
<1>9. ASSUME NEW r \in Runs \ late', r # s
      PROVE  Lives(r)
  <2>1. \A b \in Actors : \A role \in Roles : Plays(b, r, role)' <=> Plays(b, r, role)
    BY <1>4, <1>6, <1>8, <1>9, RolesHold DEF Plays, Roles, Role, Checks, Executes, s
  <2>2. \A p \in Requests : Asks(p, r)' <=> Asks(p, r)
    BY <1>2, <1>3, <1>9 DEF Asks
  <2>. QED  BY <1>5, <2>1, <2>2, LifeRests
<1>10. ASSUME NEW r \in Runs \ late', r = s
       PROVE  Lives(r)
  <2>1. r \in Runs \ late /\ Asks(q, r)
    BY <1>1, <1>2, <1>5, <1>10 DEF Asks
  <2>2. /\ Checkers[r] = {} /\ Executors[r] = {} /\ Askers[r] = {q}
        /\ TurnOf(run[r].status) = "closed"
    BY <1>1, <2>1, OneHand
  <2>3. /\ Turn'[r] = "closed" /\ Gated'[r] = Gated[r]
        /\ Checkers[r] = {b \in Actors : Plays(b, r, "checks")}
        /\ Checkers'[r] = {b \in Actors : Plays(b, r, "checks")'}
        /\ Executors[r] = {b \in Actors : Plays(b, r, "executes")}
        /\ Executors'[r] = {b \in Actors : Plays(b, r, "executes")'}
        /\ Askers[r] = {p \in Requests : Asks(p, r)}
        /\ Askers'[r] = {p \in Requests : Asks(p, r)'}
    BY <1>5, <2>1, <2>2, MappingIs
  <2>4. \A b \in Actors : \A role \in Roles :
            Plays(b, r, role)' <=> b = h /\ Role(x) = role
    <3>1. \A b \in Actors : \A role \in Roles : ~Plays(b, r, role)
      BY <2>2, <2>3 DEF Roles
    <3>. QED  BY <1>4, <1>8, <1>10, <3>1 DEF Plays, Role, Checks, Executes
  <2>5. \A p \in Requests : ~Asks(p, r)'
    <3>1. \A p \in Requests \ {q} : ~Asks(p, r)
      BY <2>2, <2>3
    <3>. QED  BY <1>3, <3>1 DEF Asks
  <2>6. Askers'[r] = {} /\ Checkers'[r] = {}
    BY <1>7, <2>3, <2>4, <2>5 DEF Roles
  <2>7. CASE Role(x) = "executes"
    <3>1. Executors'[r] = {h}
      BY <1>1, <2>3, <2>4, <2>7 DEF Roles
    <3>2. Lifecycle!Resume(r, h)
      BY <2>2, <2>3, <2>6, <3>1
      DEF Lifecycle!Resume, Lifecycle!Becomes, Lifecycle!GoesTo
    <3>. QED  BY <1>1, <3>2 DEF Lives, Lifecycle!Next
  <2>8. CASE Role(x) = "none"
    <3>1. Executors'[r] = {}
      BY <2>3, <2>4, <2>8 DEF Roles
    <3>2. Lifecycle!Refuse(r)
      BY <2>2, <2>3, <2>6, <3>1
      DEF Lifecycle!Refuse, Lifecycle!Becomes, Lifecycle!GoesTo
    <3>. QED  BY <3>2 DEF Lives, Lifecycle!Next
  <2>. QED  BY <1>7, <2>7, <2>8
<1>. QED  BY <1>9, <1>10 DEF AllLive

LEMMA HandlerLives ==
    ASSUME Typed, Owned, Bygone, NEW h \in Handlers, HandlerStep(h)
    PROVE  AllLive
<1>. USE DEF RunStatus, Settled, PC, Loose, Asking, Moving, LetsGo, Creating, Validating,
             Executing, Inline, Approving, Granting, Denying, KeepRows, KeepHistory, TurnOf
<1>0. h \in Actors /\ act[h] \in ActorRec
  BY DEF Actors, Typed, TypeOK
<1>1. Role(Resting) = "none"
  BY DEF Role, Checks, Executes, Resting
<1>2. CASE resolveAndBindForRun(h)
  <2>. DEFINE pc == IF act[h].pc = "create_bind" THEN "create_save" ELSE "approve_resave"
              x == [act[h] EXCEPT !.pc = pc]
  <2>1. x.pc = pc /\ act' = [act EXCEPT ![h] = x] /\ UNCHANGED <<request, late>>
    BY <1>0, <1>2 DEF resolveAndBindForRun, Goto, ActorRec
  <2>2. act[h].run \in Runs /\ run \in [Runs -> RunRow]
    BY <1>0, <1>2 DEF resolveAndBindForRun, Typed, TypeOK, LocalsOK
  <2>3. \A r \in Runs : run'[r].status = run[r].status /\ run'[r].gated = run[r].gated
    BY <1>2, <2>2 DEF resolveAndBindForRun, RunRow
  <2>4. Role(act[h]) = "none" /\ Role(x) = "none"
    BY <1>2, <2>1 DEF resolveAndBindForRun, Role, Checks, Executes
  <2>. HIDE DEF pc, x
  <2>. QED  BY <1>0, <2>1, <2>3, <2>4, LifeOfOthers DEF AllLive
<1>3. CASE CreateResave(h)
  <2>1. /\ act[h].run \in Runs /\ late \subseteq Runs
        /\ act[h].pc = "create_save" /\ act[h].pc \notin Loose
    BY <1>0, <1>3 DEF CreateResave, Typed, TypeOK, LocalsOK
  <2>2. /\ late \subseteq late' /\ (run[act[h].run].status = "staged" \/ act[h].run \in late')
        /\ SetStatus(act[h].run, "staged") /\ LetsGo(h) /\ UNCHANGED request
    BY <1>3, <2>1 DEF CreateResave, SavedLate
  <2>3. Role(act[h]) = "none"
    BY <2>1 DEF Role, Checks, Executes
  <2>4. act[h].run \notin late' => Passes(act[h], Resting, run[act[h].run], "staged")
    BY <1>1, <2>2, <2>3 DEF Passes
  <2>5. "staged" \in RunStatus
    OBVIOUS
  <2>. QED  BY <1>0, <2>1, <2>2, <2>4, <2>5, LifeLetsGo
<1>4. CASE InlineClaim(h)
  <2>1. CASE run[act[h].run].status = "staged"
    <3>1. /\ SetStatus(act[h].run, "validation_pending") /\ Goto(h, "validate")
          /\ UNCHANGED <<request, late>> /\ act[h].pc = "inline_claim"
      BY <1>4, <2>1 DEF InlineClaim
    <3>2. Role(act[h]) = "none" /\ act[h].pc \notin Loose
      BY <3>1 DEF Role, Checks, Executes
    <3>3. "validation_pending" \in RunStatus /\ TurnOf("validation_pending") = "closed"
      OBVIOUS
    <3>. QED  BY <1>0, <2>1, <3>1, <3>2, <3>3, LifeTakes
  <2>2. CASE run[act[h].run].status # "staged"
    BY <1>0, <1>4, <2>2, LifeLeft DEF InlineClaim
  <2>. QED  BY <2>1, <2>2
<1>5. CASE InlineCheck(h)
  BY <1>0, <1>5, LifeLeft DEF InlineCheck
<1>6. CASE InlineExecute(h)
  <2>1. CASE run[act[h].run].status = "approved"
    <3>1. /\ SetStatus(act[h].run, "executing") /\ Goto(h, "read_executing")
          /\ UNCHANGED <<request, late>> /\ act[h].pc = "inline_execute"
      BY <1>6, <2>1 DEF InlineExecute
    <3>2. Role(act[h]) = "none" /\ act[h].pc \notin Loose
      BY <3>1 DEF Role, Checks, Executes
    <3>3. "executing" \in RunStatus /\ TurnOf("executing") = "closed"
      OBVIOUS
    <3>. QED  BY <1>0, <2>1, <3>1, <3>2, <3>3, LifeTakes
  <2>2. CASE run[act[h].run].status # "approved"
    BY <1>0, <1>6, <2>2, LifeLeft DEF InlineExecute
  <2>. QED  BY <2>1, <2>2
<1>7. CASE SaveApproval(h)
  <2>1. /\ act[h].run \in Runs /\ late \subseteq Runs
        /\ act[h].pc \in {"approve_save", "approve_resave"} /\ act[h].pc \notin Loose
    BY <1>0, <1>7 DEF SaveApproval, Typed, TypeOK, LocalsOK
  <2>2. /\ late \subseteq late'
        /\ \/ run[act[h].run].status \in {"approval_pending", "approved"}
           \/ act[h].run \in late'
        /\ SetStatus(act[h].run, "approved") /\ LetsGo(h) /\ UNCHANGED request
    BY <1>7, <2>1 DEF SaveApproval, SavedLate
  <2>3. Role(act[h]) = "none"
    BY <2>1 DEF Role, Checks, Executes
  <2>4. act[h].run \notin late' => Passes(act[h], Resting, run[act[h].run], "approved")
    BY <1>1, <2>2, <2>3 DEF Passes
  <2>5. "approved" \in RunStatus
    OBVIOUS
  <2>. QED  BY <1>0, <2>1, <2>2, <2>4, <2>5, LifeLetsGo
<1>8. CASE ApprovedJob(h)
  BY <1>0, <1>8, LifeLeft DEF ApprovedJob
<1>9. CASE SaveRequest(h)
  BY <1>9, AnswerLives
<1>10. CASE Resume(h)
  <2>1. /\ SetStatus(act[h].run, "executing") /\ Goto(h, "grant_job")
        /\ UNCHANGED <<request, late>> /\ act[h].pc = "grant_run"
    BY <1>10 DEF Resume
  <2>2. Role(act[h]) = "executes" /\ act[h].pc \notin Loose
    BY <2>1 DEF Role, Checks, Executes
  <2>3. "executing" \in RunStatus /\ TurnOf("executing") = "closed" /\ "grant_job" \in PC
    OBVIOUS
  <2>. QED  BY <1>0, <2>1, <2>2, <2>3, LifeTakes
<1>11. CASE ResumedJob(h)
  <2>. DEFINE x == [act[h] EXCEPT !.pc = "read_executing"]
  <2>1. /\ x.pc = "read_executing" /\ x.run = act[h].run /\ act' = [act EXCEPT ![h] = x]
        /\ UNCHANGED <<run, request, late>> /\ act[h].pc = "grant_job"
    BY <1>0, <1>11 DEF ResumedJob, Goto, ActorRec
  <2>. HIDE DEF x
  <2>2. Role(x) = "executes" /\ Role(act[h]) = "executes"
    BY <2>1 DEF Role, Checks, Executes
  <2>. QED  BY <1>0, <2>1, <2>2, LifeLooks
<1>12. CASE Block(h)
  <2>1. /\ SetStatus(act[h].run, "blocked") /\ LetsGo(h) /\ UNCHANGED <<request, late>>
        /\ act[h].pc = "deny_run" /\ act[h].pc \notin Loose
    BY <1>12 DEF Block
  <2>2. Role(act[h]) = "none"
    BY <2>1 DEF Role, Checks, Executes
  <2>3. act[h].run \notin late' => Passes(act[h], Resting, run[act[h].run], "blocked")
    BY <1>0, <1>1, <2>1, LatePasses DEF Spent, Typed, LocalsOK
  <2>. QED  BY <1>0, <2>1, <2>3, LifeLetsGo
<1>13. CASE BlockedJob(h)
  BY <1>0, <1>13, LifeLeft DEF BlockedJob
<1>. QED
  BY <1>2, <1>3, <1>4, <1>5, <1>6, <1>7, <1>8, <1>9, <1>10, <1>11, <1>12, <1>13
  DEF HandlerStep


\* A step that needs approval: the run passes from its actor to a new request.
LEMMA QuestionLives ==
    ASSUME Typed, Owned, NEW a \in Actors, act[a].pc = "step", act[a].run \in Runs,
           NEW q \in Requests, request[q] = None,
           request' = [request EXCEPT ![q] = [run |-> act[a].run, status |-> "pending"]],
           UNCHANGED <<run, late>>, Leave(a, "pause")
    PROVE  AllLive
<1>. DEFINE s == act[a].run
            x == [act[a] EXCEPT !.pc = "pause", !.step = 0]
<1>1. act \in [Actors -> ActorRec] /\ request \in [Requests -> RequestRow \cup {None}]
  BY DEF Typed, TypeOK
<1>2. x.pc = "pause" /\ act' = [act EXCEPT ![a] = x]
  BY <1>1 DEF ActorRec, Leave
<1>. HIDE DEF x
<1>3. act'[a] = x /\ \A b \in Actors \ {a} : act'[b] = act[b]
  BY <1>1, <1>2
<1>4. /\ request'[q] = [run |-> s, status |-> "pending"]
      /\ \A p \in Requests \ {q} : request'[p] = request[p]
  BY <1>1
<1>5. request'[q] # None
  <2>1. request'[q] \in RequestRow
    BY <1>4 DEF RequestRow, RequestStatus
  <2>. QED  BY <2>1, NullAssumption
<1>6. Role(x) = "none" /\ Role(act[a]) = "executes"
  BY <1>2 DEF Role, Checks, Executes
<1>. HIDE DEF s
<1>7. ASSUME NEW r \in Runs \ late', r # s
      PROVE  Lives(r)
  <2>1. \A b \in Actors : \A role \in Roles : Plays(b, r, role)' <=> Plays(b, r, role)
    BY <1>3, <1>6, <1>7, RolesHold DEF Plays, Roles, Role, Checks, Executes, s
  <2>2. \A p \in Requests : Asks(p, r)' <=> Asks(p, r)
    BY <1>4, <1>7 DEF Asks
  <2>. QED  BY <2>1, <2>2, LifeRests
<1>8. ASSUME NEW r \in Runs \ late', r = s
      PROVE  Lives(r)
  <2>1. Holds(a, r)
    BY <1>6, <1>8, RolesHold DEF Holds, s
  <2>2. /\ Checkers[r] = {} /\ Executors[r] = {a} /\ Askers[r] = {}
        /\ TurnOf(run[r].status) = "closed"
    BY <1>6, <2>1, OneHand
  <2>3. /\ Turn'[r] = "closed" /\ Gated'[r] = Gated[r]
        /\ Checkers[r] = {b \in Actors : Plays(b, r, "checks")}
        /\ Checkers'[r] = {b \in Actors : Plays(b, r, "checks")'}
        /\ Executors[r] = {b \in Actors : Plays(b, r, "executes")}
        /\ Executors'[r] = {b \in Actors : Plays(b, r, "executes")'}
        /\ Askers[r] = {p \in Requests : Asks(p, r)}
        /\ Askers'[r] = {p \in Requests : Asks(p, r)'}
    BY <2>2, MappingIs
  <2>4. \A b \in Actors : \A role \in Roles : ~Plays(b, r, role)'
    <3>1. \A b \in Actors \ {a} : \A role \in Roles : ~Plays(b, r, role)
      BY <2>2, <2>3 DEF Roles
    <3>. QED  BY <1>3, <1>6, <3>1, RolesHold DEF Plays, Roles, Role, Checks, Executes
  <2>5. \A p \in Requests : Asks(p, r)' <=> p = q
    <3>1. \A p \in Requests : ~Asks(p, r)
      BY <2>2, <2>3
    <3>. QED  BY <1>4, <1>5, <1>8, <3>1 DEF Asks
  <2>6. Askers'[r] = {q} /\ Checkers'[r] = {} /\ Executors'[r] = {}
    BY <2>3, <2>4, <2>5 DEF Roles
  <2>7. Lifecycle!Ask(r, q)
    BY <2>2, <2>3, <2>6 DEF Lifecycle!Ask, Lifecycle!Becomes, Lifecycle!GoesTo
  <2>. QED  BY <2>7 DEF Lives, Lifecycle!Next
<1>. QED  BY <1>7, <1>8 DEF AllLive

LEMMA RunLives ==
    ASSUME Typed, Owned, Bygone, NEW a \in Actors, RunStep(a)
    PROVE  AllLive
<1>. USE DEF RunStatus, Settled, PC, Loose, Asking, Moving, LetsGo, Validating, Executing,
             Trying, Inline, KeepRows, KeepHistory, TurnOf
<1>0. act[a] \in ActorRec /\ run \in [Runs -> RunRow] /\ (act[a].pc \notin Loose => act[a].run \in Runs)
  BY DEF Typed, TypeOK, LocalsOK
<1>1. Role(Resting) = "none"
  BY DEF Role, Checks, Executes, Resting
<1>2. CASE ReadPending(a)
  <2>1. UNCHANGED <<run, request, late>> /\ act[a].pc = "validate"
    BY <1>2 DEF ReadPending
  <2>2. Role(act[a]) = "checks"
    BY <2>1 DEF Role, Checks
  <2>3. ASSUME NEW pc \in {"validate_save", "unclaim"}, Goto(a, pc)
        PROVE  AllLive
    <3>. DEFINE x == [act[a] EXCEPT !.pc = pc]
    <3>1. /\ x.pc = pc /\ x.run = act[a].run /\ x.broken = act[a].broken
          /\ act' = [act EXCEPT ![a] = x]
      BY <1>0, <2>3 DEF Goto, ActorRec
    <3>. HIDE DEF x
    <3>2. Role(x) \in {"none", "checks"}
      BY <3>1 DEF Role, Checks, Executes
    <3>. QED  BY <2>1, <2>2, <3>1, <3>2, LifeLooks
  <2>4. CASE AfterValidation(a) \/ End(a)
    BY <2>1, <2>4, LifeLeft DEF AfterValidation
  <2>. QED  BY <1>2, <2>3, <2>4 DEF ReadPending
<1>3. CASE SaveValidation(a)
  <2>1. act[a].pc = "validate_save" /\ act[a].pc \notin Loose /\ UNCHANGED <<request, late>>
    BY <1>3 DEF SaveValidation
  <2>2. Role(act[a]) = IF act[a].broken THEN "none" ELSE "checks"
    BY <2>1 DEF Role, Checks, Executes
  <2>3. CASE act' = [act EXCEPT ![a].pc = "validate_job", ![a].broken = TRUE]
             /\ SetStatus(act[a].run, "validation_failed")
    <3>. DEFINE x == [act[a] EXCEPT !.pc = "validate_job", !.broken = TRUE]
    <3>1. x.pc = "validate_job" /\ act' = [act EXCEPT ![a] = x]
      BY <1>0, <2>3 DEF ActorRec
    <3>. HIDE DEF x
    <3>2. Role(x) = "none"
      BY <3>1 DEF Role, Checks, Executes
    <3>3. act[a].run \notin late' => Passes(act[a], x, run[act[a].run], "validation_failed")
      <4>1. CASE act[a].broken
        BY <1>0, <2>1, <3>2, <4>1, LatePasses DEF Rechecks
      <4>2. CASE ~act[a].broken
        BY <2>2, <3>2, <4>2 DEF Passes
      <4>. QED  BY <4>1, <4>2
    <3>. QED  BY <2>1, <2>3, <3>1, <3>2, <3>3, LifeSets
  <2>4. ASSUME NEW s \in {"approval_pending", "approved"}, SetStatus(act[a].run, s),
               s = IF run[act[a].run].gated THEN "approval_pending" ELSE "approved",
               ~act[a].broken, NEW pc \in {"validate_job", "validate_audit"}, Goto(a, pc)
        PROVE  AllLive
    <3>1. LetsGo(a)
      BY <2>4
    <3>2. Passes(act[a], Resting, run[act[a].run], s)
      BY <1>1, <2>2, <2>4 DEF Passes
    <3>. QED  BY <2>1, <2>4, <3>1, <3>2, LifeLetsGo
  <2>. QED  BY <1>3, <2>3, <2>4 DEF SaveValidation
<1>4. CASE ReportValidation(a)
  <2>1. CASE TurnToApproved(a) \/ Goto(a, "validate_audit")
    BY <1>4, <2>1, LifeLeft DEF ReportValidation
  <2>2. CASE act' = [act EXCEPT ![a].pc = "inline_check", ![a].broken = FALSE]
    <3>. DEFINE x == [act[a] EXCEPT !.pc = "inline_check", !.broken = FALSE]
    <3>1. x.pc = "inline_check" /\ act' = [act EXCEPT ![a] = x]
      BY <1>0, <2>2 DEF ActorRec
    <3>. HIDE DEF x
    <3>2. Role(x) = "none"
      BY <3>1 DEF Role, Checks, Executes
    <3>. QED  BY <1>4, <3>1, <3>2, LifeLooks DEF ReportValidation
  <2>. QED  BY <1>4, <2>1, <2>2 DEF ReportValidation
<1>5. CASE ReadExecuting(a)
  <2>1. UNCHANGED <<run, request, late>> /\ act[a].pc = "read_executing"
    BY <1>5 DEF ReadExecuting
  <2>2. Role(act[a]) = "executes"
    BY <2>1 DEF Role, Checks, Executes
  <2>3. CASE act' = [act EXCEPT ![a].pc = "step", ![a].step = 1, ![a].broken = FALSE]
    <3>. DEFINE x == [act[a] EXCEPT !.pc = "step", !.step = 1, !.broken = FALSE]
    <3>1. x.pc = "step" /\ x.run = act[a].run /\ act' = [act EXCEPT ![a] = x]
      BY <1>0, <2>3 DEF ActorRec
    <3>. HIDE DEF x
    <3>2. Role(x) = "executes"
      BY <3>1 DEF Role, Checks, Executes
    <3>. QED  BY <2>1, <2>2, <3>1, <3>2, LifeLooks
  <2>4. CASE Goto(a, "unexecute")
    <3>. DEFINE x == [act[a] EXCEPT !.pc = "unexecute"]
    <3>1. x.pc = "unexecute" /\ x.run = act[a].run /\ act' = [act EXCEPT ![a] = x]
      BY <1>0, <2>4 DEF ActorRec, Goto
    <3>. HIDE DEF x
    <3>2. Role(x) = "executes"
      BY <3>1 DEF Role, Checks, Executes
    <3>. QED  BY <2>1, <2>2, <3>1, <3>2, LifeLooks
  <2>5. CASE End(a)
    BY <2>1, <2>5, LifeLeft
  <2>. QED  BY <1>5, <2>3, <2>4, <2>5 DEF ReadExecuting
<1>6. CASE RunTypedAction(a)
  <2>1. UNCHANGED <<run, late>> /\ act[a].pc = "step" /\ act[a].run \in Runs
    BY <1>0, <1>6 DEF RunTypedAction
  <2>2. ASSUME NEW pc \in {"reread", "fail"}, Leave(a, pc), UNCHANGED request
        PROVE  AllLive
    BY <2>1, <2>2, LifeLeft
  <2>3. CASE act' = [act EXCEPT ![a].step = act[a].step + 1] /\ UNCHANGED request
    <3>. DEFINE x == [act[a] EXCEPT !.step = act[a].step + 1]
    <3>1. x.pc = "step" /\ x.run = act[a].run /\ act' = [act EXCEPT ![a] = x]
      BY <1>0, <2>1, <2>3 DEF ActorRec
    <3>. HIDE DEF x
    <3>2. Role(x) = "executes" /\ Role(act[a]) = "executes"
      BY <2>1, <3>1 DEF Role, Checks, Executes
    <3>. QED  BY <2>1, <2>3, <3>1, <3>2, LifeLooks
  <2>. QED  BY <1>6, <2>1, <2>2, <2>3, QuestionLives DEF RunTypedAction
<1>7. CASE ExtractFile(a)
  BY <1>7, LifeLeft DEF ExtractFile
<1>8. CASE Pause(a)
  <2>1. /\ SetStatus(act[a].run, "paused_approval_required") /\ LetsGo(a)
        /\ UNCHANGED <<request, late>> /\ act[a].pc = "pause" /\ act[a].pc \notin Loose
    BY <1>8 DEF Pause
  <2>2. Role(act[a]) = "none"
    BY <2>1 DEF Role, Checks, Executes
  <2>3. act[a].run \notin late' => Passes(act[a], Resting, run[act[a].run], "paused_approval_required")
    BY <1>0, <1>1, <2>1, LatePasses DEF Spent
  <2>. QED  BY <2>1, <2>3, LifeLetsGo
<1>9. CASE Reread(a)
  BY <1>9, LifeLeft DEF Reread
<1>10. CASE Complete(a)
  <2>1. /\ SetStatus(act[a].run, "completed") /\ LetsGo(a)
        /\ UNCHANGED <<request, late>> /\ act[a].pc = "complete" /\ act[a].pc \notin Loose
    BY <1>10 DEF Complete
  <2>2. Role(act[a]) = "none"
    BY <2>1 DEF Role, Checks, Executes
  <2>3. act[a].run \notin late' => Passes(act[a], Resting, run[act[a].run], "completed")
    BY <1>0, <1>1, <2>1, LatePasses DEF Spent
  <2>. QED  BY <2>1, <2>3, LifeLetsGo
<1>11. CASE IndexFile(a)
  BY <1>11, LifeLeft DEF IndexFile
<1>12. CASE CompleteJob(a)
  BY <1>12, LifeLeft DEF CompleteJob
<1>13. CASE Fail(a)
  <2>1. /\ SetStatus(act[a].run, "failed") /\ LetsGo(a)
        /\ UNCHANGED <<request, late>> /\ act[a].pc = "fail" /\ act[a].pc \notin Loose
    BY <1>13 DEF Fail
  <2>2. Role(act[a]) = "none"
    BY <2>1 DEF Role, Checks, Executes
  <2>3. act[a].run \notin late' => Passes(act[a], Resting, run[act[a].run], "failed")
    BY <1>0, <1>1, <2>1, LatePasses DEF Spent
  <2>. QED  BY <2>1, <2>3, LifeLetsGo
<1>14. CASE FailJob(a)
  BY <1>14, LifeLeft DEF FailJob
<1>15. CASE WriteAudit(a)
  BY <1>15, LifeLeft DEF WriteAudit, AfterValidation
<1>. QED
  BY <1>2, <1>3, <1>4, <1>5, <1>6, <1>7, <1>8, <1>9, <1>10, <1>11, <1>12, <1>13, <1>14,
     <1>15
  DEF RunStep

LEMMA RequestLives ==
    ASSUME Typed, Owned, NEW h \in Handlers, Request(h)
    PROVE  AllLive
<1>. USE DEF Asking, KeepRows, KeepHistory
<1>0. /\ h \in Actors /\ act[h] \in ActorRec /\ act \in [Actors -> ActorRec]
      /\ run \in [Runs -> RunRow]
  BY DEF Typed, TypeOK, Actors
<1>1. ASSUME NEW r \in Runs, Create(h, r)
      PROVE  AllLive
  <2>. DEFINE x == [act[h] EXCEPT !.pc = "create_bind", !.run = r]
  <2>1. /\ x.pc = "create_bind" /\ act' = [act EXCEPT ![h] = x] /\ UNCHANGED <<request, late>>
        /\ act[h].pc = "idle"
    BY <1>0, <1>1 DEF ActorRec, Create
  <2>. HIDE DEF x
  <2>2. Role(x) = "none" /\ Role(act[h]) = "none"
    BY <2>1 DEF Role, Checks, Executes
  <2>3. /\ run[r].status = "absent" /\ run'[r].status = "staged"
        /\ \A t \in Runs \ {r} : run'[t] = run[t]
    BY <1>0, <1>1 DEF Create
  <2>4. \A t \in Runs \ {r} : Lives(t)
    BY <1>0, <2>1, <2>2, <2>3, LifeOfOthers
  <2>5. Lives(r)
    <3>1. act'[h] = x /\ \A b \in Actors \ {h} : act'[b] = act[b]
      BY <1>0, <2>1
    <3>2. \A b \in Actors : \A role \in Roles : Plays(b, r, role)' <=> Plays(b, r, role)
      BY <2>2, <3>1 DEF Plays, Roles, Role, Checks, Executes
    <3>3. \A q \in Requests : Asks(q, r)' <=> Asks(q, r)
      BY <2>1 DEF Asks
    <3>4. Turn[r] = "create" /\ Turn'[r] = "check"
      BY <2>3, MappingIs DEF TurnOf
    <3>5. Checkers'[r] = Checkers[r] /\ Executors'[r] = Executors[r] /\ Askers'[r] = Askers[r]
      BY <3>2, <3>3, MappingIs DEF Roles
    <3>. QED  BY <3>4, <3>5 DEF Lives, Lifecycle!Next, Lifecycle!Create, Lifecycle!Hands
  <2>. QED  BY <2>4, <2>5 DEF AllLive
<1>2. ASSUME NEW r \in Runs, approveSandboxRun(h, r)
      PROVE  AllLive
  <2>. DEFINE x == [act[h] EXCEPT !.pc = "approve_save", !.run = r]
  <2>1. /\ x.pc = "approve_save" /\ act' = [act EXCEPT ![h] = x]
        /\ UNCHANGED <<run, request, late>>
    BY <1>0, <1>2 DEF ActorRec, approveSandboxRun
  <2>. HIDE DEF x
  <2>2. Role(x) = "none"
    BY <2>1 DEF Role, Checks, Executes
  <2>. QED  BY <1>0, <2>1, <2>2, LifeLooks
<1>3. ASSUME NEW q \in Requests, NEW pc \in Asking, UNCHANGED <<run, request, late>>,
             act' = [act EXCEPT ![h].pc = pc, ![h].run = request[q].run, ![h].req = q]
      PROVE  AllLive
  <2>. DEFINE x == [act[h] EXCEPT !.pc = pc, !.run = request[q].run, !.req = q]
  <2>1. x.pc = pc /\ act' = [act EXCEPT ![h] = x]
    BY <1>0, <1>3 DEF ActorRec
  <2>. HIDE DEF x
  <2>2. Role(x) = "none"
    BY <2>1 DEF Role, Checks, Executes
  <2>. QED  BY <1>0, <1>3, <2>1, <2>2, LifeLooks
<1>. QED  BY <1>1, <1>2, <1>3 DEF Request, approveRequest, rejectRequest

\* Nobody answered a request in time: the run is in nobody's hands any more.
LEMMA ExpiryLives ==
    ASSUME Typed, Owned, NEW q \in Requests, ExpireRequest(q)
    PROVE  AllLive
<1>. DEFINE s == request[q].run
<1>1. /\ UNCHANGED <<run, act, late>> /\ request[q] # None /\ request[q].status = "pending"
      /\ request \in [Requests -> RequestRow \cup {None}]
  BY DEF ExpireRequest, KeepRows, KeepHistory, Typed, TypeOK
<1>2. /\ request'[q].run = s /\ request'[q].status = "expired"
      /\ \A p \in Requests \ {q} : request'[p] = request[p]
  BY <1>1 DEF ExpireRequest, RequestRow
<1>. HIDE DEF s
<1>3. \A b \in Actors, r \in Runs : \A role \in Roles : Plays(b, r, role)' <=> Plays(b, r, role)
  BY <1>1 DEF Plays, Role, Checks, Executes
<1>4. ASSUME NEW r \in Runs \ late', r # s
      PROVE  Lives(r)
  <2>1. \A p \in Requests : Asks(p, r)' <=> Asks(p, r)
    BY <1>2, <1>4 DEF Asks, s
  <2>. QED  BY <1>1, <1>3, <2>1, LifeRests
<1>5. ASSUME NEW r \in Runs \ late', r = s
      PROVE  Lives(r)
  <2>1. r \in Runs \ late /\ Asks(q, r)
    BY <1>1, <1>5 DEF Asks, s
  <2>2. /\ Checkers[r] = {} /\ Executors[r] = {} /\ Askers[r] = {q}
        /\ TurnOf(run[r].status) = "closed"
    BY <2>1, OneHand
  <2>3. /\ Turn'[r] = "closed" /\ Gated'[r] = Gated[r]
        /\ Checkers'[r] = Checkers[r] /\ Executors'[r] = Executors[r]
        /\ Askers[r] = {p \in Requests : Asks(p, r)}
        /\ Askers'[r] = {p \in Requests : Asks(p, r)'}
    BY <1>1, <1>3, <2>1, <2>2, MappingIs DEF Roles
  <2>4. \A p \in Requests : ~Asks(p, r)'
    <3>1. \A p \in Requests \ {q} : ~Asks(p, r)
      BY <2>2, <2>3
    <3>. QED  BY <1>2, <3>1 DEF Asks
  <2>5. Lifecycle!Refuse(r)
    BY <2>2, <2>3, <2>4 DEF Lifecycle!Refuse, Lifecycle!Becomes, Lifecycle!GoesTo
  <2>. QED  BY <2>5 DEF Lives, Lifecycle!Next
<1>. QED  BY <1>4, <1>5 DEF AllLive

\* Every step is one of the lifecycle, for every run of which nothing was saved
\* over a status its writer had not read.
LEMMA StepLives == Typed /\ Owned /\ Bygone /\ [Next]_vars => AllLive
<1>. SUFFICES ASSUME Typed, Owned, Bygone, [Next]_vars
              PROVE  AllLive
  OBVIOUS
<1>1. CASE UNCHANGED <<run, request, act, late>>
  <2>1. \A b \in Actors, r \in Runs : \A role \in Roles : Plays(b, r, role)' <=> Plays(b, r, role)
    BY <1>1 DEF Plays, Role, Checks, Executes
  <2>2. \A q \in Requests, r \in Runs : Asks(q, r)' <=> Asks(q, r)
    BY <1>1 DEF Asks
  <2>. QED  BY <1>1, <2>1, <2>2, LifeRests DEF AllLive
<1>2. ASSUME NEW a \in Actors, Throw(a)
      PROVE  AllLive
  <2>1. UNCHANGED <<run, request, late>> /\ Leave(a, "fail")
    BY <1>2 DEF Throw, KeepRows, KeepHistory
  <2>. QED  BY <2>1, LifeLeft DEF LetsGo, PC, Executing, Asking, Moving
<1>3. ASSUME NEW a \in Actors, ThrowInvalid(a)
      PROVE  AllLive
  <2>. DEFINE x == [act[a] EXCEPT !.pc = "validate_save", !.broken = TRUE]
  <2>1. x.pc = "validate_save" /\ x.broken /\ act' = [act EXCEPT ![a] = x]
    BY <1>3 DEF ThrowInvalid, Typed, TypeOK, ActorRec
  <2>. HIDE DEF x
  <2>2. Role(x) = "none"
    BY <2>1 DEF Role, Checks, Executes
  <2>. QED  BY <1>3, <2>1, <2>2, LifeLooks DEF ThrowInvalid, KeepRows, KeepHistory
<1>4. ASSUME NEW a \in Actors, Crash(a)
      PROVE  AllLive
  <2>1. Role(Resting) = "none"
    BY DEF Role, Checks, Executes, Resting
  <2>. QED  BY <1>4, <2>1, LifeLooks DEF Crash, KeepRows, KeepHistory
<1>. QED
  BY <1>1, <1>2, <1>3, <1>4, NodeLives, HandlerLives, RunLives, RequestLives, ExpiryLives
  DEF Next, vars, Switch, KeepRows, KeepHistory

LEMMA LifeBegins == Init => Lifecycle!Init
<1>. SUFFICES ASSUME Init PROVE Lifecycle!Init
  OBVIOUS
<1>1. \A b \in Actors : Role(act[b]) = "none"
  BY DEF Init, Resting, Role, Checks, Executes
<1>2. \A q \in Requests : request[q] = None
  BY DEF Init
<1>3. \A r \in Runs : run[r].status = "absent"
  BY DEF Init
<1>4. \A r \in Runs : /\ Turn[r] = "create" /\ Checkers[r] = {} /\ Executors[r] = {}
                      /\ Askers[r] = {}
  BY <1>1, <1>2, <1>3, MappingIs DEF TurnOf, Plays, Asks
<1>5. /\ Turn = [r \in Runs |-> Turn[r]] /\ Checkers = [r \in Runs |-> Checkers[r]]
      /\ Executors = [r \in Runs |-> Executors[r]] /\ Askers = [r \in Runs |-> Askers[r]]
  BY DEF Turn, Checkers, Executors, Askers
<1>. QED  BY <1>4, <1>5 DEF Lifecycle!Init

\* The services keep the lifecycle of a run, for any number of runs, replicas,
\* requests and admins, crashes and failing statements: one of them at a time
\* validates or executes it or waits for an admin's answer, it is approved if it
\* has to be, and what is closed is not executed again, until something is saved
\* over a status its writer had not read.
THEOREM ImplementsRuns == Spec => ImplementsRunLifecycle
<1>1. Typed /\ Owned /\ Bygone /\ [Next]_vars =>
        [\A r \in (Runs \ late)' : Lifecycle!Next(r) \/ Lifecycle!Unmoved(r)]_<<
            Turn, Gated, Checkers, Executors, Askers>>
  BY StepLives DEF AllLive, Lives
<1>2. Init => Typed /\ Owned /\ Bygone /\ Lifecycle!Init
  BY InitTyped, InitOwned, InitBygone, LifeBegins
<1>3. Typed /\ Owned /\ Bygone /\ [Next]_vars => Typed' /\ Owned' /\ Bygone'
  BY StepTyped, StepOwned, StepBygone
<1>. QED  BY <1>1, <1>2, <1>3, PTL DEF Spec, ImplementsRunLifecycle, Lifecycle!Spec

-----------------------------------------------------------------------------
\* Work in hand.  While nothing fails, a run that is shown as being validated or
\* executed has an actor that still has to write what comes of it: the claim of a
\* run and every exit of executeSandboxRunAfterClaim see to it, also beside an actor
\* that saves the row over a status it has not read.  The kill switch is the
\* exception, for what a request has in hand: unlike the job runner it does not put
\* back the inline run, or the run resumed by an admin, that it stops.
Claimed == {"validation_pending", "executing"}
Doing(s) ==
    IF s = "executing"
    THEN {"grant_job", "read_executing", "unexecute", "step", "pause", "reread",
          "complete", "fail"}
    ELSE {"validate", "validate_save", "unclaim"}
ByRequest(r) ==
    \/ run[r].kind = "inline"
    \/ \E q \in Requests : request[q] # None /\ request[q].run = r
WorkHasActor ==
    failures = 0 =>
        \A r \in Runs :
            run[r].status \in Claimed =>
                \/ \E a \in Actors : act[a].run = r /\ act[a].pc \in Doing(run[r].status)
                \/ switches > 0 /\ ByRequest(r)

\* What it rests on: a request executes what it made inline or has resumed, and the
\* system is off only after the kill switch was thrown.
CarriersOK ==
    \A h \in Handlers : act[h].pc = "read_executing" => ByRequest(act[h].run)
Worked == WorkHasActor /\ CarriersOK /\ (switches = 0 => systemOn)

Fits(x, r, s) == x.run = r /\ x.pc \in Doing(s)
RequestsHold ==
    \A q \in Requests :
        request[q] # None => request'[q] # None /\ request'[q].run = request[q].run

\* A run in progress is taken by the actor that moves, or left to whoever has it.
LEMMA WorkMoves ==
    ASSUME Typed, Worked, NEW a \in Actors, NEW x, act' = [act EXCEPT ![a] = x],
           UNCHANGED <<systemOn, switches>>, RequestsHold,
           \A r \in Runs : run[r].status # "absent" => run'[r].kind = run[r].kind,
           failures' = 0 => failures = 0,
           \A r \in Runs : failures' = 0 /\ run'[r].status \in Claimed =>
               \/ Fits(x, r, run'[r].status)
               \/ /\ run'[r].status = run[r].status
                  /\ Fits(act[a], r, run[r].status) => switches > 0 /\ ByRequest(r),
           a \in Handlers /\ x.pc = "read_executing" =>
               act[a].pc \notin Loose /\ x.run = act[a].run /\ ByRequest(x.run)
    PROVE  Worked'
<1>1. /\ act \in [Actors -> ActorRec] /\ act'[a] = x
      /\ \A b \in Actors \ {a} : act'[b] = act[b]
  BY DEF Typed, TypeOK
<1>2. \A b \in Actors : act[b].pc \notin Loose =>
          act[b].run \in Runs /\ run[act[b].run].status # "absent"
  BY DEF Typed, LocalsOK
<1>3. \A r \in Runs : run[r].status # "absent" /\ ByRequest(r) => ByRequest(r)'
  BY DEF ByRequest, RequestsHold
<1>4. ASSUME failures' = 0, NEW r \in Runs, run'[r].status \in Claimed
      PROVE  \/ \E b \in Actors : Fits(act'[b], r, run'[r].status)
             \/ switches' > 0 /\ ByRequest(r)'
  <2>1. CASE Fits(x, r, run'[r].status)
    BY <1>1, <2>1
  <2>2. CASE ~Fits(x, r, run'[r].status)
    <3>1. /\ run'[r].status = run[r].status
          /\ Fits(act[a], r, run[r].status) => switches > 0 /\ ByRequest(r)
      BY <1>4, <2>2
    <3>2. run[r].status \in Claimed /\ run[r].status # "absent"
      BY <1>4, <3>1 DEF Claimed
    <3>3. CASE switches > 0 /\ ByRequest(r)
      BY <1>3, <3>2, <3>3
    <3>4. CASE ~(switches > 0 /\ ByRequest(r))
      <4>1. PICK b \in Actors : Fits(act[b], r, run[r].status)
        BY <1>4, <3>2, <3>4 DEF Worked, WorkHasActor, Fits
      <4>2. b # a
        BY <3>1, <3>4, <4>1
      <4>. QED  BY <1>1, <3>1, <4>1, <4>2
    <3>. QED  BY <3>3, <3>4
  <2>. QED  BY <2>1, <2>2
<1>5. WorkHasActor'
  BY <1>4 DEF WorkHasActor, Fits
<1>6. CarriersOK'
  <2>. SUFFICES ASSUME NEW h \in Handlers, act'[h].pc = "read_executing",
                       NEW r, r = act'[h].run
                PROVE  ByRequest(r)'
    BY DEF CarriersOK, ByRequest
  <2>1. h \in Actors /\ "read_executing" \notin Loose
    BY DEF Actors, Loose
  <2>2. CASE h = a
    BY <1>1, <1>2, <1>3, <2>1, <2>2
  <2>3. CASE h # a
    <3>1. act'[h] = act[h]
      BY <1>1, <2>1, <2>3
    <3>2. r \in Runs /\ run[r].status # "absent" /\ ByRequest(r)
      BY <1>2, <2>1, <3>1 DEF Worked, CarriersOK
    <3>. QED  BY <1>3, <3>1, <3>2
  <2>. QED  BY <2>2, <2>3
<1>. QED  BY <1>5, <1>6 DEF Worked

\* An actor writes the status of its run, or leaves it as it is, and goes to pc.
LEMMA WorkGoes ==
    ASSUME Typed, Worked, NEW a \in Actors, act[a].pc \notin Loose,
           NEW s \in RunStatus, SetStatus(act[a].run, s),
           NEW x, act' = [act EXCEPT ![a] = x],
           UNCHANGED <<systemOn, switches, failures>>, RequestsHold,
           s \in Claimed => Fits(x, act[a].run, s),
           a \in Handlers /\ x.pc = "read_executing" =>
               x.run = act[a].run /\ ByRequest(x.run)
    PROVE  Worked'
<1>1. run \in [Runs -> RunRow] /\ act[a].run \in Runs
  BY DEF Typed, TypeOK, LocalsOK
<1>2. run'[act[a].run] = [run[act[a].run] EXCEPT !.status = s]
  BY <1>1 DEF SetStatus
<1>3. \A r \in Runs : r # act[a].run => run'[r] = run[r]
  BY <1>1 DEF SetStatus
<1>4. run'[act[a].run].status = s /\ run'[act[a].run].kind = run[act[a].run].kind
  BY <1>1, <1>2 DEF RunRow
<1>5. \A r \in Runs : run'[r].kind = run[r].kind
  BY <1>3, <1>4
<1>6. ASSUME NEW r \in Runs, run'[r].status \in Claimed
      PROVE  \/ Fits(x, r, run'[r].status)
             \/ /\ run'[r].status = run[r].status
                /\ ~Fits(act[a], r, run[r].status)
  <2>1. CASE r = act[a].run
    BY <1>4, <1>6, <2>1
  <2>2. CASE r # act[a].run
    BY <1>3, <2>2 DEF Fits
  <2>. QED  BY <2>1, <2>2
<1>. QED  BY <1>5, <1>6, WorkMoves

\* It ends what was in progress, or writes what is in nobody's hands.
LEMMA WorkSettles ==
    ASSUME Typed, Worked, NEW a \in Actors, act[a].pc \notin Loose,
           NEW s \in RunStatus \ Claimed, SetStatus(act[a].run, s),
           NEW x, act' = [act EXCEPT ![a] = x], x.pc # "read_executing",
           UNCHANGED <<systemOn, switches, failures, request>>
    PROVE  Worked'
BY WorkGoes DEF RequestsHold

\* It looks at its run, and goes on with it or has nothing more to do with it.
LEMMA WorkLooks ==
    ASSUME Typed, Worked, NEW a \in Actors, UNCHANGED run,
           NEW x, act' = [act EXCEPT ![a] = x],
           UNCHANGED <<systemOn, switches, failures>>, RequestsHold,
           \A r \in Runs :
               run[r].status \in Claimed /\ Fits(act[a], r, run[r].status) =>
                   Fits(x, r, run[r].status) \/ (switches > 0 /\ ByRequest(r)),
           a \in Handlers /\ x.pc = "read_executing" =>
               act[a].pc \notin Loose /\ x.run = act[a].run /\ ByRequest(x.run)
    PROVE  Worked'
BY WorkMoves

\* The same for an actor that has nothing in progress.
LEMMA WorkRests ==
    ASSUME Typed, Worked, NEW a \in Actors, UNCHANGED run,
           act[a].pc \notin Doing("executing") \cup Doing("validation_pending"),
           NEW x, act' = [act EXCEPT ![a] = x], x.pc # "read_executing",
           UNCHANGED <<systemOn, switches, failures>>, RequestsHold
    PROVE  Worked'
<1>1. \A r \in Runs : run[r].status \in Claimed => ~Fits(act[a], r, run[r].status)
  BY DEF Claimed, Fits
<1>. QED  BY <1>1, WorkLooks

LEMMA InitWorked == Init => Worked
<1>. SUFFICES ASSUME Init PROVE Worked
  OBVIOUS
<1>1. \A r \in Runs : run[r].status \notin Claimed
  BY DEF Init, Claimed
<1>2. \A h \in Handlers : act[h].pc # "read_executing"
  BY DEF Init, Resting, Actors
<1>. QED  BY <1>1, <1>2 DEF Init, Worked, WorkHasActor, CarriersOK

\* The statements that only end or go on.
LEMMA WorkEnds ==
    ASSUME NEW a \in Actors, End(a) \/ TurnToApproved(a)
    PROVE  \E x : act' = [act EXCEPT ![a] = x] /\ x.pc # "read_executing"
BY Resigning DEF Loose

LEMMA NodeWorked ==
    ASSUME Typed, Worked, NEW n \in Nodes, NodeStep(n)
    PROVE  Worked'
<1>. USE DEF Loose, Actors, KeepWorld, KeepRows, Claimed, Doing
<1>0. /\ act \in [Actors -> ActorRec] /\ act[n] \in ActorRec
      /\ n \in Actors /\ n \notin Handlers
  BY SandboxAssumption DEF Typed, TypeOK, SandboxAssumption
<1>1. UNCHANGED request => RequestsHold
  BY DEF RequestsHold
<1>2. CASE StartTick(n)
  <2>1. PICK x : act' = [act EXCEPT ![n] = x] /\ x.pc = "staged"
    BY <1>2, Going DEF StartTick, PC
  <2>. QED  BY <1>0, <1>1, <1>2, <2>1, WorkRests DEF StartTick
<1>3. CASE SelectStaged(n) \/ SelectApproved(n)
  <2>1. \E x : act' = [act EXCEPT ![n] = x] /\ x.pc # "read_executing"
    <3>1. ASSUME NEW pc, NEW r, pc # "read_executing",
                 act' = [act EXCEPT ![n].pc = pc, ![n].run = r]
          PROVE  \E x : act' = [act EXCEPT ![n] = x] /\ x.pc # "read_executing"
      <4>. DEFINE x == [act[n] EXCEPT !.pc = pc, !.run = r]
      <4>1. x.pc = pc /\ act' = [act EXCEPT ![n] = x]
        BY <1>0, <3>1 DEF ActorRec
      <4>. QED  BY <3>1, <4>1
    <3>2. Resting.pc # "read_executing"
      BY DEF Resting
    <3>3. Goto(n, "approved") =>
              \E x : act' = [act EXCEPT ![n] = x] /\ x.pc # "read_executing"
      BY <1>0, Going DEF PC
    <3>. QED  BY <1>3, <3>1, <3>2, <3>3 DEF SelectStaged, SelectApproved
  <2>. QED  BY <1>0, <1>1, <1>3, <2>1, WorkRests DEF SelectStaged, SelectApproved
<1>4. CASE ClaimStaged(n)
  <2>1. CASE SetStatus(act[n].run, "validation_pending") /\ Goto(n, "validate")
    <3>1. PICK x : /\ act' = [act EXCEPT ![n] = x]
                   /\ x.pc = "validate" /\ x.run = act[n].run
      BY <1>0, <2>1, Going DEF PC, Validating
    <3>2. Fits(x, act[n].run, "validation_pending")
      BY <3>1 DEF Fits
    <3>. QED
      BY <1>0, <1>1, <1>4, <2>1, <3>1, <3>2, WorkGoes DEF ClaimStaged, RunStatus
  <2>2. CASE TurnToApproved(n) /\ UNCHANGED run
    BY <1>0, <1>1, <1>4, <2>2, WorkEnds, WorkRests DEF ClaimStaged
  <2>. QED  BY <1>4, <2>1, <2>2 DEF ClaimStaged
<1>5. CASE ClaimApproved(n)
  <2>1. CASE SetStatus(act[n].run, "executing") /\ Goto(n, "read_executing")
    <3>1. PICK x : /\ act' = [act EXCEPT ![n] = x]
                   /\ x.pc = "read_executing" /\ x.run = act[n].run
      BY <1>0, <2>1, Going DEF PC, Executing
    <3>2. Fits(x, act[n].run, "executing")
      BY <3>1 DEF Fits
    <3>. QED
      BY <1>0, <1>1, <1>5, <2>1, <3>1, <3>2, WorkGoes
      DEF ClaimApproved, RunStatus
  <2>2. CASE End(n) /\ UNCHANGED run
    BY <1>0, <1>1, <1>5, <2>2, WorkEnds, WorkRests DEF ClaimApproved
  <2>. QED  BY <1>5, <2>1, <2>2 DEF ClaimApproved
<1>6. CASE PutBack(n)
  <2>. DEFINE r == act[n].run
  <2>1. PICK x : act' = [act EXCEPT ![n] = x] /\ x.pc # "read_executing"
    BY <1>0, <1>6, WorkEnds DEF PutBack
  <2>2. CASE \E to \in {"staged", "approved"} : SetStatus(r, to)
    BY <1>0, <1>1, <1>6, <2>1, <2>2, WorkGoes DEF PutBack, RunStatus
  <2>3. CASE ~\E to \in {"staged", "approved"} : SetStatus(r, to)
    <3>1. /\ UNCHANGED run
          /\ act[n].pc = "unclaim" => run[r].status # "validation_pending"
          /\ act[n].pc = "unexecute" => run[r].status # "executing"
      BY <1>6, <2>3 DEF PutBack
    <3>2. \A t \in Runs : run[t].status \in Claimed =>
              ~Fits(act[n], t, run[t].status)
      BY <1>6, <3>1 DEF PutBack, Fits
    <3>. QED  BY <1>0, <1>1, <1>6, <2>1, <3>1, <3>2, WorkLooks DEF PutBack
  <2>. QED  BY <2>2, <2>3
<1>. QED  BY <1>2, <1>3, <1>4, <1>5, <1>6 DEF NodeStep

LEMMA HandlerWorked ==
    ASSUME Typed, Unraced, Followed, Worked, NEW h \in Handlers, HandlerStep(h)
    PROVE  Worked'
<1>. USE DEF Loose, Actors, KeepWorld, KeepRows, Claimed, Doing
<1>0. /\ act \in [Actors -> ActorRec] /\ act[h] \in ActorRec /\ h \in Actors
      /\ run \in [Runs -> RunRow]
  BY DEF Typed, TypeOK
<1>1. UNCHANGED request => RequestsHold
  BY DEF RequestsHold
<1>2. \A pc \in PC : Goto(h, pc) =>
          \E x : act' = [act EXCEPT ![h] = x] /\ x.pc = pc /\ x.run = act[h].run
  BY <1>0, Going
<1>3. CASE resolveAndBindForRun(h)
  <2>1. PICK x : act' = [act EXCEPT ![h] = x] /\ x.pc # "read_executing"
    BY <1>2, <1>3 DEF resolveAndBindForRun, PC, Creating, Approving
  <2>2. act[h].run \in Runs
    BY <1>0, <1>3 DEF resolveAndBindForRun, Typed, LocalsOK
  <2>3. \A r \in Runs :
            run'[r].status = run[r].status /\ run'[r].kind = run[r].kind
    BY <1>0, <1>3, <2>2 DEF resolveAndBindForRun, RunRow
  <2>4. \A r \in Runs : run[r].status \in Claimed =>
            ~Fits(act[h], r, run[r].status)
    BY <1>3 DEF resolveAndBindForRun, Fits
  <2>. QED
    BY <1>0, <1>1, <1>3, <2>1, <2>3, <2>4, WorkMoves DEF resolveAndBindForRun
<1>4. CASE CreateResave(h)
  <2>1. PICK x : act' = [act EXCEPT ![h] = x] /\ x.pc # "read_executing"
    BY <1>0, <1>2, <1>4, WorkEnds DEF CreateResave, PC, Inline
  <2>2. SetStatus(act[h].run, "staged") /\ act[h].pc \notin Loose
    BY <1>4 DEF CreateResave
  <2>3. "staged" \in RunStatus \ Claimed
    BY DEF RunStatus, Settled
  <2>4. UNCHANGED <<systemOn, switches, failures, request>>
    BY <1>4 DEF CreateResave
  <2>. QED  BY <1>0, <2>1, <2>2, <2>3, <2>4, WorkSettles
<1>5. CASE InlineClaim(h)
  <2>1. CASE SetStatus(act[h].run, "validation_pending") /\ Goto(h, "validate")
    <3>1. PICK x : /\ act' = [act EXCEPT ![h] = x]
                   /\ x.pc = "validate" /\ x.run = act[h].run
      BY <1>2, <2>1 DEF PC, Validating
    <3>2. Fits(x, act[h].run, "validation_pending")
      BY <3>1 DEF Fits
    <3>. QED
      BY <1>0, <1>1, <1>5, <2>1, <3>1, <3>2, WorkGoes DEF InlineClaim, RunStatus
  <2>2. CASE End(h) /\ UNCHANGED run
    BY <1>0, <1>1, <1>5, <2>2, WorkEnds, WorkRests DEF InlineClaim
  <2>. QED  BY <1>5, <2>1, <2>2 DEF InlineClaim
<1>6. CASE InlineCheck(h)
  <2>1. PICK x : act' = [act EXCEPT ![h] = x] /\ x.pc # "read_executing"
    BY <1>0, <1>2, <1>6, WorkEnds DEF InlineCheck, PC, Inline
  <2>. QED  BY <1>0, <1>1, <1>6, <2>1, WorkRests DEF InlineCheck
<1>7. CASE InlineExecute(h)
  <2>1. CASE SetStatus(act[h].run, "executing") /\ Goto(h, "read_executing")
    <3>1. PICK x : /\ act' = [act EXCEPT ![h] = x]
                   /\ x.pc = "read_executing" /\ x.run = act[h].run
      BY <1>2, <2>1 DEF PC, Executing
    <3>2. Fits(x, act[h].run, "executing")
      BY <3>1 DEF Fits
    <3>3. ByRequest(act[h].run)
      BY <1>7
      DEF InlineExecute, Unraced, ActorKindsOK, Checking, Inline, ByRequest
    <3>. QED
      BY <1>0, <1>1, <1>7, <2>1, <3>1, <3>2, <3>3, WorkGoes
      DEF InlineExecute, RunStatus
  <2>2. CASE End(h) /\ UNCHANGED run
    BY <1>0, <1>1, <1>7, <2>2, WorkEnds, WorkRests DEF InlineExecute
  <2>. QED  BY <1>7, <2>1, <2>2 DEF InlineExecute
<1>8. CASE SaveApproval(h)
  <2>1. PICK x : act' = [act EXCEPT ![h] = x] /\ x.pc # "read_executing"
    BY <1>2, <1>8 DEF SaveApproval, PC, Approving
  <2>2. SetStatus(act[h].run, "approved") /\ act[h].pc \notin Loose
    BY <1>8 DEF SaveApproval
  <2>3. "approved" \in RunStatus \ Claimed
    BY DEF RunStatus, Settled
  <2>4. UNCHANGED <<systemOn, switches, failures, request>>
    BY <1>8 DEF SaveApproval
  <2>. QED  BY <1>0, <2>1, <2>2, <2>3, <2>4, WorkSettles
<1>9. CASE ApprovedJob(h) \/ BlockedJob(h)
  <2>1. PICK x : act' = [act EXCEPT ![h] = x] /\ x.pc # "read_executing"
    BY <1>0, <1>9, WorkEnds DEF ApprovedJob, BlockedJob
  <2>. QED  BY <1>0, <1>1, <1>9, <2>1, WorkRests DEF ApprovedJob, BlockedJob
<1>10. CASE SaveRequest(h)
  <2>1. PICK x : act' = [act EXCEPT ![h] = x] /\ x.pc # "read_executing"
    BY <1>2, <1>10 DEF SaveRequest, PC, Granting, Denying
  <2>2. act[h].req \in Requests /\ request[act[h].req] # None
    BY <1>0, <1>10 DEF SaveRequest, Typed, LocalsOK, Asking
  <2>3. request \in [Requests -> RequestRow \cup {None}]
    BY DEF Typed, TypeOK
  <2>4. /\ request'[act[h].req] # None
        /\ request'[act[h].req].run = request[act[h].req].run
    <3>1. request[act[h].req] \in RequestRow
      BY <2>2, <2>3
    <3>2. PICK v \in RequestStatus :
              request'[act[h].req] = [request[act[h].req] EXCEPT !.status = v]
      BY <1>10, <2>2, <2>3 DEF SaveRequest, RequestStatus
    <3>3. request'[act[h].req] \in RequestRow
      BY <3>1, <3>2 DEF RequestRow
    <3>. QED  BY <3>1, <3>2, <3>3, NullAssumption DEF RequestRow
  <2>5. RequestsHold
    <3>1. \A q \in Requests : q # act[h].req => request'[q] = request[q]
      BY <1>10, <2>3 DEF SaveRequest
    <3>. QED  BY <2>4, <3>1 DEF RequestsHold
  <2>. QED  BY <1>0, <1>10, <2>1, <2>5, WorkRests DEF SaveRequest
<1>11. CASE Resume(h)
  <2>1. PICK x : /\ act' = [act EXCEPT ![h] = x]
                 /\ x.pc = "grant_job" /\ x.run = act[h].run
    BY <1>2, <1>11 DEF Resume, PC, Granting
  <2>2. Fits(x, act[h].run, "executing")
    BY <2>1 DEF Fits
  <2>. QED
    BY <1>0, <1>1, <1>11, <2>1, <2>2, WorkGoes DEF Resume, RunStatus
<1>12. CASE ResumedJob(h)
  <2>1. PICK x : /\ act' = [act EXCEPT ![h] = x]
                 /\ x.pc = "read_executing" /\ x.run = act[h].run
    BY <1>2, <1>12 DEF ResumedJob, PC, Executing
  <2>2. ByRequest(act[h].run)
    BY <1>0, <1>12
    DEF ResumedJob, Followed, ResumedActors, Resuming, ForGood, ByRequest
  <2>3. \A r \in Runs :
            run[r].status \in Claimed /\ Fits(act[h], r, run[r].status) =>
                Fits(x, r, run[r].status)
    BY <1>12, <2>1 DEF ResumedJob, Fits
  <2>. QED  BY <1>0, <1>1, <1>12, <2>1, <2>2, <2>3, WorkLooks DEF ResumedJob
<1>13. CASE Block(h)
  <2>1. PICK x : act' = [act EXCEPT ![h] = x] /\ x.pc # "read_executing"
    BY <1>2, <1>13 DEF Block, PC, Denying
  <2>2. SetStatus(act[h].run, "blocked") /\ act[h].pc \notin Loose
    BY <1>13 DEF Block
  <2>3. "blocked" \in RunStatus \ Claimed
    BY DEF RunStatus, Settled
  <2>4. UNCHANGED <<systemOn, switches, failures, request>>
    BY <1>13 DEF Block
  <2>. QED  BY <1>0, <2>1, <2>2, <2>3, <2>4, WorkSettles
<1>. QED
  BY <1>3, <1>4, <1>5, <1>6, <1>7, <1>8, <1>9, <1>10, <1>11, <1>12, <1>13
  DEF HandlerStep

LEMMA RunWorked ==
    ASSUME Typed, Unraced, Worked, NEW a \in Actors, RunStep(a)
    PROVE  Worked'
<1>. USE DEF Loose, KeepWorld, KeepRows, Claimed, Doing
<1>0. /\ act \in [Actors -> ActorRec] /\ act[a] \in ActorRec
      /\ run \in [Runs -> RunRow] /\ switches \in Nat /\ systemOn \in BOOLEAN
  BY SandboxAssumption DEF Typed, TypeOK, SandboxAssumption
<1>1. UNCHANGED request => RequestsHold
  BY DEF RequestsHold
<1>2. \A pc \in PC : Goto(a, pc) \/ Leave(a, pc) =>
          \E x : act' = [act EXCEPT ![a] = x] /\ x.pc = pc /\ x.run = act[a].run
  BY <1>0, Going
<1>3. ~systemOn => switches > 0
  BY <1>0 DEF Worked
<1>4. CASE ReadPending(a)
  <2>. DEFINE r == act[a].run
  <2>1. CASE run[r].status # "validation_pending"
    <3>1. PICK x : act' = [act EXCEPT ![a] = x] /\ x.pc # "read_executing"
      BY <1>2, <1>4, <2>1, WorkEnds DEF ReadPending, AfterValidation, PC, Inline
    <3>2. \A t \in Runs : run[t].status \in Claimed =>
              ~Fits(act[a], t, run[t].status)
      BY <1>4, <2>1 DEF ReadPending, Fits
    <3>. QED  BY <1>0, <1>1, <1>4, <3>1, <3>2, WorkLooks DEF ReadPending
  <2>2. CASE Goto(a, "validate_save") \/ Goto(a, "unclaim")
    <3>1. PICK x : /\ act' = [act EXCEPT ![a] = x] /\ x.run = r
                   /\ x.pc \in {"validate_save", "unclaim"}
      BY <1>2, <2>2 DEF PC, Validating
    <3>2. \A t \in Runs :
              run[t].status \in Claimed /\ Fits(act[a], t, run[t].status) =>
                  Fits(x, t, run[t].status)
      BY <1>4, <3>1 DEF ReadPending, Fits
    <3>. QED  BY <1>0, <1>1, <1>4, <3>1, <3>2, WorkLooks DEF ReadPending
  <2>3. CASE End(a) /\ ~systemOn /\ a \in Handlers
    <3>1. PICK x : act' = [act EXCEPT ![a] = x] /\ x.pc # "read_executing"
      BY <2>3, WorkEnds
    <3>2. ByRequest(r)
      BY <1>4, <2>3
      DEF ReadPending, Unraced, ActorKindsOK, Checking, Validating, ByRequest
    <3>3. \A t \in Runs : Fits(act[a], t, run[t].status) =>
              switches > 0 /\ ByRequest(t)
      BY <1>3, <2>3, <3>2 DEF Fits
    <3>. QED  BY <1>0, <1>1, <1>4, <3>1, <3>3, WorkLooks DEF ReadPending
  <2>. QED  BY <1>4, <2>1, <2>2, <2>3 DEF ReadPending, Actors
<1>5. CASE SaveValidation(a)
  <2>1. PICK s \in {"validation_failed", "approval_pending", "approved"} :
            SetStatus(act[a].run, s)
    BY <1>5 DEF SaveValidation
  <2>2. s \in RunStatus \ Claimed
    BY DEF RunStatus, Settled
  <2>3. PICK x : act' = [act EXCEPT ![a] = x] /\ x.pc # "read_executing"
    <3>1. [act[a] EXCEPT !.pc = "validate_job", !.broken = TRUE].pc = "validate_job"
      BY <1>0 DEF ActorRec
    <3>2. Goto(a, "validate_job") \/ Goto(a, "validate_audit") =>
              \E x : act' = [act EXCEPT ![a] = x] /\ x.pc # "read_executing"
      BY <1>2 DEF PC, Validating
    <3>. QED  BY <1>5, <3>1, <3>2 DEF SaveValidation
  <2>. QED  BY <1>0, <1>5, <2>1, <2>2, <2>3, WorkSettles DEF SaveValidation
<1>6. CASE ReportValidation(a)
  <2>1. PICK x : act' = [act EXCEPT ![a] = x] /\ x.pc # "read_executing"
    <3>1. [act[a] EXCEPT !.pc = "inline_check", !.broken = FALSE].pc = "inline_check"
      BY <1>0 DEF ActorRec
    <3>2. Goto(a, "validate_audit") =>
              \E x : act' = [act EXCEPT ![a] = x] /\ x.pc # "read_executing"
      BY <1>2 DEF PC, Validating
    <3>. QED  BY <1>6, <3>1, <3>2, WorkEnds DEF ReportValidation
  <2>. QED  BY <1>0, <1>1, <1>6, <2>1, WorkRests DEF ReportValidation
<1>7. CASE ReadExecuting(a)
  <2>. DEFINE r == act[a].run
  <2>1. CASE run[r].status # "executing"
    <3>1. PICK x : act' = [act EXCEPT ![a] = x] /\ x.pc # "read_executing"
      BY <1>7, <2>1, WorkEnds DEF ReadExecuting
    <3>2. \A t \in Runs : run[t].status \in Claimed =>
              ~Fits(act[a], t, run[t].status)
      BY <1>7, <2>1 DEF ReadExecuting, Fits
    <3>. QED  BY <1>0, <1>1, <1>7, <3>1, <3>2, WorkLooks DEF ReadExecuting
  <2>2. CASE \/ act' = [act EXCEPT ![a].pc = "step", ![a].step = 1, ![a].broken = FALSE]
             \/ Goto(a, "unexecute")
    <3>1. PICK x : /\ act' = [act EXCEPT ![a] = x] /\ x.run = r
                   /\ x.pc \in {"step", "unexecute"}
      <4>. DEFINE y == [act[a] EXCEPT !.pc = "step", !.step = 1, !.broken = FALSE]
      <4>1. y.pc = "step" /\ y.run = r
        BY <1>0 DEF ActorRec
      <4>2. CASE Goto(a, "unexecute")
        <5>1. "unexecute" \in PC
          BY DEF PC
        <5>2. \E x : act' = [act EXCEPT ![a] = x] /\ x.pc = "unexecute" /\ x.run = r
          BY <1>2, <4>2, <5>1
        <5>. QED  BY <5>2
      <4>3. CASE act' = [act EXCEPT ![a].pc = "step", ![a].step = 1, ![a].broken = FALSE]
        <5>1. act' = [act EXCEPT ![a] = y]
          BY <1>0, <4>3
        <5>. HIDE DEF y
        <5>. QED  BY <4>1, <5>1
      <4>. QED  BY <2>2, <4>2, <4>3
    <3>2. \A t \in Runs :
              run[t].status \in Claimed /\ Fits(act[a], t, run[t].status) =>
                  Fits(x, t, run[t].status)
      BY <1>7, <3>1 DEF ReadExecuting, Fits
    <3>. QED  BY <1>0, <1>1, <1>7, <3>1, <3>2, WorkLooks DEF ReadExecuting
  <2>3. CASE End(a) /\ ~systemOn /\ a \in Handlers
    <3>1. PICK x : act' = [act EXCEPT ![a] = x] /\ x.pc # "read_executing"
      BY <2>3, WorkEnds
    <3>2. ByRequest(r)
      BY <1>7, <2>3 DEF ReadExecuting, Worked, CarriersOK
    <3>3. \A t \in Runs : Fits(act[a], t, run[t].status) =>
              switches > 0 /\ ByRequest(t)
      BY <1>3, <2>3, <3>2 DEF Fits
    <3>. QED  BY <1>0, <1>1, <1>7, <3>1, <3>3, WorkLooks DEF ReadExecuting
  <2>. QED  BY <1>7, <2>1, <2>2, <2>3 DEF ReadExecuting, Actors
<1>8. CASE RunTypedAction(a) \/ ExtractFile(a)
  <2>1. act[a].pc = "step" /\ UNCHANGED <<run, systemOn, switches, failures>>
    BY <1>8 DEF RunTypedAction, ExtractFile
  <2>2. PICK x : /\ act' = [act EXCEPT ![a] = x] /\ x.run = act[a].run
                 /\ x.pc \in {"step", "pause", "reread", "complete", "fail"}
    <3>1. \A i : /\ [act[a] EXCEPT !.step = i].pc = act[a].pc
                 /\ [act[a] EXCEPT !.step = i].run = act[a].run
      BY <1>0 DEF ActorRec
    <3>2. \/ \E i : act' = [act EXCEPT ![a] = [act[a] EXCEPT !.step = i]]
          \/ \E pc \in {"pause", "reread", "complete", "fail"} : Leave(a, pc)
      BY <1>8 DEF RunTypedAction, ExtractFile
    <3>3. ASSUME NEW i, act' = [act EXCEPT ![a] = [act[a] EXCEPT !.step = i]]
          PROVE  \E x : /\ act' = [act EXCEPT ![a] = x] /\ x.run = act[a].run
                        /\ x.pc = "step"
      BY <2>1, <3>1, <3>3
    <3>4. \A pc \in {"pause", "reread", "complete", "fail"} : Leave(a, pc) =>
              \E x : /\ act' = [act EXCEPT ![a] = x] /\ x.run = act[a].run
                     /\ x.pc = pc
      BY <1>2 DEF PC, Executing, Trying
    <3>. QED  BY <3>2, <3>3, <3>4
  <2>3. RequestsHold
    <3>1. request \in [Requests -> RequestRow \cup {None}]
      BY DEF Typed, TypeOK
    <3>2. \A q \in Requests : request[q] # None => request'[q] = request[q]
      BY <1>8, <3>1 DEF RunTypedAction, ExtractFile
    <3>. QED  BY <3>2 DEF RequestsHold
  <2>4. \A t \in Runs :
            run[t].status \in Claimed /\ Fits(act[a], t, run[t].status) =>
                Fits(x, t, run[t].status)
    BY <2>1, <2>2 DEF Fits
  <2>. QED  BY <1>0, <2>1, <2>2, <2>3, <2>4, WorkLooks
<1>9. CASE Pause(a) \/ Complete(a) \/ Fail(a)
  <2>1. PICK s \in {"paused_approval_required", "completed", "failed"} :
            SetStatus(act[a].run, s)
    BY <1>9 DEF Pause, Complete, Fail
  <2>2. s \in RunStatus \ Claimed
    BY DEF RunStatus, Settled
  <2>3. PICK x : act' = [act EXCEPT ![a] = x] /\ x.pc # "read_executing"
    BY <1>2, <1>9 DEF Pause, Complete, Fail, PC, Executing, Trying
  <2>. QED
    BY <1>0, <1>9, <2>1, <2>2, <2>3, WorkSettles DEF Pause, Complete, Fail
<1>10. CASE Reread(a)
  <2>. DEFINE r == act[a].run
  <2>1. PICK x : /\ act' = [act EXCEPT ![a] = x] /\ x.pc # "read_executing"
                 /\ run[r].status = "executing" => x.run = r /\ x.pc = "complete"
    BY <1>2, <1>10, WorkEnds DEF Reread, PC, Executing, Trying
  <2>2. \A t \in Runs :
            run[t].status \in Claimed /\ Fits(act[a], t, run[t].status) =>
                Fits(x, t, run[t].status)
    BY <1>10, <2>1 DEF Reread, Fits
  <2>. QED  BY <1>0, <1>1, <1>10, <2>1, <2>2, WorkLooks DEF Reread
<1>11. CASE IndexFile(a) \/ CompleteJob(a) \/ FailJob(a)
  <2>1. PICK x : act' = [act EXCEPT ![a] = x] /\ x.pc # "read_executing"
    BY <1>2, <1>11, WorkEnds
    DEF IndexFile, CompleteJob, FailJob, PC, Executing, Trying
  <2>. QED
    BY <1>0, <1>1, <1>11, <2>1, WorkRests DEF IndexFile, CompleteJob, FailJob
<1>12. CASE WriteAudit(a)
  <2>1. PICK x : act' = [act EXCEPT ![a] = x] /\ x.pc # "read_executing"
    BY <1>2, <1>12, WorkEnds DEF WriteAudit, AfterValidation, PC, Inline
  <2>2. /\ act[a].pc \in {"validate_audit", "audit"}
        /\ UNCHANGED <<run, request, systemOn, switches, failures>>
    BY <1>12 DEF WriteAudit
  <2>. QED  BY <1>0, <1>1, <2>1, <2>2, WorkRests
<1>. QED
  BY <1>4, <1>5, <1>6, <1>7, <1>8, <1>9, <1>10, <1>11, <1>12 DEF RunStep

LEMMA RequestWorked ==
    ASSUME Typed, Worked, NEW h \in Handlers, Request(h)
    PROVE  Worked'
<1>. USE DEF Loose, Actors, KeepWorld, KeepRows, Claimed, Doing
<1>0. /\ act \in [Actors -> ActorRec] /\ act[h] \in ActorRec /\ h \in Actors
      /\ run \in [Runs -> RunRow]
  BY DEF Typed, TypeOK
<1>1. act[h].pc = "idle" /\ UNCHANGED <<request, systemOn, switches, failures>>
  BY DEF Request, Create, approveSandboxRun, approveRequest, rejectRequest
<1>2. PICK x : act' = [act EXCEPT ![h] = x] /\ x.pc # "read_executing"
  <2>1. ASSUME NEW pc \in {"create_bind", "approve_save"}, NEW r,
               act' = [act EXCEPT ![h].pc = pc, ![h].run = r]
        PROVE  \E x : act' = [act EXCEPT ![h] = x] /\ x.pc # "read_executing"
    <3>. DEFINE y == [act[h] EXCEPT !.pc = pc, !.run = r]
    <3>1. y.pc = pc /\ act' = [act EXCEPT ![h] = y]
      BY <1>0, <2>1 DEF ActorRec
    <3>. QED  BY <3>1
  <2>2. ASSUME NEW pc \in Asking, NEW r, NEW q,
               act' = [act EXCEPT ![h].pc = pc, ![h].run = r, ![h].req = q]
        PROVE  \E x : act' = [act EXCEPT ![h] = x] /\ x.pc # "read_executing"
    <3>. DEFINE y == [act[h] EXCEPT !.pc = pc, !.run = r, !.req = q]
    <3>1. y.pc = pc /\ act' = [act EXCEPT ![h] = y]
      BY <1>0, <2>2 DEF ActorRec
    <3>. QED  BY <3>1 DEF Asking
  <2>3. ASSUME NEW r \in Runs, Create(h, r) \/ approveSandboxRun(h, r)
        PROVE  \E x : act' = [act EXCEPT ![h] = x] /\ x.pc # "read_executing"
    <3>1. \E pc \in {"create_bind", "approve_save"} :
              act' = [act EXCEPT ![h].pc = pc, ![h].run = r]
      BY <2>3 DEF Create, approveSandboxRun
    <3>. QED  BY <2>1, <3>1
  <2>4. ASSUME NEW q \in Requests, approveRequest(h, q) \/ rejectRequest(h, q)
        PROVE  \E x : act' = [act EXCEPT ![h] = x] /\ x.pc # "read_executing"
    <3>1. \E pc \in Asking :
              act' = [act EXCEPT ![h].pc = pc, ![h].run = request[q].run, ![h].req = q]
      BY <2>4 DEF approveRequest, rejectRequest, Asking
    <3>. QED  BY <2>2, <3>1
  <2>. QED  BY <2>3, <2>4 DEF Request
<1>3. \A r \in Runs : \/ run'[r] = run[r]
                     \/ (run[r].status = "absent" /\ run'[r].status = "staged")
  <2>1. ASSUME NEW t \in Runs, Create(h, t)
        PROVE  \A r \in Runs : \/ run'[r] = run[r]
                              \/ (run[r].status = "absent" /\ run'[r].status = "staged")
    <3>1. run[t].status = "absent" /\ run'[t].status = "staged"
      BY <1>0, <2>1 DEF Create
    <3>2. \A r \in Runs \ {t} : run'[r] = run[r]
      BY <1>0, <2>1 DEF Create
    <3>. QED  BY <3>1, <3>2
  <2>2. (\E t \in Runs : Create(h, t)) \/ run' = run
    BY DEF Request, approveSandboxRun, approveRequest, rejectRequest
  <2>. QED  BY <2>1, <2>2
<1>4. \A r \in Runs : ~Fits(act[h], r, run[r].status)
  BY <1>1 DEF Fits
<1>. QED  BY <1>0, <1>1, <1>2, <1>3, <1>4, WorkMoves DEF RequestsHold

\* What only moves the clock, the switch or the counts of an actor that fails.
LEMMA WorkStays ==
    ASSUME Typed, Worked, UNCHANGED <<run, act, failures>>, RequestsHold,
           switches' \in Nat, switches' >= switches, switches' = 0 => systemOn'
    PROVE  Worked'
<1>0. switches \in Nat /\ switches' \in Nat /\ switches' >= switches
  BY SandboxAssumption DEF Typed, TypeOK, SandboxAssumption
<1>1. \A r \in Runs : ByRequest(r) => ByRequest(r)'
  BY DEF ByRequest, RequestsHold
<1>2. WorkHasActor'
  <2>1. ASSUME failures' = 0, NEW r \in Runs, run'[r].status \in Claimed
        PROVE  \/ \E a \in Actors : act'[a].run = r /\ act'[a].pc \in Doing(run'[r].status)
               \/ switches' > 0 /\ ByRequest(r)'
    <3>1. \/ \E a \in Actors : act[a].run = r /\ act[a].pc \in Doing(run[r].status)
          \/ switches > 0 /\ ByRequest(r)
      BY <2>1 DEF Worked, WorkHasActor
    <3>2. switches > 0 => switches' > 0
      BY <1>0
    <3>. QED  BY <1>1, <3>1, <3>2
  <2>. QED  BY <2>1 DEF WorkHasActor
<1>3. CarriersOK'
  <2>. SUFFICES ASSUME NEW h \in Handlers, act[h].pc = "read_executing",
                       NEW r, r = act[h].run
                PROVE  ByRequest(r)'
    BY DEF CarriersOK, ByRequest
  <2>1. r \in Runs /\ ByRequest(r)
    BY DEF Typed, LocalsOK, Loose, Actors, Worked, CarriersOK
  <2>. QED  BY <1>1, <2>1
<1>. QED  BY <1>2, <1>3 DEF Worked

\* An actor fails: from then on nothing is said of the runs.
LEMMA WorkFails ==
    ASSUME Typed, Worked, NEW a \in Actors,
           UNCHANGED <<run, request, systemOn, switches>>, failures' = failures + 1,
           NEW x, act' = [act EXCEPT ![a] = x], x.pc # "read_executing"
    PROVE  Worked'
<1>1. failures' # 0
  BY SandboxAssumption DEF Typed, TypeOK, SandboxAssumption
<1>. QED  BY <1>1, WorkMoves DEF RequestsHold

LEMMA StepWorked ==
    Typed /\ Unraced /\ Followed /\ Worked /\ [Next]_vars => Worked'
<1>. SUFFICES ASSUME Typed, Unraced, Followed, Worked, [Next]_vars
              PROVE  Worked'
  OBVIOUS
<1>0. /\ act \in [Actors -> ActorRec] /\ switches \in Nat
      /\ request \in [Requests -> RequestRow \cup {None}]
  BY SandboxAssumption DEF Typed, TypeOK, SandboxAssumption
<1>1. CASE UNCHANGED vars
  <2>1. RequestsHold
    BY <1>1 DEF vars, RequestsHold
  <2>2. switches' \in Nat /\ switches' >= switches /\ (switches' = 0 => systemOn')
    BY <1>0, <1>1 DEF vars, Worked
  <2>. QED  BY <1>1, <2>1, <2>2, WorkStays DEF vars
<1>2. CASE Switch
  <2>1. RequestsHold
    BY <1>2 DEF Switch, RequestsHold
  <2>2. switches' \in Nat /\ switches' >= switches /\ switches' # 0
    BY <1>0, <1>2 DEF Switch
  <2>. QED  BY <1>2, <2>1, <2>2, WorkStays DEF Switch, KeepRows
<1>3. ASSUME NEW q \in Requests, ExpireRequest(q)
      PROVE  Worked'
  <2>1. request[q] \in RequestRow /\ request'[q] = [request[q] EXCEPT !.status = "expired"]
    BY <1>0, <1>3 DEF ExpireRequest
  <2>2. request'[q] \in RequestRow /\ request'[q].run = request[q].run
    BY <2>1 DEF RequestRow, RequestStatus
  <2>3. \A p \in Requests : p # q => request'[p] = request[p]
    BY <1>0, <1>3 DEF ExpireRequest
  <2>4. RequestsHold
    BY <2>2, <2>3, NullAssumption DEF RequestsHold
  <2>5. switches' \in Nat /\ switches' >= switches /\ (switches' = 0 => systemOn')
    BY <1>0, <1>3 DEF ExpireRequest, KeepWorld, Worked
  <2>. QED  BY <1>3, <2>4, <2>5, WorkStays DEF ExpireRequest, KeepRows, KeepWorld
<1>4. ASSUME NEW a \in Actors, Throw(a) \/ ThrowInvalid(a) \/ Crash(a)
      PROVE  Worked'
  <2>1. PICK x : act' = [act EXCEPT ![a] = x] /\ x.pc # "read_executing"
    <3>1. CASE Throw(a)
      BY <3>1, <1>0, Going DEF Throw, PC, Executing
    <3>2. CASE ThrowInvalid(a)
      <4>. DEFINE y == [act[a] EXCEPT !.pc = "validate_save", !.broken = TRUE]
      <4>1. y.pc = "validate_save" /\ act' = [act EXCEPT ![a] = y]
        BY <1>0, <3>2 DEF ThrowInvalid, ActorRec
      <4>. QED  BY <4>1
    <3>3. CASE Crash(a)
      <4>1. Resting.pc # "read_executing"
        BY DEF Resting
      <4>. QED  BY <3>3, <4>1 DEF Crash
    <3>. QED  BY <1>4, <3>1, <3>2, <3>3
  <2>2. /\ UNCHANGED <<run, request, systemOn, switches>>
        /\ failures' = failures + 1
    BY <1>4 DEF Throw, ThrowInvalid, Crash, KeepRows
  <2>. QED  BY <2>1, <2>2, WorkFails
<1>. QED
  BY <1>1, <1>2, <1>3, <1>4, NodeWorked, HandlerWorked, RunWorked, RequestWorked
  DEF Next

\* While nothing fails, what is being validated or executed is in the hands of an
\* actor that will write what comes of it, unless the kill switch stopped a request.
THEOREM SandboxWork == Spec => []WorkHasActor
<1>1. Init => Typed /\ Unraced /\ Followed /\ Owned /\ Worked
  BY InitTyped, InitUnraced, InitFollowed, InitOwned, InitWorked
<1>2. Typed /\ Owned /\ Unraced /\ Followed /\ Worked /\ [Next]_vars
          => Typed' /\ Owned' /\ Unraced' /\ Followed' /\ Worked'
  BY StepTyped, StepOwned, StepUnraced, StepFollowed, StepWorked
<1>3. Worked => WorkHasActor
  BY DEF Worked
<1>. QED  BY <1>1, <1>2, <1>3, PTL DEF Spec

=============================================================================
