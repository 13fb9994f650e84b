------------------------- MODULE SelfUpgradeProofs --------------------------
(***************************************************************************)
(* Safety of SelfUpgrade for any number of requests, proposals, admins,    *)
(* handlers that die and reviews that by-pass the service: typing, and     *)
(* that what is marked as applied was approved and taken by git, that a    *)
(* proposal reviewed by one request at a time has one verdict, and that a  *)
(* request in progress has a handler.                                      *)
(***************************************************************************)
EXTENDS SelfUpgrade, SequenceTheorems, TLAPS

\* The statements after which a preview that was read is still to be used.
Holding == {"applying", "save_review", "validated"}

\* What a copy of a preview says is true, and stays so.
Backed(row, tr, ap) ==
    /\ row.status \in {"approved_apply", "applied"} => row.p \in ap
    /\ row.status = "applied" => tr[row.p] > 0

InTree(u, pv, tr) == \E i \in DOMAIN pv[u] : tr[pv[u][i].p] > 0

\* A handler that is to write, or to write again, that a request is applied.
Reporting(x) ==
    \/ x.pc = "remove_worktree"
    \/ x.pc = "save_request" /\ x.verdict = "apply"

\* The locals x of a handler and its review y, as its next statement needs them.
LocalsOK(x, y, pv) ==
    /\ x.pc # "idle" => x.u \in Upgrades
    /\ x.pc \in {"validate", "package"} => x.seen.p \in Patches
    /\ x.pc \in Holding =>
         /\ x.nth \in DOMAIN pv[x.u]
         /\ x.seen \in PreviewRow
         /\ x.seen.p = pv[x.u][x.nth].p
    /\ y.pc # "idle" => y.p \in Patches

ClaimsOK(x, y, pv, tr, ap) ==
    /\ x.pc \in Holding => Backed(x.seen, tr, ap)
    /\ x.pc = "applying" => x.verdict = "apply" /\ x.seen.p \in ap /\ y.p = x.seen.p
    /\ x.pc = "save_review" =>
         /\ x.verdict \in {"approve", "apply"} => x.seen.p \in ap
         /\ x.verdict = "apply" => tr[x.seen.p] > 0
    /\ Reporting(x) => InTree(x.u, pv, tr)
    /\ y.pc \in {"applied", "done"} => tr[y.p] > 0

HandlersOK ==
    \A h \in Handlers :
        /\ LocalsOK(act[h], review[h], preview)
        /\ ClaimsOK(act[h], review[h], preview, tree, approved)
PreviewsBacked ==
    \A u \in Upgrades : \A i \in DOMAIN preview[u] : Backed(preview[u][i], tree, approved)

UpgradeInv ==
    /\ TypeOK
    /\ HandlersOK
    /\ PreviewsBacked
    /\ AppliedIsInTree

\* What no step takes back: a preview and its diff, an approval, the tree.
Grows ==
    /\ \A u \in Upgrades :
         /\ DOMAIN preview[u] \subseteq DOMAIN preview'[u]
         /\ \A i \in DOMAIN preview[u] : preview'[u][i].p = preview[u][i].p
    /\ \A p \in Patches : tree[p] > 0 => tree'[p] > 0
    /\ approved \subseteq approved'

-----------------------------------------------------------------------------
\* Facts about the operators

LEMMA RowOfPreview ==
    ASSUME TypeOK, NEW u \in Upgrades, NEW i \in DOMAIN preview[u]
    PROVE  preview[u][i] \in PreviewRow
<1>1. preview[u] \in Seq(PreviewRow)
  BY DEF TypeOK
<1>2. i \in 1 .. Len(preview[u])
  BY <1>1, LenProperties
<1>. QED  BY <1>1, <1>2, ElementOfSeq

LEMMA BackedStays ==
    ASSUME Grows, NEW row, row.p \in Patches, Backed(row, tree, approved)
    PROVE  Backed(row, tree', approved')
BY DEF Grows, Backed

LEMMA InTreeStays ==
    ASSUME TypeOK, Grows, NEW u \in Upgrades, InTree(u, preview, tree)
    PROVE  InTree(u, preview', tree')
<1>1. PICK i \in DOMAIN preview[u] : tree[preview[u][i].p] > 0
  BY DEF InTree
<1>2. preview[u][i].p \in Patches
  BY RowOfPreview DEF PreviewRow
<1>3. i \in DOMAIN preview'[u] /\ preview'[u][i].p = preview[u][i].p
  BY DEF Grows
<1>. QED  BY <1>1, <1>2, <1>3 DEF Grows, InTree

LEMMA HandlerStays ==
    ASSUME TypeOK, Grows, NEW h \in Handlers,
           LocalsOK(act[h], review[h], preview),
           ClaimsOK(act[h], review[h], preview, tree, approved)
    PROVE  /\ LocalsOK(act[h], review[h], preview')
           /\ ClaimsOK(act[h], review[h], preview', tree', approved')
<1>1. act[h].pc \in Holding =>
        /\ act[h].u \in Upgrades /\ act[h].seen \in PreviewRow
        /\ act[h].seen.p \in Patches
  BY DEF LocalsOK, Holding, PreviewRow
<1>2. LocalsOK(act[h], review[h], preview')
  BY <1>1 DEF LocalsOK, Grows
<1>3. act[h].pc \in Holding => Backed(act[h].seen, tree', approved')
  BY <1>1, BackedStays DEF ClaimsOK
<1>4. Reporting(act[h]) => act[h].u \in Upgrades
  BY DEF LocalsOK, Reporting
<1>5. Reporting(act[h]) => InTree(act[h].u, preview', tree')
  BY <1>4, InTreeStays DEF ClaimsOK
<1>6. review[h].pc \in {"applied", "done"} => tree'[review[h].p] > 0
  BY DEF ClaimsOK, LocalsOK, Grows
<1>7. act[h].pc \in {"applying", "save_review"} => act[h].seen.p \in Patches
  BY <1>1 DEF Holding
<1>. QED  BY <1>2, <1>3, <1>5, <1>6, <1>7 DEF ClaimsOK, Grows

-----------------------------------------------------------------------------
\* What is left to show of a step, part by part of the invariant

LEMMA HandlerMoves ==
    ASSUME UpgradeInv, Grows,
           NEW h \in Handlers, NEW x, NEW y,
           act' = [act EXCEPT ![h] = x], review' = [review EXCEPT ![h] = y],
           LocalsOK(x, y, preview'), ClaimsOK(x, y, preview', tree', approved')
    PROVE  HandlersOK'
<1>1. act \in [Handlers -> ActRec] /\ review \in [Handlers -> ReviewRec]
  BY DEF UpgradeInv, TypeOK, ReviewTypeOK
<1>2. ASSUME NEW k \in Handlers
      PROVE  /\ LocalsOK(act'[k], review'[k], preview')
             /\ ClaimsOK(act'[k], review'[k], preview', tree', approved')
  <2>1. CASE k = h
    BY <1>1, <2>1
  <2>2. CASE k # h
    <3>1. act'[k] = act[k] /\ review'[k] = review[k]
      BY <1>1, <2>2
    <3>2. LocalsOK(act[k], review[k], preview) /\ ClaimsOK(act[k], review[k], preview, tree, approved)
      BY DEF UpgradeInv, HandlersOK
    <3>3. TypeOK
      BY DEF UpgradeInv
    <3>. QED  BY <3>1, <3>2, <3>3, HandlerStays
  <2>. QED  BY <2>1, <2>2
<1>. QED  BY <1>2 DEF HandlersOK

LEMMA PreviewsStay ==
    ASSUME UpgradeInv, Grows, UNCHANGED preview
    PROVE  PreviewsBacked'
<1>1. ASSUME NEW u \in Upgrades, NEW i \in DOMAIN preview[u]
      PROVE  Backed(preview[u][i], tree', approved')
  <2>1. preview[u][i].p \in Patches
    BY RowOfPreview DEF PreviewRow, UpgradeInv
  <2>2. Backed(preview[u][i], tree, approved)
    BY DEF UpgradeInv, PreviewsBacked
  <2>. QED  BY <2>1, <2>2, BackedStays
<1>. QED  BY <1>1 DEF PreviewsBacked

LEMMA UpgradesStay ==
    ASSUME UpgradeInv, Grows,
           \A u \in Upgrades : upgrade'[u].status = "applied" =>
               upgrade[u].status = "applied" \/ InTree(u, preview', tree')
    PROVE  AppliedIsInTree'
<1>1. ASSUME NEW u \in Upgrades, upgrade'[u].status = "applied"
      PROVE  InTree(u, preview', tree')
  <2>1. CASE upgrade[u].status = "applied"
    BY <2>1, InTreeStays DEF UpgradeInv, AppliedIsInTree, InTree
  <2>2. CASE upgrade[u].status # "applied"
    BY <1>1, <2>2
  <2>. QED  BY <2>1, <2>2
<1>. QED  BY <1>1 DEF AppliedIsInTree, InTree

\* Steps that touch neither previews nor the tree.
Quiet == UNCHANGED <<tree, preview, approved>>

LEMMA QuietGrows == TypeOK /\ Quiet => Grows
BY DEF Quiet, Grows

LEMMA QuietStep ==
    ASSUME UpgradeInv, Quiet, TypeOK', NEW h \in Handlers, NEW x, NEW y,
           act' = [act EXCEPT ![h] = x], review' = [review EXCEPT ![h] = y],
           LocalsOK(x, y, preview), ClaimsOK(x, y, preview, tree, approved),
           \A u \in Upgrades : upgrade'[u].status = "applied" =>
               upgrade[u].status = "applied" \/ InTree(u, preview, tree)
    PROVE  UpgradeInv'
<1>1. Grows
  BY QuietGrows DEF UpgradeInv
<1>2. HandlersOK'
  BY <1>1, HandlerMoves DEF Quiet
<1>3. PreviewsBacked'
  BY <1>1, PreviewsStay DEF Quiet
<1>4. AppliedIsInTree'
  BY <1>1, UpgradesStay DEF Quiet
<1>. QED  BY <1>2, <1>3, <1>4 DEF UpgradeInv


\* The statements whose locals are a request, a worktree and a proposal at most.
Plain == {"idle", "analyze", "study", "analyzed", "supersede", "generate", "worktree",
          "diff", "propose", "package", "present", "latest", "remove_worktree"}

LEMMA PlainLocals ==
    ASSUME UpgradeInv, NEW h \in Handlers, NEW x, x.pc \in Plain,
           x.pc # "idle" => x.u \in Upgrades,
           x.pc = "package" => x.seen.p \in Patches,
           x.pc = "remove_worktree" => InTree(x.u, preview, tree)
    PROVE  /\ LocalsOK(x, review[h], preview)
           /\ ClaimsOK(x, review[h], preview, tree, approved)
<1>1. /\ LocalsOK(act[h], review[h], preview)
      /\ ClaimsOK(act[h], review[h], preview, tree, approved)
  BY DEF UpgradeInv, HandlersOK
<1>. QED  BY <1>1 DEF LocalsOK, ClaimsOK, Holding, Plain, Reporting

LEMMA PlainStep ==
    ASSUME UpgradeInv, Quiet, TypeOK', UNCHANGED review,
           NEW h \in Handlers, NEW x, act' = [act EXCEPT ![h] = x], x.pc \in Plain,
           x.pc # "idle" => x.u \in Upgrades,
           x.pc = "package" => x.seen.p \in Patches,
           x.pc = "remove_worktree" => InTree(x.u, preview, tree),
           \A u \in Upgrades : upgrade'[u].status = "applied" =>
               upgrade[u].status = "applied" \/ InTree(u, preview, tree)
    PROVE  UpgradeInv'
<1>1. review' = [review EXCEPT ![h] = review[h]]
  BY DEF UpgradeInv, TypeOK, ReviewTypeOK
<1>2. LocalsOK(x, review[h], preview) /\ ClaimsOK(x, review[h], preview, tree, approved)
  BY PlainLocals
<1>. QED  BY <1>1, <1>2, QuietStep

\* A handler saves the status of its request, and goes on or ends.
LEMMA Saves ==
    ASSUME UpgradeInv, Quiet, UNCHANGED <<patch, review, contested>>,
           intrusions' \in 0 .. MaxIntrusions, reported' \in [Upgrades -> BOOLEAN],
           NEW h \in Handlers, act[h].pc # "idle",
           NEW status \in UpgradeStatus, NEW w \in BOOLEAN, NEW pc \in PC \cap Plain,
           SaveRequest(h, status, w, pc),
           pc = "package" => act[h].pc = "validate",
           pc = "remove_worktree" \/ status = "applied" => Reporting(act[h])
    PROVE  UpgradeInv'
<1>1. act[h] \in ActRec /\ act \in [Handlers -> ActRec]
  BY DEF UpgradeInv, TypeOK
<1>2. act[h].u \in Upgrades
  BY DEF UpgradeInv, HandlersOK, LocalsOK
<1>. DEFINE x == IF pc = "idle" THEN Resting
                 ELSE [act[h] EXCEPT !.pc = pc, !.worktree = w]
<1>3. act' = [act EXCEPT ![h] = x]
  BY <1>1 DEF SaveRequest
<1>4. /\ x \in ActRec /\ x.pc = pc
      /\ pc # "idle" => x.u = act[h].u /\ x.seen = act[h].seen
  BY <1>1 DEF ActRec, Resting, PC, Verdicts, NoPreview
<1>5. upgrade' = [upgrade EXCEPT ![act[h].u] = [status |-> status, worktree |-> w]]
  BY DEF SaveRequest
<1>6. TypeOK'
  <2>1. upgrade' \in [Upgrades -> UpgradeRow]
    BY <1>2, <1>5 DEF UpgradeInv, TypeOK, UpgradeRow
  <2>2. act' \in [Handlers -> ActRec]
    BY <1>1, <1>3, <1>4
  <2>. QED  BY <2>1, <2>2 DEF UpgradeInv, TypeOK, ReviewTypeOK, Quiet
<1>7. Reporting(act[h]) => InTree(act[h].u, preview, tree)
  BY DEF UpgradeInv, HandlersOK, ClaimsOK
<1>8. \A u \in Upgrades : upgrade'[u].status = "applied" =>
          upgrade[u].status = "applied" \/ InTree(u, preview, tree)
  <2>1. ASSUME NEW u \in Upgrades, upgrade'[u].status = "applied"
        PROVE  upgrade[u].status = "applied" \/ InTree(u, preview, tree)
    <3>1. CASE u = act[h].u
      <4>1. status = "applied"
        BY <1>2, <1>5, <2>1, <3>1 DEF UpgradeInv, TypeOK, UpgradeRow
      <4>. QED  BY <1>7, <3>1, <4>1
    <3>2. CASE u # act[h].u
      BY <1>5, <2>1, <3>2 DEF UpgradeInv, TypeOK
    <3>. QED  BY <3>1, <3>2
  <2>. QED  BY <2>1
<1>9. act[h].pc = "validate" => act[h].seen.p \in Patches
  BY DEF UpgradeInv, HandlersOK, LocalsOK
<1>. HIDE DEF x
<1>. QED  BY <1>2, <1>3, <1>4, <1>6, <1>7, <1>8, <1>9, PlainStep

\* A handler goes on, or ends, and saves nothing.
LEMMA Goes ==
    ASSUME UpgradeInv, Quiet, UNCHANGED <<patch, review, contested, upgrade>>,
           intrusions' \in 0 .. MaxIntrusions, reported' \in [Upgrades -> BOOLEAN],
           NEW h \in Handlers, NEW x \in ActRec, act' = [act EXCEPT ![h] = x],
           x.pc \in Plain \ {"package", "remove_worktree"},
           x.pc # "idle" => x.u \in Upgrades
    PROVE  UpgradeInv'
<1>1. TypeOK'
  BY DEF UpgradeInv, TypeOK, ReviewTypeOK, Quiet
<1>. QED  BY <1>1, PlainStep

-----------------------------------------------------------------------------
\* analyze and generate, but for the statements that write previews

Counted == intrusions' \in 0 .. MaxIntrusions

\* A handler that has begun: its locals.
LEMMA Locals ==
    ASSUME UpgradeInv, NEW h \in Handlers
    PROVE  /\ act \in [Handlers -> ActRec] /\ act[h] \in ActRec
           /\ LocalsOK(act[h], review[h], preview)
           /\ ClaimsOK(act[h], review[h], preview, tree, approved)
           /\ act[h].pc # "idle" => act[h].u \in Upgrades /\ upgrade[act[h].u] \in UpgradeRow
           /\ act[h].worktree \in BOOLEAN
<1>1. act \in [Handlers -> ActRec] /\ act[h] \in ActRec
  BY DEF UpgradeInv, TypeOK
<1>2. /\ LocalsOK(act[h], review[h], preview)
      /\ ClaimsOK(act[h], review[h], preview, tree, approved)
  BY DEF UpgradeInv, HandlersOK
<1>3. act[h].pc # "idle" => act[h].u \in Upgrades /\ upgrade[act[h].u] \in UpgradeRow
  BY <1>2 DEF LocalsOK, UpgradeInv, TypeOK
<1>. QED  BY <1>1, <1>2, <1>3 DEF ActRec

LEMMA Begins ==
    ASSUME UpgradeInv, Counted, Quiet, UNCHANGED <<patch, review, contested, upgrade, reported>>,
           NEW h \in Handlers, NEW u \in Upgrades,
           NEW pc \in {"analyze", "supersede", "latest"}, NEW verdict \in Verdicts,
           Begin(h, u, pc, verdict)
    PROVE  UpgradeInv'
<1>. DEFINE x == [Resting EXCEPT !.pc = pc, !.verdict = verdict, !.u = u,
                                 !.worktree = upgrade[u].worktree]
<1>1. upgrade[u].worktree \in BOOLEAN /\ reported' \in [Upgrades -> BOOLEAN]
  BY DEF UpgradeInv, TypeOK, UpgradeRow
<1>2. x \in ActRec /\ x.pc = pc /\ x.u = u
  BY <1>1 DEF ActRec, Resting, PC
<1>3. act' = [act EXCEPT ![h] = x]
  BY DEF Begin
<1>. HIDE DEF x
<1>. QED  BY <1>1, <1>2, <1>3, Goes DEF Counted, Plain

LEMMA MovesOn ==
    ASSUME UpgradeInv, Counted, Quiet, UNCHANGED <<patch, review, contested, upgrade>>,
           reported' \in [Upgrades -> BOOLEAN],
           NEW h \in Handlers, act[h].pc # "idle",
           End(h) \/ \E pc \in {"analyzed", "generate", "present"} : Goto(h, pc)
    PROVE  UpgradeInv'
<1>1. CASE End(h)
  <2>1. Resting \in ActRec /\ Resting.pc = "idle"
    BY DEF Resting, ActRec, PC, Verdicts, NoPreview
  <2>. QED  BY <1>1, <2>1, Goes DEF End, Counted, Plain
<1>2. ASSUME NEW pc \in {"analyzed", "generate", "present"}, Goto(h, pc)
      PROVE  UpgradeInv'
  <2>. DEFINE x == [act[h] EXCEPT !.pc = pc]
  <2>1. x \in ActRec /\ x.pc = pc /\ x.u = act[h].u
    BY Locals DEF ActRec, PC
  <2>2. act' = [act EXCEPT ![h] = x]
    BY <1>2 DEF Goto
  <2>3. act[h].u \in Upgrades
    BY Locals
  <2>. HIDE DEF x
  <2>. QED  BY <2>1, <2>2, <2>3, Goes DEF Counted, Plain
<1>. QED  BY <1>1, <1>2

LEMMA AnalysisKeeps ==
    ASSUME UpgradeInv, Counted, NEW h \in Handlers,
           \/ \E u \in Upgrades : analyze(h, u)
           \/ StartAnalysis(h) \/ Study(h) \/ EndAnalysis(h)
    PROVE  UpgradeInv'
<1>0. reported \in [Upgrades -> BOOLEAN]
  BY DEF UpgradeInv, TypeOK
<1>1. ASSUME NEW u \in Upgrades, analyze(h, u) PROVE UpgradeInv'
  BY <1>1, Begins DEF analyze, Quiet, reviewVars, KeepPreviews, Verdicts
<1>2. CASE StartAnalysis(h)
  BY <1>0, <1>2, Locals, Saves
     DEF StartAnalysis, SaveStatus, Quiet, reviewVars, KeepPreviews, Counted, PC, Plain, UpgradeStatus
<1>3. CASE Study(h)
  <2>1. CASE SaveStatus(h, "failed", "idle") /\ UNCHANGED reported
    BY <1>0, <1>3, <2>1, Locals, Saves
       DEF Study, SaveStatus, Quiet, reviewVars, KeepPreviews, Counted, PC, Plain, UpgradeStatus
  <2>2. CASE /\ reported' = [reported EXCEPT ![act[h].u] = TRUE]
             /\ Goto(h, "analyzed")
             /\ UNCHANGED upgrade
    BY <1>0, <1>3, <2>2, MovesOn DEF Study, Quiet, reviewVars, KeepPreviews
  <2>. QED  BY <1>3, <2>1, <2>2 DEF Study
<1>4. CASE EndAnalysis(h)
  BY <1>0, <1>4, Locals, Saves
     DEF EndAnalysis, SaveStatus, Quiet, reviewVars, KeepPreviews, Counted, PC, Plain, UpgradeStatus
<1>. QED  BY <1>1, <1>2, <1>3, <1>4

LEMMA GenerationKeeps ==
    ASSUME UpgradeInv, Counted, NEW h \in Handlers,
           \/ \E u \in Upgrades : generate(h, u)
           \/ StartGeneration(h) \/ ensureWorktree(h) \/ Diff(h)
           \/ StartValidation(h) \/ Present(h)
    PROVE  UpgradeInv'
<1>0. reported \in [Upgrades -> BOOLEAN]
  BY DEF UpgradeInv, TypeOK
<1>1. ASSUME NEW u \in Upgrades, generate(h, u) PROVE UpgradeInv'
  BY <1>1, Begins DEF generate, Quiet, reviewVars, KeepPreviews, Verdicts
<1>2. CASE StartGeneration(h)
  BY <1>0, <1>2, Locals, Saves
     DEF StartGeneration, SaveStatus, Quiet, reviewVars, KeepPreviews, Counted, PC, Plain, UpgradeStatus
<1>3. CASE ensureWorktree(h)
  BY <1>0, <1>3, Saves
     DEF ensureWorktree, Quiet, reviewVars, KeepPreviews, Counted, PC, Plain, UpgradeStatus
<1>4. CASE Diff(h)
  BY <1>0, <1>4, Locals, Saves
     DEF Diff, SaveStatus, Quiet, reviewVars, KeepPreviews, Counted, PC, Plain, UpgradeStatus
<1>5. CASE StartValidation(h)
  BY <1>0, <1>5, Locals, Saves
     DEF StartValidation, SaveStatus, Quiet, reviewVars, KeepPreviews, Counted, PC, Plain, UpgradeStatus
<1>6. CASE Present(h)
  BY <1>0, <1>6, Locals, Saves
     DEF Present, SaveStatus, Quiet, reviewVars, KeepPreviews, Counted, PC, Plain, UpgradeStatus
<1>. QED  BY <1>1, <1>2, <1>3, <1>4, <1>5, <1>6

-----------------------------------------------------------------------------
\* The proposal of a generation, and the reviews of proposals

LEMMA WithProposal ==
    ASSUME NEW row \in PreviewRow \cup {NoPreview}, NEW p \in Patches
    PROVE  [row EXCEPT !.p = p] \in PreviewRow /\ [row EXCEPT !.p = p].p = p
<1>1. CASE row \in PreviewRow
  BY <1>1 DEF PreviewRow
<1>2. CASE row = NoPreview
  <2>1. NoPreview \in [status : PreviewStatus, readyForApply : BOOLEAN, p : {None}]
    BY DEF NoPreview, PreviewStatus
  <2>2. [NoPreview EXCEPT !.p = p] \in PreviewRow /\ [NoPreview EXCEPT !.p = p].p = p
    BY <2>1 DEF PreviewRow
  <2>. QED  BY <1>2, <2>2
<1>. QED  BY <1>1, <1>2

LEMMA ProposeKeeps ==
    ASSUME UpgradeInv, Counted, NEW h \in Handlers, ProposeDiff(h)
    PROVE  UpgradeInv'
<1>1. PICK p \in Patches : /\ Propose(p)
                           /\ act' = [act EXCEPT ![h].pc = "validate", ![h].seen.p = p]
  BY DEF ProposeDiff
<1>2. Quiet /\ UNCHANGED <<review, contested, upgrade, reported>>
  BY DEF ProposeDiff, Quiet, KeepPreviews
<1>. DEFINE seen == [act[h].seen EXCEPT !.p = p]
            x == [act[h] EXCEPT !.pc = "validate", !.seen = seen]
<1>3. act' = [act EXCEPT ![h] = x]
  BY <1>1, Locals
<1>4. act[h].seen \in PreviewRow \cup {NoPreview}
  BY Locals DEF ActRec
<1>5. seen \in PreviewRow /\ seen.p = p
  BY <1>4, WithProposal
<1>. HIDE DEF seen
<1>6. x \in ActRec /\ x.pc = "validate" /\ x.u = act[h].u /\ x.seen.p = p
  BY <1>5, Locals DEF ActRec, PC
<1>7. act[h].u \in Upgrades
  BY Locals DEF ProposeDiff
<1>8. patch' \in [Patches -> PatchStatus]
  BY <1>1 DEF Propose, UpgradeInv, TypeOK, ReviewTypeOK, PatchStatus
<1>9. TypeOK'
  BY <1>2, <1>3, <1>6, <1>8 DEF UpgradeInv, TypeOK, ReviewTypeOK, Quiet, Counted
<1>10. review' = [review EXCEPT ![h] = review[h]]
  BY <1>2 DEF UpgradeInv, TypeOK, ReviewTypeOK
<1>. HIDE DEF x
<1>11. /\ LocalsOK(x, review[h], preview)
       /\ ClaimsOK(x, review[h], preview, tree, approved)
  BY <1>6, <1>7, Locals DEF LocalsOK, ClaimsOK, Holding, Reporting
<1>. QED  BY <1>2, <1>3, <1>9, <1>10, <1>11, QuietStep

\* A review goes on, while the handler that called it waits.
LEMMA ReviewMoves ==
    ASSUME UpgradeInv, Counted, Grows, UNCHANGED upgradeVars, tree' \in [Patches -> Nat],
           contested' \subseteq Patches, patch' \in [Patches -> PatchStatus], NEW h \in Handlers, NEW y \in ReviewRec,
           review' = [review EXCEPT ![h] = y],
           y.pc # "idle" => y.p \in Patches,
           y.pc \in {"applied", "done"} => tree'[y.p] > 0,
           act[h].pc = "applying" => y.p = review[h].p
    PROVE  UpgradeInv'
<1>1. act' = [act EXCEPT ![h] = act[h]] /\ act \in [Handlers -> ActRec]
  BY Locals DEF upgradeVars
<1>2. TypeOK'
  BY DEF UpgradeInv, TypeOK, ReviewTypeOK, upgradeVars, Counted
<1>3. /\ LocalsOK(act[h], review[h], preview')
      /\ ClaimsOK(act[h], review[h], preview', tree', approved')
  BY Locals, HandlerStays DEF UpgradeInv
<1>4. LocalsOK(act[h], y, preview') /\ ClaimsOK(act[h], y, preview', tree', approved')
  BY <1>3 DEF LocalsOK, ClaimsOK
<1>5. HandlersOK'
  BY <1>1, <1>4, HandlerMoves
<1>6. PreviewsBacked'
  BY PreviewsStay DEF upgradeVars
<1>7. AppliedIsInTree'
  BY UpgradesStay DEF upgradeVars
<1>. QED  BY <1>2, <1>5, <1>6, <1>7 DEF UpgradeInv

LEMMA ReviewKeeps ==
    ASSUME UpgradeInv, Counted, UNCHANGED upgradeVars, NEW h \in Handlers,
           \/ ReviewStep(h) \/ EndReview(h)
           \/ Free(h) /\ \E p \in Patches :
                \/ rejectPatchProposal(h, p)
                \/ callApply(h, p) /\ UNCHANGED <<patch, tree, contested>>
    PROVE  UpgradeInv'
<1>1. /\ review \in [Handlers -> ReviewRec] /\ review[h] \in ReviewRec
      /\ tree \in [Patches -> Nat] /\ patch \in [Patches -> PatchStatus]
      /\ contested \subseteq Patches /\ TypeOK
  BY DEF UpgradeInv, TypeOK, ReviewTypeOK
<1>2. /\ review[h].pc # "idle" => review[h].p \in Patches
      /\ review[h].pc \in {"applied", "done"} => tree[review[h].p] > 0
  BY Locals DEF LocalsOK, ClaimsOK
<1>3. UNCHANGED tree => Grows /\ tree' \in [Patches -> Nat]
  BY <1>1, QuietGrows DEF Quiet, upgradeVars
<1>4. ASSUME NEW pc \in ReviewPC, At(h, pc), UNCHANGED tree, review[h].pc # "idle",
             patch' \in [Patches -> PatchStatus], contested' \subseteq Patches,
             pc \in {"applied", "done"} => review[h].pc = "applied"
      PROVE  UpgradeInv'
  <2>. DEFINE y == [review[h] EXCEPT !.pc = pc]
  <2>1. y \in ReviewRec /\ y.pc = pc /\ y.p = review[h].p
    BY <1>1 DEF ReviewRec
  <2>2. review' = [review EXCEPT ![h] = y]
    BY <1>1, <1>4 DEF At
  <2>. HIDE DEF y
  <2>. QED  BY <1>2, <1>3, <1>4, <2>1, <2>2, ReviewMoves
<1>5. CASE applyPatchProposal(h)
  BY <1>1, <1>2, <1>4, <1>5 DEF applyPatchProposal, Take, ReviewPC
<1>6. CASE SavePatch(h)
  <2>1. /\ Written(review[h].pc) \in PatchStatus /\ After(review[h].pc) \in ReviewPC
        /\ After(review[h].pc) \in {"applied", "done"} => review[h].pc = "applied"
    BY <1>6 DEF SavePatch, Written, After, PatchStatus, ReviewPC
  <2>2. patch' \in [Patches -> PatchStatus]
    BY <1>1, <1>6, <2>1 DEF SavePatch
  <2>. QED  BY <1>1, <1>4, <1>6, <2>1, <2>2 DEF SavePatch
<1>7. CASE CheckPatch(h)
  BY <1>1, <1>4, <1>7 DEF CheckPatch, ReviewPC
<1>8. CASE ApplyPatch(h)
  <2>1. CASE At(h, "apply_failed") /\ UNCHANGED tree
    BY <1>1, <1>4, <1>8, <2>1 DEF ApplyPatch, ReviewPC
  <2>2. CASE tree' = [tree EXCEPT ![review[h].p] = @ + 1] /\ At(h, "applied")
    <3>1. review[h].p \in Patches /\ UNCHANGED <<patch, contested>>
      BY <1>2, <1>8 DEF ApplyPatch
    <3>2. /\ tree' \in [Patches -> Nat] /\ tree'[review[h].p] = tree[review[h].p] + 1
          /\ \A p \in Patches \ {review[h].p} : tree'[p] = tree[p]
      BY <1>1, <2>2, <3>1
    <3>3. Grows
      BY <1>1, <3>1, <3>2 DEF Grows, upgradeVars
    <3>. DEFINE y == [review[h] EXCEPT !.pc = "applied"]
    <3>4. y \in ReviewRec /\ y.pc = "applied" /\ y.p = review[h].p
      BY <1>1 DEF ReviewRec, ReviewPC
    <3>5. review' = [review EXCEPT ![h] = y]
      BY <1>1, <2>2 DEF At
    <3>. HIDE DEF y
    <3>6. /\ y.p \in Patches /\ tree'[y.p] > 0 /\ patch' \in [Patches -> PatchStatus]
          /\ contested' \subseteq Patches
      BY <1>1, <3>1, <3>2, <3>4
    <3>. QED  BY <3>2, <3>3, <3>4, <3>5, <3>6, ReviewMoves
  <2>. QED  BY <1>8, <2>1, <2>2 DEF ApplyPatch
<1>9. Rest \in ReviewRec /\ Rest.pc = "idle"
  BY DEF Rest, ReviewRec, ReviewPC
<1>10. CASE EndReview(h)
  BY <1>1, <1>3, <1>9, <1>10, ReviewMoves DEF EndReview
<1>11. ASSUME NEW p \in Patches, Free(h), UNCHANGED <<patch, tree>>, contested' \subseteq Patches,
              NEW pc \in {"reject", "read"}, review' = [review EXCEPT ![h] = [pc |-> pc, p |-> p]]
       PROVE  UpgradeInv'
  <2>1. [pc |-> pc, p |-> p] \in ReviewRec
    BY DEF ReviewRec, ReviewPC
  <2>. QED  BY <1>1, <1>3, <1>11, <2>1, ReviewMoves DEF Free
<1>12. ASSUME NEW p \in Patches, Free(h),
              \/ rejectPatchProposal(h, p)
              \/ callApply(h, p) /\ UNCHANGED <<patch, tree, contested>>
       PROVE  UpgradeInv'
  BY <1>1, <1>11, <1>12 DEF rejectPatchProposal, Take, callApply
<1>. QED  BY <1>5, <1>6, <1>7, <1>8, <1>10, <1>12 DEF ReviewStep

-----------------------------------------------------------------------------
\* The statements that write previews

\* A step on previews keeps the invariant if each preview keeps its diff, says
\* what is true, and the handler's new locals are right about it.
LEMMA PreviewStep ==
    ASSUME UpgradeInv, Counted, UNCHANGED <<patch, tree, contested, review, upgrade, reported, approved>>,
           Grows, preview' \in [Upgrades -> Seq(PreviewRow)], PreviewsBacked',
           NEW h \in Handlers, NEW x \in ActRec, act' = [act EXCEPT ![h] = x],
           LocalsOK(x, review[h], preview'),
           ClaimsOK(x, review[h], preview', tree, approved)
    PROVE  UpgradeInv'
<1>1. TypeOK'
  BY DEF UpgradeInv, TypeOK, ReviewTypeOK, Counted
<1>2. review' = [review EXCEPT ![h] = review[h]]
  BY DEF UpgradeInv, TypeOK, ReviewTypeOK
<1>3. HandlersOK'
  BY <1>2, HandlerMoves
<1>4. AppliedIsInTree'
  BY UpgradesStay
<1>. QED  BY <1>1, <1>3, <1>4 DEF UpgradeInv

\* A preview of one request is replaced by one of the same diff.
LEMMA PreviewWritten ==
    ASSUME UpgradeInv, UNCHANGED <<tree, approved>>,
           NEW u \in Upgrades, NEW n \in DOMAIN preview[u], NEW row \in PreviewRow,
           row.p = preview[u][n].p, Backed(row, tree, approved),
           preview' = [preview EXCEPT ![u][n] = row]
    PROVE  /\ Grows
           /\ preview' \in [Upgrades -> Seq(PreviewRow)]
           /\ PreviewsBacked'
<1>1. preview \in [Upgrades -> Seq(PreviewRow)] /\ preview[u] \in Seq(PreviewRow)
  BY DEF UpgradeInv, TypeOK
<1>2. n \in 1 .. Len(preview[u]) /\ DOMAIN preview[u] = 1 .. Len(preview[u])
  BY <1>1, LenProperties
<1>. DEFINE new == [preview[u] EXCEPT ![n] = row]
<1>3. /\ new \in Seq(PreviewRow) /\ Len(new) = Len(preview[u])
      /\ \A j \in 1 .. Len(preview[u]) : new[j] = IF j = n THEN row ELSE preview[u][j]
  BY <1>1, <1>2, ExceptSeq
<1>4. DOMAIN new = DOMAIN preview[u]
  OBVIOUS
<1>5. preview'[u] = new /\ \A w \in Upgrades \ {u} : preview'[w] = preview[w]
  BY <1>1
<1>6. preview' \in [Upgrades -> Seq(PreviewRow)]
  BY <1>1, <1>3
<1>. HIDE DEF new
<1>7. ASSUME NEW w \in Upgrades
      PROVE  /\ DOMAIN preview'[w] = DOMAIN preview[w]
             /\ \A i \in DOMAIN preview[w] :
                  /\ preview'[w][i].p = preview[w][i].p
                  /\ preview'[w][i] = row \/ preview'[w][i] = preview[w][i]
  <2>1. CASE w = u
    BY <1>2, <1>3, <1>4, <1>5, <2>1
  <2>2. CASE w # u
    BY <1>5, <2>2
  <2>. QED  BY <2>1, <2>2
<1>8. Grows
  BY <1>7 DEF Grows
<1>9. PreviewsBacked'
  BY <1>7 DEF UpgradeInv, PreviewsBacked
<1>. QED  BY <1>6, <1>8, <1>9

LEMMA SupersedeKeeps ==
    ASSUME UpgradeInv, Counted, NEW h \in Handlers, supersedeOpenReviews(h)
    PROVE  UpgradeInv'
<1>. DEFINE u == act[h].u
            closed == [i \in 1 .. Len(preview[u]) |->
                         IF preview[u][i].status \in {"ready", "revision_requested"}
                           THEN [preview[u][i] EXCEPT !.status = "superseded"]
                           ELSE preview[u][i]]
            x == [act[h] EXCEPT !.pc = "generate"]
<1>1. u \in Upgrades
  BY Locals DEF supersedeOpenReviews
<1>2. preview \in [Upgrades -> Seq(PreviewRow)] /\ preview[u] \in Seq(PreviewRow)
  BY <1>1 DEF UpgradeInv, TypeOK
<1>3. Len(preview[u]) \in Nat /\ DOMAIN preview[u] = 1 .. Len(preview[u])
  BY <1>2, LenProperties
<1>4. preview' = [preview EXCEPT ![u] = closed]
  BY <1>2 DEF supersedeOpenReviews
<1>5. ASSUME NEW i \in DOMAIN preview[u]
      PROVE  /\ closed[i] \in PreviewRow /\ closed[i].p = preview[u][i].p
             /\ Backed(closed[i], tree, approved)
  <2>1. preview[u][i] \in PreviewRow
    BY <1>1, RowOfPreview DEF UpgradeInv
  <2>2. Backed(preview[u][i], tree, approved)
    BY <1>1 DEF UpgradeInv, PreviewsBacked
  <2>3. CASE preview[u][i].status \in {"ready", "revision_requested"}
    <3>1. closed[i] = [preview[u][i] EXCEPT !.status = "superseded"]
      BY <1>3, <2>3
    <3>. HIDE DEF closed
    <3>2. /\ closed[i] \in PreviewRow /\ closed[i].p = preview[u][i].p
          /\ closed[i].status = "superseded"
      BY <2>1, <3>1 DEF PreviewRow, PreviewStatus
    <3>. QED  BY <3>2 DEF Backed
  <2>4. CASE preview[u][i].status \notin {"ready", "revision_requested"}
    BY <1>3, <2>1, <2>2, <2>4
  <2>. QED  BY <2>3, <2>4
<1>6. DOMAIN closed = DOMAIN preview[u]
  BY <1>3
<1>7. closed \in Seq(PreviewRow)
  <2>1. closed \in [1 .. Len(preview[u]) -> PreviewRow]
    BY <1>3, <1>5
  <2>. QED  BY <1>3, <2>1, SeqDef
<1>. HIDE DEF closed
<1>8. preview'[u] = closed /\ \A w \in Upgrades \ {u} : preview'[w] = preview[w]
  BY <1>1, <1>2, <1>4
<1>9. preview' \in [Upgrades -> Seq(PreviewRow)]
  BY <1>2, <1>4, <1>7
<1>10. UNCHANGED <<patch, tree, contested, review, upgrade, reported, approved>>
  BY DEF supersedeOpenReviews, reviewVars
<1>11. Grows
  BY <1>1, <1>5, <1>6, <1>8, <1>10 DEF Grows
<1>12. PreviewsBacked'
  BY <1>5, <1>6, <1>8, <1>10 DEF UpgradeInv, PreviewsBacked
<1>13. x \in ActRec /\ x.pc = "generate" /\ x.u = u
  BY Locals DEF ActRec, PC
<1>14. act' = [act EXCEPT ![h] = x]
  BY DEF supersedeOpenReviews, Goto
<1>. HIDE DEF x, u
<1>15. /\ LocalsOK(x, review[h], preview')
       /\ ClaimsOK(x, review[h], preview', tree, approved)
  BY <1>1, <1>13, Locals DEF LocalsOK, ClaimsOK, Holding, Reporting
<1>. QED  BY <1>9, <1>10, <1>11, <1>12, <1>13, <1>14, <1>15, PreviewStep

LEMMA PackageKeeps ==
    ASSUME UpgradeInv, Counted, NEW h \in Handlers, Package(h)
    PROVE  UpgradeInv'
<1>. DEFINE u == act[h].u
            row == [status |-> "ready", readyForApply |-> FALSE, p |-> act[h].seen.p]
            x == [act[h] EXCEPT !.pc = "present", !.seen = NoPreview]
<1>1. u \in Upgrades /\ act[h].seen.p \in Patches
  BY Locals DEF Package, LocalsOK
<1>2. reported \in [Upgrades -> BOOLEAN] /\ preview \in [Upgrades -> Seq(PreviewRow)]
  BY DEF UpgradeInv, TypeOK
<1>3. CASE reported[u]
  <2>1. /\ preview' = [preview EXCEPT ![u] = Append(@, row)]
        /\ act' = [act EXCEPT ![h] = x]
        /\ UNCHANGED <<patch, tree, contested, review, upgrade, reported, approved>>
    BY <1>3, Locals DEF Package, reviewVars
  <2>2. row \in PreviewRow /\ row.status = "ready"
    BY <1>1 DEF PreviewRow, PreviewStatus
  <2>. HIDE DEF row
  <2>3. /\ Append(preview[u], row) \in Seq(PreviewRow)
        /\ Len(Append(preview[u], row)) = Len(preview[u]) + 1
        /\ \A i \in 1 .. Len(preview[u]) : Append(preview[u], row)[i] = preview[u][i]
        /\ Append(preview[u], row)[Len(preview[u]) + 1] = row
    BY <1>1, <1>2, <2>2, AppendProperties
  <2>4. /\ preview'[u] = Append(preview[u], row)
        /\ \A w \in Upgrades \ {u} : preview'[w] = preview[w]
        /\ preview' \in [Upgrades -> Seq(PreviewRow)]
    BY <1>1, <1>2, <2>1, <2>3
  <2>5. /\ Len(preview[u]) \in Nat
        /\ DOMAIN preview[u] = 1 .. Len(preview[u])
        /\ DOMAIN preview'[u] = 1 .. Len(preview[u]) + 1
    BY <1>1, <1>2, <2>3, <2>4, LenProperties
  <2>6. /\ DOMAIN preview[u] \subseteq DOMAIN preview'[u]
        /\ \A i \in DOMAIN preview[u] : preview'[u][i] = preview[u][i]
        /\ \A i \in DOMAIN preview'[u] : i \in DOMAIN preview[u] \/ preview'[u][i] = row
    BY <2>3, <2>4, <2>5
  <2>7. Grows
    BY <2>1, <2>4, <2>6 DEF Grows
  <2>8. Backed(row, tree, approved)
    BY <2>2 DEF Backed
  <2>9. PreviewsBacked'
    BY <2>1, <2>4, <2>6, <2>8 DEF UpgradeInv, PreviewsBacked
  <2>10. x \in ActRec /\ x.pc = "present" /\ x.u = u
    BY Locals DEF ActRec, PC
  <2>. HIDE DEF x, u
  <2>11. /\ LocalsOK(x, review[h], preview')
         /\ ClaimsOK(x, review[h], preview', tree, approved)
    BY <1>1, <2>10, Locals DEF LocalsOK, ClaimsOK, Holding, Reporting
  <2>. QED  BY <2>1, <2>4, <2>7, <2>9, <2>10, <2>11, PreviewStep
<1>4. CASE ~reported[u]
  <2>1. SaveStatus(h, "failed", "idle") /\ UNCHANGED <<reviewVars, preview, reported, approved>>
    BY <1>4 DEF Package
  <2>2. act[h].pc = "package"
    BY DEF Package
  <2>. QED  BY <1>2, <2>1, <2>2, Locals, Saves
        DEF SaveStatus, Quiet, reviewVars, Counted, PC, Plain, UpgradeStatus
<1>. QED  BY <1>3, <1>4

LEMMA WritesKeep ==
    ASSUME UpgradeInv, Counted, NEW h \in Handlers, SaveReview(h) \/ SaveRevalidation(h)
    PROVE  UpgradeInv'
<1>. DEFINE u == act[h].u
            n == act[h].nth
            row == act[h].seen
            v == act[h].verdict
<1>1. /\ u \in Upgrades /\ n \in DOMAIN preview[u]
      /\ row \in PreviewRow /\ row.p = preview[u][n].p
      /\ Backed(row, tree, approved)
  BY Locals DEF SaveReview, SaveRevalidation, LocalsOK, ClaimsOK, Holding
<1>2. UNCHANGED <<patch, tree, contested, review, upgrade, reported, approved>>
  BY DEF SaveReview, SaveRevalidation, reviewVars
<1>3. CASE SaveReview(h)
  <2>. DEFINE new == Judged(v, row)
              x == [act[h] EXCEPT !.pc = "save_request", !.nth = 0, !.seen = NoPreview]
  <2>1. /\ preview' = [preview EXCEPT ![u][n] = new]
        /\ act' = [act EXCEPT ![h] = x]
    BY <1>3, Locals DEF SaveReview
  <2>2. v \in Verdicts
    BY Locals DEF ActRec
  <2>3. /\ new \in PreviewRow /\ new.p = row.p
        /\ new.status = "applied" => v = "apply"
        /\ new.status = "approved_apply" => v = "approve"
    BY <1>1, <2>2 DEF Judged, PreviewRow, PreviewStatus, Verdicts
  <2>4. /\ v \in {"approve", "apply"} => row.p \in approved
        /\ v = "apply" => tree[row.p] > 0
    BY <1>3, Locals DEF SaveReview, ClaimsOK
  <2>. HIDE DEF new
  <2>5. Backed(new, tree, approved)
    BY <2>3, <2>4 DEF Backed
  <2>6. Grows /\ preview' \in [Upgrades -> Seq(PreviewRow)] /\ PreviewsBacked'
    BY <1>1, <1>2, <2>1, <2>3, <2>5, PreviewWritten
  <2>7. x \in ActRec /\ x.pc = "save_request" /\ x.u = u /\ x.verdict = v
    BY Locals DEF ActRec, PC
  <2>8. v = "apply" => InTree(u, preview', tree)
    BY <1>1, <2>4, <2>6 DEF Grows, InTree
  <2>. HIDE DEF x, u, v, n, row
  <2>9. /\ LocalsOK(x, review[h], preview')
        /\ ClaimsOK(x, review[h], preview', tree, approved)
    BY <1>1, <2>7, <2>8, Locals DEF LocalsOK, ClaimsOK, Holding, Reporting
  <2>. QED  BY <1>2, <2>1, <2>6, <2>7, <2>9, PreviewStep
<1>4. CASE SaveRevalidation(h)
  <2>1. preview' = [preview EXCEPT ![u][n] = row] /\ act' = [act EXCEPT ![h] = Resting]
    BY <1>4 DEF SaveRevalidation, End
  <2>2. Grows /\ preview' \in [Upgrades -> Seq(PreviewRow)] /\ PreviewsBacked'
    BY <1>1, <1>2, <2>1, PreviewWritten
  <2>3. Resting \in ActRec /\ Resting.pc = "idle"
    BY DEF Resting, ActRec, PC, Verdicts, NoPreview
  <2>4. /\ LocalsOK(Resting, review[h], preview')
        /\ ClaimsOK(Resting, review[h], preview', tree, approved)
    BY <2>3, Locals DEF LocalsOK, ClaimsOK, Holding, Reporting
  <2>. QED  BY <1>2, <2>1, <2>2, <2>3, <2>4, PreviewStep
<1>. QED  BY <1>3, <1>4

-----------------------------------------------------------------------------
\* The verdicts of an admin, but for the statement that writes the preview

\* A handler that has just read the latest preview of a request.
LEMMA LatestRow ==
    ASSUME UpgradeInv, NEW u \in Upgrades, preview[u] # <<>>
    PROVE  /\ Len(preview[u]) \in DOMAIN preview[u] /\ Len(preview[u]) \in Nat
           /\ Latest(u) \in PreviewRow /\ Latest(u).p \in Patches
           /\ Latest(u) = preview[u][Len(preview[u])]
           /\ Backed(Latest(u), tree, approved)
<1>1. preview[u] \in Seq(PreviewRow)
  BY DEF UpgradeInv, TypeOK
<1>2. /\ Len(preview[u]) \in Nat /\ Len(preview[u]) # 0
      /\ DOMAIN preview[u] = 1 .. Len(preview[u])
  BY <1>1, LenProperties, EmptySeq
<1>3. Len(preview[u]) \in DOMAIN preview[u]
  BY <1>2
<1>4. Latest(u) \in PreviewRow
  BY <1>3, RowOfPreview DEF Latest, UpgradeInv
<1>5. Backed(Latest(u), tree, approved)
  BY <1>3 DEF Latest, UpgradeInv, PreviewsBacked
<1>. QED  BY <1>2, <1>3, <1>4, <1>5 DEF Latest, PreviewRow

\* A handler goes on with the preview it has just read.
LEMMA Sees ==
    ASSUME UpgradeInv, Counted, NEW h \in Handlers, NEW u \in Upgrades, preview[u] # <<>>,
           UNCHANGED <<patch, tree, contested, upgrade, reported, preview>>,
           approved' \subseteq Patches, approved \subseteq approved',
           NEW y \in ReviewRec, review' = [review EXCEPT ![h] = y],
           NEW x \in ActRec, act' = [act EXCEPT ![h] = x],
           x.u = u, x.nth = Len(preview[u]), x.seen = Latest(u),
           x.pc \in Holding,
           \/ y = review[h]
           \/ y.pc = "read" /\ y.p = Latest(u).p,
           x.pc = "applying" =>
               x.verdict = "apply" /\ Latest(u).p \in approved' /\ y.p = Latest(u).p,
           x.pc = "save_review" =>
               /\ x.verdict = "approve" => Latest(u).p \in approved'
               /\ x.verdict # "apply"
    PROVE  UpgradeInv'
<1>1. Grows
  BY DEF Grows
<1>2. TypeOK'
  BY DEF UpgradeInv, TypeOK, ReviewTypeOK, Counted
<1>3. Backed(Latest(u), tree', approved') /\ Latest(u).p \in Patches
  BY <1>1, LatestRow, BackedStays
<1>4. LocalsOK(x, y, preview') /\ ClaimsOK(x, y, preview', tree', approved')
  <2>1. /\ y.pc # "idle" => y.p \in Patches
        /\ y.pc \in {"applied", "done"} => tree'[y.p] > 0
    BY <1>3, Locals DEF LocalsOK, ClaimsOK
  <2>2. ~Reporting(x) /\ x.pc \notin {"idle", "validate", "package"}
    BY DEF Holding, Reporting
  <2>. QED  BY <1>3, <2>1, <2>2, LatestRow DEF LocalsOK, ClaimsOK
<1>5. HandlersOK'
  BY <1>1, <1>4, HandlerMoves
<1>6. PreviewsBacked'
  BY <1>1, PreviewsStay
<1>7. AppliedIsInTree'
  BY <1>1, UpgradesStay
<1>. QED  BY <1>2, <1>5, <1>6, <1>7 DEF UpgradeInv

LEMMA LatestReviewKeeps ==
    ASSUME UpgradeInv, Counted, NEW h \in Handlers, latestReview(h)
    PROVE  UpgradeInv'
<1>. DEFINE u == act[h].u
            v == act[h].verdict
<1>1. /\ u \in Upgrades /\ v \in Verdicts /\ act[h].pc = "latest"
      /\ UNCHANGED <<patch, tree, contested, upgrade, reported, preview>>
      /\ act[h] \in ActRec /\ review \in [Handlers -> ReviewRec]
      /\ reported \in [Upgrades -> BOOLEAN] /\ approved \subseteq Patches
  BY Locals DEF latestReview, ActRec, UpgradeInv, TypeOK, ReviewTypeOK
<1>2. CASE End(h) /\ UNCHANGED <<review, approved>>
  BY <1>1, <1>2, MovesOn DEF Quiet
<1>3. CASE v = "reject" /\ Goto(h, "save_request") /\ UNCHANGED <<review, approved>>
  <2>. DEFINE x == [act[h] EXCEPT !.pc = "save_request"]
  <2>1. x \in ActRec /\ x.pc = "save_request" /\ x.u = u /\ x.verdict = "reject"
    BY <1>1, <1>3 DEF ActRec, PC
  <2>2. act' = [act EXCEPT ![h] = x] /\ review' = [review EXCEPT ![h] = review[h]]
    BY <1>1, <1>3 DEF Goto
  <2>. HIDE DEF x, u, v
  <2>3. /\ LocalsOK(x, review[h], preview)
        /\ ClaimsOK(x, review[h], preview, tree, approved)
    BY <1>1, <2>1, Locals DEF LocalsOK, ClaimsOK, Holding, Reporting
  <2>4. TypeOK'
    BY <1>1, <1>3, <2>1, <2>2 DEF UpgradeInv, TypeOK, ReviewTypeOK, Counted
  <2>. QED  BY <1>1, <1>3, <2>2, <2>3, <2>4, QuietStep DEF Quiet
<1>4. CASE /\ preview[u] # <<>> /\ Accepts(v, Latest(u))
           /\ See(h, IF v = "apply" THEN "applying" ELSE "save_review")
           /\ IF v = "apply" THEN callApply(h, Latest(u).p) ELSE UNCHANGED review
           /\ approved' = IF v = "approve" THEN approved \cup {Latest(u).p} ELSE approved
  <2>1. /\ Len(preview[u]) \in Nat /\ Latest(u) \in PreviewRow /\ Latest(u).p \in Patches
        /\ Backed(Latest(u), tree, approved)
    BY <1>1, <1>4, LatestRow
  <2>2. v = "apply" => Latest(u).p \in approved
    BY <1>4, <2>1 DEF Accepts, Backed
  <2>. DEFINE x == [act[h] EXCEPT !.pc = IF v = "apply" THEN "applying" ELSE "save_review",
                                  !.nth = Len(preview[u]), !.seen = Latest(u)]
              y == IF v = "apply" THEN [pc |-> "read", p |-> Latest(u).p] ELSE review[h]
  <2>3. /\ x \in ActRec /\ x.u = u /\ x.verdict = v /\ x.nth = Len(preview[u])
        /\ x.seen = Latest(u) /\ x.pc = IF v = "apply" THEN "applying" ELSE "save_review"
    BY <1>1, <2>1 DEF ActRec, PC
  <2>4. act' = [act EXCEPT ![h] = x]
    BY <1>1, <1>4, Locals DEF See
  <2>5. /\ y \in ReviewRec
        /\ v = "apply" => y.pc = "read" /\ y.p = Latest(u).p
        /\ v # "apply" => y = review[h]
    BY <1>1, <2>1 DEF ReviewRec, ReviewPC
  <2>6. review' = [review EXCEPT ![h] = y]
    BY <1>1, <1>4 DEF callApply
  <2>7. /\ approved' \subseteq Patches /\ approved \subseteq approved'
        /\ v = "approve" => Latest(u).p \in approved'
        /\ v = "apply" => Latest(u).p \in approved'
    BY <1>1, <1>4, <2>1, <2>2
  <2>. HIDE DEF x, y, u, v
  <2>. QED  BY <1>1, <1>4, <2>3, <2>4, <2>5, <2>6, <2>7, Sees DEF Holding
<1>. QED  BY <1>2, <1>3, <1>4 DEF latestReview

LEMMA AnsweredKeeps ==
    ASSUME UpgradeInv, Counted, NEW h \in Handlers, Answered(h)
    PROVE  UpgradeInv'
<1>1. /\ act[h] \in ActRec /\ act[h].pc = "applying" /\ act[h].u \in Upgrades
      /\ LocalsOK(act[h], review[h], preview)
      /\ ClaimsOK(act[h], review[h], preview, tree, approved)
      /\ act \in [Handlers -> ActRec]
  BY Locals DEF Answered
<1>2. /\ Rest \in ReviewRec /\ Rest.pc = "idle" /\ review' = [review EXCEPT ![h] = Rest]
      /\ UNCHANGED <<patch, tree, contested, upgrade, reported, preview, approved>>
  BY DEF Answered, Rest, ReviewRec, ReviewPC, KeepPreviews
<1>. DEFINE x == IF review[h].pc = "done" THEN [act[h] EXCEPT !.pc = "save_review"]
                 ELSE Resting
<1>3. act' = [act EXCEPT ![h] = x]
  BY DEF Answered, Goto, End
<1>4. /\ x \in ActRec
      /\ \/ x.pc = "idle"
         \/ /\ review[h].pc = "done" /\ x.pc = "save_review"
            /\ x.u = act[h].u /\ x.nth = act[h].nth /\ x.seen = act[h].seen
            /\ x.verdict = act[h].verdict
  BY <1>1 DEF ActRec, PC, Resting, Verdicts, NoPreview
<1>. HIDE DEF x
<1>5. LocalsOK(x, Rest, preview) /\ ClaimsOK(x, Rest, preview, tree, approved)
  <2>1. CASE x.pc = "idle"
    BY <1>2, <2>1 DEF LocalsOK, ClaimsOK, Holding, Reporting
  <2>2. CASE x.pc # "idle"
    BY <1>1, <1>2, <1>4, <2>2 DEF LocalsOK, ClaimsOK, Holding, Reporting
  <2>. QED  BY <2>1, <2>2
<1>6. TypeOK'
  BY <1>2, <1>3, <1>4 DEF UpgradeInv, TypeOK, ReviewTypeOK, Counted
<1>. QED  BY <1>2, <1>3, <1>5, <1>6, QuietStep DEF Quiet

LEMMA VerdictKeeps ==
    ASSUME UpgradeInv, Counted, NEW h \in Handlers,
           \/ \E u \in Upgrades, v \in Verdicts : decide(h, u, v)
           \/ SaveVerdict(h) \/ RemoveWorktree(h)
    PROVE  UpgradeInv'
<1>0. reported \in [Upgrades -> BOOLEAN] /\ act[h].worktree \in BOOLEAN
  BY Locals DEF UpgradeInv, TypeOK
<1>1. ASSUME NEW u \in Upgrades, NEW v \in Verdicts, decide(h, u, v) PROVE UpgradeInv'
  BY <1>1, Begins DEF decide, Quiet, KeepPreviews, reviewVars
<1>2. CASE SaveVerdict(h)
  <2>. DEFINE v == act[h].verdict
              pc == IF v = "apply" /\ act[h].worktree THEN "remove_worktree" ELSE "idle"
  <2>1. v \in Verdicts
    BY Locals DEF ActRec
  <2>2. /\ Outcome(v) \in UpgradeStatus
        /\ Outcome(v) = "applied" => v = "apply"
        /\ pc \in PC \cap Plain /\ pc # "package"
        /\ pc = "remove_worktree" => v = "apply"
    BY <2>1 DEF Outcome, UpgradeStatus, Verdicts, PC, Plain
  <2>3. SaveRequest(h, Outcome(v), act[h].worktree, pc) /\ act[h].pc = "save_request"
    BY <1>2 DEF SaveVerdict, SaveStatus
  <2>4. UNCHANGED <<patch, review, contested>> /\ Quiet /\ UNCHANGED reported
    BY <1>2 DEF SaveVerdict, KeepPreviews, Quiet, reviewVars
  <2>5. v = "apply" => Reporting(act[h])
    BY <2>3 DEF Reporting
  <2>. HIDE DEF v, pc
  <2>. QED  BY <1>0, <2>2, <2>3, <2>4, <2>5, Saves DEF Counted
<1>3. CASE RemoveWorktree(h)
  <2>1. /\ SaveRequest(h, "applied", FALSE, "idle") /\ act[h].pc = "remove_worktree"
        /\ UNCHANGED <<patch, review, contested>> /\ Quiet /\ UNCHANGED reported
    BY <1>3 DEF RemoveWorktree, KeepPreviews, Quiet, reviewVars
  <2>2. Reporting(act[h]) /\ "idle" \in PC \cap Plain /\ "applied" \in UpgradeStatus
    BY <2>1 DEF Reporting, PC, Plain, UpgradeStatus
  <2>. QED  BY <1>0, <2>1, <2>2, Saves DEF Counted
<1>. QED  BY <1>1, <1>2, <1>3

LEMMA RevalidateKeeps ==
    ASSUME UpgradeInv, Counted, NEW h \in Handlers, NEW u \in Upgrades, revalidate(h, u)
    PROVE  UpgradeInv'
<1>. DEFINE x == [Resting EXCEPT !.pc = "validated", !.u = u,
                                 !.nth = Len(preview[u]), !.seen = Latest(u)]
<1>1. /\ preview[u] # <<>> /\ act' = [act EXCEPT ![h] = x]
      /\ UNCHANGED <<patch, tree, contested, review, upgrade, reported, preview, approved>>
  BY DEF revalidate, KeepPreviews, reviewVars
<1>2. Len(preview[u]) \in Nat /\ Latest(u) \in PreviewRow
  BY <1>1, LatestRow
<1>3. /\ x \in ActRec /\ x.pc = "validated" /\ x.u = u
      /\ x.nth = Len(preview[u]) /\ x.seen = Latest(u)
  BY <1>2 DEF ActRec, Resting, PC, Verdicts
<1>4. /\ review[h] \in ReviewRec /\ review' = [review EXCEPT ![h] = review[h]]
      /\ approved \subseteq Patches
  BY <1>1 DEF UpgradeInv, TypeOK, ReviewTypeOK
<1>. HIDE DEF x
<1>. QED  BY <1>1, <1>3, <1>4, Sees DEF Holding

LEMMA CreateKeeps ==
    ASSUME UpgradeInv, Counted, NEW u \in Upgrades, createRequest(u)
    PROVE  UpgradeInv'
<1>1. /\ UNCHANGED <<patch, tree, contested, review, act, reported, preview, approved>>
      /\ upgrade' = [upgrade EXCEPT ![u].status = "pending_analysis"]
  BY DEF createRequest, KeepPreviews, reviewVars
<1>2. upgrade \in [Upgrades -> UpgradeRow] /\ upgrade[u] \in UpgradeRow
  BY DEF UpgradeInv, TypeOK
<1>3. [upgrade[u] EXCEPT !.status = "pending_analysis"] \in UpgradeRow
  BY <1>2 DEF UpgradeRow, UpgradeStatus
<1>4. upgrade' \in [Upgrades -> UpgradeRow]
  BY <1>1, <1>2, <1>3
<1>5. TypeOK' /\ HandlersOK' /\ PreviewsBacked'
  BY <1>1, <1>4
     DEF UpgradeInv, TypeOK, ReviewTypeOK, HandlersOK, PreviewsBacked, Counted
<1>6. \A w \in Upgrades : upgrade'[w].status = "applied" => upgrade[w].status = "applied"
  BY <1>1, <1>2 DEF UpgradeRow
<1>7. AppliedIsInTree'
  BY <1>1, <1>6 DEF UpgradeInv, AppliedIsInTree
<1>. QED  BY <1>5, <1>7 DEF UpgradeInv

LEMMA ThrowKeeps ==
    ASSUME UpgradeInv, Counted, NEW h \in Handlers, Throw(h)
    PROVE  UpgradeInv'
<1>1. /\ Resting \in ActRec /\ Resting.pc = "idle"
      /\ Rest \in ReviewRec /\ Rest.pc = "idle"
  BY DEF Resting, ActRec, PC, Verdicts, NoPreview, Rest, ReviewRec, ReviewPC
<1>2. /\ act' = [act EXCEPT ![h] = Resting] /\ review' = [review EXCEPT ![h] = Rest]
      /\ UNCHANGED <<patch, tree, upgrade, reported, preview, approved>>
  BY DEF Throw, KeepPreviews
<1>3. /\ LocalsOK(Resting, Rest, preview)
      /\ ClaimsOK(Resting, Rest, preview, tree, approved)
  BY <1>1 DEF LocalsOK, ClaimsOK, Holding, Reporting
<1>4. contested' \subseteq Patches
  BY Locals DEF Throw, LocalsOK, UpgradeInv, TypeOK, ReviewTypeOK
<1>5. TypeOK'
  BY <1>1, <1>2, <1>4 DEF UpgradeInv, TypeOK, ReviewTypeOK, Counted
<1>. QED  BY <1>2, <1>3, <1>5, QuietStep DEF Quiet

-----------------------------------------------------------------------------
\* The invariant

LEMMA InitInv == Init => UpgradeInv
<1>. SUFFICES ASSUME Init PROVE UpgradeInv
  OBVIOUS
<1>1. ASSUME NEW u \in Upgrades PROVE preview[u] = <<>> /\ DOMAIN preview[u] = {}
  BY <1>1 DEF Init
<1>2. TypeOK
  <2>1. <<>> \in Seq(PreviewRow)
    OBVIOUS
  <2>2. preview \in [Upgrades -> Seq(PreviewRow)]
    BY <2>1 DEF Init
  <2>3. Resting \in ActRec
    BY DEF Resting, ActRec, PC, Verdicts, NoPreview
  <2>4. Rest \in ReviewRec
    BY DEF Rest, ReviewRec, ReviewPC
  <2>5. 0 \in 0 .. MaxIntrusions
    BY UpgradeAssumption
  <2>. QED  BY <2>2, <2>3, <2>4, <2>5
        DEF Init, ReviewInit, TypeOK, ReviewTypeOK, PatchStatus, UpgradeRow, UpgradeStatus
<1>3. HandlersOK
  BY DEF Init, ReviewInit, Rest, Resting, HandlersOK, LocalsOK, ClaimsOK, Holding, Reporting
<1>4. PreviewsBacked
  BY <1>1 DEF PreviewsBacked
<1>5. AppliedIsInTree
  BY DEF Init, ReviewInit, AppliedIsInTree
<1>. QED  BY <1>2, <1>3, <1>4, <1>5 DEF UpgradeInv

LEMMA StepInv == UpgradeInv /\ [Next]_vars => UpgradeInv'
<1>. SUFFICES ASSUME UpgradeInv, [Next]_vars PROVE UpgradeInv'
  OBVIOUS
<1>0. UNCHANGED intrusions \/ Intrude => Counted
  BY UpgradeAssumption DEF Counted, Intrude, UpgradeInv, TypeOK
<1>1. CASE UNCHANGED vars
  BY <1>1 DEF vars, reviewVars, upgradeVars, UpgradeInv, TypeOK, ReviewTypeOK, HandlersOK,
              PreviewsBacked, AppliedIsInTree
<1>2. ASSUME NEW h \in Handlers, Throw(h) PROVE UpgradeInv'
  BY <1>0, <1>2, ThrowKeeps DEF Throw
<1>3. ASSUME NEW h \in Handlers, NEW p \in Patches, ReviewDirectly(h, p) PROVE UpgradeInv'
  BY <1>0, <1>3, ReviewKeeps DEF ReviewDirectly
<1>4. ASSUME NEW u \in Upgrades, createRequest(u), Counted PROVE UpgradeInv'
  BY <1>4, CreateKeeps
<1>5. ASSUME NEW h \in Handlers, NEW u \in Upgrades, Arrive(h, u), Counted PROVE UpgradeInv'
  BY <1>5, AnalysisKeeps, GenerationKeeps, RevalidateKeeps, VerdictKeeps DEF Arrive
<1>6. ASSUME NEW h \in Handlers, HandlerStep(h), Counted PROVE UpgradeInv'
  <2>1. CASE (ReviewStep(h) \/ EndReview(h)) /\ UNCHANGED upgradeVars
    BY <1>6, <2>1, ReviewKeeps
  <2>2. CASE UpgradeStep(h)
    BY <1>6, <2>2, AnalysisKeeps, GenerationKeeps, ProposeKeeps, SupersedeKeeps,
       PackageKeeps, LatestReviewKeeps, AnsweredKeeps, VerdictKeeps, WritesKeep
       DEF UpgradeStep
  <2>. QED  BY <1>6, <2>1, <2>2 DEF HandlerStep
<1>. QED  BY <1>0, <1>1, <1>2, <1>3, <1>4, <1>5, <1>6 DEF Next

LEMMA AlwaysUpgradeInv == Spec => []UpgradeInv
BY InitInv, StepInv, PTL DEF Spec

-----------------------------------------------------------------------------
\* The theorems

\* Whatever admins do at once and whenever a handler dies, the rows, the
\* previews and the entities handlers hold keep their types.
THEOREM UpgradeTyping == Spec => []TypeOK
<1>1. UpgradeInv => TypeOK
  BY DEF UpgradeInv
<1>. QED  BY <1>1, AlwaysUpgradeInv, PTL

\* A preview that applyToProduction marks as applied was approved by an admin
\* and git said it applied its diff, for any number of requests and admins.
THEOREM AppliedIsApproved == Spec => []AppliedWasApproved
<1>1. UpgradeInv => AppliedWasApproved
  <2>. SUFFICES ASSUME UpgradeInv, NEW u \in Upgrades, NEW i \in DOMAIN preview[u],
                       preview[u][i].status = "applied"
                PROVE  preview[u][i].p \in approved /\ tree[preview[u][i].p] > 0
    BY DEF AppliedWasApproved
  <2>. QED  BY DEF UpgradeInv, PreviewsBacked, Backed
<1>. QED  BY <1>1, AlwaysUpgradeInv, PTL

\* A request that SaveVerdict or the removal of its worktree marks as applied
\* has a preview whose diff git said it applied.
THEOREM AppliedStaysInTree == Spec => []AppliedIsInTree
<1>1. UpgradeInv => AppliedIsInTree
  BY DEF UpgradeInv
<1>. QED  BY <1>1, AlwaysUpgradeInv, PTL

-----------------------------------------------------------------------------
\* Verdicts

\* Only a handler that applies a preview, or that serves a route of the proposals,
\* has a review under way.
ReviewCalled ==
    \A h \in Handlers : act[h].pc \notin {"idle", "applying"} => review[h].pc = "idle"

\* What is true of a proposal that was never reviewed by two requests at once:
\* of the request that has it in hand, or of its row when none has.
Reviewed(p) ==
    \A h \in Handlers : Holds(h, p) =>
        /\ patch[p] \in Applyable
        /\ review[h].pc \in {"approve", "reject"} \/ patch[p] = "approved"
        /\ tree[p] = IF review[h].pc = "applied" THEN 1 ELSE 0
Decided(p) ==
    (\A h \in Handlers : ~Holds(h, p)) => tree[p] = IF patch[p] = "applied" THEN 1 ELSE 0
VerdictOf(p) ==
    /\ \A h, k \in Handlers : Holds(h, p) /\ Holds(k, p) => h = k
    /\ Reviewed(p)
    /\ Decided(p)

VerdictInv ==
    /\ ReviewCalled
    /\ \A p \in Patches \ contested : VerdictOf(p)

LEMMA VerdictInvImplies == TypeOK /\ VerdictInv => OneVerdict
<1>. SUFFICES ASSUME TypeOK, NEW p \in Patches \ contested, VerdictOf(p)
              PROVE  /\ tree[p] <= 1
                     /\ patch[p] = "applied" => tree[p] = 1
                     /\ patch[p] \in {"pending", "rejected", "apply_failed"} => tree[p] = 0
  BY DEF VerdictInv, OneVerdict
<1>1. CASE \A h \in Handlers : ~Holds(h, p)
  BY <1>1 DEF VerdictOf, Decided
<1>2. CASE \E h \in Handlers : Holds(h, p)
  <2>1. PICK h \in Handlers : Holds(h, p)
    BY <1>2
  <2>2. /\ patch[p] \in Applyable
        /\ review[h].pc \in {"approve", "reject"} \/ patch[p] = "approved"
        /\ tree[p] = IF review[h].pc = "applied" THEN 1 ELSE 0
    BY <2>1 DEF VerdictOf, Reviewed
  <2>. QED  BY <2>2 DEF Applyable
<1>. QED  BY <1>1, <1>2

\* A step of a handler leaves alone the proposals that it has in hand neither
\* before the step nor after it.
LEMMA VerdictStays ==
    ASSUME TypeOK, NEW h \in Handlers, NEW y, review' = [review EXCEPT ![h] = y],
           NEW p \in Patches, VerdictOf(p), UNCHANGED <<patch[p], tree[p]>>,
           ~Holds(h, p), ~(y.pc \in InHand /\ y.p = p)
    PROVE  VerdictOf(p)'
<1>1. \A k \in Handlers : Holds(k, p)' <=> Holds(k, p)
  BY DEF Holds, TypeOK, ReviewTypeOK
<1>2. \A k \in Handlers : Holds(k, p) => review'[k] = review[k]
  BY DEF TypeOK, ReviewTypeOK
<1>3. Reviewed(p)'
  BY <1>1, <1>2 DEF VerdictOf, Reviewed
<1>4. Decided(p)'
  BY <1>1 DEF VerdictOf, Decided
<1>. QED  BY <1>1, <1>3, <1>4 DEF VerdictOf

\* A step after which h alone has p in hand, with this status and this answer of git.
LEMMA VerdictInHand ==
    ASSUME TypeOK, NEW h \in Handlers, NEW y, review' = [review EXCEPT ![h] = y],
           NEW p \in Patches, \A k \in Handlers \ {h} : ~Holds(k, p),
           y.p = p, y.pc \in InHand,
           patch'[p] \in Applyable, y.pc \in {"approve", "reject"} \/ patch'[p] = "approved",
           tree'[p] = IF y.pc = "applied" THEN 1 ELSE 0
    PROVE  VerdictOf(p)'
<1>1. /\ review'[h] = y
      /\ \A k \in Handlers \ {h} : review'[k] = review[k]
  BY DEF TypeOK, ReviewTypeOK
<1>2. \A k \in Handlers : Holds(k, p)' <=> k = h
  BY <1>1 DEF Holds
<1>3. Reviewed(p)'
  BY <1>1, <1>2 DEF Reviewed
<1>4. Decided(p)'
  BY <1>2 DEF Decided
<1>. QED  BY <1>2, <1>3, <1>4 DEF VerdictOf

\* A step after which nobody has p in hand.
LEMMA VerdictGiven ==
    ASSUME TypeOK, NEW h \in Handlers, NEW y, review' = [review EXCEPT ![h] = y],
           NEW p \in Patches, \A k \in Handlers \ {h} : ~Holds(k, p), y.pc \notin InHand,
           tree'[p] = IF patch'[p] = "applied" THEN 1 ELSE 0
    PROVE  VerdictOf(p)'
<1>1. \A k \in Handlers : ~Holds(k, p)'
  BY DEF Holds, TypeOK, ReviewTypeOK
<1>. QED  BY <1>1 DEF VerdictOf, Reviewed, Decided

\* A request that has a proposal in hand is alone with it.
LEMMA AloneInHand ==
    ASSUME TypeOK, VerdictInv, NEW h \in Handlers, review[h].pc \in InHand,
           review[h].p \in Patches \ contested
    PROVE  /\ \A k \in Handlers \ {h} : ~Holds(k, review[h].p)
           /\ patch[review[h].p] \in Applyable
           /\ review[h].pc \in {"approve", "reject"} \/ patch[review[h].p] = "approved"
           /\ tree[review[h].p] = IF review[h].pc = "applied" THEN 1 ELSE 0
<1>1. VerdictOf(review[h].p) /\ Holds(h, review[h].p)
  BY DEF VerdictInv, Holds
<1>. QED  BY <1>1 DEF VerdictOf, Reviewed

\* A request that takes a proposal nobody has in hand finds its row decided.
LEMMA TakenIsDecided ==
    ASSUME VerdictInv, NEW h \in Handlers, NEW p \in Patches, Take(h, p),
           p \notin contested', ~Holds(h, p), patch[p] \in Applyable
    PROVE  /\ \A k \in Handlers \ {h} : ~Holds(k, p)
           /\ tree[p] = 0
<1>1. p \notin contested /\ \A k \in Handlers \ {h} : ~Holds(k, p)
  BY DEF Take
<1>2. tree[p] = IF patch[p] = "applied" THEN 1 ELSE 0
  BY <1>1 DEF VerdictInv, VerdictOf, Decided
<1>. QED  BY <1>1, <1>2 DEF Applyable

\* The statements of applyPatchProposal and rejectPatchProposal.
LEMMA ReviewDecides ==
    ASSUME UpgradeInv, VerdictInv, NEW h \in Handlers,
           ReviewStep(h) \/ EndReview(h) \/ \E r \in Patches : rejectPatchProposal(h, r),
           NEW p \in Patches, p \notin contested'
    PROVE  VerdictOf(p)'
<1>. DEFINE q == review[h].p
<1>1. /\ TypeOK /\ review \in [Handlers -> ReviewRec] /\ review[h] \in ReviewRec
      /\ patch \in [Patches -> PatchStatus] /\ tree \in [Patches -> Nat]
      /\ review[h].pc # "idle" => q \in Patches
  BY Locals DEF UpgradeInv, TypeOK, ReviewTypeOK, LocalsOK
<1>2. p \notin contested /\ VerdictOf(p)
  BY DEF VerdictInv, ReviewStep, EndReview, applyPatchProposal, rejectPatchProposal, Take,
         SavePatch, CheckPatch, ApplyPatch
<1>3. ASSUME NEW pc, At(h, pc)
      PROVE  \E y : /\ review' = [review EXCEPT ![h] = y]
                    /\ y.pc = pc /\ y.p = q
  <2>. DEFINE y == [review[h] EXCEPT !.pc = pc]
  <2>1. y.pc = pc /\ y.p = q /\ review' = [review EXCEPT ![h] = y]
    BY <1>1, <1>3 DEF At, ReviewRec
  <2>. HIDE DEF y
  <2>. QED  BY <2>1
\* A statement of the review of another proposal.
<1>4. ASSUME p # q, NEW pc, At(h, pc), UNCHANGED <<patch[p], tree[p]>>
      PROVE  VerdictOf(p)'
  <2>1. ~Holds(h, p)
    BY <1>4 DEF Holds
  <2>. QED  BY <1>1, <1>2, <1>3, <1>4, <2>1, VerdictStays
<1>5. CASE applyPatchProposal(h)
  <2>1. ~Holds(h, p) /\ UNCHANGED <<patch, tree>> /\ q \in Patches
    BY <1>1, <1>5 DEF applyPatchProposal, Holds, InHand
  <2>2. CASE p = q /\ patch[q] \in Applyable /\ At(h, "approve") /\ Take(h, q)
    <3>1. (\A k \in Handlers \ {h} : ~Holds(k, p)) /\ tree[p] = 0
      BY <2>1, <2>2, TakenIsDecided
    <3>2. PICK y : review' = [review EXCEPT ![h] = y] /\ y.pc = "approve" /\ y.p = p
      BY <1>3, <2>2
    <3>. QED  BY <1>1, <2>1, <2>2, <3>1, <3>2, VerdictInHand DEF InHand
  <2>3. CASE At(h, "refused")
    <3>1. PICK y : review' = [review EXCEPT ![h] = y] /\ y.pc = "refused"
      BY <1>3, <2>3
    <3>. QED  BY <1>1, <1>2, <2>1, <3>1, VerdictStays DEF InHand
  <2>4. CASE p # q
    BY <1>4, <1>5, <2>1, <2>4 DEF applyPatchProposal
  <2>. QED  BY <1>5, <2>2, <2>3, <2>4 DEF applyPatchProposal
<1>6. ASSUME NEW r \in Patches, rejectPatchProposal(h, r) PROVE VerdictOf(p)'
  <2>1. ~Holds(h, p) /\ UNCHANGED <<patch, tree>> /\ patch[r] \in Applyable /\ Take(h, r)
    BY <1>6 DEF rejectPatchProposal, Holds, InHand
  <2>. DEFINE y == [pc |-> "reject", p |-> r]
  <2>2. review' = [review EXCEPT ![h] = y] /\ y.pc = "reject" /\ y.p = r
    BY <1>6 DEF rejectPatchProposal
  <2>. HIDE DEF y
  <2>3. CASE p = r
    <3>1. (\A k \in Handlers \ {h} : ~Holds(k, p)) /\ tree[p] = 0
      BY <2>1, <2>3, TakenIsDecided
    <3>. QED  BY <1>1, <2>1, <2>2, <2>3, <3>1, VerdictInHand DEF InHand
  <2>4. CASE p # r
    BY <1>1, <1>2, <2>1, <2>2, <2>4, VerdictStays
  <2>. QED  BY <2>3, <2>4
<1>7. CASE SavePatch(h)
  <2>1. /\ review[h].pc \in {"approve", "applied", "apply_failed", "reject"}
        /\ review[h].pc \in InHand /\ q \in Patches /\ UNCHANGED tree
        /\ patch' = [patch EXCEPT ![q] = Written(review[h].pc)]
        /\ At(h, After(review[h].pc))
    BY <1>1, <1>7 DEF SavePatch, InHand
  <2>2. CASE p # q
    BY <1>1, <1>4, <2>1, <2>2
  <2>3. CASE p = q
    <3>1. /\ \A k \in Handlers \ {h} : ~Holds(k, p)
          /\ tree[p] = IF review[h].pc = "applied" THEN 1 ELSE 0
      BY <1>1, <1>2, <2>1, <2>3, AloneInHand
    <3>2. PICK y : /\ review' = [review EXCEPT ![h] = y]
                   /\ y.pc = After(review[h].pc) /\ y.p = p
      BY <1>3, <2>1, <2>3
    <3>3. patch'[p] = Written(review[h].pc) /\ tree'[p] = tree[p]
      BY <1>1, <2>1, <2>3
    <3>4. CASE review[h].pc = "approve"
      <4>1. y.pc = "check" /\ patch'[p] = "approved" /\ tree'[p] = 0
        BY <3>1, <3>2, <3>3, <3>4 DEF After, Written
      <4>. QED  BY <1>1, <3>1, <3>2, <4>1, VerdictInHand DEF InHand, Applyable
    <3>5. CASE review[h].pc # "approve"
      <4>1. /\ y.pc \notin InHand
            /\ tree'[p] = IF patch'[p] = "applied" THEN 1 ELSE 0
        BY <2>1, <3>1, <3>2, <3>3, <3>5 DEF After, Written, InHand
      <4>. QED  BY <1>1, <3>1, <3>2, <4>1, VerdictGiven
    <3>. QED  BY <3>4, <3>5
  <2>. QED  BY <2>2, <2>3
\* git answers: the row is saved later.
<1>8. ASSUME review[h].pc \in {"check", "git"}, UNCHANGED patch,
             NEW pc \in {"git", "applied", "apply_failed"}, At(h, pc),
             tree' = IF pc = "applied" THEN [tree EXCEPT ![q] = @ + 1] ELSE tree
      PROVE  VerdictOf(p)'
  <2>1. review[h].pc \in InHand /\ q \in Patches
    BY <1>1, <1>8 DEF InHand
  <2>2. CASE p # q
    <3>1. UNCHANGED <<patch[p], tree[p]>>
      BY <1>1, <1>8, <2>1, <2>2
    <3>. QED  BY <1>4, <1>8, <2>2, <3>1
  <2>3. CASE p = q
    <3>1. /\ \A k \in Handlers \ {h} : ~Holds(k, p)
          /\ patch[p] = "approved" /\ tree[p] = 0
      BY <1>1, <1>2, <1>8, <2>1, <2>3, AloneInHand
    <3>2. PICK y : review' = [review EXCEPT ![h] = y] /\ y.pc = pc /\ y.p = p
      BY <1>3, <1>8, <2>3
    <3>3. tree'[p] = IF pc = "applied" THEN 1 ELSE 0
      BY <1>1, <1>8, <2>3, <3>1
    <3>. QED  BY <1>1, <1>8, <3>1, <3>2, <3>3, VerdictInHand DEF InHand, Applyable
  <2>. QED  BY <2>2, <2>3
<1>9. CASE CheckPatch(h)
  BY <1>8, <1>9 DEF CheckPatch
<1>10. CASE ApplyPatch(h)
  BY <1>8, <1>10 DEF ApplyPatch
<1>11. CASE EndReview(h)
  <2>1. /\ ~Holds(h, p) /\ UNCHANGED <<patch, tree>>
        /\ review' = [review EXCEPT ![h] = Rest] /\ Rest.pc \notin InHand
    BY <1>11 DEF EndReview, Holds, InHand, Rest
  <2>. QED  BY <1>1, <1>2, <2>1, VerdictStays
<1>. QED  BY <1>5, <1>6, <1>7, <1>9, <1>10, <1>11 DEF ReviewStep

\* The statements of a self-upgrade, which only propose a diff, ask for a review,
\* or take its answer.
LEMMA UpgradeDecides ==
    ASSUME UpgradeInv, VerdictInv, NEW h \in Handlers, UpgradeStep(h),
           NEW p \in Patches, p \notin contested'
    PROVE  VerdictOf(p)'
<1>1. TypeOK
  BY DEF UpgradeInv
<1>2. CASE UNCHANGED reviewVars
  BY <1>2 DEF VerdictInv, VerdictOf, Reviewed, Decided, Holds, reviewVars
<1>3. CASE ProposeDiff(h)
  <2>1. PICK q \in Patches : Propose(q)
    BY <1>3 DEF ProposeDiff
  <2>2. UNCHANGED <<tree, review, contested>> /\ patch \in [Patches -> PatchStatus]
    BY <1>1, <1>3 DEF ProposeDiff, TypeOK, ReviewTypeOK
  <2>3. p \notin contested /\ VerdictOf(p)
    BY <2>2 DEF VerdictInv
  <2>4. CASE p # q
    <3>1. patch'[p] = patch[p]
      BY <2>1, <2>2, <2>4 DEF Propose
    <3>. QED  BY <2>2, <2>3, <3>1 DEF VerdictOf, Reviewed, Decided, Holds
  <2>5. CASE p = q
    <3>1. patch[p] = "absent" /\ patch'[p] = "pending"
      BY <2>1, <2>2, <2>5 DEF Propose
    <3>2. \A k \in Handlers : ~Holds(k, p)
      BY <2>3, <3>1 DEF VerdictOf, Reviewed, Applyable
    <3>3. tree[p] = 0
      BY <2>3, <3>1, <3>2 DEF VerdictOf, Decided
    <3>. QED  BY <2>2, <3>1, <3>2, <3>3 DEF VerdictOf, Reviewed, Decided, Holds
  <2>. QED  BY <2>4, <2>5
<1>4. ASSUME NEW y, review' = [review EXCEPT ![h] = y], y.pc \notin InHand,
             review[h].pc \notin InHand, UNCHANGED <<patch, tree, contested>>
      PROVE  VerdictOf(p)'
  <2>1. VerdictOf(p) /\ ~Holds(h, p)
    BY <1>4 DEF VerdictInv, Holds
  <2>. QED  BY <1>1, <1>4, <2>1, VerdictStays
<1>5. CASE Answered(h)
  BY <1>4, <1>5 DEF Answered, Rest, InHand
<1>6. CASE latestReview(h)
  <2>1. CASE UNCHANGED review
    BY <1>2, <1>6, <2>1 DEF latestReview, reviewVars
  <2>2. CASE callApply(h, Latest(act[h].u).p)
    <3>1. review[h].pc = "idle"
      BY <1>6 DEF latestReview, VerdictInv, ReviewCalled
    <3>. QED  BY <1>4, <1>6, <2>2, <3>1 DEF latestReview, callApply, InHand
  <2>. QED  BY <1>6, <2>1, <2>2 DEF latestReview
<1>. QED
  BY <1>2, <1>3, <1>5, <1>6
  DEF UpgradeStep, StartAnalysis, Study, EndAnalysis, supersedeOpenReviews,
      StartGeneration, ensureWorktree, Diff, StartValidation, Package, Present,
      SaveReview, SaveVerdict, RemoveWorktree, SaveRevalidation, reviewVars

\* A handler that dies gives its proposal up; if git had answered, the proposal
\* counts as contested.
LEMMA ThrowDecides ==
    ASSUME UpgradeInv, VerdictInv, NEW h \in Handlers, Throw(h),
           NEW p \in Patches, p \notin contested'
    PROVE  VerdictOf(p)'
<1>1. /\ TypeOK /\ UNCHANGED <<patch, tree>>
      /\ review' = [review EXCEPT ![h] = Rest] /\ Rest.pc \notin InHand
      /\ p \notin contested /\ ~(review[h].pc = "applied" /\ review[h].p = p)
  BY DEF Throw, UpgradeInv, Rest, InHand
<1>2. CASE ~Holds(h, p)
  BY <1>1, <1>2, VerdictStays DEF VerdictInv
<1>3. CASE Holds(h, p)
  <2>1. /\ \A k \in Handlers \ {h} : ~Holds(k, p)
        /\ patch[p] \in Applyable /\ tree[p] = 0
    BY <1>1, <1>3, AloneInHand DEF Holds
  <2>. QED  BY <1>1, <2>1, VerdictGiven DEF Applyable
<1>. QED  BY <1>2, <1>3

LEMMA ReviewIsCalled ==
    ASSUME UpgradeInv, ReviewCalled, [Next]_vars
    PROVE  ReviewCalled'
<1>1. act \in [Handlers -> ActRec] /\ review \in [Handlers -> ReviewRec]
  BY DEF UpgradeInv, TypeOK, ReviewTypeOK
<1>2. CASE UNCHANGED <<act, review>>
  BY <1>2 DEF ReviewCalled
<1>3. ASSUME NEW h \in Handlers, NEW x, NEW y, act' = [act EXCEPT ![h] = x],
             review' = [review EXCEPT ![h] = y],
             x.pc \notin {"idle", "applying"} => y.pc = "idle"
      PROVE  ReviewCalled'
  BY <1>1, <1>3 DEF ReviewCalled
<1>4. ASSUME NEW h \in Handlers, NEW x, act' = [act EXCEPT ![h] = x], UNCHANGED review,
             review[h].pc = "idle"
      PROVE  ReviewCalled'
  BY <1>1, <1>4 DEF ReviewCalled
<1>5. ASSUME NEW h \in Handlers, NEW y, review' = [review EXCEPT ![h] = y], UNCHANGED act,
             act[h].pc \in {"idle", "applying"}
      PROVE  ReviewCalled'
  BY <1>1, <1>5 DEF ReviewCalled
<1>6. Rest.pc = "idle" /\ Resting.pc = "idle"
  BY DEF Rest, Resting
<1>7. ASSUME NEW h \in Handlers, Throw(h) PROVE ReviewCalled'
  BY <1>3, <1>6, <1>7 DEF Throw
<1>8. ASSUME NEW h \in Handlers, NEW p \in Patches, ReviewDirectly(h, p) PROVE ReviewCalled'
  BY <1>5, <1>8 DEF ReviewDirectly, rejectPatchProposal, callApply, Free, upgradeVars
<1>9. ASSUME NEW u \in Upgrades, createRequest(u) PROVE ReviewCalled'
  BY <1>2, <1>9 DEF createRequest, reviewVars
<1>10. ASSUME NEW h \in Handlers, NEW u \in Upgrades, Arrive(h, u) PROVE ReviewCalled'
  <2>1. review[h].pc = "idle" /\ UNCHANGED review /\ \E x : act' = [act EXCEPT ![h] = x]
    BY <1>10 DEF Arrive, analyze, generate, revalidate, decide, Begin, Free, reviewVars
  <2>. QED  BY <1>4, <2>1
<1>11. ASSUME NEW h \in Handlers, ReviewStep(h) \/ EndReview(h), UNCHANGED act
       PROVE  ReviewCalled'
  <2>1. review[h].pc # "idle" /\ \E y : review' = [review EXCEPT ![h] = y]
    BY <1>11 DEF ReviewStep, EndReview, applyPatchProposal, SavePatch, CheckPatch, ApplyPatch, At
  <2>. QED  BY <1>5, <1>11, <2>1 DEF ReviewCalled
<1>12. ASSUME NEW h \in Handlers, UpgradeStep(h) PROVE ReviewCalled'
  <2>1. CASE Answered(h)
    BY <1>3, <1>6, <2>1 DEF Answered, Goto, End
  <2>2. CASE latestReview(h)
    <3>1. review[h].pc = "idle" /\ \E x : act' = [act EXCEPT ![h] = x]
      BY <2>2 DEF latestReview, ReviewCalled, Goto, End, See
    <3>2. CASE UNCHANGED review
      BY <1>4, <3>1, <3>2
    <3>3. CASE callApply(h, Latest(act[h].u).p) /\ See(h, "applying")
      <4>. DEFINE x == [act[h] EXCEPT !.pc = "applying", !.nth = Len(preview[act[h].u]),
                                      !.seen = Latest(act[h].u)]
      <4>1. x.pc = "applying" /\ act' = [act EXCEPT ![h] = x]
        BY <1>1, <3>3 DEF See, ActRec
      <4>. HIDE DEF x
      <4>. QED  BY <1>3, <3>3, <4>1 DEF callApply
    <3>. QED  BY <2>2, <3>2, <3>3 DEF latestReview
  <2>3. CASE UNCHANGED review
    <3>1. act[h].pc \notin {"idle", "applying"} \/ Answered(h) \/ latestReview(h)
      BY <1>12
      DEF UpgradeStep, StartAnalysis, Study, EndAnalysis, supersedeOpenReviews,
          StartGeneration, ensureWorktree, Diff, ProposeDiff, StartValidation, Package,
          Present, SaveReview, SaveVerdict, RemoveWorktree, SaveRevalidation
    <3>2. \/ \E x : act' = [act EXCEPT ![h] = x]
          \/ Answered(h) \/ latestReview(h)
      <4>1. ASSUME NEW p, act' = [act EXCEPT ![h].pc = "validate", ![h].seen.p = p]
            PROVE  \E x : act' = [act EXCEPT ![h] = x]
        BY <1>1, <4>1
      <4>2. ASSUME act' = [act EXCEPT ![h].pc = "present", ![h].seen = NoPreview]
            PROVE  \E x : act' = [act EXCEPT ![h] = x]
        BY <1>1, <4>2
      <4>3. ASSUME act' = [act EXCEPT ![h].pc = "save_request", ![h].nth = 0,
                                      ![h].seen = NoPreview]
            PROVE  \E x : act' = [act EXCEPT ![h] = x]
        BY <1>1, <4>3
      <4>. QED
        BY <1>12, <4>1, <4>2, <4>3
        DEF UpgradeStep, StartAnalysis, Study, EndAnalysis, supersedeOpenReviews,
            StartGeneration, ensureWorktree, Diff, ProposeDiff, StartValidation, Package,
            Present, SaveReview, SaveVerdict, RemoveWorktree, SaveRevalidation,
            SaveRequest, SaveStatus, Goto, End
    <3>. QED  BY <1>4, <2>1, <2>2, <2>3, <3>1, <3>2 DEF ReviewCalled
  <2>. QED
    BY <1>12, <2>1, <2>2, <2>3
    DEF UpgradeStep, StartAnalysis, Study, EndAnalysis, supersedeOpenReviews,
        StartGeneration, ensureWorktree, Diff, ProposeDiff, StartValidation, Package,
        Present, SaveReview, SaveVerdict, RemoveWorktree, SaveRevalidation, reviewVars
<1>. QED
  BY <1>2, <1>7, <1>8, <1>9, <1>10, <1>11, <1>12
  DEF Next, HandlerStep, vars, reviewVars, upgradeVars

LEMMA StepVerdict == UpgradeInv /\ VerdictInv /\ [Next]_vars => VerdictInv'
<1>. SUFFICES ASSUME UpgradeInv, VerdictInv, [Next]_vars PROVE VerdictInv'
  OBVIOUS
<1>1. ReviewCalled'
  BY ReviewIsCalled DEF VerdictInv
<1>2. SUFFICES ASSUME NEW p \in Patches, p \notin contested' PROVE VerdictOf(p)'
  BY <1>1 DEF VerdictInv
<1>3. CASE UNCHANGED reviewVars
  BY <1>2, <1>3 DEF VerdictInv, VerdictOf, Reviewed, Decided, Holds, reviewVars
<1>4. ASSUME NEW h \in Handlers, Free(h), NEW q \in Patches,
             callApply(h, q), UNCHANGED <<patch, tree, contested>>
      PROVE  VerdictOf(p)'
  <2>. DEFINE y == [pc |-> "read", p |-> q]
  <2>1. /\ TypeOK /\ VerdictOf(p) /\ ~Holds(h, p)
        /\ review' = [review EXCEPT ![h] = y] /\ y.pc \notin InHand
        /\ UNCHANGED <<patch[p], tree[p]>>
    BY <1>2, <1>4 DEF VerdictInv, UpgradeInv, Free, Holds, InHand, callApply
  <2>. HIDE DEF y
  <2>. QED  BY <2>1, VerdictStays
<1>5. ASSUME NEW h \in Handlers, NEW q \in Patches, ReviewDirectly(h, q) PROVE VerdictOf(p)'
  BY <1>2, <1>4, <1>5, ReviewDecides DEF ReviewDirectly
<1>6. ASSUME NEW h \in Handlers, HandlerStep(h) PROVE VerdictOf(p)'
  BY <1>2, <1>6, ReviewDecides, UpgradeDecides DEF HandlerStep
<1>7. ASSUME NEW h \in Handlers, Throw(h) PROVE VerdictOf(p)'
  BY <1>2, <1>7, ThrowDecides
<1>8. ASSUME NEW h \in Handlers, NEW u \in Upgrades, Arrive(h, u) PROVE VerdictOf(p)'
  BY <1>3, <1>8 DEF Arrive, analyze, generate, revalidate, decide
<1>9. ASSUME NEW u \in Upgrades, createRequest(u) PROVE VerdictOf(p)'
  BY <1>3, <1>9 DEF createRequest
<1>. QED
  BY <1>3, <1>5, <1>6, <1>7, <1>8, <1>9 DEF Next, vars

LEMMA InitVerdict == Init => VerdictInv
BY DEF Init, ReviewInit, Rest, VerdictInv, ReviewCalled, VerdictOf, Reviewed, Decided, Holds, InHand

\* A proposal that requests review one after the other, each dying wherever it
\* likes but between git's answer and the row, is applied once or not at all, and
\* its row says which, for any number of requests, proposals, admins and previews.
THEOREM ReviewedOnce == Spec => []OneVerdict
<1>1. UpgradeInv /\ VerdictInv => OneVerdict
  BY VerdictInvImplies DEF UpgradeInv
<1>. QED  BY <1>1, InitInv, StepInv, InitVerdict, StepVerdict, PTL DEF Spec

-----------------------------------------------------------------------------
\* Requests in progress

\* The statements that are between this status of a request and the next one.
Serving(status) ==
    {pc \in PC :
        \/ status = "analyzing" /\ pc \in {"study", "analyzed"}
        \/ status = "generating" /\ pc \in {"worktree", "diff", "propose", "validate"}
        \/ status = "validating" /\ pc \in {"package", "present"}}

\* A request whose status says that it is being worked on is being worked on: a
\* handler is at the statements that follow this status.  The status is saved
\* over whatever is there, by any number of handlers of the request at once.
RequestIsServed ==
    intrusions = 0 =>
        \A u \in Upgrades :
            upgrade[u].status \in {"analyzing", "generating", "validating"} =>
                \E h \in Handlers : act[h].u = u /\ act[h].pc \in Serving(upgrade[u].status)

\* A statement of a handler saves a status and goes to the statements that serve
\* it, or saves none and goes on serving what it served.
SavesServed(h) ==
    \E status, worktree, pc :
        /\ SaveRequest(h, status, worktree, pc)
        /\ status \in {"analyzing", "generating", "validating"} =>
               pc \in Serving(status) /\ pc # "idle"
GoesOnServing(h) ==
    /\ UNCHANGED upgrade
    /\ \E x : /\ act' = [act EXCEPT ![h] = x]
              /\ \A status : act[h].pc \in Serving(status) =>
                     x.pc \in Serving(status) /\ x.u = act[h].u

LEMMA GoesServing ==
    ASSUME TypeOK, NEW h \in Handlers, UNCHANGED upgrade,
           \/ \E x : act' = [act EXCEPT ![h] = x]
                     /\ \A status : act[h].pc \notin Serving(status)
           \/ \E pc : Goto(h, pc)
                      /\ \A status : act[h].pc \in Serving(status) => pc \in Serving(status)
    PROVE  GoesOnServing(h)
<1>1. act[h] \in ActRec
  BY DEF TypeOK
<1>2. ASSUME NEW pc, Goto(h, pc),
             \A status : act[h].pc \in Serving(status) => pc \in Serving(status)
      PROVE  GoesOnServing(h)
  <2>. DEFINE x == [act[h] EXCEPT !.pc = pc]
  <2>1. x.pc = pc /\ x.u = act[h].u /\ act' = [act EXCEPT ![h] = x]
    BY <1>1, <1>2 DEF ActRec, Goto
  <2>. HIDE DEF x
  <2>. QED  BY <1>2, <2>1 DEF GoesOnServing
<1>. QED  BY <1>2 DEF GoesOnServing

LEMMA HandlersServe ==
    ASSUME TypeOK, NEW h \in Handlers, UpgradeStep(h)
    PROVE  SavesServed(h) \/ GoesOnServing(h)
<1>. USE DEF Serving, PC, SaveStatus
<1>0. ASSUME NEW status, NEW worktree, NEW pc, SaveRequest(h, status, worktree, pc),
             status \in {"analyzing", "generating", "validating"} =>
                 pc \in Serving(status) /\ pc # "idle"
      PROVE  SavesServed(h)
  BY <1>0 DEF SavesServed
<1>1. CASE StartAnalysis(h) \/ EndAnalysis(h) \/ StartGeneration(h) \/ ensureWorktree(h)
           \/ Diff(h) \/ StartValidation(h) \/ Present(h) \/ RemoveWorktree(h)
  <2>1. \E w : \/ SaveRequest(h, "analyzing", w, "study")
               \/ SaveRequest(h, "analysis_complete", w, "idle")
               \/ SaveRequest(h, "generating", w, "worktree")
               \/ SaveRequest(h, "generating", w, "diff")
               \/ SaveRequest(h, "generating", w, "propose")
               \/ SaveRequest(h, "failed", w, "idle")
               \/ SaveRequest(h, "validating", w, "package")
               \/ SaveRequest(h, "preview_ready", w, "idle")
               \/ SaveRequest(h, "applied", w, "idle")
    BY <1>1 DEF StartAnalysis, EndAnalysis, StartGeneration, ensureWorktree, Diff,
                StartValidation, Present, RemoveWorktree
  <2>2. /\ "study" \in Serving("analyzing")
        /\ {"worktree", "diff", "propose"} \subseteq Serving("generating")
        /\ "package" \in Serving("validating")
    OBVIOUS
  <2>. HIDE DEF Serving
  <2>. QED  BY <1>0, <2>1, <2>2
<1>2. CASE Study(h)
  BY <1>2, GoesServing DEF SavesServed, Study
<1>3. CASE supersedeOpenReviews(h)
  BY <1>3, GoesServing DEF supersedeOpenReviews
<1>4. CASE ProposeDiff(h)
  <2>1. PICK p \in Patches : act' = [act EXCEPT ![h].pc = "validate", ![h].seen.p = p]
    BY <1>4 DEF ProposeDiff
  <2>. DEFINE x == [act[h] EXCEPT !.pc = "validate", !.seen.p = p]
  <2>2. act[h] \in ActRec /\ act \in [Handlers -> ActRec]
    BY DEF TypeOK
  <2>3. x.pc = "validate" /\ x.u = act[h].u
    BY <2>2 DEF ActRec
  <2>4. act' = [act EXCEPT ![h] = x]
    BY <2>1, <2>2
  <2>. HIDE DEF x
  <2>. QED  BY <1>4, <2>3, <2>4 DEF GoesOnServing, ProposeDiff
<1>5. CASE Package(h)
  <2>1. CASE SaveRequest(h, "failed", act[h].worktree, "idle")
    BY <2>1 DEF SavesServed
  <2>2. CASE /\ act' = [act EXCEPT ![h].pc = "present", ![h].seen = NoPreview]
             /\ UNCHANGED upgrade
    <3>. DEFINE x == [act[h] EXCEPT !.pc = "present", !.seen = NoPreview]
    <3>1. act[h] \in ActRec /\ act \in [Handlers -> ActRec]
      BY DEF TypeOK
    <3>2. x.pc = "present" /\ x.u = act[h].u
      BY <3>1 DEF ActRec
    <3>3. act' = [act EXCEPT ![h] = x]
      BY <2>2, <3>1
    <3>. HIDE DEF x
    <3>. QED  BY <1>5, <2>2, <3>2, <3>3 DEF GoesOnServing, Package
  <2>. QED  BY <1>5, <2>1, <2>2 DEF Package
<1>6. CASE SaveVerdict(h)
  <2>1. act[h].verdict \in Verdicts
    BY DEF TypeOK, ActRec
  <2>2. Outcome(act[h].verdict) \notin {"analyzing", "generating", "validating"}
    BY <2>1 DEF Outcome, Verdicts
  <2>3. \E w, pc : SaveRequest(h, Outcome(act[h].verdict), w, pc)
    BY <1>6 DEF SaveVerdict
  <2>. HIDE DEF Serving
  <2>. QED  BY <1>0, <2>2, <2>3
\* The statements of a verdict serve no status.
<1>7. ASSUME act[h].pc \in {"latest", "applying", "save_review", "validated"},
             UNCHANGED upgrade, \E x : act' = [act EXCEPT ![h] = x]
      PROVE  GoesOnServing(h)
  BY <1>7, GoesServing
<1>8. CASE latestReview(h) \/ Answered(h) \/ SaveReview(h) \/ SaveRevalidation(h)
  BY <1>7, <1>8 DEF latestReview, Answered, SaveReview, SaveRevalidation, See, Goto, End
<1>. QED
  BY <1>1, <1>2, <1>3, <1>4, <1>5, <1>6, <1>8 DEF UpgradeStep

\* The handlers of the other requests, and the other handlers, go on as before.
LEMMA ServedOn ==
    ASSUME TypeOK, RequestIsServed, intrusions = 0, NEW h \in Handlers,
           GoesOnServing(h) \/ (SavesServed(h) /\ act[h].u \in Upgrades)
    PROVE  RequestIsServed'
<1>. DEFINE InProgress == {"analyzing", "generating", "validating"}
            Served(u, r, a) == r[u].status \in InProgress =>
                \E k \in Handlers : a[k].u = u /\ a[k].pc \in Serving(r[u].status)
<1>1. act \in [Handlers -> ActRec] /\ upgrade \in [Upgrades -> UpgradeRow]
  BY DEF TypeOK
<1>2. SUFFICES ASSUME NEW u \in Upgrades, upgrade'[u].status \in InProgress,
                      Served(u, upgrade, act)
               PROVE  \E k \in Handlers : act'[k].u = u /\ act'[k].pc \in Serving(upgrade'[u].status)
  <2>1. \A u \in Upgrades : Served(u, upgrade, act)
    BY DEF RequestIsServed
  <2>. QED  BY <1>2, <2>1 DEF RequestIsServed
<1>3. CASE GoesOnServing(h)
  <2>1. PICK x : /\ act' = [act EXCEPT ![h] = x]
                 /\ \A status : act[h].pc \in Serving(status) =>
                        x.pc \in Serving(status) /\ x.u = act[h].u
    BY <1>3 DEF GoesOnServing
  <2>2. upgrade' = upgrade
    BY <1>3 DEF GoesOnServing
  <2>3. PICK k \in Handlers : act[k].u = u /\ act[k].pc \in Serving(upgrade[u].status)
    BY <1>2, <2>2
  <2>4. CASE k = h
    BY <1>1, <2>1, <2>2, <2>3, <2>4
  <2>5. CASE k # h
    BY <1>1, <2>1, <2>2, <2>3, <2>5
  <2>. QED  BY <2>4, <2>5
<1>4. CASE SavesServed(h) /\ act[h].u \in Upgrades
  <2>1. PICK status, worktree, pc :
          /\ SaveRequest(h, status, worktree, pc)
          /\ status \in InProgress => pc \in Serving(status) /\ pc # "idle"
    BY <1>4 DEF SavesServed
  <2>. DEFINE x == IF pc = "idle" THEN Resting
                   ELSE [act[h] EXCEPT !.pc = pc, !.worktree = worktree]
  <2>2. act' = [act EXCEPT ![h] = x]
    BY <1>1, <2>1 DEF SaveRequest
  <2>3. pc # "idle" => x.pc = pc /\ x.u = act[h].u
    BY <1>1 DEF ActRec
  <2>. HIDE DEF x
  <2>4. upgrade' = [upgrade EXCEPT ![act[h].u] = [status |-> status, worktree |-> worktree]]
    BY <2>1 DEF SaveRequest
  <2>5. CASE act[h].u = u
    <3>1. upgrade'[u].status = status
      BY <1>1, <2>4, <2>5
    <3>2. act'[h].u = u /\ act'[h].pc \in Serving(upgrade'[u].status)
      BY <1>1, <1>2, <2>1, <2>2, <2>3, <2>5, <3>1
    <3>. QED  BY <3>2
  <2>6. CASE act[h].u # u
    <3>1. upgrade'[u] = upgrade[u]
      BY <1>1, <2>4, <2>6
    <3>2. PICK k \in Handlers : act[k].u = u /\ act[k].pc \in Serving(upgrade[u].status)
      BY <1>2, <3>1
    <3>3. k # h /\ act'[k] = act[k]
      BY <1>1, <2>2, <2>6, <3>2
    <3>. QED  BY <3>1, <3>2, <3>3
  <2>. QED  BY <2>5, <2>6
<1>. QED  BY <1>3, <1>4

LEMMA StepServed == UpgradeInv /\ RequestIsServed /\ [Next]_vars => RequestIsServed'
<1>. SUFFICES ASSUME UpgradeInv, RequestIsServed, [Next]_vars, intrusions' = 0
              PROVE  RequestIsServed'
  BY DEF RequestIsServed
<1>0. TypeOK /\ intrusions \in Nat /\ act \in [Handlers -> ActRec]
  BY UpgradeAssumption DEF UpgradeInv, TypeOK
<1>1. CASE UNCHANGED <<upgrade, act, intrusions>>
  BY <1>1 DEF RequestIsServed
<1>2. ~Intrude
  BY <1>0 DEF Intrude
<1>3. ASSUME NEW u \in Upgrades, createRequest(u), UNCHANGED intrusions
      PROVE  RequestIsServed'
  <2>1. upgrade'[u].status = "pending_analysis" /\ \A v \in Upgrades \ {u} : upgrade'[v] = upgrade[v]
    BY <1>0, <1>3 DEF createRequest, TypeOK, UpgradeRow
  <2>2. UNCHANGED act
    BY <1>3 DEF createRequest
  <2>. QED  BY <1>3, <2>1, <2>2 DEF RequestIsServed
<1>4. ASSUME NEW h \in Handlers, NEW u \in Upgrades, Arrive(h, u), UNCHANGED intrusions
      PROVE  RequestIsServed'
  <2>1. act[h].pc = "idle" /\ UNCHANGED upgrade /\ \E x : act' = [act EXCEPT ![h] = x]
    BY <1>4 DEF Arrive, analyze, generate, revalidate, decide, Begin, Free
  <2>2. GoesOnServing(h)
    BY <1>0, <2>1, GoesServing DEF Serving
  <2>. QED  BY <1>0, <1>4, <2>2, ServedOn
<1>5. ASSUME NEW h \in Handlers, HandlerStep(h), UNCHANGED intrusions
      PROVE  RequestIsServed'
  <2>1. CASE UNCHANGED upgradeVars
    BY <1>1, <1>5, <2>1 DEF upgradeVars
  <2>2. CASE UpgradeStep(h)
    <3>1. act[h].pc # "idle"
      BY <2>2
      DEF UpgradeStep, StartAnalysis, Study, EndAnalysis, supersedeOpenReviews,
          StartGeneration, ensureWorktree, Diff, ProposeDiff, StartValidation, Package,
          Present, latestReview, Answered, SaveReview, SaveVerdict, RemoveWorktree,
          SaveRevalidation
    <3>2. act[h].u \in Upgrades
      BY <3>1, Locals
    <3>. QED  BY <1>0, <1>5, <2>2, <3>2, HandlersServe, ServedOn
  <2>. QED  BY <1>5, <2>1, <2>2 DEF HandlerStep
<1>. QED
  BY <1>1, <1>2, <1>3, <1>4, <1>5 DEF Next, Throw, ReviewDirectly, vars, upgradeVars

\* No path through the handlers of a request leaves it in progress with nobody at
\* work on it, where analyze and generate would refuse it for good, as long as no
\* statement throws: for any number of requests, and of handlers of one request.
THEOREM UpgradeServed == Spec => []RequestIsServed
<1>1. Init => RequestIsServed
  BY DEF Init, RequestIsServed
<1>. QED  BY <1>1, InitInv, StepInv, StepServed, PTL DEF Spec
=============================================================================
