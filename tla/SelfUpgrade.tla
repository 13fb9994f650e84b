---------------------------- MODULE SelfUpgrade -----------------------------
(***************************************************************************)
(* A self-upgrade: a request that is analysed, generates a diff in a git   *)
(* worktree of its own, is previewed, and is revised, rejected, or         *)
(* approved and then applied to production by PatchReview.                 *)
(*                                                                         *)
(* Every handler reads the request, then the latest review, and saves each *)
(* of the two entities whole later.                                        *)
(***************************************************************************)
EXTENDS PatchReview, Sequences

CONSTANTS
    Upgrades,       \* primary keys of self_upgrade_requests
    MaxIntrusions   \* bound: handlers that die, and reviews that by-pass this service

ASSUME UpgradeAssumption == None \notin Upgrades /\ MaxIntrusions \in Nat

VARIABLES
    upgrade,    \* self_upgrade_requests: status, whether it has a worktree
    reported,   \* whether an analysis report was saved
    preview,    \* self_upgrade_review_sessions of each request, oldest first
    act,        \* the handler's place, and the entities it has read
    approved,   \* history: proposals whose preview passed approveApply's check
    intrusions

upgradeVars == <<upgrade, reported, preview, act, approved>>
vars == <<reviewVars, upgradeVars, intrusions>>

UpgradeStatus ==
    {"absent", "pending_analysis", "analyzing", "analysis_complete", "generating",
     "validating", "preview_ready", "revision_requested", "approved_apply",
     "applied", "rejected", "failed"}
UpgradeRow == [status : UpgradeStatus, worktree : BOOLEAN]
PreviewStatus == {"ready", "revision_requested", "rejected", "approved_apply",
                  "applied", "superseded"}
PreviewRow == [status : PreviewStatus, readyForApply : BOOLEAN, p : Patches]

Verdicts == {"revise", "reject", "approve", "apply"}
PC == {"idle", "analyze", "study", "analyzed", "supersede", "generate", "worktree",
       "diff", "propose", "validate", "package", "present", "validated",
       "latest", "applying", "save_review", "save_request", "remove_worktree"}
\* A handler keeps of the request whether it had a worktree: each of its saves
\* says which status it writes.  NoPreview is "no preview read, or done with".
NoPreview == [status |-> "superseded", readyForApply |-> FALSE, p |-> None]
ActRec == [pc : PC, verdict : Verdicts, u : Upgrades \cup {None}, worktree : BOOLEAN,
           nth : Nat, seen : PreviewRow \cup {NoPreview}]
Resting == [pc |-> "idle", verdict |-> "revise", u |-> None, worktree |-> FALSE,
            nth |-> 0, seen |-> NoPreview]

TypeOK ==
    /\ ReviewTypeOK
    /\ upgrade \in [Upgrades -> UpgradeRow]
    /\ reported \in [Upgrades -> BOOLEAN]
    /\ preview \in [Upgrades -> Seq(PreviewRow)]
    /\ act \in [Handlers -> ActRec]
    /\ approved \subseteq Patches
    /\ intrusions \in 0 .. MaxIntrusions

Init ==
    /\ ReviewInit
    /\ upgrade = [u \in Upgrades |-> [status |-> "absent", worktree |-> FALSE]]
    /\ reported = [u \in Upgrades |-> FALSE]
    /\ preview = [u \in Upgrades |-> <<>>]
    /\ act = [h \in Handlers |-> Resting]
    /\ approved = {}
    /\ intrusions = 0

----------------------------------------------------------------------------
\* Entities in memory and in the database

Free(h) == act[h].pc = "idle" /\ review[h].pc = "idle"
Goto(h, pc) == act' = [act EXCEPT ![h].pc = pc]
End(h) == act' = [act EXCEPT ![h] = Resting]

\* save(req): the whole entity, with a new status, over whatever is there.
SaveRequest(h, status, worktree, pc) ==
    /\ upgrade' = [upgrade EXCEPT ![act[h].u] = [status |-> status, worktree |-> worktree]]
    /\ act' = [act EXCEPT ![h] = IF pc = "idle" THEN Resting
                                 ELSE [@ EXCEPT !.pc = pc, !.worktree = worktree]]
SaveStatus(h, status, pc) == SaveRequest(h, status, act[h].worktree, pc)

\* A request that passes the first check of its handler.
Begin(h, u, pc, verdict) ==
    act' = [act EXCEPT ![h] = [Resting EXCEPT !.pc = pc, !.verdict = verdict,
                                              !.u = u,
                                              !.worktree = upgrade[u].worktree]]

KeepPreviews == UNCHANGED <<preview, approved>>

createRequest(u) ==
    /\ upgrade[u].status = "absent"
    /\ upgrade' = [upgrade EXCEPT ![u].status = "pending_analysis"]
    /\ UNCHANGED <<reviewVars, reported, act>> /\ KeepPreviews

----------------------------------------------------------------------------
\* analyze

Analysable == {"pending_analysis", "analysis_complete", "revision_requested", "failed"}

analyze(h, u) ==
    /\ Free(h)
    /\ upgrade[u].status \in Analysable
    /\ Begin(h, u, "analyze", "revise")
    /\ UNCHANGED <<reviewVars, upgrade, reported>> /\ KeepPreviews

StartAnalysis(h) ==
    /\ act[h].pc = "analyze"
    /\ SaveStatus(h, "analyzing", "study")
    /\ UNCHANGED <<reviewVars, reported>> /\ KeepPreviews

\* Production may be no git work tree.
Study(h) ==
    /\ act[h].pc = "study"
    /\ \/ /\ SaveStatus(h, "failed", "idle")
          /\ UNCHANGED reported
       \/ /\ reported' = [reported EXCEPT ![act[h].u] = TRUE]
          /\ Goto(h, "analyzed")
          /\ UNCHANGED upgrade
    /\ UNCHANGED reviewVars /\ KeepPreviews

EndAnalysis(h) ==
    /\ act[h].pc = "analyzed"
    /\ SaveStatus(h, "analysis_complete", "idle")
    /\ UNCHANGED <<reviewVars, reported>> /\ KeepPreviews

----------------------------------------------------------------------------
\* generate

\* Bound: there is a row of Patches left for the proposal of each generation.
Generating == {"supersede", "generate", "worktree", "diff", "propose"}

generate(h, u) ==
    /\ Free(h)
    /\ upgrade[u].status \in {"analysis_complete", "revision_requested"}
    /\ Cardinality({k \in Handlers : act[k].pc \in Generating})
         < Cardinality({p \in Patches : patch[p] = "absent"})
    /\ Begin(h, u, "supersede", "revise")
    /\ UNCHANGED <<reviewVars, upgrade, reported>> /\ KeepPreviews

supersedeOpenReviews(h) ==
    /\ act[h].pc = "supersede"
    /\ preview' = [preview EXCEPT ![act[h].u] =
         [i \in 1 .. Len(@) |-> IF @[i].status \in {"ready", "revision_requested"}
                                  THEN [@[i] EXCEPT !.status = "superseded"] ELSE @[i]]]
    /\ Goto(h, "generate")
    /\ UNCHANGED <<reviewVars, upgrade, reported, approved>>

StartGeneration(h) ==
    /\ act[h].pc = "generate"
    /\ SaveStatus(h, "generating", "worktree")
    /\ UNCHANGED <<reviewVars, reported>> /\ KeepPreviews

\* git worktree add may fail (Throw).
ensureWorktree(h) ==
    /\ act[h].pc = "worktree"
    /\ SaveRequest(h, "generating", TRUE, "diff")
    /\ UNCHANGED <<reviewVars, reported>> /\ KeepPreviews

Diff(h) ==
    /\ act[h].pc = "diff"
    /\ \/ SaveStatus(h, "failed", "idle")
       \/ SaveStatus(h, "generating", "propose")
    /\ UNCHANGED <<reviewVars, reported>> /\ KeepPreviews

\* Mutant: the patch set is saved without its proposal.
ProposeDiffMutant(h) ==
    /\ act[h].pc = "propose"
    /\ \E p \in Patches : Propose(p)
    /\ Goto(h, "validate")
    /\ UNCHANGED <<tree, review, contested, upgrade, reported>> /\ KeepPreviews

ProposeDiff(h) ==
    /\ act[h].pc = "propose"
    /\ \E p \in Patches :
         /\ Propose(p)
         /\ act' = [act EXCEPT ![h].pc = "validate", ![h].seen.p = p]
    /\ UNCHANGED <<tree, review, contested, upgrade, reported>> /\ KeepPreviews

StartValidation(h) ==
    /\ act[h].pc = "validate"
    /\ SaveStatus(h, "validating", "package")
    /\ UNCHANGED <<reviewVars, reported>> /\ KeepPreviews

Package(h) ==
    /\ act[h].pc = "package"
    /\ LET u == act[h].u
       IN  IF reported[u]
             THEN /\ preview' = [preview EXCEPT ![u] = Append(@,
                       [status |-> "ready", readyForApply |-> FALSE, p |-> act[h].seen.p])]
                  /\ act' = [act EXCEPT ![h].pc = "present", ![h].seen = NoPreview]
                  /\ UNCHANGED upgrade
             ELSE /\ SaveStatus(h, "failed", "idle")
                  /\ UNCHANGED preview
    /\ UNCHANGED <<reviewVars, reported, approved>>

Present(h) ==
    /\ act[h].pc = "present"
    /\ SaveStatus(h, "preview_ready", "idle")
    /\ UNCHANGED <<reviewVars, reported>> /\ KeepPreviews

----------------------------------------------------------------------------
\* The verdicts of an admin

Wanted(verdict) == CASE verdict \in {"revise", "approve"} -> {"preview_ready"}
                     [] verdict = "apply" -> {"approved_apply"}
                     [] verdict = "reject" -> UpgradeStatus \ {"absent"}

\* requestRevision, reject, approveApply and applyToProduction begin alike.
decide(h, u, verdict) ==
    /\ Free(h)
    /\ upgrade[u].status \in Wanted(verdict)
    /\ Begin(h, u, "latest", verdict)
    /\ UNCHANGED <<reviewVars, upgrade, reported>> /\ KeepPreviews

Latest(u) == preview[u][Len(preview[u])]
See(h, pc) == act' = [act EXCEPT ![h].pc = pc, ![h].nth = Len(preview[act[h].u]),
                                 ![h].seen = Latest(act[h].u)]

\* Mutant: applyToProduction trusts the status of the request.
AcceptsMutant(verdict, row) == verdict = "approve" => row.status = "ready"

\* What each verdict asks of the latest preview.
Accepts(verdict, row) ==
    CASE verdict = "approve" -> row.status = "ready"
      [] verdict = "apply" -> row.status = "approved_apply" /\ row.readyForApply
      [] verdict \in {"revise", "reject"} -> TRUE

latestReview(h) ==
    /\ act[h].pc = "latest"
    /\ LET u == act[h].u
           v == act[h].verdict
       IN  IF preview[u] = <<>>
             THEN /\ IF v = "reject" THEN Goto(h, "save_request") ELSE End(h)
                  /\ UNCHANGED <<review, approved>>
           ELSE IF ~Accepts(v, Latest(u))
             THEN End(h) /\ UNCHANGED <<review, approved>>
           ELSE /\ See(h, IF v = "apply" THEN "applying" ELSE "save_review")
                /\ IF v = "apply" THEN callApply(h, Latest(u).p) ELSE UNCHANGED review
                /\ approved' = IF v = "approve" THEN approved \cup {Latest(u).p} ELSE approved
    /\ UNCHANGED <<patch, tree, contested, upgrade, reported, preview>>

\* Mutant: applyToProduction does not look at the answer.
AnsweredMutant(h) ==
    /\ act[h].pc = "applying"
    /\ review[h].pc \in {"done", "refused"}
    /\ Goto(h, "save_review")
    /\ review' = [review EXCEPT ![h] = Rest]
    /\ UNCHANGED <<patch, tree, contested, upgrade, reported>> /\ KeepPreviews

\* applyToProduction goes on when applyPatchProposal answers "applied".
Answered(h) ==
    /\ act[h].pc = "applying"
    /\ review[h].pc \in {"done", "refused"}
    /\ IF review[h].pc = "done" THEN Goto(h, "save_review") ELSE End(h)
    /\ review' = [review EXCEPT ![h] = Rest]
    /\ UNCHANGED <<patch, tree, contested, upgrade, reported>> /\ KeepPreviews

\* The preview as the verdict leaves it.
Judged(verdict, row) ==
    CASE verdict = "revise" -> [row EXCEPT !.status = "revision_requested"]
      [] verdict = "reject" -> [row EXCEPT !.status = "rejected"]
      [] verdict = "approve" -> [row EXCEPT !.status = "approved_apply", !.readyForApply = TRUE]
      [] verdict = "apply" -> [row EXCEPT !.status = "applied"]

SaveReview(h) ==
    /\ act[h].pc = "save_review"
    /\ preview' = [preview EXCEPT ![act[h].u][act[h].nth] = Judged(act[h].verdict, act[h].seen)]
    /\ act' = [act EXCEPT ![h].pc = "save_request", ![h].nth = 0, ![h].seen = NoPreview]
    /\ UNCHANGED <<reviewVars, upgrade, reported, approved>>

Outcome(verdict) == CASE verdict = "revise" -> "revision_requested"
                      [] verdict = "reject" -> "rejected"
                      [] verdict = "approve" -> "approved_apply"
                      [] verdict = "apply" -> "applied"

SaveVerdict(h) ==
    /\ act[h].pc = "save_request"
    /\ SaveStatus(h, Outcome(act[h].verdict),
                   IF act[h].verdict = "apply" /\ act[h].worktree
                     THEN "remove_worktree" ELSE "idle")
    /\ UNCHANGED <<reviewVars, reported>> /\ KeepPreviews

RemoveWorktree(h) ==
    /\ act[h].pc = "remove_worktree"
    /\ SaveRequest(h, "applied", FALSE, "idle")
    /\ UNCHANGED <<reviewVars, reported>> /\ KeepPreviews

\* revalidate saves the preview it read, with a new summary (not modelled).
revalidate(h, u) ==
    /\ Free(h)
    /\ upgrade[u].worktree
    /\ preview[u] # <<>>
    /\ act' = [act EXCEPT ![h] = [Resting EXCEPT !.pc = "validated", !.u = u,
                                  !.nth = Len(preview[u]), !.seen = Latest(u)]]
    /\ UNCHANGED <<reviewVars, upgrade, reported>> /\ KeepPreviews

SaveRevalidation(h) ==
    /\ act[h].pc = "validated"
    /\ preview' = [preview EXCEPT ![act[h].u][act[h].nth] = act[h].seen]
    /\ End(h)
    /\ UNCHANGED <<reviewVars, upgrade, reported, approved>>

----------------------------------------------------------------------------
Intrude == intrusions < MaxIntrusions /\ intrusions' = intrusions + 1

\* A statement throws or the process dies: nothing is undone.
Throw(h) ==
    /\ Intrude
    /\ ~Free(h)
    /\ act' = [act EXCEPT ![h] = Resting]
    /\ review' = [review EXCEPT ![h] = Rest]
    /\ contested' = IF review[h].pc = "applied" THEN contested \cup {review[h].p}
                    ELSE contested
    /\ UNCHANGED <<patch, tree, upgrade, reported>> /\ KeepPreviews

UpgradeStep(h) ==
    \/ StartAnalysis(h) \/ Study(h) \/ EndAnalysis(h)
    \/ supersedeOpenReviews(h) \/ StartGeneration(h) \/ ensureWorktree(h) \/ Diff(h)
    \/ ProposeDiff(h) \/ StartValidation(h) \/ Package(h) \/ Present(h)
    \/ latestReview(h) \/ Answered(h) \/ SaveReview(h) \/ SaveVerdict(h)
    \/ RemoveWorktree(h) \/ SaveRevalidation(h)

\* The answer of a review nobody in this module waits for.
EndReview(h) ==
    /\ act[h].pc = "idle"
    /\ review[h].pc \in {"done", "refused"}
    /\ review' = [review EXCEPT ![h] = Rest]
    /\ UNCHANGED <<patch, tree, contested>>

Arrive(h, u) ==
    \/ analyze(h, u) \/ generate(h, u) \/ revalidate(h, u)
    \/ \E v \in Verdicts : decide(h, u, v)

\* The admin routes of patch proposals take those of a self-upgrade too.
ReviewDirectly(h, p) ==
    /\ Intrude
    /\ Free(h)
    /\ \/ rejectPatchProposal(h, p)
       \/ patch[p] # "absent" /\ callApply(h, p) /\ UNCHANGED <<patch, tree, contested>>
    /\ UNCHANGED upgradeVars

HandlerStep(h) ==
    \/ UpgradeStep(h)
    \/ (ReviewStep(h) \/ EndReview(h)) /\ UNCHANGED upgradeVars

Next ==
    \/ \E h \in Handlers :
         \/ Throw(h)
         \/ \E p \in Patches : ReviewDirectly(h, p)
    \/ /\ \/ \E u \in Upgrades : createRequest(u)
          \/ \E h \in Handlers, u \in Upgrades : Arrive(h, u)
          \/ \E h \in Handlers : HandlerStep(h)
       /\ UNCHANGED intrusions

Spec == Init /\ [][Next]_vars

----------------------------------------------------------------------------
\* A preview that says so was approved by an admin, and git said it applied its
\* diff, although every row involved is saved from a copy that may be
\* stale, and a newer preview may appear between approve and apply.
AppliedWasApproved ==
    \A u \in Upgrades : \A i \in DOMAIN preview[u] :
        preview[u][i].status = "applied" =>
            preview[u][i].p \in approved /\ tree[preview[u][i].p] > 0

\* A proposal that requests review one after the other gets one verdict: git
\* applies its diff once if the row says applied, and not at all if the row says
\* rejected, failed or pending, however many routes and self-upgrades ask for it,
\* of whatever preview, and wherever one of them dies before git's answer.  Two
\* requests that read the row before either saves may apply the diff twice, or
\* apply one whose row says rejected: nothing but the status at the read is checked.
OneVerdict ==
    \A p \in Patches \ contested :
        /\ tree[p] <= 1
        /\ patch[p] = "applied" => tree[p] = 1
        /\ patch[p] \in {"pending", "rejected", "apply_failed"} => tree[p] = 0

\* A request that says so has been applied: git said it applied one of its diffs.
AppliedIsInTree ==
    \A u \in Upgrades : upgrade[u].status = "applied" =>
        \E i \in DOMAIN preview[u] : tree[preview[u][i].p] > 0
=============================================================================
