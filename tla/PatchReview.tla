---------------------------- MODULE PatchReview -----------------------------
(***************************************************************************)
(* Patch proposals: the diff of a sandbox run or of a self-upgrade, which  *)
(* an admin applies to the workspace of the operator or rejects.  A review *)
(* reads the proposal, checks its status, and saves it by id later; in     *)
(* between git may change the workspace.  The status is all that keeps a   *)
(* diff from being applied again: git refuses a diff when its context does *)
(* not match, which an applied diff may still do.                          *)
(***************************************************************************)
EXTENDS Naturals, FiniteSets

CONSTANTS
    Patches,        \* primary keys of sandbox_patch_proposals
    Handlers,       \* requests of the API in flight
    None

ASSUME ReviewAssumption == None \notin Patches

VARIABLES
    patch,      \* status of each proposal
    tree,       \* how often git answered that it applied each diff
    review,     \* where each request is, and its proposal
    contested   \* history: proposals reviewed by two requests at once, or by one
                \* that died between git's answer and the save of the row

reviewVars == <<patch, tree, review, contested>>

PatchStatus == {"absent", "pending", "approved", "rejected", "applied", "apply_failed"}
ReviewPC == {"idle", "read", "approve", "check", "git", "applied", "apply_failed",
             "reject", "done", "refused"}
ReviewRec == [pc : ReviewPC, p : Patches \cup {None}]
Rest == [pc |-> "idle", p |-> None]

ReviewTypeOK ==
    /\ patch \in [Patches -> PatchStatus]
    /\ tree \in [Patches -> Nat]
    /\ review \in [Handlers -> ReviewRec]
    /\ contested \subseteq Patches

ReviewInit ==
    /\ patch = [p \in Patches |-> "absent"]
    /\ tree = [p \in Patches |-> 0]
    /\ review = [h \in Handlers |-> Rest]
    /\ contested = {}

Applyable == {"pending", "approved"}
At(h, pc) == review' = [review EXCEPT ![h].pc = pc]

\* A request has its proposal in hand from the read of the row to the last save.
InHand == {"approve", "check", "git", "applied", "apply_failed", "reject"}
Holds(h, p) == review[h].pc \in InHand /\ review[h].p = p
Take(h, p) == contested' = IF \E k \in Handlers \ {h} : Holds(k, p)
                             THEN contested \cup {p} ELSE contested

----------------------------------------------------------------------------
\* A self-upgrade, or captureDiffPatch of a sandbox run, proposes a diff.
Propose(p) ==
    /\ patch[p] = "absent"
    /\ patch' = [patch EXCEPT ![p] = "pending"]

\* The caller is a route of the admin, or applyToProduction, which looks at the
\* answer: "done" when git took the diff, "refused" otherwise.
callApply(h, p) == review' = [review EXCEPT ![h] = [pc |-> "read", p |-> p]]

\* Mutant: the status of the row is not looked at.
applyPatchProposalMutant(h) ==
    /\ review[h].pc = "read"
    /\ At(h, "approve")
    /\ Take(h, review[h].p)
    /\ UNCHANGED <<patch, tree>>

applyPatchProposal(h) ==
    /\ review[h].pc = "read"
    /\ \/ /\ patch[review[h].p] \in Applyable
          /\ At(h, "approve")
          /\ Take(h, review[h].p)
       \/ /\ patch[review[h].p] \notin Applyable
          /\ At(h, "refused")
          /\ UNCHANGED contested
    /\ UNCHANGED <<patch, tree>>

rejectPatchProposal(h, p) ==
    /\ review[h].pc = "idle"
    /\ patch[p] \in Applyable
    /\ review' = [review EXCEPT ![h] = [pc |-> "reject", p |-> p]]
    /\ Take(h, p)
    /\ UNCHANGED <<patch, tree>>

\* The four saves of a review: what each writes, and what comes next.
Written(pc) == CASE pc = "approve" -> "approved"
                 [] pc = "applied" -> "applied"
                 [] pc = "apply_failed" -> "apply_failed"
                 [] pc = "reject" -> "rejected"
After(pc) == CASE pc = "approve" -> "check"
               [] pc = "applied" -> "done"
               [] pc \in {"apply_failed", "reject"} -> "refused"

SavePatch(h) ==
    /\ review[h].pc \in {"approve", "applied", "apply_failed", "reject"}
    /\ patch' = [patch EXCEPT ![review[h].p] = Written(review[h].pc)]
    /\ At(h, After(review[h].pc))
    /\ UNCHANGED <<tree, contested>>

\* git apply --check: it may take any diff, and refuse any.
CheckPatch(h) ==
    /\ review[h].pc = "check"
    /\ At(h, "git") \/ At(h, "apply_failed")
    /\ UNCHANGED <<patch, tree, contested>>

\* git apply.
ApplyPatch(h) ==
    /\ review[h].pc = "git"
    /\ \/ tree' = [tree EXCEPT ![review[h].p] = @ + 1] /\ At(h, "applied")
       \/ UNCHANGED tree /\ At(h, "apply_failed")
    /\ UNCHANGED <<patch, contested>>

ReviewStep(h) ==
    \/ applyPatchProposal(h) \/ SavePatch(h) \/ CheckPatch(h) \/ ApplyPatch(h)
=============================================================================
