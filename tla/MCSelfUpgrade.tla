--------------------------- MODULE MCSelfUpgrade ----------------------------
(***************************************************************************)
(* Instances of SelfUpgrade for TLC.                                       *)
(***************************************************************************)
EXTENDS SelfUpgrade, TLC

\* No property of the run is a liveness property.
Interchangeable == Permutations(Handlers) \cup Permutations(Patches)
=============================================================================
