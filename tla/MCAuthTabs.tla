----------------------------- MODULE MCAuthTabs -----------------------------
(***************************************************************************)
(* Instances of AuthTabs for TLC.                                          *)
(***************************************************************************)
EXTENDS AuthTabs, TLC

Interchangeable == Permutations(Tokens) \cup Permutations(Reqs) \cup Permutations(Tabs)
=============================================================================
