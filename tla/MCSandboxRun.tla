---------------------------- MODULE MCSandboxRun ----------------------------
(***************************************************************************)
(* Instances of SandboxRun for TLC.                                        *)
(***************************************************************************)
EXTENDS RunRefinement

MCPlan == [r \in Runs |-> <<"read_file", "write_file">>]
MCRank == [r \in Runs |-> 1]

\* The default rules.
MCRules == [deny |-> {}, requireApproval |-> {"write_file", "patch_file"},
            rewrites |-> {"search_repo"}, allow |-> {"read_file", "list_directory"}]
=============================================================================
