----------------------------- MODULE MCJobQueue -----------------------------
(***************************************************************************)
(* Instances of JobQueue for TLC: values for the constants that a          *)
(* configuration file cannot write.                                        *)
(***************************************************************************)
EXTENDS JobQueue

CONSTANTS a, b

\* An extraction and, behind it, a proactive job.
MCMixed == [j \in Jobs |-> IF j = a THEN "multimodal_deep_extract"
                                    ELSE "beast_proactive"]
MCPriority == [j \in Jobs |-> IF j = a THEN 80 ELSE 50]
MCShard == [j \in Jobs |-> IF j = a THEN "high" ELSE "normal"]

\* An upload.
MCUpload == [j \in Jobs |-> "file_understand"]
=============================================================================
