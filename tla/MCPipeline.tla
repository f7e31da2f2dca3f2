---- MODULE MCPipeline ----
(* Small instances of Pipeline for TLC. *)
EXTENDS Pipeline

\* A workload starts absent or as a plain one. What an earlier run leaves behind
\* comes from a restart.
MCInitObjs == {None} \cup [excluded: {FALSE}, deleting: {FALSE}, notes: {NoNotes}]

MCInitCRs == {None}

MCInitIcinga == {None}
====
