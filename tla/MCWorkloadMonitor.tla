---- MODULE MCWorkloadMonitor ----
(* Small instances of WorkloadMonitor for TLC. *)
EXTENDS WorkloadMonitor, TLC

\* An object starts absent or as a plain one; a custom resource starts absent
\* or left over from an earlier run; users make theirs by an edit.
MCInitObjs == {None} \cup [excluded: {FALSE}, deleting: {FALSE}, notes: {NoNotes}]

MCInitCRs == {None} \cup [spec: {NoNotes}, owned: {TRUE}]

Symmetry == Permutations(Ids)
====
