---- MODULE MCDefaultGroups ----
(* Small instances of DefaultGroups for TLC. *)
EXTENDS DefaultGroups

\* The group's resource starts absent, as an earlier run left it, or renamed.
MCInitObjs == {None} \cup [excluded: {FALSE}, deleting: {FALSE}, notes: {NoNotes}]

MCInitCRs == {None} \cup [spec: {NoNotes} \cup OtherSpecs, owned: {TRUE}]
====
