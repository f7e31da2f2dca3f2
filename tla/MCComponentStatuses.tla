---- MODULE MCComponentStatuses ----
(* Small instances of ComponentStatuses for TLC. *)
EXTENDS ComponentStatuses

\* There is a node of a status's name or none. The resource starts absent, or as
\* the refresher left it, or as the worker of the nodes did.
MCInitObjs == {None} \cup [excluded: {FALSE}, deleting: {FALSE}, notes: {NoNotes}]

MCInitCRs == {None, [spec |-> StatusSpec, owned |-> FALSE], [spec |-> NoNotes, owned |-> TRUE]}
====
