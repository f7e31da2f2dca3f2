---- MODULE MCWorkloadMonitorHistory ----
(* Small instances of WorkloadMonitorHistory for TLC. *)
EXTENDS WorkloadMonitorHistory

\* As in MCWorkloadMonitor.
MCInitObjs == {None} \cup [excluded: {FALSE}, deleting: {FALSE}, notes: {NoNotes}]

MCInitCRs == {None} \cup [spec: {NoNotes}, owned: {TRUE}]
====
