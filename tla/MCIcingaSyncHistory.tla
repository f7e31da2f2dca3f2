---- MODULE MCIcingaSyncHistory ----
(* Small instances of IcingaSyncHistory for TLC. *)
EXTENDS IcingaSyncHistory, MCIcingaSync
====
