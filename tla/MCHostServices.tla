---- MODULE MCHostServices ----
(* Small instances of HostServices for TLC. *)
EXTENDS HostServices
====
