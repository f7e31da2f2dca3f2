---------------------------- MODULE IcingaMirror ----------------------------
(***************************************************************************)
(* What the synchronisation of custom resources to Icinga promises,        *)
(* without threads, caches, queues or restarts.  Icinga may lag behind the *)
(* custom resources, but                                                   *)
(*   - every object written is the image of a specification its resource   *)
(*     has had,                                                            *)
(*   - an object disappears only if a resource that asked for its name has *)
(*     been absent at some time: an object whose resource has always been  *)
(*     there is never removed, not even for a moment,                      *)
(*   - for host groups and hosts, nothing is written over an object that   *)
(*     another cluster has had since before the controller started.        *)
(***************************************************************************)
EXTENDS Naturals

CONSTANTS Kind, Keys, Names, Specs, Objects, Tag, None, Image(_, _)

VARIABLES
    cr,         \* custom resources
    icinga,     \* Icinga objects
    past,       \* past[k]: the specifications resource k has had so far
    gone,       \* resources that have been absent at some time
    kept        \* names another cluster has held since the start

vars == <<cr, icinga, past, gone, kept>>

Foreign(o) == o # None /\ o.cluster # Tag

\* An object found at the start counts as written for its owner's specification
\* of an earlier time.
Init ==
    /\ cr \in [Keys -> Specs \cup {None}]
    /\ icinga \in [Names -> Objects \cup {None}]
    /\ past = [k \in Keys |-> {s \in Specs : cr[k] = s \/ icinga[s.name] = Image(k, s)}]
    /\ gone = {k \in Keys : cr[k] = None}
    /\ kept = {n \in Names : Foreign(icinga[n])}

Remember ==
    /\ past' = [k \in Keys |-> past[k] \cup {s \in Specs : cr'[k] = s}]
    /\ gone' = gone \cup {k \in Keys : cr'[k] = None}
    /\ kept' = {n \in kept : Foreign(icinga'[n])}

Change(k, s) ==
    /\ cr' = [cr EXCEPT ![k] = s]
    /\ UNCHANGED icinga

Write(k, s) ==
    /\ s \in past[k]
    /\ Kind = "Check" \/ s.name \notin kept
    /\ icinga' = [icinga EXCEPT ![s.name] = Image(k, s)]
    /\ UNCHANGED cr

Remove(n) ==
    /\ \E k \in gone : \E s \in past[k] : s.name = n
    /\ icinga' = [icinga EXCEPT ![n] = None]
    /\ UNCHANGED cr

\* Another cluster creates an object or removes one of its own.
Other(n) ==
    /\ icinga[n] = None \/ Foreign(icinga[n])
    /\ \E o \in Objects \cup {None} :
           /\ o = None \/ Foreign(o)
           /\ icinga' = [icinga EXCEPT ![n] = o]
    /\ UNCHANGED cr

Next ==
    /\ \/ \E k \in Keys, s \in Specs \cup {None} : Change(k, s)
       \/ \E k \in Keys, s \in Specs : Write(k, s)
       \/ \E n \in Names : Remove(n) \/ Other(n)
    /\ Remember

Spec == Init /\ [][Next]_vars
=============================================================================
