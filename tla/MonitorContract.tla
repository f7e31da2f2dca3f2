--------------------------- MODULE MonitorContract ---------------------------
(***************************************************************************)
(* What WorkloadMonitor promises about the custom resources of the objects *)
(* in the cluster, without threads, caches, queues or restarts.  They may  *)
(* lag behind the objects, but apart from what users do to them            *)
(*   - a resource is made only where there is none, and what is written    *)
(*     is made from a version the object of that name has had, one that    *)
(*     did not exclude itself and was not being deleted,                   *)
(*   - an update leaves the owner reference as it is, and never brings     *)
(*     back a resource that is gone,                                       *)
(*   - a resource is removed only if its object was at some time not to be *)
(*     monitored, or, of a workload, after a call has failed; or, where    *)
(*     housekeeping looks after the resources, if the controller or its    *)
(*     earlier run gave a resource of that name its owner reference.       *)
(***************************************************************************)
EXTENDS Naturals

CONSTANTS
    Ids, Objs, CRs, None,
    Fallible,       \* a failed call counts as a reason to remove a resource
    Housekept,      \* housekeeping looks after the resources
    Fit(_),         \* a version of an object that is to be monitored
    SpecOf(_)       \* the specification made from it

VARIABLES
    objs,       \* objects
    wanted,     \* those that are to be monitored
    crs,        \* custom resources
    edits,      \* how often users have changed a resource
    failed,     \* a call has failed
    past,       \* past[i]: the versions object i has had so far
    excused,    \* objects that at some time were not to be monitored
    claimed     \* names that at some time had a resource with its owner

vars == <<objs, wanted, crs, edits, failed, past, excused, claimed>>

Owned(c) == c # None /\ c.owned

Init ==
    /\ objs \in [Ids -> Objs \cup {None}]
    /\ wanted \in SUBSET Ids
    /\ crs \in [Ids -> CRs \cup {None}]
    /\ edits = 0
    /\ failed = FALSE
    /\ past = [i \in Ids |-> {o \in Objs : objs[i] = o}]
    /\ excused = Ids \ wanted
    /\ claimed = {i \in Ids : Owned(crs[i])}

Remember ==
    /\ past' = [i \in Ids |-> past[i] \cup {o \in Objs : objs'[i] = o}]
    /\ excused' = excused \cup (Ids \ wanted')
    /\ claimed' = claimed \cup {i \in Ids : Owned(crs'[i])}
    /\ failed => failed'

Cluster == UNCHANGED <<objs, wanted>>

Change ==
    /\ objs' \in [Ids -> Objs \cup {None}]
    /\ wanted' \in SUBSET Ids
    /\ UNCHANGED <<crs, edits>>

Edit(i) ==
    /\ \E c \in CRs \cup {None} : crs' = [crs EXCEPT ![i] = c]
    /\ edits' = edits + 1
    /\ Cluster

Create(i, o) ==
    /\ o \in past[i] /\ Fit(o)
    /\ crs[i] = None
    /\ crs' = [crs EXCEPT ![i] = [spec |-> SpecOf(o), owned |-> TRUE]]
    /\ Cluster /\ UNCHANGED edits

Update(i, o) ==
    /\ o \in past[i] /\ Fit(o)
    /\ crs[i] # None
    /\ crs' = [crs EXCEPT ![i].spec = SpecOf(o)]
    /\ Cluster /\ UNCHANGED edits

Remove(i) ==
    /\ i \in excused \/ (Fallible /\ failed) \/ (Housekept /\ i \in claimed)
    /\ crs' = [crs EXCEPT ![i] = None]
    /\ Cluster /\ UNCHANGED edits

Next ==
    /\ \/ Change
       \/ \E i \in Ids : Edit(i) \/ Remove(i)
       \/ \E i \in Ids, o \in Objs : Create(i, o) \/ Update(i, o)
    /\ Remember

Spec == Init /\ [][Next]_vars
=============================================================================
