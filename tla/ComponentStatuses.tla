-------------------------- MODULE ComponentStatuses --------------------------
(***************************************************************************)
(* RefreshComponentStatutes beside the nodes.  The statuses of the control *)
(* plane cannot be watched, so every 60 seconds a goroutine of its own     *)
(* lists them and reconciles a custom resource kube-system/cs-... for each *)
(* (a Host, or a Check with the host mapping).  Nothing ever removes one.  *)
(*                                                                         *)
(* A node's custom resource has the node's own name, also in kube-system:  *)
(* a node named cs-... shares the resource of a status, and housekeeping   *)
(* of custom resources meets both kinds.  Ids are names of resources.      *)
(***************************************************************************)
EXTENDS WorkloadMonitor

CONSTANT StatusSpec     \* the specification of a status (up to its name)

ASSUME StatusAssumption == Kind = "Node" /\ StatusSpec \in OtherSpecs

VARIABLES
    listed,     \* the resources' names of the statuses the API lists
    refresher,  \* the goroutine of RefreshComponentStatutes
    noded       \* history: names that a node has had

statusVars == <<listed, refresher>>

IdleRefresher == [pc |-> "idle", todo |-> {}, id |-> None, seen |-> None]

Refreshers == {IdleRefresher}
    \cup [pc: {"scan"}, todo: SUBSET Ids, id: {None}, seen: {None}]
    \cup [pc: {"create"}, todo: SUBSET Ids, id: Ids, seen: {None}]
    \cup [pc: {"update"}, todo: SUBSET Ids, id: Ids, seen: CRs]

\* Type invariant: above all, the refresher updates only what it has read.
StatusTypeOK ==
    TypeOK /\ listed \in SUBSET Ids /\ refresher \in Refreshers /\ noded \in SUBSET Ids

\* A resource with an owner reference is one that a node has had.
StatusInit ==
    /\ Init
    /\ listed \in SUBSET Ids
    /\ refresher = IdleRefresher
    /\ noded = {i \in Ids : objs[i] # None \/ (crs[i] # None /\ crs[i].owned)}

-----------------------------------------------------------------------------
\* A part of the control plane is added or taken away.
ListingChanges(i) ==
    /\ changes < MaxChanges
    /\ listed' = IF i \in listed THEN listed \ {i} ELSE listed \cup {i}
    /\ changes' = changes + 1
    /\ UNCHANGED <<api, informers, queue, worker, housekeeper, refresher,
                   edits, faults, crashes>>

RefresherOnly == UNCHANGED <<objs, namespace, informers, queue, worker, housekeeper, listed,
                             changes, edits, crashes>>

\* A list that fails ends the round: nothing changes.
RefresherList ==
    /\ refresher.pc = "idle"
    /\ refresher' = [IdleRefresher EXCEPT !.pc = "scan", !.todo = listed]
    /\ UNCHANGED <<crs, faults>> /\ RefresherOnly

Done(i) == [IdleRefresher EXCEPT !.pc = "scan", !.todo = refresher.todo \ {i}]

\* Mutant: a resource that is there is not compared.
RefresherGetNoCompare(i) ==
    /\ refresher.pc = "scan"
    /\ i \in refresher.todo
    /\ NoFault
    /\ refresher' = IF crs[i] = None THEN [refresher EXCEPT !.pc = "create", !.id = i] ELSE Done(i)
    /\ UNCHANGED crs /\ RefresherOnly

\* Mutant: an error of the Get is not looked at.
RefresherGetUnchecked(i) ==
    /\ refresher.pc = "scan"
    /\ i \in refresher.todo
    /\ NoFault
    /\ refresher' = IF crs[i] # None /\ crs[i].spec = StatusSpec THEN Done(i)
                    ELSE [refresher EXCEPT !.pc = "update", !.id = i, !.seen = crs[i]]
    /\ UNCHANGED crs /\ RefresherOnly

\* The resource is read from the API. An error is logged, and the next status
\* takes its turn. Owner references are not compared.
RefresherGet(i) ==
    /\ refresher.pc = "scan"
    /\ i \in refresher.todo
    /\ \/ crs[i] = None /\ NoFault
          /\ refresher' = [refresher EXCEPT !.pc = "create", !.id = i]
       \/ /\ crs[i] # None /\ crs[i].spec # StatusSpec /\ NoFault
          /\ refresher' = [refresher EXCEPT !.pc = "update", !.id = i, !.seen = crs[i]]
       \/ /\ (crs[i] # None /\ crs[i].spec = StatusSpec /\ NoFault) \/ Fault
          /\ refresher' = Done(i)
    /\ UNCHANGED crs /\ RefresherOnly

\* The new resource has no owner reference.
RefresherCreate ==
    /\ refresher.pc = "create"
    /\ \/ /\ crs[refresher.id] = None /\ NoFault
          /\ crs' = [crs EXCEPT ![refresher.id] = [spec |-> StatusSpec, owned |-> FALSE]]
       \/ /\ (crs[refresher.id] # None /\ NoFault) \/ Fault
          /\ UNCHANGED crs
    /\ refresher' = Done(refresher.id)
    /\ RefresherOnly

\* The update carries the version that was read, and its owner reference.
RefresherUpdate ==
    /\ refresher.pc = "update"
    /\ \/ /\ crs[refresher.id] = refresher.seen /\ NoFault
          /\ crs' = [crs EXCEPT ![refresher.id].spec = StatusSpec]
       \/ /\ (crs[refresher.id] # refresher.seen /\ NoFault) \/ Fault
          /\ UNCHANGED crs
    /\ refresher' = Done(refresher.id)
    /\ RefresherOnly

RefresherSleep ==
    /\ refresher.pc = "scan" /\ refresher.todo = {}
    /\ refresher' = IdleRefresher
    /\ UNCHANGED <<crs, faults>> /\ RefresherOnly

RefreshComponentStatutes ==
    \/ RefresherList
    \/ \E i \in Ids : RefresherGet(i)
    \/ RefresherCreate \/ RefresherUpdate
    \/ RefresherSleep

-----------------------------------------------------------------------------
\* A restart stops this goroutine with the others.
Others ==
    /\ Next
    /\ refresher' = IF crashes' # crashes THEN IdleRefresher ELSE refresher
    /\ UNCHANGED listed

StatusNext ==
    /\ \/ Others
       \/ ((\E i \in Ids : ListingChanges(i)) \/ RefreshComponentStatutes) /\ UNCHANGED excused
    /\ noded' = noded \cup {i \in Ids : objs'[i] # None}

StatusSpecification == StatusInit /\ [][StatusNext]_<<vars, excused, statusVars, noded>>

\* The goroutine loops for ever, with 60 seconds between the rounds.
StatusFairSpec ==
    /\ StatusSpecification
    /\ Fairness
    /\ WF_<<vars, statusVars>>(RefreshComponentStatutes)

-----------------------------------------------------------------------------
(* Properties                                                              *)

\* In the end every listed status has its custom resource, with a status's
\* specification, whatever users, failed calls and restarts did to it, and also
\* when a node of the same name came, and took the resource with it as it went.
\* While a node of that name is there, nothing is promised: the worker of the
\* nodes and the refresher overwrite each other.
EventuallyRefreshed ==
    <>[](\A i \in listed : objs[i] = None => crs[i] # None /\ crs[i].spec = StatusSpec)

\* No thread takes the resource of a status away, unless there has been a node
\* of its name: housekeeping, which looks for owners that are gone, leaves alone
\* what has no owner reference.
StatusKept ==
    [][\A i \in Ids \ noded : crs[i] # None /\ crs'[i] = None => edits' # edits]_<<vars, noded>>
=============================================================================
