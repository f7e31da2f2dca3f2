--------------------------- MODULE WorkloadMonitor ---------------------------
(***************************************************************************)
(* How kubernetes-icinga turns the objects of one kind in the cluster (a   *)
(* kind of workload, the nodes, or the namespaces) into custom resources:  *)
(* the object's informer, its work queue and worker, its delete handler,   *)
(* the mapping, and the housekeeping of custom resources, which reads the  *)
(* caches of two informers.  Each object has one custom resource of its    *)
(* own name.  What becomes of the custom resources is told by IcingaSync.  *)
(***************************************************************************)
EXTENDS Naturals, Sequences

CONSTANTS
    Kind,           \* the kind of object: an element of Kinds
    Mapping,        \* the configured mapping: "hostgroup" or "host"
    Ids,            \* names of objects
    Notes,          \* notes annotations of an object
    NoNotes,        \* the object has no notes annotation
    OtherSpecs,     \* specifications that are made from no object of this kind
    None,           \* there is no object
    InitObjs,       \* what an object may be when the model starts
    InitCRs,        \* what a custom resource may be when the model starts
    MaxChanges,     \* bound: changes to objects and to the namespace
    MaxEdits,       \* bound: changes users make to the custom resources
    MaxFaults,      \* bound: failed calls to the Kubernetes API
    MaxCrashes      \* bound: restarts of the controller

Kinds == {"Workload", "Node", "Namespace"}

\* excluded: the nomonitoring annotation is set, or the object has an owner;
\* deleting: the deletion timestamp is set.
Objs == [excluded: BOOLEAN, deleting: BOOLEAN, notes: Notes \cup {NoNotes}]

\* owned: the resource has the one owner reference its creator gave it. Of the
\* specification only the notes vary: the rest depends on the object's name.
CRs == [spec: Notes \cup {NoNotes} \cup OtherSpecs, owned: BOOLEAN]

ASSUME KindAssumption == Kind \in Kinds /\ Mapping \in {"hostgroup", "host"}
ASSUME NoneAssumption == None \notin Objs \cup CRs \cup Ids
ASSUME SpecAssumption == OtherSpecs \cap (Notes \cup {NoNotes}) = {}
ASSUME InitAssumption == InitObjs \subseteq Objs \cup {None} /\ InitCRs \subseteq CRs \cup {None}
ASSUME BoundAssumption ==
    MaxChanges \in Nat /\ MaxEdits \in Nat /\ MaxFaults \in Nat /\ MaxCrashes \in Nat

VARIABLES
    objs,       \* the objects in the Kubernetes API
    namespace,  \* the namespace of the workload has the nomonitoring annotation
    crs,        \* the custom resources in the Kubernetes API
    cache,      \* the lister of the objects
    synced,     \* HasSynced() of that informer
    pending,    \* notifications its listener has still to handle
    queue,      \* keys in the work queue
    hosts,      \* the lister of the custom resources
    hostsSynced,\* HasSynced() of that informer
    worker,     \* the worker goroutine
    housekeeper,\* the housekeeping goroutine, while it is in CrHousekeeping
    changes, edits, faults, crashes,    \* the counters the bounds are about
    excused     \* history: objects that at some time were not to be monitored

api == <<objs, namespace, crs>>
informers == <<cache, synced, pending, hosts, hostsSynced>>
vars == <<objs, namespace, crs, cache, synced, pending, queue, hosts, hostsSynced,
          worker, housekeeper, changes, edits, faults, crashes>>

-----------------------------------------------------------------------------
IdleWorker == [pc |-> "idle", id |-> None, obj |-> None, seen |-> None]
IdleHousekeeper == [pc |-> "idle", todo |-> {}, id |-> None]

Notifications == [type: {"sync", "deleted"}, id: Ids]
Workers == {IdleWorker}
    \cup [pc: {"namespace", "delete", "get", "create"}, id: Ids, obj: Objs, seen: {None}]
    \cup [pc: {"update"}, id: Ids, obj: Objs, seen: CRs]
Housekeepers == {IdleHousekeeper}
    \cup [pc: {"scan"}, todo: SUBSET Ids, id: {None}]
    \cup [pc: {"delete"}, todo: SUBSET Ids, id: Ids]

\* Type invariant.
TypeOK ==
    /\ objs \in [Ids -> Objs \cup {None}] /\ namespace \in BOOLEAN
    /\ crs \in [Ids -> CRs \cup {None}]
    /\ cache \in [Ids -> Objs \cup {None}] /\ synced \in BOOLEAN
    /\ pending \in Seq(Notifications) /\ queue \in SUBSET Ids
    /\ hosts \in [Ids -> CRs \cup {None}] /\ hostsSynced \in BOOLEAN
    /\ worker \in Workers /\ housekeeper \in Housekeepers
    /\ changes \in Nat /\ edits \in Nat /\ faults \in Nat /\ crashes \in Nat
    /\ excused \in SUBSET Ids

\* The handler of nodes does not ask whether the node is to be monitored.
Excluded(o) == Kind # "Node" /\ o.excluded

\* Object i is one that the controller creates a custom resource for.
Wanted(i) == /\ objs[i] # None /\ ~objs[i].deleting /\ ~Excluded(objs[i])
             /\ Kind = "Workload" => ~namespace

\* Only the workload's mapping copies the notes annotations.
SpecOf(o) == IF Kind = "Workload" THEN o.notes ELSE NoNotes

Init ==
    /\ objs \in [Ids -> InitObjs] /\ namespace = FALSE
    /\ crs \in [Ids -> InitCRs]
    /\ cache = [i \in Ids |-> None] /\ synced = FALSE
    /\ pending = <<>> /\ queue = {}
    /\ hosts = [i \in Ids |-> None] /\ hostsSynced = FALSE
    /\ worker = IdleWorker /\ housekeeper = IdleHousekeeper
    /\ changes = 0 /\ edits = 0 /\ faults = 0 /\ crashes = 0
    /\ excused = {i \in Ids : ~Wanted(i)}

Fault == faults < MaxFaults /\ faults' = faults + 1
NoFault == UNCHANGED faults

-----------------------------------------------------------------------------
(* The cluster and its users                                               *)

\* A deletion timestamp is never taken back; a new object has none.
ObjectChanges(i, o) ==
    /\ changes < MaxChanges
    /\ objs[i] # o
    /\ IF objs[i] = None THEN ~o.deleting
                         ELSE objs[i].deleting /\ o # None => o.deleting
    /\ objs' = [objs EXCEPT ![i] = o]
    /\ changes' = changes + 1
    /\ UNCHANGED <<namespace, crs, informers, queue, worker, housekeeper,
                   edits, faults, crashes>>

NamespaceChanges ==
    /\ Kind = "Workload"
    /\ changes < MaxChanges
    /\ namespace' = ~namespace
    /\ changes' = changes + 1
    /\ UNCHANGED <<objs, crs, informers, queue, worker, housekeeper, edits, faults, crashes>>

\* A user edits or deletes the custom resource of an object, or creates one
\* of that name before the controller does; then it has no owner reference.
UserEdits(i, c) ==
    /\ edits < MaxEdits
    /\ crs[i] # c
    /\ c # None => c.owned = (crs[i] # None /\ crs[i].owned)
    /\ crs' = [crs EXCEPT ![i] = c]
    /\ edits' = edits + 1
    /\ UNCHANGED <<objs, namespace, informers, queue, worker, housekeeper,
                   changes, faults, crashes>>

-----------------------------------------------------------------------------
(* The informers                                                           *)

InitialList ==
    /\ ~synced
    /\ cache' = objs
    /\ queue' = {i \in Ids : objs[i] # None}
    /\ synced' = TRUE
    /\ UNCHANGED <<api, pending, hosts, hostsSynced, worker, housekeeper,
                   changes, edits, faults, crashes>>

Deliver(i) ==
    /\ synced
    /\ cache[i] # objs[i]
    /\ cache' = [cache EXCEPT ![i] = objs[i]]
    /\ pending' = Append(pending,
           [type |-> IF objs[i] = None THEN "deleted" ELSE "sync", id |-> i])
    /\ UNCHANGED <<api, synced, hosts, hostsSynced, queue, worker, housekeeper,
                   changes, edits, faults, crashes>>

HostsInitialList ==
    /\ ~hostsSynced
    /\ hosts' = crs
    /\ hostsSynced' = TRUE
    /\ UNCHANGED <<api, cache, synced, pending, queue, worker, housekeeper,
                   changes, edits, faults, crashes>>

DeliverHost(i) ==
    /\ hostsSynced
    /\ hosts[i] # crs[i]
    /\ hosts' = [hosts EXCEPT ![i] = crs[i]]
    /\ UNCHANGED <<api, cache, synced, pending, hostsSynced, queue, worker, housekeeper,
                   changes, edits, faults, crashes>>

\* Mutant: a key the worker is busy with is not queued again.
HandleSyncSkipsBusy ==
    /\ pending # <<>> /\ Head(pending).type = "sync"
    /\ queue' = queue \cup ({Head(pending).id} \ {worker.id})
    /\ pending' = Tail(pending)
    /\ UNCHANGED <<api, cache, synced, hosts, hostsSynced, worker, housekeeper,
                   changes, edits, faults, crashes>>

HandleSync ==
    /\ pending # <<>> /\ Head(pending).type = "sync"
    /\ queue' = queue \cup {Head(pending).id}
    /\ pending' = Tail(pending)
    /\ UNCHANGED <<api, cache, synced, hosts, hostsSynced, worker, housekeeper,
                   changes, edits, faults, crashes>>

\* The delete handler runs in the listener's goroutine. It makes one call, so
\* it is one step; a custom resource that is gone already is no error, and a
\* failed call is only logged.
HandleDeleted ==
    /\ pending # <<>> /\ Head(pending).type = "deleted"
    /\ \/ crs' = [crs EXCEPT ![Head(pending).id] = None] /\ NoFault
       \/ UNCHANGED crs /\ Fault
    /\ pending' = Tail(pending)
    /\ UNCHANGED <<objs, namespace, cache, synced, hosts, hostsSynced, queue, worker,
                   housekeeper, changes, edits, crashes>>

\* Mutant: the informer has no resync period.
NoResync(i) == FALSE

Resync(i) ==
    /\ synced
    /\ pending = <<>>
    /\ cache[i] # None
    /\ i \notin queue
    /\ queue' = queue \cup {i}
    /\ UNCHANGED <<api, informers, worker, housekeeper, changes, edits, faults, crashes>>

-----------------------------------------------------------------------------
(* The worker                                                              *)

Work(pc, i, o) == [pc |-> pc, id |-> i, obj |-> o, seen |-> None]

\* Mutant: the deletion timestamp is not looked at.
UnlessDeletingUnread(o) == "get"

\* What to do with an object that nothing excludes from monitoring.
UnlessDeleting(o) == IF o.deleting THEN "delete" ELSE "get"

\* Mutant: the lister's error is not looked at, and the handler gets no object.
ProcessNextUnchecked(i) ==
    LET o == cache[i] IN
    /\ synced /\ hostsSynced
    /\ worker.pc = "idle"
    /\ i \in queue
    /\ queue' = queue \ {i}
    /\ worker' = IF o # None /\ Excluded(o) THEN Work("delete", i, o)
                                            ELSE Work("namespace", i, o)
    /\ UNCHANGED <<api, informers, housekeeper, changes, edits, faults, crashes>>

\* All workers wait for all informers. The custom resource of an object the
\* mapping shall not monitor is deleted.
ProcessNext(i) ==
    LET o == cache[i] IN
    /\ synced /\ hostsSynced
    /\ worker.pc = "idle"
    /\ i \in queue
    /\ queue' = queue \ {i}
    /\ worker' = IF o = None THEN IdleWorker
                 ELSE IF Excluded(o) THEN Work("delete", i, o)
                 ELSE IF Kind = "Workload" THEN Work("namespace", i, o)
                 ELSE Work(UnlessDeleting(o), i, o)
    /\ UNCHANGED <<api, informers, housekeeper, changes, edits, faults, crashes>>

\* Mutant: the namespace only has to exist.
GetNamespaceUnread ==
    /\ worker.pc = "namespace"
    /\ \/ /\ NoFault
          /\ worker' = [worker EXCEPT !.pc = UnlessDeleting(worker.obj)]
       \/ /\ Fault
          /\ worker' = [worker EXCEPT !.pc = "delete"]
    /\ UNCHANGED <<api, informers, queue, housekeeper, changes, edits, crashes>>

\* The namespace is read from the API. If that fails, the object counts as not
\* to be monitored.
GetNamespace ==
    /\ worker.pc = "namespace"
    /\ \/ /\ ~namespace /\ NoFault
          /\ worker' = [worker EXCEPT !.pc = UnlessDeleting(worker.obj)]
       \/ /\ (namespace /\ NoFault) \/ Fault
          /\ worker' = [worker EXCEPT !.pc = "delete"]
    /\ UNCHANGED <<api, informers, queue, housekeeper, changes, edits, crashes>>

Unmonitor ==
    /\ worker.pc = "delete"
    /\ \/ crs' = [crs EXCEPT ![worker.id] = None] /\ NoFault
       \/ UNCHANGED crs /\ Fault
    /\ worker' = IdleWorker
    /\ UNCHANGED <<objs, namespace, informers, queue, housekeeper, changes, edits, crashes>>

\* Here an error of the Get is not taken for NotFound. Specifications are
\* compared, owner references are not.
ReconcileGet ==
    LET c == crs[worker.id] IN
    /\ worker.pc = "get"
    /\ \/ c = None /\ NoFault /\ worker' = [worker EXCEPT !.pc = "create"]
       \/ /\ c # None /\ c.spec # SpecOf(worker.obj) /\ NoFault
          /\ worker' = [worker EXCEPT !.pc = "update", !.seen = c]
       \/ /\ (c # None /\ c.spec = SpecOf(worker.obj) /\ NoFault) \/ Fault
          /\ worker' = IdleWorker
    /\ UNCHANGED <<api, informers, queue, housekeeper, changes, edits, crashes>>

\* Mutant: a creation overwrites what is there by now.
ReconcileCreateOverwrites ==
    /\ worker.pc = "create"
    /\ crs' = [crs EXCEPT ![worker.id] = [spec |-> SpecOf(worker.obj), owned |-> TRUE]]
    /\ worker' = IdleWorker
    /\ UNCHANGED <<objs, namespace, informers, queue, housekeeper,
                   changes, edits, faults, crashes>>

ReconcileCreate ==
    /\ worker.pc = "create"
    /\ \/ /\ crs[worker.id] = None /\ NoFault
          /\ crs' = [crs EXCEPT ![worker.id] = [spec |-> SpecOf(worker.obj), owned |-> TRUE]]
       \/ /\ (crs[worker.id] # None /\ NoFault) \/ Fault
          /\ UNCHANGED crs
    /\ worker' = IdleWorker
    /\ UNCHANGED <<objs, namespace, informers, queue, housekeeper, changes, edits, crashes>>

\* Mutant: a resource is changed by deleting it and creating it again.
ReconcileUpdateReplaces ==
    /\ worker.pc = "update"
    /\ crs' = [crs EXCEPT ![worker.id] = None]
    /\ worker' = [worker EXCEPT !.pc = "create", !.seen = None]
    /\ UNCHANGED <<objs, namespace, informers, queue, housekeeper,
                   changes, edits, faults, crashes>>

\* The update carries the version that was read: the API refuses it if the
\* resource has changed or gone since.
ReconcileUpdate ==
    /\ worker.pc = "update"
    /\ \/ /\ crs[worker.id] = worker.seen /\ NoFault
          /\ crs' = [crs EXCEPT ![worker.id].spec = SpecOf(worker.obj)]
       \/ /\ (crs[worker.id] # worker.seen /\ NoFault) \/ Fault
          /\ UNCHANGED crs
    /\ worker' = IdleWorker
    /\ UNCHANGED <<objs, namespace, informers, queue, housekeeper, changes, edits, crashes>>

-----------------------------------------------------------------------------
(* Housekeeping of the custom resources                                    *)

\* Only with the hostgroup mapping, and only for Hosts.
Housekept == Mapping = "hostgroup" /\ Kind # "Namespace"

\* Mutant: resources without an owner are not skipped.
HousekeepingListAll ==
    /\ Housekept
    /\ housekeeper.pc = "idle"
    /\ housekeeper' = [pc |-> "scan", id |-> None, todo |-> {i \in Ids : hosts[i] # None}]
    /\ UNCHANGED <<api, informers, queue, worker, changes, edits, faults, crashes>>

\* It does not wait for any informer. Resources without an owner are skipped.
HousekeepingList ==
    /\ Housekept
    /\ housekeeper.pc = "idle"
    /\ housekeeper' = [pc |-> "scan", id |-> None,
                       todo |-> {i \in Ids : hosts[i] # None /\ hosts[i].owned}]
    /\ UNCHANGED <<api, informers, queue, worker, changes, edits, faults, crashes>>

\* Mutant: NotFound is an error like any other.
HousekeepingLookupKeepsAll(i) ==
    /\ housekeeper.pc = "scan"
    /\ i \in housekeeper.todo
    /\ housekeeper' = [housekeeper EXCEPT !.todo = @ \ {i}]
    /\ UNCHANGED <<api, informers, queue, worker, changes, edits, faults, crashes>>

\* Mutant: the owner is looked up in the lister of another kind.
HousekeepingLookupElsewhere(i) ==
    /\ housekeeper.pc = "scan"
    /\ i \in housekeeper.todo
    /\ housekeeper' = [pc |-> "delete", id |-> i, todo |-> housekeeper.todo \ {i}]
    /\ UNCHANGED <<api, informers, queue, worker, changes, edits, faults, crashes>>

\* The owner is looked up in the lister of its kind.
HousekeepingLookup(i) ==
    /\ housekeeper.pc = "scan"
    /\ i \in housekeeper.todo
    /\ housekeeper' = IF cache[i] = None
                      THEN [pc |-> "delete", id |-> i, todo |-> housekeeper.todo \ {i}]
                      ELSE [housekeeper EXCEPT !.todo = @ \ {i}]
    /\ UNCHANGED <<api, informers, queue, worker, changes, edits, faults, crashes>>

HousekeepingDelete ==
    /\ housekeeper.pc = "delete"
    /\ \/ crs' = [crs EXCEPT ![housekeeper.id] = None] /\ NoFault
       \/ UNCHANGED crs /\ Fault
    /\ housekeeper' = [housekeeper EXCEPT !.pc = "scan", !.id = None]
    /\ UNCHANGED <<objs, namespace, informers, queue, worker, changes, edits, crashes>>

HousekeepingSleep ==
    /\ housekeeper.pc = "scan"
    /\ housekeeper.todo = {}
    /\ housekeeper' = IdleHousekeeper
    /\ UNCHANGED <<api, informers, queue, worker, changes, edits, faults, crashes>>

-----------------------------------------------------------------------------
Restart ==
    /\ crashes < MaxCrashes
    /\ cache' = [i \in Ids |-> None] /\ synced' = FALSE
    /\ pending' = <<>> /\ queue' = {}
    /\ hosts' = [i \in Ids |-> None] /\ hostsSynced' = FALSE
    /\ worker' = IdleWorker /\ housekeeper' = IdleHousekeeper
    /\ crashes' = crashes + 1
    /\ UNCHANGED <<api, changes, edits, faults>>

\* The history follows every step and restricts none.
Remember == excused' = excused \cup {i \in Ids : ~Wanted(i)'}

Environment ==
    \/ \E i \in Ids, o \in Objs \cup {None} : ObjectChanges(i, o)
    \/ NamespaceChanges
    \/ \E i \in Ids, c \in CRs \cup {None} : UserEdits(i, c)
    \/ Restart

Listener == HandleSync \/ HandleDeleted

Worker == GetNamespace \/ Unmonitor \/ ReconcileGet \/ ReconcileCreate \/ ReconcileUpdate

Housekeeping ==
    \/ HousekeepingList
    \/ \E i \in Ids : HousekeepingLookup(i)
    \/ HousekeepingDelete
    \/ HousekeepingSleep

Next ==
    /\ \/ Environment
       \/ InitialList \/ HostsInitialList
       \/ \E i \in Ids : Deliver(i) \/ DeliverHost(i) \/ Resync(i) \/ ProcessNext(i)
       \/ Listener
       \/ Worker
       \/ Housekeeping
    /\ Remember

Spec == Init /\ [][Next]_<<vars, excused>>

\* As in IcingaSync: the goroutines, the watches and the resync go on, and the
\* queue is first-in first-out.
Fairness ==
    /\ WF_vars(InitialList) /\ WF_vars(HostsInitialList)
    /\ \A i \in Ids : /\ WF_vars(Deliver(i)) /\ WF_vars(DeliverHost(i))
                      /\ WF_vars(Resync(i)) /\ SF_vars(ProcessNext(i))
    /\ WF_vars(Listener)
    /\ WF_vars(Worker)
    /\ WF_vars(Housekeeping)

FairSpec == Spec /\ Fairness

-----------------------------------------------------------------------------
(* Properties                                                              *)

Monitored(i) == crs[i] # None /\ crs[i].spec = SpecOf(objs[i])

\* In the end every object that is to be monitored has its custom resource,
\* with the present specification, whatever users did to the resource and
\* whatever housekeeping removed on a stale or empty cache.
EventuallyMonitored == <>[](\A i \in Ids : Wanted(i) => Monitored(i))

\* "Resources can be excluded from monitoring by setting the annotation [...]
\* Set this on a Namespace and all objects in that namespace aren't monitored."
Annotated(i) == objs[i] # None /\ (objs[i].excluded \/ (Kind = "Workload" /\ namespace))

EventuallyExcluded == <>[](\A i \in Ids : Annotated(i) => crs[i] = None)

\* In the end no custom resource made for an object outlives it: also not the
\* one a worker creates from its cached copy just after the delete handler ran,
\* or the one whose object went while the controller was down.
EventuallyNoOrphans == <>[](\A i \in Ids : objs[i] = None => crs[i] = None \/ ~crs[i].owned)

\* Nothing but a user takes away the custom resource of an object that has
\* always been there, unexcluded, since before the controller started; only a
\* workload whose namespace could not be read loses it as well.
RemovedWithReason ==
    [][\A i \in Ids : crs[i] # None /\ crs'[i] = None =>
           i \in excused \/ edits' # edits \/ (Kind = "Workload" /\ faults # 0)]_vars

\* Once its informer has listed the objects, housekeeping takes no lag of that
\* informer and no outdated list for a deletion: it condemns the custom resource
\* only of an object that at some time was not to be monitored.
CondemnedWithReason ==
    [][synced /\ housekeeper.pc = "scan" /\ housekeeper'.pc = "delete" =>
           housekeeper'.id \in excused]_vars

\* The threads are at rest and the informer of the objects does not lag.
Quiet == synced /\ cache = objs /\ pending = <<>> /\ queue = {} /\ worker.pc = "idle"

\* Without failed calls and edits by users, and before any resync: if the
\* threads are at rest, an object that was always to be monitored is, as it now is.
QuietMonitored ==
    Quiet /\ faults = 0 /\ edits = 0 => \A i \in Ids \ excused : Monitored(i)

\* The same for objects that are excluded or being deleted: at rest they have no
\* custom resource, also when a worker held an older copy and meant to create it.
QuietUnmonitored ==
    Quiet /\ faults = 0 /\ edits = 0 =>
        \A i \in Ids : objs[i] # None /\ (Excluded(objs[i]) \/ objs[i].deleting) => crs[i] = None
=============================================================================
