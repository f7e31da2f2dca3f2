----------------------------- MODULE IcingaSync -----------------------------
(***************************************************************************)
(* How kubernetes-icinga keeps one kind of Icinga object (HostGroup, Host  *)
(* or Service) equal to the custom resources of that kind (HostGroup, Host *)
(* or Check): the informer, its listener, the work queue, the worker, the  *)
(* delete handler and Icinga housekeeping, each a thread of its own, and   *)
(* the two servers they talk to.                                           *)
(*                                                                         *)
(* Every call to a server is one step: between two calls of one thread the *)
(* other threads, the users of the cluster and the other clusters that     *)
(* share the Icinga server may do anything.                                *)
(***************************************************************************)
EXTENDS Naturals, Sequences

CONSTANTS
    Kind,           \* the kind of custom resource: an element of Kinds
    Keys,           \* "namespace/name" of custom resources
    Names,          \* full names of Icinga objects (they start with the tag)
    Vars,           \* vars, notes and notes URL of a spec, taken together
    Commands,       \* check commands
    Groups,         \* lists of hostgroups of a host
    Tag,            \* the tag of this cluster: Icinga var kubernetes_cluster
    OtherTag,       \* the tag of another cluster on the same Icinga server
    NoOwner,        \* the Icinga var kubernetes_owner is not set
    NoCommand,      \* the empty check command
    None,           \* there is no object
    InitSpecs,      \* what a custom resource may be when the model starts
    InitObjects,    \* what an Icinga object may be when the model starts
    MaxChanges,     \* bound: changes to custom resources
    MaxOthers,      \* bound: changes the other cluster makes in Icinga
    MaxFaults,      \* bound: failed calls to a server
    MaxCrashes      \* bound: restarts of the controller

Kinds == {"HostGroup", "Host", "Check"}

Specs == [name: Names, vars: Vars, command: Commands \cup {NoCommand}, groups: Groups]

Objects == [cluster: {Tag, OtherTag}, owner: Keys \cup {NoOwner}, vars: Vars,
            command: Commands \cup {NoCommand}, groups: Groups]

ASSUME KindAssumption == Kind \in Kinds
ASSUME NoneAssumption == None \notin Specs \cup Objects \cup Keys \cup Names
ASSUME TagAssumption == Tag # OtherTag /\ NoOwner \notin Keys
ASSUME InitAssumption ==
    InitSpecs \subseteq Specs \cup {None} /\ InitObjects \subseteq Objects \cup {None}
ASSUME BoundAssumption ==
    MaxChanges \in Nat /\ MaxOthers \in Nat /\ MaxFaults \in Nat /\ MaxCrashes \in Nat

VARIABLES
    cr,         \* custom resources in the Kubernetes API
    icinga,     \* objects of this kind on the Icinga server
    cache,      \* the informer's copy of the custom resources (the lister's)
    synced,     \* the informer has done its first list: HasSynced()
    pending,    \* notifications the informer's listener has still to handle
    queue,      \* keys in the work queue
    worker,     \* the worker goroutine: CreatedOrUpdated
    handler,    \* the listener goroutine inside the delete handler: Deleted
    housekeeper,\* the housekeeping goroutine
    changes, others, faults, crashes    \* the counters the bounds are about

servers == <<cr, icinga>>
informer == <<cache, synced, pending>>
counters == <<changes, others, faults, crashes>>
vars == <<cr, icinga, cache, synced, pending, queue, worker, handler, housekeeper,
          changes, others, faults, crashes>>

-----------------------------------------------------------------------------
(* Types and initial states                                                *)

Entries == [name: Names, owner: Keys]

IdleWorker == [pc |-> "idle", key |-> None, spec |-> None]
IdleHandler == [pc |-> "idle", name |-> None]
IdleHousekeeper == [pc |-> "idle", todo |-> {}, name |-> None]

Notifications == [type: {"sync"}, key: Keys, spec: {None}]
                     \cup [type: {"deleted"}, key: Keys, spec: Specs]
Workers == {IdleWorker} \cup [pc: {"get", "create", "update"}, key: Keys, spec: Specs]
Handlers == {IdleHandler} \cup [pc: {"get", "delete"}, name: Names]
Housekeepers == {IdleHousekeeper}
                     \cup [pc: {"scan"}, todo: SUBSET Entries, name: {None}]
                     \cup [pc: {"delete"}, todo: SUBSET Entries, name: Names]

\* Type invariant of the thread states and of the two servers.
TypeOK ==
    /\ cr \in [Keys -> Specs \cup {None}]
    /\ icinga \in [Names -> Objects \cup {None}]
    /\ cache \in [Keys -> Specs \cup {None}]
    /\ synced \in BOOLEAN
    /\ pending \in Seq(Notifications)
    /\ queue \in SUBSET Keys
    /\ worker \in Workers
    /\ handler \in Handlers
    /\ housekeeper \in Housekeepers
    /\ changes \in Nat /\ others \in Nat /\ faults \in Nat /\ crashes \in Nat

\* The controller starts beside whatever the cluster and Icinga hold by then.
Init ==
    /\ cr \in [Keys -> InitSpecs]
    /\ icinga \in [Names -> InitObjects]
    /\ cache = [k \in Keys |-> None]
    /\ synced = FALSE
    /\ pending = <<>>
    /\ queue = {}
    /\ worker = IdleWorker
    /\ handler = IdleHandler
    /\ housekeeper = IdleHousekeeper
    /\ changes = 0 /\ others = 0 /\ faults = 0 /\ crashes = 0

-----------------------------------------------------------------------------
(* What the handlers compare and write                                     *)

\* The Icinga object the controller builds for resource k with specification
\* s: kubernetes_cluster and kubernetes_owner override the spec's own vars.
Image(k, s) == [cluster |-> Tag, owner |-> k, vars |-> s.vars,
                command |-> s.command, groups |-> s.groups]

Foreign(o) == o # None /\ o.cluster # Tag

\* Mutant: no handler looks at the cluster of the object it found.
ChecksNothing == FALSE

\* HostGroup and Host refuse to update an object of another cluster; the
\* handler of Check has no such test.
ChecksCluster == Kind # "Check"

VarsDiffer(o, w) == o.vars # w.vars \/ o.cluster # w.cluster \/ o.owner # w.owner

HostGroupDiffers(o, w) == VarsDiffer(o, w)

\* An empty check command in the spec is no reason to update, and neither are
\* other hostgroups.
HostDiffers(o, w) ==
    VarsDiffer(o, w) \/ (o.command # w.command /\ w.command # NoCommand)

CheckDiffers(o, w) == VarsDiffer(o, w) \/ o.command # w.command

Differs(o, w) ==
    \/ Kind = "HostGroup" /\ HostGroupDiffers(o, w)
    \/ Kind = "Host" /\ HostDiffers(o, w)
    \/ Kind = "Check" /\ CheckDiffers(o, w)

\* A call to a server fails (connection, time-out, refusal) or it does not.
Fault == faults < MaxFaults /\ faults' = faults + 1
NoFault == UNCHANGED faults

-----------------------------------------------------------------------------
(* The environment: users, the mapping code and the Kubernetes garbage     *)
(* collector write custom resources; the other cluster writes to Icinga.   *)

ResourceChanges(k, s) ==
    /\ changes < MaxChanges
    /\ cr[k] # s
    /\ cr' = [cr EXCEPT ![k] = s]
    /\ changes' = changes + 1
    /\ UNCHANGED <<icinga, informer, queue, worker, handler, housekeeper,
                   others, faults, crashes>>

OtherClusterWrites(n) ==
    /\ others < MaxOthers
    /\ \/ icinga[n] = None /\ \E o \in Objects : o.cluster = OtherTag /\ o.owner = NoOwner
                                             /\ icinga' = [icinga EXCEPT ![n] = o]
       \/ Foreign(icinga[n]) /\ icinga' = [icinga EXCEPT ![n] = None]
    /\ others' = others + 1
    /\ UNCHANGED <<cr, informer, queue, worker, handler, housekeeper,
                   changes, faults, crashes>>

-----------------------------------------------------------------------------
(* The informer                                                            *)

\* First list after a start: the cache is filled, every resource found is
\* added to the queue, and the workers may begin.
InitialList ==
    /\ ~synced
    /\ cache' = cr
    /\ queue' = {k \in Keys : cr[k] # None}
    /\ synced' = TRUE
    /\ UNCHANGED <<servers, pending, worker, handler, housekeeper, counters>>

\* Mutant: the informer is registered without an UpdateFunc.
DeliverNoUpdates(k) ==
    /\ synced
    /\ cache[k] # cr[k]
    /\ cache' = [cache EXCEPT ![k] = cr[k]]
    /\ pending' = IF cache[k] # None /\ cr[k] # None THEN pending ELSE Append(pending,
           IF cr[k] = None THEN [type |-> "deleted", key |-> k, spec |-> cache[k]]
                           ELSE [type |-> "sync", key |-> k, spec |-> None])
    /\ UNCHANGED <<servers, synced, queue, worker, handler, housekeeper, counters>>

\* The watch, or a new list after a lost watch, brings the cache to what the
\* API holds now and leaves a notification to the listener. A deletion carries
\* the last specification the cache had (as DeletedFinalStateUnknown does).
Deliver(k) ==
    /\ synced
    /\ cache[k] # cr[k]
    /\ cache' = [cache EXCEPT ![k] = cr[k]]
    /\ pending' = Append(pending,
           IF cr[k] = None THEN [type |-> "deleted", key |-> k, spec |-> cache[k]]
                           ELSE [type |-> "sync", key |-> k, spec |-> None])
    /\ UNCHANGED <<servers, synced, queue, worker, handler, housekeeper, counters>>

ListenerFree == synced /\ handler.pc = "idle"

\* Mutant: a key the worker is busy with is not queued again.
HandleSyncSkipsBusy ==
    /\ ListenerFree
    /\ pending # <<>> /\ Head(pending).type = "sync"
    /\ queue' = queue \cup ({Head(pending).key} \ {worker.key})
    /\ pending' = Tail(pending)
    /\ UNCHANGED <<servers, cache, synced, worker, handler, housekeeper, counters>>

\* AddFunc and UpdateFunc only put the key into the queue.
HandleSync ==
    /\ ListenerFree
    /\ pending # <<>> /\ Head(pending).type = "sync"
    /\ queue' = queue \cup {Head(pending).key}
    /\ pending' = Tail(pending)
    /\ UNCHANGED <<servers, cache, synced, worker, handler, housekeeper, counters>>

\* Mutant: the informer has no resync period.
NoResync(k) == FALSE

\* Every 60 seconds the informer sends an update for each cached resource. It
\* waits behind what is pending, so it is a step of an idle listener.
Resync(k) ==
    /\ ListenerFree
    /\ pending = <<>>
    /\ cache[k] # None
    /\ k \notin queue
    /\ queue' = queue \cup {k}
    /\ UNCHANGED <<servers, informer, worker, handler, housekeeper, counters>>

-----------------------------------------------------------------------------
(* The delete handler, which runs in the listener's goroutine              *)

HandleDeleted ==
    /\ ListenerFree
    /\ pending # <<>> /\ Head(pending).type = "deleted"
    /\ handler' = [pc |-> "get", name |-> Head(pending).spec.name]
    /\ pending' = Tail(pending)
    /\ UNCHANGED <<servers, cache, synced, queue, worker, housekeeper, counters>>

\* Any error of the Get ends the handler without an error. An object of
\* another cluster is only logged: the handler goes on to delete it.
DeletedGet ==
    /\ handler.pc = "get"
    /\ \/ /\ icinga[handler.name] # None
          /\ handler' = [handler EXCEPT !.pc = "delete"]
          /\ NoFault
       \/ /\ handler' = IdleHandler
          /\ (icinga[handler.name] = None /\ NoFault) \/ Fault
    /\ UNCHANGED <<servers, informer, queue, worker, housekeeper,
                   changes, others, crashes>>

\* A failed deletion is logged and not tried again by this thread.
DeletedDelete ==
    /\ handler.pc = "delete"
    /\ \/ icinga' = [icinga EXCEPT ![handler.name] = None] /\ NoFault
       \/ UNCHANGED icinga /\ Fault
    /\ handler' = IdleHandler
    /\ UNCHANGED <<cr, informer, queue, worker, housekeeper, changes, others, crashes>>

-----------------------------------------------------------------------------
(* The worker                                                              *)

\* Mutant: the lister's error is not looked at, and the handler gets no resource.
ProcessNextUnchecked(k) ==
    /\ synced
    /\ worker.pc = "idle"
    /\ k \in queue
    /\ queue' = queue \ {k}
    /\ worker' = [pc |-> "get", key |-> k, spec |-> cache[k]]
    /\ UNCHANGED <<servers, informer, handler, housekeeper, counters>>

\* The worker takes a key and reads the resource from the cache. A key without
\* a resource is an error, and an error is logged: the key is not put back.
ProcessNext(k) ==
    /\ synced
    /\ worker.pc = "idle"
    /\ k \in queue
    /\ queue' = queue \ {k}
    /\ worker' = IF cache[k] = None THEN IdleWorker
                                    ELSE [pc |-> "get", key |-> k, spec |-> cache[k]]
    /\ UNCHANGED <<servers, informer, handler, housekeeper, counters>>

\* Mutant: an object that is not there is not created.
CreatedOrUpdatedGetNoCreate ==
    LET o == icinga[worker.spec.name] IN
    /\ worker.pc = "get"
    /\ worker' = IF o # None /\ Differs(o, Image(worker.key, worker.spec))
                 THEN [worker EXCEPT !.pc = "update"] ELSE IdleWorker
    /\ UNCHANGED <<servers, informer, queue, handler, housekeeper, counters>>

\* Every error of the Get counts as "there is no such object".
CreatedOrUpdatedGet ==
    LET o == icinga[worker.spec.name] IN
    /\ worker.pc = "get"
    /\ \/ /\ (o = None /\ NoFault) \/ Fault
          /\ worker' = [worker EXCEPT !.pc = "create"]
       \/ /\ o # None /\ NoFault
          /\ ChecksCluster => ~Foreign(o)
          /\ Differs(o, Image(worker.key, worker.spec))
          /\ worker' = [worker EXCEPT !.pc = "update"]
       \/ /\ o # None /\ NoFault
          /\ \/ ChecksCluster /\ Foreign(o)
             \/ ~Differs(o, Image(worker.key, worker.spec))
          /\ worker' = IdleWorker
    /\ UNCHANGED <<servers, informer, queue, handler, housekeeper,
                   changes, others, crashes>>

\* An update of an object that is gone by now fails.
CreatedOrUpdatedUpdate ==
    LET n == worker.spec.name IN
    /\ worker.pc = "update"
    /\ \/ /\ icinga[n] # None /\ NoFault
          /\ icinga' = [icinga EXCEPT ![n] = Image(worker.key, worker.spec)]
       \/ /\ (icinga[n] = None /\ NoFault) \/ Fault
          /\ UNCHANGED icinga
    /\ worker' = IdleWorker
    /\ UNCHANGED <<cr, informer, queue, handler, housekeeper, changes, others, crashes>>

\* Mutant: a creation overwrites what is there by now.
CreatedOrUpdatedCreateOverwrites ==
    /\ worker.pc = "create"
    /\ icinga' = [icinga EXCEPT ![worker.spec.name] = Image(worker.key, worker.spec)]
    /\ worker' = IdleWorker
    /\ UNCHANGED <<cr, informer, queue, handler, housekeeper, counters>>

\* A creation fails if an object of that name is there by now.
CreatedOrUpdatedCreate ==
    LET n == worker.spec.name IN
    /\ worker.pc = "create"
    /\ \/ /\ icinga[n] = None /\ NoFault
          /\ icinga' = [icinga EXCEPT ![n] = Image(worker.key, worker.spec)]
       \/ /\ (icinga[n] # None /\ NoFault) \/ Fault
          /\ UNCHANGED icinga
    /\ worker' = IdleWorker
    /\ UNCHANGED <<cr, informer, queue, handler, housekeeper, changes, others, crashes>>

-----------------------------------------------------------------------------
(* Icinga housekeeping                                                     *)

\* Objects of other clusters and objects without an owner are skipped.
Listed == {e \in Entries : /\ icinga[e.name] # None
                           /\ icinga[e.name].cluster = Tag
                           /\ icinga[e.name].owner = e.owner}

\* A List that fails ends the pass: nothing changes.
HousekeepingList ==
    /\ housekeeper.pc = "idle"
    /\ housekeeper' = [pc |-> "scan", todo |-> Listed, name |-> None]
    /\ UNCHANGED <<servers, informer, queue, worker, handler, counters>>

\* Mutant: the owner is looked up in the informer's cache.
HousekeepingGetCached(e) ==
    /\ housekeeper.pc = "scan"
    /\ e \in housekeeper.todo
    /\ \/ /\ cache[e.owner] = None
          /\ housekeeper' = [pc |-> "delete", todo |-> housekeeper.todo \ {e},
                             name |-> e.name]
       \/ /\ cache[e.owner] # None
          /\ housekeeper' = [housekeeper EXCEPT !.todo = @ \ {e}]
    /\ UNCHANGED <<servers, informer, queue, worker, handler, counters>>

\* Mutant: every error counts as NotFound.
HousekeepingGetAnyError(e) ==
    /\ housekeeper.pc = "scan"
    /\ e \in housekeeper.todo
    /\ \/ /\ (cr[e.owner] = None /\ NoFault) \/ Fault
          /\ housekeeper' = [pc |-> "delete", todo |-> housekeeper.todo \ {e},
                             name |-> e.name]
       \/ /\ cr[e.owner] # None /\ NoFault
          /\ housekeeper' = [housekeeper EXCEPT !.todo = @ \ {e}]
    /\ UNCHANGED <<servers, informer, queue, worker, handler, changes, others, crashes>>

\* Mutant: NotFound is an error like any other.
HousekeepingGetKeepsAll(e) ==
    /\ housekeeper.pc = "scan"
    /\ e \in housekeeper.todo
    /\ housekeeper' = [housekeeper EXCEPT !.todo = @ \ {e}]
    /\ UNCHANGED <<servers, informer, queue, worker, handler, counters>>

\* The owner is looked up in the API. Only a clear NotFound condemns the
\* object; on any other error housekeeping goes on to the next one.
HousekeepingGet(e) ==
    /\ housekeeper.pc = "scan"
    /\ e \in housekeeper.todo
    /\ \/ /\ cr[e.owner] = None /\ NoFault
          /\ housekeeper' = [pc |-> "delete", todo |-> housekeeper.todo \ {e},
                             name |-> e.name]
       \/ /\ (cr[e.owner] # None /\ NoFault) \/ Fault
          /\ housekeeper' = [housekeeper EXCEPT !.todo = @ \ {e}]
    /\ UNCHANGED <<servers, informer, queue, worker, handler, changes, others, crashes>>

HousekeepingDelete ==
    /\ housekeeper.pc = "delete"
    /\ \/ icinga' = [icinga EXCEPT ![housekeeper.name] = None] /\ NoFault
       \/ UNCHANGED icinga /\ Fault
    /\ housekeeper' = [housekeeper EXCEPT !.pc = "scan", !.name = None]
    /\ UNCHANGED <<cr, informer, queue, worker, handler, changes, others, crashes>>

\* The pass is over: sleep for 60 seconds, then start again.
HousekeepingSleep ==
    /\ housekeeper.pc = "scan"
    /\ housekeeper.todo = {}
    /\ housekeeper' = IdleHousekeeper
    /\ UNCHANGED <<servers, informer, queue, worker, handler, counters>>

-----------------------------------------------------------------------------
\* Everything the controller knows is in memory: a restart loses it.
Restart ==
    /\ crashes < MaxCrashes
    /\ cache' = [k \in Keys |-> None]
    /\ synced' = FALSE
    /\ pending' = <<>>
    /\ queue' = {}
    /\ worker' = IdleWorker
    /\ handler' = IdleHandler
    /\ housekeeper' = IdleHousekeeper
    /\ crashes' = crashes + 1
    /\ UNCHANGED <<servers, changes, others, faults>>

Environment ==
    \/ \E k \in Keys, s \in Specs \cup {None} : ResourceChanges(k, s)
    \/ \E n \in Names : OtherClusterWrites(n)
    \/ Restart

Listener == HandleSync \/ HandleDeleted \/ DeletedGet \/ DeletedDelete

CreatedOrUpdated ==
    CreatedOrUpdatedGet \/ CreatedOrUpdatedUpdate \/ CreatedOrUpdatedCreate

Housekeeping ==
    \/ HousekeepingList
    \/ \E e \in Entries : HousekeepingGet(e)
    \/ HousekeepingDelete
    \/ HousekeepingSleep

Next ==
    \/ Environment
    \/ InitialList
    \/ \E k \in Keys : Deliver(k) \/ Resync(k) \/ ProcessNext(k)
    \/ Listener
    \/ CreatedOrUpdated
    \/ Housekeeping

Spec == Init /\ [][Next]_vars

\* Each goroutine goes on; the informer's watch and its 60-second resync go on;
\* the work queue is first-in first-out, so no key waits for ever while the
\* worker takes others (strong fairness for each key).
Fairness ==
    /\ WF_vars(InitialList)
    /\ \A k \in Keys : WF_vars(Deliver(k)) /\ WF_vars(Resync(k)) /\ SF_vars(ProcessNext(k))
    /\ WF_vars(Listener)
    /\ WF_vars(CreatedOrUpdated)
    /\ WF_vars(Housekeeping)

FairSpec == Spec /\ Fairness

-----------------------------------------------------------------------------
(* Properties                                                              *)

\* Icinga shows resource k: the object is there, with its vars and owner (and
\* whatever else the handler of this kind compares).
Mirrored(k) ==
    LET o == icinga[cr[k].name] IN o # None /\ ~Differs(o, Image(k, cr[k]))

\* No other resource asks for the Icinga name of k.
Alone(k) == \A j \in Keys \ {k} : cr[j] = None \/ cr[j].name # cr[k].name

Refused(k) == ChecksCluster /\ Foreign(icinga[cr[k].name])

InSync == \A k \in Keys : cr[k] # None /\ Alone(k) /\ ~Refused(k) => Mirrored(k)

\* Once users, other clusters and faults leave the system alone, every custom
\* resource that has an Icinga name of its own is shown in Icinga and stays
\* shown, whatever races, failed calls, restarts and housekeeping passes came
\* before (icinga.go CreatedOrUpdated, the 60-second resync of Initialize).
EventuallyInSync == <>[]InSync

Ours(o) == o # None /\ o.cluster = Tag /\ o.owner \in Keys

NoOrphans == \A n \in Names : Ours(icinga[n]) => cr[icinga[n].owner] # None

\* No object of this cluster stays in Icinga without its custom resource: what
\* a failed, missed or overtaken deletion leaves behind, housekeeping removes
\* (housekeeping.go, "Remove all obsolete objects from Icinga").
EventuallyNoOrphans == <>[]NoOrphans

NoObsolete ==
    \A n \in Names : Ours(icinga[n]) => /\ cr[icinga[n].owner] # None
                                        /\ cr[icinga[n].owner].name = n

\* As the comment on IcingaHousekeeping has it, all obsolete objects go: also
\* the one under the old name when a resource's spec.name has changed.
EventuallyNoObsolete == <>[]NoObsolete

GroupsMirrored ==
    \A k \in Keys : cr[k] # None /\ Mirrored(k) =>
                        icinga[cr[k].name].groups = cr[k].groups

\* The hostgroups of a Host resource end up in Icinga (the README presents
\* hosts in Icinga as represented by the custom resources).
EventuallyGroupsMirrored == <>[]GroupsMirrored
=============================================================================
