------------------------------- MODULE Pipeline -------------------------------
(***************************************************************************)
(* The whole way of a workload under the host mapping: WorkloadMonitor,    *)
(* which turns the workload into a Check, and IcingaSync, which turns the  *)
(* Check into an Icinga service, over the same Checks.  Both use the one   *)
(* informer of the Checks, all workers wait for all informers, and a       *)
(* restart stops everything.  Housekeeping removes services without a      *)
(* Check; it leaves the Checks alone under this mapping.                   *)
(***************************************************************************)
EXTENDS WorkloadMonitor

CONSTANT InitIcinga     \* what an Icinga object may be when the model starts

VARIABLES
    icinga,     \* the Icinga objects of the workloads
    crPending,  \* notifications of the custom resources' informer
    crQueue,    \* the work queue of the custom resources
    crWorker,   \* the worker of the custom resources
    crHandler,  \* the listener of the custom resources in the delete handler
    sweeper     \* the housekeeping goroutine

syncVars == <<icinga, crPending, crQueue, crWorker, crHandler, sweeper>>
monitorVars == <<objs, namespace, crs, cache, synced, pending, queue, hosts, hostsSynced,
                 worker, housekeeper, changes, edits>>
pipelineVars == <<vars, syncVars>>

\* The custom resource of workload i as a specification of IcingaSync. Its
\* Icinga name is its own: it is made from namespace, kind and name.
AsSpec(i, c) == IF c = None THEN None
                ELSE [name |-> i, vars |-> c.spec, command |-> "check_kubernetes",
                      groups |-> "namespace"]

Sync == INSTANCE IcingaSync WITH
    Kind <- "Check", Keys <- Ids, Names <- Ids,
    Vars <- Notes \cup {NoNotes} \cup OtherSpecs,
    Commands <- {"check_kubernetes"}, Groups <- {"namespace"},
    Tag <- "tag", OtherTag <- "other tag", NoOwner <- "", NoCommand <- "",
    InitSpecs <- {AsSpec(i, c) : i \in Ids, c \in InitCRs}, InitObjects <- InitIcinga,
    MaxChanges <- 0, MaxOthers <- 0,
    cr <- [i \in Ids |-> AsSpec(i, crs[i])],
    cache <- [i \in Ids |-> AsSpec(i, hosts[i])], synced <- hostsSynced,
    pending <- crPending, queue <- crQueue, worker <- crWorker, handler <- crHandler,
    housekeeper <- sweeper, changes <- 0, others <- 0

\* An object of an earlier run has its resource. Resources belong to workloads:
\* edits by users are left to the two parts.
ASSUME OwnedAssumption ==
    Kind = "Workload" /\ Mapping = "host" /\ MaxEdits = 0 /\ \A c \in InitCRs : c = None \/ c.owned

ASSUME IcingaAssumption ==
    InitIcinga \subseteq Sync!Objects \cup {None} /\ None \notin Sync!Specs \cup Sync!Objects

PipelineInit ==
    /\ Init /\ Sync!Init
    /\ \A i \in Ids : icinga[i] # None => crs[i] # None /\ icinga[i].owner = i

-----------------------------------------------------------------------------
(* Steps of WorkloadMonitor alone, of both, and of IcingaSync alone        *)

Apart == UNCHANGED syncVars

\* A deletion timestamp takes the same way as an exclusion; what it does to the
\* custom resource is left to WorkloadMonitor.
MonitorEnvironment ==
    /\ \/ \E i \in Ids, o \in {p \in Objs : ~p.deleting} \cup {None} : ObjectChanges(i, o)
       \/ NamespaceChanges
    /\ Apart

MonitorProcessNext(i) == ProcessNext(i) /\ Apart
MonitorListener == Listener /\ Apart
MonitorWorker == Worker /\ Apart
ObjectsList == InitialList /\ Apart
ObjectDelivered(i) == Deliver(i) /\ Apart
ObjectResync(i) == Resync(i) /\ Apart

\* The informer of the custom resources serves the lister that housekeeping
\* reads and the listener of IcingaSync.
ResourcesList == HostsInitialList /\ Sync!InitialList

ResourceDelivered(i) == DeliverHost(i) /\ Sync!Deliver(i)

RestartAll == Restart /\ Sync!Restart

SyncListener == UNCHANGED <<monitorVars, crashes>> /\ Sync!Listener
SyncResync(i) == UNCHANGED <<monitorVars, crashes>> /\ Sync!Resync(i)
SyncWorker == UNCHANGED <<monitorVars, crashes>> /\ Sync!CreatedOrUpdated

\* Run starts the workers when the caches of all informers are filled.
SyncProcessNext(i) ==
    synced /\ UNCHANGED <<monitorVars, crashes>> /\ Sync!ProcessNext(i)

SyncHousekeeping == UNCHANGED <<monitorVars, crashes>> /\ Sync!Housekeeping

PipelineNext ==
    /\ \/ MonitorEnvironment \/ RestartAll
       \/ ObjectsList \/ ResourcesList
       \/ \E i \in Ids : \/ ObjectDelivered(i) \/ ObjectResync(i) \/ MonitorProcessNext(i)
                         \/ ResourceDelivered(i) \/ SyncResync(i) \/ SyncProcessNext(i)
       \/ MonitorListener \/ MonitorWorker
       \/ SyncListener \/ SyncWorker
       \/ SyncHousekeeping
    /\ Remember

PipelineSpec == PipelineInit /\ [][PipelineNext]_<<pipelineVars, excused>>

\* The fairness of the parts, each thread with its own.
PipelineFairSpec ==
    /\ PipelineSpec
    /\ WF_pipelineVars(ObjectsList) /\ WF_pipelineVars(ResourcesList)
    /\ \A i \in Ids :
           /\ WF_pipelineVars(ObjectDelivered(i)) /\ WF_pipelineVars(ResourceDelivered(i))
           /\ WF_pipelineVars(ObjectResync(i)) /\ WF_pipelineVars(SyncResync(i))
           /\ SF_pipelineVars(MonitorProcessNext(i)) /\ SF_pipelineVars(SyncProcessNext(i))
    /\ WF_pipelineVars(MonitorListener) /\ WF_pipelineVars(MonitorWorker)
    /\ WF_pipelineVars(SyncListener) /\ WF_pipelineVars(SyncWorker)
    /\ WF_pipelineVars(SyncHousekeeping)

-----------------------------------------------------------------------------
(* Properties                                                              *)

\* Icinga shows workload i as it is now.
ShownInIcinga(i) ==
    icinga[i] = Sync!Image(i, AsSpec(i, [spec |-> SpecOf(objs[i]), owned |-> TRUE]))

\* "kubernetes-icinga watches infrastructure and workload deployed in a
\* Kubernetes cluster and creates resources in Icinga to monitor those": in the
\* end Icinga shows every workload that is to be monitored, with its present
\* notes, whatever happened between the two queues and the two caches.
EventuallyShown == <>[](\A i \in Ids : Wanted(i) => ShownInIcinga(i))

\* In the end Icinga no longer shows a workload that is excluded from monitoring,
\* by itself or by its namespace, also when its Check came or went by a race.
EventuallyHidden == <>[](\A i \in Ids : ~Wanted(i) /\ objs[i] # None => icinga[i] = None)

\* While no call fails, the Icinga object of a workload that is there all along,
\* and is to be monitored all along, is never removed: no thread on the way
\* takes a lag or a restart for a deletion.
HiddenWithReason ==
    [][\A i \in Ids : icinga[i] # None /\ icinga'[i] = None => i \in excused \/ faults # 0]_pipelineVars

\* The threads are at rest and no informer lags.
PipelineQuiet ==
    /\ Quiet /\ hostsSynced /\ hosts = crs
    /\ crPending = <<>> /\ crQueue = {} /\ crWorker.pc = "idle" /\ crHandler.pc = "idle"

\* No change of a workload is lost on the way from its informer to Icinga, with
\* no help from a resync or from housekeeping: when all is at rest and no call
\* has failed, Icinga shows what was always to be monitored as it is now.
QuietShown == PipelineQuiet /\ faults = 0 => \A i \in Ids \ excused : ShownInIcinga(i)
=============================================================================
