---------------------------- MODULE PipelineProofs ----------------------------
(***************************************************************************)
(* Machine-checked proofs about Pipeline: what WorkloadMonitor promises it *)
(* keeps beside IcingaSync, and from end to end no workload is hidden      *)
(* without reason and no change is lost; for every set of workloads and    *)
(* every bound.                                                            *)
(***************************************************************************)
EXTENDS Pipeline, WorkloadMonitorProofs

\* The steps that leave the part of WorkloadMonitor alone.
SyncAlone ==
    /\ \/ SyncListener \/ SyncWorker \/ SyncHousekeeping
       \/ \E i \in Ids : SyncResync(i) \/ SyncProcessNext(i)
    /\ Remember

LEMMA Settings == Kind = "Workload" /\ Mapping = "host" /\ ~Housekept
BY OwnedAssumption DEF Housekept

\* Every step is one of WorkloadMonitor, or leaves that part alone.
LEMMA Parts ==
    ASSUME PipelineNext
    PROVE  (Next /\ UNCHANGED edits) \/ SyncAlone
<1>1. ASSUME MonitorEnvironment \/ RestartAll PROVE Environment /\ UNCHANGED edits
    BY <1>1 DEF MonitorEnvironment, Environment, RestartAll, ObjectChanges, NamespaceChanges,
                Restart
<1>2. ASSUME ObjectsList \/ ResourcesList
      PROVE  (InitialList \/ HostsInitialList) /\ UNCHANGED edits
    BY <1>2 DEF ObjectsList, ResourcesList, InitialList, HostsInitialList
<1>3. ASSUME NEW i \in Ids, ObjectDelivered(i) \/ ObjectResync(i) \/ MonitorProcessNext(i)
                            \/ ResourceDelivered(i)
      PROVE  (Deliver(i) \/ Resync(i) \/ ProcessNext(i) \/ DeliverHost(i)) /\ UNCHANGED edits
    BY <1>3 DEF ObjectDelivered, ObjectResync, MonitorProcessNext, ResourceDelivered,
                Deliver, Resync, ProcessNext, DeliverHost
<1>4. ASSUME MonitorListener PROVE Listener /\ UNCHANGED edits
    BY <1>4 DEF MonitorListener, Listener, HandleSync, HandleDeleted
<1>5. ASSUME MonitorWorker PROVE Worker /\ UNCHANGED edits
    BY <1>5 DEF MonitorWorker, Worker, GetNamespace, Unmonitor, ReconcileGet, ReconcileCreate,
                ReconcileUpdate
<1>6. QED BY <1>1, <1>2, <1>3, <1>4, <1>5 DEF PipelineNext, Next, SyncAlone

\* A step of IcingaSync alone may count a failed call.
LEMMA SyncAloneFrame ==
    ASSUME SyncAlone
    PROVE  /\ UNCHANGED <<monitorVars, crashes>>
           /\ faults' = faults \/ (faults < MaxFaults /\ faults' = faults + 1)
<1>1. CASE SyncListener
    BY <1>1 DEF SyncListener, Sync!Listener, Sync!HandleSync, Sync!HandleDeleted, Sync!DeletedGet,
                Sync!DeletedDelete, Sync!counters, Sync!Fault, Sync!NoFault
<1>2. CASE SyncWorker
    BY <1>2 DEF SyncWorker, Sync!CreatedOrUpdated, Sync!CreatedOrUpdatedGet,
                Sync!CreatedOrUpdatedUpdate, Sync!CreatedOrUpdatedCreate, Sync!Fault, Sync!NoFault
<1>3. CASE SyncHousekeeping
    BY <1>3 DEF SyncHousekeeping, Sync!Housekeeping, Sync!HousekeepingList, Sync!HousekeepingGet,
                Sync!HousekeepingDelete, Sync!HousekeepingSleep, Sync!counters, Sync!Fault,
                Sync!NoFault
<1>4. ASSUME NEW i \in Ids, SyncResync(i) \/ SyncProcessNext(i)
      PROVE  UNCHANGED <<monitorVars, crashes, faults>>
    BY <1>4 DEF SyncResync, SyncProcessNext, Sync!Resync, Sync!ProcessNext, Sync!counters
<1>5. QED BY <1>1, <1>2, <1>3, <1>4 DEF SyncAlone

-----------------------------------------------------------------------------
(* What WorkloadMonitor promises                                           *)

\* The invariants of WorkloadMonitor, with no edits by users.
Base == TypeOK /\ Grounds /\ Progress /\ edits = 0

LEMMA SyncAloneBase ==
    ASSUME Base, SyncAlone
    PROVE  Base' /\ UNCHANGED excused
<1>1. \A i : Wanted(i)' <=> Wanted(i)
    BY SyncAloneFrame DEF monitorVars, Wanted
<1>2. excused' = excused
    BY <1>1 DEF SyncAlone, Remember, Base, Grounds, TypeOK
<1>3. faults \in Nat /\ faults' \in Nat /\ (faults' = 0 => faults = 0)
      /\ (faults > 0 => faults' > 0) /\ faults' <= MaxFaults
    BY SyncAloneFrame, BoundAssumption DEF Base, TypeOK, Grounds
<1>4. TypeOK'
    BY <1>2, <1>3, SyncAloneFrame DEF Base, TypeOK, monitorVars
<1>5. Grounds'
    BY <1>1, <1>2, <1>3, SyncAloneFrame DEF Base, Grounds, monitorVars
<1>6. Progress'
  <2>1. \A i : Served(i) => Served(i)'
    BY SyncAloneFrame DEF monitorVars, Served, Told, Busy, Shown
  <2>2. QED BY <1>2, <1>3, <2>1, SyncAloneFrame DEF Base, Progress, monitorVars
<1>7. QED BY <1>2, <1>4, <1>5, <1>6, SyncAloneFrame DEF Base, monitorVars

LEMMA InitBase == PipelineInit => Base
<1> SUFFICES ASSUME PipelineInit PROVE Base
    OBVIOUS
<1>1. Init
    BY DEF PipelineInit
<1>2. QED BY <1>1, InitTypeOK, InitGrounds, InitProgress DEF Base, Init

LEMMA NextBase == Base /\ [PipelineNext]_<<pipelineVars, excused>> => Base'
<1> SUFFICES ASSUME Base, [PipelineNext]_<<pipelineVars, excused>> PROVE Base'
    OBVIOUS
<1>1. CASE UNCHANGED <<pipelineVars, excused>>
  <2>1. UNCHANGED <<vars, excused>> /\ UNCHANGED edits
    BY <1>1 DEF pipelineVars, vars
  <2>2. QED BY <2>1, NextTypeOK, NextGrounds, NextProgress, Settings DEF Base
<1>2. CASE Next /\ UNCHANGED edits
    BY <1>2, NextTypeOK, NextGrounds, NextProgress, Settings DEF Base
<1>3. CASE SyncAlone
    BY <1>3, SyncAloneBase
<1>4. QED BY <1>1, <1>2, <1>3, Parts

\* Beside IcingaSync, and with its failures, no change of a workload is lost on
\* the way to its Check, either.
THEOREM PipelineMonitors == PipelineSpec => []QuietMonitored
<1>1. Base => QuietMonitored
    BY DEF Base, QuietMonitored, Quiet, Progress, Served, Told, Busy, Shown, Monitored, TypeOK
<1>2. QED BY <1>1, InitBase, NextBase, PTL DEF PipelineSpec

-----------------------------------------------------------------------------
(* The shape of the threads of IcingaSync                                  *)

\* The variables of IcingaSync have their types, and its worker writes under the
\* name of the resource it took from the queue.
SyncTypes ==
    /\ icinga \in [Ids -> Sync!Objects \cup {None}]
    /\ crPending \in Seq(Sync!Notifications)
    /\ crQueue \in SUBSET Ids
    /\ crWorker \in Sync!Workers
    /\ crHandler \in Sync!Handlers
    /\ sweeper \in Sync!Housekeepers
    /\ crWorker.pc # "idle" => crWorker.spec.name = crWorker.key

\* The steps that IcingaSync takes part in change no custom resource.
SyncSteps ==
    \/ RestartAll \/ ResourcesList
    \/ \E i \in Ids : ResourceDelivered(i) \/ SyncResync(i) \/ SyncProcessNext(i)
    \/ SyncListener \/ SyncWorker \/ SyncHousekeeping

LEMMA Steps ==
    ASSUME PipelineNext
    PROVE  UNCHANGED <<syncVars, hosts, hostsSynced>> \/ (SyncSteps /\ UNCHANGED crs)
<1>1. ASSUME MonitorEnvironment \/ ObjectsList \/ MonitorListener \/ MonitorWorker
      PROVE  UNCHANGED <<syncVars, hosts, hostsSynced>>
    BY <1>1 DEF MonitorEnvironment, ObjectsList, MonitorListener, MonitorWorker, Apart,
                ObjectChanges, NamespaceChanges, InitialList, Listener, HandleSync,
                HandleDeleted, Worker, GetNamespace, Unmonitor, ReconcileGet, ReconcileCreate,
                ReconcileUpdate, informers
<1>2. ASSUME NEW i \in Ids, ObjectDelivered(i) \/ ObjectResync(i) \/ MonitorProcessNext(i)
      PROVE  UNCHANGED <<syncVars, hosts, hostsSynced>>
    BY <1>2 DEF ObjectDelivered, ObjectResync, MonitorProcessNext, Apart, Deliver, Resync,
                ProcessNext, informers
<1>3. SyncSteps => UNCHANGED crs
    BY DEF SyncSteps, RestartAll, ResourcesList, ResourceDelivered, SyncResync, SyncProcessNext,
           SyncListener, SyncWorker, SyncHousekeeping, Restart, HostsInitialList, DeliverHost,
           monitorVars, api
<1>4. QED BY <1>1, <1>2, <1>3 DEF PipelineNext, SyncSteps

LEMMA AsSpecType ==
    ASSUME NEW i \in Ids, NEW c \in CRs \cup {None}
    PROVE  /\ c # None => AsSpec(i, c) \in Sync!Specs /\ AsSpec(i, c) # None
                          /\ AsSpec(i, c).name = i
           /\ c = None => AsSpec(i, c) = None
<1>1. ASSUME c # None PROVE AsSpec(i, c) \in Sync!Specs /\ AsSpec(i, c).name = i
    BY <1>1 DEF AsSpec, CRs, Sync!Specs
<1>2. QED BY <1>1, IcingaAssumption DEF AsSpec

LEMMA ImageType ==
    ASSUME NEW i \in Ids, NEW s \in Sync!Specs
    PROVE  Sync!Image(i, s) \in Sync!Objects /\ Sync!Image(i, s) # None
           /\ Sync!Image(i, s).owner = i
<1>1. Sync!Image(i, s) \in Sync!Objects /\ Sync!Image(i, s).owner = i
    BY DEF Sync!Image, Sync!Specs, Sync!Objects
<1>2. QED BY <1>1, IcingaAssumption

LEMMA SyncWorkerType ==
    ASSUME crWorker \in Sync!Workers
    PROVE  /\ crWorker.pc # "idle" => crWorker.key \in Ids /\ crWorker.spec \in Sync!Specs
                                      /\ crWorker \in [pc: {"get", "create", "update"}, key: Ids,
                                                       spec: Sync!Specs]
           /\ crWorker.pc = "idle" => crWorker = Sync!IdleWorker
BY DEF Sync!Workers, Sync!IdleWorker

LEMMA InitSyncTypes == PipelineInit => SyncTypes
<1> SUFFICES ASSUME PipelineInit PROVE SyncTypes
    OBVIOUS
<1>1. icinga \in [Ids -> Sync!Objects \cup {None}]
    BY IcingaAssumption DEF PipelineInit, Sync!Init
<1>2. QED BY <1>1 DEF PipelineInit, Sync!Init, SyncTypes, Sync!Workers, Sync!Handlers,
                      Sync!Housekeepers, Sync!IdleWorker

LEMMA NextSyncTypes ==
    TypeOK /\ SyncTypes /\ [PipelineNext]_<<pipelineVars, excused>> => SyncTypes'
<1> SUFFICES ASSUME TypeOK, SyncTypes, [PipelineNext]_<<pipelineVars, excused>> PROVE SyncTypes'
    OBVIOUS
<1>1. CASE UNCHANGED syncVars
    BY <1>1 DEF syncVars, SyncTypes
<1>2. CASE RestartAll
  <2>1. /\ UNCHANGED icinga /\ crPending' = <<>> /\ crQueue' = {} /\ crWorker' = Sync!IdleWorker
        /\ crHandler' = Sync!IdleHandler /\ sweeper' = Sync!IdleHousekeeper
    BY <1>2 DEF RestartAll, Sync!Restart, Sync!servers
  <2>2. QED BY <2>1 DEF SyncTypes, Sync!Workers, Sync!Handlers, Sync!Housekeepers, Sync!IdleWorker
<1>3. CASE ResourcesList
    BY <1>3 DEF ResourcesList, Sync!InitialList, Sync!servers, SyncTypes
<1>4. ASSUME NEW i \in Ids, ResourceDelivered(i) PROVE SyncTypes'
  <2> DEFINE note == IF AsSpec(i, crs[i]) = None
                     THEN [type |-> "deleted", key |-> i, spec |-> AsSpec(i, hosts[i])]
                     ELSE [type |-> "sync", key |-> i, spec |-> None]
  <2>1. crPending' = Append(crPending, note)
        /\ UNCHANGED <<icinga, crQueue, crWorker, crHandler, sweeper>>
    BY <1>4 DEF ResourceDelivered, Sync!Deliver, Sync!servers
  <2>2. AsSpec(i, crs[i]) # AsSpec(i, hosts[i])
    BY <1>4 DEF ResourceDelivered, Sync!Deliver
  <2>3. crs[i] \in CRs \cup {None} /\ hosts[i] \in CRs \cup {None}
    BY DEF TypeOK
  <2>4. note \in Sync!Notifications
    BY <2>2, <2>3, AsSpecType DEF Sync!Notifications
  <2> HIDE DEF note
  <2>5. QED BY <2>1, <2>4 DEF SyncTypes
<1>5. CASE SyncListener
  <2>1. UNCHANGED <<crWorker, sweeper>>
    BY <1>5 DEF SyncListener, Sync!Listener, Sync!HandleSync, Sync!HandleDeleted,
                Sync!DeletedGet, Sync!DeletedDelete
  <2>2. CASE Sync!HandleSync
    <3>1. Head(crPending) \in Sync!Notifications /\ crPending' \in Seq(Sync!Notifications)
        BY <2>2 DEF Sync!HandleSync, SyncTypes
    <3>2. QED BY <2>1, <2>2, <3>1 DEF Sync!HandleSync, Sync!servers, SyncTypes, Sync!Notifications
  <2>3. CASE Sync!HandleDeleted
    <3>1. Head(crPending) \in Sync!Notifications /\ crPending' \in Seq(Sync!Notifications)
        BY <2>3 DEF Sync!HandleDeleted, SyncTypes
    <3>2. Head(crPending).spec \in Sync!Specs
        BY <2>3, <3>1 DEF Sync!HandleDeleted, Sync!Notifications
    <3>3. crHandler' \in Sync!Handlers
        BY <2>3, <3>2 DEF Sync!HandleDeleted, Sync!Handlers, Sync!Specs
    <3>4. QED BY <2>1, <2>3, <3>1, <3>3 DEF Sync!HandleDeleted, Sync!servers, SyncTypes
  <2>4. CASE Sync!DeletedGet
    BY <2>1, <2>4 DEF Sync!DeletedGet, Sync!servers, Sync!informer, SyncTypes, Sync!Handlers,
                Sync!IdleHandler
  <2>5. CASE Sync!DeletedDelete
    BY <2>1, <2>5 DEF Sync!DeletedDelete, Sync!informer, SyncTypes, Sync!Handlers, Sync!IdleHandler
  <2>6. QED BY <1>5, <2>2, <2>3, <2>4, <2>5 DEF SyncListener, Sync!Listener
<1>6. ASSUME NEW i \in Ids, SyncResync(i) PROVE SyncTypes'
    BY <1>6 DEF SyncResync, Sync!Resync, Sync!servers, Sync!informer, SyncTypes
<1>7. ASSUME NEW i \in Ids, SyncProcessNext(i) PROVE SyncTypes'
  <2>1. hosts[i] \in CRs \cup {None}
    BY DEF TypeOK
  <2>2. \/ crWorker' = Sync!IdleWorker
        \/ hosts[i] # None /\ crWorker' = [pc |-> "get", key |-> i, spec |-> AsSpec(i, hosts[i])]
    BY <1>7, <2>1, AsSpecType DEF SyncProcessNext, Sync!ProcessNext
  <2>3. crWorker' \in Sync!Workers /\ (crWorker'.pc # "idle" => crWorker'.spec.name = crWorker'.key)
    BY <2>1, <2>2, AsSpecType DEF Sync!Workers, Sync!IdleWorker
  <2>4. QED BY <1>7, <2>3 DEF SyncProcessNext, Sync!ProcessNext, Sync!servers, Sync!informer, SyncTypes
<1>8. CASE SyncWorker
  <2>1. UNCHANGED <<crPending, crQueue, crHandler, sweeper>> /\ crWorker.pc # "idle"
    BY <1>8 DEF SyncWorker, Sync!CreatedOrUpdated, Sync!CreatedOrUpdatedGet,
                Sync!CreatedOrUpdatedUpdate, Sync!CreatedOrUpdatedCreate, Sync!informer
  <2>2. /\ crWorker.key \in Ids /\ crWorker.spec \in Sync!Specs
        /\ crWorker \in [pc: {"get", "create", "update"}, key: Ids, spec: Sync!Specs]
    BY <2>1, SyncWorkerType DEF SyncTypes
  <2>3. CASE Sync!CreatedOrUpdatedGet
    <3>1. \/ crWorker' = Sync!IdleWorker
          \/ crWorker' = [crWorker EXCEPT !.pc = "create"]
          \/ crWorker' = [crWorker EXCEPT !.pc = "update"]
        BY <2>3 DEF Sync!CreatedOrUpdatedGet
    <3>2. crWorker' \in Sync!Workers /\ (crWorker'.pc # "idle" => crWorker'.spec.name = crWorker'.key)
        BY <2>1, <2>2, <3>1 DEF Sync!Workers, Sync!IdleWorker, SyncTypes
    <3>3. QED BY <2>1, <2>3, <3>2 DEF Sync!CreatedOrUpdatedGet, Sync!servers, SyncTypes
  <2>4. CASE Sync!CreatedOrUpdatedUpdate \/ Sync!CreatedOrUpdatedCreate
    <3>1. icinga' \in [Ids -> Sync!Objects \cup {None}]
        BY <2>2, <2>4, ImageType DEF Sync!CreatedOrUpdatedUpdate, Sync!CreatedOrUpdatedCreate, SyncTypes
    <3>2. crWorker' = Sync!IdleWorker
        BY <2>4 DEF Sync!CreatedOrUpdatedUpdate, Sync!CreatedOrUpdatedCreate
    <3>3. QED BY <2>1, <3>1, <3>2 DEF SyncTypes, Sync!Workers, Sync!IdleWorker
  <2>5. QED BY <1>8, <2>3, <2>4 DEF SyncWorker, Sync!CreatedOrUpdated
<1>9. CASE SyncHousekeeping
  <2>1. UNCHANGED <<crPending, crQueue, crHandler, crWorker>>
    BY <1>9 DEF SyncHousekeeping, Sync!Housekeeping, Sync!HousekeepingList, Sync!HousekeepingGet,
                Sync!HousekeepingDelete, Sync!HousekeepingSleep, Sync!informer
  <2>2. CASE Sync!HousekeepingList
    <3>1. Sync!Listed \in SUBSET Sync!Entries
        BY DEF Sync!Listed
    <3>2. sweeper' \in Sync!Housekeepers
        BY <2>2, <3>1 DEF Sync!HousekeepingList, Sync!Housekeepers
    <3>3. QED BY <2>1, <2>2, <3>2 DEF Sync!HousekeepingList, Sync!servers, SyncTypes
  <2>3. ASSUME NEW e \in Sync!Entries, Sync!HousekeepingGet(e) PROVE SyncTypes'
    <3>1. sweeper \in [pc: {"scan"}, todo: SUBSET Sync!Entries, name: {None}] /\ e.name \in Ids
        BY <2>3 DEF Sync!HousekeepingGet, SyncTypes, Sync!Housekeepers, Sync!IdleHousekeeper,
                    Sync!Entries
    <3>2. sweeper' \in Sync!Housekeepers
        BY <2>3, <3>1 DEF Sync!HousekeepingGet, Sync!Housekeepers
    <3>3. QED BY <2>1, <2>3, <3>2 DEF Sync!HousekeepingGet, Sync!servers, SyncTypes
  <2>4. CASE Sync!HousekeepingDelete
    <3>1. sweeper \in [pc: {"delete"}, todo: SUBSET Sync!Entries, name: Ids]
        BY <2>4 DEF Sync!HousekeepingDelete, SyncTypes, Sync!Housekeepers, Sync!IdleHousekeeper
    <3>2. [sweeper EXCEPT !.pc = "scan", !.name = None] \in Sync!Housekeepers
        BY <3>1 DEF Sync!Housekeepers
    <3>3. QED BY <2>1, <2>4, <3>2 DEF Sync!HousekeepingDelete, SyncTypes
  <2>5. CASE Sync!HousekeepingSleep
    BY <2>1, <2>5 DEF Sync!HousekeepingSleep, Sync!servers, SyncTypes, Sync!Housekeepers
  <2>6. QED BY <1>9, <2>2, <2>3, <2>4, <2>5 DEF SyncHousekeeping, Sync!Housekeeping
<1>10. CASE UNCHANGED <<pipelineVars, excused>>
    BY <1>1, <1>10 DEF pipelineVars
<1>11. QED BY <1>1, <1>2, <1>3, <1>4, <1>5, <1>6, <1>7, <1>8, <1>9, <1>10, Steps DEF SyncSteps

-----------------------------------------------------------------------------
(* No workload is hidden without reason                                    *)

\* No thread has a ground to remove the Icinga object of workload i.
Safe(i) ==
    /\ hosts[i] # None => crs[i] # None
    /\ icinga[i] # None => crs[i] # None /\ icinga[i].owner = i
    /\ \A n \in 1 .. Len(crPending) : crPending[n].type = "deleted" => crPending[n].spec.name # i
    /\ crHandler.pc # "idle" => crHandler.name # i
    /\ crWorker.pc # "idle" /\ crWorker.key = i => crs[i] # None
    /\ \A e \in sweeper.todo : e.name = i => e.owner = i /\ crs[i] # None
    /\ sweeper.pc = "delete" => sweeper.name # i

\* As long as no call has failed.
AllSafe == faults = 0 => \A i \in Ids \ excused : Safe(i)

LEMMA InitAllSafe == PipelineInit => AllSafe
BY DEF PipelineInit, Init, Sync!Init, AllSafe, Safe, Sync!IdleWorker, Sync!IdleHandler,
       Sync!IdleHousekeeper

LEMMA FaultsGrow ==
    ASSUME Base, PipelineNext, faults' = 0
    PROVE  faults = 0 /\ ~Fault /\ ~Sync!Fault
<1>1. faults \in Nat /\ (faults' >= faults \/ faults' = faults + 1)
    BY Parts, CountersGrow, SyncAloneFrame DEF Base, TypeOK
<1>2. QED BY <1>1 DEF Fault, Sync!Fault

\* A workload that was always wanted keeps its Check.
LEMMA CheckStays ==
    ASSUME Base, PipelineNext, faults = 0, NEW i \in Ids \ excused, crs[i] # None
    PROVE  crs'[i] # None
<1>1. CASE Next /\ UNCHANGED edits
    BY <1>1, RemovalStep, Settings DEF Base
<1>2. CASE SyncAlone
    BY <1>2, SyncAloneFrame DEF monitorVars
<1>3. QED BY <1>1, <1>2, Parts

\* A step of IcingaSync removes no object that its threads have no ground to.
LEMMA ObjectStays ==
    ASSUME Base, SyncTypes, SyncSteps, NEW i \in Ids, Safe(i)
    PROVE  /\ icinga[i] # None => icinga'[i] # None
           /\ icinga'[i] # None => crs[i] # None /\ icinga'[i].owner = i
<1>1. CASE UNCHANGED icinga
    BY <1>1 DEF Safe
<1>2. CASE Sync!DeletedDelete
    BY <1>2 DEF Sync!DeletedDelete, Safe, SyncTypes
<1>3. CASE Sync!HousekeepingDelete
    BY <1>3 DEF Sync!HousekeepingDelete, Safe, SyncTypes
<1>4. CASE Sync!CreatedOrUpdatedUpdate \/ Sync!CreatedOrUpdatedCreate
  <2>1. /\ crWorker.pc # "idle" /\ crWorker.key \in Ids /\ crWorker.spec \in Sync!Specs
        /\ crWorker.spec.name = crWorker.key
    BY <1>4, SyncWorkerType DEF Sync!CreatedOrUpdatedUpdate, Sync!CreatedOrUpdatedCreate, SyncTypes
  <2>2. UNCHANGED icinga
        \/ icinga' = [icinga EXCEPT ![crWorker.key] = Sync!Image(crWorker.key, crWorker.spec)]
    BY <1>4, <2>1 DEF Sync!CreatedOrUpdatedUpdate, Sync!CreatedOrUpdatedCreate
  <2>3. QED BY <2>1, <2>2, ImageType DEF Safe, SyncTypes
<1>5. QED
  <2>1. UNCHANGED icinga \/ Sync!DeletedDelete \/ Sync!HousekeepingDelete
        \/ Sync!CreatedOrUpdatedUpdate \/ Sync!CreatedOrUpdatedCreate
    BY DEF SyncSteps, RestartAll, ResourcesList, ResourceDelivered, SyncResync, SyncProcessNext,
           SyncListener, SyncWorker, SyncHousekeeping, Sync!Restart, Sync!InitialList,
           Sync!Deliver, Sync!Resync, Sync!ProcessNext, Sync!Listener, Sync!HandleSync,
           Sync!HandleDeleted, Sync!DeletedGet, Sync!CreatedOrUpdated, Sync!CreatedOrUpdatedGet,
           Sync!Housekeeping, Sync!HousekeepingList, Sync!HousekeepingGet,
           Sync!HousekeepingSleep, Sync!servers
  <2>2. QED BY <1>1, <1>2, <1>3, <1>4, <2>1

LEMMA NextAllSafe ==
    Base /\ SyncTypes /\ AllSafe /\ [PipelineNext]_<<pipelineVars, excused>> => AllSafe'
<1> SUFFICES ASSUME Base, SyncTypes, AllSafe, [PipelineNext]_<<pipelineVars, excused>>,
                    faults' = 0, NEW i \in Ids, i \notin excused'
             PROVE  Safe(i)'
    BY DEF AllSafe
<1>1. CASE UNCHANGED <<pipelineVars, excused>>
    BY <1>1 DEF pipelineVars, vars, syncVars, AllSafe, Safe
<1>2. CASE PipelineNext
  <2>1. i \notin excused /\ faults = 0 /\ Safe(i) /\ (crs[i] # None => crs'[i] # None)
    <3>1. i \notin excused
        BY <1>2 DEF PipelineNext, Remember
    <3>2. QED BY <1>2, <3>1, FaultsGrow, CheckStays DEF AllSafe
  <2>2. CASE UNCHANGED <<syncVars, hosts, hostsSynced>>
    BY <2>1, <2>2 DEF syncVars, Safe
  <2>3. ASSUME SyncSteps, UNCHANGED crs PROVE Safe(i)'
    <3>1. icinga'[i] # None => crs'[i] # None /\ icinga'[i].owner = i
        BY <2>1, <2>3, ObjectStays
    <3>2. CASE RestartAll
      <4>1. hosts'[i] = None /\ crPending' = <<>>
        BY <3>2 DEF RestartAll, Restart, Sync!Restart
      <4>2. crWorker'.pc = "idle" /\ crHandler'.pc = "idle" /\ sweeper'.pc = "idle"
            /\ sweeper'.todo = {}
        BY <3>2 DEF RestartAll, Sync!Restart, Sync!IdleWorker, Sync!IdleHandler, Sync!IdleHousekeeper
      <4>3. QED BY <3>1, <4>1, <4>2 DEF Safe
    <3>3. CASE ResourcesList
      <4>1. UNCHANGED <<crPending, crWorker, crHandler, sweeper>> /\ hosts'[i] = crs[i]
        BY <3>3 DEF ResourcesList, HostsInitialList, Sync!InitialList
      <4>2. QED BY <2>1, <2>3, <3>1, <4>1 DEF Safe
    <3>4. ASSUME NEW j \in Ids, ResourceDelivered(j) PROVE Safe(i)'
      <4> DEFINE note == IF AsSpec(j, crs[j]) = None
                         THEN [type |-> "deleted", key |-> j, spec |-> AsSpec(j, hosts[j])]
                         ELSE [type |-> "sync", key |-> j, spec |-> None]
      <4>1. crPending' = Append(crPending, note) /\ UNCHANGED <<crWorker, crHandler, sweeper>>
        BY <3>4 DEF ResourceDelivered, Sync!Deliver
      <4>2. hosts' = [hosts EXCEPT ![j] = crs[j]] /\ hosts[j] # crs[j]
        BY <3>4 DEF ResourceDelivered, DeliverHost
      <4>3. note.type = "deleted" => note.spec.name # i
        <5>1. crs[j] \in CRs \cup {None} /\ hosts[j] \in CRs \cup {None}
            BY DEF Base, TypeOK
        <5>2. CASE crs[j] = None
          <6>1. hosts[j] # None /\ j # i /\ note.spec.name = j
            BY <2>1, <4>2, <5>1, <5>2, AsSpecType DEF Safe
          <6>2. QED BY <6>1
        <5>3. CASE crs[j] # None
            BY <5>1, <5>3, AsSpecType
        <5>4. QED BY <5>2, <5>3
      <4>4. hosts'[i] # None => crs'[i] # None
        BY <2>1, <2>3, <4>2 DEF Safe, Base, TypeOK
      <4>5. crPending \in Seq(Sync!Notifications)
        BY DEF SyncTypes
      <4> HIDE DEF note
      <4>6. \A n \in 1 .. Len(crPending') :
                crPending'[n].type = "deleted" => crPending'[n].spec.name # i
        BY <2>1, <4>1, <4>3, <4>5 DEF Safe
      <4>7. QED BY <2>1, <2>3, <3>1, <4>1, <4>4, <4>6 DEF Safe
    <3>5. CASE SyncListener
      <4>1. UNCHANGED <<hosts, crWorker, sweeper>>
        BY <3>5 DEF SyncListener, Sync!Listener, Sync!HandleSync, Sync!HandleDeleted,
                    Sync!DeletedGet, Sync!DeletedDelete, monitorVars
      <4>2. crPending' = crPending \/ (crPending # <<>> /\ crPending' = Tail(crPending))
        BY <3>5 DEF SyncListener, Sync!Listener, Sync!HandleSync, Sync!HandleDeleted,
                    Sync!DeletedGet, Sync!DeletedDelete, Sync!informer
      <4>3. \A n \in 1 .. Len(crPending') :
                crPending'[n].type = "deleted" => crPending'[n].spec.name # i
        BY <2>1, <4>2 DEF Safe, SyncTypes
      <4>4. crHandler'.pc # "idle" => crHandler'.name # i
        <5>1. CASE Sync!HandleDeleted
          <6>1. Head(crPending) = crPending[1] /\ 1 \in 1 .. Len(crPending)
            BY <5>1 DEF Sync!HandleDeleted, SyncTypes
          <6>2. QED BY <2>1, <5>1, <6>1 DEF Sync!HandleDeleted, Safe
        <5>2. CASE Sync!HandleSync
            BY <2>1, <5>2 DEF Sync!HandleSync, Safe
        <5>3. CASE Sync!DeletedGet
            BY <2>1, <5>3 DEF Sync!DeletedGet, Safe, SyncTypes, Sync!Handlers, Sync!IdleHandler
        <5>4. CASE Sync!DeletedDelete
            BY <5>4 DEF Sync!DeletedDelete, Sync!IdleHandler
        <5>5. QED BY <3>5, <5>1, <5>2, <5>3, <5>4 DEF SyncListener, Sync!Listener
      <4>5. QED BY <2>1, <2>3, <3>1, <4>1, <4>3, <4>4 DEF Safe
    <3>6. ASSUME NEW j \in Ids, SyncResync(j) PROVE Safe(i)'
        BY <2>1, <2>3, <3>1, <3>6 DEF SyncResync, Sync!Resync, Sync!informer, monitorVars, Safe
    <3>7. ASSUME NEW j \in Ids, SyncProcessNext(j) PROVE Safe(i)'
      <4>1. UNCHANGED <<hosts, crPending, crHandler, sweeper>>
        BY <3>7 DEF SyncProcessNext, Sync!ProcessNext, Sync!informer, monitorVars
      <4>2. hosts[j] \in CRs \cup {None}
        BY DEF Base, TypeOK
      <4>3. crWorker'.pc # "idle" /\ crWorker'.key = i => crs'[i] # None
        BY <2>1, <2>3, <3>7, <4>2, AsSpecType
           DEF SyncProcessNext, Sync!ProcessNext, Sync!IdleWorker, Safe
      <4>4. QED BY <2>1, <2>3, <3>1, <4>1, <4>3 DEF Safe
    <3>8. CASE SyncWorker
      <4>1. UNCHANGED <<hosts, crPending, crHandler, sweeper>> /\ crWorker.pc # "idle"
        BY <3>8 DEF SyncWorker, Sync!CreatedOrUpdated, Sync!CreatedOrUpdatedGet,
                    Sync!CreatedOrUpdatedUpdate, Sync!CreatedOrUpdatedCreate, Sync!informer,
                    monitorVars
      <4>2. crWorker' = Sync!IdleWorker \/ crWorker'.key = crWorker.key
        <5>1. crWorker \in [pc: {"get", "create", "update"}, key: Ids, spec: Sync!Specs]
            BY <4>1, SyncWorkerType DEF SyncTypes
        <5>2. QED BY <3>8, <5>1 DEF SyncWorker, Sync!CreatedOrUpdated, Sync!CreatedOrUpdatedGet,
                    Sync!CreatedOrUpdatedUpdate, Sync!CreatedOrUpdatedCreate
      <4>3. QED BY <2>1, <2>3, <3>1, <4>1, <4>2 DEF Safe, Sync!IdleWorker
    <3>9. CASE SyncHousekeeping
      <4>1. UNCHANGED <<hosts, crPending, crHandler, crWorker>>
        BY <3>9 DEF SyncHousekeeping, Sync!Housekeeping, Sync!HousekeepingList,
                    Sync!HousekeepingGet, Sync!HousekeepingDelete, Sync!HousekeepingSleep,
                    Sync!informer, monitorVars
      <4>2. /\ \A e \in sweeper'.todo : e.name = i => e.owner = i /\ crs[i] # None
            /\ sweeper'.pc = "delete" => sweeper'.name # i
        <5>1. CASE Sync!HousekeepingList
            BY <2>1, <5>1 DEF Sync!HousekeepingList, Sync!Listed, Safe
        <5>2. ASSUME NEW e \in Sync!Entries, Sync!HousekeepingGet(e)
              PROVE  /\ \A d \in sweeper'.todo : d.name = i => d.owner = i /\ crs[i] # None
                     /\ sweeper'.pc = "delete" => sweeper'.name # i
          <6>1. sweeper \in [pc: {"scan"}, todo: SUBSET Sync!Entries, name: {None}]
                /\ e \in sweeper.todo
            BY <5>2 DEF Sync!HousekeepingGet, SyncTypes, Sync!Housekeepers, Sync!IdleHousekeeper
          <6>2. \/ /\ AsSpec(e.owner, crs[e.owner]) = None
                   /\ sweeper' = [pc |-> "delete", todo |-> sweeper.todo \ {e}, name |-> e.name]
                \/ sweeper' = [sweeper EXCEPT !.todo = @ \ {e}]
            BY <5>2 DEF Sync!HousekeepingGet, Sync!Entries
          <6>3. e.name = i => AsSpec(e.owner, crs[e.owner]) # None
            BY <2>1, <6>1, AsSpecType DEF Safe, Base, TypeOK
          <6>4. QED BY <2>1, <6>1, <6>2, <6>3 DEF Safe
        <5>3. CASE Sync!HousekeepingDelete
          <6>1. sweeper \in [pc: {"delete"}, todo: SUBSET Sync!Entries, name: Ids]
            BY <5>3 DEF Sync!HousekeepingDelete, SyncTypes, Sync!Housekeepers, Sync!IdleHousekeeper
          <6>2. QED BY <2>1, <5>3, <6>1 DEF Sync!HousekeepingDelete, Safe
        <5>4. CASE Sync!HousekeepingSleep
            BY <5>4 DEF Sync!HousekeepingSleep, Sync!IdleHousekeeper
        <5>5. QED BY <3>9, <5>1, <5>2, <5>3, <5>4 DEF SyncHousekeeping, Sync!Housekeeping
      <4>3. QED BY <2>1, <2>3, <3>1, <4>1, <4>2 DEF Safe
    <3>10. QED BY <2>3, <3>2, <3>3, <3>4, <3>5, <3>6, <3>7, <3>8, <3>9 DEF SyncSteps
  <2>4. QED BY <1>2, <2>2, <2>3, Steps
<1>3. QED BY <1>1, <1>2

LEMMA PipelineInvariants == PipelineSpec => [](Base /\ SyncTypes /\ AllSafe)
<1>1. Base => TypeOK
    BY DEF Base
<1>2. QED BY <1>1, InitBase, NextBase, InitSyncTypes, NextSyncTypes, InitAllSafe, NextAllSafe, PTL
          DEF PipelineSpec

\* While no call fails, no thread from the workload's informer to housekeeping
\* removes the Icinga object of a workload that has always been wanted.
THEOREM PipelineHidesWithReason == PipelineSpec => HiddenWithReason
<1>1. Base /\ SyncTypes /\ AllSafe /\ [PipelineNext]_<<pipelineVars, excused>>
        => [\A i \in Ids : icinga[i] # None /\ icinga'[i] = None => i \in excused \/ faults # 0]_pipelineVars
  <2> SUFFICES ASSUME Base, SyncTypes, AllSafe, PipelineNext, faults = 0, NEW i \in Ids \ excused,
                      icinga[i] # None
               PROVE  icinga'[i] # None
    BY DEF pipelineVars
  <2>1. Safe(i)
    BY DEF AllSafe
  <2>2. QED BY <2>1, Steps, ObjectStays DEF syncVars
<1>2. QED BY <1>1, PipelineInvariants, PTL DEF PipelineSpec, HiddenWithReason

\* Beside IcingaSync, which only reads the Checks, and with its failures: as
\* long as no call has failed, the Check of a workload that has always been
\* wanted is not removed, either.
THEOREM PipelineRemovesWithReason == PipelineSpec => RemovedWithReason
<1>1. Base /\ [PipelineNext]_<<pipelineVars, excused>>
        => [\A i \in Ids : crs[i] # None /\ crs'[i] = None =>
               i \in excused \/ edits' # edits \/ (Kind = "Workload" /\ faults # 0)]_vars
  <2> SUFFICES ASSUME Base, PipelineNext, faults = 0, NEW i \in Ids \ excused, crs[i] # None
               PROVE  crs'[i] # None
    BY Settings DEF pipelineVars
  <2>1. QED BY CheckStays
<1>2. QED BY <1>1, InitBase, NextBase, PTL DEF PipelineSpec, RemovedWithReason

-----------------------------------------------------------------------------
(* At rest, Icinga shows every workload as it is                           *)

\* A step of IcingaSync is still to come for the Check of workload i.
SyncTold(i) ==
    \/ i \in crQueue
    \/ \E n \in 1 .. Len(crPending) : crPending[n].type = "sync" /\ crPending[n].key = i

SyncBusy(i) == crWorker.pc # "idle" /\ crWorker.key = i

\* Icinga shows what the cache of the Checks says.
SyncShown(i) == icinga[i] = Sync!Image(i, AsSpec(i, hosts[i]))

SyncServed(i) ==
    /\ hostsSynced /\ hosts[i] # None =>
           SyncShown(i) \/ SyncTold(i) \/ (SyncBusy(i) /\ crWorker.spec = AsSpec(i, hosts[i]))
    /\ SyncBusy(i) => SyncTold(i) \/ crWorker.spec = AsSpec(i, hosts[i])
    /\ SyncBusy(i) /\ crWorker.pc = "create" => icinga[i] = None
    /\ SyncBusy(i) /\ crWorker.pc = "update" => icinga[i] # None

\* The worker of the Checks with an outdated copy is never the last to write.
SyncProgress ==
    /\ crWorker.pc # "idle" => hostsSynced
    /\ faults = 0 => \A i \in Ids \ excused : SyncServed(i)

LEMMA InitSyncProgress == PipelineInit => SyncProgress
BY DEF PipelineInit, Init, Sync!Init, SyncProgress, SyncServed, SyncBusy, Sync!IdleWorker

\* No notification about the Check of workload i gets lost on its way to the queue.
LEMMA SyncStillTold ==
    ASSUME SyncTypes, SyncListener, NEW i \in Ids, SyncTold(i)
    PROVE  SyncTold(i)'
<1>1. CASE Sync!DeletedGet \/ Sync!DeletedDelete
    BY <1>1 DEF Sync!DeletedGet, Sync!DeletedDelete, Sync!informer, SyncTold
<1>2. CASE Sync!HandleSync \/ Sync!HandleDeleted
  <2>1. crPending # <<>> /\ crPending' = Tail(crPending) /\ crPending \in Seq(Sync!Notifications)
    BY <1>2 DEF Sync!HandleSync, Sync!HandleDeleted, SyncTypes
  <2>2. crQueue \subseteq crQueue'
    BY <1>2 DEF Sync!HandleSync, Sync!HandleDeleted
  <2>3. CASE i \in crQueue
    BY <2>2, <2>3 DEF SyncTold
  <2>4. ASSUME NEW n \in 1 .. Len(crPending), crPending[n].type = "sync", crPending[n].key = i
        PROVE  SyncTold(i)'
    <3>1. CASE n = 1
      <4>1. Head(crPending) = crPending[1]
        BY <2>1
      <4>2. QED BY <1>2, <2>4, <3>1, <4>1 DEF SyncTold, Sync!HandleSync, Sync!HandleDeleted
    <3>2. CASE n > 1
      <4>1. n - 1 \in 1 .. Len(crPending') /\ crPending'[n - 1] = crPending[n]
        BY <2>1, <3>2
      <4>2. QED BY <2>4, <4>1 DEF SyncTold
    <3>3. QED BY <3>1, <3>2
  <2>5. QED BY <2>3, <2>4 DEF SyncTold
<1>3. QED BY <1>1, <1>2 DEF SyncListener, Sync!Listener

\* Only its own Check's worker writes the Icinga object of a workload that no
\* thread has a ground to remove.
LEMMA OwnWorkerWrites ==
    ASSUME SyncTypes, SyncSteps, NEW i \in Ids, Safe(i)
    PROVE  \/ icinga'[i] = icinga[i]
           \/ SyncBusy(i) /\ (Sync!CreatedOrUpdatedUpdate \/ Sync!CreatedOrUpdatedCreate)
<1>1. CASE Sync!DeletedDelete
    BY <1>1 DEF Sync!DeletedDelete, Safe, SyncTypes
<1>2. CASE Sync!HousekeepingDelete
    BY <1>2 DEF Sync!HousekeepingDelete, Safe, SyncTypes
<1>3. CASE Sync!CreatedOrUpdatedUpdate \/ Sync!CreatedOrUpdatedCreate
  <2>1. crWorker.pc # "idle" /\ crWorker.key \in Ids /\ crWorker.spec.name = crWorker.key
    BY <1>3, SyncWorkerType DEF Sync!CreatedOrUpdatedUpdate, Sync!CreatedOrUpdatedCreate, SyncTypes
  <2>2. crWorker.key # i => icinga'[i] = icinga[i]
    BY <1>3, <2>1 DEF Sync!CreatedOrUpdatedUpdate, Sync!CreatedOrUpdatedCreate, SyncTypes
  <2>3. QED BY <1>3, <2>1, <2>2 DEF SyncBusy
<1>4. QED
  <2>1. UNCHANGED icinga \/ Sync!DeletedDelete \/ Sync!HousekeepingDelete
        \/ Sync!CreatedOrUpdatedUpdate \/ Sync!CreatedOrUpdatedCreate
    BY DEF SyncSteps, RestartAll, ResourcesList, ResourceDelivered, SyncResync, SyncProcessNext,
           SyncListener, SyncWorker, SyncHousekeeping, Sync!Restart, Sync!InitialList,
           Sync!Deliver, Sync!Resync, Sync!ProcessNext, Sync!Listener, Sync!HandleSync,
           Sync!HandleDeleted, Sync!DeletedGet, Sync!CreatedOrUpdated, Sync!CreatedOrUpdatedGet,
           Sync!Housekeeping, Sync!HousekeepingList, Sync!HousekeepingGet,
           Sync!HousekeepingSleep, Sync!servers
  <2>2. QED BY <1>1, <1>2, <1>3, <2>1

\* What the comparison of Checks leaves out is the same in all of them.
LEMMA NotDiffering ==
    ASSUME NEW i \in Ids, NEW o \in Sync!Objects, NEW s \in Sync!Specs,
           ~Sync!Differs(o, Sync!Image(i, s))
    PROVE  o = Sync!Image(i, s)
<1>1. /\ o.vars = Sync!Image(i, s).vars /\ o.cluster = Sync!Image(i, s).cluster
      /\ o.owner = Sync!Image(i, s).owner /\ o.command = Sync!Image(i, s).command
    BY DEF Sync!Differs, Sync!CheckDiffers, Sync!VarsDiffer
<1>2. Sync!Image(i, s) \in Sync!Objects
    BY ImageType
<1>3. o.groups = "namespace" /\ Sync!Image(i, s).groups = "namespace"
    BY <1>2 DEF Sync!Objects
<1> DEFINE w == Sync!Image(i, s)
<1>4. /\ o = [cluster |-> o.cluster, owner |-> o.owner, vars |-> o.vars,
              command |-> o.command, groups |-> o.groups]
      /\ w = [cluster |-> w.cluster, owner |-> w.owner, vars |-> w.vars,
              command |-> w.command, groups |-> w.groups]
  <2> HIDE DEF w
  <2>1. QED BY <1>2 DEF Sync!Objects, w
<1>5. QED BY <1>1, <1>3, <1>4

\* The worker of the Checks with the Check of workload i in hand.
LEMMA OwnWorkerStep ==
    ASSUME SyncTypes, SyncWorker, ~Sync!Fault, NEW i \in Ids, SyncBusy(i),
           crWorker.pc = "create" => icinga[i] = None,
           crWorker.pc = "update" => icinga[i] # None
    PROVE  \/ crWorker' = Sync!IdleWorker /\ icinga'[i] = Sync!Image(i, crWorker.spec)
           \/ /\ SyncBusy(i)' /\ crWorker'.spec = crWorker.spec /\ icinga'[i] = icinga[i]
              /\ crWorker'.pc = "create" => icinga[i] = None
              /\ crWorker'.pc = "update" => icinga[i] # None
<1>1. /\ crWorker.spec \in Sync!Specs /\ crWorker.key = i /\ crWorker.spec.name = i
      /\ crWorker \in [pc: {"get", "create", "update"}, key: Ids, spec: Sync!Specs]
    BY SyncWorkerType DEF SyncBusy, SyncTypes
<1>2. CASE Sync!CreatedOrUpdatedGet
  <2>1. UNCHANGED icinga
    BY <1>2 DEF Sync!CreatedOrUpdatedGet, Sync!servers
  <2>2. \/ icinga[i] = None /\ crWorker' = [crWorker EXCEPT !.pc = "create"]
        \/ icinga[i] # None /\ crWorker' = [crWorker EXCEPT !.pc = "update"]
        \/ /\ icinga[i] # None /\ ~Sync!Differs(icinga[i], Sync!Image(i, crWorker.spec))
           /\ crWorker' = Sync!IdleWorker
    BY <1>1, <1>2 DEF Sync!CreatedOrUpdatedGet, Sync!ChecksCluster
  <2>3. CASE icinga[i] = None /\ crWorker' = [crWorker EXCEPT !.pc = "create"]
    <3>1. crWorker'.pc = "create" /\ crWorker'.key = i /\ crWorker'.spec = crWorker.spec
        BY <1>1, <2>3
    <3>2. QED BY <2>1, <2>3, <3>1 DEF SyncBusy
  <2>4. CASE icinga[i] # None /\ crWorker' = [crWorker EXCEPT !.pc = "update"]
    <3>1. crWorker'.pc = "update" /\ crWorker'.key = i /\ crWorker'.spec = crWorker.spec
        BY <1>1, <2>4
    <3>2. QED BY <2>1, <2>4, <3>1 DEF SyncBusy
  <2>5. CASE /\ icinga[i] # None /\ ~Sync!Differs(icinga[i], Sync!Image(i, crWorker.spec))
             /\ crWorker' = Sync!IdleWorker
    <3>1. icinga[i] \in Sync!Objects
        BY <2>5 DEF SyncTypes
    <3>2. QED BY <1>1, <2>1, <2>5, <3>1, NotDiffering
  <2>6. QED BY <2>2, <2>3, <2>4, <2>5
<1>3. CASE Sync!CreatedOrUpdatedUpdate \/ Sync!CreatedOrUpdatedCreate
    BY <1>1, <1>3 DEF Sync!CreatedOrUpdatedUpdate, Sync!CreatedOrUpdatedCreate, SyncTypes
<1>4. QED BY <1>2, <1>3 DEF SyncWorker, Sync!CreatedOrUpdated

LEMMA NextSyncProgress ==
    Base /\ SyncTypes /\ AllSafe /\ SyncProgress /\ [PipelineNext]_<<pipelineVars, excused>>
        => SyncProgress'
<1> SUFFICES ASSUME Base, SyncTypes, AllSafe, SyncProgress,
                    [PipelineNext]_<<pipelineVars, excused>>
             PROVE  SyncProgress'
    OBVIOUS
<1>1. CASE UNCHANGED <<pipelineVars, excused>>
    BY <1>1 DEF pipelineVars, vars, syncVars, SyncProgress, SyncServed, SyncTold, SyncBusy, SyncShown
<1>2. ASSUME PipelineNext PROVE (crWorker.pc # "idle" => hostsSynced)'
  <2>1. CASE UNCHANGED <<syncVars, hosts, hostsSynced>>
    BY <2>1 DEF syncVars, SyncProgress
  <2>2. CASE SyncWorker
    BY <2>2 DEF SyncWorker, Sync!CreatedOrUpdated, Sync!CreatedOrUpdatedGet,
                Sync!CreatedOrUpdatedUpdate, Sync!CreatedOrUpdatedCreate, SyncProgress, monitorVars
  <2>3. CASE \E j \in Ids : SyncProcessNext(j)
    BY <2>3 DEF SyncProcessNext, Sync!ProcessNext, Sync!informer
  <2>4. CASE RestartAll
    BY <2>4 DEF RestartAll, Sync!Restart, Sync!IdleWorker
  <2>5. CASE \/ ResourcesList \/ SyncListener \/ SyncHousekeeping
             \/ \E j \in Ids : ResourceDelivered(j) \/ SyncResync(j)
    BY <2>5 DEF ResourcesList, SyncListener, SyncHousekeeping, ResourceDelivered, SyncResync,
                Sync!InitialList, Sync!Deliver, Sync!Resync, Sync!Listener, Sync!HandleSync,
                Sync!HandleDeleted, Sync!DeletedGet, Sync!DeletedDelete, Sync!Housekeeping,
                Sync!HousekeepingList, Sync!HousekeepingGet, Sync!HousekeepingDelete,
                Sync!HousekeepingSleep, Sync!informer, SyncProgress
  <2>6. QED BY <1>2, <2>1, <2>2, <2>3, <2>4, <2>5, Steps DEF SyncSteps
<1>3. ASSUME PipelineNext, faults' = 0, NEW i \in Ids, i \notin excused'
      PROVE  SyncServed(i)'
  <2>1. i \notin excused /\ faults = 0 /\ ~Sync!Fault /\ Safe(i) /\ SyncServed(i)
    <3>1. i \notin excused
        BY <1>3 DEF PipelineNext, Remember
    <3>2. QED BY <1>3, <3>1, FaultsGrow DEF AllSafe, SyncProgress
  <2>2. CASE UNCHANGED <<syncVars, hosts, hostsSynced>>
    BY <2>1, <2>2 DEF syncVars, SyncServed, SyncTold, SyncBusy, SyncShown
  <2>3. ASSUME SyncSteps PROVE SyncServed(i)'
    <3>1. \/ icinga'[i] = icinga[i]
          \/ SyncBusy(i) /\ (Sync!CreatedOrUpdatedUpdate \/ Sync!CreatedOrUpdatedCreate)
        BY <2>1, <2>3, OwnWorkerWrites
    <3>2. CASE RestartAll
        BY <3>2 DEF RestartAll, Restart, Sync!Restart, Sync!IdleWorker, SyncServed, SyncBusy
    <3>3. CASE ResourcesList
      <4>1. ~hostsSynced /\ hosts' = crs /\ UNCHANGED <<icinga, crWorker>>
            /\ crQueue' = {k \in Ids : AsSpec(k, crs[k]) # None}
        BY <3>3 DEF ResourcesList, HostsInitialList, Sync!InitialList, Sync!servers
      <4>2. crs[i] \in CRs \cup {None}
        BY DEF Base, TypeOK
      <4>3. hosts'[i] # None => SyncTold(i)'
        BY <4>1, <4>2, AsSpecType DEF SyncTold
      <4>4. crWorker.pc = "idle"
        BY <4>1 DEF SyncProgress
      <4>5. QED BY <4>1, <4>3, <4>4 DEF SyncServed, SyncBusy
    <3>4. ASSUME NEW j \in Ids, ResourceDelivered(j) PROVE SyncServed(i)'
      <4> DEFINE note == IF AsSpec(j, crs[j]) = None
                         THEN [type |-> "deleted", key |-> j, spec |-> AsSpec(j, hosts[j])]
                         ELSE [type |-> "sync", key |-> j, spec |-> None]
      <4>1. /\ crPending' = Append(crPending, note) /\ crPending \in Seq(Sync!Notifications)
            /\ UNCHANGED <<icinga, crQueue, crWorker, hostsSynced>>
        BY <3>4 DEF ResourceDelivered, Sync!Deliver, Sync!servers, SyncTypes
      <4>2. hosts' = [hosts EXCEPT ![j] = crs[j]] /\ hosts[j] # crs[j]
        BY <3>4 DEF ResourceDelivered, DeliverHost
      <4>3. CASE i = j
        <5>1. crs[i] \in CRs /\ crs[i] # None
            BY <2>1, <4>2, <4>3 DEF Safe, Base, TypeOK
        <5>2. note.type = "sync" /\ note.key = i
            BY <4>3, <5>1, AsSpecType
        <5> HIDE DEF note
        <5>3. Len(crPending) + 1 \in 1 .. Len(crPending') /\ crPending'[Len(crPending) + 1] = note
            BY <4>1
        <5>4. SyncTold(i)'
            BY <5>2, <5>3 DEF SyncTold
        <5>5. QED BY <2>1, <4>1, <5>4 DEF SyncServed, SyncBusy
      <4>4. CASE i # j
        <5>1. hosts'[i] = hosts[i]
            BY <4>2, <4>4 DEF Base, TypeOK
        <5> HIDE DEF note
        <5>2. SyncTold(i) => SyncTold(i)'
            BY <4>1 DEF SyncTold
        <5>3. QED BY <2>1, <4>1, <5>1, <5>2 DEF SyncServed, SyncBusy, SyncShown
      <4>5. QED BY <4>3, <4>4
    <3>5. CASE SyncListener
      <4>1. UNCHANGED <<hosts, hostsSynced, crWorker>>
        BY <3>5 DEF SyncListener, Sync!Listener, Sync!HandleSync, Sync!HandleDeleted,
                    Sync!DeletedGet, Sync!DeletedDelete, monitorVars
      <4>2. icinga'[i] = icinga[i]
        BY <3>1, <3>5, <4>1 DEF SyncListener, Sync!CreatedOrUpdatedUpdate,
                                Sync!CreatedOrUpdatedCreate, SyncBusy, Sync!IdleWorker
      <4>3. SyncTold(i) => SyncTold(i)'
        BY <3>5, SyncStillTold
      <4>4. QED BY <2>1, <4>1, <4>2, <4>3 DEF SyncServed, SyncBusy, SyncShown
    <3>6. ASSUME NEW j \in Ids, SyncResync(j) PROVE SyncServed(i)'
        BY <2>1, <3>6 DEF SyncResync, Sync!Resync, Sync!servers, Sync!informer, monitorVars,
                          SyncServed, SyncTold, SyncBusy, SyncShown
    <3>7. ASSUME NEW j \in Ids, SyncProcessNext(j) PROVE SyncServed(i)'
      <4>1. UNCHANGED <<icinga, hosts, hostsSynced, crPending>> /\ crWorker.pc = "idle"
            /\ crQueue' = crQueue \ {j}
        BY <3>7 DEF SyncProcessNext, Sync!ProcessNext, Sync!servers, Sync!informer, monitorVars
      <4>2. hosts[j] \in CRs \cup {None}
        BY DEF Base, TypeOK
      <4>3. CASE i = j
        <5>1. CASE hosts[i] = None
          <6>1. crWorker' = Sync!IdleWorker
            BY <3>7, <4>2, <4>3, <5>1, AsSpecType DEF SyncProcessNext, Sync!ProcessNext
          <6>2. QED BY <4>1, <5>1, <6>1 DEF SyncServed, SyncBusy, Sync!IdleWorker
        <5>2. CASE hosts[i] # None
          <6>1. crWorker' = [pc |-> "get", key |-> i, spec |-> AsSpec(i, hosts[i])]
            BY <3>7, <4>2, <4>3, <5>2, AsSpecType DEF SyncProcessNext, Sync!ProcessNext
          <6>2. QED BY <4>1, <6>1 DEF SyncServed, SyncBusy
        <5>3. QED BY <5>1, <5>2
      <4>4. CASE i # j
        <5>1. ~SyncBusy(i)' /\ ~SyncBusy(i)
            BY <3>7, <4>1, <4>4 DEF SyncProcessNext, Sync!ProcessNext, Sync!IdleWorker, SyncBusy
        <5>2. SyncTold(i) => SyncTold(i)'
            BY <4>1, <4>4 DEF SyncTold
        <5>3. QED BY <2>1, <4>1, <5>1, <5>2 DEF SyncServed, SyncShown
      <4>5. QED BY <4>3, <4>4
    <3>8. CASE SyncWorker
      <4>1. UNCHANGED <<hosts, hostsSynced, crPending, crQueue>> /\ crWorker.pc # "idle"
        BY <3>8 DEF SyncWorker, Sync!CreatedOrUpdated, Sync!CreatedOrUpdatedGet,
                    Sync!CreatedOrUpdatedUpdate, Sync!CreatedOrUpdatedCreate, Sync!informer,
                    monitorVars
      <4>2. SyncTold(i)' <=> SyncTold(i)
        BY <4>1 DEF SyncTold
      <4>3. CASE SyncBusy(i)
        <5>1. \/ crWorker' = Sync!IdleWorker /\ icinga'[i] = Sync!Image(i, crWorker.spec)
              \/ /\ SyncBusy(i)' /\ crWorker'.spec = crWorker.spec /\ icinga'[i] = icinga[i]
                 /\ crWorker'.pc = "create" => icinga[i] = None
                 /\ crWorker'.pc = "update" => icinga[i] # None
            BY <2>1, <3>8, <4>3, OwnWorkerStep DEF SyncServed
        <5>2. QED BY <2>1, <4>1, <4>2, <4>3, <5>1
                  DEF SyncServed, SyncShown, SyncBusy, Sync!IdleWorker
      <4>4. CASE ~SyncBusy(i)
        <5>1. icinga'[i] = icinga[i]
            BY <3>1, <4>4
        <5>2. ~SyncBusy(i)'
          <6>1. crWorker \in [pc: {"get", "create", "update"}, key: Ids, spec: Sync!Specs]
            BY <4>1, SyncWorkerType DEF SyncTypes
          <6>2. crWorker' = Sync!IdleWorker \/ crWorker'.key = crWorker.key
            BY <3>8, <6>1 DEF SyncWorker, Sync!CreatedOrUpdated, Sync!CreatedOrUpdatedGet,
                    Sync!CreatedOrUpdatedUpdate, Sync!CreatedOrUpdatedCreate
          <6>3. QED BY <4>1, <4>4, <6>2 DEF SyncBusy, Sync!IdleWorker
        <5>3. QED BY <2>1, <4>1, <4>2, <4>4, <5>1, <5>2 DEF SyncServed, SyncShown
      <4>5. QED BY <4>3, <4>4
    <3>9. CASE SyncHousekeeping
      <4>1. UNCHANGED <<hosts, hostsSynced, crPending, crQueue, crWorker>>
        BY <3>9 DEF SyncHousekeeping, Sync!Housekeeping, Sync!HousekeepingList,
                    Sync!HousekeepingGet, Sync!HousekeepingDelete, Sync!HousekeepingSleep,
                    Sync!informer, monitorVars
      <4>2. icinga'[i] = icinga[i]
        BY <3>1, <4>1 DEF Sync!CreatedOrUpdatedUpdate, Sync!CreatedOrUpdatedCreate, SyncBusy,
                          Sync!IdleWorker
      <4>3. QED BY <2>1, <4>1, <4>2 DEF SyncServed, SyncTold, SyncBusy, SyncShown
    <3>10. QED BY <2>3, <3>2, <3>3, <3>4, <3>5, <3>6, <3>7, <3>8, <3>9 DEF SyncSteps
  <2>4. QED BY <1>3, <2>2, <2>3, Steps
<1>4. QED BY <1>1, <1>2, <1>3 DEF SyncProgress

\* From the workload's informer over both queues and both caches to Icinga, no
\* change of a workload is lost while no call fails: at rest, Icinga shows what
\* was always to be monitored as it now is, with no help from resyncs.
THEOREM PipelineLosesNothing == PipelineSpec => []QuietShown
<1>1. Base /\ SyncTypes /\ SyncProgress => QuietShown
  <2> SUFFICES ASSUME Base, SyncTypes, SyncProgress, PipelineQuiet, faults = 0,
                      NEW i \in Ids \ excused
               PROVE  ShownInIcinga(i)
    BY DEF QuietShown
  <2>1. crs[i] # None /\ crs[i].spec = SpecOf(objs[i])
    BY DEF PipelineQuiet, Quiet, Base, Progress, Served, Told, Busy, Shown, TypeOK
  <2>2. SyncShown(i) /\ hosts[i] = crs[i]
    BY <2>1 DEF PipelineQuiet, SyncProgress, SyncServed, SyncTold, SyncBusy
  <2>3. AsSpec(i, [spec |-> SpecOf(objs[i]), owned |-> TRUE]) = AsSpec(i, crs[i])
    <3>1. objs[i] \in Objs
        BY DEF Base, Grounds, TypeOK, Wanted
    <3>2. [spec |-> SpecOf(objs[i]), owned |-> TRUE] # None
        BY <3>1, SpecOfType, NoneAssumption
    <3>3. QED BY <2>1, <3>2 DEF AsSpec
  <2>4. QED BY <2>2, <2>3 DEF SyncShown, ShownInIcinga
<1>2. QED BY <1>1, PipelineInvariants, InitSyncProgress, NextSyncProgress, PTL DEF PipelineSpec
=============================================================================
