------------------------ MODULE WorkloadMonitorProofs ------------------------
(***************************************************************************)
(* Machine-checked proofs about WorkloadMonitor: type correctness, that    *)
(* custom resources are only removed with a reason, and that at rest every *)
(* object is monitored as it is; for every kind, every set of objects and  *)
(* every bound.                                                            *)
(***************************************************************************)
EXTENDS WorkloadMonitorHistory, TLAPS

LEMMA SpecOfType ==
    ASSUME NEW o \in Objs
    PROVE  [spec |-> SpecOf(o), owned |-> TRUE] \in CRs /\ SpecOf(o) \in Notes \cup {NoNotes}
BY DEF SpecOf, Objs, CRs

\* What a worker past "idle" carries.
LEMMA WorkerType ==
    ASSUME worker \in Workers
    PROVE  /\ worker.pc # "idle" => worker.id \in Ids /\ worker.obj \in Objs
           /\ worker.pc = "idle" => worker = IdleWorker
           /\ worker.pc = "update" => worker.seen \in CRs
           /\ worker.pc \in {"idle", "namespace", "delete", "get", "create", "update"}
BY DEF Workers, IdleWorker

LEMMA InitTypeOK == Init => TypeOK
<1> SUFFICES ASSUME Init PROVE TypeOK
    OBVIOUS
<1>1. pending \in Seq(Notifications) /\ worker \in Workers /\ housekeeper \in Housekeepers
    BY DEF Init, Workers, Housekeepers
<1>2. objs \in [Ids -> Objs \cup {None}] /\ crs \in [Ids -> CRs \cup {None}]
    BY InitAssumption DEF Init
<1>3. QED
    BY <1>1, <1>2 DEF Init, TypeOK

\* One step per action: each of them leaves every variable in its set.
LEMMA NextTypeOK == TypeOK /\ [Next]_<<vars, excused>> => TypeOK'
<1> SUFFICES ASSUME TypeOK, [Next]_<<vars, excused>> PROVE TypeOK'
    OBVIOUS
<1> USE DEF TypeOK, api, informers
<1>1. ASSUME Next PROVE excused' \in SUBSET Ids
    BY <1>1 DEF Next, Remember
<1> DEFINE Rest == excused' \in SUBSET Ids => TypeOK'
<1>2. ASSUME NEW i \in Ids, NEW o \in Objs \cup {None}, ObjectChanges(i, o) PROVE Rest
    BY <1>2 DEF ObjectChanges
<1>3. ASSUME NamespaceChanges PROVE Rest
    BY <1>3 DEF NamespaceChanges
<1>4. ASSUME NEW i \in Ids, NEW c \in CRs \cup {None}, UserEdits(i, c) PROVE Rest
    BY <1>4 DEF UserEdits
<1>5. ASSUME InitialList PROVE Rest
    BY <1>5 DEF InitialList
<1>6. ASSUME HostsInitialList PROVE Rest
    BY <1>6 DEF HostsInitialList
<1>7. ASSUME NEW i \in Ids, Deliver(i) PROVE Rest
  <2> DEFINE note == [type |-> IF objs[i] = None THEN "deleted" ELSE "sync", id |-> i]
  <2>1. note \in Notifications
    BY DEF Notifications
  <2>2. pending' \in Seq(Notifications)
    BY <1>7, <2>1 DEF Deliver
  <2>3. QED BY <1>7, <2>2 DEF Deliver
<1>8. ASSUME NEW i \in Ids, DeliverHost(i) PROVE Rest
    BY <1>8 DEF DeliverHost
<1>9. ASSUME NEW i \in Ids, Resync(i) PROVE Rest
    BY <1>9 DEF Resync
<1>10. ASSUME HandleSync PROVE Rest
  <2>1. Head(pending) \in Notifications /\ pending' \in Seq(Notifications)
    BY <1>10 DEF HandleSync
  <2>2. QED BY <1>10, <2>1 DEF HandleSync, Notifications
<1>11. ASSUME HandleDeleted PROVE Rest
  <2>1. pending' \in Seq(Notifications)
    BY <1>11 DEF HandleDeleted
  <2>2. QED BY <1>11, <2>1 DEF HandleDeleted, Fault, NoFault
<1>12. ASSUME NEW i \in Ids, ProcessNext(i) PROVE Rest
  <2>1. worker' \in Workers
    BY <1>12 DEF ProcessNext, Workers, Work, UnlessDeleting
  <2>2. QED BY <1>12, <2>1 DEF ProcessNext
<1>13. ASSUME GetNamespace PROVE Rest
  <2>1. worker \in [pc: {"namespace", "delete", "get", "create"}, id: Ids, obj: Objs, seen: {None}]
    BY <1>13 DEF GetNamespace, Workers, IdleWorker
  <2>2. worker' \in Workers
    BY <1>13, <2>1 DEF GetNamespace, Workers, UnlessDeleting
  <2>3. QED BY <1>13, <2>2 DEF GetNamespace, Fault, NoFault
<1>14. ASSUME Unmonitor PROVE Rest
    BY <1>14 DEF Unmonitor, Workers, Fault, NoFault
<1>15. ASSUME ReconcileGet PROVE Rest
  <2>1. worker \in [pc: {"namespace", "delete", "get", "create"}, id: Ids, obj: Objs, seen: {None}]
    BY <1>15 DEF ReconcileGet, Workers, IdleWorker
  <2>2. worker' \in Workers
    <3>1. [worker EXCEPT !.pc = "create"] \in Workers
        BY <2>1 DEF Workers
    <3>2. \A c \in CRs : [worker EXCEPT !.pc = "update", !.seen = c] \in Workers
        BY <2>1 DEF Workers
    <3>3. IdleWorker \in Workers /\ crs[worker.id] \in CRs \cup {None}
        BY <2>1 DEF Workers
    <3>4. QED BY <1>15, <3>1, <3>2, <3>3 DEF ReconcileGet
  <2>3. QED BY <1>15, <2>2 DEF ReconcileGet, Fault, NoFault
<1>16. ASSUME ReconcileCreate PROVE Rest
  <2>1. worker.id \in Ids /\ worker.obj \in Objs
    BY <1>16, WorkerType DEF ReconcileCreate
  <2>2. crs' \in [Ids -> CRs \cup {None}]
    BY <1>16, <2>1, SpecOfType DEF ReconcileCreate
  <2>3. QED BY <1>16, <2>2 DEF ReconcileCreate, Workers, Fault, NoFault
<1>17. ASSUME ReconcileUpdate PROVE Rest
  <2>1. worker.id \in Ids /\ worker.obj \in Objs /\ worker.seen \in CRs
    BY <1>17, WorkerType DEF ReconcileUpdate
  <2>2. \A c \in CRs : [c EXCEPT !.spec = SpecOf(worker.obj)] \in CRs
    BY <2>1, SpecOfType DEF CRs
  <2>3. crs' \in [Ids -> CRs \cup {None}]
    <3>1. CASE UNCHANGED crs
        BY <3>1
    <3>2. CASE crs[worker.id] = worker.seen /\ crs' = [crs EXCEPT ![worker.id].spec = SpecOf(worker.obj)]
        BY <2>1, <2>2, <3>2
    <3>3. QED BY <1>17, <3>1, <3>2 DEF ReconcileUpdate
  <2>4. QED BY <1>17, <2>3 DEF ReconcileUpdate, Workers, Fault, NoFault
<1>18. ASSUME HousekeepingList PROVE Rest
  <2>1. housekeeper' \in Housekeepers
    BY <1>18 DEF HousekeepingList, Housekeepers
  <2>2. QED BY <1>18, <2>1 DEF HousekeepingList
<1>19. ASSUME NEW i \in Ids, HousekeepingLookup(i) PROVE Rest
  <2>1. housekeeper \in [pc: {"scan"}, todo: SUBSET Ids, id: {None}]
    BY <1>19 DEF HousekeepingLookup, Housekeepers, IdleHousekeeper
  <2>2. housekeeper' \in Housekeepers
    BY <1>19, <2>1 DEF HousekeepingLookup, Housekeepers
  <2>3. QED BY <1>19, <2>2 DEF HousekeepingLookup
<1>20. ASSUME HousekeepingDelete PROVE Rest
  <2>1. housekeeper \in [pc: {"delete"}, todo: SUBSET Ids, id: Ids]
    BY <1>20 DEF HousekeepingDelete, Housekeepers, IdleHousekeeper
  <2>2. [housekeeper EXCEPT !.pc = "scan", !.id = None] \in Housekeepers
    BY <2>1 DEF Housekeepers
  <2>3. QED BY <1>20, <2>2 DEF HousekeepingDelete, Fault, NoFault
<1>21. ASSUME HousekeepingSleep PROVE Rest
    BY <1>21 DEF HousekeepingSleep, Housekeepers
<1>22. ASSUME Restart PROVE Rest
  <2>1. pending' \in Seq(Notifications) /\ worker' \in Workers /\ housekeeper' \in Housekeepers
    BY <1>22 DEF Restart, Workers, Housekeepers
  <2>2. [i \in Ids |-> None] \in [Ids -> Objs \cup {None}]
        /\ [i \in Ids |-> None] \in [Ids -> CRs \cup {None}]
    OBVIOUS
  <2>3. cache' \in [Ids -> Objs \cup {None}] /\ hosts' \in [Ids -> CRs \cup {None}]
    BY <1>22, <2>2 DEF Restart
  <2>4. synced' \in BOOLEAN /\ hostsSynced' \in BOOLEAN
    BY <1>22, Zenon DEF Restart
  <2>5. queue' \in SUBSET Ids
    BY <1>22 DEF Restart
  <2>6. crashes' \in Nat
    BY <1>22 DEF Restart
  <2>7. UNCHANGED <<objs, namespace, crs, changes, edits, faults>>
    BY <1>22 DEF Restart
  <2>8. QED BY <2>1, <2>3, <2>4, <2>5, <2>6, <2>7
<1>23. CASE UNCHANGED <<vars, excused>>
    BY <1>23 DEF vars
<1>24. QED
  <2> HIDE DEF TypeOK
  <2>1. CASE Next
    BY <2>1, <1>1, <1>2, <1>3, <1>4, <1>5, <1>6, <1>7, <1>8, <1>9, <1>10, <1>11, <1>12, <1>13,
       <1>14, <1>15, <1>16, <1>17, <1>18, <1>19, <1>20, <1>21, <1>22
       DEF Next, Environment, Listener, Worker, Housekeeping
  <2>2. QED BY <1>23, <2>1

\* The threads, the queue and the notifications keep their shape: a worker past
\* "idle" has an object, one about to update has the version it read, and a
\* housekeeper about to delete has a name.
THEOREM TypeCorrect == Spec => []TypeOK
BY InitTypeOK, NextTypeOK, PTL DEF Spec

-----------------------------------------------------------------------------
(* What the threads know of objects that were always to be monitored       *)

LEMMA WantedIsFit ==
    ASSUME NEW i \in Ids, Wanted(i)
    PROVE  Fit(objs[i]) /\ (Kind = "Workload" => ~namespace)
BY DEF Wanted, Fit

\* Who changes what.
LEMMA Frames ==
    ASSUME Next
    PROVE  /\ InitialList \/ (\E i \in Ids : Deliver(i)) \/ Restart \/ UNCHANGED <<cache, synced>>
           /\ (\E i \in Ids : Deliver(i)) \/ Listener \/ Restart \/ UNCHANGED pending
           /\ (\E i \in Ids : ProcessNext(i)) \/ Worker \/ Restart \/ UNCHANGED worker
           /\ Housekeeping \/ Restart \/ UNCHANGED housekeeper
           /\ \/ \E i \in Ids, c \in CRs \cup {None} : UserEdits(i, c)
              \/ HandleDeleted \/ Unmonitor \/ ReconcileCreate \/ ReconcileUpdate
              \/ HousekeepingDelete \/ UNCHANGED crs
           /\ \/ InitialList \/ (\E i \in Ids : Resync(i) \/ ProcessNext(i)) \/ Listener \/ Restart
              \/ UNCHANGED queue
<1> USE DEF informers, api
<1>1. CASE Environment
    BY <1>1 DEF Environment, ObjectChanges, NamespaceChanges, UserEdits, Restart
<1>2. CASE InitialList \/ HostsInitialList
    BY <1>2 DEF InitialList, HostsInitialList
<1>3. ASSUME NEW i \in Ids, Deliver(i) \/ DeliverHost(i) \/ Resync(i) \/ ProcessNext(i)
      PROVE  UNCHANGED <<housekeeper>> /\ (UNCHANGED worker \/ ProcessNext(i))
             /\ (UNCHANGED <<cache, synced, pending>> \/ Deliver(i)) /\ UNCHANGED crs
             /\ (UNCHANGED queue \/ Resync(i) \/ ProcessNext(i))
    BY <1>3 DEF Deliver, DeliverHost, Resync, ProcessNext
<1>4. CASE Listener
    BY <1>4 DEF Listener, HandleSync, HandleDeleted
<1>5. CASE Worker
    BY <1>5 DEF Worker, GetNamespace, Unmonitor, ReconcileGet, ReconcileCreate, ReconcileUpdate
<1>6. CASE Housekeeping
    BY <1>6 DEF Housekeeping, HousekeepingList, HousekeepingLookup, HousekeepingDelete,
                HousekeepingSleep
<1>7. QED BY <1>1, <1>2, <1>3, <1>4, <1>5, <1>6 DEF Next

\* Failures and edits are only ever counted up, and failures to the bound.
LEMMA CountersGrow ==
    ASSUME TypeOK, Next
    PROVE  /\ faults \in Nat /\ faults' \in Nat /\ faults' >= faults
           /\ faults <= MaxFaults => faults' <= MaxFaults
           /\ edits \in Nat /\ edits' >= edits
<1>1. /\ faults' = faults \/ (faults < MaxFaults /\ faults' = faults + 1)
      /\ edits' = edits \/ edits' = edits + 1
    BY DEF Next, Environment, ObjectChanges, NamespaceChanges, UserEdits, Restart, InitialList,
           HostsInitialList, Deliver, DeliverHost, Resync, ProcessNext, Listener, HandleSync,
           HandleDeleted, Worker, GetNamespace, Unmonitor, ReconcileGet, ReconcileCreate,
           ReconcileUpdate, Housekeeping, HousekeepingList, HousekeepingLookup,
           HousekeepingDelete, HousekeepingSleep, Fault, NoFault
<1>2. QED BY <1>1, BoundAssumption DEF TypeOK

LEMMA InitGrounds == Init => Grounds
<1> SUFFICES ASSUME Init PROVE Grounds
    OBVIOUS
<1>1. \A i \in Ids \ excused : Wanted(i)
    BY DEF Init
<1>2. QED BY <1>1, BoundAssumption DEF Init, Grounds, IdleWorker, IdleHousekeeper

LEMMA NextGrounds == TypeOK /\ Grounds /\ [Next]_<<vars, excused>> => Grounds'
<1> SUFFICES ASSUME TypeOK, Grounds, [Next]_<<vars, excused>> PROVE Grounds'
    OBVIOUS
<1>1. CASE UNCHANGED <<vars, excused>>
  <2>1. \A i : Wanted(i)' <=> Wanted(i)
    BY <1>1 DEF vars, Wanted
  <2>2. QED BY <1>1, <2>1 DEF vars, Grounds
<1>2. ASSUME Next PROVE Grounds'
  <2>1. \A i \in Ids \ excused' : i \notin excused /\ Wanted(i)' /\ Wanted(i)
    BY <1>2 DEF Next, Remember, Grounds
  <2>2. excused \subseteq excused'
    BY <1>2 DEF Next, Remember
  <2>3. (synced => \A i \in Ids \ excused : Fit(cache[i]))'
    <3>1. CASE InitialList \/ Restart
        BY <2>1, <3>1, WantedIsFit DEF InitialList, Restart
    <3>2. ASSUME NEW j \in Ids, Deliver(j)
          PROVE  \A i \in Ids \ excused' : Fit(cache'[i])
        BY <2>1, <3>2, WantedIsFit DEF Deliver, Grounds, TypeOK
    <3>3. CASE UNCHANGED <<cache, synced>>
        BY <2>1, <3>3 DEF Grounds
    <3>4. QED BY <1>2, <3>1, <3>2, <3>3, Frames
  <2>4. (\A n \in 1 .. Len(pending) : pending[n].type = "deleted" => pending[n].id \in excused)'
    <3>1. ASSUME NEW j \in Ids, Deliver(j)
          PROVE  \A n \in 1 .. Len(pending') : pending'[n].type = "deleted" => pending'[n].id \in excused'
      <4> DEFINE note == [type |-> IF objs[j] = None THEN "deleted" ELSE "sync", id |-> j]
      <4>1. pending' = Append(pending, note) /\ pending \in Seq(Notifications)
        BY <3>1 DEF Deliver, TypeOK
      <4>2. objs[j] = None => j \in excused'
        BY <2>1, WantedIsFit DEF Fit
      <4>3. note.type = "deleted" => note.id \in excused'
        BY <4>2
      <4> HIDE DEF note
      <4>4. QED BY <2>2, <4>1, <4>3 DEF Grounds
    <3>2. CASE Listener
      <4>1. pending # <<>> /\ pending' = Tail(pending) /\ pending \in Seq(Notifications)
        BY <3>2 DEF Listener, HandleSync, HandleDeleted, TypeOK
      <4>2. QED BY <2>2, <4>1 DEF Grounds
    <3>3. CASE Restart
        BY <3>3 DEF Restart
    <3>4. CASE UNCHANGED pending
        BY <2>2, <3>4 DEF Grounds
    <3>5. QED BY <1>2, <3>1, <3>2, <3>3, <3>4, Frames
  <2>5. (/\ worker.pc # "idle" /\ worker.id \notin excused => Fit(worker.obj)
         /\ worker.pc = "delete" /\ worker.id \notin excused => faults > 0 /\ Kind = "Workload"
         /\ worker.pc = "namespace" => Kind = "Workload")'
    <3>1. ASSUME NEW j \in Ids, ProcessNext(j)
          PROVE  /\ worker'.pc # "idle" /\ worker'.id \notin excused' => Fit(worker'.obj)
                 /\ worker'.pc = "delete" => worker'.id \in excused'
                 /\ worker'.pc = "namespace" => Kind = "Workload"
      <4>1. j \notin excused' => Fit(cache[j])
        BY <2>1, <3>1 DEF ProcessNext, Grounds
      <4>2. QED BY <3>1, <4>1 DEF ProcessNext, Work, IdleWorker, Fit, UnlessDeleting
    <3>2. CASE GetNamespace
      <4>1. worker.id \notin excused => ~worker.obj.deleting /\ ~namespace
        BY <3>2, WantedIsFit, WorkerType DEF GetNamespace, Grounds, Fit, TypeOK
      <4>2. \A p : LET w == [worker EXCEPT !.pc = p]
                   IN  w.pc = p /\ w.id = worker.id /\ w.obj = worker.obj
        BY <3>2 DEF GetNamespace, TypeOK, Workers, IdleWorker
      <4>3. worker'.pc \in {"get", "delete"} /\ worker'.id = worker.id /\ worker'.obj = worker.obj
        BY <3>2, <4>2 DEF GetNamespace, UnlessDeleting
      <4>4. worker.id \notin excused => Fit(worker.obj)
        BY <3>2 DEF GetNamespace, Grounds
      <4>5. worker'.pc = "delete" /\ worker.id \notin excused => Fault
        BY <3>2, <4>1, <4>2 DEF GetNamespace, UnlessDeleting
      <4>6. Fault => faults' > 0
        BY DEF Fault, TypeOK
      <4>7. Kind = "Workload"
        BY <3>2 DEF GetNamespace, Grounds
      <4>8. QED BY <2>2, <4>3, <4>4, <4>5, <4>6, <4>7
    <3>3. CASE ReconcileGet
      <4>1. worker \in [pc: {"get"}, id: Ids, obj: Objs, seen: {None}]
        BY <3>3 DEF ReconcileGet, TypeOK, Workers, IdleWorker
      <4>2. \/ worker' = IdleWorker
            \/ worker' = [worker EXCEPT !.pc = "create"]
            \/ worker' = [worker EXCEPT !.pc = "update", !.seen = crs[worker.id]]
        BY <3>3 DEF ReconcileGet
      <4>3. \/ worker'.pc = "idle"
            \/ worker'.pc \in {"create", "update"} /\ worker'.id = worker.id /\ worker'.obj = worker.obj
        <5>1. IdleWorker.pc = "idle"
            BY DEF IdleWorker
        <5>2. LET w == [worker EXCEPT !.pc = "create"]
              IN  w.pc = "create" /\ w.id = worker.id /\ w.obj = worker.obj
            BY <4>1
        <5>3. LET w == [worker EXCEPT !.pc = "update", !.seen = crs[worker.id]]
              IN  w.pc = "update" /\ w.id = worker.id /\ w.obj = worker.obj
            BY <4>1
        <5>4. QED BY <4>2, <5>1, <5>2, <5>3
      <4>4. worker.id \notin excused => Fit(worker.obj)
        BY <3>3 DEF ReconcileGet, Grounds
      <4>5. QED BY <2>2, <4>3, <4>4
    <3>4. CASE Unmonitor \/ ReconcileCreate \/ ReconcileUpdate \/ Restart
        BY <3>4 DEF Unmonitor, ReconcileCreate, ReconcileUpdate, Restart, IdleWorker
    <3>5. CASE UNCHANGED worker
        BY <1>2, <2>2, <3>5, CountersGrow DEF Grounds
    <3>6. QED BY <1>2, <3>1, <3>2, <3>3, <3>4, <3>5, Frames DEF Worker
  <2>6. (~Housekept => housekeeper.pc = "idle")'
    <3>1. CASE Housekeeping
        BY <3>1 DEF Housekeeping, Grounds, HousekeepingList, HousekeepingLookup,
                    HousekeepingDelete, HousekeepingSleep, Housekept
    <3>2. CASE Restart
        BY <3>2 DEF Restart, IdleHousekeeper
    <3>3. CASE UNCHANGED housekeeper
        BY <3>3 DEF Grounds, Housekept
    <3>4. QED BY <1>2, <3>1, <3>2, <3>3, Frames
  <2>7. (faults <= MaxFaults)'
    BY <1>2, CountersGrow DEF Grounds
  <2>8. QED BY <2>1, <2>3, <2>4, <2>5, <2>6, <2>7 DEF Grounds
<1>3. QED BY <1>1, <1>2

LEMMA GroundsCorrect == Spec => [](TypeOK /\ Grounds)
BY InitTypeOK, NextTypeOK, InitGrounds, NextGrounds, PTL DEF Spec

\* Who takes away the custom resource of an object that was always wanted.
LEMMA RemovalStep ==
    ASSUME TypeOK, Grounds, Next, ~Housekept, Kind = "Workload" => faults = 0,
           NEW i \in Ids \ excused, crs[i] # None, crs'[i] = None
    PROVE  edits' # edits
<1>1. CASE \E j \in Ids, c \in CRs \cup {None} : UserEdits(j, c)
    BY <1>1 DEF UserEdits, TypeOK
<1>2. CASE HandleDeleted
  <2>1. pending # <<>> /\ Head(pending) = pending[1] /\ 1 \in 1 .. Len(pending)
        BY <1>2 DEF HandleDeleted, TypeOK
  <2>2. Head(pending).id \in excused
        BY <1>2, <2>1 DEF HandleDeleted, Grounds
  <2>3. crs'[i] = crs[i]
        BY <1>2, <2>2 DEF HandleDeleted, TypeOK
  <2>4. QED BY <2>3
<1>3. CASE Unmonitor
  <2>1. worker.id \in excused
        BY <1>3, BoundAssumption DEF Unmonitor, Grounds, TypeOK
  <2>2. crs'[i] = crs[i]
        BY <1>3, <2>1 DEF Unmonitor, TypeOK
  <2>3. QED BY <2>2
<1>4. CASE ReconcileCreate
  <2>1. crs'[i] # None
        BY <1>4, SpecOfType, WorkerType, NoneAssumption DEF ReconcileCreate, TypeOK
  <2>2. QED BY <2>1
<1>5. CASE ReconcileUpdate
  <2>1. worker.id \in Ids /\ worker.obj \in Objs /\ worker.seen \in CRs
        BY <1>5, WorkerType DEF ReconcileUpdate, TypeOK
  <2>2. [worker.seen EXCEPT !.spec = SpecOf(worker.obj)] \in CRs
        BY <2>1, SpecOfType DEF CRs
  <2>3. crs'[i] # None
        BY <1>5, <2>1, <2>2, NoneAssumption DEF ReconcileUpdate, TypeOK
  <2>4. QED BY <2>3
<1>6. CASE HousekeepingDelete
    BY <1>6 DEF HousekeepingDelete, Grounds
<1>7. CASE UNCHANGED crs
    BY <1>7
<1>8. QED BY <1>1, <1>2, <1>3, <1>4, <1>5, <1>6, <1>7, Frames

\* Where no housekeeping reads the caches, the delete handler and the workers
\* take away custom resources of objects only that at some time were not to be
\* monitored, or of workloads after a call has failed.
THEOREM RemovalsHaveReason ==
    ASSUME ~Housekept
    PROVE  Spec => RemovedWithReason
<1>1. TypeOK /\ Grounds /\ [Next]_<<vars, excused>>
        => [\A i \in Ids : crs[i] # None /\ crs'[i] = None =>
               i \in excused \/ edits' # edits \/ (Kind = "Workload" /\ faults # 0)]_vars
  <2> SUFFICES ASSUME TypeOK, Grounds, Next, NEW i \in Ids \ excused, crs[i] # None, crs'[i] = None,
                      Kind = "Workload" => faults = 0
               PROVE  edits' # edits
    BY DEF vars
  <2>1. QED BY RemovalStep
<1>2. QED BY <1>1, GroundsCorrect, PTL DEF Spec, RemovedWithReason

\* With an informer that has listed its objects, however far it lags, and with
\* lists of custom resources however old, housekeeping condemns none of an object
\* that was always to be monitored: the only gap is before the first list.
THEOREM CondemnationsHaveReason == Spec => CondemnedWithReason
<1>1. TypeOK /\ Grounds /\ [Next]_<<vars, excused>>
        => [synced /\ housekeeper.pc = "scan" /\ housekeeper'.pc = "delete" =>
               housekeeper'.id \in excused]_vars
  <2> SUFFICES ASSUME TypeOK, Grounds, Next, synced,
                      housekeeper.pc = "scan", housekeeper'.pc = "delete"
               PROVE  housekeeper'.id \in excused
    BY DEF vars
  <2>1. housekeeper \in [pc: {"scan"}, todo: SUBSET Ids, id: {None}]
    BY DEF TypeOK, Housekeepers, IdleHousekeeper
  <2>2. ~UNCHANGED housekeeper /\ ~Restart
    BY DEF Restart, IdleHousekeeper
  <2>3. PICK i \in Ids : HousekeepingLookup(i)
    BY <2>2, Frames DEF Housekeeping, HousekeepingList, HousekeepingDelete, HousekeepingSleep,
                        IdleHousekeeper
  <2>4. housekeeper'.id = i /\ cache[i] = None
    BY <2>1, <2>3 DEF HousekeepingLookup
  <2>5. QED BY <2>4 DEF Grounds, Fit
<1>2. QED BY <1>1, GroundsCorrect, PTL DEF Spec, CondemnedWithReason

-----------------------------------------------------------------------------
(* At rest, every object is monitored as it is                             *)

\* A step is still to come for object i.
Told(i) == \/ i \in queue
           \/ \E n \in 1 .. Len(pending) : pending[n].type = "sync" /\ pending[n].id = i

Busy(i) == worker.pc # "idle" /\ worker.id = i

\* The custom resource says what the cache says.
Shown(i) == crs[i] # None /\ crs[i].spec = SpecOf(cache[i])

Served(i) ==
    /\ synced => Shown(i) \/ Told(i) \/ (Busy(i) /\ worker.obj = cache[i])
    /\ Busy(i) => Told(i) \/ worker.obj = cache[i]
    /\ Busy(i) /\ worker.pc = "create" => crs[i] = None
    /\ Busy(i) /\ worker.pc = "update" => crs[i] = worker.seen

\* The worker with an outdated copy is never the last to write.
Progress ==
    /\ worker.pc # "idle" => synced
    /\ faults = 0 /\ edits = 0 => \A i \in Ids \ excused : Served(i)

LEMMA InitProgress == Init => Progress
BY DEF Init, Progress, Served, Busy, IdleWorker

\* No notification of object i gets lost on its way to the queue.
LEMMA StillTold ==
    ASSUME TypeOK, Listener, NEW i, Told(i)
    PROVE  Told(i)'
<1>1. pending # <<>> /\ pending' = Tail(pending) /\ pending \in Seq(Notifications)
    BY DEF Listener, HandleSync, HandleDeleted, TypeOK
<1>2. queue \subseteq queue'
    BY DEF Listener, HandleSync, HandleDeleted
<1>3. CASE i \in queue
    BY <1>2, <1>3 DEF Told
<1>4. ASSUME NEW n \in 1 .. Len(pending), pending[n].type = "sync", pending[n].id = i
      PROVE  Told(i)'
  <2>1. CASE n = 1
    BY <1>1, <1>4, <2>1 DEF Told, Listener, HandleSync, HandleDeleted
  <2>2. CASE n > 1
    <3>1. n - 1 \in 1 .. Len(pending') /\ pending'[n - 1] = pending[n]
        BY <1>1, <2>2
    <3>2. QED BY <1>4, <3>1 DEF Told
  <2>3. QED BY <2>1, <2>2
<1>5. QED BY <1>3, <1>4 DEF Told

\* A step of the worker is about its object, and it goes on with it or is done.
LEMMA WorkerMoves ==
    ASSUME TypeOK, Worker
    PROVE  /\ \A i \in Ids : i # worker.id => crs'[i] = crs[i]
           /\ \/ worker' = IdleWorker
              \/ worker'.id = worker.id /\ worker'.obj = worker.obj /\ UNCHANGED crs
<1>1. CASE GetNamespace
  <2>1. worker \in [pc: {"namespace"}, id: Ids, obj: Objs, seen: {None}]
    BY <1>1 DEF GetNamespace, TypeOK, Workers, IdleWorker
  <2>2. \E p : worker' = [worker EXCEPT !.pc = p]
    BY <1>1 DEF GetNamespace
  <2>3. UNCHANGED crs
    BY <1>1 DEF GetNamespace, api
  <2>4. QED BY <2>1, <2>2, <2>3
<1>2. CASE ReconcileGet
  <2>1. worker \in [pc: {"get"}, id: Ids, obj: Objs, seen: {None}]
    BY <1>2 DEF ReconcileGet, TypeOK, Workers, IdleWorker
  <2>2. \/ worker' = IdleWorker
        \/ worker' = [worker EXCEPT !.pc = "create"]
        \/ worker' = [worker EXCEPT !.pc = "update", !.seen = crs[worker.id]]
    BY <1>2 DEF ReconcileGet
  <2>3. UNCHANGED crs
    BY <1>2 DEF ReconcileGet, api
  <2>4. LET w == [worker EXCEPT !.pc = "create"]
            u == [worker EXCEPT !.pc = "update", !.seen = crs[worker.id]]
        IN  w.id = worker.id /\ w.obj = worker.obj /\ u.id = worker.id /\ u.obj = worker.obj
    BY <2>1
  <2>5. QED BY <2>2, <2>3, <2>4
<1>3. CASE Unmonitor \/ ReconcileCreate \/ ReconcileUpdate
    BY <1>3 DEF Unmonitor, ReconcileCreate, ReconcileUpdate, TypeOK
<1>4. QED BY <1>1, <1>2, <1>3 DEF Worker

\* A worker only works while its informer has listed the objects.
LEMMA WorkingSynced ==
    ASSUME Next, worker.pc # "idle" => synced
    PROVE  (worker.pc # "idle" => synced)'
<1>1. CASE \E i \in Ids : ProcessNext(i)
  BY <1>1 DEF ProcessNext, informers
<1>2. CASE Worker
  <2>1. worker.pc # "idle" /\ synced' = synced
      BY <1>2 DEF Worker, GetNamespace, Unmonitor, ReconcileGet, ReconcileCreate,
                  ReconcileUpdate, informers
  <2>2. QED BY <2>1
<1>3. CASE Restart
  BY <1>3 DEF Restart, IdleWorker
<1>4. CASE UNCHANGED worker /\ ~Restart
  BY <1>4, Frames DEF InitialList, Deliver
<1>5. QED BY <1>1, <1>2, <1>3, <1>4, Frames

LEMMA NextProgress ==
    ASSUME ~Housekept
    PROVE  TypeOK /\ Grounds /\ Progress /\ [Next]_<<vars, excused>> => Progress'
<1> SUFFICES ASSUME TypeOK, Grounds, Progress, [Next]_<<vars, excused>> PROVE Progress'
    OBVIOUS
<1>1. CASE UNCHANGED <<vars, excused>>
    BY <1>1 DEF vars, Progress, Served, Told, Busy, Shown
<1>2. ASSUME Next PROVE (worker.pc # "idle" => synced)'
  BY <1>2, WorkingSynced DEF Progress
<1>3. ASSUME Next, faults' = 0, edits' = 0, NEW i \in Ids, i \notin excused'
      PROVE  Served(i)'
  <2>1. faults = 0 /\ edits = 0 /\ ~Fault
    BY <1>3, CountersGrow DEF Fault
  <2>2. i \notin excused /\ Wanted(i) /\ Served(i) /\ objs[i] # None
    BY <1>3, <2>1, WantedIsFit DEF Next, Remember, Grounds, Progress, Fit
  <2>3. CASE InitialList
    <3>1. worker.pc = "idle" /\ worker' = worker
        BY <2>3 DEF InitialList, Progress
    <3>2. i \in queue'
        BY <2>2, <2>3 DEF InitialList
    <3>3. QED BY <3>1, <3>2 DEF Served, Told, Busy
  <2>4. ASSUME NEW j \in Ids, Deliver(j) PROVE Served(i)'
    <3> DEFINE note == [type |-> IF objs[j] = None THEN "deleted" ELSE "sync", id |-> j]
    <3>1. /\ pending' = Append(pending, note) /\ pending \in Seq(Notifications)
          /\ UNCHANGED <<crs, queue, worker, synced>>
        BY <2>4 DEF Deliver, TypeOK, api
    <3>2. Told(i) => Told(i)'
        BY <3>1 DEF Told
    <3>3. CASE i = j
      <4>1. note.type = "sync" /\ note.id = i
        BY <2>2, <3>3
      <4> HIDE DEF note
      <4>2. Len(pending) + 1 \in 1 .. Len(pending') /\ pending'[Len(pending) + 1] = note
        BY <3>1
      <4>3. Told(i)'
        BY <4>1, <4>2 DEF Told
      <4>4. QED BY <2>2, <3>1, <4>3 DEF Served, Busy
    <3>4. CASE i # j
      <4>1. cache'[i] = cache[i]
        BY <2>4, <3>4 DEF Deliver, TypeOK
      <4>2. QED BY <2>2, <3>1, <3>2, <4>1 DEF Served, Busy, Shown
    <3>5. QED BY <3>3, <3>4
  <2>5. CASE Listener
    <3>1. UNCHANGED <<cache, synced, worker>>
        BY <2>5 DEF Listener, HandleSync, HandleDeleted
    <3>2. crs'[i] = crs[i]
      <4>1. CASE HandleDeleted
        <5>1. pending # <<>> /\ Head(pending) = pending[1] /\ 1 \in 1 .. Len(pending)
            BY <4>1 DEF HandleDeleted, TypeOK
        <5>2. Head(pending).id \in excused
            BY <4>1, <5>1 DEF HandleDeleted, Grounds
        <5>3. QED BY <2>2, <4>1, <5>2 DEF HandleDeleted, TypeOK
      <4>2. CASE HandleSync
        BY <4>2 DEF HandleSync, api
      <4>3. QED BY <2>5, <4>1, <4>2 DEF Listener
    <3>3. Told(i) => Told(i)'
        BY <2>5, StillTold
    <3>4. QED BY <2>2, <3>1, <3>2, <3>3 DEF Served, Busy, Shown
  <2>6. ASSUME NEW j \in Ids, Resync(j) PROVE Served(i)'
    BY <2>2, <2>6 DEF Resync, api, informers, Served, Told, Busy, Shown
  <2>7. ASSUME NEW j \in Ids, ProcessNext(j) PROVE Served(i)'
    <3>1. UNCHANGED <<crs, cache, synced, pending>> /\ worker.pc = "idle" /\ synced
        BY <2>7 DEF ProcessNext, api, informers
    <3>2. CASE i = j
      <4>1. Fit(cache[i])
        BY <2>2, <3>1 DEF Grounds
      <4>2. worker'.pc \in {"namespace", "get"} /\ worker'.id = i /\ worker'.obj = cache[i]
        BY <2>7, <3>2, <4>1 DEF ProcessNext, Fit, Work, UnlessDeleting
      <4>3. QED BY <3>1, <4>2 DEF Served, Busy
    <3>3. CASE i # j
      <4>1. ~Busy(i)'
        BY <2>7, <3>3 DEF ProcessNext, Work, IdleWorker, Busy
      <4>2. Told(i) => Told(i)'
        BY <2>7, <3>1, <3>3 DEF ProcessNext, Told
      <4>3. ~Busy(i)
        BY <3>1 DEF Busy
      <4>4. QED BY <2>2, <3>1, <4>1, <4>2, <4>3 DEF Served, Shown
    <3>4. QED BY <3>2, <3>3
  <2>8. CASE Worker
    <3>1. UNCHANGED <<cache, synced, pending, queue>> /\ worker.pc # "idle" /\ synced
        BY <2>8 DEF Worker, GetNamespace, Unmonitor, ReconcileGet, ReconcileCreate,
                    ReconcileUpdate, informers, Progress
    <3>2. Told(i)' <=> Told(i)
        BY <3>1 DEF Told
    <3>3. worker.id \in Ids /\ worker.obj \in Objs /\ (worker.pc = "update" => worker.seen \in CRs)
        BY <3>1, WorkerType DEF TypeOK
    <3>4. CASE worker.id # i
      <4>1. crs'[i] = crs[i] /\ (worker' = IdleWorker \/ worker'.id = worker.id)
        BY <2>8, <3>4, WorkerMoves
      <4>2. QED BY <2>2, <3>1, <3>2, <3>4, <4>1 DEF Served, Busy, Shown, IdleWorker
    <3>5. CASE worker.id = i
      <4>1. CASE GetNamespace
        <5>1. worker' # IdleWorker
            BY <4>1 DEF GetNamespace, UnlessDeleting, IdleWorker, TypeOK, Workers
        <5>2. worker'.pc \in {"get", "delete"}
            BY <4>1 DEF GetNamespace, UnlessDeleting, IdleWorker, TypeOK, Workers
        <5>3. QED BY <2>2, <2>8, <3>1, <3>2, <3>5, <5>1, <5>2, WorkerMoves DEF Served, Busy, Shown
      <4>2. CASE Unmonitor
        BY <2>1, <2>2, <3>5, <4>2 DEF Unmonitor, Grounds
      <4>3. CASE ReconcileGet
        <5>1. worker \in [pc: {"get"}, id: Ids, obj: Objs, seen: {None}] /\ UNCHANGED crs
            BY <4>3 DEF ReconcileGet, TypeOK, Workers, IdleWorker, api
        <5>2. CASE worker' = IdleWorker
          <6>1. crs[i] # None /\ crs[i].spec = SpecOf(worker.obj)
            BY <2>1, <3>5, <4>3, <5>1, <5>2 DEF ReconcileGet, IdleWorker
          <6>2. Busy(i) /\ ~Busy(i)'
            BY <3>1, <3>5, <5>2 DEF Busy, IdleWorker
          <6>3. QED BY <2>2, <3>1, <3>2, <5>1, <6>1, <6>2 DEF Served, Shown
        <5>3. CASE worker' = [worker EXCEPT !.pc = "create"]
          <6>1. crs[i] = None
            BY <2>1, <3>5, <4>3, <5>1, <5>3 DEF ReconcileGet, IdleWorker
          <6>2. worker'.pc = "create" /\ worker'.id = i /\ worker'.obj = worker.obj
            BY <3>5, <5>1, <5>3
          <6>3. QED BY <2>2, <3>1, <3>2, <3>5, <5>1, <6>1, <6>2 DEF Served, Shown, Busy
        <5>4. CASE worker' = [worker EXCEPT !.pc = "update", !.seen = crs[i]]
          <6>1. worker'.pc = "update" /\ worker'.id = i /\ worker'.obj = worker.obj
                /\ worker'.seen = crs[i]
            BY <3>5, <5>1, <5>4
          <6>2. QED BY <2>2, <3>1, <3>2, <3>5, <5>1, <6>1 DEF Served, Shown, Busy
        <5>5. QED BY <3>5, <4>3, <5>2, <5>3, <5>4 DEF ReconcileGet
      <4>4. CASE ReconcileCreate
        <5>1. crs[i] = None /\ worker' = IdleWorker
            BY <2>2, <3>5, <4>4 DEF ReconcileCreate, Served, Busy
        <5>2. crs'[i] = [spec |-> SpecOf(worker.obj), owned |-> TRUE]
            BY <2>1, <3>5, <4>4, <5>1 DEF ReconcileCreate, TypeOK
        <5>3. crs'[i] # None /\ crs'[i].spec = SpecOf(worker.obj)
            BY <3>3, <5>2, SpecOfType, NoneAssumption
        <5>4. Busy(i) /\ ~Busy(i)'
            BY <3>1, <3>5, <5>1 DEF Busy, IdleWorker
        <5>5. QED BY <2>2, <3>1, <3>2, <5>3, <5>4 DEF Served, Shown
      <4>5. CASE ReconcileUpdate
        <5>1. crs[i] = worker.seen /\ worker.seen \in CRs /\ worker' = IdleWorker
            BY <2>2, <3>3, <3>5, <4>5 DEF ReconcileUpdate, Served, Busy
        <5>2. crs'[i] = [crs[i] EXCEPT !.spec = SpecOf(worker.obj)]
            BY <2>1, <3>5, <4>5, <5>1 DEF ReconcileUpdate, TypeOK
        <5>3. crs'[i] \in CRs /\ crs'[i].spec = SpecOf(worker.obj)
            BY <3>3, <5>1, <5>2, SpecOfType DEF CRs
        <5>4. Busy(i) /\ ~Busy(i)'
            BY <3>1, <3>5, <5>1 DEF Busy, IdleWorker
        <5>5. QED BY <2>2, <3>1, <3>2, <5>3, <5>4, NoneAssumption DEF Served, Shown
      <4>6. QED BY <2>8, <4>1, <4>2, <4>3, <4>4, <4>5 DEF Worker
    <3>6. QED BY <3>4, <3>5
  <2>9. CASE Restart
    BY <2>9 DEF Restart, Served, Busy, IdleWorker
  <2>10. CASE UNCHANGED <<crs, cache, synced, pending, queue, worker>>
    BY <2>2, <2>10 DEF Served, Told, Busy, Shown
  <2>11. ASSUME NEW j \in Ids, NEW c \in CRs \cup {None}, UserEdits(j, c) PROVE FALSE
    BY <1>3, <2>1, <2>11 DEF UserEdits
  <2>12. ~HousekeepingDelete
    BY DEF HousekeepingDelete, Grounds
  <2>13. QED BY <1>3, <2>3, <2>4, <2>5, <2>6, <2>7, <2>8, <2>9, <2>10, <2>11, <2>12, Frames
               DEF Listener, Worker
<1>4. QED BY <1>1, <1>2, <1>3 DEF Progress

\* Where no housekeeping reads the caches: without failed calls and edits by
\* users, an object that was always to be monitored is so, as it now is, whenever
\* the threads are at rest; no change of it gets lost between its informer, the
\* queue and the worker with its copy, also over restarts.
THEOREM QuietMeansMonitored ==
    ASSUME ~Housekept
    PROVE  Spec => []QuietMonitored
<1>1. TypeOK /\ Progress => QuietMonitored
    BY DEF QuietMonitored, Quiet, Progress, Served, Told, Busy, Shown, Monitored, TypeOK
<1>2. Spec => []Progress
    BY GroundsCorrect, InitProgress, NextProgress, PTL DEF Spec
<1>3. QED BY <1>1, <1>2, GroundsCorrect, PTL

-----------------------------------------------------------------------------
(* At rest, what is excluded or being deleted is not monitored             *)

\* An object that tells by itself that it is not to be monitored.
Unfit(o) == o # None /\ (Excluded(o) \/ o.deleting)

\* A worker with an older copy comes back to the object, unless that has gone.
Followed(i) ==
    /\ synced /\ Unfit(cache[i]) =>
           crs[i] = None \/ Told(i) \/ (Busy(i) /\ worker.obj = cache[i])
    /\ Busy(i) => Told(i) \/ cache[i] = None \/ worker.obj = cache[i]

Unmonitoring ==
    /\ worker.pc # "idle" => synced
    /\ worker.pc # "idle" /\ Unfit(worker.obj) => worker.pc \in {"namespace", "delete"}
    /\ worker.pc = "namespace" => ~Excluded(worker.obj)
    /\ faults = 0 /\ edits = 0 => \A i \in Ids : Followed(i)

LEMMA InitUnmonitoring == Init => Unmonitoring
BY DEF Init, Unmonitoring, Followed, Busy, IdleWorker

\* What a worker does with an object follows from its copy.
LEMMA WorkerDecides ==
    ASSUME TypeOK, Unmonitoring, Next
    PROVE  (/\ worker.pc # "idle" /\ Unfit(worker.obj) => worker.pc \in {"namespace", "delete"}
            /\ worker.pc = "namespace" => ~Excluded(worker.obj))'
<1>1. ASSUME NEW i \in Ids, ProcessNext(i)
      PROVE  /\ worker'.pc # "idle" /\ Unfit(worker'.obj) => worker'.pc \in {"namespace", "delete"}
             /\ worker'.pc = "namespace" => ~Excluded(worker'.obj)
  BY <1>1 DEF ProcessNext, Work, IdleWorker, UnlessDeleting, Unfit
<1>2. CASE Worker
  <2>1. CASE GetNamespace
    <3>1. worker \in [pc: {"namespace"}, id: Ids, obj: Objs, seen: {None}]
        BY <2>1 DEF GetNamespace, TypeOK, Workers, IdleWorker
    <3>2. worker' = [worker EXCEPT !.pc = UnlessDeleting(worker.obj)]
          \/ worker' = [worker EXCEPT !.pc = "delete"]
        BY <2>1 DEF GetNamespace
    <3>3. worker'.obj = worker.obj /\ (worker'.pc = UnlessDeleting(worker.obj) \/ worker'.pc = "delete")
        BY <3>1, <3>2
    <3>4. ~Excluded(worker.obj)
        BY <2>1 DEF GetNamespace, Unmonitoring
    <3>5. QED BY <3>3, <3>4 DEF UnlessDeleting, Unfit
  <2>2. CASE ReconcileGet
    <3>1. worker \in [pc: {"get"}, id: Ids, obj: Objs, seen: {None}]
        BY <2>2 DEF ReconcileGet, TypeOK, Workers, IdleWorker
    <3>2. ~Unfit(worker.obj)
        BY <3>1 DEF Unmonitoring
    <3>3. \/ worker' = IdleWorker
          \/ worker' = [worker EXCEPT !.pc = "create"]
          \/ worker' = [worker EXCEPT !.pc = "update", !.seen = crs[worker.id]]
        BY <2>2 DEF ReconcileGet
    <3>4. worker' = IdleWorker \/ (worker'.obj = worker.obj /\ worker'.pc # "namespace")
        BY <3>1, <3>3
    <3>5. QED BY <3>2, <3>4 DEF IdleWorker
  <2>3. CASE Unmonitor \/ ReconcileCreate \/ ReconcileUpdate
    BY <2>3 DEF Unmonitor, ReconcileCreate, ReconcileUpdate, IdleWorker
  <2>4. QED BY <1>2, <2>1, <2>2, <2>3 DEF Worker
<1>3. CASE Restart
  BY <1>3 DEF Restart, IdleWorker
<1>4. CASE UNCHANGED worker
  <2>1. Unfit(worker.obj)' <=> Unfit(worker.obj)
    BY <1>4 DEF Unfit, Excluded
  <2>2. Excluded(worker.obj)' <=> Excluded(worker.obj)
    BY <1>4 DEF Excluded
  <2>3. QED BY <1>4, <2>1, <2>2 DEF Unmonitoring
<1>5. QED
  <2>1. CASE \E i \in Ids : ProcessNext(i)
    BY <1>1, <2>1 DEF Unfit, Excluded
  <2>2. QED BY <1>2, <1>3, <1>4, <2>1, Frames

LEMMA NextUnmonitoring ==
    TypeOK /\ Unmonitoring /\ [Next]_<<vars, excused>> => Unmonitoring'
<1> SUFFICES ASSUME TypeOK, Unmonitoring, [Next]_<<vars, excused>> PROVE Unmonitoring'
    OBVIOUS
<1>1. CASE UNCHANGED <<vars, excused>>
    BY <1>1 DEF vars, Unmonitoring, Followed, Told, Busy, Unfit, Excluded
<1>2. ASSUME Next PROVE (worker.pc # "idle" => synced)'
    BY <1>2, WorkingSynced DEF Unmonitoring
<1>3. ASSUME Next, faults' = 0, edits' = 0, NEW i \in Ids
      PROVE  Followed(i)'
  <2>1. faults = 0 /\ edits = 0 /\ ~Fault
    BY <1>3, CountersGrow DEF Fault
  <2>2. Followed(i)
    BY <1>3, <2>1 DEF Unmonitoring
  <2>3. CASE InitialList
    <3>1. worker.pc = "idle" /\ worker' = worker
        BY <2>3 DEF InitialList, Unmonitoring
    <3>2. cache'[i] # None => i \in queue'
        BY <2>3 DEF InitialList
    <3>3. QED BY <3>1, <3>2 DEF Followed, Told, Busy, Unfit
  <2>4. ASSUME NEW j \in Ids, Deliver(j) PROVE Followed(i)'
    <3> DEFINE note == [type |-> IF objs[j] = None THEN "deleted" ELSE "sync", id |-> j]
    <3>1. /\ pending' = Append(pending, note) /\ pending \in Seq(Notifications)
          /\ UNCHANGED <<crs, queue, worker, synced>>
        BY <2>4 DEF Deliver, TypeOK, api
    <3>2. Told(i) => Told(i)'
        BY <3>1 DEF Told
    <3>3. CASE i = j /\ objs[i] = None
      <4>1. cache'[i] = None
        BY <2>4, <3>3 DEF Deliver, TypeOK
      <4>2. QED BY <4>1 DEF Followed, Unfit
    <3>4. CASE i = j /\ objs[i] # None
      <4>1. note.type = "sync" /\ note.id = i
        BY <3>4
      <4> HIDE DEF note
      <4>2. Len(pending) + 1 \in 1 .. Len(pending') /\ pending'[Len(pending) + 1] = note
        BY <3>1
      <4>3. Told(i)'
        BY <4>1, <4>2 DEF Told
      <4>4. QED BY <4>3 DEF Followed
    <3>5. CASE i # j
      <4>1. cache'[i] = cache[i]
        BY <2>4, <3>5 DEF Deliver, TypeOK
      <4>2. QED BY <2>2, <3>1, <3>2, <4>1 DEF Followed, Busy, Unfit, Excluded
    <3>6. QED BY <3>3, <3>4, <3>5
  <2>5. CASE Listener
    <3>1. UNCHANGED <<cache, synced, worker>>
        BY <2>5 DEF Listener, HandleSync, HandleDeleted
    <3>2. crs'[i] = crs[i] \/ crs'[i] = None
        BY <2>5 DEF Listener, HandleSync, HandleDeleted, TypeOK, api
    <3>3. Told(i) => Told(i)'
        BY <2>5, StillTold
    <3>4. QED BY <2>2, <3>1, <3>2, <3>3 DEF Followed, Busy, Unfit, Excluded
  <2>6. ASSUME NEW j \in Ids, Resync(j) PROVE Followed(i)'
    BY <2>2, <2>6 DEF Resync, api, informers, Followed, Told, Busy, Unfit, Excluded
  <2>7. ASSUME NEW j \in Ids, ProcessNext(j) PROVE Followed(i)'
    <3>1. UNCHANGED <<crs, cache, synced, pending>> /\ worker.pc = "idle" /\ synced
        BY <2>7 DEF ProcessNext, api, informers
    <3>2. CASE i = j /\ cache[i] = None
        BY <3>1, <3>2 DEF Followed, Unfit
    <3>3. CASE i = j /\ cache[i] # None
      <4>1. worker'.pc # "idle" /\ worker'.id = i /\ worker'.obj = cache[i]
        BY <2>7, <3>3 DEF ProcessNext, Work, UnlessDeleting
      <4>2. QED BY <3>1, <4>1 DEF Followed, Busy
    <3>4. CASE i # j
      <4>1. ~Busy(i)'
        BY <2>7, <3>4 DEF ProcessNext, Work, IdleWorker, Busy
      <4>2. Told(i) => Told(i)'
        BY <2>7, <3>1, <3>4 DEF ProcessNext, Told
      <4>3. ~Busy(i)
        BY <3>1 DEF Busy
      <4>4. QED BY <2>2, <3>1, <4>1, <4>2, <4>3 DEF Followed, Unfit, Excluded
    <3>5. QED BY <3>2, <3>3, <3>4
  <2>8. CASE Worker
    <3>1. UNCHANGED <<cache, synced, pending, queue>> /\ worker.pc # "idle" /\ synced
        BY <2>8 DEF Worker, GetNamespace, Unmonitor, ReconcileGet, ReconcileCreate,
                    ReconcileUpdate, informers, Unmonitoring
    <3>2. (Told(i)' <=> Told(i)) /\ (Unfit(cache[i])' <=> Unfit(cache[i]))
        BY <3>1 DEF Told, Unfit, Excluded
    <3>3. \A j \in Ids : j # worker.id => crs'[j] = crs[j]
        BY <2>8, WorkerMoves
    <3>4. worker' = IdleWorker \/ (worker'.id = worker.id /\ worker'.obj = worker.obj /\ UNCHANGED crs)
        BY <2>8, WorkerMoves
    <3>5. (Busy(i) => Told(i) \/ cache[i] = None \/ worker.obj = cache[i])'
        BY <2>2, <3>1, <3>2, <3>4 DEF Followed, Busy, IdleWorker
    <3>6. CASE ~(Busy(i) /\ worker.obj = cache[i])
      <4>1. CASE Told(i) \/ ~Unfit(cache[i])
        BY <3>2, <3>5, <4>1 DEF Followed
      <4>2. CASE ~Told(i) /\ Unfit(cache[i])
        <5>1. ~Busy(i) /\ crs[i] = None
            BY <2>2, <3>1, <3>6, <4>2 DEF Followed, Unfit
        <5>2. crs'[i] = None
            BY <3>1, <3>3, <5>1 DEF Busy
        <5>3. QED BY <3>5, <5>2 DEF Followed
      <4>3. QED BY <4>1, <4>2
    <3>7. CASE Busy(i) /\ worker.obj = cache[i] /\ Unfit(cache[i])
      <4>1. worker.pc \in {"namespace", "delete"} /\ worker.id = i
        BY <3>7 DEF Unmonitoring, Busy
      <4>2. CASE GetNamespace
        <5>1. worker'.pc \in {"get", "delete"}
            BY <4>2 DEF GetNamespace, UnlessDeleting, IdleWorker, TypeOK, Workers
        <5>2. Busy(i)' /\ worker'.obj = cache'[i]
            BY <3>1, <3>4, <3>7, <4>1, <5>1 DEF Busy, IdleWorker
        <5>3. QED BY <3>5, <5>2 DEF Followed
      <4>3. CASE Unmonitor
        <5>1. crs'[i] = None
            BY <2>1, <4>1, <4>3 DEF Unmonitor, TypeOK
        <5>2. QED BY <3>5, <5>1 DEF Followed
      <4>4. QED
        BY <2>8, <4>1, <4>2, <4>3 DEF Worker, ReconcileGet, ReconcileCreate, ReconcileUpdate
    <3>8. CASE ~Unfit(cache[i])
        BY <3>2, <3>5, <3>8 DEF Followed
    <3>9. QED BY <3>6, <3>7, <3>8
  <2>9. CASE Restart
    BY <2>9 DEF Restart, Followed, Busy, IdleWorker
  <2>10. CASE UNCHANGED <<crs, cache, synced, pending, queue, worker>>
    BY <2>2, <2>10 DEF Followed, Told, Busy, Unfit, Excluded
  <2>11. ASSUME NEW j \in Ids, NEW c \in CRs \cup {None}, UserEdits(j, c) PROVE FALSE
    BY <1>3, <2>1, <2>11 DEF UserEdits
  <2>12. CASE HousekeepingDelete
    <3>1. UNCHANGED <<cache, synced, pending, queue, worker>>
        BY <2>12 DEF HousekeepingDelete, informers
    <3>2. crs'[i] = crs[i] \/ crs'[i] = None
        BY <2>12 DEF HousekeepingDelete, TypeOK
    <3>3. QED BY <2>2, <3>1, <3>2 DEF Followed, Told, Busy, Unfit, Excluded
  <2>13. QED BY <1>3, <2>3, <2>4, <2>5, <2>6, <2>7, <2>8, <2>9, <2>10, <2>11, <2>12, Frames
               DEF Listener, Worker
<1>4. QED
  <2>1. CASE Next
    BY <1>2, <1>3, <2>1, WorkerDecides DEF Unmonitoring
  <2>2. QED BY <1>1, <2>1

\* For every kind and either mapping: without failed calls and edits by users, an
\* object that is excluded or being deleted has no custom resource whenever the
\* threads are at rest; a worker that was creating one from an older copy has
\* been followed by one that deletes it.
THEOREM QuietMeansUnmonitored == Spec => []QuietUnmonitored
<1>1. TypeOK /\ Unmonitoring => QuietUnmonitored
    BY DEF QuietUnmonitored, Quiet, Unmonitoring, Followed, Told, Busy, Unfit, TypeOK
<1>2. Spec => []Unmonitoring
    BY GroundsCorrect, InitUnmonitoring, NextUnmonitoring, PTL DEF Spec
<1>3. QED BY <1>1, <1>2, GroundsCorrect, PTL

-----------------------------------------------------------------------------
(* The monitor keeps its contract                                          *)

hvars == <<vars, excused, history>>

LEMMA InitContractInv == HInit => ContractInv
<1> SUFFICES ASSUME HInit PROVE ContractInv
    OBVIOUS
<1>1. TypeOK /\ Grounds
    BY InitTypeOK, InitGrounds DEF HInit
<1>2. HistoryTypeOK
    BY DEF HInit, HistoryTypeOK
<1>3. ObjectsRemembered
    BY <1>1 DEF HInit, ObjectsRemembered, TypeOK
<1>4. CacheRemembered /\ WorkerRemembered
    BY DEF HInit, Init, CacheRemembered, WorkerRemembered, IdleWorker
<1>5. OwnersRemembered
    BY DEF HInit, Init, OwnersRemembered, Contract!Owned, IdleHousekeeper
<1>6. QED BY <1>1, <1>2, <1>3, <1>4, <1>5 DEF ContractInv

LEMMA NextHistoryTypeOK ==
    ASSUME TypeOK, HistoryTypeOK, HNext, TypeOK'
    PROVE  /\ HistoryTypeOK' /\ ObjectsRemembered'
           /\ \A i \in Ids : past[i] \subseteq past'[i]
           /\ claimed \subseteq claimed'
BY DEF HNext, HistoryTypeOK, ObjectsRemembered, TypeOK

\* The cache holds what the API held once.
LEMMA NextCacheRemembered ==
    ASSUME ContractInv, HNext, \A i \in Ids : past[i] \subseteq past'[i]
    PROVE  CacheRemembered'
<1>1. CASE InitialList
    BY <1>1 DEF InitialList, ContractInv, ObjectsRemembered, CacheRemembered
<1>2. ASSUME NEW j \in Ids, Deliver(j) PROVE CacheRemembered'
    BY <1>2 DEF Deliver, ContractInv, ObjectsRemembered, CacheRemembered, TypeOK
<1>3. CASE Restart
    BY <1>3 DEF Restart, CacheRemembered
<1>4. CASE UNCHANGED cache
    BY <1>4 DEF ContractInv, CacheRemembered
<1>5. QED BY <1>1, <1>2, <1>3, <1>4, Frames DEF HNext

LEMMA NextWorkerRemembered ==
    ASSUME ContractInv, HNext, \A i \in Ids : past[i] \subseteq past'[i]
    PROVE  WorkerRemembered'
<1>1. ASSUME NEW j \in Ids, ProcessNext(j) PROVE WorkerRemembered'
  <2>1. cache[j] # None => cache[j] \in past'[j]
    BY DEF ContractInv, CacheRemembered
  <2>2. \/ worker' = IdleWorker
        \/ /\ cache[j] # None /\ worker' = Work("delete", j, cache[j])
        \/ /\ cache[j] # None /\ ~Excluded(cache[j])
           /\ \/ worker' = Work("namespace", j, cache[j])
              \/ worker' = Work(UnlessDeleting(cache[j]), j, cache[j])
    BY <1>1 DEF ProcessNext
  <2>3. QED
    BY <2>1, <2>2 DEF WorkerRemembered, IdleWorker, Work, UnlessDeleting, Fit, Excluded
<1>2. CASE Worker
  <2>1. worker.pc # "idle" /\ worker.id \in Ids /\ worker.obj \in Objs
    BY <1>2, WorkerType DEF Worker, GetNamespace, Unmonitor, ReconcileGet, ReconcileCreate,
                            ReconcileUpdate, ContractInv, TypeOK
  <2>2. worker.obj \in past'[worker.id]
    BY <2>1 DEF ContractInv, WorkerRemembered
  <2>3. worker' = IdleWorker \/ (worker'.id = worker.id /\ worker'.obj = worker.obj)
    BY <1>2, WorkerMoves DEF ContractInv
  <2>4. CASE worker' = IdleWorker
    BY <2>4 DEF WorkerRemembered, IdleWorker
  <2>5. CASE worker' # IdleWorker /\ GetNamespace
    <3>1. worker \in [pc: {"namespace"}, id: Ids, obj: Objs, seen: {None}]
        BY <2>5 DEF GetNamespace, ContractInv, TypeOK, Workers, IdleWorker
    <3>2. worker'.pc = UnlessDeleting(worker.obj) \/ worker'.pc = "delete"
        BY <2>5, <3>1 DEF GetNamespace
    <3>3. ~Excluded(worker.obj)
        BY <2>1, <3>1 DEF ContractInv, WorkerRemembered
    <3>4. worker'.pc \in {"get", "create", "update"} => ~worker.obj.deleting
        BY <3>2 DEF UnlessDeleting
    <3>5. worker'.pc # "namespace"
        BY <3>2 DEF UnlessDeleting
    <3>6. QED
      BY <2>1, <2>2, <2>3, <2>5, <3>3, <3>4, <3>5, NoneAssumption DEF WorkerRemembered, Fit, Excluded
  <2>6. CASE worker' # IdleWorker /\ ReconcileGet
    <3>1. worker \in [pc: {"get"}, id: Ids, obj: Objs, seen: {None}]
        BY <2>6 DEF ReconcileGet, ContractInv, TypeOK, Workers, IdleWorker
    <3>2. worker'.pc # "namespace"
        BY <2>6, <3>1 DEF ReconcileGet
    <3>3. Fit(worker.obj)
        BY <3>1 DEF ContractInv, WorkerRemembered
    <3>4. QED BY <2>2, <2>3, <2>6, <3>2, <3>3 DEF WorkerRemembered, Fit, Excluded
  <2>7. QED
    BY <1>2, <2>4, <2>5, <2>6 DEF Worker, Unmonitor, ReconcileCreate, ReconcileUpdate
<1>3. CASE Restart
    BY <1>3 DEF Restart, WorkerRemembered, IdleWorker
<1>4. CASE UNCHANGED worker
  <2>1. worker.pc # "idle" => worker.id \in Ids
    BY WorkerType DEF ContractInv, TypeOK
  <2>2. QED BY <1>4, <2>1 DEF ContractInv, WorkerRemembered, Fit, Excluded
<1>5. QED BY <1>1, <1>2, <1>3, <1>4, Frames DEF HNext

\* Only its own step changes the lister of the custom resources.
LEMMA HostsFrame ==
    ASSUME Next
    PROVE  HostsInitialList \/ (\E i \in Ids : DeliverHost(i)) \/ Restart \/ UNCHANGED hosts
<1> USE DEF informers, api
<1>1. CASE Environment
    BY <1>1 DEF Environment, ObjectChanges, NamespaceChanges, UserEdits
<1>2. CASE InitialList \/ Listener
    BY <1>2 DEF InitialList, Listener, HandleSync, HandleDeleted
<1>3. ASSUME NEW i \in Ids, Deliver(i) \/ Resync(i) \/ ProcessNext(i) PROVE UNCHANGED hosts
    BY <1>3 DEF Deliver, Resync, ProcessNext
<1>4. CASE Worker
    BY <1>4 DEF Worker, GetNamespace, Unmonitor, ReconcileGet, ReconcileCreate, ReconcileUpdate
<1>5. CASE Housekeeping
    BY <1>5 DEF Housekeeping, HousekeepingList, HousekeepingLookup, HousekeepingDelete,
                HousekeepingSleep
<1>6. QED BY <1>1, <1>2, <1>3, <1>4, <1>5 DEF Next

LEMMA NextOwnersRemembered ==
    ASSUME ContractInv, HNext, claimed \subseteq claimed'
    PROVE  OwnersRemembered'
<1>1. \A i \in Ids : Contract!Owned(crs'[i]) => i \in claimed'
    BY DEF HNext
<1>2. \A i \in Ids : Contract!Owned(hosts'[i]) => i \in claimed'
  <2>1. CASE HostsInitialList
    BY <2>1 DEF HostsInitialList, ContractInv, OwnersRemembered
  <2>2. ASSUME NEW j \in Ids, DeliverHost(j)
        PROVE  \A i \in Ids : Contract!Owned(hosts'[i]) => i \in claimed'
    BY <2>2 DEF DeliverHost, ContractInv, OwnersRemembered, TypeOK
  <2>3. CASE Restart
    BY <2>3 DEF Restart, Contract!Owned
  <2>4. CASE UNCHANGED hosts
    BY <2>4 DEF ContractInv, OwnersRemembered
  <2>5. QED BY <2>1, <2>2, <2>3, <2>4, HostsFrame DEF HNext
<1>3. housekeeper'.todo \subseteq claimed' /\ (housekeeper'.pc = "delete" => housekeeper'.id \in claimed')
  <2>1. CASE HousekeepingList
    BY <2>1 DEF HousekeepingList, ContractInv, OwnersRemembered, Contract!Owned
  <2>2. ASSUME NEW j \in Ids, HousekeepingLookup(j)
        PROVE  housekeeper'.todo \subseteq claimed'
               /\ (housekeeper'.pc = "delete" => housekeeper'.id \in claimed')
    <3>1. housekeeper \in [pc: {"scan"}, todo: SUBSET Ids, id: {None}] /\ j \in housekeeper.todo
        BY <2>2 DEF HousekeepingLookup, ContractInv, TypeOK, Housekeepers, IdleHousekeeper
    <3>2. QED BY <2>2, <3>1 DEF HousekeepingLookup, ContractInv, OwnersRemembered
  <2>3. CASE HousekeepingDelete
    <3>1. housekeeper \in [pc: {"delete"}, todo: SUBSET Ids, id: Ids]
        BY <2>3 DEF HousekeepingDelete, ContractInv, TypeOK, Housekeepers, IdleHousekeeper
    <3>2. QED BY <2>3, <3>1 DEF HousekeepingDelete, ContractInv, OwnersRemembered
  <2>4. CASE HousekeepingSleep \/ Restart
    BY <2>4 DEF HousekeepingSleep, Restart, IdleHousekeeper
  <2>5. CASE UNCHANGED housekeeper
    BY <2>5 DEF ContractInv, OwnersRemembered
  <2>6. QED BY <2>1, <2>2, <2>3, <2>4, <2>5, Frames DEF HNext, Housekeeping
<1>4. QED BY <1>1, <1>2, <1>3 DEF OwnersRemembered

LEMMA NextContractInv == ContractInv /\ [HNext]_hvars => ContractInv'
<1> SUFFICES ASSUME ContractInv, [HNext]_hvars PROVE ContractInv'
    OBVIOUS
<1>1. CASE UNCHANGED hvars
  <2>1. UNCHANGED <<vars, excused>>
    BY <1>1 DEF hvars
  <2>2. TypeOK' /\ Grounds'
    BY <2>1, NextTypeOK, NextGrounds DEF ContractInv
  <2>3. QED
    BY <1>1, <2>2 DEF hvars, vars, history, ContractInv, HistoryTypeOK, ObjectsRemembered,
       CacheRemembered, WorkerRemembered, OwnersRemembered, Contract!Owned, Fit, Excluded
<1>2. CASE HNext
  <2>1. TypeOK' /\ Grounds'
    BY <1>2, NextTypeOK, NextGrounds DEF ContractInv, HNext
  <2>2. /\ HistoryTypeOK' /\ ObjectsRemembered'
        /\ \A i \in Ids : past[i] \subseteq past'[i]
        /\ claimed \subseteq claimed'
    BY <1>2, <2>1, NextHistoryTypeOK DEF ContractInv
  <2>3. CacheRemembered' /\ WorkerRemembered' /\ OwnersRemembered'
    BY <1>2, <2>2, NextCacheRemembered, NextWorkerRemembered, NextOwnersRemembered
  <2>4. QED BY <2>1, <2>2, <2>3 DEF ContractInv
<1>3. QED BY <1>1, <1>2

\* What the threads and caches know of objects and resources comes from the API
\* as it was once, and what a worker writes from a version that was fit.
THEOREM ContractInvariant == HSpec => []ContractInv
BY InitContractInv, NextContractInv, PTL DEF HSpec, hvars

LEMMA ContractInit == HInit => Contract!Init
<1> SUFFICES ASSUME HInit PROVE Contract!Init
    OBVIOUS
<1>1. TypeOK
    BY InitTypeOK DEF HInit
<1>2. QED BY <1>1 DEF HInit, Init, Contract!Init, TypeOK

\* The history of the contract follows every step.
LEMMA ContractRemembers ==
    ASSUME ContractInv, HNext
    PROVE  Contract!Remember
<1>1. excused' = excused \cup (Ids \ {i \in Ids : Wanted(i)'})
    BY DEF HNext, Next, Remember
<1>2. faults # 0 => faults' # 0
    BY CountersGrow DEF HNext, ContractInv, TypeOK
<1>3. QED BY <1>1, <1>2 DEF HNext, Contract!Remember

\* What a step does to the custom resources, the contract allows.
LEMMA ContractStep ==
    ASSUME ContractInv, HNext, TypeOK'
    PROVE  Contract!Next
<1> DEFINE W == {i \in Ids : Wanted(i)}
<1> USE DEF ContractInv
<1>1. Contract!Remember
    BY ContractRemembers
<1>2. ASSUME UNCHANGED <<crs, edits>> PROVE Contract!Change
  <2>1. objs' \in [Ids -> Objs \cup {None}] /\ W' \in SUBSET Ids
    BY DEF TypeOK
  <2>2. QED BY <1>2, <2>1 DEF Contract!Change
<1>3. ASSUME NEW i \in Ids, NEW c \in CRs \cup {None}, UserEdits(i, c) PROVE Contract!Edit(i)
  <2>1. UNCHANGED <<objs, W>>
    BY <1>3 DEF UserEdits, Wanted
  <2>2. QED BY <1>3, <2>1 DEF UserEdits, Contract!Edit, Contract!Cluster
<1>4. CASE HandleDeleted /\ ~UNCHANGED crs
  <2>1. UNCHANGED <<objs, W, edits>>
    BY <1>4 DEF HandleDeleted, Wanted
  <2>2. pending # <<>> /\ Head(pending) = pending[1] /\ 1 \in 1 .. Len(pending)
        /\ Head(pending) \in Notifications
    BY <1>4 DEF HandleDeleted, TypeOK
  <2>3. Head(pending).id \in excused /\ Head(pending).id \in Ids
    BY <1>4, <2>2 DEF HandleDeleted, Grounds, Notifications
  <2>4. Contract!Remove(Head(pending).id)
    BY <1>4, <2>1, <2>3 DEF HandleDeleted, Contract!Remove, Contract!Cluster
  <2>5. QED BY <1>1, <2>3, <2>4 DEF Contract!Next
<1>5. CASE Unmonitor /\ ~UNCHANGED crs
  <2>1. UNCHANGED <<objs, W, edits>>
    BY <1>5 DEF Unmonitor, Wanted
  <2>2. worker.id \in Ids
    BY <1>5, WorkerType DEF Unmonitor, TypeOK
  <2>3. worker.id \in excused \/ (Kind = "Workload" /\ faults # 0)
    BY <1>5 DEF Unmonitor, Grounds, TypeOK
  <2>4. Contract!Remove(worker.id)
    BY <1>5, <2>1, <2>3 DEF Unmonitor, Contract!Remove, Contract!Cluster
  <2>5. QED BY <1>1, <2>2, <2>4 DEF Contract!Next
<1>6. CASE ReconcileCreate /\ ~UNCHANGED crs
  <2>1. UNCHANGED <<objs, W, edits>>
    BY <1>6 DEF ReconcileCreate, Wanted
  <2>2. worker.id \in Ids /\ worker.obj \in Objs
    BY <1>6, WorkerType DEF ReconcileCreate, TypeOK
  <2>3. worker.obj \in past[worker.id] /\ Fit(worker.obj)
    BY <1>6 DEF ReconcileCreate, WorkerRemembered
  <2>4. Contract!Create(worker.id, worker.obj)
    BY <1>6, <2>1, <2>3 DEF ReconcileCreate, Contract!Create, Contract!Cluster
  <2>5. QED BY <1>1, <2>2, <2>4 DEF Contract!Next
<1>7. CASE ReconcileUpdate /\ ~UNCHANGED crs
  <2>1. UNCHANGED <<objs, W, edits>>
    BY <1>7 DEF ReconcileUpdate, Wanted
  <2>2. worker.id \in Ids /\ worker.obj \in Objs /\ worker.seen \in CRs
    BY <1>7, WorkerType DEF ReconcileUpdate, TypeOK
  <2>3. worker.obj \in past[worker.id] /\ Fit(worker.obj)
    BY <1>7 DEF ReconcileUpdate, WorkerRemembered
  <2>4. crs[worker.id] # None
    BY <1>7, <2>2, NoneAssumption DEF ReconcileUpdate
  <2>5. Contract!Update(worker.id, worker.obj)
    BY <1>7, <2>1, <2>3, <2>4 DEF ReconcileUpdate, Contract!Update, Contract!Cluster
  <2>6. QED BY <1>1, <2>2, <2>5 DEF Contract!Next
<1>8. CASE HousekeepingDelete /\ ~UNCHANGED crs
  <2>1. UNCHANGED <<objs, W, edits>>
    BY <1>8 DEF HousekeepingDelete, Wanted
  <2>2. housekeeper.id \in Ids
    BY <1>8 DEF HousekeepingDelete, TypeOK, Housekeepers, IdleHousekeeper
  <2>3. Housekept /\ housekeeper.id \in claimed
    BY <1>8 DEF HousekeepingDelete, Grounds, OwnersRemembered
  <2>4. Contract!Remove(housekeeper.id)
    BY <1>8, <2>1, <2>3 DEF HousekeepingDelete, Contract!Remove, Contract!Cluster
  <2>5. QED BY <1>1, <2>2, <2>4 DEF Contract!Next
<1>9. (\E i \in Ids, c \in CRs \cup {None} : UserEdits(i, c)) \/ UNCHANGED edits
    BY DEF HNext, Next, Environment, ObjectChanges, NamespaceChanges, Restart, InitialList,
           HostsInitialList, Deliver, DeliverHost, Resync, ProcessNext, Listener, HandleSync,
           HandleDeleted, Worker, GetNamespace, Unmonitor, ReconcileGet, ReconcileCreate,
           ReconcileUpdate, Housekeeping, HousekeepingList, HousekeepingLookup,
           HousekeepingDelete, HousekeepingSleep
<1>10. QED
    BY <1>1, <1>2, <1>3, <1>4, <1>5, <1>6, <1>7, <1>8, <1>9, Frames DEF HNext, Contract!Next

\* The detailed specification implements the contract: over stale caches, copies
\* in a worker's hands, failed calls, users' edits and restarts, a custom resource
\* is made and changed only from a version its object has had, one that was to be
\* monitored, never made over another one, and removed only with a reason.
THEOREM ContractKept == HSpec => ImplementsContract
<1>1. ContractInv /\ ContractInv' /\ [HNext]_hvars => [Contract!Next]_(Contract!vars)
  <2>1. CASE UNCHANGED hvars
    BY <2>1 DEF hvars, vars, history, Contract!vars, Wanted
  <2>2. ASSUME ContractInv, ContractInv', HNext PROVE Contract!Next
    BY <2>2, ContractStep DEF ContractInv
  <2>3. QED BY <2>1, <2>2
<1>2. QED BY <1>1, ContractInit, ContractInvariant, PTL
          DEF HSpec, hvars, ImplementsContract, Contract!Spec
=============================================================================
