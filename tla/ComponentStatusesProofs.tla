----------------------- MODULE ComponentStatusesProofs -----------------------
(***************************************************************************)
(* Machine-checked proofs about ComponentStatuses: type correctness, and   *)
(* that no thread takes away the resource of a status, for every set of    *)
(* resources and every bound, under either mapping.                        *)
(***************************************************************************)
EXTENDS ComponentStatuses, WorkloadMonitorProofs

allVars == <<vars, excused, statusVars, noded>>

LEMMA StatusType ==
    /\ StatusSpec \in OtherSpecs /\ Kind = "Node"
    /\ [spec |-> StatusSpec, owned |-> FALSE] \in CRs
    /\ \A c \in CRs : [c EXCEPT !.spec = StatusSpec] \in CRs
BY StatusAssumption DEF CRs

LEMMA RefresherType ==
    ASSUME refresher \in Refreshers
    PROVE  /\ refresher.todo \in SUBSET Ids
           /\ refresher.pc \in {"create", "update"} => refresher.id \in Ids
           /\ refresher.pc = "update" => refresher.seen \in CRs
           /\ \A i : Done(i) \in Refreshers
<1>1. refresher.todo \in SUBSET Ids
    BY DEF Refreshers, IdleRefresher
<1>2. ASSUME NEW t \in SUBSET Ids
      PROVE  [IdleRefresher EXCEPT !.pc = "scan", !.todo = t] \in Refreshers
    BY DEF Refreshers, IdleRefresher
<1>3. \A i : Done(i) \in Refreshers
    BY <1>1, <1>2 DEF Done
<1>4. QED BY <1>1, <1>3 DEF Refreshers, IdleRefresher

\* What the refresher does to the custom resources.
LEMMA RefresherWrites ==
    ASSUME StatusTypeOK, RefreshComponentStatutes
    PROVE  /\ crs' \in [Ids -> CRs \cup {None}]
           /\ \A i \in Ids : \/ crs'[i] = crs[i]
                             \/ crs'[i] = [spec |-> StatusSpec, owned |-> FALSE]
                             \/ crs[i] \in CRs /\ crs'[i] = [crs[i] EXCEPT !.spec = StatusSpec]
           /\ UNCHANGED <<objs, namespace, informers, queue, worker, housekeeper, listed,
                          changes, edits, crashes>>
           /\ faults' \in Nat
<1> USE DEF StatusTypeOK, TypeOK, RefresherOnly
<1>1. CASE RefresherList \/ RefresherSleep
    BY <1>1 DEF RefresherList, RefresherSleep
<1>2. ASSUME NEW j \in Ids, RefresherGet(j)
      PROVE  UNCHANGED <<crs, objs, namespace, informers, queue, worker, housekeeper, listed,
                          changes, edits, crashes>> /\ faults' \in Nat
    BY <1>2 DEF RefresherGet, Fault, NoFault
<1>3. CASE RefresherCreate
    BY <1>3, StatusType, RefresherType DEF RefresherCreate, Fault, NoFault
<1>4. CASE RefresherUpdate
    BY <1>4, StatusType, RefresherType DEF RefresherUpdate, Fault, NoFault
<1>5. QED BY <1>1, <1>2, <1>3, <1>4 DEF RefreshComponentStatutes

LEMMA RefresherMoves ==
    ASSUME StatusTypeOK, RefreshComponentStatutes
    PROVE  refresher' \in Refreshers
<1> USE DEF StatusTypeOK
<1>1. CASE RefresherList
  <2>1. listed \in SUBSET Ids
    OBVIOUS
  <2>2. [IdleRefresher EXCEPT !.pc = "scan", !.todo = listed] \in Refreshers
    BY <2>1 DEF Refreshers, IdleRefresher
  <2>3. QED BY <1>1, <2>2 DEF RefresherList
<1>2. ASSUME NEW i \in Ids, RefresherGet(i) PROVE refresher' \in Refreshers
  <2>1. refresher \in [pc: {"scan"}, todo: SUBSET Ids, id: {None}, seen: {None}]
    BY <1>2 DEF RefresherGet, Refreshers, IdleRefresher
  <2>2. [refresher EXCEPT !.pc = "create", !.id = i] \in Refreshers
    BY <2>1 DEF Refreshers
  <2>3. \A c \in CRs : [refresher EXCEPT !.pc = "update", !.id = i, !.seen = c] \in Refreshers
    BY <2>1 DEF Refreshers
  <2>4. crs[i] \in CRs \cup {None}
    BY DEF TypeOK
  <2>5. Done(i) \in Refreshers
    BY RefresherType
  <2>6. QED BY <1>2, <2>2, <2>3, <2>4, <2>5 DEF RefresherGet
<1>3. CASE RefresherCreate \/ RefresherUpdate
    BY <1>3, RefresherType DEF RefresherCreate, RefresherUpdate
<1>4. CASE RefresherSleep
    BY <1>4 DEF RefresherSleep, Refreshers
<1>5. QED BY <1>1, <1>2, <1>3, <1>4 DEF RefreshComponentStatutes

LEMMA InitStatusTypeOK == StatusInit => StatusTypeOK
<1> SUFFICES ASSUME StatusInit PROVE StatusTypeOK
    OBVIOUS
<1>1. TypeOK
    BY InitTypeOK DEF StatusInit
<1>2. QED BY <1>1 DEF StatusInit, StatusTypeOK, Refreshers

LEMMA NextStatusTypeOK == StatusTypeOK /\ [StatusNext]_allVars => StatusTypeOK'
<1> SUFFICES ASSUME StatusTypeOK, [StatusNext]_allVars PROVE StatusTypeOK'
    OBVIOUS
<1>1. CASE UNCHANGED allVars
    BY <1>1 DEF allVars, statusVars, vars, StatusTypeOK, TypeOK
<1>2. ASSUME StatusNext PROVE noded' \in SUBSET Ids
    BY <1>2 DEF StatusNext, StatusTypeOK
<1>3. CASE Others /\ StatusNext
  <2>1. TypeOK'
    BY <1>3, NextTypeOK DEF Others, StatusTypeOK
  <2>2. refresher' \in Refreshers /\ listed' \in SUBSET Ids
    BY <1>3 DEF Others, StatusTypeOK, Refreshers
  <2>3. QED BY <1>2, <1>3, <2>1, <2>2 DEF StatusTypeOK
<1>4. ASSUME StatusNext, NEW i \in Ids, ListingChanges(i), UNCHANGED excused PROVE StatusTypeOK'
    BY <1>2, <1>4 DEF ListingChanges, api, informers, StatusTypeOK, TypeOK
<1>5. CASE StatusNext /\ RefreshComponentStatutes /\ UNCHANGED excused
  <2>1. TypeOK' /\ listed' \in SUBSET Ids
    BY <1>5, RefresherWrites DEF informers, StatusTypeOK, TypeOK
  <2>2. refresher' \in Refreshers
    BY <1>5, RefresherMoves
  <2>3. QED BY <1>2, <1>5, <2>1, <2>2 DEF StatusTypeOK
<1>6. QED BY <1>1, <1>3, <1>4, <1>5 DEF StatusNext

\* The refresher keeps its shape too: one about to create or to update has a
\* name, and the version it read.
THEOREM StatusTypeCorrect == StatusSpecification => []StatusTypeOK
<1>1. QED BY InitStatusTypeOK, NextStatusTypeOK, PTL DEF StatusSpecification, allVars

-----------------------------------------------------------------------------
(* Nobody takes away a status                                              *)

\* No thread has heard of a name that no node has had, but the refresher.
Unheard(i) ==
    /\ objs[i] = None /\ cache[i] = None
    /\ crs[i] # None => ~crs[i].owned
    /\ hosts[i] # None => ~hosts[i].owned
    /\ \A n \in 1 .. Len(pending) : pending[n].id # i
    /\ worker.pc # "idle" => worker.id # i
    /\ i \notin housekeeper.todo /\ housekeeper.id # i

NoneHeard == \A i \in Ids \ noded : Unheard(i)

LEMMA InitNoneHeard == StatusInit => NoneHeard
BY NoneAssumption DEF StatusInit, Init, NoneHeard, Unheard, IdleWorker, IdleHousekeeper

\* What becomes of the resource of a name that no thread has heard of.
LEMMA UnheardResource ==
    ASSUME TypeOK, Next, NEW i \in Ids, Unheard(i)
    PROVE  /\ crs'[i] # None => ~crs'[i].owned
           /\ crs[i] # None /\ crs'[i] = None => edits' # edits
<1>1. ASSUME NEW j \in Ids, NEW c \in CRs \cup {None}, UserEdits(j, c)
      PROVE  (crs'[i] # None => ~crs'[i].owned) /\ edits' # edits
  <2>1. CASE i = j
    <3>1. crs'[i] = c /\ edits' # edits
        BY <1>1, <2>1 DEF UserEdits, TypeOK
    <3>2. ~(crs[i] # None /\ crs[i].owned)
        BY DEF Unheard
    <3>3. c # None => c.owned = (crs[i] # None /\ crs[i].owned)
        BY <1>1, <2>1 DEF UserEdits
    <3>4. c # None => ~c.owned
        BY <3>2, <3>3, Zenon
    <3>5. QED BY <3>1, <3>4
  <2>2. CASE i # j
    BY <1>1, <2>2 DEF UserEdits, TypeOK, Unheard
  <2>3. QED BY <2>1, <2>2
<1>2. CASE HandleDeleted
  <2>1. Head(pending).id # i
    BY <1>2 DEF HandleDeleted, TypeOK, Unheard
  <2>2. crs'[i] = crs[i]
    BY <1>2, <2>1 DEF HandleDeleted, TypeOK
  <2>3. QED BY <2>2 DEF Unheard
<1>3. CASE Worker
  <2>1. worker.id # i
    BY <1>3 DEF Worker, GetNamespace, Unmonitor, ReconcileGet, ReconcileCreate,
                ReconcileUpdate, Unheard
  <2>2. QED BY <1>3, <2>1, WorkerMoves DEF Unheard
<1>4. CASE HousekeepingDelete
    BY <1>4 DEF HousekeepingDelete, TypeOK, Unheard
<1>5. CASE UNCHANGED crs
    BY <1>5 DEF Unheard
<1>6. QED BY <1>1, <1>2, <1>3, <1>4, <1>5, Frames DEF Worker

LEMMA NextUnheard ==
    ASSUME TypeOK, Next, NEW i \in Ids, Unheard(i), objs'[i] = None
    PROVE  Unheard(i)'
<1>1. objs[i] = None /\ cache[i] = None
    BY DEF Unheard
<1>2. cache'[i] = None
    BY <1>1, Frames DEF InitialList, Deliver, Restart, TypeOK
<1>3. crs'[i] # None => ~crs'[i].owned
    BY UnheardResource
<1>4. hosts'[i] # None => ~hosts'[i].owned
    BY HostsFrame DEF HostsInitialList, DeliverHost, Restart, TypeOK, Unheard
<1>5. \A n \in 1 .. Len(pending') : pending'[n].id # i
  <2>1. ASSUME NEW j \in Ids, Deliver(j) PROVE \A n \in 1 .. Len(pending') : pending'[n].id # i
    <3> DEFINE note == [type |-> IF objs[j] = None THEN "deleted" ELSE "sync", id |-> j]
    <3>1. i # j
        BY <1>1, <2>1 DEF Deliver
    <3>2. note.id # i /\ pending' = Append(pending, note) /\ pending \in Seq(Notifications)
        BY <2>1, <3>1 DEF Deliver, TypeOK
    <3> HIDE DEF note
    <3>3. QED BY <3>2 DEF Unheard
  <2>2. CASE Listener
    <3>1. pending # <<>> /\ pending' = Tail(pending) /\ pending \in Seq(Notifications)
        BY <2>2 DEF Listener, HandleSync, HandleDeleted, TypeOK
    <3>2. QED BY <3>1 DEF Unheard
  <2>3. CASE Restart
    BY <2>3 DEF Restart
  <2>4. CASE UNCHANGED pending
    BY <2>4 DEF Unheard
  <2>5. QED BY <2>1, <2>2, <2>3, <2>4, Frames
<1>6. worker'.pc # "idle" => worker'.id # i
  <2>1. ASSUME NEW j \in Ids, ProcessNext(j) PROVE worker'.pc # "idle" => worker'.id # i
    BY <1>1, <2>1 DEF ProcessNext, IdleWorker, Work
  <2>2. CASE Worker
    <3>1. worker.id # i
        BY <2>2 DEF Worker, GetNamespace, Unmonitor, ReconcileGet, ReconcileCreate,
                    ReconcileUpdate, Unheard
    <3>2. QED BY <2>2, <3>1, WorkerMoves DEF IdleWorker
  <2>3. CASE Restart
    BY <2>3 DEF Restart, IdleWorker
  <2>4. CASE UNCHANGED worker
    BY <2>4 DEF Unheard
  <2>5. QED BY <2>1, <2>2, <2>3, <2>4, Frames
<1>7. i \notin housekeeper'.todo /\ housekeeper'.id # i
  <2>1. CASE HousekeepingList
    BY <2>1, NoneAssumption DEF HousekeepingList, Unheard
  <2>2. ASSUME NEW j \in Ids, HousekeepingLookup(j)
        PROVE  i \notin housekeeper'.todo /\ housekeeper'.id # i
    <3>1. i # j /\ housekeeper \in [pc: {"scan"}, todo: SUBSET Ids, id: {None}]
        BY <2>2 DEF HousekeepingLookup, Unheard, TypeOK, Housekeepers, IdleHousekeeper
    <3>2. QED BY <2>2, <3>1, NoneAssumption DEF HousekeepingLookup, Unheard
  <2>3. CASE HousekeepingDelete
    <3>1. housekeeper \in [pc: {"delete"}, todo: SUBSET Ids, id: Ids]
        BY <2>3 DEF HousekeepingDelete, TypeOK, Housekeepers, IdleHousekeeper
    <3>2. QED BY <2>3, <3>1, NoneAssumption DEF HousekeepingDelete, Unheard
  <2>4. CASE HousekeepingSleep \/ Restart
    BY <2>4, NoneAssumption DEF HousekeepingSleep, Restart, IdleHousekeeper
  <2>5. CASE UNCHANGED housekeeper
    BY <2>5 DEF Unheard
  <2>6. QED BY <2>1, <2>2, <2>3, <2>4, <2>5, Frames DEF Housekeeping
<1>8. QED BY <1>2, <1>3, <1>4, <1>5, <1>6, <1>7 DEF Unheard

LEMMA NextNoneHeard ==
    StatusTypeOK /\ NoneHeard /\ [StatusNext]_allVars => NoneHeard'
<1> SUFFICES ASSUME StatusTypeOK, NoneHeard, [StatusNext]_allVars, NEW i \in Ids, i \notin noded'
             PROVE  Unheard(i)'
    BY DEF NoneHeard
<1>1. CASE UNCHANGED allVars
    BY <1>1 DEF allVars, statusVars, vars, NoneHeard, Unheard
<1>2. ASSUME StatusNext PROVE i \notin noded /\ objs'[i] = None /\ Unheard(i)
    BY <1>2 DEF StatusNext, NoneHeard
<1>3. CASE StatusNext /\ Others
    BY <1>2, <1>3, NextUnheard DEF Others, StatusTypeOK
<1>4. ASSUME StatusNext, NEW j \in Ids, ListingChanges(j) PROVE Unheard(i)'
    BY <1>2, <1>4 DEF ListingChanges, api, informers, Unheard
<1>5. CASE StatusNext /\ RefreshComponentStatutes
  <2>1. crs'[i] # None => ~crs'[i].owned
    BY <1>2, <1>5, RefresherWrites, NoneAssumption DEF Unheard, CRs
  <2>2. QED BY <1>2, <1>5, <2>1, RefresherWrites DEF informers, Unheard
<1>6. QED BY <1>1, <1>3, <1>4, <1>5 DEF StatusNext

\* No thread removes the resource of a status, unless there has been a node of
\* its name: neither housekeeping, which must not take the missing owner
\* reference for an owner that is gone, nor the nodes' worker and delete handler.
THEOREM StatusesAreKept == StatusSpecification => StatusKept
<1>1. StatusTypeOK /\ NoneHeard /\ [StatusNext]_allVars
        => [\A i \in Ids \ noded : crs[i] # None /\ crs'[i] = None => edits' # edits]_<<vars, noded>>
  <2> SUFFICES ASSUME StatusTypeOK, NoneHeard, StatusNext, NEW i \in Ids \ noded,
                      crs[i] # None, crs'[i] = None
               PROVE  edits' # edits
    BY DEF allVars, statusVars
  <2>1. CASE Others
    BY <2>1, UnheardResource DEF Others, StatusTypeOK, NoneHeard
  <2>2. ASSUME NEW j \in Ids, ListingChanges(j) PROVE FALSE
    BY <2>2 DEF ListingChanges, api
  <2>3. CASE RefreshComponentStatutes
    BY <2>3, RefresherWrites, StatusType, NoneAssumption
  <2>4. QED BY <2>1, <2>2, <2>3 DEF StatusNext
<1>2. QED BY <1>1, InitStatusTypeOK, NextStatusTypeOK, InitNoneHeard, NextNoneHeard, PTL
          DEF StatusSpecification, StatusKept, allVars
=============================================================================
