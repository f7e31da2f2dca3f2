------------------------ MODULE IcingaSyncBaseProofs ------------------------
(***************************************************************************)
(* Machine-checked proofs about IcingaSync that need no history: its types *)
(* and where a removal comes from.  They stand in a module of their own    *)
(* for the modules that compose instances of IcingaSync.                   *)
(***************************************************************************)
EXTENDS IcingaSync, TLAPS

\* The object written for a resource is an object, and it is not None.
LEMMA ImageIsObject ==
    ASSUME NEW k \in Keys, NEW s \in Specs
    PROVE  Image(k, s) \in Objects /\ Image(k, s) # None
BY NoneAssumption DEF Image, Specs, Objects

LEMMA InitTypeOK == Init => TypeOK
<1> SUFFICES ASSUME Init PROVE TypeOK
    OBVIOUS
<1>1. pending \in Seq(Notifications) /\ worker \in Workers /\ handler \in Handlers
      /\ housekeeper \in Housekeepers
  BY DEF Init, Workers, Handlers, Housekeepers
<1>2. cr \in [Keys -> Specs \cup {None}] /\ icinga \in [Names -> Objects \cup {None}]
  BY InitAssumption DEF Init
<1>3. QED
  BY <1>1, <1>2 DEF Init, TypeOK

\* One step per action: each of them leaves every variable in its set.
LEMMA NextTypeOK == TypeOK /\ [Next]_vars => TypeOK'
<1> SUFFICES ASSUME TypeOK, [Next]_vars PROVE TypeOK'
    OBVIOUS
<1> USE DEF TypeOK, counters, servers, informer
<1>1. ASSUME NEW k \in Keys, NEW s \in Specs \cup {None}, ResourceChanges(k, s)
      PROVE  TypeOK'
  BY <1>1 DEF ResourceChanges
<1>2. ASSUME NEW n \in Names, OtherClusterWrites(n) PROVE TypeOK'
  BY <1>2 DEF OtherClusterWrites
<1>3. CASE InitialList
  BY <1>3 DEF InitialList
<1>4. ASSUME NEW k \in Keys, Deliver(k) PROVE TypeOK'
  <2> DEFINE note == IF cr[k] = None THEN [type |-> "deleted", key |-> k, spec |-> cache[k]]
                                     ELSE [type |-> "sync", key |-> k, spec |-> None]
  <2>1. note \in Notifications
    BY <1>4 DEF Deliver, Notifications
  <2>2. pending' \in Seq(Notifications)
    BY <1>4, <2>1 DEF Deliver
  <2>3. QED
    BY <1>4, <2>2 DEF Deliver
<1>5. CASE HandleSync
  <2>1. Head(pending) \in Notifications /\ pending' \in Seq(Notifications)
    BY <1>5 DEF HandleSync
  <2>2. QED
    BY <1>5, <2>1 DEF HandleSync, Notifications
<1>6. ASSUME NEW k \in Keys, Resync(k) PROVE TypeOK'
  BY <1>6 DEF Resync
<1>7. CASE HandleDeleted
  <2>1. Head(pending) \in Notifications /\ pending' \in Seq(Notifications)
    BY <1>7 DEF HandleDeleted
  <2>2. Head(pending).spec \in Specs
    BY <1>7, <2>1 DEF HandleDeleted, Notifications
  <2>3. handler' \in Handlers
    BY <1>7, <2>2 DEF HandleDeleted, Handlers, Specs
  <2>4. QED
    BY <1>7, <2>1, <2>3 DEF HandleDeleted
<1>8. CASE DeletedGet
  BY <1>8 DEF DeletedGet, Handlers, IdleHandler, Fault, NoFault
<1>9. CASE DeletedDelete
  BY <1>9 DEF DeletedDelete, Handlers, IdleHandler, Fault, NoFault
<1>10. ASSUME NEW k \in Keys, ProcessNext(k) PROVE TypeOK'
  <2>1. worker' \in Workers
    BY <1>10 DEF ProcessNext, Workers
  <2>2. QED
    BY <1>10, <2>1 DEF ProcessNext
<1>11. CASE CreatedOrUpdatedGet
  BY <1>11 DEF CreatedOrUpdatedGet, Workers, IdleWorker, Fault, NoFault
<1>12. CASE CreatedOrUpdatedUpdate
  <2>1. worker.key \in Keys /\ worker.spec \in Specs
    BY <1>12 DEF CreatedOrUpdatedUpdate, Workers, IdleWorker
  <2>2. QED
    BY <1>12, <2>1, ImageIsObject DEF CreatedOrUpdatedUpdate, Workers, Fault, NoFault
<1>13. CASE CreatedOrUpdatedCreate
  <2>1. worker.key \in Keys /\ worker.spec \in Specs
    BY <1>13 DEF CreatedOrUpdatedCreate, Workers, IdleWorker
  <2>2. QED
    BY <1>13, <2>1, ImageIsObject DEF CreatedOrUpdatedCreate, Workers, Fault, NoFault
<1>14. CASE HousekeepingList
  <2>1. Listed \in SUBSET Entries
    BY DEF Listed
  <2>2. housekeeper' \in Housekeepers
    BY <1>14, <2>1 DEF HousekeepingList, Housekeepers
  <2>3. QED
    BY <1>14, <2>2 DEF HousekeepingList
<1>15. ASSUME NEW e \in Entries, HousekeepingGet(e) PROVE TypeOK'
  <2>1. housekeeper.todo \in SUBSET Entries /\ e.name \in Names /\ e.owner \in Keys
    BY <1>15 DEF HousekeepingGet, Housekeepers, IdleHousekeeper, Entries
  <2>2. housekeeper' \in Housekeepers
    BY <1>15, <2>1 DEF HousekeepingGet, Housekeepers, IdleHousekeeper
  <2>3. faults' \in Nat
    BY <1>15 DEF HousekeepingGet, Fault, NoFault
  <2>4. QED
    BY <1>15, <2>2, <2>3 DEF HousekeepingGet
<1>16. CASE HousekeepingDelete
  <2> DEFINE rest == [housekeeper EXCEPT !.pc = "scan", !.name = None]
  <2>1. housekeeper \in [pc: {"delete"}, todo: SUBSET Entries, name: Names]
    BY <1>16 DEF HousekeepingDelete, Housekeepers, IdleHousekeeper
  <2>2. rest \in [pc: {"scan"}, todo: SUBSET Entries, name: {None}]
    BY <2>1
  <2>3. housekeeper' \in Housekeepers
    BY <1>16, <2>2 DEF HousekeepingDelete, Housekeepers
  <2>4. icinga' \in [Names -> Objects \cup {None}]
    BY <1>16 DEF HousekeepingDelete
  <2>5. QED
    BY <1>16, <2>3, <2>4 DEF HousekeepingDelete, Fault, NoFault
<1>17. CASE HousekeepingSleep
  BY <1>17 DEF HousekeepingSleep, Housekeepers
<1>18. CASE Restart
  <2>1. pending' \in Seq(Notifications) /\ worker' \in Workers /\ handler' \in Handlers
        /\ housekeeper' \in Housekeepers
    BY <1>18 DEF Restart, Workers, Handlers, Housekeepers
  <2>2. cache' \in [Keys -> Specs \cup {None}] /\ synced' \in BOOLEAN /\ queue' \in SUBSET Keys
    BY <1>18 DEF Restart
  <2>3. QED
    BY <1>18, <2>1, <2>2 DEF Restart
<1>19. CASE UNCHANGED vars
  BY <1>19 DEF vars
<1>20. QED
  BY <1>1, <1>2, <1>3, <1>4, <1>5, <1>6, <1>7, <1>8, <1>9, <1>10, <1>11, <1>12, <1>13,
     <1>14, <1>15, <1>16, <1>17, <1>18, <1>19
     DEF Next, Environment, Listener, CreatedOrUpdated, Housekeeping

\* The threads, the work queue and the notifications keep their shape: a
\* worker past "idle" has a key and a specification, a deletion always carries
\* the specification it deletes by, a handler that deletes has a name.
THEOREM TypeCorrect == Spec => []TypeOK
BY InitTypeOK, NextTypeOK, PTL DEF Spec

-----------------------------------------------------------------------------
(* Where a removal comes from                                              *)

\* A thread of the controller has seen, or is to be told, that a resource is
\* absent.
Deleting ==
    \/ \E i \in DOMAIN pending : pending[i].type = "deleted"
    \/ handler.pc # "idle"
    \/ housekeeper.pc = "delete"

\* The controller starts with nothing to delete.
LEMMA InitNotDeleting == Init => ~Deleting
BY DEF Init, Deleting, IdleHandler, IdleHousekeeper

\* It begins to delete in a step that finds a resource absent: a deletion is
\* delivered, or housekeeping finds an object without its owner.
LEMMA DeletingStep ==
    ASSUME TypeOK, Next, ~Deleting, Deleting'
    PROVE  \E k \in Keys : cr[k] = None
<1> USE DEF TypeOK, counters, servers, informer, Deleting
<1>1. CASE UNCHANGED <<pending, handler, housekeeper>>
  BY <1>1
<1>2. ASSUME NEW k \in Keys, Deliver(k) PROVE cr[k] = None
  <2>1. UNCHANGED <<handler, housekeeper>>
    BY <1>2 DEF Deliver
  <2>2. PICK i \in DOMAIN pending' : pending'[i].type = "deleted"
    BY <2>1
  <2> DEFINE note == IF cr[k] = None THEN [type |-> "deleted", key |-> k, spec |-> cache[k]]
                                     ELSE [type |-> "sync", key |-> k, spec |-> None]
  <2> HIDE DEF note
  <2>3. pending' = Append(pending, note)
    BY <1>2 DEF Deliver, note
  <2>4. i \notin DOMAIN pending => note.type = "deleted"
    BY <2>2, <2>3
  <2>5. i \in DOMAIN pending => pending'[i] = pending[i]
    BY <2>3
  <2>6. note.type = "deleted"
    BY <2>2, <2>4, <2>5
  <2>7. QED
    BY <2>6 DEF note
<1>3. ASSUME HandleSync \/ HandleDeleted PROVE FALSE
  <2>1. pending # <<>> /\ pending' = Tail(pending) /\ UNCHANGED housekeeper
    BY <1>3 DEF HandleSync, HandleDeleted
  <2>2. \A i \in DOMAIN pending' : i + 1 \in DOMAIN pending /\ pending'[i] = pending[i + 1]
    BY <2>1
  <2>3. 1 \in DOMAIN pending /\ Head(pending) = pending[1]
    BY <2>1
  <2>4. QED
    BY <1>3, <2>1, <2>2, <2>3 DEF HandleSync, HandleDeleted
<1>4. ASSUME DeletedGet \/ DeletedDelete PROVE FALSE
  BY <1>4 DEF DeletedGet, DeletedDelete, IdleHandler
<1>5. ASSUME HousekeepingList \/ HousekeepingDelete \/ HousekeepingSleep PROVE FALSE
  BY <1>5 DEF HousekeepingList, HousekeepingDelete, HousekeepingSleep, IdleHousekeeper
<1>6. ASSUME NEW e \in Entries, HousekeepingGet(e) PROVE cr[e.owner] = None /\ e.owner \in Keys
  <2>1. UNCHANGED <<pending, handler>> /\ housekeeper.pc = "scan" /\ e.owner \in Keys
    BY <1>6 DEF HousekeepingGet, Entries
  <2>2. housekeeper' = [housekeeper EXCEPT !.todo = @ \ {e}] => housekeeper'.pc = "scan"
    BY <2>1 DEF Housekeepers, IdleHousekeeper
  <2>3. QED
    BY <1>6, <2>1, <2>2 DEF HousekeepingGet
<1>7. ASSUME Restart PROVE FALSE
  BY <1>7 DEF Restart, IdleHandler, IdleHousekeeper
<1>8. ASSUME CreatedOrUpdated \/ InitialList PROVE UNCHANGED <<pending, handler, housekeeper>>
  BY <1>8 DEF CreatedOrUpdated, CreatedOrUpdatedGet, CreatedOrUpdatedUpdate,
              CreatedOrUpdatedCreate, InitialList
<1>9. ASSUME NEW k \in Keys, Resync(k) \/ ProcessNext(k)
      PROVE  UNCHANGED <<pending, handler, housekeeper>>
  BY <1>9 DEF Resync, ProcessNext
<1>10. ASSUME NEW k \in Keys, NEW s \in Specs \cup {None}, ResourceChanges(k, s)
       PROVE  UNCHANGED <<pending, handler, housekeeper>>
  BY <1>10 DEF ResourceChanges
<1>11. ASSUME NEW n \in Names, OtherClusterWrites(n)
       PROVE  UNCHANGED <<pending, handler, housekeeper>>
  BY <1>11 DEF OtherClusterWrites
<1>12. QED
  BY <1>1, <1>2, <1>3, <1>4, <1>5, <1>6, <1>7, <1>8, <1>9, <1>10, <1>11
     DEF Next, Environment, Listener, Housekeeping

\* An object goes from Icinga in a step of a thread that is deleting, or of the
\* other cluster.
LEMMA RemovalFrom ==
    ASSUME TypeOK, Next, NEW n \in Names, icinga[n] # None, icinga'[n] = None
    PROVE  Deleting \/ others' # others
<1> USE DEF TypeOK, counters, servers, informer
<1>1. ASSUME DeletedDelete \/ HousekeepingDelete PROVE Deleting
  BY <1>1 DEF DeletedDelete, HousekeepingDelete, Deleting
<1>2. ASSUME NEW m \in Names, OtherClusterWrites(m) PROVE others' # others
  BY <1>2 DEF OtherClusterWrites
<1>3. ASSUME CreatedOrUpdatedUpdate \/ CreatedOrUpdatedCreate PROVE FALSE
  <2>1. worker.key \in Keys /\ worker.spec \in Specs
    BY <1>3 DEF CreatedOrUpdatedUpdate, CreatedOrUpdatedCreate, Workers, IdleWorker
  <2>2. Image(worker.key, worker.spec) # None
    BY <2>1, ImageIsObject
  <2>3. QED
    BY <1>3, <2>2 DEF CreatedOrUpdatedUpdate, CreatedOrUpdatedCreate
<1>4. CASE UNCHANGED icinga
  BY <1>4
<1>5. ASSUME HandleSync \/ HandleDeleted \/ DeletedGet \/ InitialList \/ CreatedOrUpdatedGet
             \/ HousekeepingList \/ HousekeepingSleep \/ Restart
      PROVE  UNCHANGED icinga
  BY <1>5 DEF HandleSync, HandleDeleted, DeletedGet, InitialList, CreatedOrUpdatedGet,
              HousekeepingList, HousekeepingSleep, Restart
<1>6. ASSUME NEW k \in Keys, Deliver(k) \/ Resync(k) \/ ProcessNext(k) PROVE UNCHANGED icinga
  BY <1>6 DEF Deliver, Resync, ProcessNext
<1>7. ASSUME NEW k \in Keys, NEW s \in Specs \cup {None}, ResourceChanges(k, s)
      PROVE  UNCHANGED icinga
  BY <1>7 DEF ResourceChanges
<1>8. ASSUME NEW e \in Entries, HousekeepingGet(e) PROVE UNCHANGED icinga
  BY <1>8 DEF HousekeepingGet
<1>9. QED
  BY <1>1, <1>2, <1>3, <1>4, <1>5, <1>6, <1>7, <1>8
     DEF Next, Environment, Listener, CreatedOrUpdated, Housekeeping

\* An object comes into Icinga in a step of a worker that creates, or of the
\* other cluster.
LEMMA CreationFrom ==
    ASSUME TypeOK, Next, NEW n \in Names, icinga[n] = None, icinga'[n] # None
    PROVE  (worker.pc = "create" /\ worker' = IdleWorker) \/ others' # others
<1> USE DEF TypeOK, counters, servers, informer
<1>1. ASSUME DeletedDelete \/ HousekeepingDelete PROVE FALSE
  BY <1>1 DEF DeletedDelete, HousekeepingDelete
<1>2. ASSUME NEW m \in Names, OtherClusterWrites(m) PROVE others' # others
  BY <1>2 DEF OtherClusterWrites
<1>3. ASSUME CreatedOrUpdatedUpdate PROVE FALSE
  BY <1>3 DEF CreatedOrUpdatedUpdate
<1>4. ASSUME CreatedOrUpdatedCreate PROVE worker.pc = "create" /\ worker' = IdleWorker
  BY <1>4 DEF CreatedOrUpdatedCreate
<1>5. ASSUME HandleSync \/ HandleDeleted \/ DeletedGet \/ InitialList \/ CreatedOrUpdatedGet
             \/ HousekeepingList \/ HousekeepingSleep \/ Restart
      PROVE  UNCHANGED icinga
  BY <1>5 DEF HandleSync, HandleDeleted, DeletedGet, InitialList, CreatedOrUpdatedGet,
              HousekeepingList, HousekeepingSleep, Restart
<1>6. ASSUME NEW k \in Keys, Deliver(k) \/ Resync(k) \/ ProcessNext(k) PROVE UNCHANGED icinga
  BY <1>6 DEF Deliver, Resync, ProcessNext
<1>7. ASSUME NEW k \in Keys, NEW s \in Specs \cup {None}, ResourceChanges(k, s)
      PROVE  UNCHANGED icinga
  BY <1>7 DEF ResourceChanges
<1>8. ASSUME NEW e \in Entries, HousekeepingGet(e) PROVE UNCHANGED icinga
  BY <1>8 DEF HousekeepingGet
<1>9. QED
  BY <1>1, <1>2, <1>3, <1>4, <1>5, <1>6, <1>7, <1>8
     DEF Next, Environment, Listener, CreatedOrUpdated, Housekeeping
=============================================================================
