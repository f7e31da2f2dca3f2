-------------------------- MODULE IcingaSyncProofs --------------------------
(***************************************************************************)
(* Machine-checked proofs about IcingaSyncHistory: the inductive           *)
(* invariant, that the controller implements the abstract mirror, and that *)
(* it loses no change, for every kind of resource, every set of resources  *)
(* and names, and every bound.                                             *)
(***************************************************************************)
EXTENDS IcingaSyncHistory, IcingaSyncBaseProofs

-----------------------------------------------------------------------------
(* The inductive invariant                                                 *)

\* An object of this cluster is the image of some specification for its owner.
LEMMA ObjectHasSpec ==
    ASSUME NEW n \in Names, NEW o \in Objects, Ours(o)
    PROVE  \E s \in Specs : s.name = n /\ o = Image(o.owner, s)
<1> DEFINE s == [name |-> n, vars |-> o.vars, command |-> o.command, groups |-> o.groups]
<1>1. s \in Specs
  BY DEF Specs, Objects
<1>2. o = Image(o.owner, s)
  BY DEF Image, Objects, Ours
<1>3. QED
  BY <1>1, <1>2

LEMMA HInitInv == HInit => IInv
<1> SUFFICES ASSUME HInit PROVE IInv
    OBVIOUS
<1>1. TypeOK
  BY InitTypeOK DEF HInit
<1>2. HistoryTypeOK /\ ResourcesRemembered /\ KeptForeign
  BY <1>1 DEF HInit, HistoryTypeOK, ResourcesRemembered, KeptForeign, TypeOK
<1>3. CacheRemembered /\ DeletionsRemembered
  BY DEF HInit, Init, CacheRemembered, DeletionsRemembered
<1>4. WorkerRemembered /\ HandlerRemembered /\ HousekeeperRemembered
  BY DEF HInit, Init, WorkerRemembered, HandlerRemembered, HousekeeperRemembered,
         IdleWorker, IdleHandler, IdleHousekeeper
<1>5. ObjectsRemembered
  <2> SUFFICES ASSUME NEW n \in Names, Ours(icinga[n])
               PROVE  \E s \in past[icinga[n].owner] :
                          s.name = n /\ icinga[n] = Image(icinga[n].owner, s)
      BY DEF ObjectsRemembered
  <2>1. icinga[n] \in Objects /\ icinga[n].owner \in Keys
    BY <1>1 DEF TypeOK, Ours
  <2>2. PICK s \in Specs : s.name = n /\ icinga[n] = Image(icinga[n].owner, s)
    BY <2>1, ObjectHasSpec
  <2>3. s \in past[icinga[n].owner]
    BY <2>1, <2>2 DEF HInit
  <2>4. QED
    BY <2>2, <2>3
<1>6. QED
  BY <1>1, <1>2, <1>3, <1>4, <1>5 DEF IInv

\* What the history does in a step: nothing that was is forgotten, and a name
\* counts as kept only as long as the other cluster has it.
LEMMA Remembering ==
    ASSUME HistoryTypeOK, TypeOK', Mirror!Remember
    PROVE  /\ HistoryTypeOK' /\ ResourcesRemembered' /\ KeptForeign'
           /\ \A k \in Keys : past[k] \subseteq past'[k]
           /\ gone \subseteq gone' /\ kept' \subseteq kept
           /\ \A n : MayRemove(n) => MayRemove(n)'
<1>1. HistoryTypeOK' /\ \A k \in Keys : past[k] \subseteq past'[k]
  BY DEF HistoryTypeOK, Mirror!Remember
<1>2. gone \subseteq gone' /\ kept' \subseteq kept
  BY DEF Mirror!Remember
<1>3. ResourcesRemembered'
  <2> SUFFICES ASSUME NEW k \in Keys
               PROVE  IF cr'[k] = None THEN k \in gone' ELSE cr'[k] \in past'[k]
      BY DEF ResourcesRemembered
  <2>1. cr'[k] \in Specs \cup {None}
    BY DEF TypeOK
  <2>2. QED
    BY <2>1 DEF Mirror!Remember
<1>4. KeptForeign'
  BY DEF KeptForeign, Mirror!Remember, Mirror!Foreign, Foreign
<1>5. \A n : MayRemove(n) => MayRemove(n)'
  BY <1>1, <1>2 DEF MayRemove, HistoryTypeOK
<1>6. QED
  BY <1>1, <1>2, <1>3, <1>4, <1>5

\* Each part of the invariant survives a step that leaves its variable alone.
LEMMA Undisturbed ==
    ASSUME IInv, TypeOK', Mirror!Remember
    PROVE  /\ UNCHANGED cache => CacheRemembered'
           /\ UNCHANGED pending => DeletionsRemembered'
           /\ UNCHANGED worker => WorkerRemembered'
           /\ UNCHANGED handler => HandlerRemembered'
           /\ UNCHANGED housekeeper => HousekeeperRemembered'
           /\ (\A n \in Names : icinga'[n] = icinga[n] \/ ~Ours(icinga'[n]))
                  => ObjectsRemembered'
<1> USE Remembering DEF IInv
<1>1. UNCHANGED cache => CacheRemembered'
  BY DEF CacheRemembered
<1>2. UNCHANGED pending => DeletionsRemembered'
  <2> SUFFICES ASSUME UNCHANGED pending, NEW i \in DOMAIN pending, pending[i].type = "deleted"
               PROVE  /\ pending[i].key \in gone'
                      /\ pending[i].spec \in past'[pending[i].key]
      BY DEF DeletionsRemembered
  <2>1. pending[i].key \in gone /\ pending[i].spec \in past[pending[i].key]
    BY DEF DeletionsRemembered
  <2>2. pending[i].key \in Keys
    BY <2>1 DEF HistoryTypeOK
  <2>3. QED
    BY <2>1, <2>2
<1>3. UNCHANGED worker => WorkerRemembered'
  <2> SUFFICES ASSUME UNCHANGED worker, worker.pc # "idle"
               PROVE  /\ worker.spec \in past'[worker.key]
                      /\ worker.pc = "update" /\ ChecksCluster => worker.spec.name \notin kept'
      BY DEF WorkerRemembered, ChecksCluster
  <2>1. worker.key \in Keys
    BY DEF TypeOK, Workers, IdleWorker
  <2>2. QED
    BY <2>1 DEF WorkerRemembered
<1>4. UNCHANGED handler => HandlerRemembered'
  BY DEF HandlerRemembered
<1>5. UNCHANGED housekeeper => HousekeeperRemembered'
  <2> SUFFICES ASSUME UNCHANGED housekeeper PROVE HousekeeperRemembered'
      OBVIOUS
  <2>1. ASSUME NEW e \in housekeeper.todo PROVE \E s \in past'[e.owner] : s.name = e.name
    <3>1. e.owner \in Keys
      BY <2>1 DEF TypeOK, Housekeepers, IdleHousekeeper, Entries
    <3>2. QED
      BY <2>1, <3>1 DEF HousekeeperRemembered
  <2>2. QED
    BY <2>1 DEF HousekeeperRemembered
<1>6. ASSUME \A n \in Names : icinga'[n] = icinga[n] \/ ~Ours(icinga'[n])
      PROVE  ObjectsRemembered'
  <2> SUFFICES ASSUME NEW n \in Names, Ours(icinga'[n])
               PROVE  \E s \in past'[icinga'[n].owner] :
                          s.name = n /\ icinga'[n] = Image(icinga'[n].owner, s)
      BY DEF ObjectsRemembered, Ours, Image
  <2>1. icinga'[n] = icinga[n] /\ icinga[n].owner \in Keys
    BY <1>6 DEF Ours
  <2>2. QED
    BY <2>1 DEF ObjectsRemembered
<1>7. QED
  BY <1>1, <1>2, <1>3, <1>4, <1>5, <1>6

\* What the worker writes is remembered: the object is the image of a
\* specification its owner has had.
LEMMA WrittenRemembered ==
    ASSUME IInv, TypeOK', Mirror!Remember, worker.pc # "idle",
           icinga' = [icinga EXCEPT ![worker.spec.name] = Image(worker.key, worker.spec)]
    PROVE  ObjectsRemembered'
<1> DEFINE k == worker.key  sp == worker.spec
<1>1. k \in Keys /\ sp \in past[k] /\ sp.name \in Names
  BY DEF IInv, TypeOK, Workers, IdleWorker, WorkerRemembered, Specs
<1>2. sp \in past'[k]
  BY <1>1, Remembering DEF IInv
<1> SUFFICES ASSUME NEW n \in Names, Ours(icinga'[n])
             PROVE  \E s \in past'[icinga'[n].owner] :
                        s.name = n /\ icinga'[n] = Image(icinga'[n].owner, s)
    BY DEF ObjectsRemembered, Ours, Image
<1>3. CASE n = sp.name
  <2>1. icinga'[n] = Image(k, sp) /\ icinga'[n].owner = k
    BY <1>1, <1>3 DEF IInv, TypeOK, Image
  <2>2. QED
    BY <1>2, <1>3, <2>1
<1>4. CASE n # sp.name
  <2>1. icinga'[n] = icinga[n] /\ icinga[n].owner \in Keys
    BY <1>4 DEF IInv, TypeOK, Ours
  <2>2. QED
    BY <2>1, Remembering DEF IInv, ObjectsRemembered, Ours
<1>5. QED
  BY <1>3, <1>4

\* Removing an object, or doing nothing to Icinga, disturbs no object.
LEMMA RemovedUndisturbed ==
    ASSUME IInv, TypeOK', Mirror!Remember, NEW n \in Names,
           UNCHANGED icinga \/ icinga' = [icinga EXCEPT ![n] = None]
    PROVE  ObjectsRemembered'
BY Undisturbed DEF IInv, TypeOK, Ours

LEMMA HNextInv == IInv /\ [HNext]_<<vars, history>> => IInv'
<1> SUFFICES ASSUME IInv, [HNext]_<<vars, history>> PROVE IInv'
    OBVIOUS
<1> USE DEF servers, informer, counters
<1>1. CASE UNCHANGED <<vars, history>>
  BY <1>1 DEF vars, history, IInv, TypeOK, HistoryTypeOK, ResourcesRemembered, CacheRemembered,
     DeletionsRemembered, WorkerRemembered, HandlerRemembered, HousekeeperRemembered,
     ObjectsRemembered, KeptForeign, MayRemove, Ours, Foreign, ChecksCluster, Image
<1>2. CASE HNext
  <2>1. Next /\ Mirror!Remember /\ TypeOK'
    BY <1>2, NextTypeOK DEF HNext, IInv
  <2>2. HistoryTypeOK' /\ ResourcesRemembered' /\ KeptForeign'
    BY <2>1, Remembering DEF IInv
  <2> DEFINE Rest == /\ CacheRemembered' /\ DeletionsRemembered' /\ WorkerRemembered'
                     /\ HandlerRemembered' /\ HousekeeperRemembered' /\ ObjectsRemembered'
  <2> SUFFICES Rest
      BY <2>1, <2>2 DEF IInv
  <2>3. ASSUME NEW k \in Keys, NEW s \in Specs \cup {None}, ResourceChanges(k, s) PROVE Rest
    BY <2>1, <2>3, Undisturbed DEF ResourceChanges
  <2>4. ASSUME NEW n \in Names, OtherClusterWrites(n) PROVE Rest
    <3>1. \A m \in Names : icinga'[m] = icinga[m] \/ ~Ours(icinga'[m])
      BY <2>4, TagAssumption DEF OtherClusterWrites, Ours, IInv, TypeOK
    <3>2. QED
      BY <2>1, <2>4, <3>1, Undisturbed DEF OtherClusterWrites
  <2>5. CASE InitialList
    <3>1. CacheRemembered'
      BY <2>1, <2>2, <2>5 DEF InitialList, CacheRemembered, ResourcesRemembered
    <3>2. QED
      BY <2>1, <2>5, <3>1, Undisturbed DEF InitialList
  <2>6. ASSUME NEW k \in Keys, Deliver(k) PROVE Rest
    <3>1. CacheRemembered'
      BY <2>1, <2>2, <2>6, Remembering
         DEF Deliver, CacheRemembered, ResourcesRemembered, IInv, TypeOK
    <3>2. DeletionsRemembered'
      <4> DEFINE note == IF cr[k] = None
                         THEN [type |-> "deleted", key |-> k, spec |-> cache[k]]
                         ELSE [type |-> "sync", key |-> k, spec |-> None]
      <4>1. note.type = "deleted" => note.key \in gone' /\ note.spec \in past'[note.key]
        BY <2>1, <2>6, Remembering
           DEF Deliver, CacheRemembered, ResourcesRemembered, IInv
      <4>2. pending \in Seq(Notifications) /\ pending' = Append(pending, note)
        BY <2>6 DEF Deliver, IInv, TypeOK
      <4>3. ASSUME NEW i \in DOMAIN pending', pending'[i].type = "deleted"
            PROVE  pending'[i].key \in gone' /\ pending'[i].spec \in past'[pending'[i].key]
        <5>1. CASE i = Len(pending) + 1
          BY <4>1, <4>2, <4>3, <5>1
        <5>2. CASE i # Len(pending) + 1
          <6>1. i \in DOMAIN pending /\ pending'[i] = pending[i]
            BY <4>2, <5>2
          <6>2. pending[i].key \in gone /\ pending[i].spec \in past[pending[i].key]
            BY <4>3, <6>1 DEF IInv, DeletionsRemembered
          <6>3. QED
            BY <2>1, <6>1, <6>2, Remembering DEF IInv, HistoryTypeOK
        <5>3. QED
          BY <5>1, <5>2
      <4>4. QED
        BY <4>3 DEF DeletionsRemembered
    <3>3. QED
      BY <2>1, <2>6, <3>1, <3>2, Undisturbed DEF Deliver
  <2>7. ASSUME pending # <<>>, pending' = Tail(pending) PROVE DeletionsRemembered'
    <3> SUFFICES ASSUME NEW i \in DOMAIN pending', pending'[i].type = "deleted"
                 PROVE  pending'[i].key \in gone' /\ pending'[i].spec \in past'[pending'[i].key]
        BY DEF DeletionsRemembered
    <3>1. i + 1 \in DOMAIN pending /\ pending'[i] = pending[i + 1]
      BY <2>7 DEF IInv, TypeOK
    <3>2. pending[i + 1].key \in gone /\ pending[i + 1].spec \in past[pending[i + 1].key]
      BY <3>1 DEF IInv, DeletionsRemembered
    <3>3. QED
      BY <2>1, <3>1, <3>2, Remembering DEF IInv, HistoryTypeOK
  <2>8. CASE HandleSync
    BY <2>1, <2>7, <2>8, Undisturbed DEF HandleSync
  <2>9. ASSUME NEW k \in Keys, Resync(k) PROVE Rest
    BY <2>1, <2>9, Undisturbed DEF Resync
  <2>10. CASE HandleDeleted
    <3>1. 1 \in DOMAIN pending /\ Head(pending) = pending[1]
      BY <2>10 DEF HandleDeleted, IInv, TypeOK
    <3>2. MayRemove(Head(pending).spec.name)
      BY <2>10, <3>1 DEF HandleDeleted, IInv, DeletionsRemembered, MayRemove
    <3>3. HandlerRemembered'
      BY <2>1, <2>10, <3>2, Remembering DEF HandleDeleted, HandlerRemembered, IInv
    <3>4. QED
      BY <2>1, <2>7, <2>10, <3>3, Undisturbed DEF HandleDeleted
  <2>11. CASE DeletedGet
    <3>1. HandlerRemembered'
      BY <2>1, <2>11, Remembering
         DEF DeletedGet, HandlerRemembered, IInv, TypeOK, Handlers, IdleHandler
    <3>2. QED
      BY <2>1, <2>11, <3>1, Undisturbed DEF DeletedGet
  <2>12. CASE DeletedDelete
    <3>1. handler.name \in Names /\ handler' = IdleHandler
      BY <2>12 DEF DeletedDelete, IInv, TypeOK, Handlers, IdleHandler
    <3>2. HandlerRemembered' /\ ObjectsRemembered'
      BY <2>1, <2>12, <3>1, RemovedUndisturbed DEF DeletedDelete, HandlerRemembered, IdleHandler
    <3>3. QED
      BY <2>1, <2>12, <3>2, Undisturbed DEF DeletedDelete
  <2>13. ASSUME NEW k \in Keys, ProcessNext(k) PROVE Rest
    <3>1. WorkerRemembered'
      BY <2>1, <2>13, Remembering DEF ProcessNext, WorkerRemembered, IdleWorker, IInv,
         CacheRemembered
    <3>2. QED
      BY <2>1, <2>13, <3>1, Undisturbed DEF ProcessNext
  <2>14. CASE CreatedOrUpdatedGet
    <3>1. worker.pc = "get" /\ worker.key \in Keys /\ worker.spec \in past[worker.key]
      BY <2>14 DEF CreatedOrUpdatedGet, IInv, TypeOK, Workers, IdleWorker, WorkerRemembered
    <3>2. worker.spec \in past'[worker.key]
      BY <2>1, <3>1, Remembering DEF IInv
    <3>3. ASSUME worker' = [worker EXCEPT !.pc = "create"] \/ worker' = IdleWorker
          PROVE  WorkerRemembered'
      BY <3>1, <3>2, <3>3
         DEF WorkerRemembered, IdleWorker, IInv, TypeOK, Workers
    <3>4. ASSUME worker' = [worker EXCEPT !.pc = "update"],
                 ChecksCluster => ~Foreign(icinga[worker.spec.name])
          PROVE  WorkerRemembered'
      <4>1. ChecksCluster => worker.spec.name \notin kept'
        BY <2>1, <3>4, Remembering DEF IInv, KeptForeign
      <4>2. QED
        BY <3>1, <3>2, <3>4, <4>1 DEF WorkerRemembered, IInv, TypeOK, Workers, ChecksCluster
    <3>5. WorkerRemembered'
      BY <2>14, <3>3, <3>4 DEF CreatedOrUpdatedGet
    <3>6. QED
      BY <2>1, <2>14, <3>5, Undisturbed DEF CreatedOrUpdatedGet
  <2>15. CASE CreatedOrUpdatedUpdate \/ CreatedOrUpdatedCreate
    <3>1. worker.pc # "idle" /\ worker' = IdleWorker
      BY <2>15 DEF CreatedOrUpdatedUpdate, CreatedOrUpdatedCreate
    <3>2. \/ UNCHANGED icinga
          \/ icinga' = [icinga EXCEPT ![worker.spec.name] = Image(worker.key, worker.spec)]
      BY <2>15 DEF CreatedOrUpdatedUpdate, CreatedOrUpdatedCreate
    <3>3. ObjectsRemembered'
      BY <2>1, <3>1, <3>2, WrittenRemembered, Undisturbed
    <3>4. WorkerRemembered'
      BY <3>1 DEF WorkerRemembered, IdleWorker
    <3>5. QED
      BY <2>1, <2>15, <3>3, <3>4, Undisturbed DEF CreatedOrUpdatedUpdate, CreatedOrUpdatedCreate
  <2>16. CASE HousekeepingList
    <3>1. ASSUME NEW e \in Listed PROVE \E s \in past[e.owner] : s.name = e.name
      BY <3>1 DEF Listed, Entries, Ours, IInv, ObjectsRemembered
    <3>2. \A e \in Listed : \E s \in past'[e.owner] : s.name = e.name
      BY <2>1, <3>1, Remembering DEF Listed, Entries, IInv
    <3>3. HousekeeperRemembered'
      BY <2>16, <3>2 DEF HousekeepingList, HousekeeperRemembered
    <3>4. QED
      BY <2>1, <2>16, <3>3, Undisturbed DEF HousekeepingList
  <2>17. ASSUME NEW e \in Entries, HousekeepingGet(e) PROVE Rest
    <3>1. /\ housekeeper.todo \in SUBSET Entries /\ housekeeper'.todo \subseteq housekeeper.todo
          /\ housekeeper'.pc = "delete" => cr[e.owner] = None /\ housekeeper'.name = e.name
      BY <2>17 DEF HousekeepingGet, IInv, TypeOK, Housekeepers, IdleHousekeeper
    <3>2. \A f \in housekeeper'.todo : \E s \in past'[f.owner] : s.name = f.name
      BY <2>1, <3>1, Remembering DEF Entries, IInv, HousekeeperRemembered
    <3>3. cr[e.owner] = None => MayRemove(e.name)
      BY <2>17 DEF HousekeepingGet, IInv, ResourcesRemembered, HousekeeperRemembered, MayRemove,
         Entries
    <3>4. HousekeeperRemembered'
      BY <2>1, <3>1, <3>2, <3>3, Remembering DEF HousekeeperRemembered, IInv
    <3>5. QED
      BY <2>1, <2>17, <3>4, Undisturbed DEF HousekeepingGet
  <2>18. CASE HousekeepingDelete
    <3>1. /\ housekeeper \in [pc: {"delete"}, todo: SUBSET Entries, name: Names]
          /\ housekeeper' = [housekeeper EXCEPT !.pc = "scan", !.name = None]
      BY <2>18 DEF HousekeepingDelete, IInv, TypeOK, Housekeepers, IdleHousekeeper
    <3>2. housekeeper'.todo = housekeeper.todo /\ housekeeper'.pc = "scan"
      BY <3>1
    <3>3. \A e \in housekeeper'.todo : \E s \in past'[e.owner] : s.name = e.name
      BY <2>1, <3>1, <3>2, Remembering DEF Entries, IInv, HousekeeperRemembered
    <3>4. HousekeeperRemembered'
      BY <3>2, <3>3 DEF HousekeeperRemembered
    <3>5. ObjectsRemembered'
      BY <2>1, <2>18, <3>1, RemovedUndisturbed DEF HousekeepingDelete
    <3>6. QED
      BY <2>1, <2>18, <3>4, <3>5, Undisturbed DEF HousekeepingDelete
  <2>19. CASE HousekeepingSleep
    <3>1. HousekeeperRemembered'
      BY <2>19 DEF HousekeepingSleep, HousekeeperRemembered, IdleHousekeeper
    <3>2. QED
      BY <2>1, <2>19, <3>1, Undisturbed DEF HousekeepingSleep
  <2>20. CASE Restart
    <3>1. CacheRemembered' /\ DeletionsRemembered'
      BY <2>20 DEF Restart, CacheRemembered, DeletionsRemembered
    <3>2. WorkerRemembered' /\ HandlerRemembered' /\ HousekeeperRemembered'
      BY <2>20 DEF Restart, WorkerRemembered, HandlerRemembered, HousekeeperRemembered,
         IdleWorker, IdleHandler, IdleHousekeeper
    <3>3. QED
      BY <2>1, <2>20, <3>1, <3>2, Undisturbed DEF Restart
  <2>21. QED
    BY <2>1, <2>3, <2>4, <2>5, <2>6, <2>8, <2>9, <2>10, <2>11, <2>12, <2>13, <2>14, <2>15,
       <2>16, <2>17, <2>18, <2>19, <2>20
       DEF Next, Environment, Listener, CreatedOrUpdated, Housekeeping
<1>3. QED
  BY <1>1, <1>2

\* The inductive invariant: whatever a thread is about to write or delete comes
\* from a specification its resource has had, and whatever it is about to
\* delete was asked for by a resource that has been absent.
THEOREM Invariance == HSpec => []IInv
BY HInitInv, HNextInv, PTL DEF HSpec

-----------------------------------------------------------------------------
(* The controller implements the mirror                                    *)

LEMMA InitMirror == HInit => Mirror!Init
BY InitAssumption DEF HInit, Init, Mirror!Init, Mirror!Foreign, Foreign

\* A step that touches neither server is a stuttering step of the mirror: there
\* is nothing new to remember.
LEMMA NothingToRemember ==
    ASSUME IInv, Mirror!Remember, UNCHANGED servers
    PROVE  UNCHANGED Mirror!vars
<1>1. past' = past
  <2>1. past' = [k \in Keys |-> past[k] \cup {s \in Specs : cr[k] = s}]
    BY DEF Mirror!Remember, servers
  <2>2. \A k \in Keys : {s \in Specs : cr[k] = s} \subseteq past[k]
    BY NoneAssumption DEF IInv, ResourcesRemembered, TypeOK
  <2>3. QED
    BY <2>1, <2>2 DEF IInv, HistoryTypeOK
<1>2. gone' = gone
  BY DEF Mirror!Remember, servers, IInv, ResourcesRemembered, HistoryTypeOK, TypeOK
<1>3. kept' = kept
  BY DEF Mirror!Remember, Mirror!Foreign, Foreign, servers, IInv, KeptForeign
<1>4. QED
  BY <1>1, <1>2, <1>3 DEF Mirror!vars, servers

\* What an Icinga call of the worker does is a Write of the mirror.
LEMMA WriteMirror ==
    ASSUME IInv, UNCHANGED cr, worker.pc # "idle",
           worker.pc = "update" \/ icinga[worker.spec.name] = None,
           icinga' = [icinga EXCEPT ![worker.spec.name] = Image(worker.key, worker.spec)]
    PROVE  \E k \in Keys, s \in Specs : Mirror!Write(k, s)
<1>1. worker.key \in Keys /\ worker.spec \in Specs /\ worker.spec \in past[worker.key]
  BY DEF IInv, TypeOK, Workers, IdleWorker, WorkerRemembered
<1>2. Kind = "Check" \/ worker.spec.name \notin kept
  BY DEF IInv, WorkerRemembered, ChecksCluster, KeptForeign, Foreign
<1>3. Mirror!Write(worker.key, worker.spec)
  BY <1>1, <1>2 DEF Mirror!Write
<1>4. QED
  BY <1>1, <1>3

LEMMA StepMirror == IInv /\ [HNext]_<<vars, history>> => [Mirror!Next]_Mirror!vars
<1> SUFFICES ASSUME IInv, [HNext]_<<vars, history>> PROVE [Mirror!Next]_Mirror!vars
    OBVIOUS
<1> USE DEF servers, informer, counters
<1>1. CASE UNCHANGED <<vars, history>>
  BY <1>1 DEF vars, history, Mirror!vars
<1>2. CASE HNext
  <2>1. Next /\ Mirror!Remember
    BY <1>2 DEF HNext
  <2>2. UNCHANGED servers => [Mirror!Next]_Mirror!vars
    BY <2>1, NothingToRemember
  <2>3. ASSUME NEW k \in Keys, NEW s \in Specs \cup {None}, ResourceChanges(k, s)
        PROVE  Mirror!Next
    BY <2>1, <2>3 DEF ResourceChanges, Mirror!Next, Mirror!Change
  <2>4. ASSUME NEW n \in Names, OtherClusterWrites(n) PROVE Mirror!Next
    <3>1. Mirror!Other(n)
      <4>1. CASE icinga[n] = None /\ \E o \in Objects : /\ o.cluster = OtherTag
                                                      /\ icinga' = [icinga EXCEPT ![n] = o]
        <5>1. PICK o \in Objects : o.cluster = OtherTag /\ icinga' = [icinga EXCEPT ![n] = o]
          BY <4>1
        <5>2. Mirror!Foreign(o)
          BY <5>1, NoneAssumption, TagAssumption DEF Mirror!Foreign
        <5>3. QED
          BY <2>4, <4>1, <5>1, <5>2 DEF OtherClusterWrites, Mirror!Other
      <4>2. CASE Foreign(icinga[n]) /\ icinga' = [icinga EXCEPT ![n] = None]
        BY <2>4, <4>2 DEF OtherClusterWrites, Mirror!Other, Mirror!Foreign, Foreign
      <4>3. QED
        BY <2>4, <4>1, <4>2 DEF OtherClusterWrites
    <3>2. QED
      BY <2>1, <3>1 DEF Mirror!Next
  <2>5. CASE DeletedDelete
    <3>1. UNCHANGED cr /\ handler.name \in Names /\ MayRemove(handler.name)
      BY <2>5 DEF DeletedDelete, IInv, TypeOK, Handlers, IdleHandler, HandlerRemembered
    <3>2. CASE UNCHANGED icinga
      BY <2>2, <3>1, <3>2
    <3>3. CASE icinga' = [icinga EXCEPT ![handler.name] = None]
      <4>1. Mirror!Remove(handler.name)
        BY <3>1, <3>3 DEF Mirror!Remove, MayRemove
      <4>2. QED
        BY <2>1, <3>1, <4>1 DEF Mirror!Next
    <3>4. QED
      BY <2>5, <3>2, <3>3 DEF DeletedDelete
  <2>6. CASE HousekeepingDelete
    <3>1. UNCHANGED cr /\ housekeeper.name \in Names /\ MayRemove(housekeeper.name)
      BY <2>6 DEF HousekeepingDelete, IInv, TypeOK, Housekeepers, IdleHousekeeper,
         HousekeeperRemembered
    <3>2. CASE UNCHANGED icinga
      BY <2>2, <3>1, <3>2
    <3>3. CASE icinga' = [icinga EXCEPT ![housekeeper.name] = None]
      <4>1. Mirror!Remove(housekeeper.name)
        BY <3>1, <3>3 DEF Mirror!Remove, MayRemove
      <4>2. QED
        BY <2>1, <3>1, <4>1 DEF Mirror!Next
    <3>4. QED
      BY <2>6, <3>2, <3>3 DEF HousekeepingDelete
  <2>7. CASE CreatedOrUpdatedUpdate
    <3>1. CASE UNCHANGED icinga
      BY <2>2, <2>7, <3>1 DEF CreatedOrUpdatedUpdate
    <3>2. CASE icinga' = [icinga EXCEPT ![worker.spec.name] = Image(worker.key, worker.spec)]
      BY <2>1, <2>7, <3>2, WriteMirror DEF CreatedOrUpdatedUpdate, Mirror!Next
    <3>3. QED
      BY <2>7, <3>1, <3>2 DEF CreatedOrUpdatedUpdate
  <2>8. CASE CreatedOrUpdatedCreate
    <3>1. CASE UNCHANGED icinga
      BY <2>2, <2>8, <3>1 DEF CreatedOrUpdatedCreate
    <3>2. CASE /\ icinga[worker.spec.name] = None
               /\ icinga' = [icinga EXCEPT ![worker.spec.name] = Image(worker.key, worker.spec)]
      BY <2>1, <2>8, <3>2, WriteMirror DEF CreatedOrUpdatedCreate, Mirror!Next
    <3>3. QED
      BY <2>8, <3>1, <3>2 DEF CreatedOrUpdatedCreate
  <2>9. CASE \/ InitialList \/ HandleSync \/ HandleDeleted \/ DeletedGet \/ CreatedOrUpdatedGet
             \/ HousekeepingList \/ HousekeepingSleep \/ Restart
             \/ \E k \in Keys : Deliver(k) \/ Resync(k) \/ ProcessNext(k)
             \/ \E e \in Entries : HousekeepingGet(e)
    <3>1. UNCHANGED servers
      BY <2>9 DEF InitialList, HandleSync, HandleDeleted, DeletedGet, CreatedOrUpdatedGet,
         HousekeepingList, HousekeepingSleep, Restart, Deliver, Resync, ProcessNext,
         HousekeepingGet
    <3>2. QED
      BY <2>2, <3>1
  <2>10. QED
    BY <2>1, <2>3, <2>4, <2>5, <2>6, <2>7, <2>8, <2>9
       DEF Next, Environment, Listener, CreatedOrUpdated, Housekeeping
<1>3. QED
  BY <1>1, <1>2

\* The detailed specification implements the abstract one: nothing is written
\* to Icinga but images of specifications that were there, nothing is removed
\* unless a resource that asked for its name has been absent, and a host group
\* or host another cluster had before is not written over.
THEOREM Implementation == HSpec => ImplementsMirror
<1>1. HSpec => [][Mirror!Next]_Mirror!vars
  BY Invariance, StepMirror, PTL DEF HSpec
<1>2. QED
  BY <1>1, InitMirror, PTL DEF HSpec, ImplementsMirror, Mirror!Spec

-----------------------------------------------------------------------------
(* No change is lost: NothingLost is inductive relative to IInv            *)

\* What NothingLost says of one resource.
TakenUp(k) == cache[k] # None /\ OldCopyFollowed(k) /\ CachedTakenUp(k)

\* An object that has just been written as an image shows its specification.
LEMMA ImageShown ==
    ASSUME IInv, NEW k \in Keys, NEW s \in Specs,
           icinga' = [icinga EXCEPT ![s.name] = Image(k, s)]
    PROVE  Shown(k, s)'
<1>1. s.name \in Names /\ Image(k, s) # None
  BY ImageIsObject DEF Specs
<1>2. icinga'[s.name] = Image(k, s)
  BY <1>1 DEF IInv, TypeOK
<1>3. ~Differs(Image(k, s), Image(k, s))
  BY DEF Differs, HostGroupDiffers, HostDiffers, CheckDiffers, VarsDiffer
<1>4. QED
  BY <1>1, <1>2, <1>3 DEF Shown, Differs, HostGroupDiffers, HostDiffers, CheckDiffers,
     VarsDiffer, Image

\* A name that is the resource's own is not one another resource has asked for.
LEMMA OwnNameIsOwn ==
    ASSUME IInv, TypeOK', Mirror!Remember, NEW k \in Keys \ gone', NEW s, OwnName(k, s)'
    PROVE  /\ OwnName(k, s) /\ ~MayRemove(s.name)
           /\ \A j \in Keys \ {k} : \A t \in past[j] : t.name # s.name
<1>1. HistoryTypeOK /\ gone \subseteq gone' /\ \A j \in Keys : past[j] \subseteq past'[j]
  BY Remembering DEF IInv
<1>2. \A j \in Keys \ {k} : \A t \in past[j] : t.name # s.name
  BY <1>1 DEF OwnName
<1>3. OwnName(k, s)
  BY <1>2 DEF OwnName
<1>4. ~MayRemove(s.name)
  BY <1>1, <1>2 DEF MayRemove, HistoryTypeOK
<1>5. QED
  BY <1>2, <1>3, <1>4

\* Where the object under the name is the same, so is what it shows.
LEMMA SameObject ==
    ASSUME NEW k, NEW s, icinga'[s.name] = icinga[s.name]
    PROVE  /\ Shown(k, s)' <=> Shown(k, s)
           /\ ForeignName(s)' <=> ForeignName(s)
BY DEF Shown, ForeignName, Foreign, ChecksCluster, Differs, HostGroupDiffers, HostDiffers,
       CheckDiffers, VarsDiffer, Image

\* A step that leaves the worker, the cached copy of k and the object under
\* k's own name alone, and takes no notification of k away, loses nothing.
LEMMA NothingTaken ==
    ASSUME IInv, TypeOK', Mirror!Remember, NEW k \in Keys \ gone', TakenUp(k),
           cache'[k] = cache[k], UNCHANGED worker, Waiting(k) => Waiting(k)',
           OwnName(k, cache[k])' => icinga'[cache[k].name] = icinga[cache[k].name]
    PROVE  TakenUp(k)'
<1>1. cache'[k] # None /\ OldCopyFollowed(k)'
  BY DEF TakenUp, OldCopyFollowed
<1>2. ASSUME OwnName(k, cache[k])', ~ForeignName(cache[k])'
      PROVE  Waiting(k)' \/ InHand(k, cache[k])' \/ Shown(k, cache[k])'
  <2>1. icinga'[cache[k].name] = icinga[cache[k].name]
    BY <1>2
  <2>2. OwnName(k, cache[k]) /\ ~ForeignName(cache[k])
    BY <1>2, <2>1, OwnNameIsOwn, SameObject
  <2>3. Waiting(k) \/ InHand(k, cache[k]) \/ Shown(k, cache[k])
    BY <2>2 DEF TakenUp, CachedTakenUp
  <2>4. InHand(k, cache[k]) => InHand(k, cache[k])'
    BY <2>1 DEF InHand
  <2>5. QED
    BY <2>1, <2>3, <2>4, SameObject
<1>3. CachedTakenUp(k)'
  BY <1>2 DEF CachedTakenUp, OwnName, ForeignName, Foreign, ChecksCluster, InHand, Shown,
     Differs, HostGroupDiffers, HostDiffers, CheckDiffers, VarsDiffer, Image
<1>4. QED
  BY <1>1, <1>3 DEF TakenUp

\* The worker reads the object: either it goes on to a write that will succeed,
\* or the object shows the specification already.
LEMMA GetTakesUp ==
    ASSUME IInv, TypeOK', Mirror!Remember, NEW k \in Keys \ gone', TakenUp(k),
           CreatedOrUpdatedGet, NoFault
    PROVE  TakenUp(k)'
<1> USE DEF informer, servers
<1>1. UNCHANGED <<icinga, cache, queue, pending>> /\ faults' = faults
  BY DEF CreatedOrUpdatedGet, NoFault
<1>2. cache'[k] # None /\ (Waiting(k) => Waiting(k)')
  BY <1>1 DEF TakenUp, Waiting
<1>3. worker.pc = "get" /\ worker.key \in Keys /\ worker.spec \in Specs
  BY DEF CreatedOrUpdatedGet, IInv, TypeOK, Workers, IdleWorker
<1>4. \/ worker' = IdleWorker
      \/ worker'.key = worker.key /\ worker'.spec = worker.spec
  BY <1>3 DEF CreatedOrUpdatedGet, IInv, TypeOK, Workers
<1>5. OldCopyFollowed(k)'
  BY <1>1, <1>2, <1>3, <1>4 DEF OldCopyFollowed, TakenUp, IdleWorker
<1>6. ASSUME OwnName(k, cache[k])', ~ForeignName(cache[k])', ~Waiting(k), ~Shown(k, cache[k])
      PROVE  InHand(k, cache[k])'
  <2> DEFINE o == icinga[cache[k].name]
  <2>1. OwnName(k, cache[k]) /\ ~ForeignName(cache[k])
    BY <1>1, <1>6, OwnNameIsOwn, SameObject
  <2>2. worker.key = k /\ worker.spec = cache[k]
    BY <1>6, <2>1 DEF TakenUp, CachedTakenUp, InHand
  <2>3. ~(ChecksCluster /\ Foreign(o)) /\ (o = None \/ Differs(o, Image(k, cache[k])))
    BY <1>6, <2>1 DEF ForeignName, Shown
  <2>4. \/ o = None /\ worker' = [worker EXCEPT !.pc = "create"]
        \/ o # None /\ worker' = [worker EXCEPT !.pc = "update"]
    <3>1. ~Fault
      BY <1>1 DEF Fault, IInv, TypeOK
    <3>2. QED
      BY <2>2, <2>3, <3>1 DEF CreatedOrUpdatedGet
  <2>5. QED
    BY <1>1, <1>3, <2>2, <2>4 DEF InHand, IInv, TypeOK, Workers
<1>7. CachedTakenUp(k)'
  BY <1>1, <1>2, <1>6, SameObject DEF CachedTakenUp
<1>8. QED
  BY <1>2, <1>5, <1>7 DEF TakenUp

\* The worker writes: what it had in hand is shown now, and it wrote nothing
\* under the names other resources have to themselves.
LEMMA WriteTakesUp ==
    ASSUME IInv, TypeOK', Mirror!Remember, NEW k \in Keys \ gone', TakenUp(k),
           CreatedOrUpdatedUpdate \/ CreatedOrUpdatedCreate, NoFault
    PROVE  TakenUp(k)'
<1> USE DEF informer, servers
<1>1. UNCHANGED <<cache, queue, pending>> /\ worker' = IdleWorker /\ worker.pc # "idle"
  BY DEF CreatedOrUpdatedUpdate, CreatedOrUpdatedCreate
<1>2. /\ cache'[k] # None /\ (Waiting(k) => Waiting(k)') /\ OldCopyFollowed(k)'
  BY <1>1 DEF TakenUp, Waiting, OldCopyFollowed, IdleWorker
<1>3. worker.key \in Keys /\ worker.spec \in Specs /\ worker.spec \in past[worker.key]
  BY <1>1 DEF IInv, TypeOK, Workers, IdleWorker, WorkerRemembered
<1> DEFINE refused == \/ worker.pc = "update" /\ icinga[worker.spec.name] = None
                      \/ worker.pc = "create" /\ icinga[worker.spec.name] # None
<1>4. \/ UNCHANGED icinga /\ refused
      \/ icinga' = [icinga EXCEPT ![worker.spec.name] = Image(worker.key, worker.spec)]
  <2>1. ~Fault
    BY DEF Fault, NoFault, IInv, TypeOK
  <2>2. QED
    BY <2>1 DEF CreatedOrUpdatedUpdate, CreatedOrUpdatedCreate
<1>5. ASSUME OwnName(k, cache[k])', ~ForeignName(cache[k])', ~Waiting(k)
      PROVE  Shown(k, cache[k])'
  <2>1. OwnName(k, cache[k])
    BY <1>1, <1>5, OwnNameIsOwn
  <2>2. worker.key = k => worker.spec = cache[k]
    BY <1>1, <1>5 DEF TakenUp, OldCopyFollowed
  <2>3. CASE UNCHANGED icinga /\ refused
    <3>1. ~ForeignName(cache[k])
      BY <1>1, <1>5, <2>3, SameObject
    <3>2. ~InHand(k, cache[k])
      BY <2>2, <2>3 DEF InHand
    <3>3. Shown(k, cache[k])
      BY <1>5, <2>1, <3>1, <3>2 DEF TakenUp, CachedTakenUp
    <3>4. QED
      BY <1>1, <2>3, <3>3, SameObject
  <2>4. CASE icinga' = [icinga EXCEPT ![worker.spec.name] = Image(worker.key, worker.spec)]
    <3>1. CASE worker.key = k
      BY <1>1, <1>3, <2>2, <2>4, <3>1, ImageShown
    <3>2. CASE worker.key # k
      <4>1. worker.spec.name # cache[k].name
        BY <1>1, <1>3, <1>5, <3>2, OwnNameIsOwn
      <4>2. icinga'[cache[k].name] = icinga[cache[k].name]
        BY <2>4, <4>1 DEF IInv, TypeOK
      <4>3. ~ForeignName(cache[k]) /\ ~InHand(k, cache[k])
        BY <1>1, <1>5, <3>2, <4>2, SameObject DEF InHand
      <4>4. Shown(k, cache[k])
        BY <1>5, <2>1, <4>3 DEF TakenUp, CachedTakenUp
      <4>5. QED
        BY <1>1, <4>2, <4>4, SameObject
    <3>3. QED
      BY <3>1, <3>2
  <2>5. QED
    BY <1>4, <2>3, <2>4
<1>6. CachedTakenUp(k)'
  BY <1>1, <1>2, <1>5 DEF CachedTakenUp
<1>7. QED
  BY <1>2, <1>6 DEF TakenUp

\* Failed calls and acts of the other cluster are counted and never uncounted.
LEMMA CountersGrow ==
    ASSUME IInv, Next, faults' = 0 /\ others' = 0
    PROVE  faults = 0 /\ others = 0 /\ UNCHANGED others /\ NoFault
<1> USE DEF counters, IInv, TypeOK, Fault, NoFault
<1>1. CASE Environment
  BY <1>1 DEF Environment, ResourceChanges, OtherClusterWrites, Restart
<1>2. CASE InitialList \/ Listener
  BY <1>2 DEF InitialList, Listener, HandleSync, HandleDeleted, DeletedGet, DeletedDelete
<1>3. ASSUME NEW k \in Keys, Deliver(k) \/ Resync(k) \/ ProcessNext(k)
      PROVE  faults = 0 /\ others = 0 /\ UNCHANGED others /\ NoFault
  BY <1>3 DEF Deliver, Resync, ProcessNext
<1>4. CASE CreatedOrUpdated
  BY <1>4 DEF CreatedOrUpdated, CreatedOrUpdatedGet, CreatedOrUpdatedUpdate,
     CreatedOrUpdatedCreate
<1>5. CASE Housekeeping
  BY <1>5 DEF Housekeeping, HousekeepingList, HousekeepingGet, HousekeepingDelete,
     HousekeepingSleep
<1>6. QED
  BY <1>1, <1>2, <1>3, <1>4, <1>5 DEF Next

\* One step per action, each for a resource that has always been there.
LEMMA NextNothingLost == IInv /\ NothingLost /\ [HNext]_<<vars, history>> => NothingLost'
<1> SUFFICES ASSUME IInv, NothingLost, [HNext]_<<vars, history>> PROVE NothingLost'
    OBVIOUS
<1>1. CASE UNCHANGED <<vars, history>>
  BY <1>1 DEF vars, history, NothingLost, OldCopyFollowed, CachedTakenUp, Waiting, OwnName,
     ForeignName, Foreign, ChecksCluster, InHand, Shown, Differs, HostGroupDiffers,
     HostDiffers, CheckDiffers, VarsDiffer, Image
<1>2. CASE HNext
  <2> SUFFICES ASSUME synced', faults' = 0 /\ others' = 0, NEW k \in Keys \ gone'
               PROVE  TakenUp(k)'
      BY DEF NothingLost, TakenUp
  <2> USE DEF informer, servers, counters
  <2>1. Next /\ Mirror!Remember /\ TypeOK'
    BY <1>2, NextTypeOK DEF HNext, IInv
  <2>2. faults = 0 /\ others = 0 /\ UNCHANGED others /\ NoFault
    BY <2>1, CountersGrow
  <2>3. k \in Keys \ gone /\ cr[k] # None /\ cr[k] \in Specs
    BY <2>1, Remembering DEF IInv, ResourcesRemembered, TypeOK
  <2>4. synced => TakenUp(k)
    BY <2>2, <2>3 DEF NothingLost, TakenUp
  <2>5. ASSUME NEW j \in Keys, NEW s \in Specs \cup {None}, ResourceChanges(j, s)
        PROVE  TakenUp(k)'
    BY <2>1, <2>4, <2>5, NothingTaken DEF ResourceChanges, Waiting
  <2>6. ASSUME NEW n \in Names, OtherClusterWrites(n) PROVE TakenUp(k)'
    BY <2>2, <2>6 DEF OtherClusterWrites
  <2>7. CASE InitialList
    BY <2>3, <2>7 DEF InitialList, TakenUp, OldCopyFollowed, CachedTakenUp, Waiting
  <2>8. ASSUME NEW j \in Keys, Deliver(j) PROVE TakenUp(k)'
    <3> DEFINE note == IF cr[j] = None
                       THEN [type |-> "deleted", key |-> j, spec |-> cache[j]]
                       ELSE [type |-> "sync", key |-> j, spec |-> None]
    <3>1. pending' = Append(pending, note) /\ pending \in Seq(Notifications)
      BY <2>8 DEF Deliver, IInv, TypeOK
    <3>2. CASE j = k
      <4>1. note = [type |-> "sync", key |-> k, spec |-> None] /\ cache'[k] = cr[k]
        BY <2>3, <2>8, <3>2 DEF Deliver, IInv, TypeOK
      <4>2. Len(pending) + 1 \in DOMAIN pending' /\ pending'[Len(pending) + 1] = note
        BY <3>1
      <4>3. Waiting(k)'
        BY <4>1, <4>2 DEF Waiting
      <4>4. QED
        BY <2>3, <4>1, <4>3 DEF TakenUp, OldCopyFollowed, CachedTakenUp
    <3>3. CASE j # k
      <4>1. \A i \in DOMAIN pending : i \in DOMAIN pending' /\ pending'[i] = pending[i]
        BY <3>1
      <4>2. Waiting(k) => Waiting(k)'
        BY <2>8, <4>1 DEF Deliver, Waiting
      <4>3. synced /\ cache'[k] = cache[k] /\ UNCHANGED <<worker, icinga>>
        BY <2>8, <3>3 DEF Deliver, IInv, TypeOK
      <4>4. QED
        BY <2>1, <2>4, <4>2, <4>3, NothingTaken
    <3>4. QED
      BY <3>2, <3>3
  <2>9. ASSUME pending # <<>>, pending' = Tail(pending), queue \subseteq queue',
               Head(pending).type = "sync" => Head(pending).key \in queue'
        PROVE  Waiting(k) => Waiting(k)'
    <3> SUFFICES ASSUME NEW i \in DOMAIN pending, pending[i].type = "sync", pending[i].key = k
                 PROVE  Waiting(k)'
        BY <2>9 DEF Waiting
    <3>1. CASE i = 1
      BY <2>9, <3>1 DEF Waiting, IInv, TypeOK
    <3>2. CASE i # 1
      <4>1. i - 1 \in DOMAIN pending' /\ pending'[i - 1] = pending[i]
        BY <2>9, <3>2 DEF IInv, TypeOK
      <4>2. QED
        BY <4>1 DEF Waiting
    <3>3. QED
      BY <3>1, <3>2
  <2>10. CASE HandleSync
    BY <2>1, <2>4, <2>9, <2>10, NothingTaken DEF HandleSync, ListenerFree
  <2>11. CASE HandleDeleted
    BY <2>1, <2>4, <2>9, <2>11, NothingTaken DEF HandleDeleted, ListenerFree
  <2>12. ASSUME NEW j \in Keys, Resync(j) PROVE TakenUp(k)'
    BY <2>1, <2>4, <2>12, NothingTaken DEF Resync, ListenerFree, Waiting
  <2>13. CASE DeletedGet
    BY <2>1, <2>4, <2>13, NothingTaken DEF DeletedGet, Waiting
  <2>14. ASSUME NEW n \in Names, MayRemove(n), icinga' = [icinga EXCEPT ![n] = None]
         PROVE  OwnName(k, cache[k])' /\ UNCHANGED cache
                    => icinga'[cache[k].name] = icinga[cache[k].name]
    BY <2>1, <2>14, OwnNameIsOwn DEF IInv, TypeOK
  <2>15. CASE DeletedDelete
    <3>1. handler.name \in Names /\ MayRemove(handler.name)
      BY <2>15 DEF DeletedDelete, IInv, TypeOK, Handlers, IdleHandler, HandlerRemembered
    <3>2. OwnName(k, cache[k])' => icinga'[cache[k].name] = icinga[cache[k].name]
      BY <2>14, <2>15, <3>1 DEF DeletedDelete
    <3>3. QED
      BY <2>1, <2>4, <2>15, <3>2, NothingTaken DEF DeletedDelete, Waiting
  <2>16. ASSUME NEW j \in Keys, ProcessNext(j) PROVE TakenUp(k)'
    <3>1. TakenUp(k) /\ UNCHANGED <<cache, icinga, pending>> /\ worker.pc = "idle"
      BY <2>4, <2>16 DEF ProcessNext
    <3>2. CASE j = k
      <4>1. worker' = [pc |-> "get", key |-> k, spec |-> cache[k]]
        BY <2>16, <3>1, <3>2 DEF ProcessNext, TakenUp
      <4>2. InHand(k, cache[k])' /\ OldCopyFollowed(k)'
        BY <3>1, <4>1 DEF InHand, OldCopyFollowed
      <4>3. QED
        BY <3>1, <4>2 DEF TakenUp, CachedTakenUp
    <3>3. CASE j # k
      <4>1. worker'.key # k /\ (Waiting(k) => Waiting(k)')
        BY <2>16, <3>1, <3>3, NoneAssumption DEF ProcessNext, Waiting, IdleWorker
      <4>2. OldCopyFollowed(k)' /\ ~InHand(k, cache[k])
        BY <3>1, <4>1 DEF OldCopyFollowed, InHand
      <4>3. CachedTakenUp(k)'
        <5> SUFFICES ASSUME OwnName(k, cache[k])', ~ForeignName(cache[k])', ~Waiting(k)
                     PROVE  Shown(k, cache[k])'
            BY <4>1 DEF CachedTakenUp
        <5>1. OwnName(k, cache[k]) /\ ~ForeignName(cache[k])
          BY <2>1, <3>1, OwnNameIsOwn, SameObject
        <5>2. Shown(k, cache[k])
          BY <3>1, <4>2, <5>1 DEF TakenUp, CachedTakenUp
        <5>3. QED
          BY <3>1, <5>2, SameObject
      <4>4. QED
        BY <3>1, <4>2, <4>3 DEF TakenUp
    <3>4. QED
      BY <3>2, <3>3
  <2>17. CASE CreatedOrUpdatedGet \/ CreatedOrUpdatedUpdate \/ CreatedOrUpdatedCreate
    <3>1. synced
      BY <2>17 DEF CreatedOrUpdatedGet, CreatedOrUpdatedUpdate, CreatedOrUpdatedCreate
    <3>2. QED
      BY <2>1, <2>2, <2>4, <2>17, <3>1, GetTakesUp, WriteTakesUp
  <2>18. CASE HousekeepingList \/ HousekeepingSleep
    BY <2>1, <2>4, <2>18, NothingTaken DEF HousekeepingList, HousekeepingSleep, Waiting
  <2>19. ASSUME NEW e \in Entries, HousekeepingGet(e) PROVE TakenUp(k)'
    BY <2>1, <2>4, <2>19, NothingTaken DEF HousekeepingGet, Waiting
  <2>20. CASE HousekeepingDelete
    <3>1. housekeeper.name \in Names /\ MayRemove(housekeeper.name)
      BY <2>20 DEF HousekeepingDelete, IInv, TypeOK, Housekeepers, IdleHousekeeper,
         HousekeeperRemembered
    <3>2. OwnName(k, cache[k])' => icinga'[cache[k].name] = icinga[cache[k].name]
      BY <2>14, <2>20, <3>1 DEF HousekeepingDelete
    <3>3. QED
      BY <2>1, <2>4, <2>20, <3>2, NothingTaken DEF HousekeepingDelete, Waiting
  <2>21. CASE Restart
    BY <2>21 DEF Restart
  <2>22. QED
    BY <2>1, <2>5, <2>6, <2>7, <2>8, <2>10, <2>11, <2>12, <2>13, <2>15, <2>16, <2>17, <2>18,
       <2>19, <2>20, <2>21
       DEF Next, Environment, Listener, CreatedOrUpdated, Housekeeping
<1>3. QED
  BY <1>1, <1>2

\* At rest nothing waits and nothing is in the worker's hands.
LEMMA QuietFromNothingLost == IInv /\ NothingLost => QuietInSync
<1> SUFFICES ASSUME IInv, NothingLost, Quiet, faults = 0 /\ others = 0,
                    NEW k \in Keys \ gone, AlwaysAlone(k) /\ ~Refused(k)
             PROVE  Mirrored(k)
    BY DEF QuietInSync
<1>1. CachedTakenUp(k) /\ cache[k] = cr[k]
  BY DEF NothingLost, Quiet
<1>2. ~Waiting(k) /\ ~InHand(k, cache[k])
  BY DEF Quiet, Waiting, InHand
<1>3. OwnName(k, cache[k]) /\ ~ForeignName(cache[k])
  BY <1>1 DEF AlwaysAlone, OwnName, Refused, ForeignName
<1>4. QED
  BY <1>1, <1>2, <1>3 DEF CachedTakenUp, Shown, Mirrored

\* Nothing that the cache of the informer has taken up is lost, whatever the
\* worker, the delete handler and housekeeping do meanwhile.
THEOREM CacheFollowed == HSpec => []NothingLost
<1>1. HInit => NothingLost
  BY DEF HInit, Init, NothingLost
<1>2. IInv /\ NothingLost /\ [HNext]_<<vars, history>> => (IInv /\ NothingLost)'
  BY HNextInv, NextNothingLost
<1>3. QED
  BY HInitInv, <1>1, <1>2, PTL DEF HSpec

\* No change is lost: as long as no call fails and no other cluster interferes,
\* whenever the threads are at rest every resource that has always been there
\* and has its name to itself is shown in Icinga as it is now (icinga.go
\* CreatedOrUpdated, the work queue of processNext), without any resync.
THEOREM NoChangeLost == HSpec => []QuietInSync
BY CacheFollowed, Invariance, QuietFromNothingLost, PTL
=============================================================================
