------------------------- MODULE HostServicesProofs -------------------------
(***************************************************************************)
(* Machine-checked proofs about HostServices: type correctness, and that a *)
(* service goes with a reason only, for all data and every bound.          *)
(***************************************************************************)
EXTENDS HostServices, TLAPS

\* The proofs about IcingaSync, for each of the two instances.
HostProofs == INSTANCE IcingaSyncBaseProofs WITH
    Kind <- "Host", Keys <- {HostKey}, Names <- {HostName}, Groups <- {"none"},
    Vars <- Vars \cup OldVars, OtherTag <- "other tag", NoOwner <- "", NoCommand <- "",
    InitSpecs <- SpecsFor(HostName), InitObjects <- ImagesFor(HostKey),
    MaxOthers <- 0, MaxCrashes <- 0,
    cr <- hostCr, icinga <- host, cache <- hostCache, synced <- hostsSynced,
    pending <- hostPending, queue <- hostQueue, worker <- hostWorker,
    handler <- hostHandler, housekeeper <- hostSweeper, others <- 0, crashes <- 0

CheckProofs == INSTANCE IcingaSyncBaseProofs WITH
    Kind <- "Check", Keys <- {CheckKey}, Names <- {ServiceName}, Groups <- {"none"},
    Vars <- Vars \cup OldVars, OtherTag <- "other tag", NoOwner <- "", NoCommand <- "",
    InitSpecs <- SpecsFor(ServiceName), InitObjects <- ImagesFor(CheckKey),
    MaxOthers <- 0, MaxCrashes <- 0,
    cr <- checkCr, icinga <- service, cache <- checkCache, synced <- checksSynced,
    pending <- checkPending, queue <- checkQueue, worker <- checkWorker,
    handler <- checkHandler, housekeeper <- checkSweeper, others <- 0, crashes <- 0

-----------------------------------------------------------------------------
(* Both instances are the IcingaSync that those proofs are about           *)

LEMMA HostAssumptions ==
    /\ HostProofs!KindAssumption /\ HostProofs!NoneAssumption /\ HostProofs!TagAssumption
    /\ HostProofs!InitAssumption /\ HostProofs!BoundAssumption
BY DataAssumption, BoundAssumption
   DEF HostProofs!KindAssumption, HostProofs!Kinds, HostProofs!NoneAssumption,
       HostProofs!TagAssumption, HostProofs!InitAssumption, HostProofs!BoundAssumption,
       HostProofs!Specs, HostProofs!Objects, Hosts!Specs, Hosts!Objects, SpecsFor,
       ImagesFor, Tag

LEMMA HostSame ==
    /\ HostProofs!TypeOK <=> Hosts!TypeOK
    /\ HostProofs!TypeOK' <=> Hosts!TypeOK'
    /\ HostProofs!Init <=> Hosts!Init
    /\ HostProofs!Next <=> Hosts!Next
<1>1. (HostProofs!TypeOK <=> Hosts!TypeOK) /\ (HostProofs!TypeOK' <=> Hosts!TypeOK')
    BY DEF HostProofs!TypeOK, Hosts!TypeOK, HostProofs!Specs, Hosts!Specs,
           HostProofs!Objects, Hosts!Objects, HostProofs!Notifications,
           Hosts!Notifications, HostProofs!Workers, Hosts!Workers, HostProofs!Handlers,
           Hosts!Handlers, HostProofs!Housekeepers, Hosts!Housekeepers,
           HostProofs!Entries, Hosts!Entries, HostProofs!IdleWorker, Hosts!IdleWorker,
           HostProofs!IdleHandler, Hosts!IdleHandler, HostProofs!IdleHousekeeper,
           Hosts!IdleHousekeeper
<1>2. HostProofs!Init <=> Hosts!Init
    BY DEF HostProofs!Init, Hosts!Init, HostProofs!IdleWorker, Hosts!IdleWorker,
           HostProofs!IdleHandler, Hosts!IdleHandler, HostProofs!IdleHousekeeper,
           Hosts!IdleHousekeeper
<1>3. HostProofs!Next <=> Hosts!Next
    BY Zenon DEF HostProofs!Next, Hosts!Next, HostProofs!Environment, Hosts!Environment,
           HostProofs!ResourceChanges, Hosts!ResourceChanges,
           HostProofs!OtherClusterWrites, Hosts!OtherClusterWrites, HostProofs!Foreign,
           Hosts!Foreign, HostProofs!Restart, Hosts!Restart, HostProofs!InitialList,
           Hosts!InitialList, HostProofs!Deliver, Hosts!Deliver, HostProofs!Resync,
           Hosts!Resync, HostProofs!ProcessNext, Hosts!ProcessNext,
           HostProofs!Listener, Hosts!Listener, HostProofs!ListenerFree,
           Hosts!ListenerFree, HostProofs!HandleSync, Hosts!HandleSync,
           HostProofs!HandleDeleted, Hosts!HandleDeleted, HostProofs!DeletedGet,
           Hosts!DeletedGet, HostProofs!DeletedDelete, Hosts!DeletedDelete,
           HostProofs!CreatedOrUpdated, Hosts!CreatedOrUpdated,
           HostProofs!CreatedOrUpdatedGet, Hosts!CreatedOrUpdatedGet,
           HostProofs!CreatedOrUpdatedUpdate, Hosts!CreatedOrUpdatedUpdate,
           HostProofs!CreatedOrUpdatedCreate, Hosts!CreatedOrUpdatedCreate,
           HostProofs!ChecksCluster, Hosts!ChecksCluster, HostProofs!Differs,
           Hosts!Differs, HostProofs!HostGroupDiffers, Hosts!HostGroupDiffers,
           HostProofs!HostDiffers, Hosts!HostDiffers, HostProofs!CheckDiffers,
           Hosts!CheckDiffers, HostProofs!VarsDiffer, Hosts!VarsDiffer,
           HostProofs!Image, Hosts!Image, HostProofs!Fault, Hosts!Fault,
           HostProofs!NoFault, Hosts!NoFault, HostProofs!Housekeeping,
           Hosts!Housekeeping, HostProofs!HousekeepingList, Hosts!HousekeepingList,
           HostProofs!HousekeepingGet, Hosts!HousekeepingGet,
           HostProofs!HousekeepingDelete, Hosts!HousekeepingDelete,
           HostProofs!HousekeepingSleep, Hosts!HousekeepingSleep, HostProofs!Listed,
           Hosts!Listed, HostProofs!Entries, Hosts!Entries, HostProofs!Specs,
           Hosts!Specs, HostProofs!Objects, Hosts!Objects, HostProofs!IdleWorker,
           Hosts!IdleWorker, HostProofs!IdleHandler, Hosts!IdleHandler,
           HostProofs!IdleHousekeeper, Hosts!IdleHousekeeper, HostProofs!servers,
           Hosts!servers, HostProofs!informer, Hosts!informer, HostProofs!counters,
           Hosts!counters
<1>4. QED BY <1>1, <1>2, <1>3

\* What is proved about IcingaSync holds of this instance: its types, and where
\* a removal and a creation come from.
LEMMA HostTypes ==
    /\ Hosts!Init => Hosts!TypeOK
    /\ Hosts!TypeOK /\ Hosts!Next => Hosts!TypeOK'
<1>1. HostProofs!Init => HostProofs!TypeOK
    BY HostAssumptions, HostProofs!InitTypeOK
<1>2. HostProofs!TypeOK /\ HostProofs!Next => HostProofs!TypeOK'
    BY HostAssumptions, HostProofs!NextTypeOK
<1>3. QED BY <1>1, <1>2, HostSame

LEMMA HostRemovals ==
    /\ Hosts!Init => ~HostProofs!Deleting
    /\ Hosts!TypeOK /\ Hosts!Next /\ HostProofs!Deleting' =>
           HostProofs!Deleting \/ hostCr[HostKey] = None
    /\ Hosts!TypeOK /\ Hosts!Next /\ host[HostName] # None /\ host'[HostName] = None =>
           HostProofs!Deleting
    /\ Hosts!TypeOK /\ Hosts!Next /\ host[HostName] = None /\ host'[HostName] # None =>
           hostWorker.pc = "create" /\ hostWorker' = Hosts!IdleWorker
<1>1. HostProofs!Init => ~HostProofs!Deleting
    BY HostAssumptions, HostProofs!InitNotDeleting
<1>2. HostProofs!TypeOK /\ HostProofs!Next /\ ~HostProofs!Deleting /\ HostProofs!Deleting' =>
          \E k \in {HostKey} : hostCr[k] = None
    BY HostAssumptions, HostProofs!DeletingStep
<1>3. HostProofs!TypeOK /\ HostProofs!Next => \A n \in {HostName} :
          host[n] # None /\ host'[n] = None => HostProofs!Deleting
    BY HostAssumptions, HostProofs!RemovalFrom
<1>4. HostProofs!TypeOK /\ HostProofs!Next => \A n \in {HostName} :
          host[n] = None /\ host'[n] # None =>
              hostWorker.pc = "create" /\ hostWorker' = HostProofs!IdleWorker
    BY HostAssumptions, HostProofs!CreationFrom
<1>5. QED
    BY <1>1, <1>2, <1>3, <1>4, HostSame DEF HostProofs!IdleWorker, Hosts!IdleWorker

LEMMA CheckAssumptions ==
    /\ CheckProofs!KindAssumption /\ CheckProofs!NoneAssumption /\ CheckProofs!TagAssumption
    /\ CheckProofs!InitAssumption /\ CheckProofs!BoundAssumption
BY DataAssumption, BoundAssumption
   DEF CheckProofs!KindAssumption, CheckProofs!Kinds, CheckProofs!NoneAssumption,
       CheckProofs!TagAssumption, CheckProofs!InitAssumption,
       CheckProofs!BoundAssumption, CheckProofs!Specs, CheckProofs!Objects,
       Checks!Specs, Checks!Objects, SpecsFor, ImagesFor, Tag

LEMMA CheckSame ==
    /\ CheckProofs!TypeOK <=> Checks!TypeOK
    /\ CheckProofs!TypeOK' <=> Checks!TypeOK'
    /\ CheckProofs!Init <=> Checks!Init
    /\ CheckProofs!Next <=> Checks!Next
<1>1. (CheckProofs!TypeOK <=> Checks!TypeOK) /\ (CheckProofs!TypeOK' <=> Checks!TypeOK')
    BY DEF CheckProofs!TypeOK, Checks!TypeOK, CheckProofs!Specs, Checks!Specs,
           CheckProofs!Objects, Checks!Objects, CheckProofs!Notifications,
           Checks!Notifications, CheckProofs!Workers, Checks!Workers,
           CheckProofs!Handlers, Checks!Handlers, CheckProofs!Housekeepers,
           Checks!Housekeepers, CheckProofs!Entries, Checks!Entries,
           CheckProofs!IdleWorker, Checks!IdleWorker, CheckProofs!IdleHandler,
           Checks!IdleHandler, CheckProofs!IdleHousekeeper, Checks!IdleHousekeeper
<1>2. CheckProofs!Init <=> Checks!Init
    BY DEF CheckProofs!Init, Checks!Init, CheckProofs!IdleWorker, Checks!IdleWorker,
           CheckProofs!IdleHandler, Checks!IdleHandler, CheckProofs!IdleHousekeeper,
           Checks!IdleHousekeeper
<1>3. CheckProofs!Next <=> Checks!Next
    BY Zenon DEF CheckProofs!Next, Checks!Next, CheckProofs!Environment, Checks!Environment,
           CheckProofs!ResourceChanges, Checks!ResourceChanges,
           CheckProofs!OtherClusterWrites, Checks!OtherClusterWrites,
           CheckProofs!Foreign, Checks!Foreign, CheckProofs!Restart, Checks!Restart,
           CheckProofs!InitialList, Checks!InitialList, CheckProofs!Deliver,
           Checks!Deliver, CheckProofs!Resync, Checks!Resync, CheckProofs!ProcessNext,
           Checks!ProcessNext, CheckProofs!Listener, Checks!Listener,
           CheckProofs!ListenerFree, Checks!ListenerFree, CheckProofs!HandleSync,
           Checks!HandleSync, CheckProofs!HandleDeleted, Checks!HandleDeleted,
           CheckProofs!DeletedGet, Checks!DeletedGet, CheckProofs!DeletedDelete,
           Checks!DeletedDelete, CheckProofs!CreatedOrUpdated, Checks!CreatedOrUpdated,
           CheckProofs!CreatedOrUpdatedGet, Checks!CreatedOrUpdatedGet,
           CheckProofs!CreatedOrUpdatedUpdate, Checks!CreatedOrUpdatedUpdate,
           CheckProofs!CreatedOrUpdatedCreate, Checks!CreatedOrUpdatedCreate,
           CheckProofs!ChecksCluster, Checks!ChecksCluster, CheckProofs!Differs,
           Checks!Differs, CheckProofs!HostGroupDiffers, Checks!HostGroupDiffers,
           CheckProofs!HostDiffers, Checks!HostDiffers, CheckProofs!CheckDiffers,
           Checks!CheckDiffers, CheckProofs!VarsDiffer, Checks!VarsDiffer,
           CheckProofs!Image, Checks!Image, CheckProofs!Fault, Checks!Fault,
           CheckProofs!NoFault, Checks!NoFault, CheckProofs!Housekeeping,
           Checks!Housekeeping, CheckProofs!HousekeepingList, Checks!HousekeepingList,
           CheckProofs!HousekeepingGet, Checks!HousekeepingGet,
           CheckProofs!HousekeepingDelete, Checks!HousekeepingDelete,
           CheckProofs!HousekeepingSleep, Checks!HousekeepingSleep, CheckProofs!Listed,
           Checks!Listed, CheckProofs!Entries, Checks!Entries, CheckProofs!Specs,
           Checks!Specs, CheckProofs!Objects, Checks!Objects, CheckProofs!IdleWorker,
           Checks!IdleWorker, CheckProofs!IdleHandler, Checks!IdleHandler,
           CheckProofs!IdleHousekeeper, Checks!IdleHousekeeper, CheckProofs!servers,
           Checks!servers, CheckProofs!informer, Checks!informer, CheckProofs!counters,
           Checks!counters
<1>4. QED BY <1>1, <1>2, <1>3

\* What is proved about IcingaSync holds of this instance: its types, and where
\* a removal and a creation come from.
LEMMA CheckTypes ==
    /\ Checks!Init => Checks!TypeOK
    /\ Checks!TypeOK /\ Checks!Next => Checks!TypeOK'
<1>1. CheckProofs!Init => CheckProofs!TypeOK
    BY CheckAssumptions, CheckProofs!InitTypeOK
<1>2. CheckProofs!TypeOK /\ CheckProofs!Next => CheckProofs!TypeOK'
    BY CheckAssumptions, CheckProofs!NextTypeOK
<1>3. QED BY <1>1, <1>2, CheckSame

LEMMA CheckRemovals ==
    /\ Checks!Init => ~CheckProofs!Deleting
    /\ Checks!TypeOK /\ Checks!Next /\ CheckProofs!Deleting' =>
           CheckProofs!Deleting \/ checkCr[CheckKey] = None
    /\ Checks!TypeOK /\ Checks!Next /\ service[ServiceName] # None /\ service'[ServiceName] = None =>
           CheckProofs!Deleting
    /\ Checks!TypeOK /\ Checks!Next /\ service[ServiceName] = None /\ service'[ServiceName] # None =>
           checkWorker.pc = "create" /\ checkWorker' = Checks!IdleWorker
<1>1. CheckProofs!Init => ~CheckProofs!Deleting
    BY CheckAssumptions, CheckProofs!InitNotDeleting
<1>2. CheckProofs!TypeOK /\ CheckProofs!Next /\ ~CheckProofs!Deleting /\ CheckProofs!Deleting' =>
          \E k \in {CheckKey} : checkCr[k] = None
    BY CheckAssumptions, CheckProofs!DeletingStep
<1>3. CheckProofs!TypeOK /\ CheckProofs!Next => \A n \in {ServiceName} :
          service[n] # None /\ service'[n] = None => CheckProofs!Deleting
    BY CheckAssumptions, CheckProofs!RemovalFrom
<1>4. CheckProofs!TypeOK /\ CheckProofs!Next => \A n \in {ServiceName} :
          service[n] = None /\ service'[n] # None =>
              checkWorker.pc = "create" /\ checkWorker' = CheckProofs!IdleWorker
    BY CheckAssumptions, CheckProofs!CreationFrom
<1>5. QED
    BY <1>1, <1>2, <1>3, <1>4, CheckSame DEF CheckProofs!IdleWorker, Checks!IdleWorker

-----------------------------------------------------------------------------
(* The steps of HostServices as steps of its parts                         *)

HostStep ==
    /\ Hosts!Next /\ Cascade
    /\ UNCHANGED checkVars

CheckStep ==
    /\ Checks!Next
    /\ UNCHANGED <<hostVars, host>>
    /\ checkWorker.pc = "create" /\ checkWorker' = Checks!IdleWorker => HostThere

\* Every step is one of the hosts' threads, with what Icinga does to the
\* service, one of the checks' threads, or a refusal.
LEMMA Parts ==
    ASSUME Next
    PROVE  \/ HostStep
           \/ CheckStep
           \/ ServiceRefused /\ UNCHANGED <<hostVars, host>>
<1> USE DEF HostStep, CheckStep, HostOnly, CheckOnly
<1>1. CASE HostChanges
  <2>1. \A s \in SpecsFor(HostName) : s \in Hosts!Specs \cup {None}
    BY DEF SpecsFor, Hosts!Specs
  <2>2. QED
    BY <1>1, <2>1 DEF HostChanges, Hosts!Next, Hosts!Environment
<1>2. CASE HostsList \/ HostDelivered \/ HostResync \/ HostListener \/ HostProcessNext \/ HostWorker
  BY <1>2 DEF HostsList, HostDelivered, HostResync, HostListener, HostProcessNext, HostWorker,
              Hosts!Next
<1>3. CASE SweepHosts
  BY <1>3 DEF SweepHosts, Hosts!Next
<1>4. CASE CheckChanges
  <2>1. PICK s \in SpecsFor(ServiceName) : Checks!ResourceChanges(CheckKey, s)
    BY <1>4 DEF CheckChanges
  <2>2. s \in Checks!Specs \cup {None}
    BY DEF SpecsFor, Checks!Specs
  <2>3. Checks!Next
    BY <2>1, <2>2 DEF Checks!Next, Checks!Environment
  <2>4. UNCHANGED checkWorker
    BY <2>1 DEF Checks!ResourceChanges
  <2>5. QED
    BY <1>4, <2>3, <2>4 DEF CheckChanges, Checks!IdleWorker
<1>5. CASE ChecksList \/ CheckDelivered \/ CheckResync \/ CheckListener
  <2>1. Checks!Next /\ CheckOnly
    BY <1>5 DEF ChecksList, CheckDelivered, CheckResync, CheckListener, Checks!Next
  <2>2. UNCHANGED checkWorker
    BY <1>5 DEF ChecksList, CheckDelivered, CheckResync, CheckListener, Checks!InitialList,
                Checks!Deliver, Checks!Resync, Checks!Listener, Checks!HandleSync,
                Checks!HandleDeleted, Checks!DeletedGet, Checks!DeletedDelete
  <2>3. QED
    BY <2>1, <2>2 DEF Checks!IdleWorker
<1>6. CASE CheckProcessNext
  <2>1. Checks!Next /\ CheckOnly
    BY <1>6 DEF CheckProcessNext, Checks!Next
  <2>2. QED
    BY <1>6, <2>1 DEF CheckProcessNext, Checks!ProcessNext
<1>7. CASE CheckWorker
  <2>1. CASE ServiceRefused
    BY <1>7, <2>1 DEF CheckWorker
  <2>2. CASE Checks!CreatedOrUpdatedGet \/ Checks!CreatedOrUpdatedUpdate
    BY <1>7, <2>2 DEF CheckWorker, Checks!Next, Checks!CreatedOrUpdated,
                      Checks!CreatedOrUpdatedGet, Checks!CreatedOrUpdatedUpdate
  <2>3. CASE HostThere /\ Checks!CreatedOrUpdatedCreate
    BY <1>7, <2>3 DEF CheckWorker, Checks!Next, Checks!CreatedOrUpdated
  <2>4. QED
    BY <1>7, <2>1, <2>2, <2>3 DEF CheckWorker
<1>8. CASE SweepChecks
  <2>1. Checks!Next /\ UNCHANGED <<hostVars, host>>
    BY <1>8 DEF SweepChecks, Checks!Next
  <2>2. UNCHANGED checkWorker
    BY <1>8 DEF SweepChecks, Checks!Housekeeping, Checks!HousekeepingList,
                Checks!HousekeepingGet, Checks!HousekeepingDelete, Checks!HousekeepingSleep
  <2>3. QED
    BY <2>1, <2>2 DEF Checks!IdleWorker
<1>9. QED
  BY <1>1, <1>2, <1>3, <1>4, <1>5, <1>6, <1>7, <1>8 DEF Next, Housekeeping

-----------------------------------------------------------------------------
(* Type correctness                                                        *)

LEMMA InitTypes == Init => TypeOK
<1> SUFFICES ASSUME Init PROVE TypeOK
    OBVIOUS
<1>1. Hosts!TypeOK /\ Checks!TypeOK
  BY HostTypes, CheckTypes DEF Init
<1>2. QED
  BY <1>1 DEF Init, TypeOK

LEMMA NextTypes == TypeOK /\ [Next]_<<vars, history>> => TypeOK'
<1> SUFFICES ASSUME TypeOK, [Next]_<<vars, history>> PROVE TypeOK'
    OBVIOUS
<1>1. CASE UNCHANGED <<vars, history>>
  BY <1>1 DEF vars, history, hostVars, checkVars, TypeOK, Hosts!TypeOK, Checks!TypeOK
<1>2. CASE Next
  <2>1. turn' \in {"hosts", "checks"}
    BY <1>2 DEF Next, TypeOK, HostChanges, HostsList, HostDelivered, HostResync, HostListener,
                HostProcessNext, HostWorker, HostOnly, CheckChanges, ChecksList,
                CheckDelivered, CheckResync, CheckListener, CheckProcessNext, CheckWorker,
                CheckOnly, Housekeeping, SweepHosts, SweepChecks
  <2>2. hostGone' \in BOOLEAN /\ checkGone' \in BOOLEAN
    BY <1>2 DEF Next, TypeOK
  <2>3. Hosts!TypeOK' /\ Checks!TypeOK'
    <3>1. CASE HostStep
      <4>1. Hosts!TypeOK'
        BY <3>1, HostTypes DEF HostStep, TypeOK
      <4>2. QED
        BY <3>1, <4>1 DEF HostStep, Cascade, checkVars, TypeOK, Hosts!TypeOK, Checks!TypeOK
    <3>2. CASE CheckStep
      <4>1. Checks!TypeOK'
        BY <3>2, CheckTypes DEF CheckStep, TypeOK
      <4>2. QED
        BY <3>2, <4>1 DEF CheckStep, hostVars, TypeOK, Hosts!TypeOK, Checks!TypeOK
    <3>3. CASE ServiceRefused /\ UNCHANGED <<hostVars, host>>
      BY <3>3 DEF ServiceRefused, hostVars, TypeOK, Hosts!TypeOK, Checks!TypeOK,
                  Checks!Workers, Checks!IdleWorker
    <3>4. QED
      BY <1>2, <3>1, <3>2, <3>3, Parts
  <2>4. QED
    BY <2>1, <2>2, <2>3 DEF TypeOK
<1>3. QED
  BY <1>1, <1>2

\* Whatever the two resources' threads do to the shared server and counters,
\* each of them keeps its shape, and so does a worker whose service is refused.
THEOREM TypeCorrect == Spec => []TypeOK
BY InitTypes, NextTypes, PTL DEF Spec

-----------------------------------------------------------------------------
(* A service goes with a reason only                                       *)

\* A service has a host, and no thread begins to delete before the resource it
\* deletes for has been absent.
KeptInv ==
    /\ ServiceThere => HostThere
    /\ hostCr[HostKey] = None => hostGone
    /\ checkCr[CheckKey] = None => checkGone
    /\ HostProofs!Deleting => hostGone
    /\ CheckProofs!Deleting => checkGone

LEMMA InitKept == Init => KeptInv
BY HostRemovals, CheckRemovals DEF Init, KeptInv

LEMMA NextKept == TypeOK /\ KeptInv /\ [Next]_<<vars, history>> => KeptInv'
<1> SUFFICES ASSUME TypeOK, KeptInv, [Next]_<<vars, history>> PROVE KeptInv'
    OBVIOUS
<1>1. CASE UNCHANGED <<vars, history>>
  BY <1>1 DEF vars, history, hostVars, checkVars, KeptInv, ServiceThere, HostThere,
              HostProofs!Deleting, CheckProofs!Deleting
<1>2. CASE Next
  <2>1. /\ hostGone' = (hostGone \/ hostCr'[HostKey] = None)
        /\ checkGone' = (checkGone \/ checkCr'[CheckKey] = None)
    BY <1>2 DEF Next
  <2>2. CASE HostStep
    <3>1. (HostProofs!Deleting => hostGone)'
      BY <2>1, <2>2, HostRemovals DEF HostStep, TypeOK, KeptInv
    <3>2. (CheckProofs!Deleting => checkGone)'
      BY <2>1, <2>2 DEF HostStep, checkVars, KeptInv, CheckProofs!Deleting
    <3>3. (ServiceThere => HostThere)'
      BY <2>2 DEF HostStep, Cascade, TypeOK, Checks!TypeOK, KeptInv, ServiceThere, HostThere
    <3>4. QED
      BY <2>1, <3>1, <3>2, <3>3 DEF KeptInv
  <2>3. CASE CheckStep
    <3>1. (HostProofs!Deleting => hostGone)'
      BY <2>1, <2>3 DEF CheckStep, hostVars, KeptInv, HostProofs!Deleting
    <3>2. (CheckProofs!Deleting => checkGone)'
      BY <2>1, <2>3, CheckRemovals DEF CheckStep, TypeOK, KeptInv
    <3>3. (ServiceThere => HostThere)'
      BY <2>3, CheckRemovals DEF CheckStep, TypeOK, KeptInv, ServiceThere, HostThere
    <3>4. QED
      BY <2>1, <3>1, <3>2, <3>3 DEF KeptInv
  <2>4. CASE ServiceRefused /\ UNCHANGED <<hostVars, host>>
    BY <2>1, <2>4 DEF ServiceRefused, hostVars, KeptInv, ServiceThere, HostThere,
                      HostProofs!Deleting, CheckProofs!Deleting
  <2>5. QED
    BY <1>2, <2>2, <2>3, <2>4, Parts
<1>3. QED
  BY <1>1, <1>2

LEMMA KeptStep ==
    TypeOK /\ KeptInv /\ [Next]_<<vars, history>> =>
        [ServiceThere /\ ~ServiceThere' => hostGone \/ checkGone]_vars
<1> SUFFICES ASSUME TypeOK, KeptInv, Next, ServiceThere, ~ServiceThere'
             PROVE  hostGone \/ checkGone
    BY DEF history
<1>1. CASE HostStep
  <2>1. HostThere /\ ~HostThere'
    BY <1>1 DEF HostStep, Cascade, KeptInv, ServiceThere, HostThere
  <2>2. QED
    BY <1>1, <2>1, HostRemovals DEF HostStep, TypeOK, KeptInv, HostThere
<1>2. CASE CheckStep
  BY <1>2, CheckRemovals DEF CheckStep, TypeOK, KeptInv, ServiceThere
<1>3. CASE ServiceRefused
  BY <1>3 DEF ServiceRefused, ServiceThere
<1>4. QED
  BY <1>1, <1>2, <1>3, Parts

\* In whatever order host and service were created, refused, deleted and created
\* again, with failed calls and housekeeping in between: a service whose own
\* resource and whose host's resource have always been there stays in Icinga.
THEOREM ServiceGoesWithReason == Spec => ServiceKept
<1>1. Init => TypeOK /\ KeptInv
  BY InitTypes, InitKept
<1>2. TypeOK /\ KeptInv /\ [Next]_<<vars, history>> => (TypeOK /\ KeptInv)'
  BY NextTypes, NextKept
<1>3. QED
  BY <1>1, <1>2, KeptStep, PTL DEF Spec, ServiceKept
=============================================================================
