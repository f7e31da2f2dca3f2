----------------------------- MODULE HostServices -----------------------------
(***************************************************************************)
(* A Host resource and a Check resource on that host: two instances of     *)
(* IcingaSync over one Icinga server.  Icinga refuses a service whose host *)
(* is not there, and removes a host's services with the host.  The two     *)
(* informers, listeners, queues and workers know nothing of each other;    *)
(* all workers wait for both informers, and one goroutine does the         *)
(* housekeeping of the hosts and of the services in turn.                  *)
(*                                                                         *)
(* What a restart finds is among the initial states.                       *)
(***************************************************************************)
EXTENDS Naturals, Sequences

CONSTANTS
    HostKey, CheckKey,      \* the two resources
    HostName, ServiceName,  \* the names of their objects in Icinga
    Vars, Commands,         \* what their specifications may hold
    OldVars,                \* what they held in an earlier run
    None,                   \* there is no object
    MaxChanges, MaxFaults   \* bounds: changes to the resources, failed calls

VARIABLES
    hostCr, host, hostCache, hostsSynced, hostPending, hostQueue, hostWorker,
    hostHandler, hostSweeper,
    checkCr, service, checkCache, checksSynced, checkPending, checkQueue, checkWorker,
    checkHandler, checkSweeper,
    turn,           \* which objects housekeeping is at: "hosts" or "checks"
    changes, faults,
    hostGone, checkGone     \* history: the resource has been absent

\* The threads of one kind; host and service, in Icinga, are what connects them.
hostVars == <<hostCr, hostCache, hostsSynced, hostPending, hostQueue, hostWorker,
              hostHandler, hostSweeper>>
checkVars == <<checkCr, checkCache, checksSynced, checkPending, checkQueue, checkWorker,
               checkHandler, checkSweeper>>
history == <<hostGone, checkGone>>
vars == <<hostVars, host, checkVars, service, turn, changes, faults>>

Tag == "tag"

\* A resource, and what an earlier run may have left in Icinga.
SpecsFor(name) == {None} \cup [name: {name}, vars: Vars, command: Commands, groups: {"none"}]
ImagesFor(key) == {None} \cup [cluster: {Tag}, owner: {key}, vars: OldVars,
                               command: Commands, groups: {"none"}]

Hosts == INSTANCE IcingaSync WITH
    Kind <- "Host", Keys <- {HostKey}, Names <- {HostName}, Groups <- {"none"},
    Vars <- Vars \cup OldVars, OtherTag <- "other tag", NoOwner <- "", NoCommand <- "",
    InitSpecs <- SpecsFor(HostName), InitObjects <- ImagesFor(HostKey),
    MaxOthers <- 0, MaxCrashes <- 0,
    cr <- hostCr, icinga <- host, cache <- hostCache, synced <- hostsSynced,
    pending <- hostPending, queue <- hostQueue, worker <- hostWorker,
    handler <- hostHandler, housekeeper <- hostSweeper, others <- 0, crashes <- 0

Checks == INSTANCE IcingaSync WITH
    Kind <- "Check", Keys <- {CheckKey}, Names <- {ServiceName}, Groups <- {"none"},
    Vars <- Vars \cup OldVars, OtherTag <- "other tag", NoOwner <- "", NoCommand <- "",
    InitSpecs <- SpecsFor(ServiceName), InitObjects <- ImagesFor(CheckKey),
    MaxOthers <- 0, MaxCrashes <- 0,
    cr <- checkCr, icinga <- service, cache <- checkCache, synced <- checksSynced,
    pending <- checkPending, queue <- checkQueue, worker <- checkWorker,
    handler <- checkHandler, housekeeper <- checkSweeper, others <- 0, crashes <- 0

ASSUME DataAssumption ==
    /\ "" \notin {HostKey, CheckKey}
    /\ None \notin {HostKey, HostName, CheckKey, ServiceName}
    /\ None \notin Hosts!Specs \cup Hosts!Objects \cup Checks!Specs \cup Checks!Objects
ASSUME BoundAssumption == MaxChanges \in Nat /\ MaxFaults \in Nat

HostThere == host[HostName] # None
ServiceThere == service[ServiceName] # None

Init ==
    /\ Hosts!Init /\ Checks!Init
    /\ ServiceThere => HostThere
    /\ turn = "hosts"
    /\ hostGone = (hostCr[HostKey] = None) /\ checkGone = (checkCr[CheckKey] = None)

-----------------------------------------------------------------------------
(* Steps of the hosts' threads                                             *)

\* Icinga removes the services of a host with the host.
Cascade == service' = IF host'[HostName] = None THEN [service EXCEPT ![ServiceName] = None]
                                               ELSE service

HostOnly == Cascade /\ UNCHANGED <<checkVars, turn>>

HostChanges == \E s \in SpecsFor(HostName) :
    Hosts!ResourceChanges(HostKey, s) /\ HostOnly

HostsList == Hosts!InitialList /\ HostOnly
HostDelivered == Hosts!Deliver(HostKey) /\ HostOnly
HostResync == Hosts!Resync(HostKey) /\ HostOnly
HostListener == Hosts!Listener /\ HostOnly
HostProcessNext == checksSynced /\ Hosts!ProcessNext(HostKey) /\ HostOnly
HostWorker == Hosts!CreatedOrUpdated /\ HostOnly

-----------------------------------------------------------------------------
(* Steps of the checks' threads                                            *)

CheckOnly == UNCHANGED <<hostVars, host, turn>>

CheckChanges == \E s \in SpecsFor(ServiceName) :
    CheckOnly /\ Checks!ResourceChanges(CheckKey, s)

ChecksList == CheckOnly /\ Checks!InitialList
CheckDelivered == CheckOnly /\ Checks!Deliver(CheckKey)
CheckResync == CheckOnly /\ Checks!Resync(CheckKey)
CheckListener == CheckOnly /\ Checks!Listener
CheckProcessNext == hostsSynced /\ CheckOnly /\ Checks!ProcessNext(CheckKey)

\* Icinga refuses to create a service without its host. The error is logged.
ServiceRefused ==
    /\ checkWorker.pc = "create" /\ ~HostThere
    /\ checkWorker' = Checks!IdleWorker
    /\ UNCHANGED <<checkCr, service, checkCache, checksSynced, checkPending, checkQueue,
                   checkHandler, checkSweeper, changes, faults>>

CheckWorker ==
    /\ CheckOnly
    /\ \/ Checks!CreatedOrUpdatedGet \/ Checks!CreatedOrUpdatedUpdate
       \/ HostThere /\ Checks!CreatedOrUpdatedCreate
       \/ ServiceRefused

-----------------------------------------------------------------------------
(* Housekeeping: the hosts, the checks, a sleep                            *)

SweepHosts ==
    /\ turn = "hosts"
    /\ Hosts!Housekeeping
    /\ Cascade
    /\ turn' = (IF hostSweeper'.pc = "idle" THEN "checks" ELSE "hosts")
    /\ UNCHANGED checkVars

SweepChecks ==
    /\ turn = "checks"
    /\ UNCHANGED <<hostVars, host>>
    /\ Checks!Housekeeping
    /\ turn' = (IF checkSweeper'.pc = "idle" THEN "hosts" ELSE "checks")

Housekeeping == SweepHosts \/ SweepChecks

-----------------------------------------------------------------------------
Next ==
    /\ \/ HostChanges \/ CheckChanges
       \/ HostsList \/ HostDelivered \/ HostResync \/ HostListener
       \/ HostProcessNext \/ HostWorker
       \/ ChecksList \/ CheckDelivered \/ CheckResync \/ CheckListener
       \/ CheckProcessNext \/ CheckWorker
       \/ Housekeeping
    /\ hostGone' = (hostGone \/ hostCr'[HostKey] = None)
    /\ checkGone' = (checkGone \/ checkCr'[CheckKey] = None)

Spec == Init /\ [][Next]_<<vars, history>>

\* As in IcingaSync.
FairSpec ==
    /\ Spec
    /\ WF_vars(HostsList) /\ WF_vars(HostDelivered) /\ WF_vars(HostResync)
    /\ WF_vars(HostListener) /\ SF_vars(HostProcessNext) /\ WF_vars(HostWorker)
    /\ WF_vars(ChecksList) /\ WF_vars(CheckDelivered) /\ WF_vars(CheckResync)
    /\ WF_vars(CheckListener) /\ SF_vars(CheckProcessNext) /\ WF_vars(CheckWorker)
    /\ WF_vars(Housekeeping)

-----------------------------------------------------------------------------
(* Properties                                                              *)

\* Type invariant of the two instances and of what is added to them.
TypeOK ==
    /\ Hosts!TypeOK /\ Checks!TypeOK
    /\ turn \in {"hosts", "checks"}
    /\ hostGone \in BOOLEAN /\ checkGone \in BOOLEAN

\* In the end the host and, on a host that is there, the service are shown as
\* their resources say, in whatever order the two were created, deleted and
\* created again: a service that was refused, or went with its host, comes back
\* by the resync.
EventuallyShown ==
    <>[](/\ hostCr[HostKey] # None => Hosts!Mirrored(HostKey)
         /\ checkCr[CheckKey] # None /\ HostThere => Checks!Mirrored(CheckKey))

\* In the end neither a host nor a service is left without its resource.
EventuallyClean == <>[](Hosts!NoOrphans /\ Checks!NoOrphans)

\* A service goes only when the resource of the service or that of its host has
\* been absent.
ServiceKept ==
    [][ServiceThere /\ ~ServiceThere' => hostGone \/ checkGone]_vars
=============================================================================
