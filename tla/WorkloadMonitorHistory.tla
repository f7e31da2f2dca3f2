----------------------- MODULE WorkloadMonitorHistory -----------------------
(***************************************************************************)
(* WorkloadMonitor with history variables that record what the objects     *)
(* have been and which resources had an owner, and the contract it keeps.  *)
(* The history variables follow the API and restrict no step.              *)
(***************************************************************************)
EXTENDS WorkloadMonitor

VARIABLES past, claimed

history == <<past, claimed>>

\* A version of an object that is to be monitored, but for its namespace.
Fit(o) == o # None /\ ~o.deleting /\ ~Excluded(o)

\* The refinement mapping: the API, the users' counter and the history; threads,
\* caches and queues have no counterpart in the contract.
Contract == INSTANCE MonitorContract WITH
    Fallible <- Kind = "Workload", wanted <- {i \in Ids : Wanted(i)}, failed <- faults # 0

HInit ==
    /\ Init
    /\ past = [i \in Ids |-> {o \in Objs : objs[i] = o}]
    /\ claimed = {i \in Ids : Contract!Owned(crs[i])}

HNext ==
    /\ Next
    /\ past' = [i \in Ids |-> past[i] \cup {o \in Objs : objs'[i] = o}]
    /\ claimed' = claimed \cup {i \in Ids : Contract!Owned(crs'[i])}

HSpec == HInit /\ [][HNext]_<<vars, excused, history>>

-----------------------------------------------------------------------------
\* Whatever the order in which informers, queue, worker, delete handler and
\* housekeeping come to act, over failed calls and restarts, every write of theirs
\* to a custom resource is one the contract allows.
ImplementsContract == Contract!Spec

-----------------------------------------------------------------------------
(* The inductive invariant behind ImplementsContract                       *)

HistoryTypeOK == past \in [Ids -> SUBSET Objs] /\ claimed \in SUBSET Ids

ObjectsRemembered == \A i \in Ids : objs[i] # None => objs[i] \in past[i]

CacheRemembered == \A i \in Ids : cache[i] # None => cache[i] \in past[i]

\* A worker that reads or writes a resource does so for a version that was fit.
WorkerRemembered ==
    worker.pc # "idle" =>
        /\ worker.obj \in past[worker.id]
        /\ worker.pc = "namespace" => ~Excluded(worker.obj)
        /\ worker.pc \in {"get", "create", "update"} => Fit(worker.obj)

OwnersRemembered ==
    /\ \A i \in Ids : Contract!Owned(crs[i]) \/ Contract!Owned(hosts[i]) => i \in claimed
    /\ housekeeper.todo \subseteq claimed
    /\ housekeeper.pc = "delete" => housekeeper.id \in claimed

\* What a cache, a notification or a worker holds against an object that has
\* always been wanted: nothing, but a namespace that could not be read.
Grounds ==
    /\ \A i \in Ids \ excused : Wanted(i)
    /\ synced => \A i \in Ids \ excused : Fit(cache[i])
    /\ \A n \in 1 .. Len(pending) : pending[n].type = "deleted" => pending[n].id \in excused
    /\ worker.pc # "idle" /\ worker.id \notin excused => Fit(worker.obj)
    /\ worker.pc = "delete" /\ worker.id \notin excused => faults > 0 /\ Kind = "Workload"
    /\ worker.pc = "namespace" => Kind = "Workload"
    /\ ~Housekept => housekeeper.pc = "idle"
    /\ faults <= MaxFaults

ContractInv ==
    /\ TypeOK /\ HistoryTypeOK
    /\ ObjectsRemembered /\ CacheRemembered /\ WorkerRemembered /\ OwnersRemembered
    /\ Grounds
=============================================================================
