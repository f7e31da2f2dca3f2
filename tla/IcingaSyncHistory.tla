-------------------------- MODULE IcingaSyncHistory -------------------------
(***************************************************************************)
(* IcingaSync with history variables that record what the custom resources *)
(* and Icinga have been, and the promises that speak of the past.  The     *)
(* history variables follow the two servers and restrict no step.          *)
(***************************************************************************)
EXTENDS IcingaSync

VARIABLES past, gone, kept

history == <<past, gone, kept>>

\* The refinement mapping: servers and history are those of the mirror; threads,
\* caches and queues have no counterpart there.
Mirror == INSTANCE IcingaMirror WITH
    cr <- cr, icinga <- icinga, past <- past, gone <- gone, kept <- kept

HInit ==
    /\ Init
    /\ past = [k \in Keys |-> {s \in Specs : cr[k] = s \/ icinga[s.name] = Image(k, s)}]
    /\ gone = {k \in Keys : cr[k] = None}
    /\ kept = {n \in Names : Foreign(icinga[n])}

HNext == Next /\ Mirror!Remember

HSpec == HInit /\ [][HNext]_<<vars, history>>

HFairSpec == HSpec /\ Fairness

-----------------------------------------------------------------------------
\* The detailed specification implements the abstract one: objects are images
\* of specifications that were there, nothing is removed from Icinga unless a
\* resource that claimed its name has been absent, and the objects another
\* cluster had before are not overwritten (host groups and hosts).
ImplementsMirror == Mirror!Spec

\* Nothing is under way and no informer lags.
Quiet ==
    /\ synced /\ cache = cr /\ pending = <<>> /\ queue = {}
    /\ worker.pc = "idle" /\ handler.pc = "idle"

\* No other resource has asked for the Icinga name of k since the start.
AlwaysAlone(k) == \A j \in Keys \ {k} : \A s \in past[j] : s.name # cr[k].name

\* Without failed calls and without help from the resync, nothing is lost: if
\* the threads are at rest, a resource that has always been there and has its
\* Icinga name to itself is shown with its latest specification.  A worker that
\* worked on an older copy is always followed by another pass over the key.
QuietInSync ==
    Quiet /\ faults = 0 /\ others = 0 =>
        \A k \in Keys \ gone : AlwaysAlone(k) /\ ~Refused(k) => Mirrored(k)

\* What another cluster has had since before the start is "not managed by us"
\* (the log message of the delete handlers): only that cluster removes it.
ForeignLeftAlone ==
    [][\A n \in kept : Foreign(icinga'[n]) \/ others' # others]_vars

-----------------------------------------------------------------------------
(* The inductive invariant behind ImplementsMirror                         *)

\* Some resource that has been absent once asked for name n.
MayRemove(n) == \E k \in gone : \E s \in past[k] : s.name = n

HistoryTypeOK ==
    /\ past \in [Keys -> SUBSET Specs]
    /\ gone \in SUBSET Keys
    /\ kept \in SUBSET Names

ResourcesRemembered ==
    \A k \in Keys : IF cr[k] = None THEN k \in gone ELSE cr[k] \in past[k]

CacheRemembered == \A k \in Keys : cache[k] # None => cache[k] \in past[k]

DeletionsRemembered ==
    \A i \in DOMAIN pending : pending[i].type = "deleted" =>
        /\ pending[i].key \in gone
        /\ pending[i].spec \in past[pending[i].key]

WorkerRemembered ==
    worker.pc # "idle" =>
        /\ worker.spec \in past[worker.key]
        /\ worker.pc = "update" /\ ChecksCluster => worker.spec.name \notin kept

HandlerRemembered ==
    handler.pc # "idle" => MayRemove(handler.name)

HousekeeperRemembered ==
    /\ \A e \in housekeeper.todo : \E s \in past[e.owner] : s.name = e.name
    /\ housekeeper.pc = "delete" => MayRemove(housekeeper.name)

\* Every object of this cluster in Icinga is the image of a specification its
\* owner has had, under the name that specification gave.
ObjectsRemembered ==
    \A n \in Names : Ours(icinga[n]) =>
        \E s \in past[icinga[n].owner] : s.name = n /\ icinga[n] = Image(icinga[n].owner, s)

KeptForeign == \A n \in kept : Foreign(icinga[n])

IInv ==
    /\ TypeOK /\ HistoryTypeOK
    /\ ResourcesRemembered /\ CacheRemembered /\ DeletionsRemembered
    /\ WorkerRemembered /\ HandlerRemembered /\ HousekeeperRemembered
    /\ ObjectsRemembered /\ KeptForeign

-----------------------------------------------------------------------------
(* The strengthening behind QuietInSync: what the cache says of a resource  *)
(* is shown, or in the worker's hands, or will be taken up by the worker.   *)

Waiting(k) ==
    \/ k \in queue
    \/ \E i \in DOMAIN pending : pending[i].type = "sync" /\ pending[i].key = k

\* No other resource has asked for the name that specification s gives.
OwnName(k, s) == \A j \in Keys \ {k} : \A t \in past[j] : t.name # s.name

ForeignName(s) == ChecksCluster /\ Foreign(icinga[s.name])

Shown(k, s) == icinga[s.name] # None /\ ~Differs(icinga[s.name], Image(k, s))

\* The worker is going to write s and will succeed.
InHand(k, s) ==
    /\ worker.pc # "idle" /\ worker.key = k /\ worker.spec = s
    /\ worker.pc = "create" => icinga[s.name] = None
    /\ worker.pc = "update" => icinga[s.name] # None

\* A worker that works on an older copy will come back to the key.
OldCopyFollowed(k) ==
    worker.pc # "idle" /\ worker.key = k /\ worker.spec # cache[k] => Waiting(k)

CachedTakenUp(k) ==
    OwnName(k, cache[k]) /\ ~ForeignName(cache[k]) =>
        Waiting(k) \/ InHand(k, cache[k]) \/ Shown(k, cache[k])

\* While no call has failed and no other cluster has interfered: what the cache
\* says of a resource that has always been there is shown in Icinga, or the
\* worker has it in hand, or the worker will come to the key without a resync.
NothingLost ==
    synced /\ faults = 0 /\ others = 0 =>
        \A k \in Keys \ gone : cache[k] # None /\ OldCopyFollowed(k) /\ CachedTakenUp(k)
=============================================================================
