# A TLA+ development of kubernetes-icinga

kubernetes-icinga is one Go process. It watches the objects of a Kubernetes
cluster, represents those it shall monitor by custom resources (`HostGroup`,
`Host`, `Check`), and keeps an Icinga server equal to those custom resources.
Users may also write custom resources themselves, several clusters may share one
Icinga server, and all state of the controller is in memory.

## 1. Inventory

Paths are below `src/pkg/controller/` unless they say otherwise.

| Component | State | Operations | Modelled in |
|---|---|---|---|
| Synchronisation of custom resources to Icinga (`icinga.go`, the HostGroup/Host/Check half of `zz_generated_controller.go`) | informer cache, listener buffer, work queue, what the worker and the delete handler hold between two calls | `…CreatedOrUpdated`, `…Deleted`, AddFunc/UpdateFunc/DeleteFunc, `processNext…`, resync | `IcingaSync` |
| Icinga housekeeping (`housekeeping.go:14-164`) | the list it is working on | list, look the owner up, delete, sleep | `IcingaSync` |
| Monitoring of workloads, nodes and namespaces (`workload.go`, `util.go` `monitored`, `crutil.go`, the mappings) | the same per kind of object | `…CreatedOrUpdated`, `…Deleted`, `monitored`, `reconcile…`, `delete…` | `WorkloadMonitor` |
| Housekeeping of custom resources (`housekeeping.go:166-212`) | the list it is working on | list from the lister, look the owner up in its lister, delete | `WorkloadMonitor` |
| Default groups (`EnsureDefaultHostgroups` in `infra.go`, `MonitorCluster`, `MonitorNodesGroup`, `MonitorInfrastructureGroup`) | what it has read | get, create or update fixed resources every 60 s | `DefaultGroups` |
| Component statuses (`RefreshComponentStatutes` in `infra.go`, `MonitorComponentStatus`) | the list it is working on, what it has read | list, reconcile every 60 s, never delete | `ComponentStatuses` |
| Hosts and their services (`icinga.go`, `housekeeping.go`, as Icinga ties them) | two of the synchronisations | the same, with refusals and cascades in Icinga | `HostServices` |
| Names and vars (`MakeObjectMeta`, `MakeVars`, `mergeVars`, `empty`, the mappings' names) | none | pure functions | `Names` |
| From the cluster to Icinga (all of the above for one kind of workload) | both caches, both queues, both workers | the composition | `Pipeline` |
| Start-up (`kubernetes-icinga.go`, `Start`, `Run`) | none that survives | order of the goroutines, wait for the caches, restart | in the modules above |
| Events (`MakeEvent`) | none | reports only, every caller ignores its error | not modelled |
| Generated clients, informers, types; `deploy/`, `hack/` | – | – | environment only |

**How they interact.** Four goroutines come from `main` (`RefreshComponentStatutes`,
`EnsureDefaultHostgroups`, `IcingaHousekeeping`, `Start`). `Start` starts the
informers: for each of ten kinds a reflector that keeps the lister's cache, a
listener goroutine that runs the event handlers one by one, and, once all ten
caches have synced, one worker goroutine. AddFunc and UpdateFunc only put the key
into the kind's queue. DeleteFunc makes its calls itself, in the listener's
goroutine, beside the worker. The parts share nothing but the listers, the
custom resources in the Kubernetes API, and the objects in Icinga.

**What is hard.** Every call to a server is a point where the other goroutines,
users and other clusters run. A key whose processing failed is *not* put back
into the queue: what was lost comes back by the 60-second resync only. The
decision to write is taken on what an earlier call returned. Deletions are not
retried by the handler, so housekeeping has to find the remains, from lists and
caches that may be old. A restart loses everything. `PROJECT.json` lists these
hazards line by line.

**What makes a component correct.** For the synchronisation: whatever is removed
from Icinga was asked for by a resource that has been absent; nothing is written
but what a resource has said; no change is lost while nothing fails; in the end
Icinga agrees with the custom resources and holds no orphan; other clusters'
objects are left alone. For the monitoring of objects: the custom resource of an
object that nothing excludes is never taken away; no change is lost; in the end
the custom resources are exactly those that shall be there. From end to end: the
same between a workload and its service in Icinga. For the names: two objects that
shall be monitored do not get one resource, or one Icinga object, between them.

## 2. Modules

| Module | What it is |
|---|---|
| `IcingaSync` | informer → listener → queue → worker → Icinga, delete handler and housekeeping, for **one** kind of resource (`Kind` is HostGroup, Host or Check; the three kinds share no state below the two servers). One action per call to a server. |
| `IcingaMirror` | the abstract specification: resources change; objects that are images of a specification their resource has had are written; names that an absent resource has asked for are cleared; nothing else. No threads, caches, queues, failures or restarts. |
| `IcingaSyncHistory` | `IcingaSync` with history variables (`past`, `gone`, `kept`), the refinement `ImplementsMirror`, the inductive invariant `IInv`, and the safety properties that speak of the past. |
| `IcingaSyncBaseProofs` | machine-checked proof of type correctness and the frames of its actions, without the history. |
| `IcingaSyncProofs` | machine-checked proofs of `IInv`, of the refinement, and that no change is lost on the way from the informer to Icinga. |
| `WorkloadMonitor` | objects of one kind (workload, node or namespace) → custom resources, with both mappings, the delete handler and `CrHousekeeping`. |
| `MonitorContract` | the abstract specification of `WorkloadMonitor`: objects change, users edit; a resource is created only where there is none, written only from a version of its object that was fit to be monitored, and removed only for a reason. |
| `WorkloadMonitorHistory` | `WorkloadMonitor` with history variables (`past`, `claimed`), the refinement `ImplementsContract` and its inductive invariant `ContractInv`. |
| `WorkloadMonitorProofs` | machine-checked proofs of its type correctness, that resources go with a reason only, that neither a change nor an exclusion is lost, and of the refinement. |
| `DefaultGroups` | extends `WorkloadMonitor` (namespaces): the goroutine that keeps a default group's custom resource beside the worker and the delete handler of a namespace of the same name. |
| `DefaultGroupsProofs` | machine-checked proof of its type correctness. |
| `ComponentStatuses` | extends `WorkloadMonitor` (nodes): the goroutine that reconciles a custom resource for each component status, beside nodes that may have the same name, and beside `CrHousekeeping`. |
| `ComponentStatusesProofs` | machine-checked proofs of its type correctness and that statuses are kept. |
| `HostServices` | two instances of `IcingaSync`, a Host and a Check on it, over an Icinga server that refuses a service without its host and removes a host with its services; one goroutine does both housekeepings in turn. |
| `HostServicesProofs` | machine-checked proofs of its type correctness and that a service goes with a reason only. |
| `Pipeline` | composes `WorkloadMonitor` with an instance of `IcingaSync` over the same Checks: workload → Check → service (host mapping). |
| `PipelineProofs` | machine-checked proofs that the composition keeps what `WorkloadMonitor` promises, hides no workload without reason, and loses no change from end to end. |
| `Names` | names of custom resources and Icinga objects under both mappings, and vars, as operators. |
| `NamesProofs` | machine-checked proofs of which objects can share a name, and which vars win. |
| `MC…` | constants for TLC: initial values and symmetry. |

### State and actions of IcingaSync

| Model | Code |
|---|---|
| `cr`, `icinga` | the API objects of one kind; the Icinga objects of the corresponding kind, under their full name `Tag.name` |
| `cache`, `synced` | the informer's indexer (the lister reads it), `HasSynced` |
| `pending` | the buffer of the informer's listener (`DeltaFIFO` + `processorListener`) |
| `queue` | the work queue; a key is in it once, however often it is added |
| `worker` | the goroutine in `processNextX → XCreatedOrUpdated`: the copy it took from the lister and whether it is about to get, create or update |
| `handler` | the listener's goroutine inside `XDeleted` |
| `housekeeper` | the housekeeping goroutine: entries of the list not yet looked at, and the name it is about to delete |
| `InitialList`, `Deliver`, `Resync` | first list; watch event or re-list; 60-second resync |
| `HandleSync`, `HandleDeleted`, `DeletedGet`, `DeletedDelete` | the event handlers |
| `ProcessNext`, `CreatedOrUpdatedGet/Update/Create` | the worker |
| `HousekeepingList/Get/Delete/Sleep` | `IcingaHousekeeping` |
| `Restart` | the process dies and starts again |
| `ResourceChanges`, `OtherClusterWrites` | users, the mapping, the garbage collector; another cluster's controller |

`WorkloadMonitor` is laid out the same way. There the worker has an extra step
(`GetNamespace`, the call in `monitored`), the delete handler makes one call and
is one step, the informer of the custom resources (`hosts`, `hostsSynced`) feeds
`CrHousekeeping`, and a user may edit, create or delete custom resources.

`ComponentStatuses` adds `listed` (what the API lists) and `refresher` (the list in
work, what was read), with `RefresherList/Get/Create/Update/Sleep`; `Others` is a step
of `WorkloadMonitor`. The statuses and the nodes have one set `Ids` of resource names,
as a node `cs-x` and a status `x` share the resource `kube-system/cs-x`.

`Pipeline` has the variables of `WorkloadMonitor` and those of one `IcingaSync`
(`icinga`, `crPending`, `crQueue`, `crWorker`, `crHandler`, `sweeper`). The instance
reads `crs` as its `cr` and `hosts` as its `cache` (through `AsSpec`), so a delivery,
a first list and a restart are steps of both (`ResourceDelivered`, `ResourcesList`,
`RestartAll`); every other step is one of the two beside a resting other. Calls of
both count on the same bound of failures.

`HostServices` has the variables of `IcingaSync` twice, `host` and `service` for its
`icinga`, and `turn`, which of the two lists housekeeping is at. `Cascade` is what
Icinga does to the services when a host goes, `ServiceRefused` what the worker sees
of a service whose host is not there.

`DefaultGroups` adds the variables `ensurer` (what `EnsureDefaultHostgroups` has read)
and `versionRequired` (the kind of API server, which no step changes), and
`EnsureGet`, `EnsureCreate`, `EnsureUpdate`; every other step is one of
`WorkloadMonitor`. The groups take turns in the goroutine and share nothing, so one of
them is modelled; another one only makes the rounds longer. A round whose reads fail,
or that finds the group in order, changes nothing and is no step.

### Decisions of abstraction

- *Watch.* `Deliver` brings the cache of one key to what the API holds now. How
  late it comes is arbitrary, so several changes of a key can collapse into one
  notification, or a deletion and a re-creation into an update; this covers lag,
  a lost watch with a new list, and tombstones. Order between keys is arbitrary.
- *Queue.* There is one worker per queue and a failed key is not added again, so
  the rate limiter never acts; a set with fairness for each key stands for the
  FIFO queue. A key added while it is being processed is processed again.
- *Resync.* The resync waits behind what is pending in the listener's buffer and
  is a step of an idle listener. It only adds keys of cached resources.
- *Failed calls.* Each call may fail (`Fault`, bounded by `MaxFaults`) without an
  effect. A call that took effect but whose answer was lost goes the way of the
  call that succeeded: the code only logs and writes an event afterwards. A failed
  list ends a housekeeping pass at once, which is no change of state.
- *Start of the workers.* `Run` waits for all informers; `IcingaSync` waits for
  this kind's only and so allows more. `WorkloadMonitor` needs both of its.
- *Data.* vars, notes and notes URL of a specification are one value, as the code
  compares them alike; the check command and the hostgroups are apart, as the
  code does not. `kubernetes_cluster` and `kubernetes_owner` are part of an Icinga
  object. An object of this cluster without an owner, or with one that cannot be
  parsed, is skipped by housekeeping just like another cluster's.
- *Icinga.* Get, Create (fails if the name is taken), Update (fails if it is not),
  Delete, List, as the code uses them. A name is a full name; a service's name
  contains its host. In `IcingaSync` a refused creation is a failed call; that a
  service needs its host is modelled in `HostServices`, which takes Icinga to remove
  a host with its services (the code deletes hosts that have services and checks
  for no error but the call's own).
- *Restart in `HostServices`* is not an action: whatever a restart can find, in the
  cluster and in Icinga, is among the initial states.
- *`Pipeline`* takes a Check's Icinga name, group and command for its own and fixed,
  as `MonitorWorkload` makes them from namespace, kind and name. Users' edits of the
  Checks, other clusters and deletion timestamps are left to the two parts, which have
  them. The host mapping is the one composed: its Checks have no `CrHousekeeping`,
  which keeps the state space within TLC's reach.
- *Names* are sequences of tokens: the marks `-`, `.` and `!`, and the words between
  them, which contain no mark, so two names are equal when their sequences are.
- *Kubernetes API.* An update carries the resource version that was read; the model
  compares the resource itself, which differs only if the resource was changed to
  and fro between the two calls, where it allows one more success.
- *`excluded`* in `WorkloadMonitor` stands for the annotation or an owner reference
  (both end `monitored` at once). Users' edits do not touch owner references or the
  cluster tag of a resource.
- *Updates without a version.* `MonitorNodesGroup` of the hostgroup mapping updates
  with a resource it built itself, without the version of the one that is there. An API
  server may insist on a version, and that of a custom resource definition, which is
  what `deploy/crd.yaml` installs, does. The model takes either kind of server, chosen
  in the initial state (`versionRequired`). Where the update is refused, a default group that
  a user has renamed stays renamed, and `EventuallyGrouped` promises that it exists.
- *Garbage collection* of custom resources by owner reference is among the edits of
  `UserEdits`.

## 3. Runs

All bounds count events of the environment, never steps of the controller.

| Run | Instance | Shows |
|---|---|---|
| `host_single` | 1 Host, 2 names, a check command or none, 2 changes, 1 failed call, 1 restart | `IInv`, `NothingLost`, `QuietInSync`, `ImplementsMirror`, `EventuallyInSync`, `EventuallyNoOrphans` |
| `check_pair` | 2 Checks for 1 service, 2 changes, 1 act of another cluster, 1 failed call, 1 restart | `IInv`, `ImplementsMirror`, both liveness properties where Checks take over foreign services |
| `workload_hostgroup` | 1 workload, hostgroup mapping, 2 changes, 1 edit by a user, 1 failed call, 1 restart | `TypeOK`, `QuietUnmonitored`, `CondemnedWithReason`, `EventuallyMonitored`, `EventuallyExcluded`, `EventuallyNoOrphans` |
| `monitor_contract` | the same with the history of the workload, without a restart | `ContractInv`, `ImplementsContract`: every write to a custom resource is one the contract allows |
| `pipeline` | 1 workload with and without notes, host mapping, 2 changes to it or its namespace, 1 restart, no failed calls | `QuietShown`, `QuietMonitored`, `HiddenWithReason`, `RemovedWithReason`, `EventuallyShown`, `EventuallyHidden`: the same promises from end to end |
| `default_groups` | 1 group and the namespace of its name, hostgroup mapping, either kind of API server, 2 changes, 1 edit by a user, 1 failed call, 1 restart | `GroupTypeOK`, `EventuallyGrouped`, `EventuallyMonitored`: the two writers of one resource agree in the end |
| `component_statuses` | 1 resource name for a status and a node, 2 kinds of resource left from an earlier run, 1 change, 1 edit by a user, 1 failed call, 1 restart | `StatusTypeOK`, `EventuallyRefreshed`, `StatusKept`, `EventuallyNoOrphans` |
| `host_services` | 1 Host and 1 Check on it, with anything of an earlier run, 2 changes, 1 failed call | `TypeOK`, `EventuallyShown`, `EventuallyClean`, `ServiceKept` |
| `foreign_delete` | violation of `ForeignLeftAlone` | the delete handlers log "not managed by us" and delete all the same |
| `rename` | violation of `EventuallyNoObsolete` | a changed `spec.name` leaves the old object for ever; from an empty Icinga, so that the trace has the change |
| `host_groups` | violation of `EventuallyGroupsMirrored` | changed hostgroups of a Host never reach Icinga |
| `startup_housekeeping` | violation of `RemovedWithReason` | housekeeping before the caches have synced deletes a resource whose owner is there |

*Why the bounds are enough.* The races are between at most three threads over one
key and one Icinga name, so one key with two changes (delete and create again,
or rename twice) already meets each of them at every point; the second key of
`check_pair` is there for what resources do to each other by a common name; what several
resources do with several names is proved. One failed call and
one restart, each at any point, put a failure between any two steps; the safety
results for every number of each are proved (section 5). Initial states include
resources and objects left from an earlier run, foreign objects, and objects whose
owner is gone. `pipeline` starts from an empty Icinga and gets remains by its restart,
and leaves failed calls to the parts: its liveness holds with none, its safety is
claimed only with none, and the proofs need no bound. `monitor_contract` starts with
filled or empty API and empty caches, as after a restart, and its proof covers those at
any point. `IInv`, `ImplementsMirror`, `ContractInv` and `ImplementsContract` are proved for
all sizes; the liveness results rest on these instances.

Deadlock is checked, except in `pipeline` and `default_groups`. With the host mapping
and for namespaces `CrHousekeeping` does not loop, and when no object is left or every
group is in order, the controller waits for events.

*Known behaviour without a run.* A failed read of a namespace counts as "not to be
monitored" (`util.go:72`), so one failed call deletes the custom resource of a workload
that nothing excludes; `RemovedWithReason`, `ImplementsContract` and `QuietMonitored` are
claimed of workloads until a call has failed, and `EventuallyMonitored` says that the resource comes
back. `NodeCreatedOrUpdated` never calls `monitored`, so the nomonitoring annotation
does nothing on a node (`Excluded`); `EventuallyExcluded` is checked for workloads. The
repair of a renamed default group (`mapping_hostgroup.go:62` and `:103`) is refused by the API
of a custom resource definition each time, so there the group keeps the name it was given.
`CrHousekeeping` deletes the resource of an owner that is back between its lookup and its
deletion (`housekeeping.go:194`); it comes back by the next resync (`EventuallyMonitored`).

*What the violated properties say* is quoted in `PROJECT.json` from the code's own
comments, log messages and README; each run's trace is the shortest history.

## 4. Fairness

`FairSpec` assumes: the first list happens; the watch delivers in the end (`WF` on
`Deliver` for each key: a broken watch is followed by a new list); the resync
period comes round (`WF` on `Resync`: `NewSharedInformerFactory(…, 60s)`); each
goroutine goes on (`WF` on the listener, on the worker's calls and on
housekeeping, which loops for ever; a call returns, perhaps with an error); and
the FIFO queue lets no key wait for ever (`SF` on `ProcessNext` for each key, as
other keys may keep the worker busy). Nothing is assumed of users, other clusters,
failures or restarts; the bounds make these stop, and the liveness properties say
what happens then.

`PipelineFairSpec` assumes the same of each thread of both parts, with one delivery to
the shared cache of the Checks; the two workers wait for both caches (`Run` waits for
all informers before it starts any). `FairSpec` of `HostServices` has one `WF` on its
housekeeping, as the hosts and the services take turns in one goroutine. `StatusFairSpec`
adds `WF` on `RefreshComponentStatutes`, a loop with a sleep of 60 seconds.

`GroupFairSpec` adds `WF` on `EnsureDefaultHostgroups`, a loop with a sleep of 60
seconds. With the hostgroup mapping it repairs a wrong name only, so it leaves the
specification the namespace's worker wrote; with the host mapping both compare the
whole specification and overwrite each other for ever, and no run claims otherwise.
Nor is anything claimed for a namespace of a default group's name that excludes
itself from monitoring: its worker deletes the group at every resync.

With two resources of the same Icinga name the controller overwrites the object at
every resync; the properties promise something only for a resource that has its
name to itself, and for every resource again when the other one is gone.

## 5. Proofs

`IcingaSyncBaseProofs` and `IcingaSyncProofs` prove, for every kind, all sets of resources,
names and values, and all bounds, from the assumptions on constants in `IcingaSync` alone (`None` is
not a value, the two tags differ, initial values have their types):

- `TypeCorrect`: `Spec => []TypeOK`.
- `Invariance`: `HSpec => []IInv`.
- `Implementation`: `HSpec => ImplementsMirror`.
- `CacheFollowed` and `NoChangeLost`: `HSpec => []NothingLost`, `HSpec => []QuietInSync`.

The argument. What matters is that *nothing is removed that should stay*: an object
whose resource has always been there is not removed. `ImplementsMirror` by itself
is not inductive, for what a thread deletes was decided on several steps ago. `IInv`
therefore carries the reason along with every thread: a deletion waiting in the
listener's buffer names a resource that has been absent and a specification it has
had; the handler and the housekeeper hold a name such a resource asked for; the
housekeeper's list holds pairs of a name and an owner that once asked for it, which
holds because every object of this cluster in Icinga is the image of a
specification of its owner (`ObjectsRemembered`); the worker's copy is a
specification its resource has had; and a worker about to update a host or a host
group does not stand before a name another cluster has held all along
(`WorkerRemembered`, `KeptForeign`), even if a time-out made it believe that the
name was free, as it then creates and Icinga refuses. `past` and `gone` only grow,
so the reasons survive every step of the others (`Remembering`, `Undisturbed`).
`StepMirror` then maps each step to a write, a removal, a change, a step of the
other cluster, or a stutter.

`NoChangeLost` says that the resync is not needed while nothing fails. The
invariant is about the *cache*, not about the resource: a resource may change to and
fro while its informer lags, and nobody has to act then. `NothingLost` says that
what the cache holds is shown, or in the worker's hands with a write that will
succeed (`InHand`), or announced (`Waiting`: the key is in the queue or a
notification is pending), and that a worker on an older copy is always followed by
another pass. Writes and removals by others cannot spoil what is shown, because
`IInv` ties each of them to a resource that asked for the name, and the name is the
resource's own (`OwnNameIsOwn`). This is exactly where a queue that dropped a key
being processed would break the proof, and does break the run (`HandleSyncSkipsBusy`).

`CacheFollowed` states that invariant, `NothingLost`, as a theorem of its own: it is
what holds at every moment, `QuietInSync` what is left of it at rest.

### WorkloadMonitor

For every kind of object, set of names and bound:

- `TypeCorrect`: `Spec => []TypeOK`.
- `RemovalsHaveReason`: `Spec => RemovedWithReason`, if `~Housekept`.
- `CondemnationsHaveReason`: `Spec => CondemnedWithReason`.
- `QuietMeansMonitored`: `Spec => []QuietMonitored`, if `~Housekept`.
- `QuietMeansUnmonitored`: `Spec => []QuietUnmonitored`.
- `ContractInvariant`: `HSpec => []ContractInv`.
- `ContractKept`: `HSpec => ImplementsContract`.

The hypothesis `~Housekept` is what the code needs: where `CrHousekeeping` runs it may run
before the objects' informer has synced and remove anything (run `startup_housekeeping`).
For both cases `CondemnationsHaveReason` says that after the first list it condemns only
with a reason, however old its own list and the lister of the owners are. That one failed
read of a namespace removes the resource of a workload is an exception the property makes
itself. `Grounds` says that
whatever a thread is about to delete belongs to an object that has at some time not
been one to monitor: deletions in the listener's buffer, a worker in "delete", a
worker whose copy is excluded. `Progress` is the counterpart of `NothingLost`: the
resource says what the cache says, or the worker has the cache's copy in hand, or the
key is announced; and a worker on an older copy is followed by another pass (`Served`).

`QuietUnmonitored` is the other direction, an object that is excluded or being deleted
has no resource at rest, and needs no `~Housekept`: housekeeping only removes. Its
invariant (`Unmonitoring`) follows the cache's copy of such an object: the resource is
gone, or the key is announced, or the worker has a copy in hand with which it will
remove it, or with which it may still write, and then the key is in the queue again.

`ImplementsContract` relates the monitor to `MonitorContract`, which knows the API, the
users' edits and what objects have been, and no threads. As with the mirror, a write
was decided on several steps ago, so `ContractInv` carries the grounds along: copies in
the cache and in the worker's hands are versions the object has had
(`CacheRemembered`, `WorkerRemembered`), a worker about to read or write the resource
holds one that was fit, names on housekeeping's list have had a resource with its owner
reference (`OwnersRemembered`), and `Grounds` as above. The step cases then follow from
what the API does: a creation fails where something is, an update where nothing is or
where it was changed in between. The contract only says what may
happen; that the resource is there in the end is liveness and stays with TLC.

### Hosts and their services

- `TypeCorrect`: `Spec => []TypeOK`.
- `ServiceGoesWithReason`: `Spec => ServiceKept`.

`HostServices` instantiates `IcingaSync` twice, so `HostServicesProofs` instantiates
`IcingaSyncBaseProofs` in the same two ways and cites its lemmas for each: what the one
synchronisation keeps of its shape (`NextTypeOK`), when it may begin to delete
(`DeletingStep`, `Deleting`) and who may remove an object (`RemovalFrom`) are proved once.
`Parts` says that each step of the composition is a step of the Host's part followed by
the cascade, a step of the Check's part, or a refusal. `KeptInv` says that a service has a
host, which is what the refusal and the cascade are for, and that nobody has a deletion
in hand before the resource it follows was absent; as the parts share one housekeeping
goroutine and one count of failures only, the reasons of one survive the other's steps.

### Component statuses

`StatusTypeCorrect` (`StatusSpecification => []StatusTypeOK`) and `StatusesAreKept`
(`StatusSpecification => StatusKept`), with both mappings and housekeeping running. The
invariant follows the owner reference: a resource of a name that no node has had, its
copy in the lister and what the refresher has read have none, and whatever the threads
of the nodes have in hand has a name that a node has had.

### Default groups

`GroupTypeCorrect`: `GroupSpec => []GroupTypeOK`, for every group and either mapping:
what the goroutine is about to update is always a resource it has read, and it writes
the resource of its group and no other (`EnsurerWrites`).

### Pipeline

- `PipelineMonitors`: `PipelineSpec => []QuietMonitored`. Each step is a step of
  `WorkloadMonitor` without edits or leaves its variables alone but for the count of
  failures (`Parts`, `SyncAloneFrame`), so its invariants carry over (`Base`).
- `PipelineRemovesWithReason`: `PipelineSpec => RemovedWithReason`, by `CheckStays`.
- `PipelineHidesWithReason`: `PipelineSpec => HiddenWithReason`. `Safe(i)` says of a
  workload that was always wanted that no thread of the synchronisation has a ground to
  remove its service: the cache holds no Check that the API does not, no deletion is
  pending or in the handler's hands under its name, and what housekeeping has listed
  under its name belongs to a Check that is there. It rests on `CheckStays`, that the
  Check itself is never removed, from `WorkloadMonitorProofs`.
- `PipelineLosesNothing`: `PipelineSpec => []QuietShown`. `SyncServed` is `Served` once
  more, for the second queue and cache; that nobody else writes the service is
  `OwnWorkerWrites`, which needs `Safe`. At rest `Served` gives the Check as the
  workload is, `SyncServed` the service as the Check is.

These hold for every number of workloads, failures (the properties speak of the time
before the first), restarts and changes, from any initial state in which a service
has its Check.

### Names

`SharedResources` and `SharedIcingaObjects` say exactly which two objects can be given
one custom resource or one object in Icinga, under either mapping: a default group and
a namespace of its name (this is what `DefaultGroups` models), and a node whose name
is that of another object's resource, in kube-system, respectively under a namespace
called nodes (`ComponentStatuses` models the first). Otherwise the names are injective,
as `WorkloadMonitor` and `Pipeline` take them to be. `OwnVarsWin` and `MappedVarsWin`
say that configured or user-given vars never hide those that the controller sets and
later decides by.

### Only model-checked

The liveness properties (fairness and `ENABLED` are beyond the prover) and what the
violation runs show. Every invariant and every action property of a passing run is
proved.

### Next

- `HostServices`: that no change is lost at rest, with the exception of a service that was
  refused since its last pass, which waits for the resync.
- `DefaultGroups`: that nobody but users and a namespace of its name removes a group.
- `Pipeline`: an abstract specification from workloads to services. `IcingaMirror` does not
  fit as it is: an annotation of the namespace changes what all its workloads ask for at
  once, and a Check may lag behind on a copy that was fit.

## 6. Not modelled, and why

- *Events* (`MakeEvent`): they only report, and every caller ignores their error.
- *Reading the environment* in `main`: it ends in a panic or in the constants `Mapping`,
  `Tag` and the default vars.
- *Generated clients, listers, informers, types* and the manifests: what they do for the
  controller is in the actions of the environment and of the informers.
- *A `kubernetes_owner` that is not a string* makes housekeeping panic; nothing in the
  repository writes one.
- *`UnmonitorComponentStatus`* is never called. (With the hostgroup mapping it would
  delete the resource of a node of the status's name: it leaves out the `cs-`.)
- *The hostgroup mapping from end to end* would be `WorkloadMonitor` with `CrHousekeeping`
  and two instances of `IcingaSync`; its state space is beyond TLC, and what it adds to
  `Pipeline` is in the runs `workload_hostgroup` and `host_services`.
