# A TLA+ model of the RocketMQ operator

This directory holds TLA+ specifications of the RocketMQ operator, from its
start and options to what it does to a cluster, TLC configurations that check
them on small instances, and TLAPS proofs of their most important safety
properties for instances of any size.
`PROJECT.json` maps every definition to the lines it models and lists runs,
mutants, findings, hazards and theorems.

## 1. The system

The operator is one Go process that keeps the children of every `BrokerCluster`
custom resource: per broker group *g* a headless Service `<name>-svc-g` and a
StatefulSet `<name>-g` with `membersPerGroup` replicas.

| part | source | state it keeps | operations |
|---|---|---|---|
| BrokerController | `pkg/controllers/cluster/controller.go` | none of its own: caches, queue, the locals of `syncHandler` | `syncHandler`, `updateClusterStatus`, `enqueueCluster`, `handleObject` |
| clusterUpdater | `cluster_control.go` | none | `UpdateClusterStatus` (PUT with retry), `UpdateClusterLabels` (no caller) |
| service, StatefulSet and pod control | `service_control.go`, `statefulset_control.go`, `pod_control.go`, `util/patch.go` | none | create, patch |
| informers and listers (client-go) | `vendor/.../shared_informer.go` | one cache per type | list, watch, resync, event handlers |
| work queue (client-go) | `vendor/.../workqueue` | queue, dirty, processing, heap, channel | Add, AddRateLimited, Get, Done, ShutDown |
| controller's life cycle | `controller.go` `Run` | workers | wait for the caches, work, shut down |
| process | `cmd/.../main.go`, `broker_operator.go`, `util/signals` | options, context, goroutines, wait group | start, cancel, exit |
| informer factories | `pkg/generated/informers` and client-go's | one informer per type | `InformerFor`, `Start` |
| API type | `apis/rocketmq/v1alpha1`, `api/cluster/util.go` | the custom resource | `EnsureDefaults`, condition helpers |
| templates | `resources/services`, `resources/statefulsets` | none | `NewHeadlessService`, `NewStatefulSet` |
| options | `options/options.go` | the configuration | defaults, file, flags |

How they interact: the informers' goroutines follow the API server and replace
objects in the caches; their handlers put the key of a cluster on the work
queue; five workers take keys and run `syncHandler`, which reads the caches
through the listers and writes to the API server. `syncHandler` also writes
*into* the cached BrokerCluster: defaults, the all-master override and, through
the pointer `GetClusterCondition` returns, the Ready status. Kubernetes' own
controllers change StatefulSet status and collect children of deleted clusters;
users edit, delete and create clusters at any time.

What is hard here: every read is of a cache that may be stale; every write may
fail, with or without taking effect; the shared cached object is mutated; the
status is stored by a PUT of the whole object; a name may change hands between
check and use; failed syncs are not requeued; Services have no event handler;
and the process may end between any two calls. `PROJECT.json` lists these as
hazards at their lines.

What correct means, part by part:

* process: the caches the workers read are the ones that were filled; one signal
  ends it, and it reports success only after the controller has shut down; the
  resync, on which recovery rests, is off only if the command line says so;
* queue and life cycle: an event is never lost; one worker per key; a cancelled
  controller comes to rest;
* syncHandler: children converge to the spec through faults, lost objects,
  restarts, deletion and re-creation; foreign objects are left alone; so do the
  pod templates, as far as a patch is sent;
* status: Ready is reported only when earned, and is reported in the end; a
  status update never undoes an edit of the user; transition times follow the
  transitions; and the operator's own updates do not keep it busy for ever.

## 2. Modules

| module | models | extends / uses |
|---|---|---|
| `BrokerClusters` | the resource and its children, defaults, override, owner test | – |
| `KeyQueue` | the work queue as one key sees it | – |
| `BrokerController` | `syncHandler`, handlers, informers, status update, API server, users, Kubernetes, restart, for one key | `BrokerClusters`, `KeyQueue` |
| `BrokerControllerProofs` | theorems about `BrokerController`: types, wake-ups, edits, specs | `BrokerController` |
| `ReadyProofs` | when a reported Ready is earned | `BrokerControllerProofs` |
| `TemplateProofs` | which edits reach the pod templates | `ReadyProofs` |
| `ClusterContract` | what a client of the API server may expect of the operator | `BrokerClusters` |
| `BrokerContract` | the mapping from `BrokerController` to `ClusterContract` | `BrokerController`, `ClusterContract` |
| `MCBrokerController` | sets of specs for TLC | `BrokerContract` |
| `ContractProofs` | `BrokerController` implements `ClusterContract` | `BrokerContract`, `BrokerControllerProofs` |
| `WorkQueue` | the vendored work queue with all its keys, heap and channel | – |
| `ControllerRun` | `Run`, `runWorker`, `processNextWorkItem`, cancellation; shows that `WorkQueue` implements `KeyQueue` for each key | `WorkQueue`, `KeyQueue` |
| `ControllerRunProofs` | theorems about `ControllerRun` | `ControllerRun` |
| `Conditions` | the status of one cluster down to the condition list, its times and the slices that hold it | `KeyQueue` |
| `ConditionsProofs` | theorems about `Conditions` | `Conditions` |
| `Operator` | `main`, options, signals, informer factories, start and exit of one process; shows that it runs the controller as `ControllerRun` assumes | `ControllerRun` |
| `MCOperator` | resync periods for TLC | `Operator` |
| `OperatorProofs` | theorems about `Operator` | `Operator` |

Definitions whose comment begins with "Mutant:" are faulty variants of the
definition after them; they are not part of any specification and serve to show
that each property can fail.

### BrokerController

State: `cluster`, `services`, `sets` are the API server's objects; `lastUid` and
`lastRV` what it has handed out; `clusterCache`, `serviceCache`, `setCache` the
informers' caches and `synced` which of them have listed; `sync` the frame of
`syncHandler`: the pointer the lister returned (`obj`), whether it is still the
object in the cache (`aliased`: a write through it then shows in the cache), the
loop index and counters, and for the status update the copy sent (`upd`), the
attempts made and whether the last error was a conflict. `unseen`, `asked` (every
demand there ever was, see `ClusterContract`) and `sync.full` are history
variables that no guard reads. `budget` counts disturbances.

| actions | code |
|---|---|
| `InformCluster`, `RelistCluster`, `Resync` | cluster handlers, controller.go:182–193, called by the shared informer; `Resync` is its periodic call of `UpdateFunc` with every object of the cache |
| `ListSets`, `InformSet` with `handleObject` | StatefulSet handlers, controller.go:195–214, 448–486 |
| `ListServices`, `InformService` | the Service informer, which has no handler |
| `GetItem`, `FinishItem` | processNextWorkItem, 257–287 |
| `SyncClusterGone`, `SyncGetCluster` | 302–318 |
| `ServiceFound`, `CreateService`, `CreateServiceFault` | first loop, 319–340 |
| `ServicesDone` | 342–357 |
| `SetFound`, `CreateSet`, `PatchSet` and their faults | second loop, 357–401 |
| `updateClusterStatus` | 403–434, util.go:26–66 |
| `PutAccepted` and `PutFault` with `StoreAttempt`, `PutRejected`, `Refetch` | cluster_control.go:46–64 with RetryOnConflict |
| `Restart` | the process ends, by a crash or because `Run` returned, and starts again |
| `EditCluster` … `CollectSet` | external: users, StatefulSet controller, garbage collector |

Abstractions, and why they keep the behaviour:

* One key. Clusters share nothing but the queue and the process, and
  `ControllerRun` shows that the queue treats each key as `KeyQueue` says and
  never gives it to two workers.
* A step is one loop body: cache reads and at most one API call. Reads of a
  cache commute with everything but the update of that very object.
* An informer step moves one cached object to the server's current version;
  versions in between are skipped, as a lagging watch may as well coalesce in
  effect. The handler runs in the same step; the delay of `AddRateLimited`,
  which always follows, contains the delay of the notification. A set deleted
  and made again counts as a delete and an add event.
* A fault is an error returned to the caller, with the write applied or not.
* resourceVersions are kept for the BrokerCluster only, where the code depends
  on them. A PUT of the status that is there already, which a retry can be,
  carries a transition time of its own and so makes a version, unless the two
  times fall into the same second: then nothing changes (`StoreAttempt` has
  both). Sets are compared by value: a patch carries neither version nor UID.
* The server rejects negative replicas; nothing else validates a spec.
  `membersPerGroup == 0` cannot be seen after `EnsureDefaults`, so the early
  return at controller.go:344 is dead code and has no action.
* Of a StatefulSet's pod template there are `image`, which stands for every
  field taken from the spec as it is, and `allMaster`, the environment variable
  the controller itself overrides. A patch is a merge patch made from the
  *cached* set: it sets the fields in which the new set differs from the cached
  one and leaves the others as the server has them (`MergedField`). It is sent
  only while the number of replicas is wrong. The empty status of the new set
  makes no difference: the patch does not touch a set's status.
* Events, logs, labels, names, ports and volumes are left out. The pod lister is
  only waited for at the start and is left out of `Informers`; `Operator` has
  it.

### ClusterContract

What the operator is to somebody who sees only the API server: no caches, no
queue, no worker. `cluster` is the UID of the BrokerCluster, what its spec asks
for once defaults and override are applied (`Desired`), and its Ready status;
`asked` collects every demand there ever was, as pairs of a UID and what that
incarnation asked for. Users and Kubernetes are free to do what they do. The
operator has four steps:

| action | promise | code |
|---|---|---|
| `MakeService`, `MakeSet` | only where there is none; owner, replicas and template come from one demand for that group, of the cluster that is there or of an earlier one (a cache may be stale) | controller.go:319–372 |
| `PatchSet` | the replicas of one demand, and of the template each field of that demand or what was there; never the owner or the status | controller.go:386–394 |
| `Report` | a Ready status, and nothing else of the object; never of a deleted one | cluster_control.go:46–64 |

`BrokerContract` maps the API server's object to what a client reads out of it
(`View`); children and demands are the same in both. `KeepsContract` says that
every step is one of the contract, and whose: a step that `syncHandler` goes on
from (`sync' # sync`) is one of the four or changes nothing that a client sees.
So the operator deletes no object and edits no spec; these are left to users and
Kubernetes.

### WorkQueue and ControllerRun

`queue`, `dirty`, `processing` are the fields of queue.go; `channel` and `heap`
those of the delaying queue; `worker[w]` says where a worker is: before its
start, at the head of `wait.Until`, blocked in `Get`, inside `syncHandler` with
a key, or ended. Time is a choice: an entry is due or is not. `RunReturns`
carries out the deferred `ShutDown`; as in the code it waits for nobody.

### Operator

`file` and `flags` are what the process is given; `opts` the options; `main`
where main and `app.Run` are; `handler`, `channel`, `cancelled` the signal
handler's goroutine, its channel of two and the context; `informers` the maps of
the factories and `held` which informer is behind each lister, `HasSynced`,
control and event handler of the controller; `starter` the goroutines that call
`Start`; `run` and `wg` the controller's goroutine and the wait group. An
informer is named by the request that made it, so that two informers of one type
would be told apart.

| actions | code |
|---|---|
| `NewOperatorOpts`, `OptionsFail`, `AddFlags`, `FlagsFail` | main.go, options.go: file, defaults, then flags |
| `BuildConfig`, `SetupSignalHandler`, `NewFactories` | broker_operator.go:48–64 |
| `NewBrokerController` | controller.go:135–217: one step per informer asked for |
| `GoController`, `GoFactories`, `ContextDone`, `Join` | broker_operator.go:66–95 |
| `Signal`, `FirstSignal`, `SecondSignal` | util/signals |
| `Start`, `Listed` | the factories' `Start`; the reflector's first list |
| `RunStarts`, `StartWorkers`, `RunReturns` | `Run` as its caller sees it |

The defaults are filled in after the file and before the flags, so a period of
zero or less on the command line is taken as it is, and one in the file is not:
the period that is asked for is that of the command line, else a positive one of
the file, else the default (`ConfiguredPeriod`). The factories ask for a
period drawn between the configured one and its double; zero or less is no
resync. The process may end at each step by an error, with the exit code of that
error. `LivesAsControllerRun` maps this state to that of `ControllerRun` with no
keys and no workers of its own: what is left is the context, the sync of the
caches and the stages of `Run`, whose order both modules have to agree on.

### Conditions

`BrokerController` keeps of the status whether Ready is absent, true or false.
`Conditions` has the list itself. `heap` holds the slices, and an object has the
address of its slice: `cached` and `cluster`, the pointer that the lister
returned, share one until the informer replaces the object, and
`updateClusterStatus` writes through it. `status` is the deep copy it compares
and sends.

A time is the second it falls in. `metav1.Time` is serialised as RFC 3339 without
a fraction (`vendor/k8s.io/apimachinery/pkg/apis/meta/v1/time.go:144–152`), so
two transitions within one second are stored under the same time, and a retry
with the status that is there may change nothing, in which case the server makes
no version (`Accepted`). The fraction that a time in memory has besides decides
nothing: `UpdateClusterCondition` compares two times only after it has copied one
from the other, or of conditions that differ anyway. "Now" is therefore the
second of the last time put into a status (`second`) or a later one.

Since times and resourceVersions are compared only for equality, a later second
is any time not in use and the next version any version not in use; slices
nobody refers to are emptied, and at the end of a sync the lister's slice gets
address 1 again, which renames it and is no step of the code. This makes the state space finite without a bound
on the length of a behaviour, which the properties about what holds in the end
need. Deletion, restarts and failed PUTs that are not stored are in
`BrokerController` and are not repeated here.

## 3. Runs

Bounds: `MaxGroups` groups, `RetrySteps` attempts (5 in the code; 2 is enough
for a retry and for its exhaustion; `ctl_rescale`, which is about the children of
two groups, makes one), `Budget` disturbances of the kinds the run
names, anywhere in the behaviour. Deadlock is checked except where the system
may stop for good: a deleted cluster, a cancelled controller.

| run | instance | shows |
|---|---|---|
| `ctl_safety` | an all-master spec of one group, one with a negative number of members and one with a negative number of groups; two of edit, delete, create, fault, crash, relist, foreign set | `TypeOK`, `NoLostWakeup`, `NoLostEdit` |
| `ctl_children` | 2 groups by default; one fault, crash or lost child | `ReadyIsEarned`, `ChildrenConverge` |
| `ctl_rescale` | one group of two brokers to two groups of one with a new image, or a failing broker | `RestIsConverged`, `ReadyConverges`, `TemplatesConverge`, `KeepsContract` |
| `ctl_recreate` | 1 group; two of delete, create, crash: a cluster that is deleted and made again, or one that is deleted around a restart | `ChildrenConverge`, `ReadyConverges`, `KeepsContract` |
| `run_queue` | 3 keys, 2 workers, channel of 2 | `TypeOK`, `QueueInv`, `OneWorkerPerKey`, `EachKeyIsAKeyQueue`, `EventsServed`, `Terminates` |
| `op_process` | every file and flags over one namespace and the periods −1, 0, 2 (default 3); two signals at any moment | `TypeOK`, `ResyncUnlessTurnedOff`, `WorkersReadFullCaches`, `SuccessAfterShutdown`, `ComesUp`, `OneSignalEnds`, `LivesAsControllerRun` |
| `cond_status` | new or reported-on cluster; three of readiness changes, edits and lost answers; 2 attempts | `TypeOK`, `CacheTellsTheTruth`, `UpdatesStop`, `StatusConverges`, `TimesFollowFlips` |

One group is enough for the safety properties because groups only meet in the
two sums of the readiness test, for which there are two. Two disturbances are
needed for deletion and re-creation, and for a conflict on a conflict. Three
keys and two workers let a key wait in the queue behind another while two are
processed, and a channel of two fills up. The periods are one of each kind the
code tells apart, and a second signal is the last one that makes a difference.
With three disturbances an edit and a change of readiness meet within one
update, and something still happens after it.

Runs whose property TLC refutes; each states what a comment of the code says:

| run | what TLC shows |
|---|---|
| `ctl_requeue` | a failed sync is logged and not requeued (comments controller.go:327, 367, 392); it waits for an event or the resync |
| `ctl_lost_status` | one failed status PUT, and the cluster is never reported Ready: the cached object has the new status already, so no later sync sees a change. A restart or a relist repairs it |
| `ctl_false_ready` | Ready is reported while a group has no broker: an empty set is a ready group, and a surplus broker elsewhere makes up the sum |
| `ctl_stale_patch` | two edits in short order: the second patch is made from a set that has not seen the first one, leaves its image and environment in place, and makes the replicas right, so that nothing patches the set again |
| `cond_times` | the stored transition time moves while the stored status stays (comment util.go:41): a sync works on an object that has not seen the last transition, its PUT conflicts, and the retry stores the same status with a later time |

`ReadyIsEarned` is checked twice on purpose: it holds while `membersPerGroup`
stays what it is (`ctl_children`) and fails when it is edited together with
`groupReplica` (`ctl_false_ready`). `ReadyConverges` holds through edits,
scaling, failing brokers, re-creation and restarts, and fails after one failed
PUT. `TimesFollowFlips` (`cond_status`) says what is true of the transition times
where `cond_times` refutes the comment: a flip is always stored with the second
of its sync, and only a retry moves the time of an unchanged status. `TemplatesConverge` is about edits that also change the number of brokers of
a group, and holds for one at a time (`ctl_rescale`); after two in short order a
controller with nothing to do may have left a wrong template behind
(`RestIsConverged`, which holds in `ctl_rescale` and fails in `ctl_stale_patch`).
`KeepsContract` is checked where sets are patched (`ctl_rescale`) and where one
cluster follows another (`ctl_recreate`; a re-creation uses up the two
disturbances, so it is not combined with a crash). `CacheTellsTheTruth` and
`StatusConverges` say of the writes into the cache what `ctl_lost_status` leaves
open: as long as a PUT fails only by conflict, or fails having been stored, they
do no lasting harm.

Disagreements met while modelling that have no run of their own:

* controller.go:219–222 says that `Run` waits for the workers to finish; it shuts
  the queue down and returns while a worker may be inside `syncHandler`.
* options.go:55–60 says that the values of the configuration file stand unless
  the command line overrides them; `AddFlags` (options.go:108) writes over the
  namespace in any case, so that a namespace of the file is lost where the
  command line gives none. No property states either.
* The status of a deleted cluster may be stored in its successor of the same
  name: the retry puts it into whatever object the lister has by then
  (cluster_control.go:54–64).
* controller.go:289 says that `syncHandler` attempts to converge the actual state
  with the desired one. The groups above a lowered `groupReplica` are never
  removed: both loops run below it only, and by `ImplementsContract` the operator
  deletes nothing.
* The set is patched by name (controller.go:373), so one that took the name after
  the cache was read is patched although the cluster does not control it.
* An edit that leaves the number of replicas alone never reaches the pod
  templates (theorem `TemplatesFrozen`).
* `EnsureDefaults` (helpers.go:56) puts the replication mode into `Properties`
  while statefulset.go:152 reads `Spec.ReplicationMode`, which stays empty.

## 4. Fairness

`BrokerController!Fairness`: weak fairness of each informer, of the resync, of
the queue's delay, of the worker, and per group of the StatefulSet controller
and of the garbage collector. The goroutines run until the process ends;
watches are re-established by the reflectors; delays are at most 1000 seconds;
every API call returns; and the resync period is positive, 12 hours unless
configured. `ChildrenConverge` really needs the resync: without it a failed
create of a Service is never repeated. Users, faults, crashes and relists are
under no obligation. `ControllerRun!Fairness`: weak fairness of the waiting
loop, of each due entry, of the caches' first sync, of `Run`, and of each
worker; nobody has to send an event or a signal.

`Operator!FairSpec`: weak fairness of main, of the signal handler, of the
controller, of each `Start`, and of each informer's first list while the context
is not cancelled. These are goroutines that nothing blocks for ever; that a list
succeeds in the end is needed for `ComesUp` only, `OneSignalEnds` holds without
the API server. `Conditions!FairSpec`: weak fairness of the informer, of the
queue's delay and of the worker. The resync is possible but not required.

## 5. Proofs

`BrokerControllerProofs` assumes of the constants: `MaxGroups` and `RetrySteps`
are positive, `Budget` is a natural number, every spec has at most `MaxGroups`
groups after defaults, and `None` is no object.

* `TypeCorrect` (`Spec => []TypeOK`). `TypeOK` is not inductive: the loops index
  `services` and `sets`, so one needs that every object a worker may hold or
  send asks for at most `MaxGroups` groups (`BoundsOK`), and that the pointers
  are set where they are followed and that an aliased pointer is the cached
  object (`FrameOK`). `TypeInv` is the conjunction; its proof has a lemma per
  group of actions, and `PatchType` says that a merge patch of two sets is a set.
* `WakeupsKept` (`Spec => []NoLostWakeup`). Inductive with `TypeInv`: the worker
  may write through its pointer, and only `FrameOK` says that this never brings
  a deleted object back into the cache.
* `EditsKept` (`Spec => NoLostEdit`). The invariant is `VersionsOK`: the cached
  object, the worker's pointer and the copy to be sent are no newer than the
  last resourceVersion, and where their resourceVersion is the server's they
  have its UID and ask for the same. It survives the writes into the cached
  object because defaults and override do not change what a spec asks for
  (`SpecOpsKeep`), and the server's writes because they take a fresh version
  (`FreshAgrees`).
* `SpecsKept` (`Spec => []SpecInv`). Every copy of the cluster, at the server, in
  the cache, behind the worker's pointer and in the PUT, asks for what some spec
  of the user asks for; and from its second loop on a sync reads the number of
  members that is asked for, defaults and override applied. Nothing in the code
  says so at one place: the defaults are written by one statement, the override
  by another, and both may come back through the server.

`ReadyProofs`, on top of these:

* `ReadyEarned` (`Spec => []ReadyIsEarned`), for an `M` such that every spec asks
  for `M` brokers in a group (`SameMembers`). That assumption is needed:
  `ctl_false_ready` is the counterexample without it. The invariant is
  `ReadyInv`: no set, at the server or in the cache, has more pods than `M`
  (`SetsOK`), so that the sum over the groups counted so far is at most
  `index * M`, and equal to it only if each of them was seen complete
  (`SumsOK`). `SetsOK` has to cover the sets that other syncs, earlier
  incarnations and other clients left behind; `NoPatch` shows that under the
  assumption no set is ever patched.

`TemplateProofs` has the two sides of the rule that only a set with the wrong
number of replicas is patched:

* `WholeEditsConverge` (`Spec => []RestIsConverged`), if edits are whole
  (`WholeEdits`: specs with the same number of members have the same template,
  and a field of the template that is ever edited has another value for every
  other number) and no other client takes the name of a set. The invariant
  `WholeInv` says that every set has replicas and template from one spec; it
  survives a patch from a stale set because a field the patch leaves out is one
  that is never edited (`PatchWhole`). The specs of `ctl_rescale` are whole; those
  of `ctl_stale_patch`, where an image comes back with a third number of members,
  are not, and the property fails.
* `TemplatesFrozen`: while all specs agree on the number of members, no step
  writes the template of a set that is there.

`ContractProofs` assumes besides that `None` is not what a client reads out of a
BrokerCluster:

* `ImplementsContract` (`Spec => KeepsContract`), a step simulation with one
  lemma per kind of step. Beyond `TypeInv`, `VersionsOK` and `SpecInv` it needs
  `AskedInv`: every copy of the cluster carries a demand that was made, demands
  are of UIDs that the server has given (so a new cluster is new), and the
  status to be sent is set before it is sent. `VersionsOK` is what makes a stored
  PUT a `Report`, one that makes no demand (`AskedRecorded`). The lemmas keep
  whose step it is: the worker's map to steps of the contract's operator, those
  of users and Kubernetes leave the frame of `syncHandler` alone, and those of the
  informers, the queue and a restart change nothing that a client sees.
* `ChildrenWereAskedFor`: every child that a BrokerCluster controls is that of a
  group which this incarnation asked for, proved from the contract's steps alone.

`ConditionsProofs` assumes a positive number of attempts and a budget; times,
versions and addresses are the finite sets of the module:

* `ConditionsTyped`, `CacheIsTrue` (`Spec => []CacheTellsTheTruth`) and `FlipsTimed`
  (`Spec => TimesFollowFlips`), from one inductive invariant, `CondInv`. Lists
  are empty or end in the Ready condition (`ShapeOK`), slices nobody refers to are
  empty, so that a later second and a free address always exist (`HeapOK`), an object of
  the server's version has its conditions unless the sync that wrote into it is
  about to send that very version (`TruthOK`), and a status still to be sent has
  the second of its sync and, on a first attempt that will be taken, differs from
  the server's in its status and not in its time alone (`FlipOK`).

`ControllerRunProofs` assumes a positive channel size and that the places of a
worker are distinct from each other and from keys.

* `TypeCorrect`, `QueueInvariant` (`Spec => []QueueInv`) and `OneWorker`
  (`Spec => []OneWorkerPerKey`), from one inductive invariant: each needs the
  other, and that no worker holds a key before `Run` starts them
  (`NotStarted`).
* `ImplementsKeyQueue` (`Spec => EachKeyIsAKeyQueue`): for any number of keys and
  workers the queue is, to each key, the `KeyQueue` that `BrokerController` and
  `Conditions` use. The step simulation (`KeyStep`) needs the two invariants: a
  key that `Get` hands out is not being processed, and one that `Done` gives back
  is.

`OperatorProofs` assumes that the periods are integers, that the default is
positive, and that the markers for "not given", "no file" and "invalid" are no
values.

* `TypeCorrect`, `Graceful` (`Spec => []SuccessAfterShutdown`) and `FullCaches`
  (`Spec => []WorkersReadFullCaches`), from one inductive invariant. `StagesOK`
  ties the wait group's counter to the stage of the controller's goroutine;
  `InformersOK` says that every lister, wait, control and handler of a type has
  the one informer in the factory's map, which the property itself does not say:
  the wait covers each informer only through one of its uses.
* `ResyncKept` (`Spec => []ResyncUnlessTurnedOff`), with the value that the
  options have at each stage on their way to the factories: the file's or the
  default, then the command line's if it has one (`OptionsOK`).
* `ProcessRunsController` (`Spec => LivesAsControllerRun`): every step maps to one
  of `ControllerRun` or to none. It rests on `StartOK`: no informer runs before
  `app.Run` has come to its wait, so the workers cannot start before that.

Only model-checked: what is about liveness (`ChildrenConverge`,
`ReadyConverges`, `TemplatesConverge`, `EventsServed`, `Terminates`, `ComesUp`,
`OneSignalEnds`, `UpdatesStop`, `StatusConverges`), which is outside the prover's
reach. Every invariant, action property and refinement that a passing run checks
has a theorem.

## 6. Plan

Done: the controller's core with the templates' fields, the queue, the life
cycle, the conditions, options and process, the contract of the controller, and
the theorems above. To come: the safety part of the convergence of the children
(what a sync that ends without an error leaves behind, as far as no other client
interferes), and the same for the status.

## 7. Not modelled

Labels, names, ports, volumes and the environment that depends on a group's index
alone: they are fixed when a child is made, and no control depends on them. The
length of delays and the rate limiter's counters: a delay is a choice, so no
property depends on them. `UpdateClusterLabels`, `PatchPod`, the factories'
`ForResource` and `WaitForCacheSync`, and the client's verbs other than `Update`:
they have no caller in the operator. The fake client, which only tests could use.
The broker image, its scripts and the deployment files, which hold none of the
operator's control logic.
