-------------------------- MODULE BrokerController --------------------------
(***************************************************************************)
(* The BrokerController of the RocketMQ operator for one BrokerCluster     *)
(* key, together with what it talks to: the API server, the three shared   *)
(* informers whose caches it reads, the work queue, the user, and the      *)
(* StatefulSet and garbage-collection controllers of Kubernetes.           *)
(*                                                                         *)
(* The worker reads the caches and writes to the API server; a cache       *)
(* follows the API server later, object by object, and an event handler    *)
(* puts the key on the queue when it does.  One worker at a time holds the *)
(* key, so the local variables of syncHandler are one record, sync.        *)
(***************************************************************************)
EXTENDS BrokerClusters, KeyQueue

CONSTANTS
    None,           \* no object
    MaxGroups,      \* bound on GroupReplica
    Specs,          \* the specs the user submits
    InitialSpecs,   \* the ones the operator may find when it starts
    RetrySteps,     \* retry.DefaultRetry.Steps: attempts of a status update
    Disturbances,   \* which disturbances happen (see Spend)
    Budget          \* bound on their number

Groups == 0 .. MaxGroups - 1

ASSUME ConstantsAssumption ==
    /\ MaxGroups \in Nat \ {0}
    /\ RetrySteps \in Nat \ {0}
    /\ Budget \in Nat
    /\ InitialSpecs \subseteq Specs
    /\ \A spec \in Specs : /\ spec \in BrokerClusterSpec
                           /\ EnsureDefaults(spec).groupReplica <= MaxGroups

ASSUME NoneAssumption ==
    /\ None \notin BrokerCluster
    /\ None \notin StatefulSet
    /\ None \notin Nat

VARIABLES
    cluster, services, sets,    \* the objects of the API server
    lastUid, lastRV,            \* the newest UID and resourceVersion it gave
    synced,                     \* informers that have delivered their list
    clusterCache, serviceCache, setCache,
    sync,                       \* the frame of syncHandler
    budget,                     \* disturbances left
    unseen,                     \* history: a cache event since a sync read it
    asked                       \* history: every demand there ever was

apiVars == <<cluster, services, sets, lastUid, lastRV, asked>>
cacheVars == <<synced, clusterCache, serviceCache, setCache>>
vars == <<apiVars, cacheVars, queueVars, sync, budget, unseen>>

Informers == {"clusters", "services", "sets"}

Idle == [pc |-> "idle", obj |-> None, aliased |-> FALSE, index |-> 0,
         readyGroups |-> 0, readyMembers |-> 0, full |-> {},
         target |-> "Absent", upd |-> None, tries |-> 0, conflict |-> FALSE, err |-> FALSE]

Frame ==
    [pc : {"idle", "get", "services", "sets", "update", "refetch", "return"},
     obj : BrokerCluster \cup {None},   \* the pointer the lister returned
     aliased : BOOLEAN,                 \* it is still the object in the cache
     index : Nat, readyGroups : Nat, readyMembers : Nat,
     full : SUBSET Groups,              \* history: groups seen complete
     target : ReadyStatus,              \* the status to write
     upd : BrokerCluster \cup {None},   \* the copy sent to the API server
     tries : 0 .. RetrySteps - 1, conflict : BOOLEAN, err : BOOLEAN]

ApiTypeOK ==
    /\ cluster \in BrokerCluster \cup {None}
    /\ services \in [Groups -> Nat \cup {None}]
    /\ sets \in [Groups -> StatefulSet \cup {None}]
    /\ lastUid \in Nat
    /\ lastRV \in Nat
    /\ asked \subseteq [uid : Nat \ {Foreign}, want : BrokerClusterSpec]

CacheTypeOK ==
    /\ synced \in SUBSET Informers
    /\ clusterCache \in BrokerCluster \cup {None}
    /\ serviceCache \in [Groups -> Nat \cup {None}]
    /\ setCache \in [Groups -> StatefulSet \cup {None}]

(* Every variable has its type.  In particular the loops index existing    *)
(* groups only, replicas and broker counts never become negative, and a    *)
(* status update makes at most RetrySteps attempts.                        *)
TypeOK ==
    /\ ApiTypeOK
    /\ CacheTypeOK
    /\ QueueTypeOK
    /\ sync \in Frame
    /\ budget \in 0 .. Budget
    /\ unseen \in BOOLEAN

(* The history variable: what the cluster of a UID asks for.               *)
DemandOf(object) ==
    IF object = None THEN {}
    ELSE {[uid |-> object.uid, want |-> Desired(object.spec)]}

(* The user created the BrokerCluster, and the operator has just started.  *)
Init ==
    /\ \E spec \in InitialSpecs :
          cluster = [uid |-> 1, rv |-> 1, spec |-> spec, ready |-> "Absent"]
    /\ services = [g \in Groups |-> None]
    /\ sets = [g \in Groups |-> None]
    /\ lastUid = 1 /\ lastRV = 1
    /\ synced = {}
    /\ clusterCache = None
    /\ serviceCache = [g \in Groups |-> None]
    /\ setCache = [g \in Groups |-> None]
    /\ QueueInit
    /\ sync = Idle
    /\ budget = Budget
    /\ unseen = FALSE
    /\ asked = DemandOf(cluster)

(* Everything that disturbs the operator is paid for from one budget, so a *)
(* run explores every mix of at most Budget of the kinds it names.         *)
Spend(kind) ==
    /\ kind \in Disturbances
    /\ budget > 0
    /\ budget' = budget - 1

-----------------------------------------------------------------------------
(* The user, and other clients of the API server.                          *)

(* An accepted write of the BrokerCluster takes the next resourceVersion.  *)
WriteCluster(object) ==
    /\ lastRV' = lastRV + 1
    /\ cluster' = [object EXCEPT !.rv = lastRV + 1]

EditCluster(spec) ==
    /\ cluster # None
    /\ spec # cluster.spec
    /\ Spend("edit")
    /\ WriteCluster([cluster EXCEPT !.spec = spec])
    /\ asked' = asked \cup DemandOf(cluster')
    /\ UNCHANGED <<services, sets, lastUid, cacheVars, queueVars, sync, unseen>>

DeleteCluster ==
    /\ cluster # None
    /\ Spend("delete")
    /\ cluster' = None
    /\ UNCHANGED <<services, sets, lastUid, lastRV, asked, cacheVars,
                   queueVars, sync, unseen>>

CreateCluster(spec) ==
    /\ cluster = None
    /\ Spend("create")
    /\ lastUid' = lastUid + 1
    /\ WriteCluster([uid |-> lastUid + 1, rv |-> 0, spec |-> spec,
                     ready |-> "Absent"])
    /\ asked' = asked \cup DemandOf(cluster')
    /\ UNCHANGED <<services, sets, cacheVars, queueVars, sync, unseen>>

(* Somebody deletes a child, or takes the name of one.                     *)
LoseService(g) ==
    /\ services[g] # None
    /\ Spend("loseService")
    /\ services' = [services EXCEPT ![g] = None]
    /\ UNCHANGED <<cluster, sets, lastUid, lastRV, asked, cacheVars, queueVars,
                   sync, unseen>>

LoseSet(g) ==
    /\ sets[g] # None
    /\ Spend("loseSet")
    /\ sets' = [sets EXCEPT ![g] = None]
    /\ UNCHANGED <<cluster, services, lastUid, lastRV, asked, cacheVars,
                   queueVars, sync, unseen>>

ForeignSet(g) ==
    /\ sets[g] = None
    /\ Spend("foreign")
    /\ \E image \in Images :
          sets' = [sets EXCEPT ![g] = [owner |-> Foreign, replicas |-> 1,
                                       image |-> image, allMaster |-> FALSE,
                                       current |-> 0, ready |-> 0]]
    /\ UNCHANGED <<cluster, services, lastUid, lastRV, asked, cacheVars,
                   queueVars, sync, unseen>>

-----------------------------------------------------------------------------
(* Kubernetes: the StatefulSet controller and the garbage collector.       *)

SetStatus(g, current, ready) ==
    /\ sets' = [sets EXCEPT ![g].current = current, ![g].ready = ready]
    /\ UNCHANGED <<cluster, services, lastUid, lastRV, asked, cacheVars,
                   queueVars, sync, unseen>>

PodCreated(g) ==
    /\ sets[g] # None
    /\ sets[g].current < sets[g].replicas
    /\ SetStatus(g, sets[g].current + 1, sets[g].ready)
    /\ UNCHANGED budget

PodReady(g) ==
    /\ sets[g] # None
    /\ sets[g].ready < sets[g].current
    /\ SetStatus(g, sets[g].current, sets[g].ready + 1)
    /\ UNCHANGED budget

PodRemoved(g) ==
    /\ sets[g] # None
    /\ sets[g].current > sets[g].replicas
    /\ \E ready \in {sets[g].ready, sets[g].ready - 1} \cap 0 .. sets[g].current - 1 :
          SetStatus(g, sets[g].current - 1, ready)
    /\ UNCHANGED budget

PodUnready(g) ==
    /\ sets[g] # None
    /\ sets[g].ready > 0
    /\ Spend("unready")
    /\ SetStatus(g, sets[g].current, sets[g].ready - 1)

OwnerGone(owner) ==
    /\ owner # Foreign
    /\ cluster # None => cluster.uid # owner

CollectService(g) ==
    /\ services[g] # None
    /\ OwnerGone(services[g])
    /\ services' = [services EXCEPT ![g] = None]
    /\ UNCHANGED <<cluster, sets, lastUid, lastRV, asked, cacheVars, queueVars,
                   sync, budget, unseen>>

CollectSet(g) ==
    /\ sets[g] # None
    /\ OwnerGone(sets[g].owner)
    /\ sets' = [sets EXCEPT ![g] = None]
    /\ UNCHANGED <<cluster, services, lastUid, lastRV, asked, cacheVars,
                   queueVars, sync, budget, unseen>>

-----------------------------------------------------------------------------
(* The informers.  A step brings one cached object up to the API server's  *)
(* current one and runs the event handler; versions in between are         *)
(* skipped.  The initial list of a type comes first.                       *)

enqueueCluster == AddRateLimited

(* handleObject: an object controlled by a BrokerCluster enqueues the      *)
(* cluster of that name if the lister has it, whatever its UID.            *)
handleObject(objects) ==
    IF /\ \E ss \in objects : ss # None /\ ss.owner # Foreign
       /\ clusterCache # None
    THEN enqueueCluster
    ELSE UNCHANGED queueVars

(* The history variable: a managed object changed in a cache.              *)
Changed(objects) ==
    unseen' = (unseen \/ \E ss \in objects : ss # None /\ ss.owner # Foreign)

Version(object) == IF object = None THEN 0 ELSE object.rv

(* AddFunc and UpdateFunc enqueue, DeleteFunc only logs.  The object the   *)
(* worker holds is no longer the one in the cache.                         *)
InformCluster ==
    /\ "clusters" \notin synced \/ Version(clusterCache) # Version(cluster)
    /\ synced' = synced \cup {"clusters"}
    /\ clusterCache' = cluster
    /\ sync' = [sync EXCEPT !.aliased = FALSE]
    /\ IF cluster = None THEN UNCHANGED queueVars ELSE enqueueCluster
    /\ unseen' = TRUE
    /\ UNCHANGED <<apiVars, serviceCache, setCache, budget>>

(* The watch broke and the reflector listed again: the cache gets a fresh  *)
(* copy of the version it has, and UpdateFunc runs.                        *)
RelistCluster ==
    /\ clusterCache # None
    /\ Version(clusterCache) = Version(cluster)
    /\ Spend("relist")
    /\ clusterCache' = cluster
    /\ sync' = [sync EXCEPT !.aliased = FALSE]
    /\ enqueueCluster
    /\ unseen' = TRUE
    /\ UNCHANGED <<apiVars, synced, serviceCache, setCache>>

ListSets ==
    /\ "sets" \notin synced
    /\ synced' = synced \cup {"sets"}
    /\ setCache' = sets
    /\ handleObject({sets[g] : g \in Groups})
    /\ Changed({sets[g] : g \in Groups})
    /\ UNCHANGED <<apiVars, clusterCache, serviceCache, sync, budget>>

(* Update: handleObject(new).  Delete: handleObject(old).  A set deleted   *)
(* and made again is a delete and an add.                                  *)
InformSet(g) ==
    /\ "sets" \in synced
    /\ setCache[g] # sets[g]
    /\ setCache' = [setCache EXCEPT ![g] = sets[g]]
    /\ handleObject({setCache[g], sets[g]})
    /\ Changed({setCache[g], sets[g]})
    /\ UNCHANGED <<apiVars, synced, clusterCache, serviceCache, sync, budget>>

ListServices ==
    /\ "services" \notin synced
    /\ synced' = synced \cup {"services"}
    /\ serviceCache' = services
    /\ UNCHANGED <<apiVars, clusterCache, setCache, queueVars, sync, budget,
                   unseen>>

(* The Service informer has no event handler.                              *)
InformService(g) ==
    /\ "services" \in synced
    /\ serviceCache[g] # services[g]
    /\ serviceCache' = [serviceCache EXCEPT ![g] = services[g]]
    /\ UNCHANGED <<apiVars, synced, clusterCache, setCache, queueVars, sync,
                   budget, unseen>>

(* Mutant: UpdateFunc ignores an update that has the old resourceVersion.  *)
ResyncIgnored ==
    /\ clusterCache # None
    /\ UNCHANGED vars

(* The periodic resync calls UpdateFunc with the cached object.            *)
Resync ==
    /\ clusterCache # None
    /\ enqueueCluster
    /\ UNCHANGED <<apiVars, cacheVars, sync, budget, unseen>>

(* A delay of the work queue ends.                                         *)
QueueDelayOver ==
    /\ DelayOver
    /\ UNCHANGED <<apiVars, cacheVars, sync, budget, unseen>>

-----------------------------------------------------------------------------
(* The worker.  One loop body of syncHandler is one step: it reads caches  *)
(* and makes at most one call to the API server.                           *)

(* runWorker starts once WaitForCacheSync has returned.                    *)
GetItem ==
    /\ synced = Informers
    /\ Get
    /\ sync' = [sync EXCEPT !.pc = "get"]
    /\ UNCHANGED <<apiVars, cacheVars, budget, unseen>>

(* The rest of processNextWorkItem, after syncHandler: Forget touches only *)
(* the rate limiter, and an error is logged.                               *)
FinishItem ==
    /\ sync.pc = "return"
    /\ Done
    /\ sync' = Idle
    /\ UNCHANGED <<apiVars, cacheVars, budget, unseen>>

Return(err) == sync' = [sync EXCEPT !.pc = "return", !.err = err]

(* A write through the pointer of the lister shows in the cache.           *)
WriteThrough(object) ==
    clusterCache' = IF sync.aliased THEN object ELSE clusterCache

SyncClusterGone ==
    /\ sync.pc = "get"
    /\ clusterCache = None
    /\ Return(FALSE)
    /\ UNCHANGED <<apiVars, cacheVars, queueVars, budget, unseen>>

(* EnsureDefaults works on the cached object itself.                       *)
SyncGetCluster ==
    /\ sync.pc = "get"
    /\ clusterCache # None
    /\ LET object == [clusterCache EXCEPT !.spec = EnsureDefaults(@)] IN
          /\ sync' = [sync EXCEPT !.pc = "services", !.obj = object,
                                  !.aliased = TRUE]
          /\ clusterCache' = object
    /\ unseen' = FALSE
    /\ UNCHANGED <<apiVars, synced, serviceCache, setCache, queueVars, budget>>

InLoop(pc) == sync.pc = pc /\ sync.index < sync.obj.spec.groupReplica

NextIndex == sync' = [sync EXCEPT !.index = @ + 1]

ServiceFound ==
    /\ InLoop("services")
    /\ serviceCache[sync.index] # None
    /\ IF IsControlledBy(serviceCache[sync.index], sync.obj)
       THEN NextIndex
       ELSE Return(TRUE)        \* ErrResourceExists
    /\ UNCHANGED <<apiVars, cacheVars, queueVars, budget, unseen>>

(* The lister has no Service: create it.  AlreadyExists is an error.       *)
CreateService ==
    /\ InLoop("services")
    /\ serviceCache[sync.index] = None
    /\ IF services[sync.index] = None
       THEN /\ services' = [services EXCEPT ![sync.index] =
                               NewHeadlessService(sync.obj)]
            /\ NextIndex
       ELSE /\ Return(TRUE)
            /\ UNCHANGED services
    /\ UNCHANGED <<cluster, sets, lastUid, lastRV, asked, cacheVars, queueVars,
                   budget, unseen>>

(* The call fails, and the request reached the server or did not.          *)
CreateServiceFault ==
    /\ InLoop("services")
    /\ serviceCache[sync.index] = None
    /\ Spend("fault")
    /\ services' \in {services,
                      [services EXCEPT ![sync.index] =
                          IF @ = None THEN NewHeadlessService(sync.obj)
                                      ELSE @]}
    /\ Return(TRUE)
    /\ UNCHANGED <<cluster, sets, lastUid, lastRV, asked, cacheVars, queueVars,
                   unseen>>

(* Between the loops.  MembersPerGroup is not zero here (EnsureDefaults),  *)
(* so the early return for zero is never taken.                            *)
ServicesDone ==
    /\ sync.pc = "services"
    /\ sync.index >= sync.obj.spec.groupReplica
    /\ LET object == [sync.obj EXCEPT !.spec = AllMasterOverride(@)] IN
          /\ sync' = [sync EXCEPT !.pc = "sets", !.obj = object, !.index = 0]
          /\ WriteThrough(object)
    /\ UNCHANGED <<apiVars, synced, serviceCache, setCache, queueVars, budget,
                   unseen>>

members == sync.obj.spec.membersPerGroup

(* End of the second loop's body: count the set if its status says so.     *)
CountSet(ss) ==
    sync' = [sync EXCEPT
        !.index = @ + 1,
        !.readyGroups = IF GroupReady(ss) THEN @ + 1 ELSE @,
        !.readyMembers = IF GroupReady(ss) THEN @ + ss.current ELSE @,
        !.full = IF ss.current = members /\ ss.ready = members
                 THEN @ \cup {sync.index} ELSE @]

(* Mutant: sets are scaled out only.                                       *)
TooFewReplicas(ss) == members > ss.replicas

WrongReplicas(ss) == members # ss.replicas

SetFound ==
    /\ InLoop("sets")
    /\ setCache[sync.index] # None
    /\ \/ /\ ~IsControlledBy(setCache[sync.index].owner, sync.obj)
          /\ Return(TRUE)       \* ErrResourceExists
       \/ /\ IsControlledBy(setCache[sync.index].owner, sync.obj)
          /\ ~WrongReplicas(setCache[sync.index])
          /\ CountSet(setCache[sync.index])
    /\ UNCHANGED <<apiVars, cacheVars, queueVars, budget, unseen>>

(* CreateStatefulSet drops the server's answer: the body goes on with the  *)
(* object it made, whose status is empty.  The server rejects negative     *)
(* replicas.                                                               *)
CreateSet ==
    /\ InLoop("sets")
    /\ setCache[sync.index] = None
    /\ IF sets[sync.index] = None /\ members >= 0
       THEN /\ sets' = [sets EXCEPT ![sync.index] = NewStatefulSet(sync.obj)]
            /\ CountSet(NewStatefulSet(sync.obj))
       ELSE /\ Return(TRUE)
            /\ UNCHANGED sets
    /\ UNCHANGED <<cluster, services, lastUid, lastRV, asked, cacheVars,
                   queueVars, budget, unseen>>

CreateSetFault ==
    /\ InLoop("sets")
    /\ setCache[sync.index] = None
    /\ Spend("fault")
    /\ sets' \in {sets,
                  [sets EXCEPT ![sync.index] =
                      IF @ = None /\ members >= 0
                      THEN NewStatefulSet(sync.obj) ELSE @]}
    /\ Return(TRUE)
    /\ UNCHANGED <<cluster, services, lastUid, lastRV, asked, cacheVars,
                   queueVars, unseen>>

NeedsPatch ==
    /\ InLoop("sets")
    /\ setCache[sync.index] # None
    /\ IsControlledBy(setCache[sync.index].owner, sync.obj)
    /\ WrongReplicas(setCache[sync.index])

(* The merge patch is made from the cached set, goes to the set's name,    *)
(* and carries no resourceVersion, UID or owner: whatever set has the name *)
(* now gets the fields in which the cached set was wrong.                  *)
Patched ==
    [sets EXCEPT ![sync.index] =
        IF @ # None /\ members >= 0
        THEN PatchStatefulSet(setCache[sync.index], NewStatefulSet(sync.obj), @)
        ELSE @]

(* After the patch ss is the object made for it, with an empty status.     *)
PatchSet ==
    /\ NeedsPatch
    /\ sets' = Patched
    /\ IF sets[sync.index] # None /\ members >= 0
       THEN CountSet(NewStatefulSet(sync.obj))
       ELSE Return(TRUE)
    /\ UNCHANGED <<cluster, services, lastUid, lastRV, asked, cacheVars,
                   queueVars, budget, unseen>>

PatchSetFault ==
    /\ NeedsPatch
    /\ Spend("fault")
    /\ sets' \in {sets, Patched}
    /\ Return(TRUE)
    /\ UNCHANGED <<cluster, services, lastUid, lastRV, asked, cacheVars,
                   queueVars, unseen>>

-----------------------------------------------------------------------------
(* updateClusterStatus and clusterUpdater.UpdateClusterStatus.             *)

(* Mutant: the brokers are not counted, only the groups.                   *)
GroupsReadyNow ==
    IF sync.readyGroups = sync.obj.spec.groupReplica THEN "True" ELSE "False"

ReadyNow ==
    IF /\ sync.readyGroups = sync.obj.spec.groupReplica
       /\ sync.readyMembers = sync.obj.spec.groupReplica * members
    THEN "True" ELSE "False"

(* Mutant: the status is not copied first, so that a condition which is    *)
(* there is compared with itself.                                          *)
ComparedWithItself(old, new) == old = "Absent"

(* UpdateClusterCondition reports a change when the condition was absent   *)
(* or its Status differs.                                                  *)
UpdateClusterCondition(old, new) == old = "Absent" \/ old # new

(* GetClusterCondition returns a pointer into the lister's object, so the  *)
(* new status is written into the cache before it is sent; an absent       *)
(* condition is added to the copy only.                                    *)
updateClusterStatus ==
    /\ sync.pc = "sets"
    /\ sync.index >= sync.obj.spec.groupReplica
    /\ LET object == [sync.obj EXCEPT !.ready =
                         IF @ = "Absent" THEN @ ELSE ReadyNow] IN
          /\ IF UpdateClusterCondition(sync.obj.ready, ReadyNow)
             THEN sync' = [sync EXCEPT !.pc = "update", !.obj = object,
                                       !.target = ReadyNow, !.upd = object]
             ELSE sync' = [sync EXCEPT !.pc = "return", !.obj = object]
          /\ WriteThrough(object)
    /\ UNCHANGED <<apiVars, synced, serviceCache, setCache, queueVars, budget,
                   unseen>>

(* cluster.Status = *status, at the head of every attempt.                 *)
Attempt == [sync.upd EXCEPT !.ready = sync.target]

(* The server stores the object.  A status that is there already comes     *)
(* with a transition time of its own, and so makes a version, unless the   *)
(* two times fall into one second: then nothing changes.                   *)
StoreAttempt ==
    /\ cluster # None /\ sync.upd.rv = cluster.rv
    /\ \/ WriteCluster(Attempt)
       \/ Attempt = cluster /\ UNCHANGED <<cluster, lastRV>>

(* The whole object is sent.  The server takes it if its resourceVersion   *)
(* is the current one.                                                     *)
PutAccepted ==
    /\ sync.pc = "update"
    /\ StoreAttempt
    /\ Return(FALSE)
    /\ UNCHANGED <<services, sets, lastUid, asked, cacheVars, queueVars,
                   budget, unseen>>

(* NotFound, or Conflict.                                                  *)
PutRejected ==
    /\ sync.pc = "update"
    /\ cluster # None => sync.upd.rv # cluster.rv
    /\ sync' = [sync EXCEPT !.pc = "refetch", !.conflict = cluster # None]
    /\ UNCHANGED <<apiVars, cacheVars, queueVars, budget, unseen>>

PutFault ==
    /\ sync.pc = "update"
    /\ Spend("fault")
    /\ UNCHANGED <<cluster, lastRV>> \/ StoreAttempt
    /\ sync' = [sync EXCEPT !.pc = "refetch", !.conflict = FALSE]
    /\ UNCHANGED <<services, sets, lastUid, asked, cacheVars, queueVars,
                   unseen>>

(* Mutant: one attempt more than Steps.                                    *)
RefetchOnceMore ==
    /\ sync.pc = "refetch"
    /\ IF clusterCache # None /\ sync.conflict /\ sync.tries < RetrySteps
       THEN sync' = [sync EXCEPT !.pc = "update", !.upd = clusterCache,
                                 !.tries = @ + 1]
       ELSE Return(TRUE)
    /\ UNCHANGED <<apiVars, cacheVars, queueVars, budget, unseen>>

(* Mutant: the retry keeps its own copy and takes only the newer           *)
(* resourceVersion from the lister.                                        *)
RefetchVersionOnly ==
    /\ sync.pc = "refetch"
    /\ IF clusterCache # None /\ sync.conflict /\ sync.tries + 1 < RetrySteps
       THEN sync' = [sync EXCEPT !.pc = "update", !.tries = @ + 1,
                                 !.upd.rv = clusterCache.rv]
       ELSE Return(TRUE)
    /\ UNCHANGED <<apiVars, cacheVars, queueVars, budget, unseen>>

(* After any error the lister is read again; only a conflict is retried,   *)
(* with the cached object of that moment.                                  *)
Refetch ==
    /\ sync.pc = "refetch"
    /\ IF clusterCache # None /\ sync.conflict /\ sync.tries + 1 < RetrySteps
       THEN sync' = [sync EXCEPT !.pc = "update", !.upd = clusterCache,
                                 !.tries = @ + 1]
       ELSE Return(TRUE)
    /\ UNCHANGED <<apiVars, cacheVars, queueVars, budget, unseen>>

-----------------------------------------------------------------------------
(* The process ends (crash, or the signal handler: Run does not wait for   *)
(* its workers) and is started again with empty caches.                    *)
Restart ==
    /\ Spend("crash")
    /\ synced' = {}
    /\ clusterCache' = None
    /\ serviceCache' = [g \in Groups |-> None]
    /\ setCache' = [g \in Groups |-> None]
    /\ QueueReset
    /\ sync' = Idle
    /\ unseen' = FALSE
    /\ UNCHANGED apiVars

User ==
    \/ \E spec \in Specs : EditCluster(spec) \/ CreateCluster(spec)
    \/ DeleteCluster
    \/ \E g \in Groups : LoseService(g) \/ LoseSet(g) \/ ForeignSet(g)

Pods(g) == PodCreated(g) \/ PodReady(g) \/ PodRemoved(g)

Collector(g) == CollectService(g) \/ CollectSet(g)

SetsInformer == ListSets \/ \E g \in Groups : InformSet(g)

ServicesInformer == ListServices \/ \E g \in Groups : InformService(g)

Worker ==
    \/ GetItem \/ FinishItem
    \/ SyncClusterGone \/ SyncGetCluster
    \/ ServiceFound \/ CreateService \/ CreateServiceFault \/ ServicesDone
    \/ SetFound \/ CreateSet \/ CreateSetFault \/ PatchSet \/ PatchSetFault
    \/ updateClusterStatus
    \/ PutAccepted \/ PutRejected \/ PutFault \/ Refetch

Next ==
    \/ User
    \/ \E g \in Groups : Pods(g) \/ PodUnready(g) \/ Collector(g)
    \/ InformCluster \/ RelistCluster \/ SetsInformer \/ ServicesInformer
    \/ Resync \/ QueueDelayOver
    \/ Worker
    \/ Restart

Spec == Init /\ [][Next]_vars

(* Goroutines of the operator keep running, watches keep delivering,       *)
(* Kubernetes keeps reconciling, and the resync period is positive.  The   *)
(* user and the disturbances are under no obligation.                      *)
Fairness ==
    /\ WF_vars(InformCluster)
    /\ WF_vars(SetsInformer)
    /\ WF_vars(ServicesInformer)
    /\ WF_vars(Resync)
    /\ WF_vars(QueueDelayOver)
    /\ WF_vars(Worker)
    /\ \A g \in Groups : WF_vars(Pods(g)) /\ WF_vars(Collector(g))

FairSpec == Spec /\ Fairness

-----------------------------------------------------------------------------
(* Properties.                                                             *)

(* An event is never lost between the informers and the worker: once the   *)
(* cached BrokerCluster or a cached StatefulSet of it changed, the key     *)
(* stays on its way to a sync until a sync reads the cache, whatever the   *)
(* worker, the delay and further events do meanwhile (enqueueCluster,      *)
(* handleObject, and the dirty set of the queue).                          *)
NoLostWakeup ==
    unseen /\ clusterCache # None => Pending \/ sync.pc = "get"

(* A step of the worker that writes the BrokerCluster.                     *)
OperatorWrites == sync'.pc # sync.pc /\ cluster' # cluster

(* UpdateClusterStatus sends the whole object to store a status, spec      *)
(* included, from a cache that is stale and that syncHandler writes into.  *)
(* It still never undoes an edit of the user and never brings back a       *)
(* deleted object: what the spec asks for is the same after the write.     *)
NoLostEdit ==
    [][OperatorWrites =>
          /\ cluster # None /\ cluster' # None
          /\ cluster'.uid = cluster.uid
          /\ Desired(cluster'.spec) = Desired(cluster.spec)]_vars

Wanted(g) == cluster # None /\ g < Desired(cluster.spec).groupReplica

(* Once the disturbances are over, every group of the cluster gets its     *)
(* Service and its StatefulSet with the right replicas and owner, and      *)
(* children of deleted incarnations are gone, for good: failed syncs,      *)
(* stale caches, lost objects and restarts notwithstanding (syncHandler).  *)
ChildrenConverge ==
    <>[](\A g \in Groups :
            /\ Wanted(g) =>
                  /\ services[g] = cluster.uid
                  /\ sets[g] # None
                  /\ sets[g].owner = cluster.uid
                  /\ sets[g].replicas = Desired(cluster.spec).membersPerGroup
            /\ services[g] # None => ~OwnerGone(services[g])
            /\ sets[g] # None => ~OwnerGone(sets[g].owner))

(* controller.go:289: syncHandler "compares the actual state with the      *)
(* desired, and attempts to converge the two".  In the end every group's   *)
(* pod template is the one its spec asks for (NewStatefulSet and Patch).   *)
(* Only a set with the wrong number of replicas is ever patched, so this   *)
(* is for edits that change membersPerGroup too.  It holds for one such    *)
(* edit at a time.                                                         *)
TemplatesConverge ==
    <>[](\A g \in Groups :
            Wanted(g) => /\ sets[g] # None
                         /\ brokerContainer(sets[g]) =
                               brokerContainer(cluster.spec))

(* The worker is idle, no event is on its way, the caches are current and  *)
(* every set has its number of replicas: the next sync, which the resync   *)
(* will start, finds nothing to create or to patch.                        *)
NothingToDo ==
    /\ sync.pc = "idle" /\ ~Pending
    /\ cluster # None /\ clusterCache # None /\ clusterCache.rv = cluster.rv
    /\ serviceCache = services /\ setCache = sets
    /\ \A g \in Groups :
          Wanted(g) => /\ services[g] # None /\ sets[g] # None
                       /\ sets[g].replicas =
                             Desired(cluster.spec).membersPerGroup

(* controller.go:289, as above: with nothing to do the two have converged. *)
(* They need not.  Of two edits in short order the second patch is made    *)
(* from a cached set that has not seen the first, leaves out the fields in *)
(* which spec and cache agree, and makes the replicas right: no later sync *)
(* patches the set again.                                                  *)
RestIsConverged ==
    NothingToDo => \A g \in Groups :
                      Wanted(g) => brokerContainer(sets[g]) =
                                      brokerContainer(cluster.spec)

(* controller.go:403: the status block is updated "to reflect the current  *)
(* state of the world".  A BrokerCluster that is left alone is reported    *)
(* Ready in the end and stays so (updateClusterStatus), through edits,     *)
(* scaling, failing brokers and restarts.  One failed PUT of the status    *)
(* breaks it: the lister's object has the new status already, so that no   *)
(* later sync sees a difference to send.                                   *)
ReadyConverges == <>[](cluster # None => cluster.ready = "True")

(* controller.go:403: the status block is updated "to reflect the current  *)
(* state of the world".  A sync that reports Ready has seen every group    *)
(* with all of its brokers, and all of them ready.  The code compares two  *)
(* sums instead, so this holds while MembersPerGroup is never changed, and *)
(* fails when it is: surplus brokers of one group stand in for the missing *)
(* ones of another.                                                        *)
ReadyIsEarned ==
    sync.pc = "update" /\ sync.target = "True" =>
        sync.full = {g \in Groups : g < sync.obj.spec.groupReplica}

-----------------------------------------------------------------------------
(* What comments of the code and the README say and the code does not do.  *)

(* controller.go:327, :367 and :392: after an error "we'll requeue the     *)
(* item so we can attempt processing again later".  processNextWorkItem    *)
(* only logs it.                                                           *)
FailedSyncIsRequeued ==
    [][sync.pc = "return" /\ sync.err /\ sync' = Idle /\ UNCHANGED synced
          => Pending']_vars
=============================================================================
