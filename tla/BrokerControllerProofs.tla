----------------------- MODULE BrokerControllerProofs -----------------------
(***************************************************************************)
(* Theorems about BrokerController, for every value of its constants: type *)
(* correctness, that no wake-up is lost, that the operator never undoes    *)
(* an edit of the user, and that it never works with a spec of its own     *)
(* invention.                                                              *)
(***************************************************************************)
EXTENDS BrokerController, TLAPS

(* The objects a worker can come to write or to index with ask for at most *)
(* MaxGroups groups.                                                       *)
Bounded(object) ==
    object # None => EnsureDefaults(object.spec).groupReplica <= MaxGroups

BoundsOK ==
    /\ Bounded(cluster)
    /\ Bounded(clusterCache)
    /\ Bounded(sync.obj)
    /\ Bounded(sync.upd)

(* The pointers of syncHandler are set where it follows them, and a        *)
(* pointer that is called aliased is the cached object.                    *)
FrameOK ==
    /\ sync.pc \in {"services", "sets", "update", "refetch"} => sync.obj # None
    /\ sync.pc \in {"update", "refetch"} => sync.upd # None
    /\ sync.aliased => sync.obj # None /\ clusterCache = sync.obj

TypeInv == TypeOK /\ BoundsOK /\ FrameOK

-----------------------------------------------------------------------------
(* Facts about the defaults.                                               *)

(* EnsureDefaults and AllMasterOverride return specs.                      *)
LEMMA SpecOps ==
    ASSUME NEW spec \in BrokerClusterSpec
    PROVE  /\ EnsureDefaults(spec) \in BrokerClusterSpec
           /\ AllMasterOverride(spec) \in BrokerClusterSpec
<1>1. EnsureDefaults(spec) \in BrokerClusterSpec
  <2> DEFINE g == IF spec.groupReplica = 0 THEN 2 ELSE spec.groupReplica
             m == IF spec.membersPerGroup = 0 THEN 2 ELSE spec.membersPerGroup
  <2>1. g \in Int /\ m \in Int
    BY DEF BrokerClusterSpec
  <2>2. EnsureDefaults(spec) = [spec EXCEPT !.groupReplica = g,
                                            !.membersPerGroup = m]
    BY DEF EnsureDefaults, defaultGroups, defaultMembersPerGroup
  <2> HIDE DEF g, m
  <2> QED
    BY <2>1, <2>2 DEF BrokerClusterSpec
<1>2. AllMasterOverride(spec) \in BrokerClusterSpec
  BY DEF BrokerClusterSpec, AllMasterOverride
<1> QED
  BY <1>1, <1>2

(* Writing the defaults or the override into a spec changes neither the    *)
(* number of groups it asks for nor anything else it asks for.             *)
LEMMA SpecOpsKeep ==
    ASSUME NEW spec \in BrokerClusterSpec
    PROVE  /\ EnsureDefaults(EnsureDefaults(spec)) = EnsureDefaults(spec)
           /\ EnsureDefaults(AllMasterOverride(spec)).groupReplica
                 = EnsureDefaults(spec).groupReplica
           /\ Desired(EnsureDefaults(spec)) = Desired(spec)
           /\ Desired(AllMasterOverride(spec)) = Desired(spec)
BY DEF BrokerClusterSpec, EnsureDefaults, AllMasterOverride, Desired,
       defaultGroups, defaultMembersPerGroup

(* The loops of syncHandler index only groups.                             *)
LEMMA IndexInGroups ==
    ASSUME TypeInv, NEW pc \in {"services", "sets"}, InLoop(pc)
    PROVE  /\ sync.obj \in BrokerCluster
           /\ sync.index \in Groups
<1>1. sync.obj \in BrokerCluster /\ sync.index \in Nat
  BY DEF TypeInv, TypeOK, Frame, FrameOK, InLoop
<1>2. sync.obj.spec \in BrokerClusterSpec
  BY <1>1 DEF BrokerCluster
<1>3. sync.obj.spec.groupReplica <= MaxGroups
  <2>1. EnsureDefaults(sync.obj.spec).groupReplica <= MaxGroups
    BY <1>1, NoneAssumption DEF TypeInv, BoundsOK, Bounded
  <2> QED
    BY <1>2, <2>1, ConstantsAssumption
       DEF EnsureDefaults, BrokerClusterSpec
<1> QED
  BY <1>1, <1>2, <1>3, ConstantsAssumption
     DEF InLoop, Groups, BrokerClusterSpec
-----------------------------------------------------------------------------
(* What the building blocks of the actions do to the parts of TypeInv.     *)

(* A step of the worker that keeps its pointers, or leaves syncHandler.    *)
KeepsPointers ==
    /\ sync' \in Frame
    /\ sync'.pc \in {sync.pc, "return"}
    /\ sync'.obj = sync.obj
    /\ sync'.upd = sync.upd
    /\ sync'.aliased = sync.aliased

(* Leaving syncHandler keeps the pointers.                                 *)
LEMMA ReturnKeeps ==
    ASSUME TypeInv, NEW err \in BOOLEAN, Return(err)
    PROVE  KeepsPointers
BY DEF TypeInv, TypeOK, Frame, Return, KeepsPointers

(* So does going on with the next group.                                   *)
LEMMA NextIndexKeeps ==
    ASSUME TypeInv, NextIndex
    PROVE  KeepsPointers
BY DEF TypeInv, TypeOK, Frame, NextIndex, KeepsPointers

(* So does counting a StatefulSet.                                         *)
LEMMA CountSetKeeps ==
    ASSUME TypeInv, InLoop("sets"), NEW ss \in StatefulSet, CountSet(ss)
    PROVE  KeepsPointers
<1> DEFINE groups == IF GroupReady(ss) THEN sync.readyGroups + 1
                                       ELSE sync.readyGroups
           brokers == IF GroupReady(ss) THEN sync.readyMembers + ss.current
                                        ELSE sync.readyMembers
           full == IF ss.current = members /\ ss.ready = members
                   THEN sync.full \cup {sync.index} ELSE sync.full
<1>1. sync.index \in Groups
  BY IndexInGroups
<1>2. groups \in Nat /\ brokers \in Nat /\ full \in SUBSET Groups
  BY <1>1 DEF TypeInv, TypeOK, Frame, StatefulSet
<1>3. sync' = [sync EXCEPT !.index = sync.index + 1, !.readyGroups = groups,
                           !.readyMembers = brokers, !.full = full]
  BY DEF CountSet
<1>4. sync \in Frame /\ sync.index + 1 \in Nat
  BY DEF TypeInv, TypeOK, Frame
<1> HIDE DEF groups, brokers, full
<1>5. sync' \in Frame
  BY <1>2, <1>3, <1>4 DEF Frame
<1>6. /\ sync'.pc = sync.pc /\ sync'.obj = sync.obj
      /\ sync'.upd = sync.upd /\ sync'.aliased = sync.aliased
  BY <1>3, <1>4 DEF Frame
<1> QED
  BY <1>5, <1>6 DEF KeepsPointers

(* Such a step preserves what concerns the pointers.                       *)
LEMMA PointersKept ==
    ASSUME TypeInv, KeepsPointers, UNCHANGED <<cluster, clusterCache>>
    PROVE  BoundsOK' /\ FrameOK'
BY DEF TypeInv, BoundsOK, Bounded, FrameOK, KeepsPointers

(* An accepted write leaves a BrokerCluster.                               *)
LEMMA WriteClusterType ==
    ASSUME TypeInv, NEW object \in BrokerCluster, WriteCluster(object)
    PROVE  /\ cluster' \in BrokerCluster
           /\ lastRV' \in Nat
           /\ cluster'.spec = object.spec
           /\ cluster'.uid = object.uid
           /\ cluster'.rv = lastRV + 1
BY DEF TypeInv, TypeOK, ApiTypeOK, WriteCluster, BrokerCluster

(* The demand of a BrokerCluster is one.                                   *)
LEMMA DemandType ==
    ASSUME NEW object \in BrokerCluster
    PROVE  DemandOf(object) \subseteq
              [uid : Nat \ {Foreign}, want : BrokerClusterSpec]
<1>1. object.uid \in Nat \ {Foreign} /\ object.spec \in BrokerClusterSpec
  BY DEF BrokerCluster
<1>2. Desired(object.spec) \in BrokerClusterSpec
  BY <1>1, SpecOps DEF Desired
<1> QED
  BY <1>1, <1>2 DEF DemandOf

(* What UpdateClusterStatus sends is a BrokerCluster.                      *)
LEMMA AttemptType ==
    ASSUME TypeInv, sync.pc = "update"
    PROVE  /\ sync.upd \in BrokerCluster
           /\ Attempt \in BrokerCluster
           /\ Attempt.spec = sync.upd.spec
           /\ Attempt.uid = sync.upd.uid
           /\ Attempt.rv = sync.upd.rv
BY DEF TypeInv, TypeOK, Frame, FrameOK, Attempt, BrokerCluster

(* The StatefulSet made for a group is one, unless the number of members   *)
(* is negative.                                                            *)
LEMMA NewStatefulSetType ==
    ASSUME TypeInv, InLoop("sets"), members >= 0
    PROVE  NewStatefulSet(sync.obj) \in StatefulSet
<1>1. sync.obj \in BrokerCluster
  BY IndexInGroups
<1> QED
  BY <1>1 DEF members, NewStatefulSet, StatefulSet, BrokerCluster,
              BrokerClusterSpec

(* Whatever the cached set is, a patch turns a set into a set: every field *)
(* comes from the set made for the group or from the one that is there.    *)
LEMMA PatchType ==
    ASSUME NEW old, NEW new \in StatefulSet, NEW current \in StatefulSet
    PROVE  PatchStatefulSet(old, new, current) \in StatefulSet
<1>1. /\ MergedField(old.replicas, new.replicas, current.replicas) \in Nat
      /\ MergedField(old.image, new.image, current.image) \in Images
      /\ MergedField(old.allMaster, new.allMaster, current.allMaster) \in BOOLEAN
  BY DEF MergedField, StatefulSet
<1> DEFINE replicas == MergedField(old.replicas, new.replicas, current.replicas)
           image == MergedField(old.image, new.image, current.image)
           allMaster == MergedField(old.allMaster, new.allMaster, current.allMaster)
<1>2. PatchStatefulSet(old, new, current) =
         [current EXCEPT !.replicas = replicas, !.image = image,
                         !.allMaster = allMaster]
  BY DEF PatchStatefulSet, StatefulSet
<1> HIDE DEF replicas, image, allMaster
<1>3. replicas \in Nat /\ image \in Images /\ allMaster \in BOOLEAN
  BY <1>1 DEF replicas, image, allMaster
<1> QED
  BY <1>2, <1>3 DEF StatefulSet

(* What an action leaves alone keeps its part of TypeInv.                  *)
LEMMA Untouched ==
    ASSUME TypeInv
    PROVE  /\ UNCHANGED apiVars => ApiTypeOK'
           /\ UNCHANGED cacheVars => CacheTypeOK'
           /\ UNCHANGED queueVars => QueueTypeOK'
           /\ UNCHANGED sync => sync' \in Frame
           /\ UNCHANGED budget => budget' \in 0 .. Budget
           /\ UNCHANGED unseen => unseen' \in BOOLEAN
           /\ UNCHANGED <<cluster, clusterCache, sync>> => BoundsOK' /\ FrameOK'
           /\ \A kind : Spend(kind) => budget' \in 0 .. Budget
<1>1. budget \in 0 .. Budget /\ Budget \in Nat
  BY ConstantsAssumption DEF TypeInv, TypeOK
<1>2. \A kind : Spend(kind) => budget' \in 0 .. Budget
  BY <1>1 DEF Spend
<1>3. UNCHANGED apiVars => ApiTypeOK'
  BY DEF TypeInv, TypeOK, ApiTypeOK, apiVars
<1>4. UNCHANGED cacheVars => CacheTypeOK'
  BY DEF TypeInv, TypeOK, CacheTypeOK, cacheVars
<1>5. UNCHANGED queueVars => QueueTypeOK'
  BY DEF TypeInv, TypeOK, QueueTypeOK, queueVars
<1>6. UNCHANGED <<cluster, clusterCache, sync>> => BoundsOK' /\ FrameOK'
  BY DEF TypeInv, BoundsOK, Bounded, FrameOK
<1>7. /\ UNCHANGED sync => sync' \in Frame
      /\ UNCHANGED unseen => unseen' \in BOOLEAN
  BY DEF TypeInv, TypeOK
<1> QED
  BY <1>1, <1>2, <1>3, <1>4, <1>5, <1>6, <1>7

(* The operations of the queue keep its variables Boolean.                 *)
LEMMA QueueStep ==
    ASSUME TypeInv,
           \/ enqueueCluster \/ DelayOver \/ Get \/ Done \/ QueueReset
           \/ \E objects : handleObject(objects)
    PROVE  QueueTypeOK'
BY DEF TypeInv, TypeOK, QueueTypeOK, enqueueCluster, AddRateLimited, DelayOver,
       Get, Done, QueueReset, handleObject, queueVars

-----------------------------------------------------------------------------
(* One step preserves TypeInv: the user and Kubernetes.                    *)

(* The user's steps, and those of other clients.                           *)
LEMMA UserStep ==
    ASSUME TypeInv, User
    PROVE  TypeInv'
<1>1. ASSUME NEW spec \in Specs, EditCluster(spec)
      PROVE  TypeInv'
  <2> DEFINE object == [cluster EXCEPT !.spec = spec]
  <2>1. object \in BrokerCluster /\ object.spec = spec /\ WriteCluster(object)
    BY <1>1, ConstantsAssumption
       DEF EditCluster, TypeInv, TypeOK, ApiTypeOK, BrokerCluster
  <2> HIDE DEF object
  <2>2. cluster' \in BrokerCluster /\ cluster'.spec = spec /\ lastRV' \in Nat
    BY <2>1, WriteClusterType
  <2>3. ApiTypeOK'
    BY <1>1, <2>2, DemandType DEF EditCluster, TypeInv, TypeOK, ApiTypeOK
  <2>4. BoundsOK' /\ FrameOK'
    BY <1>1, <2>2, ConstantsAssumption
       DEF EditCluster, cacheVars, TypeInv, BoundsOK, Bounded, FrameOK
  <2> QED
    BY <1>1, <2>3, <2>4, Untouched DEF EditCluster, TypeInv, TypeOK
<1>2. ASSUME NEW spec \in Specs, CreateCluster(spec)
      PROVE  TypeInv'
  <2> DEFINE object == [uid |-> lastUid + 1, rv |-> 0, spec |-> spec,
                        ready |-> "Absent"]
  <2>1. lastUid \in Nat /\ lastUid + 1 \in Nat \ {Foreign}
    BY DEF TypeInv, TypeOK, ApiTypeOK, Foreign
  <2>2. object \in BrokerCluster /\ object.spec = spec /\ WriteCluster(object)
    BY <1>2, <2>1, ConstantsAssumption
       DEF CreateCluster, BrokerCluster, ReadyStatus
  <2> HIDE DEF object
  <2>3. cluster' \in BrokerCluster /\ cluster'.spec = spec /\ lastRV' \in Nat
    BY <2>2, WriteClusterType
  <2>4. ApiTypeOK'
    BY <1>2, <2>1, <2>3, DemandType
       DEF CreateCluster, TypeInv, TypeOK, ApiTypeOK
  <2>5. BoundsOK' /\ FrameOK'
    BY <1>2, <2>3, ConstantsAssumption
       DEF CreateCluster, cacheVars, TypeInv, BoundsOK, Bounded, FrameOK
  <2> QED
    BY <1>2, <2>4, <2>5, Untouched DEF CreateCluster, TypeInv, TypeOK
<1>3. CASE DeleteCluster
  <2>1. ApiTypeOK'
    BY <1>3 DEF DeleteCluster, TypeInv, TypeOK, ApiTypeOK
  <2>2. BoundsOK' /\ FrameOK'
    BY <1>3 DEF DeleteCluster, cacheVars, TypeInv, BoundsOK, Bounded, FrameOK
  <2> QED
    BY <1>3, <2>1, <2>2, Untouched DEF DeleteCluster, TypeInv, TypeOK
<1>4. ASSUME NEW g \in Groups, LoseService(g) \/ LoseSet(g)
      PROVE  TypeInv'
  <2>1. ApiTypeOK'
    BY <1>4 DEF LoseService, LoseSet, TypeInv, TypeOK, ApiTypeOK
  <2> QED
    BY <1>4, <2>1, Untouched
       DEF LoseService, LoseSet, TypeInv, TypeOK, cacheVars
<1>5. ASSUME NEW g \in Groups, ForeignSet(g)
      PROVE  TypeInv'
  <2>1. PICK image \in Images :
           sets' = [sets EXCEPT ![g] =
                      [owner |-> Foreign, replicas |-> 1, image |-> image,
                       allMaster |-> FALSE, current |-> 0, ready |-> 0]]
    BY <1>5 DEF ForeignSet
  <2>2. [owner |-> Foreign, replicas |-> 1, image |-> image,
         allMaster |-> FALSE, current |-> 0, ready |-> 0] \in StatefulSet
    BY DEF Foreign, StatefulSet
  <2>3. ApiTypeOK'
    BY <1>5, <2>1, <2>2 DEF ForeignSet, TypeInv, TypeOK, ApiTypeOK
  <2> QED
    BY <1>5, <2>3, Untouched DEF ForeignSet, TypeInv, TypeOK, cacheVars
<1> QED
  BY <1>1, <1>2, <1>3, <1>4, <1>5 DEF User

(* A new status of a StatefulSet.                                          *)
LEMMA SetStatusStep ==
    ASSUME TypeInv, NEW g \in Groups, sets[g] # None,
           NEW current \in Nat, NEW ready \in Nat,
           SetStatus(g, current, ready), budget' \in 0 .. Budget
    PROVE  TypeInv'
<1>1. sets' = [sets EXCEPT ![g] =
                  [sets[g] EXCEPT !.current = current, !.ready = ready]]
  BY DEF SetStatus, TypeInv, TypeOK, ApiTypeOK
<1>2. [sets[g] EXCEPT !.current = current, !.ready = ready] \in StatefulSet
  BY DEF StatefulSet, TypeInv, TypeOK, ApiTypeOK
<1>3. ApiTypeOK'
  BY <1>1, <1>2 DEF SetStatus, TypeInv, TypeOK, ApiTypeOK
<1> QED
  BY <1>3, Untouched DEF SetStatus, TypeInv, TypeOK, cacheVars

(* The steps of the StatefulSet controller and of the garbage collector.   *)
LEMMA KubernetesStep ==
    ASSUME TypeInv, NEW g \in Groups, Pods(g) \/ PodUnready(g) \/ Collector(g)
    PROVE  TypeInv'
<1>1. sets[g] # None =>
         /\ sets[g].replicas \in Nat
         /\ sets[g].current \in Nat
         /\ sets[g].ready \in Nat
  BY DEF TypeInv, TypeOK, ApiTypeOK, StatefulSet
<1>2. CASE PodCreated(g)
  <2>1. sets[g] # None /\ sets[g].current + 1 \in Nat
    BY <1>1, <1>2 DEF PodCreated
  <2> QED
    BY <1>1, <1>2, <2>1, Untouched, SetStatusStep DEF PodCreated
<1>3. CASE PodReady(g)
  BY <1>1, <1>3, Untouched, SetStatusStep DEF PodReady
<1>4. CASE PodRemoved(g)
  <2>1. PICK ready \in 0 .. sets[g].current - 1 :
           SetStatus(g, sets[g].current - 1, ready)
    BY <1>4 DEF PodRemoved
  <2> QED
    BY <1>1, <1>4, <2>1, Untouched, SetStatusStep DEF PodRemoved
<1>5. CASE PodUnready(g)
  BY <1>1, <1>5, Untouched, SetStatusStep DEF PodUnready
<1>6. CASE CollectService(g) \/ CollectSet(g)
  <2>1. ApiTypeOK'
    BY <1>6 DEF CollectService, CollectSet, TypeInv, TypeOK, ApiTypeOK
  <2> QED
    BY <1>6, <2>1, Untouched
       DEF CollectService, CollectSet, TypeInv, TypeOK, cacheVars
<1> QED
  BY <1>2, <1>3, <1>4, <1>5, <1>6 DEF Pods, Collector

(* The steps of the informers, of the resync and of the queue's delay.     *)
LEMMA InformerStep ==
    ASSUME TypeInv,
           \/ InformCluster \/ RelistCluster \/ SetsInformer
           \/ ServicesInformer \/ Resync \/ QueueDelayOver
    PROVE  TypeInv'
<1>1. CASE InformCluster \/ RelistCluster
  <2>1. clusterCache' = cluster /\ sync' = [sync EXCEPT !.aliased = FALSE]
    BY <1>1 DEF InformCluster, RelistCluster
  <2>2. CacheTypeOK'
    BY <1>1, <2>1 DEF InformCluster, RelistCluster, Informers,
                      TypeInv, TypeOK, ApiTypeOK, CacheTypeOK
  <2>3. /\ sync' \in Frame /\ ~sync'.aliased /\ sync'.pc = sync.pc
        /\ sync'.obj = sync.obj /\ sync'.upd = sync.upd
    BY <2>1 DEF TypeInv, TypeOK, Frame
  <2>4. cluster' = cluster
    BY <1>1 DEF InformCluster, RelistCluster, apiVars
  <2>5. BoundsOK' /\ FrameOK'
    BY <2>1, <2>3, <2>4 DEF TypeInv, BoundsOK, Bounded, FrameOK
  <2>6. QueueTypeOK'
    BY <1>1, QueueStep, Untouched DEF InformCluster, RelistCluster
  <2> QED
    BY <1>1, <2>2, <2>3, <2>5, <2>6, Untouched
       DEF InformCluster, RelistCluster, TypeInv, TypeOK
<1>2. CASE SetsInformer
  <2>1. CacheTypeOK'
    BY <1>2 DEF SetsInformer, ListSets, InformSet, Informers,
                TypeInv, TypeOK, ApiTypeOK, CacheTypeOK
  <2>2. \E objects : handleObject(objects) /\ Changed(objects)
    BY <1>2 DEF SetsInformer, ListSets, InformSet
  <2>3. QueueTypeOK' /\ unseen' \in BOOLEAN
    BY <2>2, QueueStep DEF Changed, TypeInv, TypeOK
  <2> QED
    BY <1>2, <2>1, <2>3, Untouched
       DEF SetsInformer, ListSets, InformSet, TypeInv, TypeOK, apiVars
<1>3. CASE ServicesInformer
  <2>1. CacheTypeOK'
    BY <1>3 DEF ServicesInformer, ListServices, InformService, Informers,
                TypeInv, TypeOK, ApiTypeOK, CacheTypeOK
  <2> QED
    BY <1>3, <2>1, Untouched
       DEF ServicesInformer, ListServices, InformService, TypeInv, TypeOK,
           apiVars
<1>4. CASE Resync \/ QueueDelayOver
  <2>1. QueueTypeOK'
    BY <1>4, QueueStep DEF Resync, QueueDelayOver
  <2> QED
    BY <1>4, <2>1, Untouched
       DEF Resync, QueueDelayOver, TypeInv, TypeOK, apiVars, cacheVars
<1> QED
  BY <1>1, <1>2, <1>3, <1>4

-----------------------------------------------------------------------------
(* One step preserves TypeInv: the worker.                                 *)

(* A step of the loops: only services or sets change, and the frame keeps  *)
(* its pointers.                                                           *)
LEMMA LoopStep ==
    ASSUME TypeInv, KeepsPointers, services' \in [Groups -> Nat \cup {None}],
           sets' \in [Groups -> StatefulSet \cup {None}],
           budget' \in 0 .. Budget,
           UNCHANGED <<cluster, lastUid, lastRV, asked, cacheVars, queueVars,
                       unseen>>
    PROVE  TypeInv'
<1>1. BoundsOK' /\ FrameOK'
  BY PointersKept DEF cacheVars
<1>2. ApiTypeOK'
  BY DEF TypeInv, TypeOK, ApiTypeOK
<1> QED
  BY <1>1, <1>2, Untouched DEF TypeInv, TypeOK, KeepsPointers

(* The loop over the Services.                                             *)
LEMMA ServiceLoopStep ==
    ASSUME TypeInv, ServiceFound \/ CreateService \/ CreateServiceFault
    PROVE  TypeInv'
<1>1. sync.index \in Groups /\ sync.obj \in BrokerCluster
  BY IndexInGroups DEF ServiceFound, CreateService, CreateServiceFault
<1>2. NewHeadlessService(sync.obj) \in Nat
  BY <1>1 DEF NewHeadlessService, BrokerCluster
<1>3. services' \in [Groups -> Nat \cup {None}]
  BY <1>1, <1>2 DEF ServiceFound, CreateService, CreateServiceFault, apiVars,
                    TypeInv, TypeOK, ApiTypeOK
<1>4. KeepsPointers
  BY ReturnKeeps, NextIndexKeeps
     DEF ServiceFound, CreateService, CreateServiceFault
<1>5. budget' \in 0 .. Budget
  BY Untouched DEF ServiceFound, CreateService, CreateServiceFault
<1>6. sets' \in [Groups -> StatefulSet \cup {None}]
  BY DEF ServiceFound, CreateService, CreateServiceFault, apiVars,
         TypeInv, TypeOK, ApiTypeOK
<1> QED
  BY <1>3, <1>4, <1>5, <1>6, LoopStep
     DEF ServiceFound, CreateService, CreateServiceFault, apiVars

(* The loop over the StatefulSets.                                         *)
LEMMA SetLoopStep ==
    ASSUME TypeInv,
           \/ SetFound \/ CreateSet \/ CreateSetFault
           \/ PatchSet \/ PatchSetFault
    PROVE  TypeInv'
<1>1. InLoop("sets")
  BY DEF SetFound, CreateSet, CreateSetFault, PatchSet, PatchSetFault, NeedsPatch
<1>2. sync.index \in Groups /\ sync.obj \in BrokerCluster
  BY <1>1, IndexInGroups
<1>3. members >= 0 => NewStatefulSet(sync.obj) \in StatefulSet
  BY <1>1, NewStatefulSetType
<1>4. Patched \in [Groups -> StatefulSet \cup {None}]
  <2> DEFINE patch == PatchStatefulSet(setCache[sync.index],
                                      NewStatefulSet(sync.obj),
                                      sets[sync.index])
  <2>1. sets \in [Groups -> StatefulSet \cup {None}]
    BY DEF TypeInv, TypeOK, ApiTypeOK
  <2>2. ASSUME sets[sync.index] # None, members >= 0
        PROVE  patch \in StatefulSet
    BY <1>2, <1>3, <2>1, <2>2, PatchType
  <2>3. Patched = [sets EXCEPT ![sync.index] =
                      IF sets[sync.index] # None /\ members >= 0
                      THEN patch ELSE sets[sync.index]]
    BY <1>2, <2>1 DEF Patched
  <2> HIDE DEF patch
  <2> QED
    BY <1>2, <2>1, <2>2, <2>3
<1>5. sets' \in [Groups -> StatefulSet \cup {None}]
  BY <1>2, <1>3, <1>4 DEF SetFound, CreateSet, CreateSetFault, PatchSet,
                          PatchSetFault, apiVars, TypeInv, TypeOK, ApiTypeOK
<1>6. SetFound => KeepsPointers
  BY <1>1, <1>2, ReturnKeeps, CountSetKeeps
     DEF SetFound, TypeInv, TypeOK, CacheTypeOK
<1>7. CreateSet \/ CreateSetFault \/ PatchSet \/ PatchSetFault => KeepsPointers
  BY <1>1, <1>3, ReturnKeeps, CountSetKeeps
     DEF CreateSet, CreateSetFault, PatchSet, PatchSetFault
<1>8. budget' \in 0 .. Budget
  BY Untouched DEF SetFound, CreateSet, CreateSetFault, PatchSet, PatchSetFault
<1>9. services' \in [Groups -> Nat \cup {None}]
  BY DEF SetFound, CreateSet, CreateSetFault, PatchSet, PatchSetFault, apiVars,
         TypeInv, TypeOK, ApiTypeOK
<1> QED
  BY <1>5, <1>6, <1>7, <1>8, <1>9, LoopStep
     DEF SetFound, CreateSet, CreateSetFault, PatchSet, PatchSetFault, apiVars

(* Taking the key, and everything outside the loops.                       *)
LEMMA SyncStep ==
    ASSUME TypeInv,
           \/ GetItem \/ FinishItem \/ SyncClusterGone \/ SyncGetCluster
           \/ ServicesDone \/ updateClusterStatus
    PROVE  TypeInv'
<1>1. CASE GetItem
  <2>1. sync' \in Frame /\ BoundsOK' /\ FrameOK'
    BY <1>1 DEF GetItem, Frame, apiVars, cacheVars, TypeInv, TypeOK, BoundsOK,
                Bounded, FrameOK
  <2> QED
    BY <1>1, <2>1, QueueStep, Untouched DEF GetItem, TypeInv, TypeOK
<1>2. CASE FinishItem
  <2>1. Idle \in Frame
    BY ConstantsAssumption DEF Idle, Frame, ReadyStatus
  <2>2. sync' = Idle
    BY <1>2 DEF FinishItem
  <2>3. BoundsOK' /\ FrameOK'
    BY <1>2, <2>2 DEF FinishItem, Idle, apiVars, cacheVars, TypeInv, BoundsOK,
                      Bounded, FrameOK
  <2> QED
    BY <1>2, <2>1, <2>2, <2>3, QueueStep, Untouched
       DEF FinishItem, TypeInv, TypeOK
<1>3. CASE SyncClusterGone
  <2>1. KeepsPointers
    BY <1>3, ReturnKeeps DEF SyncClusterGone
  <2>2. BoundsOK' /\ FrameOK'
    BY <1>3, <2>1, PointersKept DEF SyncClusterGone, apiVars, cacheVars
  <2> QED
    BY <1>3, <2>1, <2>2, Untouched
       DEF SyncClusterGone, KeepsPointers, TypeInv, TypeOK
<1>4. CASE SyncGetCluster
  <2> DEFINE object == [clusterCache EXCEPT !.spec = EnsureDefaults(@)]
  <2>1. clusterCache \in BrokerCluster
    BY <1>4 DEF SyncGetCluster, TypeInv, TypeOK, CacheTypeOK
  <2>2. clusterCache.spec \in BrokerClusterSpec
    BY <2>1 DEF BrokerCluster
  <2>3. object \in BrokerCluster
    BY <2>1, <2>2, SpecOps DEF BrokerCluster
  <2>4. object.spec = EnsureDefaults(clusterCache.spec)
    BY <2>1 DEF BrokerCluster
  <2>5. Bounded(object)
    BY <2>1, <2>2, <2>4, SpecOpsKeep, NoneAssumption
       DEF TypeInv, BoundsOK, Bounded
  <2>6. /\ clusterCache' = object
        /\ sync' = [sync EXCEPT !.pc = "services", !.obj = object,
                                !.aliased = TRUE]
    BY <1>4 DEF SyncGetCluster
  <2> HIDE DEF object
  <2>7. /\ sync' \in Frame /\ sync'.pc = "services"
        /\ sync'.obj = object /\ sync'.upd = sync.upd
    BY <2>3, <2>6 DEF TypeInv, TypeOK, Frame
  <2>8. BoundsOK' /\ FrameOK'
    BY <1>4, <2>3, <2>5, <2>6, <2>7, NoneAssumption
       DEF SyncGetCluster, apiVars, TypeInv, BoundsOK, Bounded, FrameOK
  <2>9. CacheTypeOK'
    BY <1>4, <2>3, <2>6 DEF SyncGetCluster, TypeInv, TypeOK, CacheTypeOK
  <2> QED
    BY <1>4, <2>7, <2>8, <2>9, Untouched DEF SyncGetCluster, TypeInv, TypeOK
<1>5. CASE ServicesDone
  <2> DEFINE object == [sync.obj EXCEPT !.spec = AllMasterOverride(@)]
  <2>1. sync.obj \in BrokerCluster
    BY <1>5 DEF ServicesDone, TypeInv, TypeOK, Frame, FrameOK
  <2>2. sync.obj.spec \in BrokerClusterSpec
    BY <2>1 DEF BrokerCluster
  <2>3. object \in BrokerCluster
    BY <2>1, <2>2, SpecOps DEF BrokerCluster
  <2>4. object.spec = AllMasterOverride(sync.obj.spec)
    BY <2>1 DEF BrokerCluster
  <2>5. Bounded(object)
    BY <2>1, <2>2, <2>4, SpecOpsKeep, NoneAssumption
       DEF TypeInv, BoundsOK, Bounded
  <2>6. /\ WriteThrough(object)
        /\ sync' = [sync EXCEPT !.pc = "sets", !.obj = object, !.index = 0]
    BY <1>5 DEF ServicesDone
  <2> HIDE DEF object
  <2>7. /\ sync' \in Frame /\ sync'.pc = "sets" /\ sync'.obj = object
        /\ sync'.upd = sync.upd /\ sync'.aliased = sync.aliased
    BY <2>3, <2>6 DEF TypeInv, TypeOK, Frame
  <2>8. BoundsOK' /\ FrameOK'
    BY <1>5, <2>3, <2>5, <2>6, <2>7, NoneAssumption
       DEF ServicesDone, WriteThrough, apiVars, TypeInv, BoundsOK, Bounded,
           FrameOK
  <2>9. CacheTypeOK'
    BY <1>5, <2>3, <2>6
       DEF ServicesDone, WriteThrough, TypeInv, TypeOK, CacheTypeOK
  <2> QED
    BY <1>5, <2>7, <2>8, <2>9, Untouched DEF ServicesDone, TypeInv, TypeOK
<1>6. CASE updateClusterStatus
  <2> DEFINE object == [sync.obj EXCEPT !.ready =
                           IF @ = "Absent" THEN @ ELSE ReadyNow]
  <2>1. sync.obj \in BrokerCluster
    BY <1>6 DEF updateClusterStatus, TypeInv, TypeOK, Frame, FrameOK
  <2>2. ReadyNow \in ReadyStatus
    BY DEF ReadyNow, ReadyStatus
  <2>3. object \in BrokerCluster /\ object.spec = sync.obj.spec
    BY <2>1, <2>2 DEF BrokerCluster
  <2>4. Bounded(object)
    BY <2>1, <2>3, NoneAssumption DEF TypeInv, BoundsOK, Bounded
  <2>5. /\ WriteThrough(object)
        /\ \/ sync' = [sync EXCEPT !.pc = "update", !.obj = object,
                                   !.target = ReadyNow, !.upd = object]
           \/ sync' = [sync EXCEPT !.pc = "return", !.obj = object]
    BY <1>6 DEF updateClusterStatus
  <2> HIDE DEF object
  <2>6. /\ sync' \in Frame /\ sync'.obj = object
        /\ sync'.aliased = sync.aliased
        /\ \/ sync'.pc = "update" /\ sync'.upd = object
           \/ sync'.pc = "return" /\ sync'.upd = sync.upd
    <3>1. sync \in Frame
      BY DEF TypeInv, TypeOK
    <3>2. CASE sync' = [sync EXCEPT !.pc = "update", !.obj = object,
                                    !.target = ReadyNow, !.upd = object]
      BY <2>2, <2>3, <3>1, <3>2 DEF Frame
    <3>3. CASE sync' = [sync EXCEPT !.pc = "return", !.obj = object]
      BY <2>3, <3>1, <3>3 DEF Frame
    <3> QED
      BY <2>5, <3>2, <3>3
  <2>7. BoundsOK' /\ FrameOK'
    BY <1>6, <2>3, <2>4, <2>5, <2>6, NoneAssumption
       DEF updateClusterStatus, WriteThrough, apiVars, TypeInv, BoundsOK,
           Bounded, FrameOK
  <2>8. CacheTypeOK'
    BY <1>6, <2>3, <2>5
       DEF updateClusterStatus, WriteThrough, TypeInv, TypeOK, CacheTypeOK
  <2> QED
    BY <1>6, <2>6, <2>7, <2>8, Untouched
       DEF updateClusterStatus, TypeInv, TypeOK
<1> QED
  BY <1>1, <1>2, <1>3, <1>4, <1>5, <1>6

(* Sending the status, and trying again.                                   *)
LEMMA PutStep ==
    ASSUME TypeInv, PutAccepted \/ PutRejected \/ PutFault \/ Refetch
    PROVE  TypeInv'
<1>1. ASSUME sync.pc = "update", WriteCluster(Attempt) \/ UNCHANGED <<cluster, lastRV>>,
             UNCHANGED <<services, sets, lastUid, asked>>
      PROVE  ApiTypeOK' /\ Bounded(cluster)'
  <2>1. Bounded(sync.upd) /\ Bounded(cluster)
    BY DEF TypeInv, BoundsOK
  <2>2. CASE WriteCluster(Attempt)
    <3>1. /\ cluster' \in BrokerCluster /\ lastRV' \in Nat
          /\ cluster'.spec = sync.upd.spec /\ sync.upd # None
      BY <1>1, <2>2, AttemptType, WriteClusterType, NoneAssumption
    <3> QED
      BY <1>1, <2>1, <3>1 DEF TypeInv, TypeOK, ApiTypeOK, Bounded
  <2>3. CASE UNCHANGED <<cluster, lastRV>>
    BY <1>1, <2>1, <2>3 DEF TypeInv, TypeOK, ApiTypeOK, Bounded
  <2> QED
    BY <1>1, <2>2, <2>3
<1>2. CASE PutAccepted
  <2>1. ApiTypeOK' /\ Bounded(cluster)'
    BY <1>1, <1>2 DEF PutAccepted, StoreAttempt
  <2>2. KeepsPointers
    BY <1>2, ReturnKeeps DEF PutAccepted
  <2>3. BoundsOK' /\ FrameOK'
    BY <1>2, <2>1, <2>2 DEF PutAccepted, KeepsPointers, cacheVars, TypeInv,
                            BoundsOK, Bounded, FrameOK
  <2> QED
    BY <1>2, <2>1, <2>2, <2>3, Untouched
       DEF PutAccepted, KeepsPointers, TypeInv, TypeOK
<1>3. CASE PutRejected
  <2>1. /\ sync' \in Frame /\ sync'.pc = "refetch" /\ sync'.obj = sync.obj
        /\ sync'.upd = sync.upd /\ sync'.aliased = sync.aliased
    BY <1>3 DEF PutRejected, TypeInv, TypeOK, Frame
  <2>2. BoundsOK' /\ FrameOK'
    BY <1>3, <2>1 DEF PutRejected, apiVars, cacheVars, TypeInv, BoundsOK,
                      Bounded, FrameOK
  <2> QED
    BY <1>3, <2>1, <2>2, Untouched DEF PutRejected, TypeInv, TypeOK
<1>4. CASE PutFault
  <2>1. ApiTypeOK' /\ Bounded(cluster)'
    BY <1>1, <1>4 DEF PutFault, StoreAttempt
  <2>2. /\ sync' \in Frame /\ sync'.pc = "refetch" /\ sync'.obj = sync.obj
        /\ sync'.upd = sync.upd /\ sync'.aliased = sync.aliased
    BY <1>4 DEF PutFault, TypeInv, TypeOK, Frame
  <2>3. BoundsOK' /\ FrameOK'
    BY <1>4, <2>1, <2>2 DEF PutFault, cacheVars, TypeInv, BoundsOK, Bounded,
                            FrameOK
  <2> QED
    BY <1>4, <2>1, <2>2, <2>3, Untouched DEF PutFault, TypeInv, TypeOK
<1>5. CASE Refetch
  <2>1. CASE Return(TRUE)
    <3>1. KeepsPointers
      BY <2>1, ReturnKeeps
    <3>2. BoundsOK' /\ FrameOK'
      BY <1>5, <3>1, PointersKept DEF Refetch, apiVars, cacheVars
    <3> QED
      BY <1>5, <3>1, <3>2, Untouched DEF Refetch, KeepsPointers, TypeInv, TypeOK
  <2>2. CASE ~Return(TRUE)
    <3>1. /\ clusterCache # None /\ sync.tries + 1 < RetrySteps
          /\ sync' = [sync EXCEPT !.pc = "update", !.upd = clusterCache,
                                  !.tries = sync.tries + 1]
      BY <1>5, <2>2 DEF Refetch
    <3>2. sync.tries + 1 \in 0 .. RetrySteps - 1
      BY <3>1, ConstantsAssumption DEF TypeInv, TypeOK, Frame
    <3>3. /\ sync' \in Frame /\ sync'.pc = "update" /\ sync'.obj = sync.obj
          /\ sync'.upd = clusterCache /\ sync'.aliased = sync.aliased
      BY <3>1, <3>2 DEF TypeInv, TypeOK, CacheTypeOK, Frame
    <3>4. BoundsOK' /\ FrameOK'
      BY <1>5, <3>1, <3>3 DEF Refetch, apiVars, cacheVars, TypeInv, BoundsOK,
                              Bounded, FrameOK
    <3> QED
      BY <1>5, <3>3, <3>4, Untouched DEF Refetch, TypeInv, TypeOK
  <2> QED
    BY <2>1, <2>2
<1> QED
  BY <1>2, <1>3, <1>4, <1>5

-----------------------------------------------------------------------------
(* Type correctness.                                                       *)

(* The initial states satisfy TypeInv.                                     *)
LEMMA TypeInvInit == Init => TypeInv
<1> SUFFICES ASSUME Init PROVE TypeInv
  OBVIOUS
<1>1. PICK spec \in InitialSpecs :
         cluster = [uid |-> 1, rv |-> 1, spec |-> spec, ready |-> "Absent"]
  BY DEF Init
<1>2. cluster \in BrokerCluster /\ cluster.spec = spec
  BY <1>1, ConstantsAssumption DEF BrokerCluster, Foreign, ReadyStatus
<1>3. sync = Idle /\ Idle \in Frame
  BY ConstantsAssumption DEF Init, Idle, Frame, ReadyStatus
<1>4. ApiTypeOK /\ CacheTypeOK /\ QueueTypeOK
  BY <1>2, DemandType
     DEF Init, ApiTypeOK, CacheTypeOK, QueueTypeOK, QueueInit
<1>5. BoundsOK /\ FrameOK
  BY <1>2, <1>3, ConstantsAssumption
     DEF Init, Idle, BoundsOK, Bounded, FrameOK
<1>6. budget \in 0 .. Budget
  BY ConstantsAssumption DEF Init
<1>7. unseen \in BOOLEAN
  BY DEF Init
<1> QED
  BY <1>3, <1>4, <1>5, <1>6, <1>7 DEF TypeInv, TypeOK

(* Every step preserves it.                                                *)
LEMMA TypeInvNext == TypeInv /\ [Next]_vars => TypeInv'
<1> SUFFICES ASSUME TypeInv, [Next]_vars PROVE TypeInv'
  OBVIOUS
<1>1. CASE User
  BY <1>1, UserStep
<1>2. ASSUME NEW g \in Groups, Pods(g) \/ PodUnready(g) \/ Collector(g)
      PROVE  TypeInv'
  BY <1>2, KubernetesStep
<1>3. CASE \/ InformCluster \/ RelistCluster \/ SetsInformer
           \/ ServicesInformer \/ Resync \/ QueueDelayOver
  BY <1>3, InformerStep
<1>4. CASE Worker
  BY <1>4, ServiceLoopStep, SetLoopStep, SyncStep, PutStep DEF Worker
<1>5. CASE Restart
  <2>1. Idle \in Frame
    BY ConstantsAssumption DEF Idle, Frame, ReadyStatus
  <2>2. CacheTypeOK'
    BY <1>5 DEF Restart, CacheTypeOK
  <2>3. BoundsOK' /\ FrameOK'
    BY <1>5 DEF Restart, apiVars, Idle, TypeInv, BoundsOK, Bounded, FrameOK
  <2> QED
    BY <1>5, <2>1, <2>2, <2>3, QueueStep, Untouched
       DEF Restart, TypeInv, TypeOK
<1>6. CASE UNCHANGED vars
  BY <1>6, Untouched DEF vars, apiVars, cacheVars, TypeInv, TypeOK
<1> QED
  BY <1>1, <1>2, <1>3, <1>4, <1>5, <1>6 DEF Next

(* TypeInv holds in every reachable state.                                 *)
LEMMA TypeInvariance == Spec => []TypeInv
BY TypeInvInit, TypeInvNext, PTL DEF Spec

(* Every variable always has its type: whatever specs the user submits and *)
(* in whatever order caches, faults and restarts come, syncHandler asks    *)
(* for no negative number of replicas that the server would take, indexes  *)
(* only groups that exist, and retries a status update within the bound of *)
(* RetryOnConflict.                                                        *)
THEOREM TypeCorrect == Spec => []TypeOK
BY TypeInvariance, PTL DEF TypeInv

-----------------------------------------------------------------------------
(* No wake-up is lost.  NoLostWakeup is inductive together with TypeInv.   *)

(* A step that leaves the key, the history and the program counter alone.  *)
LEMMA WakeupUntouched ==
    ASSUME NoLostWakeup, UNCHANGED <<clusterCache, queueVars, sync, unseen>>
    PROVE  NoLostWakeup'
BY DEF NoLostWakeup, Pending, queueVars

(* A step of syncHandler after it has read the cluster: the key is already *)
(* on its way again if anything changed since.                             *)
LEMMA WakeupPastGet ==
    ASSUME NoLostWakeup, sync.pc # "get", UNCHANGED <<queueVars, unseen>>,
           clusterCache' # None => clusterCache # None
    PROVE  NoLostWakeup'
BY DEF NoLostWakeup, Pending, queueVars

(* The steps of the worker.                                                *)
LEMMA WakeupWorker ==
    ASSUME TypeInv, NoLostWakeup, Worker
    PROVE  NoLostWakeup'
<1>1. CASE GetItem
  BY <1>1 DEF GetItem, Get, cacheVars, NoLostWakeup, Pending, TypeInv, TypeOK,
              Frame
<1>2. CASE FinishItem
  BY <1>2 DEF FinishItem, Done, cacheVars, NoLostWakeup, Pending
<1>3. CASE SyncClusterGone
  BY <1>3 DEF SyncClusterGone, cacheVars, NoLostWakeup
<1>4. CASE SyncGetCluster
  BY <1>4 DEF SyncGetCluster, NoLostWakeup
<1>5. CASE ServicesDone \/ updateClusterStatus
  <2>1. clusterCache' # None => clusterCache # None
    BY <1>5 DEF ServicesDone, updateClusterStatus, WriteThrough, TypeInv, FrameOK
  <2> QED
    BY <1>5, <2>1, WakeupPastGet DEF ServicesDone, updateClusterStatus
<1>6. CASE ServiceFound \/ CreateService \/ CreateServiceFault
  BY <1>6, WakeupPastGet
     DEF ServiceFound, CreateService, CreateServiceFault, InLoop, cacheVars
<1>7. CASE SetFound \/ CreateSet \/ CreateSetFault
  BY <1>7, WakeupPastGet
     DEF SetFound, CreateSet, CreateSetFault, InLoop, cacheVars
<1>8. CASE PatchSet \/ PatchSetFault
  BY <1>8, WakeupPastGet
     DEF PatchSet, PatchSetFault, NeedsPatch, InLoop, cacheVars
<1>9. CASE PutAccepted \/ PutRejected \/ PutFault \/ Refetch
  BY <1>9, WakeupPastGet
     DEF PutAccepted, PutRejected, PutFault, Refetch, cacheVars
<1> QED
  BY <1>1, <1>2, <1>3, <1>4, <1>5, <1>6, <1>7, <1>8, <1>9 DEF Worker

(* The other steps: an event sets the history variable and enqueues.       *)
LEMMA WakeupNext == TypeInv /\ NoLostWakeup /\ [Next]_vars => NoLostWakeup'
<1> SUFFICES ASSUME TypeInv, NoLostWakeup, [Next]_vars PROVE NoLostWakeup'
  OBVIOUS
<1>1. CASE User
  BY <1>1, WakeupUntouched
     DEF User, EditCluster, CreateCluster, DeleteCluster, LoseService, LoseSet,
         ForeignSet, cacheVars
<1>2. ASSUME NEW g \in Groups, Pods(g) \/ PodUnready(g) \/ Collector(g)
      PROVE  NoLostWakeup'
  BY <1>2, WakeupUntouched
     DEF Pods, PodCreated, PodReady, PodRemoved, PodUnready, SetStatus,
         Collector, CollectService, CollectSet, cacheVars
<1>3. CASE InformCluster \/ RelistCluster
  BY <1>3 DEF InformCluster, RelistCluster, enqueueCluster, AddRateLimited,
              NoLostWakeup, Pending
<1>4. CASE SetsInformer
  <2>1. PICK objects : handleObject(objects) /\ Changed(objects)
    BY <1>4 DEF SetsInformer, ListSets, InformSet
  <2>2. UNCHANGED <<clusterCache, sync>>
    BY <1>4 DEF SetsInformer, ListSets, InformSet
  <2> QED
    BY <2>1, <2>2 DEF handleObject, Changed, enqueueCluster, AddRateLimited,
                      queueVars, NoLostWakeup, Pending
<1>5. CASE ServicesInformer
  BY <1>5, WakeupUntouched DEF ServicesInformer, ListServices, InformService
<1>6. CASE Resync
  BY <1>6 DEF Resync, enqueueCluster, AddRateLimited, NoLostWakeup, Pending
<1>7. CASE QueueDelayOver
  BY <1>7 DEF QueueDelayOver, DelayOver, NoLostWakeup, Pending
<1>8. CASE Worker
  BY <1>8, WakeupWorker
<1>9. CASE Restart
  BY <1>9 DEF Restart, NoLostWakeup
<1>10. CASE UNCHANGED vars
  BY <1>10, WakeupUntouched DEF vars, cacheVars
<1> QED
  BY <1>1, <1>2, <1>3, <1>4, <1>5, <1>6, <1>7, <1>8, <1>9, <1>10 DEF Next

(* Every change of a cached BrokerCluster or StatefulSet is followed by a  *)
(* sync that reads the caches after it, however handlers, delays, a sync   *)
(* in progress and restarts interleave: until then the key is waiting,     *)
(* dirty, or in the hands of a worker that has not read the cluster yet.   *)
THEOREM WakeupsKept == Spec => []NoLostWakeup
<1>1. Init => NoLostWakeup
  BY DEF Init, NoLostWakeup
<1> QED
  BY <1>1, WakeupNext, TypeInvariance, PTL DEF Spec

-----------------------------------------------------------------------------
(* The operator's writes keep the user's edits.                            *)

(* An object the operator holds and the API server's, c, agree: the object *)
(* is no newer than v, the last resourceVersion given, and if it has the   *)
(* resourceVersion of c then it is c up to the defaults, the override and  *)
(* the status that syncHandler writes into it.                             *)
Agrees(object, c, v) ==
    object # None =>
        /\ object.rv <= v
        /\ c # None /\ object.rv = c.rv =>
              /\ object.uid = c.uid
              /\ Desired(object.spec) = Desired(c.spec)

(* This is so of the cached object, of the worker's pointer and of the     *)
(* copy to be sent.                                                        *)
VersionsOK ==
    /\ Agrees(cluster, cluster, lastRV)
    /\ Agrees(clusterCache, cluster, lastRV)
    /\ Agrees(sync.obj, cluster, lastRV)
    /\ Agrees(sync.upd, cluster, lastRV)

(* A fresh resourceVersion is that of no older object.                     *)
LEMMA FreshAgrees ==
    ASSUME NEW object \in BrokerCluster \cup {None}, NEW c, NEW v \in Nat,
           Agrees(object, c, v), NEW d \in BrokerCluster, d.rv = v + 1
    PROVE  Agrees(object, d, v + 1)
BY DEF Agrees, BrokerCluster

(* Every object agrees with a server that has none.                        *)
LEMMA GoneAgrees ==
    ASSUME NEW object, NEW c, NEW v, Agrees(object, c, v)
    PROVE  Agrees(object, None, v)
BY DEF Agrees

(* Writing defaults, override or status into an object keeps it agreed.    *)
LEMMA RewrittenAgrees ==
    ASSUME NEW object, NEW other, NEW c, NEW v, object # None,
           Agrees(object, c, v), other.rv = object.rv, other.uid = object.uid,
           Desired(other.spec) = Desired(object.spec)
    PROVE  Agrees(other, c, v)
BY DEF Agrees

(* The fields of a rewritten object.                                       *)
LEMMA Rewritten ==
    ASSUME NEW object \in BrokerCluster, NEW spec \in BrokerClusterSpec,
           NEW ready \in ReadyStatus
    PROVE  /\ [object EXCEPT !.spec = spec].rv = object.rv
           /\ [object EXCEPT !.spec = spec].uid = object.uid
           /\ [object EXCEPT !.spec = spec].spec = spec
           /\ [object EXCEPT !.ready = ready].rv = object.rv
           /\ [object EXCEPT !.ready = ready].uid = object.uid
           /\ [object EXCEPT !.ready = ready].spec = object.spec
BY DEF BrokerCluster

(* A write of the server, the worker's pointers and the cache unchanged.   *)
LEMMA WriteAgrees ==
    ASSUME TypeInv, VersionsOK, NEW object \in BrokerCluster,
           WriteCluster(object), UNCHANGED clusterCache,
           sync'.obj = sync.obj, sync'.upd = sync.upd
    PROVE  VersionsOK'
<1>1. /\ cluster' \in BrokerCluster /\ cluster'.rv = lastRV + 1
      /\ lastRV' = lastRV + 1 /\ lastRV \in Nat
  BY WriteClusterType DEF WriteCluster, TypeInv, TypeOK, ApiTypeOK
<1>2. /\ clusterCache \in BrokerCluster \cup {None}
      /\ sync.obj \in BrokerCluster \cup {None}
      /\ sync.upd \in BrokerCluster \cup {None}
  BY DEF TypeInv, TypeOK, CacheTypeOK, Frame
<1>3. /\ Agrees(clusterCache, cluster', lastRV')
      /\ Agrees(sync.obj, cluster', lastRV')
      /\ Agrees(sync.upd, cluster', lastRV')
  BY <1>1, <1>2, FreshAgrees DEF VersionsOK
<1>4. Agrees(cluster', cluster', lastRV')
  BY <1>1 DEF Agrees
<1> QED
  BY <1>3, <1>4 DEF VersionsOK

(* Steps that write neither the BrokerCluster nor a copy of it.            *)
LEMMA VersionsUntouched ==
    ASSUME VersionsOK, UNCHANGED <<cluster, lastRV, clusterCache>>,
           sync'.obj = sync.obj, sync'.upd = sync.upd
    PROVE  VersionsOK'
BY DEF VersionsOK

(* syncHandler writes into the object it got from the lister.              *)
LEMMA VersionsSync ==
    ASSUME TypeInv, VersionsOK,
           SyncGetCluster \/ ServicesDone \/ updateClusterStatus
    PROVE  VersionsOK'
<1>1. UNCHANGED <<cluster, lastRV>>
  BY DEF SyncGetCluster, ServicesDone, updateClusterStatus, apiVars
<1>2. sync \in Frame
  BY DEF TypeInv, TypeOK
<1>3. CASE SyncGetCluster
  <2> DEFINE object == [clusterCache EXCEPT !.spec = EnsureDefaults(@)]
  <2>1. clusterCache \in BrokerCluster
    BY <1>3 DEF SyncGetCluster, TypeInv, TypeOK, CacheTypeOK
  <2>2. clusterCache.spec \in BrokerClusterSpec
    BY <2>1 DEF BrokerCluster
  <2>3. /\ object.rv = clusterCache.rv /\ object.uid = clusterCache.uid
        /\ Desired(object.spec) = Desired(clusterCache.spec)
    BY <2>1, <2>2, SpecOps, SpecOpsKeep, Rewritten DEF ReadyStatus
  <2>4. /\ clusterCache' = object
        /\ sync' = [sync EXCEPT !.pc = "services", !.obj = object,
                                !.aliased = TRUE]
    BY <1>3 DEF SyncGetCluster
  <2> HIDE DEF object
  <2>5. sync'.obj = object /\ sync'.upd = sync.upd
    BY <1>2, <2>4 DEF Frame
  <2>6. Agrees(object, cluster, lastRV)
    BY <2>1, <2>3, RewrittenAgrees, NoneAssumption DEF VersionsOK
  <2> QED
    BY <1>1, <2>4, <2>5, <2>6 DEF VersionsOK
<1>4. CASE ServicesDone
  <2> DEFINE object == [sync.obj EXCEPT !.spec = AllMasterOverride(@)]
  <2>1. sync.obj \in BrokerCluster
    BY <1>4 DEF ServicesDone, TypeInv, TypeOK, Frame, FrameOK
  <2>2. sync.obj.spec \in BrokerClusterSpec
    BY <2>1 DEF BrokerCluster
  <2>3. /\ object.rv = sync.obj.rv /\ object.uid = sync.obj.uid
        /\ Desired(object.spec) = Desired(sync.obj.spec)
    BY <2>1, <2>2, SpecOps, SpecOpsKeep, Rewritten DEF ReadyStatus
  <2>4. /\ clusterCache' \in {clusterCache, object}
        /\ sync' = [sync EXCEPT !.pc = "sets", !.obj = object, !.index = 0]
    BY <1>4 DEF ServicesDone, WriteThrough
  <2> HIDE DEF object
  <2>5. sync'.obj = object /\ sync'.upd = sync.upd
    BY <1>2, <2>4 DEF Frame
  <2>6. Agrees(object, cluster, lastRV)
    BY <2>1, <2>3, RewrittenAgrees, NoneAssumption DEF VersionsOK
  <2> QED
    BY <1>1, <2>4, <2>5, <2>6 DEF VersionsOK
<1>5. CASE updateClusterStatus
  <2> DEFINE object == [sync.obj EXCEPT !.ready =
                           IF @ = "Absent" THEN @ ELSE ReadyNow]
  <2>1. sync.obj \in BrokerCluster
    BY <1>5 DEF updateClusterStatus, TypeInv, TypeOK, Frame, FrameOK
  <2>2. /\ object.rv = sync.obj.rv /\ object.uid = sync.obj.uid
        /\ object.spec = sync.obj.spec
    BY <2>1 DEF BrokerCluster
  <2>3. /\ clusterCache' \in {clusterCache, object}
        /\ \/ sync' = [sync EXCEPT !.pc = "update", !.obj = object,
                                   !.target = ReadyNow, !.upd = object]
           \/ sync' = [sync EXCEPT !.pc = "return", !.obj = object]
    BY <1>5 DEF updateClusterStatus, WriteThrough
  <2> HIDE DEF object
  <2>4. sync'.obj = object /\ sync'.upd \in {sync.upd, object}
    BY <1>2, <2>3 DEF Frame
  <2>5. Agrees(object, cluster, lastRV)
    BY <2>1, <2>2, RewrittenAgrees, NoneAssumption DEF VersionsOK
  <2> QED
    BY <1>1, <2>3, <2>4, <2>5 DEF VersionsOK
<1> QED
  BY <1>3, <1>4, <1>5

(* The other steps of the worker.                                          *)
LEMMA VersionsWorker ==
    ASSUME TypeInv, VersionsOK, Worker
    PROVE  VersionsOK'
<1>1. sync \in Frame
  BY DEF TypeInv, TypeOK
<1>2. CASE SyncGetCluster \/ ServicesDone \/ updateClusterStatus
  BY <1>2, VersionsSync
<1>3. CASE FinishItem
  BY <1>3 DEF FinishItem, Idle, apiVars, cacheVars, VersionsOK, Agrees
<1>4. CASE GetItem \/ SyncClusterGone \/ PutRejected
  <2>1. sync'.obj = sync.obj /\ sync'.upd = sync.upd
    BY <1>1, <1>4 DEF GetItem, SyncClusterGone, PutRejected, Return, Frame
  <2> QED
    BY <1>4, <2>1, VersionsUntouched
       DEF GetItem, SyncClusterGone, PutRejected, apiVars, cacheVars
<1>5. CASE ServiceFound \/ CreateService \/ CreateServiceFault
  <2>1. sync'.obj = sync.obj /\ sync'.upd = sync.upd
    BY <1>1, <1>5 DEF ServiceFound, CreateService, CreateServiceFault, Return,
                      NextIndex, Frame
  <2> QED
    BY <1>5, <2>1, VersionsUntouched
       DEF ServiceFound, CreateService, CreateServiceFault, apiVars, cacheVars
<1>6. CASE SetFound \/ CreateSet \/ CreateSetFault \/ PatchSet \/ PatchSetFault
  <2>1. \E ss : Return(TRUE) \/ CountSet(ss)
    BY <1>6 DEF SetFound, CreateSet, CreateSetFault, PatchSet, PatchSetFault
  <2>2. sync'.obj = sync.obj /\ sync'.upd = sync.upd
    BY <1>1, <2>1 DEF Return, CountSet, Frame
  <2> QED
    BY <1>6, <2>2, VersionsUntouched
       DEF SetFound, CreateSet, CreateSetFault, PatchSet, PatchSetFault,
           apiVars, cacheVars
<1>7. CASE PutAccepted \/ PutFault
  <2>1. sync'.obj = sync.obj /\ sync'.upd = sync.upd
    BY <1>1, <1>7 DEF PutAccepted, PutFault, Return, Frame
  <2>2. WriteCluster(Attempt) \/ UNCHANGED <<cluster, lastRV>>
    BY <1>7 DEF PutAccepted, PutFault, StoreAttempt
  <2> QED
    BY <1>7, <2>1, <2>2, AttemptType, WriteAgrees, VersionsUntouched
       DEF PutAccepted, PutFault, cacheVars
<1>8. CASE Refetch
  <2>1. sync'.obj = sync.obj /\ sync'.upd \in {sync.upd, clusterCache}
    BY <1>1, <1>8 DEF Refetch, Return, Frame
  <2> QED
    BY <1>8, <2>1 DEF Refetch, apiVars, cacheVars, VersionsOK
<1> QED
  BY <1>2, <1>3, <1>4, <1>5, <1>6, <1>7, <1>8 DEF Worker

(* Every step preserves VersionsOK.                                        *)
LEMMA VersionsNext == TypeInv /\ VersionsOK /\ [Next]_vars => VersionsOK'
<1> SUFFICES ASSUME TypeInv, VersionsOK, [Next]_vars PROVE VersionsOK'
  OBVIOUS
<1>1. ASSUME NEW spec \in Specs, EditCluster(spec) PROVE VersionsOK'
  <2>1. [cluster EXCEPT !.spec = spec] \in BrokerCluster
    BY <1>1, ConstantsAssumption
       DEF EditCluster, TypeInv, TypeOK, ApiTypeOK, BrokerCluster
  <2> QED
    BY <1>1, <2>1, WriteAgrees DEF EditCluster, cacheVars
<1>2. ASSUME NEW spec \in Specs, CreateCluster(spec) PROVE VersionsOK'
  <2>1. lastUid + 1 \in Nat \ {Foreign}
    BY DEF TypeInv, TypeOK, ApiTypeOK, Foreign
  <2>2. [uid |-> lastUid + 1, rv |-> 0, spec |-> spec, ready |-> "Absent"]
           \in BrokerCluster
    BY <2>1, ConstantsAssumption DEF BrokerCluster, ReadyStatus
  <2> QED
    BY <1>2, <2>2, WriteAgrees DEF CreateCluster, cacheVars
<1>3. CASE DeleteCluster
  BY <1>3, GoneAgrees DEF DeleteCluster, cacheVars, VersionsOK, Agrees
<1>4. ASSUME NEW g \in Groups,
             \/ LoseService(g) \/ LoseSet(g) \/ ForeignSet(g)
             \/ Pods(g) \/ PodUnready(g) \/ Collector(g)
      PROVE  VersionsOK'
  BY <1>4, VersionsUntouched
     DEF LoseService, LoseSet, ForeignSet, Pods, PodCreated, PodReady,
         PodRemoved, PodUnready, SetStatus, Collector, CollectService,
         CollectSet, cacheVars
<1>5. CASE InformCluster \/ RelistCluster
  <2>1. sync'.obj = sync.obj /\ sync'.upd = sync.upd
    BY <1>5 DEF InformCluster, RelistCluster, TypeInv, TypeOK, Frame
  <2> QED
    BY <1>5, <2>1 DEF InformCluster, RelistCluster, apiVars, VersionsOK
<1>6. CASE SetsInformer \/ ServicesInformer \/ Resync \/ QueueDelayOver
  BY <1>6, VersionsUntouched
     DEF SetsInformer, ListSets, InformSet, ServicesInformer, ListServices,
         InformService, Resync, QueueDelayOver, apiVars, cacheVars
<1>7. CASE Worker
  BY <1>7, VersionsWorker
<1>8. CASE Restart
  BY <1>8 DEF Restart, Idle, apiVars, VersionsOK, Agrees
<1>9. CASE UNCHANGED vars
  BY <1>9, VersionsUntouched DEF vars, apiVars, cacheVars
<1> QED
  BY <1>1, <1>2, <1>3, <1>4, <1>5, <1>6, <1>7, <1>8, <1>9 DEF Next, User

(* A write of the operator replaces the object it was computed from.       *)
LEMMA OperatorWrite ==
    ASSUME TypeInv, VersionsOK, [Next]_vars, OperatorWrites
    PROVE  /\ cluster # None /\ cluster' # None
           /\ cluster'.uid = cluster.uid
           /\ Desired(cluster'.spec) = Desired(cluster.spec)
<1>1. PutAccepted \/ PutFault
  <2>1. sync' # sync /\ cluster' # cluster
    BY DEF OperatorWrites
  <2>2. ~User
    BY <2>1 DEF User, EditCluster, CreateCluster, DeleteCluster, LoseService,
                LoseSet, ForeignSet
  <2>3. ASSUME NEW g \in Groups, Pods(g) \/ PodUnready(g) \/ Collector(g)
        PROVE  FALSE
    BY <2>1, <2>3 DEF Pods, PodCreated, PodReady, PodRemoved, PodUnready,
                      SetStatus, Collector, CollectService, CollectSet
  <2>4. ~ \/ InformCluster \/ RelistCluster \/ SetsInformer
          \/ ServicesInformer \/ Resync \/ QueueDelayOver \/ Restart
    BY <2>1 DEF InformCluster, RelistCluster, SetsInformer, ListSets, InformSet,
                ServicesInformer, ListServices, InformService, Resync,
                QueueDelayOver, Restart, apiVars
  <2>5. Worker
    BY <2>1, <2>2, <2>3, <2>4 DEF Next, vars, apiVars
  <2> QED
    BY <2>1, <2>5
       DEF Worker, GetItem, FinishItem, SyncClusterGone, SyncGetCluster,
           ServiceFound, CreateService, CreateServiceFault, ServicesDone,
           SetFound, CreateSet, CreateSetFault, PatchSet, PatchSetFault,
           updateClusterStatus, PutRejected, Refetch, apiVars
<1>2. /\ cluster # None /\ sync.pc = "update" /\ sync.upd.rv = cluster.rv
      /\ WriteCluster(Attempt)
  BY <1>1 DEF PutAccepted, PutFault, StoreAttempt, OperatorWrites
<1>3. /\ cluster' \in BrokerCluster /\ sync.upd # None
      /\ cluster'.uid = sync.upd.uid /\ cluster'.spec = sync.upd.spec
  BY <1>2, AttemptType, WriteClusterType, NoneAssumption
<1> QED
  BY <1>2, <1>3, NoneAssumption DEF VersionsOK, Agrees

(* The versions of the copies are an invariant.                            *)
LEMMA VersionsInvariance == Spec => [](TypeInv /\ VersionsOK)
<1>1. Init => VersionsOK
  BY DEF Init, Idle, VersionsOK, Agrees
<1> QED
  BY <1>1, VersionsNext, TypeInvariance, PTL DEF Spec

(* The status update never undoes an edit of the user and never brings     *)
(* back a deleted cluster, although UpdateClusterStatus sends the whole    *)
(* object, from a cache that may be stale and that syncHandler writes      *)
(* defaults and override into: the resourceVersion pins the spec.          *)
THEOREM EditsKept == Spec => NoLostEdit
<1>1. TypeInv /\ VersionsOK /\ [Next]_vars =>
         [OperatorWrites =>
            /\ cluster # None /\ cluster' # None
            /\ cluster'.uid = cluster.uid
            /\ Desired(cluster'.spec) = Desired(cluster.spec)]_vars
  BY OperatorWrite
<1> QED
  BY <1>1, VersionsInvariance, PTL DEF Spec, NoLostEdit

-----------------------------------------------------------------------------
(* The specs the operator works with.                                      *)

(* An object asks for what some spec that the user submits asks for.       *)
Submitted(object) ==
    object # None => \E spec \in Specs : Desired(object.spec) = Desired(spec)

(* This is so of every copy of the BrokerCluster.                          *)
SubmittedOK ==
    /\ Submitted(cluster)
    /\ Submitted(clusterCache)
    /\ Submitted(sync.obj)
    /\ Submitted(sync.upd)

(* The spec that the loops read has its defaults, and then the override.   *)
DefaultsOK ==
    /\ sync.pc = "services" => EnsureDefaults(sync.obj.spec) = sync.obj.spec
    /\ sync.pc \in {"sets", "update", "refetch"} =>
          members = Desired(sync.obj.spec).membersPerGroup

SpecInv == SubmittedOK /\ DefaultsOK

(* A write of the server, the worker's pointers and the cache unchanged.   *)
LEMMA WriteSubmitted ==
    ASSUME TypeInv, SubmittedOK, NEW object \in BrokerCluster,
           Submitted(object), WriteCluster(object), UNCHANGED clusterCache,
           sync'.obj = sync.obj, sync'.upd = sync.upd
    PROVE  SubmittedOK'
<1>1. cluster'.spec = object.spec /\ object # None
  BY WriteClusterType, NoneAssumption
<1> QED
  BY <1>1 DEF SubmittedOK, Submitted

(* Steps that write neither the BrokerCluster nor a copy of it.            *)
LEMMA SubmittedUntouched ==
    ASSUME SubmittedOK, UNCHANGED <<cluster, clusterCache>>,
           sync'.obj = sync.obj, sync'.upd = sync.upd
    PROVE  SubmittedOK'
BY DEF SubmittedOK, Submitted

(* What syncHandler writes into the object it got from the lister leaves   *)
(* what the object asks for, and makes it explicit in the end.             *)
LEMMA SpecSync ==
    ASSUME TypeInv, SpecInv,
           SyncGetCluster \/ ServicesDone \/ updateClusterStatus
    PROVE  /\ SpecInv'
           /\ updateClusterStatus => sync'.obj.spec = sync.obj.spec
<1>1. cluster' = cluster /\ sync \in Frame /\ SubmittedOK /\ DefaultsOK
  BY DEF SyncGetCluster, ServicesDone, updateClusterStatus, apiVars, TypeInv,
         TypeOK, SpecInv
<1>2. CASE SyncGetCluster
  <2> DEFINE object == [clusterCache EXCEPT !.spec = EnsureDefaults(@)]
  <2>1. clusterCache \in BrokerCluster
    BY <1>2 DEF SyncGetCluster, TypeInv, TypeOK, CacheTypeOK
  <2>2. clusterCache.spec \in BrokerClusterSpec
    BY <2>1 DEF BrokerCluster
  <2>3. object.spec = EnsureDefaults(clusterCache.spec)
    BY <2>1 DEF BrokerCluster
  <2>4. /\ clusterCache' = object
        /\ sync' = [sync EXCEPT !.pc = "services", !.obj = object,
                                !.aliased = TRUE]
    BY <1>2 DEF SyncGetCluster
  <2> HIDE DEF object
  <2>5. sync'.obj = object /\ sync'.upd = sync.upd /\ sync'.pc = "services"
    BY <1>1, <2>4 DEF Frame
  <2>6. Submitted(object) /\ EnsureDefaults(object.spec) = object.spec
    BY <1>1, <2>1, <2>2, <2>3, SpecOpsKeep, NoneAssumption
       DEF SubmittedOK, Submitted
  <2>7. ~updateClusterStatus
    BY <1>2 DEF SyncGetCluster, updateClusterStatus
  <2>8. SubmittedOK'
    BY <1>1, <2>4, <2>5, <2>6 DEF SubmittedOK
  <2> QED
    BY <2>5, <2>6, <2>7, <2>8 DEF SpecInv, DefaultsOK
<1>3. CASE ServicesDone
  <2> DEFINE object == [sync.obj EXCEPT !.spec = AllMasterOverride(@)]
  <2>1. sync.obj \in BrokerCluster
    BY <1>3 DEF ServicesDone, TypeInv, TypeOK, Frame, FrameOK
  <2>2. sync.obj.spec \in BrokerClusterSpec
    BY <2>1 DEF BrokerCluster
  <2>3. object.spec = AllMasterOverride(sync.obj.spec)
    BY <2>1 DEF BrokerCluster
  <2>4. /\ clusterCache' \in {clusterCache, object}
        /\ sync' = [sync EXCEPT !.pc = "sets", !.obj = object, !.index = 0]
    BY <1>3 DEF ServicesDone, WriteThrough
  <2> HIDE DEF object
  <2>5. sync'.obj = object /\ sync'.upd = sync.upd /\ sync'.pc = "sets"
    BY <1>1, <2>4 DEF Frame
  <2>6. Submitted(object)
    BY <1>1, <2>1, <2>2, <2>3, SpecOpsKeep, NoneAssumption
       DEF SubmittedOK, Submitted
  <2>7. object.spec.membersPerGroup = Desired(object.spec).membersPerGroup
    <3>1. object.spec = Desired(sync.obj.spec)
      BY <1>1, <1>3, <2>3 DEF ServicesDone, DefaultsOK, Desired
    <3>2. Desired(object.spec) = Desired(sync.obj.spec)
      BY <2>2, <2>3, SpecOpsKeep
    <3> QED
      BY <3>1, <3>2
  <2>8. ~updateClusterStatus
    BY <1>3 DEF ServicesDone, updateClusterStatus
  <2>9. SubmittedOK'
    BY <1>1, <2>4, <2>5, <2>6 DEF SubmittedOK
  <2> QED
    BY <2>5, <2>7, <2>8, <2>9 DEF SpecInv, DefaultsOK, members
<1>4. CASE updateClusterStatus
  <2> DEFINE object == [sync.obj EXCEPT !.ready =
                           IF @ = "Absent" THEN @ ELSE ReadyNow]
  <2>1. sync.obj \in BrokerCluster /\ sync.pc = "sets"
    BY <1>4 DEF updateClusterStatus, TypeInv, TypeOK, Frame, FrameOK
  <2>2. object.spec = sync.obj.spec
    BY <2>1 DEF BrokerCluster
  <2>3. /\ clusterCache' \in {clusterCache, object}
        /\ \/ sync' = [sync EXCEPT !.pc = "update", !.obj = object,
                                   !.target = ReadyNow, !.upd = object]
           \/ sync' = [sync EXCEPT !.pc = "return", !.obj = object]
    BY <1>4 DEF updateClusterStatus, WriteThrough
  <2> HIDE DEF object
  <2>4. /\ sync'.obj = object /\ sync'.upd \in {sync.upd, object}
        /\ sync'.pc \in {"update", "return"}
    BY <1>1, <2>3 DEF Frame
  <2>5. Submitted(object)
    BY <1>1, <2>1, <2>2, NoneAssumption DEF SubmittedOK, Submitted
  <2>6. SubmittedOK'
    BY <1>1, <2>3, <2>4, <2>5 DEF SubmittedOK
  <2> QED
    BY <1>1, <2>1, <2>2, <2>4, <2>6 DEF SpecInv, DefaultsOK, members
<1> QED
  BY <1>2, <1>3, <1>4

(* The pointer of the lister stays, and the program counter stays where it *)
(* means the same spec.                                                    *)
LEMMA DefaultsUntouched ==
    ASSUME DefaultsOK, sync'.obj = sync.obj,
           \/ sync'.pc = sync.pc
           \/ sync'.pc \in {"idle", "get", "return"}
           \/ {sync.pc, sync'.pc} \subseteq {"update", "refetch"}
    PROVE  DefaultsOK'
BY DEF DefaultsOK, members

(* The loops keep the pointers, and leave syncHandler or go on.            *)
LEMMA LoopKeepsObject ==
    ASSUME TypeInv,
           \/ ServiceFound \/ CreateService \/ CreateServiceFault
           \/ SetFound \/ CreateSet \/ CreateSetFault
           \/ PatchSet \/ PatchSetFault
    PROVE  /\ sync'.obj = sync.obj /\ sync'.upd = sync.upd
           /\ sync'.pc \in {sync.pc, "return"}
<1>1. \E ss : Return(TRUE) \/ NextIndex \/ CountSet(ss)
  BY DEF ServiceFound, CreateService, CreateServiceFault, SetFound, CreateSet,
         CreateSetFault, PatchSet, PatchSetFault
<1>2. sync \in Frame
  BY DEF TypeInv, TypeOK
<1> QED
  BY <1>1, <1>2 DEF Return, NextIndex, CountSet, Frame

(* The steps of the worker.                                                *)
LEMMA SpecWorker ==
    ASSUME TypeInv, SpecInv, Worker
    PROVE  SpecInv'
<1>1. sync \in Frame /\ SubmittedOK /\ DefaultsOK
  BY DEF TypeInv, TypeOK, SpecInv
<1>2. CASE SyncGetCluster \/ ServicesDone \/ updateClusterStatus
  BY <1>2, SpecSync
<1>3. CASE FinishItem
  BY <1>1, <1>3 DEF FinishItem, Idle, apiVars, cacheVars, SpecInv, SubmittedOK,
                    Submitted, DefaultsOK
<1>4. CASE GetItem \/ SyncClusterGone \/ PutRejected
  <2>1. /\ sync'.obj = sync.obj /\ sync'.upd = sync.upd
        /\ \/ sync'.pc \in {"get", "return"}
           \/ {sync.pc, sync'.pc} \subseteq {"update", "refetch"}
    BY <1>1, <1>4 DEF GetItem, SyncClusterGone, PutRejected, Return, Frame
  <2> QED
    BY <1>1, <1>4, <2>1, SubmittedUntouched, DefaultsUntouched
       DEF GetItem, SyncClusterGone, PutRejected, apiVars, cacheVars, SpecInv
<1>5. CASE \/ ServiceFound \/ CreateService \/ CreateServiceFault
           \/ SetFound \/ CreateSet \/ CreateSetFault
           \/ PatchSet \/ PatchSetFault
  <2>1. UNCHANGED <<cluster, clusterCache>>
    BY <1>5
       DEF ServiceFound, CreateService, CreateServiceFault, SetFound, CreateSet,
           CreateSetFault, PatchSet, PatchSetFault, apiVars, cacheVars
  <2> QED
    BY <1>1, <1>5, <2>1, LoopKeepsObject, SubmittedUntouched, DefaultsUntouched
       DEF SpecInv
<1>6. CASE PutAccepted \/ PutFault
  <2>1. /\ sync'.obj = sync.obj /\ sync'.upd = sync.upd
        /\ sync.pc = "update" /\ sync'.pc \in {"return", "refetch"}
    BY <1>1, <1>6 DEF PutAccepted, PutFault, Return, Frame
  <2>2. WriteCluster(Attempt) \/ UNCHANGED cluster
    BY <1>6 DEF PutAccepted, PutFault, StoreAttempt
  <2>3. Attempt \in BrokerCluster /\ Submitted(Attempt)
    BY <1>1, <2>1, AttemptType, NoneAssumption DEF SubmittedOK, Submitted
  <2>4. UNCHANGED clusterCache
    BY <1>6 DEF PutAccepted, PutFault, cacheVars
  <2>5. SubmittedOK'
    BY <1>1, <2>1, <2>2, <2>3, <2>4, WriteSubmitted, SubmittedUntouched
  <2>6. DefaultsOK'
    BY <1>1, <2>1, DefaultsUntouched
  <2> QED
    BY <2>5, <2>6 DEF SpecInv
<1>7. CASE Refetch
  <2>1. /\ sync'.obj = sync.obj /\ sync'.upd \in {sync.upd, clusterCache}
        /\ sync.pc = "refetch" /\ sync'.pc \in {"return", "update"}
    BY <1>1, <1>7 DEF Refetch, Return, Frame
  <2>2. SubmittedOK'
    BY <1>1, <1>7, <2>1 DEF Refetch, apiVars, cacheVars, SubmittedOK
  <2>3. DefaultsOK'
    BY <1>1, <2>1, DefaultsUntouched
  <2> QED
    BY <2>2, <2>3 DEF SpecInv
<1> QED
  BY <1>2, <1>3, <1>4, <1>5, <1>6, <1>7 DEF Worker

(* Every step preserves SpecInv.                                           *)
LEMMA SpecNext == TypeInv /\ SpecInv /\ [Next]_vars => SpecInv'
<1> SUFFICES ASSUME TypeInv, SpecInv, [Next]_vars PROVE SpecInv'
  OBVIOUS
<1>1. SubmittedOK /\ DefaultsOK
  BY DEF SpecInv
<1>2. ASSUME NEW spec \in Specs, EditCluster(spec) PROVE SpecInv'
  <2> DEFINE object == [cluster EXCEPT !.spec = spec]
  <2>1. object \in BrokerCluster /\ object.spec = spec
    BY <1>2, ConstantsAssumption
       DEF EditCluster, TypeInv, TypeOK, ApiTypeOK, BrokerCluster
  <2>2. Submitted(object)
    BY <2>1 DEF Submitted
  <2> QED
    BY <1>1, <1>2, <2>1, <2>2, WriteSubmitted, DefaultsUntouched
       DEF EditCluster, cacheVars, SpecInv
<1>3. ASSUME NEW spec \in Specs, CreateCluster(spec) PROVE SpecInv'
  <2> DEFINE object == [uid |-> lastUid + 1, rv |-> 0, spec |-> spec,
                        ready |-> "Absent"]
  <2>1. lastUid + 1 \in Nat \ {Foreign}
    BY DEF TypeInv, TypeOK, ApiTypeOK, Foreign
  <2>2. object \in BrokerCluster /\ object.spec = spec
    BY <2>1, ConstantsAssumption DEF BrokerCluster, ReadyStatus
  <2>3. Submitted(object)
    BY <2>2 DEF Submitted
  <2> QED
    BY <1>1, <1>3, <2>2, <2>3, WriteSubmitted, DefaultsUntouched
       DEF CreateCluster, cacheVars, SpecInv
<1>4. CASE DeleteCluster
  BY <1>1, <1>4, DefaultsUntouched
     DEF DeleteCluster, cacheVars, SpecInv, SubmittedOK, Submitted
<1>5. ASSUME NEW g \in Groups,
             \/ LoseService(g) \/ LoseSet(g) \/ ForeignSet(g)
             \/ Pods(g) \/ PodUnready(g) \/ Collector(g)
      PROVE  SpecInv'
  BY <1>1, <1>5, SubmittedUntouched, DefaultsUntouched
     DEF LoseService, LoseSet, ForeignSet, Pods, PodCreated, PodReady,
         PodRemoved, PodUnready, SetStatus, Collector, CollectService,
         CollectSet, cacheVars, SpecInv
<1>6. CASE InformCluster \/ RelistCluster
  <2>1. sync'.obj = sync.obj /\ sync'.upd = sync.upd /\ sync'.pc = sync.pc
    BY <1>6 DEF InformCluster, RelistCluster, TypeInv, TypeOK, Frame
  <2> QED
    BY <1>1, <1>6, <2>1, DefaultsUntouched
       DEF InformCluster, RelistCluster, apiVars, SpecInv, SubmittedOK
<1>7. CASE SetsInformer \/ ServicesInformer \/ Resync \/ QueueDelayOver
  BY <1>1, <1>7, SubmittedUntouched, DefaultsUntouched
     DEF SetsInformer, ListSets, InformSet, ServicesInformer, ListServices,
         InformService, Resync, QueueDelayOver, apiVars, cacheVars, SpecInv
<1>8. CASE Worker
  BY <1>8, SpecWorker
<1>9. CASE Restart
  BY <1>1, <1>9 DEF Restart, Idle, apiVars, SpecInv, SubmittedOK, Submitted,
                    DefaultsOK
<1>10. CASE UNCHANGED vars
  BY <1>1, <1>10, SubmittedUntouched, DefaultsUntouched
     DEF vars, apiVars, cacheVars, SpecInv
<1> QED
  BY <1>2, <1>3, <1>4, <1>5, <1>6, <1>7, <1>8, <1>9, <1>10 DEF Next, User

(* The initial states satisfy SpecInv.                                     *)
LEMMA SpecInit == Init => SpecInv
<1> SUFFICES ASSUME Init PROVE SpecInv
  OBVIOUS
<1>1. PICK spec \in InitialSpecs :
         cluster = [uid |-> 1, rv |-> 1, spec |-> spec, ready |-> "Absent"]
  BY DEF Init
<1>2. Submitted(cluster)
  BY <1>1, ConstantsAssumption DEF Submitted
<1> QED
  BY <1>2 DEF Init, Idle, SpecInv, SubmittedOK, Submitted, DefaultsOK

(* Whatever defaults and overrides syncHandler writes into the cached      *)
(* object, and whatever UpdateClusterStatus sends back, every copy of the  *)
(* cluster asks for what some spec of the user asks for; and from its      *)
(* second loop on a sync reads the number of members that is asked for.    *)
THEOREM SpecsKept == Spec => []SpecInv
BY SpecInit, SpecNext, TypeInvariance, PTL DEF Spec

=============================================================================
