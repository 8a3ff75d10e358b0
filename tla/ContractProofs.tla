--------------------------- MODULE ContractProofs ---------------------------
(***************************************************************************)
(* BrokerController implements ClusterContract: every step of it is, to a  *)
(* client of the API server, a step of the contract or none, and a step of *)
(* its worker is one of those that the contract has for the operator.      *)
(***************************************************************************)
EXTENDS BrokerContract, BrokerControllerProofs

(* The demand of a copy of the BrokerCluster was made at some time.        *)
Asked(object) == DemandOf(object) \subseteq asked

CopiesAsked ==
    /\ Asked(cluster)
    /\ Asked(clusterCache)
    /\ Asked(sync.obj)
    /\ Asked(sync.upd)

(* Demands are of UIDs that the server has given.                          *)
UidsGiven == \A demand \in asked : demand.uid \in Nat /\ demand.uid <= lastUid

(* The status to be sent is one.                                           *)
TargetSet ==
    sync.pc \in {"update", "refetch"} => sync.target \in {"True", "False"}

AskedInv == CopiesAsked /\ UidsGiven /\ TargetSet

(* What the steps of BrokerController start from.                          *)
ControllerInv == TypeInv /\ VersionsOK /\ SpecInv

(* asked is the history of the demand, whatever step is taken.             *)
AskedNext == Next /\ asked' = asked \cup DemandOf(cluster')

-----------------------------------------------------------------------------
(* Demands.                                                                *)

(* The demand is in the UID and in what the spec asks for.                 *)
LEMMA SameDemand ==
    ASSUME NEW object, NEW other, object # None, other # None,
           other.uid = object.uid,
           Desired(other.spec) = Desired(object.spec)
    PROVE  DemandOf(other) = DemandOf(object)
BY DEF DemandOf

(* A copy that is asked for stays asked for.                               *)
LEMMA AskedStays ==
    ASSUME AskedNext, NEW object, Asked(object)
    PROVE  DemandOf(object) \subseteq asked'
BY DEF AskedNext, Asked

(* What syncHandler writes into the lister's object leaves its demand.     *)
LEMMA AskedSync ==
    ASSUME ControllerInv, CopiesAsked, AskedNext,
           SyncGetCluster \/ ServicesDone \/ updateClusterStatus
    PROVE  /\ DemandOf(clusterCache') \subseteq asked'
           /\ DemandOf(sync'.obj) \subseteq asked'
           /\ DemandOf(sync'.upd) \subseteq asked'
<1>1. /\ sync \in Frame /\ Asked(clusterCache)
      /\ Asked(sync.obj) /\ Asked(sync.upd)
  BY DEF ControllerInv, TypeInv, TypeOK, CopiesAsked
<1>2. CASE SyncGetCluster
  <2> DEFINE object == [clusterCache EXCEPT !.spec = EnsureDefaults(@)]
  <2>1. clusterCache \in BrokerCluster /\ clusterCache # None
    BY <1>2 DEF SyncGetCluster, ControllerInv, TypeInv, TypeOK, CacheTypeOK
  <2>2. clusterCache.spec \in BrokerClusterSpec
    BY <2>1 DEF BrokerCluster
  <2>3. EnsureDefaults(clusterCache.spec) \in BrokerClusterSpec
    BY <2>2, SpecOps
  <2>4. /\ object.spec = EnsureDefaults(clusterCache.spec)
        /\ object.uid = clusterCache.uid /\ object \in BrokerCluster
    BY <2>1, <2>3 DEF BrokerCluster
  <2>5. /\ clusterCache' = object
        /\ sync' = [sync EXCEPT !.pc = "services", !.obj = object,
                                !.aliased = TRUE]
    BY <1>2 DEF SyncGetCluster
  <2> HIDE DEF object
  <2>6. sync'.obj = object /\ sync'.upd = sync.upd
    BY <1>1, <2>5 DEF Frame
  <2>7. DemandOf(object) = DemandOf(clusterCache)
    BY <2>1, <2>2, <2>4, SpecOpsKeep, SameDemand, NoneAssumption
  <2> QED
    BY <1>1, <2>5, <2>6, <2>7, AskedStays
<1>3. CASE ServicesDone
  <2> DEFINE object == [sync.obj EXCEPT !.spec = AllMasterOverride(@)]
  <2>1. sync.obj \in BrokerCluster /\ sync.obj # None
    BY <1>3 DEF ServicesDone, ControllerInv, TypeInv, TypeOK, Frame, FrameOK
  <2>2. sync.obj.spec \in BrokerClusterSpec
    BY <2>1 DEF BrokerCluster
  <2>3. AllMasterOverride(sync.obj.spec) \in BrokerClusterSpec
    BY <2>2, SpecOps
  <2>4. /\ object.spec = AllMasterOverride(sync.obj.spec)
        /\ object.uid = sync.obj.uid /\ object \in BrokerCluster
    BY <2>1, <2>3 DEF BrokerCluster
  <2>5. /\ clusterCache' \in {clusterCache, object}
        /\ sync' = [sync EXCEPT !.pc = "sets", !.obj = object, !.index = 0]
    BY <1>3 DEF ServicesDone, WriteThrough
  <2> HIDE DEF object
  <2>6. sync'.obj = object /\ sync'.upd = sync.upd
    BY <1>1, <2>5 DEF Frame
  <2>7. DemandOf(object) = DemandOf(sync.obj)
    BY <2>1, <2>2, <2>4, SpecOpsKeep, SameDemand, NoneAssumption
  <2> QED
    BY <1>1, <2>5, <2>6, <2>7, AskedStays
<1>4. CASE updateClusterStatus
  <2> DEFINE ready == IF sync.obj.ready = "Absent" THEN sync.obj.ready
                                                   ELSE ReadyNow
             object == [sync.obj EXCEPT !.ready = ready]
  <2>1. sync.obj \in BrokerCluster /\ sync.obj # None
    BY <1>4 DEF updateClusterStatus, ControllerInv, TypeInv, TypeOK, Frame,
                FrameOK
  <2>2. ready \in ReadyStatus
    BY <2>1 DEF BrokerCluster, ReadyStatus, ReadyNow
  <2>3. /\ clusterCache' \in {clusterCache, object}
        /\ \/ sync' = [sync EXCEPT !.pc = "update", !.obj = object,
                                   !.target = ReadyNow, !.upd = object]
           \/ sync' = [sync EXCEPT !.pc = "return", !.obj = object]
    BY <1>4 DEF updateClusterStatus, WriteThrough
  <2> HIDE DEF ready
  <2>4. /\ object.spec = sync.obj.spec
        /\ object.uid = sync.obj.uid /\ object \in BrokerCluster
    BY <2>1, <2>2 DEF BrokerCluster
  <2> HIDE DEF object
  <2>5. sync'.obj = object /\ sync'.upd \in {sync.upd, object}
    BY <1>1, <2>3 DEF Frame
  <2>6. DemandOf(object) = DemandOf(sync.obj)
    BY <2>1, <2>4, SameDemand, NoneAssumption
  <2> QED
    BY <1>1, <2>3, <2>5, <2>6, AskedStays
<1> QED
  BY <1>2, <1>3, <1>4

(* The copies that the other steps leave behind are copies that were       *)
(* there before.                                                           *)
LEMMA CopiesMove ==
    ASSUME ControllerInv, Next,
           ~(SyncGetCluster \/ ServicesDone \/ updateClusterStatus)
    PROVE  /\ clusterCache' \in {None, cluster, clusterCache}
           /\ sync'.obj \in {None, sync.obj}
           /\ sync'.upd \in {None, sync.upd, clusterCache}
<1>1. sync \in Frame
  BY DEF ControllerInv, TypeInv, TypeOK
<1>2. CASE User
  BY <1>2 DEF User, EditCluster, CreateCluster, DeleteCluster, LoseService,
              LoseSet, ForeignSet, cacheVars
<1>3. ASSUME NEW g \in Groups, Pods(g) \/ PodUnready(g) \/ Collector(g)
      PROVE  UNCHANGED <<clusterCache, sync>>
  BY <1>3 DEF Pods, PodCreated, PodReady, PodRemoved, PodUnready, SetStatus,
              Collector, CollectService, CollectSet, cacheVars
<1>4. CASE InformCluster \/ RelistCluster
  BY <1>1, <1>4 DEF InformCluster, RelistCluster, Frame
<1>5. CASE SetsInformer \/ ServicesInformer \/ Resync \/ QueueDelayOver
  BY <1>5 DEF SetsInformer, ListSets, InformSet, ServicesInformer,
              ListServices, InformService, Resync, QueueDelayOver, cacheVars
<1>6. CASE GetItem \/ FinishItem \/ SyncClusterGone
  <2>1. CASE GetItem \/ SyncClusterGone
    BY <1>1, <2>1 DEF GetItem, SyncClusterGone, Return, cacheVars, Frame
  <2>2. CASE FinishItem
    BY <2>2 DEF FinishItem, Idle, cacheVars
  <2> QED
    BY <1>6, <2>1, <2>2
<1>7. CASE \/ ServiceFound \/ CreateService \/ CreateServiceFault
           \/ SetFound \/ CreateSet \/ CreateSetFault
           \/ PatchSet \/ PatchSetFault
  <2>1. UNCHANGED clusterCache
    BY <1>7 DEF ServiceFound, CreateService, CreateServiceFault, SetFound,
                CreateSet, CreateSetFault, PatchSet, PatchSetFault, cacheVars
  <2> QED
    BY <1>7, <2>1, LoopKeepsObject DEF ControllerInv
<1>8. CASE PutAccepted \/ PutRejected \/ PutFault \/ Refetch
  BY <1>1, <1>8 DEF PutAccepted, PutRejected, PutFault, Refetch, Return,
                    cacheVars, Frame
<1>9. CASE Restart
  BY <1>9 DEF Restart, Idle
<1> QED
  BY <1>2, <1>3, <1>4, <1>5, <1>6, <1>7, <1>8, <1>9 DEF Next, Worker

(* Every copy of the BrokerCluster carries a demand that was made.         *)
LEMMA CopiesAskedNext ==
    ASSUME ControllerInv, CopiesAsked, AskedNext
    PROVE  CopiesAsked'
<1>1. DemandOf(cluster') \subseteq asked' /\ DemandOf(None) = {} /\ Next
  BY DEF AskedNext, DemandOf
<1>2. /\ DemandOf(clusterCache') \subseteq asked'
      /\ DemandOf(sync'.obj) \subseteq asked'
      /\ DemandOf(sync'.upd) \subseteq asked'
  <2>1. CASE SyncGetCluster \/ ServicesDone \/ updateClusterStatus
    BY <2>1, AskedSync
  <2>2. CASE ~(SyncGetCluster \/ ServicesDone \/ updateClusterStatus)
    BY <1>1, <2>2, CopiesMove, AskedStays DEF CopiesAsked
  <2> QED
    BY <2>1, <2>2
<1> QED
  BY <1>1, <1>2 DEF CopiesAsked, Asked, DemandOf

-----------------------------------------------------------------------------
(* What a step does to the BrokerCluster.                                  *)

(* Only the user and the two outcomes of a PUT write it.                   *)
LEMMA ClusterWriters ==
    ASSUME ControllerInv, Next
    PROVE  \/ UNCHANGED <<cluster, lastUid, asked>>
           \/ \E spec \in Specs : EditCluster(spec) \/ CreateCluster(spec)
           \/ DeleteCluster
           \/ PutAccepted \/ PutFault
<1>1. ASSUME NEW g \in Groups,
             \/ LoseService(g) \/ LoseSet(g) \/ ForeignSet(g)
             \/ Pods(g) \/ PodUnready(g) \/ Collector(g)
      PROVE  UNCHANGED <<cluster, lastUid, asked>>
  BY <1>1 DEF LoseService, LoseSet, ForeignSet, Pods, PodCreated, PodReady,
              PodRemoved, PodUnready, SetStatus, Collector, CollectService,
              CollectSet
<1>2. CASE \/ InformCluster \/ RelistCluster \/ SetsInformer
           \/ ServicesInformer \/ Resync \/ QueueDelayOver \/ Restart
  BY <1>2 DEF InformCluster, RelistCluster, SetsInformer, ListSets, InformSet,
              ServicesInformer, ListServices, InformService, Resync,
              QueueDelayOver, Restart, apiVars
<1>3. CASE Worker /\ ~PutAccepted /\ ~PutFault
  BY <1>3 DEF Worker, GetItem, FinishItem, SyncClusterGone, SyncGetCluster,
              ServiceFound, CreateService, CreateServiceFault, ServicesDone,
              SetFound, CreateSet, CreateSetFault, PatchSet, PatchSetFault,
              updateClusterStatus, PutRejected, Refetch, apiVars
<1> QED
  BY <1>1, <1>2, <1>3 DEF Next, User

(* A PUT that is stored writes the status to be sent, and nothing else     *)
(* that a client sees.                                                     *)
LEMMA PutReports ==
    ASSUME ControllerInv, TargetSet, PutAccepted \/ PutFault
    PROVE  \/ cluster' = cluster
           \/ /\ cluster # None /\ cluster' # None
              /\ cluster'.uid = cluster.uid
              /\ Desired(cluster'.spec) = Desired(cluster.spec)
              /\ cluster'.ready \in {"True", "False"}
<1>1. sync.pc = "update" /\ sync \in Frame
  BY DEF PutAccepted, PutFault, ControllerInv, TypeInv, TypeOK
<1>2. CASE UNCHANGED cluster
  BY <1>2
<1>3. CASE cluster' # cluster
  <2>1. WriteCluster(Attempt)
    BY <1>3 DEF PutAccepted, PutFault, StoreAttempt
  <2>2. Attempt \in BrokerCluster /\ Attempt.ready = sync.target
    <3>1. Attempt \in BrokerCluster /\ sync.upd \in BrokerCluster
      BY <1>1, AttemptType DEF ControllerInv
    <3> QED
      BY <3>1 DEF Attempt, BrokerCluster
  <2>3. cluster'.ready = sync.target
    BY <2>1, <2>2 DEF WriteCluster, BrokerCluster
  <2>4. OperatorWrites
    BY <1>1, <1>3 DEF OperatorWrites, PutAccepted, PutFault, Return, Frame
  <2>5. [Next]_vars
    BY DEF Next, Worker
  <2>6. /\ cluster # None /\ cluster' # None
        /\ cluster'.uid = cluster.uid
        /\ Desired(cluster'.spec) = Desired(cluster.spec)
    BY <2>4, <2>5, OperatorWrite DEF ControllerInv
  <2> QED
    BY <1>1, <2>3, <2>6 DEF TargetSet
<1> QED
  BY <1>2, <1>3

(* An edit writes the spec only.                                           *)
LEMMA EditWrites ==
    ASSUME ControllerInv, NEW spec \in Specs, EditCluster(spec)
    PROVE  /\ cluster # None /\ cluster' # None
           /\ cluster'.uid = cluster.uid
           /\ cluster'.ready = cluster.ready
<1>1. cluster \in BrokerCluster /\ spec \in BrokerClusterSpec
  BY ConstantsAssumption
     DEF EditCluster, ControllerInv, TypeInv, TypeOK, ApiTypeOK
<1> DEFINE object == [cluster EXCEPT !.spec = spec]
<1>2. object \in BrokerCluster /\ object.uid = cluster.uid
      /\ object.ready = cluster.ready
  BY <1>1 DEF BrokerCluster
<1>3. WriteCluster(object)
  BY DEF EditCluster
<1> HIDE DEF object
<1>4. cluster' \in BrokerCluster /\ cluster'.uid = object.uid
  BY <1>2, <1>3, WriteClusterType DEF ControllerInv
<1>5. cluster'.ready = object.ready
  BY <1>2, <1>3 DEF WriteCluster, BrokerCluster
<1> QED
  BY <1>2, <1>4, <1>5, NoneAssumption DEF EditCluster

(* A new cluster has the next UID and no status.                           *)
LEMMA CreateWrites ==
    ASSUME ControllerInv, NEW spec \in Specs, CreateCluster(spec)
    PROVE  /\ cluster = None /\ cluster' # None
           /\ lastUid \in Nat
           /\ cluster'.uid = lastUid + 1 /\ lastUid' = lastUid + 1
           /\ cluster'.ready = "Absent"
<1> DEFINE object == [uid |-> lastUid + 1, rv |-> 0, spec |-> spec,
                      ready |-> "Absent"]
<1>1. lastUid \in Nat /\ lastUid + 1 \in Nat \ {Foreign}
  BY DEF ControllerInv, TypeInv, TypeOK, ApiTypeOK, Foreign
<1>2. object \in BrokerCluster /\ object.uid = lastUid + 1
      /\ object.ready = "Absent"
  BY <1>1, ConstantsAssumption DEF BrokerCluster, ReadyStatus
<1>3. WriteCluster(object)
  BY DEF CreateCluster
<1> HIDE DEF object
<1>4. cluster' \in BrokerCluster /\ cluster'.uid = object.uid
  BY <1>2, <1>3, WriteClusterType DEF ControllerInv
<1>5. cluster'.ready = object.ready
  BY <1>2, <1>3 DEF WriteCluster, BrokerCluster
<1> QED
  BY <1>1, <1>2, <1>4, <1>5, NoneAssumption DEF CreateCluster

(* The steps that record a demand are the ones that change it.             *)
LEMMA AskedRecorded ==
    ASSUME ControllerInv, AskedInv, Next
    PROVE  AskedNext
<1>1. TargetSet /\ DemandOf(cluster) \subseteq asked /\ DemandOf(None) = {}
  BY DEF AskedInv, CopiesAsked, Asked, DemandOf
<1>2. CASE UNCHANGED <<cluster, lastUid, asked>>
  BY <1>1, <1>2 DEF AskedNext
<1>3. ASSUME NEW spec \in Specs, EditCluster(spec) \/ CreateCluster(spec)
      PROVE  AskedNext
  BY <1>3 DEF EditCluster, CreateCluster, AskedNext
<1>4. CASE DeleteCluster
  BY <1>1, <1>4 DEF DeleteCluster, AskedNext
<1>5. CASE PutAccepted \/ PutFault
  <2>1. asked' = asked
    BY <1>5 DEF PutAccepted, PutFault
  <2>2. DemandOf(cluster') = DemandOf(cluster)
    BY <1>1, <1>5, PutReports, SameDemand
  <2> QED
    BY <1>1, <2>1, <2>2 DEF AskedNext
<1> QED
  BY <1>2, <1>3, <1>4, <1>5, ClusterWriters

(* Demands are of given UIDs.                                              *)
LEMMA UidsGivenNext ==
    ASSUME ControllerInv, AskedInv, AskedNext
    PROVE  UidsGiven'
<1>1. /\ Next /\ asked' = asked \cup DemandOf(cluster')
      /\ UidsGiven /\ TargetSet /\ Asked(cluster) /\ lastUid \in Nat
  BY DEF AskedNext, AskedInv, CopiesAsked, ControllerInv, TypeInv, TypeOK,
         ApiTypeOK
<1>2. cluster # None => cluster.uid \in Nat /\ cluster.uid <= lastUid
  BY <1>1 DEF Asked, DemandOf, UidsGiven
<1>3. /\ lastUid' \in Nat /\ lastUid <= lastUid'
      /\ cluster' # None => cluster'.uid \in Nat /\ cluster'.uid <= lastUid'
  <2>1. CASE cluster' = cluster /\ lastUid' = lastUid
    BY <1>1, <1>2, <2>1
  <2>2. ASSUME NEW spec \in Specs, EditCluster(spec)
        PROVE  cluster'.uid = cluster.uid /\ lastUid' = lastUid
               /\ cluster # None
    BY <2>2, EditWrites DEF EditCluster
  <2>3. ASSUME NEW spec \in Specs, CreateCluster(spec)
        PROVE  cluster'.uid = lastUid + 1 /\ lastUid' = lastUid + 1
    BY <2>3, CreateWrites
  <2>4. CASE DeleteCluster
    BY <1>1, <2>4 DEF DeleteCluster
  <2>5. CASE PutAccepted \/ PutFault
    <3>1. lastUid' = lastUid
      BY <2>5 DEF PutAccepted, PutFault
    <3> QED
      BY <1>1, <1>2, <2>5, <3>1, PutReports
  <2> QED
    BY <1>1, <1>2, <2>1, <2>2, <2>3, <2>4, <2>5, ClusterWriters
<1>4. ASSUME NEW demand \in asked
      PROVE  demand.uid \in Nat /\ demand.uid <= lastUid'
  BY <1>1, <1>3 DEF UidsGiven
<1>5. ASSUME NEW demand \in DemandOf(cluster')
      PROVE  demand.uid \in Nat /\ demand.uid <= lastUid'
  BY <1>3, <1>5 DEF DemandOf
<1> QED
  BY <1>1, <1>4, <1>5 DEF UidsGiven

(* The status to be sent is set before it is sent.                         *)
LEMMA TargetSetNext ==
    ASSUME ControllerInv, TargetSet, Next
    PROVE  TargetSet'
<1>1. sync \in Frame
  BY DEF ControllerInv, TypeInv, TypeOK
<1>2. CASE updateClusterStatus
  <2>1. ReadyNow \in {"True", "False"}
    BY DEF ReadyNow
  <2> DEFINE object == [sync.obj EXCEPT !.ready =
                           IF @ = "Absent" THEN @ ELSE ReadyNow]
  <2>2. \/ sync' = [sync EXCEPT !.pc = "update", !.obj = object,
                                !.target = ReadyNow, !.upd = object]
        \/ sync' = [sync EXCEPT !.pc = "return", !.obj = object]
    BY <1>2 DEF updateClusterStatus
  <2> HIDE DEF object
  <2> QED
    BY <1>1, <2>1, <2>2 DEF TargetSet, Frame
<1>3. CASE User
  BY <1>3 DEF User, EditCluster, CreateCluster, DeleteCluster, LoseService,
              LoseSet, ForeignSet, TargetSet
<1>4. ASSUME NEW g \in Groups, Pods(g) \/ PodUnready(g) \/ Collector(g)
      PROVE  UNCHANGED sync
  BY <1>4 DEF Pods, PodCreated, PodReady, PodRemoved, PodUnready, SetStatus,
              Collector, CollectService, CollectSet
<1>5. CASE InformCluster \/ RelistCluster
  BY <1>1, <1>5 DEF InformCluster, RelistCluster, Frame, TargetSet
<1>6. CASE SetsInformer \/ ServicesInformer \/ Resync \/ QueueDelayOver
  BY <1>6 DEF SetsInformer, ListSets, InformSet, ServicesInformer,
              ListServices, InformService, Resync, QueueDelayOver, TargetSet
<1>7. CASE \/ ServiceFound \/ CreateService \/ CreateServiceFault
           \/ SetFound \/ CreateSet \/ CreateSetFault
           \/ PatchSet \/ PatchSetFault
  <2>1. sync'.pc \in {sync.pc, "return"}
    BY <1>7, LoopKeepsObject DEF ControllerInv
  <2>2. sync.pc \in {"services", "sets"}
    BY <1>7 DEF ServiceFound, CreateService, CreateServiceFault, SetFound,
                CreateSet, CreateSetFault, PatchSet, PatchSetFault,
                NeedsPatch, InLoop
  <2> QED
    BY <2>1, <2>2 DEF TargetSet
<1>8. CASE \/ GetItem \/ FinishItem \/ SyncClusterGone \/ SyncGetCluster
           \/ ServicesDone
  <2>1. sync'.pc \in {"get", "idle", "return", "services", "sets"}
    <3>1. CASE GetItem \/ SyncClusterGone
      BY <1>1, <3>1 DEF GetItem, SyncClusterGone, Return, Frame
    <3>2. CASE FinishItem
      BY <3>2 DEF FinishItem, Idle
    <3>3. CASE SyncGetCluster
      BY <1>1, <3>3 DEF SyncGetCluster, Frame
    <3>4. CASE ServicesDone
      BY <1>1, <3>4 DEF ServicesDone, Frame
    <3> QED
      BY <1>8, <3>1, <3>2, <3>3, <3>4
  <2> QED
    BY <2>1 DEF TargetSet
<1>9. CASE PutAccepted \/ PutRejected \/ PutFault \/ Refetch
  <2>1. sync.pc \in {"update", "refetch"} /\ sync'.target = sync.target
    BY <1>1, <1>9 DEF PutAccepted, PutRejected, PutFault, Refetch, Return,
                      Frame
  <2> QED
    BY <2>1 DEF TargetSet
<1>10. CASE Restart
  BY <1>10 DEF Restart, Idle, TargetSet
<1> QED
  BY <1>2, <1>3, <1>4, <1>5, <1>6, <1>7, <1>8, <1>9, <1>10
     DEF Next, Worker, TargetSet
-----------------------------------------------------------------------------
(* The steps, as a client sees them.                                       *)

(* A BrokerCluster is seen.                                                *)
LEMMA ViewIsSeen ==
    ASSUME NEW object \in BrokerCluster
    PROVE  View(object) # None
<1>1. Desired(object.spec) \in BrokerClusterSpec
  BY SpecOps DEF Desired, BrokerCluster
<1>2. [uid |-> object.uid, want |-> Desired(object.spec),
       ready |-> object.ready] \in Views
  BY <1>1 DEF Views, BrokerCluster
<1> QED
  BY <1>2, ViewAssumption, NoneAssumption DEF View

(* What is seen after a step that leaves a BrokerCluster.                  *)
LEMMA ViewAfter ==
    ASSUME cluster' # None, TypeInv'
    PROVE  /\ View(cluster)' # None
           /\ View(cluster)'.uid = cluster'.uid
           /\ View(cluster)'.ready = cluster'.ready
           /\ DemandOf(cluster') = {Contract!Demand(View(cluster))'}
<1>1. cluster' \in BrokerCluster
  BY DEF TypeInv, TypeOK, ApiTypeOK
<1>2. View(cluster)' = View(cluster')
  BY DEF View
<1>3. View(cluster') # None
  BY <1>1, ViewIsSeen
<1>4. View(cluster') = [uid |-> cluster'.uid, want |-> Desired(cluster'.spec),
                        ready |-> cluster'.ready]
  BY DEF View
<1> QED
  BY <1>2, <1>3, <1>4 DEF Contract!Demand, DemandOf

(* What was seen before it.                                                *)
LEMMA ViewBefore ==
    ASSUME cluster # None, TypeInv
    PROVE  /\ View(cluster) # None
           /\ View(cluster) = [uid |-> cluster.uid,
                               want |-> Desired(cluster.spec),
                               ready |-> cluster.ready]
<1>1. cluster \in BrokerCluster
  BY DEF TypeInv, TypeOK, ApiTypeOK
<1> QED
  BY <1>1, ViewIsSeen DEF View

(* A step that writes neither the BrokerCluster nor a child.               *)
LEMMA UnseenStep ==
    ASSUME CopiesAsked, AskedNext, UNCHANGED <<cluster, services, sets>>
    PROVE  UNCHANGED Contract!vars
<1>1. asked' = asked
  BY DEF AskedNext, CopiesAsked, Asked
<1> QED
  BY <1>1 DEF Contract!vars, View

(* A step that writes a child only: the demands stay.                      *)
LEMMA ChildStep ==
    ASSUME CopiesAsked, AskedNext, UNCHANGED cluster
    PROVE  asked' = asked /\ UNCHANGED View(cluster)
BY DEF AskedNext, CopiesAsked, Asked, View

(* A PUT of the status.                                                    *)
LEMMA ReportStep ==
    ASSUME ControllerInv, AskedInv, AskedNext, PutAccepted \/ PutFault
    PROVE  [Contract!Operator]_Contract!vars
<1>1. /\ asked' = asked \cup DemandOf(cluster') /\ UNCHANGED <<services, sets>>
      /\ TargetSet /\ CopiesAsked
  BY DEF AskedNext, AskedInv, PutAccepted, PutFault
<1>2. TypeInv
  BY DEF ControllerInv
<1>3. CASE cluster' = cluster
  BY <1>1, <1>3, UnseenStep
<1>4. CASE /\ cluster # None /\ cluster' # None
           /\ cluster'.uid = cluster.uid
           /\ Desired(cluster'.spec) = Desired(cluster.spec)
           /\ cluster'.ready \in {"True", "False"}
  <2>1. asked' = asked
    <3>1. DemandOf(cluster') = DemandOf(cluster)
      BY <1>4, SameDemand
    <3> QED
      BY <1>1, <3>1 DEF CopiesAsked, Asked
  <2>2. View(cluster)' = [uid |-> cluster'.uid,
                          want |-> Desired(cluster'.spec),
                          ready |-> cluster'.ready]
    BY <1>4 DEF View
  <2>3. View(cluster)' = [View(cluster) EXCEPT !.ready = cluster'.ready]
    BY <1>2, <1>4, <2>2, ViewBefore
  <2>4. Contract!Report
    BY <1>1, <1>2, <1>4, <2>1, <2>3, ViewBefore DEF Contract!Report
  <2> QED
    BY <2>4 DEF Contract!Operator
<1> QED
  BY <1>1, <1>3, <1>4, PutReports

(* An edit, a deletion or a creation.                                      *)
LEMMA ClusterStep ==
    ASSUME ControllerInv, AskedInv, AskedNext,
           \/ \E spec \in Specs : EditCluster(spec) \/ CreateCluster(spec)
           \/ DeleteCluster
    PROVE  Contract!Environment
<1>1. /\ asked' = asked \cup DemandOf(cluster') /\ UNCHANGED <<services, sets>>
      /\ UidsGiven
  BY DEF AskedNext, AskedInv, EditCluster, CreateCluster, DeleteCluster
<1>6. TypeInv /\ TypeInv'
  BY TypeInvNext DEF ControllerInv, AskedNext
<1>2. ASSUME NEW spec \in Specs, EditCluster(spec)
      PROVE  Contract!Edit
  <2>1. /\ cluster # None /\ cluster' # None
        /\ cluster'.uid = cluster.uid /\ cluster'.ready = cluster.ready
    BY <1>2, EditWrites
  <2> QED
    BY <1>1, <1>6, <2>1, ViewBefore, ViewAfter DEF Contract!Edit
<1>3. ASSUME NEW spec \in Specs, CreateCluster(spec)
      PROVE  Contract!Create
  <2>1. /\ cluster = None /\ cluster' # None /\ lastUid \in Nat
        /\ cluster'.uid = lastUid + 1 /\ cluster'.ready = "Absent"
    BY <1>3, CreateWrites
  <2>2. \A demand \in asked : demand.uid # cluster'.uid
    BY <1>1, <2>1 DEF UidsGiven
  <2> QED
    <3>1. View(cluster) = None
      BY <2>1 DEF View
    <3> QED
      BY <1>1, <1>6, <2>1, <2>2, <3>1, ViewAfter DEF Contract!Create
<1>4. CASE DeleteCluster
  BY <1>1, <1>4
     DEF DeleteCluster, Contract!Environment, Contract!Delete, View, DemandOf
<1> QED
  BY <1>2, <1>3, <1>4 DEF Contract!Environment

(* The children that users and Kubernetes touch.                           *)
LEMMA OthersStep ==
    ASSUME ControllerInv, AskedInv, AskedNext, NEW g \in Groups,
           \/ LoseService(g) \/ LoseSet(g) \/ ForeignSet(g)
           \/ Pods(g) \/ PodUnready(g) \/ Collector(g)
    PROVE  Contract!Environment
<1>1. /\ UNCHANGED cluster
      /\ CopiesAsked
      /\ sets \in [Groups -> StatefulSet \cup {None}]
  BY DEF LoseService, LoseSet, ForeignSet, Pods, PodCreated, PodReady,
         PodRemoved, PodUnready, SetStatus, Collector, CollectService,
         CollectSet, AskedInv, ControllerInv, TypeInv, TypeOK, ApiTypeOK
<1>2. asked' = asked /\ UNCHANGED View(cluster)
  BY <1>1, ChildStep
<1>3. CASE LoseService(g) \/ CollectService(g)
  <2>1. Contract!LoseService(g)
    BY <1>2, <1>3 DEF LoseService, CollectService, Contract!LoseService
  <2> QED
    BY <2>1 DEF Contract!Environment
<1>4. CASE LoseSet(g) \/ CollectSet(g)
  <2>1. Contract!LoseSet(g)
    BY <1>2, <1>4 DEF LoseSet, CollectSet, Contract!LoseSet
  <2> QED
    BY <2>1 DEF Contract!Environment
<1>5. CASE ForeignSet(g)
  <2>1. PICK image \in Images :
           sets' = [sets EXCEPT ![g] =
                      [owner |-> Foreign, replicas |-> 1, image |-> image,
                       allMaster |-> FALSE, current |-> 0, ready |-> 0]]
    BY <1>5 DEF ForeignSet
  <2> DEFINE ss == [owner |-> Foreign, replicas |-> 1, image |-> image,
                    allMaster |-> FALSE, current |-> 0, ready |-> 0]
  <2>2. ss \in StatefulSet /\ ss.owner = Foreign
    BY DEF Foreign, StatefulSet
  <2>3. sets' = [sets EXCEPT ![g] = ss]
    BY <2>1
  <2> HIDE DEF ss
  <2>4. sets'[g] = ss /\ ss # None
    BY <1>1, <2>2, <2>3, NoneAssumption
  <2>5. Contract!ForeignSet(g)
    BY <1>2, <1>5, <2>2, <2>3, <2>4
       DEF ForeignSet, Contract!ForeignSet, Foreign, Contract!Foreign
  <2> QED
    BY <2>5 DEF Contract!Environment
<1>6. CASE Pods(g) \/ PodUnready(g)
  <2>1. PICK current, ready : SetStatus(g, current, ready)
    BY <1>6 DEF Pods, PodCreated, PodReady, PodRemoved, PodUnready
  <2>2. sets[g] # None
    BY <1>6 DEF Pods, PodCreated, PodReady, PodRemoved, PodUnready
  <2> DEFINE ss == [sets[g] EXCEPT !.current = current, !.ready = ready]
  <2>3. sets' = [sets EXCEPT ![g] = ss]
    BY <1>1, <2>1 DEF SetStatus
  <2>4. sets'[g] = ss
    BY <1>1, <2>3
  <2>5. ss.current = current /\ ss.ready = ready
    BY <1>1, <2>2 DEF StatefulSet
  <2>6. sets' = [sets EXCEPT ![g] =
                    [sets[g] EXCEPT !.current = sets'[g].current,
                                    !.ready = sets'[g].ready]]
    BY <2>3, <2>4, <2>5
  <2>7. Contract!PodsChange(g)
    BY <1>2, <2>1, <2>2, <2>6 DEF SetStatus, Contract!PodsChange
  <2> QED
    BY <2>7 DEF Contract!Environment
<1> QED
  BY <1>3, <1>4, <1>5, <1>6 DEF Collector

(* The loops of syncHandler work on a demand that was made.                *)
LEMMA LoopDemand ==
    ASSUME ControllerInv, CopiesAsked, NEW pc \in {"services", "sets"},
           InLoop(pc)
    PROVE  [uid |-> sync.obj.uid, want |-> Desired(sync.obj.spec)]
              \in Contract!Demands(sync.index)
<1>1. sync.obj \in BrokerCluster /\ sync.index \in Groups
  BY IndexInGroups DEF ControllerInv
<1>2. sync.obj.spec \in BrokerClusterSpec /\ sync.obj # None
  BY <1>1, NoneAssumption DEF BrokerCluster
<1>3. [uid |-> sync.obj.uid, want |-> Desired(sync.obj.spec)] \in asked
  BY <1>2 DEF CopiesAsked, Asked, DemandOf
<1>4. sync.obj.spec.groupReplica \in Int /\ sync.index \in Nat
      /\ sync.index < sync.obj.spec.groupReplica
  BY <1>1, <1>2, ConstantsAssumption DEF BrokerClusterSpec, Groups, InLoop
<1>5. Desired(sync.obj.spec).groupReplica = sync.obj.spec.groupReplica
  BY <1>2, <1>4 DEF Desired, AllMasterOverride, EnsureDefaults,
                    BrokerClusterSpec
<1> QED
  BY <1>3, <1>4, <1>5 DEF Contract!Demands

(* The set made for a group is the one the demand is for.                  *)
LEMMA LoopSet ==
    ASSUME ControllerInv, InLoop("sets")
    PROVE  /\ sync.obj.spec.membersPerGroup =
                 Desired(sync.obj.spec).membersPerGroup
           /\ sync.obj.spec.image = Desired(sync.obj.spec).image
           /\ sync.obj.spec.allMaster = Desired(sync.obj.spec).allMaster
<1>1. sync.obj.spec \in BrokerClusterSpec
  BY IndexInGroups DEF ControllerInv, BrokerCluster
<1>2. sync.obj.spec.membersPerGroup =
         Desired(sync.obj.spec).membersPerGroup
  BY DEF ControllerInv, SpecInv, DefaultsOK, members, InLoop
<1> QED
  BY <1>1, <1>2 DEF Desired, AllMasterOverride, EnsureDefaults,
                    BrokerClusterSpec

(* The first loop.                                                         *)
LEMMA ServiceSteps ==
    ASSUME ControllerInv, AskedInv, AskedNext,
           CreateService \/ CreateServiceFault
    PROVE  [Contract!Operator]_Contract!vars
<1>1. /\ InLoop("services") /\ CopiesAsked
      /\ UNCHANGED <<cluster, sets>>
      /\ services \in [Groups -> Nat \cup {None}]
  BY DEF CreateService, CreateServiceFault, AskedInv, ControllerInv, TypeInv,
         TypeOK, ApiTypeOK
<1>2. sync.index \in Groups
  BY <1>1, IndexInGroups DEF ControllerInv
<1>3. asked' = asked /\ UNCHANGED View(cluster)
  BY <1>1, ChildStep
<1>4. CASE UNCHANGED services
  BY <1>1, <1>4, UnseenStep
<1>5. CASE /\ services[sync.index] = None
           /\ services' = [services EXCEPT ![sync.index] = sync.obj.uid]
  <2> DEFINE demand == [uid |-> sync.obj.uid, want |-> Desired(sync.obj.spec)]
  <2>1. demand \in Contract!Demands(sync.index)
    BY <1>1, LoopDemand
  <2>2. services' = [services EXCEPT ![sync.index] = demand.uid]
    BY <1>5
  <2> HIDE DEF demand
  <2>3. Contract!MakeService(sync.index)
    BY <1>1, <1>3, <1>5, <2>1, <2>2 DEF Contract!MakeService
  <2> QED
    BY <1>2, <2>3 DEF Contract!Operator
<1> QED
  BY <1>2, <1>1, <1>4, <1>5 DEF CreateService, CreateServiceFault,
                                NewHeadlessService

(* The second loop.                                                        *)
LEMMA SetSteps ==
    ASSUME ControllerInv, AskedInv, AskedNext,
           CreateSet \/ CreateSetFault \/ PatchSet \/ PatchSetFault
    PROVE  [Contract!Operator]_Contract!vars
<1> DEFINE demand == [uid |-> sync.obj.uid, want |-> Desired(sync.obj.spec)]
<1>1. /\ InLoop("sets") /\ CopiesAsked
      /\ UNCHANGED <<cluster, services>>
      /\ sets \in [Groups -> StatefulSet \cup {None}]
  BY DEF CreateSet, CreateSetFault, PatchSet, PatchSetFault, NeedsPatch,
         AskedInv, ControllerInv, TypeInv, TypeOK, ApiTypeOK
<1>2. sync.index \in Groups
  BY <1>1, IndexInGroups DEF ControllerInv
<1>3. asked' = asked /\ UNCHANGED View(cluster)
  BY <1>1, ChildStep
<1>4. demand \in Contract!Demands(sync.index)
  BY <1>1, LoopDemand
<1>5. /\ sync.obj.spec.membersPerGroup = demand.want.membersPerGroup
      /\ sync.obj.spec.image = demand.want.image
      /\ sync.obj.spec.allMaster = demand.want.allMaster
      /\ sync.obj.uid = demand.uid
  BY <1>1, LoopSet
<1> HIDE DEF demand
<1>6. CASE UNCHANGED sets
  BY <1>1, <1>6, UnseenStep
<1>7. CASE /\ sets[sync.index] = None
           /\ sets' = [sets EXCEPT ![sync.index] = NewStatefulSet(sync.obj)]
  <2>1. NewStatefulSet(sync.obj) =
           Contract!NewStatefulSet([uid |-> demand.uid, spec |-> demand.want])
    BY <1>5 DEF NewStatefulSet, Contract!NewStatefulSet
  <2>2. Contract!MakeSet(sync.index)
    BY <1>1, <1>3, <1>4, <1>7, <2>1 DEF Contract!MakeSet
  <2> QED
    BY <1>2, <2>2 DEF Contract!Operator
<1>8. CASE NeedsPatch /\ sets' = Patched
  <2> DEFINE old == setCache[sync.index]
             current == sets[sync.index]
             image == MergedField(old.image, demand.want.image, current.image)
             allMaster == MergedField(old.allMaster, demand.want.allMaster,
                                      current.allMaster)
  <2>1. CASE sets[sync.index] = None
    BY <1>1, <1>2, <1>6, <1>8, <2>1 DEF Patched
  <2>2. CASE sets[sync.index] # None
    <3>1. old.replicas # demand.want.membersPerGroup
      BY <1>5, <1>8 DEF NeedsPatch, WrongReplicas, members
    <3>2. current \in StatefulSet
      BY <1>1, <1>2, <2>2
    <3>3. PatchStatefulSet(old, NewStatefulSet(sync.obj), current) =
             [current EXCEPT !.replicas = demand.want.membersPerGroup,
                             !.image = image, !.allMaster = allMaster]
      BY <1>5, <3>1, <3>2 DEF PatchStatefulSet, NewStatefulSet, MergedField,
                              StatefulSet
    <3>4. \/ UNCHANGED sets
          \/ sets' = [sets EXCEPT ![sync.index] =
                [current EXCEPT !.replicas = demand.want.membersPerGroup,
                                !.image = image, !.allMaster = allMaster]]
      BY <1>1, <1>2, <1>8, <2>2, <3>3 DEF Patched
    <3>5. /\ image \in {current.image, demand.want.image}
          /\ allMaster \in {current.allMaster, demand.want.allMaster}
      BY DEF MergedField
    <3> HIDE DEF image, allMaster
    <3>6. UNCHANGED sets \/ Contract!PatchSet(sync.index)
      BY <1>1, <1>3, <1>4, <2>2, <3>4, <3>5 DEF Contract!PatchSet
    <3> QED
      BY <1>2, <1>6, <3>6 DEF Contract!Operator
  <2> QED
    BY <2>1, <2>2
<1> QED
  BY <1>1, <1>2, <1>6, <1>7, <1>8
     DEF CreateSet, CreateSetFault, PatchSet, PatchSetFault

(* The worker takes the operator's steps of the contract.                  *)
LEMMA WorkerStep ==
    ASSUME ControllerInv, AskedInv, AskedNext, Worker
    PROVE  [Contract!Operator]_Contract!vars
<1>1. CASE PutAccepted \/ PutFault
  BY <1>1, ReportStep
<1>2. CASE CreateService \/ CreateServiceFault
  BY <1>2, ServiceSteps
<1>3. CASE CreateSet \/ CreateSetFault \/ PatchSet \/ PatchSetFault
  BY <1>3, SetSteps
<1>4. CASE \/ GetItem \/ FinishItem \/ SyncClusterGone \/ SyncGetCluster
           \/ ServiceFound \/ ServicesDone \/ SetFound
           \/ updateClusterStatus \/ PutRejected \/ Refetch
  <2>1. UNCHANGED apiVars
    BY <1>4 DEF GetItem, FinishItem, SyncClusterGone, SyncGetCluster,
                ServiceFound, ServicesDone, SetFound, updateClusterStatus,
                PutRejected, Refetch
  <2> QED
    BY <2>1, UnseenStep DEF apiVars, AskedInv
<1> QED
  BY <1>1, <1>2, <1>3, <1>4 DEF Worker

(* The steps of the informers and the queue, and a restart, are not seen.  *)
LEMMA ProcessStep ==
    ASSUME AskedInv, AskedNext,
           \/ InformCluster \/ RelistCluster \/ SetsInformer
           \/ ServicesInformer \/ Resync \/ QueueDelayOver \/ Restart
    PROVE  UNCHANGED Contract!vars
<1>1. UNCHANGED apiVars
  BY DEF InformCluster, RelistCluster, SetsInformer, ListSets, InformSet,
         ServicesInformer, ListServices, InformService, Resync,
         QueueDelayOver, Restart
<1> QED
  BY <1>1, UnseenStep DEF apiVars, AskedInv

(* Users and Kubernetes take the steps of the environment, and leave the   *)
(* worker's frame alone.                                                   *)
LEMMA OutsideStep ==
    ASSUME ControllerInv, AskedInv, AskedNext,
           \/ User
           \/ \E g \in Groups : Pods(g) \/ PodUnready(g) \/ Collector(g)
    PROVE  Contract!Environment /\ UNCHANGED sync
<1>1. CASE \/ \E spec \in Specs : EditCluster(spec) \/ CreateCluster(spec)
           \/ DeleteCluster
  BY <1>1, ClusterStep DEF EditCluster, CreateCluster, DeleteCluster
<1>2. ASSUME NEW g \in Groups,
             \/ LoseService(g) \/ LoseSet(g) \/ ForeignSet(g)
             \/ Pods(g) \/ PodUnready(g) \/ Collector(g)
      PROVE  Contract!Environment /\ UNCHANGED sync
  <2>1. UNCHANGED sync
    BY <1>2 DEF LoseService, LoseSet, ForeignSet, Pods, PodCreated, PodReady,
                PodRemoved, PodUnready, SetStatus, Collector, CollectService,
                CollectSet
  <2> QED
    BY <1>2, <2>1, OthersStep
<1> QED
  BY <1>1, <1>2 DEF User

(* Every step of BrokerController is a step of the contract or none, and   *)
(* one of the operator's if the worker goes on with it.                    *)
LEMMA ContractStep ==
    ASSUME ControllerInv, AskedInv, [Next]_vars
    PROVE  /\ [Contract!Next]_Contract!vars
           /\ sync' # sync => [Contract!Operator]_Contract!vars
<1>1. CASE UNCHANGED vars
  BY <1>1 DEF vars, apiVars, Contract!vars, View
<1>2. CASE Next
  <2>1. AskedNext
    BY <1>2, AskedRecorded DEF AskedInv
  <2>2. CASE \/ User
             \/ \E g \in Groups : Pods(g) \/ PodUnready(g) \/ Collector(g)
    BY <2>1, <2>2, OutsideStep DEF Contract!Next
  <2>3. CASE \/ InformCluster \/ RelistCluster \/ SetsInformer
             \/ ServicesInformer \/ Resync \/ QueueDelayOver \/ Restart
    BY <2>1, <2>3, ProcessStep
  <2>4. CASE Worker
    BY <2>1, <2>4, WorkerStep DEF Contract!Next
  <2> QED
    BY <1>2, <2>2, <2>3, <2>4 DEF Next
<1> QED
  BY <1>1, <1>2

-----------------------------------------------------------------------------
(* The theorems.                                                           *)

(* Every step preserves AskedInv.                                          *)
LEMMA AskedInvNext ==
    ControllerInv /\ AskedInv /\ [Next]_vars => AskedInv'
<1> SUFFICES ASSUME ControllerInv, AskedInv, [Next]_vars
             PROVE  AskedInv'
  OBVIOUS
<1>1. CASE Next
  BY <1>1, AskedRecorded, CopiesAskedNext, UidsGivenNext, TargetSetNext
     DEF AskedInv
<1>2. CASE UNCHANGED vars
  BY <1>2 DEF vars, apiVars, cacheVars, AskedInv, CopiesAsked, Asked,
              DemandOf, UidsGiven, TargetSet
<1> QED
  BY <1>1, <1>2

(* The initial states satisfy it.                                          *)
LEMMA AskedInvInit == Init => AskedInv
<1> SUFFICES ASSUME Init PROVE AskedInv
  OBVIOUS
<1>1. /\ asked = DemandOf(cluster) /\ lastUid = 1
      /\ cluster # None => cluster.uid = 1
  BY DEF Init
<1>2. UidsGiven
  BY <1>1 DEF UidsGiven, DemandOf
<1>3. CopiesAsked
  BY <1>1 DEF Init, Idle, CopiesAsked, Asked, DemandOf
<1> QED
  BY <1>2, <1>3 DEF AskedInv, TargetSet, Init, Idle

(* The invariants together.                                                *)
LEMMA ContractInvariance == Spec => [](ControllerInv /\ AskedInv)
<1>1. Spec => []ControllerInv
  BY VersionsInvariance, SpecsKept, PTL DEF ControllerInv
<1> QED
  BY <1>1, AskedInvInit, AskedInvNext, PTL DEF Spec

(* BrokerController implements ClusterContract: whatever caches, retries,  *)
(* faults and restarts there are, to a client of the API server the        *)
(* operator only makes children that were asked for, patches sets and      *)
(* reports a status.  Its worker deletes nothing and edits no spec.        *)
THEOREM ImplementsContract == Spec => KeepsContract
<1>1. Init => Contract!Init
  <2> SUFFICES ASSUME Init PROVE Contract!Init
    OBVIOUS
  <2>1. PICK spec \in InitialSpecs :
           cluster = [uid |-> 1, rv |-> 1, spec |-> spec, ready |-> "Absent"]
    BY DEF Init
  <2>2. cluster \in BrokerCluster
    BY <2>1, ConstantsAssumption DEF BrokerCluster, ReadyStatus, Foreign
  <2>3. View(cluster) # None /\ cluster # None
    BY <2>2, ViewIsSeen, NoneAssumption
  <2>4. View(cluster) = [uid |-> cluster.uid, want |-> Desired(cluster.spec),
                         ready |-> "Absent"]
    BY <2>1, <2>3 DEF View
  <2>5. asked = {Contract!Demand(View(cluster))}
    BY <2>3, <2>4 DEF Init, DemandOf, Contract!Demand
  <2> QED
    BY <2>3, <2>4, <2>5 DEF Init, Contract!Init
<1>2. ControllerInv /\ AskedInv /\ [Next]_vars
         => [Contract!Next]_Contract!vars
  BY ContractStep
<1>3. ControllerInv /\ AskedInv /\ [Next]_vars
         => [sync' # sync => [Contract!Operator]_Contract!vars]_vars
  BY ContractStep
<1> QED
  BY <1>1, <1>2, <1>3, ContractInvariance, PTL
     DEF Spec, KeepsContract, Contract!Spec

(* A step of the contract that keeps the demands, and the child of each    *)
(* group or its owner, or leaves a child that was asked for.               *)
LEMMA ChildrenKept ==
    ASSUME Contract!ChildrenAskedFor, asked \subseteq asked',
           \A g \in Groups :
              /\ \/ services'[g] \in {services[g], None}
                 \/ \E demand \in Contract!Demands(g) :
                       services'[g] = demand.uid
              /\ \/ sets'[g] \in {sets[g], None}
                 \/ sets'[g].owner = Foreign
                 \/ sets[g] # None /\ sets'[g].owner = sets[g].owner
                 \/ \E demand \in Contract!Demands(g) :
                       sets'[g].owner = demand.uid
    PROVE  Contract!ChildrenAskedFor'
<1> SUFFICES ASSUME NEW g \in Groups
             PROVE  /\ services'[g] # None =>
                          \E demand \in Contract!Demands(g)' :
                             services'[g] = demand.uid
                    /\ sets'[g] # None /\ sets'[g].owner # Foreign =>
                          \E demand \in Contract!Demands(g)' :
                             sets'[g].owner = demand.uid
  BY DEF Contract!ChildrenAskedFor, Contract!Foreign, Foreign
<1>1. Contract!Demands(g) \subseteq Contract!Demands(g)'
  BY DEF Contract!Demands
<1>2. /\ services[g] # None =>
            \E demand \in Contract!Demands(g) : services[g] = demand.uid
      /\ sets[g] # None /\ sets[g].owner # Foreign =>
            \E demand \in Contract!Demands(g) : sets[g].owner = demand.uid
  BY DEF Contract!ChildrenAskedFor, Contract!Foreign, Foreign
<1> HIDE DEF Contract!Demands
<1> QED
  BY <1>1, <1>2

(* Under the contract no child is made that its owner did not ask for.     *)
LEMMA ChildrenAskedForNext ==
    ASSUME ControllerInv, Contract!ChildrenAskedFor,
           [Contract!Next]_Contract!vars
    PROVE  Contract!ChildrenAskedFor'
<1>1. /\ services \in [Groups -> Nat \cup {None}]
      /\ sets \in [Groups -> StatefulSet \cup {None}]
  BY DEF ControllerInv, TypeInv, TypeOK, ApiTypeOK
<1>2. CASE /\ UNCHANGED <<services, sets>>
           /\ asked \subseteq asked'
  BY <1>2, ChildrenKept
<1>3. CASE \/ Contract!Edit \/ Contract!Delete \/ Contract!Create
           \/ Contract!Report \/ UNCHANGED Contract!vars
  BY <1>2, <1>3 DEF Contract!Edit, Contract!Delete, Contract!Create,
                    Contract!Report, Contract!vars
<1>4. ASSUME NEW h \in Groups,
             Contract!LoseService(h) \/ Contract!MakeService(h)
      PROVE  Contract!ChildrenAskedFor'
  <2>1. UNCHANGED <<sets, asked>>
    BY <1>4 DEF Contract!LoseService, Contract!MakeService
  <2>2. CASE Contract!LoseService(h)
    <3>1. \A g \in Groups : services'[g] \in {services[g], None}
      BY <1>1, <2>2 DEF Contract!LoseService
    <3> QED
      BY <2>1, <3>1, ChildrenKept
  <2>3. CASE Contract!MakeService(h)
    <3>1. PICK demand \in Contract!Demands(h) :
             services' = [services EXCEPT ![h] = demand.uid]
      BY <2>3 DEF Contract!MakeService
    <3>2. \A g \in Groups :
             \/ services'[g] = services[g]
             \/ g = h /\ services'[g] = demand.uid
      BY <1>1, <3>1
    <3> QED
      BY <2>1, <3>2, ChildrenKept
  <2> QED
    BY <1>4, <2>2, <2>3
<1>5. ASSUME NEW h \in Groups, NEW ss,
             sets' = [sets EXCEPT ![h] = ss], UNCHANGED <<services, asked>>,
             \/ ss = None \/ ss.owner = Foreign
             \/ sets[h] # None /\ ss.owner = sets[h].owner
             \/ \E demand \in Contract!Demands(h) : ss.owner = demand.uid
      PROVE  Contract!ChildrenAskedFor'
  <2>1. \A g \in Groups : sets'[g] = sets[g] \/ (g = h /\ sets'[g] = ss)
    BY <1>1, <1>5
  <2> QED
    BY <1>5, <2>1, ChildrenKept
<1>6. ASSUME NEW h \in Groups,
             \/ Contract!LoseSet(h) \/ Contract!ForeignSet(h)
             \/ Contract!PodsChange(h) \/ Contract!MakeSet(h)
             \/ Contract!PatchSet(h)
      PROVE  Contract!ChildrenAskedFor'
  <2>1. CASE Contract!LoseSet(h)
    BY <1>5, <2>1 DEF Contract!LoseSet
  <2>2. CASE Contract!ForeignSet(h)
    BY <1>5, <2>2 DEF Contract!ForeignSet, Contract!Foreign, Foreign
  <2>3. CASE Contract!PodsChange(h)
    <3> DEFINE ss == [sets[h] EXCEPT !.current = sets'[h].current,
                                     !.ready = sets'[h].ready]
    <3>1. /\ sets' = [sets EXCEPT ![h] = ss] /\ UNCHANGED <<services, asked>>
          /\ sets[h] # None
      BY <2>3 DEF Contract!PodsChange
    <3>2. ss.owner = sets[h].owner
      BY <1>1, <3>1 DEF StatefulSet
    <3> HIDE DEF ss
    <3> QED
      BY <1>5, <3>1, <3>2
  <2>4. CASE Contract!MakeSet(h)
    <3>1. PICK demand \in Contract!Demands(h) :
             sets' = [sets EXCEPT ![h] =
                Contract!NewStatefulSet([uid |-> demand.uid,
                                         spec |-> demand.want])]
      BY <2>4 DEF Contract!MakeSet
    <3> DEFINE ss == Contract!NewStatefulSet([uid |-> demand.uid,
                                              spec |-> demand.want])
    <3>2. ss.owner = demand.uid
      BY DEF Contract!NewStatefulSet
    <3>3. UNCHANGED <<services, asked>> /\ sets' = [sets EXCEPT ![h] = ss]
      BY <2>4, <3>1 DEF Contract!MakeSet
    <3> HIDE DEF ss
    <3> QED
      BY <1>5, <3>2, <3>3
  <2>5. CASE Contract!PatchSet(h)
    <3>1. PICK demand \in Contract!Demands(h) :
             \E image \in {sets[h].image, demand.want.image},
                allMaster \in {sets[h].allMaster, demand.want.allMaster} :
                   sets' = [sets EXCEPT ![h] =
                      [@ EXCEPT !.replicas = demand.want.membersPerGroup,
                                !.image = image, !.allMaster = allMaster]]
      BY <2>5 DEF Contract!PatchSet
    <3>5. PICK image \in {sets[h].image, demand.want.image},
               allMaster \in {sets[h].allMaster, demand.want.allMaster} :
             sets' = [sets EXCEPT ![h] =
                [@ EXCEPT !.replicas = demand.want.membersPerGroup,
                          !.image = image, !.allMaster = allMaster]]
      BY <3>1
    <3> DEFINE ss == [sets[h] EXCEPT
                         !.replicas = demand.want.membersPerGroup,
                         !.image = image, !.allMaster = allMaster]
    <3>2. UNCHANGED <<services, asked>> /\ sets[h] # None
      BY <2>5 DEF Contract!PatchSet
    <3>3. ss.owner = sets[h].owner
      BY <1>1, <3>2 DEF StatefulSet
    <3>4. sets' = [sets EXCEPT ![h] = ss]
      BY <3>5
    <3> HIDE DEF ss
    <3> QED
      BY <1>5, <3>2, <3>3, <3>4
  <2> QED
    BY <1>6, <2>1, <2>2, <2>3, <2>4, <2>5
<1> QED
  BY <1>3, <1>4, <1>6 DEF Contract!Next, Contract!Environment,
                          Contract!Operator

(* No Service and no StatefulSet is ever controlled by a BrokerCluster     *)
(* that did not ask for the group at some time: neither a stale cache nor  *)
(* a patch by name, a re-creation or a restart hands a child to another    *)
(* cluster.                                                                *)
THEOREM ChildrenWereAskedFor == Spec => []Contract!ChildrenAskedFor
<1>1. Init => Contract!ChildrenAskedFor
  BY DEF Init, Contract!ChildrenAskedFor
<1>2. ControllerInv /\ AskedInv /\ Contract!ChildrenAskedFor
         /\ [Next]_vars => Contract!ChildrenAskedFor'
  BY ContractStep, ChildrenAskedForNext
<1> QED
  BY <1>1, <1>2, ContractInvariance, PTL DEF Spec
=============================================================================
