---------------------------- MODULE ReadyProofs ----------------------------
(***************************************************************************)
(* A theorem about BrokerController: while every spec asks for the same    *)
(* number of brokers in a group, a sync that reports the cluster Ready has *)
(* seen every broker of every group ready.                                 *)
(*                                                                         *)
(* syncHandler compares two sums with what the spec asks for.  That the    *)
(* sums are right says that every group is complete only because no group  *)
(* can have surplus brokers, and that is a fact about the sets at the API  *)
(* server and in the cache, whatever interleaving made them.               *)
(***************************************************************************)
EXTENDS BrokerControllerProofs

(* The assumption: M brokers in a group, whatever the user submits.        *)
SameMembers(M) == \A spec \in Specs : Desired(spec).membersPerGroup = M

(* No set has surplus pods, and the operator's sets have M replicas.       *)
NoSurplus(ss, M) ==
    ss # None => /\ ss.ready <= ss.current
                 /\ ss.current <= ss.replicas
                 /\ ss.owner # Foreign => ss.replicas = M

SetsOK(M) ==
    \A g \in Groups : NoSurplus(sets[g], M) /\ NoSurplus(setCache[g], M)

(* A sync starts from zero, and the worker holds the key during a sync.    *)
StartOK ==
    /\ ~processing => sync.pc = "idle"
    /\ sync.pc \in {"idle", "get", "services"} =>
          sync.readyGroups = 0 /\ sync.readyMembers = 0 /\ sync.full = {}

(* The sums after index groups, and when they are as large as they can be. *)
SumsOK(M) ==
    sync.pc = "sets" =>
        /\ sync.index = 0 \/ sync.index <= sync.obj.spec.groupReplica
        /\ sync.readyGroups <= sync.index
        /\ sync.readyMembers <= sync.index * M
        /\ sync.full \subseteq 0 .. sync.index - 1
        /\ sync.readyMembers = sync.index * M => sync.full = 0 .. sync.index - 1

(* ReadyIsEarned, through the retries too.                                 *)
EarnedOK ==
    sync.pc \in {"update", "refetch"} /\ sync.target = "True" =>
        sync.full = {g \in Groups : g < sync.obj.spec.groupReplica}

FrameInv(M) == StartOK /\ SumsOK(M) /\ EarnedOK

ReadyInv(M) == SetsOK(M) /\ FrameInv(M)

(* From its second loop on, a sync works with M brokers in a group.        *)
LEMMA MembersAre ==
    ASSUME NEW M, SameMembers(M), TypeInv, SpecInv,
           sync.pc \in {"sets", "update", "refetch"}
    PROVE  members = M
<1>1. sync.obj # None
  BY DEF TypeInv, FrameOK
<1> QED
  BY <1>1 DEF SpecInv, SubmittedOK, Submitted, DefaultsOK, SameMembers

-----------------------------------------------------------------------------
(* No set has surplus pods.                                                *)

(* A step that leaves the sets and their cache alone.                      *)
LEMMA SetsUntouched ==
    ASSUME NEW M, SetsOK(M), UNCHANGED <<sets, setCache>>
    PROVE  SetsOK(M)'
BY DEF SetsOK

(* A step that replaces one set at the API server.                         *)
LEMMA OneSet ==
    ASSUME NEW M, TypeInv, SetsOK(M), NEW g \in Groups, NEW ss,
           NoSurplus(ss, M), sets' = [sets EXCEPT ![g] = ss],
           UNCHANGED setCache
    PROVE  SetsOK(M)'
BY DEF SetsOK, TypeInv, TypeOK, ApiTypeOK

(* The set made for a group has no pods yet.                               *)
LEMMA NewSetNoSurplus ==
    ASSUME NEW M \in Int, SameMembers(M), TypeInv, SpecInv, InLoop("sets"),
           members >= 0
    PROVE  /\ NoSurplus(NewStatefulSet(sync.obj), M)
           /\ M >= 0
           /\ NewStatefulSet(sync.obj).replicas = M
           /\ NewStatefulSet(sync.obj).current = 0
           /\ NewStatefulSet(sync.obj).ready = 0
<1>1. members = M
  BY MembersAre DEF InLoop
<1> QED
  BY <1>1 DEF NewStatefulSet, NoSurplus, members

(* While every spec asks for M brokers no cached set needs a patch: the    *)
(* ones a cluster controls have M replicas.                                *)
LEMMA NoPatch ==
    ASSUME NEW M \in Int, SameMembers(M), TypeInv, SpecInv, SetsOK(M)
    PROVE  ~NeedsPatch
<1> SUFFICES ASSUME NeedsPatch PROVE FALSE
  OBVIOUS
<1>1. InLoop("sets")
  BY DEF NeedsPatch
<1>2. sync.obj \in BrokerCluster /\ sync.index \in Groups
  BY <1>1, IndexInGroups
<1>3. sync.obj.uid # Foreign
  BY <1>2 DEF BrokerCluster
<1>4. setCache[sync.index].replicas = M
  BY <1>2, <1>3 DEF NeedsPatch, IsControlledBy, SetsOK, NoSurplus
<1> QED
  BY <1>1, <1>4, MembersAre DEF NeedsPatch, WrongReplicas, InLoop

(* The StatefulSet controller makes no pod too many.                       *)
LEMMA PodsNoSurplus ==
    ASSUME NEW M \in Int, TypeInv, SetsOK(M), NEW g \in Groups,
           Pods(g) \/ PodUnready(g)
    PROVE  SetsOK(M)'
<1>1. sets[g] \in StatefulSet /\ NoSurplus(sets[g], M) /\ sets[g] # None
  BY DEF Pods, PodCreated, PodReady, PodRemoved, PodUnready, TypeInv, TypeOK,
         ApiTypeOK, SetsOK
<1>2. PICK current \in Int, ready \in Int :
         /\ SetStatus(g, current, ready)
         /\ ready <= current /\ current <= sets[g].replicas
  <2>1. /\ sets[g].current \in Nat /\ sets[g].ready \in Nat
        /\ sets[g].replicas \in Nat
        /\ sets[g].ready <= sets[g].current
        /\ sets[g].current <= sets[g].replicas
    BY <1>1 DEF StatefulSet, NoSurplus
  <2>2. ~PodRemoved(g)
    BY <2>1 DEF PodRemoved
  <2>3. CASE PodCreated(g)
    <3>1. /\ sets[g].current + 1 \in Int
          /\ sets[g].ready <= sets[g].current + 1
          /\ sets[g].current + 1 <= sets[g].replicas
      BY <2>1, <2>3 DEF PodCreated
    <3> QED
      BY <2>1, <2>3, <3>1 DEF PodCreated
  <2>4. CASE PodReady(g)
    <3>1. sets[g].ready + 1 \in Int /\ sets[g].ready + 1 <= sets[g].current
      BY <2>1, <2>4 DEF PodReady
    <3> QED
      BY <2>1, <2>4, <3>1 DEF PodReady
  <2>5. CASE PodUnready(g)
    <3>1. sets[g].ready - 1 \in Int /\ sets[g].ready - 1 <= sets[g].current
      BY <2>1
    <3> QED
      BY <2>1, <2>5, <3>1 DEF PodUnready
  <2> QED
    BY <2>2, <2>3, <2>4, <2>5 DEF Pods
<1> DEFINE ss == [sets[g] EXCEPT !.current = current, !.ready = ready]
<1>3. sets' = [sets EXCEPT ![g] = ss] /\ UNCHANGED setCache
  BY <1>2 DEF SetStatus, cacheVars, TypeInv, TypeOK, ApiTypeOK
<1>4. NoSurplus(ss, M)
  BY <1>1, <1>2 DEF NoSurplus, StatefulSet
<1> HIDE DEF ss
<1> QED
  BY <1>3, <1>4, OneSet

(* Every step keeps SetsOK.                                                *)
LEMMA SetsNext ==
    ASSUME NEW M \in Int, SameMembers(M), TypeInv, SpecInv, SetsOK(M),
           [Next]_vars
    PROVE  SetsOK(M)'
<1>1. NoSurplus(None, M)
  BY DEF NoSurplus
<1>2. ASSUME NEW spec \in Specs, EditCluster(spec) \/ CreateCluster(spec)
      PROVE  SetsOK(M)'
  BY <1>2, SetsUntouched DEF EditCluster, CreateCluster, cacheVars
<1>3. CASE DeleteCluster
  BY <1>3, SetsUntouched DEF DeleteCluster, cacheVars
<1>4. ASSUME NEW g \in Groups, LoseService(g) \/ CollectService(g)
      PROVE  SetsOK(M)'
  BY <1>4, SetsUntouched DEF LoseService, CollectService, cacheVars
<1>5. ASSUME NEW g \in Groups, LoseSet(g) \/ CollectSet(g)
      PROVE  SetsOK(M)'
  BY <1>1, <1>5, OneSet DEF LoseSet, CollectSet, cacheVars
<1>6. ASSUME NEW g \in Groups, ForeignSet(g)
      PROVE  SetsOK(M)'
  <2>1. PICK image \in Images :
           sets' = [sets EXCEPT ![g] =
                      [owner |-> Foreign, replicas |-> 1, image |-> image,
                       allMaster |-> FALSE, current |-> 0, ready |-> 0]]
    BY <1>6 DEF ForeignSet
  <2>2. NoSurplus([owner |-> Foreign, replicas |-> 1, image |-> image,
                   allMaster |-> FALSE, current |-> 0, ready |-> 0], M)
    BY DEF NoSurplus, Foreign
  <2> QED
    BY <1>6, <2>1, <2>2, OneSet DEF ForeignSet, cacheVars
<1>7. ASSUME NEW g \in Groups, Pods(g) \/ PodUnready(g)
      PROVE  SetsOK(M)'
  BY <1>7, PodsNoSurplus
<1>8. CASE SetsInformer
  BY <1>8 DEF SetsInformer, ListSets, InformSet, apiVars, SetsOK, TypeInv,
              TypeOK, CacheTypeOK
<1>9. CASE \/ InformCluster \/ RelistCluster \/ ServicesInformer \/ Resync
           \/ QueueDelayOver
  BY <1>9, SetsUntouched
     DEF InformCluster, RelistCluster, ServicesInformer, ListServices,
         InformService, Resync, QueueDelayOver, apiVars, cacheVars
<1>10. CASE CreateSet \/ CreateSetFault
  <2>1. InLoop("sets") /\ UNCHANGED setCache
    BY <1>10 DEF CreateSet, CreateSetFault, cacheVars
  <2>2. sync.index \in Groups
    BY <2>1, IndexInGroups
  <2>3. CASE UNCHANGED sets
    BY <2>1, <2>3, SetsUntouched
  <2>4. CASE /\ members >= 0
             /\ sets' = [sets EXCEPT ![sync.index] = NewStatefulSet(sync.obj)]
    BY <2>1, <2>2, <2>4, OneSet, NewSetNoSurplus
  <2> QED
    BY <1>10, <2>2, <2>3, <2>4
       DEF CreateSet, CreateSetFault, TypeInv, TypeOK, ApiTypeOK
<1>11. ~PatchSet /\ ~PatchSetFault
  BY NoPatch DEF PatchSet, PatchSetFault
<1>12. CASE \/ GetItem \/ FinishItem \/ SyncClusterGone \/ SyncGetCluster
            \/ ServiceFound \/ CreateService \/ CreateServiceFault
            \/ ServicesDone \/ SetFound \/ updateClusterStatus
            \/ PutAccepted \/ PutRejected \/ PutFault \/ Refetch
  BY <1>12, SetsUntouched
     DEF GetItem, FinishItem, SyncClusterGone, SyncGetCluster, ServiceFound,
         CreateService, CreateServiceFault, ServicesDone, SetFound,
         updateClusterStatus, PutAccepted, PutRejected, PutFault, Refetch,
         apiVars, cacheVars
<1>13. CASE Restart
  BY <1>1, <1>13 DEF Restart, apiVars, SetsOK
<1>14. CASE UNCHANGED vars
  BY <1>14, SetsUntouched DEF vars, apiVars, cacheVars
<1> QED
  BY <1>2, <1>3, <1>4, <1>5, <1>6, <1>7, <1>8, <1>9, <1>10, <1>11, <1>12,
     <1>13, <1>14 DEF Next, User, Collector, Worker

-----------------------------------------------------------------------------
(* The frame of syncHandler.                                               *)

(* A step that leaves the frame alone, up to aliased.                      *)
LEMMA FrameUntouched ==
    ASSUME NEW M, TypeInv, FrameInv(M), UNCHANGED processing,
           sync' = sync \/ sync' = [sync EXCEPT !.aliased = FALSE]
    PROVE  FrameInv(M)'
<1>1. /\ sync'.pc = sync.pc /\ sync'.obj = sync.obj
      /\ sync'.index = sync.index /\ sync'.full = sync.full
      /\ sync'.readyGroups = sync.readyGroups
      /\ sync'.readyMembers = sync.readyMembers
      /\ sync'.target = sync.target
  BY DEF TypeInv, TypeOK, Frame
<1> QED
  BY <1>1 DEF FrameInv, StartOK, SumsOK, EarnedOK, members

(* The empty frame.                                                        *)
LEMMA IdleFrame ==
    ASSUME NEW M, sync' = Idle
    PROVE  FrameInv(M)'
BY DEF Idle, FrameInv, StartOK, SumsOK, EarnedOK

(* Leaving syncHandler.                                                    *)
LEMMA ReturnFrame ==
    ASSUME NEW M, TypeInv, FrameInv(M), NEW err, Return(err),
           sync.pc # "idle", UNCHANGED processing
    PROVE  FrameInv(M)'
<1>1. sync'.pc = "return"
  BY DEF Return, TypeInv, TypeOK, Frame
<1> QED
  BY <1>1 DEF FrameInv, StartOK, SumsOK, EarnedOK

(* A sum that grows by at most M, from at most p, is p + M only if it was  *)
(* p and grew by M.                                                        *)
LEMMA SumsTight ==
    ASSUME NEW M \in Nat, NEW p \in Int, NEW sum \in Nat, sum <= p,
           NEW current \in Nat, NEW ready \in Nat,
           ready <= current, current <= M,
           NEW new, new = IF ready = current THEN sum + current ELSE sum
    PROVE  /\ new <= p + M
           /\ new = p + M => sum = p /\ current = M /\ ready = M
<1>1. CASE ready = current
  BY <1>1
<1>2. CASE ready # current
  BY <1>2
<1> QED
  BY <1>1, <1>2

(* Counting a set that has at most M pods: the sums stay below what the    *)
(* groups counted so far can have, and reach it only if every group is     *)
(* complete.                                                               *)
LEMMA CountFrame ==
    ASSUME NEW M \in Nat, SameMembers(M), TypeInv, SpecInv, FrameInv(M),
           InLoop("sets"), NEW ss \in StatefulSet, ss.ready <= ss.current,
           ss.current <= M, CountSet(ss), UNCHANGED processing
    PROVE  FrameInv(M)'
<1> DEFINE groups == IF GroupReady(ss) THEN sync.readyGroups + 1
                                       ELSE sync.readyGroups
           brokers == IF GroupReady(ss) THEN sync.readyMembers + ss.current
                                        ELSE sync.readyMembers
           full == IF ss.current = members /\ ss.ready = members
                   THEN sync.full \cup {sync.index} ELSE sync.full
<1>1. sync \in Frame /\ sync.pc = "sets"
  BY DEF TypeInv, TypeOK, InLoop
<1>2. sync' = [sync EXCEPT !.index = sync.index + 1, !.readyGroups = groups,
                           !.readyMembers = brokers, !.full = full]
  BY DEF CountSet
<1>3. /\ sync'.pc = "sets" /\ sync'.obj = sync.obj
      /\ sync'.index = sync.index + 1 /\ sync'.readyGroups = groups
      /\ sync'.readyMembers = brokers /\ sync'.full = full
  BY <1>1, <1>2 DEF Frame
<1>4. /\ members = M
      /\ sync.readyGroups <= sync.index
      /\ sync.readyMembers <= sync.index * M
      /\ sync.full \subseteq 0 .. sync.index - 1
      /\ sync.readyMembers = sync.index * M =>
            sync.full = 0 .. sync.index - 1
  BY <1>1, MembersAre DEF FrameInv, SumsOK
<1>5. /\ sync.index \in Nat /\ sync.readyGroups \in Nat
      /\ sync.readyMembers \in Nat
      /\ ss.current \in Nat /\ ss.ready \in Nat
  BY <1>1 DEF Frame, StatefulSet
<1>6. sync.index + 1 <= sync.obj.spec.groupReplica
  <2>1. sync.obj.spec.groupReplica \in Int
    BY IndexInGroups DEF BrokerCluster, BrokerClusterSpec
  <2> QED
    BY <1>5, <2>1 DEF InLoop
<1>7. groups <= sync.index + 1
  BY <1>4, <1>5
<1>8. sync.index * M \in Int /\ (sync.index + 1) * M = sync.index * M + M
  BY <1>5
<1>9. /\ brokers <= sync.index * M + M
      /\ brokers = sync.index * M + M =>
            /\ sync.readyMembers = sync.index * M
            /\ ss.current = M /\ ss.ready = M
  <2> DEFINE p == sync.index * M
  <2>1. brokers = IF ss.ready = ss.current THEN sync.readyMembers + ss.current
                                           ELSE sync.readyMembers
    BY DEF GroupReady
  <2>2. p \in Int /\ sync.readyMembers <= p
    BY <1>4, <1>8
  <2> HIDE DEF p, brokers
  <2>3. /\ brokers <= p + M
        /\ brokers = p + M =>
              sync.readyMembers = p /\ ss.current = M /\ ss.ready = M
    BY <1>5, <2>1, <2>2, SumsTight
  <2> QED
    BY <2>3 DEF p
<1>10. full \subseteq 0 .. sync.index
  BY <1>4, <1>5
<1>11. (0 .. sync.index - 1) \cup {sync.index} = 0 .. sync.index
  BY <1>5
<1>12. brokers = sync.index * M + M => full = 0 .. sync.index
  BY <1>4, <1>9, <1>11
<1> HIDE DEF groups, brokers, full
<1>13. sync'.index - 1 = sync.index
  BY <1>3, <1>5
<1>14. sync'.index * M = sync.index * M + M
  BY <1>3, <1>8
<1>15. SumsOK(M)'
  BY <1>3, <1>6, <1>7, <1>9, <1>10, <1>12, <1>13, <1>14 DEF SumsOK
<1> QED
  BY <1>1, <1>3, <1>4, <1>15
     DEF FrameInv, StartOK, EarnedOK, members

(* The loop over the Services: the sums stay zero.                         *)
LEMMA ServiceLoopFrame ==
    ASSUME NEW M, TypeInv, FrameInv(M),
           ServiceFound \/ CreateService \/ CreateServiceFault
    PROVE  FrameInv(M)'
<1>1. sync.pc = "services" /\ UNCHANGED processing
  BY DEF ServiceFound, CreateService, CreateServiceFault, InLoop, queueVars
<1>2. CASE \E err \in BOOLEAN : Return(err)
  BY <1>1, <1>2, ReturnFrame
<1>3. CASE NextIndex
  <2>1. /\ sync'.pc = sync.pc /\ sync'.obj = sync.obj
        /\ sync'.full = sync.full
        /\ sync'.readyGroups = sync.readyGroups
        /\ sync'.readyMembers = sync.readyMembers
    BY <1>3 DEF NextIndex, TypeInv, TypeOK, Frame
  <2> QED
    BY <1>1, <2>1 DEF FrameInv, StartOK, SumsOK, EarnedOK
<1> QED
  BY <1>2, <1>3 DEF ServiceFound, CreateService, CreateServiceFault

(* The loop over the StatefulSets: what is counted is the cached set of a  *)
(* group that the cluster controls, or a new one without pods.             *)
LEMMA SetLoopFrame ==
    ASSUME NEW M \in Int, SameMembers(M), TypeInv, SpecInv, SetsOK(M),
           FrameInv(M),
           \/ SetFound \/ CreateSet \/ CreateSetFault
           \/ PatchSet \/ PatchSetFault
    PROVE  FrameInv(M)'
<1>1. SetFound \/ CreateSet \/ CreateSetFault
  BY NoPatch DEF PatchSet, PatchSetFault
<1>2. InLoop("sets") /\ sync.pc = "sets" /\ UNCHANGED processing
  BY <1>1 DEF SetFound, CreateSet, CreateSetFault, InLoop, queueVars
<1>3. sync.obj \in BrokerCluster /\ sync.index \in Groups
  BY <1>2, IndexInGroups
<1>4. CASE Return(TRUE)
  BY <1>2, <1>4, ReturnFrame
<1>5. CASE /\ setCache[sync.index] # None
           /\ IsControlledBy(setCache[sync.index].owner, sync.obj)
           /\ CountSet(setCache[sync.index])
  <2> DEFINE ss == setCache[sync.index]
  <2>1. ss \in StatefulSet /\ NoSurplus(ss, M)
    BY <1>3, <1>5 DEF TypeInv, TypeOK, CacheTypeOK, SetsOK
  <2>2. sync.obj.uid # Foreign
    BY <1>3 DEF BrokerCluster
  <2>3. /\ ss.ready <= ss.current /\ ss.current <= ss.replicas
        /\ ss.replicas = M
    BY <1>5, <2>1, <2>2 DEF NoSurplus, IsControlledBy
  <2>4. M \in Nat
    BY <2>1, <2>3 DEF StatefulSet
  <2> HIDE DEF ss
  <2>5. CountSet(ss)
    BY <1>5 DEF ss
  <2> QED
    BY <1>2, <2>1, <2>3, <2>4, <2>5, CountFrame
<1>6. CASE members >= 0 /\ CountSet(NewStatefulSet(sync.obj))
  <2> DEFINE ss == NewStatefulSet(sync.obj)
  <2>1. ss \in StatefulSet
    BY <1>2, <1>6, NewStatefulSetType
  <2>2. M >= 0 /\ ss.current = 0 /\ ss.ready = 0
    BY <1>2, <1>6, NewSetNoSurplus
  <2> HIDE DEF ss
  <2>3. CountSet(ss)
    BY <1>6 DEF ss
  <2>4. M \in Nat /\ ss.ready <= ss.current /\ ss.current <= M
    BY <2>2
  <2> QED
    BY <1>2, <2>1, <2>3, <2>4, CountFrame
<1> QED
  BY <1>1, <1>4, <1>5, <1>6 DEF SetFound, CreateSet, CreateSetFault

(* The status computed from the sums: "True" only after all groups, and    *)
(* with sums that leave no group incomplete.                               *)
LEMMA StatusFrame ==
    ASSUME NEW M \in Int, SameMembers(M), TypeInv, SpecInv, FrameInv(M),
           updateClusterStatus
    PROVE  FrameInv(M)'
<1>1. /\ sync \in Frame /\ sync.pc = "sets" /\ UNCHANGED processing
      /\ sync.index >= sync.obj.spec.groupReplica
  BY DEF updateClusterStatus, queueVars, TypeInv, TypeOK
<1>2. sync.obj \in BrokerCluster
  BY <1>1 DEF TypeInv, TypeOK, FrameOK, Frame
<1>3. sync'.obj.spec = sync.obj.spec
  BY SpecSync
<1>4. /\ sync'.full = sync.full
      /\ \/ sync'.pc = "return"
         \/ sync'.pc = "update" /\ sync'.target = ReadyNow
  <2>1. \E object :
           \/ sync' = [sync EXCEPT !.pc = "update", !.obj = object,
                                   !.target = ReadyNow, !.upd = object]
           \/ sync' = [sync EXCEPT !.pc = "return", !.obj = object]
    BY DEF updateClusterStatus
  <2> QED
    BY <1>1, <2>1 DEF Frame
<1>5. members = M
  BY <1>1, MembersAre
<1>6. ASSUME ReadyNow = "True"
      PROVE  sync.full = {g \in Groups : g < sync.obj.spec.groupReplica}
  <2> DEFINE G == sync.obj.spec.groupReplica
  <2>1. /\ sync.readyGroups = G
        /\ sync.readyMembers = G * M
    BY <1>5, <1>6 DEF ReadyNow
  <2>2. /\ sync.index = 0 \/ sync.index <= G
        /\ sync.readyGroups <= sync.index
        /\ sync.readyMembers = sync.index * M =>
              sync.full = 0 .. sync.index - 1
    BY <1>1 DEF FrameInv, SumsOK
  <2>3. sync.index \in Nat /\ sync.readyGroups \in Nat
    BY <1>1 DEF Frame
  <2>4. G = sync.index
    BY <1>1, <2>1, <2>2, <2>3
  <2>5. sync.full = 0 .. G - 1
    BY <2>1, <2>2, <2>4
  <2>6. G <= MaxGroups
    <3>1. sync.obj.spec \in BrokerClusterSpec
      BY <1>2 DEF BrokerCluster
    <3>2. EnsureDefaults(sync.obj.spec).groupReplica <= MaxGroups
      BY <1>2, NoneAssumption DEF TypeInv, BoundsOK, Bounded
    <3> QED
      BY <3>1, <3>2, ConstantsAssumption
         DEF EnsureDefaults, BrokerClusterSpec
  <2>7. G \in Nat /\ MaxGroups \in Nat
    BY <2>3, <2>4, ConstantsAssumption
  <2> HIDE DEF G
  <2>8. 0 .. G - 1 = {g \in Groups : g < G}
    BY <2>6, <2>7 DEF Groups
  <2> QED
    BY <2>5, <2>8 DEF G
<1> QED
  BY <1>1, <1>3, <1>4, <1>5, <1>6
     DEF FrameInv, StartOK, SumsOK, EarnedOK, members

(* The steps of the worker.                                                *)
LEMMA FrameWorker ==
    ASSUME NEW M \in Int, SameMembers(M), TypeInv, SpecInv, ReadyInv(M), Worker
    PROVE  FrameInv(M)'
<1>1. sync \in Frame /\ SetsOK(M) /\ FrameInv(M)
  BY DEF ReadyInv, FrameInv, TypeInv, TypeOK
<1>2. CASE GetItem
  <2>1. sync.pc = "idle"
    BY <1>1, <1>2 DEF GetItem, Get, FrameInv, StartOK
  <2>2. /\ sync'.pc = "get" /\ sync'.full = sync.full
        /\ sync'.readyGroups = sync.readyGroups
        /\ sync'.readyMembers = sync.readyMembers
        /\ processing'
    BY <1>1, <1>2 DEF GetItem, Get, Frame
  <2> QED
    BY <1>1, <2>1, <2>2 DEF FrameInv, StartOK, SumsOK, EarnedOK
<1>3. CASE FinishItem
  BY <1>3, IdleFrame DEF FinishItem
<1>4. CASE SyncClusterGone
  BY <1>1, <1>4, ReturnFrame DEF SyncClusterGone, queueVars
<1>5. CASE SyncGetCluster
  <2>1. \E object : sync' = [sync EXCEPT !.pc = "services", !.obj = object,
                                         !.aliased = TRUE]
    BY <1>5 DEF SyncGetCluster
  <2>2. /\ sync'.pc = "services" /\ sync'.full = sync.full
        /\ sync'.readyGroups = sync.readyGroups
        /\ sync'.readyMembers = sync.readyMembers
    BY <1>1, <2>1 DEF Frame
  <2>3. sync.pc = "get" /\ UNCHANGED processing
    BY <1>5 DEF SyncGetCluster, queueVars
  <2> QED
    BY <1>1, <2>2, <2>3 DEF FrameInv, StartOK, SumsOK, EarnedOK
<1>6. CASE ServiceFound \/ CreateService \/ CreateServiceFault
  BY <1>1, <1>6, ServiceLoopFrame
<1>7. CASE ServicesDone
  <2>1. \E object : sync' = [sync EXCEPT !.pc = "sets", !.obj = object,
                                         !.index = 0]
    BY <1>7 DEF ServicesDone
  <2>2. /\ sync'.pc = "sets" /\ sync'.index = 0 /\ sync'.full = sync.full
        /\ sync'.readyGroups = sync.readyGroups
        /\ sync'.readyMembers = sync.readyMembers
    BY <1>1, <2>1 DEF Frame
  <2>3. sync.pc = "services" /\ UNCHANGED processing
    BY <1>7 DEF ServicesDone, queueVars
  <2>4. sync'.full = {} /\ sync'.readyGroups = 0 /\ sync'.readyMembers = 0
    BY <1>1, <2>2, <2>3 DEF FrameInv, StartOK
  <2>5. 0 * M = 0 /\ 0 .. 0 - 1 = {}
    OBVIOUS
  <2>6. SumsOK(M)'
    BY <2>2, <2>4, <2>5 DEF SumsOK
  <2> QED
    BY <1>1, <2>2, <2>3, <2>6 DEF FrameInv, StartOK, EarnedOK
<1>8. CASE \/ SetFound \/ CreateSet \/ CreateSetFault
           \/ PatchSet \/ PatchSetFault
  BY <1>1, <1>8, SetLoopFrame
<1>9. CASE updateClusterStatus
  BY <1>1, <1>9, StatusFrame
<1>10. CASE PutAccepted
  BY <1>1, <1>10, ReturnFrame DEF PutAccepted, queueVars
<1>11. CASE PutRejected \/ PutFault \/ Refetch
  <2>1. CASE Return(TRUE)
    BY <1>1, <1>11, <2>1, ReturnFrame
       DEF PutRejected, PutFault, Refetch, queueVars
  <2>2. CASE ~Return(TRUE)
    <3>1. /\ sync'.pc \in {"update", "refetch"} /\ sync'.obj = sync.obj
          /\ sync'.full = sync.full /\ sync'.target = sync.target
      BY <1>1, <1>11, <2>2 DEF PutRejected, PutFault, Refetch, Frame
    <3>2. sync.pc \in {"update", "refetch"} /\ UNCHANGED processing
      BY <1>11 DEF PutRejected, PutFault, Refetch, queueVars
    <3> QED
      BY <1>1, <3>1, <3>2
         DEF FrameInv, StartOK, SumsOK, EarnedOK, members
  <2> QED
    BY <2>1, <2>2
<1> QED
  BY <1>2, <1>3, <1>4, <1>5, <1>6, <1>7, <1>8, <1>9, <1>10, <1>11 DEF Worker

(* Every step keeps FrameInv.                                              *)
LEMMA FrameNext ==
    ASSUME NEW M \in Int, SameMembers(M), TypeInv, SpecInv, ReadyInv(M),
           [Next]_vars
    PROVE  FrameInv(M)'
<1>1. FrameInv(M)
  BY DEF ReadyInv
<1>2. CASE User
  BY <1>1, <1>2, FrameUntouched
     DEF User, EditCluster, CreateCluster, DeleteCluster, LoseService, LoseSet,
         ForeignSet, queueVars
<1>3. ASSUME NEW g \in Groups, Pods(g) \/ PodUnready(g) \/ Collector(g)
      PROVE  FrameInv(M)'
  BY <1>1, <1>3, FrameUntouched
     DEF Pods, PodCreated, PodReady, PodRemoved, PodUnready, SetStatus,
         Collector, CollectService, CollectSet, queueVars
<1>4. CASE InformCluster \/ RelistCluster
  BY <1>1, <1>4, FrameUntouched
     DEF InformCluster, RelistCluster, enqueueCluster, AddRateLimited, queueVars
<1>5. CASE SetsInformer \/ ServicesInformer
  BY <1>1, <1>5, FrameUntouched
     DEF SetsInformer, ListSets, InformSet, handleObject, ServicesInformer,
         ListServices, InformService, enqueueCluster, AddRateLimited, queueVars
<1>6. CASE Resync \/ QueueDelayOver
  BY <1>1, <1>6, FrameUntouched
     DEF Resync, QueueDelayOver, DelayOver, enqueueCluster, AddRateLimited
<1>7. CASE Worker
  BY <1>7, FrameWorker
<1>8. CASE Restart
  BY <1>8, IdleFrame DEF Restart
<1>9. CASE UNCHANGED vars
  BY <1>1, <1>9, FrameUntouched DEF vars, queueVars
<1> QED
  BY <1>2, <1>3, <1>4, <1>5, <1>6, <1>7, <1>8, <1>9 DEF Next

-----------------------------------------------------------------------------
(* The initial states satisfy ReadyInv.                                    *)
LEMMA ReadyInvInit ==
    ASSUME NEW M \in Int, Init
    PROVE  ReadyInv(M)
<1>1. SetsOK(M)
  BY DEF Init, SetsOK, NoSurplus
<1>2. FrameInv(M)
  BY DEF Init, Idle, FrameInv, StartOK, SumsOK, EarnedOK
<1> QED
  BY <1>1, <1>2 DEF ReadyInv

(* The invariant holds.                                                    *)
LEMMA ReadyInvariance ==
    ASSUME NEW M \in Int, SameMembers(M)
    PROVE  Spec => []ReadyInv(M)
<1>1. Init => ReadyInv(M)
  BY ReadyInvInit
<1>2. TypeInv /\ SpecInv /\ ReadyInv(M) /\ [Next]_vars => ReadyInv(M)'
  BY SetsNext, FrameNext DEF ReadyInv
<1> QED
  BY <1>1, <1>2, TypeInvariance, SpecsKept, PTL DEF Spec

(* A sync that reports the cluster Ready has seen every group with all of  *)
(* its brokers, all of them ready, although updateClusterStatus compares   *)
(* only the number of ready groups and the sum of their brokers: in every  *)
(* interleaving of syncs with edits, lost and foreign sets, failing        *)
(* brokers, stale caches and restarts, as long as all specs ask for the    *)
(* same number of brokers in a group.  Without that it is false.           *)
THEOREM ReadyEarned ==
    ASSUME NEW M \in Int, SameMembers(M)
    PROVE  Spec => []ReadyIsEarned
<1>1. ReadyInv(M) => ReadyIsEarned
  BY DEF ReadyInv, FrameInv, EarnedOK, ReadyIsEarned
<1> QED
  BY <1>1, ReadyInvariance, PTL
=============================================================================
