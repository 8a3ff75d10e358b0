--------------------------- MODULE TemplateProofs ---------------------------
(***************************************************************************)
(* Theorems about BrokerController: which edits of the BrokerCluster reach *)
(* the pod templates of its StatefulSets.                                  *)
(*                                                                         *)
(* syncHandler patches a set only when its number of replicas is wrong,    *)
(* and makes the patch from the cached set.  Edits that leave the number   *)
(* of members alone therefore never reach a template.  Edits that change   *)
(* the number and the template together do, however stale the cache is,    *)
(* provided that no two of the specs share part of a template: it is this  *)
(* sharing that makes a patch from a stale set leave a field out.          *)
(***************************************************************************)
EXTENDS ReadyProofs

(* The number of brokers in a group that a spec asks for.                  *)
Members(spec) == Desired(spec).membersPerGroup

(* The assumption on the user: another template comes with another number  *)
(* of members, and a field of the template that is ever edited has another *)
(* value with every other number.                                          *)
WholeEdits ==
    /\ \A s, t \in Specs :
          Members(s) = Members(t) => brokerContainer(s) = brokerContainer(t)
    /\ \/ \A s, t \in Specs : s.image = t.image
       \/ \A s, t \in Specs : s.image = t.image => Members(s) = Members(t)
    /\ \/ \A s, t \in Specs : s.allMaster = t.allMaster
       \/ \A s, t \in Specs :
             s.allMaster = t.allMaster => Members(s) = Members(t)

(* A set has its replicas and its template from one and the same spec.     *)
From(ss, spec) ==
    /\ ss.replicas = Members(spec)
    /\ brokerContainer(ss) = brokerContainer(spec)

Whole(ss) == ss # None => \E spec \in Specs : From(ss, spec)

(* This is so of every set, at the API server and in the cache.            *)
WholeInv == \A g \in Groups : Whole(sets[g]) /\ Whole(setCache[g])

-----------------------------------------------------------------------------
(* Operators on sets.                                                      *)

(* Defaults and override leave the template alone.                         *)
LEMMA DesiredContainer ==
    ASSUME NEW spec \in BrokerClusterSpec
    PROVE  brokerContainer(Desired(spec)) = brokerContainer(spec)
BY DEF brokerContainer, Desired, AllMasterOverride, EnsureDefaults,
       BrokerClusterSpec

(* An object that asks for what a submitted spec asks for has its template.*)
LEMMA SubmittedContainer ==
    ASSUME NEW object \in BrokerCluster, Submitted(object)
    PROVE  \E spec \in Specs :
              /\ Desired(object.spec).membersPerGroup = Members(spec)
              /\ brokerContainer(object.spec) = brokerContainer(spec)
<1>1. PICK spec \in Specs : Desired(object.spec) = Desired(spec)
  BY NoneAssumption DEF Submitted
<1>2. object.spec \in BrokerClusterSpec /\ spec \in BrokerClusterSpec
  BY ConstantsAssumption DEF BrokerCluster
<1> QED
  BY <1>1, <1>2, DesiredContainer DEF Members

(* The set made for a group is whole.                                      *)
LEMMA NewSetWhole ==
    ASSUME TypeInv, SpecInv, InLoop("sets")
    PROVE  \E spec \in Specs : From(NewStatefulSet(sync.obj), spec)
<1>1. sync.obj \in BrokerCluster
  BY IndexInGroups
<1>2. /\ Submitted(sync.obj)
      /\ sync.obj.spec.membersPerGroup =
            Desired(sync.obj.spec).membersPerGroup
  BY DEF SpecInv, SubmittedOK, DefaultsOK, members, InLoop
<1>3. PICK spec \in Specs :
         /\ Desired(sync.obj.spec).membersPerGroup = Members(spec)
         /\ brokerContainer(sync.obj.spec) = brokerContainer(spec)
  BY <1>1, <1>2, SubmittedContainer
<1>4. From(NewStatefulSet(sync.obj), spec)
  BY <1>2, <1>3 DEF From, NewStatefulSet, brokerContainer
<1> QED
  BY <1>4

(* A patch from a whole set to a whole set with another number of replicas *)
(* turns whatever whole set it meets into the set it was made for, status  *)
(* and owner aside.                                                        *)
LEMMA PatchWhole ==
    ASSUME WholeEdits,
           NEW old, Whole(old), old # None,
           NEW current \in StatefulSet, Whole(current),
           NEW new, NEW spec \in Specs, From(new, spec),
           old.replicas # new.replicas
    PROVE  From(PatchStatefulSet(old, new, current), spec)
<1>1. PICK s \in Specs : From(old, s)
  BY DEF Whole
<1>2. PICK t \in Specs : From(current, t)
  BY NoneAssumption DEF Whole
<1>3. /\ old.image = s.image /\ old.allMaster = s.allMaster
      /\ new.image = spec.image /\ new.allMaster = spec.allMaster
      /\ current.image = t.image /\ current.allMaster = t.allMaster
      /\ Members(s) # Members(spec)
  BY <1>1, <1>2 DEF From, brokerContainer
<1>4. MergedField(old.image, new.image, current.image) = spec.image
  BY <1>3 DEF MergedField, WholeEdits
<1>5. MergedField(old.allMaster, new.allMaster, current.allMaster)
         = spec.allMaster
  BY <1>3 DEF MergedField, WholeEdits
<1>6. MergedField(old.replicas, new.replicas, current.replicas)
         = Members(spec)
  BY DEF MergedField, From
<1>7. PatchStatefulSet(old, new, current) =
         [current EXCEPT !.replicas = Members(spec), !.image = spec.image,
                         !.allMaster = spec.allMaster]
  BY <1>4, <1>5, <1>6 DEF PatchStatefulSet, StatefulSet
<1> QED
  BY <1>7 DEF From, brokerContainer, StatefulSet

-----------------------------------------------------------------------------
(* Every set is whole.                                                     *)

(* A step that leaves the sets and their cache alone.                      *)
LEMMA WholeUntouched ==
    ASSUME WholeInv, UNCHANGED <<sets, setCache>>
    PROVE  WholeInv'
BY DEF WholeInv

(* A step that replaces one set at the API server.                         *)
LEMMA WholeOneSet ==
    ASSUME TypeInv, WholeInv, NEW g \in Groups, NEW ss, Whole(ss),
           sets' = [sets EXCEPT ![g] = ss], UNCHANGED setCache
    PROVE  WholeInv'
BY DEF WholeInv, TypeInv, TypeOK, ApiTypeOK

(* A new status leaves a set whole.                                        *)
LEMMA StatusWhole ==
    ASSUME TypeInv, WholeInv, NEW g \in Groups, sets[g] # None,
           NEW current, NEW ready, SetStatus(g, current, ready)
    PROVE  WholeInv'
<1> DEFINE ss == [sets[g] EXCEPT !.current = current, !.ready = ready]
<1>1. sets[g] \in StatefulSet
  BY DEF TypeInv, TypeOK, ApiTypeOK
<1>2. sets' = [sets EXCEPT ![g] = ss] /\ UNCHANGED setCache
  BY DEF SetStatus, cacheVars, TypeInv, TypeOK, ApiTypeOK
<1>3. /\ ss.replicas = sets[g].replicas /\ ss.image = sets[g].image
      /\ ss.allMaster = sets[g].allMaster
  BY <1>1 DEF StatefulSet
<1>4. PICK spec \in Specs : From(sets[g], spec)
  BY DEF WholeInv, Whole
<1> HIDE DEF ss
<1>5. Whole(ss)
  BY <1>3, <1>4 DEF Whole, From, brokerContainer
<1> QED
  BY <1>2, <1>5, WholeOneSet

(* The second loop of syncHandler writes whole sets.                       *)
LEMMA LoopWhole ==
    ASSUME WholeEdits, TypeInv, SpecInv, WholeInv,
           CreateSet \/ CreateSetFault \/ PatchSet \/ PatchSetFault
    PROVE  WholeInv'
<1>1. InLoop("sets") /\ UNCHANGED setCache
  BY DEF CreateSet, CreateSetFault, PatchSet, PatchSetFault, NeedsPatch,
         cacheVars
<1>2. sync.index \in Groups
  BY <1>1, IndexInGroups
<1>3. sets \in [Groups -> StatefulSet \cup {None}]
  BY DEF TypeInv, TypeOK, ApiTypeOK
<1>4. PICK spec \in Specs : From(NewStatefulSet(sync.obj), spec)
  BY <1>1, NewSetWhole
<1>5. CASE UNCHANGED sets
  BY <1>1, <1>5, WholeUntouched
<1>6. CASE sets' = [sets EXCEPT ![sync.index] = NewStatefulSet(sync.obj)]
  <2>1. Whole(NewStatefulSet(sync.obj))
    BY <1>4 DEF Whole
  <2> QED
    BY <1>1, <1>2, <1>6, <2>1, WholeOneSet
<1>7. CASE NeedsPatch /\ sets' = Patched /\ sets[sync.index] # None
  <2> DEFINE old == setCache[sync.index]
             new == NewStatefulSet(sync.obj)
             current == sets[sync.index]
             ss == PatchStatefulSet(old, new, current)
  <2>1. /\ Whole(old) /\ old # None
        /\ Whole(current) /\ current \in StatefulSet
    BY <1>2, <1>3, <1>7 DEF NeedsPatch, WholeInv
  <2>2. old.replicas # new.replicas
    BY <1>7 DEF NeedsPatch, WrongReplicas, NewStatefulSet, members
  <2>3. sets' = [sets EXCEPT ![sync.index] = ss] \/ UNCHANGED sets
    BY <1>2, <1>3, <1>7 DEF Patched
  <2> HIDE DEF old, new, current
  <2>4. From(new, spec)
    BY <1>4 DEF new
  <2>5. From(ss, spec)
    BY <2>1, <2>2, <2>4, PatchWhole
  <2>6. Whole(ss)
    BY <2>5 DEF Whole
  <2> HIDE DEF ss
  <2> QED
    BY <1>1, <1>2, <1>5, <2>3, <2>6, WholeOneSet
<1>8. CASE NeedsPatch /\ sets' = Patched /\ sets[sync.index] = None
  BY <1>2, <1>3, <1>5, <1>8 DEF Patched
<1> QED
  BY <1>2, <1>3, <1>5, <1>6, <1>7, <1>8
     DEF CreateSet, CreateSetFault, PatchSet, PatchSetFault

(* Every step keeps the sets whole, if nobody takes the name of one.       *)
LEMMA WholeNext ==
    ASSUME WholeEdits, "foreign" \notin Disturbances, TypeInv, SpecInv,
           WholeInv, [Next]_vars
    PROVE  WholeInv'
<1>1. Whole(None)
  BY DEF Whole
<1>2. ASSUME NEW spec \in Specs, EditCluster(spec) \/ CreateCluster(spec)
      PROVE  WholeInv'
  BY <1>2, WholeUntouched DEF EditCluster, CreateCluster, cacheVars
<1>3. CASE DeleteCluster
  BY <1>3, WholeUntouched DEF DeleteCluster, cacheVars
<1>4. ASSUME NEW g \in Groups, LoseService(g) \/ CollectService(g)
      PROVE  WholeInv'
  BY <1>4, WholeUntouched DEF LoseService, CollectService, cacheVars
<1>5. ASSUME NEW g \in Groups, LoseSet(g) \/ CollectSet(g)
      PROVE  WholeInv'
  BY <1>1, <1>5, WholeOneSet DEF LoseSet, CollectSet, cacheVars
<1>6. ASSUME NEW g \in Groups, ForeignSet(g)
      PROVE  FALSE
  BY <1>6 DEF ForeignSet, Spend
<1>7. ASSUME NEW g \in Groups, Pods(g) \/ PodUnready(g)
      PROVE  WholeInv'
  BY <1>7, StatusWhole DEF Pods, PodCreated, PodReady, PodRemoved, PodUnready
<1>8. CASE SetsInformer
  BY <1>8 DEF SetsInformer, ListSets, InformSet, apiVars, WholeInv, TypeInv,
              TypeOK, CacheTypeOK
<1>9. CASE \/ InformCluster \/ RelistCluster \/ ServicesInformer \/ Resync
           \/ QueueDelayOver
  BY <1>9, WholeUntouched
     DEF InformCluster, RelistCluster, ServicesInformer, ListServices,
         InformService, Resync, QueueDelayOver, apiVars, cacheVars
<1>10. CASE CreateSet \/ CreateSetFault \/ PatchSet \/ PatchSetFault
  BY <1>10, LoopWhole
<1>11. CASE \/ GetItem \/ FinishItem \/ SyncClusterGone \/ SyncGetCluster
            \/ ServiceFound \/ CreateService \/ CreateServiceFault
            \/ ServicesDone \/ SetFound \/ updateClusterStatus
            \/ PutAccepted \/ PutRejected \/ PutFault \/ Refetch
  BY <1>11, WholeUntouched
     DEF GetItem, FinishItem, SyncClusterGone, SyncGetCluster, ServiceFound,
         CreateService, CreateServiceFault, ServicesDone, SetFound,
         updateClusterStatus, PutAccepted, PutRejected, PutFault, Refetch,
         apiVars, cacheVars
<1>12. CASE Restart
  BY <1>1, <1>12 DEF Restart, apiVars, WholeInv
<1>13. CASE UNCHANGED vars
  BY <1>13, WholeUntouched DEF vars, apiVars, cacheVars
<1> QED
  BY <1>2, <1>3, <1>4, <1>5, <1>6, <1>7, <1>8, <1>9, <1>10, <1>11, <1>12,
     <1>13 DEF Next, User, Collector, Worker

(* A whole set with the number of replicas that the cluster asks for has   *)
(* the template that it asks for.                                          *)
LEMMA RightReplicas ==
    ASSUME WholeEdits, TypeInv, SpecInv, WholeInv, cluster # None,
           NEW g \in Groups, sets[g] # None,
           sets[g].replicas = Desired(cluster.spec).membersPerGroup
    PROVE  brokerContainer(sets[g]) = brokerContainer(cluster.spec)
<1>1. cluster \in BrokerCluster /\ Submitted(cluster)
  BY DEF TypeInv, TypeOK, ApiTypeOK, SpecInv, SubmittedOK
<1>2. PICK t \in Specs :
         /\ Desired(cluster.spec).membersPerGroup = Members(t)
         /\ brokerContainer(cluster.spec) = brokerContainer(t)
  BY <1>1, SubmittedContainer
<1>3. PICK s \in Specs : From(sets[g], s)
  BY DEF WholeInv, Whole
<1> QED
  BY <1>2, <1>3 DEF From, WholeEdits

(* When no sync has anything left to do, the templates are those of the    *)
(* spec, whatever caches and patches were stale, if every edit of the      *)
(* template is whole.  Where two specs share a field of the template this  *)
(* fails: the run of RestIsConverged with such specs has the violation.    *)
THEOREM WholeEditsConverge ==
    ASSUME WholeEdits, "foreign" \notin Disturbances
    PROVE  Spec => []RestIsConverged
<1>1. Init => WholeInv
  BY DEF Init, WholeInv, Whole
<1>2. TypeInv /\ SpecInv /\ WholeInv /\ [Next]_vars => WholeInv'
  BY WholeNext
<1>3. TypeInv /\ SpecInv /\ WholeInv => RestIsConverged
  BY RightReplicas DEF RestIsConverged, NothingToDo, Wanted
<1> QED
  BY <1>1, <1>2, <1>3, TypeInvariance, SpecsKept, PTL DEF Spec

-----------------------------------------------------------------------------
(* Edits that leave the number of members alone.                           *)

(* A step writes the template of a set that stays.                         *)
TemplatesWritten ==
    \E g \in Groups : /\ sets[g] # None /\ sets'[g] # None
                      /\ brokerContainer(sets'[g]) # brokerContainer(sets[g])

(* Only a patch writes the template of a set that is there.                *)
LEMMA OnlyPatchesWrite ==
    ASSUME TypeInv, TemplatesWritten, [Next]_vars
    PROVE  PatchSet \/ PatchSetFault
<1>1. PICK h \in Groups :
         /\ sets[h] # None /\ sets'[h] # None
         /\ brokerContainer(sets'[h]) # brokerContainer(sets[h])
  BY DEF TemplatesWritten
<1>2. sets \in [Groups -> StatefulSet \cup {None}] /\ sets[h] \in StatefulSet
  BY <1>1 DEF TypeInv, TypeOK, ApiTypeOK
<1>3. sets' # sets
  BY <1>1
<1>4. ASSUME NEW spec \in Specs, EditCluster(spec) \/ CreateCluster(spec)
      PROVE  FALSE
  BY <1>3, <1>4 DEF EditCluster, CreateCluster
<1>5. ~DeleteCluster
  BY <1>3 DEF DeleteCluster
<1>6. ASSUME NEW g \in Groups,
             \/ LoseService(g) \/ CollectService(g)
             \/ LoseSet(g) \/ CollectSet(g) \/ ForeignSet(g)
      PROVE  FALSE
  BY <1>1, <1>2, <1>3, <1>6
     DEF LoseService, CollectService, LoseSet, CollectSet, ForeignSet
<1>7. ASSUME NEW g \in Groups, NEW current, NEW ready,
             SetStatus(g, current, ready)
      PROVE  FALSE
  <2>1. h = g
    BY <1>1, <1>2, <1>7 DEF SetStatus
  <2>2. sets'[h] = [sets[h] EXCEPT !.current = current, !.ready = ready]
    BY <1>2, <1>7, <2>1 DEF SetStatus
  <2> QED
    BY <1>1, <1>2, <2>2 DEF brokerContainer, StatefulSet
<1>8. ASSUME NEW g \in Groups, Pods(g) \/ PodUnready(g)
      PROVE  FALSE
  BY <1>7, <1>8 DEF Pods, PodCreated, PodReady, PodRemoved, PodUnready
<1>9. ~ \/ InformCluster \/ RelistCluster \/ SetsInformer \/ ServicesInformer
        \/ Resync \/ QueueDelayOver \/ Restart
  BY <1>3 DEF InformCluster, RelistCluster, SetsInformer, ListSets, InformSet,
              ServicesInformer, ListServices, InformService, Resync,
              QueueDelayOver, Restart, apiVars
<1>10. ~CreateSet /\ ~CreateSetFault
  <2>1. SUFFICES ASSUME CreateSet \/ CreateSetFault PROVE FALSE
    OBVIOUS
  <2>2. sync.index \in Groups
    BY <2>1, IndexInGroups DEF CreateSet, CreateSetFault
  <2> QED
    BY <1>1, <1>2, <1>3, <2>1, <2>2 DEF CreateSet, CreateSetFault
<1>11. ~ \/ GetItem \/ FinishItem \/ SyncClusterGone \/ SyncGetCluster
         \/ ServiceFound \/ CreateService \/ CreateServiceFault
         \/ ServicesDone \/ SetFound \/ updateClusterStatus
         \/ PutAccepted \/ PutRejected \/ PutFault \/ Refetch
  BY <1>3 DEF GetItem, FinishItem, SyncClusterGone, SyncGetCluster,
              ServiceFound, CreateService, CreateServiceFault, ServicesDone,
              SetFound, updateClusterStatus, PutAccepted, PutRejected, PutFault,
              Refetch, apiVars
<1> QED
  BY <1>3, <1>4, <1>5, <1>6, <1>8, <1>9, <1>10, <1>11
     DEF Next, User, Collector, Worker, vars, apiVars

(* While every spec asks for the same number of brokers in a group, the    *)
(* template of a StatefulSet is never written again: a new image, a new    *)
(* list of name servers or new properties never reach a group that has its *)
(* set, although TemplatesConverge promises it for edits of the number.    *)
THEOREM TemplatesFrozen ==
    ASSUME NEW M \in Int, SameMembers(M)
    PROVE  Spec => [][~TemplatesWritten]_vars
<1>1. TypeInv /\ SpecInv /\ ReadyInv(M) /\ [Next]_vars
         => [~TemplatesWritten]_vars
  <2> SUFFICES ASSUME TypeInv, SpecInv, ReadyInv(M), [Next]_vars,
                      TemplatesWritten
               PROVE  FALSE
    OBVIOUS
  <2>1. PatchSet \/ PatchSetFault
    BY OnlyPatchesWrite
  <2>2. ~NeedsPatch
    BY NoPatch DEF ReadyInv
  <2> QED
    BY <2>1, <2>2 DEF PatchSet, PatchSetFault
<1> QED
  BY <1>1, ReadyInvariance, TypeInvariance, SpecsKept, PTL DEF Spec
=============================================================================
