--------------------------- MODULE BrokerClusters ---------------------------
(***************************************************************************)
(* The data of the operator: the BrokerCluster custom resource and the     *)
(* children made from it, cut down to the fields the controller decides    *)
(* on, and those that reach the brokers.  A Service is its controller's    *)
(* UID; a StatefulSet carries its controller's UID, spec.replicas, the     *)
(* image and ALL_MASTER of its pod template, status.replicas and           *)
(* status.readyReplicas.  image stands for any field of the template that  *)
(* is taken from the spec as it is: image, name servers, properties.       *)
(***************************************************************************)
EXTENDS Integers

CONSTANT Images  \* the values of image

(* The controller UID of an object that no BrokerCluster controls.         *)
Foreign == 0

BrokerClusterSpec ==
    [groupReplica : Int, membersPerGroup : Int, allMaster : BOOLEAN,
     image : Images]

(* Status of the Ready condition; "Absent" when Conditions has no entry.   *)
ReadyStatus == {"Absent", "True", "False"}

BrokerCluster ==
    [uid : Nat \ {Foreign}, rv : Nat, spec : BrokerClusterSpec,
     ready : ReadyStatus]

StatefulSet ==
    [owner : Nat, replicas : Nat, image : Images, allMaster : BOOLEAN,
     current : Nat, ready : Nat]

-----------------------------------------------------------------------------
defaultGroups == 2
defaultMembersPerGroup == 2

(* EnsureDefaults writes into the object it is called on.                  *)
EnsureDefaults(spec) ==
    [spec EXCEPT !.groupReplica = IF @ = 0 THEN defaultGroups ELSE @,
                 !.membersPerGroup = IF @ = 0 THEN defaultMembersPerGroup
                                              ELSE @]

(* The override syncHandler writes into the object between its two loops.  *)
AllMasterOverride(spec) ==
    [spec EXCEPT !.membersPerGroup = IF spec.allMaster THEN 1 ELSE @]

(* A new child is controlled by the cluster it is made from.  Services     *)
(* have no other field that matters here.                                  *)
NewHeadlessService(cluster) == cluster.uid

NewStatefulSet(cluster) ==
    [owner |-> cluster.uid, replicas |-> cluster.spec.membersPerGroup,
     image |-> cluster.spec.image, allMaster |-> cluster.spec.allMaster,
     current |-> 0, ready |-> 0]

(* The environment and the image of the broker's container, as the set's   *)
(* pod template has them and as a spec asks for them.                      *)
brokerContainer(object) == <<object.image, object.allMaster>>

(* A two-way merge patch holds the fields in which new differs from old,   *)
(* and leaves the others as they are in the object it is applied to.       *)
MergedField(old, new, current) == IF old = new THEN current ELSE new

(* Mutant: the patch carries the number of replicas only.                  *)
MergeReplicas(old, new, current) ==
    [current EXCEPT
        !.replicas = MergedField(old.replicas, new.replicas, @)]

(* Mutant: the new set replaces the one that is there.                     *)
ReplaceStatefulSet(old, new, current) == new

PatchStatefulSet(old, new, current) ==
    [current EXCEPT
        !.replicas = MergedField(old.replicas, new.replicas, @),
        !.image = MergedField(old.image, new.image, @),
        !.allMaster = MergedField(old.allMaster, new.allMaster, @)]

(* metav1.IsControlledBy compares the UID of the controller reference.     *)
IsControlledBy(owner, cluster) == owner = cluster.uid

(* The test of syncHandler and of the StatefulSet handler.  It is true of  *)
(* a StatefulSet without pods.                                             *)
GroupReady(ss) == ss.ready = ss.current

-----------------------------------------------------------------------------
(* What a spec asks for, once defaults and override are applied.           *)
Desired(spec) == AllMasterOverride(EnsureDefaults(spec))
=============================================================================
