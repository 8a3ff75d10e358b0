-------------------------- MODULE ClusterContract --------------------------
(***************************************************************************)
(* What the operator promises to somebody who sees only the API server:    *)
(* the BrokerCluster, its Services and its StatefulSets.  Users and        *)
(* Kubernetes are free; the operator makes children, patches sets and      *)
(* reports a status, and nothing else.                                     *)
(*                                                                         *)
(* cluster is what the object says: its UID, what it asks for once         *)
(* defaults and override are applied, and its Ready status.  asked has     *)
(* every demand there ever was: what the cluster of a UID asked for at     *)
(* some time.                                                              *)
(***************************************************************************)
EXTENDS BrokerClusters

CONSTANTS Groups, None

VARIABLES cluster, services, sets, asked

vars == <<cluster, services, sets, asked>>

Demand(object) == [uid |-> object.uid, want |-> object.want]

Init ==
    /\ cluster # None
    /\ cluster.ready = "Absent"
    /\ services = [g \in Groups |-> None]
    /\ sets = [g \in Groups |-> None]
    /\ asked = {Demand(cluster)}

-----------------------------------------------------------------------------
(* Users and Kubernetes.                                                   *)

Edit ==
    /\ cluster # None /\ cluster' # None
    /\ cluster'.uid = cluster.uid
    /\ cluster'.ready = cluster.ready
    /\ asked' = asked \cup {Demand(cluster')}
    /\ UNCHANGED <<services, sets>>

Delete ==
    /\ cluster' = None
    /\ UNCHANGED <<services, sets, asked>>

(* A new cluster has a UID that none had before.                           *)
Create ==
    /\ cluster = None /\ cluster' # None
    /\ \A demand \in asked : demand.uid # cluster'.uid
    /\ cluster'.ready = "Absent"
    /\ asked' = asked \cup {Demand(cluster')}
    /\ UNCHANGED <<services, sets>>

LoseService(g) ==
    /\ services' = [services EXCEPT ![g] = None]
    /\ UNCHANGED <<cluster, sets, asked>>

LoseSet(g) ==
    /\ sets' = [sets EXCEPT ![g] = None]
    /\ UNCHANGED <<cluster, services, asked>>

(* Somebody else makes a set, and no BrokerCluster controls it.            *)
ForeignSet(g) ==
    /\ sets[g] = None /\ sets'[g] # None
    /\ sets'[g].owner = Foreign
    /\ sets' = [sets EXCEPT ![g] = sets'[g]]
    /\ UNCHANGED <<cluster, services, asked>>

(* The pods of a set come, go, and become ready or unready.                *)
PodsChange(g) ==
    /\ sets[g] # None
    /\ sets' = [sets EXCEPT ![g] = [@ EXCEPT !.current = sets'[g].current,
                                             !.ready = sets'[g].ready]]
    /\ UNCHANGED <<cluster, services, asked>>

Environment ==
    \/ Edit \/ Delete \/ Create
    \/ \E g \in Groups : \/ LoseService(g) \/ LoseSet(g)
                         \/ ForeignSet(g) \/ PodsChange(g)

-----------------------------------------------------------------------------
(* The operator.  What it does to the children of a group answers a demand *)
(* for that group, of the cluster that is there or of an earlier one.      *)

Demands(g) == {demand \in asked : g < demand.want.groupReplica}

MakeService(g) ==
    /\ services[g] = None
    /\ \E demand \in Demands(g) :
          services' = [services EXCEPT ![g] = demand.uid]
    /\ UNCHANGED <<cluster, sets, asked>>

MakeSet(g) ==
    /\ sets[g] = None
    /\ \E demand \in Demands(g) :
          sets' = [sets EXCEPT ![g] =
                      NewStatefulSet([uid |-> demand.uid, spec |-> demand.want])]
    /\ UNCHANGED <<cluster, services, asked>>

(* A patch sets the replicas, and may leave out fields of the template.    *)
(* The owner and the status stay.                                          *)
PatchSet(g) ==
    /\ sets[g] # None
    /\ \E demand \in Demands(g) :
       \E image \in {sets[g].image, demand.want.image},
          allMaster \in {sets[g].allMaster, demand.want.allMaster} :
             sets' = [sets EXCEPT ![g] =
                         [@ EXCEPT !.replicas = demand.want.membersPerGroup,
                                   !.image = image, !.allMaster = allMaster]]
    /\ UNCHANGED <<cluster, services, asked>>

Report ==
    /\ cluster # None
    /\ \E status \in {"True", "False"} :
          cluster' = [cluster EXCEPT !.ready = status]
    /\ UNCHANGED <<services, sets, asked>>

Operator ==
    \/ Report
    \/ \E g \in Groups : MakeService(g) \/ MakeSet(g) \/ PatchSet(g)

Next == Environment \/ Operator

Spec == Init /\ [][Next]_vars

-----------------------------------------------------------------------------
(* Every child that a BrokerCluster controls is that of a group which its  *)
(* owner asked for at some time.                                           *)
ChildrenAskedFor ==
    \A g \in Groups :
        /\ services[g] # None =>
              \E demand \in Demands(g) : services[g] = demand.uid
        /\ sets[g] # None /\ sets[g].owner # Foreign =>
              \E demand \in Demands(g) : sets[g].owner = demand.uid
=============================================================================
