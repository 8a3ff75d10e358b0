--------------------------- MODULE BrokerContract ---------------------------
(***************************************************************************)
(* The mapping under which BrokerController implements ClusterContract:    *)
(* the children and the demands are the same, and of the BrokerCluster     *)
(* the contract has what a client reads out of it.                         *)
(***************************************************************************)
EXTENDS BrokerController

(* What a client reads out of the BrokerCluster.                           *)
View(object) ==
    IF object = None THEN None
    ELSE [uid |-> object.uid, want |-> Desired(object.spec),
          ready |-> object.ready]

Views == [uid : Nat \ {Foreign}, want : BrokerClusterSpec, ready : ReadyStatus]

ASSUME ViewAssumption == None \notin Views

Contract == INSTANCE ClusterContract WITH cluster <- View(cluster)

(* To a client of the API server the operator is what ClusterContract      *)
(* says, whatever its caches, retries and restarts: a status update writes *)
(* nothing but the status of the cluster that is there, a patch leaves     *)
(* owner and status of the set alone, and a child is made only where there *)
(* is none and as the cluster that will own it asked for it, in one and    *)
(* the same version of its spec (syncHandler, UpdateClusterStatus).  The   *)
(* operator's own writes, those that its worker goes on from, are among    *)
(* what the contract has for the operator: it deletes no object and edits  *)
(* no spec.                                                                *)
KeepsContract ==
    /\ Contract!Spec
    /\ [][sync' # sync => [Contract!Operator]_Contract!vars]_vars
=============================================================================
