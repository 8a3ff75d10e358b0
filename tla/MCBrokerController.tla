------------------------- MODULE MCBrokerController -------------------------
(* Specs for the model-checking instances of BrokerController.             *)
EXTENDS BrokerContract

SpecOf(groups, mems, master) ==
    [groupReplica |-> groups, membersPerGroup |-> mems, allMaster |-> master,
     image |-> "v1"]

Upgraded(spec) == [spec EXCEPT !.image = "v2"]

(* One group of one broker, by the all-master override; and a number of    *)
(* members and one of groups that nothing validates.                       *)
OneGroup == {SpecOf(1, 2, TRUE), SpecOf(1, -1, FALSE), SpecOf(-1, 1, FALSE)}

(* The image goes from v1 to v2 and back, each time with another number    *)
(* of brokers.                                                             *)
UpgradedAndBack ==
    {SpecOf(1, 1, FALSE), Upgraded(SpecOf(1, 2, FALSE)), SpecOf(1, 3, FALSE)}

(* Scaling in both directions at once: from one group of two brokers to    *)
(* two groups of one, and back, with a new image.                          *)
Rescaled == {SpecOf(1, 2, FALSE), Upgraded(SpecOf(2, 1, FALSE))}

OneByTwo == {SpecOf(1, 2, FALSE)}

OneByOne == {SpecOf(1, 1, FALSE)}

(* Two groups by default.                                                  *)
TwoByOne == {SpecOf(0, 1, FALSE)}
=============================================================================
