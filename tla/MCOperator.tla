----------------------------- MODULE MCOperator -----------------------------
(* Resync periods for the model-checking instance of Operator: one that is *)
(* negative, none, and a positive one that is not the default.             *)
EXTENDS Operator

SomePeriods == {-1, 0, 2}
=============================================================================
