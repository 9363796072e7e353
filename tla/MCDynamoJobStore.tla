-------------------------- MODULE MCDynamoJobStore --------------------------
(* A small instance of DynamoJobStore for TLC. *)
EXTENDS DynamoJobStore, TLC

CONSTANTS o1, k1, j1, j2, c1, c2, a1

\* A worker claims and releases a job, its owner cancels it.
MCFns == {[kind |-> "claim"], [kind |-> "release"], [kind |-> "cancel"]}

\* The owner cancels it.
MCCancel == {[kind |-> "cancel"]}

Symmetry == Permutations({c1, c2}) \cup Permutations({j1, j2})
=============================================================================
