--------------------------- MODULE MCAwsExecution ---------------------------
(* Small instances of AwsExecution for TLC. *)
EXTENDS AwsExecution, TLC

CONSTANTS o1, j1, w1, w2, p1, p2

Symmetry == Permutations({w1, w2}) \cup Permutations({p1, p2})
=============================================================================
