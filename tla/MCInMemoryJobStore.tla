------------------------- MODULE MCInMemoryJobStore -------------------------
(* A small instance of InMemoryJobStore for TLC. *)
EXTENDS InMemoryJobStore, TLC

CONSTANTS o1, k1, j1, j2, j3, a1

\* A worker's claim and release, a cancellation, a stage and a final state.
MCFns ==
    {[kind |-> "claim"], [kind |-> "release"], [kind |-> "cancel"]}
        \cup {[kind |-> "write", state |-> s, analysis_id |-> NoAnalysis] : s \in {"validating", "failed"}}

Symmetry == Permutations({j1, j2, j3})
=============================================================================
