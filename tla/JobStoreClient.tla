--------------------------- MODULE JobStoreClient ---------------------------
(***************************************************************************)
(* What the program's callers make of a JobStore: get and mutate answer    *)
(* None for an expired job that nobody drives, and drop it.                *)
(***************************************************************************)
EXTENDS JobStore

Live(id) == id \in Stored \ Droppable

Get(id) == jobs' = Without({id} \cap Droppable) /\ UNCHANGED <<issued, now>>

\* mutate; t is the clock that the closure compares with.
Call(id, fn, t) == IF Live(id) THEN Mutate(id, fn, t) ELSE Get(id)

\* The closure of _write_state.
Write(s, a) == [kind |-> "write", state |-> s, analysis_id |-> a]
=============================================================================
