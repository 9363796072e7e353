---------------------------- MODULE JobLifecycle ----------------------------
(***************************************************************************)
(* What the owner of an execution job may observe of it: it goes through   *)
(* the stages in order and skips none, a terminal state is final, a ready  *)
(* job has its analysis, and the record goes away only while no worker     *)
(* drives the job, never to come back.                                     *)
(***************************************************************************)
CONSTANTS Analysis, NoAnalysis

VARIABLES
    phase,      \* none, the job's state, or gone
    driven,     \* a live worker holds the job
    result      \* the analysis the job leads to

vars == <<phase, driven, result>>

\* The stage that follows each one on the way to ready.
Successor == [queued |-> "validating", validating |-> "running_baseline",
              running_baseline |-> "running_comparison",
              running_comparison |-> "analyzing", analyzing |-> "ready"]

Active == DOMAIN Successor

Init == phase = "none" /\ driven = FALSE /\ result = NoAnalysis

Create == phase = "none" /\ phase' = "queued" /\ UNCHANGED <<driven, result>>

\* Only the worker that drives the job takes it through the stages up to
\* analyzing; the API takes it from there.
Advance ==
    /\ phase \in Active
    /\ phase = "analyzing" \/ (phase # "queued" => driven)
    /\ phase' = Successor[phase]
    /\ IF phase' = "ready" THEN result' \in Analysis ELSE result' = result
    /\ UNCHANGED driven

Stop ==
    /\ phase \in Active
    /\ phase' \in {"failed", "cancelled"}
    /\ UNCHANGED <<driven, result>>

StartDriving == phase # "gone" /\ ~driven /\ driven' = TRUE /\ UNCHANGED <<phase, result>>
StopDriving == driven /\ driven' = FALSE /\ UNCHANGED <<phase, result>>

Vanish ==
    /\ phase \notin {"none", "gone"}
    /\ ~driven
    /\ phase' = "gone"
    /\ result' = NoAnalysis
    /\ UNCHANGED driven

Next == Create \/ Advance \/ Stop \/ StartDriving \/ StopDriving \/ Vanish

Spec == Init /\ [][Next]_vars
=============================================================================
