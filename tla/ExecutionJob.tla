---------------------------- MODULE ExecutionJob ----------------------------
(***************************************************************************)
(* The execution-job record of domain/execution_job.py and every closure   *)
(* the services hand to ExecutionJobStore.mutate.  This module has no      *)
(* state: the stores, the worker, the launchers and the finalizer share    *)
(* these operators.                                                        *)
(*                                                                         *)
(* Error codes, warnings, the collection's name and the stage history are  *)
(* display data and are left out.  expires_at is created_at + Ttl.         *)
(***************************************************************************)
EXTENDS Integers

CONSTANTS
    Owner,          \* owner keys (a signed-in user or a visitor)
    Key,            \* idempotency keys clients send
    NoKey,          \* no Idempotency-Key header
    Analysis,       \* ids of analyses the API can build
    NoAnalysis,     \* analysis_id is None
    Ttl,            \* settings.job_ttl_seconds, in clock ticks
    StaleClaim      \* _STALE_CLAIM_SECONDS of the finalizer, in clock ticks

ASSUME ExecutionJobAssumption ==
    /\ NoKey \notin Key
    /\ NoAnalysis \notin Analysis
    /\ Ttl \in Nat
    /\ StaleClaim \in Nat

\* finalizing_since is None.
Never == -1

\* The states the program produces: uploaded, awaiting_variables and expired
\* are reserved in the enumeration and nothing writes them.
State == {"queued", "validating", "running_baseline", "running_comparison",
          "analyzing", "ready", "failed", "cancelled"}

Terminal == {"ready", "failed", "cancelled"}

Job == [owner : Owner, key : Key \cup {NoKey}, created_at : Nat,
        state : State, cancel_requested : BOOLEAN, worker_active : BOOLEAN,
        reports_ready : BOOLEAN, finalizing_since : Nat \cup {Never},
        analysis_id : Analysis \cup {NoAnalysis}]

NewJob(o, k, t) ==
    [owner |-> o, key |-> k, created_at |-> t,
     state |-> "queued", cancel_requested |-> FALSE, worker_active |-> FALSE,
     reports_ready |-> FALSE, finalizing_since |-> Never,
     analysis_id |-> NoAnalysis]

IsActive(job) == job.state \notin Terminal

\* A job counts against its owner's cap while it is active, and while a worker
\* still drives it even if it is terminal already.
Counts(job) == IsActive(job) \/ job.worker_active

\* Past its expiry and driven by no worker: any store call may drop it.
Evictable(job, t) == job.created_at + Ttl < t /\ ~job.worker_active

-----------------------------------------------------------------------------
(* The closures given to mutate. *)

\* Fault: a terminal state is overwritten.
Wrote_Terminal(job) == ~job.cancel_requested

\* _write_state: nothing once the job is terminal, CANCELLED instead of the
\* wanted state when cancellation was requested.
Wrote(job) == IsActive(job) /\ ~job.cancel_requested

WriteState(job, s, a) ==
    IF Wrote(job)
    THEN [job EXCEPT !.state = s,
                     !.analysis_id = IF a = NoAnalysis THEN @ ELSE a]
    ELSE IF IsActive(job) THEN [job EXCEPT !.state = "cancelled"]
    ELSE job

\* run_job's _claim.
Claimable(job) == job.state = "queued" /\ ~job.worker_active

Claim(job) == IF Claimable(job) THEN [job EXCEPT !.worker_active = TRUE] ELSE job

Release(job) == [job EXCEPT !.worker_active = FALSE]

\* The DELETE endpoint's _cancel_if_active.
CancelIfActive(job) ==
    IF IsActive(job)
    THEN [job EXCEPT !.cancel_requested = TRUE, !.state = "cancelled"]
    ELSE job

MarkReportsReady(job) == [job EXCEPT !.reports_ready = TRUE]

NeedsFinalizing(job) ==
    job.state = "analyzing" /\ job.reports_ready /\ job.analysis_id = NoAnalysis

\* Fault: a claim is never taken over.
FinalizeClaimable_Once(job, t) == NeedsFinalizing(job) /\ job.finalizing_since = Never

\* finalize_job's _claim; t is the clock the request read before calling mutate.
FinalizeClaimable(job, t) ==
    /\ NeedsFinalizing(job)
    /\ job.finalizing_since = Never \/ t - job.finalizing_since > StaleClaim

ClaimFinalizing(job, t) ==
    IF FinalizeClaimable(job, t) THEN [job EXCEPT !.finalizing_since = t] ELSE job

-----------------------------------------------------------------------------
(* One value per closure, so that a store can be asked to apply any of them. *)

\* The states _write_state is called with.
Written == State \ {"queued", "cancelled"}

Mutation ==
    [kind : {"claim", "release", "cancel", "reports", "finalize"}]
        \cup [kind : {"write"}, state : Written, analysis_id : Analysis \cup {NoAnalysis}]

Apply(fn, job, t) ==
    CASE fn.kind = "claim"    -> Claim(job)
      [] fn.kind = "release"  -> Release(job)
      [] fn.kind = "cancel"   -> CancelIfActive(job)
      [] fn.kind = "reports"  -> MarkReportsReady(job)
      [] fn.kind = "finalize" -> ClaimFinalizing(job, t)
      [] fn.kind = "write"    -> WriteState(job, fn.state, fn.analysis_id)
=============================================================================
