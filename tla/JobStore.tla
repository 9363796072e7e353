------------------------------ MODULE JobStore ------------------------------
(***************************************************************************)
(* What an ExecutionJobStore promises its callers (the abstract methods of *)
(* repositories/execution_job_store.py): every call takes effect at one    *)
(* instant, an insertion respects the owner's cap and the idempotency      *)
(* window, a mutation is applied to the job as it is stored at that        *)
(* instant, an expired job that nobody drives may be dropped by any call,  *)
(* and a removed job never comes back.                                     *)
(***************************************************************************)
EXTENDS ExecutionJob, FiniteSets

CONSTANTS
    JobId,
    NoJob,          \* the store has no such job
    MaxActive,      \* settings.max_concurrent_jobs_per_owner
    Window          \* settings.idempotency_window_seconds, in clock ticks

ASSUME JobStoreAssumption ==
    /\ NoJob \notin Job
    /\ MaxActive \in Nat
    /\ Window \in Nat

VARIABLES
    jobs,           \* what the store holds under each id
    issued,         \* ids given to a job so far: new_analysis_id never repeats one
    now             \* time.time()

storeVars == <<jobs, issued, now>>

Stored == {id \in JobId : jobs[id] # NoJob}

Counting(o) == {id \in Stored : jobs[id].owner = o /\ Counts(jobs[id])}

\* Ids whose job any call may drop.
Droppable == {id \in Stored : Evictable(jobs[id], now)}

\* The jobs left once the ids in S are dropped.
Without(S) == [id \in JobId |-> IF id \in S THEN NoJob ELSE jobs[id]]

\* Live jobs a repeated submission must return instead of creating another.
Matches(o, k) ==
    {id \in Stored : /\ jobs[id].owner = o
                     /\ jobs[id].key = k
                     /\ jobs[id].created_at >= now - Window
                     /\ ~Evictable(jobs[id], now)}

StoreTypeOK ==
    /\ jobs \in [JobId -> Job \cup {NoJob}]
    /\ issued \in SUBSET JobId
    /\ now \in Nat

StoreInit ==
    /\ jobs = [id \in JobId |-> NoJob]
    /\ issued = {}
    /\ now = 0

\* create_if_allowed that inserts.  t is when the job record was built, which
\* may be earlier than the insertion.
Insert(id, o, k, t) ==
    /\ id \notin issued
    /\ \E S \in SUBSET Droppable :
        /\ Cardinality(Counting(o) \ S) < MaxActive
        /\ jobs' = [Without(S) EXCEPT ![id] = NewJob(o, k, t)]
    /\ k # NoKey => Matches(o, k) = {}
    /\ issued' = issued \cup {id}
    /\ UNCHANGED now

\* mutate on a job that exists and has not expired.  t is the clock the caller
\* read before the call.
Mutate(id, fn, t) ==
    /\ id \in Stored
    /\ \E S \in SUBSET (Droppable \ {id}) :
        jobs' = [Without(S) EXCEPT ![id] = Apply(fn, jobs[id], t)]
    /\ UNCHANGED <<issued, now>>

\* Any call may drop expired jobs, whatever it answers.
Drop ==
    /\ \E S \in SUBSET Droppable : S # {} /\ jobs' = Without(S)
    /\ UNCHANGED <<issued, now>>

Delete(id) ==
    /\ id \in Stored
    /\ \E S \in SUBSET Droppable : jobs' = Without(S \cup {id})
    /\ UNCHANGED <<issued, now>>

Tick ==
    /\ now' = now + 1
    /\ UNCHANGED <<jobs, issued>>

StoreNext ==
    \/ \E id \in JobId, o \in Owner, k \in Key \cup {NoKey}, t \in 0..now : Insert(id, o, k, t)
    \/ \E id \in JobId, fn \in Mutation, t \in 0..now : Mutate(id, fn, t)
    \/ \E id \in JobId : Delete(id)
    \/ Drop
    \/ Tick

StoreSpec == StoreInit /\ [][StoreNext]_storeVars
=============================================================================
