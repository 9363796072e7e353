-------------------------- MODULE InMemoryJobStore --------------------------
(***************************************************************************)
(* InMemoryExecutionJobStore (repositories/execution_job_store.py): every  *)
(* call holds one lock, so it is one action here, and every call but       *)
(* delete first sweeps out all expired jobs.                               *)
(*                                                                         *)
(* create_job's two unlocked checks come before create_if_allowed and are  *)
(* calls of their own; the job record it inserts was built at an earlier   *)
(* time t.                                                                 *)
(***************************************************************************)
EXTENDS JobStore

CONSTANTS
    Fns,            \* the closures the callers pass to mutate
    MaxClock        \* bound of the clock

ASSUME InMemoryAssumption ==
    /\ Fns \subseteq Mutation
    /\ MaxClock \in Nat

Vars == storeVars

LockedInit == StoreInit

\* Fault: the sweep looks at the age only.
Expired_Driven(job) == job.created_at + Ttl < now

Expired(job) == Evictable(job, now)

\* _cleanup.
Swept == [id \in JobId |-> IF jobs[id] # NoJob /\ Expired(jobs[id]) THEN NoJob ELSE jobs[id]]

Left == {id \in JobId : Swept[id] # NoJob}

\* _count_active_locked and _find_by_idempotency_key_locked, after the sweep.
Active(o) == {id \in Left : Swept[id].owner = o /\ Counts(Swept[id])}

Repeats(o, k) ==
    {id \in Left : /\ Swept[id].owner = o
                   /\ Swept[id].key = k
                   /\ Swept[id].created_at >= now - Window}

BelowCap(o) == Cardinality(Active(o)) < MaxActive

CreateIfAllowed(id, o, k, t) ==
    /\ id \notin issued
    /\ t <= now
    /\ IF (k # NoKey /\ Repeats(o, k) # {}) \/ ~BelowCap(o)
       THEN jobs' = Swept /\ UNCHANGED issued
       ELSE jobs' = [Swept EXCEPT ![id] = NewJob(o, k, t)] /\ issued' = issued \cup {id}
    /\ UNCHANGED now

\* find_by_idempotency_key, count_active, get of any job.
Lookup ==
    /\ jobs' = Swept
    /\ UNCHANGED <<issued, now>>

MutateJob(id, fn, t) ==
    /\ t <= now
    /\ jobs' = IF id \in Left THEN [Swept EXCEPT ![id] = Apply(fn, Swept[id], t)] ELSE Swept
    /\ UNCHANGED <<issued, now>>

\* delete does not sweep.
DeleteJob(id) ==
    /\ id \in Stored
    /\ jobs' = [jobs EXCEPT ![id] = NoJob]
    /\ UNCHANGED <<issued, now>>

ClockTicks == now < MaxClock /\ Tick

LockedNext ==
    \/ \E id \in JobId, o \in Owner, k \in Key \cup {NoKey}, t \in 0..now :
        CreateIfAllowed(id, o, k, t)
    \/ \E id \in JobId, fn \in Fns, t \in 0..now : MutateJob(id, fn, t)
    \/ \E id \in JobId : DeleteJob(id)
    \/ Lookup
    \/ ClockTicks

LockedSpec == LockedInit /\ [][LockedNext]_Vars

-----------------------------------------------------------------------------
(* Property *)

\* The locked store is a JobStore: its sweeps drop only expired, undriven jobs,
\* and a job that was cancelled while a worker drives it still counts when its
\* owner resubmits at once.
ImplementsJobStore == StoreSpec
=============================================================================
