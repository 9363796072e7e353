--------------------------- MODULE JobStoreProofs ---------------------------
(***************************************************************************)
(* What every implementation of JobStore inherits from the contract: the   *)
(* cap holds, a removed job never comes back, a submission repeated within *)
(* the window starts no second execution, and a job that is over keeps its *)
(* outcome; and what a call does to the job it names and to the others,    *)
(* for the modules that use the store.                                     *)
(***************************************************************************)
EXTENDS JobStoreClient, FiniteSetTheorems, TLAPS

-----------------------------------------------------------------------------
(* The closures. *)

\* Every closure returns a job, of the same owner, key and creation time, and
\* none makes a job count that did not count.
LEMMA ApplyFacts ==
    ASSUME NEW f \in Mutation, NEW job \in Job, NEW t \in Nat
    PROVE  /\ Apply(f, job, t) \in Job
           /\ Apply(f, job, t).owner = job.owner
           /\ Apply(f, job, t).key = job.key
           /\ Apply(f, job, t).created_at = job.created_at
           /\ Counts(Apply(f, job, t)) => Counts(job)
<1> USE ExecutionJobAssumption
<1>1. CASE f.kind = "claim"
    <2>1. Apply(f, job, t) = Claim(job)
        BY <1>1 DEF Apply
    <2>2. CASE Claimable(job)
        <3>1. Apply(f, job, t) = [job EXCEPT !.worker_active = TRUE]
            BY <2>1, <2>2 DEF Claim
        <3>2. Counts(job)
            BY <2>2 DEF Claimable, Counts, IsActive, Terminal
        <3> QED
            BY <3>1, <3>2 DEF Job
    <2>3. CASE ~Claimable(job)
        BY <2>1, <2>3 DEF Claim
    <2> QED
        BY <2>2, <2>3
<1>2. CASE f.kind = "release"
    <2>1. Apply(f, job, t) = Release(job)
        BY <1>2 DEF Apply
    <2> QED
        BY <2>1 DEF Release, Job, Counts, IsActive
<1>3. CASE f.kind = "cancel"
    <2>1. Apply(f, job, t) = CancelIfActive(job)
        BY <1>3 DEF Apply
    <2>2. CASE IsActive(job)
        <3>1. Apply(f, job, t) = [job EXCEPT !.cancel_requested = TRUE, !.state = "cancelled"]
            BY <2>1, <2>2 DEF CancelIfActive
        <3> QED
            BY <2>2, <3>1 DEF Job, Counts, State
    <2>3. CASE ~IsActive(job)
        BY <2>1, <2>3 DEF CancelIfActive
    <2> QED
        BY <2>2, <2>3
<1>4. CASE f.kind = "reports"
    <2>1. Apply(f, job, t) = MarkReportsReady(job)
        BY <1>4 DEF Apply
    <2> QED
        BY <2>1 DEF MarkReportsReady, Job, Counts, IsActive
<1>5. CASE f.kind = "finalize"
    <2>1. Apply(f, job, t) = ClaimFinalizing(job, t)
        BY <1>5 DEF Apply
    <2> QED
        BY <2>1 DEF ClaimFinalizing, Job, Counts, IsActive
<1>6. CASE f.kind = "write"
    <2>1. Apply(f, job, t) = WriteState(job, f.state, f.analysis_id)
        BY <1>6 DEF Apply
    <2>2. f.state \in State /\ f.analysis_id \in Analysis \cup {NoAnalysis}
        BY <1>6 DEF Mutation, Written
    <2>3. CASE Wrote(job)
        <3>1. PICK a \in Analysis \cup {NoAnalysis} :
                Apply(f, job, t) = [job EXCEPT !.state = f.state, !.analysis_id = a]
            BY <2>1, <2>2, <2>3 DEF WriteState, Job
        <3>2. Counts(job)
            BY <2>3 DEF Wrote, Counts
        <3> QED
            BY <2>2, <3>1, <3>2 DEF Job
    <2>4. CASE ~Wrote(job) /\ IsActive(job)
        <3>1. Apply(f, job, t) = [job EXCEPT !.state = "cancelled"]
            BY <2>1, <2>4 DEF WriteState
        <3> QED
            BY <2>4, <3>1 DEF Job, State, Counts
    <2>5. CASE ~Wrote(job) /\ ~IsActive(job)
        BY <2>1, <2>5 DEF WriteState
    <2> QED
        BY <2>3, <2>4, <2>5
<1>7. f.kind \in {"claim", "release", "cancel", "reports", "finalize", "write"}
    BY DEF Mutation
<1> QED
    BY <1>1, <1>2, <1>3, <1>4, <1>5, <1>6, <1>7

LEMMA NewJobFacts ==
    ASSUME NEW o \in Owner, NEW k \in Key \cup {NoKey}, NEW t \in Nat
    PROVE  /\ NewJob(o, k, t) \in Job
           /\ Counts(NewJob(o, k, t))
           /\ NewJob(o, k, t).owner = o
           /\ NewJob(o, k, t).key = k
           /\ NewJob(o, k, t).created_at = t
BY DEF NewJob, Job, State, Counts, IsActive, Terminal, Never

-----------------------------------------------------------------------------
(* The contract. *)

\* No owner has more jobs that count than max_concurrent_jobs_per_owner.
CapKept == \A o \in Owner : Cardinality(Counting(o)) <= MaxActive

\* Jobs are stored only under ids that were issued, of which there are finitely
\* many, so that counting them makes sense.
StoreInv ==
    /\ StoreTypeOK
    /\ IsFiniteSet(issued)
    /\ Stored \subseteq issued
    /\ CapKept

LEMMA InitStoreInv == StoreInit => StoreInv
<1> SUFFICES ASSUME StoreInit PROVE StoreInv
    OBVIOUS
<1>1. Stored = {}
    BY DEF StoreInit, Stored
<1>2. StoreTypeOK
    BY DEF StoreInit, StoreTypeOK
<1>3. IsFiniteSet(issued)
    BY FS_EmptySet DEF StoreInit
<1>4. ASSUME NEW o \in Owner PROVE Cardinality(Counting(o)) <= MaxActive
    <2>1. Counting(o) = {}
        BY <1>1 DEF Counting
    <2> QED
        BY <2>1, FS_EmptySet, JobStoreAssumption
<1> QED
    BY <1>1, <1>2, <1>3, <1>4 DEF StoreInv, CapKept

\* A step that issues no id and after which no job counts that did not count
\* before keeps the invariant.
LEMMA NothingNewCounts ==
    ASSUME StoreInv, StoreTypeOK', issued' = issued, Stored' \subseteq Stored,
           \A o \in Owner : Counting(o)' \subseteq Counting(o)
    PROVE  StoreInv'
<1>1. ASSUME NEW o \in Owner PROVE Cardinality(Counting(o)') <= MaxActive
    <2>1. IsFiniteSet(Counting(o))
        BY FS_Subset DEF StoreInv, Counting
    <2>2. /\ IsFiniteSet(Counting(o)')
          /\ Cardinality(Counting(o)') <= Cardinality(Counting(o))
        BY <1>1, <2>1, FS_Subset
    <2>3. Cardinality(Counting(o)) \in Nat /\ Cardinality(Counting(o)') \in Nat
        BY <2>1, <2>2, FS_CardinalityType
    <2>4. Cardinality(Counting(o)) <= MaxActive
        BY <1>1 DEF StoreInv, CapKept
    <2> QED
        BY <2>2, <2>3, <2>4, JobStoreAssumption
<1> QED
    BY <1>1 DEF StoreInv, CapKept

LEMMA InsertKeeps ==
    ASSUME StoreInv, NEW id \in JobId, NEW o \in Owner, NEW k \in Key \cup {NoKey},
           NEW t \in 0..now, Insert(id, o, k, t)
    PROVE  StoreInv'
<1> DEFINE new == NewJob(o, k, t)
<1>0. now \in Nat /\ t \in Nat /\ issued \subseteq JobId
    BY DEF StoreInv, StoreTypeOK
<1>1. /\ new \in Job /\ Counts(new) /\ new.owner = o /\ new # NoJob
    BY <1>0, NewJobFacts, JobStoreAssumption
<1>2. PICK S \in SUBSET Droppable :
        /\ Cardinality(Counting(o) \ S) < MaxActive
        /\ jobs' = [Without(S) EXCEPT ![id] = new]
    BY DEF Insert
<1>3. issued' = issued \cup {id} /\ now' = now /\ id \notin issued
    BY DEF Insert
<1>4. /\ jobs' \in [JobId -> Job \cup {NoJob}]
      /\ jobs'[id] = new
      /\ \A i \in JobId \ {id} : jobs'[i] = IF i \in S THEN NoJob ELSE jobs[i]
    BY <1>1, <1>2 DEF Without, StoreInv, StoreTypeOK
<1>5. StoreTypeOK'
    BY <1>0, <1>3, <1>4 DEF StoreTypeOK
<1>6. IsFiniteSet(issued')
    BY <1>3, FS_AddElement DEF StoreInv
<1>7. Stored' \subseteq issued'
    BY <1>3, <1>4 DEF Stored, StoreInv
<1>8. ASSUME NEW p \in Owner PROVE Cardinality(Counting(p)') <= MaxActive
    <2>1. IsFiniteSet(Counting(p)) /\ id \notin Counting(p)
        BY <1>3, FS_Subset DEF StoreInv, Counting
    <2>2. IsFiniteSet(Counting(p) \ S) /\ Cardinality(Counting(p) \ S) \in Nat
        BY <2>1, FS_Subset, FS_CardinalityType
    <2>3. CASE p = o
        <3>1. Counting(p)' \subseteq (Counting(p) \ S) \cup {id}
            BY <1>4 DEF Counting, Stored
        <3>2. /\ IsFiniteSet((Counting(p) \ S) \cup {id})
              /\ Cardinality((Counting(p) \ S) \cup {id}) = Cardinality(Counting(p) \ S) + 1
            BY <2>1, <2>2, FS_AddElement
        <3>3. /\ Cardinality(Counting(p)') <= Cardinality((Counting(p) \ S) \cup {id})
              /\ Cardinality(Counting(p)') \in Nat
            BY <3>1, <3>2, FS_Subset, FS_CardinalityType
        <3>4. Cardinality(Counting(p) \ S) < MaxActive
            BY <1>2, <2>3
        <3> QED
            BY <2>2, <3>2, <3>3, <3>4, JobStoreAssumption
    <2>4. CASE p # o
        <3>1. Counting(p)' \subseteq Counting(p)
            BY <1>1, <1>4, <2>4 DEF Counting, Stored
        <3>2. /\ Cardinality(Counting(p)') <= Cardinality(Counting(p))
              /\ Cardinality(Counting(p)') \in Nat /\ Cardinality(Counting(p)) \in Nat
            BY <2>1, <3>1, FS_Subset, FS_CardinalityType
        <3>3. Cardinality(Counting(p)) <= MaxActive
            BY <1>8 DEF StoreInv, CapKept
        <3> QED
            BY <3>2, <3>3, JobStoreAssumption
    <2> QED
        BY <2>3, <2>4
<1> QED
    BY <1>5, <1>6, <1>7, <1>8 DEF StoreInv, CapKept

LEMMA MutateKeeps ==
    ASSUME StoreInv, NEW id \in JobId, NEW fn \in Mutation, NEW t \in 0..now,
           Mutate(id, fn, t)
    PROVE  StoreInv'
<1> DEFINE new == Apply(fn, jobs[id], t)
<1>0. now \in Nat /\ t \in Nat /\ jobs[id] \in Job
    BY DEF StoreInv, StoreTypeOK, Mutate, Stored
<1>1. /\ new \in Job /\ new # NoJob /\ new.owner = jobs[id].owner
      /\ Counts(new) => Counts(jobs[id])
    BY <1>0, ApplyFacts, JobStoreAssumption
<1>2. PICK S \in SUBSET (Droppable \ {id}) : jobs' = [Without(S) EXCEPT ![id] = new]
    BY DEF Mutate
<1>3. issued' = issued /\ now' = now /\ id \in Stored
    BY DEF Mutate
<1>4. /\ jobs' \in [JobId -> Job \cup {NoJob}]
      /\ jobs'[id] = new
      /\ \A i \in JobId \ {id} : jobs'[i] = IF i \in S THEN NoJob ELSE jobs[i]
    BY <1>1, <1>2 DEF Without, StoreInv, StoreTypeOK
<1>5. StoreTypeOK'
    BY <1>3, <1>4 DEF StoreInv, StoreTypeOK
<1>6. Stored' \subseteq Stored
    BY <1>3, <1>4 DEF Stored
<1>7. ASSUME NEW o \in Owner PROVE Counting(o)' \subseteq Counting(o)
    BY <1>1, <1>3, <1>4 DEF Counting, Stored
<1> QED
    BY <1>3, <1>5, <1>6, <1>7, NothingNewCounts

LEMMA RemovalKeeps ==
    ASSUME StoreInv, NEW S, jobs' = Without(S), UNCHANGED <<issued, now>>
    PROVE  StoreInv'
<1>1. \A i \in JobId : jobs'[i] = IF i \in S THEN NoJob ELSE jobs[i]
    BY DEF Without
<1>2. StoreTypeOK'
    BY DEF StoreInv, StoreTypeOK, Without
<1>3. Stored' \subseteq Stored
    BY <1>1 DEF Stored
<1>4. ASSUME NEW o \in Owner PROVE Counting(o)' \subseteq Counting(o)
    BY <1>1 DEF Counting, Stored
<1> QED
    BY <1>2, <1>3, <1>4, NothingNewCounts

LEMMA StepStoreInv == StoreInv /\ [StoreNext]_storeVars => StoreInv'
<1> SUFFICES ASSUME StoreInv, [StoreNext]_storeVars PROVE StoreInv'
    OBVIOUS
<1>1. ASSUME NEW id \in JobId, NEW o \in Owner, NEW k \in Key \cup {NoKey},
             NEW t \in 0..now, Insert(id, o, k, t)
      PROVE  StoreInv'
    BY <1>1, InsertKeeps
<1>2. ASSUME NEW id \in JobId, NEW fn \in Mutation, NEW t \in 0..now, Mutate(id, fn, t)
      PROVE  StoreInv'
    BY <1>2, MutateKeeps
<1>3. ASSUME NEW id \in JobId, Delete(id) PROVE StoreInv'
    BY <1>3, RemovalKeeps DEF Delete
<1>4. CASE Drop
    BY <1>4, RemovalKeeps DEF Drop
<1>5. CASE Tick
    <2>1. StoreTypeOK'
        BY <1>5 DEF Tick, StoreInv, StoreTypeOK
    <2>2. Stored' = Stored /\ \A o \in Owner : Counting(o)' = Counting(o)
        BY <1>5 DEF Tick, Stored, Counting
    <2> QED
        BY <1>5, <2>1, <2>2, NothingNewCounts DEF Tick
<1>6. CASE UNCHANGED storeVars
    <2>1. StoreTypeOK'
        BY <1>6 DEF storeVars, StoreInv, StoreTypeOK
    <2>2. Stored' = Stored /\ \A o \in Owner : Counting(o)' = Counting(o)
        BY <1>6 DEF storeVars, Stored, Counting
    <2> QED
        BY <1>6, <2>1, <2>2, NothingNewCounts DEF storeVars
<1> QED
    BY <1>1, <1>2, <1>3, <1>4, <1>5, <1>6 DEF StoreNext

THEOREM StoreInvariance == StoreSpec => []StoreInv
<1> QED
    BY InitStoreInv, StepStoreInv, PTL DEF StoreSpec

\* Whatever implements the contract keeps every owner within the cap, for any
\* sequence of calls: an insertion is the only step after which more jobs count.
THEOREM ContractKeepsCap == StoreSpec => []CapKept
<1>1. StoreInv => CapKept
    BY DEF StoreInv
<1> QED
    BY <1>1, StoreInvariance, PTL

-----------------------------------------------------------------------------
(* Removed jobs. *)

\* A worker's late write brings no deleted or expired job back.
StayRemoved == \A id \in issued : jobs[id] = NoJob => jobs'[id] = NoJob

LEMMA StepStaysRemoved == StoreInv /\ [StoreNext]_storeVars => StayRemoved
<1> SUFFICES ASSUME StoreInv, [StoreNext]_storeVars,
                    NEW i \in issued, jobs[i] = NoJob
             PROVE  jobs'[i] = NoJob
    BY DEF StayRemoved
<1>0. i \in JobId /\ jobs \in [JobId -> Job \cup {NoJob}]
    BY DEF StoreInv, StoreTypeOK
<1>1. ASSUME NEW id \in JobId, NEW o \in Owner, NEW k \in Key \cup {NoKey},
             NEW t \in 0..now, Insert(id, o, k, t)
      PROVE  jobs'[i] = NoJob
    BY <1>0, <1>1 DEF Insert, Without
<1>2. ASSUME NEW id \in JobId, NEW fn \in Mutation, NEW t \in 0..now, Mutate(id, fn, t)
      PROVE  jobs'[i] = NoJob
    BY <1>0, <1>2 DEF Mutate, Without, Stored
<1>3. ASSUME NEW id \in JobId, Delete(id) PROVE jobs'[i] = NoJob
    BY <1>0, <1>3 DEF Delete, Without
<1>4. CASE Drop
    BY <1>0, <1>4 DEF Drop, Without
<1>5. CASE Tick \/ UNCHANGED storeVars
    BY <1>5 DEF Tick, storeVars
<1> QED
    BY <1>1, <1>2, <1>3, <1>4, <1>5 DEF StoreNext

\* Whatever implements the contract never resurrects a job: mutate applies its
\* closure to a stored job only, and an id is issued once.
THEOREM ContractNeverResurrects == StoreSpec => [][StayRemoved]_storeVars
<1> QED
    BY StoreInvariance, StepStaysRemoved, PTL DEF StoreSpec

-----------------------------------------------------------------------------
(* Repeated submissions. *)

\* A job young enough for a repeated submission to return it.
Recent(id) == id \in Stored /\ jobs[id].created_at >= now - Window

\* An owner has one recent job at most under an idempotency key: a client that
\* repeats its POST within the window starts no second execution.
KeysUnique ==
    \A a, b \in JobId :
        /\ Recent(a) /\ Recent(b)
        /\ jobs[a].owner = jobs[b].owner
        /\ jobs[a].key = jobs[b].key /\ jobs[a].key # NoKey
        => a = b

\* A job that is recent after a step was recent before, with the same owner and
\* key, unless the step inserted it.
LEMMA StaysRecent ==
    ASSUME StoreInv, NEW id \in JobId, Recent(id)', now' \in Nat, now' >= now,
           jobs[id] # NoJob, jobs'[id].created_at = jobs[id].created_at
    PROVE  Recent(id)
<1>1. /\ now \in Nat /\ Window \in Nat /\ jobs[id] \in Job /\ jobs[id].created_at \in Nat
    BY JobStoreAssumption DEF StoreInv, StoreTypeOK, Job
<1>2. jobs[id].created_at >= now' - Window
    BY DEF Recent
<1> QED
    BY <1>1, <1>2 DEF Recent, Stored

\* What a step other than an insertion does to a job it leaves.
KeepsIdentity(id) ==
    jobs'[id] # NoJob =>
        /\ jobs[id] # NoJob
        /\ jobs'[id].owner = jobs[id].owner
        /\ jobs'[id].key = jobs[id].key
        /\ jobs'[id].created_at = jobs[id].created_at

LEMMA IdentitiesKeepKeys ==
    ASSUME StoreInv, KeysUnique, now' \in Nat, now' >= now,
           \A id \in JobId : KeepsIdentity(id)
    PROVE  KeysUnique'
<1> SUFFICES ASSUME NEW a \in JobId, NEW b \in JobId, Recent(a)', Recent(b)',
                    jobs'[a].owner = jobs'[b].owner, jobs'[a].key = jobs'[b].key,
                    jobs'[a].key # NoKey
             PROVE  a = b
    BY DEF KeysUnique
<1>1. jobs'[a] # NoJob /\ jobs'[b] # NoJob
    BY DEF Recent, Stored
<1>2. Recent(a) /\ Recent(b)
    BY <1>1, StaysRecent DEF KeepsIdentity
<1> QED
    BY <1>1, <1>2 DEF KeysUnique, KeepsIdentity

LEMMA InsertKeepsKeys ==
    ASSUME Window <= Ttl, StoreInv, KeysUnique, NEW id \in JobId, NEW o \in Owner,
           NEW k \in Key \cup {NoKey}, NEW t \in 0..now, Insert(id, o, k, t)
    PROVE  KeysUnique'
<1> DEFINE new == NewJob(o, k, t)
<1>0. now \in Nat /\ t \in Nat /\ Window \in Nat /\ Ttl \in Nat /\ now' = now
    BY JobStoreAssumption, ExecutionJobAssumption DEF StoreInv, StoreTypeOK, Insert
<1>1. new.owner = o /\ new.key = k /\ new.created_at = t
    BY <1>0, NewJobFacts
<1> HIDE DEF new
<1>2. PICK S \in SUBSET Droppable : jobs' = [Without(S) EXCEPT ![id] = new]
    BY DEF Insert, new
<1>3. /\ jobs'[id] = new
      /\ \A q \in JobId : q # id /\ jobs'[q] # NoJob => jobs'[q] = jobs[q] /\ q \in Stored
    BY <1>2 DEF Without, Stored
<1>4. ASSUME NEW q \in JobId, q # id, Recent(q)'
      PROVE  Recent(q) /\ jobs'[q] = jobs[q] /\ ~Evictable(jobs[q], now)
    <2>1. jobs'[q] = jobs[q] /\ q \in Stored /\ jobs[q].created_at >= now - Window
        BY <1>0, <1>3, <1>4 DEF Recent, Stored
    <2>2. jobs[q].created_at \in Nat
        BY <2>1 DEF Stored, StoreInv, StoreTypeOK, Job
    <2>3. ~(jobs[q].created_at + Ttl < now)
        BY <1>0, <2>1, <2>2
    <2> QED
        BY <2>1, <2>3 DEF Recent, Evictable
<1>5. ASSUME NEW q \in JobId, q # id, Recent(q)', jobs'[q].owner = o, jobs'[q].key = k, k # NoKey
      PROVE  FALSE
    <2>1. q \in Matches(o, k)
        BY <1>4, <1>5 DEF Matches, Recent
    <2> QED
        BY <1>5, <2>1 DEF Insert
<1> QED
    BY <1>1, <1>3, <1>4, <1>5 DEF KeysUnique

LEMMA StepKeepsKeys ==
    ASSUME Window <= Ttl
    PROVE  StoreInv /\ KeysUnique /\ [StoreNext]_storeVars => KeysUnique'
<1> SUFFICES ASSUME StoreInv, KeysUnique, [StoreNext]_storeVars PROVE KeysUnique'
    OBVIOUS
<1>0. now \in Nat /\ jobs \in [JobId -> Job \cup {NoJob}]
    BY DEF StoreInv, StoreTypeOK
<1>1. ASSUME NEW id \in JobId, NEW o \in Owner, NEW k \in Key \cup {NoKey},
             NEW t \in 0..now, Insert(id, o, k, t)
      PROVE  KeysUnique'
    BY <1>1, InsertKeepsKeys
<1>2. ASSUME NEW id \in JobId, NEW fn \in Mutation, NEW t \in 0..now, Mutate(id, fn, t)
      PROVE  KeysUnique'
    <2> DEFINE new == Apply(fn, jobs[id], t)
    <2>1. /\ new.owner = jobs[id].owner /\ new.key = jobs[id].key
          /\ new.created_at = jobs[id].created_at
        BY <1>0, <1>2, ApplyFacts DEF Mutate, Stored
    <2> HIDE DEF new
    <2>2. PICK S \in SUBSET (Droppable \ {id}) : jobs' = [Without(S) EXCEPT ![id] = new]
        BY <1>2 DEF Mutate, new
    <2>3. \A q \in JobId : KeepsIdentity(q)
        BY <1>2, <2>1, <2>2 DEF KeepsIdentity, Without, Mutate, Stored
    <2> QED
        BY <1>0, <1>2, <2>3, IdentitiesKeepKeys DEF Mutate
<1>3. ASSUME NEW id \in JobId, Delete(id) PROVE KeysUnique'
    <2>1. \A q \in JobId : KeepsIdentity(q)
        BY <1>3 DEF Delete, Without, KeepsIdentity
    <2> QED
        BY <1>0, <1>3, <2>1, IdentitiesKeepKeys DEF Delete
<1>4. CASE Drop
    <2>1. \A q \in JobId : KeepsIdentity(q)
        BY <1>4 DEF Drop, Without, KeepsIdentity
    <2> QED
        BY <1>0, <1>4, <2>1, IdentitiesKeepKeys DEF Drop
<1>5. CASE Tick \/ UNCHANGED storeVars
    <2>1. now' \in Nat /\ now' >= now /\ \A q \in JobId : KeepsIdentity(q)
        BY <1>0, <1>5 DEF Tick, storeVars, KeepsIdentity
    <2> QED
        BY <2>1, IdentitiesKeepKeys
<1> QED
    BY <1>1, <1>2, <1>3, <1>4, <1>5 DEF StoreNext

\* Whatever implements the contract starts one execution for a submission that
\* is repeated within the window, provided that no job expires inside it
\* (config.py: ten minutes of thirty): an older job that the window still
\* covers is then never too old to be found.
THEOREM ContractKeepsKeys ==
    ASSUME Window <= Ttl
    PROVE  StoreSpec => []KeysUnique
<1>1. StoreInit => KeysUnique
    BY DEF StoreInit, KeysUnique, Recent, Stored
<1> QED
    BY <1>1, StoreInvariance, StepKeepsKeys, PTL DEF StoreSpec

-----------------------------------------------------------------------------
(* The end of a job. *)

\* No closure takes a job out of a terminal state, or changes its analysis there.
LEMMA TerminalStays ==
    ASSUME NEW f \in Mutation, NEW job \in Job, NEW t \in Nat, job.state \in Terminal
    PROVE  /\ Apply(f, job, t).state = job.state
           /\ Apply(f, job, t).analysis_id = job.analysis_id
<1>1. ~IsActive(job) /\ ~Wrote(job) /\ ~NeedsFinalizing(job) /\ ~Claimable(job)
    BY DEF IsActive, Wrote, NeedsFinalizing, Claimable, Terminal
<1>2. CASE f.kind = "claim"
    BY <1>1, <1>2 DEF Apply, Claim
<1>3. CASE f.kind = "release"
    <2>1. Apply(f, job, t) = Release(job)
        BY <1>3 DEF Apply
    <2> QED
        BY <2>1 DEF Release, Job
<1>4. CASE f.kind = "cancel"
    <2>1. Apply(f, job, t) = CancelIfActive(job)
        BY <1>4 DEF Apply
    <2> QED
        BY <1>1, <2>1 DEF CancelIfActive
<1>5. CASE f.kind = "reports"
    <2>1. Apply(f, job, t) = MarkReportsReady(job)
        BY <1>5 DEF Apply
    <2> QED
        BY <2>1 DEF MarkReportsReady, Job
<1>6. CASE f.kind = "finalize"
    <2>1. Apply(f, job, t) = ClaimFinalizing(job, t)
        BY <1>6 DEF Apply
    <2> QED
        BY <1>1, <2>1 DEF ClaimFinalizing, FinalizeClaimable
<1>7. CASE f.kind = "write"
    <2>1. Apply(f, job, t) = WriteState(job, f.state, f.analysis_id)
        BY <1>7 DEF Apply
    <2> QED
        BY <1>1, <2>1 DEF WriteState
<1>8. f.kind \in {"claim", "release", "cancel", "reports", "finalize", "write"}
    BY DEF Mutation
<1> QED
    BY <1>2, <1>3, <1>4, <1>5, <1>6, <1>7, <1>8

\* A job that is over stays over, with the outcome and the analysis it has,
\* until its record goes.
OutcomeFinal ==
    \A id \in Stored :
        jobs[id].state \in Terminal =>
            \/ jobs'[id] = NoJob
            \/ /\ jobs'[id].state = jobs[id].state
               /\ jobs'[id].analysis_id = jobs[id].analysis_id

LEMMA StepKeepsOutcome == StoreInv /\ [StoreNext]_storeVars => OutcomeFinal
<1> SUFFICES ASSUME StoreInv, [StoreNext]_storeVars,
                    NEW i \in Stored, jobs[i].state \in Terminal, jobs'[i] # NoJob
             PROVE  /\ jobs'[i].state = jobs[i].state
                    /\ jobs'[i].analysis_id = jobs[i].analysis_id
    BY DEF OutcomeFinal
<1>0. i \in JobId /\ i \in issued /\ jobs[i] \in Job /\ jobs \in [JobId -> Job \cup {NoJob}] /\ now \in Nat
    BY DEF StoreInv, StoreTypeOK, Stored
<1>1. ASSUME NEW id \in JobId, NEW o \in Owner, NEW k \in Key \cup {NoKey},
             NEW t \in 0..now, Insert(id, o, k, t)
      PROVE  jobs'[i] = jobs[i]
    BY <1>0, <1>1 DEF Insert, Without
<1>2. ASSUME NEW id \in JobId, NEW fn \in Mutation, NEW t \in 0..now, Mutate(id, fn, t)
      PROVE  jobs'[i] \in {jobs[i], Apply(fn, jobs[i], t)}
    BY <1>0, <1>2 DEF Mutate, Without, Stored
<1>3. ASSUME NEW id \in JobId, Delete(id) PROVE jobs'[i] = jobs[i]
    BY <1>0, <1>3 DEF Delete, Without
<1>4. CASE Drop
    BY <1>0, <1>4 DEF Drop, Without
<1>5. CASE Tick \/ UNCHANGED storeVars
    BY <1>5 DEF Tick, storeVars
<1>6. ASSUME NEW fn \in Mutation, NEW t \in 0..now, jobs'[i] = Apply(fn, jobs[i], t)
      PROVE  /\ jobs'[i].state = jobs[i].state
             /\ jobs'[i].analysis_id = jobs[i].analysis_id
    BY <1>0, <1>6, TerminalStays
<1> QED
    BY <1>1, <1>2, <1>3, <1>4, <1>5, <1>6 DEF StoreNext

\* Whatever implements the contract never revives a job that is over: a worker,
\* a finalizer or a second DELETE that comes late changes neither its outcome
\* nor its analysis.
THEOREM ContractKeepsOutcome == StoreSpec => [][OutcomeFinal]_storeVars
<1> QED
    BY StoreInvariance, StepKeepsOutcome, PTL DEF StoreSpec

-----------------------------------------------------------------------------
(* What the calls of the store do to a job, and what they spare. *)

\* Job q is as it was, or was dropped.
Spared(q) ==
    /\ q \in issued' <=> q \in issued
    /\ jobs'[q] = jobs[q] \/ (q \in Droppable /\ jobs'[q] = NoJob)

SparesOthers(id) == \A q \in JobId : q # id => Spared(q)

ByContract == StoreNext \/ UNCHANGED storeVars

LEMMA GetFacts ==
    ASSUME StoreInv, NEW id \in JobId, Get(id)
    PROVE  /\ ByContract /\ SparesOthers(id)
           /\ issued' = issued
           /\ jobs'[id] = IF Live(id) THEN jobs[id] ELSE NoJob
<1>1. /\ jobs' = Without({id} \cap Droppable) /\ issued' = issued /\ now' = now
      /\ \A q \in JobId : jobs'[q] = IF q \in {id} \cap Droppable THEN NoJob ELSE jobs[q]
    BY DEF Get, Without
<1>2. ByContract
    <2>1. CASE id \in Droppable
        BY <1>1, <2>1 DEF ByContract, StoreNext, Drop
    <2>2. CASE id \notin Droppable
        <3>1. jobs' = jobs
            BY <1>1, <2>2 DEF Without, StoreInv, StoreTypeOK
        <3> QED
            BY <1>1, <3>1 DEF ByContract, storeVars
    <2> QED
        BY <2>1, <2>2
<1>3. jobs'[id] = IF Live(id) THEN jobs[id] ELSE NoJob
    BY <1>1 DEF Live, Stored
<1> QED
    BY <1>1, <1>2, <1>3 DEF SparesOthers, Spared

LEMMA CallFacts ==
    ASSUME StoreInv, NEW id \in JobId, NEW fn \in Mutation, NEW t \in 0..now, Call(id, fn, t)
    PROVE  /\ ByContract /\ SparesOthers(id)
           /\ issued' = issued
           /\ jobs'[id] = IF Live(id) THEN Apply(fn, jobs[id], t) ELSE NoJob
           /\ Live(id) => jobs[id] \in Job /\ jobs'[id] \in Job /\ id \in Stored'
<1>1. CASE Live(id)
    <2> DEFINE new == Apply(fn, jobs[id], t)
    <2>1. Mutate(id, fn, t) /\ t \in Nat
        BY <1>1 DEF Call, StoreInv, StoreTypeOK
    <2>2. ByContract
        BY <2>1 DEF ByContract, StoreNext
    <2>3. jobs[id] \in Job
        BY <1>1 DEF Live, Stored, StoreInv, StoreTypeOK
    <2>4. new \in Job
        BY <2>1, <2>3, ApplyFacts
    <2> HIDE DEF new
    <2>5. PICK S \in SUBSET (Droppable \ {id}) : jobs' = [Without(S) EXCEPT ![id] = new]
        BY <2>1 DEF Mutate, new
    <2>6. /\ jobs'[id] = new
          /\ \A q \in JobId : q # id => jobs'[q] = IF q \in S THEN NoJob ELSE jobs[q]
        BY <2>5 DEF Without
    <2>7. issued' = issued
        BY <2>1 DEF Mutate
    <2>8. SparesOthers(id)
        BY <2>5, <2>6, <2>7 DEF SparesOthers, Spared
    <2>9. id \in Stored'
        BY <2>4, <2>6, JobStoreAssumption DEF Stored
    <2> QED
        BY <1>1, <2>2, <2>3, <2>4, <2>6, <2>7, <2>8, <2>9 DEF new
<1>2. CASE ~Live(id)
    BY <1>2, GetFacts DEF Call
<1> QED
    BY <1>1, <1>2

LEMMA InsertFacts ==
    ASSUME StoreInv, NEW id \in JobId, NEW o \in Owner, NEW k \in Key \cup {NoKey}, NEW t \in 0..now,
           Insert(id, o, k, t)
    PROVE  /\ ByContract /\ SparesOthers(id)
           /\ id \notin issued /\ issued' = issued \cup {id}
           /\ id \notin Stored /\ id \in Stored'
           /\ jobs'[id] = NewJob(o, k, t) /\ jobs'[id] \in Job
<1> DEFINE new == NewJob(o, k, t)
<1>1. t \in Nat
    BY DEF StoreInv, StoreTypeOK
<1>2. ByContract
    BY <1>1 DEF ByContract, StoreNext
<1>3. new \in Job
    BY <1>1, NewJobFacts
<1> HIDE DEF new
<1>4. PICK S \in SUBSET Droppable : jobs' = [Without(S) EXCEPT ![id] = new]
    BY DEF Insert, new
<1>5. /\ jobs'[id] = new
      /\ \A q \in JobId : q # id => jobs'[q] = IF q \in S THEN NoJob ELSE jobs[q]
    BY <1>4 DEF Without
<1>6. id \notin issued /\ issued' = issued \cup {id}
    BY DEF Insert
<1>7. id \notin Stored /\ id \in Stored'
    BY <1>3, <1>5, <1>6, JobStoreAssumption DEF Stored, StoreInv
<1>8. SparesOthers(id)
    BY <1>4, <1>5, <1>6 DEF SparesOthers, Spared
<1> QED
    BY <1>2, <1>3, <1>5, <1>6, <1>7, <1>8 DEF new

LEMMA DeleteFacts ==
    ASSUME StoreInv, NEW id \in JobId, Delete(id)
    PROVE  /\ ByContract /\ SparesOthers(id)
           /\ issued' = issued /\ jobs'[id] = NoJob
<1>1. ByContract
    BY DEF ByContract, StoreNext
<1>2. PICK S \in SUBSET Droppable : jobs' = Without(S \cup {id})
    BY DEF Delete
<1>3. \A q \in JobId : jobs'[q] = IF q \in S \cup {id} THEN NoJob ELSE jobs[q]
    BY <1>2 DEF Without
<1>4. issued' = issued
    BY DEF Delete
<1> QED
    BY <1>1, <1>2, <1>3, <1>4 DEF SparesOthers, Spared

LEMMA ClockFacts == StoreInv => now \in 0..now /\ now \in Nat
BY DEF StoreInv, StoreTypeOK

LEMMA StillStoreFacts ==
    ASSUME UNCHANGED storeVars
    PROVE  ByContract /\ \A q \in JobId : Spared(q)
BY DEF ByContract, storeVars, Spared

\* A job that somebody drives does not expire.
LEMMA DrivenIsLive ==
    ASSUME NEW id \in Stored, jobs[id].worker_active
    PROVE  Live(id)
BY DEF Live, Droppable, Evictable

\* What _write_state does to the job it is given.
LEMMA WriteFacts ==
    ASSUME StoreInv, NEW id \in JobId, NEW s \in Written, NEW a \in Analysis \cup {NoAnalysis},
           NEW t \in 0..now, Call(id, Write(s, a), t)
    PROVE  /\ ByContract /\ SparesOthers(id) /\ issued' = issued
           /\ ~Live(id) => id \notin Stored' /\ jobs'[id] = NoJob
           /\ Live(id) =>
                /\ id \in Stored /\ id \in Stored' /\ jobs[id] \in Job /\ jobs'[id] \in Job
                /\ jobs'[id].worker_active = jobs[id].worker_active
                /\ jobs'[id].reports_ready = jobs[id].reports_ready
                /\ jobs'[id].finalizing_since = jobs[id].finalizing_since
                /\ Wrote(jobs[id]) =>
                    /\ jobs'[id].state = s
                    /\ jobs'[id].analysis_id = IF a = NoAnalysis THEN jobs[id].analysis_id ELSE a
                /\ ~Wrote(jobs[id]) =>
                    /\ jobs'[id].analysis_id = jobs[id].analysis_id
                    /\ jobs'[id].state = IF IsActive(jobs[id]) THEN "cancelled" ELSE jobs[id].state
<1> DEFINE fn == Write(s, a)
<1>1. /\ fn \in Mutation /\ fn.kind = "write" /\ fn.state = s /\ fn.analysis_id = a
    BY DEF Write, Mutation
<1> HIDE DEF fn
<1>2. Call(id, fn, t)
    BY DEF fn
<1>3. /\ ByContract /\ SparesOthers(id) /\ issued' = issued
      /\ jobs'[id] = IF Live(id) THEN Apply(fn, jobs[id], t) ELSE NoJob
      /\ Live(id) => jobs[id] \in Job /\ jobs'[id] \in Job /\ id \in Stored'
    BY <1>1, <1>2, CallFacts
<1>4. CASE ~Live(id)
    BY <1>3, <1>4 DEF Stored
<1>5. CASE Live(id)
    <2>1. jobs'[id] = WriteState(jobs[id], s, a)
        BY <1>1, <1>3, <1>5 DEF Apply
    <2>2. CASE Wrote(jobs[id])
        <3>1. jobs'[id] = [jobs[id] EXCEPT !.state = s,
                             !.analysis_id = IF a = NoAnalysis THEN @ ELSE a]
            BY <2>1, <2>2 DEF WriteState
        <3> QED
            BY <1>3, <1>5, <2>2, <3>1 DEF Job, Live
    <2>3. CASE ~Wrote(jobs[id]) /\ IsActive(jobs[id])
        <3>1. jobs'[id] = [jobs[id] EXCEPT !.state = "cancelled"]
            BY <2>1, <2>3 DEF WriteState
        <3> QED
            BY <1>3, <1>5, <2>3, <3>1 DEF Job, Live
    <2>4. CASE ~Wrote(jobs[id]) /\ ~IsActive(jobs[id])
        <3>1. jobs'[id] = jobs[id]
            BY <2>1, <2>4 DEF WriteState
        <3> QED
            BY <1>3, <1>5, <2>4, <3>1 DEF Live
    <2> QED
        BY <2>2, <2>3, <2>4
<1> QED
    BY <1>4, <1>5, <1>3
=============================================================================
