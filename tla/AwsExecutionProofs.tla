------------------------- MODULE AwsExecutionProofs -------------------------
(***************************************************************************)
(* The AWS backend for any number of jobs, worker tasks, polls, deaths and *)
(* restarts.  Most of it is about a queue that delivers no message while   *)
(* its receiver lives: every message then has one handler at most, whose   *)
(* place tells what the record and the objects of its job may be.  One     *)
(* section holds for duplicate deliveries too: the store is used by its    *)
(* contract, so the cap holds and a job that is over stays over, a ready   *)
(* job has its analysis, and a job has no more handlers than receives.     *)
(***************************************************************************)
EXTENDS AwsExecution, JobStoreProofs

\* The state of a job that its worker takes through the stages, unless it was
\* ended under it.
StateAt ==
    [check_targets |-> "validating", start_baseline |-> "validating",
     baseline |-> "running_baseline", start_comparison |-> "running_baseline",
     comparison |-> "running_comparison", start_analysis |-> "running_comparison",
     put_baseline |-> "analyzing", put_comparison |-> "analyzing", mark_ready |-> "analyzing"]

Started == DOMAIN StateAt

\* A worker that found its job queued and has not tried to claim it.
Looking == {"material", "no_material", "claim"}

\* A worker that claimed its job and has not released it.
Holding == Driving \cup {"fail", "release"}

\* A worker that is done with the run.
Closing == {"cleanup", "final_get", "delete_objects", "acknowledge"}

\* A launch that has not sent its message yet.
Unsent == {"none", "charge", "history", "put", "enqueue"}

WorkerRecord == [pc : Handling \cup {"idle", "done", "dead"}, id : JobId \cup {NoJob},
                 claimed : BOOLEAN]

PollRecord == [pc : Reports \cup {"idle", "claim", "build", "ready", "fail", "delete_objects", "done"},
               id : JobId \cup {NoJob}, claimed : BOOLEAN, clock : Nat]

TypeOK ==
    /\ msg \in [JobId -> [at : {"none", "queue", "flight", "dead_letter", "deleted"}, receives : Nat]]
    /\ objects \in [JobId -> SUBSET (Reports \cup {"material"})]
    /\ launch \in [JobId -> Unsent \cup {"fail", "drop_material", "done"}]
    /\ removal \in [JobId -> {"none", "delete_job", "delete_objects"}]
    /\ worker \in [Worker -> WorkerRecord]
    /\ poll \in [Poll -> PollRecord]
    /\ restarts \in Nat

-----------------------------------------------------------------------------
(* The invariant. *)

OneHandler(id) == \A w, v \in LiveOn(id) : w = v

LaunchOK(id) ==
    /\ id \in issued <=> launch[id] # "none"
    /\ launch[id] \in Unsent => msg[id].at = "none"

\* A message that is not in flight and was not deleted has no handler.
QueueOK(id) == msg[id].at \in {"none", "queue", "dead_letter"} => LiveOn(id) = {}

\* A DELETE that found the job removable still may remove it.
RemovalOK(id) ==
    /\ removal[id] # "none" => id \in issued
    /\ removal[id] = "delete_job" /\ id \in Stored =>
            jobs[id].state \in Terminal /\ ~jobs[id].worker_active
    /\ removal[id] = "delete_objects" => id \notin Stored

RecordOK(id) ==
    id \in Stored =>
        /\ jobs[id].reports_ready => jobs[id].state \in {"analyzing"} \cup Terminal
        /\ jobs[id].state # "ready" => jobs[id].analysis_id = NoAnalysis
        /\ jobs[id].state = "ready" /\ MaxRestarts = 0 => jobs[id].analysis_id \in analyses
        /\ NeedsFinalizing(jobs[id]) /\ jobs[id].finalizing_since = Never => Reports \subseteq objects[id]

\* The job is over, or its reports are handed over.
HandedOver(job) == job.state \in Terminal \/ job.reports_ready

\* As long as no worker died, a job that nobody handles is held by nobody, and
\* the message of a job is deleted once it is handed over.
SettledOK(id) ==
    NoneDied /\ id \in Stored =>
        /\ LiveOn(id) = {} => ~jobs[id].worker_active
        /\ msg[id].at = "deleted" => HandedOver(jobs[id])

\* What the place of its handler says of a job that is stored.
Fits(place, job) ==
    /\ place.pc \in Looking => job.state \in {"queued"} \cup Terminal
    /\ place.pc \in Looking \cup Driving \cup {"delete_objects"} => ~job.reports_ready
    /\ place.claimed => ~job.worker_active
    /\ place.pc = "validate" => (job.state = "queued" /\ job.worker_active) \/ job.state \in Terminal
    /\ place.pc = "release" => HandedOver(job)
    /\ place.pc \in {"release_lost", "discard", "discard_objects"} => job.state \in Terminal
    /\ NoneDied /\ job.worker_active => place.pc \in Holding
    /\ NoneDied /\ place.pc \in Closing => HandedOver(job)

WorkerOK(w) ==
    LET pc == worker[w].pc
        id == worker[w].id IN
    pc \in Handling =>
        /\ id \in issued
        /\ worker[w].claimed => pc = "claim"
        /\ pc \in Started => /\ id \in Stored /\ jobs[id].worker_active
                             /\ jobs[id].state \in {StateAt[pc]} \cup Terminal
        /\ pc \in {"put_comparison", "mark_ready"} => "baseline" \in objects[id]
        /\ pc = "mark_ready" => "comparison" \in objects[id]
        /\ id \in Stored => Fits(worker[w], jobs[id])

Polling(p) == poll[p].pc \notin {"idle", "done"}

\* What a poll found is still so, and whoever has the claim is not the only one
\* to know.
PollOK(p) ==
    LET id == poll[p].id
        job == jobs[id] IN
    Polling(p) =>
        /\ id \in issued
        /\ poll[p].clock <= now
        /\ poll[p].pc = "ready" /\ MaxRestarts = 0 => p \in analyses
        /\ id \in Stored =>
            /\ job.reports_ready /\ job.state \in {"analyzing"} \cup Terminal
            /\ poll[p].pc # "claim" /\ job.state = "analyzing" => job.finalizing_since # Never

JobInv(id) ==
    /\ OneHandler(id) /\ LaunchOK(id) /\ QueueOK(id)
    /\ RemovalOK(id) /\ RecordOK(id) /\ SettledOK(id)

Inv ==
    /\ StoreInv /\ TypeOK
    /\ \A id \in JobId : JobInv(id)
    /\ \A w \in Worker : WorkerOK(w)
    /\ \A p \in Poll : PollOK(p)

-----------------------------------------------------------------------------
(* What a step may do to the record of a job.                              *)

Both(q) == q \in Stored /\ q \in Stored' /\ q \in issued /\ q \in issued'

SameFlags(q) ==
    /\ jobs'[q].worker_active = jobs[q].worker_active
    /\ jobs'[q].reports_ready = jobs[q].reports_ready
    /\ jobs'[q].finalizing_since = jobs[q].finalizing_since

SameState(q) ==
    /\ jobs'[q].state = jobs[q].state
    /\ jobs'[q].analysis_id = jobs[q].analysis_id

Absent(q) == q \notin Stored /\ q \notin Stored' /\ (q \in issued' <=> q \in issued)

Gone(q) ==
    /\ q \in Stored /\ q \notin Stored' /\ q \in issued /\ q \in issued'
    /\ ~(jobs[q].worker_active /\ LiveOn(q) # {})

Same(q) == Both(q) /\ SameFlags(q) /\ SameState(q)

\* The job is as it was, or was dropped.
Still(q) == Absent(q) \/ Gone(q) \/ Same(q)

Created(q) ==
    /\ q \notin issued /\ q \in issued' /\ q \notin Stored /\ q \in Stored'
    /\ \E o \in Owner : jobs'[q] = NewJob(o, NoKey, now)

Ended(q) ==
    /\ Both(q) /\ SameFlags(q)
    /\ IsActive(jobs[q]) /\ jobs'[q].state \in {"failed", "cancelled"}
    /\ jobs'[q].analysis_id = jobs[q].analysis_id

\* The stages that the worker takes its job through.
Forward ==
    {<<"queued", "validating">>, <<"validating", "running_baseline">>,
     <<"running_baseline", "running_comparison">>, <<"running_comparison", "analyzing">>}

Advanced(q) ==
    /\ Both(q) /\ SameFlags(q)
    /\ <<jobs[q].state, jobs'[q].state>> \in Forward
    /\ jobs[q].worker_active /\ LiveOn(q) # {} /\ ~jobs[q].reports_ready
    /\ jobs'[q].analysis_id = jobs[q].analysis_id

Claimed(q) ==
    /\ Both(q) /\ SameState(q)
    /\ jobs[q].state = "queued" /\ ~jobs[q].worker_active /\ jobs'[q].worker_active
    /\ jobs'[q].reports_ready = jobs[q].reports_ready
    /\ jobs'[q].finalizing_since = jobs[q].finalizing_since

Released(q) ==
    /\ Both(q) /\ SameState(q)
    /\ ~jobs'[q].worker_active
    /\ jobs'[q].reports_ready = jobs[q].reports_ready
    /\ jobs'[q].finalizing_since = jobs[q].finalizing_since

Marked(q) ==
    /\ Both(q) /\ SameState(q)
    /\ jobs[q].state \in {"analyzing"} \cup Terminal
    /\ Reports \subseteq objects'[q]
    /\ jobs'[q].worker_active = jobs[q].worker_active
    /\ jobs'[q].reports_ready
    /\ jobs'[q].finalizing_since = jobs[q].finalizing_since

Finalized(q) ==
    /\ Both(q) /\ SameState(q)
    /\ jobs'[q].worker_active = jobs[q].worker_active
    /\ jobs'[q].reports_ready = jobs[q].reports_ready
    /\ jobs'[q].finalizing_since # Never

Announced(q) ==
    /\ Both(q) /\ SameFlags(q)
    /\ jobs[q].state = "analyzing" /\ jobs'[q].state = "ready"
    /\ jobs'[q].analysis_id \in Analysis
    /\ MaxRestarts = 0 => jobs'[q].analysis_id \in analyses'

\* By a worker that handles the job, and by everybody else.
ByWorker(q) == Still(q) \/ Ended(q) \/ Advanced(q) \/ Claimed(q) \/ Released(q) \/ Marked(q)
ByOthers(q) == Still(q) \/ Created(q) \/ Ended(q) \/ Finalized(q) \/ Announced(q)

\* Whoever deletes reports takes those that no request will look for.
ObjectsSafe(q) ==
    \/ Reports \cap objects[q] \subseteq objects'[q]
    \/ q \notin Stored
    \/ ~NeedsFinalizing(jobs[q])
    \/ jobs[q].finalizing_since # Never

\* Nobody but its worker deletes reports of a job that is not handed over.
Spares(q) ==
    \/ Reports \cap objects[q] \subseteq objects'[q]
    \/ q \notin Stored
    \/ jobs[q].reports_ready

LEMMA JobTypes ==
    ASSUME StoreInv, NEW q \in Stored
    PROVE  /\ q \in JobId /\ q \in issued /\ jobs[q] \in Job
           /\ jobs[q].state \in State /\ jobs[q].analysis_id \in Analysis \cup {NoAnalysis}
           /\ jobs[q].worker_active \in BOOLEAN /\ jobs[q].reports_ready \in BOOLEAN
           /\ jobs[q].cancel_requested \in BOOLEAN
           /\ jobs[q].finalizing_since \in Nat \cup {Never}
BY DEF StoreInv, StoreTypeOK, Stored, Job

\* A worker that does not move does not notice what others do to its job.
LEMMA WorkerUndisturbed ==
    ASSUME Inv, NEW v \in Worker, worker'[v] = worker[v], NoneDied' => NoneDied,
           worker[v].pc \in Handling => ByOthers(worker[v].id) /\ Spares(worker[v].id)
    PROVE  WorkerOK(v)'
<1> DEFINE id == worker[v].id
           pc == worker[v].pc
<1> SUFFICES ASSUME pc \in Handling PROVE WorkerOK(v)'
    BY DEF WorkerOK
<1>1. /\ WorkerOK(v) /\ v \in LiveOn(id) /\ id \in issued /\ ByOthers(id) /\ Spares(id)
      /\ worker'[v].id = id /\ worker'[v].pc = pc /\ worker'[v].claimed = worker[v].claimed
    BY DEF Inv, WorkerOK, LiveOn
<1>2. ~Created(id)
    BY <1>1 DEF Created
<1>3. CASE Absent(id) \/ Gone(id)
    <2>1. pc \notin Started
        BY <1>1, <1>3 DEF Absent, Gone, WorkerOK
    <2>2. pc \notin {"put_comparison", "mark_ready"}
        BY <2>1 DEF Started, StateAt
    <2>3. id \notin Stored' /\ id \in issued' /\ (worker[v].claimed => pc = "claim")
        BY <1>1, <1>3 DEF Absent, Gone, WorkerOK
    <2> QED
        BY <1>1, <2>1, <2>2, <2>3 DEF WorkerOK
<1>4. CASE Both(id) /\ (Same(id) \/ Ended(id) \/ Finalized(id) \/ Announced(id))
    <2>1. pc \in {"put_comparison", "mark_ready"} => ~jobs[id].reports_ready
        BY <1>1, <1>4 DEF Both, WorkerOK, Fits, Driving
    <2>2. pc \in {"put_comparison", "mark_ready"} => "baseline" \in objects'[id]
        BY <1>1, <1>4, <2>1 DEF Both, WorkerOK, Spares, Reports
    <2>3. pc = "mark_ready" => "comparison" \in objects'[id]
        BY <1>1, <1>4, <2>1 DEF Both, WorkerOK, Spares, Reports
    <2>4. /\ jobs'[id].worker_active = jobs[id].worker_active
          /\ jobs'[id].reports_ready = jobs[id].reports_ready
          /\ jobs'[id].state = jobs[id].state \/ jobs'[id].state \in Terminal
        BY <1>4 DEF Same, SameFlags, SameState, Ended, Finalized, Announced, Terminal
    <2>5. Fits(worker[v], jobs[id])
        BY <1>1, <1>4 DEF Both, WorkerOK
    <2>6. Fits(worker[v], jobs[id])'
        BY <1>1, <2>4, <2>5 DEF Fits, HandedOver
    <2>7. pc \in Started => /\ id \in Stored /\ jobs[id].worker_active
                            /\ jobs[id].state \in {StateAt[pc]} \cup Terminal
        BY <1>1 DEF WorkerOK
    <2>8. (worker[v].claimed => pc = "claim") /\ id \in Stored' /\ id \in issued'
        BY <1>1, <1>4 DEF WorkerOK, Both
    <2> QED
        BY <1>1, <2>2, <2>3, <2>4, <2>6, <2>7, <2>8 DEF WorkerOK
<1> QED
    BY <1>1, <1>2, <1>3, <1>4 DEF ByOthers, Still, Same, Ended, Finalized, Announced

LEMMA PollUndisturbed ==
    ASSUME Inv, NEW p \in Poll, poll'[p] = poll[p], now' \in {now, now + 1},
           MaxRestarts = 0 => analyses \subseteq analyses',
           Polling(p) => ByWorker(poll[p].id) \/ ByOthers(poll[p].id)
    PROVE  PollOK(p)'
<1> DEFINE id == poll[p].id
<1> SUFFICES ASSUME Polling(p) PROVE PollOK(p)'
    BY DEF PollOK, Polling
<1>1. PollOK(p) /\ id \in issued /\ (ByWorker(id) \/ ByOthers(id)) /\ poll[p].clock <= now
    BY DEF Inv, PollOK
<1>2. poll[p].clock \in Nat /\ now \in Nat
    BY DEF Inv, TypeOK, PollRecord, StoreInv, StoreTypeOK
<1>3. poll'[p].clock <= now'
    BY <1>1, <1>2
<1>4. poll'[p].pc = "ready" /\ MaxRestarts = 0 => p \in analyses'
    BY <1>1 DEF PollOK
<1>5. CASE Absent(id) \/ Gone(id) \/ Created(id)
    BY <1>1, <1>3, <1>4, <1>5 DEF Absent, Gone, Created, PollOK
<1>6. CASE Both(id)
    <2>1. jobs[id].reports_ready /\ jobs[id].state \in {"analyzing"} \cup Terminal
        BY <1>1, <1>6 DEF Both, PollOK
    <2>2. ~Advanced(id) /\ ~Claimed(id)
        BY <2>1 DEF Advanced, Claimed, Terminal
    <2>3. /\ jobs'[id].reports_ready
          /\ jobs'[id].state \in {jobs[id].state} \cup Terminal
          /\ jobs'[id].finalizing_since \in {jobs[id].finalizing_since} \/ jobs'[id].finalizing_since # Never
        BY <1>1, <1>6, <2>1, <2>2
            DEF ByWorker, ByOthers, Still, Absent, Gone, Created, Both, Same, SameFlags, SameState,
                Ended, Released, Marked, Finalized, Announced, Terminal
    <2> QED
        BY <1>1, <1>3, <1>4, <1>6, <2>1, <2>3 DEF PollOK, Both, Terminal
<1> QED
    BY <1>1, <1>5, <1>6 DEF ByWorker, ByOthers, Still, Same, Ended, Advanced, Claimed, Released,
                            Marked, Finalized, Announced

LEMMA RecordUndisturbed ==
    ASSUME Inv, StoreInv', NEW q \in JobId, ByWorker(q) \/ ByOthers(q), ObjectsSafe(q),
           MaxRestarts = 0 => analyses \subseteq analyses'
    PROVE  RecordOK(q)'
<1> SUFFICES ASSUME q \in Stored' PROVE RecordOK(q)'
    BY DEF RecordOK
<1> DEFINE job == jobs[q]
           next == jobs'[q]
<1>1. CASE Created(q)
    <2>1. /\ next.state = "queued" /\ ~next.reports_ready /\ next.analysis_id = NoAnalysis
        BY <1>1 DEF Created, NewJob
    <2> QED
        BY <2>1 DEF RecordOK, NeedsFinalizing
<1>2. CASE Both(q)
    <2>1. /\ job.reports_ready => job.state \in {"analyzing"} \cup Terminal
          /\ job.state # "ready" => job.analysis_id = NoAnalysis
          /\ job.state = "ready" /\ MaxRestarts = 0 => job.analysis_id \in analyses
          /\ NeedsFinalizing(job) /\ job.finalizing_since = Never => Reports \subseteq objects'[q]
        BY <1>2 DEF Inv, JobInv, RecordOK, Both, ObjectsSafe
    <2>2. CASE Same(q) \/ Claimed(q) \/ Released(q) \/ Finalized(q)
        <3>1. /\ next.state = job.state /\ next.analysis_id = job.analysis_id
              /\ next.reports_ready = job.reports_ready
              /\ next.finalizing_since = Never => job.finalizing_since = Never
            BY <2>2 DEF Same, Claimed, Released, Finalized, SameState, SameFlags
        <3> QED
            BY <2>1, <3>1 DEF RecordOK, NeedsFinalizing
    <2>3. CASE Ended(q)
        <3>1. /\ next.state \in {"failed", "cancelled"} /\ next.analysis_id = job.analysis_id
              /\ job.state # "ready"
            BY <2>3 DEF Ended, IsActive, Terminal
        <3> QED
            BY <2>1, <3>1 DEF RecordOK, NeedsFinalizing, Terminal
    <2>4. CASE Advanced(q)
        <3>1. /\ next.state \notin Terminal /\ next.analysis_id = job.analysis_id
              /\ ~next.reports_ready /\ job.state # "ready"
            BY <2>4 DEF Advanced, SameFlags, Forward, Terminal
        <3> QED
            BY <2>1, <3>1 DEF RecordOK, NeedsFinalizing, Terminal
    <2>5. CASE Marked(q)
        <3>1. /\ next.state = job.state /\ next.analysis_id = job.analysis_id
              /\ job.state \in {"analyzing"} \cup Terminal /\ Reports \subseteq objects'[q]
            BY <2>5 DEF Marked, SameState
        <3> QED
            BY <2>1, <3>1 DEF RecordOK
    <2>6. CASE Announced(q)
        <3>1. /\ next.state = "ready"
              /\ MaxRestarts = 0 => next.analysis_id \in analyses'
            BY <2>6 DEF Announced
        <3> QED
            BY <3>1 DEF RecordOK, NeedsFinalizing, Terminal
    <2> QED
        BY <1>2, <2>2, <2>3, <2>4, <2>5, <2>6
            DEF ByWorker, ByOthers, Still, Absent, Gone, Created, Both
<1> QED
    BY <1>1, <1>2 DEF ByWorker, ByOthers, Still, Absent, Gone, Same, Ended, Advanced, Claimed,
                      Released, Marked, Finalized, Announced

LEMMA RemovalUndisturbed ==
    ASSUME Inv, NEW q \in JobId, ByWorker(q) \/ ByOthers(q), removal'[q] = removal[q]
    PROVE  RemovalOK(q)'
<1>1. RemovalOK(q)
    BY DEF Inv, JobInv
<1>2. CASE Absent(q) \/ Gone(q) \/ Created(q)
    BY <1>1, <1>2 DEF Absent, Gone, Created, RemovalOK
<1>3. CASE Both(q)
    <2>1. CASE removal[q] = "delete_job"
        <3>1. jobs[q].state \in Terminal /\ ~jobs[q].worker_active
            BY <1>1, <1>3, <2>1 DEF RemovalOK, Both
        <3>2. jobs'[q].state \in Terminal /\ ~jobs'[q].worker_active
            BY <1>3, <3>1 DEF ByWorker, ByOthers, Still, Absent, Gone, Created, Both, Same, SameFlags,
                    SameState, Ended, Advanced, Claimed, Released, Marked, Finalized, Announced, Terminal
        <3> QED
            BY <1>1, <1>3, <2>1, <3>2 DEF RemovalOK, Both
    <2>2. CASE removal[q] # "delete_job"
        BY <1>1, <1>3, <2>2 DEF RemovalOK, Both
    <2> QED
        BY <2>1, <2>2
<1> QED
    BY <1>2, <1>3 DEF ByWorker, ByOthers, Still, Same, Ended, Advanced, Claimed, Released,
                      Marked, Finalized, Announced

\* A job that is handed over stays so.
LEMMA HandedOverStays ==
    ASSUME NEW q \in JobId, ByWorker(q) \/ ByOthers(q), Both(q), HandedOver(jobs[q])
    PROVE  HandedOver(jobs'[q])
<1>1. ~Advanced(q)
    BY DEF Advanced, HandedOver, Forward, Terminal
<1> QED
    BY <1>1 DEF ByWorker, ByOthers, Still, Absent, Gone, Created, Both, Same, SameFlags, SameState,
            Ended, Claimed, Released, Marked, Finalized, Announced, Terminal, HandedOver

LEMMA SettledUndisturbed ==
    ASSUME Inv, NEW q \in JobId, ByOthers(q), NoneDied' => NoneDied,
           LiveOn(q)' = {} => LiveOn(q) = {},
           msg'[q].at = "deleted" => msg[q].at = "deleted"
    PROVE  SettledOK(q)'
<1> SUFFICES ASSUME NoneDied', q \in Stored' PROVE SettledOK(q)'
    BY DEF SettledOK
<1>1. SettledOK(q) /\ LaunchOK(q) /\ NoneDied
    BY DEF Inv, JobInv
<1>2. CASE Created(q)
    <2>1. msg[q].at = "none" /\ jobs'[q].worker_active = FALSE
        BY <1>1, <1>2 DEF Created, NewJob, LaunchOK, Unsent
    <2> QED
        BY <2>1 DEF SettledOK
<1>3. CASE Both(q)
    <2>1. jobs'[q].worker_active = jobs[q].worker_active
        BY <1>3 DEF ByOthers, Still, Absent, Gone, Created, Both, Same, SameFlags,
                    Ended, Finalized, Announced
    <2> QED
        BY <1>1, <1>3, <2>1, HandedOverStays DEF SettledOK, Both
<1> QED
    BY <1>2, <1>3 DEF ByOthers, Still, Absent, Gone, Same, Ended, Finalized, Announced

-----------------------------------------------------------------------------
(* The life of a job, from its record before and after a step. *)

LifeStep(q) == Life(q)!Next \/ UNCHANGED Life(q)!vars

LEMMA LifeStill ==
    ASSUME StoreInv, StoreInv', NEW q \in JobId, Still(q)
    PROVE  LifeStep(q)
<1>1. CASE Absent(q)
    BY <1>1 DEF Absent, Phase, LifeStep, Life!vars
<1>2. CASE Gone(q)
    <2>1. jobs[q].state \notin {"none", "gone"}
        BY <1>2, JobTypes DEF Gone, State
    <2>2. Life(q)!Vanish
        BY <1>2, <2>1 DEF Gone, Phase, Life!Vanish
    <2> QED
        BY <2>2 DEF LifeStep, Life!Next
<1>3. CASE Same(q)
    <2>1. /\ jobs[q].state # "gone" /\ jobs[q].worker_active \in BOOLEAN
          /\ jobs'[q].worker_active = jobs[q].worker_active
        BY <1>3, JobTypes DEF Same, Both, SameFlags, State
    <2>2. CASE jobs[q].worker_active /\ LiveOn(q) # {} /\ LiveOn(q)' = {}
        <3>1. Life(q)!StopDriving
            BY <1>3, <2>1, <2>2 DEF Same, Both, SameState, Phase, Life!StopDriving
        <3> QED
            BY <3>1 DEF LifeStep, Life!Next
    <2>3. CASE jobs[q].worker_active /\ LiveOn(q) = {} /\ LiveOn(q)' # {}
        <3>1. Life(q)!StartDriving
            BY <1>3, <2>1, <2>3 DEF Same, Both, SameState, Phase, Life!StartDriving
        <3> QED
            BY <3>1 DEF LifeStep, Life!Next
    <2>4. CASE ~jobs[q].worker_active \/ (LiveOn(q) = {} <=> LiveOn(q)' = {})
        BY <1>3, <2>1, <2>4 DEF Same, Both, SameState, Phase, LifeStep, Life!vars
    <2> QED
        BY <2>2, <2>3, <2>4
<1> QED
    BY <1>1, <1>2, <1>3 DEF Still

\* A change of the record by somebody, while the same workers are there.
LEMMA LifeMoved ==
    ASSUME StoreInv, StoreInv', NEW q \in JobId, ByWorker(q) \/ ByOthers(q),
           LiveOn(q)' = {} <=> LiveOn(q) = {}
    PROVE  LifeStep(q)
<1>1. CASE Still(q)
    BY <1>1, LifeStill
<1>2. CASE Created(q)
    <2>1. jobs'[q].state = "queued" /\ jobs'[q].worker_active = FALSE /\ jobs'[q].analysis_id = NoAnalysis
        BY <1>2 DEF Created, NewJob
    <2>2. Life(q)!Create
        BY <1>2, <2>1 DEF Created, Phase, Life!Create
    <2> QED
        BY <2>2 DEF LifeStep, Life!Next
<1>3. CASE Both(q)
    <2>1. /\ jobs[q].state \in State /\ jobs'[q].state \in State /\ jobs[q].state # "gone"
          /\ jobs[q].worker_active \in BOOLEAN /\ jobs'[q].worker_active \in BOOLEAN
        <3>1. jobs[q] \in Job /\ jobs'[q] \in Job
            BY <1>3 DEF Both, Stored, StoreInv, StoreTypeOK
        <3> QED
            BY <3>1 DEF Job, State
    <2>2. CASE Ended(q)
        <3>1. jobs[q].state \in {"queued", "validating", "running_baseline", "running_comparison", "analyzing"}
            BY <2>1, <2>2 DEF Ended, IsActive, State, Terminal
        <3>2. Life(q)!Stop
            BY <1>3, <2>2, <3>1
                DEF Ended, Both, SameFlags, Phase, Life!Stop, Life!Active, Life!Successor
        <3> QED
            BY <3>2 DEF LifeStep, Life!Next
    <2>3. CASE Advanced(q)
        <3>1. Life(q)!Advance
            BY <1>3, <2>3
                DEF Advanced, Both, SameFlags, Forward, Phase, Life!Advance, Life!Active, Life!Successor
        <3> QED
            BY <3>1 DEF LifeStep, Life!Next
    <2>4. CASE Claimed(q)
        <3>1. CASE LiveOn(q) # {}
            <4>1. Life(q)!StartDriving
                BY <1>3, <2>1, <2>4, <3>1 DEF Claimed, Both, SameState, Phase, Life!StartDriving
            <4> QED
                BY <4>1 DEF LifeStep, Life!Next
        <3>2. CASE LiveOn(q) = {}
            BY <1>3, <2>4, <3>2 DEF Claimed, Both, SameState, Phase, LifeStep, Life!vars
        <3> QED
            BY <3>1, <3>2
    <2>5. CASE Released(q)
        <3>1. CASE LiveOn(q) # {} /\ jobs[q].worker_active
            <4>1. Life(q)!StopDriving
                BY <1>3, <2>1, <2>5, <3>1 DEF Released, Both, SameState, Phase, Life!StopDriving
            <4> QED
                BY <4>1 DEF LifeStep, Life!Next
        <3>2. CASE ~(LiveOn(q) # {} /\ jobs[q].worker_active)
            BY <1>3, <2>1, <2>5, <3>2 DEF Released, Both, SameState, Phase, LifeStep, Life!vars
        <3> QED
            BY <3>1, <3>2
    <2>6. CASE Marked(q) \/ Finalized(q)
        BY <1>3, <2>6 DEF Marked, Finalized, Both, SameState, Phase, LifeStep, Life!vars
    <2>7. CASE Announced(q)
        <3>1. Life(q)!Advance
            BY <1>3, <2>7
                DEF Announced, Both, SameFlags, Phase, Life!Advance, Life!Active, Life!Successor
        <3> QED
            BY <3>1 DEF LifeStep, Life!Next
    <2> QED
        BY <1>1, <1>2, <2>2, <2>3, <2>4, <2>5, <2>6, <2>7 DEF ByWorker, ByOthers
<1> QED
    BY <1>1, <1>2, <1>3 DEF ByWorker, ByOthers, Ended, Advanced, Claimed, Released, Marked,
                            Finalized, Announced

-----------------------------------------------------------------------------
(* Steps of a worker. *)

WorkerEffect(w) ==
    LET id == worker[w].id IN
    /\ ByContract /\ UNCHANGED api /\ TypeOK'
    /\ worker[w].pc \in Handling
    /\ \A v \in Worker : v # w => worker'[v] = worker[v]
    /\ worker'[w].pc \in Handling => worker'[w].id = id
    /\ worker'[w].pc \notin Handling => Still(id) /\ (NoneDied' => worker[w].pc \notin Holding)
    /\ WorkerOK(w)'
    /\ \A q \in JobId : q # id => Still(q) /\ msg'[q] = msg[q] /\ objects'[q] = objects[q]
    /\ ByWorker(id) /\ ObjectsSafe(id)
    /\ msg'[id] # msg[id] =>
        /\ msg'[id].at = "deleted"
        /\ NoneDied' /\ id \in Stored' => HandedOver(jobs'[id])

StepOK == Inv' /\ ByContract /\ \A q \in JobId : LifeStep(q)

LEMMA ClockAdvances ==
    ASSUME ByContract
    PROVE  now' \in {now, now + 1}
BY DEF ByContract, StoreNext, Insert, Mutate, Delete, Drop, Tick, storeVars

LEMMA WorkerEffectKeeps ==
    ASSUME Inv, NEW w \in Worker, WorkerEffect(w)
    PROVE  StepOK
<1>1. PICK id \in JobId :
        /\ id = worker[w].id /\ id \in issued /\ w \in LiveOn(id)
        /\ WorkerOK(w) /\ \A q \in JobId : JobInv(q)
    BY DEF Inv, WorkerOK, WorkerEffect, LiveOn, StoreInv, StoreTypeOK
<1>2. /\ ByContract /\ UNCHANGED api /\ TypeOK' /\ worker[w].pc \in Handling
      /\ \A v \in Worker : v # w => worker'[v] = worker[v]
      /\ worker'[w].pc \in Handling => worker'[w].id = id
      /\ worker'[w].pc \notin Handling => Still(id) /\ (NoneDied' => worker[w].pc \notin Holding)
      /\ WorkerOK(w)' /\ ByWorker(id) /\ ObjectsSafe(id)
      /\ \A q \in JobId : q # id => Still(q) /\ msg'[q] = msg[q] /\ objects'[q] = objects[q]
    BY <1>1 DEF WorkerEffect
<1>3. /\ launch' = launch /\ removal' = removal /\ poll' = poll /\ analyses' = analyses
    BY <1>2 DEF api
<1>4. StoreInv'
    BY <1>2, StepStoreInv DEF Inv, ByContract
<1>5. now' \in {now, now + 1}
    BY <1>2, ClockAdvances
<1>6. NoneDied' => NoneDied
    <2>1. worker[w].pc # "dead"
        BY <1>2 DEF Handling, Driving
    <2> QED
        BY <1>2, <2>1 DEF NoneDied
<1>7. ASSUME NEW q \in JobId, q # id PROVE LiveOn(q)' = LiveOn(q)
    BY <1>1, <1>2, <1>7 DEF LiveOn
<1>8. LiveOn(id) = {w}
    <2>1. OneHandler(id)
        BY <1>1 DEF JobInv
    <2> QED
        BY <1>1, <2>1 DEF OneHandler
<1>9. /\ worker'[w].pc \in Handling => LiveOn(id)' = {w}
      /\ worker'[w].pc \notin Handling => LiveOn(id)' = {}
    BY <1>1, <1>2, <1>8 DEF LiveOn
<1>10. ASSUME NEW q \in JobId, q # id
       PROVE  JobInv(q)' /\ LifeStep(q)
    <2>1. Still(q) /\ msg'[q] = msg[q] /\ objects'[q] = objects[q] /\ LiveOn(q)' = LiveOn(q)
        BY <1>2, <1>7, <1>10
    <2>2. ByOthers(q) /\ ObjectsSafe(q)
        BY <2>1 DEF ByOthers, ObjectsSafe
    <2>3. q \in issued' <=> q \in issued
        BY <2>1 DEF Still, Absent, Gone, Same, Both
    <2>4. OneHandler(q)' /\ LaunchOK(q)' /\ QueueOK(q)'
        BY <1>1, <1>3, <2>1, <2>3 DEF JobInv, OneHandler, LaunchOK, QueueOK
    <2>5. RemovalOK(q)' /\ RecordOK(q)' /\ SettledOK(q)'
        BY <1>3, <1>4, <1>6, <2>1, <2>2, RemovalUndisturbed, RecordUndisturbed, SettledUndisturbed
    <2>6. LifeStep(q)
        BY <1>4, <2>1, LifeStill DEF Inv
    <2> QED
        BY <2>4, <2>5, <2>6 DEF JobInv
<1>11. JobInv(id)'
    <2>1. id \in issued' <=> id \in issued
        BY <1>2 DEF ByWorker, Still, Absent, Gone, Same, Both, Ended, Advanced, Claimed, Released, Marked
    <2>2. OneHandler(id)'
        BY <1>9 DEF OneHandler
    <2>3. msg[id].at \notin {"none", "queue", "dead_letter"}
        BY <1>1 DEF JobInv, QueueOK
    <2>4. msg'[id] # msg[id] =>
            /\ msg'[id].at = "deleted"
            /\ NoneDied' /\ id \in Stored' => HandedOver(jobs'[id])
        BY <1>1 DEF WorkerEffect
    <2>5. LaunchOK(id)' /\ QueueOK(id)'
        BY <1>1, <1>3, <2>1, <2>3, <2>4 DEF JobInv, LaunchOK, QueueOK
    <2>6. RemovalOK(id)' /\ RecordOK(id)'
        BY <1>1, <1>2, <1>3, <1>4, RemovalUndisturbed, RecordUndisturbed
    <2>7. SettledOK(id)'
        <3> SUFFICES ASSUME NoneDied', id \in Stored' PROVE SettledOK(id)'
            BY DEF SettledOK
        <3>1. id \in Stored /\ Both(id)
            BY <1>2 DEF ByWorker, Still, Absent, Gone, Same, Both, Ended, Advanced, Claimed, Released, Marked
        <3>2. msg'[id].at = "deleted" => HandedOver(jobs'[id])
            BY <1>1, <1>2, <1>6, <2>4, <3>1, HandedOverStays DEF JobInv, SettledOK
        <3>3. ASSUME LiveOn(id)' = {} PROVE ~jobs'[id].worker_active
            <4>1. Still(id) /\ worker[w].pc \notin Holding
                BY <1>2, <1>9, <3>3
            <4>2. jobs'[id].worker_active = jobs[id].worker_active
                BY <3>1, <4>1 DEF Still, Absent, Gone, Same, Both, SameFlags
            <4>3. Fits(worker[w], jobs[id])
                BY <1>1, <1>2, <3>1 DEF WorkerOK
            <4> QED
                BY <1>6, <4>1, <4>2, <4>3 DEF Fits
        <3> QED
            BY <3>2, <3>3 DEF SettledOK
    <2> QED
        BY <2>2, <2>5, <2>6, <2>7 DEF JobInv
<1>12. LifeStep(id)
    <2>1. CASE worker'[w].pc \in Handling
        <3>1. LiveOn(id)' = {} <=> LiveOn(id) = {}
            BY <1>8, <1>9, <2>1
        <3> QED
            BY <1>1, <1>2, <1>4, <3>1, LifeMoved DEF Inv
    <2>2. CASE worker'[w].pc \notin Handling
        BY <1>1, <1>2, <1>4, <2>2, LifeStill DEF Inv
    <2> QED
        BY <2>1, <2>2
<1>13. ASSUME NEW v \in Worker PROVE WorkerOK(v)'
    <2>1. CASE v = w
        BY <1>2, <2>1
    <2>2. CASE v # w
        <3>1. ASSUME worker[v].pc \in Handling
              PROVE  ByOthers(worker[v].id) /\ Spares(worker[v].id)
            <4>1. worker[v].id \in JobId /\ worker[v].id # id
                BY <1>1, <1>8, <2>2, <3>1 DEF Inv, WorkerOK, LiveOn, StoreInv, StoreTypeOK
            <4> QED
                BY <1>2, <4>1 DEF ByOthers, Spares
        <3> QED
            BY <1>2, <1>6, <2>2, <3>1, WorkerUndisturbed
    <2> QED
        BY <2>1, <2>2
<1>14. ASSUME NEW p \in Poll PROVE PollOK(p)'
    <2>1. ASSUME Polling(p) PROVE ByWorker(poll[p].id) \/ ByOthers(poll[p].id)
        <3>1. poll[p].id \in JobId
            BY <2>1 DEF Inv, PollOK, StoreInv, StoreTypeOK
        <3> QED
            BY <1>2, <3>1 DEF ByOthers
    <2> QED
        BY <1>3, <1>5, <2>1, PollUndisturbed
<1> QED
    BY <1>2, <1>4, <1>10, <1>11, <1>12, <1>13, <1>14 DEF StepOK, Inv

-----------------------------------------------------------------------------
(* What the calls of the store do to the job they name. *)

LEMMA SparedStill ==
    ASSUME StoreInv, NEW q \in JobId, Spared(q)
    PROVE  Still(q)
<1>1. CASE jobs'[q] = jobs[q]
    <2>1. q \in Stored' <=> q \in Stored
        BY <1>1 DEF Stored
    <2> QED
        BY <1>1, <2>1 DEF Spared, Still, Absent, Same, Both, SameFlags, SameState, StoreInv
<1>2. CASE q \in Droppable /\ jobs'[q] = NoJob
    BY <1>2 DEF Droppable, Evictable, Spared, Stored, Still, Gone, StoreInv
<1> QED
    BY <1>1, <1>2 DEF Spared

\* The job was dropped, for it had expired, or there was none.
Missing(id) == ~Live(id) /\ id \notin Stored' /\ Still(id)

LEMMA MissingFacts ==
    ASSUME StoreInv, NEW id \in JobId, ~Live(id), jobs'[id] = NoJob, issued' = issued
    PROVE  Missing(id)
BY DEF Missing, Live, Droppable, Evictable, Stored, Still, Absent, Gone, StoreInv

LEMMA LookedUp ==
    ASSUME StoreInv, NEW id \in JobId, Get(id)
    PROVE  /\ ByContract /\ SparesOthers(id)
           /\ Missing(id) \/ (Live(id) /\ Same(id) /\ jobs'[id] = jobs[id])
<1>1. /\ ByContract /\ SparesOthers(id) /\ issued' = issued
      /\ jobs'[id] = IF Live(id) THEN jobs[id] ELSE NoJob
    BY GetFacts
<1> QED
    BY <1>1, MissingFacts DEF Live, Stored, StoreInv, Same, Both, SameFlags, SameState

LEMMA WrittenTo ==
    ASSUME StoreInv, NEW id \in JobId, NEW s \in Written, s # "ready", Call(id, Write(s, NoAnalysis), now)
    PROVE  /\ ByContract /\ SparesOthers(id)
           /\ Missing(id)
              \/ /\ Live(id) /\ Both(id) /\ SameFlags(id)
                 /\ jobs'[id].analysis_id = jobs[id].analysis_id
                 /\ \/ Wrote(jobs[id]) /\ jobs'[id].state = s
                    \/ ~Wrote(jobs[id]) /\ Ended(id)
                    \/ ~Wrote(jobs[id]) /\ jobs[id].state \in Terminal /\ Same(id)
<1>1. /\ ByContract /\ SparesOthers(id) /\ issued' = issued
      /\ ~Live(id) => id \notin Stored' /\ jobs'[id] = NoJob
      /\ Live(id) =>
           /\ id \in Stored /\ id \in Stored' /\ jobs[id] \in Job /\ jobs'[id] \in Job
           /\ jobs'[id].worker_active = jobs[id].worker_active
           /\ jobs'[id].reports_ready = jobs[id].reports_ready
           /\ jobs'[id].finalizing_since = jobs[id].finalizing_since
           /\ Wrote(jobs[id]) =>
               /\ jobs'[id].state = s
               /\ jobs'[id].analysis_id = jobs[id].analysis_id
           /\ ~Wrote(jobs[id]) =>
               /\ jobs'[id].analysis_id = jobs[id].analysis_id
               /\ jobs'[id].state = IF IsActive(jobs[id]) THEN "cancelled" ELSE jobs[id].state
    BY WriteFacts, ClockFacts
<1>2. CASE ~Live(id)
    BY <1>1, <1>2, MissingFacts
<1>3. CASE Live(id)
    <2>1. Both(id) /\ SameFlags(id) /\ jobs'[id].analysis_id = jobs[id].analysis_id
        BY <1>1, <1>3 DEF Both, SameFlags, StoreInv
    <2>2. CASE Wrote(jobs[id])
        BY <1>1, <1>3, <2>1, <2>2
    <2>3. CASE ~Wrote(jobs[id]) /\ IsActive(jobs[id])
        BY <1>1, <1>3, <2>1, <2>3 DEF Ended
    <2>4. CASE ~Wrote(jobs[id]) /\ ~IsActive(jobs[id])
        BY <1>1, <1>3, <2>1, <2>4 DEF IsActive, Same, SameState
    <2> QED
        BY <2>2, <2>3, <2>4
<1> QED
    BY <1>2, <1>3

LEMMA FailedJob ==
    ASSUME StoreInv, NEW id \in JobId, FailJob(id)
    PROVE  /\ ByContract /\ SparesOthers(id)
           /\ Missing(id)
              \/ /\ Live(id) /\ Both(id) /\ SameFlags(id) /\ jobs'[id].state \in Terminal
                 /\ Ended(id) \/ Same(id)
<1>1. "failed" \in Written /\ Call(id, Write("failed", NoAnalysis), now)
    BY DEF FailJob, Failed, Written, State
<1>2. /\ ByContract /\ SparesOthers(id)
      /\ Missing(id)
              \/ /\ Live(id) /\ Both(id) /\ SameFlags(id)
                 /\ jobs'[id].analysis_id = jobs[id].analysis_id
                 /\ \/ Wrote(jobs[id]) /\ jobs'[id].state = "failed"
                    \/ ~Wrote(jobs[id]) /\ Ended(id)
                    \/ ~Wrote(jobs[id]) /\ jobs[id].state \in Terminal /\ Same(id)
    BY <1>1, WrittenTo
<1> QED
    BY <1>2 DEF Ended, Wrote, Same, SameState, Terminal

LEMMA ReleasedJob ==
    ASSUME StoreInv, NEW id \in JobId, Call(id, [kind |-> "release"], now)
    PROVE  /\ ByContract /\ SparesOthers(id)
           /\ Missing(id) \/ (Live(id) /\ Released(id))
<1> DEFINE fn == [kind |-> "release"]
<1>1. fn \in Mutation /\ fn.kind = "release"
    BY DEF Mutation
<1>2. Call(id, fn, now)
    OBVIOUS
<1> HIDE DEF fn
<1>3. /\ ByContract /\ SparesOthers(id) /\ issued' = issued
      /\ jobs'[id] = IF Live(id) THEN Apply(fn, jobs[id], now) ELSE NoJob
      /\ Live(id) => jobs[id] \in Job /\ jobs'[id] \in Job /\ id \in Stored'
    BY <1>1, <1>2, CallFacts, ClockFacts
<1>4. CASE ~Live(id)
    BY <1>3, <1>4, MissingFacts
<1>5. CASE Live(id)
    <2>1. jobs'[id] = [jobs[id] EXCEPT !.worker_active = FALSE]
        BY <1>1, <1>3, <1>5 DEF Apply, Release
    <2>2. Both(id)
        BY <1>3, <1>5 DEF Both, Live, StoreInv
    <2> QED
        BY <1>3, <1>5, <2>1, <2>2 DEF Released, SameState, Job
<1> QED
    BY <1>4, <1>5, <1>3

LEMMA ClaimedJob ==
    ASSUME StoreInv, NEW id \in JobId, Call(id, [kind |-> "claim"], now)
    PROVE  /\ ByContract /\ SparesOthers(id)
           /\ \/ Missing(id)
              \/ Live(id) /\ Claimable(jobs[id]) /\ Claimed(id)
              \/ Live(id) /\ ~Claimable(jobs[id]) /\ Same(id)
<1> DEFINE fn == [kind |-> "claim"]
<1>1. fn \in Mutation /\ fn.kind = "claim"
    BY DEF Mutation
<1>2. Call(id, fn, now)
    OBVIOUS
<1> HIDE DEF fn
<1>3. /\ ByContract /\ SparesOthers(id) /\ issued' = issued
      /\ jobs'[id] = IF Live(id) THEN Apply(fn, jobs[id], now) ELSE NoJob
      /\ Live(id) => jobs[id] \in Job /\ jobs'[id] \in Job /\ id \in Stored'
    BY <1>1, <1>2, CallFacts, ClockFacts
<1>4. CASE ~Live(id)
    BY <1>3, <1>4, MissingFacts
<1>5. CASE Live(id)
    <2>1. jobs'[id] = IF Claimable(jobs[id]) THEN [jobs[id] EXCEPT !.worker_active = TRUE] ELSE jobs[id]
        BY <1>1, <1>3, <1>5 DEF Apply, Claim
    <2>2. Both(id)
        BY <1>3, <1>5 DEF Both, Live, StoreInv
    <2>3. CASE Claimable(jobs[id])
        <3>1. jobs'[id] = [jobs[id] EXCEPT !.worker_active = TRUE]
            BY <2>1, <2>3
        <3> QED
            BY <1>3, <1>5, <2>2, <2>3, <3>1 DEF Claimable, Claimed, SameState, Job
    <2>4. CASE ~Claimable(jobs[id])
        BY <1>3, <1>5, <2>1, <2>2, <2>4 DEF Same, SameState, SameFlags
    <2> QED
        BY <2>3, <2>4, <1>3, <1>5
<1> QED
    BY <1>4, <1>5, <1>3

LEMMA MarkedJob ==
    ASSUME StoreInv, NEW id \in JobId, Call(id, [kind |-> "reports"], now)
    PROVE  /\ ByContract /\ SparesOthers(id)
           /\ \/ Missing(id)
              \/ /\ Live(id) /\ Both(id) /\ SameState(id) /\ jobs'[id].reports_ready
                 /\ jobs'[id].worker_active = jobs[id].worker_active
                 /\ jobs'[id].finalizing_since = jobs[id].finalizing_since
<1> DEFINE fn == [kind |-> "reports"]
<1>1. fn \in Mutation /\ fn.kind = "reports"
    BY DEF Mutation
<1>2. Call(id, fn, now)
    OBVIOUS
<1> HIDE DEF fn
<1>3. /\ ByContract /\ SparesOthers(id) /\ issued' = issued
      /\ jobs'[id] = IF Live(id) THEN Apply(fn, jobs[id], now) ELSE NoJob
      /\ Live(id) => jobs[id] \in Job /\ jobs'[id] \in Job /\ id \in Stored'
    BY <1>1, <1>2, CallFacts, ClockFacts
<1>4. CASE ~Live(id)
    BY <1>3, <1>4, MissingFacts
<1>5. CASE Live(id)
    <2>1. jobs'[id] = [jobs[id] EXCEPT !.reports_ready = TRUE]
        BY <1>1, <1>3, <1>5 DEF Apply, MarkReportsReady
    <2>2. Both(id)
        BY <1>3, <1>5 DEF Both, Live, StoreInv
    <2> QED
        BY <1>3, <1>5, <2>1, <2>2 DEF SameState, Job
<1> QED
    BY <1>4, <1>5, <1>3

-----------------------------------------------------------------------------
(* Steps of a worker, one by one. *)

LEMMA Acting ==
    ASSUME Inv, NEW w \in Worker, worker[w].pc \in Handling
    PROVE  /\ StoreInv /\ TypeOK /\ WorkerOK(w)
           /\ worker[w].id \in JobId /\ worker[w].id \in issued
           /\ w \in LiveOn(worker[w].id)
BY DEF Inv, WorkerOK, LiveOn, StoreInv, StoreTypeOK

LEMMA WalkFacts ==
    ASSUME worker \in [Worker -> WorkerRecord], NEW w \in Worker, worker[w].pc \in Handling,
           NEW step \in Handling \cup {"done", "dead"}, WorkerGoes(w, step)
    PROVE  /\ UNCHANGED api
           /\ worker' \in [Worker -> WorkerRecord]
           /\ \A v \in Worker : v # w => worker'[v] = worker[v]
           /\ worker'[w].pc = step
           /\ step \in Handling =>
                worker'[w].id = worker[w].id /\ worker'[w].claimed = worker[w].claimed
<1> DEFINE base == IF step \in {"done", "dead"} THEN Idle ELSE worker[w]
           place == [base EXCEPT !.pc = step]
<1>1. UNCHANGED api /\ worker' = [worker EXCEPT ![w] = place]
    BY DEF WorkerGoes
<1>2. base \in [pc : Handling \cup {"idle", "done", "dead"}, id : JobId \cup {NoJob}, claimed : BOOLEAN]
    BY DEF WorkerRecord, Idle
<1>3. step \in Handling => base = worker[w]
    BY DEF Handling, Driving
<1> HIDE DEF base
<1>4. place \in WorkerRecord /\ place.pc = step /\ place.id = base.id /\ place.claimed = base.claimed
    BY <1>2 DEF WorkerRecord
<1> HIDE DEF place
<1> QED
    BY <1>1, <1>3, <1>4

LEMMA GoFacts ==
    ASSUME TypeOK, NEW w \in Worker, worker[w].pc \in Handling,
           NEW step \in Handling \cup {"done", "dead"}, WorkerGoes(w, step)
    PROVE  /\ UNCHANGED api
           /\ worker' \in [Worker -> WorkerRecord]
           /\ \A v \in Worker : v # w => worker'[v] = worker[v]
           /\ worker'[w].pc = step
           /\ step \in Handling =>
                worker'[w].id = worker[w].id /\ worker'[w].claimed = worker[w].claimed
BY WalkFacts DEF TypeOK

\* The place fits the job that the step leaves behind.
Placed(id, step) ==
    step \in Handling =>
        /\ step \in Started => /\ id \in Stored' /\ jobs'[id].worker_active
                               /\ jobs'[id].state \in {StateAt[step]} \cup Terminal
        /\ step \in {"put_comparison", "mark_ready"} => "baseline" \in objects'[id]
        /\ step = "mark_ready" => "comparison" \in objects'[id]
        /\ id \in Stored' => Fits([pc |-> step, claimed |-> FALSE], jobs'[id])

LEMMA Survived ==
    ASSUME TypeOK, NEW w \in Worker, worker[w].pc \in Handling,
           \A v \in Worker : v # w => worker'[v] = worker[v]
    PROVE  NoneDied' => NoneDied
<1>1. worker[w].pc # "dead"
    BY DEF Handling, Driving
<1> QED
    BY <1>1 DEF NoneDied

LEMMA MoveEffect ==
    ASSUME Inv, NEW w \in Worker, NEW id \in JobId, id = worker[w].id,
           worker[w].pc \in Handling,
           NEW step \in Handling \cup {"done", "dead"},
           UNCHANGED api, worker' \in [Worker -> WorkerRecord],
           \A v \in Worker : v # w => worker'[v] = worker[v],
           worker'[w].pc = step,
           step \in Handling => worker'[w].id = id /\ worker'[w].claimed = FALSE,
           step \notin Handling => Still(id) /\ (step = "dead" \/ worker[w].pc \notin Holding),
           ByContract, SparesOthers(id), ByWorker(id), Placed(id, step),
           \/ msg' = msg
           \/ /\ msg' = [msg EXCEPT ![id].at = "deleted"]
              /\ NoneDied /\ id \in Stored' => HandedOver(jobs'[id]),
           \/ objects' = objects
           \/ /\ \E S \in SUBSET (Reports \cup {"material"}) : objects' = [objects EXCEPT ![id] = S]
              /\ ObjectsSafe(id)
    PROVE  WorkerEffect(w)
<1>1. /\ StoreInv /\ TypeOK /\ WorkerOK(w) /\ id \in issued /\ w \in LiveOn(id)
    BY Acting
<1>2. NoneDied' => NoneDied
    BY <1>1, Survived
<1>3. /\ msg' \in [JobId -> [at : {"none", "queue", "flight", "dead_letter", "deleted"}, receives : Nat]]
      /\ \A q \in JobId : q # id => msg'[q] = msg[q]
      /\ msg'[id] # msg[id] =>
            /\ msg'[id].at = "deleted"
            /\ NoneDied /\ id \in Stored' => HandedOver(jobs'[id])
    <2>1. msg[id] \in [at : {"none", "queue", "flight", "dead_letter", "deleted"}, receives : Nat]
        BY <1>1 DEF TypeOK
    <2>2. CASE msg' = msg
        BY <1>1, <2>2 DEF TypeOK
    <2>3. CASE /\ msg' = [msg EXCEPT ![id].at = "deleted"]
               /\ NoneDied /\ id \in Stored' => HandedOver(jobs'[id])
        BY <1>1, <2>1, <2>3 DEF TypeOK
    <2> QED
        BY <2>2, <2>3
<1>4. /\ objects' \in [JobId -> SUBSET (Reports \cup {"material"})]
      /\ \A q \in JobId : q # id => objects'[q] = objects[q]
      /\ ObjectsSafe(id)
    BY <1>1 DEF TypeOK, ObjectsSafe
<1>5. TypeOK'
    BY <1>1, <1>3, <1>4 DEF TypeOK, api
<1>6. \A q \in JobId : q # id => Still(q)
    BY <1>1, SparedStill DEF SparesOthers
<1>7. WorkerOK(w)'
    <2> SUFFICES ASSUME step \in Handling PROVE WorkerOK(w)'
        BY DEF WorkerOK
    <2>1. id \in issued'
        BY <1>1 DEF ByWorker, Still, Absent, Gone, Same, Both, Ended, Advanced, Claimed, Released, Marked
    <2>2. id \in Stored' => Fits(worker[w], jobs[id])'
        BY <1>2 DEF Placed, Fits, HandedOver
    <2> QED
        BY <2>1, <2>2 DEF WorkerOK, Placed
<1> QED
    BY <1>1, <1>2, <1>3, <1>4, <1>5, <1>6, <1>7 DEF WorkerEffect, NoneDied

LEMMA GoEffect ==
    ASSUME Inv, NEW w \in Worker, NEW id \in JobId, id = worker[w].id,
           worker[w].pc \in Handling,
           NEW step \in Handling \cup {"done", "dead"}, WorkerGoes(w, step),
           step = "dead" \/ worker[w].pc # "claim",
           step \notin Handling => Still(id) /\ (step = "dead" \/ worker[w].pc \notin Holding),
           ByContract, SparesOthers(id), ByWorker(id), Placed(id, step),
           \/ msg' = msg
           \/ /\ msg' = [msg EXCEPT ![id].at = "deleted"]
              /\ NoneDied /\ id \in Stored' => HandedOver(jobs'[id]),
           \/ objects' = objects
           \/ /\ \E S \in SUBSET (Reports \cup {"material"}) : objects' = [objects EXCEPT ![id] = S]
              /\ ObjectsSafe(id)
    PROVE  WorkerEffect(w)
<1>1. TypeOK /\ WorkerOK(w)
    BY Acting
<1>2. /\ UNCHANGED api /\ worker' \in [Worker -> WorkerRecord]
      /\ \A v \in Worker : v # w => worker'[v] = worker[v]
      /\ worker'[w].pc = step
      /\ step \in Handling => worker'[w].id = id /\ worker'[w].claimed = worker[w].claimed
    BY <1>1, GoFacts
<1>3. step \in Handling => worker[w].claimed = FALSE
    <2>1. worker[w].claimed \in BOOLEAN /\ (worker[w].claimed => worker[w].pc = "claim")
        BY <1>1 DEF TypeOK, WorkerRecord, WorkerOK
    <2>2. step \in Handling => step # "dead"
        BY DEF Handling, Driving
    <2> QED
        BY <2>1, <2>2
<1> QED
    BY <1>2, <1>3, MoveEffect

LEMMA Unmoved ==
    ASSUME StoreInv, NEW id \in JobId, UNCHANGED storeVars
    PROVE  /\ ByContract /\ SparesOthers(id) /\ Still(id)
           /\ Stored' = Stored /\ jobs' = jobs /\ issued' = issued
<1>1. \A q \in JobId : Spared(q)
    BY StillStoreFacts
<1> QED
    BY <1>1, StillStoreFacts, SparedStill DEF SparesOthers, storeVars, Stored

LEMMA GetMaterialEffect ==
    ASSUME Inv, NEW w \in Worker, GetMaterial(w)
    PROVE  WorkerEffect(w)
<1> DEFINE step == IF "material" \in objects[worker[w].id] THEN "claim" ELSE "no_material"
<1>1. /\ worker[w].pc = "material" /\ worker[w].pc \in Handling /\ WorkerGoes(w, step)
      /\ UNCHANGED storeVars /\ objects' = objects /\ msg' = msg
    BY DEF GetMaterial, Handling, aws
<1>2. PICK id \in JobId : id = worker[w].id /\ StoreInv /\ WorkerOK(w)
    BY <1>1, Acting
<1>3. /\ ByContract /\ SparesOthers(id) /\ Still(id)
      /\ Stored' = Stored /\ jobs' = jobs /\ issued' = issued
    BY <1>1, <1>2, Unmoved
<1>4. step \in {"claim", "no_material"} /\ step \in Handling
    BY DEF Handling
<1>5. id \in Stored => Fits(worker[w], jobs[id])
    BY <1>1, <1>2 DEF WorkerOK
<1>6. Placed(id, step)
    BY <1>1, <1>3, <1>4, <1>5 DEF Placed, Fits, Started, StateAt, Looking, Driving, Holding, Closing
<1> HIDE DEF step
<1> QED
    BY <1>1, <1>2, <1>3, <1>4, <1>6, GoEffect DEF ByWorker

LEMMA SucceedEffect ==
    ASSUME Inv, NEW w \in Worker, Succeed(w)
    PROVE  WorkerEffect(w)
<1> DEFINE step == Following[worker[w].pc]
<1>1. /\ worker[w].pc \in {"check_targets", "baseline", "comparison"} /\ worker[w].pc \in Handling
      /\ WorkerGoes(w, step)
      /\ UNCHANGED storeVars /\ objects' = objects /\ msg' = msg
    BY DEF Succeed, Following, Handling, Driving, aws
<1>2. PICK id \in JobId : id = worker[w].id /\ StoreInv /\ WorkerOK(w)
    BY <1>1, Acting
<1>3. /\ ByContract /\ SparesOthers(id) /\ Still(id)
      /\ Stored' = Stored /\ jobs' = jobs /\ issued' = issued
    BY <1>1, <1>2, Unmoved
<1>4. /\ step \in {"start_baseline", "start_comparison", "start_analysis"}
      /\ step \in Handling /\ step \in Holding /\ step \in Started /\ worker[w].pc \in Started
      /\ StateAt[step] = StateAt[worker[w].pc]
      /\ worker[w].pc \in Driving
    BY <1>1 DEF Following, Handling, Driving, Holding, Started, StateAt
<1>5. /\ id \in Stored /\ jobs[id].worker_active /\ jobs[id].state \in {StateAt[step]} \cup Terminal
      /\ Fits(worker[w], jobs[id])
    BY <1>1, <1>2, <1>4 DEF WorkerOK
<1>6. Fits([pc |-> step, claimed |-> FALSE], jobs'[id])
    BY <1>3, <1>4, <1>5 DEF Fits, Looking, Holding, Closing
<1> HIDE DEF step
<1>7. Placed(id, step)
    BY <1>3, <1>4, <1>5, <1>6 DEF Placed
<1> QED
    BY <1>1, <1>2, <1>3, <1>4, <1>7, GoEffect DEF ByWorker

LEMMA AbandonEffect ==
    ASSUME Inv, NEW w \in Worker, Abandon(w)
    PROVE  WorkerEffect(w)
<1>1. /\ worker[w].pc \in Driving /\ worker[w].pc \in Handling /\ worker[w].pc # "claim"
      /\ WorkerGoes(w, "fail")
      /\ UNCHANGED storeVars /\ objects' = objects /\ msg' = msg
    BY DEF Abandon, Handling, Driving, aws
<1>2. PICK id \in JobId : id = worker[w].id /\ StoreInv
    BY <1>1, Acting
<1>3. ByContract /\ SparesOthers(id) /\ Still(id)
    BY <1>1, <1>2, Unmoved
<1>4. "fail" \in Handling
    BY DEF Handling
<1>5. Placed(id, "fail")
    BY DEF Placed, Fits, Started, StateAt, Looking, Driving, Holding, Closing
<1> QED
    BY <1>1, <1>2, <1>3, <1>4, <1>5, GoEffect DEF ByWorker

LEMMA CrashEffect ==
    ASSUME Inv, NEW w \in Worker, Crash(w)
    PROVE  WorkerEffect(w)
<1>1. /\ worker[w].pc \in Handling /\ WorkerGoes(w, "dead")
      /\ UNCHANGED storeVars /\ objects' = objects /\ msg' = msg
    BY DEF Crash, aws
<1>2. PICK id \in JobId : id = worker[w].id /\ StoreInv
    BY <1>1, Acting
<1>3. ByContract /\ SparesOthers(id) /\ Still(id)
    BY <1>1, <1>2, Unmoved
<1>4. "dead" \notin Handling
    BY DEF Handling, Driving
<1>5. Placed(id, "dead")
    BY <1>4 DEF Placed
<1> QED
    BY <1>1, <1>2, <1>3, <1>4, <1>5, GoEffect DEF ByWorker

LEMMA ClaimConflictsEffect ==
    ASSUME Inv, NEW w \in Worker, ClaimConflicts(w)
    PROVE  WorkerEffect(w)
<1>1. /\ worker[w].pc = "claim" /\ worker[w].pc \in Handling /\ Claims(worker[w].id)
      /\ worker' = [worker EXCEPT ![w].claimed = TRUE]
      /\ UNCHANGED storeVars /\ UNCHANGED api /\ objects' = objects /\ msg' = msg
    BY DEF ClaimConflicts, Handling, aws
<1>2. PICK id \in JobId : id = worker[w].id /\ StoreInv /\ WorkerOK(w) /\ TypeOK /\ id \in issued
    BY <1>1, Acting
<1>3. /\ ByContract /\ SparesOthers(id) /\ Still(id)
      /\ Stored' = Stored /\ jobs' = jobs /\ issued' = issued
    BY <1>1, <1>2, Unmoved
<1>4. \A q \in JobId : q # id => Still(q)
    BY <1>2, <1>3, SparedStill DEF SparesOthers
<1>5. /\ worker' \in [Worker -> WorkerRecord]
      /\ \A v \in Worker : v # w => worker'[v] = worker[v]
      /\ worker'[w].pc = "claim" /\ worker'[w].id = id /\ worker'[w].claimed = TRUE
    BY <1>1, <1>2 DEF TypeOK, WorkerRecord
<1>6. TypeOK'
    BY <1>1, <1>2, <1>5 DEF TypeOK, api
<1>7. NoneDied' => NoneDied
    BY <1>1, <1>2, <1>5, Survived
<1>8. ObjectsSafe(id)
    BY <1>1 DEF ObjectsSafe
<1>9. WorkerOK(w)'
    <2>1. id \in Stored' => Fits(worker[w], jobs[id])
        BY <1>1, <1>2, <1>3 DEF WorkerOK
    <2>2. ~jobs[id].worker_active
        BY <1>1, <1>2 DEF Claims, Claimable
    <2>3. id \in Stored' => Fits(worker[w], jobs[id])'
        BY <1>1, <1>3, <1>5, <1>7, <2>1, <2>2 DEF Fits, HandedOver
    <2>4. "claim" \notin Started
        BY DEF Started, StateAt
    <2> QED
        BY <1>2, <1>3, <1>5, <2>3, <2>4 DEF WorkerOK
<1> QED
    BY <1>1, <1>2, <1>3, <1>4, <1>5, <1>6, <1>8, <1>9 DEF WorkerEffect, ByWorker

\* What is known of the job before a step that leaves its record alone.
LEMMA Unchanged ==
    ASSUME Inv, NEW w \in Worker, worker[w].pc \in Handling, UNCHANGED storeVars
    PROVE  \E id \in JobId :
            /\ id = worker[w].id /\ StoreInv /\ TypeOK /\ WorkerOK(w) /\ id \in issued
            /\ ByContract /\ SparesOthers(id) /\ Still(id) /\ ByWorker(id)
            /\ Stored' = Stored /\ jobs' = jobs
            /\ id \in Stored => Fits(worker[w], jobs[id])
<1>1. PICK id \in JobId : id = worker[w].id /\ StoreInv /\ TypeOK /\ WorkerOK(w) /\ id \in issued
    BY Acting
<1>2. /\ ByContract /\ SparesOthers(id) /\ Still(id) /\ Stored' = Stored /\ jobs' = jobs
    BY <1>1, Unmoved
<1>3. id \in Stored => Fits(worker[w], jobs[id])
    BY <1>1 DEF WorkerOK
<1> QED
    BY <1>1, <1>2, <1>3 DEF ByWorker

LEMMA DiscardEffect ==
    ASSUME Inv, NEW w \in Worker, Discard(w)
    PROVE  WorkerEffect(w)
<1>1. /\ worker[w].pc = "discard" /\ worker[w].pc \in Handling
      /\ WorkerGoes(w, "discard_objects") /\ DeleteMessage(worker[w].id)
      /\ UNCHANGED storeVars /\ objects' = objects
    BY DEF Discard, Handling
<1>2. PICK id \in JobId :
        /\ id = worker[w].id /\ StoreInv /\ TypeOK /\ WorkerOK(w) /\ id \in issued
        /\ ByContract /\ SparesOthers(id) /\ Still(id) /\ ByWorker(id)
        /\ Stored' = Stored /\ jobs' = jobs
        /\ id \in Stored => Fits(worker[w], jobs[id])
    BY <1>1, Unchanged
<1>3. id \in Stored => /\ jobs[id].state \in Terminal
                       /\ NoneDied => ~jobs[id].worker_active
    BY <1>1, <1>2 DEF Fits, Holding, Driving
<1>4. "discard_objects" \in Handling
    BY DEF Handling
<1>5. Placed(id, "discard_objects")
    BY <1>2, <1>3 DEF Placed, Fits, Started, StateAt, Looking, Driving, Holding, Closing
<1>6. \/ msg' = msg
      \/ /\ msg' = [msg EXCEPT ![id].at = "deleted"]
         /\ NoneDied /\ id \in Stored' => HandedOver(jobs'[id])
    BY <1>1, <1>2, <1>3 DEF DeleteMessage, HandedOver
<1> QED
    BY <1>1, <1>2, <1>4, <1>5, <1>6, GoEffect

LEMMA AcknowledgeEffect ==
    ASSUME Inv, NEW w \in Worker, Acknowledge(w)
    PROVE  WorkerEffect(w)
<1>1. /\ worker[w].pc = "acknowledge" /\ worker[w].pc \in Handling /\ worker[w].pc \notin Holding
      /\ WorkerGoes(w, "done") /\ DeleteMessage(worker[w].id)
      /\ UNCHANGED storeVars /\ objects' = objects
    BY DEF Acknowledge, Handling, Holding, Driving
<1>2. PICK id \in JobId :
        /\ id = worker[w].id /\ StoreInv /\ TypeOK /\ WorkerOK(w) /\ id \in issued
        /\ ByContract /\ SparesOthers(id) /\ Still(id) /\ ByWorker(id)
        /\ Stored' = Stored /\ jobs' = jobs
        /\ id \in Stored => Fits(worker[w], jobs[id])
    BY <1>1, Unchanged
<1>3. NoneDied /\ id \in Stored => HandedOver(jobs[id])
    BY <1>1, <1>2 DEF Fits, Closing
<1>4. "done" \notin Handling
    BY DEF Handling, Driving
<1>5. Placed(id, "done")
    BY <1>4 DEF Placed
<1>6. \/ msg' = msg
      \/ /\ msg' = [msg EXCEPT ![id].at = "deleted"]
         /\ NoneDied /\ id \in Stored' => HandedOver(jobs'[id])
    BY <1>1, <1>2, <1>3 DEF DeleteMessage
<1> QED
    BY <1>1, <1>2, <1>4, <1>5, <1>6, GoEffect

LEMMA DiscardObjectsEffect ==
    ASSUME Inv, NEW w \in Worker, DiscardObjects(w)
    PROVE  WorkerEffect(w)
<1>1. /\ worker[w].pc = "discard_objects" /\ worker[w].pc \in Handling /\ worker[w].pc \notin Holding
      /\ WorkerGoes(w, "done") /\ objects' = [objects EXCEPT ![worker[w].id] = {}]
      /\ UNCHANGED storeVars /\ msg' = msg
    BY DEF DiscardObjects, Handling, Holding, Driving
<1>2. PICK id \in JobId :
        /\ id = worker[w].id /\ StoreInv /\ TypeOK /\ WorkerOK(w) /\ id \in issued
        /\ ByContract /\ SparesOthers(id) /\ Still(id) /\ ByWorker(id)
        /\ Stored' = Stored /\ jobs' = jobs
        /\ id \in Stored => Fits(worker[w], jobs[id])
    BY <1>1, Unchanged
<1>3. id \in Stored => ~NeedsFinalizing(jobs[id])
    BY <1>1, <1>2 DEF Fits, NeedsFinalizing, Terminal
<1>4. "done" \notin Handling
    BY DEF Handling, Driving
<1>5. Placed(id, "done")
    BY <1>4 DEF Placed
<1>6. /\ \E S \in SUBSET (Reports \cup {"material"}) : objects' = [objects EXCEPT ![id] = S]
      /\ ObjectsSafe(id)
    BY <1>1, <1>2, <1>3 DEF ObjectsSafe
<1> QED
    BY <1>1, <1>2, <1>4, <1>5, <1>6, GoEffect

LEMMA DeleteObjectsEffect ==
    ASSUME Inv, NEW w \in Worker, DeleteObjects(w)
    PROVE  WorkerEffect(w)
<1>1. /\ worker[w].pc = "delete_objects" /\ worker[w].pc \in Handling
      /\ WorkerGoes(w, "acknowledge") /\ objects' = [objects EXCEPT ![worker[w].id] = {}]
      /\ UNCHANGED storeVars /\ msg' = msg
    BY DEF DeleteObjects, Handling
<1>2. PICK id \in JobId :
        /\ id = worker[w].id /\ StoreInv /\ TypeOK /\ WorkerOK(w) /\ id \in issued
        /\ ByContract /\ SparesOthers(id) /\ Still(id) /\ ByWorker(id)
        /\ Stored' = Stored /\ jobs' = jobs
        /\ id \in Stored => Fits(worker[w], jobs[id])
    BY <1>1, Unchanged
<1>3. id \in Stored => /\ ~jobs[id].reports_ready
                       /\ NoneDied => ~jobs[id].worker_active /\ HandedOver(jobs[id])
    BY <1>1, <1>2 DEF Fits, Closing, Holding, Driving
<1>4. "acknowledge" \in Handling
    BY DEF Handling
<1>5. Placed(id, "acknowledge")
    BY <1>2, <1>3 DEF Placed, Fits, Started, StateAt, Looking, Driving
<1>6. /\ \E S \in SUBSET (Reports \cup {"material"}) : objects' = [objects EXCEPT ![id] = S]
      /\ ObjectsSafe(id)
    BY <1>1, <1>2, <1>3 DEF ObjectsSafe, NeedsFinalizing
<1> QED
    BY <1>1, <1>2, <1>4, <1>5, <1>6, GoEffect

LEMMA CleanupEffect ==
    ASSUME Inv, NEW w \in Worker, Cleanup(w)
    PROVE  WorkerEffect(w)
<1>1. /\ worker[w].pc = "cleanup" /\ worker[w].pc \in Handling /\ WorkerGoes(w, "final_get")
      /\ objects' = [objects EXCEPT ![worker[w].id] = @ \ {"material"}]
      /\ UNCHANGED storeVars /\ msg' = msg
    BY DEF Cleanup, Handling
<1>2. PICK id \in JobId :
        /\ id = worker[w].id /\ StoreInv /\ TypeOK /\ WorkerOK(w) /\ id \in issued
        /\ ByContract /\ SparesOthers(id) /\ Still(id) /\ ByWorker(id)
        /\ Stored' = Stored /\ jobs' = jobs
        /\ id \in Stored => Fits(worker[w], jobs[id])
    BY <1>1, Unchanged
<1>3. id \in Stored /\ NoneDied => ~jobs[id].worker_active /\ HandedOver(jobs[id])
    BY <1>1, <1>2 DEF Fits, Closing, Holding, Driving
<1>4. "final_get" \in Handling
    BY DEF Handling
<1>5. Placed(id, "final_get")
    BY <1>2, <1>3 DEF Placed, Fits, Started, StateAt, Looking, Driving
<1>6. objects[id] \in SUBSET (Reports \cup {"material"}) /\ objects' = [objects EXCEPT ![id] = objects[id] \ {"material"}]
    BY <1>1, <1>2 DEF TypeOK
<1>7. objects'[id] = objects[id] \ {"material"}
    BY <1>2, <1>6 DEF TypeOK
<1>8. /\ \E S \in SUBSET (Reports \cup {"material"}) : objects' = [objects EXCEPT ![id] = S]
      /\ ObjectsSafe(id)
    BY <1>6, <1>7 DEF ObjectsSafe, Reports
<1> QED
    BY <1>1, <1>2, <1>4, <1>5, <1>8, GoEffect

LEMMA PutReportEffect ==
    ASSUME Inv, NEW w \in Worker, NEW r \in Reports, NEW step \in {"put_comparison", "mark_ready"},
           worker[w].pc = (IF step = "mark_ready" THEN "put_comparison" ELSE "put_baseline"),
           r = (IF step = "mark_ready" THEN "comparison" ELSE "baseline"),
           objects' = [objects EXCEPT ![worker[w].id] = @ \cup {r}],
           WorkerGoes(w, step), UNCHANGED storeVars, msg' = msg
    PROVE  WorkerEffect(w)
<1>1. worker[w].pc \in Handling /\ worker[w].pc # "claim" /\ worker[w].pc \in Started
    BY DEF Handling, Driving, Started, StateAt
<1>2. PICK id \in JobId :
        /\ id = worker[w].id /\ StoreInv /\ TypeOK /\ WorkerOK(w) /\ id \in issued
        /\ ByContract /\ SparesOthers(id) /\ Still(id) /\ ByWorker(id)
        /\ Stored' = Stored /\ jobs' = jobs
        /\ id \in Stored => Fits(worker[w], jobs[id])
    BY <1>1, Unchanged
<1>3. /\ objects[id] \in SUBSET (Reports \cup {"material"})
      /\ objects' = [objects EXCEPT ![id] = objects[id] \cup {r}]
    BY <1>2 DEF TypeOK
<1>4. objects'[id] = objects[id] \cup {r}
    BY <1>2, <1>3 DEF TypeOK
<1>5. /\ \E S \in SUBSET (Reports \cup {"material"}) : objects' = [objects EXCEPT ![id] = S]
      /\ ObjectsSafe(id)
    BY <1>3, <1>4 DEF ObjectsSafe, Reports
<1>6. /\ step \in Handling /\ step \in Started /\ StateAt[step] = "analyzing"
      /\ StateAt[worker[w].pc] = "analyzing" /\ worker[w].pc \in Driving /\ step \in Driving
    BY DEF Handling, Driving, Started, StateAt
<1>7. /\ id \in Stored /\ jobs[id].worker_active /\ jobs[id].state \in {"analyzing"} \cup Terminal
      /\ Fits(worker[w], jobs[id])
      /\ step = "mark_ready" => "baseline" \in objects[id]
    BY <1>1, <1>2, <1>6 DEF WorkerOK
<1>8. Fits([pc |-> step, claimed |-> FALSE], jobs'[id])
    BY <1>2, <1>6, <1>7 DEF Fits, Looking, Holding, Closing
<1>9. Placed(id, step)
    BY <1>2, <1>4, <1>6, <1>7, <1>8 DEF Placed
<1> QED
    BY <1>1, <1>2, <1>5, <1>6, <1>9, GoEffect

\* What is known of a worker that calls the store.
LEMMA Calling ==
    ASSUME Inv, NEW w \in Worker, worker[w].pc \in Handling
    PROVE  \E id \in JobId :
            /\ id = worker[w].id /\ StoreInv /\ TypeOK /\ WorkerOK(w) /\ id \in issued
            /\ LiveOn(id) # {} /\ RecordOK(id)
            /\ id \in Stored => Fits(worker[w], jobs[id]) /\ jobs[id].state \in State
BY Acting, JobTypes DEF WorkerOK, Inv, JobInv

LEMMA GetJobEffect ==
    ASSUME Inv, NEW w \in Worker, GetJob(w)
    PROVE  WorkerEffect(w)
<1>1. /\ worker[w].pc = "get" /\ worker[w].pc \in Handling /\ objects' = objects /\ msg' = msg
    BY DEF GetJob, Handling, aws
<1>2. PICK id \in JobId :
        /\ id = worker[w].id /\ StoreInv /\ TypeOK /\ WorkerOK(w) /\ id \in issued
        /\ LiveOn(id) # {} /\ RecordOK(id)
        /\ id \in Stored => Fits(worker[w], jobs[id]) /\ jobs[id].state \in State
    BY <1>1, Calling
<1> DEFINE step == IF Live(id) THEN AfterGet(jobs[id]) ELSE "discard"
<1>3. Get(id) /\ WorkerGoes(w, step)
    BY <1>2 DEF GetJob
<1>4. /\ ByContract /\ SparesOthers(id)
      /\ Missing(id) \/ (Live(id) /\ Same(id) /\ jobs'[id] = jobs[id])
    BY <1>2, <1>3, LookedUp
<1>5. ByWorker(id)
    BY <1>4 DEF ByWorker, Missing, Still
<1>6. /\ Live(id) => /\ id \in Stored
                     /\ \/ step = "material" /\ jobs[id].state = "queued"
                        \/ step = "fail_lost"
                        \/ step = "acknowledge" /\ jobs[id].reports_ready
                        \/ step = "discard" /\ jobs[id].state \in Terminal
      /\ ~Live(id) => step = "discard"
    BY DEF AfterGet, Live, IsActive
<1> HIDE DEF step
<1>7. step \in {"material", "fail_lost", "acknowledge", "discard"} /\ step \in Handling
    BY <1>6 DEF Handling
<1>8. Placed(id, step)
    <2>1. CASE Missing(id)
        BY <1>6, <2>1 DEF Missing, Placed, Started, StateAt
    <2>2. CASE Live(id) /\ Same(id) /\ jobs'[id] = jobs[id]
        <3>1. /\ NoneDied => ~jobs[id].worker_active
              /\ jobs[id].reports_ready => jobs[id].state # "queued"
            BY <1>1, <1>2, <1>6, <2>2 DEF Fits, Holding, Driving, RecordOK, Terminal
        <3> QED
            BY <1>6, <1>7, <2>2, <3>1
                DEF Placed, Fits, HandedOver, Started, StateAt, Looking, Driving, Holding, Closing
    <2> QED
        BY <1>4, <2>1, <2>2
<1> QED
    BY <1>1, <1>2, <1>3, <1>4, <1>5, <1>7, <1>8, GoEffect

LEMMA FailLostEffect ==
    ASSUME Inv, NEW w \in Worker, FailLost(w)
    PROVE  WorkerEffect(w)
<1>1. /\ worker[w].pc = "fail_lost" /\ worker[w].pc \in Handling /\ objects' = objects /\ msg' = msg
      /\ FailJob(worker[w].id) /\ WorkerGoes(w, "release_lost")
    BY DEF FailLost, Handling, aws
<1>2. PICK id \in JobId :
        /\ id = worker[w].id /\ StoreInv /\ TypeOK /\ WorkerOK(w) /\ id \in issued
        /\ LiveOn(id) # {} /\ RecordOK(id)
        /\ id \in Stored => Fits(worker[w], jobs[id]) /\ jobs[id].state \in State
    BY <1>1, Calling
<1>3. /\ ByContract /\ SparesOthers(id)
      /\ Missing(id)
         \/ /\ Live(id) /\ Both(id) /\ SameFlags(id) /\ jobs'[id].state \in Terminal
            /\ Ended(id) \/ Same(id)
    BY <1>1, <1>2, FailedJob
<1>4. ByWorker(id)
    BY <1>3 DEF ByWorker, Missing, Still
<1>5. "release_lost" \in Handling
    BY DEF Handling
<1>6. id \in Stored' => jobs'[id].state \in Terminal /\ (NoneDied => ~jobs'[id].worker_active)
    BY <1>1, <1>2, <1>3 DEF Missing, Both, SameFlags, Fits, Holding, Driving
<1>7. Placed(id, "release_lost")
    BY <1>6 DEF Placed, Fits, Started, StateAt, Looking, Driving, Closing
<1> QED
    BY <1>1, <1>2, <1>3, <1>4, <1>5, <1>7, GoEffect

LEMMA FailNoMaterialEffect ==
    ASSUME Inv, NEW w \in Worker, FailNoMaterial(w)
    PROVE  WorkerEffect(w)
<1>1. /\ worker[w].pc = "no_material" /\ worker[w].pc \in Handling /\ objects' = objects /\ msg' = msg
      /\ FailJob(worker[w].id) /\ WorkerGoes(w, "discard")
    BY DEF FailNoMaterial, Handling, aws
<1>2. PICK id \in JobId :
        /\ id = worker[w].id /\ StoreInv /\ TypeOK /\ WorkerOK(w) /\ id \in issued
        /\ LiveOn(id) # {} /\ RecordOK(id)
        /\ id \in Stored => Fits(worker[w], jobs[id]) /\ jobs[id].state \in State
    BY <1>1, Calling
<1>3. /\ ByContract /\ SparesOthers(id)
      /\ Missing(id)
         \/ /\ Live(id) /\ Both(id) /\ SameFlags(id) /\ jobs'[id].state \in Terminal
            /\ Ended(id) \/ Same(id)
    BY <1>1, <1>2, FailedJob
<1>4. ByWorker(id)
    BY <1>3 DEF ByWorker, Missing, Still
<1>5. "discard" \in Handling
    BY DEF Handling
<1>6. id \in Stored' => jobs'[id].state \in Terminal /\ (NoneDied => ~jobs'[id].worker_active)
    BY <1>1, <1>2, <1>3 DEF Missing, Both, SameFlags, Fits, Holding, Driving
<1>7. Placed(id, "discard")
    BY <1>6 DEF Placed, Fits, Started, StateAt, Looking, Driving, Closing
<1> QED
    BY <1>1, <1>2, <1>3, <1>4, <1>5, <1>7, GoEffect

LEMMA FailRunEffect ==
    ASSUME Inv, NEW w \in Worker, FailRun(w)
    PROVE  WorkerEffect(w)
<1>1. /\ worker[w].pc = "fail" /\ worker[w].pc \in Handling /\ objects' = objects /\ msg' = msg
      /\ FailJob(worker[w].id) /\ WorkerGoes(w, "release")
    BY DEF FailRun, Handling, aws
<1>2. PICK id \in JobId :
        /\ id = worker[w].id /\ StoreInv /\ TypeOK /\ WorkerOK(w) /\ id \in issued
        /\ LiveOn(id) # {} /\ RecordOK(id)
        /\ id \in Stored => Fits(worker[w], jobs[id]) /\ jobs[id].state \in State
    BY <1>1, Calling
<1>3. /\ ByContract /\ SparesOthers(id)
      /\ Missing(id)
         \/ /\ Live(id) /\ Both(id) /\ SameFlags(id) /\ jobs'[id].state \in Terminal
            /\ Ended(id) \/ Same(id)
    BY <1>1, <1>2, FailedJob
<1>4. ByWorker(id)
    BY <1>3 DEF ByWorker, Missing, Still
<1>5. "release" \in Handling
    BY DEF Handling
<1>6. id \in Stored' => HandedOver(jobs'[id])
    BY <1>3 DEF Missing, HandedOver
<1>7. Placed(id, "release")
    BY <1>6 DEF Placed, Fits, Started, StateAt, Looking, Driving, Holding, Closing
<1> QED
    BY <1>1, <1>2, <1>3, <1>4, <1>5, <1>7, GoEffect

LEMMA ReleaseLostEffect ==
    ASSUME Inv, NEW w \in Worker, ReleaseLost(w)
    PROVE  WorkerEffect(w)
<1>1. /\ worker[w].pc = "release_lost" /\ worker[w].pc \in Handling /\ objects' = objects /\ msg' = msg
      /\ Call(worker[w].id, [kind |-> "release"], now) /\ WorkerGoes(w, "discard")
    BY DEF ReleaseLost, Handling, aws
<1>2. PICK id \in JobId :
        /\ id = worker[w].id /\ StoreInv /\ TypeOK /\ WorkerOK(w) /\ id \in issued
        /\ LiveOn(id) # {} /\ RecordOK(id)
        /\ id \in Stored => Fits(worker[w], jobs[id]) /\ jobs[id].state \in State
    BY <1>1, Calling
<1>3. ByContract /\ SparesOthers(id) /\ (Missing(id) \/ (Live(id) /\ Released(id)))
    BY <1>1, <1>2, ReleasedJob
<1>4. ByWorker(id)
    BY <1>3 DEF ByWorker, Missing
<1>5. "discard" \in Handling
    BY DEF Handling
<1>6. id \in Stored' => jobs'[id].state \in Terminal /\ ~jobs'[id].worker_active
    BY <1>1, <1>2, <1>3 DEF Missing, Released, Both, SameState, Fits
<1>7. Placed(id, "discard")
    BY <1>6 DEF Placed, Fits, Started, StateAt, Looking, Driving, Closing
<1> QED
    BY <1>1, <1>2, <1>3, <1>4, <1>5, <1>7, GoEffect

LEMMA ReleaseJobEffect ==
    ASSUME Inv, NEW w \in Worker, ReleaseJob(w)
    PROVE  WorkerEffect(w)
<1>1. /\ worker[w].pc = "release" /\ worker[w].pc \in Handling /\ objects' = objects /\ msg' = msg
      /\ Call(worker[w].id, [kind |-> "release"], now) /\ WorkerGoes(w, "cleanup")
    BY DEF ReleaseJob, Handling, aws
<1>2. PICK id \in JobId :
        /\ id = worker[w].id /\ StoreInv /\ TypeOK /\ WorkerOK(w) /\ id \in issued
        /\ LiveOn(id) # {} /\ RecordOK(id)
        /\ id \in Stored => Fits(worker[w], jobs[id]) /\ jobs[id].state \in State
    BY <1>1, Calling
<1>3. ByContract /\ SparesOthers(id) /\ (Missing(id) \/ (Live(id) /\ Released(id)))
    BY <1>1, <1>2, ReleasedJob
<1>4. ByWorker(id)
    BY <1>3 DEF ByWorker, Missing
<1>5. "cleanup" \in Handling
    BY DEF Handling
<1>6. id \in Stored' => HandedOver(jobs'[id]) /\ ~jobs'[id].worker_active
    BY <1>1, <1>2, <1>3 DEF Missing, Released, Both, SameState, Fits, HandedOver
<1>7. Placed(id, "cleanup")
    BY <1>6 DEF Placed, Fits, Started, StateAt, Looking, Driving
<1> QED
    BY <1>1, <1>2, <1>3, <1>4, <1>5, <1>7, GoEffect

LEMMA ClaimJobEffect ==
    ASSUME Inv, NEW w \in Worker, ClaimJob(w)
    PROVE  WorkerEffect(w)
<1>1. /\ worker[w].pc = "claim" /\ worker[w].pc \in Handling /\ worker[w].pc \in Looking
      /\ objects' = objects /\ msg' = msg /\ UNCHANGED api
      /\ Call(worker[w].id, [kind |-> "claim"], now)
    BY DEF ClaimJob, Handling, Looking, aws
<1>2. PICK id \in JobId :
        /\ id = worker[w].id /\ StoreInv /\ TypeOK /\ WorkerOK(w) /\ id \in issued
        /\ LiveOn(id) # {} /\ RecordOK(id)
        /\ id \in Stored => Fits(worker[w], jobs[id]) /\ jobs[id].state \in State
    BY <1>1, Calling
<1> DEFINE step == IF worker[w].claimed \/ Claims(id) THEN "validate" ELSE "cleanup"
<1>3. worker' = [worker EXCEPT ![w].claimed = FALSE, ![w].pc = step]
    BY <1>2 DEF ClaimJob
<1>4. /\ ByContract /\ SparesOthers(id)
      /\ \/ Missing(id)
         \/ Live(id) /\ Claimable(jobs[id]) /\ Claimed(id)
         \/ Live(id) /\ ~Claimable(jobs[id]) /\ Same(id)
    BY <1>1, <1>2, ClaimedJob
<1>5. ByWorker(id)
    BY <1>4 DEF ByWorker, Missing, Still
<1>6. step \in {"validate", "cleanup"} /\ step \in Handling
    BY DEF Handling, Driving
<1>7. step = "validate" <=> worker[w].claimed \/ Claims(id)
    OBVIOUS
<1> HIDE DEF step
<1>8. /\ worker' \in [Worker -> WorkerRecord]
      /\ \A v \in Worker : v # w => worker'[v] = worker[v]
      /\ worker'[w].pc = step /\ worker'[w].id = id /\ worker'[w].claimed = FALSE
    BY <1>2, <1>3, <1>6 DEF TypeOK, WorkerRecord
<1>9. Placed(id, step)
    <2>1. CASE Missing(id)
        BY <1>6, <2>1 DEF Missing, Placed, Started, StateAt
    <2>2. CASE Live(id) /\ Claimable(jobs[id]) /\ Claimed(id)
        <3>1. step = "validate" /\ jobs'[id].state = "queued" /\ jobs'[id].worker_active
            BY <1>7, <2>2 DEF Claims, Claimed, SameState
        <3>2. ~jobs'[id].reports_ready
            BY <1>1, <1>2, <2>2 DEF Claimed, Both, Fits
        <3> QED
            BY <3>1, <3>2 DEF Placed, Fits, Started, StateAt, Looking, Driving, Holding, Closing
    <2>3. CASE Live(id) /\ ~Claimable(jobs[id]) /\ Same(id)
        <3>1. /\ id \in Stored /\ jobs[id].state \in {"queued"} \cup Terminal
              /\ ~jobs[id].reports_ready
              /\ worker[w].claimed => ~jobs[id].worker_active
              /\ NoneDied => ~jobs[id].worker_active
            BY <1>1, <1>2, <2>3 DEF Same, Both, Fits, Holding, Driving
        <3>2. ~jobs[id].worker_active => jobs[id].state \in Terminal
            BY <2>3, <3>1 DEF Claimable
        <3>3. step = "validate" => worker[w].claimed
            BY <1>7, <2>3 DEF Claims
        <3>4. /\ jobs'[id].state = jobs[id].state /\ jobs'[id].worker_active = jobs[id].worker_active
              /\ jobs'[id].reports_ready = jobs[id].reports_ready
            BY <2>3 DEF Same, SameState, SameFlags
        <3>5. CASE step = "validate"
            BY <3>1, <3>2, <3>3, <3>4, <3>5
                DEF Placed, Fits, Started, StateAt, Looking, Driving, Holding, Closing
        <3>6. CASE step = "cleanup"
            BY <3>1, <3>2, <3>4, <3>6
                DEF Placed, Fits, Started, StateAt, Looking, Driving, HandedOver
        <3> QED
            BY <1>6, <3>5, <3>6
    <2> QED
        BY <1>4, <2>1, <2>2, <2>3
<1> QED
    BY <1>1, <1>2, <1>4, <1>5, <1>6, <1>8, <1>9, MoveEffect

\* The four writes of run_job.
Stages ==
    {<<"validate", "validating", "check_targets">>,
     <<"start_baseline", "running_baseline", "baseline">>,
     <<"start_comparison", "running_comparison", "comparison">>,
     <<"start_analysis", "analyzing", "put_baseline">>}

LEMMA StageEffect ==
    ASSUME Inv, NEW w \in Worker, NEW from, NEW s, NEW to, <<from, s, to>> \in Stages,
           Stage(w, from, s, to)
    PROVE  WorkerEffect(w)
<1>1. /\ worker[w].pc = from /\ objects' = objects /\ msg' = msg
      /\ Call(worker[w].id, Write(s, NoAnalysis), now)
    BY DEF Stage, aws
<1>2. /\ from \in Handling /\ from \in Driving /\ from # "claim"
      /\ to \in Handling /\ to \in Driving /\ to \in Holding /\ to \in Started /\ StateAt[to] = s
      /\ to \in {"check_targets", "baseline", "comparison", "put_baseline"}
      /\ s \in Written /\ s # "ready" /\ s \notin Terminal
    BY DEF Stages, Handling, Driving, Holding, Started, StateAt, Written, State, Terminal
<1>3. PICK id \in JobId :
        /\ id = worker[w].id /\ StoreInv /\ TypeOK /\ WorkerOK(w) /\ id \in issued
        /\ LiveOn(id) # {} /\ RecordOK(id)
        /\ id \in Stored => Fits(worker[w], jobs[id]) /\ jobs[id].state \in State
    BY <1>1, <1>2, Calling
<1> DEFINE step == IF Live(id) /\ Wrote(jobs[id]) THEN to ELSE "release"
<1>4. WorkerGoes(w, step)
    BY <1>3 DEF Stage
<1>5. /\ ByContract /\ SparesOthers(id)
      /\ Missing(id)
         \/ /\ Live(id) /\ Both(id) /\ SameFlags(id)
            /\ jobs'[id].analysis_id = jobs[id].analysis_id
            /\ \/ Wrote(jobs[id]) /\ jobs'[id].state = s
               \/ ~Wrote(jobs[id]) /\ Ended(id)
               \/ ~Wrote(jobs[id]) /\ jobs[id].state \in Terminal /\ Same(id)
    BY <1>1, <1>2, <1>3, WrittenTo
<1>6. step \in Handling /\ step \in {to, "release"}
    BY <1>2 DEF Handling
<1>7. CASE /\ Live(id) /\ Both(id) /\ SameFlags(id) /\ jobs'[id].analysis_id = jobs[id].analysis_id
           /\ Wrote(jobs[id]) /\ jobs'[id].state = s
    <2>1. step = to
        BY <1>7
    <2>2. /\ ~jobs[id].reports_ready /\ IsActive(jobs[id])
        BY <1>1, <1>2, <1>3, <1>7 DEF Both, Fits, Wrote
    <2>3. /\ jobs[id].worker_active /\ <<jobs[id].state, s>> \in Forward
        <3>1. CASE from = "validate"
            <4>1. s = "validating"
                BY <3>1 DEF Stages
            <4> QED
                BY <1>1, <1>3, <1>7, <2>2, <3>1, <4>1 DEF Both, Fits, IsActive, Forward
        <3>2. CASE from # "validate"
            <4>1. from \in Started /\ <<StateAt[from], s>> \in Forward
                BY <3>2 DEF Stages, Started, StateAt, Forward
            <4>2. jobs[id].worker_active /\ jobs[id].state = StateAt[from]
                BY <1>1, <1>2, <1>3, <2>2, <4>1 DEF WorkerOK, IsActive
            <4> QED
                BY <4>1, <4>2
        <3> QED
            BY <3>1, <3>2
    <2>4. Advanced(id)
        BY <1>3, <1>7, <2>2, <2>3 DEF Advanced
    <2>5. Fits([pc |-> to, claimed |-> FALSE], jobs'[id])
        BY <1>2, <1>7, <2>2, <2>3 DEF SameFlags, Fits, Looking, Closing
    <2>6. Placed(id, to)
        BY <1>2, <1>7, <2>3, <2>5 DEF Placed, Both, SameFlags
    <2> HIDE DEF step
    <2> QED
        BY <1>1, <1>2, <1>3, <1>4, <1>5, <1>6, <2>1, <2>4, <2>6, GoEffect DEF ByWorker
<1>8. CASE \/ Missing(id)
           \/ ~Wrote(jobs[id]) /\ Ended(id)
           \/ ~Wrote(jobs[id]) /\ jobs[id].state \in Terminal /\ Same(id)
    <2>1. step = "release"
        BY <1>8 DEF Missing
    <2>2. ByWorker(id) /\ (id \in Stored' => HandedOver(jobs'[id]))
        BY <1>8 DEF ByWorker, Missing, Still, Ended, Same, SameState, HandedOver, Terminal
    <2>3. Placed(id, "release")
        BY <2>2 DEF Placed, Fits, Started, StateAt, Looking, Driving, Holding, Closing
    <2> HIDE DEF step
    <2> QED
        BY <1>1, <1>2, <1>3, <1>4, <1>5, <1>6, <2>1, <2>2, <2>3, GoEffect
<1> QED
    BY <1>5, <1>7, <1>8

LEMMA MarkReadyEffect ==
    ASSUME Inv, NEW w \in Worker, MarkReady(w)
    PROVE  WorkerEffect(w)
<1>1. /\ worker[w].pc = "mark_ready" /\ worker[w].pc \in Handling /\ worker[w].pc \in Started
      /\ StateAt["mark_ready"] = "analyzing"
      /\ objects' = objects /\ msg' = msg
      /\ Call(worker[w].id, [kind |-> "reports"], now) /\ WorkerGoes(w, "release")
    BY DEF MarkReady, Handling, Driving, Started, StateAt, aws
<1>2. PICK id \in JobId :
        /\ id = worker[w].id /\ StoreInv /\ TypeOK /\ WorkerOK(w) /\ id \in issued
        /\ LiveOn(id) # {} /\ RecordOK(id)
        /\ id \in Stored => Fits(worker[w], jobs[id]) /\ jobs[id].state \in State
    BY <1>1, Calling
<1>3. /\ id \in Stored /\ jobs[id].worker_active /\ jobs[id].state \in {"analyzing"} \cup Terminal
      /\ Reports \subseteq objects[id]
    BY <1>1, <1>2 DEF WorkerOK, Reports
<1>4. /\ ByContract /\ SparesOthers(id) /\ Marked(id)
    <2>1. Live(id)
        BY <1>3, DrivenIsLive
    <2>2. ~Missing(id)
        BY <2>1 DEF Missing
    <2> QED
        BY <1>1, <1>2, <1>3, <2>2, MarkedJob DEF Marked
<1>5. "release" \in Handling
    BY DEF Handling
<1>6. Placed(id, "release")
    BY <1>4 DEF Marked, Placed, Fits, Started, StateAt, Looking, Driving, Holding, Closing, HandedOver
<1> QED
    BY <1>1, <1>2, <1>4, <1>5, <1>6, GoEffect DEF ByWorker

LEMMA FinalGetEffect ==
    ASSUME Inv, NEW w \in Worker, FinalGet(w)
    PROVE  WorkerEffect(w)
<1>1. /\ worker[w].pc = "final_get" /\ worker[w].pc \in Handling /\ objects' = objects /\ msg' = msg
    BY DEF FinalGet, Handling, aws
<1>2. PICK id \in JobId :
        /\ id = worker[w].id /\ StoreInv /\ TypeOK /\ WorkerOK(w) /\ id \in issued
        /\ LiveOn(id) # {} /\ RecordOK(id)
        /\ id \in Stored => Fits(worker[w], jobs[id]) /\ jobs[id].state \in State
    BY <1>1, Calling
<1> DEFINE step == IF Keeps(id) THEN "acknowledge" ELSE "delete_objects"
<1>3. Get(id) /\ WorkerGoes(w, step)
    BY <1>2 DEF FinalGet
<1>4. /\ ByContract /\ SparesOthers(id)
      /\ Missing(id) \/ (Live(id) /\ Same(id) /\ jobs'[id] = jobs[id])
    BY <1>2, <1>3, LookedUp
<1>5. ByWorker(id)
    BY <1>4 DEF ByWorker, Missing, Still
<1>6. /\ step \in {"acknowledge", "delete_objects"} /\ step \in Handling
      /\ step = "delete_objects" => ~Keeps(id)
    BY DEF Handling
<1> HIDE DEF step
<1>7. Placed(id, step)
    <2>1. CASE Missing(id)
        BY <1>6, <2>1 DEF Missing, Placed, Started, StateAt
    <2>2. CASE Live(id) /\ Same(id) /\ jobs'[id] = jobs[id]
        <3>1. /\ NoneDied => ~jobs[id].worker_active /\ HandedOver(jobs[id])
              /\ step = "delete_objects" => ~jobs[id].reports_ready
            BY <1>1, <1>2, <1>6, <2>2 DEF Same, Both, Fits, Holding, Driving, Closing, Keeps
        <3> QED
            BY <1>6, <2>2, <3>1 DEF Placed, Fits, Started, StateAt, Looking, Driving
    <2> QED
        BY <1>4, <2>1, <2>2
<1> QED
    BY <1>1, <1>2, <1>3, <1>4, <1>5, <1>6, <1>7, GoEffect

LEMMA WorkerStepEffect ==
    ASSUME Inv, NEW w \in Worker, WorkerStep(w) \/ ClaimConflicts(w) \/ Crash(w)
    PROVE  WorkerEffect(w)
<1>1. ASSUME EnterStage(w) PROVE WorkerEffect(w)
    <2>1. PICK st \in Stages : Stage(w, st[1], st[2], st[3]) /\ st = <<st[1], st[2], st[3]>>
        BY <1>1 DEF EnterStage, Stages
    <2> QED
        BY <2>1, StageEffect
<1>2. ASSUME PutReport(w) PROVE WorkerEffect(w)
    <2>1. UNCHANGED storeVars /\ msg' = msg
        BY <1>2 DEF PutReport
    <2>2. CASE /\ worker[w].pc = "put_baseline"
               /\ objects' = [objects EXCEPT ![worker[w].id] = @ \cup {"baseline"}]
               /\ WorkerGoes(w, "put_comparison")
        BY <2>1, <2>2, PutReportEffect DEF Reports
    <2>3. CASE /\ worker[w].pc = "put_comparison"
               /\ objects' = [objects EXCEPT ![worker[w].id] = @ \cup {"comparison"}]
               /\ WorkerGoes(w, "mark_ready")
        BY <2>1, <2>3, PutReportEffect DEF Reports
    <2> QED
        BY <1>2, <2>2, <2>3 DEF PutReport
<1> QED
    BY <1>1, <1>2, GetJobEffect, FailLostEffect, ReleaseLostEffect, DiscardEffect,
       DiscardObjectsEffect, GetMaterialEffect, FailNoMaterialEffect, ClaimJobEffect, SucceedEffect,
       MarkReadyEffect, AbandonEffect, FailRunEffect, ReleaseJobEffect, CleanupEffect, FinalGetEffect,
       DeleteObjectsEffect, AcknowledgeEffect, ClaimConflictsEffect, CrashEffect
       DEF WorkerStep

-----------------------------------------------------------------------------
(* Steps of everybody else, while the workers stay where they are. *)

ApiEffect ==
    /\ ByContract /\ TypeOK' /\ worker' = worker
    /\ MaxRestarts = 0 => analyses \subseteq analyses'
    /\ \A q \in JobId :
        /\ ByOthers(q) /\ ObjectsSafe(q) /\ Spares(q)
        /\ \/ msg'[q] = msg[q] /\ launch'[q] = launch[q] /\ (q \in issued' <=> q \in issued)
           \/ LaunchOK(q)' /\ QueueOK(q)' /\ (msg'[q].at = "deleted" => msg[q].at = "deleted")
        /\ removal'[q] = removal[q] \/ RemovalOK(q)'
    /\ \A p \in Poll : poll'[p] = poll[p] \/ PollOK(p)'

LEMMA ApiEffectKeeps ==
    ASSUME Inv, ApiEffect
    PROVE  StepOK
<1>1. /\ StoreInv /\ ByContract /\ TypeOK' /\ worker' = worker
      /\ MaxRestarts = 0 => analyses \subseteq analyses'
      /\ \A q \in JobId : JobInv(q) /\ ByOthers(q) /\ ObjectsSafe(q) /\ Spares(q)
    BY DEF Inv, ApiEffect
<1>2. StoreInv'
    BY <1>1, StepStoreInv DEF ByContract
<1>3. now' \in {now, now + 1}
    BY <1>1, ClockAdvances
<1>4. (NoneDied' <=> NoneDied) /\ \A q \in JobId : LiveOn(q)' = LiveOn(q)
    BY <1>1 DEF NoneDied, LiveOn
<1>5. ASSUME NEW q \in JobId PROVE JobInv(q)' /\ LifeStep(q)
    <2>1. OneHandler(q)'
        BY <1>1, <1>4 DEF JobInv, OneHandler
    <2>2. LaunchOK(q)' /\ QueueOK(q)' /\ (msg'[q].at = "deleted" => msg[q].at = "deleted")
        <3>1. CASE msg'[q] = msg[q] /\ launch'[q] = launch[q] /\ (q \in issued' <=> q \in issued)
            BY <1>1, <1>4, <3>1 DEF JobInv, LaunchOK, QueueOK
        <3> QED
            BY <3>1 DEF ApiEffect
    <2>3. RemovalOK(q)'
        <3>1. removal'[q] = removal[q] \/ RemovalOK(q)'
            BY DEF ApiEffect
        <3> QED
            BY <1>1, <3>1, RemovalUndisturbed
    <2>4. RecordOK(q)'
        BY <1>1, <1>2, RecordUndisturbed
    <2>5. SettledOK(q)'
        BY <1>1, <1>4, <2>2, SettledUndisturbed
    <2>6. LifeStep(q)
        BY <1>1, <1>2, <1>4, LifeMoved
    <2> QED
        BY <2>1, <2>2, <2>3, <2>4, <2>5, <2>6 DEF JobInv
<1>6. ASSUME NEW v \in Worker PROVE WorkerOK(v)'
    <2>1. worker[v].pc \in Handling => worker[v].id \in JobId
        BY DEF Inv, WorkerOK, StoreInv, StoreTypeOK
    <2> QED
        BY <1>1, <1>4, <2>1, WorkerUndisturbed
<1>7. ASSUME NEW p \in Poll PROVE PollOK(p)'
    <2>1. Polling(p) => poll[p].id \in JobId
        BY DEF Inv, PollOK, StoreInv, StoreTypeOK
    <2>2. poll'[p] = poll[p] \/ PollOK(p)'
        BY DEF ApiEffect
    <2> QED
        BY <1>1, <1>3, <2>1, <2>2, PollUndisturbed
<1> QED
    BY <1>1, <1>2, <1>5, <1>6, <1>7 DEF StepOK, Inv

\* A call that names one job, and what follows it, in the terms of ApiEffect.
LEMMA OthersUndisturbed ==
    ASSUME StoreInv, NEW id \in JobId, SparesOthers(id),
           \A q \in JobId : q # id => objects'[q] = objects[q]
    PROVE  \A q \in JobId : q # id =>
            ByOthers(q) /\ ObjectsSafe(q) /\ Spares(q) /\ (q \in issued' <=> q \in issued)
<1> SUFFICES ASSUME NEW q \in JobId, q # id
             PROVE  ByOthers(q) /\ ObjectsSafe(q) /\ Spares(q) /\ (q \in issued' <=> q \in issued)
    OBVIOUS
<1>1. Spared(q)
    BY DEF SparesOthers
<1>2. Still(q)
    BY <1>1, SparedStill
<1> QED
    BY <1>1, <1>2 DEF ByOthers, ObjectsSafe, Spares, Spared

LEMMA DeletedJob ==
    ASSUME StoreInv, NEW id \in JobId, Delete(id), ~jobs[id].worker_active \/ LiveOn(id) = {}
    PROVE  ByContract /\ SparesOthers(id) /\ Gone(id) /\ issued' = issued
<1>1. ByContract /\ SparesOthers(id) /\ issued' = issued /\ jobs'[id] = NoJob
    BY DeleteFacts
<1>2. id \in Stored
    BY DEF Delete
<1> QED
    BY <1>1, <1>2 DEF Gone, Stored, StoreInv

-----------------------------------------------------------------------------
(* The launcher. *)

LEMMA LaunchEffect ==
    ASSUME Inv, NEW id \in JobId, NEW step \in (Unsent \ {"none"}) \cup {"fail", "drop_material", "done"},
           LaunchGoes(id, step), ByContract, SparesOthers(id), ByOthers(id), id \in issued',
           step \in Unsent => msg[id].at = "none",
           \/ msg' = msg
           \/ msg' = [msg EXCEPT ![id].at = "queue"] /\ LiveOn(id) = {} /\ step \notin Unsent,
           \/ objects' = objects
           \/ \E S \in SUBSET (Reports \cup {"material"}) :
                objects' = [objects EXCEPT ![id] = S] /\ Reports \cap objects[id] \subseteq S
    PROVE  ApiEffect
<1>1. /\ launch' = [launch EXCEPT ![id] = step] /\ removal' = removal /\ worker' = worker
      /\ poll' = poll /\ analyses' = analyses /\ restarts' = restarts
    BY DEF LaunchGoes
<1>2. StoreInv /\ TypeOK /\ JobInv(id)
    BY DEF Inv
<1>3. /\ launch'[id] = step /\ \A q \in JobId : q # id => launch'[q] = launch[q]
      /\ launch' \in [JobId -> Unsent \cup {"fail", "drop_material", "done"}]
    BY <1>1, <1>2 DEF TypeOK
<1>4. /\ msg' \in [JobId -> [at : {"none", "queue", "flight", "dead_letter", "deleted"}, receives : Nat]]
      /\ \A q \in JobId : q # id => msg'[q] = msg[q]
      /\ msg'[id] = msg[id] \/ (msg'[id].at = "queue" /\ LiveOn(id) = {} /\ step \notin Unsent)
    <2>1. msg[id] \in [at : {"none", "queue", "flight", "dead_letter", "deleted"}, receives : Nat]
        BY <1>2 DEF TypeOK
    <2>2. CASE msg' = msg
        BY <1>2, <2>2 DEF TypeOK
    <2>3. CASE msg' = [msg EXCEPT ![id].at = "queue"] /\ LiveOn(id) = {} /\ step \notin Unsent
        BY <1>2, <2>1, <2>3 DEF TypeOK
    <2> QED
        BY <2>2, <2>3
<1>5. /\ objects' \in [JobId -> SUBSET (Reports \cup {"material"})]
      /\ \A q \in JobId : q # id => objects'[q] = objects[q]
      /\ Reports \cap objects[id] \subseteq objects'[id]
    BY <1>2 DEF TypeOK
<1>6. TypeOK'
    BY <1>1, <1>2, <1>3, <1>4, <1>5 DEF TypeOK
<1>7. ObjectsSafe(id) /\ Spares(id)
    BY <1>5 DEF ObjectsSafe, Spares
<1>8. LaunchOK(id)' /\ QueueOK(id)' /\ (msg'[id].at = "deleted" => msg[id].at = "deleted")
    <2>1. LiveOn(id)' = LiveOn(id)
        BY <1>1 DEF LiveOn
    <2>2. step # "none"
        BY DEF Unsent
    <2> QED
        BY <1>2, <1>3, <1>4, <2>1, <2>2 DEF JobInv, LaunchOK, QueueOK
<1>9. \A q \in JobId : q # id =>
            ByOthers(q) /\ ObjectsSafe(q) /\ Spares(q) /\ (q \in issued' <=> q \in issued)
    BY <1>2, <1>5, OthersUndisturbed
<1> QED
    BY <1>1, <1>3, <1>4, <1>6, <1>7, <1>8, <1>9 DEF ApiEffect

\* A launch that goes on belongs to a job that was issued, and until it sends
\* its message nobody handles the job.
LEMMA Launching ==
    ASSUME Inv, NEW id \in JobId, launch[id] # "none"
    PROVE  /\ id \in issued
           /\ launch[id] \in Unsent => msg[id].at = "none" /\ LiveOn(id) = {}
BY DEF Inv, JobInv, LaunchOK, QueueOK

LEMMA CreateEffect ==
    ASSUME Inv, NEW id \in JobId, Create(id)
    PROVE  ApiEffect
<1>1. /\ launch[id] = "none" /\ LaunchGoes(id, "charge") /\ msg' = msg /\ objects' = objects
    BY DEF Create, aws
<1>2. PICK o \in Owner : Insert(id, o, NoKey, now)
    BY DEF Create
<1>3. StoreInv /\ msg[id].at = "none"
    BY <1>1 DEF Inv, JobInv, LaunchOK, Unsent
<1>4. /\ ByContract /\ SparesOthers(id)
      /\ id \notin issued /\ issued' = issued \cup {id}
      /\ id \notin Stored /\ id \in Stored'
      /\ jobs'[id] = NewJob(o, NoKey, now)
    BY <1>2, <1>3, InsertFacts, ClockFacts
<1>5. ByOthers(id) /\ id \in issued'
    BY <1>4 DEF ByOthers, Created
<1>6. "charge" \in Unsent \ {"none"}
    BY DEF Unsent
<1> QED
    BY <1>1, <1>3, <1>4, <1>5, <1>6, LaunchEffect

LEMMA ChargeEffect ==
    ASSUME Inv, NEW id \in JobId, Charge(id)
    PROVE  ApiEffect
<1>1. launch[id] = "charge" /\ msg' = msg /\ objects' = objects
    BY DEF Charge, aws
<1>2. StoreInv /\ id \in issued /\ msg[id].at = "none" /\ LiveOn(id) = {}
    BY <1>1, Launching DEF Inv, Unsent
<1>3. CASE UNCHANGED storeVars /\ (LaunchGoes(id, "history") \/ LaunchGoes(id, "done"))
    <2>1. ByContract /\ SparesOthers(id) /\ ByOthers(id) /\ id \in issued'
        BY <1>2, <1>3, Unmoved DEF ByOthers
    <2> QED
        BY <1>1, <1>2, <1>3, <2>1, LaunchEffect DEF Unsent
<1>4. CASE Delete(id) /\ LaunchGoes(id, "done")
    <2>1. ByContract /\ SparesOthers(id) /\ ByOthers(id) /\ id \in issued'
        BY <1>2, <1>4, DeletedJob DEF ByOthers, Still
    <2> QED
        BY <1>1, <1>2, <1>4, <2>1, LaunchEffect DEF Unsent
<1> QED
    BY <1>3, <1>4 DEF Charge

LEMMA SaveHistoryEffect ==
    ASSUME Inv, NEW id \in JobId, SaveHistory(id)
    PROVE  ApiEffect
<1>1. /\ launch[id] = "history" /\ UNCHANGED storeVars /\ msg' = msg /\ objects' = objects
      /\ LaunchGoes(id, "put") \/ LaunchGoes(id, "done")
    BY DEF SaveHistory, aws
<1>2. StoreInv /\ id \in issued /\ msg[id].at = "none" /\ LiveOn(id) = {}
    BY <1>1, Launching DEF Inv, Unsent
<1>3. ByContract /\ SparesOthers(id) /\ ByOthers(id) /\ id \in issued'
    BY <1>1, <1>2, Unmoved DEF ByOthers
<1> QED
    BY <1>1, <1>2, <1>3, LaunchEffect DEF Unsent

LEMMA PutMaterialEffect ==
    ASSUME Inv, NEW id \in JobId, PutMaterial(id)
    PROVE  ApiEffect
<1>1. /\ launch[id] = "put" /\ UNCHANGED storeVars /\ msg' = msg
      /\ LaunchGoes(id, "enqueue") \/ LaunchGoes(id, "fail")
      /\ objects' = objects \/ objects' = [objects EXCEPT ![id] = @ \cup {"material"}]
    BY DEF PutMaterial
<1>2. StoreInv /\ TypeOK /\ id \in issued /\ msg[id].at = "none" /\ LiveOn(id) = {}
    BY <1>1, Launching DEF Inv, Unsent
<1>3. ByContract /\ SparesOthers(id) /\ ByOthers(id) /\ id \in issued'
    BY <1>1, <1>2, Unmoved DEF ByOthers
<1>4. \/ objects' = objects
      \/ \E S \in SUBSET (Reports \cup {"material"}) :
            objects' = [objects EXCEPT ![id] = S] /\ Reports \cap objects[id] \subseteq S
    <2>1. objects[id] \cup {"material"} \in SUBSET (Reports \cup {"material"})
        BY <1>2 DEF TypeOK
    <2> QED
        BY <1>1, <2>1
<1> QED
    BY <1>1, <1>2, <1>3, <1>4, LaunchEffect DEF Unsent

LEMMA EnqueueEffect ==
    ASSUME Inv, NEW id \in JobId, Enqueue(id)
    PROVE  ApiEffect
<1>1. /\ launch[id] = "enqueue" /\ UNCHANGED storeVars /\ objects' = objects
      /\ LaunchGoes(id, "done") \/ LaunchGoes(id, "fail")
      /\ msg' = msg \/ msg' = [msg EXCEPT ![id].at = "queue"]
    BY DEF Enqueue
<1>2. StoreInv /\ id \in issued /\ msg[id].at = "none" /\ LiveOn(id) = {}
    BY <1>1, Launching DEF Inv, Unsent
<1>3. ByContract /\ SparesOthers(id) /\ ByOthers(id) /\ id \in issued'
    BY <1>1, <1>2, Unmoved DEF ByOthers
<1> QED
    BY <1>1, <1>2, <1>3, LaunchEffect DEF Unsent

LEMMA FailLaunchEffect ==
    ASSUME Inv, NEW id \in JobId, FailLaunch(id)
    PROVE  ApiEffect
<1>1. /\ launch[id] = "fail" /\ FailJob(id) /\ msg' = msg /\ objects' = objects
      /\ LaunchGoes(id, "drop_material")
    BY DEF FailLaunch, aws
<1>2. StoreInv /\ id \in issued
    BY <1>1, Launching DEF Inv
<1>3. ByContract /\ SparesOthers(id) /\ ByOthers(id) /\ id \in issued'
    BY <1>1, <1>2, FailedJob DEF ByOthers, Missing, Still, Ended, Same, Both, Absent, Gone
<1> QED
    BY <1>1, <1>2, <1>3, LaunchEffect DEF Unsent

LEMMA DropMaterialEffect ==
    ASSUME Inv, NEW id \in JobId, DropMaterial(id)
    PROVE  ApiEffect
<1>1. /\ launch[id] = "drop_material" /\ UNCHANGED storeVars /\ msg' = msg
      /\ LaunchGoes(id, "done")
      /\ objects' = objects \/ objects' = [objects EXCEPT ![id] = objects[id] \ {"material"}]
    BY DEF DropMaterial, BestEffort
<1>2. StoreInv /\ TypeOK /\ id \in issued
    BY <1>1, Launching DEF Inv
<1>3. ByContract /\ SparesOthers(id) /\ ByOthers(id) /\ id \in issued'
    BY <1>1, <1>2, Unmoved DEF ByOthers
<1>4. \/ objects' = objects
      \/ \E S \in SUBSET (Reports \cup {"material"}) :
            objects' = [objects EXCEPT ![id] = S] /\ Reports \cap objects[id] \subseteq S
    <2>1. /\ objects[id] \ {"material"} \in SUBSET (Reports \cup {"material"})
          /\ Reports \cap objects[id] \subseteq objects[id] \ {"material"}
        BY <1>2 DEF TypeOK, Reports
    <2> QED
        BY <1>1, <2>1
<1> QED
    BY <1>1, <1>2, <1>3, <1>4, LaunchEffect DEF Unsent

-----------------------------------------------------------------------------
(* DELETE. *)

LEMMA RemovalEffect ==
    ASSUME Inv, NEW id \in JobId, NEW step \in {"none", "delete_job", "delete_objects"},
           RemovalGoes(id, step), ByContract, SparesOthers(id), ByOthers(id), id \in issued,
           RemovalOK(id)', msg' = msg,
           \/ objects' = objects
           \/ objects' = [objects EXCEPT ![id] = {}] /\ id \notin Stored
    PROVE  ApiEffect
<1>1. /\ removal' = [removal EXCEPT ![id] = step] /\ launch' = launch /\ worker' = worker
      /\ poll' = poll /\ analyses' = analyses /\ restarts' = restarts
    BY DEF RemovalGoes
<1>2. StoreInv /\ TypeOK
    BY DEF Inv
<1>3. TypeOK'
    BY <1>1, <1>2 DEF TypeOK
<1>4. \A q \in JobId : q # id => removal'[q] = removal[q] /\ objects'[q] = objects[q]
    BY <1>1, <1>2 DEF TypeOK
<1>5. ObjectsSafe(id) /\ Spares(id)
    BY DEF ObjectsSafe, Spares
<1>6. id \in issued' <=> id \in issued
    BY DEF ByOthers, Still, Absent, Gone, Created, Same, Both, Ended, Finalized, Announced
<1>7. \A q \in JobId : q # id =>
            ByOthers(q) /\ ObjectsSafe(q) /\ Spares(q) /\ (q \in issued' <=> q \in issued)
    BY <1>2, <1>4, OthersUndisturbed
<1> QED
    BY <1>1, <1>3, <1>4, <1>5, <1>6, <1>7 DEF ApiEffect

LEMMA CancelledJob ==
    ASSUME StoreInv, NEW id \in JobId, Call(id, [kind |-> "cancel"], now)
    PROVE  /\ ByContract /\ SparesOthers(id)
           /\ Missing(id) \/ (Live(id) /\ Ended(id)) \/ (Live(id) /\ ~IsActive(jobs[id]) /\ Same(id))
<1> DEFINE fn == [kind |-> "cancel"]
<1>1. fn \in Mutation /\ fn.kind = "cancel"
    BY DEF Mutation
<1>2. Call(id, fn, now)
    OBVIOUS
<1> HIDE DEF fn
<1>3. /\ ByContract /\ SparesOthers(id) /\ issued' = issued
      /\ jobs'[id] = IF Live(id) THEN Apply(fn, jobs[id], now) ELSE NoJob
      /\ Live(id) => jobs[id] \in Job /\ jobs'[id] \in Job /\ id \in Stored'
    BY <1>1, <1>2, CallFacts, ClockFacts
<1>4. CASE ~Live(id)
    BY <1>3, <1>4, MissingFacts
<1>5. CASE Live(id)
    <2>1. jobs'[id] = CancelIfActive(jobs[id])
        BY <1>1, <1>3, <1>5 DEF Apply
    <2>2. Both(id)
        BY <1>3, <1>5 DEF Both, Live, StoreInv
    <2>3. CASE IsActive(jobs[id])
        <3>1. jobs'[id] = [jobs[id] EXCEPT !.cancel_requested = TRUE, !.state = "cancelled"]
            BY <2>1, <2>3 DEF CancelIfActive
        <3> QED
            BY <1>3, <1>5, <2>2, <2>3, <3>1 DEF Ended, SameFlags, Job
    <2>4. CASE ~IsActive(jobs[id])
        <3>1. jobs'[id] = jobs[id]
            BY <2>1, <2>4 DEF CancelIfActive
        <3> QED
            BY <1>3, <1>5, <2>2, <2>4, <3>1 DEF Same, SameState, SameFlags
    <2> QED
        BY <2>3, <2>4, <1>3, <1>5
<1> QED
    BY <1>4, <1>5, <1>3

LEMMA RequestDeleteEffect ==
    ASSUME Inv, NEW id \in JobId, RequestDelete(id)
    PROVE  ApiEffect
<1> DEFINE step == IF Removable(jobs[id]) THEN "delete_job" ELSE "none"
<1>1. /\ Live(id) /\ RemovalGoes(id, step) /\ msg' = msg /\ objects' = objects
      /\ Call(id, [kind |-> "cancel"], now)
    BY DEF RequestDelete, aws
<1>2. StoreInv /\ TypeOK /\ id \in Stored /\ id \in issued
    BY <1>1 DEF Inv, StoreInv, Live
<1>3. /\ ByContract /\ SparesOthers(id)
      /\ Ended(id) \/ (~IsActive(jobs[id]) /\ Same(id))
    BY <1>1, <1>2, CancelledJob DEF Missing
<1>4. ByOthers(id)
    BY <1>3 DEF ByOthers, Still
<1>5. removal'[id] = step
    BY <1>1, <1>2 DEF RemovalGoes, TypeOK
<1>6. RemovalOK(id)'
    <2>1. CASE Removable(jobs[id])
        <3>1. Same(id) /\ jobs[id].state \in Terminal /\ ~jobs[id].worker_active /\ id \in issued'
            BY <1>3, <2>1 DEF Removable, Ended, IsActive, Same, Both
        <3> QED
            BY <1>5, <2>1, <3>1 DEF RemovalOK, Same, SameState, SameFlags
    <2>2. CASE ~Removable(jobs[id])
        BY <1>5, <2>2 DEF RemovalOK
    <2> QED
        BY <2>1, <2>2
<1> HIDE DEF step
<1>7. step \in {"none", "delete_job", "delete_objects"}
    BY DEF step
<1> QED
    BY <1>1, <1>2, <1>3, <1>4, <1>6, <1>7, RemovalEffect

LEMMA RemoveJobEffect ==
    ASSUME Inv, NEW id \in JobId, RemoveJob(id)
    PROVE  ApiEffect
<1>1. /\ removal[id] = "delete_job" /\ RemovalGoes(id, "delete_objects") /\ msg' = msg /\ objects' = objects
      /\ id \in Stored => Delete(id)
      /\ id \notin Stored => UNCHANGED storeVars
    BY DEF RemoveJob, aws
<1>2. /\ StoreInv /\ TypeOK /\ id \in issued
      /\ id \in Stored => ~jobs[id].worker_active
    BY <1>1 DEF Inv, JobInv, RemovalOK
<1>3. ByContract /\ SparesOthers(id) /\ ByOthers(id) /\ id \notin Stored' /\ id \in issued'
    <2>1. CASE id \in Stored
        BY <1>1, <1>2, <2>1, DeletedJob DEF ByOthers, Still, Gone
    <2>2. CASE id \notin Stored
        BY <1>1, <1>2, <2>2, Unmoved DEF ByOthers
    <2> QED
        BY <2>1, <2>2
<1>4. RemovalOK(id)'
    BY <1>1, <1>2, <1>3 DEF RemovalOK
<1> QED
    BY <1>1, <1>2, <1>3, <1>4, RemovalEffect

LEMMA RemoveObjectsEffect ==
    ASSUME Inv, NEW id \in JobId, RemoveObjects(id)
    PROVE  ApiEffect
<1>1. /\ removal[id] = "delete_objects" /\ RemovalGoes(id, "none") /\ msg' = msg
      /\ objects' = [objects EXCEPT ![id] = {}] /\ UNCHANGED storeVars
    BY DEF RemoveObjects
<1>2. StoreInv /\ TypeOK /\ id \in issued /\ id \notin Stored
    BY <1>1 DEF Inv, JobInv, RemovalOK
<1>3. ByContract /\ SparesOthers(id) /\ ByOthers(id)
    BY <1>1, <1>2, Unmoved DEF ByOthers
<1>4. removal'[id] = "none"
    BY <1>1, <1>2 DEF RemovalGoes, TypeOK
<1>5. RemovalOK(id)'
    BY <1>4 DEF RemovalOK
<1> QED
    BY <1>1, <1>2, <1>3, <1>5, RemovalEffect

-----------------------------------------------------------------------------
(* The queue, the clock and the store's own deletions. *)

LEMMA QueueEffect ==
    ASSUME Inv, UNCHANGED <<worker, api>>, objects' = objects, ByContract,
           \A q \in JobId : Still(q),
           msg' \in [JobId -> [at : {"none", "queue", "flight", "dead_letter", "deleted"}, receives : Nat]],
           \A q \in JobId : \/ msg'[q] = msg[q]
                            \/ /\ msg'[q].at \in {"queue", "dead_letter"} /\ LiveOn(q) = {}
                               /\ msg[q].at # "none"
    PROVE  ApiEffect
<1>1. /\ launch' = launch /\ removal' = removal /\ poll' = poll /\ worker' = worker
      /\ analyses' = analyses /\ restarts' = restarts
    BY DEF api
<1>2. TypeOK'
    BY <1>1 DEF Inv, TypeOK
<1>3. ASSUME NEW q \in JobId
      PROVE  /\ ByOthers(q) /\ ObjectsSafe(q) /\ Spares(q)
             /\ \/ msg'[q] = msg[q] /\ launch'[q] = launch[q] /\ (q \in issued' <=> q \in issued)
                \/ LaunchOK(q)' /\ QueueOK(q)' /\ (msg'[q].at = "deleted" => msg[q].at = "deleted")
    <2>1. ByOthers(q) /\ ObjectsSafe(q) /\ Spares(q)
        BY DEF ByOthers, ObjectsSafe, Spares
    <2>2. q \in issued' <=> q \in issued
        BY DEF Still, Absent, Gone, Same, Both
    <2>3. CASE msg'[q] = msg[q]
        BY <1>1, <2>1, <2>2, <2>3
    <2>4. CASE msg'[q].at \in {"queue", "dead_letter"} /\ LiveOn(q) = {} /\ msg[q].at # "none"
        <3>1. LiveOn(q)' = LiveOn(q)
            BY <1>1 DEF LiveOn
        <3>2. LaunchOK(q)'
            BY <1>1, <2>2, <2>4 DEF Inv, JobInv, LaunchOK
        <3>3. QueueOK(q)'
            BY <2>4, <3>1 DEF QueueOK
        <3> QED
            BY <2>1, <2>4, <3>2, <3>3
    <2> QED
        BY <2>3, <2>4
<1> QED
    BY <1>1, <1>2, <1>3 DEF ApiEffect

LEMMA AllStill ==
    ASSUME StoreInv, UNCHANGED storeVars
    PROVE  ByContract /\ \A q \in JobId : Still(q)
BY StillStoreFacts, SparedStill

LEMMA ReappearEffect ==
    ASSUME Inv, ~Duplicates, NEW id \in JobId, Reappear(id)
    PROVE  ApiEffect
<1>1. /\ msg[id].at = "flight" /\ LiveOn(id) = {} /\ msg' = [msg EXCEPT ![id].at = "queue"]
      /\ UNCHANGED storeVars /\ objects' = objects /\ UNCHANGED <<worker, api>>
    BY DEF Reappear
<1>2. StoreInv /\ msg[id] \in [at : {"none", "queue", "flight", "dead_letter", "deleted"}, receives : Nat]
      /\ msg \in [JobId -> [at : {"none", "queue", "flight", "dead_letter", "deleted"}, receives : Nat]]
    BY DEF Inv, TypeOK
<1>3. /\ msg' \in [JobId -> [at : {"none", "queue", "flight", "dead_letter", "deleted"}, receives : Nat]]
      /\ msg'[id].at = "queue" /\ \A q \in JobId : q # id => msg'[q] = msg[q]
    BY <1>1, <1>2
<1> QED
    BY <1>1, <1>2, <1>3, AllStill, QueueEffect

LEMMA DeadLetterEffect ==
    ASSUME Inv, NEW id \in JobId, DeadLetter(id)
    PROVE  ApiEffect
<1>1. /\ msg[id].at = "queue" /\ msg' = [msg EXCEPT ![id].at = "dead_letter"]
      /\ UNCHANGED storeVars /\ objects' = objects /\ UNCHANGED <<worker, api>>
    BY DEF DeadLetter
<1>2. LiveOn(id) = {}
    BY <1>1 DEF Inv, JobInv, QueueOK
<1>3. StoreInv /\ msg[id] \in [at : {"none", "queue", "flight", "dead_letter", "deleted"}, receives : Nat]
      /\ msg \in [JobId -> [at : {"none", "queue", "flight", "dead_letter", "deleted"}, receives : Nat]]
    BY DEF Inv, TypeOK
<1>4. /\ msg' \in [JobId -> [at : {"none", "queue", "flight", "dead_letter", "deleted"}, receives : Nat]]
      /\ msg'[id].at = "dead_letter" /\ \A q \in JobId : q # id => msg'[q] = msg[q]
    BY <1>1, <1>3
<1> QED
    BY <1>1, <1>2, <1>3, <1>4, AllStill, QueueEffect

LEMMA AdvanceEffect ==
    ASSUME Inv, Advance
    PROVE  ApiEffect
<1>1. /\ jobs' = jobs /\ issued' = issued /\ msg' = msg /\ objects' = objects /\ UNCHANGED <<worker, api>>
    BY DEF Advance, Tick, aws
<1>2. ByContract
    BY DEF Advance, ByContract, StoreNext
<1>3. StoreInv /\ \A q \in JobId : Spared(q)
    BY <1>1 DEF Inv, Spared
<1>4. \A q \in JobId : Still(q)
    BY <1>3, SparedStill
<1>5. msg' \in [JobId -> [at : {"none", "queue", "flight", "dead_letter", "deleted"}, receives : Nat]]
    BY <1>1 DEF Inv, TypeOK
<1> QED
    BY <1>1, <1>2, <1>4, <1>5, QueueEffect

LEMMA EvictEffect ==
    ASSUME Inv, Evict
    PROVE  ApiEffect
<1>1. Drop /\ issued' = issued /\ msg' = msg /\ objects' = objects /\ UNCHANGED <<worker, api>>
    BY DEF Evict, Drop, aws
<1>2. ByContract
    BY <1>1 DEF ByContract, StoreNext
<1>3. PICK S \in SUBSET Droppable : jobs' = Without(S)
    BY <1>1 DEF Drop
<1>4. StoreInv /\ \A q \in JobId : Spared(q)
    BY <1>1, <1>3 DEF Inv, Spared, Without
<1>5. \A q \in JobId : Still(q)
    BY <1>4, SparedStill
<1>6. msg' \in [JobId -> [at : {"none", "queue", "flight", "dead_letter", "deleted"}, receives : Nat]]
    BY <1>1 DEF Inv, TypeOK
<1> QED
    BY <1>1, <1>2, <1>5, <1>6, QueueEffect

LEMMA ExpireItemEffect ==
    ASSUME Inv, NEW id \in JobId, ExpireItem(id)
    PROVE  ApiEffect
<1>1. /\ Delete(id) /\ LiveOn(id) = {}
      /\ msg' = msg /\ objects' = objects /\ UNCHANGED <<worker, api>>
    BY DEF ExpireItem, aws
<1>2. StoreInv
    BY DEF Inv
<1>3. ByContract /\ SparesOthers(id) /\ Gone(id)
    BY <1>1, <1>2, DeletedJob
<1>4. \A q \in JobId : Still(q)
    BY <1>2, <1>3, SparedStill DEF SparesOthers, Still
<1>5. msg' \in [JobId -> [at : {"none", "queue", "flight", "dead_letter", "deleted"}, receives : Nat]]
    BY <1>1 DEF Inv, TypeOK
<1> QED
    BY <1>1, <1>3, <1>4, <1>5, QueueEffect

\* The API's own steps are lost with it; its restart is counted.
LEMMA RestartEffect ==
    ASSUME Inv, Restart
    PROVE  ApiEffect
<1>1. /\ restarts < MaxRestarts /\ restarts' = restarts + 1
      /\ launch' = [id \in JobId |-> IF launch[id] = "none" THEN "none" ELSE "done"]
      /\ removal' = [id \in JobId |-> "none"]
      /\ UNCHANGED storeVars /\ msg' = msg /\ objects' = objects /\ worker' = worker
      /\ poll' = [p \in Poll |->
                    IF \E id \in Stored : jobs[id].analysis_id = p
                    THEN [NoPoll EXCEPT !.pc = "done"] ELSE NoPoll]
    BY DEF Restart, aws
<1>2. StoreInv /\ TypeOK /\ restarts \in Nat
    BY DEF Inv, TypeOK
<1>3. MaxRestarts # 0
    BY <1>1, <1>2
<1>4. /\ [NoPoll EXCEPT !.pc = "done"] \in PollRecord /\ NoPoll \in PollRecord
      /\ [NoPoll EXCEPT !.pc = "done"].pc = "done" /\ NoPoll.pc = "idle"
    BY DEF NoPoll, PollRecord
<1>5. /\ poll' \in [Poll -> PollRecord]
      /\ \A p \in Poll : poll'[p].pc \in {"idle", "done"}
    BY <1>1, <1>4
<1>6. TypeOK'
    <2>1. /\ launch' \in [JobId -> Unsent \cup {"fail", "drop_material", "done"}]
          /\ removal' \in [JobId -> {"none", "delete_job", "delete_objects"}]
        BY <1>1 DEF Unsent
    <2>2. restarts' \in Nat
        BY <1>1, <1>2
    <2> QED
        BY <1>1, <1>2, <1>5, <2>1, <2>2 DEF TypeOK
<1>7. ByContract /\ \A q \in JobId : Still(q)
    BY <1>1, <1>2, AllStill
<1>8. \A p \in Poll : PollOK(p)'
    BY <1>5 DEF PollOK, Polling
<1>9. ASSUME NEW q \in JobId
      PROVE  /\ ByOthers(q) /\ ObjectsSafe(q) /\ Spares(q)
             /\ LaunchOK(q)' /\ QueueOK(q)' /\ (msg'[q].at = "deleted" => msg[q].at = "deleted")
             /\ RemovalOK(q)'
    <2>1. ByOthers(q) /\ ObjectsSafe(q) /\ Spares(q)
        BY <1>1, <1>7 DEF ByOthers, ObjectsSafe, Spares
    <2>2. LiveOn(q)' = LiveOn(q) /\ (q \in issued' <=> q \in issued)
        BY <1>1 DEF LiveOn, storeVars
    <2>3. LaunchOK(q) /\ QueueOK(q)
        BY DEF Inv, JobInv
    <2>4. launch'[q] = (IF launch[q] = "none" THEN "none" ELSE "done") /\ removal'[q] = "none"
        BY <1>1
    <2>5. LaunchOK(q)'
        BY <1>1, <2>2, <2>3, <2>4 DEF LaunchOK, Unsent
    <2>6. QueueOK(q)' /\ RemovalOK(q)'
        BY <1>1, <2>2, <2>3, <2>4 DEF QueueOK, RemovalOK
    <2> QED
        BY <1>1, <2>1, <2>5, <2>6
<1> QED
    BY <1>1, <1>3, <1>6, <1>7, <1>8, <1>9 DEF ApiEffect

-----------------------------------------------------------------------------
(* The finalizer. *)

PollStepNames == {"idle", "done"} \cup Reports \cup {"build", "ready", "fail", "delete_objects"}

LEMMA TurnFacts ==
    ASSUME poll \in [Poll -> PollRecord], NEW p \in Poll, NEW step \in PollStepNames, PollGoes(p, step)
    PROVE  /\ launch' = launch /\ removal' = removal /\ worker' = worker /\ restarts' = restarts
           /\ poll' \in [Poll -> PollRecord]
           /\ \A r \in Poll : r # p => poll'[r] = poll[r]
           /\ poll'[p].pc = step /\ poll'[p].clock = 0
           /\ step \notin {"idle", "done"} => poll'[p].id = poll[p].id
<1> DEFINE id == IF step \in {"idle", "done"} THEN NoJob ELSE poll[p].id
           place == [NoPoll EXCEPT !.pc = step, !.id = id]
<1>1. /\ poll' = [poll EXCEPT ![p] = place]
      /\ launch' = launch /\ removal' = removal /\ worker' = worker /\ restarts' = restarts
    BY DEF PollGoes
<1>2. id \in JobId \cup {NoJob} /\ (step \notin {"idle", "done"} => id = poll[p].id)
    BY DEF PollRecord
<1> HIDE DEF id
<1>3. place \in PollRecord /\ place.pc = step /\ place.id = id /\ place.clock = 0
    BY <1>2 DEF PollRecord, NoPoll, PollStepNames
<1> HIDE DEF place
<1> QED
    BY <1>1, <1>2, <1>3

LEMMA PollGoFacts ==
    ASSUME TypeOK, NEW p \in Poll, NEW step \in PollStepNames, PollGoes(p, step)
    PROVE  /\ launch' = launch /\ removal' = removal /\ worker' = worker /\ restarts' = restarts
           /\ poll' \in [Poll -> PollRecord]
           /\ \A r \in Poll : r # p => poll'[r] = poll[r]
           /\ poll'[p].pc = step /\ poll'[p].clock = 0
           /\ step \notin {"idle", "done"} => poll'[p].id = poll[p].id
BY TurnFacts DEF TypeOK

LEMMA PollEffect ==
    ASSUME Inv, NEW p \in Poll, NEW id \in JobId, id = poll[p].id, Polling(p),
           NEW step \in PollStepNames, PollGoes(p, step),
           ByContract, SparesOthers(id), ByOthers(id), msg' = msg,
           analyses \subseteq analyses',
           step = "ready" /\ MaxRestarts = 0 => p \in analyses',
           poll[p].pc = "claim" /\ id \in Stored' =>
                step = "idle" \/ (jobs'[id].state = "analyzing" => jobs'[id].finalizing_since # Never),
           \/ objects' = objects
           \/ objects' = [objects EXCEPT ![id] = {}] /\ poll[p].pc # "claim"
    PROVE  ApiEffect
<1>1. StoreInv /\ TypeOK /\ PollOK(p) /\ JobInv(id)
    BY DEF Inv
<1>2. /\ launch' = launch /\ removal' = removal /\ worker' = worker /\ restarts' = restarts
      /\ poll' \in [Poll -> PollRecord]
      /\ \A r \in Poll : r # p => poll'[r] = poll[r]
      /\ poll'[p].pc = step /\ poll'[p].clock = 0
      /\ step \notin {"idle", "done"} => poll'[p].id = id
    BY <1>1, PollGoFacts
<1>3. /\ id \in issued /\ ~Created(id)
      /\ id \in Stored => /\ jobs[id].reports_ready /\ jobs[id].state \in {"analyzing"} \cup Terminal
                          /\ poll[p].pc # "claim" /\ jobs[id].state = "analyzing" =>
                                jobs[id].finalizing_since # Never
    BY <1>1 DEF PollOK, Created
<1>4. /\ objects' \in [JobId -> SUBSET (Reports \cup {"material"})]
      /\ \A q \in JobId : q # id => objects'[q] = objects[q]
      /\ objects'[id] = objects[id] \/ poll[p].pc # "claim"
    BY <1>1 DEF TypeOK
<1>5. TypeOK'
    BY <1>1, <1>2, <1>4 DEF TypeOK
<1>6. ObjectsSafe(id) /\ Spares(id)
    BY <1>3, <1>4 DEF ObjectsSafe, Spares, NeedsFinalizing
<1>7. id \in issued' /\ (id \in Stored' => Both(id))
    BY <1>3 DEF ByOthers, Still, Absent, Gone, Same, Both, Ended, Finalized, Announced
<1>8. PollOK(p)'
    <2> SUFFICES ASSUME step \notin {"idle", "done"} PROVE PollOK(p)'
        BY <1>2 DEF PollOK, Polling
    <2>1. poll'[p].clock <= now'
        <3>1. now \in Nat /\ now' \in {now, now + 1}
            BY <1>1, ClockAdvances DEF StoreInv, StoreTypeOK
        <3> QED
            BY <1>2, <3>1
    <2>2. ASSUME id \in Stored'
          PROVE  /\ jobs'[id].reports_ready /\ jobs'[id].state \in {"analyzing"} \cup Terminal
                 /\ jobs'[id].state = "analyzing" => jobs'[id].finalizing_since # Never
        <3>1. /\ jobs[id].reports_ready /\ jobs[id].state \in {"analyzing"} \cup Terminal
              /\ poll[p].pc # "claim" /\ jobs[id].state = "analyzing" => jobs[id].finalizing_since # Never
            BY <1>3, <1>7, <2>2 DEF Both
        <3>2. Same(id) \/ Ended(id) \/ Finalized(id) \/ Announced(id)
            BY <1>3, <1>7, <2>2 DEF ByOthers, Still, Absent, Gone
        <3>3. jobs'[id].reports_ready /\ jobs'[id].state \in {"analyzing"} \cup Terminal
            BY <3>1, <3>2 DEF Same, SameState, SameFlags, Ended, Finalized, Announced, Terminal
        <3>4. ASSUME jobs'[id].state = "analyzing" PROVE jobs'[id].finalizing_since # Never
            <4>1. CASE poll[p].pc = "claim"
                BY <2>2, <3>4, <4>1
            <4>2. CASE poll[p].pc # "claim"
                BY <3>1, <3>2, <3>4, <4>2 DEF Same, SameState, SameFlags, Ended, Finalized, Announced
            <4> QED
                BY <4>1, <4>2
        <3> QED
            BY <3>3, <3>4
    <2> QED
        BY <1>2, <1>7, <2>1, <2>2 DEF PollOK
<1>9. \A q \in JobId : q # id =>
            ByOthers(q) /\ ObjectsSafe(q) /\ Spares(q) /\ (q \in issued' <=> q \in issued)
    BY <1>1, <1>4, OthersUndisturbed
<1> QED
    BY <1>2, <1>3, <1>5, <1>6, <1>7, <1>8, <1>9 DEF ApiEffect

\* What is known of a request that goes on.
LEMMA PollActing ==
    ASSUME Inv, NEW p \in Poll, Polling(p)
    PROVE  \E id \in JobId :
            /\ id = poll[p].id /\ StoreInv /\ TypeOK /\ PollOK(p) /\ id \in issued /\ RecordOK(id)
            /\ poll[p].clock \in 0..now
            /\ id \in Stored => jobs[id].reports_ready /\ jobs[id].state \in {"analyzing"} \cup Terminal
<1>1. StoreInv /\ TypeOK /\ PollOK(p) /\ poll[p].id \in issued /\ poll[p].id \in JobId
    BY DEF Inv, PollOK, StoreInv, StoreTypeOK
<1>2. poll[p].clock \in Nat /\ now \in Nat /\ poll[p].clock <= now
    BY <1>1 DEF TypeOK, PollRecord, PollOK, StoreInv, StoreTypeOK
<1>3. RecordOK(poll[p].id)
    BY <1>1 DEF Inv, JobInv
<1> QED
    BY <1>1, <1>2, <1>3 DEF PollOK

LEMMA FinalizedJob ==
    ASSUME StoreInv, NEW id \in JobId, NEW t \in 0..now, Call(id, [kind |-> "finalize"], t)
    PROVE  /\ ByContract /\ SparesOthers(id)
           /\ \/ Missing(id)
              \/ Live(id) /\ FinalizeClaimable(jobs[id], t) /\ Finalized(id)
              \/ Live(id) /\ ~FinalizeClaimable(jobs[id], t) /\ Same(id)
<1> DEFINE fn == [kind |-> "finalize"]
<1>1. fn \in Mutation /\ fn.kind = "finalize"
    BY DEF Mutation
<1>2. Call(id, fn, t)
    OBVIOUS
<1> HIDE DEF fn
<1>3. /\ ByContract /\ SparesOthers(id) /\ issued' = issued
      /\ jobs'[id] = IF Live(id) THEN Apply(fn, jobs[id], t) ELSE NoJob
      /\ Live(id) => jobs[id] \in Job /\ jobs'[id] \in Job /\ id \in Stored'
    BY <1>1, <1>2, CallFacts
<1>4. t \in Nat /\ t # Never
    BY DEF StoreInv, StoreTypeOK, Never
<1>5. CASE ~Live(id)
    BY <1>3, <1>5, MissingFacts
<1>6. CASE Live(id)
    <2>1. jobs'[id] = ClaimFinalizing(jobs[id], t)
        BY <1>1, <1>3, <1>6 DEF Apply
    <2>2. Both(id)
        BY <1>3, <1>6 DEF Both, Live, StoreInv
    <2>3. CASE FinalizeClaimable(jobs[id], t)
        <3>1. jobs'[id] = [jobs[id] EXCEPT !.finalizing_since = t]
            BY <2>1, <2>3 DEF ClaimFinalizing
        <3> QED
            BY <1>3, <1>4, <1>6, <2>2, <2>3, <3>1 DEF Finalized, SameState, Job
    <2>4. CASE ~FinalizeClaimable(jobs[id], t)
        <3>1. jobs'[id] = jobs[id]
            BY <2>1, <2>4 DEF ClaimFinalizing
        <3> QED
            BY <1>3, <1>6, <2>2, <2>4, <3>1 DEF Same, SameState, SameFlags
    <2> QED
        BY <2>3, <2>4, <1>3, <1>6
<1> QED
    BY <1>5, <1>6, <1>3

LEMMA ClaimFinalizeEffect ==
    ASSUME Inv, NEW p \in Poll, ClaimFinalize(p)
    PROVE  ApiEffect
<1>1. poll[p].pc = "claim" /\ Polling(p) /\ msg' = msg /\ objects' = objects /\ analyses' = analyses
    BY DEF ClaimFinalize, Polling, aws
<1>2. PICK id \in JobId :
        /\ id = poll[p].id /\ StoreInv /\ TypeOK /\ PollOK(p) /\ id \in issued /\ RecordOK(id)
        /\ poll[p].clock \in 0..now
        /\ id \in Stored => jobs[id].reports_ready /\ jobs[id].state \in {"analyzing"} \cup Terminal
    BY <1>1, PollActing
<1> DEFINE granted == Live(id) /\ (poll[p].claimed \/ Finalizes(p))
           step == IF granted THEN "baseline" ELSE "idle"
<1>3. Call(id, [kind |-> "finalize"], poll[p].clock) /\ PollGoes(p, step)
    BY <1>2 DEF ClaimFinalize
<1>4. /\ ByContract /\ SparesOthers(id)
      /\ \/ Missing(id)
         \/ Live(id) /\ FinalizeClaimable(jobs[id], poll[p].clock) /\ Finalized(id)
         \/ Live(id) /\ ~FinalizeClaimable(jobs[id], poll[p].clock) /\ Same(id)
    BY <1>2, <1>3, FinalizedJob
<1>5. ByOthers(id)
    BY <1>4 DEF ByOthers, Missing, Still
<1>6. id \in Stored' => (jobs'[id].state = "analyzing" => jobs'[id].finalizing_since # Never)
    <2>1. CASE Missing(id)
        BY <2>1 DEF Missing
    <2>2. CASE Finalized(id)
        BY <2>2 DEF Finalized
    <2>3. CASE Live(id) /\ ~FinalizeClaimable(jobs[id], poll[p].clock) /\ Same(id)
        <3>1. jobs[id].reports_ready /\ (jobs[id].state = "analyzing" => jobs[id].analysis_id = NoAnalysis)
            BY <1>2, <2>3 DEF Same, Both, RecordOK
        <3> QED
            BY <2>3, <3>1 DEF FinalizeClaimable, NeedsFinalizing, Same, SameState, SameFlags
    <2> QED
        BY <1>4, <2>1, <2>2, <2>3
<1>7. step \in PollStepNames /\ step # "ready"
    BY DEF PollStepNames, Reports
<1> HIDE DEF step
<1> QED
    BY <1>1, <1>2, <1>3, <1>4, <1>5, <1>6, <1>7, PollEffect

LEMMA ReadReportEffect ==
    ASSUME Inv, NEW p \in Poll, ReadReport(p)
    PROVE  ApiEffect
<1> DEFINE step == CASE poll[p].pc \notin objects[poll[p].id] -> "fail"
                     [] poll[p].pc = "baseline" /\ "baseline" \in objects[poll[p].id] -> "comparison"
                     [] OTHER -> "build"
<1>1. /\ poll[p].pc # "claim" /\ Polling(p) /\ msg' = msg /\ objects' = objects /\ analyses' = analyses
      /\ UNCHANGED storeVars /\ PollGoes(p, step)
    BY DEF ReadReport, Polling, Reports, aws
<1>2. PICK id \in JobId : id = poll[p].id /\ StoreInv
    BY <1>1, PollActing
<1>3. ByContract /\ SparesOthers(id) /\ ByOthers(id)
    BY <1>1, <1>2, Unmoved DEF ByOthers
<1>4. step \in PollStepNames /\ step # "ready"
    BY DEF PollStepNames, Reports
<1> HIDE DEF step
<1> QED
    BY <1>1, <1>2, <1>3, <1>4, PollEffect

LEMMA BuildAnalysisEffect ==
    ASSUME Inv, NEW p \in Poll, BuildAnalysis(p)
    PROVE  ApiEffect
<1>1. /\ poll[p].pc # "claim" /\ Polling(p) /\ msg' = msg /\ objects' = objects
      /\ UNCHANGED storeVars
      /\ \/ PollGoes(p, "ready") /\ analyses' = analyses \cup {p}
         \/ PollGoes(p, "fail") /\ analyses' = analyses
    BY DEF BuildAnalysis, Polling, aws
<1>2. PICK id \in JobId : id = poll[p].id /\ StoreInv
    BY <1>1, PollActing
<1>3. ByContract /\ SparesOthers(id) /\ ByOthers(id)
    BY <1>1, <1>2, Unmoved DEF ByOthers
<1> QED
    BY <1>1, <1>2, <1>3, PollEffect DEF PollStepNames

LEMMA WriteReadyEffect ==
    ASSUME Inv, NEW p \in Poll, WriteReady(p)
    PROVE  ApiEffect
<1>1. /\ poll[p].pc = "ready" /\ Polling(p) /\ msg' = msg /\ objects' = objects /\ analyses' = analyses
      /\ Call(poll[p].id, Write("ready", p), now) /\ PollGoes(p, "delete_objects")
    BY DEF WriteReady, Polling, aws
<1>2. PICK id \in JobId :
        /\ id = poll[p].id /\ StoreInv /\ TypeOK /\ PollOK(p) /\ id \in issued /\ RecordOK(id)
        /\ poll[p].clock \in 0..now
        /\ id \in Stored => jobs[id].reports_ready /\ jobs[id].state \in {"analyzing"} \cup Terminal
    BY <1>1, PollActing
<1>3. "ready" \in Written /\ p \in Analysis /\ p # NoAnalysis
    BY AwsExecutionAssumption, ExecutionJobAssumption DEF Written, State
<1>4. /\ ByContract /\ SparesOthers(id) /\ issued' = issued
      /\ ~Live(id) => id \notin Stored' /\ jobs'[id] = NoJob
      /\ Live(id) =>
           /\ id \in Stored /\ id \in Stored' /\ jobs[id] \in Job /\ jobs'[id] \in Job
           /\ jobs'[id].worker_active = jobs[id].worker_active
           /\ jobs'[id].reports_ready = jobs[id].reports_ready
           /\ jobs'[id].finalizing_since = jobs[id].finalizing_since
           /\ Wrote(jobs[id]) => jobs'[id].state = "ready" /\ jobs'[id].analysis_id = p
           /\ ~Wrote(jobs[id]) =>
               /\ jobs'[id].analysis_id = jobs[id].analysis_id
               /\ jobs'[id].state = IF IsActive(jobs[id]) THEN "cancelled" ELSE jobs[id].state
    BY <1>1, <1>2, <1>3, WriteFacts, ClockFacts
<1>5. ByOthers(id)
    <2>1. CASE ~Live(id)
        BY <1>2, <1>4, <2>1, MissingFacts DEF Missing, ByOthers
    <2>2. CASE Live(id)
        <3>1. Both(id) /\ SameFlags(id)
            BY <1>2, <1>4, <2>2 DEF Both, SameFlags
        <3>2. CASE Wrote(jobs[id])
            <4>1. jobs[id].state = "analyzing"
                BY <1>2, <2>2, <1>4, <3>2 DEF Wrote, IsActive
            <4>2. MaxRestarts = 0 => p \in analyses'
                BY <1>1, <1>2 DEF PollOK
            <4> QED
                BY <1>3, <1>4, <2>2, <3>1, <3>2, <4>1, <4>2 DEF Announced, ByOthers
        <3>3. CASE ~Wrote(jobs[id]) /\ IsActive(jobs[id])
            BY <1>4, <2>2, <3>1, <3>3 DEF Ended, ByOthers
        <3>4. CASE ~Wrote(jobs[id]) /\ ~IsActive(jobs[id])
            BY <1>4, <2>2, <3>1, <3>4 DEF Same, SameState, Still, ByOthers
        <3> QED
            BY <3>2, <3>3, <3>4
    <2> QED
        BY <2>1, <2>2
<1> QED
    BY <1>1, <1>2, <1>4, <1>5, PollEffect DEF PollStepNames

LEMMA FailAnalysisEffect ==
    ASSUME Inv, NEW p \in Poll, FailAnalysis(p)
    PROVE  ApiEffect
<1>1. /\ poll[p].pc = "fail" /\ Polling(p) /\ msg' = msg /\ objects' = objects /\ analyses' = analyses
      /\ FailJob(poll[p].id) /\ PollGoes(p, "delete_objects")
    BY DEF FailAnalysis, Polling, aws
<1>2. PICK id \in JobId : id = poll[p].id /\ StoreInv
    BY <1>1, PollActing
<1>3. ByContract /\ SparesOthers(id) /\ ByOthers(id)
    BY <1>1, <1>2, FailedJob DEF ByOthers, Missing, Still
<1> QED
    BY <1>1, <1>2, <1>3, PollEffect DEF PollStepNames

LEMMA DeleteReportsEffect ==
    ASSUME Inv, NEW p \in Poll, DeleteReports(p)
    PROVE  ApiEffect
<1>1. /\ poll[p].pc = "delete_objects" /\ Polling(p) /\ msg' = msg /\ analyses' = analyses
      /\ UNCHANGED storeVars /\ PollGoes(p, "done")
      /\ objects' = objects \/ objects' = [objects EXCEPT ![poll[p].id] = {}]
    BY DEF DeleteReports, BestEffort, Polling
<1>2. PICK id \in JobId : id = poll[p].id /\ StoreInv
    BY <1>1, PollActing
<1>3. ByContract /\ SparesOthers(id) /\ ByOthers(id)
    BY <1>1, <1>2, Unmoved DEF ByOthers
<1> QED
    BY <1>1, <1>2, <1>3, PollEffect DEF PollStepNames

\* The two steps that change the claim's own fields.
LEMMA PollKeptEffect ==
    ASSUME Inv, NEW p \in Poll, NEW place \in PollRecord, poll' = [poll EXCEPT ![p] = place],
           UNCHANGED <<storeVars, aws, launch, removal, worker, analyses, restarts>>, PollOK(p)'
    PROVE  ApiEffect
<1>1. StoreInv /\ TypeOK
    BY DEF Inv
<1>2. ByContract /\ \A q \in JobId : Still(q) /\ (q \in issued' <=> q \in issued)
    BY <1>1, AllStill DEF storeVars
<1>3. TypeOK'
    BY <1>1 DEF TypeOK, aws
<1>4. \A q \in JobId : ByOthers(q) /\ ObjectsSafe(q) /\ Spares(q)
    BY <1>2 DEF ByOthers, ObjectsSafe, Spares, aws
<1> QED
    BY <1>1, <1>2, <1>3, <1>4 DEF ApiEffect, TypeOK, aws

LEMMA StartPollEffect ==
    ASSUME Inv, NEW p \in Poll, NEW id \in JobId, StartPoll(p, id)
    PROVE  ApiEffect
<1> DEFINE place == [NoPoll EXCEPT !.pc = "claim", !.id = id, !.clock = now]
<1>1. /\ Live(id) /\ NeedsFinalizing(jobs[id]) /\ poll' = [poll EXCEPT ![p] = place]
      /\ UNCHANGED <<storeVars, aws, launch, removal, worker, analyses, restarts>>
    BY DEF StartPoll
<1>2. StoreInv /\ TypeOK /\ now \in Nat /\ id \in Stored /\ id \in issued
    BY <1>1 DEF Inv, StoreInv, StoreTypeOK, Live
<1>3. place \in PollRecord /\ place.pc = "claim" /\ place.id = id /\ place.clock = now
    BY <1>2 DEF PollRecord, NoPoll
<1> HIDE DEF place
<1>4. poll'[p] = place
    BY <1>1, <1>2 DEF TypeOK
<1>5. PollOK(p)'
    BY <1>1, <1>2, <1>3, <1>4 DEF PollOK, Polling, NeedsFinalizing, storeVars, Stored
<1> QED
    BY <1>1, <1>3, <1>5, PollKeptEffect

LEMMA PollConflictsEffect ==
    ASSUME Inv, NEW p \in Poll, PollConflicts(p)
    PROVE  ApiEffect
<1> DEFINE place == [poll[p] EXCEPT !.claimed = TRUE]
<1>1. /\ poll' = [poll EXCEPT ![p] = place]
      /\ UNCHANGED <<storeVars, aws, launch, removal, worker, analyses, restarts>>
    BY DEF PollConflicts
<1>2. TypeOK /\ PollOK(p) /\ poll[p] \in PollRecord
    BY DEF Inv, TypeOK
<1>3. place \in PollRecord /\ place.pc = poll[p].pc /\ place.id = poll[p].id /\ place.clock = poll[p].clock
    BY <1>2 DEF PollRecord
<1> HIDE DEF place
<1>4. poll'[p] = place
    BY <1>1, <1>2 DEF TypeOK
<1>5. PollOK(p)'
    BY <1>1, <1>2, <1>3, <1>4 DEF PollOK, Polling, storeVars, Stored
<1> QED
    BY <1>1, <1>3, <1>5, PollKeptEffect

-----------------------------------------------------------------------------
(* A worker gets a message. *)

LEMMA ReceiveKeeps ==
    ASSUME Inv, NEW w \in Worker, NEW id \in JobId, Receive(w, id)
    PROVE  StepOK
<1> DEFINE place == [Idle EXCEPT !.pc = "get", !.id = id]
           sent == [at |-> "flight", receives |-> msg[id].receives + 1]
<1>1. /\ worker[w].pc = "idle" /\ msg[id].at = "queue"
      /\ msg' = [msg EXCEPT ![id] = sent] /\ worker' = [worker EXCEPT ![w] = place]
      /\ UNCHANGED storeVars /\ objects' = objects
      /\ launch' = launch /\ removal' = removal /\ poll' = poll /\ analyses' = analyses
      /\ restarts' = restarts
    BY DEF Receive, Receivable, api
<1>2. StoreInv /\ TypeOK /\ \A q \in JobId : JobInv(q)
    BY DEF Inv
<1>3. place \in WorkerRecord /\ place.pc = "get" /\ place.id = id /\ place.claimed = FALSE
    BY DEF Idle, WorkerRecord, Handling
<1>4. sent \in [at : {"none", "queue", "flight", "dead_letter", "deleted"}, receives : Nat]
    BY <1>2 DEF TypeOK
<1>5. sent.at = "flight"
    OBVIOUS
<1> HIDE DEF place, sent
<1>6. TypeOK'
    BY <1>1, <1>2, <1>3, <1>4 DEF TypeOK
<1>7. /\ worker'[w] = place /\ \A v \in Worker : v # w => worker'[v] = worker[v]
      /\ msg'[id].at = "flight" /\ \A q \in JobId : q # id => msg'[q] = msg[q]
    BY <1>1, <1>2, <1>5 DEF TypeOK
<1>8. ByContract /\ \A q \in JobId : Still(q)
    BY <1>1, <1>2, AllStill
<1>9. StoreInv'
    BY <1>2, <1>8, StepStoreInv DEF ByContract
<1>10. /\ jobs' = jobs /\ issued' = issued /\ now' = now /\ Stored' = Stored
    BY <1>1 DEF storeVars, Stored
<1>11. NoneDied' <=> NoneDied
    BY <1>1, <1>3, <1>7 DEF NoneDied
<1>12. "idle" \notin Handling /\ "get" \in Handling
    BY DEF Handling, Driving
<1>13. LiveOn(id) = {} /\ LiveOn(id)' = {w} /\ \A q \in JobId : q # id => LiveOn(q)' = LiveOn(q)
    <2>1. LiveOn(id) = {}
        BY <1>1, <1>2 DEF JobInv, QueueOK
    <2> QED
        BY <1>1, <1>3, <1>7, <1>12, <2>1 DEF LiveOn
<1>14. ASSUME NEW q \in JobId PROVE JobInv(q)' /\ LifeStep(q)
    <2>1. OneHandler(q)'
        BY <1>2, <1>13 DEF JobInv, OneHandler
    <2>2. LaunchOK(q)'
        BY <1>1, <1>2, <1>7, <1>10 DEF JobInv, LaunchOK
    <2>3. QueueOK(q)'
        BY <1>2, <1>7, <1>13 DEF JobInv, QueueOK
    <2>4. RemovalOK(q)'
        BY <1>1, <1>2, <1>10 DEF JobInv, RemovalOK
    <2>5. RecordOK(q)'
        BY <1>1, <1>2, <1>10 DEF JobInv, RecordOK
    <2>6. SettledOK(q)'
        BY <1>2, <1>7, <1>10, <1>11, <1>13 DEF JobInv, SettledOK
    <2>7. LifeStep(q)
        BY <1>2, <1>8, <1>9, LifeStill
    <2> QED
        BY <2>1, <2>2, <2>3, <2>4, <2>5, <2>6, <2>7 DEF JobInv
<1>15. ASSUME NEW v \in Worker PROVE WorkerOK(v)'
    <2>1. CASE v = w
        <3>1. id \in issued
            BY <1>1, <1>2 DEF JobInv, LaunchOK, Unsent
        <3>2. id \in Stored /\ NoneDied => ~jobs[id].worker_active
            BY <1>2, <1>13 DEF JobInv, SettledOK
        <3>3. id \in Stored' => Fits(worker[w], jobs[id])'
            BY <1>3, <1>7, <1>10, <1>11, <3>2 DEF Fits, Looking, Driving, Closing
        <3>4. "get" \notin Started
            BY DEF Started, StateAt
        <3> QED
            BY <1>3, <1>7, <1>10, <2>1, <3>1, <3>3, <3>4 DEF WorkerOK
    <2>2. CASE v # w
        <3>1. WorkerOK(v) /\ worker'[v] = worker[v]
            BY <1>7, <2>2 DEF Inv
        <3> QED
            BY <1>1, <1>10, <1>11, <3>1 DEF WorkerOK, Fits
    <2> QED
        BY <2>1, <2>2
<1>16. ASSUME NEW p \in Poll PROVE PollOK(p)'
    <2>1. PollOK(p)
        BY DEF Inv
    <2> QED
        BY <1>1, <1>10, <2>1 DEF PollOK, Polling
<1> QED
    BY <1>6, <1>8, <1>9, <1>14, <1>15, <1>16 DEF StepOK, Inv

-----------------------------------------------------------------------------
(* Whatever SQS delivers: what needs no handler to be alone.               *)

\* A worker that handles something handles a job.
WorkersPlaced ==
    /\ worker \in [Worker -> WorkerRecord]
    /\ \A w \in Worker : worker[w].pc \in Handling => worker[w].id \in JobId

\* A poll that runs is about a job, and the clock it read is not ahead.
PollsPlaced ==
    /\ poll \in [Poll -> PollRecord]
    /\ \A p \in Poll : Polling(p) => poll[p].id \in JobId /\ poll[p].clock <= now

\* A poll that is about to announce its analysis has stored it, and so has the
\* one that announced it.
Announces ==
    /\ \A p \in Poll : poll[p].pc = "ready" => p \in analyses
    /\ ReadyHasAnalysis

StoreUse ==
    /\ StoreInv /\ WorkersPlaced /\ PollsPlaced
    /\ restarts \in Nat
    /\ MaxRestarts = 0 => Announces

\* No job becomes ready by the step.
NoneReadied ==
    \A q \in JobId :
        jobs'[q] # NoJob /\ jobs'[q].state = "ready" => jobs[q] # NoJob /\ jobs[q].state = "ready"

Readied(p) ==
    \A q \in JobId :
        jobs'[q] # NoJob /\ jobs'[q].state = "ready" =>
            \/ jobs[q] # NoJob /\ jobs[q].state = "ready"
            \/ poll[p].pc = "ready" /\ jobs'[q].analysis_id = p

LEMMA IdleCall ==
    ASSUME UNCHANGED storeVars
    PROVE  ByContract /\ NoneReadied
BY DEF ByContract, storeVars, NoneReadied

LEMMA SparedReadies ==
    ASSUME NEW q \in JobId, Spared(q), jobs'[q] # NoJob, jobs'[q].state = "ready"
    PROVE  jobs[q] # NoJob /\ jobs[q].state = "ready"
BY DEF Spared

LEMMA GetReadies ==
    ASSUME StoreInv, NEW id \in JobId, Get(id)
    PROVE  ByContract /\ NoneReadied
<1>1. /\ ByContract /\ SparesOthers(id)
      /\ jobs'[id] = IF Live(id) THEN jobs[id] ELSE NoJob
    BY GetFacts
<1>2. jobs'[id] # NoJob => jobs'[id] = jobs[id]
    BY <1>1
<1> QED
    BY <1>1, <1>2, SparedReadies DEF SparesOthers, NoneReadied

LEMMA InsertReadies ==
    ASSUME StoreInv, NEW id \in JobId, NEW o \in Owner, Insert(id, o, NoKey, now)
    PROVE  ByContract /\ NoneReadied
<1>1. now \in 0..now
    BY ClockFacts
<1>2. ByContract /\ SparesOthers(id) /\ jobs'[id] = NewJob(o, NoKey, now)
    BY <1>1, InsertFacts
<1>3. jobs'[id].state = "queued"
    BY <1>2 DEF NewJob
<1> QED
    BY <1>2, <1>3, SparedReadies DEF SparesOthers, NoneReadied

LEMMA DeleteReadies ==
    ASSUME StoreInv, NEW id \in JobId, Delete(id)
    PROVE  ByContract /\ NoneReadied
BY DeleteFacts, SparedReadies DEF SparesOthers, NoneReadied

LEMMA CallReadies ==
    ASSUME StoreInv, NEW id \in JobId, NEW fn \in Mutation, NEW t \in 0..now, Call(id, fn, t),
           fn.kind = "write" => fn.state # "ready"
    PROVE  ByContract /\ NoneReadied
<1>1. /\ ByContract /\ SparesOthers(id)
      /\ jobs'[id] = IF Live(id) THEN Apply(fn, jobs[id], t) ELSE NoJob
      /\ Live(id) => jobs[id] \in Job
    BY CallFacts
<1>2. ASSUME NEW job \in Job, Apply(fn, job, t).state = "ready" PROVE job.state = "ready"
    <2>1. CASE fn.kind = "claim"
        <3>1. Apply(fn, job, t) = Claim(job)
            BY <2>1 DEF Apply
        <3> QED
            BY <1>2, <3>1 DEF Claim, Job
    <2>2. CASE fn.kind = "release"
        <3>1. Apply(fn, job, t) = Release(job)
            BY <2>2 DEF Apply
        <3> QED
            BY <1>2, <3>1 DEF Release, Job
    <2>3. CASE fn.kind = "cancel"
        <3>1. Apply(fn, job, t) = CancelIfActive(job)
            BY <2>3 DEF Apply
        <3> QED
            BY <1>2, <3>1 DEF CancelIfActive, Job
    <2>4. CASE fn.kind = "reports"
        <3>1. Apply(fn, job, t) = MarkReportsReady(job)
            BY <2>4 DEF Apply
        <3> QED
            BY <1>2, <3>1 DEF MarkReportsReady, Job
    <2>5. CASE fn.kind = "finalize"
        <3>1. Apply(fn, job, t) = ClaimFinalizing(job, t)
            BY <2>5 DEF Apply
        <3> QED
            BY <1>2, <3>1 DEF ClaimFinalizing, Job
    <2>6. CASE fn.kind = "write"
        <3>1. Apply(fn, job, t) = WriteState(job, fn.state, fn.analysis_id)
            BY <2>6 DEF Apply
        <3> QED
            BY <1>2, <2>6, <3>1 DEF WriteState, Job
    <2>7. fn.kind \in {"claim", "release", "cancel", "reports", "finalize", "write"}
        BY DEF Mutation
    <2> QED
        BY <2>1, <2>2, <2>3, <2>4, <2>5, <2>6, <2>7
<1>3. jobs'[id] # NoJob /\ jobs'[id].state = "ready" => jobs[id] # NoJob /\ jobs[id].state = "ready"
    BY <1>1, <1>2 DEF Live, Stored
<1> QED
    BY <1>1, <1>3, SparedReadies DEF SparesOthers, NoneReadied

LEMMA WriteReadies ==
    ASSUME StoreInv, NEW id \in JobId, NEW s \in Written \ {"ready"}, Call(id, Write(s, NoAnalysis), now)
    PROVE  ByContract /\ NoneReadied
<1> DEFINE fn == Write(s, NoAnalysis)
<1>1. fn \in Mutation /\ fn.kind = "write" /\ fn.state = s
    BY DEF Write, Mutation
<1> HIDE DEF fn
<1>2. Call(id, fn, now) /\ now \in 0..now
    BY ClockFacts DEF fn
<1> QED
    BY <1>1, <1>2, CallReadies

LEMMA FailReadies ==
    ASSUME StoreInv, NEW id \in JobId, FailJob(id)
    PROVE  ByContract /\ NoneReadied
<1>1. "failed" \in Written \ {"ready"}
    BY DEF Written, State
<1> QED
    BY <1>1, WriteReadies DEF FailJob, Failed

LEMMA KindReadies ==
    ASSUME StoreInv, NEW id \in JobId, NEW kind \in {"claim", "release", "cancel", "reports", "finalize"},
           NEW t \in 0..now, Call(id, [kind |-> kind], t)
    PROVE  ByContract /\ NoneReadied
<1> DEFINE fn == [kind |-> kind]
<1>1. fn \in Mutation /\ fn.kind # "write"
    BY DEF Mutation
<1> HIDE DEF fn
<1>2. Call(id, fn, t)
    BY DEF fn
<1> QED
    BY <1>1, <1>2, CallReadies

\* A worker calls the store by its contract and announces nothing, wherever its
\* job is and whoever else handles it.
LEMMA WorkerCalls ==
    ASSUME StoreUse, NEW w \in Worker, WorkerStep(w) \/ ClaimConflicts(w) \/ Crash(w)
    PROVE  ByContract /\ NoneReadied
<1> DEFINE id == worker[w].id
<1>0. StoreInv /\ now \in 0..now
    BY ClockFacts DEF StoreUse
<1>1. ASSUME worker[w].pc \in Handling PROVE id \in JobId
    BY <1>1 DEF StoreUse, WorkersPlaced
<1>2. CASE \/ Discard(w) \/ DiscardObjects(w) \/ GetMaterial(w) \/ Succeed(w) \/ PutReport(w)
           \/ Abandon(w) \/ Cleanup(w) \/ DeleteObjects(w) \/ Acknowledge(w)
           \/ ClaimConflicts(w) \/ Crash(w)
    <2>1. UNCHANGED storeVars
        BY <1>2 DEF Discard, DiscardObjects, GetMaterial, Succeed, PutReport, Abandon, Cleanup,
                    DeleteObjects, Acknowledge, ClaimConflicts, Crash
    <2> QED
        BY <2>1, IdleCall
<1>3. CASE GetJob(w) \/ FinalGet(w)
    <2>1. Get(id) /\ worker[w].pc \in Handling
        BY <1>3 DEF GetJob, FinalGet, Handling
    <2> QED
        BY <1>0, <1>1, <2>1, GetReadies
<1>4. CASE FailLost(w) \/ FailNoMaterial(w) \/ FailRun(w)
    <2>1. FailJob(id) /\ worker[w].pc \in Handling
        BY <1>4 DEF FailLost, FailNoMaterial, FailRun, Handling
    <2> QED
        BY <1>0, <1>1, <2>1, FailReadies
<1>5. CASE ReleaseLost(w) \/ ClaimJob(w) \/ MarkReady(w) \/ ReleaseJob(w)
    <2>1. PICK kind \in {"claim", "release", "reports"} : Call(id, [kind |-> kind], now)
        BY <1>5 DEF ReleaseLost, ClaimJob, MarkReady, ReleaseJob
    <2>2. worker[w].pc \in Handling
        BY <1>5 DEF ReleaseLost, ClaimJob, MarkReady, ReleaseJob, Handling, Driving
    <2> QED
        BY <1>0, <1>1, <2>1, <2>2, KindReadies
<1>6. CASE EnterStage(w)
    <2>1. PICK st \in Stages : Stage(w, st[1], st[2], st[3])
        BY <1>6 DEF EnterStage, Stages
    <2>2. st[1] \in Handling /\ st[2] \in Written \ {"ready"}
        BY DEF Stages, Handling, Driving, Written, State
    <2>3. Call(id, Write(st[2], NoAnalysis), now) /\ worker[w].pc \in Handling
        BY <2>1, <2>2 DEF Stage
    <2> QED
        BY <1>0, <1>1, <2>2, <2>3, WriteReadies
<1> QED
    BY <1>2, <1>3, <1>4, <1>5, <1>6 DEF WorkerStep

\* A poll calls the store by its contract, and announces its own analysis only.
LEMMA PollCalls ==
    ASSUME StoreUse, NEW p \in Poll, PollStep(p) \/ PollConflicts(p)
    PROVE  ByContract /\ Readied(p)
<1> DEFINE id == poll[p].id
<1>0. StoreInv /\ now \in 0..now
    BY ClockFacts DEF StoreUse
<1>1. ASSUME poll[p].pc \in {"claim", "ready", "fail"}
      PROVE  id \in JobId /\ poll[p].clock \in 0..now
    <2>1. id \in JobId /\ poll[p].clock <= now
        BY <1>1 DEF StoreUse, PollsPlaced, Polling
    <2>2. poll[p].clock \in Nat /\ now \in Nat
        BY <1>0 DEF StoreUse, PollsPlaced, PollRecord
    <2> QED
        BY <2>1, <2>2
<1>2. ASSUME ByContract, NoneReadied PROVE ByContract /\ Readied(p)
    BY <1>2 DEF NoneReadied, Readied
<1>3. CASE ReadReport(p) \/ BuildAnalysis(p) \/ DeleteReports(p) \/ PollConflicts(p)
    <2>1. UNCHANGED storeVars
        BY <1>3 DEF ReadReport, BuildAnalysis, DeleteReports, PollConflicts
    <2> QED
        BY <1>2, <2>1, IdleCall
<1>4. CASE ClaimFinalize(p)
    <2>1. Call(id, [kind |-> "finalize"], poll[p].clock) /\ poll[p].pc = "claim"
        BY <1>4 DEF ClaimFinalize
    <2> QED
        BY <1>0, <1>1, <1>2, <2>1, KindReadies
<1>5. CASE FailAnalysis(p)
    <2>1. FailJob(id) /\ poll[p].pc = "fail"
        BY <1>5 DEF FailAnalysis
    <2> QED
        BY <1>0, <1>1, <1>2, <2>1, FailReadies
<1>6. CASE WriteReady(p)
    <2>1. Call(id, Write("ready", p), now) /\ poll[p].pc = "ready"
        BY <1>6 DEF WriteReady
    <2>2. "ready" \in Written /\ p \in Analysis /\ p # NoAnalysis
        BY AwsExecutionAssumption, ExecutionJobAssumption DEF Written, State
    <2>3. /\ ByContract /\ SparesOthers(id)
          /\ ~Live(id) => jobs'[id] = NoJob
          /\ Live(id) =>
                /\ id \in Stored
                /\ Wrote(jobs[id]) => jobs'[id].analysis_id = p
                /\ ~Wrote(jobs[id]) =>
                    jobs'[id].state = IF IsActive(jobs[id]) THEN "cancelled" ELSE jobs[id].state
        BY <1>0, <1>1, <2>1, <2>2, WriteFacts
    <2>4. jobs'[id] # NoJob /\ jobs'[id].state = "ready" =>
            (jobs[id] # NoJob /\ jobs[id].state = "ready") \/ jobs'[id].analysis_id = p
        BY <2>3 DEF Stored
    <2> QED
        BY <2>1, <2>3, <2>4, SparedReadies DEF SparesOthers, Readied
<1> QED
    BY <1>3, <1>4, <1>5, <1>6 DEF PollStep

\* And so do the requests that create and remove a job, and the environment.
LEMMA JobCalls ==
    ASSUME StoreUse, NEW id \in JobId,
           Create(id) \/ LaunchStep(id) \/ Reappear(id) \/ DeadLetter(id)
               \/ RequestDelete(id) \/ RemovalStep(id) \/ ExpireItem(id)
    PROVE  ByContract /\ NoneReadied
<1>0. StoreInv /\ now \in 0..now
    BY ClockFacts DEF StoreUse
<1>1. CASE SaveHistory(id) \/ PutMaterial(id) \/ Enqueue(id) \/ DropMaterial(id) \/ Reappear(id)
           \/ DeadLetter(id) \/ RemoveObjects(id)
    <2>1. UNCHANGED storeVars
        BY <1>1 DEF SaveHistory, PutMaterial, Enqueue, DropMaterial, Reappear, DeadLetter, RemoveObjects
    <2> QED
        BY <2>1, IdleCall
<1>2. CASE Create(id)
    BY <1>0, <1>2, InsertReadies DEF Create
<1>3. CASE Charge(id) \/ RemoveJob(id) \/ ExpireItem(id)
    <2>1. Delete(id) \/ UNCHANGED storeVars
        BY <1>3 DEF Charge, RemoveJob, ExpireItem
    <2> QED
        BY <1>0, <2>1, DeleteReadies, IdleCall
<1>4. CASE FailLaunch(id)
    BY <1>0, <1>4, FailReadies DEF FailLaunch
<1>5. CASE RequestDelete(id)
    BY <1>0, <1>5, KindReadies DEF RequestDelete
<1> QED
    BY <1>1, <1>2, <1>3, <1>4, <1>5 DEF LaunchStep, RemovalStep

LEMMA OtherCalls ==
    ASSUME StoreUse, Restart \/ Advance \/ Evict
    PROVE  ByContract /\ NoneReadied
<1>0. StoreInv
    BY DEF StoreUse
<1>1. CASE Restart
    BY <1>1, IdleCall DEF Restart
<1>2. CASE Advance
    BY <1>2 DEF Advance, ByContract, StoreNext, Tick, NoneReadied
<1>3. CASE Evict
    <2>1. PICK S \in SUBSET Droppable : jobs' = Without(S)
        BY <1>3 DEF Evict, Drop
    <2>2. \A q \in JobId : jobs'[q] # NoJob => jobs'[q] = jobs[q]
        BY <2>1 DEF Without
    <2> QED
        BY <1>3, <2>2 DEF Evict, ByContract, StoreNext, NoneReadied
<1> QED
    BY <1>1, <1>2, <1>3

\* Every step is one of the contract, and a job becomes ready only when a poll
\* announces the analysis that it built.
LEMMA StoreCalls ==
    ASSUME StoreUse, Next
    PROVE  ByContract /\ (NoneReadied \/ \E p \in Poll : Readied(p))
<1>1. ASSUME NEW w \in Worker, NEW id \in JobId, Receive(w, id) PROVE ByContract /\ NoneReadied
    BY <1>1, IdleCall DEF Receive
<1>2. ASSUME NEW p \in Poll, NEW id \in JobId, StartPoll(p, id) PROVE ByContract /\ NoneReadied
    BY <1>2, IdleCall DEF StartPoll
<1> QED
    BY <1>1, <1>2, WorkerCalls, PollCalls, JobCalls, OtherCalls DEF Next

\* A worker that moves leaves the API alone.
LEMMA WorkersLeaveApi ==
    ASSUME NEW w \in Worker, WorkerStep(w) \/ ClaimConflicts(w) \/ Crash(w)
    PROVE  UNCHANGED api
BY DEF WorkerStep, GetJob, FailLost, ReleaseLost, Discard, DiscardObjects, GetMaterial,
       FailNoMaterial, ClaimJob, EnterStage, Stage, Succeed, PutReport, MarkReady, Abandon, FailRun,
       ReleaseJob, Cleanup, FinalGet, DeleteObjects, Acknowledge, ClaimConflicts, Crash, WorkerGoes

LEMMA CountsRestarts ==
    ASSUME restarts \in Nat, Next
    PROVE  restarts' \in Nat
<1>1. ASSUME NEW id \in JobId,
             Create(id) \/ LaunchStep(id) \/ Reappear(id) \/ DeadLetter(id)
                 \/ RequestDelete(id) \/ RemovalStep(id) \/ ExpireItem(id)
      PROVE  restarts' = restarts
    BY <1>1 DEF Create, LaunchStep, Charge, SaveHistory, PutMaterial, Enqueue, FailLaunch, DropMaterial,
                LaunchGoes, Reappear, DeadLetter, RequestDelete, RemovalStep, RemoveJob, RemoveObjects,
                RemovalGoes, ExpireItem, api
<1>2. ASSUME NEW p \in Poll, PollStep(p) \/ PollConflicts(p) PROVE restarts' = restarts
    BY <1>2 DEF PollStep, ClaimFinalize, ReadReport, BuildAnalysis, WriteReady, FailAnalysis,
                DeleteReports, PollGoes, PollConflicts
<1>3. ASSUME NEW p \in Poll, NEW id \in JobId, StartPoll(p, id) PROVE restarts' = restarts
    BY <1>3 DEF StartPoll
<1>4. ASSUME NEW w \in Worker, WorkerStep(w) \/ ClaimConflicts(w) \/ Crash(w) PROVE restarts' = restarts
    BY <1>4, WorkersLeaveApi DEF api
<1>5. ASSUME NEW w \in Worker, NEW id \in JobId, Receive(w, id) PROVE restarts' = restarts
    BY <1>5 DEF Receive, api
<1>6. CASE Restart \/ Advance \/ Evict
    BY <1>6 DEF Restart, Advance, Evict, api
<1> QED
    BY <1>1, <1>2, <1>3, <1>4, <1>5, <1>6 DEF Next

\* A worker that moves stays with the job it handles, and moves no other.
LEMMA OneMoves ==
    ASSUME WorkersPlaced, NEW w \in Worker, WorkerStep(w) \/ ClaimConflicts(w) \/ Crash(w)
    PROVE  /\ worker[w].pc \in Handling
           /\ worker' \in [Worker -> WorkerRecord]
           /\ \A v \in Worker : v # w => worker'[v] = worker[v]
           /\ worker'[w].pc \in Handling => worker'[w].id = worker[w].id
<1>1. worker[w].pc \in Handling
    BY DEF WorkerStep, GetJob, FailLost, ReleaseLost, Discard, DiscardObjects, GetMaterial,
           FailNoMaterial, ClaimJob, ClaimConflicts, EnterStage, Stage, Succeed, Following, PutReport,
           MarkReady, Abandon, FailRun, ReleaseJob, Cleanup, FinalGet, DeleteObjects, Acknowledge,
           Crash, Handling, Driving
<1>2. CASE ~ClaimJob(w) /\ ~ClaimConflicts(w)
    <2>1. PICK step \in Handling \cup {"done", "dead"} : WorkerGoes(w, step)
        <3>1. ASSUME NEW step \in Handling \cup {"done", "dead"}, WorkerGoes(w, step)
              PROVE  \E s \in Handling \cup {"done", "dead"} : WorkerGoes(w, s)
            BY <3>1
        <3>2. CASE GetJob(w)
            <4>1. \A job : AfterGet(job) \in Handling
                BY DEF AfterGet, Handling
            <4> QED
                BY <3>1, <3>2, <4>1 DEF GetJob, Handling
        <3>3. CASE EnterStage(w)
            <4>1. PICK st \in Stages : Stage(w, st[1], st[2], st[3])
                BY <3>3 DEF EnterStage, Stages
            <4>2. st[3] \in Handling /\ "release" \in Handling
                BY DEF Stages, Handling, Driving
            <4> QED
                BY <3>1, <4>1, <4>2 DEF Stage
        <3>4. CASE Succeed(w)
            BY <3>1, <3>4 DEF Succeed, Following, Handling, Driving
        <3>5. CASE GetMaterial(w) \/ FinalGet(w)
            BY <3>1, <3>5 DEF GetMaterial, FinalGet, Handling
        <3>6. CASE PutReport(w) \/ MarkReady(w) \/ Abandon(w) \/ FailRun(w) \/ ReleaseJob(w)
            BY <3>1, <3>6 DEF PutReport, MarkReady, Abandon, FailRun, ReleaseJob, Handling, Driving
        <3>7. CASE FailLost(w) \/ ReleaseLost(w) \/ Discard(w) \/ DiscardObjects(w) \/ FailNoMaterial(w)
            BY <3>1, <3>7 DEF FailLost, ReleaseLost, Discard, DiscardObjects, FailNoMaterial, Handling
        <3>8. CASE Cleanup(w) \/ DeleteObjects(w) \/ Acknowledge(w) \/ Crash(w)
            BY <3>1, <3>8 DEF Cleanup, DeleteObjects, Acknowledge, Crash, Handling
        <3> QED
            BY <1>2, <3>2, <3>3, <3>4, <3>5, <3>6, <3>7, <3>8 DEF WorkerStep
    <2>2. /\ worker' \in [Worker -> WorkerRecord]
          /\ \A v \in Worker : v # w => worker'[v] = worker[v]
          /\ worker'[w].pc = step
          /\ step \in Handling => worker'[w].id = worker[w].id
        BY <1>1, <2>1, WalkFacts DEF WorkersPlaced
    <2> QED
        BY <1>1, <2>2
<1>3. CASE ClaimJob(w)
    <2>1. PICK pc \in {"validate", "cleanup"} :
            worker' = [worker EXCEPT ![w].claimed = FALSE, ![w].pc = pc]
        BY <1>3 DEF ClaimJob
    <2>2. worker[w] \in WorkerRecord /\ pc \in Handling
        BY DEF WorkersPlaced, Handling, Driving
    <2>3. /\ worker'[w] = [[worker[w] EXCEPT !.claimed = FALSE] EXCEPT !.pc = pc]
          /\ worker' \in [Worker -> WorkerRecord]
          /\ \A v \in Worker : v # w => worker'[v] = worker[v]
        BY <2>1, <2>2 DEF WorkersPlaced, WorkerRecord
    <2> QED
        BY <1>1, <2>2, <2>3 DEF WorkerRecord
<1>4. CASE ClaimConflicts(w)
    <2>1. worker' = [worker EXCEPT ![w].claimed = TRUE]
        BY <1>4 DEF ClaimConflicts
    <2> QED
        BY <1>1, <2>1 DEF WorkersPlaced, WorkerRecord
<1> QED
    BY <1>1, <1>2, <1>3, <1>4

\* Where a step leaves the workers: one of them takes a job from the queue, or
\* one moves.
LEMMA WorkersStayPlaced == StoreUse /\ Next => WorkersPlaced'
<1> SUFFICES ASSUME StoreUse, Next PROVE WorkersPlaced'
    OBVIOUS
<1>0. WorkersPlaced
    BY DEF StoreUse
<1>1. ASSUME worker' = worker PROVE WorkersPlaced'
    BY <1>0, <1>1 DEF WorkersPlaced
<1>2. ASSUME NEW w \in Worker, WorkerStep(w) \/ ClaimConflicts(w) \/ Crash(w) PROVE WorkersPlaced'
    <2>1. /\ worker[w].pc \in Handling
          /\ worker' \in [Worker -> WorkerRecord]
          /\ \A v \in Worker : v # w => worker'[v] = worker[v]
          /\ worker'[w].pc \in Handling => worker'[w].id = worker[w].id
        BY <1>0, <1>2, OneMoves
    <2> QED
        BY <1>0, <2>1 DEF WorkersPlaced
<1>3. ASSUME NEW w \in Worker, NEW id \in JobId, Receive(w, id) PROVE WorkersPlaced'
    <2> DEFINE place == [Idle EXCEPT !.pc = "get", !.id = id]
    <2>1. place \in WorkerRecord /\ place.id = id
        BY DEF Idle, WorkerRecord, Handling
    <2>2. worker' = [worker EXCEPT ![w] = place]
        BY <1>3 DEF Receive
    <2> HIDE DEF place
    <2> QED
        BY <1>0, <2>1, <2>2 DEF WorkersPlaced
<1>4. ASSUME NEW id \in JobId,
             Create(id) \/ LaunchStep(id) \/ Reappear(id) \/ DeadLetter(id)
                 \/ RequestDelete(id) \/ RemovalStep(id) \/ ExpireItem(id)
      PROVE  worker' = worker
    BY <1>4 DEF Create, LaunchStep, Charge, SaveHistory, PutMaterial, Enqueue, FailLaunch, DropMaterial,
                LaunchGoes, Reappear, DeadLetter, RequestDelete, RemovalStep, RemoveJob, RemoveObjects,
                RemovalGoes, ExpireItem
<1>5. ASSUME NEW p \in Poll, PollStep(p) \/ PollConflicts(p) PROVE worker' = worker
    BY <1>5 DEF PollStep, ClaimFinalize, ReadReport, BuildAnalysis, WriteReady, FailAnalysis,
                DeleteReports, PollGoes, PollConflicts
<1>6. ASSUME NEW p \in Poll, NEW id \in JobId, StartPoll(p, id) PROVE worker' = worker
    BY <1>6 DEF StartPoll
<1>7. ASSUME Restart \/ Advance \/ Evict PROVE worker' = worker
    BY <1>7 DEF Restart, Advance, Evict
<1> QED
    BY <1>1, <1>2, <1>3, <1>4, <1>5, <1>6, <1>7 DEF Next

\* Where a step leaves the polls: a poll that reads the clock starts with it.
LEMMA PollsStayPlaced == StoreUse /\ Next => PollsPlaced'
<1> SUFFICES ASSUME StoreUse, Next PROVE PollsPlaced'
    OBVIOUS
<1>0. PollsPlaced /\ StoreInv /\ now \in Nat
    BY ClockFacts DEF StoreUse
<1>1. ByContract
    BY StoreCalls
<1>2. now' \in Nat /\ now' >= now
    BY <1>0, <1>1, ClockAdvances
<1>3. ASSUME poll' = poll PROVE PollsPlaced'
    <2>1. ASSUME NEW p \in Poll, Polling(p) PROVE poll[p].id \in JobId /\ poll[p].clock <= now'
        <3>1. poll[p].clock \in Nat /\ poll[p].clock <= now /\ poll[p].id \in JobId
            BY <1>0, <2>1 DEF PollsPlaced, PollRecord
        <3> QED
            BY <1>0, <1>2, <3>1
    <2> QED
        BY <1>0, <1>3, <2>1 DEF PollsPlaced, Polling
<1>4. ASSUME NEW p \in Poll, poll' \in [Poll -> PollRecord], \A r \in Poll : r # p => poll'[r] = poll[r],
             Polling(p)' => poll'[p].id \in JobId /\ poll'[p].clock <= now'
      PROVE  PollsPlaced'
    <2>1. ASSUME NEW r \in Poll, Polling(r)' PROVE poll'[r].id \in JobId /\ poll'[r].clock <= now'
        <3>1. CASE r = p
            BY <1>4, <2>1, <3>1
        <3>2. CASE r # p
            <4>1. Polling(r) /\ poll'[r] = poll[r]
                BY <1>4, <2>1, <3>2 DEF Polling
            <4>2. poll[r].clock \in Nat /\ poll[r].clock <= now /\ poll[r].id \in JobId
                BY <1>0, <4>1 DEF PollsPlaced, PollRecord
            <4> QED
                BY <1>0, <1>2, <4>1, <4>2
        <3> QED
            BY <3>1, <3>2
    <2> QED
        BY <1>4, <2>1 DEF PollsPlaced
<1>5. ASSUME NEW p \in Poll, PollStep(p) PROVE PollsPlaced'
    <2>1. PICK step \in PollStepNames : PollGoes(p, step)
        BY <1>5 DEF PollStep, ClaimFinalize, ReadReport, BuildAnalysis, WriteReady, FailAnalysis,
                    DeleteReports, PollStepNames, Reports
    <2>2. Polling(p)
        BY <1>5 DEF PollStep, ClaimFinalize, ReadReport, BuildAnalysis, WriteReady, FailAnalysis,
                    DeleteReports, Polling, Reports
    <2>3. /\ poll' \in [Poll -> PollRecord]
          /\ \A r \in Poll : r # p => poll'[r] = poll[r]
          /\ poll'[p].pc = step /\ poll'[p].clock = 0
          /\ step \notin {"idle", "done"} => poll'[p].id = poll[p].id
        BY <1>0, <2>1, TurnFacts DEF PollsPlaced
    <2>4. Polling(p)' => poll'[p].id \in JobId /\ poll'[p].clock <= now'
        BY <1>0, <1>2, <2>2, <2>3 DEF PollsPlaced, Polling
    <2> QED
        BY <1>4, <2>3, <2>4
<1>6. ASSUME NEW p \in Poll, PollConflicts(p) PROVE PollsPlaced'
    <2>1. poll[p].pc = "claim" /\ poll' = [poll EXCEPT ![p].claimed = TRUE]
        BY <1>6 DEF PollConflicts
    <2>2. /\ poll' \in [Poll -> PollRecord]
          /\ \A r \in Poll : r # p => poll'[r] = poll[r]
          /\ poll'[p].id = poll[p].id /\ poll'[p].clock = poll[p].clock
        BY <1>0, <2>1 DEF PollsPlaced, PollRecord
    <2>3. poll[p].clock \in Nat /\ poll[p].clock <= now /\ poll[p].id \in JobId
        BY <1>0, <2>1 DEF PollsPlaced, PollRecord, Polling
    <2>4. poll'[p].id \in JobId /\ poll'[p].clock <= now'
        BY <1>0, <1>2, <2>2, <2>3
    <2> QED
        BY <1>4, <2>2, <2>4
<1>7. ASSUME NEW p \in Poll, NEW id \in JobId, StartPoll(p, id) PROVE PollsPlaced'
    <2> DEFINE place == [NoPoll EXCEPT !.pc = "claim", !.id = id, !.clock = now]
    <2>1. place \in PollRecord /\ place.id = id /\ place.clock = now
        BY <1>0 DEF NoPoll, PollRecord
    <2>2. poll' = [poll EXCEPT ![p] = place]
        BY <1>7 DEF StartPoll
    <2> HIDE DEF place
    <2>3. /\ poll' \in [Poll -> PollRecord]
          /\ \A r \in Poll : r # p => poll'[r] = poll[r]
          /\ poll'[p].id = id /\ poll'[p].clock = now
        BY <1>0, <2>1, <2>2 DEF PollsPlaced
    <2> QED
        BY <1>2, <1>4, <2>3
<1>8. CASE Restart
    <2>1. ASSUME NEW p \in Poll PROVE poll'[p] \in PollRecord /\ ~Polling(p)'
        <3>1. poll'[p] \in {NoPoll, [NoPoll EXCEPT !.pc = "done"]}
            BY <1>8 DEF Restart
        <3>2. /\ NoPoll \in PollRecord /\ NoPoll.pc = "idle"
              /\ [NoPoll EXCEPT !.pc = "done"] \in PollRecord
              /\ [NoPoll EXCEPT !.pc = "done"].pc = "done"
            BY DEF NoPoll, PollRecord
        <3> QED
            BY <3>1, <3>2 DEF Polling
    <2>2. poll' \in [Poll -> PollRecord]
        BY <1>8, <2>1 DEF Restart
    <2> QED
        BY <2>1, <2>2 DEF PollsPlaced
<1>9. ASSUME NEW id \in JobId,
             Create(id) \/ LaunchStep(id) \/ Reappear(id) \/ DeadLetter(id)
                 \/ RequestDelete(id) \/ RemovalStep(id) \/ ExpireItem(id)
      PROVE  poll' = poll
    BY <1>9 DEF Create, LaunchStep, Charge, SaveHistory, PutMaterial, Enqueue, FailLaunch, DropMaterial,
                LaunchGoes, Reappear, DeadLetter, RequestDelete, RemovalStep, RemoveJob, RemoveObjects,
                RemovalGoes, ExpireItem, api
<1>10. ASSUME NEW w \in Worker, WorkerStep(w) \/ ClaimConflicts(w) \/ Crash(w) PROVE poll' = poll
    BY <1>10, WorkersLeaveApi DEF api
<1>11. ASSUME NEW w \in Worker, NEW id \in JobId, Receive(w, id) PROVE poll' = poll
    BY <1>11 DEF Receive, api
<1>12. ASSUME Advance \/ Evict PROVE poll' = poll
    BY <1>12 DEF Advance, Evict, api
<1> QED
    BY <1>3, <1>5, <1>6, <1>7, <1>8, <1>9, <1>10, <1>11, <1>12 DEF Next

\* As long as the API does not restart, no analysis is lost, and a poll stores
\* its own before it announces it.
LEMMA AnnouncedFirst ==
    ASSUME StoreUse, Next, MaxRestarts = 0
    PROVE  Announces'
<1>0. Announces /\ StoreInv /\ ~Restart
    BY DEF StoreUse, Restart
<1>1. /\ analyses \subseteq analyses'
      /\ \A p \in Poll : poll'[p].pc = "ready" => p \in analyses'
    <2>1. ASSUME poll' = poll, analyses' = analyses
          PROVE  /\ analyses \subseteq analyses'
                 /\ \A p \in Poll : poll'[p].pc = "ready" => p \in analyses'
        BY <1>0, <2>1 DEF Announces
    <2>2. ASSUME NEW p \in Poll, PollStep(p)
          PROVE  /\ analyses \subseteq analyses'
                 /\ \A r \in Poll : poll'[r].pc = "ready" => r \in analyses'
        <3>1. PICK step \in PollStepNames :
                /\ PollGoes(p, step)
                /\ step = "ready" => p \in analyses'
                /\ analyses \subseteq analyses'
            BY <2>2 DEF PollStep, ClaimFinalize, ReadReport, BuildAnalysis, WriteReady, FailAnalysis,
                        DeleteReports, PollStepNames, Reports
        <3>2. /\ \A r \in Poll : r # p => poll'[r] = poll[r]
              /\ poll'[p].pc = step
            BY <3>1, TurnFacts DEF StoreUse, PollsPlaced
        <3> QED
            BY <1>0, <3>1, <3>2 DEF Announces
    <2>3. ASSUME NEW p \in Poll, PollConflicts(p)
          PROVE  /\ analyses \subseteq analyses'
                 /\ \A r \in Poll : poll'[r].pc = "ready" => r \in analyses'
        <3>1. /\ poll' = [poll EXCEPT ![p].claimed = TRUE] /\ analyses' = analyses
              /\ poll[p].pc = "claim" /\ poll[p] \in PollRecord
            BY <2>3 DEF PollConflicts, StoreUse, PollsPlaced
        <3>2. \A r \in Poll : poll'[r].pc = poll[r].pc
            BY <3>1 DEF StoreUse, PollsPlaced, PollRecord
        <3> QED
            BY <1>0, <3>1, <3>2 DEF Announces
    <2>4. ASSUME NEW p \in Poll, NEW id \in JobId, StartPoll(p, id)
          PROVE  /\ analyses \subseteq analyses'
                 /\ \A r \in Poll : poll'[r].pc = "ready" => r \in analyses'
        <3> DEFINE place == [NoPoll EXCEPT !.pc = "claim", !.id = id, !.clock = now]
        <3>1. poll' = [poll EXCEPT ![p] = place] /\ analyses' = analyses /\ place.pc = "claim"
            BY <2>4 DEF StartPoll, NoPoll
        <3> HIDE DEF place
        <3> QED
            BY <1>0, <3>1 DEF Announces, StoreUse, PollsPlaced
    <2>5. ASSUME NEW id \in JobId,
                 Create(id) \/ LaunchStep(id) \/ Reappear(id) \/ DeadLetter(id)
                     \/ RequestDelete(id) \/ RemovalStep(id) \/ ExpireItem(id)
          PROVE  poll' = poll /\ analyses' = analyses
        BY <2>5 DEF Create, LaunchStep, Charge, SaveHistory, PutMaterial, Enqueue, FailLaunch,
                    DropMaterial, LaunchGoes, Reappear, DeadLetter, RequestDelete, RemovalStep,
                    RemoveJob, RemoveObjects, RemovalGoes, ExpireItem, api
    <2>6. ASSUME NEW w \in Worker, WorkerStep(w) \/ ClaimConflicts(w) \/ Crash(w)
          PROVE  poll' = poll /\ analyses' = analyses
        BY <2>6, WorkersLeaveApi DEF api
    <2>7. ASSUME NEW w \in Worker, NEW id \in JobId, Receive(w, id)
          PROVE  poll' = poll /\ analyses' = analyses
        BY <2>7 DEF Receive, api
    <2>8. ASSUME Advance \/ Evict PROVE poll' = poll /\ analyses' = analyses
        BY <2>8 DEF Advance, Evict, api
    <2> QED
        BY <1>0, <2>1, <2>2, <2>3, <2>4, <2>5, <2>6, <2>7, <2>8 DEF Next
<1>2. ASSUME NEW q \in Stored', jobs'[q].state = "ready" PROVE jobs'[q].analysis_id \in analyses'
    <2>1. q \in JobId /\ jobs'[q] # NoJob
        BY <1>2 DEF Stored
    <2>2. CASE jobs[q] # NoJob /\ jobs[q].state = "ready"
        <3>1. jobs'[q].analysis_id = jobs[q].analysis_id
            BY <1>0, <2>1, <2>2, StoreCalls, StepKeepsOutcome
               DEF ByContract, OutcomeFinal, Stored, Terminal
        <3>2. jobs[q].analysis_id \in analyses
            BY <1>0, <2>1, <2>2 DEF Announces, ReadyHasAnalysis, Stored
        <3> QED
            BY <1>1, <3>1, <3>2
    <2>3. CASE ~(jobs[q] # NoJob /\ jobs[q].state = "ready")
        <3>1. PICK p \in Poll : poll[p].pc = "ready" /\ jobs'[q].analysis_id = p
            BY <1>2, <2>1, <2>3, StoreCalls DEF NoneReadied, Readied
        <3> QED
            BY <1>0, <1>1, <3>1 DEF Announces
    <2> QED
        BY <2>2, <2>3
<1> QED
    BY <1>1, <1>2 DEF Announces, ReadyHasAnalysis

LEMMA StoreUseHolds == Spec => []StoreUse
<1>1. Init => StoreUse
    <2> SUFFICES ASSUME Init PROVE StoreUse
        OBVIOUS
    <2>1. StoreInv /\ Stored = {}
        BY InitStoreInv DEF Init, StoreInit, Stored
    <2>2. Idle \in WorkerRecord /\ Idle.pc = "idle" /\ NoPoll \in PollRecord /\ NoPoll.pc = "idle"
        BY DEF Idle, WorkerRecord, NoPoll, PollRecord
    <2>3. "idle" \notin Handling
        BY DEF Handling, Driving
    <2> QED
        BY <2>1, <2>2, <2>3
           DEF Init, StoreUse, WorkersPlaced, PollsPlaced, Polling, Announces, ReadyHasAnalysis
<1>2. StoreUse /\ [Next]_vars => StoreUse'
    <2>1. ASSUME StoreUse, Next PROVE StoreUse'
        <3>1. StoreInv'
            BY <2>1, StoreCalls, StepStoreInv DEF StoreUse, ByContract
        <3>2. restarts' \in Nat
            BY <2>1, CountsRestarts DEF StoreUse
        <3> QED
            BY <2>1, <3>1, <3>2, WorkersStayPlaced, PollsStayPlaced, AnnouncedFirst DEF StoreUse
    <2>2. ASSUME StoreUse, UNCHANGED vars PROVE StoreUse'
        <3>1. StoreInv'
            BY <2>2, StepStoreInv DEF StoreUse, vars, storeVars
        <3> QED
            BY <2>2, <3>1 DEF vars, StoreUse, WorkersPlaced, PollsPlaced, Polling, Announces,
                              ReadyHasAnalysis, Stored
    <2> QED
        BY <2>1, <2>2
<1> QED
    BY <1>1, <1>2, PTL DEF Spec

\* The launcher, the workers, the finalizer and DELETE use the store as its
\* contract says, however often a message is delivered.
THEOREM StoreUsedByContract == Spec => StoreSpec
<1>1. Init => StoreInit
    BY DEF Init
<1>2. StoreUse /\ [Next]_vars => [StoreNext]_storeVars
    <2>1. StoreUse /\ Next => StoreNext \/ UNCHANGED storeVars
        BY StoreCalls DEF ByContract
    <2>2. UNCHANGED vars => UNCHANGED storeVars
        BY DEF vars, storeVars
    <2> QED
        BY <2>1, <2>2
<1> QED
    BY <1>1, <1>2, StoreUseHolds, PTL DEF Spec, StoreSpec

\* So no owner has more jobs that count than the cap, whatever happens to the
\* messages, to the tasks and to the API.
THEOREM CapHoldsOnAws == Spec => []CapKept
<1> QED
    BY StoreUsedByContract, ContractKeepsCap, PTL

\* And a job that is over stays over, with its outcome and its analysis, though
\* a second worker drives it, a second poll finalizes it or its owner deletes
\* it at the same time.
THEOREM OutcomeFinalOnAws == Spec => [][OutcomeFinal /\ StayRemoved]_storeVars
<1> QED
    BY StoreUsedByContract, ContractKeepsOutcome, ContractNeverResurrects, PTL

\* The analysis that a ready job names is in memory, as long as the API does not
\* restart: of two polls that build one, each stores its own before it
\* announces it, and the second announcement changes nothing.
THEOREM ReadyKnown == ASSUME MaxRestarts = 0 PROVE Spec => []ReadyHasAnalysis
<1>1. StoreUse => ReadyHasAnalysis
    BY DEF StoreUse, Announces
<1> QED
    BY <1>1, StoreUseHolds, PTL

-----------------------------------------------------------------------------
(* How many handle a job at once, when messages are delivered twice.       *)

Message == [at : {"none", "queue", "flight", "dead_letter", "deleted"}, receives : Nat]

\* Every handler of a job's message received it, and only so many may.
HandlersInv ==
    /\ msg \in [JobId -> Message]
    /\ \A id \in JobId :
        /\ msg[id].receives <= MaxReceive
        /\ IsFiniteSet(LiveOn(id))
        /\ Cardinality(LiveOn(id)) <= msg[id].receives

\* A step that lets nobody receive a message brings no job another handler.
Settles ==
    /\ msg' \in [JobId -> Message]
    /\ \A id \in JobId : msg'[id].receives = msg[id].receives /\ LiveOn(id)' \subseteq LiveOn(id)

LEMMA SettlesKeeps ==
    ASSUME HandlersInv, Settles
    PROVE  HandlersInv'
<1> SUFFICES ASSUME NEW id \in JobId
             PROVE  /\ msg'[id].receives <= MaxReceive
                    /\ IsFiniteSet(LiveOn(id)')
                    /\ Cardinality(LiveOn(id)') <= msg'[id].receives
    BY DEF HandlersInv, Settles
<1>1. /\ msg[id].receives \in Nat /\ msg[id].receives <= MaxReceive /\ IsFiniteSet(LiveOn(id))
      /\ Cardinality(LiveOn(id)) <= msg[id].receives /\ msg'[id].receives = msg[id].receives
      /\ LiveOn(id)' \subseteq LiveOn(id)
    BY DEF HandlersInv, Settles, Message
<1>2. /\ IsFiniteSet(LiveOn(id)') /\ Cardinality(LiveOn(id)') <= Cardinality(LiveOn(id))
      /\ Cardinality(LiveOn(id)) \in Nat /\ Cardinality(LiveOn(id)') \in Nat
    BY <1>1, FS_Subset, FS_CardinalityType
<1> QED
    BY <1>1, <1>2

LEMMA MovesFewer ==
    ASSUME WorkersPlaced, WorkersPlaced', NEW w \in Worker, worker[w].pc \in Handling,
           \A v \in Worker : v # w => worker'[v] = worker[v],
           worker'[w].pc \in Handling => worker'[w].id = worker[w].id,
           NEW id \in JobId
    PROVE  LiveOn(id)' \subseteq LiveOn(id)
BY DEF LiveOn

LEMMA MessageDeleted ==
    ASSUME HandlersInv, NEW id \in JobId, DeleteMessage(id)
    PROVE  /\ msg' \in [JobId -> Message]
           /\ \A q \in JobId : msg'[q].receives = msg[q].receives
<1>1. msg[id] \in Message /\ [msg[id] EXCEPT !.at = "deleted"] \in Message
      /\ [msg[id] EXCEPT !.at = "deleted"].receives = msg[id].receives
    BY DEF HandlersInv, Message
<1> QED
    BY <1>1 DEF DeleteMessage, HandlersInv

LEMMA MessageMoved ==
    ASSUME HandlersInv, NEW id \in JobId, NEW at \in {"queue", "dead_letter"},
           msg' = [msg EXCEPT ![id].at = at]
    PROVE  /\ msg' \in [JobId -> Message]
           /\ \A q \in JobId : msg'[q].receives = msg[q].receives
<1>1. msg[id] \in Message /\ [msg[id] EXCEPT !.at = at] \in Message
      /\ [msg[id] EXCEPT !.at = at].receives = msg[id].receives
    BY DEF HandlersInv, Message
<1> QED
    BY <1>1 DEF HandlersInv

LEMMA WorkerSettles ==
    ASSUME StoreUse, HandlersInv, NEW w \in Worker, WorkerStep(w) \/ ClaimConflicts(w) \/ Crash(w)
    PROVE  Settles
<1>0. WorkersPlaced /\ WorkersPlaced'
    BY WorkersStayPlaced DEF StoreUse, Next
<1>1. worker[w].pc \in Handling /\ worker[w].id \in JobId
    BY <1>0 DEF WorkersPlaced, WorkerStep, GetJob, FailLost, ReleaseLost, Discard, DiscardObjects,
                GetMaterial, FailNoMaterial, ClaimJob, ClaimConflicts, EnterStage, Stage, Succeed,
                Following, PutReport, MarkReady, Abandon, FailRun, ReleaseJob, Cleanup, FinalGet,
                DeleteObjects, Acknowledge, Crash, Handling, Driving
<1>2. /\ \A v \in Worker : v # w => worker'[v] = worker[v]
      /\ worker'[w].pc \in Handling => worker'[w].id = worker[w].id
    BY <1>0, OneMoves
<1>3. /\ msg' \in [JobId -> Message]
      /\ \A q \in JobId : msg'[q].receives = msg[q].receives
    <2>1. CASE Discard(w) \/ Acknowledge(w)
        BY <1>1, <2>1, MessageDeleted DEF Discard, Acknowledge
    <2>2. CASE ~(Discard(w) \/ Acknowledge(w))
        <3>1. msg' = msg
            BY <2>2 DEF WorkerStep, GetJob, FailLost, ReleaseLost, DiscardObjects, GetMaterial,
                        FailNoMaterial, ClaimJob, ClaimConflicts, EnterStage, Stage, Succeed,
                        PutReport, MarkReady, Abandon, FailRun, ReleaseJob, Cleanup, FinalGet,
                        DeleteObjects, Crash, aws
        <3> QED
            BY <3>1 DEF HandlersInv
    <2> QED
        BY <2>1, <2>2
<1>4. \A id \in JobId : LiveOn(id)' \subseteq LiveOn(id)
    BY <1>0, <1>1, <1>2, MovesFewer
<1> QED
    BY <1>3, <1>4 DEF Settles

LEMMA ApiSettles ==
    ASSUME HandlersInv, worker' = worker,
           msg' = msg \/ \E id \in JobId, at \in {"queue", "dead_letter"} : msg' = [msg EXCEPT ![id].at = at]
    PROVE  Settles
<1>1. /\ msg' \in [JobId -> Message]
      /\ \A q \in JobId : msg'[q].receives = msg[q].receives
    BY MessageMoved DEF HandlersInv
<1>2. \A id \in JobId : LiveOn(id)' = LiveOn(id)
    BY DEF LiveOn
<1> QED
    BY <1>1, <1>2 DEF Settles

LEMMA ReceiveHandled ==
    ASSUME StoreUse, HandlersInv, NEW w \in Worker, NEW id \in JobId, Receive(w, id)
    PROVE  HandlersInv'
<1> DEFINE place == [Idle EXCEPT !.pc = "get", !.id = id]
           sent == [at |-> "flight", receives |-> msg[id].receives + 1]
<1>1. /\ worker[w].pc = "idle" /\ msg[id].receives < MaxReceive
      /\ msg' = [msg EXCEPT ![id] = sent] /\ worker' = [worker EXCEPT ![w] = place]
    BY DEF Receive, Receivable
<1>2. /\ place.pc = "get" /\ place.id = id
      /\ sent \in Message /\ sent.receives = msg[id].receives + 1 /\ msg[id].receives \in Nat
    BY DEF Idle, Message, HandlersInv
<1> HIDE DEF place, sent
<1>3. /\ msg' \in [JobId -> Message] /\ msg'[id] = sent
      /\ \A q \in JobId : q # id => msg'[q] = msg[q]
      /\ worker'[w] = place /\ \A v \in Worker : v # w => worker'[v] = worker[v]
    BY <1>1, <1>2 DEF HandlersInv, StoreUse, WorkersPlaced
<1>4. "idle" \notin Handling
    BY DEF Handling, Driving
<1>5. ASSUME NEW q \in JobId
      PROVE  /\ msg'[q].receives <= MaxReceive
             /\ IsFiniteSet(LiveOn(q)')
             /\ Cardinality(LiveOn(q)') <= msg'[q].receives
    <2>1. /\ IsFiniteSet(LiveOn(q)) /\ Cardinality(LiveOn(q)) <= msg[q].receives
          /\ msg[q].receives \in Nat /\ msg[q].receives <= MaxReceive
        BY DEF HandlersInv, Message
    <2>2. CASE q = id
        <3>1. w \notin LiveOn(q)
            BY <1>1, <1>4 DEF LiveOn
        <3>2. LiveOn(q)' \subseteq LiveOn(q) \cup {w}
            BY <1>3 DEF LiveOn
        <3>3. /\ IsFiniteSet(LiveOn(q) \cup {w})
              /\ Cardinality(LiveOn(q) \cup {w}) = Cardinality(LiveOn(q)) + 1
              /\ Cardinality(LiveOn(q)) \in Nat
            BY <2>1, <3>1, FS_AddElement, FS_CardinalityType
        <3>4. /\ IsFiniteSet(LiveOn(q)') /\ Cardinality(LiveOn(q)') \in Nat
              /\ Cardinality(LiveOn(q)') <= Cardinality(LiveOn(q) \cup {w})
            BY <3>2, <3>3, FS_Subset, FS_CardinalityType
        <3> QED
            BY <1>1, <1>2, <1>3, <2>1, <2>2, <3>3, <3>4, AwsExecutionAssumption
    <2>3. CASE q # id
        <3>1. LiveOn(q)' \subseteq LiveOn(q) /\ msg'[q] = msg[q]
            BY <1>2, <1>3, <2>3 DEF LiveOn
        <3>2. /\ IsFiniteSet(LiveOn(q)') /\ Cardinality(LiveOn(q)') <= Cardinality(LiveOn(q))
              /\ Cardinality(LiveOn(q)) \in Nat /\ Cardinality(LiveOn(q)') \in Nat
            BY <2>1, <3>1, FS_Subset, FS_CardinalityType
        <3> QED
            BY <2>1, <3>1, <3>2
    <2> QED
        BY <2>2, <2>3
<1> QED
    BY <1>3, <1>5 DEF HandlersInv

\* However often SQS delivers a message, no job is handled by more tasks at a
\* time than maxReceiveCount, the dead ones not counted: its Newman runs, which
\* the cap does not bound then, are so many at most.
HandlersBounded == \A id \in JobId : Cardinality(LiveOn(id)) <= MaxReceive

\* SQS counts what it delivers, and each delivery starts one task (claim).
THEOREM HandlersAlwaysBounded == Spec => []HandlersBounded
<1>1. Init => HandlersInv
    <2> SUFFICES ASSUME Init PROVE HandlersInv
        OBVIOUS
    <2>1. "idle" \notin Handling /\ Idle.pc = "idle"
        BY DEF Handling, Driving, Idle
    <2>2. msg \in [JobId -> Message] /\ \A id \in JobId : msg[id].receives = 0
        BY DEF Init, Message
    <2>3. \A id \in JobId : LiveOn(id) = {}
        BY <2>1 DEF Init, LiveOn
    <2>4. ASSUME NEW id \in JobId
          PROVE  /\ msg[id].receives <= MaxReceive
                 /\ IsFiniteSet(LiveOn(id))
                 /\ Cardinality(LiveOn(id)) <= msg[id].receives
        <3>1. IsFiniteSet(LiveOn(id)) /\ Cardinality(LiveOn(id)) = 0
            BY <2>3, FS_EmptySet
        <3> QED
            BY <2>2, <3>1, AwsExecutionAssumption
    <2> QED
        BY <2>2, <2>4 DEF HandlersInv
<1>2. StoreUse /\ HandlersInv /\ [Next]_vars => HandlersInv'
    <2> SUFFICES ASSUME StoreUse, HandlersInv, [Next]_vars PROVE HandlersInv'
        OBVIOUS
    <2>1. ASSUME NEW id \in JobId,
                 Create(id) \/ LaunchStep(id) \/ Reappear(id) \/ DeadLetter(id)
                     \/ RequestDelete(id) \/ RemovalStep(id) \/ ExpireItem(id)
          PROVE  Settles
        <3>1. worker' = worker
            BY <2>1 DEF Create, LaunchStep, Charge, SaveHistory, PutMaterial, Enqueue, FailLaunch,
                        DropMaterial, LaunchGoes, Reappear, DeadLetter, RequestDelete, RemovalStep,
                        RemoveJob, RemoveObjects, RemovalGoes, ExpireItem
        <3>2. msg' = msg \/ \E at \in {"queue", "dead_letter"} : msg' = [msg EXCEPT ![id].at = at]
            BY <2>1 DEF Create, LaunchStep, Charge, SaveHistory, PutMaterial, Enqueue, FailLaunch,
                        DropMaterial, Reappear, DeadLetter, RequestDelete, RemovalStep, RemoveJob,
                        RemoveObjects, ExpireItem, aws
        <3> QED
            BY <3>1, <3>2, ApiSettles
    <2>2. ASSUME NEW p \in Poll, PollStep(p) \/ PollConflicts(p) PROVE Settles
        <3>1. worker' = worker /\ msg' = msg
            BY <2>2 DEF PollStep, ClaimFinalize, ReadReport, BuildAnalysis, WriteReady, FailAnalysis,
                        DeleteReports, PollGoes, PollConflicts, aws
        <3> QED
            BY <3>1, ApiSettles
    <2>3. ASSUME NEW p \in Poll, NEW id \in JobId, StartPoll(p, id) PROVE Settles
        BY <2>3, ApiSettles DEF StartPoll, aws
    <2>4. ASSUME Restart \/ Advance \/ Evict \/ UNCHANGED vars PROVE Settles
        BY <2>4, ApiSettles DEF Restart, Advance, Evict, aws, vars
    <2> QED
        BY <2>1, <2>2, <2>3, <2>4, WorkerSettles, ReceiveHandled, SettlesKeeps DEF Next
<1>3. HandlersInv => HandlersBounded
    <2> SUFFICES ASSUME HandlersInv, NEW id \in JobId PROVE Cardinality(LiveOn(id)) <= MaxReceive
        BY DEF HandlersBounded
    <2>1. /\ msg[id].receives \in Nat /\ msg[id].receives <= MaxReceive
          /\ Cardinality(LiveOn(id)) \in Nat /\ Cardinality(LiveOn(id)) <= msg[id].receives
        BY FS_CardinalityType DEF HandlersInv, Message
    <2> QED
        BY <2>1, AwsExecutionAssumption
<1> QED
    BY <1>1, <1>2, <1>3, StoreUseHolds, PTL DEF Spec

-----------------------------------------------------------------------------
(* The whole. *)

LEMMA InitInv == Init => Inv /\ \A id \in JobId : Life(id)!Init
<1> SUFFICES ASSUME Init PROVE Inv /\ \A id \in JobId : Life(id)!Init
    OBVIOUS
<1>1. StoreInv /\ Stored = {} /\ issued = {}
    BY InitStoreInv DEF Init, StoreInit, Stored
<1>2. Idle \in WorkerRecord /\ Idle.pc = "idle" /\ NoPoll \in PollRecord /\ NoPoll.pc = "idle"
    BY DEF Idle, WorkerRecord, NoPoll, PollRecord
<1>3. TypeOK
    BY <1>2 DEF Init, TypeOK, Unsent
<1>4. "idle" \notin Handling
    BY DEF Handling, Driving
<1>5. \A w \in Worker : worker[w].pc = "idle"
    BY <1>2 DEF Init
<1>6. \A id \in JobId : LiveOn(id) = {}
    BY <1>4, <1>5 DEF LiveOn
<1>7. ASSUME NEW id \in JobId PROVE JobInv(id)
    <2>1. msg[id].at = "none" /\ launch[id] = "none" /\ removal[id] = "none"
        BY DEF Init
    <2> QED
        BY <1>1, <1>6, <2>1
            DEF JobInv, OneHandler, LaunchOK, QueueOK, RemovalOK, RecordOK, SettledOK
<1>8. \A w \in Worker : WorkerOK(w)
    BY <1>4, <1>5 DEF WorkerOK
<1>9. \A p \in Poll : PollOK(p)
    BY <1>2 DEF Init, PollOK, Polling
<1>10. \A id \in JobId : Life(id)!Init
    BY <1>1 DEF Phase, Life!Init
<1> QED
    BY <1>1, <1>3, <1>7, <1>8, <1>9, <1>10 DEF Inv

LEMMA EveryStep == ~Duplicates /\ Inv /\ Next => StepOK
<1> SUFFICES ASSUME ~Duplicates, Inv, Next PROVE StepOK
    OBVIOUS
<1>1. ASSUME NEW id \in JobId,
             Create(id) \/ LaunchStep(id) \/ Reappear(id) \/ DeadLetter(id)
                \/ RequestDelete(id) \/ RemovalStep(id) \/ ExpireItem(id)
      PROVE  ApiEffect
    BY <1>1, CreateEffect, ChargeEffect, SaveHistoryEffect, PutMaterialEffect, EnqueueEffect,
       FailLaunchEffect, DropMaterialEffect, ReappearEffect, DeadLetterEffect, RequestDeleteEffect,
       RemoveJobEffect, RemoveObjectsEffect, ExpireItemEffect
       DEF LaunchStep, RemovalStep
<1>2. ASSUME NEW p \in Poll, PollStep(p) \/ PollConflicts(p) PROVE ApiEffect
    BY <1>2, ClaimFinalizeEffect, ReadReportEffect, BuildAnalysisEffect, WriteReadyEffect,
       FailAnalysisEffect, DeleteReportsEffect, PollConflictsEffect
       DEF PollStep
<1>3. ASSUME NEW p \in Poll, NEW id \in JobId, StartPoll(p, id) PROVE ApiEffect
    BY <1>3, StartPollEffect
<1>4. ASSUME Restart \/ Advance \/ Evict PROVE ApiEffect
    BY <1>4, RestartEffect, AdvanceEffect, EvictEffect
<1>5. ASSUME NEW w \in Worker, WorkerStep(w) \/ ClaimConflicts(w) \/ Crash(w) PROVE StepOK
    BY <1>5, WorkerStepEffect, WorkerEffectKeeps
<1>6. ASSUME NEW w \in Worker, NEW id \in JobId, Receive(w, id) PROVE StepOK
    BY <1>6, ReceiveKeeps
<1> QED
    BY <1>1, <1>2, <1>3, <1>4, <1>5, <1>6, ApiEffectKeeps DEF Next

LEMMA StutterKeeps == Inv /\ UNCHANGED vars => Inv' /\ UNCHANGED storeVars
<1> SUFFICES ASSUME Inv, UNCHANGED vars PROVE Inv' /\ UNCHANGED storeVars
    OBVIOUS
<1>1. /\ jobs' = jobs /\ issued' = issued /\ now' = now /\ msg' = msg /\ objects' = objects
      /\ launch' = launch /\ removal' = removal /\ worker' = worker /\ poll' = poll
      /\ analyses' = analyses /\ restarts' = restarts
    BY DEF vars
<1>2. UNCHANGED storeVars /\ Stored' = Stored /\ (NoneDied' <=> NoneDied)
      /\ \A id \in JobId : LiveOn(id)' = LiveOn(id)
    BY <1>1 DEF storeVars, Stored, NoneDied, LiveOn
<1>3. StoreInv' /\ TypeOK'
    BY <1>1, <1>2, StepStoreInv DEF Inv, TypeOK
<1>4. ASSUME NEW id \in JobId PROVE JobInv(id)'
    BY <1>1, <1>2 DEF Inv, JobInv, OneHandler, LaunchOK, QueueOK, RemovalOK, RecordOK, SettledOK
<1>5. ASSUME NEW w \in Worker PROVE WorkerOK(w)'
    BY <1>1, <1>2 DEF Inv, WorkerOK, Fits
<1>6. ASSUME NEW p \in Poll PROVE PollOK(p)'
    BY <1>1, <1>2 DEF Inv, PollOK, Polling
<1> QED
    BY <1>2, <1>3, <1>4, <1>5, <1>6 DEF Inv

\* The invariant holds whatever the numbers of jobs, workers and polls, when no
\* message is delivered while its receiver lives.
THEOREM Invariance == ASSUME ~Duplicates PROVE Spec => []Inv
<1>1. Init => Inv
    BY InitInv
<1>2. Inv /\ [Next]_vars => Inv'
    BY EveryStep, StutterKeeps DEF StepOK
<1> QED
    BY <1>1, <1>2, PTL DEF Spec

\* Every Newman run belongs to a stored job that its worker holds, and no job
\* has two: what the cap on counting jobs bounds is the runs.
THEOREM RunsCounted == ASSUME ~Duplicates PROVE Spec => []RunsAreCounted
<1>1. ASSUME Inv PROVE RunsAreCounted
    <2>1. ASSUME NEW w \in Worker, Runs(w)
          PROVE  /\ worker[w].id \in Stored /\ jobs[worker[w].id].worker_active
                 /\ worker[w].id \in JobId /\ w \in LiveOn(worker[w].id)
        <3>1. worker[w].pc \in Handling /\ worker[w].pc \in Started
            BY <2>1 DEF Runs, Handling, Driving, Started, StateAt
        <3> QED
            BY <1>1, <3>1, Acting DEF WorkerOK
    <2>2. ASSUME NEW w \in Worker, NEW v \in Worker, Runs(w), Runs(v), worker[w].id = worker[v].id
          PROVE  w = v
        <3>1. PICK id \in JobId : w \in LiveOn(id) /\ v \in LiveOn(id)
            BY <2>1, <2>2
        <3> QED
            BY <1>1, <3>1 DEF Inv, JobInv, OneHandler
    <2> QED
        BY <2>1, <2>2 DEF RunsAreCounted
<1> QED
    BY <1>1, Invariance, PTL

\* The claim lets one worker at most drive a job past its check, as run_job
\* relies on; the run with duplicate deliveries shows that it needs this
\* hypothesis.
THEOREM OneDriverWithoutDuplicates == ASSUME ~Duplicates PROVE Spec => []OneDriver
<1>1. ASSUME Inv PROVE OneDriver
    <2>1. ASSUME NEW w \in Worker, NEW v \in Worker, worker[w].pc \in Driving, worker[v].pc \in Driving,
                 worker[w].id = worker[v].id
          PROVE  w = v
        <3>1. PICK id \in JobId : w \in LiveOn(id) /\ v \in LiveOn(id)
            BY <1>1, <2>1, Acting DEF Handling
        <3> QED
            BY <1>1, <3>1 DEF Inv, JobInv, OneHandler
    <2> QED
        BY <2>1 DEF OneDriver
<1> QED
    BY <1>1, Invariance, PTL

\* Both reports stay in S3 until a request claims the finalization.
THEOREM ReportsKept == ASSUME ~Duplicates PROVE Spec => []ReportsKeptForFinalizer
<1>1. Inv => ReportsKeptForFinalizer
    BY DEF Inv, JobInv, RecordOK, ReportsKeptForFinalizer, Stored
<1> QED
    BY <1>1, Invariance, PTL

\* While no worker dies, a message is deleted only once its job is settled.
THEOREM WorkersSettle == ASSUME ~Duplicates PROVE Spec => []LiveWorkersSettle
<1>1. Inv => LiveWorkersSettle
    BY DEF Inv, JobInv, SettledOK, HandedOver, LiveWorkersSettle, AcknowledgedJobsSettled, IsActive, Stored
<1> QED
    BY <1>1, Invariance, PTL

\* Every job lives as JobLifecycle says, through deaths and restarts.
THEOREM LifecycleImplemented == ASSUME ~Duplicates PROVE Spec => ImplementsLifecycle
<1>1. Init => \A id \in JobId : Life(id)!Init
    BY InitInv
<1>2. Inv /\ [Next]_vars => [\A id \in JobId : Life(id)!Next \/ UNCHANGED Life(id)!vars]_vars
    BY EveryStep DEF StepOK, LifeStep
<1> QED
    BY <1>1, <1>2, Invariance, PTL DEF Spec, ImplementsLifecycle

-----------------------------------------------------------------------------
(* The material of a job. *)

\* Places where the handler has forgotten the material.
Forgotten == {"final_get", "delete_objects", "acknowledge"}

\* As long as no worker died, a message is received once, by a worker that
\* starts from a job without reports and deletes the message at its very end.
MaterialOK(id) ==
    /\ msg[id].at # "dead_letter"
    /\ msg[id].at \in {"none", "queue"} =>
            msg[id].receives = 0 /\ (id \in Stored => ~jobs[id].reports_ready)
    /\ msg[id].at = "flight" => \E w \in LiveOn(id) : worker[w].pc # "discard_objects"
    /\ \A w \in LiveOn(id) :
        /\ worker[w].pc = "get" /\ id \in Stored => ~jobs[id].reports_ready
        /\ worker[w].pc \in Forgotten => "material" \notin objects[id]
    /\ "material" \in objects[id] =>
        \/ launch[id] \in {"enqueue", "fail", "drop_material"}
        \/ msg[id].at \in {"queue", "flight"}
        \/ \E w \in LiveOn(id) : worker[w].pc = "discard_objects"

MaterialInv == NoneDied => \A id \in JobId : MaterialOK(id)

\* What a step of a worker does to the material and to the message.
WorkerMove(w) ==
    LET id == worker[w].id
        from == worker[w].pc
        to == worker'[w].pc IN
    \/ to = "dead"
    \/ /\ msg' = msg /\ ("material" \in objects'[id] => "material" \in objects[id])
       /\ to \in Handling \ ({"get", "discard_objects"} \cup Forgotten) /\ from # "discard_objects"
    \/ msg' = msg /\ from = "get" /\ to = "acknowledge" /\ id \in Stored /\ jobs[id].reports_ready
    \/ msg' = msg /\ to = "final_get" /\ "material" \notin objects'[id]
    \/ /\ msg' = msg /\ ("material" \in objects'[id] => "material" \in objects[id])
       /\ from \in Forgotten /\ to \in Forgotten
    \/ objects' = objects /\ from = "acknowledge" /\ to = "done" /\ msg'[id].at = "deleted"
    \/ objects' = objects /\ to = "discard_objects" /\ msg'[id].at = "deleted"
    \/ msg' = msg /\ from = "discard_objects" /\ to = "done" /\ objects'[id] = {}

LEMMA WorkerMaterial ==
    ASSUME Inv, Inv', MaterialInv, NEW w \in Worker, WorkerEffect(w), WorkerMove(w)
    PROVE  MaterialInv'
<1> SUFFICES ASSUME NoneDied' PROVE \A q \in JobId : MaterialOK(q)'
    BY DEF MaterialInv
<1>1. PICK id \in JobId :
        /\ id = worker[w].id /\ id \in issued /\ w \in LiveOn(id) /\ TypeOK /\ TypeOK'
        /\ \A v \in LiveOn(id) : v = w
    <2>1. worker[w].pc \in Handling
        BY DEF WorkerEffect
    <2> QED
        BY <2>1, Acting DEF WorkerEffect, Inv, JobInv, OneHandler
<1>2. /\ UNCHANGED api /\ \A v \in Worker : v # w => worker'[v] = worker[v]
      /\ worker[w].pc \in Handling
      /\ worker'[w].pc \in Handling => worker'[w].id = id
      /\ \A q \in JobId : q # id => Still(q) /\ msg'[q] = msg[q] /\ objects'[q] = objects[q]
      /\ ByWorker(id)
    BY <1>1 DEF WorkerEffect
<1>3. launch' = launch
    BY <1>2 DEF api
<1>4. NoneDied /\ \A q \in JobId : MaterialOK(q)
    BY <1>1, <1>2, Survived DEF MaterialInv
<1>5. ASSUME NEW q \in JobId, q # id PROVE MaterialOK(q)'
    <2>1. Still(q) /\ msg'[q] = msg[q] /\ objects'[q] = objects[q] /\ launch'[q] = launch[q]
        BY <1>2, <1>3, <1>5
    <2>2. /\ LiveOn(q)' = LiveOn(q)
          /\ \A v \in LiveOn(q) : worker'[v] = worker[v]
        BY <1>1, <1>2, <1>5 DEF LiveOn
    <2>3. q \in Stored' => q \in Stored /\ jobs'[q].reports_ready = jobs[q].reports_ready
        BY <2>1 DEF Still, Absent, Gone, Same, Both, SameFlags
    <2> QED
        BY <1>4, <2>1, <2>2, <2>3 DEF MaterialOK
<1>6. MaterialOK(id)'
    <2>1. /\ MaterialOK(id) /\ msg[id].at \in {"flight", "deleted"}
          /\ launch[id] \notin Unsent
        <3>1. QueueOK(id) /\ LaunchOK(id) /\ MaterialOK(id)
            BY <1>4 DEF Inv, JobInv
        <3>2. msg[id].at \in {"none", "queue", "flight", "dead_letter", "deleted"}
            BY <1>1 DEF TypeOK
        <3> QED
            BY <1>1, <3>1, <3>2 DEF QueueOK, LaunchOK
    <2>2. /\ worker'[w].pc \in Handling => LiveOn(id)' = {w}
          /\ worker'[w].pc \notin Handling => LiveOn(id)' = {}
        BY <1>1, <1>2 DEF LiveOn
    <2>3. worker'[w].pc # "dead"
        BY DEF NoneDied
    <2>4. "done" \notin Handling /\ Forgotten \subseteq Handling /\ "discard_objects" \in Handling
        BY DEF Handling, Driving, Forgotten
    <2>5. /\ worker[w].pc = "get" /\ id \in Stored => ~jobs[id].reports_ready
          /\ worker[w].pc \in Forgotten => "material" \notin objects[id]
          /\ msg[id].at = "flight" => worker[w].pc # "discard_objects"
          /\ "material" \in objects[id] =>
                \/ launch[id] \in {"enqueue", "fail", "drop_material"}
                \/ msg[id].at = "flight"
                \/ worker[w].pc = "discard_objects"
        BY <1>1, <2>1 DEF MaterialOK
    <2>6. msg[id].at = "deleted" => worker[w].pc = "discard_objects" \/ "material" \notin objects[id]
                                    \/ launch[id] \in {"enqueue", "fail", "drop_material"}
        BY <2>5
    <2>7. CASE /\ msg' = msg /\ ("material" \in objects'[id] => "material" \in objects[id])
               /\ worker'[w].pc \in Handling \ ({"get", "discard_objects"} \cup Forgotten)
               /\ worker[w].pc # "discard_objects"
        BY <1>3, <2>1, <2>2, <2>5, <2>7 DEF MaterialOK
    <2>8. CASE msg' = msg /\ worker'[w].pc = "final_get" /\ "material" \notin objects'[id]
        BY <1>3, <2>1, <2>2, <2>4, <2>8 DEF MaterialOK, Forgotten
    <2>9. CASE /\ msg' = msg /\ ("material" \in objects'[id] => "material" \in objects[id])
               /\ worker[w].pc \in Forgotten /\ worker'[w].pc \in Forgotten
        BY <1>3, <2>1, <2>2, <2>4, <2>5, <2>9 DEF MaterialOK, Forgotten
    <2>10. CASE /\ objects' = objects /\ worker[w].pc = "acknowledge" /\ worker'[w].pc = "done"
                /\ msg'[id].at = "deleted"
        BY <1>3, <2>1, <2>2, <2>4, <2>5, <2>10 DEF MaterialOK, Forgotten
    <2>11. CASE objects' = objects /\ worker'[w].pc = "discard_objects" /\ msg'[id].at = "deleted"
        BY <1>3, <2>2, <2>4, <2>11 DEF MaterialOK, Forgotten
    <2>12. CASE msg' = msg /\ worker[w].pc = "discard_objects" /\ worker'[w].pc = "done" /\ objects'[id] = {}
        BY <1>3, <2>1, <2>2, <2>4, <2>5, <2>12 DEF MaterialOK
    <2>13. worker[w].pc = "get" /\ id \in Stored => ~jobs[id].reports_ready
        BY <2>5
    <2> QED
        BY <1>1, <2>3, <2>7, <2>8, <2>9, <2>10, <2>11, <2>12, <2>13 DEF WorkerMove
<1> QED
    BY <1>5, <1>6

LEMMA GoesTo ==
    ASSUME Inv, NEW w \in Worker, NEW step, WorkerGoes(w, step)
    PROVE  worker'[w].pc = step
<1> DEFINE base == IF step \in {"done", "dead"} THEN Idle ELSE worker[w]
           place == [base EXCEPT !.pc = step]
<1>1. worker' = [worker EXCEPT ![w] = place]
    BY DEF WorkerGoes
<1>2. base \in [pc : Handling \cup {"idle", "done", "dead"}, id : JobId \cup {NoJob}, claimed : BOOLEAN]
    BY DEF Inv, TypeOK, WorkerRecord, Idle
<1> HIDE DEF base
<1>3. place.pc = step
    BY <1>2
<1> HIDE DEF place
<1> QED
    BY <1>1, <1>3 DEF Inv, TypeOK

LEMMA WorkerMoves ==
    ASSUME Inv, NEW w \in Worker, WorkerStep(w) \/ ClaimConflicts(w) \/ Crash(w)
    PROVE  WorkerMove(w)
<1>1. CASE Crash(w)
    BY <1>1, GoesTo DEF Crash, WorkerMove
<1>2. CASE GetJob(w)
    <2>1. PICK id \in JobId : id = worker[w].id
        BY <1>2, Acting DEF GetJob, Handling
    <2> DEFINE step == IF Live(id) THEN AfterGet(jobs[id]) ELSE "discard"
    <2>2. worker[w].pc = "get" /\ worker'[w].pc = step /\ msg' = msg /\ objects' = objects
        BY <1>2, <2>1, GoesTo DEF GetJob, aws
    <2>3. \/ step \in {"material", "fail_lost", "discard"}
          \/ step = "acknowledge" /\ id \in Stored /\ jobs[id].reports_ready
        BY DEF AfterGet, Live
    <2> HIDE DEF step
    <2>4. \/ step \in Handling \ ({"get", "discard_objects"} \cup Forgotten)
          \/ step = "acknowledge" /\ id \in Stored /\ jobs[id].reports_ready
        BY <2>3 DEF Handling, Forgotten
    <2> QED
        BY <2>1, <2>2, <2>4 DEF WorkerMove
<1>3. CASE Discard(w)
    <2>1. PICK id \in JobId : id = worker[w].id
        BY <1>3, Acting DEF Discard, Handling
    <2>2. LiveOn(id) # {}
        BY <1>3, <2>1, Acting DEF Discard, Handling
    <2>3. msg[id].at # "dead_letter"
        BY <2>2 DEF Inv, JobInv, QueueOK
    <2>4. msg'[id].at = "deleted"
        BY <1>3, <2>1, <2>3 DEF Discard, DeleteMessage, Inv, TypeOK
    <2> QED
        BY <1>3, <2>1, <2>4, GoesTo DEF Discard, WorkerMove
<1>4. CASE Acknowledge(w)
    <2>1. PICK id \in JobId : id = worker[w].id
        BY <1>4, Acting DEF Acknowledge, Handling
    <2>2. LiveOn(id) # {}
        BY <1>4, <2>1, Acting DEF Acknowledge, Handling
    <2>3. msg[id].at # "dead_letter"
        BY <2>2 DEF Inv, JobInv, QueueOK
    <2>4. msg'[id].at = "deleted"
        BY <1>4, <2>1, <2>3 DEF Acknowledge, DeleteMessage, Inv, TypeOK
    <2> QED
        BY <1>4, <2>1, <2>4, GoesTo DEF Acknowledge, WorkerMove
<1>5. CASE DiscardObjects(w)
    <2>1. PICK id \in JobId : id = worker[w].id
        BY <1>5, Acting DEF DiscardObjects, Handling
    <2>2. objects'[id] = {}
        BY <1>5, <2>1 DEF DiscardObjects, Inv, TypeOK
    <2> QED
        BY <1>5, <2>1, <2>2, GoesTo DEF DiscardObjects, WorkerMove
<1>6. CASE Cleanup(w)
    <2>1. PICK id \in JobId : id = worker[w].id
        BY <1>6, Acting DEF Cleanup, Handling
    <2>2. "material" \notin objects'[id]
        BY <1>6, <2>1 DEF Cleanup, Inv, TypeOK
    <2> QED
        BY <1>6, <2>1, <2>2, GoesTo DEF Cleanup, WorkerMove
<1>7. CASE FinalGet(w)
    <2>1. worker'[w].pc \in Forgotten /\ worker[w].pc \in Forgotten /\ msg' = msg /\ objects' = objects
        BY <1>7, GoesTo DEF FinalGet, Forgotten, aws
    <2> QED
        BY <2>1 DEF WorkerMove
<1>8. CASE DeleteObjects(w)
    <2>1. PICK id \in JobId : id = worker[w].id
        BY <1>8, Acting DEF DeleteObjects, Handling
    <2>2. objects'[id] = {}
        BY <1>8, <2>1 DEF DeleteObjects, Inv, TypeOK
    <2>3. worker'[w].pc \in Forgotten /\ worker[w].pc \in Forgotten /\ msg' = msg
        BY <1>8, GoesTo DEF DeleteObjects, Forgotten
    <2> QED
        BY <2>1, <2>2, <2>3 DEF WorkerMove
<1>9. CASE PutReport(w)
    <2>1. PICK id \in JobId : id = worker[w].id
        BY <1>9, Acting DEF PutReport, Handling, Driving
    <2>2. "material" \in objects'[id] => "material" \in objects[id]
        BY <1>9, <2>1 DEF PutReport, Inv, TypeOK
    <2>3. /\ worker'[w].pc \in {"put_comparison", "mark_ready"} /\ msg' = msg
          /\ worker[w].pc # "discard_objects"
        BY <1>9, GoesTo DEF PutReport
    <2> QED
        BY <2>1, <2>2, <2>3 DEF WorkerMove, Handling, Driving, Forgotten
<1>10. CASE \/ FailLost(w) \/ ReleaseLost(w) \/ GetMaterial(w) \/ FailNoMaterial(w) \/ MarkReady(w)
            \/ Abandon(w) \/ FailRun(w) \/ ReleaseJob(w) \/ Succeed(w)
    <2>1. /\ msg' = msg /\ objects' = objects /\ worker[w].pc # "discard_objects"
        BY <1>10 DEF FailLost, ReleaseLost, GetMaterial, FailNoMaterial, MarkReady, Abandon, FailRun,
                     ReleaseJob, Succeed, Following, Driving, aws
    <2>2. worker'[w].pc \in {"release_lost", "discard", "claim", "no_material", "release", "fail",
                             "cleanup", "start_baseline", "start_comparison", "start_analysis"}
        BY <1>10, GoesTo DEF FailLost, ReleaseLost, GetMaterial, FailNoMaterial, MarkReady, Abandon,
                             FailRun, ReleaseJob, Succeed, Following
    <2> QED
        BY <2>1, <2>2 DEF WorkerMove, Handling, Driving, Forgotten
<1>11. CASE EnterStage(w)
    <2>1. PICK st \in Stages : Stage(w, st[1], st[2], st[3]) /\ st = <<st[1], st[2], st[3]>>
        BY <1>11 DEF EnterStage, Stages
    <2>2. /\ msg' = msg /\ objects' = objects /\ worker[w].pc # "discard_objects"
        BY <2>1 DEF Stage, Stages, aws
    <2>3. worker'[w].pc \in {st[3], "release"}
        BY <2>1, GoesTo DEF Stage
    <2>4. st[3] \in {"check_targets", "baseline", "comparison", "put_baseline"}
        BY <2>1 DEF Stages
    <2> QED
        BY <2>2, <2>3, <2>4 DEF WorkerMove, Handling, Driving, Forgotten
<1>12. CASE ClaimJob(w) \/ ClaimConflicts(w)
    <2>1. /\ msg' = msg /\ objects' = objects /\ worker[w].pc = "claim"
        BY <1>12 DEF ClaimJob, ClaimConflicts, aws
    <2>2. worker'[w].pc \in {"validate", "cleanup", "claim"}
        BY <1>12, <2>1 DEF ClaimJob, ClaimConflicts, Inv, TypeOK, WorkerRecord
    <2> QED
        BY <2>1, <2>2 DEF WorkerMove, Handling, Driving, Forgotten
<1> QED
    BY <1>1, <1>2, <1>3, <1>4, <1>5, <1>6, <1>7, <1>8, <1>9, <1>10, <1>11, <1>12 DEF WorkerStep

\* What a step of anybody else does to them.
ApiMove ==
    \A q \in JobId :
        /\ \/ msg'[q] = msg[q]
           \/ launch[q] = "enqueue" /\ msg'[q].at = "queue" /\ msg'[q].receives = msg[q].receives
        /\ "material" \in objects'[q] =>
            \/ "material" \in objects[q]
            \/ launch[q] = "put" /\ launch'[q] \in {"enqueue", "fail"}
        /\ launch[q] \in {"enqueue", "fail", "drop_material"} =>
            \/ launch'[q] \in {"enqueue", "fail", "drop_material"}
            \/ "material" \notin objects'[q] \/ msg'[q].at = "queue"

LEMMA ApiMaterial ==
    ASSUME Inv, MaterialInv, ApiEffect, ApiMove
    PROVE  MaterialInv'
<1> SUFFICES ASSUME NoneDied', NEW q \in JobId PROVE MaterialOK(q)'
    BY DEF MaterialInv
<1>1. worker' = worker /\ LiveOn(q)' = LiveOn(q) /\ NoneDied
    BY DEF ApiEffect, LiveOn, NoneDied
<1>2. MaterialOK(q) /\ LaunchOK(q) /\ QueueOK(q) /\ ByOthers(q)
    BY <1>1 DEF MaterialInv, Inv, JobInv, ApiEffect
<1>3. q \in Stored' => ~jobs'[q].reports_ready \/ (q \in Stored /\ jobs[q].reports_ready)
    <2>1. CASE Created(q)
        <3>1. jobs'[q].reports_ready = FALSE
            BY <2>1 DEF Created, NewJob
        <3> QED
            BY <3>1
    <2>2. CASE Absent(q) \/ Gone(q)
        BY <2>2 DEF Absent, Gone
    <2>3. CASE Same(q) \/ Ended(q) \/ Finalized(q) \/ Announced(q)
        <3>1. q \in Stored /\ jobs'[q].reports_ready = jobs[q].reports_ready
            BY <2>3 DEF Same, Both, SameFlags, Ended, Finalized, Announced
        <3> QED
            BY <3>1
    <2> QED
        BY <1>2, <2>1, <2>2, <2>3 DEF ByOthers, Still
<1>4. launch[q] \in {"put", "enqueue"} => msg[q].at = "none" /\ LiveOn(q) = {}
    BY <1>2 DEF LaunchOK, QueueOK, Unsent
<1>5. /\ \/ msg'[q] = msg[q]
         \/ msg[q].at = "none" /\ msg'[q].at = "queue" /\ msg'[q].receives = msg[q].receives
      /\ "material" \in objects'[q] =>
            \/ "material" \in objects[q]
            \/ LiveOn(q) = {} /\ launch'[q] \in {"enqueue", "fail"}
      /\ launch[q] \in {"enqueue", "fail", "drop_material"} =>
            \/ launch'[q] \in {"enqueue", "fail", "drop_material"}
            \/ "material" \notin objects'[q] \/ msg'[q].at = "queue"
    BY <1>4 DEF ApiMove
<1>6. /\ msg'[q].at # "dead_letter"
      /\ msg'[q].at \in {"none", "queue"} =>
            msg'[q].receives = 0 /\ (q \in Stored' => ~jobs'[q].reports_ready)
      /\ msg'[q].at = "flight" => \E w \in LiveOn(q) : worker[w].pc # "discard_objects"
    BY <1>2, <1>3, <1>5 DEF MaterialOK
<1>7. \A w \in LiveOn(q) :
        /\ worker[w].pc = "get" /\ q \in Stored' => ~jobs'[q].reports_ready
        /\ worker[w].pc \in Forgotten => "material" \notin objects'[q]
    BY <1>2, <1>3, <1>5 DEF MaterialOK
<1>8. "material" \in objects'[q] =>
        \/ launch'[q] \in {"enqueue", "fail", "drop_material"}
        \/ msg'[q].at \in {"queue", "flight"}
        \/ \E w \in LiveOn(q) : worker[w].pc = "discard_objects"
    BY <1>2, <1>5 DEF MaterialOK
<1> QED
    BY <1>1, <1>6, <1>7, <1>8 DEF MaterialOK

LEMMA LaunchMove ==
    ASSUME Inv, ~DeletesFail, NEW id \in JobId, Create(id) \/ LaunchStep(id)
    PROVE  ApiMove
<1>1. TypeOK
    BY DEF Inv
<1>2. ASSUME NEW step, LaunchGoes(id, step)
      PROVE  launch'[id] = step /\ \A q \in JobId : q # id => launch'[q] = launch[q]
    BY <1>1, <1>2 DEF LaunchGoes, TypeOK
<1>3. CASE Create(id) \/ Charge(id) \/ SaveHistory(id) \/ FailLaunch(id)
    <2>1. /\ msg' = msg /\ objects' = objects /\ launch[id] \in {"none", "charge", "history", "fail"}
          /\ launch[id] = "fail" => launch'[id] = "drop_material"
          /\ \A q \in JobId : q # id => launch'[q] = launch[q]
        BY <1>2, <1>3 DEF Create, Charge, SaveHistory, FailLaunch, aws
    <2> QED
        BY <2>1 DEF ApiMove
<1>4. CASE PutMaterial(id)
    <2>1. /\ launch[id] = "put" /\ launch'[id] \in {"enqueue", "fail"} /\ msg' = msg
          /\ \A q \in JobId : q # id => launch'[q] = launch[q] /\ objects'[q] = objects[q]
        BY <1>1, <1>2, <1>4 DEF PutMaterial, TypeOK
    <2> QED
        BY <2>1 DEF ApiMove
<1>5. CASE Enqueue(id)
    <2>1. /\ launch[id] = "enqueue" /\ objects' = objects
          /\ \/ launch'[id] = "done" /\ msg' = [msg EXCEPT ![id].at = "queue"]
             \/ launch'[id] = "fail" /\ msg' \in {msg, [msg EXCEPT ![id].at = "queue"]}
          /\ \A q \in JobId : q # id => launch'[q] = launch[q]
        BY <1>2, <1>5 DEF Enqueue
    <2>2. /\ \A q \in JobId : q # id => msg'[q] = msg[q]
          /\ msg' # msg => msg'[id].at = "queue" /\ msg'[id].receives = msg[id].receives
          /\ launch'[id] = "done" => msg'[id].at = "queue"
        <3>1. msg[id] \in [at : {"none", "queue", "flight", "dead_letter", "deleted"}, receives : Nat]
            BY <1>1 DEF TypeOK
        <3> QED
            BY <1>1, <2>1, <3>1 DEF TypeOK
    <2> QED
        BY <2>1, <2>2 DEF ApiMove
<1>6. CASE DropMaterial(id)
    <2>1. /\ objects' = [objects EXCEPT ![id] = objects[id] \ {"material"}] /\ msg' = msg
          /\ \A q \in JobId : q # id => launch'[q] = launch[q]
        BY <1>2, <1>6 DEF DropMaterial, BestEffort
    <2>2. "material" \notin objects'[id] /\ \A q \in JobId : q # id => objects'[q] = objects[q]
        BY <1>1, <2>1 DEF TypeOK
    <2> QED
        BY <2>1, <2>2 DEF ApiMove
<1> QED
    BY <1>3, <1>4, <1>5, <1>6 DEF LaunchStep

LEMMA OtherMove ==
    ASSUME Inv, msg' = msg, launch' = launch,
           objects' = objects \/ \E id \in JobId : objects' = [objects EXCEPT ![id] = {}]
    PROVE  ApiMove
<1>1. \A q \in JobId : "material" \in objects'[q] => "material" \in objects[q]
    BY DEF Inv, TypeOK
<1> QED
    BY <1>1 DEF ApiMove

LEMMA MaterialStep ==
    ~Duplicates /\ ~DeletesFail /\ MaxRestarts = 0 /\ Inv /\ MaterialInv /\ [Next]_vars => MaterialInv'
<1> SUFFICES ASSUME ~Duplicates, ~DeletesFail, MaxRestarts = 0, Inv, MaterialInv, [Next]_vars
             PROVE  MaterialInv'
    OBVIOUS
<1>1. ASSUME NEW w \in Worker, WorkerStep(w) \/ ClaimConflicts(w) \/ Crash(w)
      PROVE  MaterialInv'
    <2>1. WorkerEffect(w) /\ WorkerMove(w)
        BY <1>1, WorkerStepEffect, WorkerMoves
    <2>2. Inv'
        BY <2>1, WorkerEffectKeeps DEF StepOK
    <2> QED
        BY <2>1, <2>2, WorkerMaterial
<1>2. ASSUME NEW w \in Worker, NEW id \in JobId, Receive(w, id)
      PROVE  MaterialInv'
    <2> SUFFICES ASSUME NoneDied', NEW q \in JobId PROVE MaterialOK(q)'
        BY DEF MaterialInv
    <2> DEFINE place == [Idle EXCEPT !.pc = "get", !.id = id]
               sent == [at |-> "flight", receives |-> msg[id].receives + 1]
    <2>1. /\ worker[w].pc = "idle" /\ msg[id].at = "queue"
          /\ msg' = [msg EXCEPT ![id] = sent] /\ worker' = [worker EXCEPT ![w] = place]
          /\ UNCHANGED storeVars /\ objects' = objects /\ launch' = launch
        BY <1>2 DEF Receive, Receivable, api
    <2>2. place.pc = "get" /\ place.id = id /\ sent.at = "flight"
        BY DEF Idle
    <2> HIDE DEF place, sent
    <2>3. /\ worker'[w] = place /\ \A v \in Worker : v # w => worker'[v] = worker[v]
          /\ msg'[id].at = "flight" /\ \A r \in JobId : r # id => msg'[r] = msg[r]
        BY <2>1, <2>2 DEF Inv, TypeOK
    <2>4. jobs' = jobs /\ Stored' = Stored
        BY <2>1 DEF storeVars, Stored
    <2>5. NoneDied
        BY <2>1, <2>3 DEF NoneDied
    <2>6. MaterialOK(q) /\ MaterialOK(id) /\ QueueOK(id)
        BY <2>5 DEF MaterialInv, Inv, JobInv
    <2>7. "idle" \notin Handling /\ "get" \in Handling /\ "get" \notin Forgotten
        BY DEF Handling, Driving, Forgotten
    <2>8. CASE q = id
        <3>1. LiveOn(id)' = {w}
            BY <2>1, <2>2, <2>3, <2>6, <2>7 DEF LiveOn, QueueOK
        <3> QED
            BY <2>1, <2>2, <2>3, <2>4, <2>6, <2>7, <2>8, <3>1 DEF MaterialOK
    <2>9. CASE q # id
        <3>1. LiveOn(q)' = LiveOn(q) /\ \A v \in LiveOn(q) : worker'[v] = worker[v]
            BY <2>1, <2>2, <2>3, <2>7, <2>9 DEF LiveOn
        <3> QED
            BY <2>1, <2>3, <2>4, <2>6, <2>9, <3>1 DEF MaterialOK
    <2> QED
        BY <2>8, <2>9
<1>3. ASSUME NEW id \in JobId, Create(id) \/ LaunchStep(id)
      PROVE  MaterialInv'
    <2>1. ApiEffect
        BY <1>3, CreateEffect, ChargeEffect, SaveHistoryEffect, PutMaterialEffect, EnqueueEffect,
           FailLaunchEffect, DropMaterialEffect DEF LaunchStep
    <2> QED
        BY <1>3, <2>1, LaunchMove, ApiMaterial
<1>4. ASSUME NEW id \in JobId, Reappear(id) \/ DeadLetter(id)
      PROVE  MaterialInv'
    <2> SUFFICES ASSUME NoneDied' PROVE FALSE
        BY DEF MaterialInv
    <2>1. NoneDied
        BY <1>4 DEF Reappear, DeadLetter, NoneDied
    <2>2. MaterialOK(id) /\ MaxReceive \in Nat \ {0}
        BY <2>1, AwsExecutionAssumption DEF MaterialInv
    <2> QED
        BY <1>4, <2>2 DEF Reappear, DeadLetter, MaterialOK
<1>5. ASSUME NEW id \in JobId, RequestDelete(id) \/ RemovalStep(id) \/ ExpireItem(id)
      PROVE  MaterialInv'
    <2>1. ApiEffect
        BY <1>5, RequestDeleteEffect, RemoveJobEffect, RemoveObjectsEffect, ExpireItemEffect DEF RemovalStep
    <2>2. ApiMove
        <3>1. /\ msg' = msg /\ launch' = launch
              /\ objects' = objects \/ objects' = [objects EXCEPT ![id] = {}]
            BY <1>5 DEF RequestDelete, RemovalStep, RemoveJob, RemoveObjects, ExpireItem, RemovalGoes, aws, api
        <3> QED
            BY <3>1, OtherMove
    <2> QED
        BY <2>1, <2>2, ApiMaterial
<1>6. ASSUME NEW p \in Poll, PollStep(p) \/ PollConflicts(p) \/ \E id \in JobId : StartPoll(p, id)
      PROVE  MaterialInv'
    <2>1. ApiEffect
        BY <1>6, ClaimFinalizeEffect, ReadReportEffect, BuildAnalysisEffect, WriteReadyEffect,
           FailAnalysisEffect, DeleteReportsEffect, PollConflictsEffect, StartPollEffect DEF PollStep
    <2>2. ApiMove
        <3>1. /\ msg' = msg /\ launch' = launch
              /\ objects' = objects \/ objects' = [objects EXCEPT ![poll[p].id] = {}]
            BY <1>6 DEF PollStep, ClaimFinalize, ReadReport, BuildAnalysis, WriteReady, FailAnalysis,
                        DeleteReports, BestEffort, PollConflicts, StartPoll, PollGoes, aws
        <3>2. objects' # objects => poll[p].id \in JobId
            <4>1. objects' # objects => poll[p].pc = "delete_objects"
                BY <1>6 DEF PollStep, ClaimFinalize, ReadReport, BuildAnalysis, WriteReady, FailAnalysis,
                            DeleteReports, PollConflicts, StartPoll, aws
            <4> QED
                BY <4>1, PollActing DEF Polling
        <3> QED
            BY <3>1, <3>2, OtherMove
    <2> QED
        BY <2>1, <2>2, ApiMaterial
<1>7. ASSUME Advance \/ Evict PROVE MaterialInv'
    <2>1. ApiEffect
        BY <1>7, AdvanceEffect, EvictEffect
    <2>2. msg' = msg /\ launch' = launch /\ objects' = objects
        BY <1>7 DEF Advance, Evict, aws, api
    <2> QED
        BY <2>1, <2>2, OtherMove, ApiMaterial
<1>8. ~Restart
    BY DEF Restart, Inv, TypeOK
<1>9. CASE UNCHANGED vars
    <2>1. /\ jobs' = jobs /\ msg' = msg /\ objects' = objects /\ launch' = launch /\ worker' = worker
        BY <1>9 DEF vars
    <2>2. Stored' = Stored /\ \A id \in JobId : LiveOn(id)' = LiveOn(id)
        BY <2>1 DEF Stored, LiveOn
    <2> QED
        BY <2>1, <2>2 DEF MaterialInv, MaterialOK, NoneDied
<1> QED
    BY <1>1, <1>2, <1>3, <1>4, <1>5, <1>6, <1>7, <1>8, <1>9 DEF Next

\* While no worker dies, somebody is left to delete a job's material: the
\* launcher, or a worker that has or will get the message.
THEOREM MaterialOwned ==
    ASSUME ~Duplicates, ~DeletesFail, MaxRestarts = 0
    PROVE  Spec => []MaterialHasOwner
<1>1. Init => MaterialInv
    <2> SUFFICES ASSUME Init, NEW id \in JobId PROVE MaterialOK(id)
        BY DEF MaterialInv
    <2>1. Inv
        BY InitInv
    <2>2. msg[id].at = "none" /\ msg[id].receives = 0 /\ objects[id] = {} /\ id \notin Stored
        BY DEF Init, StoreInit, Stored
    <2>3. LiveOn(id) = {}
        BY <2>1, <2>2 DEF Inv, JobInv, QueueOK
    <2> QED
        BY <2>2, <2>3 DEF MaterialOK
<1>2. Inv /\ MaterialInv /\ [Next]_vars => MaterialInv'
    BY MaterialStep
<1>3. MaterialInv => MaterialHasOwner
    BY DEF MaterialInv, MaterialOK, MaterialHasOwner
<1> QED
    BY <1>1, <1>2, <1>3, Invariance, PTL DEF Spec
=============================================================================
