------------------------ MODULE LocalExecutionProofs ------------------------
(***************************************************************************)
(* Local execution for any number of jobs and threads, whatever docker     *)
(* does: every step is one of the store's contract and, for each job, one  *)
(* of JobLifecycle; a success is complete, and no container is left behind *)
(* unless a kill missed it.                                                *)
(*                                                                         *)
(* The last section is about the store that this backend runs on: the      *)
(* locked dictionary implements JobStore for any number of jobs, owners    *)
(* and closures.  A sweep is a Drop, and a call that sweeps and then acts  *)
(* is one step of the contract that drops exactly the swept jobs.          *)
(***************************************************************************)
EXTENDS LocalExecution, InMemoryJobStore, JobStoreProofs

Stage == {"running_baseline", "running_comparison"}

\* A Newman run in progress: its workspace and its container exist.
Supervised == {"poll", "cancel", "deadline", "kill", "wait", "read"}

InRun == Supervised \cup {"workspace", "popen", "clean"}

Driven == InRun \cup {"validate", "check", "start_baseline", "start_comparison", "start_analysis",
                      "build", "ready", "fail", "release"}

Step == Driven \cup {"none", "submit", "pooled", "claim", "done"}

Place == [at : Step, stage : Stage]

-----------------------------------------------------------------------------
(* Threads. *)

ThreadOK == thread \in [JobId -> Place]

LEMMA GoesFacts ==
    ASSUME ThreadOK, NEW id \in JobId, NEW step \in Step, Goes(id, step)
    PROVE  /\ ThreadOK'
           /\ thread'[id].at = step /\ thread'[id].stage = thread[id].stage
           /\ \A q \in JobId : q # id => thread'[q] = thread[q]
BY DEF ThreadOK, Place, Goes

LEMMA EnterFacts ==
    ASSUME ThreadOK, NEW id \in JobId, NEW from, NEW state, NEW to \in Driven,
           to = "workspace" => state \in Stage, Enter(id, from, state, to)
    PROVE  /\ ThreadOK'
           /\ thread'[id].at = (IF Live(id) /\ Wrote(jobs[id]) THEN to ELSE "release")
           /\ thread'[id].stage = (IF to = "workspace" THEN state ELSE thread[id].stage)
           /\ \A q \in JobId : q # id => thread'[q] = thread[q]
<1> DEFINE at == IF Live(id) /\ Wrote(jobs[id]) THEN to ELSE "release"
           stage == IF to = "workspace" THEN state ELSE thread[id].stage
           place == [thread[id] EXCEPT !.at = at, !.stage = stage]
<1>1. thread' = [thread EXCEPT ![id] = place]
    BY DEF Enter
<1>2. thread[id] \in Place /\ at \in Step /\ stage \in Stage
    BY DEF ThreadOK, Place, Step, Driven, InRun, Supervised
<1> HIDE DEF at, stage
<1>3. place \in Place /\ place.at = at /\ place.stage = stage
    BY <1>2 DEF Place
<1> HIDE DEF place
<1>4. /\ ThreadOK' /\ thread'[id] = place
      /\ \A q \in JobId : q # id => thread'[q] = thread[q]
    BY <1>1, <1>3 DEF ThreadOK
<1> QED
    BY <1>3, <1>4 DEF at, stage

\* The steps of run_job and of the Newman run, by where they start and end.
Moves ==
    {<<"none", "submit">>, <<"submit", "pooled">>, <<"claim", "validate">>, <<"claim", "done">>,
     <<"validate", "check">>, <<"check", "start_baseline">>, <<"check", "fail">>,
     <<"start_baseline", "workspace">>, <<"start_comparison", "workspace">>,
     <<"start_analysis", "build">>, <<"validate", "release">>, <<"start_baseline", "release">>,
     <<"start_comparison", "release">>, <<"start_analysis", "release">>,
     <<"build", "fail">>, <<"build", "ready">>, <<"build", "release">>, <<"ready", "release">>,
     <<"fail", "release">>, <<"release", "done">>,
     <<"workspace", "popen">>, <<"workspace", "clean">>, <<"popen", "poll">>, <<"popen", "clean">>,
     <<"poll", "cancel">>, <<"poll", "read">>, <<"poll", "clean">>, <<"cancel", "kill">>,
     <<"cancel", "deadline">>, <<"deadline", "kill">>, <<"deadline", "poll">>, <<"kill", "wait">>,
     <<"wait", "clean">>, <<"read", "clean">>, <<"clean", "fail">>,
     <<"clean", "start_comparison">>, <<"clean", "start_analysis">>}

LEMMA MoveFacts ==
    ASSUME ThreadOK, NEW id \in JobId, Create(id) \/ Submit(id) \/ Drive(id)
    PROVE  /\ ThreadOK'
           /\ <<thread[id].at, thread'[id].at>> \in Moves
           /\ \A q \in JobId : q # id => thread'[q] = thread[q]
<1> USE DEF Step, Driven, InRun, Supervised, Stage
<1>1. ASSUME NEW step \in Step, Goes(id, step), <<thread[id].at, step>> \in Moves
      PROVE  /\ ThreadOK'
             /\ <<thread[id].at, thread'[id].at>> \in Moves
             /\ \A q \in JobId : q # id => thread'[q] = thread[q]
    BY <1>1, GoesFacts
<1>2. CASE Create(id) \/ Submit(id)
    BY <1>1, <1>2 DEF Create, Submit, At, Moves
<1>3. CASE EnterStage(id)
    <2>0. ASSUME NEW from, NEW state, NEW to \in Driven, to = "workspace" => state \in Stage,
                 Enter(id, from, state, to),
                 <<from, to>> \in Moves, <<from, "release">> \in Moves
          PROVE  /\ ThreadOK'
                 /\ <<thread[id].at, thread'[id].at>> \in Moves
                 /\ \A q \in JobId : q # id => thread'[q] = thread[q]
        <3>1. thread[id].at = from
            BY <2>0 DEF Enter, At
        <3>2. /\ ThreadOK' /\ \A q \in JobId : q # id => thread'[q] = thread[q]
              /\ thread'[id].at = to \/ thread'[id].at = "release"
            BY <2>0, EnterFacts
        <3> QED
            BY <2>0, <3>1, <3>2
    <2>1. CASE Enter(id, "validate", "validating", "check")
        <3>1. "check" \in Driven /\ ("check" = "workspace" => "validating" \in Stage)
            OBVIOUS
        <3>2. <<"validate", "check">> \in Moves /\ <<"validate", "release">> \in Moves
            BY DEF Moves
        <3> QED
            BY <2>1, <2>0, <3>1, <3>2
    <2>2. CASE Enter(id, "start_baseline", "running_baseline", "workspace")
        <3>1. "workspace" \in Driven /\ ("workspace" = "workspace" => "running_baseline" \in Stage)
            OBVIOUS
        <3>2. <<"start_baseline", "workspace">> \in Moves /\ <<"start_baseline", "release">> \in Moves
            BY DEF Moves
        <3> QED
            BY <2>2, <2>0, <3>1, <3>2
    <2>3. CASE Enter(id, "start_comparison", "running_comparison", "workspace")
        <3>1. "workspace" \in Driven /\ ("workspace" = "workspace" => "running_comparison" \in Stage)
            OBVIOUS
        <3>2. <<"start_comparison", "workspace">> \in Moves /\ <<"start_comparison", "release">> \in Moves
            BY DEF Moves
        <3> QED
            BY <2>3, <2>0, <3>1, <3>2
    <2>4. CASE Enter(id, "start_analysis", "analyzing", "build")
        <3>1. "build" \in Driven /\ ("build" = "workspace" => "analyzing" \in Stage)
            OBVIOUS
        <3>2. <<"start_analysis", "build">> \in Moves /\ <<"start_analysis", "release">> \in Moves
            BY DEF Moves
        <3> QED
            BY <2>4, <2>0, <3>1, <3>2
    <2> QED
        BY <1>3, <2>1, <2>2, <2>3, <2>4 DEF EnterStage
<1>4. CASE ClaimJob(id) \/ CheckTargets(id) \/ Build(id) \/ WriteReady(id) \/ FailRun(id) \/ ReleaseJob(id)
    BY <1>1, <1>4 DEF ClaimJob, CheckTargets, Build, WriteReady, FailRun, ReleaseJob, At, Moves
<1>5. CASE PrepareRun(id) \/ StartProcess(id) \/ Poll(id) \/ CheckCancel(id) \/ CheckDeadline(id)
    BY <1>1, <1>5 DEF PrepareRun, StartProcess, Poll, CheckCancel, CheckDeadline, Ends, At, Moves
<1>6. CASE KillContainer(id) \/ WaitForClient(id) \/ ReadReport(id) \/ Clean(id)
    BY <1>1, <1>6 DEF KillContainer, WaitForClient, ReadReport, Clean, AfterRun, Ends, At, Moves
<1> QED
    BY <1>2, <1>3, <1>4, <1>5, <1>6 DEF Drive

\* The jobs that wait for a thread are different jobs, and no thread has them.
PoolOK ==
    /\ pool \in Seq(JobId)
    /\ \A i \in 1..Len(pool) : thread[pool[i]].at = "pooled"
    /\ \A i, j \in 1..Len(pool) : i # j => pool[i] # pool[j]

ThreadInv == ThreadOK /\ PoolOK

LEMMA TakeFacts ==
    ASSUME ThreadInv, TakeJob
    PROVE  /\ ThreadInv'
           /\ \E id \in JobId :
                /\ thread[id].at = "pooled" /\ thread'[id].at = "claim"
                /\ thread'[id].stage = thread[id].stage
                /\ \A q \in JobId : q # id => thread'[q] = thread[q]
<1> DEFINE id == Head(pool)
<1>1. /\ pool \in Seq(JobId) /\ pool # <<>> /\ pool' = Tail(pool) /\ Goes(id, "claim")
    BY DEF TakeJob, ThreadInv, PoolOK
<1>2. /\ Len(pool) \in Nat /\ Len(pool) >= 1 /\ id = pool[1] /\ id \in JobId
      /\ pool' \in Seq(JobId) /\ Len(pool') = Len(pool) - 1
      /\ \A i \in 1..Len(pool') : pool'[i] = pool[i + 1]
    BY <1>1
<1>3. thread[id].at = "pooled"
    BY <1>2 DEF ThreadInv, PoolOK
<1>4. /\ ThreadOK' /\ thread'[id].at = "claim" /\ thread'[id].stage = thread[id].stage
      /\ \A q \in JobId : q # id => thread'[q] = thread[q]
    BY <1>1, <1>2, GoesFacts DEF ThreadInv, Step
<1> HIDE DEF id
<1>5. ASSUME NEW i \in 1..Len(pool')
      PROVE  /\ i + 1 \in 1..Len(pool) /\ pool'[i] = pool[i + 1]
             /\ pool'[i] # id /\ pool'[i] \in JobId
    <2>1. i + 1 \in 1..Len(pool) /\ i + 1 # 1 /\ 1 \in 1..Len(pool)
        BY <1>2
    <2> QED
        BY <1>1, <1>2, <2>1 DEF ThreadInv, PoolOK
<1>6. \A i \in 1..Len(pool') : thread'[pool'[i]].at = "pooled"
    BY <1>4, <1>5 DEF ThreadInv, PoolOK
<1>7. ASSUME NEW i \in 1..Len(pool'), NEW j \in 1..Len(pool'), i # j
      PROVE  pool'[i] # pool'[j]
    <2>1. i + 1 # j + 1
        BY <1>2, <1>7
    <2> QED
        BY <1>5, <2>1 DEF ThreadInv, PoolOK
<1> QED
    BY <1>2, <1>3, <1>4, <1>6, <1>7 DEF ThreadInv, PoolOK

\* Who is on its own thread is not in the pool.
LEMMA PoolStays ==
    ASSUME ThreadInv, pool' = pool, ThreadOK', NEW id \in JobId, thread[id].at # "pooled",
           \A q \in JobId : q # id => thread'[q] = thread[q]
    PROVE  ThreadInv'
<1>1. ASSUME NEW i \in 1..Len(pool)
      PROVE  pool[i] \in JobId /\ pool[i] # id /\ thread[pool[i]].at = "pooled"
    BY <1>1 DEF ThreadInv, PoolOK
<1>2. \A i \in 1..Len(pool) : thread'[pool[i]].at = "pooled"
    BY <1>1
<1> QED
    BY <1>2 DEF ThreadInv, PoolOK

LEMMA SubmitPool ==
    ASSUME ThreadInv, NEW id \in JobId, Submit(id)
    PROVE  ThreadInv' /\ thread'[id].at = "pooled"
<1>1. /\ thread[id].at = "submit" /\ pool' = Append(pool, id) /\ Goes(id, "pooled")
    BY DEF Submit, At
<1>2. /\ ThreadOK' /\ thread'[id].at = "pooled" /\ thread'[id].stage = thread[id].stage
      /\ \A q \in JobId : q # id => thread'[q] = thread[q]
    BY <1>1, GoesFacts DEF ThreadInv, Step
<1>3. /\ pool \in Seq(JobId) /\ pool' \in Seq(JobId) /\ Len(pool) \in Nat
      /\ Len(pool') = Len(pool) + 1 /\ pool'[Len(pool')] = id
      /\ \A i \in 1..Len(pool) : pool'[i] = pool[i]
    BY <1>1 DEF ThreadInv, PoolOK
<1>4. ASSUME NEW i \in 1..Len(pool)
      PROVE  pool[i] \in JobId /\ pool[i] # id /\ thread[pool[i]].at = "pooled"
    BY <1>1, <1>4 DEF ThreadInv, PoolOK
<1>5. ASSUME NEW i \in 1..Len(pool')
      PROVE  (i \in 1..Len(pool) /\ pool'[i] = pool[i]) \/ (i = Len(pool') /\ pool'[i] = id)
    BY <1>3
<1>6. \A i \in 1..Len(pool') : thread'[pool'[i]].at = "pooled"
    BY <1>2, <1>4, <1>5
<1>7. ASSUME NEW i \in 1..Len(pool'), NEW j \in 1..Len(pool'), i # j
      PROVE  pool'[i] # pool'[j]
    BY <1>4, <1>5, <1>7 DEF ThreadInv, PoolOK
<1> QED
    BY <1>2, <1>3, <1>6, <1>7 DEF ThreadInv, PoolOK

-----------------------------------------------------------------------------
(* Jobs. *)

\* What an active job's state is while its thread is at p: a job whose thread
\* is finished, or about to release it, is not active.
Fits(state, p) ==
    \/ state \in Terminal
    \/ /\ p.at \in {"none", "submit", "pooled", "claim", "validate"} => state = "queued"
       /\ p.at \in {"check", "start_baseline"} => state = "validating"
       /\ p.at \in InRun => state = p.stage
       /\ p.at = "start_comparison" => state = "running_baseline"
       /\ p.at = "start_analysis" => state = "running_comparison"
       /\ p.at \in {"build", "ready"} => state = "analyzing"
       /\ p.at \notin {"release", "done"}

\* The record and the thread agree, and the analysis comes before the state
\* that announces it.
JobOK(id) ==
    /\ id \in issued <=> thread[id].at # "none"
    /\ thread[id].at = "ready" /\ id \in Stored => id \in analyses
    /\ id \in Stored =>
        /\ jobs[id].worker_active <=> thread[id].at \in Driven
        /\ Fits(jobs[id].state, thread[id])
        /\ jobs[id].state = "ready" => jobs[id].analysis_id \in analyses

-----------------------------------------------------------------------------
(* Newman runs. *)

RunTypes ==
    /\ outcome \in [JobId -> {"none", "success", "failure", "cancelled", "timeout"}]
    /\ overdue \in [JobId -> BOOLEAN]
    /\ client \in [JobId -> {"none", "running", "complete", "killed", "other", "unavailable"}]
    /\ box \in [JobId -> {"none", "running", "complete", "killed", "other"}]
    /\ report \in [JobId -> {"none", "bad"} \cup Stage]
    /\ missed \in [JobId -> BOOLEAN]

\* While the run is supervised, a client that ended did so after its container,
\* with the container's code; the report is of this run.
SupervisedRun(id) ==
    thread[id].at \in Supervised =>
        /\ report[id] \in {"none", "bad", thread[id].stage}
        /\ client[id] # "running" => \/ box[id] = "none" /\ client[id] = "unavailable"
                                     \/ box[id] # "running" /\ client[id] = box[id]
        /\ thread[id].at = "read" => client[id] = "complete"
        /\ thread[id].at = "wait" => missed[id] \/ box[id] = "killed"

\* Otherwise nothing of a run goes on but a container that a kill missed.
UnsupervisedRun(id) ==
    thread[id].at \notin Supervised =>
        /\ client[id] # "running"
        /\ box[id] = "running" => missed[id]
        /\ thread[id].at = "popen" => report[id] = "none"

Success(id) ==
    outcome[id] = "success" =>
        thread[id].at = "clean" /\ box[id] = "complete" /\ report[id] = thread[id].stage

RunOK(id) == SupervisedRun(id) /\ UnsupervisedRun(id) /\ Success(id)

Inv ==
    /\ StoreInv /\ ThreadInv /\ RunTypes
    /\ \A id \in JobId : JobOK(id) /\ RunOK(id)

-----------------------------------------------------------------------------
(* The life of a job, from its record before and after a step. *)

LifeStep(id) == Life(id)!Next \/ UNCHANGED Life(id)!vars

LEMMA LifeCreated ==
    ASSUME NEW id \in JobId, id \notin issued, id \in issued', id \notin Stored, id \in Stored',
           NEW o \in Owner, jobs'[id] = NewJob(o, NoKey, now)
    PROVE  LifeStep(id)
<1>1. /\ jobs'[id].state = "queued" /\ jobs'[id].worker_active = FALSE
      /\ jobs'[id].analysis_id = NoAnalysis
    BY DEF NewJob
<1>2. Life(id)!Create
    BY <1>1 DEF Life!Create
<1> QED
    BY <1>2 DEF LifeStep, Life!Next

LEMMA LifeEnded ==
    ASSUME NEW id \in Stored, id \in issued, id \in issued', jobs[id] \in Job,
           ~jobs[id].worker_active, jobs'[id] = NoJob
    PROVE  LifeStep(id)
<1>1. jobs[id].state \in State /\ jobs[id].state \notin {"none", "gone"}
    BY DEF Job, State
<1>2. id \notin Stored'
    BY DEF Stored
<1>3. Life(id)!Vanish
    BY <1>1, <1>2 DEF Life!Vanish
<1> QED
    BY <1>3 DEF LifeStep, Life!Next

LEMMA LifeSpared ==
    ASSUME StoreInv, NEW q \in JobId, Spared(q)
    PROVE  LifeStep(q)
<1>1. CASE jobs'[q] = jobs[q]
    <2>1. q \in Stored' <=> q \in Stored
        BY <1>1 DEF Stored
    <2> QED
        BY <1>1, <2>1 DEF Spared, LifeStep, Life!vars
<1>2. CASE q \in Droppable /\ jobs'[q] = NoJob
    BY <1>2, LifeEnded DEF Droppable, Evictable, Spared, StoreInv, StoreTypeOK, Stored
<1> QED
    BY <1>1, <1>2 DEF Spared

\* The states that follow one another while a job is driven.
Forward ==
    {<<"queued", "validating">>, <<"validating", "running_baseline">>,
     <<"running_baseline", "running_comparison">>, <<"running_comparison", "analyzing">>,
     <<"analyzing", "ready">>}

\* The record job becomes next by a write that JobLifecycle allows.
Allowed(job, next) ==
    \/ next.state = job.state /\ next.analysis_id = job.analysis_id
    \/ /\ job.state \notin Terminal /\ next.state \in {"failed", "cancelled"}
       /\ next.worker_active = job.worker_active /\ next.analysis_id = job.analysis_id
    \/ /\ <<job.state, next.state>> \in Forward /\ job.worker_active
       /\ next.worker_active = job.worker_active
       /\ IF next.state = "ready" THEN next.analysis_id \in Analysis
          ELSE next.analysis_id = job.analysis_id

LEMMA LifeWritten ==
    ASSUME NEW id \in Stored, id \in issued, id \in issued', id \in Stored',
           jobs[id] \in Job, jobs'[id] \in Job, Allowed(jobs[id], jobs'[id])
    PROVE  LifeStep(id)
<1> DEFINE job == jobs[id]
           next == jobs'[id]
<1>1. /\ job.state \in State /\ next.state \in State
      /\ job.worker_active \in BOOLEAN /\ next.worker_active \in BOOLEAN
    BY DEF Job
<1>2. CASE next.state = job.state /\ next.analysis_id = job.analysis_id
    <2>1. job.state # "gone"
        BY <1>1 DEF State
    <2>2. CASE next.worker_active = job.worker_active
        BY <1>2, <2>2 DEF LifeStep, Life!vars
    <2>3. CASE ~job.worker_active /\ next.worker_active
        <3>1. Life(id)!StartDriving
            BY <1>1, <1>2, <2>1, <2>3 DEF Life!StartDriving
        <3> QED
            BY <3>1 DEF LifeStep, Life!Next
    <2>4. CASE job.worker_active /\ ~next.worker_active
        <3>1. Life(id)!StopDriving
            BY <1>1, <1>2, <2>4 DEF Life!StopDriving
        <3> QED
            BY <3>1 DEF LifeStep, Life!Next
    <2> QED
        BY <1>1, <2>2, <2>3, <2>4
<1>3. CASE /\ job.state \notin Terminal /\ next.state \in {"failed", "cancelled"}
           /\ next.worker_active = job.worker_active /\ next.analysis_id = job.analysis_id
    <2>1. job.state \in {"queued", "validating", "running_baseline", "running_comparison", "analyzing"}
        BY <1>1, <1>3 DEF State, Terminal
    <2>2. Life(id)!Stop
        BY <1>3, <2>1 DEF Life!Stop, Life!Active, Life!Successor
    <2> QED
        BY <2>2 DEF LifeStep, Life!Next
<1>4. CASE /\ <<job.state, next.state>> \in Forward /\ job.worker_active
           /\ next.worker_active = job.worker_active
           /\ IF next.state = "ready" THEN next.analysis_id \in Analysis
              ELSE next.analysis_id = job.analysis_id
    <2>1. Life(id)!Advance
        BY <1>4 DEF Forward, Life!Advance, Life!Active, Life!Successor
    <2> QED
        BY <2>1 DEF LifeStep, Life!Next
<1> QED
    BY <1>2, <1>3, <1>4 DEF Allowed

-----------------------------------------------------------------------------
(* Steps that leave the record alone. *)

JobStep(id) == JobOK(id)' /\ LifeStep(id)

\* What every step does for the jobs it is not about.
LEMMA SparedJob ==
    ASSUME StoreInv, NEW q \in JobId, JobOK(q), Spared(q), thread'[q] = thread[q],
           analyses \subseteq analyses'
    PROVE  JobStep(q)
<1>1. LifeStep(q)
    BY LifeSpared
<1>2. jobs'[q] = jobs[q] => (q \in Stored' <=> q \in Stored)
    BY DEF Stored
<1>3. jobs'[q] = NoJob => q \notin Stored'
    BY DEF Stored
<1>4. CASE q \notin Stored'
    BY <1>1, <1>2, <1>4 DEF JobStep, JobOK, Spared, Droppable
<1>5. CASE q \in Stored'
    BY <1>1, <1>2, <1>3, <1>5 DEF JobStep, JobOK, Spared
<1> QED
    BY <1>1, <1>4, <1>5 DEF JobStep

\* A move of its thread that no one can see in the record.
Unseen(p, next) ==
    /\ p.at = "none" <=> next.at = "none"
    /\ p.at \in Driven <=> next.at \in Driven
    /\ next.at # "ready"
    /\ \A s \in State : Fits(s, p) => Fits(s, next)

LEMMA UnseenMove ==
    ASSUME StoreInv, NEW id \in JobId, JobOK(id), Spared(id), analyses \subseteq analyses',
           Unseen(thread[id], thread'[id])
    PROVE  JobStep(id)
<1>1. LifeStep(id)
    BY LifeSpared
<1>2. jobs'[id] = jobs[id] => (id \in Stored' <=> id \in Stored)
    BY DEF Stored
<1>3. jobs'[id] = NoJob => id \notin Stored'
    BY DEF Stored
<1>4. id \in Stored => jobs[id].state \in State
    BY DEF Stored, StoreInv, StoreTypeOK, Job
<1>5. CASE id \notin Stored'
    BY <1>1, <1>5 DEF JobStep, JobOK, Spared, Unseen
<1>6. CASE id \in Stored'
    BY <1>1, <1>2, <1>3, <1>4, <1>6 DEF JobStep, JobOK, Spared, Unseen
<1> QED
    BY <1>1, <1>5, <1>6 DEF JobStep

\* Moves of a run under way, of the pool, and before the run's first write.
LEMMA UnseenMoves ==
    ASSUME NEW p \in Place, NEW next \in Place, next.stage = p.stage,
           \/ p.at \in InRun /\ next.at \in InRun
           \/ <<p.at, next.at>> \in {<<"submit", "pooled">>, <<"pooled", "claim">>,
                <<"check", "start_baseline">>, <<"check", "fail">>, <<"build", "fail">>,
                <<"clean", "fail">>}
           \/ p.at = "clean" /\ next.at = (IF p.stage = "running_baseline" THEN "start_comparison"
                                           ELSE "start_analysis")
    PROVE  Unseen(p, next)
<1> USE DEF Unseen, Driven, InRun, Supervised, Fits, Place, Stage
<1>1. CASE p.at \in InRun /\ next.at \in InRun
    BY <1>1
<1>2. CASE <<p.at, next.at>> \in {<<"submit", "pooled">>, <<"pooled", "claim">>,
                <<"check", "start_baseline">>, <<"check", "fail">>, <<"build", "fail">>,
                <<"clean", "fail">>}
    BY <1>2
<1>3. CASE p.at = "clean" /\ next.at = (IF p.stage = "running_baseline" THEN "start_comparison"
                                        ELSE "start_analysis")
    BY <1>3
<1> QED
    BY <1>1, <1>2, <1>3

-----------------------------------------------------------------------------
(* Steps that write the record. *)

\* Whatever the store answers, a step is about one job.
About(id) == JobStep(id) /\ ByContract /\ SparesOthers(id) /\ analyses \subseteq analyses'

LEMMA CreateAbout ==
    ASSUME Inv, NEW id \in JobId, Create(id)
    PROVE  About(id)
<1>1. PICK o \in Owner : Insert(id, o, NoKey, now)
    BY DEF Create
<1>2. /\ ByContract /\ SparesOthers(id)
      /\ id \notin issued /\ issued' = issued \cup {id}
      /\ id \notin Stored /\ id \in Stored'
      /\ jobs'[id] = NewJob(o, NoKey, now) /\ jobs'[id] \in Job
    BY <1>1, InsertFacts, ClockFacts DEF Inv
<1>3. /\ thread'[id].at = "submit" /\ analyses' = analyses
    BY GoesFacts DEF Inv, ThreadInv, Create, Step
<1>4. LifeStep(id)
    BY <1>2, LifeCreated
<1>5. JobOK(id)'
    BY <1>2, <1>3 DEF JobOK, Fits, NewJob, Driven, InRun, Supervised
<1> QED
    BY <1>2, <1>3, <1>4, <1>5 DEF About, JobStep

LEMMA CancelAbout ==
    ASSUME Inv, NEW id \in JobId, CancelJob(id)
    PROVE  About(id)
<1> DEFINE fn == [kind |-> "cancel"]
<1>1. fn \in Mutation /\ fn.kind = "cancel"
    BY DEF Mutation
<1> HIDE DEF fn
<1>2. /\ Call(id, fn, now) /\ Live(id) /\ IsActive(jobs[id]) /\ id \in issued
      /\ thread' = thread /\ analyses' = analyses
    BY DEF CancelJob, fn
<1>3. /\ ByContract /\ SparesOthers(id) /\ issued' = issued
      /\ jobs'[id] = Apply(fn, jobs[id], now)
      /\ jobs[id] \in Job /\ jobs'[id] \in Job /\ id \in Stored' /\ id \in Stored
    BY <1>1, <1>2, CallFacts, ClockFacts DEF Inv, Live
<1>4. jobs'[id] = [jobs[id] EXCEPT !.cancel_requested = TRUE, !.state = "cancelled"]
    BY <1>1, <1>2, <1>3 DEF Apply, CancelIfActive
<1>5. /\ jobs'[id].state = "cancelled" /\ jobs'[id].worker_active = jobs[id].worker_active
      /\ jobs'[id].analysis_id = jobs[id].analysis_id
    BY <1>3, <1>4 DEF Job
<1>6. Allowed(jobs[id], jobs'[id])
    BY <1>2, <1>5 DEF Allowed, IsActive
<1>7. LifeStep(id)
    BY <1>2, <1>3, <1>6, LifeWritten
<1>8. JobOK(id)
    BY DEF Inv
<1>9. JobOK(id)'
    BY <1>2, <1>3, <1>5, <1>8 DEF JobOK, Fits, Terminal
<1> QED
    BY <1>2, <1>3, <1>7, <1>9 DEF About, JobStep

LEMMA RemoveAbout ==
    ASSUME Inv, NEW id \in JobId, RemoveJob(id)
    PROVE  About(id)
<1>1. /\ id \in issued /\ id \in Stored /\ jobs[id] \in Job /\ ~jobs[id].worker_active /\ Delete(id)
      /\ thread' = thread /\ analyses' = analyses
    BY DEF RemoveJob, Removable, Live, Inv, StoreInv, StoreTypeOK, Stored
<1>2. ByContract /\ SparesOthers(id) /\ issued' = issued /\ jobs'[id] = NoJob
    BY <1>1, DeleteFacts DEF Inv
<1>3. LifeStep(id)
    BY <1>1, <1>2, LifeEnded
<1>4. id \notin Stored'
    BY <1>2 DEF Stored
<1>5. JobOK(id)
    BY DEF Inv
<1>6. JobOK(id)'
    BY <1>1, <1>2, <1>4, <1>5 DEF JobOK
<1> QED
    BY <1>1, <1>2, <1>3, <1>6 DEF About, JobStep

LEMMA ClaimAbout ==
    ASSUME Inv, NEW id \in JobId, ClaimJob(id)
    PROVE  About(id)
<1> DEFINE fn == [kind |-> "claim"]
           step == IF Live(id) /\ Claimable(jobs[id]) THEN "validate" ELSE "done"
<1>1. fn \in Mutation /\ fn.kind = "claim"
    BY DEF Mutation
<1> HIDE DEF fn
<1>2. /\ Call(id, fn, now) /\ thread[id].at = "claim" /\ analyses' = analyses /\ Goes(id, step)
    BY DEF ClaimJob, fn, At
<1>3. step \in Step
    BY DEF Step, Driven
<1>4. thread'[id].at = step
    BY <1>2, <1>3, GoesFacts DEF Inv, ThreadInv
<1>5. /\ ByContract /\ SparesOthers(id) /\ issued' = issued
      /\ jobs'[id] = IF Live(id) THEN Apply(fn, jobs[id], now) ELSE NoJob
      /\ Live(id) => jobs[id] \in Job /\ jobs'[id] \in Job /\ id \in Stored'
    BY <1>1, <1>2, CallFacts, ClockFacts DEF Inv
<1>6. JobOK(id) /\ id \in issued
    BY <1>2 DEF Inv, JobOK
<1> USE DEF Driven, InRun, Supervised
<1>7. CASE ~Live(id)
    <2>1. id \notin Stored' /\ thread'[id].at = "done"
        BY <1>4, <1>5, <1>7 DEF Stored
    <2>2. Spared(id)
        BY <1>5, <1>7 DEF Spared, Live, Stored, Inv, StoreInv, StoreTypeOK
    <2>3. LifeStep(id)
        BY <2>2, LifeSpared DEF Inv
    <2>4. JobOK(id)'
        BY <1>5, <1>6, <2>1 DEF JobOK
    <2> QED
        BY <1>2, <1>5, <2>3, <2>4 DEF About, JobStep
<1>8. CASE Live(id)
    <2>1. id \in Stored /\ jobs'[id] = Claim(jobs[id]) /\ ~jobs[id].worker_active
        BY <1>1, <1>2, <1>5, <1>6, <1>8 DEF Apply, Live, JobOK
    <2>2. CASE Claimable(jobs[id])
        <3>1. /\ jobs'[id].state = jobs[id].state /\ jobs'[id].worker_active = TRUE
              /\ jobs'[id].analysis_id = jobs[id].analysis_id /\ jobs[id].state = "queued"
              /\ thread'[id].at = "validate"
            BY <1>4, <1>5, <1>8, <2>1, <2>2 DEF Claim, Claimable, Job
        <3>2. LifeStep(id)
            BY <1>5, <1>6, <1>8, <2>1, <3>1, LifeWritten DEF Allowed
        <3>3. JobOK(id)'
            BY <1>5, <1>6, <1>8, <3>1 DEF JobOK, Fits, Terminal
        <3> QED
            BY <1>2, <1>5, <3>2, <3>3 DEF About, JobStep
    <2>3. CASE ~Claimable(jobs[id])
        <3>1. jobs'[id] = jobs[id] /\ thread'[id].at = "done"
            BY <1>4, <2>1, <2>3 DEF Claim
        <3>2. jobs[id].state \in Terminal
            BY <1>2, <1>6, <2>1, <2>3 DEF Claimable, JobOK, Fits
        <3>3. LifeStep(id)
            BY <1>5, <1>6, <1>8, <2>1, <3>1, LifeWritten DEF Allowed
        <3>4. JobOK(id)'
            BY <1>2, <1>5, <1>6, <1>8, <2>1, <3>1, <3>2 DEF JobOK, Fits
        <3> QED
            BY <1>2, <1>5, <3>3, <3>4 DEF About, JobStep
    <2> QED
        BY <2>2, <2>3
<1> QED
    BY <1>7, <1>8

\* A stage is entered with the state that follows the one the thread leaves;
\* a job that was not entered is terminal or gone.
LEMMA EnterAbout ==
    ASSUME Inv, NEW id \in JobId, NEW from \in Driven, NEW s \in Written \ Terminal, NEW to \in Driven,
           Enter(id, from, s, to),
           to = "workspace" => s \in Stage,
           to \in {"check", "workspace", "build"},
           Fits(s, [at |-> to, stage |-> s]),
           \A state \in State : Fits(state, thread[id]) /\ state \notin Terminal
                => <<state, s>> \in Forward
    PROVE  About(id)
<1>0. ThreadOK /\ StoreInv /\ JobOK(id) /\ thread[id].at = from /\ analyses' = analyses
    BY DEF Inv, ThreadInv, Enter, At
<1>1. /\ thread'[id].at = (IF Live(id) /\ Wrote(jobs[id]) THEN to ELSE "release")
      /\ thread'[id].stage = (IF to = "workspace" THEN s ELSE thread[id].stage)
    BY <1>0, EnterFacts
<1>2. Call(id, Write(s, NoAnalysis), now) /\ NoAnalysis \in Analysis \cup {NoAnalysis}
    BY DEF Enter
<1>3. /\ ByContract /\ SparesOthers(id) /\ issued' = issued
      /\ ~Live(id) => id \notin Stored' /\ jobs'[id] = NoJob
      /\ Live(id) =>
            /\ id \in Stored /\ id \in Stored' /\ jobs[id] \in Job /\ jobs'[id] \in Job
            /\ jobs'[id].worker_active = jobs[id].worker_active
            /\ Wrote(jobs[id]) =>
                /\ jobs'[id].state = s
                /\ jobs'[id].analysis_id = jobs[id].analysis_id
            /\ ~Wrote(jobs[id]) =>
                /\ jobs'[id].analysis_id = jobs[id].analysis_id
                /\ jobs'[id].state = IF IsActive(jobs[id]) THEN "cancelled" ELSE jobs[id].state
    BY <1>0, <1>2, WriteFacts, ClockFacts
<1>4. id \in issued /\ from # "none"
    BY <1>0 DEF JobOK, Driven, InRun, Supervised
<1>5. "release" \in Driven /\ s # "ready" /\ to # "none" /\ to # "ready"
    BY DEF Driven, Terminal
<1>6. CASE ~Live(id)
    <2>1. id \notin Stored' /\ thread'[id].at = "release" /\ id \notin Stored
        <3>1. id \in Stored => Live(id)
            BY <1>0, DrivenIsLive DEF JobOK
        <3> QED
            BY <1>1, <1>3, <1>6, <3>1
    <2>2. Spared(id)
        BY <1>3, <1>6, <2>1 DEF Spared, Stored
    <2>3. LifeStep(id)
        BY <1>0, <2>2, LifeSpared
    <2>4. JobOK(id)'
        BY <1>3, <1>4, <2>1 DEF JobOK
    <2> QED
        BY <1>0, <1>3, <2>3, <2>4 DEF About, JobStep
<1>7. CASE Live(id) /\ Wrote(jobs[id])
    <2>1. /\ jobs[id].state \in State /\ Fits(jobs[id].state, thread[id])
          /\ jobs[id].state \notin Terminal /\ jobs[id].worker_active
        BY <1>0, <1>3, <1>7 DEF JobOK, Wrote, IsActive, Job
    <2>2. <<jobs[id].state, s>> \in Forward
        BY <2>1
    <2>3. LifeStep(id)
        BY <1>3, <1>4, <1>5, <1>7, <2>1, <2>2, LifeWritten DEF Allowed
    <2>4. thread'[id].at = to /\ Fits(s, thread'[id])
        BY <1>1, <1>5, <1>7 DEF Fits, InRun, Supervised
    <2>5. JobOK(id)'
        BY <1>3, <1>4, <1>5, <1>7, <2>1, <2>4 DEF JobOK
    <2> QED
        BY <1>0, <1>3, <2>3, <2>5 DEF About, JobStep
<1>8. CASE Live(id) /\ ~Wrote(jobs[id])
    <2>1. thread'[id].at = "release" /\ jobs[id].state \in State /\ jobs[id].worker_active
        BY <1>0, <1>1, <1>3, <1>8 DEF JobOK, Job
    <2>2. LifeStep(id)
        BY <1>3, <1>4, <1>8, LifeWritten DEF Allowed, IsActive
    <2>3. jobs'[id].state \in Terminal /\ (jobs'[id].state = "ready" => jobs[id].state = "ready")
        BY <1>3, <1>8 DEF IsActive, Terminal
    <2>4. JobOK(id)'
        BY <1>0, <1>3, <1>4, <1>5, <1>8, <2>1, <2>3 DEF JobOK, Fits
    <2> QED
        BY <1>0, <1>3, <2>2, <2>4 DEF About, JobStep
<1> QED
    BY <1>6, <1>7, <1>8

LEMMA EnterStageAbout ==
    ASSUME Inv, NEW id \in JobId, EnterStage(id)
    PROVE  About(id)
<1> USE DEF Driven, InRun, Supervised, Written, State, Terminal, Stage, Fits, Forward, At
<1>1. CASE Enter(id, "validate", "validating", "check")
    <2>1. thread[id].at = "validate"
        BY <1>1 DEF Enter
    <2> QED
        BY <1>1, <2>1, EnterAbout
<1>2. CASE Enter(id, "start_baseline", "running_baseline", "workspace")
    <2>1. thread[id].at = "start_baseline"
        BY <1>2 DEF Enter
    <2> QED
        BY <1>2, <2>1, EnterAbout
<1>3. CASE Enter(id, "start_comparison", "running_comparison", "workspace")
    <2>1. thread[id].at = "start_comparison"
        BY <1>3 DEF Enter
    <2> QED
        BY <1>3, <2>1, EnterAbout
<1>4. CASE Enter(id, "start_analysis", "analyzing", "build")
    <2>1. thread[id].at = "start_analysis"
        BY <1>4 DEF Enter
    <2> QED
        BY <1>4, <2>1, EnterAbout
<1> QED
    BY <1>1, <1>2, <1>3, <1>4 DEF EnterStage

LEMMA LastWriteAbout ==
    ASSUME Inv, NEW id \in JobId, WriteReady(id) \/ FailRun(id)
    PROVE  About(id)
<1>0. ThreadOK /\ StoreInv /\ JobOK(id) /\ analyses' = analyses
    BY DEF Inv, ThreadInv, WriteReady, FailRun
<1>1. PICK s \in {"ready", "failed"}, a \in {id, NoAnalysis} :
        /\ Call(id, Write(s, a), now) /\ Goes(id, "release")
        /\ \/ s = "ready" /\ a = id /\ thread[id].at = "ready"
           \/ s = "failed" /\ a = NoAnalysis /\ thread[id].at = "fail"
    BY DEF WriteReady, FailRun, At
<1>2. /\ s \in Written /\ a \in Analysis \cup {NoAnalysis} /\ id \in Analysis /\ id # NoAnalysis
    BY LocalExecutionAssumption, ExecutionJobAssumption DEF Written, State
<1>3. thread'[id].at = "release" /\ thread[id].at \in Driven /\ "release" \in Driven
    BY <1>0, <1>1, GoesFacts DEF Step, Driven
<1>4. /\ ByContract /\ SparesOthers(id) /\ issued' = issued
      /\ ~Live(id) => id \notin Stored' /\ jobs'[id] = NoJob
      /\ Live(id) =>
            /\ id \in Stored /\ id \in Stored' /\ jobs[id] \in Job /\ jobs'[id] \in Job
            /\ jobs'[id].worker_active = jobs[id].worker_active
            /\ Wrote(jobs[id]) =>
                /\ jobs'[id].state = s
                /\ jobs'[id].analysis_id = IF a = NoAnalysis THEN jobs[id].analysis_id ELSE a
            /\ ~Wrote(jobs[id]) =>
                /\ jobs'[id].analysis_id = jobs[id].analysis_id
                /\ jobs'[id].state = IF IsActive(jobs[id]) THEN "cancelled" ELSE jobs[id].state
    BY <1>0, <1>1, <1>2, WriteFacts, ClockFacts
<1>5. id \in issued
    BY <1>0, <1>3 DEF JobOK, Driven, InRun, Supervised
<1>6. CASE ~Live(id)
    <2>1. id \notin Stored
        BY <1>0, <1>3, <1>6, DrivenIsLive DEF JobOK
    <2>2. Spared(id)
        BY <1>4, <1>6, <2>1 DEF Spared, Stored
    <2>3. LifeStep(id)
        BY <1>0, <2>2, LifeSpared
    <2>4. JobOK(id)'
        BY <1>3, <1>4, <1>5, <1>6 DEF JobOK
    <2> QED
        BY <1>0, <1>4, <2>3, <2>4 DEF About, JobStep
<1>7. CASE Live(id)
    <2>1. jobs[id].worker_active /\ jobs[id].state \in State /\ Fits(jobs[id].state, thread[id])
        BY <1>0, <1>3, <1>4, <1>7 DEF JobOK, Job
    <2>2. jobs'[id].state \in Terminal
        BY <1>1, <1>4, <1>7 DEF Terminal, IsActive
    <2>3. CASE Wrote(jobs[id]) /\ s = "ready"
        <3>1. jobs[id].state = "analyzing"
            BY <1>1, <2>1, <2>3 DEF Fits, Wrote, IsActive
        <3>2. jobs'[id].state = "ready" /\ jobs'[id].analysis_id = id /\ id \in analyses
            BY <1>0, <1>1, <1>2, <1>4, <1>7, <2>3 DEF JobOK
        <3>3. LifeStep(id)
            BY <1>2, <1>4, <1>5, <1>7, <2>1, <3>1, <3>2, LifeWritten DEF Allowed, Forward
        <3>4. JobOK(id)'
            BY <1>0, <1>3, <1>4, <1>5, <1>7, <2>1, <2>2, <3>2 DEF JobOK, Fits
        <3> QED
            BY <1>0, <1>4, <3>3, <3>4 DEF About, JobStep
    <2>4. CASE ~(Wrote(jobs[id]) /\ s = "ready")
        <3>1. /\ jobs'[id].analysis_id = jobs[id].analysis_id
              /\ \/ jobs'[id].state = jobs[id].state
                 \/ IsActive(jobs[id]) /\ jobs'[id].state \in {"failed", "cancelled"}
            BY <1>1, <1>2, <1>4, <1>7, <2>4 DEF Wrote
        <3>2. LifeStep(id)
            BY <1>4, <1>5, <1>7, <3>1, LifeWritten DEF Allowed, IsActive
        <3>3. JobOK(id)'
            BY <1>0, <1>3, <1>4, <1>5, <1>7, <2>1, <2>2, <3>1 DEF JobOK, Fits
        <3> QED
            BY <1>0, <1>4, <3>2, <3>3 DEF About, JobStep
    <2> QED
        BY <2>3, <2>4
<1> QED
    BY <1>6, <1>7

LEMMA ReleaseAbout ==
    ASSUME Inv, NEW id \in JobId, ReleaseJob(id)
    PROVE  About(id)
<1> DEFINE fn == [kind |-> "release"]
<1>1. fn \in Mutation /\ fn.kind = "release"
    BY DEF Mutation
<1> HIDE DEF fn
<1>2. /\ Call(id, fn, now) /\ thread[id].at = "release" /\ Goes(id, "done") /\ analyses' = analyses
      /\ JobOK(id) /\ StoreInv /\ ThreadOK
    BY DEF ReleaseJob, fn, At, Inv, ThreadInv
<1>3. thread'[id].at = "done" /\ thread[id].at \in Driven
    BY <1>2, GoesFacts DEF Step, Driven
<1>4. /\ ByContract /\ SparesOthers(id) /\ issued' = issued
      /\ jobs'[id] = IF Live(id) THEN Apply(fn, jobs[id], now) ELSE NoJob
      /\ Live(id) => jobs[id] \in Job /\ jobs'[id] \in Job /\ id \in Stored'
    BY <1>1, <1>2, CallFacts, ClockFacts
<1>5. id \in issued
    BY <1>2 DEF JobOK
<1>6. CASE ~Live(id)
    <2>1. id \notin Stored /\ id \notin Stored'
        BY <1>2, <1>3, <1>4, <1>6, DrivenIsLive DEF JobOK, Stored
    <2>2. Spared(id)
        BY <1>4, <1>6, <2>1 DEF Spared, Stored
    <2>3. LifeStep(id)
        BY <1>2, <2>2, LifeSpared
    <2>4. JobOK(id)'
        BY <1>3, <1>4, <1>5, <2>1 DEF JobOK
    <2> QED
        BY <1>2, <1>4, <2>3, <2>4 DEF About, JobStep
<1>7. CASE Live(id)
    <2>1. jobs'[id] = Release(jobs[id]) /\ id \in Stored
        BY <1>1, <1>4, <1>7 DEF Apply, Live
    <2>2. /\ jobs'[id].state = jobs[id].state /\ jobs'[id].analysis_id = jobs[id].analysis_id
          /\ jobs'[id].worker_active = FALSE
        BY <1>4, <1>7, <2>1 DEF Release, Job
    <2>3. LifeStep(id)
        BY <1>4, <1>5, <1>7, <2>1, <2>2, LifeWritten DEF Allowed
    <2>4. jobs[id].state \in Terminal
        BY <1>2, <2>1 DEF JobOK, Fits
    <2>5. JobOK(id)'
        BY <1>2, <1>3, <1>4, <1>5, <1>7, <2>1, <2>2, <2>4
        DEF JobOK, Fits, Driven, InRun, Supervised
    <2> QED
        BY <1>2, <1>4, <2>3, <2>5 DEF About, JobStep
<1> QED
    BY <1>6, <1>7

LEMMA BuildAbout ==
    ASSUME Inv, NEW id \in JobId, Build(id)
    PROVE  About(id)
<1>0. ThreadOK /\ StoreInv /\ JobOK(id) /\ thread[id].at = "build" /\ thread[id] \in Place
    BY DEF Inv, ThreadInv, ThreadOK, Build, At
<1>1. id \in issued
    BY <1>0 DEF JobOK
<1>2. CASE Goes(id, "fail") /\ UNCHANGED <<storeVars, analyses>>
    <2>1. ByContract /\ SparesOthers(id) /\ Spared(id)
        BY <1>2, StillStoreFacts DEF SparesOthers
    <2>2. /\ thread'[id].at = "fail" /\ thread'[id].stage = thread[id].stage
          /\ thread'[id] \in Place
        BY <1>0, <1>2, GoesFacts DEF Step, Driven, ThreadOK
    <2>3. Unseen(thread[id], thread'[id])
        BY <1>0, <2>2, UnseenMoves
    <2> QED
        BY <1>0, <1>2, <2>1, <2>3, UnseenMove DEF About
<1>3. CASE Live(id) /\ Get(id) /\ StoreAnalysis(id) /\ Goes(id, "ready")
    <2>1. /\ ByContract /\ SparesOthers(id) /\ issued' = issued /\ jobs'[id] = jobs[id]
        BY <1>0, <1>3, GetFacts
    <2>2. id \in analyses' /\ analyses \subseteq analyses'
        BY <1>3 DEF StoreAnalysis
    <2>3. thread'[id].at = "ready"
        BY <1>0, <1>3, GoesFacts DEF Step, Driven
    <2>4. id \in Stored /\ id \in Stored'
        BY <1>3, <2>1 DEF Live, Stored
    <2>5. LifeStep(id)
        BY <1>0, <2>1, LifeSpared DEF Spared
    <2>6. JobOK(id)'
        BY <1>0, <1>1, <2>1, <2>2, <2>3, <2>4 DEF JobOK, Fits, Driven, InRun, Supervised
    <2> QED
        BY <2>1, <2>2, <2>5, <2>6 DEF About, JobStep
<1>4. CASE ~Live(id) /\ Get(id) /\ Goes(id, "release") /\ UNCHANGED analyses
    <2>1. /\ ByContract /\ SparesOthers(id) /\ issued' = issued /\ jobs'[id] = NoJob
        BY <1>0, <1>4, GetFacts
    <2>2. thread'[id].at = "release"
        BY <1>0, <1>4, GoesFacts DEF Step, Driven
    <2>3. id \notin Stored' /\ (id \in Stored => id \in Droppable)
        BY <1>4, <2>1 DEF Live, Stored
    <2>4. Spared(id)
        BY <2>1, <2>3 DEF Spared, Stored
    <2>5. LifeStep(id)
        BY <1>0, <2>4, LifeSpared
    <2>6. JobOK(id)'
        BY <1>1, <2>1, <2>2, <2>3 DEF JobOK
    <2> QED
        BY <1>4, <2>1, <2>5, <2>6 DEF About, JobStep
<1> QED
    BY <1>2, <1>3, <1>4 DEF Build

\* The steps of the run itself, of the pool and of the daemon: the store keeps
\* the job, or drops it on being asked for it.
LEMMA RunAbout ==
    ASSUME Inv, NEW id \in JobId,
           \/ PrepareRun(id) \/ StartProcess(id) \/ Poll(id) \/ CheckCancel(id)
           \/ CheckDeadline(id) \/ KillContainer(id) \/ WaitForClient(id) \/ ReadReport(id)
           \/ Clean(id) \/ CheckTargets(id) \/ Submit(id)
    PROVE  About(id)
<1> USE DEF At, Ends, Step, Driven, InRun, Supervised
<1>0. ThreadOK /\ StoreInv /\ JobOK(id) /\ thread[id] \in Place
    BY DEF Inv, ThreadInv, ThreadOK
<1>1. ASSUME NEW to \in Step, Goes(id, to),
             \/ thread[id].at \in InRun /\ to \in InRun
             \/ <<thread[id].at, to>> \in {<<"submit", "pooled">>, <<"pooled", "claim">>,
                  <<"check", "start_baseline">>, <<"check", "fail">>, <<"build", "fail">>,
                  <<"clean", "fail">>}
             \/ thread[id].at = "clean"
                /\ to = (IF thread[id].stage = "running_baseline" THEN "start_comparison"
                         ELSE "start_analysis")
      PROVE  Unseen(thread[id], thread'[id])
    <2>1. thread'[id].at = to /\ thread'[id].stage = thread[id].stage /\ thread'[id] \in Place
        BY <1>0, <1>1, GoesFacts DEF ThreadOK
    <2> QED
        BY <1>0, <1>1, <2>1, UnseenMoves
<1>2. ASSUME UNCHANGED <<storeVars, analyses>>, Unseen(thread[id], thread'[id])
      PROVE  About(id)
    <2>1. ByContract /\ SparesOthers(id) /\ Spared(id)
        BY <1>2, StillStoreFacts DEF SparesOthers
    <2> QED
        BY <1>0, <1>2, <2>1, UnseenMove DEF About
<1>3. CASE PrepareRun(id)
    BY <1>1, <1>2, <1>3 DEF PrepareRun
<1>4. CASE StartProcess(id)
    BY <1>1, <1>2, <1>4 DEF StartProcess
<1>5. CASE Poll(id)
    BY <1>1, <1>2, <1>5 DEF Poll
<1>6. CASE CheckCancel(id)
    <2>1. Unseen(thread[id], thread'[id])
        BY <1>1, <1>6 DEF CheckCancel
    <2>2. Get(id) /\ analyses' = analyses
        BY <1>6 DEF CheckCancel
    <2>3. ByContract /\ SparesOthers(id) /\ issued' = issued
          /\ jobs'[id] = IF Live(id) THEN jobs[id] ELSE NoJob
        BY <1>0, <2>2, GetFacts
    <2>4. Spared(id)
        BY <2>3 DEF Spared, Live, Stored
    <2> QED
        BY <1>0, <2>1, <2>2, <2>3, <2>4, UnseenMove DEF About
<1>7. CASE CheckDeadline(id)
    BY <1>1, <1>2, <1>7 DEF CheckDeadline
<1>8. CASE KillContainer(id)
    BY <1>1, <1>2, <1>8 DEF KillContainer
<1>9. CASE WaitForClient(id)
    BY <1>1, <1>2, <1>9 DEF WaitForClient
<1>10. CASE ReadReport(id)
    BY <1>1, <1>2, <1>10 DEF ReadReport
<1>11. CASE Clean(id)
    BY <1>1, <1>2, <1>11 DEF Clean, AfterRun
<1>12. CASE CheckTargets(id)
    BY <1>1, <1>2, <1>12 DEF CheckTargets
<1>13. CASE Submit(id)
    BY <1>1, <1>2, <1>13 DEF Submit
<1> QED
    BY <1>3, <1>4, <1>5, <1>6, <1>7, <1>8, <1>9, <1>10, <1>11, <1>12, <1>13

-----------------------------------------------------------------------------
(* Newman runs, step by step. *)

SameRun(q) ==
    /\ thread'[q] = thread[q] /\ outcome'[q] = outcome[q] /\ client'[q] = client[q]
    /\ box'[q] = box[q] /\ report'[q] = report[q] /\ missed'[q] = missed[q]

RunStep(id) == RunTypes' /\ RunOK(id)' /\ \A q \in JobId : q # id => SameRun(q)

LEMMA SameRunOK ==
    ASSUME NEW q \in JobId, RunOK(q), SameRun(q)
    PROVE  RunOK(q)'
BY DEF RunOK, SupervisedRun, UnsupervisedRun, Success, SameRun

\* A step outside the run, or the one that reaches the workspace.
LEMMA OutsideRun ==
    ASSUME RunTypes, NEW id \in JobId, RunOK(id), UNCHANGED run,
           \A q \in JobId : q # id => thread'[q] = thread[q],
           \/ thread'[id] = thread[id]
           \/ /\ thread[id].at \notin InRun
              /\ thread'[id].at \notin Supervised \cup {"popen", "clean"}
    PROVE  RunStep(id)
<1>1. /\ outcome' = outcome /\ overdue' = overdue /\ client' = client /\ box' = box
      /\ report' = report /\ missed' = missed
    BY DEF run
<1>2. RunTypes' /\ \A q \in JobId : q # id => SameRun(q)
    BY <1>1 DEF RunTypes, SameRun
<1>3. CASE thread'[id] = thread[id]
    BY <1>1, <1>2, <1>3, SameRunOK DEF SameRun, RunStep
<1>4. CASE /\ thread[id].at \notin InRun
           /\ thread'[id].at \notin Supervised \cup {"popen", "clean"}
    BY <1>1, <1>2, <1>4
    DEF RunStep, RunOK, SupervisedRun, UnsupervisedRun, Success, InRun
<1> QED
    BY <1>3, <1>4

LEMMA PrepareRunStep ==
    ASSUME Inv, NEW id \in JobId, PrepareRun(id)
    PROVE  RunStep(id)
<1> USE DEF Inv, ThreadInv
<1>1. PICK to \in {"popen", "clean"} : Goes(id, to) /\
        (\/ to = "popen" /\ outcome' = outcome
         \/ to = "clean" /\ outcome' = [outcome EXCEPT ![id] = "failure"])
    BY DEF PrepareRun, Ends
<1>2. /\ thread'[id].at = to /\ thread'[id].stage = thread[id].stage
      /\ \A q \in JobId : q # id => thread'[q] = thread[q]
    BY <1>1, GoesFacts DEF Step, Driven, InRun
<1>3. /\ thread[id].at = "workspace" /\ report' = [report EXCEPT ![id] = "none"]
      /\ overdue' = overdue /\ client' = client /\ box' = box /\ missed' = missed
    BY DEF PrepareRun, At
<1>4. RunTypes' /\ \A q \in JobId : q # id => SameRun(q)
    BY <1>1, <1>2, <1>3 DEF RunTypes, SameRun
<1>5. RunOK(id)'
    BY <1>1, <1>2, <1>3 DEF RunTypes, RunOK, SupervisedRun, UnsupervisedRun, Success, Supervised
<1> QED
    BY <1>4, <1>5 DEF RunStep

LEMMA StartProcessStep ==
    ASSUME Inv, NEW id \in JobId, StartProcess(id)
    PROVE  RunStep(id)
<1> USE DEF Inv, ThreadInv
<1>1. thread[id].at = "popen" /\ report' = report
    BY DEF StartProcess, At
<1>2. CASE /\ client' = [client EXCEPT ![id] = "running"] /\ box' = [box EXCEPT ![id] = "none"]
           /\ overdue' = [overdue EXCEPT ![id] = FALSE] /\ missed' = [missed EXCEPT ![id] = FALSE]
           /\ Goes(id, "poll") /\ UNCHANGED outcome
    <2>1. /\ thread'[id].at = "poll" /\ thread'[id].stage = thread[id].stage
          /\ \A q \in JobId : q # id => thread'[q] = thread[q]
        BY <1>2, GoesFacts DEF Step, Driven, InRun, Supervised
    <2>2. RunTypes' /\ \A q \in JobId : q # id => SameRun(q)
        BY <1>1, <1>2, <2>1 DEF RunTypes, SameRun
    <2>3. RunOK(id)'
        BY <1>1, <1>2, <2>1
        DEF RunTypes, RunOK, SupervisedRun, UnsupervisedRun, Success, Supervised
    <2> QED
        BY <2>2, <2>3 DEF RunStep
<1>3. CASE Ends(id, "failure") /\ UNCHANGED <<client, box, overdue, missed>>
    <2>1. /\ thread'[id].at = "clean" /\ thread'[id].stage = thread[id].stage
          /\ \A q \in JobId : q # id => thread'[q] = thread[q]
        BY <1>3, GoesFacts DEF Ends, Step, Driven, InRun
    <2>2. RunTypes' /\ \A q \in JobId : q # id => SameRun(q)
        BY <1>1, <1>3, <2>1 DEF RunTypes, SameRun, Ends
    <2>3. RunOK(id)'
        BY <1>1, <1>3, <2>1
        DEF RunTypes, RunOK, SupervisedRun, UnsupervisedRun, Success, Supervised, Ends
    <2> QED
        BY <2>2, <2>3 DEF RunStep
<1> QED
    BY <1>2, <1>3 DEF StartProcess

\* The steps that only look: they end the run or go on, and may set its outcome.
LEMMA LookStep ==
    ASSUME Inv, NEW id \in JobId, thread[id].at \in Supervised, NEW to \in Supervised \cup {"clean"},
           NEW code \in {"none", "success", "failure", "cancelled", "timeout"},
           Goes(id, to),
           outcome' = outcome \/ outcome' = [outcome EXCEPT ![id] = code],
           outcome' # outcome /\ code = "success" =>
                to = "clean" /\ client[id] = "complete" /\ report[id] = thread[id].stage,
           UNCHANGED <<overdue, client, box, report, missed>>,
           to = "read" => client[id] = "complete",
           to # "wait",
           to = "clean" => client[id] # "running"
    PROVE  RunStep(id)
<1>1. RunTypes /\ RunOK(id) /\ ThreadOK
    BY DEF Inv, ThreadInv
<1>2. /\ thread'[id].at = to /\ thread'[id].stage = thread[id].stage
      /\ \A q \in JobId : q # id => thread'[q] = thread[q]
    BY <1>1, GoesFacts DEF Step, Driven, InRun
<1>3. /\ outcome' \in [JobId -> {"none", "success", "failure", "cancelled", "timeout"}]
      /\ outcome'[id] = outcome[id] \/ outcome'[id] = code
      /\ \A q \in JobId : q # id => outcome'[q] = outcome[q]
      /\ outcome' = outcome => outcome'[id] = outcome[id]
    BY <1>1 DEF RunTypes
<1>4. RunTypes' /\ \A q \in JobId : q # id => SameRun(q)
    BY <1>1, <1>2, <1>3 DEF RunTypes, SameRun
<1>5. outcome[id] # "success" /\ thread[id].at # "clean"
    BY <1>1 DEF RunOK, Success, Supervised
<1>6. Success(id)'
    BY <1>1, <1>2, <1>3, <1>5 DEF RunOK, SupervisedRun, Success
<1>7. SupervisedRun(id)'
    BY <1>1, <1>2 DEF RunOK, SupervisedRun
<1>8. UnsupervisedRun(id)'
    BY <1>1, <1>2 DEF RunOK, SupervisedRun, UnsupervisedRun, Supervised
<1> QED
    BY <1>4, <1>6, <1>7, <1>8 DEF RunStep, RunOK

LEMMA SuperviseStep ==
    ASSUME Inv, NEW id \in JobId,
           Poll(id) \/ CheckCancel(id) \/ CheckDeadline(id) \/ ReadReport(id)
    PROVE  RunStep(id)
<1> USE DEF Supervised, At, Ends
<1>1. CASE Poll(id)
    BY <1>1, LookStep DEF Poll, Usable
<1>2. CASE CheckCancel(id)
    <2> DEFINE to == IF ShouldCancel(id) THEN "kill" ELSE "deadline"
               code == IF ShouldCancel(id) THEN "cancelled" ELSE outcome[id]
    <2>1. outcome[id] \in {"none", "failure", "cancelled", "timeout"} /\ thread[id].at = "cancel"
        BY <1>2 DEF CheckCancel, Inv, RunTypes, RunOK, Success
    <2> QED
        BY <1>2, <2>1, LookStep DEF CheckCancel
<1>3. CASE CheckDeadline(id)
    <2>1. outcome[id] \in {"none", "failure", "cancelled", "timeout"} /\ thread[id].at = "deadline"
        BY <1>3 DEF CheckDeadline, Inv, RunTypes, RunOK, Success
    <2> QED
        BY <1>3, <2>1, LookStep DEF CheckDeadline
<1>4. CASE ReadReport(id)
    <2>1. client[id] = "complete" /\ report[id] \in {"none", "bad", thread[id].stage}
        BY <1>4 DEF ReadReport, Inv, RunOK, SupervisedRun
    <2> QED
        BY <1>4, <2>1, LookStep DEF ReadReport
<1> QED
    BY <1>1, <1>2, <1>3, <1>4

LEMMA KillStep ==
    ASSUME Inv, NEW id \in JobId, KillContainer(id)
    PROVE  RunStep(id)
<1>1. RunTypes /\ RunOK(id) /\ ThreadOK /\ thread[id].at = "kill" /\ Goes(id, "wait")
    BY DEF Inv, ThreadInv, KillContainer, At
<1>2. /\ thread'[id].at = "wait" /\ thread'[id].stage = thread[id].stage
      /\ \A q \in JobId : q # id => thread'[q] = thread[q]
    BY <1>1, GoesFacts DEF Step, Driven, InRun, Supervised
<1>3. /\ outcome' = outcome /\ overdue' = overdue /\ client' = client /\ report' = report
      /\ \/ box[id] = "running" /\ box' = [box EXCEPT ![id] = "killed"] /\ missed' = missed
         \/ missed' = [missed EXCEPT ![id] = TRUE] /\ box' = box
    BY DEF KillContainer, Kill
<1>4. RunTypes' /\ \A q \in JobId : q # id => SameRun(q)
    BY <1>1, <1>2, <1>3 DEF RunTypes, SameRun
<1>5. RunOK(id)'
    BY <1>1, <1>2, <1>3 DEF RunTypes, RunOK, SupervisedRun, UnsupervisedRun, Success, Supervised
<1> QED
    BY <1>4, <1>5 DEF RunStep

LEMMA WaitStep ==
    ASSUME Inv, NEW id \in JobId, WaitForClient(id)
    PROVE  RunStep(id)
<1>1. RunTypes /\ RunOK(id) /\ ThreadOK /\ thread[id].at = "wait" /\ Goes(id, "clean")
    BY DEF Inv, ThreadInv, WaitForClient, At
<1>2. /\ thread'[id].at = "clean" /\ thread'[id].stage = thread[id].stage
      /\ \A q \in JobId : q # id => thread'[q] = thread[q]
    BY <1>1, GoesFacts DEF Step, Driven, InRun
<1>3. /\ outcome' = outcome /\ overdue' = overdue /\ missed' = missed /\ report' = report
      /\ client' = [client EXCEPT ![id] = "none"]
      /\ box' = box \/ (box[id] = "none" /\ box' = [box EXCEPT ![id] = "running"])
    BY DEF WaitForClient
<1>4. RunTypes' /\ \A q \in JobId : q # id => SameRun(q)
    BY <1>1, <1>2, <1>3 DEF RunTypes, SameRun
<1>5. RunOK(id)'
    BY <1>1, <1>2, <1>3 DEF RunTypes, RunOK, SupervisedRun, UnsupervisedRun, Success, Supervised
<1> QED
    BY <1>4, <1>5 DEF RunStep

LEMMA CleanStep ==
    ASSUME Inv, NEW id \in JobId, Clean(id)
    PROVE  RunStep(id)
<1> DEFINE over == box[id] # "running"
           to == AfterRun(id)
<1>1. RunTypes /\ RunOK(id) /\ ThreadOK /\ thread[id].at = "clean" /\ Goes(id, to)
    BY DEF Inv, ThreadInv, Clean, At
<1>2. to \in {"fail", "start_comparison", "start_analysis"}
    BY DEF AfterRun
<1>3. /\ outcome' = [outcome EXCEPT ![id] = "none"] /\ overdue' = [overdue EXCEPT ![id] = FALSE]
      /\ client' = [client EXCEPT ![id] = "none"] /\ report' = [report EXCEPT ![id] = "none"]
      /\ box' = [box EXCEPT ![id] = IF over THEN "none" ELSE @]
      /\ missed' = [missed EXCEPT ![id] = ~over /\ @]
    BY DEF Clean
<1> HIDE DEF to
<1>4. /\ thread'[id].at = to /\ thread'[id].stage = thread[id].stage
      /\ \A q \in JobId : q # id => thread'[q] = thread[q]
    BY <1>1, <1>2, GoesFacts DEF Step, Driven
<1>5. box[id] = "running" => missed[id]
    BY <1>1 DEF RunOK, UnsupervisedRun, Supervised
<1>6. missed[id] \in BOOLEAN /\ (~over /\ missed[id]) \in BOOLEAN
    BY <1>1 DEF RunTypes
<1>7. missed' \in [JobId -> BOOLEAN] /\ (over \/ missed'[id])
      /\ \A q \in JobId : q # id => missed'[q] = missed[q]
    BY <1>1, <1>3, <1>5, <1>6 DEF RunTypes
<1>8. RunTypes' /\ \A q \in JobId : q # id => SameRun(q)
    BY <1>1, <1>3, <1>4, <1>7 DEF RunTypes, SameRun
<1>9. RunOK(id)'
    BY <1>1, <1>2, <1>3, <1>4, <1>7
    DEF RunTypes, RunOK, SupervisedRun, UnsupervisedRun, Success, Supervised
<1> QED
    BY <1>8, <1>9 DEF RunStep

\* What docker, its client and the clock do beside the thread.
Daemon(id) ==
    StartContainer(id) \/ WriteReport(id) \/ EndContainer(id) \/ EndClient(id) \/ Elapse(id)

LEMMA DaemonStep ==
    ASSUME Inv, NEW id \in JobId, Daemon(id)
    PROVE  RunStep(id)
<1>1. RunTypes /\ RunOK(id) /\ ThreadOK
    BY DEF Inv, ThreadInv
<1>2. thread' = thread /\ outcome' = outcome /\ missed' = missed
    BY DEF Daemon, StartContainer, WriteReport, EndContainer, EndClient, Elapse, Outside
<1> USE DEF RunTypes, SameRun, RunOK, SupervisedRun, UnsupervisedRun, Success, Supervised,
            HasWorkspace
<1>3. CASE StartContainer(id)
    <2>1. /\ box[id] = "none" /\ client[id] = "running" /\ box' = [box EXCEPT ![id] = "running"]
          /\ overdue' = overdue /\ client' = client /\ report' = report
        BY <1>3 DEF StartContainer
    <2>2. RunTypes' /\ \A q \in JobId : q # id => SameRun(q)
        BY <1>1, <1>2, <2>1
    <2>3. RunOK(id)'
        BY <1>1, <1>2, <2>1
    <2> QED
        BY <2>2, <2>3 DEF RunStep
<1>4. CASE WriteReport(id)
    <2>1. PICK r \in {"bad", thread[id].stage} : report' = [report EXCEPT ![id] = r]
        BY <1>4 DEF WriteReport
    <2>2. /\ thread[id].at \in Supervised /\ box[id] = "running"
          /\ overdue' = overdue /\ client' = client /\ box' = box /\ thread[id].stage \in Stage
        BY <1>1, <1>4 DEF WriteReport, ThreadOK, Place
    <2>3. RunTypes' /\ \A q \in JobId : q # id => SameRun(q)
        BY <1>1, <1>2, <2>1, <2>2
    <2>4. RunOK(id)'
        BY <1>1, <1>2, <2>1, <2>2
    <2> QED
        BY <2>3, <2>4 DEF RunStep
<1>5. CASE EndContainer(id)
    <2>1. PICK e \in {"none", "complete", "killed", "other"} :
            /\ box' = [box EXCEPT ![id] = e]
            /\ thread[id].at \in Supervised => e # "none"
        BY <1>5 DEF EndContainer
    <2>2. /\ box[id] = "running"
          /\ overdue' = overdue /\ client' = client /\ report' = report
        BY <1>5 DEF EndContainer
    <2>3. RunTypes' /\ \A q \in JobId : q # id => SameRun(q)
        BY <1>1, <1>2, <2>1, <2>2
    <2>4. RunOK(id)'
        BY <1>1, <1>2, <2>1, <2>2
    <2> QED
        BY <2>3, <2>4 DEF RunStep
<1>6. CASE EndClient(id)
    <2>1. /\ client[id] = "running" /\ box[id] # "running"
          /\ client' = [client EXCEPT ![id] = IF box[id] = "none" THEN "unavailable" ELSE box[id]]
          /\ overdue' = overdue /\ box' = box /\ report' = report
        BY <1>6 DEF EndClient
    <2>2. RunTypes' /\ \A q \in JobId : q # id => SameRun(q)
        BY <1>1, <1>2, <2>1
    <2>3. thread[id].at # "read" /\ thread[id].at \in Supervised
        BY <1>1, <2>1
    <2>4. RunOK(id)'
        BY <1>1, <1>2, <2>1, <2>3
    <2> QED
        BY <2>2, <2>4 DEF RunStep
<1>7. CASE Elapse(id)
    <2>1. /\ overdue' = [overdue EXCEPT ![id] = TRUE]
          /\ client' = client /\ box' = box /\ report' = report
        BY <1>7 DEF Elapse
    <2>2. RunTypes' /\ \A q \in JobId : q # id => SameRun(q)
        BY <1>1, <1>2, <2>1
    <2>3. RunOK(id)'
        BY <1>1, <1>2, <2>1
    <2> QED
        BY <2>2, <2>3 DEF RunStep
<1> QED
    BY <1>3, <1>4, <1>5, <1>6, <1>7 DEF Daemon

-----------------------------------------------------------------------------
(* Every step. *)

StepOK == Inv' /\ ByContract /\ \A q \in JobId : LifeStep(q)

\* A step about one job leaves the others to be spared.
LEMMA OneJobStep ==
    ASSUME Inv, NEW id \in JobId, About(id), ThreadInv', RunStep(id)
    PROVE  StepOK
<1>1. StoreInv'
    BY StepStoreInv DEF Inv, About, ByContract
<1>2. ASSUME NEW q \in JobId
      PROVE  JobStep(q) /\ RunOK(q)'
    <2>1. CASE q = id
        BY <2>1 DEF About, RunStep
    <2>2. CASE q # id
        <3>1. SameRun(q) /\ thread'[q] = thread[q] /\ Spared(q) /\ analyses \subseteq analyses'
            BY <2>2 DEF RunStep, About, SparesOthers, SameRun
        <3>2. JobStep(q)
            BY <3>1, SparedJob DEF Inv
        <3>3. RunOK(q)'
            BY <3>1, SameRunOK DEF Inv
        <3> QED
            BY <3>2, <3>3
    <2> QED
        BY <2>1, <2>2
<1>3. RunTypes' /\ ByContract
    BY DEF RunStep, About
<1> QED
    BY <1>1, <1>2, <1>3 DEF StepOK, Inv, JobStep

\* A step that leaves the records and the threads alone.
LEMMA StillJob ==
    ASSUME Inv, NEW id \in JobId, UNCHANGED <<storeVars, pool, thread, analyses>>, RunStep(id)
    PROVE  StepOK
<1>1. ByContract /\ SparesOthers(id) /\ Spared(id)
    BY StillStoreFacts DEF SparesOthers
<1>2. JobStep(id)
    BY <1>1, SparedJob DEF Inv
<1>3. ThreadInv'
    BY DEF Inv, ThreadInv, ThreadOK, PoolOK
<1>4. About(id)
    BY <1>1, <1>2 DEF About
<1> QED
    BY <1>3, <1>4, OneJobStep

LEMMA RequestStep ==
    ASSUME Inv, NEW id \in JobId, Create(id) \/ Submit(id) \/ CancelJob(id) \/ RemoveJob(id)
    PROVE  StepOK
<1>0. ThreadInv /\ ThreadOK /\ RunTypes /\ RunOK(id)
    BY DEF Inv, ThreadInv
<1>1. CASE Create(id)
    <2>1. thread[id].at = "none" /\ pool' = pool /\ UNCHANGED run
        BY <1>1 DEF Create, At
    <2>2. /\ ThreadOK' /\ thread'[id].at = "submit"
          /\ \A q \in JobId : q # id => thread'[q] = thread[q]
        BY <1>0, <1>1, GoesFacts DEF Create, Step
    <2>3. ThreadInv'
        BY <1>0, <2>1, <2>2, PoolStays
    <2>4. RunStep(id)
        BY <1>0, <2>1, <2>2, OutsideRun DEF InRun, Supervised
    <2> QED
        BY <1>1, <2>3, <2>4, CreateAbout, OneJobStep
<1>2. CASE Submit(id)
    <2>1. thread[id].at = "submit" /\ UNCHANGED run
        BY <1>2 DEF Submit, At
    <2>2. ThreadInv' /\ thread'[id].at = "pooled"
        BY <1>0, <1>2, SubmitPool
    <2>3. \A q \in JobId : q # id => thread'[q] = thread[q]
        BY <1>0, <1>2, GoesFacts DEF Submit, Step
    <2>4. RunStep(id)
        BY <1>0, <2>1, <2>2, <2>3, OutsideRun DEF InRun, Supervised
    <2> QED
        BY <1>2, <2>2, <2>4, RunAbout, OneJobStep
<1>3. CASE CancelJob(id) \/ RemoveJob(id)
    <2>1. UNCHANGED <<pool, thread, run>>
        BY <1>3 DEF CancelJob, RemoveJob
    <2>2. ThreadInv'
        BY <1>0, <2>1 DEF ThreadInv, ThreadOK, PoolOK
    <2>3. RunStep(id)
        BY <1>0, <2>1, OutsideRun
    <2> QED
        BY <1>3, <2>2, <2>3, CancelAbout, RemoveAbout, OneJobStep
<1> QED
    BY <1>1, <1>2, <1>3

LEMMA DriveStep ==
    ASSUME Inv, NEW id \in JobId, Drive(id)
    PROVE  StepOK
<1>0. ThreadInv /\ ThreadOK /\ RunTypes /\ RunOK(id)
    BY DEF Inv, ThreadInv
<1>1. /\ ThreadOK' /\ <<thread[id].at, thread'[id].at>> \in Moves
      /\ \A q \in JobId : q # id => thread'[q] = thread[q]
    BY <1>0, MoveFacts
<1>2. thread[id].at # "pooled"
    BY <1>1 DEF Moves
<1>3. pool' = pool
    BY DEF Drive, ClaimJob, EnterStage, Enter, CheckTargets, Build, WriteReady, FailRun, ReleaseJob,
           PrepareRun, StartProcess, Poll, CheckCancel, CheckDeadline, KillContainer,
           WaitForClient, ReadReport, Clean
<1>4. ThreadInv'
    BY <1>0, <1>1, <1>2, <1>3, PoolStays
<1>5. CASE \/ ClaimJob(id) \/ EnterStage(id) \/ CheckTargets(id) \/ Build(id) \/ WriteReady(id)
           \/ FailRun(id) \/ ReleaseJob(id)
    <2>1. /\ UNCHANGED run
          /\ thread[id].at \in {"claim", "validate", "start_baseline", "start_comparison",
                                "start_analysis", "check", "build", "ready", "fail", "release"}
        BY <1>5 DEF ClaimJob, EnterStage, Enter, CheckTargets, Build, WriteReady, FailRun,
                    ReleaseJob, At
    <2>2. /\ thread[id].at \notin InRun
          /\ thread'[id].at \notin Supervised \cup {"popen", "clean"}
        BY <1>1, <2>1 DEF Moves, InRun, Supervised
    <2>3. RunStep(id)
        BY <1>0, <1>1, <2>1, <2>2, OutsideRun
    <2>4. About(id)
        BY <1>5, ClaimAbout, EnterStageAbout, RunAbout, BuildAbout, LastWriteAbout, ReleaseAbout
    <2> QED
        BY <1>4, <2>3, <2>4, OneJobStep
<1>6. CASE \/ PrepareRun(id) \/ StartProcess(id) \/ Poll(id) \/ CheckCancel(id) \/ CheckDeadline(id)
           \/ KillContainer(id) \/ WaitForClient(id) \/ ReadReport(id) \/ Clean(id)
    <2>1. RunStep(id)
        BY <1>6, PrepareRunStep, StartProcessStep, SuperviseStep, KillStep, WaitStep, CleanStep
    <2>2. About(id)
        BY <1>6, RunAbout
    <2> QED
        BY <1>4, <2>1, <2>2, OneJobStep
<1> QED
    BY <1>5, <1>6 DEF Drive

LEMMA TakeStep ==
    ASSUME Inv, TakeJob
    PROVE  StepOK
<1>0. ThreadInv /\ ThreadOK /\ StoreInv /\ RunTypes
    BY DEF Inv, ThreadInv
<1>1. ThreadInv'
    BY <1>0, TakeFacts
<1>2. PICK id \in JobId :
        /\ thread[id].at = "pooled" /\ thread'[id].at = "claim"
        /\ thread'[id].stage = thread[id].stage
        /\ \A q \in JobId : q # id => thread'[q] = thread[q]
    BY <1>0, TakeFacts
<1>3. UNCHANGED <<storeVars, run, analyses>>
    BY DEF TakeJob
<1>4. thread[id] \in Place /\ thread'[id] \in Place
    BY <1>0, <1>1 DEF ThreadInv, ThreadOK
<1>5. Unseen(thread[id], thread'[id])
    BY <1>2, <1>4, UnseenMoves
<1>6. ByContract /\ SparesOthers(id) /\ Spared(id)
    BY <1>3, StillStoreFacts DEF SparesOthers
<1>7. About(id)
    BY <1>0, <1>3, <1>5, <1>6, UnseenMove DEF About, Inv
<1>8. RunStep(id)
    BY <1>0, <1>2, <1>3, OutsideRun DEF Inv, InRun, Supervised
<1> QED
    BY <1>1, <1>7, <1>8, OneJobStep

LEMMA IdleStep ==
    ASSUME Inv, Advance \/ UNCHANGED vars
    PROVE  StepOK
<1>1. /\ UNCHANGED <<pool, thread, run, analyses>> /\ jobs' = jobs /\ issued' = issued
      /\ ByContract
    BY DEF Advance, Tick, vars, storeVars, ByContract, StoreNext
<1>2. StoreInv' /\ ThreadInv' /\ RunTypes'
    BY <1>1, StepStoreInv
    DEF Inv, ThreadInv, ThreadOK, PoolOK, RunTypes, run, ByContract
<1>3. ASSUME NEW q \in JobId PROVE JobStep(q) /\ RunOK(q)'
    <2>1. Spared(q)
        BY <1>1 DEF Spared
    <2>2. SameRun(q)
        BY <1>1 DEF SameRun, run
    <2> QED
        BY <1>1, <2>1, <2>2, SparedJob, SameRunOK DEF Inv
<1> QED
    BY <1>1, <1>2, <1>3 DEF StepOK, Inv, JobStep

LEMMA EveryStep ==
    ASSUME Inv, [Next]_vars
    PROVE  StepOK
<1>1. ASSUME NEW id \in JobId, Daemon(id) PROVE StepOK
    <2>1. UNCHANGED <<storeVars, pool, thread, analyses>>
        BY <1>1 DEF Daemon, StartContainer, WriteReport, EndContainer, EndClient, Elapse, Outside
    <2> QED
        BY <1>1, <2>1, DaemonStep, StillJob
<1> QED
    BY <1>1, RequestStep, DriveStep, TakeStep, IdleStep DEF Next, Daemon

LEMMA InitInv == Init => Inv
<1> SUFFICES ASSUME Init PROVE Inv
    OBVIOUS
<1>1. StoreInv
    BY InitStoreInv DEF Init
<1>2. thread = [id \in JobId |-> [at |-> "none", stage |-> "running_baseline"]] /\ pool = <<>>
    BY DEF Init
<1>3. ThreadOK
    BY <1>2 DEF ThreadOK, Place, Step, Stage
<1>4. PoolOK
    BY <1>2 DEF PoolOK
<1>5. RunTypes
    BY DEF Init, RunTypes
<1>6. ASSUME NEW id \in JobId PROVE JobOK(id) /\ RunOK(id)
    <2>1. id \notin issued /\ id \notin Stored
        BY DEF Init, StoreInit, Stored
    <2>2. thread[id].at = "none"
        BY <1>2
    <2>3. /\ outcome[id] = "none" /\ client[id] = "none" /\ box[id] = "none"
        BY DEF Init
    <2> QED
        BY <2>1, <2>2, <2>3
        DEF JobOK, RunOK, SupervisedRun, UnsupervisedRun, Success, Supervised
<1> QED
    BY <1>1, <1>3, <1>4, <1>5, <1>6 DEF Inv, ThreadInv

LEMMA Invariance == Spec => []Inv
<1>1. Inv /\ [Next]_vars => Inv'
    BY EveryStep DEF StepOK
<1> QED
    BY <1>1, InitInv, PTL DEF Spec

-----------------------------------------------------------------------------
(* Results. *)

\* Whatever is cancelled, removed or dropped while threads run, each job lives
\* as its owner may expect.
THEOREM LifecycleImplemented == Spec => ImplementsLifecycle
<1>1. Init => \A id \in JobId : Life(id)!Init
    BY DEF Init, StoreInit, Stored, Life!Init
<1>2. Inv /\ [Next]_vars => [\A id \in JobId : Life(id)!Next \/ UNCHANGED Life(id)!vars]_vars
    BY EveryStep DEF StepOK, LifeStep
<1> QED
    BY <1>1, <1>2, Invariance, PTL DEF Spec, ImplementsLifecycle

\* Local execution only ever asks of its store what the contract offers, so the
\* contract's promises are its own: the cap holds for any number of threads.
THEOREM LocalStoreContract == Spec => StoreSpec /\ []CapKept
<1>1. Init => StoreInit
    BY DEF Init
<1>2. Inv /\ [Next]_vars => [StoreNext]_storeVars
    BY EveryStep DEF StepOK, ByContract
<1>3. Inv => CapKept
    BY DEF Inv, StoreInv
<1> QED
    BY <1>1, <1>2, <1>3, Invariance, PTL DEF Spec, StoreSpec

\* A container outlives its run only if a kill missed it.
THEOREM NoContainerOutlives == Spec => []NoContainerLeft
<1>1. Inv => NoContainerLeft
    BY DEF Inv, RunOK, UnsupervisedRun, NoContainerLeft, HasWorkspace, Supervised
<1> QED
    BY <1>1, Invariance, PTL

\* A success is the run's own report, of a container that ended by itself.
THEOREM SuccessAlwaysWhole == Spec => []SuccessIsComplete
<1>1. Inv => SuccessIsComplete
    BY DEF Inv, RunOK, Success, SuccessIsComplete, At
<1> QED
    BY <1>1, Invariance, PTL

\* A job is announced as ready only when its analysis is there.
THEOREM ReadyAlwaysAnalysed == Spec => []ReadyHasAnalysis
<1>1. Inv => ReadyHasAnalysis
    <2> SUFFICES ASSUME Inv, NEW id \in Stored, jobs[id].state = "ready"
                 PROVE  jobs[id].analysis_id \in analyses
        BY DEF ReadyHasAnalysis
    <2> QED
        BY DEF Inv, JobOK, Stored
<1> QED
    BY <1>1, Invariance, PTL
-----------------------------------------------------------------------------
(* The store that local execution runs on: InMemoryJobStore. *)

\* The sweep takes away the droppable jobs and nothing else.
LEMMA SweepFacts ==
    ASSUME StoreTypeOK
    PROVE  /\ Swept = Without(Droppable)
           /\ Left = Stored \ Droppable
           /\ \A id \in Left : Swept[id] = jobs[id]
           /\ Swept = jobs \/ Droppable # {}
<1>1. \A id \in JobId : id \in Droppable <=> jobs[id] # NoJob /\ Expired(jobs[id])
    BY DEF Droppable, Stored, Expired
<1>2. Swept = Without(Droppable)
    BY <1>1 DEF Swept, Without
<1>3. Left = Stored \ Droppable /\ \A id \in Left : Swept[id] = jobs[id]
    BY <1>1 DEF Swept, Left, Stored
<1>4. Droppable = {} => Swept = jobs
    BY <1>2 DEF Without, StoreTypeOK
<1> QED
    BY <1>2, <1>3, <1>4

\* A call that only sweeps drops the expired jobs or changes nothing.
LEMMA SweepDrops ==
    ASSUME StoreTypeOK, jobs' = Swept, UNCHANGED <<issued, now>>
    PROVE  StoreNext \/ UNCHANGED storeVars
<1>1. CASE Droppable = {}
    BY <1>1, SweepFacts DEF storeVars
<1>2. CASE Droppable # {}
    <2>1. Drop
        BY <1>2, SweepFacts DEF Drop
    <2> QED
        BY <2>1 DEF StoreNext
<1> QED
    BY <1>1, <1>2

\* After the sweep the store counts, and compares keys with, the jobs the
\* contract does.
LEMMA SweptViews ==
    ASSUME StoreTypeOK, NEW o \in Owner, NEW k \in Key \cup {NoKey}
    PROVE  /\ Active(o) = Counting(o) \ Droppable
           /\ Repeats(o, k) = Matches(o, k)
<1>1. /\ Left = Stored \ Droppable /\ \A id \in Left : Swept[id] = jobs[id]
    BY SweepFacts
<1>2. Active(o) = Counting(o) \ Droppable
    BY <1>1 DEF Active, Counting
<1>3. Repeats(o, k) = Matches(o, k)
    BY <1>1 DEF Repeats, Matches, Droppable
<1> QED
    BY <1>2, <1>3

LEMMA CreateRefines ==
    ASSUME StoreTypeOK, NEW id \in JobId, NEW o \in Owner, NEW k \in Key \cup {NoKey},
           NEW t \in 0..now, CreateIfAllowed(id, o, k, t)
    PROVE  StoreNext \/ UNCHANGED storeVars
<1>1. CASE (k # NoKey /\ Repeats(o, k) # {}) \/ ~BelowCap(o)
    BY <1>1, SweepDrops DEF CreateIfAllowed
<1>2. CASE ~((k # NoKey /\ Repeats(o, k) # {}) \/ ~BelowCap(o))
    <2>1. /\ jobs' = [Swept EXCEPT ![id] = NewJob(o, k, t)]
          /\ issued' = issued \cup {id} /\ id \notin issued /\ now' = now
        BY <1>2 DEF CreateIfAllowed
    <2>2. k # NoKey => Matches(o, k) = {}
        BY <1>2, SweptViews
    <2>3. Active(o) = Counting(o) \ Droppable
        BY SweptViews
    <2>4. Cardinality(Counting(o) \ Droppable) < MaxActive
        BY <1>2, <2>3 DEF BelowCap
    <2>5. jobs' = [Without(Droppable) EXCEPT ![id] = NewJob(o, k, t)]
        BY <2>1, SweepFacts
    <2>6. Insert(id, o, k, t)
        BY <2>1, <2>2, <2>4, <2>5 DEF Insert
    <2> QED
        BY <2>6 DEF StoreNext
<1> QED
    BY <1>1, <1>2

LEMMA MutateRefines ==
    ASSUME StoreTypeOK, NEW id \in JobId, NEW fn \in Fns, NEW t \in 0..now,
           MutateJob(id, fn, t)
    PROVE  StoreNext \/ UNCHANGED storeVars
<1>1. CASE id \notin Left
    BY <1>1, SweepDrops DEF MutateJob
<1>2. CASE id \in Left
    <2>1. /\ id \in Stored /\ id \notin Droppable /\ Swept[id] = jobs[id]
          /\ Swept = Without(Droppable)
        BY <1>2, SweepFacts
    <2>2. jobs' = [Without(Droppable) EXCEPT ![id] = Apply(fn, jobs[id], t)]
        BY <1>2, <2>1 DEF MutateJob
    <2>3. Droppable \in SUBSET (Droppable \ {id})
        BY <2>1
    <2>4. Mutate(id, fn, t)
        BY <2>1, <2>2, <2>3 DEF Mutate, MutateJob
    <2> QED
        BY <2>4, InMemoryAssumption DEF StoreNext
<1> QED
    BY <1>1, <1>2

LEMMA DeleteRefines ==
    ASSUME StoreTypeOK, NEW id \in JobId, DeleteJob(id)
    PROVE  StoreNext
<1>1. jobs' = Without({} \cup {id})
    BY DEF DeleteJob, Without, StoreTypeOK
<1>2. Delete(id)
    BY <1>1 DEF Delete, DeleteJob
<1> QED
    BY <1>2 DEF StoreNext

LEMMA LockedStep == StoreTypeOK /\ [LockedNext]_Vars => [StoreNext]_storeVars
<1> SUFFICES ASSUME StoreTypeOK, [LockedNext]_Vars PROVE StoreNext \/ UNCHANGED storeVars
    OBVIOUS
<1>1. CASE Lookup
    BY <1>1, SweepDrops DEF Lookup
<1>2. CASE ClockTicks
    BY <1>2 DEF ClockTicks, StoreNext
<1>3. CASE UNCHANGED Vars
    BY <1>3 DEF Vars
<1> QED
    BY <1>1, <1>2, <1>3, CreateRefines, MutateRefines, DeleteRefines DEF LockedNext

\* The inductive invariant is the contract's own: only its type part is used.
LEMMA LockedInvariance == LockedSpec => []StoreInv
<1>1. LockedInit => StoreInv
    BY InitStoreInv DEF LockedInit
<1>2. StoreInv /\ [LockedNext]_Vars => StoreInv'
    BY LockedStep, StepStoreInv DEF StoreInv
<1> QED
    BY <1>1, <1>2, PTL DEF LockedSpec

\* Every behaviour of the locked dictionary is one of the contract: its sweeps
\* drop only expired jobs nobody drives, and what it counts and compares after
\* a sweep is what the contract counts and compares.
THEOREM LockedStoreRefines == LockedSpec => ImplementsJobStore
<1>1. LockedInit => StoreInit
    BY DEF LockedInit
<1>2. StoreInv => StoreTypeOK
    BY DEF StoreInv
<1> QED
    BY <1>1, <1>2, LockedInvariance, LockedStep, PTL DEF LockedSpec, ImplementsJobStore, StoreSpec

\* So no owner exceeds the cap in memory, no write of a worker brings a deleted
\* job back, and none changes the outcome of a job that is over.
THEOREM LockedStoreInherits ==
    LockedSpec => []CapKept /\ [][StayRemoved]_storeVars /\ [][OutcomeFinal]_storeVars
<1> QED
    BY LockedStoreRefines, ContractKeepsCap, ContractNeverResurrects, ContractKeepsOutcome, PTL
       DEF ImplementsJobStore

\* And a submission repeated within the window starts no second execution.
THEOREM LockedStoreKeepsKeys ==
    ASSUME Window <= Ttl
    PROVE  LockedSpec => []KeysUnique
<1> QED
    BY LockedStoreRefines, ContractKeepsKeys, PTL DEF ImplementsJobStore
=============================================================================
