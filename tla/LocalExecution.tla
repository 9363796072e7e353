--------------------------- MODULE LocalExecution ---------------------------
(***************************************************************************)
(* Execution jobs in the API's own process: LocalJobLauncher hands a job   *)
(* to a bounded thread pool, a thread of it drives run_job over the store, *)
(* and DockerNewmanRunner supervises one container per Newman run through  *)
(* a docker client process, in a workspace of its own.                     *)
(*                                                                         *)
(* The deadline of a run and the patience of process.wait run out at any   *)
(* time.  The death of the API's process ends the store and the threads    *)
(* with it and is left out.                                                *)
(***************************************************************************)
EXTENDS JobStoreClient, SequencesExt

CONSTANTS
    PoolSize,       \* settings.max_concurrent_executions
    Failures,       \* whether docker kill may fail and docker run may start late
    MaxTime

ASSUME LocalExecutionAssumption ==
    /\ PoolSize \in Nat \ {0} /\ Failures \in BOOLEAN
    /\ JobId \subseteq Analysis     \* the analysis of a job goes by its name

VARIABLES
    pool,           \* jobs submitted to the pool and not taken by a thread yet
    thread,         \* where the thread that drives a job is, and in which stage
    outcome,        \* the RunOutcome of its latest Newman run
    overdue,        \* the deadline of its Newman run has passed
    client,         \* its docker client process: "none", "running", or its exit code by meaning
    box,            \* the container of its latest run: the same
    report,         \* the report in its workspace: "none", "bad", or the stage it is the report of
    analyses,       \* what the analysis store holds
    missed          \* a kill found no container, or failed

run == <<outcome, overdue, client, box, report, missed>>
vars == <<storeVars, pool, thread, run, analyses>>

Init ==
    /\ StoreInit /\ pool = <<>> /\ analyses = {}
    /\ thread = [id \in JobId |-> [at |-> "none", stage |-> "running_baseline"]]
    /\ outcome = [id \in JobId |-> "none"]
    /\ overdue = [id \in JobId |-> FALSE]
    /\ client = [id \in JobId |-> "none"]
    /\ box = [id \in JobId |-> "none"]
    /\ report = [id \in JobId |-> "none"]
    /\ missed = [id \in JobId |-> FALSE]

At(id, step) == thread[id].at = step
Goes(id, step) == thread' = [thread EXCEPT ![id].at = step]

-----------------------------------------------------------------------------
(* Requests: POST creates and submits, DELETE cancels or removes. *)

Create(id) ==
    /\ At(id, "none")
    /\ \E o \in Owner : Insert(id, o, NoKey, now)
    /\ Goes(id, "submit")
    /\ UNCHANGED <<pool, run, analyses>>

\* LocalJobLauncher.launch.
Submit(id) ==
    /\ At(id, "submit")
    /\ pool' = Append(pool, id) /\ Goes(id, "pooled")
    /\ UNCHANGED <<storeVars, run, analyses>>

CancelJob(id) ==
    /\ id \in issued /\ Live(id) /\ IsActive(jobs[id])
    /\ Call(id, [kind |-> "cancel"], now)
    /\ UNCHANGED <<pool, thread, run, analyses>>

\* Fault: a terminal job is removed though its thread still runs.
Removable_Driven(id) == ~IsActive(jobs[id])

Removable(id) == ~IsActive(jobs[id]) /\ ~jobs[id].worker_active

RemoveJob(id) ==
    /\ id \in issued /\ Live(id) /\ Removable(id)
    /\ Delete(id)
    /\ UNCHANGED <<pool, thread, run, analyses>>

-----------------------------------------------------------------------------
(* run_job, in a thread of the pool. *)

Busy == {id \in JobId : thread[id].at \notin {"none", "submit", "pooled", "done"}}

\* A free thread takes the job that has waited longest.
TakeJob ==
    /\ pool # <<>> /\ Cardinality(Busy) < PoolSize
    /\ Goes(Head(pool), "claim") /\ pool' = Tail(pool)
    /\ UNCHANGED <<storeVars, run, analyses>>

ClaimJob(id) ==
    /\ At(id, "claim")
    /\ Call(id, [kind |-> "claim"], now)
    /\ Goes(id, IF Live(id) /\ Claimable(jobs[id]) THEN "validate" ELSE "done")
    /\ UNCHANGED <<pool, run, analyses>>

\* _write_state; the job is given up when nothing was written.
Enter(id, from, state, to) ==
    /\ At(id, from)
    /\ Call(id, Write(state, NoAnalysis), now)
    /\ thread' = [thread EXCEPT ![id].at = IF Live(id) /\ Wrote(jobs[id]) THEN to ELSE "release",
                                ![id].stage = IF to = "workspace" THEN state ELSE @]
    /\ UNCHANGED <<pool, run, analyses>>

EnterStage(id) ==
    \/ Enter(id, "validate", "validating", "check")
    \/ Enter(id, "start_baseline", "running_baseline", "workspace")
    \/ Enter(id, "start_comparison", "running_comparison", "workspace")
    \/ Enter(id, "start_analysis", "analyzing", "build")

\* Destination validation: warnings, or an exception, fail the job.
CheckTargets(id) ==
    /\ At(id, "check")
    /\ Goes(id, "start_baseline") \/ Goes(id, "fail")
    /\ UNCHANGED <<storeVars, pool, run, analyses>>

\* _outcome_error, and what _drive_job does next.
AfterRun(id) ==
    IF outcome[id] # "success" THEN "fail"
    ELSE IF thread[id].stage = "running_baseline" THEN "start_comparison" ELSE "start_analysis"

\* Fault: the analysis is stored after the job is ready.
StoreAnalysis_Later(id) == UNCHANGED analyses

StoreAnalysis(id) == analyses' = analyses \cup {id}

\* build_analysis may raise.  Then the job is read for its owner; the analysis
\* of a job that is gone is dropped.
Build(id) ==
    /\ At(id, "build")
    /\ \/ Goes(id, "fail") /\ UNCHANGED <<storeVars, analyses>>
       \/ Live(id) /\ Get(id) /\ StoreAnalysis(id) /\ Goes(id, "ready")
       \/ ~Live(id) /\ Get(id) /\ Goes(id, "release") /\ UNCHANGED analyses
    /\ UNCHANGED <<pool, run>>

WriteReady(id) ==
    /\ At(id, "ready")
    /\ Call(id, Write("ready", id), now)
    /\ Goes(id, "release")
    /\ UNCHANGED <<pool, run, analyses>>

FailRun(id) ==
    /\ At(id, "fail")
    /\ Call(id, Write("failed", NoAnalysis), now)
    /\ Goes(id, "release")
    /\ UNCHANGED <<pool, run, analyses>>

ReleaseJob(id) ==
    /\ At(id, "release")
    /\ Call(id, [kind |-> "release"], now)
    /\ Goes(id, "done")
    /\ UNCHANGED <<pool, run, analyses>>

-----------------------------------------------------------------------------
(* DockerNewmanRunner.run, in the same thread. *)

Ends(id, code) == outcome' = [outcome EXCEPT ![id] = code] /\ Goes(id, "clean")

\* folder_run_name, newman_workspace and build_docker_argv: a folder or a pin
\* that cannot be used, or an exception, ends the run before its process.
PrepareRun(id) ==
    /\ At(id, "workspace")
    /\ report' = [report EXCEPT ![id] = "none"]
    /\ \/ Goes(id, "popen") /\ UNCHANGED outcome
       \/ Ends(id, "failure")
    /\ UNCHANGED <<storeVars, pool, overdue, client, box, missed, analyses>>

StartProcess(id) ==
    /\ At(id, "popen")
    /\ \/ /\ client' = [client EXCEPT ![id] = "running"] /\ box' = [box EXCEPT ![id] = "none"]
          /\ overdue' = [overdue EXCEPT ![id] = FALSE] /\ missed' = [missed EXCEPT ![id] = FALSE]
          /\ Goes(id, "poll") /\ UNCHANGED outcome
       \/ Ends(id, "failure") /\ UNCHANGED <<client, box, overdue, missed>>
    /\ UNCHANGED <<storeVars, pool, report, analyses>>

\* Fault: a killed container counts as complete.
Usable_Killed(code) == code \in {"complete", "killed"}

\* _map_exit_code: 0 and 1, the exit code of failed assertions.
Usable(code) == code = "complete"

\* One turn of _supervise: poll, should_cancel, the deadline.  The error codes
\* of _map_exit_code are one failure here.
Poll(id) ==
    /\ At(id, "poll")
    /\ IF client[id] = "running" THEN Goes(id, "cancel") /\ UNCHANGED outcome
       ELSE IF Usable(client[id]) THEN Goes(id, "read") /\ UNCHANGED outcome
       ELSE Ends(id, "failure")
    /\ UNCHANGED <<storeVars, pool, overdue, client, box, report, missed, analyses>>

ShouldCancel(id) == ~Live(id) \/ jobs[id].cancel_requested

CheckCancel(id) ==
    /\ At(id, "cancel")
    /\ Get(id)
    /\ Goes(id, IF ShouldCancel(id) THEN "kill" ELSE "deadline")
    /\ outcome' = [outcome EXCEPT ![id] = IF ShouldCancel(id) THEN "cancelled" ELSE @]
    /\ UNCHANGED <<pool, overdue, client, box, report, missed, analyses>>

\* Fault: a container that has not started yet is given more time.
Overdue_Started(id) == overdue[id] /\ box[id] # "none"

Overdue(id) == overdue[id]

CheckDeadline(id) ==
    /\ At(id, "deadline")
    /\ Goes(id, IF Overdue(id) THEN "kill" ELSE "poll")
    /\ outcome' = [outcome EXCEPT ![id] = IF Overdue(id) THEN "timeout" ELSE @]
    /\ UNCHANGED <<storeVars, pool, overdue, client, box, report, missed, analyses>>

\* Fault: only the docker client is stopped.
Kill_Client(id) == UNCHANGED <<box, missed>>

\* docker kill: what fails is logged.  A container that is not there yet is not
\* killed.
Kill(id) ==
    \/ box[id] = "running" /\ box' = [box EXCEPT ![id] = "killed"] /\ UNCHANGED missed
    \/ (box[id] # "running" \/ Failures) /\ missed' = [missed EXCEPT ![id] = TRUE] /\ UNCHANGED box

KillContainer(id) ==
    /\ At(id, "kill")
    /\ Kill(id)
    /\ Goes(id, "wait")
    /\ UNCHANGED <<storeVars, pool, outcome, overdue, client, report, analyses>>

\* process.wait, or process.kill when its patience runs out; a client that is
\* killed may have asked for its container already.
WaitForClient(id) ==
    /\ At(id, "wait")
    /\ client' = [client EXCEPT ![id] = "none"]
    /\ \/ UNCHANGED box
       \/ Failures /\ client[id] = "running" /\ box[id] = "none" /\ box' = [box EXCEPT ![id] = "running"]
    /\ Goes(id, "clean")
    /\ UNCHANGED <<storeVars, pool, outcome, overdue, report, missed, analyses>>

\* read_generated_report.
ReadReport(id) ==
    /\ At(id, "read")
    /\ Ends(id, IF report[id] \in {"none", "bad"} THEN "failure" ELSE "success")
    /\ UNCHANGED <<storeVars, pool, overdue, client, box, report, missed, analyses>>

\* The finally block of newman_workspace; what is left of the run is forgotten,
\* but for a container that goes on.
Clean(id) ==
    LET over == box[id] # "running" IN
    /\ At(id, "clean")
    /\ report' = [report EXCEPT ![id] = "none"]
    /\ overdue' = [overdue EXCEPT ![id] = FALSE]
    /\ client' = [client EXCEPT ![id] = "none"]
    /\ box' = [box EXCEPT ![id] = IF over THEN "none" ELSE @]
    /\ missed' = [missed EXCEPT ![id] = ~over /\ @]
    /\ Goes(id, AfterRun(id))
    /\ outcome' = [outcome EXCEPT ![id] = "none"]
    /\ UNCHANGED <<storeVars, pool, analyses>>

-----------------------------------------------------------------------------
(* The docker daemon, its client and the clock. *)

Outside(id) == UNCHANGED <<storeVars, pool, thread, outcome, missed, analyses>>

StartContainer(id) ==
    /\ box[id] = "none" /\ client[id] = "running"
    /\ box' = [box EXCEPT ![id] = "running"]
    /\ Outside(id) /\ UNCHANGED <<overdue, client, report>>

HasWorkspace(id) == thread[id].at \in {"poll", "cancel", "deadline", "kill", "wait", "read"}

WriteReport(id) ==
    /\ box[id] = "running" /\ HasWorkspace(id) /\ report[id] \in {"none", "bad"}
    /\ \E r \in {"bad", thread[id].stage} \ {report[id]} : report' = [report EXCEPT ![id] = r]
    /\ Outside(id) /\ UNCHANGED <<overdue, client, box>>

\* Newman ends, with or without a report; the kernel kills it; it crashes.  One
\* that nobody waits for leaves nothing (docker run --rm).
EndContainer(id) ==
    /\ box[id] = "running"
    /\ IF HasWorkspace(id)
       THEN \E e \in {"complete", "killed", "other"} : box' = [box EXCEPT ![id] = e]
       ELSE box' = [box EXCEPT ![id] = "none"]
    /\ Outside(id) /\ UNCHANGED <<overdue, client, report>>

\* The client passes the container's exit code on, or 125 when there is none.
EndClient(id) ==
    /\ client[id] = "running" /\ box[id] # "running"
    /\ client' = [client EXCEPT ![id] = IF box[id] = "none" THEN "unavailable" ELSE box[id]]
    /\ Outside(id) /\ UNCHANGED <<overdue, box, report>>

Elapse(id) ==
    /\ ~overdue[id] /\ thread[id].at \in {"poll", "cancel", "deadline"}
    /\ overdue' = [overdue EXCEPT ![id] = TRUE]
    /\ Outside(id) /\ UNCHANGED <<client, box, report>>

Advance ==
    /\ now < MaxTime /\ Tick
    /\ UNCHANGED <<pool, thread, run, analyses>>

-----------------------------------------------------------------------------
Drive(id) ==
    \/ ClaimJob(id) \/ EnterStage(id) \/ CheckTargets(id) \/ Build(id) \/ WriteReady(id)
    \/ FailRun(id) \/ ReleaseJob(id)
    \/ PrepareRun(id) \/ StartProcess(id) \/ Poll(id) \/ CheckCancel(id) \/ CheckDeadline(id)
    \/ KillContainer(id) \/ WaitForClient(id) \/ ReadReport(id) \/ Clean(id)

Next ==
    \/ \E id \in JobId :
        \/ Create(id) \/ Submit(id) \/ CancelJob(id) \/ RemoveJob(id) \/ Drive(id)
        \/ StartContainer(id) \/ WriteReport(id) \/ EndContainer(id) \/ EndClient(id) \/ Elapse(id)
    \/ TakeJob \/ Advance

Spec == Init /\ [][Next]_vars

\* Threads go on, and a run's deadline comes.  Nothing is assumed of docker.
FairSpec ==
    /\ Spec /\ WF_vars(TakeJob)
    /\ \A id \in JobId : WF_vars(Drive(id)) /\ WF_vars(Elapse(id))

-----------------------------------------------------------------------------
(* Properties *)

\* The life of one job as its owner may observe it.
Life(id) ==
    INSTANCE JobLifecycle WITH
        phase <- IF id \notin issued THEN "none" ELSE IF id \in Stored THEN jobs[id].state ELSE "gone",
        driven <- id \in Stored /\ jobs[id].worker_active,
        result <- IF id \in Stored THEN jobs[id].analysis_id ELSE NoAnalysis

\* Cancellations and removals race the thread at every step of run_job, and yet
\* the job lives as JobLifecycle says: stages in order, entered by the thread
\* that holds it, a terminal state final, no removal under its thread.
ImplementsLifecycle ==
    /\ \A id \in JobId : Life(id)!Init
    /\ [][\A id \in JobId : Life(id)!Next \/ UNCHANGED Life(id)!vars]_vars

\* When a run is over, its container is not running, unless docker kill failed
\* or came before the container was there.
NoContainerLeft ==
    \A id \in JobId : box[id] = "running" /\ ~missed[id] => HasWorkspace(id)

\* A run that counts as a success ended by itself and left its own report: a
\* killed container, a report cut short, or that of the other run never does.
SuccessIsComplete ==
    \A id \in JobId : At(id, "clean") /\ outcome[id] = "success"
        => box[id] = "complete" /\ report[id] = thread[id].stage

\* The analysis a ready job names is in the session store (until it expires
\* there), whatever was cancelled or removed while it was built.
ReadyHasAnalysis ==
    \A id \in Stored : jobs[id].state = "ready" => jobs[id].analysis_id \in analyses

\* A submitted job is taken in its turn and settled, its thread goes back to
\* the pool and its slot to the owner, even if no container ever ends.
JobsSettle ==
    \A id \in JobId : At(id, "pooled") ~>
        (At(id, "done") /\ (id \in Stored => ~Counts(jobs[id])))
=============================================================================
