---------------------------- MODULE AwsExecution ----------------------------
(***************************************************************************)
(* An execution job on the AWS backend, from POST /execution-jobs to its   *)
(* analysis: the API's launcher, the SQS queue, one-shot worker tasks, the *)
(* objects of the job in S3, the finalizer that a poll of the job runs,    *)
(* and DELETE /execution-jobs.                                             *)
(*                                                                         *)
(* The store is used by its contract, JobStore, whose actions are taken    *)
(* here as they are (DynamoJobStore implements it).  A closure may run on  *)
(* a job and be refused by DynamoDB before it runs again on the stored     *)
(* one: that matters only to closures that remember something between two  *)
(* runs, and those are split in two actions here.                          *)
(***************************************************************************)
EXTENDS JobStoreClient

CONSTANTS
    Worker,         \* worker tasks; each handles one message (--once)
    Poll,           \* GET requests that find a job to finalize; each is named
                    \* after the analysis it would build
    MaxReceive,     \* the queue's maxReceiveCount
    MaxCrashes,     \* bound of the worker tasks that die
    MaxRestarts,    \* bound of the API's restarts
    MaxTime,        \* bound of the clock
    Duplicates,     \* whether SQS delivers a message while its receiver lives
    DeletesFail     \* whether the deletions whose errors are swallowed fail

ASSUME AwsExecutionAssumption ==
    /\ Poll \subseteq Analysis
    /\ MaxReceive \in Nat \ {0}
    /\ MaxCrashes \in Nat
    /\ MaxRestarts \in Nat
    /\ MaxTime \in Nat
    /\ Duplicates \in BOOLEAN
    /\ DeletesFail \in BOOLEAN

VARIABLES
    msg,            \* the queue message of each job, and how often it was received
    objects,        \* the objects in S3 under each job's prefix: reports, "material"
    launch,         \* what the POST that created the job does next
    removal,        \* what a DELETE of the job does next
    worker,         \* each worker task
    poll,           \* each finalizing GET
    analyses,       \* the analyses in the API's memory
    restarts        \* API restarts so far

vars == <<jobs, issued, now, msg, objects, launch, removal, worker, poll, analyses, restarts>>
api == <<launch, removal, poll, analyses, restarts>>
aws == <<msg, objects>>

Reports == {"baseline", "comparison"}

\* Steps of a worker, by what it does next.
Driving == {"validate", "check_targets", "start_baseline", "baseline", "start_comparison",
            "comparison", "start_analysis", "put_baseline", "put_comparison", "mark_ready"}
Handling == Driving \cup
    {"get", "fail_lost", "release_lost", "material", "no_material", "claim", "fail", "release",
     "cleanup", "final_get", "delete_objects", "acknowledge", "discard", "discard_objects"}

Idle == [pc |-> "idle", id |-> NoJob, claimed |-> FALSE]
NoPoll == [pc |-> "idle", id |-> NoJob, claimed |-> FALSE, clock |-> 0]

Init ==
    /\ StoreInit
    /\ msg = [id \in JobId |-> [at |-> "none", receives |-> 0]]
    /\ objects = [id \in JobId |-> {}]
    /\ launch = [id \in JobId |-> "none"]
    /\ removal = [id \in JobId |-> "none"]
    /\ worker = [w \in Worker |-> Idle]
    /\ poll = [p \in Poll |-> NoPoll]
    /\ analyses = {}
    /\ restarts = 0

-----------------------------------------------------------------------------
(* Calls of the store. *)

Failed == Write("failed", NoAnalysis)

\* fail_job: an active job is FAILED, whatever a worker is doing with it.
FailJob(id) == Call(id, Failed, now)

-----------------------------------------------------------------------------
(* POST: create the job, charge for it, store its material, enqueue it.  An *)
(* error between two steps ends the request where it is.                   *)

LaunchGoes(id, step) ==
    /\ launch' = [launch EXCEPT ![id] = step]
    /\ UNCHANGED <<removal, worker, poll, analyses, restarts>>

Create(id) ==
    /\ launch[id] = "none"
    /\ \E o \in Owner : Insert(id, o, NoKey, now)
    /\ LaunchGoes(id, "charge")
    /\ UNCHANGED aws

\* consume_use; the job is deleted when the owner has no use left.
Charge(id) ==
    /\ launch[id] = "charge"
    /\ \/ LaunchGoes(id, "history") /\ UNCHANGED storeVars
       \/ LaunchGoes(id, "done") /\ IF id \in Stored THEN Delete(id) ELSE UNCHANGED storeVars
    /\ UNCHANGED aws

\* create_history, for a paid plan; nothing is undone when it raises.
SaveHistory(id) ==
    /\ launch[id] = "history"
    /\ LaunchGoes(id, "put") \/ LaunchGoes(id, "done")
    /\ UNCHANGED <<storeVars, aws>>

\* QueueJobLauncher.launch.  A call that raises may have taken effect.
PutMaterial(id) ==
    /\ launch[id] = "put"
    /\ \/ LaunchGoes(id, "enqueue") /\ objects' = [objects EXCEPT ![id] = @ \cup {"material"}]
       \/ LaunchGoes(id, "fail") /\ objects' \in {objects, [objects EXCEPT ![id] = @ \cup {"material"}]}
    /\ UNCHANGED <<storeVars, msg>>

Enqueue(id) ==
    LET sent == [msg EXCEPT ![id].at = "queue"] IN
    /\ launch[id] = "enqueue"
    /\ \/ LaunchGoes(id, "done") /\ msg' = sent
       \/ LaunchGoes(id, "fail") /\ msg' \in {msg, sent}
    /\ UNCHANGED <<storeVars, objects>>

FailLaunch(id) ==
    /\ launch[id] = "fail"
    /\ FailJob(id)
    /\ LaunchGoes(id, "drop_material")
    /\ UNCHANGED aws

\* Objects of the job after a deletion whose error would be swallowed.
BestEffort(id, left) ==
    \/ objects' = [objects EXCEPT ![id] = left]
    \/ DeletesFail /\ objects' = objects

DropMaterial(id) ==
    /\ launch[id] = "drop_material"
    /\ BestEffort(id, objects[id] \ {"material"})
    /\ LaunchGoes(id, "done")
    /\ UNCHANGED <<storeVars, msg>>

-----------------------------------------------------------------------------
(* The queue and the worker tasks. *)

\* A task that ended remembers nothing.
WorkerGoes(w, step) ==
    /\ worker' = [worker EXCEPT ![w] =
                    [(IF step \in {"done", "dead"} THEN Idle ELSE @) EXCEPT !.pc = step]]
    /\ UNCHANGED api

LiveOn(id) == {w \in Worker : worker[w].id = id /\ worker[w].pc \in Handling}

Receivable(id) == msg[id].at = "queue" /\ msg[id].receives < MaxReceive

Receive(w, id) ==
    /\ worker[w].pc = "idle"
    /\ Receivable(id)
    /\ msg' = [msg EXCEPT ![id] = [at |-> "flight", receives |-> @.receives + 1]]
    /\ worker' = [worker EXCEPT ![w] = [Idle EXCEPT !.pc = "get", !.id = id]]
    /\ UNCHANGED <<storeVars, objects, api>>

\* The visibility timeout is longer than a worker takes, so it passes only
\* once the receiver is dead; but the queue delivers at least once.
Reappear(id) ==
    /\ msg[id].at = "flight"
    /\ Duplicates \/ LiveOn(id) = {}
    /\ msg' = [msg EXCEPT ![id].at = "queue"]
    /\ UNCHANGED <<storeVars, objects, worker, api>>

DeadLetter(id) ==
    /\ msg[id].at = "queue"
    /\ msg[id].receives = MaxReceive
    /\ msg' = [msg EXCEPT ![id].at = "dead_letter"]
    /\ UNCHANGED <<storeVars, objects, worker, api>>

\* A message the dead-letter queue holds no longer has that receipt.
DeleteMessage(id) ==
    msg' = IF msg[id].at = "dead_letter" THEN msg ELSE [msg EXCEPT ![id].at = "deleted"]

\* What _handle does with the job it got.
AfterGet(job) ==
    CASE job.state = "queued" -> "material"
      [] job.state # "queued" /\ IsActive(job) /\ ~job.reports_ready -> "fail_lost"
      [] job.state # "queued" /\ job.reports_ready -> "acknowledge"
      [] OTHER -> "discard"

GetJob(w) ==
    LET id == worker[w].id IN
    /\ worker[w].pc = "get"
    /\ Get(id)
    /\ WorkerGoes(w, IF Live(id) THEN AfterGet(jobs[id]) ELSE "discard")
    /\ UNCHANGED aws

FailLost(w) ==
    /\ worker[w].pc = "fail_lost"
    /\ FailJob(worker[w].id)
    /\ WorkerGoes(w, "release_lost")
    /\ UNCHANGED aws

ReleaseLost(w) ==
    /\ worker[w].pc = "release_lost"
    /\ Call(worker[w].id, [kind |-> "release"], now)
    /\ WorkerGoes(w, "discard")
    /\ UNCHANGED aws

\* _discard: first the message, then the objects.
Discard(w) ==
    /\ worker[w].pc = "discard"
    /\ DeleteMessage(worker[w].id)
    /\ WorkerGoes(w, "discard_objects")
    /\ UNCHANGED <<storeVars, objects>>

DiscardObjects(w) ==
    /\ worker[w].pc = "discard_objects"
    /\ objects' = [objects EXCEPT ![worker[w].id] = {}]
    /\ WorkerGoes(w, "done")
    /\ UNCHANGED <<storeVars, msg>>

GetMaterial(w) ==
    /\ worker[w].pc = "material"
    /\ WorkerGoes(w, IF "material" \in objects[worker[w].id] THEN "claim" ELSE "no_material")
    /\ UNCHANGED <<storeVars, aws>>

FailNoMaterial(w) ==
    /\ worker[w].pc = "no_material"
    /\ FailJob(worker[w].id)
    /\ WorkerGoes(w, "discard")
    /\ UNCHANGED aws

-----------------------------------------------------------------------------
(* run_job: the claim, the stages, the hand-off of the reports.            *)

\* The closure of run_job's claim sets its flag on the job it is shown.
Claims(id) == Live(id) /\ Claimable(jobs[id])

\* An attempt of the claim's mutate that DynamoDB refuses: the flag stays set.
ClaimConflicts(w) ==
    /\ worker[w].pc = "claim"
    /\ ~worker[w].claimed
    /\ Claims(worker[w].id)
    /\ worker' = [worker EXCEPT ![w].claimed = TRUE]
    /\ UNCHANGED <<storeVars, aws, api>>

ClaimJob(w) ==
    LET claimed == worker[w].claimed \/ Claims(worker[w].id) IN
    /\ worker[w].pc = "claim"
    /\ Call(worker[w].id, [kind |-> "claim"], now)
    /\ worker' = [worker EXCEPT ![w].claimed = FALSE,
                                ![w].pc = IF claimed THEN "validate" ELSE "cleanup"]
    /\ UNCHANGED <<aws, api>>

\* Fault: a run that is stopped ends without the finally block.
Stage_NoFinally(w, from, state, to) ==
    LET id == worker[w].id IN
    /\ worker[w].pc = from
    /\ Call(id, Write(state, NoAnalysis), now)
    /\ WorkerGoes(w, IF Live(id) /\ Wrote(jobs[id]) THEN to ELSE "cleanup")
    /\ UNCHANGED aws

\* A write of a stage; the run stops when it does not take effect.
Stage(w, from, state, to) ==
    LET id == worker[w].id IN
    /\ worker[w].pc = from
    /\ Call(id, Write(state, NoAnalysis), now)
    /\ WorkerGoes(w, IF Live(id) /\ Wrote(jobs[id]) THEN to ELSE "release")
    /\ UNCHANGED aws

EnterStage(w) ==
    \/ Stage(w, "validate", "validating", "check_targets")
    \/ Stage(w, "start_baseline", "running_baseline", "baseline")
    \/ Stage(w, "start_comparison", "running_comparison", "comparison")
    \/ Stage(w, "start_analysis", "analyzing", "put_baseline")

\* The targets are valid; a Newman run ends with a usable report.
Following == [check_targets |-> "start_baseline", baseline |-> "start_comparison",
              comparison |-> "start_analysis"]

Succeed(w) ==
    /\ worker[w].pc \in DOMAIN Following
    /\ WorkerGoes(w, Following[worker[w].pc])
    /\ UNCHANGED <<storeVars, aws>>

\* _hand_off.
PutReport(w) ==
    LET id == worker[w].id IN
    /\ \/ /\ worker[w].pc = "put_baseline"
          /\ objects' = [objects EXCEPT ![id] = @ \cup {"baseline"}]
          /\ WorkerGoes(w, "put_comparison")
       \/ /\ worker[w].pc = "put_comparison"
          /\ objects' = [objects EXCEPT ![id] = @ \cup {"comparison"}]
          /\ WorkerGoes(w, "mark_ready")
    /\ UNCHANGED <<storeVars, msg>>

MarkReady(w) ==
    /\ worker[w].pc = "mark_ready"
    /\ Call(worker[w].id, [kind |-> "reports"], now)
    /\ WorkerGoes(w, "release")
    /\ UNCHANGED aws

\* A blocked target, a run that is cancelled, times out or leaves no usable
\* report, or any exception on the way: the job is FAILED.
Abandon(w) ==
    /\ worker[w].pc \in Driving
    /\ WorkerGoes(w, "fail")
    /\ UNCHANGED <<storeVars, aws>>

\* Fault: an exception ends the run without a state.
FailRun_Silent(w) ==
    /\ worker[w].pc = "fail"
    /\ WorkerGoes(w, "release")
    /\ UNCHANGED <<storeVars, aws>>

FailRun(w) ==
    /\ worker[w].pc = "fail"
    /\ FailJob(worker[w].id)
    /\ WorkerGoes(w, "release")
    /\ UNCHANGED aws

ReleaseJob(w) ==
    /\ worker[w].pc = "release"
    /\ Call(worker[w].id, [kind |-> "release"], now)
    /\ WorkerGoes(w, "cleanup")
    /\ UNCHANGED aws

\* Fault: the material of a job that was handed over is forgotten.
Cleanup_Forgets(w) ==
    /\ worker[w].pc = "cleanup"
    /\ WorkerGoes(w, "final_get")
    /\ UNCHANGED <<storeVars, aws>>

\* _handle after run_job.
Cleanup(w) ==
    LET id == worker[w].id IN
    /\ worker[w].pc = "cleanup"
    /\ objects' = [objects EXCEPT ![id] = @ \ {"material"}]
    /\ WorkerGoes(w, "final_get")
    /\ UNCHANGED <<storeVars, msg>>

\* Fault: the reports are not looked at.
Keeps_Nothing(id) == FALSE

\* The API still needs the objects.
Keeps(id) == Live(id) /\ jobs[id].reports_ready

FinalGet(w) ==
    LET id == worker[w].id IN
    /\ worker[w].pc = "final_get"
    /\ Get(id)
    /\ WorkerGoes(w, IF Keeps(id) THEN "acknowledge" ELSE "delete_objects")
    /\ UNCHANGED aws

DeleteObjects(w) ==
    /\ worker[w].pc = "delete_objects"
    /\ objects' = [objects EXCEPT ![worker[w].id] = {}]
    /\ WorkerGoes(w, "acknowledge")
    /\ UNCHANGED <<storeVars, msg>>

Acknowledge(w) ==
    /\ worker[w].pc = "acknowledge"
    /\ DeleteMessage(worker[w].id)
    /\ WorkerGoes(w, "done")
    /\ UNCHANGED <<storeVars, objects>>

\* The task dies, or an exception leaves _handle and ends it.
Crash(w) ==
    /\ worker[w].pc \in Handling
    /\ Cardinality({v \in Worker : worker[v].pc = "dead"}) < MaxCrashes
    /\ WorkerGoes(w, "dead")
    /\ UNCHANGED <<storeVars, aws>>

-----------------------------------------------------------------------------
(* finalize_job, run by a GET of the job.                                  *)

\* The flag and the clock serve only the claim; a request that ended remembers
\* nothing.
PollGoes(p, step) ==
    /\ poll' = [poll EXCEPT ![p] =
                    [NoPoll EXCEPT !.pc = step,
                                   !.id = IF step \in {"idle", "done"} THEN NoJob ELSE poll[p].id]]
    /\ UNCHANGED <<launch, removal, worker, restarts>>

StartPoll(p, id) ==
    /\ poll[p].pc = "idle"
    /\ Live(id) /\ NeedsFinalizing(jobs[id])
    /\ poll' = [poll EXCEPT ![p] = [NoPoll EXCEPT !.pc = "claim", !.id = id, !.clock = now]]
    /\ UNCHANGED <<storeVars, aws, launch, removal, worker, analyses, restarts>>

Finalizes(p) == Live(poll[p].id) /\ FinalizeClaimable(jobs[poll[p].id], poll[p].clock)

\* As ClaimConflicts, for the finalizer's claim.
PollConflicts(p) ==
    /\ poll[p].pc = "claim"
    /\ ~poll[p].claimed
    /\ Finalizes(p)
    /\ poll' = [poll EXCEPT ![p].claimed = TRUE]
    /\ UNCHANGED <<storeVars, aws, launch, removal, worker, analyses, restarts>>

ClaimFinalize(p) ==
    LET granted == Live(poll[p].id) /\ (poll[p].claimed \/ Finalizes(p)) IN
    /\ poll[p].pc = "claim"
    /\ Call(poll[p].id, [kind |-> "finalize"], poll[p].clock)
    /\ PollGoes(p, IF granted THEN "baseline" ELSE "idle")
    /\ UNCHANGED <<aws, analyses>>

\* The reports are read one after the other.
ReadReport(p) ==
    /\ poll[p].pc \in Reports
    /\ PollGoes(p, CASE poll[p].pc \notin objects[poll[p].id] -> "fail"
                     [] poll[p].pc = "baseline" /\ "baseline" \in objects[poll[p].id] -> "comparison"
                     [] OTHER -> "build")
    /\ UNCHANGED <<storeVars, aws, analyses>>

\* Fault: READY is written before the analysis is stored.
BuildAnalysis_NotStored(p) ==
    /\ poll[p].pc = "build"
    /\ PollGoes(p, "ready") \/ PollGoes(p, "fail")
    /\ UNCHANGED <<storeVars, aws, analyses>>

\* build_analysis and the insertion in the session store, or an exception.
BuildAnalysis(p) ==
    /\ poll[p].pc = "build"
    /\ \/ PollGoes(p, "ready") /\ analyses' = analyses \cup {p}
       \/ PollGoes(p, "fail") /\ UNCHANGED analyses
    /\ UNCHANGED <<storeVars, aws>>

WriteReady(p) ==
    /\ poll[p].pc = "ready"
    /\ Call(poll[p].id, Write("ready", p), now)
    /\ PollGoes(p, "delete_objects")
    /\ UNCHANGED <<aws, analyses>>

FailAnalysis(p) ==
    /\ poll[p].pc = "fail"
    /\ FailJob(poll[p].id)
    /\ PollGoes(p, "delete_objects")
    /\ UNCHANGED <<aws, analyses>>

DeleteReports(p) ==
    /\ poll[p].pc = "delete_objects"
    /\ BestEffort(poll[p].id, {})
    /\ PollGoes(p, "done")
    /\ UNCHANGED <<storeVars, msg, analyses>>

-----------------------------------------------------------------------------
(* DELETE: cancels an active job, removes a terminal one.                  *)

RemovalGoes(id, step) ==
    /\ removal' = [removal EXCEPT ![id] = step]
    /\ UNCHANGED <<launch, worker, poll, analyses, restarts>>

\* Fault: a terminal job is removed though its worker is live.
Removable_Driven(job) == ~IsActive(job)

Removable(job) == ~IsActive(job) /\ ~job.worker_active

RequestDelete(id) ==
    /\ removal[id] = "none"
    /\ Live(id)
    /\ Call(id, [kind |-> "cancel"], now)
    /\ RemovalGoes(id, IF Removable(jobs[id]) THEN "delete_job" ELSE "none")
    /\ UNCHANGED aws

RemoveJob(id) ==
    /\ removal[id] = "delete_job"
    /\ IF id \in Stored THEN Delete(id) ELSE UNCHANGED storeVars
    /\ RemovalGoes(id, "delete_objects")
    /\ UNCHANGED aws

RemoveObjects(id) ==
    /\ removal[id] = "delete_objects"
    /\ objects' = [objects EXCEPT ![id] = {}]
    /\ RemovalGoes(id, "none")
    /\ UNCHANGED <<storeVars, msg>>

-----------------------------------------------------------------------------
(* The environment. *)

\* The API task dies and another one starts: its requests and its analyses are
\* lost; the name of one that no job names is free again.  Only while the clock
\* still advances, so that a claim it leaves behind can become stale within the
\* bound.
Restart ==
    /\ restarts < MaxRestarts
    /\ now < MaxTime
    /\ restarts' = restarts + 1
    /\ analyses' = {}
    /\ launch' = [id \in JobId |-> IF launch[id] = "none" THEN "none" ELSE "done"]
    /\ removal' = [id \in JobId |-> "none"]
    /\ poll' = [p \in Poll |->
                    IF \E id \in Stored : jobs[id].analysis_id = p
                    THEN [NoPoll EXCEPT !.pc = "done"] ELSE NoPoll]
    /\ UNCHANGED <<storeVars, aws, worker>>

Advance ==
    /\ now < MaxTime
    /\ Tick
    /\ UNCHANGED <<aws, worker, api>>

\* Any other call of the store drops expired jobs.
Evict == Drop /\ UNCHANGED <<aws, worker, api>>

\* DynamoDB deletes the item a day after its expiry, whoever drives the job;
\* no worker lives that long.
ExpireItem(id) ==
    /\ id \in Stored
    /\ jobs[id].created_at + Ttl < now
    /\ LiveOn(id) = {}
    /\ Delete(id)
    /\ UNCHANGED <<aws, worker, api>>

-----------------------------------------------------------------------------
LaunchStep(id) ==
    \/ Charge(id) \/ SaveHistory(id) \/ PutMaterial(id) \/ Enqueue(id)
    \/ FailLaunch(id) \/ DropMaterial(id)

WorkerStep(w) ==
    \/ GetJob(w) \/ FailLost(w) \/ ReleaseLost(w) \/ Discard(w) \/ DiscardObjects(w)
    \/ GetMaterial(w) \/ FailNoMaterial(w) \/ ClaimJob(w) \/ EnterStage(w) \/ Succeed(w)
    \/ PutReport(w) \/ MarkReady(w) \/ Abandon(w) \/ FailRun(w) \/ ReleaseJob(w)
    \/ Cleanup(w) \/ FinalGet(w) \/ DeleteObjects(w) \/ Acknowledge(w)

PollStep(p) ==
    \/ ClaimFinalize(p) \/ ReadReport(p) \/ BuildAnalysis(p) \/ WriteReady(p)
    \/ FailAnalysis(p) \/ DeleteReports(p)

RemovalStep(id) == RemoveJob(id) \/ RemoveObjects(id)

Next ==
    \/ \E id \in JobId :
        Create(id) \/ LaunchStep(id) \/ Reappear(id) \/ DeadLetter(id)
            \/ RequestDelete(id) \/ RemovalStep(id) \/ ExpireItem(id)
    \/ \E w \in Worker, id \in JobId : Receive(w, id)
    \/ \E w \in Worker : WorkerStep(w) \/ ClaimConflicts(w) \/ Crash(w)
    \/ \E p \in Poll, id \in JobId : StartPoll(p, id)
    \/ \E p \in Poll : PollStep(p) \/ PollConflicts(p)
    \/ Restart \/ Advance \/ Evict

Spec == Init /\ [][Next]_vars

\* Requests and tasks that run keep running; the queue delivers, and a message
\* comes back when its visibility timeout passes; the owner's browser keeps
\* polling; time passes.
Fairness ==
    /\ \A id \in JobId :
        /\ WF_vars(LaunchStep(id))
        /\ WF_vars(RemovalStep(id))
        /\ WF_vars(\E w \in Worker : Receive(w, id))
        /\ WF_vars(Reappear(id))
        /\ WF_vars(\E p \in Poll : StartPoll(p, id))
    /\ \A w \in Worker : WF_vars(WorkerStep(w))
    /\ \A p \in Poll : WF_vars(PollStep(p))
    /\ WF_vars(Advance)

FairSpec == Spec /\ Fairness

-----------------------------------------------------------------------------
(* Properties. *)

Phase(id) ==
    CASE id \notin issued -> "none"
      [] id \in issued \ Stored -> "gone"
      [] OTHER -> jobs[id].state

\* The life of one job as its owner may observe it.
Life(id) ==
    INSTANCE JobLifecycle WITH
        phase <- Phase(id),
        driven <- id \in Stored /\ jobs[id].worker_active /\ LiveOn(id) # {},
        result <- IF id \in Stored THEN jobs[id].analysis_id ELSE NoAnalysis

\* Every job lives as JobLifecycle says, whatever the interleaving of launcher,
\* worker, finalizer and DELETE, and through crashes and restarts: the stages
\* come in order and are entered by the worker that holds the job, a terminal
\* state is final, a removed job never comes back.
ImplementsLifecycle ==
    /\ \A id \in JobId : Life(id)!Init
    /\ [][\A id \in JobId : Life(id)!Next \/ UNCHANGED Life(id)!vars]_vars

\* A Newman run of the worker is going.
Runs(w) == worker[w].pc \in {"baseline", "comparison"}

\* Every Newman run that is going belongs to a stored job that its worker holds,
\* and no job has two: with the cap on the jobs that count, no owner has more
\* runs going than jobs allowed at once, even when it cancels a job that is
\* running and submits another, or when a worker dies.
RunsAreCounted ==
    /\ \A w \in Worker :
        Runs(w) => worker[w].id \in Stored /\ jobs[worker[w].id].worker_active
    /\ \A w, v \in Worker : Runs(w) /\ Runs(v) /\ w # v => worker[w].id # worker[v].id

\* The analysis a ready job names is in the API's memory: finalize_job stores
\* it before it writes READY, and of two requests that build one, the one the
\* job names is there.  Holds as long as the API does not restart.
ReadyHasAnalysis ==
    \A id \in Stored : jobs[id].state = "ready" => jobs[id].analysis_id \in analyses

\* Until a request claims the finalization, both reports are there for it,
\* whatever workers, deletions and launch failures do with the job's objects.
ReportsKeptForFinalizer ==
    \A id \in Stored :
        NeedsFinalizing(jobs[id]) /\ jobs[id].finalizing_since = Never => Reports \subseteq objects[id]

NoneDied == \A w \in Worker : worker[w].pc # "dead"

\* The material, which holds the owner's values, has somebody left to delete
\* it, as long as no worker died: the launcher, or a worker that has or will
\* get the message.
MaterialHasOwner ==
    NoneDied =>
        \A id \in JobId :
            "material" \in objects[id] =>
                \/ launch[id] \in {"enqueue", "fail", "drop_material"}
                \/ msg[id].at \in {"queue", "flight"}
                \/ \E w \in LiveOn(id) : worker[w].pc = "discard_objects"

\* A message is deleted only once its job is settled: gone, terminal, or handed
\* over with both reports (worker.py:12: a job whose worker died is failed).
AcknowledgedJobsSettled ==
    \A id \in Stored :
        msg[id].at = "deleted" => ~IsActive(jobs[id]) \/ jobs[id].reports_ready

\* The same, as long as no worker died: every way a run can end, through
\* cancellations, expiry and failures, leaves its job settled.
LiveWorkersSettle == NoneDied => AcknowledgedJobsSettled

\* execution_job_service.py:377: only a QUEUED job that no other worker is
\* driving may start.
OneDriver ==
    \A w, v \in Worker :
        /\ worker[w].pc \in Driving \ {"validate"}
        /\ worker[v].pc \in Driving \ {"validate"}
        /\ w # v
        => worker[w].id # worker[v].id

Settled(id) == id \in Stored => ~IsActive(jobs[id])

\* A job that was started is settled in the end, though its worker or the API
\* dies, as long as its owner polls it.
StartedJobsSettle ==
    \A id \in JobId :
        id \in Stored /\ jobs[id].state \notin {"queued"} ~> Settled(id)

\* A job whose message was sent is settled and its owner's slot is free in the
\* end, unless a worker dies.
EnqueuedJobsSettle ==
    \A id \in JobId :
        msg[id].at = "queue" ~>
            (Settled(id) /\ (id \in Stored => ~jobs[id].worker_active)) \/ ~NoneDied
=============================================================================
