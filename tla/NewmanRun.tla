----------------------------- MODULE NewmanRun -----------------------------
(***************************************************************************)
(* One Newman run as a short-lived Fargate task: EcsTaskNewmanRunner in    *)
(* the worker supervises a runner task (docker/newman-runner/run.mjs) that *)
(* gets its input and puts its report through presigned URLs.              *)
(*                                                                         *)
(* Time passes while a task is being started and between two looks at it.  *)
(* The worker's other steps take no time; the task's may take any time.    *)
(***************************************************************************)
EXTENDS Integers

CONSTANTS
    StartTime,      \* the longest a run_task call takes
    Timeout,        \* timeout_seconds + newman_start_grace_seconds
    Validity,       \* timeout_seconds + presign_grace_seconds
    Lapse,          \* how long the world is followed after the run
    Failures        \* whether calls of ECS and S3 raise, or miss a new task

\* presign_grace_seconds is well above newman_start_grace_seconds: the URLs
\* outlive the call that starts the task and the deadline.
ASSUME NewmanRunAssumption ==
    /\ StartTime \in Nat /\ Timeout \in Nat /\ Lapse \in Nat
    /\ Validity \in Nat /\ Validity >= StartTime + Timeout
    /\ Failures \in BOOLEAN

VARIABLES
    pc,             \* what the worker does next
    seen,           \* how the task ended, as far as the worker has seen
    outcome,        \* the RunOutcome
    cancelled,      \* should_cancel would answer True
    now,
    deadline,
    task,           \* what the runner task does next
    exit,           \* how it ended, by meaning: "complete" (0 and 1), "input" (70), "upload"
                    \* (71), "too_large" (72), "killed" (137, OutOfMemory), "other" or none,
                    \* "not_started" (stop code TaskFailedToStart)
    made,           \* the report file of Newman in the task, as a File
    stop,           \* whether stop_task was called, and whether it raised
    input,          \* the run's input is in S3
    report          \* the report in S3, as a File

worker == <<pc, seen, outcome, deadline>>
runner == <<task, exit, made>>
vars == <<worker, cancelled, now, runner, stop, input, report>>

File == {"none", "empty", "malformed", "large", "good"}

Init ==
    /\ pc = "put" /\ seen = "none" /\ outcome = "none" /\ deadline = 0
    /\ cancelled = FALSE /\ now = 0
    /\ task = "none" /\ exit = "none" /\ made = "none"
    /\ stop = "no" /\ input = FALSE /\ report = "none"

-----------------------------------------------------------------------------
(* The worker. *)

Goto(step) == pc' = step /\ UNCHANGED <<seen, outcome, deadline>>

\* return, or an exception on its way out: the finally block comes next.
Finish(code) == pc' = "delete_input" /\ outcome' = code /\ UNCHANGED <<seen, deadline>>

Raises == Failures /\ Finish("exception")

\* A folder that is not in the collection, or there more than once, ends the run
\* before the try block.
RejectFolder ==
    /\ pc = "put"
    /\ pc' = "done" /\ outcome' = "invalid_folder" /\ UNCHANGED <<seen, deadline>>
    /\ UNCHANGED <<cancelled, now, runner, stop, input, report>>

\* The input is stored and both URLs are signed.
PutInput ==
    /\ pc = "put"
    /\ \/ input' = TRUE /\ Goto("start")
       \/ input' \in BOOLEAN /\ Raises
    /\ UNCHANGED <<cancelled, now, runner, stop, report>>

\* run_task.  A call that raises may have started the task.
StartTask ==
    LET started == task' = "provisioning" /\ UNCHANGED <<exit, made>> IN
    /\ pc = "start"
    /\ now' \in now .. now + StartTime
    /\ \/ started /\ pc' = "status" /\ deadline' = now' + Timeout /\ UNCHANGED <<seen, outcome>>
       \/ Finish("runner_unavailable") /\ (UNCHANGED runner \/ (Failures /\ started))
    /\ UNCHANGED <<cancelled, stop, input, report>>

\* _outcome, for a task that did not complete.
OutcomeOf(e) ==
    CASE e \in {"not_started", "input", "upload"} -> "runner_unavailable"
      [] e = "killed" -> "resource_limit"
      [] e = "too_large" -> "report_too_large"
      [] OTHER -> "process_failed"

Conclude(e) ==
    /\ seen' = e
    /\ IF e = "complete"
       THEN pc' = "read_report" /\ UNCHANGED <<outcome, deadline>>
       ELSE pc' = "delete_input" /\ outcome' = OutcomeOf(e) /\ UNCHANGED deadline

\* describe_tasks; a task it does not list counts as one that never started.
Status ==
    /\ pc = "status"
    /\ \/ task = "ended" /\ Conclude(exit)
       \/ task # "ended" /\ Goto("cancel")
       \/ Failures /\ Conclude("not_started")
       \/ Raises
    /\ UNCHANGED <<cancelled, now, runner, stop, input, report>>

\* Fault: the task is not stopped when its time is up.
Stop_OnCancel(code) == stop' = (IF code = "cancelled" THEN "asked" ELSE "no") /\ Finish(code)

\* Fault: the worker waits until the task has ended.
Stop_Waits(code) == task = "ended" /\ stop' = "asked" /\ Finish(code)

\* stop_task and the end of the run.  An error of stop_task is swallowed.
Stop(code) ==
    /\ stop' = "asked" \/ (Failures /\ stop' = "raised")
    /\ Finish(code)

CheckCancel ==
    /\ pc = "cancel"
    /\ \/ cancelled /\ Stop("cancelled")
       \/ ~cancelled /\ Goto("deadline") /\ UNCHANGED stop
       \/ Raises /\ UNCHANGED stop
    /\ UNCHANGED <<cancelled, now, runner, input, report>>

\* Fault: only a task that has begun its run can time out.
Overdue_Running == now >= deadline /\ task \notin {"provisioning", "get_input"}

Overdue == now >= deadline

CheckDeadline ==
    /\ pc = "deadline"
    /\ IF Overdue THEN Stop("timeout") ELSE Goto("sleep") /\ UNCHANGED stop
    /\ UNCHANGED <<cancelled, now, runner, input, report>>

Sleep ==
    /\ pc = "sleep"
    /\ now' = now + 1
    /\ Goto("status")
    /\ UNCHANGED <<cancelled, runner, stop, input, report>>

\* Fault: what Newman wrote is not looked at.
Validated_Unread == "success"

\* get_bytes and validate_report_bytes.
Validated ==
    CASE report \in {"none", "empty"} -> "missing_report"
      [] report = "malformed" -> "malformed_report"
      [] report = "large" -> "report_too_large"
      [] report = "good" -> "success"

ReadReport ==
    /\ pc = "read_report"
    /\ Finish(Validated) \/ Raises
    /\ UNCHANGED <<cancelled, now, runner, stop, input, report>>

\* The finally block; errors of the deletions are swallowed.
DeleteInput ==
    /\ pc = "delete_input"
    /\ input' \in {FALSE, input /\ Failures}
    /\ Goto("delete_report")
    /\ UNCHANGED <<cancelled, now, runner, stop, report>>

DeleteReport ==
    /\ pc = "delete_report"
    /\ report' \in {"none", IF Failures THEN report ELSE "none"}
    /\ Goto("done")
    /\ UNCHANGED <<cancelled, now, runner, stop, input>>

-----------------------------------------------------------------------------
(* The runner task. *)

Ends(how) == task' = "ended" /\ exit' = how

\* Fault: the presigned URLs expire with the run's own timeout.
Expired_NoGrace == now >= Timeout

Expired == now > Validity

Provision ==
    /\ task = "provisioning"
    /\ \/ task' = "get_input" /\ UNCHANGED exit
       \/ Ends("not_started")
    /\ UNCHANGED <<worker, cancelled, now, made, stop, input, report>>

GetInput ==
    /\ task = "get_input"
    /\ \/ input /\ ~Expired /\ task' = "newman" /\ UNCHANGED exit
       \/ (~input \/ Expired \/ Failures) /\ Ends("input")
    /\ UNCHANGED <<worker, cancelled, now, made, stop, input, report>>

\* Newman exits, perhaps of the SIGTERM a stop sends it, and leaves a report or
\* none; or its process cannot be spawned.
RunNewman ==
    /\ task = "newman"
    /\ \/ \E f \in File, code \in {"complete", "other"} :
            /\ made' = f
            /\ CASE f = "none" -> Ends(code)
                 [] f = "large" -> Ends("too_large")
                 [] OTHER -> task' = "upload" /\ exit' = code
       \/ Ends("input") /\ UNCHANGED made
    /\ UNCHANGED <<worker, cancelled, now, stop, input, report>>

Upload ==
    /\ task = "upload"
    /\ \/ ~Expired /\ report' = made /\ Ends(exit)
       \/ (Expired \/ Failures) /\ report' \in {report, made} /\ Ends("upload")
    /\ UNCHANGED <<worker, cancelled, now, made, stop, input>>

\* Out of memory, or killed 30 seconds after a stop, or never to start.
Kill ==
    /\ task \notin {"none", "ended"}
    /\ \/ task \notin {"provisioning"} /\ Ends("killed")
       \/ stop = "asked" /\ Ends("other")
    /\ UNCHANGED <<worker, cancelled, now, made, stop, input, report>>

-----------------------------------------------------------------------------
\* The job is cancelled, deleted or expires.
Cancel ==
    /\ ~cancelled
    /\ cancelled' = TRUE
    /\ UNCHANGED <<worker, now, runner, stop, input, report>>

\* Time goes on after the run.
Advance ==
    /\ pc = "done"
    /\ now < StartTime + Timeout + Lapse
    /\ now' = now + 1
    /\ UNCHANGED <<worker, cancelled, runner, stop, input, report>>

WorkerStep ==
    \/ RejectFolder \/ PutInput \/ StartTask \/ Status \/ CheckCancel \/ CheckDeadline \/ Sleep
    \/ ReadReport \/ DeleteInput \/ DeleteReport

TaskStep == Provision \/ GetInput \/ RunNewman \/ Upload \/ Kill

Next == WorkerStep \/ TaskStep \/ Cancel \/ Advance

Spec == Init /\ [][Next]_vars

\* The worker runs on.  The task need not: it may hang at any point.
FairSpec == Spec /\ WF_vars(WorkerStep)

-----------------------------------------------------------------------------
(* Properties. *)

Supervising == pc \in {"status", "cancel", "deadline", "sleep"}

\* A success is the good report of a task that ran to its end: not one of a
\* task that was stopped, and not one that failed to upload.
SuccessIsComplete ==
    outcome = "success" => exit = "complete" /\ made = "good" /\ stop = "no"

\* While it is supervised, a task can get its input and put its report: no
\* deletion and no expiry of a URL overtakes it, however slowly it starts.
SupervisedTaskIsServed ==
    Supervising => input /\ ~Expired

\* A run is over, or about to be, when its deadline comes, at whatever moment
\* the task hangs.
EndsByDeadline ==
    pc \notin {"put", "start", "done"} /\ 0 < deadline => now <= deadline

\* When the run is over its task has ended, or stop_task was called for it:
\* only a call of ECS that raises, or does not list the task, can keep the worker
\* from that.  The slot the job frees next is then not one of a task that runs on.
NoTaskLeftRunning ==
    pc = "done" /\ outcome \notin {"exception", "runner_unavailable"} =>
        task \in {"none", "ended"} \/ stop # "no"

\* The run returns, though the task hangs.
RunEnds == <>(pc = "done")
=============================================================================
