--------------------------- MODULE NewmanRunProofs ---------------------------
(***************************************************************************)
(* The safety of a Newman run on ECS, for any length of the start, the     *)
(* timeout and the validity of the URLs, and wherever calls fail or the    *)
(* task hangs: one inductive invariant, made of what holds in each phase   *)
(* of the run.                                                             *)
(***************************************************************************)
EXTENDS NewmanRun, TLAPS

Over == pc \in {"delete_input", "delete_report", "done"}

TypeOK ==
    /\ pc \in {"put", "start", "status", "cancel", "deadline", "sleep", "read_report",
               "delete_input", "delete_report", "done"}
    /\ outcome \in {"none", "success", "exception", "cancelled", "timeout", "runner_unavailable",
                    "resource_limit", "report_too_large", "process_failed", "missing_report",
                    "malformed_report", "invalid_folder"}
    /\ task \in {"none", "provisioning", "get_input", "newman", "upload", "ended"}
    /\ now \in Nat /\ deadline \in Nat /\ input \in BOOLEAN
    /\ made \in File /\ report \in File

\* No time has passed and there is no task yet.
BeforeRun ==
    pc \in {"put", "start"} =>
        /\ outcome = "none" /\ now = 0 /\ deadline = 0
        /\ task = "none" /\ stop = "no"
        /\ pc = "start" => input

\* The worker sleeps only before the deadline, which lies within the life of
\* the URLs.
DuringRun ==
    Supervising =>
        /\ outcome = "none" /\ stop = "no" /\ input
        /\ now <= deadline /\ deadline <= StartTime + Timeout
        /\ pc = "sleep" => now < deadline

\* Only a task seen to be complete has its report read.
ReadingReport ==
    pc = "read_report" =>
        /\ outcome = "none" /\ stop = "no"
        /\ task = "ended" /\ exit = "complete"
        /\ now <= deadline

AfterRun ==
    Over =>
        /\ outcome # "none"
        /\ pc # "done" /\ 0 < deadline => now <= deadline
        /\ outcome \notin {"exception", "runner_unavailable"} =>
            task \in {"none", "ended"} \/ stop # "no"

\* Until the run deletes it, the report in S3 is what a complete task made.
ReportIsMade ==
    /\ task # "ended" => report = "none"
    /\ task = "ended" /\ exit = "complete" /\ pc # "done" => report = made

SuccessEarned ==
    outcome = "success" =>
        task = "ended" /\ exit = "complete" /\ made = "good" /\ stop = "no"

Inv ==
    /\ TypeOK /\ BeforeRun /\ DuringRun /\ ReadingReport /\ AfterRun
    /\ ReportIsMade /\ SuccessEarned

LEMMA InitInv == Init => Inv
<1> SUFFICES ASSUME Init PROVE Inv
    OBVIOUS
<1>1. TypeOK
    BY DEF Init, TypeOK, File
<1>2. BeforeRun /\ DuringRun /\ ReadingReport /\ AfterRun
    BY DEF Init, BeforeRun, DuringRun, ReadingReport, AfterRun, Supervising, Over
<1>3. ReportIsMade /\ SuccessEarned
    BY DEF Init, ReportIsMade, SuccessEarned
<1> QED
    BY <1>1, <1>2, <1>3 DEF Inv

\* However long the call takes, and whether or not it started the task it
\* raised about.
LEMMA StartInv ==
    ASSUME Inv, StartTask
    PROVE  Inv'
<1>1. /\ now \in Nat /\ now = 0 /\ deadline = 0 /\ outcome = "none" /\ task = "none"
      /\ stop = "no" /\ input /\ report = "none" /\ made \in File
    BY DEF Inv, TypeOK, BeforeRun, ReportIsMade, StartTask
<1>2. /\ now' \in Nat /\ now' <= StartTime
      /\ UNCHANGED <<exit, made, stop, input, report>>
    BY <1>1, NewmanRunAssumption DEF StartTask, runner
<1>3. CASE pc' = "status" /\ deadline' = now' + Timeout /\ task' = "provisioning"
            /\ outcome' = outcome
    <2>0. deadline' \in Nat /\ now' <= deadline' /\ deadline' <= StartTime + Timeout
        <3>1. ASSUME NEW t \in Nat, t <= StartTime
              PROVE  t + Timeout \in Nat /\ t <= t + Timeout /\ t + Timeout <= StartTime + Timeout
            BY <3>1, NewmanRunAssumption
        <3> QED
            BY <1>2, <1>3, <3>1
    <2>1. TypeOK'
        BY <1>1, <1>2, <1>3, <2>0 DEF TypeOK, File
    <2>2. DuringRun'
        BY <1>1, <1>2, <1>3, <2>0 DEF DuringRun, Supervising
    <2>3. BeforeRun' /\ ReadingReport' /\ AfterRun' /\ ReportIsMade' /\ SuccessEarned'
        BY <1>1, <1>2, <1>3 DEF BeforeRun, ReadingReport, AfterRun, Over, ReportIsMade,
                                SuccessEarned
    <2> QED
        BY <2>1, <2>2, <2>3 DEF Inv
<1>4. CASE pc' = "delete_input" /\ deadline' = deadline /\ task' \in {"none", "provisioning"}
            /\ outcome' = "runner_unavailable"
    <2>1. TypeOK'
        BY <1>1, <1>2, <1>4 DEF TypeOK, File
    <2>2. /\ BeforeRun' /\ DuringRun' /\ ReadingReport' /\ AfterRun' /\ ReportIsMade'
          /\ SuccessEarned'
        BY <1>1, <1>2, <1>4 DEF BeforeRun, DuringRun, Supervising, ReadingReport, AfterRun, Over,
                                ReportIsMade, SuccessEarned
    <2> QED
        BY <2>1, <2>2 DEF Inv
<1> QED
    BY <1>1, <1>3, <1>4 DEF StartTask, Finish, runner

\* The worker's steps that leave the task and S3 alone, until the run is over.
LEMMA WorkerInv ==
    ASSUME Inv, Status \/ CheckCancel \/ CheckDeadline \/ Sleep \/ ReadReport
    PROVE  Inv'
<1> USE DEF Inv, TypeOK, BeforeRun, DuringRun, ReadingReport, AfterRun, ReportIsMade,
        SuccessEarned, Supervising, Over, File, worker, runner, Goto, Finish, Raises
<1>1. CASE Status
    BY <1>1 DEF Status, Conclude, OutcomeOf
<1>2. CASE CheckCancel
    BY <1>2 DEF CheckCancel, Stop
<1>3. CASE CheckDeadline
    BY <1>3 DEF CheckDeadline, Stop, Overdue
<1>4. CASE Sleep
    BY <1>4 DEF Sleep
<1>5. CASE ReadReport
    BY <1>5 DEF ReadReport, Validated
<1> QED
    BY <1>1, <1>2, <1>3, <1>4, <1>5

\* The steps that write to S3 or delete from it.
LEMMA StorageInv ==
    ASSUME Inv, PutInput \/ DeleteInput \/ DeleteReport
    PROVE  Inv'
<1> USE DEF Inv, TypeOK, BeforeRun, DuringRun, ReadingReport, AfterRun, ReportIsMade,
        SuccessEarned, Supervising, Over, File, worker, runner, Goto, Finish, Raises
<1>1. CASE PutInput
    <2>1. /\ pc = "put" /\ UNCHANGED <<deadline, now, task, exit, made, stop, report>>
          /\ input' \in BOOLEAN
        BY <1>1, Zenon DEF PutInput
    <2>2. CASE pc' = "start"
        <3>1. input' /\ UNCHANGED outcome
            BY <1>1, <2>2 DEF PutInput
        <3> QED
            BY <2>1, <2>2, <3>1
    <2>3. CASE pc' = "delete_input" /\ outcome' = "exception"
        BY <2>1, <2>3
    <2> QED
        BY <1>1, <2>2, <2>3 DEF PutInput
<1>2. CASE DeleteInput
    <2>1. /\ pc = "delete_input" /\ pc' = "delete_report"
          /\ UNCHANGED <<outcome, deadline, now, task, exit, made, stop, report>>
        BY <1>2 DEF DeleteInput
    <2>2. input' \in BOOLEAN
        BY <1>2, NewmanRunAssumption, Zenon DEF DeleteInput
    <2> QED
        BY <2>1, <2>2
<1>3. CASE DeleteReport
    BY <1>3 DEF DeleteReport
<1> QED
    BY <1>1, <1>2, <1>3

\* The task takes its steps in any phase but before the run.
LEMMA TaskInv ==
    ASSUME Inv, TaskStep
    PROVE  Inv'
<1> USE DEF Inv, TypeOK, BeforeRun, DuringRun, ReadingReport, AfterRun, ReportIsMade,
        SuccessEarned, Supervising, Over, File, worker, runner, Ends
<1>1. CASE Provision
    BY <1>1 DEF Provision
<1>2. CASE GetInput
    BY <1>2 DEF GetInput
<1>3. CASE RunNewman
    BY <1>3 DEF RunNewman
<1>4. CASE Upload
    BY <1>4 DEF Upload
<1>5. CASE Kill
    BY <1>5 DEF Kill
<1> QED
    BY <1>1, <1>2, <1>3, <1>4, <1>5 DEF TaskStep

LEMMA StepInv == Inv /\ [Next]_vars => Inv'
<1> SUFFICES ASSUME Inv, [Next]_vars PROVE Inv'
    OBVIOUS
<1>1. CASE Cancel \/ Advance \/ UNCHANGED vars
    BY <1>1 DEF Cancel, Advance, vars, worker, runner, Inv, TypeOK, BeforeRun, DuringRun,
                ReadingReport, AfterRun, ReportIsMade, SuccessEarned, Supervising, Over, File
<1>2. CASE RejectFolder
    BY <1>2 DEF RejectFolder, runner, Inv, TypeOK, BeforeRun, DuringRun, ReadingReport, AfterRun,
                ReportIsMade, SuccessEarned, Supervising, Over, File
<1> QED
    BY <1>1, <1>2, StartInv, WorkerInv, StorageInv, TaskInv DEF Next, WorkerStep

LEMMA Invariance == Spec => []Inv
<1> QED
    BY InitInv, StepInv, PTL DEF Spec

\* A run is reported a success only for the good report of a task that ran to
\* its end, was not stopped, and did not fail to upload.
THEOREM SuccessAlwaysComplete == Spec => []SuccessIsComplete
<1>1. Inv => SuccessIsComplete
    BY DEF Inv, SuccessEarned, SuccessIsComplete
<1> QED
    BY <1>1, Invariance, PTL

\* For any grace periods that satisfy the assumption, no deletion and no expiry
\* of a URL overtakes a task that is supervised.
THEOREM TaskAlwaysServed == Spec => []SupervisedTaskIsServed
<1>1. Inv => SupervisedTaskIsServed
    BY NewmanRunAssumption DEF Inv, TypeOK, DuringRun, SupervisedTaskIsServed, Expired
<1> QED
    BY <1>1, Invariance, PTL

\* No run goes on after its deadline, however long the start took.
THEOREM DeadlineAlwaysMet == Spec => []EndsByDeadline
<1>1. Inv => EndsByDeadline
    BY DEF Inv, TypeOK, DuringRun, ReadingReport, AfterRun, EndsByDeadline, Supervising, Over
<1> QED
    BY <1>1, Invariance, PTL

\* No task is left to run on unless a call of ECS raised or missed it.
THEOREM TaskNeverLeft == Spec => []NoTaskLeftRunning
<1>1. Inv => NoTaskLeftRunning
    BY DEF Inv, AfterRun, NoTaskLeftRunning, Over
<1> QED
    BY <1>1, Invariance, PTL
=============================================================================
