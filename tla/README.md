# A verification project for Baseline11

Baseline11 takes a Postman collection, runs it twice with Newman, compares the two
runs, finds the values that must be correlated and generates a JMeter plan. Four parts of
it are modelled here.

* The *execution job*: API requests, worker tasks, a queue, a job table, object storage and
  the owner's browser act on one record, and each of them may die; in the local
  deployment a thread pool and Docker containers take their place.
* The *analysis session*: one owner's requests over rules and a plan, interleaved with a
  JMeter run.
* *Accounts*: free uses, purchases, the history of paid plans and the maintenance thread.
* The *correlation pipeline*: what the uploads become, from two runs over alignment,
  detection, acceptance and auto-correlation to a plan and the verdict on it.

Paths below are relative to the repository's `backend/app/` unless they start with another
top directory.

## 1. Inventory

| Component | State it keeps | Operations | Interacts with | What is hard | What makes it correct |
|---|---|---|---|---|---|
| Job record (`domain/execution_job.py`, closures in `execution_job_service`, `worker`, `job_finalizer`, `api/v1/execution_jobs`) | state, cancel request, worker flag, reports flag, finalizer's claim, analysis id | `_write_state`, claim, release, cancel, mark reports, claim finalization | applied by a store's `mutate` | every closure may run on any state, and more than once | terminal states are final, a cancellation wins |
| In-memory job store (`repositories/execution_job_store.py`) | jobs, one lock | get, find, count, `create_if_allowed`, mutate, delete, sweep | API threads, pool threads | check and insert in one step, sweeps under a driven job | it is the abstract store |
| DynamoDB job store (`repositories/dynamodb_job_store.py`) | `JOB#`, `IDEM#`, `SLOTS#` items | the same calls, as sequences of requests | API tasks, workers, DynamoDB's expiry | optimistic writes, retries, evictions, a counter beside the data | the same contract, the cap, the counter |
| Launchers and queue (`services/job_launcher.py`, `job_queue.py`) | material object, queue message | put, enqueue; on failure fail the job and drop the material | POST, worker | a call that raises may have happened | no job without its message, no material without an owner |
| Worker (`worker.py`, `run_job`) | one message, a job | dispatch on the job's state, claim, stages, hand-off, clean-up | store, S3, queue, runner | dies anywhere, redelivery, cancellation | stages in order, slot given back, message acknowledged late |
| Finalizer (`services/job_finalizer.py`) | claim on the record, analyses in memory | claim, read reports, build, READY | polls of the owner | two polls, an API that dies, stale claims | one analysis, no claim forever |
| Newman run on ECS (`services/ecs_newman_runner.py`, `docker/newman-runner/run.mjs`) | task, deadline, two objects | start, poll, stop, read, delete | worker, ECS, S3 | hanging tasks, late uploads, expired URLs | success is complete, ends in time, leaves nothing |
| Newman run in Docker (`services/docker_newman_runner.py`) | child process, workspace | the same | local pool | the same, plus `docker kill` | the same |
| Local pool (`services/job_dispatcher.py`, `LocalJobLauncher`) | bounded queue of threads | submit, shutdown | POST, store | queued jobs expire or are cancelled before a thread is free | as the worker |
| Analysis session (`api/v1/analyses.py`, `rules.py`, `repositories/analysis_store.py`) | rules, candidates, generated plan, validation | accept, edit, auto-correlate, generate, validate | the owner's requests, JMeter | rules edited while a validation is awaited | a report belongs to the plan it is shown with |
| Accounts and billing (`repositories/account_store.py`, `services/billing.py`) | users, uses, subscriptions, history | consume, refund, purchase, retention | POST, maintenance | concurrent starts, queued plans | no use beyond the allowance, no paid time lost |
| Maintenance (`services/maintenance.py`) | sent marks | remind, notify, purge | accounts, mail | crash between mark and mail | at most one mail |
| Alignment and health (`services/run_aligner.py`, `run_health.py`, `business_health.py`) | none | align, compute health, readiness | upload of an analysis | repeated, missing and reordered requests | a symmetric matching |
| Correlation (`services/correlation_engine.py`, `classification.py`, `auto_correlator.py`, `graph_builder.py`) | none; the pass of auto-correlation | detect, score, dedupe, classify, wire, draw | alignment, session | two ways of finding a source, echoes, shared consumers | no consumer is lost or has two sources |
| Plan (`services/jmx_builder.py`, `jmeter_runner.py`) | none | substitute, extract, check, judge a run | session | each place is substituted in its own way | the replay sends what was captured |
| Parsers, presenters, configuration, frontend, infrastructure | none or wiring | formatting | all | little state | out of scope, see section 8 |

`PROJECT.json` lists every component with its source files, and under `hazards` what is
hard to test, at the line where it bites, with the property that covers it.

## 2. Modules

```
ExecutionJob        the record and the closures             (no state)
   |
JobStore            contract of a job store  <---- implemented by ---- InMemoryJobStore
   |                                         <---- implemented by ---- DynamoJobStore
JobStoreClient      get and mutate as the callers use them
   |
AwsExecution        the whole AWS backend over the contract
   |
   +--- refines --- JobLifecycle             what the owner may observe
   |
LocalExecution      the local backend over the contract: pool, run_job, Docker
NewmanRun           one Newman run on ECS, inside two stages of AwsExecution

AnalysisSession     what the owner does with a ready job's analysis
Accounts            free uses, purchases, history, maintenance

Captures            uploads, alignment, health    (no state)
   |
Correlation         detection, classification     (no state)
   |            \
AutoCorrelation   JmxPlan                         (no state)
   |            /
Pipeline            an upload from its reports to a validated plan
```

The proofs about a module `M` are in `MProofs`, which extends it; those about
`InMemoryJobStore` are in `LocalExecutionProofs`, the backend it serves. Names of a store
that a backend also uses differ from the backend's (`LockedNext`, `ClockTicks`).

**ExecutionJob** holds the record and one operator per closure that the program hands to
`mutate` (`WriteState` is `_write_state._apply`, `Claim` is `run_job._claim`, ...), so the
stores and the composition share them. `Mutation` and `Apply` name a closure by a record,
which lets a store be asked to apply any of them. Left out: error codes, warnings, the
collection's name, the stage history. Three states of the enumeration are never produced
by the program and are left out as well.

**JobStore** is the contract in the abstract methods' words: `Insert`, `Mutate`, `Delete`
and `Drop` act at one instant; `Insert` needs a free slot and no live job with the same key
in the window; `Mutate` applies its closure to the job as stored; `Drop` is the lazy
eviction any call may do.

**JobStoreClient** is what `get` and `mutate` are to a caller of any store: an expired job
that nobody drives is dropped and answered with None.

**InMemoryJobStore** has one action per call, since a call holds the lock; each one but
`delete` starts with the sweep (`Swept`).

**DynamoJobStore** has one action per request to DynamoDB. `pc[c]` is the next request of
caller `c`, `req[c]` the locals of its call: the draft, the job it read and the version it
read. `create_job` is `find`, `find_get`, `find_evict`, `count`, `build` (the two unlocked
checks), then the same find again and `transact`; `get`, `delete` and `mutate` are `read`
followed by `evict` or `commit`. A failed condition, a `TransactionConflict` and the retry
loop are actions. `ExpireJobItem` and `ExpireIdemItem` are DynamoDB's own expiry.

**AwsExecution** uses the contract (`Call`, `Get`, `Insert`, `Delete`) and models, per job,
the POST (`launch`), the DELETE (`removal`), the queue message and the set of objects
under the job's prefix; per worker task a program counter over `worker.py` and `run_job`;
per poll one over `finalize_job`. Two closures remember something between two attempts of
`mutate` (the `claimed` flags); a refused attempt of those is an action of its own
(`ClaimConflicts`, `PollConflicts`), every other refused attempt changes nothing a caller
sees. A Newman run is the state `baseline` or `comparison` of its worker, which ends in
`Succeed` or `Abandon`.

**NewmanRun** is `EcsTaskNewmanRunner.run` beside the task it started. Time passes while a
task is started and between two looks at it; the task's steps take any time, so it may hang
at every point. `RejectFolder` is the return before the `try`, for a folder that is unknown or
ambiguous. Exit codes are grouped by meaning. With `Failures`, calls of ECS and S3
raise, may have taken effect when they raise, and may not list a task that has just started.

**LocalExecution** is `LocalJobLauncher`, the bounded pool, `run_job` and
`DockerNewmanRunner.run` in one thread per job, with the contract of the store beneath.
`thread[id].at` is the next step of the thread; `client` and `box` are the docker client
process and the container, which are two things: the client may be gone while the container
runs. `Write` races cancellations and removals exactly as in `AwsExecution`, since both use
the closures of `ExecutionJob`. Deadlines and the patience of `process.wait` run out at any
time instead of being counted. `missed` remembers that a `docker kill` failed or came
before the container was there.

`JobLifecycle` is the abstract specification of one job's life; `AwsExecution` and
`LocalExecution` map its `phase`, `driven` and `result` from the store and the worker's flag.

**AnalysisSession** is one `Analysis` object. Handlers are coroutines of one event loop, so
a handler without an await is one action; the loops of accept-high and auto-correlate are
one action per iteration, between which `handler` is not idle and no other request is
served; `validate` is two actions, because everything may happen while it awaits JMeter.
A rule is its place in `rules`, a sequence like the dictionary it stands for; a deletion
moves up the ones behind it. `candidate`, `auto`, `plan`, `jmxStatus` and `report` are the
fields of `Analysis`; a plan is the rules it was built from and the identity of its
manifest, which is what `validate` compares. A name is a base and the suffixes that
deduplication appended, so that `id_2` of one source and `id_2` of another are one name.
`Sound` and `Materialized` are what `validate_rule` and the builder's verification say about
names and consumers; everything else they check is about values, and where auto-correlate
skips a proposal for such a reason the model chooses (second disjunct of `NextProposal`).

**Accounts** is one API process: handlers that interleave where they await, the thread that
`create_history` runs in, and the maintenance thread, which stops between any two calls of
the store. `loop` is the handler that has the event loop between two calls of the store,
`pass` the place of the maintenance thread with the time its pass began. A crash keeps the
database and the files. Starts, purchases and saved plans share one bound (`MaxCalls`).

**Captures**, **Correlation**, **AutoCorrelation** and **JmxPlan** are operators. A value in
a message is an *occurrence*: a location, a name, an array row, the value and what stands
around it. Values are members of a few sets (long tokens, small numbers, placeholders,
words) because these are the differences the engine's rules are about; entropy, formats and
lengths are reduced to them, and values of four or five characters, which are neither, are
left out. `Score` and `Confidence` keep the code's points. `Proven` is `analyze_two_run`
and `analyze_single_run`, `Echoes` the redundancy rule, `Wired` the choice auto-correlation
makes for each request, `Substituted` and `Rendered` what becomes of a value in the plan.

**Pipeline** composes them: `Analyze`, `Accept`, `StartAuto`, one `WireRequest` per request
(the pass of `auto_correlate` carries what earlier responses offered and which rows earlier
requests selected), `EndAuto`, `Generate`, `Validate`. A rule goes by its source and uses.
Edits, rejections, names and overlapping requests are `AnalysisSession`'s. `Graph` is what
`build_graph` draws.

Operators with a suffix (`Retry_OneMore`, `Keeps_Nothing`, ...), each commented as a fault,
are wrong versions of the definition that follows them. No specification uses them; they
show that the properties notice the fault.

## 3. Runs

| Run | Instance | Question | Result |
|---|---|---|---|
| DynamoJobStore | 2 callers, 2 jobs, cap 1, 1 key, 3 closures, 2 attempts, conflicts, expiry | Do creations, optimistic writes, evictions and deletions implement the contract, and does `SLOTS#` follow the jobs that count? | holds |
| InMemory | 3 jobs, cap 2, 1 key | Is the locked store the contract? | holds |
| AwsSafety | 1 job, 2 workers, 2 deaths, 2 polls, expiry | Lifecycle, runs, reports and analysis through deaths; is anything left behind while nothing dies? | holds |
| AwsSettles | 1 job, 2 workers, 1 poll, a death, a restart, failing deletions, fair | Is a started job settled, and the slot of an enqueued one freed? | holds |
| AwsStuckClaim | 2 workers, 1 death | Is an acknowledged job settled, after a death? | violated |
| AwsTwoDrivers | 2 workers, duplicate delivery | Does one worker drive a job? | violated |
| NewmanRun | failing calls, hanging task, cancellation, fair worker | Success, service, deadline, no task left, the run returns | holds |
| AnalysisSession | 2 sources, 3 sinks, 2 candidates, 2 proposals, 2 bodies, 4 patches, 3 manifests, 1 validation | Is the plan current, its verdict its own, are names and automatic rules unique, does a consumer keep its rule? | holds |
| Accounts | 2 starts, 1 user, 3 keys, 2 plans, 3 calls, 1 crash, fair maintenance | Do allowances, queued plans, mails, files and retention hold beside a maintenance thread that may die anywhere? | holds |
| LocalExecution | 2 jobs, 1 thread, expiry, failing kills, fair threads | Lifecycle, complete successes, no container left, every submitted job settled? | holds |
| Pipeline | 1660 uploads of up to 3 requests, 8 outcomes of JMeter with any variables found and missed | Does what the uploads say survive alignment, echoes, auto-correlation, the graph, substitution and the verdict? | holds |
| JmxQueryLost | the same | Is every accepted consumer in the rendered plan? | violated |

Two invariants of AwsSafety (`MaterialHasOwner`, `LiveWorkersSettle`) and one alternative of
`EnqueuedJobsSettle` speak of the time while no worker has died (`NoneDied`): after a death they are false, as AwsStuckClaim and the
notes below show. The runs that pass set `Duplicates` to FALSE, that is, a message comes
back only once its receiver is gone, which is what the visibility timeout is chosen for;
AwsTwoDrivers shows what SQS's at-least-once delivery does to the code otherwise.

### What the violated runs show

Each one checks a sentence of the repository, quoted in `PROJECT.json` under `findings`.

* **AwsStuckClaim.** A worker dies between its claim and VALIDATING. The redelivery finds a
  QUEUED job, goes on to `run_job`, which declines the claim, and the message is deleted.
* **AwsTwoDrivers.** If two workers with one message meet at the claim, the one whose write
  DynamoDB refused keeps `claimed` from its first attempt, and both drive.
  `finalize_job` has the same flag: two polls may both build an analysis. `ReadyHasAnalysis`
  holds all the same: the job names one of the two, and the other stays until it expires.
* **JmxQueryLost.** A login returns a token, and a later request sends it in its query and
  has a JSON or form body too. The rule is accepted and its substitution counted, but
  `_http_sampler` writes the query as arguments only if there is no body. The plan then
  sends neither the variable nor the literal value, and `_generate` does not notice.
  `LossesAreQueries` (section 6) proves that, as far as the plan is modelled, it loses
  nothing else.

### What else the models reach

Steps the models take that no property of a run forbids, most of them because the code does
not say what should follow. The first two contradict a sentence of the repository
(`dynamodb_job_store.py:10` and `analyses.py:510`) and are kept as hazards.

* DynamoDB's expiry deletes `JOB#` without `SLOTS#`: a job that nobody reads between its
  expiry and the end of the grace day keeps its owner's slot for good. Nothing else loses
  a slot, and each expired job loses one (`SlotsLeakOnlyByExpiry`).
* `_accept_candidate` refuses a candidate one of whose consumers an enabled rule of another
  source fills. If its own source has a disabled rule, that rule is enabled with all the
  consumers it had, also one that another rule was given meanwhile. Both rules then fill one
  request field, and `_generate` refuses every plan (`Materialized`) until one is edited. The
  same happens when its source has two rules and the first one is extended. No other step
  that is not an edit of a rule brings two rules to one field (`ConsumersKeepTheirRule`).
* A `docker kill` that comes before the container exists kills nothing, and the container
  that starts afterwards runs on (`missed` in `LocalExecution`).
* A plan bought while another one runs does not extend the retention of old entries when
  its time comes: `purchase` looks at the plan's start once, when it is bought.
* A mail whose mark was written is lost if the process dies before it is sent.
* A crash between `delete_history`'s two steps leaves the files of an entry whose row is gone.
* A rule on a part of a text body replaces the whole body by its variable, and the regular
  expression for a cookie never finds one; `Faithful` leaves out both (section 7).
* A lost idempotency key whose job is gone, and a transaction that merely conflicts, are
  answered with the 429 of the cap.
* A worker dies after its job was cancelled. The redelivery discards the message and
  releases nothing; the record keeps its worker flag, so neither DELETE nor lazy eviction
  removes it and the slot stays taken until DynamoDB's expiry, and after it.
* A message delivered to a second worker while the first one runs fails the running job.
  A job that has ended is safe from such a worker (`OutcomeFinalOnAws`).
* A status call of ECS that raises, or does not list a task just started, ends the run
  without `stop_task`; `stop_task` does not wait, so an upload may follow the deletion.
* A PATCH that enables a rule or names its consumers, and a POST of a rule, look at no other
  rule's consumers; only the generation does. Expert override is meant to allow it, the
  other cases are silent about it.
* accept-high ends with the first refusal and keeps what it accepted before; auto-correlate
  marks a candidate accepted that the owner has rejected, when its consumers are covered.

## 4. Bounds and why they are enough

`MaxTime`, `MaxVersion`, `MaxAttempts`, `MaxCrashes`, `MaxRestarts` and `MaxReceive` bound
the clock, the writes to one item, the attempts of `mutate` (20 in the code), deaths of
workers, restarts of the API and receives of a message. `Ttl`, `Window`, `TtlGrace` and
`StaleClaim` are the code's durations in ticks: what matters is their order and that the
clock passes them within the run, which it does where the run is about expiry.

* Two callers of one item are one whose snapshot is stale and one that made it so; they
  also are the two submissions of one key and the two that want the last slot. Two attempts
  reach both the retry and the exhausted loop. For the properties of `DynamoJobStore` the
  bounds do not matter at all, since they are proved.
* One job is enough in `AwsExecution`: nothing but the cap relates two jobs of an owner, and
  the cap is the store's. `RunsAreCounted` says that every Newman run belongs to a stored
  job that counts, and that no job has two; with `CapHolds`, proved of the table, no owner
  has more runs going than jobs allowed. The safety properties of AwsSafety are proved for any
  number of jobs, workers and polls (section 6).
* Two workers are the one that dies and the one that gets the redelivery. Both may die in
  AwsSafety, with a receive limit of two, so that a message is also dead-lettered; the job
  may expire at every step.
* A deadline of two looks and a URL valid for one tick more let the task finish before,
  at and after the deadline, and let its upload come after the URLs expired.
* `MaxRules` stops manual additions; accepted candidates and proposals may add two more, so
  there are up to four rules. The two sources hold one value in the run that
  auto-correlation reads and differ in the other run, which is how the two analyses come to
  give the consumers to different sources; the second candidate has two consumers, so that it
  is refused when auto-correlation came first, and a rule by hand may fill either of them. Three manifests are one under validation, the
  plan and its successor; an object nobody refers to may be reused, as memory is. One
  validation is enough: two have only the plan in common, and each reads it once.
* Two starts of one user share a browser key and differ in the other, so that a refusal of
  one depends on the other. Three calls are a running plan, one that waits and one that
  queues behind it, or a start on a plan with its saved plan and a purchase. Plans of one
  and two ticks are kept for one and three, so a renewal may extend an entry or not.
* Two jobs and one thread in `LocalExecution` let a job be cancelled, removed or expired
  while it waits for the other. Nothing in the code relates three jobs of a pool.
* The uploads of `Pipeline` are a login, an order and a follow-up, with seven kinds of
  login response (a token in JSON, a header, a cookie or text, twice in one response, a
  short id, an array of rows) and five kinds of each request, alone and against a fresh run;
  for some of them also against an identical, a shortened, a reordered, a refused, an
  unanswered, a partly renewed and an emptied run; and all pairs of runs of up to three
  requests of two kinds, for the alignment. Three requests are a source, an echo and a
  consumer of both. The plans have up to three rules. A run of a plan shows any set of its
  variables with a value in some sample and any set with the default in some sample, each
  variable by itself as in `_build_report`, so that with two rules one is extracted and
  the other not, or missed in a later sample; a run that was not launched or has no sample
  shows none.

Symmetry (manifests, workers, polls, callers, jobs) is used only in runs without liveness.
`CHECK_DEADLOCK FALSE` everywhere: an instance ends when its bounded time, jobs and workers
are used up, which is the bound's doing.

## 5. Fairness

`Fairness` of `AwsExecution` is weak fairness of: the steps of a request and of a worker
that are under way (threads run on); the delivery of a message and the end of its
visibility timeout (SQS); the owner's polling (the page polls until the job ends, and
StartedJobsSettle says "as long as its owner polls it"); and the clock. Nothing is assumed
of deaths, restarts, cancellations and refused writes: they may happen or not. `WorkerStep`
is one disjunction, so a worker that may succeed or fail is only assumed to do one of them.
Restarts happen while the clock still runs, so that the claim they leave behind can grow
old within the bound; in the code the clock never stops. `FairSpec` of `NewmanRun` is weak
fairness of the worker alone. The task has none: it may hang for ever, and the run returns.
`FairSpec` of `LocalExecution` is weak fairness of taking a job, of each thread's steps and of
the passing of a run's deadline; docker has none, so containers hang and clients never end.
`FairSpec` of `Accounts` is weak fairness of the maintenance thread as a whole, whose loop
logs any exception and waits for the next pass, and of the handler that extends retention,
which does not await. A crash may interrupt both.

## 6. What is proved

Eight modules hold proofs, each for every value of the constants.

`JobStoreProofs` proves of the contract itself, under `ExecutionJobAssumption` and
`JobStoreAssumption`:

| Theorem | States |
|---|---|
| `ContractKeepsCap` | `StoreSpec => []CapKept`: no owner has more counting jobs than the cap |
| `ContractNeverResurrects` | `StoreSpec => [][StayRemoved]_storeVars`: a job that was removed stays removed |
| `ContractKeepsKeys` | `StoreSpec => []KeysUnique`, if `Window <= Ttl`: no two jobs of one owner and key are inside the idempotency window |
| `ContractKeepsOutcome` | `StoreSpec => [][OutcomeFinal]_storeVars`: a job that is over keeps its state and its analysis |

`CapKept` needs `StoreInv`: only finitely many ids are issued and every stored job is issued,
so the counting sets have cardinalities, and a closure applied to one job changes the count
of nobody else (`Spared`, `SparesOthers`). `KeysUnique` needs `Window <= Ttl` (ten minutes of
thirty in `config.py`): `create_if_allowed` compares a submission only with jobs that have not
expired, so a window that outlived them would let a second job in beside the first one.
`OutcomeFinal` is a fact about every closure (`TerminalStays`), the late ones included.

The four theorems are worth having because everything below implements the contract or calls
it, and so inherits them: `LocalExecutionProofs` proves of the in-memory store
`LockedStoreRefines` (`LockedSpec => ImplementsJobStore`, under `InMemoryAssumption`: after the
sweep of a call, what it counts and compares is what the contract counts and compares),
`LockedStoreInherits` (the cap, no resurrection, final outcomes) and `LockedStoreKeepsKeys`,
and of the local backend `LocalStoreContract`; `DynamoJobStoreProofs` concludes
`NoJobResurrected`, `TableKeepsKeys` and `TableKeepsOutcome`; `AwsExecutionProofs` concludes
`CapHoldsOnAws` and `OutcomeFinalOnAws`.

`DynamoJobStoreProofs` proves, for every value of the constants that satisfies the
modules' named assumptions (`ExecutionJobAssumption`, `JobStoreAssumption`,
`DynamoAssumption`: the sets may be empty or infinite, the cap and the durations any
natural numbers, conflicts possible or not):

| Theorem | States |
|---|---|
| `Invariance` | `Spec => []Inv` |
| `TypeCorrect` | `Spec => []TypeOK` |
| `CapNeverExceeded` | `Spec => []CapHolds` |
| `Refinement` | `Spec => ImplementsJobStore` |
| `DrivenJobsSpared` | `Spec => EvictionSparesDrivenJobs` |
| `SlotsOnlyLeakByExpiry` | `Spec => SlotsLeakOnlyByExpiry` |
| `NoJobResurrected` | `Spec => [][StayRemoved]_storeVars`, with the contract's variables mapped |
| `TableKeepsKeys` | `Spec => []KeysUnique`, if `Window <= Ttl` |
| `TableKeepsOutcome` | `Spec => [][OutcomeFinal]_storeVars` |

Why `CapHolds` needs `Inv`. A conditional write changes the counter by the difference
between the job it writes and the job it *read*. That is the right change only if the item
still holds what was read, which the condition on `version` gives only together with
`SnapOK`: an equal version means an equal job. `SnapOK` itself is kept because every write
raises the version and an id is never inserted twice, which needs `DraftOK` and
`DraftsDistinct` (a draft's id is nobody else's and not issued). A creation must not meet a
live job of the same key: `KeysRemembered` says that every stored job inside the window is
remembered by a record at least as recent, so that the condition on `IDEM#` in the
transaction implies the absence of a match in the contract. `RequestOK` ties these facts to
each caller's program counter. The counter is an upper bound and not the exact number
because DynamoDB's expiry lowers the number alone (`ExpireJobItem`); `SlotsLeakOnlyByExpiry`
says that this is the only step after which the two differ by more than before, or by less.

The argument is one lemma per action for each of the conjuncts it can disturb, with the
cardinality facts about `Counting` stated once; `Refinement` maps each action to an action
of `StoreNext` or to a stutter (a commit to `Mutate`, a transaction to `Insert`, an
eviction to `Drop` or `Delete`), using `Inv` in both states.

`AwsExecutionProofs` proves, under `AwsExecutionAssumption`, for any number of jobs, worker
tasks, polls, deaths and restarts, where `~Duplicates` says that no message is delivered while
its receiver lives:

| Theorem | States | Assumed besides |
|---|---|---|
| `StoreUsedByContract`, `CapHoldsOnAws` | `Spec => StoreSpec`, `Spec => []CapKept` | |
| `OutcomeFinalOnAws` | `Spec => [][OutcomeFinal /\ StayRemoved]_storeVars` | |
| `HandlersAlwaysBounded` | `Spec => []HandlersBounded`: `MaxReceive` live workers per job at most | |
| `ReadyKnown` | `Spec => []ReadyHasAnalysis` | `MaxRestarts = 0` |
| `Invariance` | `Spec => []Inv` | `~Duplicates` |
| `LifecycleImplemented` | `Spec => ImplementsLifecycle`, for every job | `~Duplicates` |
| `RunsCounted` | `Spec => []RunsAreCounted` | `~Duplicates` |
| `OneDriverWithoutDuplicates` | `Spec => []OneDriver` | `~Duplicates` |
| `ReportsKept` | `Spec => []ReportsKeptForFinalizer` | `~Duplicates` |
| `WorkersSettle` | `Spec => []LiveWorkersSettle` | `~Duplicates` |
| `MaterialOwned` | `Spec => []MaterialHasOwner` | `~Duplicates`, `MaxRestarts = 0`, `~DeletesFail` |

The first four say what is left when SQS delivers a message to two workers: the record is
never wrong about an outcome, the cap on jobs holds, and a ready job has its analysis. What the
cap does not bound any more are the Newman runs, of which a job may then have as many as
receives. Their invariant `StoreUse` compares no handler with a record; it says only where
the workers and polls are, and that a poll between `build` and its end holds an analysis that
is in memory (`Announces`).

`~Duplicates` is not a convenience: AwsTwoDrivers is a counterexample to `OneDriver` without it,
and `OneDriverWithoutDuplicates` says that a duplicate is the only way to it. A restarted API
forgets the analyses and may forget a launch half done; a deletion that fails leaves its
object; these are the other two assumptions.

The heart of `Inv` is that a message has one live handler at most (`OneHandler`), so that the
place of the handler and the record of its job can be compared (`Fits` for a worker that has
not yet claimed, claims or has claimed; `WorkerOK`): who is between claim and release finds
the worker flag set and the state it wrote last, or a terminal one. The other parts are about
the job alone: a job is issued before its launch goes on (`LaunchOK`), a message that waits in
the queue has no handler (`QueueOK`), a DELETE removes only what has no worker (`RemovalOK`),
a record that says its reports are ready has them in S3 until a poll claims it (`RecordOK`),
and an acknowledged job is settled while nobody died (`SettledOK`). `PollOK` says what a poll
may still believe of the job it read. Each action has one lemma that reduces it to its effect
on one record and one handler (`WorkerEffect`, `ApiEffect`), and each kind of effect one lemma
that it keeps `Inv`; so the many places of the worker are compared with the record once, in
the effect, and not again for each conjunct. `MaterialInv` is a second layer over `Inv`: while
no worker died, a message is received once, by a worker that deletes it last.

`AnalysisSessionProofs` proves, under `AnalysisAssumption` alone (any candidates and proposals,
any sets of bodies, patches, manifests and concurrent validations):

| Theorem | States |
|---|---|
| `SessionInvariance` | `Spec => []SessionInv` |
| `SessionTypeCorrect` | `Spec => []TypeOK` |
| `PlanAlwaysCurrent` | `Spec => []PlanIsCurrent` |
| `ReportAlwaysBelongs` | `Spec => []ReportBelongsToPlan` |
| `NamesAlwaysUnique` | `Spec => []NamesUnique` |
| `OneAutomaticRule` | `Spec => []OneAutomaticRulePerSource` |
| `ConsumersAlwaysKeepTheirRule` | `Spec => ConsumersKeepTheirRule` |

`SessionInv` is the properties and the types together, and one fact more: only
auto-correlation leaves changes behind that did not yet withdraw the plan
(`handler.changed => handler.at = "auto"`), without which the loop of accept-high could
return to an idle handler with a stale plan. Every change of the rules is an addition, a
replacement or a removal, each with a lemma that says when it keeps the rules' invariant
(`AddRule`, `ReplaceRule`, `RemoveRule`). An addition needs a free name: `FreeName` finds one
among one more suffix than there are rules by the pigeonhole principle, `FreshName` the
least of them by well-foundedness. That a source without a *first* rule has none
(`FirstOfSource`) is what makes the automatic rules unique. That a consumer keeps its rule
needs no invariant beyond it: what auto-correlation adds is filled by no enabled rule
(`UnclaimedFree`), and where no rule is the first to clash with a candidate none clashes
(`NothingClashes`), so that only what the acceptance does not compare remains (`Overlooked`).

`PipelineProofs` proves, for any set of captures whose runs are sequences
(`CaptureAssumption`, with `CapturesAssumption` about the sets of values), of any length and
with any values, and for any outcomes of JMeter, whichever variables they find and miss, in
which a sample of an unreachable host is one
that failed (`OutcomeAssumption`):

| Theorem | States |
|---|---|
| `AlignmentAlwaysSymmetric` | `Spec => []AlignmentIsSymmetric` |
| `NoConsumerEverLost` | `Spec => []NoConsumerIsLost` |
| `RulesShareNothing` | `Spec => [](WiringInv /\ RulesInv)` |
| `EnabledAlwaysDrawnOnce` | `Spec => []EnabledConsumersDrawnOnce` |
| `GraphAlwaysForward` | `Spec => []GraphRunsForward`: the graph has no cycle |
| `CandidatesAlwaysCovered` | `Spec => []AutoCoversCandidates` |
| `ReplayAlwaysFaithful` | `Spec => []ReplaySendsTheCapture` |
| `LossesAreQueries` | `Spec => []OnlyQueriesAreLost`: the form of every violation of `MaterializedIsRendered` |
| `ValidatedAlwaysCorrelated` | `Spec => []ValidatedMeansCorrelated` |
| `SingleRunAlwaysUnsure` | `Spec => []SingleRunIsUnsure`: one report, no high or medium confidence |
| `PlainValuesAlwaysSure` | `Spec => []PlainValuesAreSure`: two reports, when the confidence is high |

Symmetry needs that a request has one partner at most: two requests of one run have
different signatures, since their ordinals grow with their positions (`OrdinalGrows`). An
echo is dropped in favour of a candidate of an earlier response, which may be dropped itself;
that a use survives follows by taking, among the candidates with that value and that use,
one of the earliest response. The next two theorems have one argument: auto-correlation wires
each use once, since a request wires only its own uses and chooses one source for each
(`WiredOnce`); `Fresh` takes away what rules have; and an acceptance that shares a use with
another source is refused. So no two rules share a use (`RulesInv`), and the graph,
which takes the rules' uses from the candidates, draws each once.

`AutoCoversCandidates` compares two algorithms. `PassInv` is what the pass has done before
request `next`: everything the responses before it offer is available, and each concrete
value of a request before it that fits an available source was wired to the earliest one that
fits (`EarliestIsAvailable`). A candidate whose value its response has in one place is
offered (`OfferedPlaces`), so its later uses fit something when their request comes, and
what they were wired to has their value. `UsesInv` carries that through `EndAuto` and
through acceptances: every use of a rule is in a later request than the rule's response,
and it sends the rule's value unless it was inferred from a name. With it
`ReplaySendsTheCapture` is a statement about one substitution (`SubstitutionIsFaithful`: the
variable takes the place of the value and leaves what is around it) in a plan that is of
the present rules (`PlanInv`). `PlanInv` also has what the last generation checked, from
which `LossesAreQueries` follows, and what a report of the plan may say: there is a plan, and
no variable of the present rules was missing, because the verdict is `Validated` of some
run whose variables were found and missed in any way (`GoodRunsMissNothing`: without a failed
sample the excuse of a lost connection does not apply), over the variables of the plan's
manifest, which are those of the rules (`VariablesAreRules`). `ValidatedAlwaysCorrelated` adds
what the plan sends: a text with a variable is the use of one of these rules. The two theorems about scores add up
`Score`'s points: a run has finitely many places (`SinksAreFinite`), so the number of uses is
a number and its bonus is between -5 and 15; one report starts at -15 and can gain 35.

`NewmanRunProofs` proves, for any length of the start, timeout and validity of the URLs that
satisfy `NewmanRunAssumption` (the URLs outlive the start and the timeout together):

| Theorem | States |
|---|---|
| `SuccessAlwaysComplete` | `Spec => []SuccessIsComplete` |
| `TaskAlwaysServed` | `Spec => []SupervisedTaskIsServed` |
| `DeadlineAlwaysMet` | `Spec => []EndsByDeadline` |
| `TaskNeverLeft` | `Spec => []NoTaskLeftRunning` |

The invariant is made of what holds in each phase of the run. While the worker supervises
(`DuringRun`) the deadline is ahead and lies within the URLs' life, and the worker only
sleeps before it; the report is read (`ReadingReport`) only of a task that was seen to be
complete, and until it is deleted it is what that task made (`ReportIsMade`).

`AccountsProofs` proves, under `AccountsAssumption` (any overlap of the keys of requests, any
plans of at least one tick, any allowance and windows):

| Theorem | States |
|---|---|
| `AllowanceHolds` | `Spec => []FreeUsesHold` |
| `PurchasesQueueUp` | `Spec => []NoPaidTimeLost` |
| `MailsNeverRepeated` | `Spec => []MailsOnce` |
| `OffersAlwaysKept` | `Spec => []OfferedFilesExist` |
| `RetentionAlwaysKept` | `Spec => RetentionKept` |

The invariant has one part per subject. `UsesInv`: the counter of a key is the number of the
free requests with that key that started, which one transaction over all keys keeps below
the allowance. `PurchasesInv`: the subscriptions of a user lie one behind the other in the
order of purchase, because a purchase starts where the latest one ends (`LatestExpiryFacts`,
the greatest of a finite set). `MailsInv`: what the thread holds in its hands is marked
and not yet sent, what it has still to do is not marked. `EntriesInv`: an entry has at least
the files it offers and expires no earlier than its retention, and the purge holds only
entries whose retention is over at the time its pass began; so a purchase that extends
retention in between loses nothing that the old plan promised.

`LocalExecutionProofs` proves, under `LocalExecutionAssumption`, for any number of jobs and
threads, with failing kills, late containers and expiring jobs:

| Theorem | States |
|---|---|
| `LifecycleImplemented` | `Spec => ImplementsLifecycle`, for every job |
| `LocalStoreContract` | `Spec => StoreSpec /\ []CapKept` |
| `NoContainerOutlives` | `Spec => []NoContainerLeft` |
| `SuccessAlwaysWhole` | `Spec => []SuccessIsComplete` |
| `ReadyAlwaysAnalysed` | `Spec => []ReadyHasAnalysis` |

Its invariant relates each job's record to the place of its thread (`JobOK`): the worker flag
is set exactly while the thread is between its claim and its release, the state is the one
the thread wrote last unless somebody ended the job, and the thread announces READY only
after it has stored the analysis. `RunOK` relates the docker client and the container: while
a run is supervised a client that ended did so after its container and with its code, so
a complete client means the report of this run. The lifecycle follows from `JobOK` by one
lemma per kind of change of a record (`LifeCreated`, ...), and `SparesOthers` leaves every
other job alone in each step.

## 7. What is only model-checked

* `AwsExecution` with duplicate deliveries, beyond the four theorems that need no
  `~Duplicates`, and what the two violated runs show of it.
* Liveness (`StartedJobsSettle`, `EnqueuedJobsSettle`, `RunEnds`, `JobsSettle`,
  `ExpiredEntriesGo`), which is beyond the prover; and the violated properties, which are false.

Every safety property of the passing runs is proved (`ImplementsJobStore` of InMemory by
`LockedStoreRefines`). `ReplaySendsTheCapture` speaks of places that are `Faithful`: those of
inferred values, runtime headers, cookies, parts of text bodies and the query beside a body are
known to differ or are not the plan's business.

Types are proved as part of the inductive invariants; elsewhere the comments at the variables
state them.

## 8. What is not modelled, and why

* In `AnalysisSession`: values, extractors and positions of a rule; reads, previews and
  downloads, which change nothing; deletion and expiry of the session, after which only a
  validation under way touches the object; auto-correlation that fails later than in
  `auto_correlate`.
* In `Accounts`: sign-in, browser sessions and profile settings; `refund_use`, which the program
  never calls; a mail that the mailer's own threads fail to deliver, which is only logged.
* In `LocalExecution`: the death of the API's process, which ends the store, the pool and the
  sessions together and leaves workspaces and containers behind; a docker client that ends
  before its container while the run is supervised, whose container nobody would stop
  (`EndClient` waits for the container); idempotency keys; Newman's
  own behaviour, except that it ends or does not and leaves a whole report, a part or none.
* In `NewmanRun`: a file system of the task that cannot be written, and the local stand-in for
  ECS (`DockerTaskLauncher`).
* In `Pipeline` and its operators: a second run of a plan that has a report already, which
  would replace it by another one of the same plan; values of four or five characters, null and boolean
  values, blanks around values, multi-valued rows, extractors that the owner wrote, the
  search that suggests manual rules (`consumer_finder`), variable names and the order of
  candidates, hosts, timers and think times, the log scan of a JMeter run, error ratios
  other than zero.
* Parsing of Postman and Newman files, destination policy, XML, presenters, mail texts, naming
  and masking: functions of strings without state. Where the models need their verdict they
  choose it.
* Secrets, encryption, presigned signatures, configuration, rate limits and infrastructure,
  except the queue's receive limit and visibility timeout.
* `DynamoDbExecutionJobStore.create` and `update` and their in-memory counterparts: the
  program never calls them (`create_if_allowed` and `mutate` replaced them).
* In `AwsExecution`: idempotency keys (the stores' modules have them); a `mutate` that gives
  up after its attempts inside an API request, which ends that request like any error; two
  DELETEs of one job at the same time; more than one message per job.
* A worker's Newman run is one state in `AwsExecution`; its inside is `NewmanRun`. A task that
  outlives its worker is in neither.

## 9. Plan

1. `AwsExecution` with duplicate deliveries: whether the reports and the lifecycle survive them,
   and which of its invariants need the refused claim to be repaired first.
2. The history of `Accounts` against an abstract one (an entry is offered, then gone), and the
   free uses of two users who share keys, as theorems.
3. `NewmanRun` as an implementation of the one state it is in `AwsExecution`, and the tasks
   that outlive their worker.
4. The precedence of Postman variables and the selection of folders, against reference
   definitions; the rate limiter.
5. Extractors written by the owner, and `rule_validator`'s verdict on them, in `Pipeline`.
