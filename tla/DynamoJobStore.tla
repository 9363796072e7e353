--------------------------- MODULE DynamoJobStore ---------------------------
(***************************************************************************)
(* DynamoDbExecutionJobStore (repositories/dynamodb_job_store.py) under    *)
(* concurrent callers: API request threads and workers.                    *)
(*                                                                         *)
(* Every DynamoDB request is one action; a call of the store is a sequence *)
(* of them, so the requests of different callers interleave.  The table    *)
(* holds three kinds of items: JOB# (jobs[id] with version[id]), IDEM#     *)
(* (idem) and SLOTS# (slots).  DynamoDB's own expiry may delete items of   *)
(* the first two kinds.                                                    *)
(***************************************************************************)
EXTENDS JobStore

CONSTANTS
    Client,         \* concurrent callers
    Fns,            \* the closures the callers pass to mutate
    NoFn,           \* no closure
    NoRecord,       \* no IDEM# item
    MaxAttempts,    \* _MAX_MUTATE_ATTEMPTS
    TtlGrace,       \* _TTL_GRACE_SECONDS, in clock ticks
    Conflicts,      \* whether DynamoDB reports TransactionConflict
    MaxTime,        \* bound of the clock
    MaxVersion      \* bound of the writes to one item

Record == [job_id : JobId, created_at : Nat]

ASSUME DynamoAssumption ==
    /\ Fns \subseteq Mutation
    /\ MaxAttempts \in Nat \ {0}
    /\ TtlGrace \in Nat
    /\ Conflicts \in BOOLEAN
    /\ MaxTime \in Nat
    /\ MaxVersion \in Nat
    /\ NoRecord \notin Record
    /\ NoJob \notin JobId
    /\ NoFn \notin Fns

VARIABLES
    version,        \* the optimistic-locking version of each JOB# item
    idem,           \* IDEM#{owner}#{key}: the last job created with that key
    slots,          \* SLOTS#{owner}.active
    pc,             \* the DynamoDB request each caller sends next
    req,            \* the call each caller is in
    reply           \* what its last call returned, until it makes another

tableVars == <<jobs, issued, version, idem, slots>>
vars == <<jobs, issued, now, version, idem, slots, pc, req, reply>>

Request ==
    [call : {"none", "create_job", "create_if_allowed", "lost_key", "get", "delete", "mutate"},
     id : JobId \cup {NoJob},           \* the job it works on
     fn : Fns \cup {NoFn},              \* the closure given to mutate
     clock : Nat,                       \* the time it last read
     draft : Job \cup {NoJob},          \* the job it wants to create ...
     draft_id : JobId \cup {NoJob},     \* ... and that job's id
     snap : Job \cup {NoJob},           \* the job it read ...
     seen : Nat,                        \* ... with this version
     attempts : 0..MaxAttempts-1]       \* failed attempts of this mutate

NoRequest ==
    [call |-> "none", id |-> NoJob, fn |-> NoFn, clock |-> 0, draft |-> NoJob,
     draft_id |-> NoJob, snap |-> NoJob, seen |-> 0, attempts |-> 0]

\* "answered" is every answer after which this module does not follow the
\* caller: an existing job, a job, None, True, or too much contention.
Reply == [what : {"none", "created", "refused", "answered"}, id : JobId \cup {NoJob}]

NoReply == [what |-> "none", id |-> NoJob]

Steps == {"idle", "find", "find_get", "find_evict", "count", "build",
          "transact", "read", "evict", "commit"}

TypeOK ==
    /\ StoreTypeOK
    /\ version \in [JobId -> Nat]
    /\ idem \in [Owner \X Key -> Record \cup {NoRecord}]
    /\ slots \in [Owner -> Int]
    /\ pc \in [Client -> Steps]
    /\ req \in [Client -> Request]
    /\ reply \in [Client -> Reply]

Init ==
    /\ StoreInit
    /\ version = [id \in JobId |-> 0]
    /\ idem = [ok \in Owner \X Key |-> NoRecord]
    /\ slots = [o \in Owner |-> 0]
    /\ pc = [c \in Client |-> "idle"]
    /\ req = [c \in Client |-> NoRequest]
    /\ reply = [c \in Client |-> NoReply]

-----------------------------------------------------------------------------
(* Control of one caller. *)

Goto(c, step, r) ==
    /\ pc' = [pc EXCEPT ![c] = step]
    /\ req' = [req EXCEPT ![c] = r]
    /\ reply' = [reply EXCEPT ![c] = NoReply]

Return(c, what, id) ==
    /\ pc' = [pc EXCEPT ![c] = "idle"]
    /\ req' = [req EXCEPT ![c] = NoRequest]
    /\ reply' = [reply EXCEPT ![c] = [what |-> what, id |-> id]]

Answer(c) == Return(c, "answered", NoJob)

Start(c, step, r) ==
    /\ pc[c] = "idle"
    /\ Goto(c, step, r)
    /\ UNCHANGED <<tableVars, now>>

-----------------------------------------------------------------------------
(* Conditional writes. *)

\* Fault: the condition only asks that the item exists.
Unchanged_NoVersion(c) == jobs[req[c].id] # NoJob

\* ConditionExpression "version = :v": the item is the one this caller read.
Unchanged(c) ==
    LET id == req[c].id IN jobs[id] # NoJob /\ version[id] = req[c].seen

CountsAsInt(job) == IF Counts(job) THEN 1 ELSE 0

\* Fault: the slot of a job that no longer counts is not given back.
WriteItem_KeepsSlot(c, job) ==
    LET id == req[c].id IN
    /\ jobs' = [jobs EXCEPT ![id] = job]
    /\ version' = [version EXCEPT ![id] = req[c].seen + 1]
    /\ UNCHANGED <<issued, idem, slots>>

\* _write on an item that exists: the document, its next version and the
\* change of the owner's slots, in one transaction.
WriteItem(c, job) ==
    LET id == req[c].id IN
    /\ jobs' = [jobs EXCEPT ![id] = job]
    /\ version' = [version EXCEPT ![id] = req[c].seen + 1]
    /\ slots' = [slots EXCEPT ![job.owner] =
                    @ + CountsAsInt(job) - CountsAsInt(req[c].snap)]
    /\ UNCHANGED <<issued, idem>>

\* Fault: the delete has no condition.
EvictItem_Unconditional(c) ==
    LET job == req[c].snap IN
    /\ jobs' = [jobs EXCEPT ![req[c].id] = NoJob]
    /\ slots' = [slots EXCEPT ![job.owner] = @ - CountsAsInt(job)]
    /\ UNCHANGED <<issued, version, idem>>

\* _evict: the delete and the slot it frees are one transaction; a failed
\* condition is swallowed.
EvictItem(c) ==
    LET id == req[c].id
        job == req[c].snap
    IN  IF Unchanged(c)
        THEN /\ jobs' = [jobs EXCEPT ![id] = NoJob]
             /\ slots' = [slots EXCEPT ![job.owner] = @ - CountsAsInt(job)]
             /\ UNCHANGED <<issued, version, idem>>
        ELSE UNCHANGED tableVars

-----------------------------------------------------------------------------
(* create_job and create_if_allowed. *)

DraftIds == {req[c].draft_id : c \in Client}

StartCreate(c, id, o, k) ==
    /\ id \notin issued \cup DraftIds
    /\ Start(c, IF k = NoKey THEN "count" ELSE "find",
             [NoRequest EXCEPT !.call = "create_job", !.draft_id = id, !.draft = NewJob(o, k, 0)])

KeyOf(job) == <<job.owner, job.key>>

\* find_by_idempotency_key found nothing usable.
Miss(c) ==
    CASE req[c].call = "create_job" -> Goto(c, "count", req[c])
      [] req[c].call = "create_if_allowed" -> Goto(c, "transact", [req[c] EXCEPT !.clock = now])
      [] OTHER -> Return(c, "refused", NoJob)

\* The get_item of IDEM#.
Find(c) ==
    LET rec == idem[KeyOf(req[c].draft)] IN
    /\ pc[c] = "find"
    /\ IF rec = NoRecord \/ rec.created_at < now - Window
       THEN Miss(c)
       ELSE Goto(c, "find_get", [req[c] EXCEPT !.id = rec.job_id])
    /\ UNCHANGED <<tableVars, now>>

\* The get of the job IDEM# names.
FindGet(c) ==
    LET id == req[c].id IN
    /\ pc[c] = "find_get"
    /\ CASE jobs[id] = NoJob -> Miss(c)
         [] jobs[id] # NoJob /\ Evictable(jobs[id], now) ->
                Goto(c, "find_evict", [req[c] EXCEPT !.snap = jobs[id], !.seen = version[id]])
         [] OTHER -> Answer(c)
    /\ UNCHANGED <<tableVars, now>>

FindEvict(c) ==
    /\ pc[c] = "find_evict"
    /\ EvictItem(c)
    /\ Miss(c)
    /\ UNCHANGED now

\* The fast check of the cap, before the collection is parsed.
CountActive(c) ==
    /\ pc[c] = "count"
    /\ IF slots[req[c].draft.owner] >= MaxActive
       THEN Return(c, "refused", NoJob)
       ELSE Goto(c, "build", req[c])
    /\ UNCHANGED <<tableVars, now>>

\* The job record is built and create_if_allowed is called.
Build(c) ==
    LET job == req[c].draft
        r == [req[c] EXCEPT !.call = "create_if_allowed",
                             !.draft = NewJob(job.owner, job.key, now)]
    IN
    /\ pc[c] = "build"
    /\ Goto(c, IF job.key = NoKey THEN "transact" ELSE "find", r)
    /\ UNCHANGED <<tableVars, now>>

SlotFree(o) == slots[o] < MaxActive

\* Fault: the idempotency key is written without a condition.
KeyFree_Unconditional(c) == TRUE

KeyFree(c) ==
    LET job == req[c].draft IN
    job.key # NoKey /\ idem[KeyOf(job)] # NoRecord =>
        idem[KeyOf(job)].created_at < req[c].clock - Window

\* The insertion, the slot and the idempotency key in one transaction.
TransactCreate(c) ==
    LET job == req[c].draft
        id == req[c].draft_id
    IN
    /\ pc[c] = "transact"
    /\ jobs[id] = NoJob
    /\ SlotFree(job.owner)
    /\ KeyFree(c)
    /\ jobs' = [jobs EXCEPT ![id] = job]
    /\ version' = [version EXCEPT ![id] = 1]
    /\ slots' = [slots EXCEPT ![job.owner] = @ + 1]
    /\ idem' = IF job.key = NoKey THEN idem
               ELSE [idem EXCEPT ![KeyOf(job)] = [job_id |-> id, created_at |-> job.created_at]]
    /\ issued' = issued \cup {id}
    /\ Return(c, "created", id)
    /\ UNCHANGED now

\* The transaction is cancelled.  Only a lost idempotency key is looked at
\* again; every other reason is answered as the cap.
TransactFails(c) ==
    LET job == req[c].draft IN
    /\ pc[c] = "transact"
    /\ IF ~KeyFree(c)
       THEN Goto(c, "find", [req[c] EXCEPT !.call = "lost_key"])
       ELSE /\ ~SlotFree(job.owner)
            /\ Return(c, "refused", NoJob)
    /\ UNCHANGED <<tableVars, now>>

-----------------------------------------------------------------------------
(* get, delete and mutate. *)

StartGet(c, id) ==
    /\ id \in issued
    /\ Start(c, "read", [NoRequest EXCEPT !.call = "get", !.id = id])

\* The program deletes a job it has just created and cannot charge, or a
\* terminal job no worker drives.
StartDelete(c, id) ==
    /\ id \in issued
    /\ \/ reply[c] = [what |-> "created", id |-> id]
       \/ id \in Stored /\ ~Counts(jobs[id])
    /\ Start(c, "read", [NoRequest EXCEPT !.call = "delete", !.id = id])

StartMutate(c, id, fn) ==
    /\ id \in issued
    /\ version[id] < MaxVersion
    /\ Start(c, "read", [NoRequest EXCEPT !.call = "mutate", !.id = id, !.fn = fn,
                            !.clock = IF fn.kind = "finalize" THEN now ELSE 0])

\* The consistent get_item of JOB#.
Read(c) ==
    LET id == req[c].id
        r == [req[c] EXCEPT !.snap = jobs[id], !.seen = version[id]]
    IN
    /\ pc[c] = "read"
    /\ CASE jobs[id] = NoJob -> Answer(c)
         [] jobs[id] # NoJob /\ (req[c].call = "delete" \/ Evictable(jobs[id], now)) ->
                Goto(c, "evict", r)
         [] jobs[id] # NoJob /\ req[c].call = "mutate" /\ ~Evictable(jobs[id], now) ->
                Goto(c, "commit", r)
         [] OTHER -> Answer(c)
    /\ UNCHANGED <<tableVars, now>>

Evict(c) ==
    /\ pc[c] = "evict"
    /\ EvictItem(c)
    /\ Answer(c)
    /\ UNCHANGED now

\* The closure runs on the job that was read; the write goes through only if
\* the item is still that one.
Commit(c) ==
    /\ pc[c] = "commit"
    /\ Unchanged(c)
    /\ WriteItem(c, Apply(req[c].fn, req[c].snap, req[c].clock))
    /\ Answer(c)
    /\ UNCHANGED now

\* A failed attempt: read again, up to MaxAttempts times.
Retry(c) ==
    LET n == req[c].attempts + 1 IN
    IF n = MaxAttempts
    THEN Answer(c)
    ELSE Goto(c, "read", [req[c] EXCEPT !.attempts = n, !.snap = NoJob, !.seen = 0])

CommitFails(c) ==
    /\ pc[c] = "commit"
    /\ ~Unchanged(c)
    /\ Retry(c)
    /\ UNCHANGED <<tableVars, now>>

\* The owner whose SLOTS# item a caller's next transaction may touch.
WritesFor(c) ==
    CASE pc[c] = "transact" -> {req[c].draft.owner}
      [] pc[c] \in {"evict", "commit", "find_evict"} -> {req[c].snap.owner}
      [] OTHER -> {}

\* DynamoDB cancels a transaction that overlaps another one on an item:
\* TransactionCanceledException, which the code takes for a failed condition.
Conflict(c) ==
    /\ Conflicts
    /\ \E d \in Client \ {c} : WritesFor(c) \cap WritesFor(d) # {}
    /\ CASE pc[c] = "transact" -> Return(c, "refused", NoJob)
         [] pc[c] = "commit" -> Retry(c)
         [] pc[c] = "find_evict" -> Miss(c)
         [] pc[c] = "evict" -> Answer(c)
         [] OTHER -> FALSE
    /\ UNCHANGED <<tableVars, now>>

-----------------------------------------------------------------------------
(* The environment: the clock and DynamoDB's own expiry. *)

Advance ==
    /\ now < MaxTime
    /\ now' = now + 1
    /\ UNCHANGED <<tableVars, pc, req, reply>>

\* The ttl attribute of a JOB# item: expires_at plus the grace period.
ExpireJobItem(id) ==
    /\ id \in Stored
    /\ jobs[id].created_at + Ttl + TtlGrace < now
    /\ jobs' = [jobs EXCEPT ![id] = NoJob]
    /\ UNCHANGED <<issued, now, version, idem, slots, pc, req, reply>>

ExpireIdemItem(ok) ==
    /\ idem[ok] # NoRecord
    /\ idem[ok].created_at + Window + 1 < now
    /\ idem' = [idem EXCEPT ![ok] = NoRecord]
    /\ UNCHANGED <<jobs, issued, now, version, slots, pc, req, reply>>

-----------------------------------------------------------------------------
NewCall(c) ==
    \/ \E id \in JobId, o \in Owner, k \in Key \cup {NoKey} : StartCreate(c, id, o, k)
    \/ \E id \in JobId : StartGet(c, id) \/ StartDelete(c, id)
    \/ \E id \in JobId, fn \in Fns : StartMutate(c, id, fn)

Step(c) ==
    \/ Find(c) \/ FindGet(c) \/ FindEvict(c) \/ CountActive(c) \/ Build(c)
    \/ TransactCreate(c) \/ TransactFails(c)
    \/ Read(c) \/ Evict(c) \/ Commit(c) \/ CommitFails(c)
    \/ Conflict(c)

Next ==
    \/ \E c \in Client : NewCall(c) \/ Step(c)
    \/ Advance
    \/ \E id \in JobId : ExpireJobItem(id)
    \/ \E ok \in Owner \X Key : ExpireIdemItem(ok)

Spec == Init /\ [][Next]_vars

-----------------------------------------------------------------------------
(* Properties. *)

\* SLOTS#{owner} is never below the number of the owner's jobs that count and
\* never above the cap, whatever the interleaving of creations, optimistic
\* writes, evictions and deletions: the owner cannot exceed the cap.
CapHolds ==
    \A o \in Owner : Cardinality(Counting(o)) <= slots[o] /\ slots[o] <= MaxActive

\* Slots an owner has taken that none of the owner's jobs accounts for.
Unaccounted(o) == slots[o] - Cardinality(Counting(o))

\* However creations, optimistic writes, evictions and deletions interleave,
\* SLOTS# changes exactly as the number of jobs that count: the cap shrinks for
\* an owner only when DynamoDB's expiry deletes one of those jobs, past its ttl
\* and the grace period, and then by one (ttl in _job_item).
SlotsLeakOnlyByExpiry ==
    [][\A o \in Owner :
        \/ Unaccounted(o)' = Unaccounted(o)
        \/ /\ Unaccounted(o)' = Unaccounted(o) + 1 /\ slots' = slots
           /\ \E id \in Counting(o) :
                /\ jobs[id].created_at + Ttl + TtlGrace < now
                /\ jobs' = [jobs EXCEPT ![id] = NoJob]]_vars

\* The inductive invariant behind CapHolds and ImplementsJobStore.  Its parts:
\* only issued ids are stored, and they are finitely many; IDEM# names issued
\* ids; a stored job inside the window is remembered under its key by a record
\* at least as recent; ...
TableOK ==
    /\ \A id \in Stored : id \in issued
    /\ IsFiniteSet(issued)
    /\ \A ok \in Owner \X Key : idem[ok] # NoRecord => idem[ok].job_id \in issued

KeysRemembered ==
    \A id \in Stored :
        jobs[id].key # NoKey /\ jobs[id].created_at >= now - Window =>
            /\ idem[KeyOf(jobs[id])] # NoRecord
            /\ idem[KeyOf(jobs[id])].created_at >= jobs[id].created_at

\* ... a draft is a new queued job under an id nobody else uses; ...
DraftOK(r) ==
    /\ r.draft \in Job
    /\ r.draft = NewJob(r.draft.owner, r.draft.key, r.draft.created_at)
    /\ r.draft.created_at <= now
    /\ r.draft_id \in JobId \ issued

\* ... what a caller read is what the item still holds as long as it has the
\* version that was read; and a lazy eviction is of an expired, undriven job.
SnapOK(r) ==
    /\ r.snap \in Job
    /\ r.seen <= version[r.id]
    /\ jobs[r.id] # NoJob /\ version[r.id] = r.seen => jobs[r.id] = r.snap

Finding == {"find", "find_get", "find_evict"}
Creating == Finding \cup {"count", "build", "transact"}
Writing == {"find_evict", "evict", "commit"}

RequestOK(step, r) ==
    /\ r.clock <= now
    /\ step \in Creating => DraftOK(r)
    /\ step \notin Creating => r.draft_id = NoJob
    /\ step \in Finding => r.draft.key \in Key
    /\ step \in Writing \cup {"find_get", "read"} => r.id \in issued
    /\ step \in Writing => SnapOK(r)
    /\ step = "find_evict" \/ (step = "evict" /\ r.call # "delete") => Evictable(r.snap, now)
    /\ r.call = "mutate" => r.fn \in Fns
    /\ step = "commit" => r.call = "mutate"

DraftsDistinct ==
    \A c, d \in Client :
        c # d /\ req[c].draft_id = req[d].draft_id => req[c].draft_id = NoJob

Inv ==
    /\ TypeOK
    /\ TableOK
    /\ KeysRemembered
    /\ CapHolds
    /\ \A c \in Client : RequestOK(pc[c], req[c])
    /\ DraftsDistinct

\* The table, used through these requests, behaves as the store the services
\* were written against: each call takes effect at one instant, no write is
\* lost or applied to a stale job, an insertion respects the cap and the
\* idempotency window, a removed job is never resurrected.
ImplementsJobStore == StoreSpec

\* Only an explicit delete, or DynamoDB's expiry after the grace period,
\* removes a job a worker drives; lazy eviction never does.
EvictionSparesDrivenJobs ==
    [][\A id \in Stored :
        jobs'[id] = NoJob /\ jobs[id].worker_active =>
            \/ jobs[id].created_at + Ttl + TtlGrace < now
            \/ \E c \in Client : pc[c] = "evict" /\ req[c].call = "delete" /\ req[c].id = id]_vars
=============================================================================
