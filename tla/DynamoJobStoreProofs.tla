------------------------ MODULE DynamoJobStoreProofs ------------------------
(***************************************************************************)
(* DynamoJobStore keeps its inductive invariant Inv, so it never exceeds   *)
(* the cap; every step of it is a step of JobStore or a stutter, so it     *)
(* inherits the promises of the contract; and SLOTS# loses track of a job  *)
(* only when DynamoDB's expiry takes it.                                   *)
(***************************************************************************)
EXTENDS DynamoJobStore, JobStoreProofs

-----------------------------------------------------------------------------
(* Counting jobs. *)

\* Storing a job under id changes the number of jobs that count as the job
\* under id does.
LEMMA CountAfterWrite ==
    ASSUME StoreTypeOK, TableOK, NEW id \in JobId, NEW new \in Job \cup {NoJob},
           jobs' = [jobs EXCEPT ![id] = new], NEW o \in Owner
    PROVE  LET before == id \in Counting(o)
               after == new # NoJob /\ new.owner = o /\ Counts(new)
           IN  /\ IsFiniteSet(Counting(o)) /\ IsFiniteSet(Counting(o)')
               /\ Cardinality(Counting(o)) \in Nat /\ Cardinality(Counting(o)') \in Nat
               /\ before /\ after => Cardinality(Counting(o)') = Cardinality(Counting(o))
               /\ ~before /\ ~after => Cardinality(Counting(o)') = Cardinality(Counting(o))
               /\ before /\ ~after => Cardinality(Counting(o)') = Cardinality(Counting(o)) - 1
               /\ ~before /\ after => Cardinality(Counting(o)') = Cardinality(Counting(o)) + 1
<1> DEFINE before == id \in Counting(o)
           after == new # NoJob /\ new.owner = o /\ Counts(new)
<1>1. Counting(o) \subseteq issued /\ IsFiniteSet(issued)
    BY DEF Counting, Stored, TableOK
<1>2. IsFiniteSet(Counting(o)) /\ Cardinality(Counting(o)) \in Nat
    BY <1>1, FS_Subset, FS_CardinalityType
<1>3. Counting(o)' = IF after THEN Counting(o) \cup {id} ELSE Counting(o) \ {id}
    BY DEF Counting, Stored, StoreTypeOK
<1>4. CASE after
    <2>1. /\ IsFiniteSet(Counting(o) \cup {id})
          /\ Cardinality(Counting(o) \cup {id}) =
                IF before THEN Cardinality(Counting(o)) ELSE Cardinality(Counting(o)) + 1
        BY <1>2, FS_AddElement
    <2> QED
        BY <1>2, <1>3, <1>4, <2>1
<1>5. CASE ~after
    <2>1. /\ IsFiniteSet(Counting(o) \ {id})
          /\ Cardinality(Counting(o) \ {id}) =
                IF before THEN Cardinality(Counting(o)) - 1 ELSE Cardinality(Counting(o))
        BY <1>2, FS_RemoveElement
    <2>2. Cardinality(Counting(o)') \in Nat
        BY <1>3, <1>5, <2>1, FS_CardinalityType
    <2> QED
        BY <1>2, <1>3, <1>5, <2>1, <2>2
<1> QED
    BY <1>4, <1>5
-----------------------------------------------------------------------------
(* Callers between their requests. *)

\* What every action does to the items under the ids issued so far: versions
\* never decrease, and an item that keeps its version keeps its job.
Progress ==
    /\ now <= now'
    /\ issued \subseteq issued'
    /\ \A id \in issued :
        /\ version[id] <= version'[id]
        /\ jobs'[id] # NoJob /\ version'[id] = version[id] => jobs'[id] = jobs[id]

\* A request stays consistent with the table while others write to it.
LEMMA RequestStable ==
    ASSUME TypeOK, StoreTypeOK', version' \in [JobId -> Nat], Progress,
           NEW step \in Steps, NEW r \in Request,
           RequestOK(step, r), r.draft_id \notin issued' \ issued
    PROVE  RequestOK(step, r)'
<1>1. r.clock \in Nat /\ now \in Nat /\ now' \in Nat /\ issued \subseteq JobId
    BY DEF TypeOK, StoreTypeOK, Request
<1>2. step \in Creating => DraftOK(r)'
    <2> SUFFICES ASSUME step \in Creating PROVE DraftOK(r)'
        OBVIOUS
    <2>1. DraftOK(r)
        BY DEF RequestOK
    <2>2. r.draft.created_at \in Nat
        BY <2>1 DEF DraftOK, Job
    <2> QED
        BY <1>1, <2>1, <2>2 DEF DraftOK, Progress
<1>3. step \in Writing => SnapOK(r)'
    <2> SUFFICES ASSUME step \in Writing PROVE SnapOK(r)'
        OBVIOUS
    <2>1. SnapOK(r) /\ r.id \in issued
        BY DEF RequestOK
    <2>2. version[r.id] \in Nat /\ version'[r.id] \in Nat /\ r.seen \in Nat
        BY <1>1, <2>1 DEF TypeOK, Request
    <2>3. /\ version[r.id] <= version'[r.id]
          /\ jobs'[r.id] # NoJob /\ version'[r.id] = version[r.id] => jobs'[r.id] = jobs[r.id]
        BY <2>1 DEF Progress
    <2> QED
        BY <2>1, <2>2, <2>3 DEF SnapOK
<1>4. step = "find_evict" \/ (step = "evict" /\ r.call # "delete") => Evictable(r.snap, now)'
    <2> SUFFICES ASSUME step = "find_evict" \/ (step = "evict" /\ r.call # "delete")
                 PROVE  Evictable(r.snap, now)'
        OBVIOUS
    <2>1. Evictable(r.snap, now) /\ SnapOK(r)
        BY DEF RequestOK, Writing
    <2>2. r.snap.created_at \in Nat
        BY <2>1 DEF SnapOK, Job
    <2> QED
        BY <1>1, <2>1, <2>2, ExecutionJobAssumption DEF Evictable, Progress
<1> QED
    BY <1>1, <1>2, <1>3, <1>4 DEF RequestOK, Progress

\* One caller moves on and nothing else changes.
LEMMA QuietStep ==
    ASSUME Inv, NEW c \in Client, NEW step \in Steps, NEW r \in Request,
           RequestOK(step, r),
           \A d \in Client \ {c} : req[d].draft_id = r.draft_id => r.draft_id = NoJob,
           pc' = [pc EXCEPT ![c] = step], req' = [req EXCEPT ![c] = r],
           reply' \in [Client -> Reply], UNCHANGED <<tableVars, now>>
    PROVE  Inv'
<1>1. TypeOK'
    BY DEF Inv, TypeOK, StoreTypeOK, tableVars
<1>2. TableOK' /\ KeysRemembered' /\ CapHolds'
    BY DEF Inv, TableOK, KeysRemembered, CapHolds, Stored, Counting, tableVars
<1>3. ASSUME NEW d \in Client PROVE RequestOK(pc[d], req[d])'
    <2>1. RequestOK(pc'[d], req'[d])
        BY DEF Inv, TypeOK
    <2> QED
        BY <2>1 DEF RequestOK, DraftOK, SnapOK, Evictable, tableVars
<1>4. DraftsDistinct'
    BY DEF Inv, TypeOK, DraftsDistinct
<1> QED
    BY <1>1, <1>2, <1>3, <1>4 DEF Inv

\* One caller moves on and changes the table.
LEMMA TableStep ==
    ASSUME Inv, NEW c \in Client, NEW step \in Steps, NEW r \in Request,
           TypeOK', TableOK', KeysRemembered', CapHolds', Progress,
           RequestOK(step, r)',
           \A d \in Client \ {c} : req[d].draft_id \notin issued' \ issued,
           r.draft_id \in {req[c].draft_id, NoJob},
           pc' = [pc EXCEPT ![c] = step], req' = [req EXCEPT ![c] = r]
    PROVE  Inv'
<1>1. ASSUME NEW d \in Client PROVE RequestOK(pc[d], req[d])'
    <2>1. CASE d = c
        <3>1. pc'[d] = step /\ req'[d] = r
            BY <2>1 DEF Inv, TypeOK
        <3> QED
            BY <3>1 DEF RequestOK, DraftOK, SnapOK, Evictable
    <2>2. CASE d # c
        <3>1. pc'[d] = pc[d] /\ req'[d] = req[d] /\ pc[d] \in Steps /\ req[d] \in Request
            BY <2>2 DEF Inv, TypeOK
        <3>2. \A s \in Steps, q \in Request :
                RequestOK(s, q) /\ q.draft_id \notin issued' \ issued => RequestOK(s, q)'
            BY RequestStable DEF Inv, TypeOK
        <3>3. RequestOK(pc[d], req[d]) /\ req[d].draft_id \notin issued' \ issued
            BY <2>2 DEF Inv
        <3> QED
            BY <3>1, <3>2, <3>3 DEF RequestOK, DraftOK, SnapOK, Evictable
    <2> QED
        BY <2>1, <2>2
<1>2. DraftsDistinct'
    BY DEF Inv, TypeOK, DraftsDistinct
<1> QED
    BY <1>1, <1>2 DEF Inv

\* The table changes and no caller moves.
LEMMA EnvironmentStep ==
    ASSUME Inv, TypeOK', TableOK', KeysRemembered', CapHolds', Progress,
           issued' = issued, UNCHANGED <<pc, req>>
    PROVE  Inv'
<1>1. ASSUME NEW d \in Client PROVE RequestOK(pc[d], req[d])'
    <2>1. pc[d] \in Steps /\ req[d] \in Request /\ RequestOK(pc[d], req[d])
        BY DEF Inv, TypeOK
    <2>2. \A s \in Steps, q \in Request :
            RequestOK(s, q) /\ q.draft_id \notin issued' \ issued => RequestOK(s, q)'
        BY RequestStable DEF Inv, TypeOK
    <2> QED
        BY <2>1, <2>2 DEF RequestOK, DraftOK, SnapOK, Evictable
<1>2. DraftsDistinct'
    BY DEF Inv, DraftsDistinct
<1> QED
    BY <1>1, <1>2 DEF Inv
-----------------------------------------------------------------------------
(* Creation. *)

\* A call that returns leaves its caller idle.
LEMMA ReturnIdle ==
    ASSUME Inv
    PROVE  /\ NoRequest \in Request
           /\ NoRequest.draft_id = NoJob
           /\ RequestOK("idle", NoRequest)
           /\ "idle" \in Steps
<1>1. NoRequest \in Request
    BY DynamoAssumption DEF Request, NoRequest
<1> QED
    BY <1>1 DEF NoRequest, RequestOK, Creating, Finding, Writing, Inv, TypeOK, StoreTypeOK, Steps

LEMMA StartCreateStep ==
    ASSUME Inv, NEW c \in Client, NEW id \in JobId, NEW o \in Owner, NEW k \in Key \cup {NoKey},
           StartCreate(c, id, o, k)
    PROVE  Inv'
<1> DEFINE r == [NoRequest EXCEPT !.call = "create_job", !.draft_id = id, !.draft = NewJob(o, k, 0)]
           step == IF k = NoKey THEN "count" ELSE "find"
<1>1. NewJob(o, k, 0) \in Job /\ NewJob(o, k, 0).owner = o /\ NewJob(o, k, 0).key = k
      /\ NewJob(o, k, 0).created_at = 0
    BY NewJobFacts
<1>2. r \in Request /\ r.draft_id = id /\ r.draft = NewJob(o, k, 0) /\ r.clock = 0
      /\ r.call = "create_job"
    <2>1. NoRequest \in Request /\ NoRequest.clock = 0
        BY ReturnIdle DEF NoRequest
    <2> QED
        BY <1>1, <2>1 DEF Request
<1>3. now \in Nat /\ now >= 0
    BY DEF Inv, TypeOK, StoreTypeOK
<1>4. RequestOK(step, r)
    <2>1. DraftOK(r)
        BY <1>1, <1>2, <1>3 DEF DraftOK, StartCreate
    <2>2. step = "find" => k \in Key
        OBVIOUS
    <2> QED
        BY <1>1, <1>2, <1>3, <2>1, <2>2 DEF RequestOK, Creating, Finding, Writing
<1>5. \A d \in Client \ {c} : req[d].draft_id # id
    BY DEF StartCreate, DraftIds
<1>6. reply' \in [Client -> Reply]
    BY DEF StartCreate, Start, Goto, Reply, NoReply, Inv, TypeOK
<1>7. step \in Steps
    BY DEF Steps
<1> QED
    BY <1>2, <1>4, <1>5, <1>6, <1>7, QuietStep DEF StartCreate, Start, Goto

LEMMA ReturnStep ==
    ASSUME Inv, NEW c \in Client, NEW what \in {"created", "refused", "answered"},
           NEW id \in JobId \cup {NoJob},
           Return(c, what, id), UNCHANGED <<tableVars, now>>
    PROVE  Inv'
<1>1. reply' \in [Client -> Reply]
    BY DEF Return, Reply, Inv, TypeOK
<1> QED
    BY <1>1, ReturnIdle, QuietStep DEF Return

\* A caller that goes to another request of the same call.
LEMMA GotoStep ==
    ASSUME Inv, NEW c \in Client, NEW step \in Steps, NEW r \in Request,
           RequestOK(step, r), r.draft_id = req[c].draft_id,
           Goto(c, step, r), UNCHANGED <<tableVars, now>>
    PROVE  Inv'
<1>1. reply' \in [Client -> Reply]
    BY DEF Goto, Reply, NoReply, Inv, TypeOK
<1>2. \A d \in Client \ {c} : req[d].draft_id = r.draft_id => r.draft_id = NoJob
    BY DEF Inv, DraftsDistinct
<1> QED
    BY <1>1, <1>2, QuietStep DEF Goto

\* After a lookup that found nothing, whichever lookup it was.
LEMMA MissFacts ==
    ASSUME Inv, NEW c \in Client, pc[c] \in Finding, Miss(c)
    PROVE  \E step \in Steps, r \in Request :
              /\ RequestOK(step, r)
              /\ r.draft_id \in {req[c].draft_id, NoJob}
              /\ pc' = [pc EXCEPT ![c] = step]
              /\ req' = [req EXCEPT ![c] = r]
              /\ reply' \in [Client -> Reply]
<1>1. req[c] \in Request /\ RequestOK(pc[c], req[c]) /\ now \in Nat
    BY DEF Inv, TypeOK, StoreTypeOK
<1>2. DraftOK(req[c])
    BY <1>1 DEF RequestOK, Creating
<1>3. CASE req[c].call = "create_job"
    <2>1. Goto(c, "count", req[c])
        BY <1>3 DEF Miss
    <2>2. RequestOK("count", req[c])
        BY <1>1, <1>2, <1>3 DEF RequestOK, Creating, Finding, Writing
    <2>3. reply' \in [Client -> Reply]
        BY <2>1 DEF Goto, Reply, NoReply, Inv, TypeOK
    <2> QED
        BY <1>1, <2>1, <2>2, <2>3 DEF Goto, Steps
<1>4. CASE req[c].call = "create_if_allowed"
    <2> DEFINE r == [req[c] EXCEPT !.clock = now]
    <2>1. Goto(c, "transact", r)
        BY <1>4 DEF Miss
    <2>2. r \in Request /\ r.clock = now /\ r.draft_id = req[c].draft_id /\ r.draft = req[c].draft
          /\ r.call = req[c].call
        BY <1>1 DEF Request
    <2>3. RequestOK("transact", r)
        BY <1>1, <1>2, <1>4, <2>2 DEF RequestOK, DraftOK, Creating, Finding, Writing
    <2>4. reply' \in [Client -> Reply]
        BY <2>1 DEF Goto, Reply, NoReply, Inv, TypeOK
    <2> QED
        BY <2>1, <2>2, <2>3, <2>4 DEF Goto, Steps
<1>5. CASE req[c].call \notin {"create_job", "create_if_allowed"}
    <2>1. Return(c, "refused", NoJob)
        BY <1>5 DEF Miss
    <2>2. reply' \in [Client -> Reply]
        BY <2>1 DEF Return, Reply, Inv, TypeOK
    <2> QED
        BY <2>1, <2>2, ReturnIdle DEF Return
<1> QED
    BY <1>3, <1>4, <1>5

LEMMA MissStep ==
    ASSUME Inv, NEW c \in Client, pc[c] \in Finding, Miss(c), UNCHANGED <<tableVars, now>>
    PROVE  Inv'
<1>1. PICK step \in Steps, r \in Request :
              /\ RequestOK(step, r)
              /\ r.draft_id \in {req[c].draft_id, NoJob}
              /\ pc' = [pc EXCEPT ![c] = step]
              /\ req' = [req EXCEPT ![c] = r]
              /\ reply' \in [Client -> Reply]
    BY MissFacts
<1>2. \A d \in Client \ {c} : req[d].draft_id = r.draft_id => r.draft_id = NoJob
    BY <1>1 DEF Inv, DraftsDistinct
<1> QED
    BY <1>1, <1>2, QuietStep

LEMMA FindStep ==
    ASSUME Inv, NEW c \in Client, Find(c)
    PROVE  Inv'
<1> DEFINE rec == idem[KeyOf(req[c].draft)]
           r == [req[c] EXCEPT !.id = rec.job_id]
<1>1. req[c] \in Request /\ RequestOK("find", req[c]) /\ pc[c] = "find"
    BY DEF Inv, TypeOK, Find
<1>2. CASE Miss(c)
    BY <1>1, <1>2, MissStep DEF Find, Finding
<1>3. CASE ~(rec = NoRecord \/ rec.created_at < now - Window)
    <2>1. KeyOf(req[c].draft) \in Owner \X Key
        BY <1>1 DEF RequestOK, DraftOK, Creating, Finding, KeyOf, Job
    <2>2. rec \in Record /\ rec.job_id \in issued
        BY <1>3, <2>1 DEF Inv, TypeOK, TableOK
    <2>3. r \in Request /\ r.draft_id = req[c].draft_id /\ r.draft = req[c].draft
          /\ r.clock = req[c].clock /\ r.call = req[c].call /\ r.fn = req[c].fn /\ r.id = rec.job_id
        BY <1>1, <2>2 DEF Request, Record
    <2>4. RequestOK("find_get", r)
        BY <1>1, <2>2, <2>3 DEF RequestOK, DraftOK, Creating, Finding, Writing
    <2>5. Goto(c, "find_get", r)
        BY <1>3 DEF Find
    <2> QED
        BY <2>3, <2>4, <2>5, GotoStep DEF Find, Steps
<1> QED
    BY <1>2, <1>3 DEF Find

\* A request that carries the item just read.
LEMMA ReadFacts ==
    ASSUME Inv, NEW c \in Client, req[c].id \in issued, jobs[req[c].id] # NoJob
    PROVE  LET r == [req[c] EXCEPT !.snap = jobs[req[c].id], !.seen = version[req[c].id]]
           IN  /\ r \in Request /\ r.snap = jobs[req[c].id]
               /\ SnapOK(r)
               /\ r.id = req[c].id /\ r.draft_id = req[c].draft_id /\ r.draft = req[c].draft
               /\ r.clock = req[c].clock /\ r.call = req[c].call /\ r.fn = req[c].fn
<1>1. req[c] \in Request /\ req[c].id \in JobId
    BY DEF Inv, TypeOK, StoreTypeOK
<1>2. jobs[req[c].id] \in Job /\ version[req[c].id] \in Nat
    BY <1>1 DEF Inv, TypeOK, StoreTypeOK
<1> DEFINE r == [req[c] EXCEPT !.snap = jobs[req[c].id], !.seen = version[req[c].id]]
<1>3. r \in Request
    BY <1>1, <1>2 DEF Request
<1>4. /\ r.id = req[c].id /\ r.draft_id = req[c].draft_id /\ r.draft = req[c].draft
      /\ r.clock = req[c].clock /\ r.call = req[c].call /\ r.fn = req[c].fn
      /\ r.snap = jobs[req[c].id] /\ r.seen = version[req[c].id]
    BY <1>1 DEF Request
<1> HIDE DEF r
<1>5. SnapOK(r)
    BY <1>1, <1>2, <1>4 DEF SnapOK
<1> QED
    BY <1>3, <1>4, <1>5 DEF r

LEMMA FindGetStep ==
    ASSUME Inv, NEW c \in Client, FindGet(c)
    PROVE  Inv'
<1> DEFINE id == req[c].id
           r == [req[c] EXCEPT !.snap = jobs[id], !.seen = version[id]]
<1>1. req[c] \in Request /\ RequestOK("find_get", req[c]) /\ pc[c] = "find_get"
    BY DEF Inv, TypeOK, FindGet
<1>2. CASE Miss(c)
    BY <1>1, <1>2, MissStep DEF FindGet, Finding
<1>3. CASE jobs[id] # NoJob /\ Evictable(jobs[id], now) /\ Goto(c, "find_evict", r)
    <2>1. id \in issued
        BY <1>1 DEF RequestOK
    <2>2. r \in Request /\ r.snap = jobs[id] /\ SnapOK(r) /\ r.id = id /\ r.draft_id = req[c].draft_id
          /\ r.draft = req[c].draft /\ r.clock = req[c].clock /\ r.call = req[c].call /\ r.fn = req[c].fn
        BY <1>3, <2>1, ReadFacts
    <2>3. RequestOK("find_evict", r)
        BY <1>1, <1>3, <2>1, <2>2 DEF RequestOK, DraftOK, Creating, Finding, Writing
    <2> QED
        BY <1>3, <2>2, <2>3, GotoStep DEF FindGet, Steps
<1>4. CASE Answer(c)
    BY <1>4, ReturnStep DEF FindGet, Answer
<1> QED
    BY <1>2, <1>3, <1>4 DEF FindGet

LEMMA CountActiveStep ==
    ASSUME Inv, NEW c \in Client, CountActive(c)
    PROVE  Inv'
<1>1. req[c] \in Request /\ RequestOK("count", req[c])
    BY DEF Inv, TypeOK, CountActive
<1>2. CASE Return(c, "refused", NoJob)
    BY <1>2, ReturnStep DEF CountActive
<1>3. CASE Goto(c, "build", req[c])
    <2>1. RequestOK("build", req[c])
        BY <1>1 DEF RequestOK, Creating, Finding, Writing
    <2> QED
        BY <1>1, <1>3, <2>1, GotoStep DEF CountActive, Steps
<1> QED
    BY <1>2, <1>3 DEF CountActive

LEMMA BuildStep ==
    ASSUME Inv, NEW c \in Client, Build(c)
    PROVE  Inv'
<1> DEFINE job == req[c].draft
           new == NewJob(job.owner, job.key, now)
           r == [req[c] EXCEPT !.call = "create_if_allowed", !.draft = new]
           step == IF job.key = NoKey THEN "transact" ELSE "find"
<1>1. req[c] \in Request /\ RequestOK("build", req[c]) /\ now \in Nat
    BY DEF Inv, TypeOK, StoreTypeOK, Build
<1>2. DraftOK(req[c])
    BY <1>1 DEF RequestOK, Creating
<1>3. new \in Job /\ new.created_at = now /\ new.key = job.key
      /\ new = NewJob(new.owner, new.key, new.created_at)
    <2>1. job.owner \in Owner /\ job.key \in Key \cup {NoKey}
        BY <1>2 DEF DraftOK, Job
    <2> QED
        BY <1>1, <2>1, NewJobFacts
<1> HIDE DEF new
<1>4. r \in Request /\ r.draft = new /\ r.draft_id = req[c].draft_id /\ r.clock = req[c].clock
      /\ r.call = "create_if_allowed"
    BY <1>1, <1>3 DEF Request
<1>5. RequestOK(step, r)
    <2>1. DraftOK(r)
        BY <1>1, <1>2, <1>3, <1>4 DEF DraftOK
    <2>2. step = "find" => job.key \in Key
        BY <1>2 DEF DraftOK, Job
    <2> QED
        BY <1>1, <1>3, <1>4, <2>1, <2>2 DEF RequestOK, Creating, Finding, Writing
<1>6. step \in Steps
    BY DEF Steps
<1> QED
    BY <1>4, <1>5, <1>6, GotoStep DEF Build, new

LEMMA TransactFailsStep ==
    ASSUME Inv, NEW c \in Client, TransactFails(c)
    PROVE  Inv'
<1> DEFINE r == [req[c] EXCEPT !.call = "lost_key"]
<1>1. req[c] \in Request /\ RequestOK("transact", req[c])
    BY DEF Inv, TypeOK, TransactFails
<1>2. CASE Return(c, "refused", NoJob)
    BY <1>2, ReturnStep DEF TransactFails
<1>3. CASE ~KeyFree(c) /\ Goto(c, "find", r)
    <2>1. r \in Request /\ r.draft_id = req[c].draft_id /\ r.draft = req[c].draft
          /\ r.clock = req[c].clock /\ r.call = "lost_key"
        BY <1>1 DEF Request
    <2>2. DraftOK(req[c])
        BY <1>1 DEF RequestOK, Creating
    <2>3. r.draft.key \in Key
        BY <1>3, <2>1, <2>2 DEF KeyFree, DraftOK, Job
    <2>4. RequestOK("find", r)
        BY <1>1, <2>1, <2>2, <2>3 DEF RequestOK, DraftOK, Creating, Finding, Writing
    <2> QED
        BY <1>3, <2>1, <2>4, GotoStep DEF TransactFails, Steps
<1> QED
    BY <1>2, <1>3 DEF TransactFails
-----------------------------------------------------------------------------
(* Writes. *)

TableInv ==
    /\ StoreTypeOK
    /\ version \in [JobId -> Nat]
    /\ idem \in [Owner \X Key -> Record \cup {NoRecord}]
    /\ slots \in [Owner -> Int]
    /\ TableOK
    /\ KeysRemembered
    /\ CapHolds

\* An eviction removes the item that was read, with the slot it holds, or
\* changes nothing.
LEMMA EvictFacts ==
    ASSUME Inv, NEW c \in Client, pc[c] \in {"find_evict", "evict"}, EvictItem(c), now' = now
    PROVE  TableInv' /\ Progress /\ issued' = issued
<1> DEFINE id == req[c].id
           job == req[c].snap
<1>1. SnapOK(req[c]) /\ id \in issued /\ id \in JobId /\ job \in Job
    BY DEF Inv, TypeOK, StoreTypeOK, RequestOK, Writing, SnapOK
<1>2. CASE ~Unchanged(c)
    <2>1. UNCHANGED <<jobs, issued, version, idem, slots, now>>
        BY <1>2 DEF EvictItem, tableVars
    <2> QED
        BY <2>1 DEF Inv, TypeOK, StoreTypeOK, TableInv, TableOK, KeysRemembered, CapHolds,
                    Stored, Counting, Progress
<1>3. CASE Unchanged(c)
    <2>1. /\ jobs' = [jobs EXCEPT ![id] = NoJob]
          /\ slots' = [slots EXCEPT ![job.owner] = @ - CountsAsInt(job)]
          /\ UNCHANGED <<issued, version, idem, now>>
        BY <1>3 DEF EvictItem
    <2>2. jobs[id] = job /\ jobs[id] # NoJob /\ job.owner \in Owner
        BY <1>1, <1>3 DEF Unchanged, SnapOK, Job
    <2>3. StoreTypeOK' /\ slots' \in [Owner -> Int]
        <3>1. CountsAsInt(job) \in Int
            BY DEF CountsAsInt
        <3>2. StoreTypeOK'
            BY <2>1 DEF Inv, TypeOK, StoreTypeOK
        <3>3. slots' \in [Owner -> Int]
            BY <2>1, <2>2, <3>1 DEF Inv, TypeOK
        <3> QED
            BY <3>2, <3>3
    <2>4. \A i \in JobId : jobs'[i] # NoJob => jobs'[i] = jobs[i]
        BY <1>1, <2>1 DEF Inv, TypeOK, StoreTypeOK
    <2>5. TableOK' /\ KeysRemembered' /\ Progress
        <3>1. TableOK'
            BY <2>1, <2>4 DEF Inv, TableOK, Stored
        <3>2. KeysRemembered'
            BY <2>1, <2>4 DEF Inv, KeysRemembered, KeyOf, Stored
        <3>3. Progress
            BY <2>1, <2>4 DEF Inv, TypeOK, StoreTypeOK, Progress
        <3> QED
            BY <3>1, <3>2, <3>3
    <2>6. CapHolds'
        <3> SUFFICES ASSUME NEW o \in Owner
                     PROVE  Cardinality(Counting(o))' <= slots'[o] /\ slots'[o] <= MaxActive
            BY DEF CapHolds
        <3>1. Cardinality(Counting(o)) <= slots[o] /\ slots[o] <= MaxActive /\ slots[o] \in Int
            BY DEF Inv, CapHolds, TypeOK
        <3>2. /\ Cardinality(Counting(o)) \in Nat /\ Cardinality(Counting(o)') \in Nat
              /\ id \in Counting(o) => Cardinality(Counting(o)') = Cardinality(Counting(o)) - 1
              /\ id \notin Counting(o) => Cardinality(Counting(o)') = Cardinality(Counting(o))
            BY <1>1, <2>1, CountAfterWrite DEF Inv, TypeOK
        <3>3. CASE o = job.owner
            <4>1. id \in Counting(o) <=> Counts(job)
                BY <1>1, <2>2, <3>3 DEF Counting, Stored
            <4>2. slots'[o] = slots[o] - CountsAsInt(job)
                BY <2>1, <2>2, <3>3 DEF Inv, TypeOK
            <4> QED
                BY <3>1, <3>2, <4>1, <4>2, JobStoreAssumption DEF CountsAsInt
        <3>4. CASE o # job.owner
            <4>1. id \notin Counting(o)
                BY <2>2, <3>4 DEF Counting
            <4>2. slots'[o] = slots[o]
                BY <2>1, <3>4 DEF Inv, TypeOK
            <4> QED
                BY <3>1, <3>2, <4>1, <4>2
        <3> QED
            BY <3>3, <3>4
    <2> QED
        BY <2>1, <2>3, <2>5, <2>6 DEF TableInv, Inv, TypeOK
<1> QED
    BY <1>2, <1>3

LEMMA FindEvictStep ==
    ASSUME Inv, NEW c \in Client, FindEvict(c)
    PROVE  Inv'
<1>1. TableInv' /\ Progress /\ issued' = issued
    BY EvictFacts DEF FindEvict
<1>2. PICK step \in Steps, r \in Request :
              /\ RequestOK(step, r)
              /\ r.draft_id \in {req[c].draft_id, NoJob}
              /\ pc' = [pc EXCEPT ![c] = step]
              /\ req' = [req EXCEPT ![c] = r]
              /\ reply' \in [Client -> Reply]
    BY MissFacts DEF FindEvict, Finding
<1>3. TypeOK'
    BY <1>1, <1>2 DEF TypeOK, TableInv, Inv
<1>4. RequestOK(step, r)'
    BY <1>1, <1>2, RequestStable DEF Inv, TableInv
<1> QED
    BY <1>1, <1>2, <1>3, <1>4, TableStep DEF TableInv

LEMMA EvictStep ==
    ASSUME Inv, NEW c \in Client, Evict(c)
    PROVE  Inv'
<1>1. TableInv' /\ Progress /\ issued' = issued
    BY EvictFacts DEF Evict
<1>2. /\ pc' = [pc EXCEPT ![c] = "idle"]
      /\ req' = [req EXCEPT ![c] = NoRequest]
      /\ reply' \in [Client -> Reply]
    BY DEF Evict, Answer, Return, Reply, Inv, TypeOK
<1>3. TypeOK'
    BY <1>1, <1>2, ReturnIdle DEF TypeOK, TableInv, Inv
<1>4. RequestOK("idle", NoRequest)'
    BY <1>1, ReturnIdle, RequestStable DEF Inv, TableInv
<1> QED
    BY <1>1, <1>2, <1>3, <1>4, ReturnIdle, TableStep DEF TableInv

\* A conditional write applies the closure to the job that is stored.
LEMMA CommitFacts ==
    ASSUME Inv, NEW c \in Client, Commit(c)
    PROVE  /\ req[c].id \in issued /\ jobs[req[c].id] = req[c].snap
           /\ req[c].snap \in Job /\ req[c].fn \in Mutation
           /\ req[c].clock \in 0..now
           /\ jobs' = [jobs EXCEPT ![req[c].id] = Apply(req[c].fn, jobs[req[c].id], req[c].clock)]
           /\ UNCHANGED <<issued, now>>
<1>1. req[c] \in Request /\ RequestOK("commit", req[c])
    BY DEF Inv, TypeOK, Commit
<1>2. SnapOK(req[c]) /\ req[c].id \in issued /\ req[c].fn \in Fns /\ req[c].clock <= now
    BY <1>1 DEF RequestOK, Writing
<1>3. jobs[req[c].id] = req[c].snap
    BY <1>2 DEF SnapOK, Commit, Unchanged
<1> QED
    BY <1>1, <1>2, <1>3, DynamoAssumption DEF SnapOK, Commit, WriteItem, Request, Inv, TypeOK, StoreTypeOK

LEMMA CommitStep ==
    ASSUME Inv, NEW c \in Client, Commit(c)
    PROVE  Inv'
<1> DEFINE id == req[c].id
           job == req[c].snap
           new == Apply(req[c].fn, job, req[c].clock)
<1>1. /\ id \in issued /\ id \in JobId /\ jobs[id] = job /\ job \in Job
      /\ jobs' = [jobs EXCEPT ![id] = new] /\ UNCHANGED <<issued, now>>
      /\ req[c].fn \in Mutation /\ req[c].clock \in Nat
    BY CommitFacts DEF Inv, TypeOK, StoreTypeOK
<1>2. /\ new \in Job /\ new.owner = job.owner /\ new.key = job.key
      /\ new.created_at = job.created_at /\ (Counts(new) => Counts(job))
    BY <1>1, ApplyFacts
<1>3. /\ version' = [version EXCEPT ![id] = version[id] + 1]
      /\ slots' = [slots EXCEPT ![job.owner] = @ + CountsAsInt(new) - CountsAsInt(job)]
      /\ idem' = idem
    BY <1>2 DEF Commit, WriteItem, Unchanged
<1> HIDE DEF new
<1>4. job.owner \in Owner /\ job # NoJob /\ new # NoJob
    BY <1>1, <1>2, JobStoreAssumption DEF Job
<1>5. StoreTypeOK' /\ version' \in [JobId -> Nat] /\ slots' \in [Owner -> Int]
    BY <1>1, <1>2, <1>3, <1>4 DEF Inv, TypeOK, StoreTypeOK, CountsAsInt
<1>6. TableOK'
    BY <1>1, <1>3, <1>4 DEF Inv, TypeOK, StoreTypeOK, TableOK, Stored
<1>7. KeysRemembered'
    <2> SUFFICES ASSUME NEW i \in Stored', jobs'[i].key # NoKey,
                        jobs'[i].created_at >= now' - Window
                 PROVE  /\ idem'[KeyOf(jobs'[i])] # NoRecord
                        /\ idem'[KeyOf(jobs'[i])].created_at >= jobs'[i].created_at
        BY DEF KeysRemembered, KeyOf
    <2>1. i \in Stored /\ jobs'[i].key = jobs[i].key /\ jobs'[i].owner = jobs[i].owner
          /\ jobs'[i].created_at = jobs[i].created_at
        BY <1>1, <1>2, <1>4 DEF Stored, Inv, TypeOK, StoreTypeOK
    <2> QED
        BY <1>1, <1>3, <2>1 DEF Inv, KeysRemembered, KeyOf
<1>8. CapHolds'
    <2> SUFFICES ASSUME NEW o \in Owner
                 PROVE  Cardinality(Counting(o))' <= slots'[o] /\ slots'[o] <= MaxActive
        BY DEF CapHolds
    <2>1. Cardinality(Counting(o)) <= slots[o] /\ slots[o] <= MaxActive /\ slots[o] \in Int
        BY DEF Inv, CapHolds, TypeOK
    <2>2. LET after == new.owner = o /\ Counts(new) IN
          /\ Cardinality(Counting(o)) \in Nat /\ Cardinality(Counting(o)') \in Nat
          /\ id \in Counting(o) /\ after => Cardinality(Counting(o)') = Cardinality(Counting(o))
          /\ id \notin Counting(o) /\ ~after => Cardinality(Counting(o)') = Cardinality(Counting(o))
          /\ id \in Counting(o) /\ ~after => Cardinality(Counting(o)') = Cardinality(Counting(o)) - 1
        <3>1. StoreTypeOK /\ TableOK
            BY DEF Inv, TypeOK
        <3>2. new \in Job \cup {NoJob} /\ new # NoJob /\ id \in JobId /\ jobs' = [jobs EXCEPT ![id] = new]
            BY <1>1, <1>2, <1>4
        <3> QED
            BY <3>1, <3>2, CountAfterWrite
    <2>3. CASE o = job.owner
        <3>1. id \in Counting(o) <=> Counts(job)
            BY <1>1, <1>4, <2>3 DEF Counting, Stored
        <3>2. slots'[o] = slots[o] + CountsAsInt(new) - CountsAsInt(job)
            BY <1>3, <1>4, <2>3 DEF Inv, TypeOK
        <3> QED
            BY <1>2, <2>1, <2>2, <2>3, <3>1, <3>2, JobStoreAssumption DEF CountsAsInt
    <2>4. CASE o # job.owner
        <3>1. id \notin Counting(o) /\ new.owner # o
            BY <1>1, <1>2, <2>4 DEF Counting
        <3>2. slots'[o] = slots[o]
            BY <1>3, <2>4 DEF Inv, TypeOK
        <3> QED
            BY <2>1, <2>2, <3>1, <3>2
    <2> QED
        BY <2>3, <2>4
<1>9. Progress
    BY <1>1, <1>3 DEF Progress, Inv, TypeOK, StoreTypeOK
<1>10. /\ pc' = [pc EXCEPT ![c] = "idle"]
       /\ req' = [req EXCEPT ![c] = NoRequest]
       /\ reply' \in [Client -> Reply]
    BY DEF Commit, Answer, Return, Reply, Inv, TypeOK
<1>11. TypeOK'
    BY <1>3, <1>5, <1>10, ReturnIdle DEF TypeOK, Inv
<1>12. RequestOK("idle", NoRequest)'
    BY <1>1, <1>5, <1>9, ReturnIdle, RequestStable DEF Inv
<1> QED
    BY <1>1, <1>6, <1>7, <1>8, <1>9, <1>10, <1>11, <1>12, ReturnIdle, TableStep

LEMMA TransactCreateStep ==
    ASSUME Inv, NEW c \in Client, TransactCreate(c)
    PROVE  Inv'
<1> DEFINE job == req[c].draft
           id == req[c].draft_id
           k == KeyOf(job)
<1>1. /\ req[c] \in Request /\ RequestOK("transact", req[c]) /\ now \in Nat
      /\ req[c].clock \in Nat /\ req[c].clock <= now
    BY DEF Inv, TypeOK, StoreTypeOK, TransactCreate, Request, RequestOK
<1>2. DraftOK(req[c])
    BY <1>1 DEF RequestOK, Creating
<1>3. /\ job \in Job /\ job.owner \in Owner /\ job.key \in Key \cup {NoKey}
      /\ job.created_at \in Nat /\ job.created_at <= now /\ Counts(job) /\ job # NoJob
      /\ id \in JobId /\ id \notin issued
    BY <1>2, NewJobFacts, JobStoreAssumption DEF DraftOK, Job
<1>4. /\ jobs[id] = NoJob
      /\ slots[job.owner] < MaxActive
      /\ jobs' = [jobs EXCEPT ![id] = job]
      /\ version' = [version EXCEPT ![id] = 1]
      /\ slots' = [slots EXCEPT ![job.owner] = @ + 1]
      /\ issued' = issued \cup {id}
      /\ now' = now
    BY DEF TransactCreate, SlotFree
<1>5. idem' = IF job.key = NoKey THEN idem
              ELSE [idem EXCEPT ![k] = [job_id |-> id, created_at |-> job.created_at]]
    BY DEF TransactCreate
<1> HIDE DEF job, id
<1>6. StoreTypeOK' /\ version' \in [JobId -> Nat] /\ slots' \in [Owner -> Int]
    BY <1>3, <1>4 DEF Inv, TypeOK, StoreTypeOK
<1>7. idem' \in [Owner \X Key -> Record \cup {NoRecord}]
    BY <1>3, <1>5 DEF Inv, TypeOK, Record
<1>8. TableOK'
    <2>1. \A i \in Stored' : i \in issued'
        BY <1>4 DEF Inv, TypeOK, StoreTypeOK, TableOK, Stored
    <2>2. IsFiniteSet(issued')
        BY <1>4, FS_AddElement DEF Inv, TableOK
    <2>3. \A ok \in Owner \X Key : idem'[ok] # NoRecord => idem'[ok].job_id \in issued'
        BY <1>3, <1>4, <1>5 DEF Inv, TypeOK, TableOK
    <2> QED
        BY <2>1, <2>2, <2>3 DEF TableOK
<1>9. KeysRemembered'
    <2> SUFFICES ASSUME NEW i \in Stored', jobs'[i].key # NoKey,
                        jobs'[i].created_at >= now' - Window
                 PROVE  /\ idem'[KeyOf(jobs'[i])] # NoRecord
                        /\ idem'[KeyOf(jobs'[i])].created_at >= jobs'[i].created_at
        BY DEF KeysRemembered, KeyOf
    <2>1. CASE i = id
        <3>1. jobs'[i] = job /\ job.key \in Key
            BY <1>3, <1>4, <2>1 DEF Inv, TypeOK, StoreTypeOK
        <3>2. idem'[k] = [job_id |-> id, created_at |-> job.created_at]
            BY <1>3, <1>5, <3>1, ExecutionJobAssumption DEF Inv, TypeOK, KeyOf
        <3>3. idem'[k] \in Record
            BY <1>3, <3>2 DEF Record
        <3> QED
            BY <1>3, <3>1, <3>2, <3>3, DynamoAssumption
    <2>2. CASE i # id
        <3>1. i \in Stored /\ jobs'[i] = jobs[i] /\ jobs[i] \in Job
            BY <1>4, <2>2 DEF Stored, Inv, TypeOK, StoreTypeOK
        <3>2. /\ idem[KeyOf(jobs[i])] # NoRecord
              /\ idem[KeyOf(jobs[i])].created_at >= jobs[i].created_at
            BY <1>4, <3>1 DEF Inv, KeysRemembered
        <3>3. KeyOf(jobs[i]) \in Owner \X Key
            BY <3>1 DEF KeyOf, Job
        <3>4. ASSUME job.key # NoKey, KeyOf(jobs[i]) = k PROVE FALSE
            <4>1. idem[k].created_at < req[c].clock - Window
                BY <3>2, <3>4 DEF TransactCreate, KeyFree, job
            <4>2. idem[k] \in Record /\ jobs[i].created_at \in Nat
                BY <3>1, <3>2, <3>3, <3>4 DEF Inv, TypeOK, Job
            <4> QED
                BY <1>1, <1>4, <3>1, <3>2, <3>4, <4>1, <4>2, JobStoreAssumption DEF Record
        <3>5. idem'[KeyOf(jobs[i])] = idem[KeyOf(jobs[i])]
            BY <1>5, <3>3, <3>4 DEF Inv, TypeOK
        <3> QED
            BY <3>1, <3>2, <3>5
    <2> QED
        BY <2>1, <2>2
<1>10. CapHolds'
    <2> SUFFICES ASSUME NEW o \in Owner
                 PROVE  Cardinality(Counting(o))' <= slots'[o] /\ slots'[o] <= MaxActive
        BY DEF CapHolds
    <2>1. Cardinality(Counting(o)) <= slots[o] /\ slots[o] <= MaxActive /\ slots[o] \in Int
        BY DEF Inv, CapHolds, TypeOK
    <2>2. id \notin Counting(o)
        BY <1>4 DEF Counting, Stored
    <2>3. /\ Cardinality(Counting(o)) \in Nat /\ Cardinality(Counting(o)') \in Nat
          /\ job.owner # o => Cardinality(Counting(o)') = Cardinality(Counting(o))
          /\ job.owner = o => Cardinality(Counting(o)') = Cardinality(Counting(o)) + 1
        <3>1. StoreTypeOK /\ TableOK
            BY DEF Inv, TypeOK
        <3>2. LET after == job # NoJob /\ job.owner = o /\ Counts(job) IN
              /\ Cardinality(Counting(o)) \in Nat /\ Cardinality(Counting(o)') \in Nat
              /\ ~after => Cardinality(Counting(o)') = Cardinality(Counting(o))
              /\ after => Cardinality(Counting(o)') = Cardinality(Counting(o)) + 1
            BY <1>3, <1>4, <2>2, <3>1, CountAfterWrite
        <3> QED
            BY <1>3, <3>2
    <2>4. slots'[o] = IF o = job.owner THEN slots[o] + 1 ELSE slots[o]
        BY <1>3, <1>4 DEF Inv, TypeOK
    <2> QED
        BY <1>4, <2>1, <2>3, <2>4, JobStoreAssumption
<1>11. Progress
    BY <1>1, <1>3, <1>4 DEF Progress, Inv, TypeOK, StoreTypeOK
<1>12. /\ pc' = [pc EXCEPT ![c] = "idle"]
       /\ req' = [req EXCEPT ![c] = NoRequest]
       /\ reply' \in [Client -> Reply]
    BY <1>3 DEF TransactCreate, Return, Reply, Inv, TypeOK, id
<1>13. TypeOK'
    BY <1>6, <1>7, <1>12, ReturnIdle DEF TypeOK, Inv
<1>14. NoRequest.draft_id \notin issued' \ issued
    BY <1>3, <1>4, ReturnIdle, DynamoAssumption
<1>15. RequestOK("idle", NoRequest)'
    BY <1>6, <1>11, <1>14, ReturnIdle, RequestStable DEF Inv
<1>16. \A d \in Client \ {c} : req[d].draft_id \notin issued' \ issued
    <2>1. \A d \in Client \ {c} : req[d].draft_id # id
        BY <1>3, DynamoAssumption DEF Inv, DraftsDistinct, id
    <2> QED
        BY <1>4, <2>1
<1> QED
    BY <1>8, <1>9, <1>10, <1>11, <1>12, <1>13, <1>15, <1>16, ReturnIdle, TableStep

-----------------------------------------------------------------------------
(* The other requests of get, delete and mutate. *)

LEMMA StartCallStep ==
    ASSUME Inv, NEW c \in Client, NEW r \in Request, Start(c, "read", r),
           RequestOK("read", r), r.draft_id = NoJob
    PROVE  Inv'
<1>1. reply' \in [Client -> Reply]
    BY DEF Start, Goto, Reply, NoReply, Inv, TypeOK
<1> QED
    BY <1>1, QuietStep DEF Start, Goto, Steps

LEMMA NewCallStep ==
    ASSUME Inv, NEW c \in Client, NEW r \in Request, Start(c, "read", r),
           r.id \in issued, r.clock <= now, r.draft_id = NoJob, r.call = "mutate" => r.fn \in Fns
    PROVE  Inv'
<1>1. RequestOK("read", r)
    BY DEF RequestOK, Creating, Finding, Writing
<1> QED
    BY <1>1, StartCallStep

LEMMA StartGetStep ==
    ASSUME Inv, NEW c \in Client, NEW id \in JobId, StartGet(c, id)
    PROVE  Inv'
<1> DEFINE r == [NoRequest EXCEPT !.call = "get", !.id = id]
<1>1. NoRequest \in Request /\ NoRequest.draft_id = NoJob /\ NoRequest.clock = 0 /\ 0 <= now
    BY ReturnIdle DEF NoRequest, Inv, TypeOK, StoreTypeOK
<1>2. r \in Request /\ r.id = id /\ r.clock = 0 /\ r.draft_id = NoJob /\ r.call = "get"
    BY <1>1 DEF Request
<1> QED
    BY <1>1, <1>2, NewCallStep DEF StartGet

LEMMA StartDeleteStep ==
    ASSUME Inv, NEW c \in Client, NEW id \in JobId, StartDelete(c, id)
    PROVE  Inv'
<1> DEFINE r == [NoRequest EXCEPT !.call = "delete", !.id = id]
<1>1. NoRequest \in Request /\ NoRequest.draft_id = NoJob /\ NoRequest.clock = 0 /\ 0 <= now
    BY ReturnIdle DEF NoRequest, Inv, TypeOK, StoreTypeOK
<1>2. r \in Request /\ r.id = id /\ r.clock = 0 /\ r.draft_id = NoJob /\ r.call = "delete"
    BY <1>1 DEF Request
<1> QED
    BY <1>1, <1>2, NewCallStep DEF StartDelete

LEMMA StartMutateStep ==
    ASSUME Inv, NEW c \in Client, NEW id \in JobId, NEW f \in Fns, StartMutate(c, id, f)
    PROVE  Inv'
<1> DEFINE t == IF f.kind = "finalize" THEN now ELSE 0
           r == [NoRequest EXCEPT !.call = "mutate", !.id = id, !.fn = f, !.clock = t]
<1>1. NoRequest \in Request /\ NoRequest.draft_id = NoJob /\ t \in Nat /\ t <= now
    BY ReturnIdle DEF Inv, TypeOK, StoreTypeOK
<1> HIDE DEF t
<1>2. /\ r \in Request /\ r.id = id /\ r.clock = t /\ r.draft_id = NoJob
      /\ r.call = "mutate" /\ r.fn = f
    BY <1>1 DEF Request
<1> QED
    BY <1>1, <1>2, NewCallStep DEF StartMutate, t

LEMMA ReadStep ==
    ASSUME Inv, NEW c \in Client, Read(c)
    PROVE  Inv'
<1> DEFINE id == req[c].id
           r == [req[c] EXCEPT !.snap = jobs[id], !.seen = version[id]]
<1>1. req[c] \in Request /\ RequestOK("read", req[c])
    BY DEF Inv, TypeOK, Read
<1>2. id \in issued /\ req[c].draft_id = NoJob
    BY <1>1 DEF RequestOK, Creating, Finding
<1>3. CASE Answer(c)
    BY <1>3, ReturnStep DEF Read, Answer
<1>4. ASSUME jobs[id] # NoJob, NEW step \in {"evict", "commit"}, Goto(c, step, r),
             step = "commit" => req[c].call = "mutate",
             step = "evict" => req[c].call = "delete" \/ Evictable(jobs[id], now)
      PROVE  Inv'
    <2>1. r \in Request /\ r.snap = jobs[id] /\ SnapOK(r) /\ r.id = id /\ r.draft_id = req[c].draft_id
          /\ r.draft = req[c].draft /\ r.clock = req[c].clock /\ r.call = req[c].call /\ r.fn = req[c].fn
        BY <1>2, <1>4, ReadFacts
    <2>2. RequestOK(step, r)
        BY <1>1, <1>2, <1>4, <2>1 DEF RequestOK, Creating, Finding, Writing
    <2> QED
        BY <1>4, <2>1, <2>2, GotoStep DEF Read, Steps
<1> QED
    BY <1>3, <1>4 DEF Read

\* A failed attempt of a mutate.
LEMMA RetryStep ==
    ASSUME Inv, NEW c \in Client, pc[c] = "commit", Retry(c), UNCHANGED <<tableVars, now>>
    PROVE  Inv'
<1> DEFINE n == req[c].attempts + 1
           r == [req[c] EXCEPT !.attempts = n, !.snap = NoJob, !.seen = 0]
<1>1. req[c] \in Request /\ RequestOK("commit", req[c])
    BY DEF Inv, TypeOK
<1>2. CASE n = MaxAttempts
    BY <1>2, ReturnStep DEF Retry, Answer
<1>3. CASE n # MaxAttempts
    <2>1. n \in 0..MaxAttempts-1
        BY <1>1, <1>3, DynamoAssumption DEF Request
    <2>2. /\ r \in Request /\ r.id = req[c].id /\ r.draft_id = req[c].draft_id
          /\ r.clock = req[c].clock /\ r.call = req[c].call /\ r.fn = req[c].fn
        BY <1>1, <2>1 DEF Request
    <2>3. RequestOK("read", r)
        BY <1>1, <2>2 DEF RequestOK, Creating, Finding, Writing
    <2> QED
        BY <1>3, <2>2, <2>3, GotoStep DEF Retry, Steps
<1> QED
    BY <1>2, <1>3

LEMMA ConflictStep ==
    ASSUME Inv, NEW c \in Client, Conflict(c)
    PROVE  Inv'
<1>1. CASE Return(c, "refused", NoJob)
    BY <1>1, ReturnStep DEF Conflict
<1>2. CASE pc[c] = "commit" /\ Retry(c)
    BY <1>2, RetryStep DEF Conflict
<1>3. CASE pc[c] = "find_evict" /\ Miss(c)
    BY <1>3, MissStep DEF Conflict, Finding
<1>4. CASE Answer(c)
    BY <1>4, ReturnStep DEF Conflict, Answer
<1> QED
    BY <1>1, <1>2, <1>3, <1>4 DEF Conflict

-----------------------------------------------------------------------------
(* The environment. *)

LEMMA AdvanceStep ==
    ASSUME Inv, Advance
    PROVE  Inv'
<1>1. now \in Nat /\ now' = now + 1 /\ UNCHANGED <<tableVars, pc, req, reply>>
    BY DEF Advance, Inv, TypeOK, StoreTypeOK
<1>2. TypeOK' /\ Progress
    BY <1>1 DEF Inv, TypeOK, StoreTypeOK, Progress, tableVars
<1>3. TableOK' /\ CapHolds'
    BY <1>1 DEF Inv, TableOK, CapHolds, Stored, Counting, tableVars
<1>4. KeysRemembered'
    <2> SUFFICES ASSUME NEW i \in Stored, jobs[i].key # NoKey, jobs[i].created_at >= now' - Window
                 PROVE  /\ idem[KeyOf(jobs[i])] # NoRecord
                        /\ idem[KeyOf(jobs[i])].created_at >= jobs[i].created_at
        BY <1>1 DEF KeysRemembered, KeyOf, Stored, tableVars
    <2>1. jobs[i].created_at \in Nat
        BY DEF Stored, Inv, TypeOK, StoreTypeOK, Job
    <2> QED
        BY <1>1, <2>1, JobStoreAssumption DEF Inv, KeysRemembered
<1> QED
    BY <1>1, <1>2, <1>3, <1>4, EnvironmentStep DEF tableVars

LEMMA ExpireJobItemStep ==
    ASSUME Inv, NEW id \in JobId, ExpireJobItem(id)
    PROVE  Inv'
<1>1. /\ jobs' = [jobs EXCEPT ![id] = NoJob]
      /\ UNCHANGED <<issued, now, version, idem, slots, pc, req, reply>>
    BY DEF ExpireJobItem
<1>2. \A i \in JobId : jobs'[i] # NoJob => jobs'[i] = jobs[i]
    BY <1>1 DEF Inv, TypeOK, StoreTypeOK
<1>3. TypeOK' /\ Progress
    BY <1>1, <1>2 DEF Inv, TypeOK, StoreTypeOK, Progress
<1>4. TableOK'
    BY <1>1, <1>2 DEF Inv, TableOK, Stored
<1>5. KeysRemembered'
    BY <1>1, <1>2 DEF Inv, KeysRemembered, KeyOf, Stored
<1>6. CapHolds'
    <2> SUFFICES ASSUME NEW o \in Owner
                 PROVE  Cardinality(Counting(o))' <= slots'[o] /\ slots'[o] <= MaxActive
        BY DEF CapHolds
    <2>1. Cardinality(Counting(o)) <= slots[o] /\ slots[o] <= MaxActive /\ slots[o] \in Int
        BY DEF Inv, CapHolds, TypeOK
    <2>2. StoreTypeOK /\ TableOK
        BY DEF Inv, TypeOK
    <2>3. /\ Cardinality(Counting(o)) \in Nat /\ Cardinality(Counting(o)') \in Nat
          /\ id \in Counting(o) => Cardinality(Counting(o)') = Cardinality(Counting(o)) - 1
          /\ id \notin Counting(o) => Cardinality(Counting(o)') = Cardinality(Counting(o))
        BY <1>1, <2>2, CountAfterWrite
    <2> QED
        BY <1>1, <2>1, <2>3
<1> QED
    BY <1>1, <1>3, <1>4, <1>5, <1>6, EnvironmentStep

LEMMA ExpireIdemItemStep ==
    ASSUME Inv, NEW ok \in Owner \X Key, ExpireIdemItem(ok)
    PROVE  Inv'
<1>1. /\ idem' = [idem EXCEPT ![ok] = NoRecord]
      /\ UNCHANGED <<jobs, issued, now, version, slots, pc, req, reply>>
      /\ idem[ok] # NoRecord
      /\ idem[ok].created_at + Window + 1 < now
    BY DEF ExpireIdemItem
<1>2. TypeOK' /\ Progress
    BY <1>1 DEF Inv, TypeOK, StoreTypeOK, Progress
<1>3. TableOK' /\ CapHolds'
    BY <1>1 DEF Inv, TypeOK, TableOK, CapHolds, Stored, Counting
<1>4. KeysRemembered'
    <2> SUFFICES ASSUME NEW i \in Stored, jobs[i].key # NoKey, jobs[i].created_at >= now - Window
                 PROVE  /\ idem'[KeyOf(jobs[i])] # NoRecord
                        /\ idem'[KeyOf(jobs[i])].created_at >= jobs[i].created_at
        BY <1>1 DEF KeysRemembered, KeyOf, Stored
    <2>1. /\ idem[KeyOf(jobs[i])] # NoRecord
          /\ idem[KeyOf(jobs[i])].created_at >= jobs[i].created_at
        BY DEF Inv, KeysRemembered
    <2>2. jobs[i].created_at \in Nat /\ KeyOf(jobs[i]) \in Owner \X Key /\ now \in Nat
        BY DEF Stored, Inv, TypeOK, StoreTypeOK, Job, KeyOf
    <2>3. idem[ok] \in Record /\ idem[ok].created_at \in Nat
        BY <1>1 DEF Inv, TypeOK, Record
    <2>4. KeyOf(jobs[i]) # ok
        BY <1>1, <2>1, <2>2, <2>3, JobStoreAssumption
    <2> QED
        BY <1>1, <2>1, <2>2, <2>4 DEF Inv, TypeOK
<1> QED
    BY <1>1, <1>2, <1>3, <1>4, EnvironmentStep

-----------------------------------------------------------------------------
(* The invariant. *)

LEMMA InitInv == Init => Inv
<1> SUFFICES ASSUME Init PROVE Inv
    OBVIOUS
<1>1. TypeOK
    <2>1. StoreTypeOK
        BY DEF Init, StoreInit, StoreTypeOK
    <2>2. NoRequest \in Request
        BY DynamoAssumption DEF NoRequest, Request
    <2>3. "idle" \in Steps /\ NoReply \in Reply
        BY DEF Steps, Reply, NoReply
    <2> QED
        BY <2>1, <2>2, <2>3 DEF Init, TypeOK
<1>2. \A o \in Owner : Counting(o) = {}
    BY DEF Init, StoreInit, Counting, Stored
<1>3. CapHolds
    <2> SUFFICES ASSUME NEW o \in Owner
                 PROVE  Cardinality(Counting(o)) <= slots[o] /\ slots[o] <= MaxActive
        BY DEF CapHolds
    <2>1. Cardinality(Counting(o)) = 0 /\ slots[o] = 0
        BY <1>2, FS_EmptySet DEF Init
    <2>2. MaxActive \in Nat
        BY JobStoreAssumption
    <2> QED
        BY <2>1, <2>2
<1>4. TableOK /\ KeysRemembered
    BY FS_EmptySet DEF Init, StoreInit, TableOK, KeysRemembered, Stored
<1>5. ASSUME NEW c \in Client PROVE RequestOK(pc[c], req[c])
    <2>1. pc[c] = "idle" /\ req[c] = NoRequest /\ now = 0
        BY DEF Init, StoreInit
    <2>2. NoRequest.clock = 0 /\ NoRequest.draft_id = NoJob /\ NoRequest.call = "none"
        BY DEF NoRequest
    <2> QED
        BY <2>1, <2>2 DEF RequestOK, Creating, Finding, Writing
<1>6. DraftsDistinct
    BY DEF Init, DraftsDistinct, NoRequest
<1> QED
    BY <1>1, <1>3, <1>4, <1>5, <1>6 DEF Inv

LEMMA StutterInv == Inv /\ UNCHANGED vars => Inv'
<1> SUFFICES ASSUME Inv, UNCHANGED vars PROVE Inv'
    OBVIOUS
<1>1. TypeOK' /\ Progress
    BY DEF vars, Inv, TypeOK, StoreTypeOK, Progress
<1>2. TableOK' /\ KeysRemembered' /\ CapHolds'
    BY DEF vars, Inv, TableOK, KeysRemembered, CapHolds, Stored, Counting
<1> QED
    BY <1>1, <1>2, EnvironmentStep DEF vars

LEMMA StepInv == Inv /\ [Next]_vars => Inv'
<1> SUFFICES ASSUME Inv, [Next]_vars PROVE Inv'
    OBVIOUS
<1>1. ASSUME NEW c \in Client, NewCall(c) PROVE Inv'
    BY <1>1, StartCreateStep, StartGetStep, StartDeleteStep, StartMutateStep DEF NewCall
<1>2. ASSUME NEW c \in Client, Step(c) PROVE Inv'
    <2>1. CASE Find(c)
        BY <2>1, FindStep
    <2>2. CASE FindGet(c)
        BY <2>2, FindGetStep
    <2>3. CASE FindEvict(c)
        BY <2>3, FindEvictStep
    <2>4. CASE CountActive(c)
        BY <2>4, CountActiveStep
    <2>5. CASE Build(c)
        BY <2>5, BuildStep
    <2>6. CASE TransactCreate(c)
        BY <2>6, TransactCreateStep
    <2>7. CASE TransactFails(c)
        BY <2>7, TransactFailsStep
    <2>8. CASE Read(c)
        BY <2>8, ReadStep
    <2>9. CASE Evict(c)
        BY <2>9, EvictStep
    <2>10. CASE Commit(c)
        BY <2>10, CommitStep
    <2>11. CASE CommitFails(c)
        BY <2>11, RetryStep DEF CommitFails
    <2>12. CASE Conflict(c)
        BY <2>12, ConflictStep
    <2> QED
        BY <1>2, <2>1, <2>2, <2>3, <2>4, <2>5, <2>6, <2>7, <2>8, <2>9, <2>10, <2>11, <2>12 DEF Step
<1>3. CASE Advance
    BY <1>3, AdvanceStep
<1>4. ASSUME NEW id \in JobId, ExpireJobItem(id) PROVE Inv'
    BY <1>4, ExpireJobItemStep
<1>5. ASSUME NEW ok \in Owner \X Key, ExpireIdemItem(ok) PROVE Inv'
    BY <1>5, ExpireIdemItemStep
<1>6. CASE UNCHANGED vars
    BY <1>6, StutterInv
<1> QED
    BY <1>1, <1>2, <1>3, <1>4, <1>5, <1>6 DEF Next

\* The inductive invariant holds of every reachable state: for any number of
\* owners, keys, jobs and callers, any cap, any closures and any timing.
THEOREM Invariance == Spec => []Inv
<1> QED
    BY InitInv, StepInv, PTL DEF Spec

\* Every item, request and reply keeps its type.
THEOREM TypeCorrect == Spec => []TypeOK
<1>1. Inv => TypeOK
    BY DEF Inv
<1> QED
    BY <1>1, Invariance, PTL

\* The owner never has more jobs that count than SLOTS# says, and SLOTS# never
\* exceeds max_concurrent_jobs_per_owner.
THEOREM CapNeverExceeded == Spec => []CapHolds
<1>1. Inv => CapHolds
    BY DEF Inv
<1> QED
    BY <1>1, Invariance, PTL

-----------------------------------------------------------------------------
(* The table implements the store. *)

\* An insertion finds the owner below the cap and no live job under its key.
LEMMA TransactCreateInserts ==
    ASSUME Inv, NEW c \in Client, TransactCreate(c)
    PROVE  StoreNext
<1> DEFINE job == req[c].draft
           id == req[c].draft_id
<1>1. /\ req[c] \in Request /\ RequestOK("transact", req[c]) /\ now \in Nat
      /\ req[c].clock \in Nat /\ req[c].clock <= now
    BY DEF Inv, TypeOK, StoreTypeOK, TransactCreate, Request, RequestOK
<1>2. DraftOK(req[c])
    BY <1>1 DEF RequestOK, Creating
<1>3. /\ job.owner \in Owner /\ job.key \in Key \cup {NoKey}
      /\ job.created_at \in 0..now /\ job = NewJob(job.owner, job.key, job.created_at)
      /\ id \in JobId /\ id \notin issued
    BY <1>1, <1>2 DEF DraftOK, Job
<1>4. /\ slots[job.owner] < MaxActive
      /\ jobs' = [jobs EXCEPT ![id] = job]
      /\ issued' = issued \cup {id}
      /\ now' = now
    BY DEF TransactCreate, SlotFree
<1>5. Cardinality(Counting(job.owner)) < MaxActive
    <2>1. Cardinality(Counting(job.owner)) <= slots[job.owner] /\ slots[job.owner] \in Int
        BY <1>3 DEF Inv, CapHolds, TypeOK
    <2>2. Counting(job.owner) \subseteq issued /\ IsFiniteSet(issued)
        BY DEF Inv, TableOK, Counting, Stored
    <2>3. Cardinality(Counting(job.owner)) \in Nat
        BY <2>2, FS_Subset, FS_CardinalityType
    <2> QED
        BY <1>4, <2>1, <2>3, JobStoreAssumption
<1>6. job.key # NoKey => Matches(job.owner, job.key) = {}
    <2> SUFFICES ASSUME job.key # NoKey, NEW i \in Matches(job.owner, job.key) PROVE FALSE
        OBVIOUS
    <2>1. /\ i \in Stored /\ jobs[i] \in Job /\ jobs[i].created_at \in Nat
          /\ KeyOf(jobs[i]) = KeyOf(job) /\ jobs[i].key # NoKey
          /\ jobs[i].created_at >= now - Window
        BY DEF Matches, KeyOf, Stored, Inv, TypeOK, StoreTypeOK, Job
    <2>2. /\ idem[KeyOf(job)] # NoRecord
          /\ idem[KeyOf(job)].created_at >= jobs[i].created_at
        BY <2>1 DEF Inv, KeysRemembered
    <2>3. idem[KeyOf(job)].created_at < req[c].clock - Window
        BY <2>2 DEF TransactCreate, KeyFree
    <2>4. idem[KeyOf(job)].created_at \in Nat
        BY <1>3, <2>2 DEF Inv, TypeOK, Record, KeyOf
    <2> QED
        BY <1>1, <2>1, <2>2, <2>3, <2>4, JobStoreAssumption
<1>7. Without({}) = jobs
    BY DEF Without, Inv, TypeOK, StoreTypeOK
<1>8. Insert(id, job.owner, job.key, job.created_at)
    <2>1. /\ Cardinality(Counting(job.owner) \ {}) < MaxActive
          /\ jobs' = [Without({}) EXCEPT ![id] = NewJob(job.owner, job.key, job.created_at)]
        <3>1. Counting(job.owner) \ {} = Counting(job.owner)
            OBVIOUS
        <3> QED
            BY <1>3, <1>4, <1>5, <1>7, <3>1
    <2> QED
        BY <1>3, <1>4, <1>6, <2>1 DEF Insert
<1> QED
    BY <1>3, <1>8 DEF StoreNext

LEMMA CommitMutates ==
    ASSUME Inv, NEW c \in Client, Commit(c)
    PROVE  StoreNext
<1>1. /\ req[c].id \in issued /\ jobs[req[c].id] = req[c].snap /\ req[c].snap \in Job
      /\ req[c].fn \in Mutation /\ req[c].clock \in 0..now
      /\ jobs' = [jobs EXCEPT ![req[c].id] = Apply(req[c].fn, jobs[req[c].id], req[c].clock)]
      /\ UNCHANGED <<issued, now>>
    BY CommitFacts
<1>2. Without({}) = jobs
    BY DEF Without, Inv, TypeOK, StoreTypeOK
<1>3. req[c].id \in JobId /\ req[c].id \in Stored
    BY <1>1, JobStoreAssumption DEF Stored, Inv, TypeOK, StoreTypeOK
<1>4. Mutate(req[c].id, req[c].fn, req[c].clock)
    BY <1>1, <1>2, <1>3 DEF Mutate
<1> QED
    BY <1>1, <1>3, <1>4 DEF StoreNext

\* A job that goes away was stored.
LEMMA RemovalDeletes ==
    ASSUME Inv, NEW id \in Stored, jobs' = [jobs EXCEPT ![id] = NoJob], UNCHANGED <<issued, now>>
    PROVE  StoreNext
<1>1. jobs' = Without({} \cup {id})
    BY DEF Without, Stored, Inv, TypeOK, StoreTypeOK
<1>2. Delete(id)
    BY <1>1 DEF Delete
<1> QED
    BY <1>2 DEF StoreNext, Stored

LEMMA EvictRemoves ==
    ASSUME Inv, NEW c \in Client, EvictItem(c), UNCHANGED now, pc[c] \in {"find_evict", "evict"}
    PROVE  StoreNext \/ UNCHANGED storeVars
<1>1. CASE Unchanged(c)
    <2>1. req[c].id \in Stored
        BY <1>1 DEF Unchanged, Stored, Inv, TypeOK, StoreTypeOK, RequestOK, Writing
    <2>2. jobs' = [jobs EXCEPT ![req[c].id] = NoJob] /\ issued' = issued
        BY <1>1 DEF EvictItem
    <2> QED
        BY <2>1, <2>2, RemovalDeletes
<1>2. CASE ~Unchanged(c)
    BY <1>2 DEF EvictItem, tableVars, storeVars
<1> QED
    BY <1>1, <1>2

LEMMA StepRefines == Inv /\ [Next]_vars => [StoreNext]_storeVars
<1> SUFFICES ASSUME Inv, [Next]_vars PROVE StoreNext \/ UNCHANGED storeVars
    OBVIOUS
<1>1. ASSUME NEW c \in Client, NewCall(c) PROVE UNCHANGED storeVars
    BY <1>1 DEF NewCall, StartCreate, StartGet, StartDelete, StartMutate, Start, tableVars, storeVars
<1>2. ASSUME NEW c \in Client, Step(c) PROVE StoreNext \/ UNCHANGED storeVars
    <2>1. CASE Find(c) \/ FindGet(c) \/ CountActive(c) \/ Build(c) \/ TransactFails(c)
                \/ Read(c) \/ CommitFails(c) \/ Conflict(c)
        BY <2>1 DEF Find, FindGet, CountActive, Build, TransactFails, Read, CommitFails, Conflict,
                    tableVars, storeVars
    <2>2. CASE FindEvict(c) \/ Evict(c)
        BY <2>2, EvictRemoves DEF FindEvict, Evict
    <2>3. CASE TransactCreate(c)
        BY <2>3, TransactCreateInserts
    <2>4. CASE Commit(c)
        BY <2>4, CommitMutates
    <2> QED
        BY <1>2, <2>1, <2>2, <2>3, <2>4 DEF Step
<1>3. CASE Advance
    BY <1>3 DEF Advance, StoreNext, Tick, tableVars
<1>4. ASSUME NEW id \in JobId, ExpireJobItem(id) PROVE StoreNext
    BY <1>4, RemovalDeletes DEF ExpireJobItem
<1>5. ASSUME NEW ok \in Owner \X Key, ExpireIdemItem(ok) PROVE UNCHANGED storeVars
    BY <1>5 DEF ExpireIdemItem, storeVars
<1>6. CASE UNCHANGED vars
    BY <1>6 DEF vars, storeVars
<1> QED
    BY <1>1, <1>2, <1>3, <1>4, <1>5, <1>6 DEF Next

\* Every behaviour of the table under concurrent callers is one of the atomic
\* store: no lost update, no job resurrected, no insertion beyond the cap or
\* against the idempotency window.
THEOREM Refinement == Spec => ImplementsJobStore
<1>1. Init => StoreInit
    BY DEF Init
<1> QED
    BY <1>1, Invariance, StepRefines, PTL DEF Spec, ImplementsJobStore, StoreSpec

LEMMA EvictSparesDriven ==
    ASSUME Inv, NEW c \in Client, EvictItem(c), pc[c] \in {"find_evict", "evict"},
           pc[c] = "find_evict" \/ req[c].call # "delete",
           NEW id \in Stored, jobs'[id] = NoJob
    PROVE  ~jobs[id].worker_active
<1>1. SnapOK(req[c]) /\ Evictable(req[c].snap, now) /\ req[c].id \in JobId
    <2>1. RequestOK(pc[c], req[c]) /\ issued \subseteq JobId
        BY DEF Inv, TypeOK, StoreTypeOK
    <2>2. pc[c] \in Writing
        BY DEF Writing
    <2>3. SnapOK(req[c]) /\ req[c].id \in issued
        BY <2>1, <2>2 DEF RequestOK
    <2>4. Evictable(req[c].snap, now)
        BY <2>1 DEF RequestOK
    <2> QED
        BY <2>1, <2>3, <2>4
<1>2. Unchanged(c) /\ jobs' = [jobs EXCEPT ![req[c].id] = NoJob]
    BY DEF EvictItem, tableVars, Stored
<1>3. id = req[c].id
    BY <1>2 DEF Stored, Inv, TypeOK, StoreTypeOK
<1>4. jobs[id] = req[c].snap
    BY <1>1, <1>2, <1>3 DEF SnapOK, Unchanged
<1> QED
    BY <1>1, <1>4 DEF Evictable

LEMMA StepSparesDriven ==
    ASSUME Inv, [Next]_vars, NEW id \in Stored, jobs'[id] = NoJob, jobs[id].worker_active
    PROVE  \/ jobs[id].created_at + Ttl + TtlGrace < now
           \/ \E c \in Client : pc[c] = "evict" /\ req[c].call = "delete" /\ req[c].id = id
<1>1. ASSUME jobs' = jobs PROVE FALSE
    BY <1>1 DEF Stored
<1>2. ASSUME NEW c \in Client, NewCall(c) PROVE FALSE
    BY <1>1, <1>2 DEF NewCall, StartCreate, StartGet, StartDelete, StartMutate, Start, tableVars
<1>3. ASSUME NEW c \in Client, Step(c)
      PROVE  pc[c] = "evict" /\ req[c].call = "delete" /\ req[c].id = id
    <2>1. CASE Find(c) \/ FindGet(c) \/ CountActive(c) \/ Build(c) \/ TransactFails(c)
                \/ Read(c) \/ CommitFails(c) \/ Conflict(c)
        BY <1>1, <2>1 DEF Find, FindGet, CountActive, Build, TransactFails, Read, CommitFails,
                          Conflict, tableVars
    <2>2. CASE FindEvict(c)
        BY <2>2, EvictSparesDriven DEF FindEvict
    <2>3. CASE Evict(c)
        <3>1. req[c].call = "delete" /\ pc[c] = "evict"
            BY <2>3, EvictSparesDriven DEF Evict
        <3>2. Unchanged(c) /\ jobs' = [jobs EXCEPT ![req[c].id] = NoJob]
            BY <1>1, <2>3 DEF Evict, EvictItem, tableVars
        <3>3. id = req[c].id
            BY <3>2 DEF Stored, Inv, TypeOK, StoreTypeOK
        <3> QED
            BY <3>1, <3>3
    <2>4. CASE TransactCreate(c)
        <3>1. jobs' = [jobs EXCEPT ![req[c].draft_id] = req[c].draft] /\ req[c].draft # NoJob
            BY <2>4, JobStoreAssumption DEF TransactCreate, Inv, RequestOK, Creating, DraftOK
        <3> QED
            BY <3>1 DEF Stored, Inv, TypeOK, StoreTypeOK
    <2>5. CASE Commit(c)
        <3>1. /\ jobs' = [jobs EXCEPT ![req[c].id] = Apply(req[c].fn, jobs[req[c].id], req[c].clock)]
              /\ jobs[req[c].id] \in Job /\ req[c].fn \in Mutation /\ req[c].clock \in Nat
            BY <2>5, CommitFacts DEF Inv, TypeOK, StoreTypeOK
        <3>2. Apply(req[c].fn, jobs[req[c].id], req[c].clock) # NoJob
            BY <3>1, ApplyFacts, JobStoreAssumption
        <3> QED
            BY <3>1, <3>2 DEF Stored, Inv, TypeOK, StoreTypeOK
    <2> QED
        BY <1>3, <2>1, <2>2, <2>3, <2>4, <2>5 DEF Step
<1>4. ASSUME NEW i \in JobId, ExpireJobItem(i)
      PROVE  jobs[id].created_at + Ttl + TtlGrace < now
    BY <1>4 DEF ExpireJobItem, Stored, Inv, TypeOK, StoreTypeOK
<1>5. CASE Advance
    BY <1>1, <1>5 DEF Advance, tableVars
<1>6. ASSUME NEW ok \in Owner \X Key, ExpireIdemItem(ok) PROVE FALSE
    BY <1>1, <1>6 DEF ExpireIdemItem
<1>7. CASE UNCHANGED vars
    BY <1>1, <1>7 DEF vars
<1> QED
    BY <1>2, <1>3, <1>4, <1>5, <1>6, <1>7 DEF Next

\* A job a worker drives survives every lazy eviction.
THEOREM DrivenJobsSpared == Spec => EvictionSparesDrivenJobs
<1>1. Inv /\ [Next]_vars =>
        [\A id \in Stored :
            jobs'[id] = NoJob /\ jobs[id].worker_active =>
                \/ jobs[id].created_at + Ttl + TtlGrace < now
                \/ \E c \in Client : pc[c] = "evict" /\ req[c].call = "delete" /\ req[c].id = id]_vars
    BY StepSparesDriven
<1> QED
    BY <1>1, Invariance, PTL DEF Spec, EvictionSparesDrivenJobs

\* So a deleted or expired job never comes back, whatever requests were in
\* flight when it went.
THEOREM NoJobResurrected == Spec => [][StayRemoved]_storeVars
<1> QED
    BY Refinement, ContractNeverResurrects, PTL DEF ImplementsJobStore

\* A submission repeated within the window, on any API task and however the
\* transactions interleave, leaves one recent job under its key.
THEOREM TableKeepsKeys ==
    ASSUME Window <= Ttl
    PROVE  Spec => []KeysUnique
<1> QED
    BY Refinement, ContractKeepsKeys, PTL DEF ImplementsJobStore

\* No write of a worker or a finalizer that read the job before it ended, and
\* no retry of one, changes the outcome of a job that is over.
THEOREM TableKeepsOutcome == Spec => [][OutcomeFinal]_storeVars
<1> QED
    BY Refinement, ContractKeepsOutcome, PTL DEF ImplementsJobStore

-----------------------------------------------------------------------------
(* The slots.                                                              *)

\* What a job contributes to its owner's count.
HeldBy(job, o) == IF job # NoJob /\ job.owner = o /\ Counts(job) THEN 1 ELSE 0

\* A write of one item that moves the owner's slots as the job's contribution
\* moves leaves no slot unaccounted for that was not so before.
LEMMA WriteAccounts ==
    ASSUME Inv, NEW id \in JobId, NEW new \in Job \cup {NoJob}, NEW o \in Owner,
           jobs' = [jobs EXCEPT ![id] = new],
           slots'[o] = slots[o] + HeldBy(new, o) - HeldBy(jobs[id], o)
    PROVE  Unaccounted(o)' = Unaccounted(o)
<1>1. StoreTypeOK /\ TableOK /\ slots[o] \in Int
    BY DEF Inv, TypeOK
<1>2. LET before == id \in Counting(o)
          after == new # NoJob /\ new.owner = o /\ Counts(new)
      IN  /\ Cardinality(Counting(o)) \in Nat /\ Cardinality(Counting(o)') \in Nat
          /\ before /\ after => Cardinality(Counting(o)') = Cardinality(Counting(o))
          /\ ~before /\ ~after => Cardinality(Counting(o)') = Cardinality(Counting(o))
          /\ before /\ ~after => Cardinality(Counting(o)') = Cardinality(Counting(o)) - 1
          /\ ~before /\ after => Cardinality(Counting(o)') = Cardinality(Counting(o)) + 1
    BY <1>1, CountAfterWrite
<1>3. HeldBy(jobs[id], o) = IF id \in Counting(o) THEN 1 ELSE 0
    BY DEF HeldBy, Counting, Stored
<1>4. Unaccounted(o)' = slots'[o] - Cardinality(Counting(o)')
    BY DEF Unaccounted
<1> QED
    BY <1>1, <1>2, <1>3, <1>4 DEF HeldBy, Unaccounted

LEMMA EvictAccounts ==
    ASSUME Inv, NEW c \in Client, EvictItem(c), pc[c] \in {"find_evict", "evict"}, NEW o \in Owner
    PROVE  Unaccounted(o)' = Unaccounted(o)
<1> DEFINE id == req[c].id
           job == req[c].snap
<1>1. CASE Unchanged(c)
    <2>1. SnapOK(req[c]) /\ id \in JobId /\ job \in Job /\ jobs[id] = job
        BY <1>1 DEF Inv, TypeOK, StoreTypeOK, RequestOK, Writing, SnapOK, Unchanged
    <2>2. /\ jobs' = [jobs EXCEPT ![id] = NoJob]
          /\ slots' = [slots EXCEPT ![job.owner] = @ - CountsAsInt(job)]
        BY <1>1 DEF EvictItem
    <2> HIDE DEF id, job
    <2>3. slots'[o] = slots[o] + HeldBy(NoJob, o) - HeldBy(jobs[id], o)
        <3>1. job # NoJob /\ slots \in [Owner -> Int]
            BY <2>1, JobStoreAssumption DEF Inv, TypeOK
        <3>2. HeldBy(NoJob, o) = 0
            BY DEF HeldBy
        <3>3. CASE job.owner = o
            BY <2>1, <2>2, <3>1, <3>2, <3>3 DEF HeldBy, CountsAsInt
        <3>4. CASE job.owner # o
            BY <2>1, <2>2, <3>1, <3>2, <3>4 DEF HeldBy
        <3> QED
            BY <3>3, <3>4
    <2> QED
        BY <2>1, <2>2, <2>3, WriteAccounts
<1>2. CASE ~Unchanged(c)
    BY <1>2 DEF EvictItem, tableVars, Unaccounted, Counting, Stored
<1> QED
    BY <1>1, <1>2

LEMMA CommitAccounts ==
    ASSUME Inv, NEW c \in Client, Commit(c), NEW o \in Owner
    PROVE  Unaccounted(o)' = Unaccounted(o)
<1> DEFINE id == req[c].id
           job == req[c].snap
           new == Apply(req[c].fn, job, req[c].clock)
<1>1. /\ id \in JobId /\ jobs[id] = job /\ job \in Job
      /\ jobs' = [jobs EXCEPT ![id] = new]
      /\ req[c].fn \in Mutation /\ req[c].clock \in Nat
    BY CommitFacts DEF Inv, TypeOK, StoreTypeOK
<1>2. new \in Job /\ new.owner = job.owner
    BY <1>1, ApplyFacts
<1>3. slots' = [slots EXCEPT ![job.owner] = @ + CountsAsInt(new) - CountsAsInt(job)]
    BY <1>2 DEF Commit, WriteItem
<1> HIDE DEF id, job, new
<1>4. slots'[o] = slots[o] + HeldBy(new, o) - HeldBy(jobs[id], o)
    <2>1. job # NoJob /\ new # NoJob /\ slots \in [Owner -> Int]
        BY <1>1, <1>2, JobStoreAssumption DEF Inv, TypeOK
    <2>2. CASE job.owner = o
        BY <1>1, <1>2, <1>3, <2>1, <2>2 DEF HeldBy, CountsAsInt
    <2>3. CASE job.owner # o
        BY <1>1, <1>2, <1>3, <2>1, <2>3 DEF HeldBy
    <2> QED
        BY <2>2, <2>3
<1> QED
    BY <1>1, <1>2, <1>4, WriteAccounts

LEMMA TransactAccounts ==
    ASSUME Inv, NEW c \in Client, TransactCreate(c), NEW o \in Owner
    PROVE  Unaccounted(o)' = Unaccounted(o)
<1> DEFINE id == req[c].draft_id
           job == req[c].draft
<1>1. DraftOK(req[c])
    BY DEF Inv, RequestOK, Creating, TransactCreate
<1>2. /\ id \in JobId /\ job \in Job /\ job # NoJob /\ Counts(job)
    <2>1. job.owner \in Owner /\ job.key \in Key \cup {NoKey} /\ job.created_at \in Nat
        BY <1>1 DEF DraftOK, Job
    <2> QED
        BY <1>1, <2>1, NewJobFacts, JobStoreAssumption DEF DraftOK
<1>3. /\ jobs[id] = NoJob /\ jobs' = [jobs EXCEPT ![id] = job]
      /\ slots' = [slots EXCEPT ![job.owner] = @ + 1]
    BY DEF TransactCreate
<1> HIDE DEF id, job
<1>4. slots'[o] = slots[o] + HeldBy(job, o) - HeldBy(jobs[id], o)
    <2>1. slots \in [Owner -> Int] /\ HeldBy(jobs[id], o) = 0
        BY <1>3 DEF HeldBy, Inv, TypeOK
    <2>2. CASE job.owner = o
        BY <1>2, <1>3, <2>1, <2>2 DEF HeldBy
    <2>3. CASE job.owner # o
        BY <1>2, <1>3, <2>1, <2>3 DEF HeldBy
    <2> QED
        BY <2>2, <2>3
<1> QED
    BY <1>2, <1>3, <1>4, WriteAccounts

\* The expiry of an item moves no slot.
LEMMA ExpiryLeaks ==
    ASSUME Inv, NEW id \in JobId, ExpireJobItem(id), NEW o \in Owner
    PROVE  \/ Unaccounted(o)' = Unaccounted(o)
           \/ /\ Unaccounted(o)' = Unaccounted(o) + 1 /\ slots' = slots
              /\ \E i \in Counting(o) :
                    /\ jobs[i].created_at + Ttl + TtlGrace < now
                    /\ jobs' = [jobs EXCEPT ![i] = NoJob]
<1>1. /\ jobs' = [jobs EXCEPT ![id] = NoJob] /\ slots' = slots
      /\ jobs[id].created_at + Ttl + TtlGrace < now
    BY DEF ExpireJobItem
<1>2. StoreTypeOK /\ TableOK /\ slots[o] \in Int
    BY DEF Inv, TypeOK
<1>3. /\ Cardinality(Counting(o)) \in Nat /\ Cardinality(Counting(o)') \in Nat
      /\ id \in Counting(o) => Cardinality(Counting(o)') = Cardinality(Counting(o)) - 1
      /\ id \notin Counting(o) => Cardinality(Counting(o)') = Cardinality(Counting(o))
    BY <1>1, <1>2, CountAfterWrite
<1>4. Unaccounted(o)' = slots[o] - Cardinality(Counting(o)')
    BY <1>1 DEF Unaccounted
<1>5. CASE id \in Counting(o)
    <2>1. Unaccounted(o)' = Unaccounted(o) + 1
        BY <1>2, <1>3, <1>4, <1>5 DEF Unaccounted
    <2> QED
        BY <1>1, <1>5, <2>1
<1>6. CASE id \notin Counting(o)
    BY <1>2, <1>3, <1>4, <1>6 DEF Unaccounted
<1> QED
    BY <1>5, <1>6

LEMMA StepAccounts ==
    ASSUME Inv, [Next]_vars, NEW o \in Owner
    PROVE  \/ Unaccounted(o)' = Unaccounted(o)
           \/ /\ Unaccounted(o)' = Unaccounted(o) + 1 /\ slots' = slots
              /\ \E id \in Counting(o) :
                    /\ jobs[id].created_at + Ttl + TtlGrace < now
                    /\ jobs' = [jobs EXCEPT ![id] = NoJob]
<1>1. ASSUME jobs' = jobs, slots' = slots PROVE Unaccounted(o)' = Unaccounted(o)
    BY <1>1 DEF Unaccounted, Counting, Stored
<1>2. ASSUME NEW c \in Client, NewCall(c) PROVE Unaccounted(o)' = Unaccounted(o)
    BY <1>1, <1>2 DEF NewCall, StartCreate, StartGet, StartDelete, StartMutate, Start, tableVars
<1>3. ASSUME NEW c \in Client, Step(c) PROVE Unaccounted(o)' = Unaccounted(o)
    <2>1. CASE Find(c) \/ FindGet(c) \/ CountActive(c) \/ Build(c) \/ TransactFails(c)
                \/ Read(c) \/ CommitFails(c) \/ Conflict(c)
        BY <1>1, <2>1 DEF Find, FindGet, CountActive, Build, TransactFails, Read, CommitFails,
                          Conflict, tableVars
    <2>2. CASE FindEvict(c) \/ Evict(c)
        BY <2>2, EvictAccounts DEF FindEvict, Evict
    <2>3. CASE TransactCreate(c)
        BY <2>3, TransactAccounts
    <2>4. CASE Commit(c)
        BY <2>4, CommitAccounts
    <2> QED
        BY <1>3, <2>1, <2>2, <2>3, <2>4 DEF Step
<1>4. CASE Advance
    BY <1>1, <1>4 DEF Advance, tableVars
<1>5. ASSUME NEW ok \in Owner \X Key, ExpireIdemItem(ok) PROVE Unaccounted(o)' = Unaccounted(o)
    BY <1>1, <1>5 DEF ExpireIdemItem
<1>6. CASE UNCHANGED vars
    BY <1>1, <1>6 DEF vars
<1> QED
    BY <1>2, <1>3, <1>4, <1>5, <1>6, ExpiryLeaks DEF Next

\* For any callers and closures, an owner loses a slot only to DynamoDB's own
\* expiry of a job that still counts.
THEOREM SlotsOnlyLeakByExpiry == Spec => SlotsLeakOnlyByExpiry
<1>1. Inv /\ [Next]_vars =>
        [\A o \in Owner :
            \/ Unaccounted(o)' = Unaccounted(o)
            \/ /\ Unaccounted(o)' = Unaccounted(o) + 1 /\ slots' = slots
               /\ \E id \in Counting(o) :
                    /\ jobs[id].created_at + Ttl + TtlGrace < now
                    /\ jobs' = [jobs EXCEPT ![id] = NoJob]]_vars
    BY StepAccounts
<1> QED
    BY <1>1, Invariance, PTL DEF Spec, SlotsLeakOnlyByExpiry
=============================================================================
