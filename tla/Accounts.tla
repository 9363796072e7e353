------------------------------ MODULE Accounts ------------------------------
(***************************************************************************)
(* Accounts of one API instance: free uses, purchases, the analysis        *)
(* history of paid plans, and the maintenance thread, over one SQLite      *)
(* database and a directory of files (repositories/account_store.py).      *)
(*                                                                         *)
(* Async handlers interleave where they await.  The maintenance thread     *)
(* interleaves with everything, between any two calls of the store.        *)
(***************************************************************************)
EXTENDS Integers, FiniteSets, Functions, SequencesExt

CONSTANTS
    User, Key,
    Request,        \* starts of an analysis, each made at most once
    UserOf,         \* the signed-in account of a request
    KeysOf,         \* usage_keys of a request: its browser, its IP, its account
    Plan,
    Months,         \* how long a plan runs, in clock ticks
    Retention,      \* how long an entry made under a plan is kept
    FreeUses,       \* settings.free_uses
    Window,         \* settings.expiry_reminder_days
    Late,           \* a plan that ended this long ago gets no notice
    MaxCalls,       \* bound: starts, purchases and saved plans together
    Horizon, MaxCrashes

ASSUME AccountsAssumption ==
    /\ UserOf \in [Request -> User]
    /\ KeysOf \in [Request -> SUBSET Key]
    /\ Months \in [Plan -> Nat \ {0}] /\ Retention \in [Plan -> Nat \ {0}]
    /\ FreeUses \in Nat /\ Window \in Nat /\ Late \in Nat

VARIABLES
    now,            \* time.time()
    subs,           \* subscriptions, in the order of purchase
    used,           \* free_usage
    history,        \* rows of history; an entry is named after its request
    files,          \* what is on disk under history_dir: subsets of {"collection", "plan"}
    start,          \* where each start of an analysis is, and the plan it was given
    loop,           \* the handler that has the event loop, between two calls of the store
    pass,           \* where the maintenance thread is: its step, the time at which the pass
                    \* began, the ids still to do and the one at hand
    mails,          \* mails about a subscription: how often each was sent
    crashes

vars == <<now, subs, used, history, files, start, loop, pass, mails, crashes>>

NoRow == [user |-> "none"]

Free == "free"
Resting == [at |-> "wait", t |-> 0, todo |-> {}, one |-> 0]
Idle == [at |-> "idle"]

Ids == DOMAIN subs
OfUser(u) == {i \in Ids : subs[i].user = u}
Rows == {r \in Request : history[r] # NoRow}

Calls == Len(subs) + Cardinality({r \in Request : start[r].at # "new"})
                   + Cardinality({r \in Request : "plan" \in files[r]})

Init ==
    /\ now = 0 /\ subs = <<>> /\ crashes = 0 /\ mails = <<>>
    /\ used = [k \in Key |-> 0]
    /\ history = [r \in Request |-> NoRow]
    /\ files = [r \in Request |-> {}]
    /\ start = [r \in Request |-> [at |-> "new", plan |-> Free]]
    /\ loop = Idle /\ pass = Resting

-----------------------------------------------------------------------------
(* Free uses and the start of an analysis (create_execution_job). *)

\* active_subscription: the one that started last.
Active(u) == {i \in OfUser(u) : subs[i].starts <= now /\ now < subs[i].expires}
PlanOf(u) ==
    IF Active(u) = {} THEN Free
    ELSE subs[CHOOSE i \in Active(u) : \A j \in Active(u) : subs[j].starts <= subs[i].starts].plan

\* The row that create_history inserts.
Row(u, p, t) == [user |-> u, plan |-> p, created |-> t, expires |-> t + Retention[p],
                 has |-> {"collection"}]

\* free_uses_used >= limit
UsedUp(keys) == \E k \in keys : used[k] >= FreeUses

Move(r, step) == start' = [start EXCEPT ![r].at = step]

\* get_entitlement, ensure_can_start and _ensure_uploads_fit.
CheckStart(r) ==
    /\ start[r].at = "new" /\ loop = Idle /\ Calls < MaxCalls
    /\ LET plan == PlanOf(UserOf[r]) IN
        start' = [start EXCEPT ![r] = [plan |-> plan,
                     at |-> IF plan = Free /\ UsedUp(KeysOf[r]) THEN "refused" ELSE "asked"]]
    /\ UNCHANGED <<now, subs, used, history, files, loop, pass, mails, crashes>>

\* Fault: the answer of ensure_can_start is relied on.
Refuses_Unchecked(r) == FALSE

\* consume_free_use: the limit is checked again in the transaction.
Refuses(r) == UsedUp(KeysOf[r])

\* consume_use, once the job is there (AwsExecution's Create).  It trusts the plan read when the request came.
ConsumeUse(r) ==
    /\ start[r].at = "asked" /\ loop = Idle
    /\ \/ start[r].plan # Free /\ Move(r, "write") /\ UNCHANGED used
       \/ start[r].plan = Free /\ Refuses(r) /\ Move(r, "refused") /\ UNCHANGED used
       \/ /\ start[r].plan = Free /\ ~Refuses(r) /\ Move(r, "started")
          /\ used' = [k \in Key |-> used[k] + IF k \in KeysOf[r] THEN 1 ELSE 0]
    /\ UNCHANGED <<now, subs, history, files, loop, pass, mails, crashes>>

\* create_history, in a thread of its own: the collection, then the row.
WriteCollection(r) ==
    /\ start[r].at = "write"
    /\ files' = [files EXCEPT ![r] = {"collection"}]
    /\ Move(r, "insert")
    /\ UNCHANGED <<now, subs, used, history, loop, pass, mails, crashes>>

InsertHistory(r) ==
    /\ start[r].at = "insert"
    /\ history' = [history EXCEPT ![r] = Row(UserOf[r], start[r].plan, now)]
    /\ Move(r, "started")
    /\ UNCHANGED <<now, subs, used, files, loop, pass, mails, crashes>>

-----------------------------------------------------------------------------
(* Purchases, saved plans and deletions: handlers that do not await. *)

LatestExpiry(u) == Max({0} \cup {subs[i].expires : i \in OfUser(u)})

\* Fault: only a plan that is running postpones a new one.
StartsAt_Active(u) ==
    IF Active(u) = {} THEN now ELSE subs[CHOOSE i \in Active(u) : TRUE].expires

StartsAt(u) == IF LatestExpiry(u) > now THEN LatestExpiry(u) ELSE now

\* purchase, up to the insertion.
Checkout(u, p) ==
    /\ loop = Idle /\ Calls < MaxCalls
    /\ subs' = Append(subs, [user |-> u, plan |-> p, starts |-> StartsAt(u), reminded |-> FALSE,
                             expires |-> StartsAt(u) + Months[p], noticed |-> FALSE])
    /\ mails' = Append(mails, [reminder |-> 0, notice |-> 0])
    /\ loop' = IF StartsAt(u) <= now THEN [at |-> "extend", user |-> u, plan |-> p, t |-> now] ELSE Idle
    /\ UNCHANGED <<now, used, history, files, start, pass, crashes>>

\* Fault: the new plan's retention replaces what an entry had.
Extended_Overwrites(row, p) == row.created + Retention[p]

Extended(row, p) ==
    IF row.created + Retention[p] > row.expires THEN row.created + Retention[p] ELSE row.expires

\* extend_history_retention, with the time at which the handler began.
ExtendRetention ==
    /\ loop.at = "extend"
    /\ history' = [r \in Request |->
         IF r \in Rows /\ history[r].user = loop.user /\ history[r].expires > loop.t
         THEN [history[r] EXCEPT !.expires = Extended(history[r], loop.plan)] ELSE history[r]]
    /\ loop' = Idle
    /\ UNCHANGED <<now, subs, used, files, start, pass, mails, crashes>>

\* _save_to_history finds the entry, writes the file and then sets the flag.
FindEntry(r) ==
    /\ loop = Idle /\ r \in Rows /\ start[r].at = "started" /\ Calls < MaxCalls
    /\ loop' = [at |-> "write", entry |-> r]
    /\ UNCHANGED <<now, subs, used, history, files, start, pass, mails, crashes>>

WritePlan ==
    /\ loop.at = "write"
    /\ files' = [files EXCEPT ![loop.entry] = @ \cup {"plan"}]
    /\ loop' = [loop EXCEPT !.at = "flag"]
    /\ UNCHANGED <<now, subs, used, history, start, pass, mails, crashes>>

FlagPlan ==
    /\ loop.at = "flag"
    /\ history' = IF loop.entry \in Rows THEN [history EXCEPT ![loop.entry].has = @ \cup {"plan"}]
                  ELSE history
    /\ loop' = Idle
    /\ UNCHANGED <<now, subs, used, files, start, pass, mails, crashes>>

\* delete_history for the owner, who can see an unexpired entry only.
DeleteEntry(r) ==
    /\ loop = Idle /\ r \in Rows /\ history[r].expires > now
    /\ history' = [history EXCEPT ![r] = NoRow]
    /\ loop' = [at |-> "rmtree", entry |-> r]
    /\ UNCHANGED <<now, subs, used, files, start, pass, mails, crashes>>

RemoveFiles ==
    /\ loop.at = "rmtree"
    /\ files' = [files EXCEPT ![loop.entry] = {}]
    /\ loop' = Idle
    /\ UNCHANGED <<now, subs, used, history, start, pass, mails, crashes>>

-----------------------------------------------------------------------------
(* The maintenance thread (run_maintenance). *)

\* NOT EXISTS (a later plan that ends later): a renewal needs no mail.
Renewed(i) == \E j \in OfUser(subs[i].user) \ {i} :
                 subs[j].starts >= subs[i].starts /\ subs[j].expires > subs[i].expires

DueReminder == {i \in Ids : /\ ~subs[i].reminded /\ ~Renewed(i)
                            /\ subs[i].starts <= now /\ now < subs[i].expires
                            /\ subs[i].expires <= now + Window}

DueNotice == {i \in Ids : ~subs[i].noticed /\ ~Renewed(i) /\ subs[i].expires <= pass.t}

Doing(step, S) == pass' = [pass EXCEPT !.at = step, !.todo = S]

StartPass ==
    /\ pass.at = "wait"
    /\ pass' = [Resting EXCEPT !.at = "remind", !.t = now, !.todo = DueReminder]
    /\ UNCHANGED <<now, subs, used, history, files, start, loop, mails, crashes>>

MarkReminded(i) == subs' = [subs EXCEPT ![i].reminded = TRUE] /\ UNCHANGED mails
MailReminder(i) == mails' = [mails EXCEPT ![i].reminder = @ + 1] /\ UNCHANGED subs

\* Fault: the mail goes out before it is marked.
Remind_MailFirst(step, i) ==
    IF step = "mark" THEN MailReminder(i) ELSE MarkReminded(i)

\* mark_reminder_sent; then send, which never raises.
Remind(step, i) == IF step = "mark" THEN MarkReminded(i) ELSE MailReminder(i)

MarkReminder ==
    /\ pass.at = "remind"
    /\ \E i \in pass.todo :
        /\ Remind("mark", i)
        /\ pass' = [pass EXCEPT !.at = "reminded", !.todo = @ \ {i}, !.one = i]
    /\ UNCHANGED <<now, used, history, files, start, loop, crashes>>

SendReminder ==
    /\ pass.at = "reminded"
    /\ Remind("send", pass.one)
    /\ Doing("remind", pass.todo)
    /\ UNCHANGED <<now, used, history, files, start, loop, crashes>>

SelectNotices ==
    /\ pass.at = "remind" /\ pass.todo = {}
    /\ Doing("notice", DueNotice)
    /\ UNCHANGED <<now, subs, used, history, files, start, loop, mails, crashes>>

MarkNotice ==
    /\ pass.at = "notice"
    /\ \E i \in pass.todo :
        /\ subs' = [subs EXCEPT ![i].noticed = TRUE]
        /\ pass' = [pass EXCEPT !.at = "noticed", !.todo = @ \ {i}, !.one = i]
    /\ UNCHANGED <<now, used, history, files, start, loop, mails, crashes>>

SendNotice ==
    /\ pass.at = "noticed"
    /\ mails' = IF pass.t - subs[pass.one].expires < Late
                THEN [mails EXCEPT ![pass.one].notice = @ + 1] ELSE mails
    /\ Doing("notice", pass.todo)
    /\ UNCHANGED <<now, subs, used, history, files, start, loop, crashes>>

\* Fault: as with notices, what expired long ago is left alone.
PastRetention_Recent(r) == history[r].expires <= pass.t /\ pass.t - history[r].expires < Late

PastRetention(r) == history[r].expires <= pass.t

\* purge_expired_history reads the ids first.
SelectExpired ==
    /\ pass.at = "notice" /\ pass.todo = {}
    /\ Doing("delete", {r \in Rows : PastRetention(r)})
    /\ UNCHANGED <<now, subs, used, history, files, start, loop, mails, crashes>>

\* Fault: the files are removed before the row.
Purge_FilesFirst(step, r) ==
    IF step = "row" THEN files' = [files EXCEPT ![r] = {}] /\ UNCHANGED history
    ELSE history' = [history EXCEPT ![r] = NoRow] /\ UNCHANGED files

\* delete_history: the row, then the files.
Purge(step, r) ==
    IF step = "row" THEN history' = [history EXCEPT ![r] = NoRow] /\ UNCHANGED files
    ELSE files' = [files EXCEPT ![r] = {}] /\ UNCHANGED history

PurgeRow ==
    /\ pass.at = "delete"
    /\ \E r \in pass.todo :
        /\ Purge("row", r)
        /\ pass' = [pass EXCEPT !.at = "rmtree", !.todo = @ \ {r}, !.one = r]
    /\ UNCHANGED <<now, subs, used, start, loop, mails, crashes>>

PurgeFiles ==
    /\ pass.at = "rmtree"
    /\ Purge("files", pass.one)
    /\ Doing("delete", pass.todo)
    /\ UNCHANGED <<now, subs, used, start, loop, mails, crashes>>

EndPass ==
    /\ pass.at = "delete" /\ pass.todo = {}
    /\ pass' = Resting
    /\ UNCHANGED <<now, subs, used, history, files, start, loop, mails, crashes>>

-----------------------------------------------------------------------------
\* The process dies: the database and the files are what is left.  (The death
\* of one that has nothing in flight changes nothing.)
Crash ==
    /\ crashes < MaxCrashes /\ crashes' = crashes + 1
    /\ loop # Idle \/ pass.at \in {"reminded", "noticed", "rmtree"}
         \/ \E r \in Request : start[r].at \in {"asked", "write", "insert"}
    /\ start' = [r \in Request |-> IF start[r].at \in {"new", "started"} THEN start[r]
                                   ELSE [start[r] EXCEPT !.at = "refused"]]
    /\ loop' = Idle /\ pass' = Resting
    /\ UNCHANGED <<now, subs, used, history, files, mails>>

Advance ==
    /\ now < Horizon /\ now' = now + 1
    /\ UNCHANGED <<subs, used, history, files, start, loop, pass, mails, crashes>>

Maintenance ==
    \/ StartPass \/ MarkReminder \/ SendReminder \/ SelectNotices \/ MarkNotice \/ SendNotice
    \/ SelectExpired \/ PurgeRow \/ PurgeFiles \/ EndPass

Next ==
    \/ \E r \in Request :
        \/ CheckStart(r) \/ ConsumeUse(r) \/ WriteCollection(r) \/ InsertHistory(r)
        \/ FindEntry(r) \/ DeleteEntry(r)
    \/ \E u \in User, p \in Plan : Checkout(u, p)
    \/ ExtendRetention \/ WritePlan \/ FlagPlan \/ RemoveFiles
    \/ Maintenance \/ Crash \/ Advance

Spec == Init /\ [][Next]_vars

\* The maintenance thread never stops for good: a pass that raises is logged
\* and the next one begins.  A handler that has the event loop goes on.
FairSpec == Spec /\ WF_vars(Maintenance) /\ WF_vars(ExtendRetention)

-----------------------------------------------------------------------------
(* Properties *)

\* Concurrent starts, over overlapping sets of keys, never give one key more
\* free runs than the allowance, whatever each of them was told when it came.
FreeUsesHold ==
    \A k \in Key :
        Cardinality({r \in Request : /\ k \in KeysOf[r] /\ start[r].plan = Free
                                     /\ start[r].at = "started"}) <= FreeUses

\* Purchases queue up: no two plans of one user ever run at once, so no paid
\* time is lost (billing.purchase).
NoPaidTimeLost ==
    \A i, j \in Ids : i # j /\ subs[i].user = subs[j].user
        => subs[i].expires <= subs[j].starts \/ subs[j].expires <= subs[i].starts

\* A mail about a subscription goes out once, crashes included
\* (maintenance: "so a reminder goes out once").
MailsOnce == \A i \in Ids : mails[i].reminder <= 1 /\ mails[i].notice <= 1

\* A download that the history offers finds its file, whatever purges,
\* deletions, savings and crashes came between.
OfferedFilesExist == \A r \in Rows : history[r].has \subseteq files[r]

\* Maintenance removes no entry before the retention it was made with has
\* passed, whatever plans were bought since.
RetentionKept ==
    [][\A r \in Request :
        r \in Rows /\ history'[r] = NoRow /\ pass.at = "delete" /\ pass'.at = "rmtree"
            => history[r].created + Retention[history[r].plan] <= now]_vars

\* An entry does not outlive its retention for ever, even if the process dies
\* in the middle of a pass.
ExpiredEntriesGo ==
    \A r \in Request : (r \in Rows /\ history[r].expires <= now) ~> (r \notin Rows \/ history[r].expires > now)
=============================================================================
