--------------------------- MODULE AccountsProofs ---------------------------
(***************************************************************************)
(* Accounts for any users, requests, plans and allowances, with any number *)
(* of crashes: purchases queue up, mails go out at most once, no key gets  *)
(* more free uses than the allowance, every offered file exists, and no    *)
(* entry is purged before its retention is over.                           *)
(***************************************************************************)
EXTENDS Accounts, FiniteSetTheorems, SequenceTheorems, WellFoundedInduction, TLAPS

Sub == [user : User, plan : Plan, starts : Nat, expires : Nat,
        reminded : BOOLEAN, noticed : BOOLEAN]

Sent == [reminder : Nat, notice : Nat]

-----------------------------------------------------------------------------
(* Steps of the maintenance thread. *)

PassStep == {"wait", "remind", "reminded", "notice", "noticed", "delete", "rmtree"}

PassOK ==
    /\ pass = [at |-> pass.at, t |-> pass.t, todo |-> pass.todo, one |-> pass.one]
    /\ pass.at \in PassStep
    /\ pass.t \in Nat /\ now \in Nat /\ pass.t <= now

LEMMA DoingFacts ==
    ASSUME PassOK, NEW step, NEW S, Doing(step, S)
    PROVE  pass' = [at |-> step, t |-> pass.t, todo |-> S, one |-> pass.one]
BY DEF PassOK, Doing

LEMMA TakingFacts ==
    ASSUME PassOK, NEW step, NEW S, NEW i,
           pass' = [pass EXCEPT !.at = step, !.todo = S, !.one = i]
    PROVE  pass' = [at |-> step, t |-> pass.t, todo |-> S, one |-> i]
BY DEF PassOK

\* What each action does to the pass.
LEMMA PassStepOK == PassOK /\ [Next]_vars => PassOK'
<1> SUFFICES ASSUME PassOK, [Next]_vars PROVE PassOK'
    OBVIOUS
<1> USE DEF PassOK, PassStep
<1>1. CASE UNCHANGED pass /\ (UNCHANGED now \/ now' = now + 1)
    BY <1>1
<1>2. CASE StartPass
    <2>1. pass' = [at |-> "remind", t |-> now, todo |-> DueReminder, one |-> 0] /\ now' = now
        BY <1>2 DEF StartPass, Resting
    <2> QED
        BY <2>1
<1>3. CASE EndPass \/ Crash
    BY <1>3 DEF EndPass, Crash, Resting
<1>4. ASSUME NEW step \in PassStep, NEW S, NEW i,
             pass' = [at |-> step, t |-> pass.t, todo |-> S, one |-> i], UNCHANGED now
      PROVE  PassOK'
    BY <1>4
<1>5. CASE MarkReminder
    <2>1. PICK i : pass' = [pass EXCEPT !.at = "reminded", !.todo = @ \ {i}, !.one = i]
        BY <1>5 DEF MarkReminder
    <2> QED
        BY <1>4, <1>5, <2>1, TakingFacts DEF MarkReminder
<1>6. CASE MarkNotice
    <2>1. PICK i : pass' = [pass EXCEPT !.at = "noticed", !.todo = @ \ {i}, !.one = i]
        BY <1>6 DEF MarkNotice
    <2> QED
        BY <1>4, <1>6, <2>1, TakingFacts DEF MarkNotice
<1>7. CASE PurgeRow
    <2>1. PICK i : pass' = [pass EXCEPT !.at = "rmtree", !.todo = @ \ {i}, !.one = i]
        BY <1>7 DEF PurgeRow
    <2> QED
        BY <1>4, <1>7, <2>1, TakingFacts DEF PurgeRow
<1>8. CASE SendReminder \/ SelectNotices \/ SendNotice \/ SelectExpired \/ PurgeFiles
    <2>1. UNCHANGED now /\ \E step \in PassStep : \E S : Doing(step, S)
        BY <1>8 DEF SendReminder, SelectNotices, SendNotice, SelectExpired, PurgeFiles
    <2> QED
        BY <1>4, <2>1, DoingFacts
<1>9. ASSUME NEW r \in Request,
             \/ CheckStart(r) \/ ConsumeUse(r) \/ WriteCollection(r) \/ InsertHistory(r)
             \/ FindEntry(r) \/ DeleteEntry(r)
      PROVE  PassOK'
    BY <1>1, <1>9 DEF CheckStart, ConsumeUse, WriteCollection, InsertHistory, FindEntry, DeleteEntry
<1>10. ASSUME NEW u \in User, NEW p \in Plan, Checkout(u, p) PROVE PassOK'
    BY <1>1, <1>10 DEF Checkout
<1>11. CASE ExtendRetention \/ WritePlan \/ FlagPlan \/ RemoveFiles \/ Advance \/ UNCHANGED vars
    BY <1>1, <1>11 DEF ExtendRetention, WritePlan, FlagPlan, RemoveFiles, Advance, vars
<1> QED
    BY <1>2, <1>3, <1>5, <1>6, <1>7, <1>8, <1>9, <1>10, <1>11 DEF Next, Maintenance

-----------------------------------------------------------------------------
(* Purchases. *)

\* Purchases of one user lie one behind the other, in the order of purchase.
PurchasesInv ==
    /\ subs \in Seq(Sub) /\ now \in Nat
    /\ \A i \in Ids : subs[i].starts < subs[i].expires
    /\ \A i, j \in Ids :
        i < j /\ subs[i].user = subs[j].user => subs[i].expires <= subs[j].starts

\* A set of natural numbers that is not empty and is bounded has a greatest one.
LEMMA GreatestNumber ==
    ASSUME NEW n \in Nat, NEW T \in SUBSET (0..n), T # {}
    PROVE  \E x \in T : \A y \in T : y <= x
<1> DEFINE D == {d \in Nat : n - d \in T}
<1>1. PICK x0 \in T : TRUE
    OBVIOUS
<1>2. x0 \in 0..n
    BY <1>1
<1>3. n - x0 \in D
    BY <1>2
<1>4. PICK d \in D : \A e \in D : ~(<<e, d>> \in OpToRel(<, Nat))
    BY <1>3, NatLessThanWellFounded, WFMin
<1>5. ASSUME NEW y \in T PROVE y <= n - d
    <2>1. y \in 0..n
        OBVIOUS
    <2>2. n - y \in D
        BY <2>1
    <2>3. ~(n - y < d)
        BY <1>4, <2>2 DEF OpToRel
    <2> QED
        BY <2>1, <2>3
<1> QED
    BY <1>4, <1>5

LEMMA SubFacts ==
    ASSUME PurchasesInv
    PROVE  /\ Ids = 1..Len(subs) /\ Len(subs) \in Nat
           /\ \A i \in Ids : subs[i] \in Sub /\ subs[i].expires \in Nat /\ subs[i].starts \in Nat
<1>1. Ids = 1..Len(subs) /\ Len(subs) \in Nat
    BY DEF PurchasesInv, Ids
<1>2. ASSUME NEW i \in Ids PROVE subs[i] \in Sub
    BY <1>1 DEF PurchasesInv
<1>3. \A s \in Sub : s.expires \in Nat /\ s.starts \in Nat
    BY DEF Sub
<1> QED
    BY <1>1, <1>2, <1>3

\* MAX(expires_at) is a number that no subscription of the user outlasts.
LEMMA LatestExpiryFacts ==
    ASSUME PurchasesInv, NEW u \in User
    PROVE  /\ LatestExpiry(u) \in Nat
           /\ \A i \in OfUser(u) : subs[i].expires <= LatestExpiry(u)
<1> DEFINE E == {0} \cup {subs[i].expires : i \in OfUser(u)}
<1>1. /\ Ids = 1..Len(subs) /\ Len(subs) \in Nat
      /\ \A i \in Ids : subs[i] \in Sub /\ subs[i].expires \in Nat /\ subs[i].starts \in Nat
    BY SubFacts
<1>2. E \in SUBSET Nat
    BY <1>1 DEF OfUser
<1>3. \E x \in E : \A y \in E : x >= y
    <2>1. CASE OfUser(u) = {}
        BY <2>1
    <2>2. CASE OfUser(u) # {}
        <3>1. OfUser(u) \in SUBSET (0..Len(subs))
            BY <1>1 DEF OfUser
        <3>2. PICK i \in OfUser(u) : \A j \in OfUser(u) : j <= i
            BY <1>1, <2>2, <3>1, GreatestNumber
        <3>3. ASSUME NEW j \in OfUser(u) PROVE subs[j].expires <= subs[i].expires
            <4>1. i \in Ids /\ j \in Ids /\ i \in Nat /\ j \in Nat /\ subs[i].user = subs[j].user
                BY <1>1 DEF OfUser
            <4>2. CASE j = i
                BY <1>1, <4>1, <4>2
            <4>3. CASE j < i
                <5>1. subs[j].expires <= subs[i].starts /\ subs[i].starts < subs[i].expires
                    BY <4>1, <4>3 DEF PurchasesInv
                <5> QED
                    BY <1>1, <4>1, <5>1
            <4> QED
                BY <3>2, <4>1, <4>2, <4>3
        <3>4. subs[i].expires \in E /\ subs[i].expires \in Nat
            BY <1>1 DEF OfUser
        <3>5. \A y \in E : subs[i].expires >= y
            BY <1>1, <3>3, <3>4 DEF OfUser
        <3> QED
            BY <3>4, <3>5
    <2> QED
        BY <2>1, <2>2
<1>4. LatestExpiry(u) = Max(E)
    BY DEF LatestExpiry
<1> HIDE DEF E
<1>5. Max(E) \in E /\ \A y \in E : Max(E) >= y
    BY <1>3 DEF Max
<1>6. \A i \in OfUser(u) : subs[i].expires \in E /\ subs[i].expires \in Nat
    BY <1>1 DEF E, OfUser
<1> QED
    BY <1>2, <1>4, <1>5, <1>6

\* At most one plan of a user runs, so active_subscription has no choice.
LEMMA PlanOfFacts ==
    ASSUME PurchasesInv, NEW u \in User
    PROVE  PlanOf(u) \in Plan \cup {Free}
<1> SUFFICES ASSUME Active(u) # {} PROVE PlanOf(u) \in Plan
    BY DEF PlanOf
<1>1. /\ Ids = 1..Len(subs) /\ Len(subs) \in Nat
      /\ \A i \in Ids : subs[i] \in Sub /\ subs[i].expires \in Nat /\ subs[i].starts \in Nat
    BY SubFacts
<1>2. PICK i \in Active(u) : TRUE
    OBVIOUS
<1>3. ASSUME NEW j \in Active(u) PROVE j = i
    <2>1. /\ i \in Ids /\ j \in Ids /\ i \in Nat /\ j \in Nat
          /\ subs[i].user = u /\ subs[j].user = u
          /\ subs[i].starts <= now /\ now < subs[i].expires
          /\ subs[j].starts <= now /\ now < subs[j].expires
        BY <1>1 DEF Active, OfUser
    <2>2. ~(i < j)
        <3> SUFFICES ASSUME i < j PROVE FALSE
            OBVIOUS
        <3>1. subs[i].expires <= subs[j].starts
            BY <2>1 DEF PurchasesInv
        <3> QED
            BY <1>1, <2>1, <3>1 DEF PurchasesInv
    <2>3. ~(j < i)
        <3> SUFFICES ASSUME j < i PROVE FALSE
            OBVIOUS
        <3>1. subs[j].expires <= subs[i].starts
            BY <2>1 DEF PurchasesInv
        <3> QED
            BY <1>1, <2>1, <3>1 DEF PurchasesInv
    <2> QED
        BY <2>1, <2>2, <2>3
<1>4. i \in Ids
    BY DEF Active, OfUser
<1>5. \A k \in Active(u) : subs[k].starts <= subs[i].starts
    BY <1>1, <1>3, <1>4
<1>6. \E m \in Active(u) : \A k \in Active(u) : subs[k].starts <= subs[m].starts
    BY <1>5
<1>7. (CHOOSE m \in Active(u) : \A k \in Active(u) : subs[k].starts <= subs[m].starts) \in Active(u)
    BY <1>6
<1>8. \A m \in Active(u) : subs[m].plan \in Plan
    BY <1>1, <1>3, <1>4 DEF Sub
<1> QED
    BY <1>7, <1>8 DEF PlanOf

\* A marked subscription is the one it was, but for the mark.
LEMMA MarkedFacts ==
    ASSUME PurchasesInv, NEW i \in Ids, NEW s \in Sub,
           s.user = subs[i].user, s.starts = subs[i].starts, s.expires = subs[i].expires,
           subs' = [subs EXCEPT ![i] = s], now' = now
    PROVE  /\ PurchasesInv'
           /\ Ids' = Ids /\ Len(subs') = Len(subs)
           /\ subs'[i] = s
           /\ \A j \in Ids : j # i => subs'[j] = subs[j]
<1>1. Ids = 1..Len(subs) /\ Len(subs) \in Nat /\ subs \in Seq(Sub)
    BY SubFacts DEF PurchasesInv
<1>2. subs' \in Seq(Sub) /\ Len(subs') = Len(subs)
    BY <1>1, ExceptSeq
<1>3. Ids' = Ids /\ subs'[i] = s /\ \A j \in Ids : j # i => subs'[j] = subs[j]
    BY <1>1, <1>2 DEF Ids
<1>4. \A j \in Ids : /\ subs'[j].user = subs[j].user
                     /\ subs'[j].starts = subs[j].starts
                     /\ subs'[j].expires = subs[j].expires
    BY <1>3
<1>5. now' \in Nat /\ subs' \in Seq(Sub)
    BY <1>2 DEF PurchasesInv
<1>6. \A j \in Ids' : subs'[j].starts < subs'[j].expires
    BY <1>3, <1>4 DEF PurchasesInv
<1>7. \A j, k \in Ids' :
        j < k /\ subs'[j].user = subs'[k].user => subs'[j].expires <= subs'[k].starts
    BY <1>3, <1>4 DEF PurchasesInv
<1> QED
    BY <1>2, <1>3, <1>5, <1>6, <1>7 DEF PurchasesInv

\* The new plan starts when the last one of its user has ended.
LEMMA CheckoutFacts ==
    ASSUME PurchasesInv, NEW u \in User, NEW p \in Plan, Checkout(u, p)
    PROVE  /\ PurchasesInv'
           /\ Len(subs') = Len(subs) + 1
           /\ \A j \in Ids : j \in Ids' /\ subs'[j] = subs[j]
<1> DEFINE s == [user |-> u, plan |-> p, starts |-> StartsAt(u), reminded |-> FALSE,
                 expires |-> StartsAt(u) + Months[p], noticed |-> FALSE]
           n == Len(subs) + 1
<1>1. /\ Ids = 1..Len(subs) /\ Len(subs) \in Nat /\ subs \in Seq(Sub) /\ now \in Nat
      /\ \A i \in Ids : subs[i] \in Sub /\ subs[i].expires \in Nat /\ subs[i].starts \in Nat
    BY SubFacts DEF PurchasesInv
<1>2. StartsAt(u) \in Nat /\ \A i \in OfUser(u) : subs[i].expires <= StartsAt(u)
    <2>1. /\ LatestExpiry(u) \in Nat
          /\ \A i \in OfUser(u) : subs[i].expires <= LatestExpiry(u)
        BY LatestExpiryFacts
    <2> QED
        BY <1>1, <2>1 DEF StartsAt, OfUser
<1>3. Months[p] \in Nat /\ Months[p] > 0
    BY AccountsAssumption
<1>4. s \in Sub /\ s.user = u /\ s.starts = StartsAt(u) /\ s.starts < s.expires
    BY <1>2, <1>3 DEF Sub
<1>5. subs' = Append(subs, s) /\ now' = now
    BY DEF Checkout
<1> HIDE DEF s
<1>6. /\ subs' \in Seq(Sub) /\ Len(subs') = n /\ subs'[n] = s
      /\ \A j \in 1..Len(subs) : subs'[j] = subs[j]
    BY <1>1, <1>4, <1>5
<1>7. Ids' = 1..n
    BY <1>6 DEF Ids
<1>8. \A i \in Ids' : i \in Ids \/ i = n
    BY <1>1, <1>7
<1>9. \A i \in Ids' : subs'[i].starts < subs'[i].expires
    BY <1>1, <1>4, <1>6, <1>8 DEF PurchasesInv
<1>10. ASSUME NEW i \in Ids', NEW j \in Ids', i < j, subs'[i].user = subs'[j].user
       PROVE  subs'[i].expires <= subs'[j].starts
    <2>1. i \in Nat /\ j \in Nat /\ i \in Ids
        BY <1>1, <1>7, <1>10
    <2>2. CASE j \in Ids
        <3>1. subs'[i] = subs[i] /\ subs'[j] = subs[j]
            BY <1>1, <1>6, <2>1, <2>2
        <3> QED
            BY <1>10, <2>1, <2>2, <3>1 DEF PurchasesInv
    <2>3. CASE j = n
        <3>1. subs'[i] = subs[i] /\ subs'[j] = s
            BY <1>1, <1>6, <2>1, <2>3
        <3>2. i \in OfUser(u)
            BY <1>4, <1>10, <2>1, <3>1 DEF OfUser
        <3> QED
            BY <1>2, <1>4, <3>1, <3>2
    <2> QED
        BY <1>8, <2>2, <2>3
<1>11. PurchasesInv'
    BY <1>1, <1>5, <1>6, <1>9, <1>10 DEF PurchasesInv
<1>12. \A j \in Ids : j \in Ids' /\ subs'[j] = subs[j]
    BY <1>1, <1>6, <1>7
<1> QED
    BY <1>6, <1>11, <1>12

-----------------------------------------------------------------------------
(* Mails. *)

\* A subscription is marked before its mail goes out, and what the thread has
\* still to do is not marked.
MailsInv ==
    /\ mails \in Seq(Sent) /\ Len(mails) = Len(subs)
    /\ \A i \in Ids :
        /\ mails[i].reminder \in {0, 1} /\ (~subs[i].reminded => mails[i].reminder = 0)
        /\ mails[i].notice \in {0, 1} /\ (~subs[i].noticed => mails[i].notice = 0)
    /\ pass.at \in {"remind", "reminded"} => \A i \in pass.todo : i \in Ids /\ ~subs[i].reminded
    /\ pass.at = "reminded" =>
        pass.one \in Ids /\ subs[pass.one].reminded /\ mails[pass.one].reminder = 0
    /\ pass.at \in {"notice", "noticed"} => \A i \in pass.todo : i \in Ids /\ ~subs[i].noticed
    /\ pass.at = "noticed" =>
        pass.one \in Ids /\ subs[pass.one].noticed /\ mails[pass.one].notice = 0

BillingInv == PurchasesInv /\ MailsInv

\* A mail that goes out.
LEMMA SentFacts ==
    ASSUME BillingInv, NEW i \in Ids, NEW m \in Sent, mails' = [mails EXCEPT ![i] = m]
    PROVE  /\ mails' \in Seq(Sent) /\ Len(mails') = Len(mails)
           /\ mails'[i] = m
           /\ \A j \in Ids : j # i => mails'[j] = mails[j]
<1>1. Ids = 1..Len(mails) /\ mails \in Seq(Sent)
    BY SubFacts DEF BillingInv, MailsInv
<1>2. mails' \in Seq(Sent) /\ Len(mails') = Len(mails)
    BY <1>1, ExceptSeq
<1>3. mails'[i] = m /\ \A j \in Ids : j # i => mails'[j] = mails[j]
    BY <1>1
<1> QED
    BY <1>2, <1>3

LEMMA RecordFacts ==
    ASSUME BillingInv, NEW i \in Ids
    PROVE  /\ subs[i] = [user |-> subs[i].user, plan |-> subs[i].plan, starts |-> subs[i].starts,
                         expires |-> subs[i].expires, reminded |-> subs[i].reminded,
                         noticed |-> subs[i].noticed]
           /\ subs[i] \in Sub
           /\ mails[i] = [reminder |-> mails[i].reminder, notice |-> mails[i].notice]
           /\ mails[i] \in Sent
<1>1. subs[i] \in Sub
    BY SubFacts DEF BillingInv
<1>2. mails[i] \in Sent
    BY SubFacts DEF BillingInv, MailsInv
<1>3. subs[i] = [user |-> subs[i].user, plan |-> subs[i].plan, starts |-> subs[i].starts,
                 expires |-> subs[i].expires, reminded |-> subs[i].reminded,
                 noticed |-> subs[i].noticed]
    BY <1>1 DEF Sub
<1>4. mails[i] = [reminder |-> mails[i].reminder, notice |-> mails[i].notice]
    BY <1>2 DEF Sent
<1> QED
    BY <1>1, <1>2, <1>3, <1>4

\* A flag is all that marking sets.
LEMMA FlagFacts ==
    ASSUME NEW s \in Sub
    PROVE  /\ LET marked == [s EXCEPT !.reminded = TRUE]
              IN  /\ marked \in Sub /\ marked.reminded /\ marked.noticed = s.noticed
                  /\ marked.user = s.user /\ marked.starts = s.starts
                  /\ marked.expires = s.expires
           /\ LET marked == [s EXCEPT !.noticed = TRUE]
              IN  /\ marked \in Sub /\ marked.noticed /\ marked.reminded = s.reminded
                  /\ marked.user = s.user /\ marked.starts = s.starts
                  /\ marked.expires = s.expires
BY DEF Sub

LEMMA MarkReminderBills ==
    ASSUME BillingInv, PassOK, MarkReminder
    PROVE  BillingInv'
<1>1. PICK i \in pass.todo :
        /\ subs' = [subs EXCEPT ![i].reminded = TRUE] /\ UNCHANGED mails
        /\ pass' = [pass EXCEPT !.at = "reminded", !.todo = @ \ {i}, !.one = i]
    BY DEF MarkReminder, Remind, MarkReminded
<1>2. pass.at = "remind" /\ now' = now
    BY DEF MarkReminder
<1>3. pass' = [at |-> "reminded", t |-> pass.t, todo |-> pass.todo \ {i}, one |-> i]
    BY <1>1, TakingFacts
<1>4. i \in Ids /\ ~subs[i].reminded
    BY <1>1, <1>2 DEF BillingInv, MailsInv
<1> DEFINE s == [subs[i] EXCEPT !.reminded = TRUE]
<1>5. /\ s \in Sub /\ s.reminded /\ s.noticed = subs[i].noticed
      /\ s.user = subs[i].user /\ s.starts = subs[i].starts /\ s.expires = subs[i].expires
    BY <1>4, RecordFacts, FlagFacts
<1>6. subs' = [subs EXCEPT ![i] = s]
    BY <1>1
<1> HIDE DEF s
<1>7. /\ PurchasesInv' /\ Ids' = Ids /\ Len(subs') = Len(subs) /\ subs'[i] = s
      /\ \A j \in Ids : j # i => subs'[j] = subs[j]
    BY <1>2, <1>4, <1>5, <1>6, MarkedFacts DEF BillingInv
<1>8. MailsInv'
    BY <1>1, <1>2, <1>3, <1>4, <1>5, <1>7 DEF BillingInv, MailsInv
<1> QED
    BY <1>7, <1>8 DEF BillingInv

LEMMA MarkNoticeBills ==
    ASSUME BillingInv, PassOK, MarkNotice
    PROVE  BillingInv'
<1>1. PICK i \in pass.todo :
        /\ subs' = [subs EXCEPT ![i].noticed = TRUE] /\ UNCHANGED mails
        /\ pass' = [pass EXCEPT !.at = "noticed", !.todo = @ \ {i}, !.one = i]
    BY DEF MarkNotice
<1>2. pass.at = "notice" /\ now' = now
    BY DEF MarkNotice
<1>3. pass' = [at |-> "noticed", t |-> pass.t, todo |-> pass.todo \ {i}, one |-> i]
    BY <1>1, TakingFacts
<1>4. i \in Ids /\ ~subs[i].noticed
    BY <1>1, <1>2 DEF BillingInv, MailsInv
<1> DEFINE s == [subs[i] EXCEPT !.noticed = TRUE]
<1>5. /\ s \in Sub /\ s.noticed /\ s.reminded = subs[i].reminded
      /\ s.user = subs[i].user /\ s.starts = subs[i].starts /\ s.expires = subs[i].expires
    BY <1>4, RecordFacts, FlagFacts
<1>6. subs' = [subs EXCEPT ![i] = s]
    BY <1>1
<1> HIDE DEF s
<1>7. /\ PurchasesInv' /\ Ids' = Ids /\ Len(subs') = Len(subs) /\ subs'[i] = s
      /\ \A j \in Ids : j # i => subs'[j] = subs[j]
    BY <1>2, <1>4, <1>5, <1>6, MarkedFacts DEF BillingInv
<1>8. MailsInv'
    BY <1>1, <1>2, <1>3, <1>4, <1>5, <1>7 DEF BillingInv, MailsInv
<1> QED
    BY <1>7, <1>8 DEF BillingInv

LEMMA SendReminderBills ==
    ASSUME BillingInv, PassOK, SendReminder
    PROVE  BillingInv'
<1> DEFINE i == pass.one
           m == [mails[i] EXCEPT !.reminder = @ + 1]
<1>1. /\ pass.at = "reminded" /\ subs' = subs /\ now' = now
      /\ mails' = [mails EXCEPT ![i] = m]
    BY DEF SendReminder, Remind, MailReminder
<1>2. pass' = [at |-> "remind", t |-> pass.t, todo |-> pass.todo, one |-> pass.one]
    BY DoingFacts DEF SendReminder
<1>3. i \in Ids /\ subs[i].reminded /\ mails[i].reminder = 0
    BY <1>1 DEF BillingInv, MailsInv
<1>4. m \in Sent /\ m.reminder = 1 /\ m.notice = mails[i].notice
    <2>1. mails[i] \in Sent
        BY <1>3, RecordFacts
    <2> QED
        BY <1>3, <2>1 DEF Sent
<1> HIDE DEF m
<1>5. /\ mails' \in Seq(Sent) /\ Len(mails') = Len(mails) /\ mails'[i] = m
      /\ \A j \in Ids : j # i => mails'[j] = mails[j]
    BY <1>1, <1>3, <1>4, SentFacts
<1>6. Ids' = Ids /\ PurchasesInv'
    BY <1>1 DEF Ids, BillingInv, PurchasesInv
<1> HIDE DEF i
<1>7. MailsInv'
    BY <1>1, <1>2, <1>3, <1>4, <1>5, <1>6 DEF BillingInv, MailsInv
<1> QED
    BY <1>6, <1>7 DEF BillingInv

LEMMA SendNoticeBills ==
    ASSUME BillingInv, PassOK, SendNotice
    PROVE  BillingInv'
<1> DEFINE i == pass.one
           m == [mails[i] EXCEPT !.notice = @ + 1]
<1>1. /\ pass.at = "noticed" /\ subs' = subs /\ now' = now
      /\ mails' = mails \/ mails' = [mails EXCEPT ![i] = m]
    BY DEF SendNotice
<1>2. pass' = [at |-> "notice", t |-> pass.t, todo |-> pass.todo, one |-> pass.one]
    BY DoingFacts DEF SendNotice
<1>3. i \in Ids /\ subs[i].noticed /\ mails[i].notice = 0
    BY <1>1 DEF BillingInv, MailsInv
<1>4. m \in Sent /\ m.notice = 1 /\ m.reminder = mails[i].reminder
    <2>1. mails[i] \in Sent
        BY <1>3, RecordFacts
    <2> QED
        BY <1>3, <2>1 DEF Sent
<1> HIDE DEF m
<1>5. /\ mails' \in Seq(Sent) /\ Len(mails') = Len(mails)
      /\ mails'[i] = m \/ mails'[i] = mails[i]
      /\ \A j \in Ids : j # i => mails'[j] = mails[j]
    BY <1>1, <1>3, <1>4, SentFacts DEF BillingInv, MailsInv
<1>6. Ids' = Ids /\ PurchasesInv'
    BY <1>1 DEF Ids, BillingInv, PurchasesInv
<1> HIDE DEF i
<1>7. MailsInv'
    BY <1>1, <1>2, <1>3, <1>4, <1>5, <1>6 DEF BillingInv, MailsInv
<1> QED
    BY <1>6, <1>7 DEF BillingInv

LEMMA CheckoutBills ==
    ASSUME BillingInv, NEW u \in User, NEW p \in Plan, Checkout(u, p)
    PROVE  BillingInv'
<1> DEFINE n == Len(subs) + 1
           m == [reminder |-> 0, notice |-> 0]
<1>1. /\ PurchasesInv' /\ Len(subs') = n
      /\ \A j \in Ids : j \in Ids' /\ subs'[j] = subs[j]
    BY CheckoutFacts DEF BillingInv
<1>2. /\ mails' = Append(mails, m) /\ pass' = pass
    BY DEF Checkout
<1>3. /\ mails \in Seq(Sent) /\ Len(mails) = Len(subs) /\ Len(subs) \in Nat
      /\ Ids = 1..Len(subs)
    BY SubFacts DEF BillingInv, MailsInv
<1>4. m \in Sent /\ m.reminder = 0 /\ m.notice = 0
    BY DEF Sent
<1> HIDE DEF m
<1>5. /\ mails' \in Seq(Sent) /\ Len(mails') = n /\ mails'[n] = m
      /\ \A j \in Ids : mails'[j] = mails[j]
    BY <1>2, <1>3, <1>4
<1>6. Ids' = 1..n
    BY <1>1 DEF PurchasesInv, Ids
<1>7. \A i \in Ids' : i \in Ids \/ i = n
    BY <1>3, <1>6
<1>8. ASSUME NEW i \in Ids'
      PROVE  /\ mails'[i].reminder \in {0, 1} /\ (~subs'[i].reminded => mails'[i].reminder = 0)
             /\ mails'[i].notice \in {0, 1} /\ (~subs'[i].noticed => mails'[i].notice = 0)
    <2>1. CASE i \in Ids
        BY <1>1, <1>5, <2>1 DEF BillingInv, MailsInv
    <2>2. CASE i = n
        BY <1>4, <1>5, <2>2
    <2> QED
        BY <1>7, <2>1, <2>2
<1>9. ASSUME NEW i \in Ids PROVE i \in Ids' /\ subs'[i] = subs[i] /\ mails'[i] = mails[i]
    BY <1>1, <1>5
<1>10. /\ pass.at \in {"remind", "reminded"} =>
            \A i \in pass.todo : i \in Ids' /\ ~subs'[i].reminded
       /\ pass.at = "reminded" =>
            pass.one \in Ids' /\ subs'[pass.one].reminded /\ mails'[pass.one].reminder = 0
       /\ pass.at \in {"notice", "noticed"} =>
            \A i \in pass.todo : i \in Ids' /\ ~subs'[i].noticed
       /\ pass.at = "noticed" =>
            pass.one \in Ids' /\ subs'[pass.one].noticed /\ mails'[pass.one].notice = 0
    BY <1>9 DEF BillingInv, MailsInv
<1>11. MailsInv'
    BY <1>1, <1>2, <1>5, <1>8, <1>10 DEF MailsInv
<1> QED
    BY <1>1, <1>11 DEF BillingInv

\* What the thread selects is not marked, and a pass begins with nothing to send.
LEMMA SelectionBills ==
    ASSUME BillingInv, PassOK, PassOK',
           \/ StartPass \/ SelectNotices \/ SelectExpired \/ PurgeRow \/ PurgeFiles
           \/ EndPass \/ Crash
    PROVE  BillingInv'
<1>1. UNCHANGED <<subs, mails, now>>
    BY DEF StartPass, SelectNotices, SelectExpired, PurgeRow, PurgeFiles, EndPass, Crash
<1>2. Ids' = Ids /\ PurchasesInv'
    BY <1>1 DEF Ids, BillingInv, PurchasesInv
<1>3. CASE pass'.at \in {"wait", "delete", "rmtree"}
    BY <1>1, <1>2, <1>3 DEF BillingInv, MailsInv
<1>4. CASE StartPass
    <2>1. pass'.at = "remind" /\ pass'.todo = DueReminder
        BY <1>4 DEF StartPass, Resting
    <2>2. \A i \in pass'.todo : i \in Ids /\ ~subs[i].reminded
        BY <2>1 DEF DueReminder
    <2> QED
        BY <1>1, <1>2, <2>1, <2>2 DEF BillingInv, MailsInv
<1>5. CASE SelectNotices
    <2>1. pass'.at = "notice" /\ pass'.todo = DueNotice
        BY <1>5, DoingFacts DEF SelectNotices
    <2>2. \A i \in pass'.todo : i \in Ids /\ ~subs[i].noticed
        BY <2>1 DEF DueNotice
    <2> QED
        BY <1>1, <1>2, <2>1, <2>2 DEF BillingInv, MailsInv
<1>6. CASE SelectExpired \/ PurgeFiles
    BY <1>3, <1>6, DoingFacts DEF SelectExpired, PurgeFiles
<1>7. CASE PurgeRow
    <2>1. PICK i : pass' = [pass EXCEPT !.at = "rmtree", !.todo = @ \ {i}, !.one = i]
        BY <1>7 DEF PurgeRow
    <2>2. pass' = [at |-> "rmtree", t |-> pass.t, todo |-> pass.todo \ {i}, one |-> i]
        BY <2>1, TakingFacts
    <2> QED
        BY <1>3, <2>2
<1>8. CASE EndPass \/ Crash
    BY <1>3, <1>8 DEF EndPass, Crash, Resting
<1> QED
    BY <1>4, <1>5, <1>6, <1>7, <1>8

LEMMA BillingStep == BillingInv /\ PassOK /\ [Next]_vars => BillingInv'
<1> SUFFICES ASSUME BillingInv, PassOK, [Next]_vars PROVE BillingInv'
    OBVIOUS
<1>1. PassOK'
    BY PassStepOK
<1>2. CASE UNCHANGED <<subs, mails, pass>> /\ now' \in Nat
    BY <1>2 DEF BillingInv, PurchasesInv, MailsInv, Ids
<1>3. ASSUME NEW r \in Request,
             \/ CheckStart(r) \/ ConsumeUse(r) \/ WriteCollection(r) \/ InsertHistory(r)
             \/ FindEntry(r) \/ DeleteEntry(r)
      PROVE  BillingInv'
    BY <1>2, <1>3 DEF CheckStart, ConsumeUse, WriteCollection, InsertHistory, FindEntry, DeleteEntry,
                      PassOK
<1>4. CASE ExtendRetention \/ WritePlan \/ FlagPlan \/ RemoveFiles \/ Advance \/ UNCHANGED vars
    BY <1>2, <1>4 DEF ExtendRetention, WritePlan, FlagPlan, RemoveFiles, Advance, vars, PassOK
<1>5. CASE Maintenance \/ Crash
    BY <1>1, <1>5, MarkReminderBills, MarkNoticeBills, SendReminderBills, SendNoticeBills,
       SelectionBills DEF Maintenance
<1> QED
    BY <1>3, <1>4, <1>5, CheckoutBills DEF Next

-----------------------------------------------------------------------------
(* Starts of an analysis and free uses. *)

StartStep == {"new", "asked", "write", "insert", "started", "refused"}

StartRecord == [at : StartStep, plan : Plan \cup {Free}]

StartedFree(k) ==
    {r \in Request : k \in KeysOf[r] /\ start[r].plan = Free /\ start[r].at = "started"}

\* free_usage counts the free requests that started, and history is written
\* only for the others.
UsesInv ==
    /\ start \in [Request -> StartRecord]
    /\ \A r \in Request : start[r].at \in {"write", "insert"} => start[r].plan # Free
    /\ used \in [Key -> Nat]
    /\ \A k \in Key : /\ IsFiniteSet(StartedFree(k))
                      /\ used[k] = Cardinality(StartedFree(k))
                      /\ used[k] <= FreeUses

\* A step of one request.
LEMMA MoveFacts ==
    ASSUME UsesInv, NEW r \in Request, NEW step \in StartStep, Move(r, step)
    PROVE  /\ start' \in [Request -> StartRecord]
           /\ start'[r].at = step /\ start'[r].plan = start[r].plan
           /\ \A q \in Request : q # r => start'[q] = start[q]
BY DEF UsesInv, Move, StartRecord

\* As long as the same free requests have started, nothing is to be counted.
LEMMA SameUses ==
    ASSUME UsesInv, start' \in [Request -> StartRecord], used' = used,
           \A r \in Request :
               start'[r].at \in {"write", "insert"} => start'[r].plan # Free,
           \A r \in Request :
               (start'[r].plan = Free /\ start'[r].at = "started")
                   <=> (start[r].plan = Free /\ start[r].at = "started")
    PROVE  UsesInv'
<1>1. ASSUME NEW k \in Key PROVE StartedFree(k)' = StartedFree(k)
    BY DEF StartedFree
<1> QED
    BY <1>1 DEF UsesInv

LEMMA CheckStartUses ==
    ASSUME UsesInv, PurchasesInv, NEW r \in Request, CheckStart(r)
    PROVE  UsesInv'
<1>1. PlanOf(UserOf[r]) \in Plan \cup {Free}
    BY PlanOfFacts, AccountsAssumption
<1>2. PICK step \in {"refused", "asked"} :
        start' = [start EXCEPT ![r] = [plan |-> PlanOf(UserOf[r]), at |-> step]]
    BY DEF CheckStart
<1>3. start[r].at = "new" /\ used' = used
    BY DEF CheckStart
<1>4. [plan |-> PlanOf(UserOf[r]), at |-> step] \in StartRecord
    BY <1>1 DEF StartRecord, StartStep
<1>5. /\ start' \in [Request -> StartRecord]
      /\ start'[r].at = step
      /\ \A q \in Request : q # r => start'[q] = start[q]
    BY <1>2, <1>4 DEF UsesInv
<1>6. \A q \in Request : start'[q].at \in {"write", "insert"} => start'[q].plan # Free
    BY <1>5 DEF UsesInv
<1>7. \A q \in Request :
        (start'[q].plan = Free /\ start'[q].at = "started")
            <=> (start[q].plan = Free /\ start[q].at = "started")
    BY <1>3, <1>5
<1> QED
    BY <1>3, <1>5, <1>6, <1>7, SameUses

LEMMA ConsumeUses ==
    ASSUME UsesInv, NEW r \in Request, ConsumeUse(r)
    PROVE  UsesInv'
<1>1. start[r].at = "asked" /\ start[r].at # "started"
    BY DEF ConsumeUse
<1>2. CASE start[r].plan # Free /\ Move(r, "write") /\ UNCHANGED used
    <2>1. /\ start' \in [Request -> StartRecord]
          /\ start'[r].at = "write" /\ start'[r].plan = start[r].plan
          /\ \A q \in Request : q # r => start'[q] = start[q]
        BY <1>2, MoveFacts DEF StartStep
    <2>2. \A q \in Request : start'[q].at \in {"write", "insert"} => start'[q].plan # Free
        BY <1>2, <2>1 DEF UsesInv
    <2>3. \A q \in Request :
            (start'[q].plan = Free /\ start'[q].at = "started")
                <=> (start[q].plan = Free /\ start[q].at = "started")
        BY <1>1, <2>1
    <2> QED
        BY <1>2, <2>1, <2>2, <2>3, SameUses
<1>3. CASE Move(r, "refused") /\ UNCHANGED used
    <2>1. /\ start' \in [Request -> StartRecord]
          /\ start'[r].at = "refused"
          /\ \A q \in Request : q # r => start'[q] = start[q]
        BY <1>3, MoveFacts DEF StartStep
    <2>2. \A q \in Request : start'[q].at \in {"write", "insert"} => start'[q].plan # Free
        BY <2>1 DEF UsesInv
    <2>3. \A q \in Request :
            (start'[q].plan = Free /\ start'[q].at = "started")
                <=> (start[q].plan = Free /\ start[q].at = "started")
        BY <1>1, <2>1
    <2> QED
        BY <1>3, <2>1, <2>2, <2>3, SameUses
<1>4. CASE /\ start[r].plan = Free /\ ~Refuses(r) /\ Move(r, "started")
           /\ used' = [k \in Key |-> used[k] + IF k \in KeysOf[r] THEN 1 ELSE 0]
    <2>1. /\ start' \in [Request -> StartRecord]
          /\ start'[r].at = "started" /\ start'[r].plan = Free
          /\ \A q \in Request : q # r => start'[q] = start[q]
        BY <1>4, MoveFacts DEF StartStep
    <2>2. \A q \in Request : start'[q].at \in {"write", "insert"} => start'[q].plan # Free
        BY <2>1 DEF UsesInv
    <2>3. ASSUME NEW k \in Key
          PROVE  /\ IsFiniteSet(StartedFree(k)') /\ used'[k] \in Nat
                 /\ used'[k] = Cardinality(StartedFree(k)')
                 /\ used'[k] <= FreeUses
        <3>1. /\ IsFiniteSet(StartedFree(k)) /\ used[k] = Cardinality(StartedFree(k))
              /\ used[k] <= FreeUses /\ used[k] \in Nat
            BY DEF UsesInv
        <3>2. r \notin StartedFree(k)
            BY <1>1 DEF StartedFree
        <3>3. CASE k \in KeysOf[r]
            <4>1. StartedFree(k)' = StartedFree(k) \cup {r}
                BY <2>1, <3>3 DEF StartedFree
            <4>2. used'[k] = used[k] + 1
                BY <1>4, <3>3
            <4>3. used[k] < FreeUses
                BY <1>4, <3>1, <3>3, AccountsAssumption DEF Refuses, UsedUp
            <4>4. /\ IsFiniteSet(StartedFree(k) \cup {r})
                  /\ Cardinality(StartedFree(k) \cup {r}) = Cardinality(StartedFree(k)) + 1
                BY <3>1, <3>2, FS_AddElement
            <4> QED
                BY <3>1, <4>1, <4>2, <4>3, <4>4, AccountsAssumption
        <3>4. CASE k \notin KeysOf[r]
            <4>1. StartedFree(k)' = StartedFree(k)
                BY <1>1, <2>1, <3>4 DEF StartedFree
            <4>2. used'[k] = used[k]
                BY <1>4, <3>1, <3>4
            <4> QED
                BY <3>1, <4>1, <4>2
        <3> QED
            BY <3>3, <3>4
    <2>4. used' \in [Key -> Nat]
        BY <1>4, <2>3
    <2> QED
        BY <2>1, <2>2, <2>3, <2>4 DEF UsesInv
<1> QED
    BY <1>2, <1>3, <1>4 DEF ConsumeUse

LEMMA HistoryUses ==
    ASSUME UsesInv, NEW r \in Request, WriteCollection(r) \/ InsertHistory(r)
    PROVE  UsesInv'
<1>1. start[r].at \in {"write", "insert"} /\ used' = used
    BY DEF WriteCollection, InsertHistory
<1>2. start[r].plan # Free
    BY <1>1 DEF UsesInv
<1>3. PICK step \in {"insert", "started"} : Move(r, step)
    BY DEF WriteCollection, InsertHistory
<1>4. /\ start' \in [Request -> StartRecord]
      /\ start'[r].at = step /\ start'[r].plan = start[r].plan
      /\ \A q \in Request : q # r => start'[q] = start[q]
    BY <1>3, MoveFacts DEF StartStep
<1>5. \A q \in Request : start'[q].at \in {"write", "insert"} => start'[q].plan # Free
    BY <1>2, <1>4 DEF UsesInv
<1>6. \A q \in Request :
        (start'[q].plan = Free /\ start'[q].at = "started")
            <=> (start[q].plan = Free /\ start[q].at = "started")
    BY <1>2, <1>4
<1> QED
    BY <1>1, <1>4, <1>5, <1>6, SameUses

\* A crash gives up the requests that have not started.
LEMMA CrashFacts ==
    ASSUME UsesInv, Crash
    PROVE  /\ start' \in [Request -> StartRecord]
           /\ \A r \in Request :
                \/ start[r].at \in {"new", "started"} /\ start'[r] = start[r]
                \/ start[r].at \notin {"new", "started"} /\ start'[r].at = "refused"
<1>1. ASSUME NEW r \in Request
      PROVE  /\ start'[r] \in StartRecord
             /\ \/ start[r].at \in {"new", "started"} /\ start'[r] = start[r]
                \/ start[r].at \notin {"new", "started"} /\ start'[r].at = "refused"
    <2>1. start[r] \in StartRecord
        BY DEF UsesInv
    <2>2. start'[r] = IF start[r].at \in {"new", "started"} THEN start[r]
                      ELSE [start[r] EXCEPT !.at = "refused"]
        BY DEF Crash
    <2>3. /\ [start[r] EXCEPT !.at = "refused"] \in StartRecord
          /\ [start[r] EXCEPT !.at = "refused"].at = "refused"
        BY <2>1 DEF StartRecord, StartStep
    <2> QED
        BY <2>1, <2>2, <2>3
<1>2. start' = [r \in Request |-> start'[r]]
    BY DEF Crash
<1> QED
    BY <1>1, <1>2

LEMMA CrashUses ==
    ASSUME UsesInv, Crash
    PROVE  UsesInv'
<1>1. used' = used
    BY DEF Crash
<1>2. \A r \in Request : start'[r].at \in {"write", "insert"} => start'[r].plan # Free
    BY CrashFacts
<1>3. \A r \in Request :
        (start'[r].plan = Free /\ start'[r].at = "started")
            <=> (start[r].plan = Free /\ start[r].at = "started")
    BY CrashFacts
<1> QED
    BY <1>1, <1>2, <1>3, CrashFacts, SameUses

LEMMA UsesStep == UsesInv /\ PurchasesInv /\ [Next]_vars => UsesInv'
<1> SUFFICES ASSUME UsesInv, PurchasesInv, [Next]_vars PROVE UsesInv'
    OBVIOUS
<1>1. CASE UNCHANGED <<used, start>>
    BY <1>1 DEF UsesInv, StartedFree
<1>2. ASSUME NEW r \in Request,
             \/ CheckStart(r) \/ ConsumeUse(r) \/ WriteCollection(r) \/ InsertHistory(r)
             \/ FindEntry(r) \/ DeleteEntry(r)
      PROVE  UsesInv'
    BY <1>1, <1>2, CheckStartUses, ConsumeUses, HistoryUses DEF FindEntry, DeleteEntry
<1>3. ASSUME NEW u \in User, NEW p \in Plan, Checkout(u, p) PROVE UsesInv'
    BY <1>1, <1>3 DEF Checkout
<1>4. CASE ExtendRetention \/ WritePlan \/ FlagPlan \/ RemoveFiles \/ Advance \/ UNCHANGED vars
    BY <1>1, <1>4 DEF ExtendRetention, WritePlan, FlagPlan, RemoveFiles, Advance, vars
<1>5. CASE Maintenance
    BY <1>1, <1>5 DEF Maintenance, StartPass, MarkReminder, SendReminder, SelectNotices, MarkNotice,
        SendNotice, SelectExpired, PurgeRow, PurgeFiles, EndPass
<1> QED
    BY <1>2, <1>3, <1>4, <1>5, CrashUses DEF Next

-----------------------------------------------------------------------------
(* The history, its files and the purge. *)

Kind == {"collection", "plan"}

Entry == [user : User, plan : Plan, created : Nat, expires : Nat, has : SUBSET Kind]

\* When the retention an entry was made with is over.
KeptUntil(r) == history[r].created + Retention[history[r].plan]

RowOK(r) ==
    /\ start[r].at = "started"
    /\ history[r].has \subseteq files[r]
    /\ KeptUntil(r) <= history[r].expires

\* What the handler with the event loop is about to do.
LoopOK ==
    /\ loop.at = "extend" => loop.plan \in Plan
    /\ loop.at \in {"write", "flag", "rmtree"} =>
        loop.entry \in Request /\ start[loop.entry].at = "started"
    /\ loop.at = "write" => loop = [at |-> "write", entry |-> loop.entry]
    /\ loop.at = "flag" /\ loop.entry \in Rows => "plan" \in files[loop.entry]
    /\ loop.at = "rmtree" => loop.entry \notin Rows

\* The purge works on entries whose retention is over, and removes the files
\* of no entry that has a row.
PurgeOK ==
    /\ pass.at \in {"delete", "rmtree"} => \A r \in pass.todo :
        /\ r \in Request /\ start[r].at = "started"
        /\ r \in Rows => KeptUntil(r) <= pass.t
    /\ pass.at = "rmtree" =>
        pass.one \in Request /\ start[pass.one].at = "started" /\ pass.one \notin Rows

EntriesInv ==
    /\ history \in [Request -> Entry \cup {NoRow}]
    /\ files \in [Request -> SUBSET Kind]
    /\ \A r \in Rows : RowOK(r)
    /\ \A r \in Request : start[r].at = "insert" => "collection" \in files[r]
    /\ LoopOK
    /\ PurgeOK

\* Once started, a request stays started, and none gets to the row without its
\* collection.
LEMMA StartsOnly ==
    ASSUME EntriesInv, UNCHANGED <<history, files, loop, pass>>,
           \A r \in Request : start[r].at = "started" => start'[r].at = "started",
           \A r \in Request : start'[r].at = "insert" => start[r].at = "insert"
    PROVE  EntriesInv'
<1>1. Rows' = Rows /\ \A r \in Rows : r \in Request
    BY DEF Rows
<1>2. \A r \in Rows' : RowOK(r)'
    BY <1>1 DEF EntriesInv, RowOK, KeptUntil
<1>3. LoopOK'
    BY <1>1 DEF EntriesInv, LoopOK
<1>4. PurgeOK'
    BY <1>1 DEF EntriesInv, PurgeOK, KeptUntil
<1> QED
    BY <1>2, <1>3, <1>4 DEF EntriesInv

LEMMA StartsEntries ==
    ASSUME EntriesInv, UsesInv, NEW r \in Request, CheckStart(r) \/ ConsumeUse(r)
    PROVE  EntriesInv'
<1>1. UNCHANGED <<history, files, loop, pass>>
    BY DEF CheckStart, ConsumeUse
<1>2. start[r].at \in {"new", "asked"}
    BY DEF CheckStart, ConsumeUse
<1>3. /\ start'[r].at # "insert"
      /\ \A q \in Request : q # r => start'[q] = start[q]
    <2>1. CASE CheckStart(r)
        <3>1. PICK step \in {"refused", "asked"} :
                start' = [start EXCEPT ![r] = [plan |-> PlanOf(UserOf[r]), at |-> step]]
            BY <2>1 DEF CheckStart
        <3> QED
            BY <3>1 DEF UsesInv
    <2>2. CASE ConsumeUse(r)
        <3>1. \E step \in {"write", "refused", "started"} : Move(r, step)
            BY <2>2 DEF ConsumeUse
        <3> QED
            BY <3>1, MoveFacts DEF StartStep
    <2> QED
        BY <2>1, <2>2
<1> QED
    BY <1>1, <1>2, <1>3, StartsOnly

LEMMA WriteCollectionEntries ==
    ASSUME EntriesInv, UsesInv, NEW r \in Request, WriteCollection(r)
    PROVE  EntriesInv'
<1>1. /\ start[r].at = "write" /\ files' = [files EXCEPT ![r] = {"collection"}]
      /\ UNCHANGED <<history, loop, pass>> /\ Move(r, "insert")
    BY DEF WriteCollection
<1>2. /\ start'[r].at = "insert"
      /\ \A q \in Request : q # r => start'[q] = start[q]
    BY <1>1, MoveFacts DEF StartStep
<1>3. /\ files' \in [Request -> SUBSET Kind] /\ "collection" \in files'[r]
      /\ \A q \in Request : q # r => files'[q] = files[q]
    BY <1>1 DEF EntriesInv, Kind
<1>4. Rows' = Rows /\ r \notin Rows /\ \A q \in Rows : q \in Request
    BY <1>1 DEF Rows, EntriesInv, RowOK
<1>5. \A q \in Rows' : RowOK(q)'
    BY <1>1, <1>2, <1>3, <1>4 DEF EntriesInv, RowOK, KeptUntil
<1>6. LoopOK'
    BY <1>1, <1>2, <1>3, <1>4 DEF EntriesInv, LoopOK
<1>7. PurgeOK'
    BY <1>1, <1>2, <1>4 DEF EntriesInv, PurgeOK, KeptUntil
<1>8. \A q \in Request : start'[q].at = "insert" => "collection" \in files'[q]
    BY <1>2, <1>3 DEF EntriesInv
<1> QED
    BY <1>1, <1>3, <1>5, <1>6, <1>7, <1>8 DEF EntriesInv

LEMMA InsertHistoryEntries ==
    ASSUME EntriesInv, UsesInv, now \in Nat, NEW r \in Request, InsertHistory(r)
    PROVE  EntriesInv'
<1> DEFINE row == Row(UserOf[r], start[r].plan, now)
<1>1. /\ start[r].at = "insert" /\ history' = [history EXCEPT ![r] = row]
      /\ UNCHANGED <<files, loop, pass>> /\ Move(r, "started")
    BY DEF InsertHistory
<1>2. /\ start'[r].at = "started"
      /\ \A q \in Request : q # r => start'[q] = start[q]
    BY <1>1, MoveFacts DEF StartStep
<1>3. start[r].plan \in Plan
    <2>1. start[r] \in StartRecord /\ start[r].plan # Free
        BY <1>1 DEF UsesInv
    <2> QED
        BY <2>1 DEF StartRecord
<1>4. Retention[start[r].plan] \in Nat /\ UserOf[r] \in User
    BY <1>3, AccountsAssumption
<1>5. /\ row \in Entry /\ row.has = {"collection"}
      /\ row.created + Retention[row.plan] <= row.expires
    BY <1>3, <1>4 DEF Row, Entry, Kind
<1> HIDE DEF row
<1>6. /\ history' \in [Request -> Entry \cup {NoRow}]
      /\ history'[r] = row
      /\ \A q \in Request : q # r => history'[q] = history[q]
    BY <1>1, <1>5 DEF EntriesInv
<1>7. \A q \in Rows' : q \in Request /\ (q = r \/ q \in Rows)
    BY <1>6 DEF Rows
<1>8. "collection" \in files[r]
    BY <1>1 DEF EntriesInv
<1>9. RowOK(r)'
    BY <1>1, <1>2, <1>5, <1>6, <1>8 DEF RowOK, KeptUntil
<1>10. ASSUME NEW q \in Rows', q # r PROVE RowOK(q)'
    BY <1>1, <1>2, <1>6, <1>7, <1>10 DEF EntriesInv, RowOK, KeptUntil
<1>11. LoopOK'
    <2>1. loop.at \in {"write", "flag", "rmtree"} => loop.entry # r
        BY <1>1 DEF EntriesInv, LoopOK
    <2> QED
        BY <1>1, <1>2, <1>7, <2>1 DEF EntriesInv, LoopOK
<1>12. PurgeOK'
    <2>1. pass.at \in {"delete", "rmtree"} => r \notin pass.todo
        BY <1>1 DEF EntriesInv, PurgeOK
    <2>2. pass.at = "rmtree" => pass.one # r
        BY <1>1 DEF EntriesInv, PurgeOK
    <2> QED
        BY <1>1, <1>2, <1>6, <1>7, <2>1, <2>2 DEF EntriesInv, PurgeOK, KeptUntil
<1>13. \A q \in Request : start'[q].at = "insert" => "collection" \in files'[q]
    BY <1>1, <1>2 DEF EntriesInv
<1> QED
    BY <1>1, <1>6, <1>9, <1>10, <1>11, <1>12, <1>13 DEF EntriesInv

\* Only the loop goes on.
LEMMA LoopOnly ==
    ASSUME EntriesInv, UNCHANGED <<history, files, start, pass>>, LoopOK'
    PROVE  EntriesInv'
<1>1. Rows' = Rows
    BY DEF Rows
<1>2. \A r \in Rows' : RowOK(r)'
    BY <1>1 DEF EntriesInv, RowOK, KeptUntil
<1>3. PurgeOK'
    BY <1>1 DEF EntriesInv, PurgeOK, KeptUntil
<1> QED
    BY <1>2, <1>3 DEF EntriesInv

LEMMA HandlerEntries ==
    ASSUME EntriesInv,
           \/ \E u \in User, p \in Plan : Checkout(u, p)
           \/ \E r \in Request : FindEntry(r)
    PROVE  EntriesInv'
<1>1. UNCHANGED <<history, files, start, pass>>
    BY DEF Checkout, FindEntry
<1>2. CASE \E u \in User, p \in Plan : Checkout(u, p)
    <2>1. PICK u \in User, p \in Plan :
            loop' \in {[at |-> "extend", user |-> u, plan |-> p, t |-> now], Idle}
        BY <1>2 DEF Checkout
    <2>2. LoopOK'
        BY <2>1 DEF LoopOK, Idle
    <2> QED
        BY <1>1, <2>2, LoopOnly
<1>3. CASE \E r \in Request : FindEntry(r)
    <2>1. PICK r \in Request : start[r].at = "started" /\ loop' = [at |-> "write", entry |-> r]
        BY <1>3 DEF FindEntry
    <2>2. LoopOK'
        BY <1>1, <2>1 DEF LoopOK
    <2> QED
        BY <1>1, <2>2, LoopOnly
<1> QED
    BY <1>2, <1>3

\* With the new plan an entry is kept no less long.
LEMMA ExtendEntries ==
    ASSUME EntriesInv, ExtendRetention
    PROVE  EntriesInv'
<1>1. /\ loop.at = "extend" /\ loop' = Idle /\ UNCHANGED <<files, start, pass>>
      /\ loop.plan \in Plan
    BY DEF ExtendRetention, EntriesInv, LoopOK
<1>2. ASSUME NEW e \in Entry
      PROVE  LET h == [e EXCEPT !.expires = Extended(e, loop.plan)]
             IN  /\ h \in Entry /\ h.created = e.created /\ h.plan = e.plan /\ h.has = e.has
                 /\ h.expires \in Nat /\ e.expires <= h.expires
    <2>1. /\ e.created \in Nat /\ e.expires \in Nat
          /\ Retention[loop.plan] \in Nat
        BY <1>1, AccountsAssumption DEF Entry
    <2>2. Extended(e, loop.plan) \in Nat /\ e.expires <= Extended(e, loop.plan)
        BY <2>1 DEF Extended
    <2> QED
        BY <2>2 DEF Entry
<1>3. ASSUME NEW r \in Request
      PROVE  /\ history'[r] \in Entry \cup {NoRow}
             /\ r \notin Rows => history'[r] = NoRow
             /\ r \in Rows => /\ history'[r].created = history[r].created
                              /\ history'[r].plan = history[r].plan
                              /\ history'[r].has = history[r].has
                              /\ history'[r].expires \in Nat
                              /\ history[r].expires <= history'[r].expires
    <2>1. CASE r \in Rows
        <3>1. history[r] \in Entry /\ history[r].expires \in Nat
            BY <2>1 DEF EntriesInv, Rows, Entry
        <3>2. \/ history'[r] = history[r]
              \/ history'[r] = [history[r] EXCEPT !.expires = Extended(history[r], loop.plan)]
            BY DEF ExtendRetention
        <3>3. CASE history'[r] = history[r]
            BY <2>1, <3>1, <3>3
        <3>4. CASE history'[r] = [history[r] EXCEPT !.expires = Extended(history[r], loop.plan)]
            <4> DEFINE h == [history[r] EXCEPT !.expires = Extended(history[r], loop.plan)]
            <4>1. /\ h \in Entry /\ h.created = history[r].created /\ h.plan = history[r].plan
                  /\ h.has = history[r].has
                  /\ h.expires \in Nat /\ history[r].expires <= h.expires
                BY <1>2, <3>1
            <4>2. history'[r] = h
                BY <3>4
            <4> HIDE DEF h
            <4> QED
                BY <2>1, <4>1, <4>2
        <3> QED
            BY <3>2, <3>3, <3>4
    <2>2. CASE r \notin Rows
        BY <2>2 DEF ExtendRetention, Rows
    <2> QED
        BY <2>1, <2>2
<1>4. Rows' \subseteq Rows /\ Rows \subseteq Request
    BY <1>3 DEF Rows
<1>5. ASSUME NEW r \in Rows' PROVE RowOK(r)' /\ KeptUntil(r)' = KeptUntil(r)
    <2>1. KeptUntil(r)' = KeptUntil(r)
        BY <1>3, <1>4 DEF KeptUntil
    <2>2. KeptUntil(r) \in Nat /\ history[r].expires \in Nat
        <3>1. history[r] \in Entry
            BY <1>4 DEF EntriesInv, Rows
        <3>2. history[r].created \in Nat /\ history[r].plan \in Plan /\ history[r].expires \in Nat
            BY <3>1 DEF Entry
        <3> QED
            BY <3>2, AccountsAssumption DEF KeptUntil
    <2>3. history'[r].expires \in Nat /\ history[r].expires <= history'[r].expires
        BY <1>3, <1>4
    <2>4. KeptUntil(r) <= history'[r].expires
        BY <1>4, <2>2, <2>3 DEF EntriesInv, RowOK
    <2> QED
        BY <1>1, <1>3, <1>4, <2>1, <2>4 DEF EntriesInv, RowOK
<1>6. history' \in [Request -> Entry \cup {NoRow}]
    <2>1. history' = [r \in Request |-> history'[r]]
        BY DEF ExtendRetention
    <2> QED
        BY <1>3, <2>1
<1>7. PurgeOK'
    BY <1>1, <1>4, <1>5 DEF EntriesInv, PurgeOK
<1>8. LoopOK'
    BY <1>1 DEF LoopOK, Idle
<1> QED
    BY <1>1, <1>5, <1>6, <1>7, <1>8 DEF EntriesInv

LEMMA WritePlanEntries ==
    ASSUME EntriesInv, WritePlan
    PROVE  EntriesInv'
<1> DEFINE e == loop.entry
<1>1. /\ loop.at = "write" /\ files' = [files EXCEPT ![e] = @ \cup {"plan"}]
      /\ UNCHANGED <<history, start, pass>> /\ loop' = [loop EXCEPT !.at = "flag"]
    BY DEF WritePlan
<1>2. /\ e \in Request /\ start[e].at = "started"
      /\ loop = [at |-> "write", entry |-> e]
    BY <1>1 DEF EntriesInv, LoopOK
<1>3. loop'.at = "flag" /\ loop'.entry = e
    BY <1>1, <1>2
<1> HIDE DEF e
<1>4. /\ files' \in [Request -> SUBSET Kind]
      /\ files'[e] = files[e] \cup {"plan"}
      /\ \A r \in Request : r # e => files'[r] = files[r]
    BY <1>1, <1>2 DEF EntriesInv, Kind
<1>5. Rows' = Rows /\ Rows \subseteq Request
    BY <1>1 DEF Rows
<1>6. \A r \in Rows' : RowOK(r)'
    BY <1>1, <1>4, <1>5 DEF EntriesInv, RowOK, KeptUntil
<1>7. LoopOK'
    BY <1>1, <1>2, <1>3, <1>4 DEF LoopOK
<1>8. PurgeOK'
    BY <1>1, <1>5 DEF EntriesInv, PurgeOK, KeptUntil
<1>9. \A r \in Request : start'[r].at = "insert" => "collection" \in files'[r]
    BY <1>1, <1>4 DEF EntriesInv
<1> QED
    BY <1>1, <1>4, <1>6, <1>7, <1>8, <1>9 DEF EntriesInv

\* The file is there before the flag is set.
LEMMA FlagPlanEntries ==
    ASSUME EntriesInv, FlagPlan
    PROVE  EntriesInv'
<1> DEFINE e == loop.entry
           h == [history[e] EXCEPT !.has = @ \cup {"plan"}]
<1>1. loop.at = "flag" /\ loop' = Idle /\ UNCHANGED <<files, start, pass>>
    BY DEF FlagPlan
<1>2. LoopOK'
    BY <1>1 DEF LoopOK, Idle
<1>3. CASE e \notin Rows
    <2>1. history' = history
        BY <1>3 DEF FlagPlan
    <2> QED
        BY <1>1, <1>2, <2>1, LoopOnly
<1>4. CASE e \in Rows
    <2>1. history' = [history EXCEPT ![e] = h]
        BY <1>4 DEF FlagPlan
    <2>2. e \in Request /\ history[e] \in Entry /\ "plan" \in files[e]
        BY <1>1, <1>4 DEF EntriesInv, LoopOK, Rows
    <2>3. /\ h \in Entry /\ h.has = history[e].has \cup {"plan"}
          /\ h.created = history[e].created /\ h.plan = history[e].plan
          /\ h.expires = history[e].expires
        <3>1. ASSUME NEW x \in Entry
              PROVE  LET y == [x EXCEPT !.has = @ \cup {"plan"}]
                     IN  /\ y \in Entry /\ y.has = x.has \cup {"plan"}
                         /\ y.created = x.created /\ y.plan = x.plan /\ y.expires = x.expires
            BY DEF Entry, Kind
        <3> QED
            BY <2>2, <3>1
    <2> HIDE DEF e, h
    <2>4. /\ history' \in [Request -> Entry \cup {NoRow}]
          /\ history'[e] = h
          /\ \A r \in Request : r # e => history'[r] = history[r]
        BY <2>1, <2>2, <2>3 DEF EntriesInv
    <2>5. Rows' \subseteq Rows /\ Rows \subseteq Request
        BY <1>4, <2>4 DEF Rows
    <2>6. ASSUME NEW r \in Rows' PROVE RowOK(r)' /\ KeptUntil(r)' = KeptUntil(r)
        <3>1. r \in Rows /\ r \in Request /\ RowOK(r)
            BY <2>5 DEF EntriesInv
        <3>2. CASE r = e
            BY <1>1, <2>2, <2>3, <2>4, <3>1, <3>2 DEF RowOK, KeptUntil
        <3>3. CASE r # e
            BY <1>1, <2>4, <3>1, <3>3 DEF RowOK, KeptUntil
        <3> QED
            BY <3>2, <3>3
    <2>7. PurgeOK'
        BY <1>1, <2>5, <2>6 DEF EntriesInv, PurgeOK
    <2> QED
        BY <1>1, <1>2, <2>4, <2>6, <2>7 DEF EntriesInv
<1> QED
    BY <1>3, <1>4

\* The row goes before the files.
LEMMA DeleteRow ==
    ASSUME EntriesInv, NEW r \in Request, start[r].at = "started",
           history' = [history EXCEPT ![r] = NoRow], UNCHANGED <<files, start>>,
           LoopOK', PurgeOK'
    PROVE  EntriesInv'
<1>1. /\ history' \in [Request -> Entry \cup {NoRow}]
      /\ history'[r] = NoRow
      /\ \A q \in Request : q # r => history'[q] = history[q]
    BY DEF EntriesInv
<1>2. \A q \in Rows' : q \in Rows /\ q \in Request /\ q # r
    BY <1>1 DEF Rows
<1>3. \A q \in Rows' : RowOK(q)'
    BY <1>1, <1>2 DEF EntriesInv, RowOK, KeptUntil
<1> QED
    BY <1>1, <1>3 DEF EntriesInv

LEMMA DeleteFiles ==
    ASSUME EntriesInv, NEW r \in Request, start[r].at = "started", r \notin Rows,
           files' = [files EXCEPT ![r] = {}], UNCHANGED <<history, start>>,
           LoopOK', PurgeOK'
    PROVE  EntriesInv'
<1>1. /\ files' \in [Request -> SUBSET Kind]
      /\ \A q \in Request : q # r => files'[q] = files[q]
    BY DEF EntriesInv
<1>2. Rows' = Rows /\ \A q \in Rows : q \in Request /\ q # r
    BY DEF Rows
<1>3. \A q \in Rows' : RowOK(q)'
    BY <1>1, <1>2 DEF EntriesInv, RowOK, KeptUntil
<1>4. \A q \in Request : start'[q].at = "insert" => "collection" \in files'[q]
    BY <1>1 DEF EntriesInv
<1> QED
    BY <1>1, <1>3, <1>4 DEF EntriesInv

LEMMA OwnerDeletes ==
    ASSUME EntriesInv, NEW r \in Request, DeleteEntry(r)
    PROVE  EntriesInv'
<1>1. /\ r \in Rows /\ history' = [history EXCEPT ![r] = NoRow]
      /\ loop' = [at |-> "rmtree", entry |-> r] /\ UNCHANGED <<files, start, pass>>
    BY DEF DeleteEntry
<1>2. start[r].at = "started"
    BY <1>1 DEF EntriesInv, RowOK
<1>3. /\ history'[r] = NoRow
      /\ \A q \in Request : q # r => history'[q] = history[q]
    BY <1>1 DEF EntriesInv
<1>4. r \notin Rows' /\ \A q \in Rows' : q \in Rows /\ q \in Request /\ q # r
    BY <1>3 DEF Rows
<1>5. LoopOK'
    BY <1>1, <1>2, <1>4 DEF LoopOK
<1>6. PurgeOK'
    BY <1>1, <1>3, <1>4 DEF EntriesInv, PurgeOK, KeptUntil
<1> QED
    BY <1>1, <1>2, <1>5, <1>6, DeleteRow

LEMMA OwnerRemovesFiles ==
    ASSUME EntriesInv, RemoveFiles
    PROVE  EntriesInv'
<1> DEFINE r == loop.entry
<1>1. /\ loop.at = "rmtree" /\ files' = [files EXCEPT ![r] = {}]
      /\ loop' = Idle /\ UNCHANGED <<history, start, pass>>
    BY DEF RemoveFiles
<1>2. r \in Request /\ start[r].at = "started" /\ r \notin Rows
    BY <1>1 DEF EntriesInv, LoopOK
<1>3. LoopOK'
    BY <1>1 DEF LoopOK, Idle
<1>4. Rows' = Rows
    BY <1>1 DEF Rows
<1>5. PurgeOK'
    BY <1>1, <1>4 DEF EntriesInv, PurgeOK, KeptUntil
<1> HIDE DEF r
<1> QED
    BY <1>1, <1>2, <1>3, <1>5, DeleteFiles

LEMMA PurgeRowEntries ==
    ASSUME EntriesInv, PassOK, PurgeRow
    PROVE  EntriesInv'
<1>1. PICK r \in pass.todo :
        /\ history' = [history EXCEPT ![r] = NoRow]
        /\ pass' = [pass EXCEPT !.at = "rmtree", !.todo = @ \ {r}, !.one = r]
    BY DEF PurgeRow, Purge
<1>2. pass.at = "delete" /\ UNCHANGED <<files, start, loop>>
    BY DEF PurgeRow, Purge
<1>3. pass' = [at |-> "rmtree", t |-> pass.t, todo |-> pass.todo \ {r}, one |-> r]
    BY <1>1, TakingFacts
<1>4. r \in Request /\ start[r].at = "started"
    BY <1>1, <1>2 DEF EntriesInv, PurgeOK
<1>5. /\ history'[r] = NoRow
      /\ \A q \in Request : q # r => history'[q] = history[q]
    BY <1>1, <1>4 DEF EntriesInv
<1>6. r \notin Rows' /\ \A q \in Rows' : q \in Rows /\ q \in Request /\ q # r
    BY <1>5 DEF Rows
<1>7. PurgeOK'
    BY <1>1, <1>2, <1>3, <1>4, <1>5, <1>6 DEF EntriesInv, PurgeOK, KeptUntil
<1>8. LoopOK'
    BY <1>2, <1>6 DEF EntriesInv, LoopOK
<1> QED
    BY <1>1, <1>2, <1>4, <1>7, <1>8, DeleteRow

LEMMA PurgeFilesEntries ==
    ASSUME EntriesInv, PassOK, PurgeFiles
    PROVE  EntriesInv'
<1> DEFINE r == pass.one
<1>1. /\ pass.at = "rmtree" /\ files' = [files EXCEPT ![r] = {}]
      /\ UNCHANGED <<history, start, loop>> /\ Doing("delete", pass.todo)
    BY DEF PurgeFiles, Purge
<1>2. pass' = [at |-> "delete", t |-> pass.t, todo |-> pass.todo, one |-> r]
    BY <1>1, DoingFacts
<1>3. r \in Request /\ start[r].at = "started" /\ r \notin Rows
    BY <1>1 DEF EntriesInv, PurgeOK
<1> HIDE DEF r
<1>4. Rows' = Rows /\ Rows \subseteq Request
    BY <1>1 DEF Rows
<1>5. PurgeOK'
    BY <1>1, <1>2, <1>4 DEF EntriesInv, PurgeOK, KeptUntil
<1>6. LoopOK'
    <2>1. loop.at = "flag" /\ loop.entry \in Rows => "plan" \in files'[loop.entry]
        <3>1. \A q \in Request : q # r => files'[q] = files[q]
            BY <1>1 DEF EntriesInv
        <3> QED
            BY <1>3, <1>4, <3>1 DEF EntriesInv, LoopOK
    <2> QED
        BY <1>1, <1>4, <2>1 DEF EntriesInv, LoopOK
<1> QED
    BY <1>1, <1>3, <1>5, <1>6, DeleteFiles

\* Only the pass goes on.
LEMMA PassOnly ==
    ASSUME EntriesInv, UNCHANGED <<history, files, start, loop>>, PurgeOK'
    PROVE  EntriesInv'
<1>1. Rows' = Rows
    BY DEF Rows
<1>2. \A r \in Rows' : RowOK(r)'
    BY <1>1 DEF EntriesInv, RowOK, KeptUntil
<1>3. LoopOK'
    BY <1>1 DEF EntriesInv, LoopOK
<1> QED
    BY <1>2, <1>3 DEF EntriesInv

\* What is selected for the purge has expired, so its retention is over.
LEMMA SelectExpiredEntries ==
    ASSUME EntriesInv, PassOK, SelectExpired
    PROVE  EntriesInv'
<1>1. /\ pass' = [at |-> "delete", t |-> pass.t, todo |-> {r \in Rows : PastRetention(r)},
                  one |-> pass.one]
      /\ UNCHANGED <<history, files, start, loop>>
    BY DoingFacts DEF SelectExpired
<1>2. Rows' = Rows /\ Rows \subseteq Request
    BY <1>1 DEF Rows
<1>3. ASSUME NEW r \in pass'.todo
      PROVE  r \in Request /\ start'[r].at = "started" /\ KeptUntil(r)' <= pass'.t
    <2>1. r \in Rows /\ r \in Request /\ history[r].expires <= pass.t
        BY <1>1, <1>2 DEF PastRetention
    <2>2. history[r] \in Entry /\ pass.t \in Nat
        BY <2>1 DEF EntriesInv, Rows, PassOK
    <2>3. history[r].created \in Nat /\ history[r].plan \in Plan /\ history[r].expires \in Nat
        BY <2>2 DEF Entry
    <2>4. KeptUntil(r) \in Nat
        BY <2>3, AccountsAssumption DEF KeptUntil
    <2>5. RowOK(r)
        BY <2>1 DEF EntriesInv
    <2>6. KeptUntil(r) <= pass.t
        BY <2>1, <2>2, <2>3, <2>4, <2>5 DEF RowOK
    <2>7. KeptUntil(r)' = KeptUntil(r)
        BY <1>1 DEF KeptUntil
    <2> QED
        BY <1>1, <2>1, <2>5, <2>6, <2>7 DEF RowOK
<1>4. PurgeOK'
    BY <1>1, <1>3 DEF PurgeOK
<1> QED
    BY <1>1, <1>4, PassOnly

LEMMA OtherPassEntries ==
    ASSUME EntriesInv, PassOK,
           \/ StartPass \/ MarkReminder \/ SendReminder \/ SelectNotices \/ MarkNotice
           \/ SendNotice \/ EndPass
    PROVE  EntriesInv'
<1>1. UNCHANGED <<history, files, start, loop>>
    BY DEF StartPass, MarkReminder, SendReminder, SelectNotices, MarkNotice, SendNotice, EndPass
<1>2. pass'.at \notin {"delete", "rmtree"}
    <2>1. CASE StartPass \/ EndPass
        <3>1. \/ pass' = [at |-> "remind", t |-> now, todo |-> DueReminder, one |-> 0]
              \/ pass' = [at |-> "wait", t |-> 0, todo |-> {}, one |-> 0]
            BY <2>1 DEF StartPass, EndPass, Resting
        <3> QED
            BY <3>1
    <2>2. CASE SendReminder \/ SelectNotices \/ SendNotice
        BY <2>2, DoingFacts DEF SendReminder, SelectNotices, SendNotice
    <2>3. CASE MarkReminder
        <3>1. PICK i : pass' = [pass EXCEPT !.at = "reminded", !.todo = @ \ {i}, !.one = i]
            BY <2>3 DEF MarkReminder
        <3>2. pass' = [at |-> "reminded", t |-> pass.t, todo |-> pass.todo \ {i}, one |-> i]
            BY <3>1, TakingFacts
        <3> QED
            BY <3>2
    <2>4. CASE MarkNotice
        <3>1. PICK i : pass' = [pass EXCEPT !.at = "noticed", !.todo = @ \ {i}, !.one = i]
            BY <2>4 DEF MarkNotice
        <3>2. pass' = [at |-> "noticed", t |-> pass.t, todo |-> pass.todo \ {i}, one |-> i]
            BY <3>1, TakingFacts
        <3> QED
            BY <3>2
    <2> QED
        BY <2>1, <2>2, <2>3, <2>4
<1>3. PurgeOK'
    BY <1>2 DEF PurgeOK
<1> QED
    BY <1>1, <1>3, PassOnly

\* What a crash interrupts leaves files without a row at worst.
LEMMA CrashEntries ==
    ASSUME EntriesInv, UsesInv, Crash
    PROVE  EntriesInv'
<1>1. UNCHANGED <<history, files>> /\ loop' = Idle /\ pass' = Resting
    BY DEF Crash
<1>2. \A r \in Request :
        /\ start[r].at = "started" => start'[r].at = "started"
        /\ start'[r].at # "insert"
    BY CrashFacts
<1>3. Rows' = Rows /\ Rows \subseteq Request
    BY <1>1 DEF Rows
<1>4. \A r \in Rows' : RowOK(r)'
    BY <1>1, <1>2, <1>3 DEF EntriesInv, RowOK, KeptUntil
<1>5. LoopOK' /\ PurgeOK'
    BY <1>1 DEF LoopOK, PurgeOK, Idle, Resting
<1> QED
    BY <1>1, <1>2, <1>4, <1>5 DEF EntriesInv

LEMMA EntriesStep == EntriesInv /\ UsesInv /\ PassOK /\ [Next]_vars => EntriesInv'
<1> SUFFICES ASSUME EntriesInv, UsesInv, PassOK, [Next]_vars PROVE EntriesInv'
    OBVIOUS
<1>1. ASSUME NEW r \in Request,
             \/ CheckStart(r) \/ ConsumeUse(r) \/ WriteCollection(r) \/ InsertHistory(r)
             \/ FindEntry(r) \/ DeleteEntry(r)
      PROVE  EntriesInv'
    <2>1. now \in Nat
        BY DEF PassOK
    <2> QED
        BY <1>1, <2>1, StartsEntries, WriteCollectionEntries, InsertHistoryEntries, HandlerEntries,
           OwnerDeletes
<1>2. CASE ExtendRetention \/ WritePlan \/ FlagPlan \/ RemoveFiles
    BY <1>2, ExtendEntries, WritePlanEntries, FlagPlanEntries, OwnerRemovesFiles
<1>3. CASE Maintenance
    BY <1>3, PurgeRowEntries, PurgeFilesEntries, SelectExpiredEntries, OtherPassEntries
    DEF Maintenance
<1>4. CASE Advance \/ UNCHANGED vars
    <2>1. UNCHANGED <<history, files, start, loop, pass>>
        BY <1>4 DEF Advance, vars
    <2> QED
        BY <2>1, StartsOnly
<1> QED
    BY <1>1, <1>2, <1>3, <1>4, HandlerEntries, CrashEntries DEF Next

-----------------------------------------------------------------------------
(* The invariant. *)

Inv == PassOK /\ BillingInv /\ UsesInv /\ EntriesInv

LEMMA InitInv == Init => Inv
<1> SUFFICES ASSUME Init PROVE Inv
    OBVIOUS
<1>1. PassOK
    BY DEF Init, PassOK, PassStep, Resting
<1>2. Ids = {}
    BY DEF Init, Ids
<1>3. PurchasesInv
    BY <1>2 DEF Init, PurchasesInv
<1>4. MailsInv
    BY <1>2 DEF Init, MailsInv, Resting
<1>5. UsesInv
    <2>1. start \in [Request -> StartRecord] /\ \A r \in Request : start[r].at = "new"
        BY DEF Init, StartRecord, StartStep
    <2>2. \A k \in Key : StartedFree(k) = {} /\ used[k] = 0
        BY <2>1 DEF StartedFree, Init
    <2>3. used \in [Key -> Nat]
        BY DEF Init
    <2>4. ASSUME NEW k \in Key
          PROVE  /\ IsFiniteSet(StartedFree(k))
                 /\ used[k] = Cardinality(StartedFree(k)) /\ used[k] <= FreeUses
        <3>1. StartedFree(k) = {} /\ used[k] = 0
            BY <2>2
        <3>2. IsFiniteSet({}) /\ Cardinality({}) = 0
            BY FS_EmptySet
        <3>3. 0 <= FreeUses
            BY AccountsAssumption
        <3> QED
            BY <3>1, <3>2, <3>3
    <2>5. \A r \in Request : start[r].at \in {"write", "insert"} => start[r].plan # Free
        BY <2>1
    <2> QED
        BY <2>1, <2>3, <2>4, <2>5 DEF UsesInv
<1>6. EntriesInv
    <2>1. Rows = {}
        BY DEF Init, Rows
    <2>2. LoopOK /\ PurgeOK
        BY DEF Init, LoopOK, PurgeOK, Idle, Resting
    <2> QED
        BY <2>1, <2>2 DEF Init, EntriesInv
<1> QED
    BY <1>1, <1>3, <1>4, <1>5, <1>6 DEF Inv, BillingInv

LEMMA StepInv == Inv /\ [Next]_vars => Inv'
BY PassStepOK, BillingStep, UsesStep, EntriesStep DEF Inv, BillingInv

LEMMA Invariance == Spec => []Inv
<1> QED
    BY InitInv, StepInv, PTL DEF Spec

\* Concurrent starts never give a key more free uses than the allowance, for
\* any requests and any overlap of their keys.
THEOREM AllowanceHolds == Spec => []FreeUsesHold
<1>1. Inv => FreeUsesHold
    BY DEF Inv, UsesInv, StartedFree, FreeUsesHold
<1> QED
    BY <1>1, Invariance, PTL

\* Purchases of one user queue up, whenever they are made.
THEOREM PurchasesQueueUp == Spec => []NoPaidTimeLost
<1>1. Inv => NoPaidTimeLost
    <2> SUFFICES ASSUME Inv, NEW i \in Ids, NEW j \in Ids, i # j, subs[i].user = subs[j].user
                 PROVE  subs[i].expires <= subs[j].starts \/ subs[j].expires <= subs[i].starts
        BY DEF NoPaidTimeLost
    <2>1. i \in Nat /\ j \in Nat
        BY SubFacts DEF Inv, BillingInv
    <2>2. i < j \/ j < i
        BY <2>1
    <2> QED
        BY <2>2 DEF Inv, BillingInv, PurchasesInv
<1> QED
    BY <1>1, Invariance, PTL

\* No mail goes out twice, wherever the process dies.
THEOREM MailsNeverRepeated == Spec => []MailsOnce
<1>1. Inv => MailsOnce
    BY DEF Inv, BillingInv, MailsInv, MailsOnce
<1> QED
    BY <1>1, Invariance, PTL

\* What the history offers is on disk.
THEOREM OffersAlwaysKept == Spec => []OfferedFilesExist
<1>1. Inv => OfferedFilesExist
    BY DEF Inv, EntriesInv, RowOK, OfferedFilesExist
<1> QED
    BY <1>1, Invariance, PTL

-----------------------------------------------------------------------------
(* Retention. *)

\* Only the purge of an entry whose retention is over is such a step.
LEMMA PurgeRespects ==
    ASSUME Inv, [Next]_vars, NEW r \in Rows, history'[r] = NoRow,
           pass.at = "delete", pass'.at = "rmtree"
    PROVE  history[r].created + Retention[history[r].plan] <= now
<1>1. PassOK /\ r \in Request /\ history[r] # NoRow
    BY DEF Inv, Rows
<1>2. pass' # pass
    OBVIOUS
<1>3. PurgeRow
    <2>1. ~UNCHANGED pass
        BY <1>2
    <2>2. ~(StartPass \/ MarkReminder \/ SendReminder \/ SelectNotices \/ MarkNotice \/ SendNotice
            \/ PurgeFiles \/ EndPass \/ Crash)
        BY DEF StartPass, MarkReminder, SendReminder, SelectNotices, MarkNotice, SendNotice,
               PurgeFiles, EndPass, Crash, Resting
    <2>3. ~SelectExpired
        BY DEF SelectExpired
    <2>4. ASSUME NEW q \in Request,
                 \/ CheckStart(q) \/ ConsumeUse(q) \/ WriteCollection(q) \/ InsertHistory(q)
                 \/ FindEntry(q) \/ DeleteEntry(q)
          PROVE  FALSE
        BY <2>1, <2>4 DEF CheckStart, ConsumeUse, WriteCollection, InsertHistory, FindEntry,
                          DeleteEntry
    <2>5. ASSUME NEW u \in User, NEW p \in Plan, Checkout(u, p) PROVE FALSE
        BY <2>1, <2>5 DEF Checkout
    <2>6. ~(ExtendRetention \/ WritePlan \/ FlagPlan \/ RemoveFiles \/ Advance \/ UNCHANGED vars)
        BY <2>1 DEF ExtendRetention, WritePlan, FlagPlan, RemoveFiles, Advance, vars
    <2> QED
        BY <2>2, <2>3, <2>4, <2>5, <2>6 DEF Next, Maintenance
<1>4. PICK q \in pass.todo : history' = [history EXCEPT ![q] = NoRow]
    BY <1>3 DEF PurgeRow, Purge
<1>5. q = r
    BY <1>1, <1>4 DEF Inv, EntriesInv
<1>6. KeptUntil(r) <= pass.t
    BY <1>4, <1>5 DEF Inv, EntriesInv, PurgeOK
<1>7. KeptUntil(r) \in Nat
    <2>1. history[r] \in Entry
        BY <1>1 DEF Inv, EntriesInv
    <2>2. history[r].created \in Nat /\ history[r].plan \in Plan
        BY <2>1 DEF Entry
    <2> QED
        BY <2>2, AccountsAssumption DEF KeptUntil
<1> QED
    BY <1>1, <1>6, <1>7 DEF PassOK, KeptUntil

LEMMA StepKeepsRetention ==
    Inv /\ [Next]_vars =>
        \A r \in Request :
            r \in Rows /\ history'[r] = NoRow /\ pass.at = "delete" /\ pass'.at = "rmtree"
                => history[r].created + Retention[history[r].plan] <= now
BY PurgeRespects

\* Maintenance removes no entry before the retention it was made with is over,
\* whatever plans were bought since and wherever the process died.
THEOREM RetentionAlwaysKept == Spec => RetentionKept
<1>1. Inv /\ [Next]_vars =>
        [\A r \in Request :
            r \in Rows /\ history'[r] = NoRow /\ pass.at = "delete" /\ pass'.at = "rmtree"
                => history[r].created + Retention[history[r].plan] <= now]_vars
    BY StepKeepsRetention
<1> QED
    BY <1>1, Invariance, PTL DEF Spec, RetentionKept
=============================================================================
