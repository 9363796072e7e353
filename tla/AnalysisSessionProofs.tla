------------------------ MODULE AnalysisSessionProofs ------------------------
(***************************************************************************)
(* AnalysisSession keeps its inductive invariant SessionInv, whatever the  *)
(* candidates, the proposals, the bodies and the bounds are; and           *)
(* a consumer of an enabled rule is given to another one only by the       *)
(* owner's edits and by acceptances that overlook the first.               *)
(***************************************************************************)
EXTENDS AnalysisSession, SequenceTheorems, FiniteSetTheorems, WellFoundedInduction, TLAPS

\* Of the rules.
RulesInv ==
    /\ rules \in Seq(Rule)
    /\ NamesUnique
    /\ OneAutomaticRulePerSource

\* Of the plan and what was said of it.
PlanInv ==
    /\ plan \in Plan \cup {None}
    /\ jmxStatus \in Verdict \cup {None, "generated"}
    /\ report \in Report \cup {None}
    /\ PlanIsCurrent
    /\ ReportBelongsToPlan

\* Of the requests. Only auto-correlation leaves a plan behind that its changes
\* made stale, and it is still running then.
RequestsInv ==
    /\ candidate \in [DOMAIN Candidates -> {"suggested", "accepted", "rejected"}]
    /\ auto \in {"not_started", "running", "completed", "failed"}
    /\ checking \in [Validators -> Manifests \cup {None}]
    /\ handler \in Handler
    /\ handler.changed => handler.at = "auto"

SessionInv == RulesInv /\ PlanInv /\ RequestsInv

-----------------------------------------------------------------------------
(* Names and places. *)

\* A set of natural numbers that is not empty has a least one.
LEMMA LeastNumber ==
    ASSUME NEW T \in SUBSET Nat, T # {}
    PROVE  \E x \in T : \A y \in T : x <= y
<1>1. PICK x \in T : \A y \in T : ~(<<y, x>> \in OpToRel(<, Nat))
    BY NatLessThanWellFounded, WFMin
<1>2. ASSUME NEW y \in T PROVE x <= y
    <2>1. ~(y < x)
        BY <1>1, x \in Nat, y \in Nat DEF OpToRel
    <2> QED
        BY <2>1, x \in Nat, y \in Nat
<1> QED
    BY <1>2

\* 1 .. n + 1 has more elements than 1 .. n.
LEMMA OneMore ==
    ASSUME NEW n \in Nat
    PROVE  /\ IsFiniteSet(1 .. n + 1) /\ IsFiniteSet(1 .. n)
           /\ Cardinality(1 .. n) < Cardinality(1 .. n + 1)
<1>1. IsFiniteSet(1 .. n) /\ Cardinality(1 .. n) = IF 1 > n THEN 0 ELSE n - 1 + 1
    BY FS_Interval
<1>2. /\ IsFiniteSet(1 .. n + 1)
      /\ Cardinality(1 .. n + 1) = IF 1 > n + 1 THEN 0 ELSE n + 1 - 1 + 1
    BY FS_Interval
<1> QED
    BY <1>1, <1>2

\* A name with a suffix is a name, and no two suffixes give the same one.
LEMMA SuffixedName ==
    ASSUME NEW name \in Name, NEW m \in Nat \ {0}, NEW n \in Nat \ {0}
    PROVE  /\ Suffixed(name, n) \in Name
           /\ Suffixed(name, m) = Suffixed(name, n) => m = n
<1> DEFINE Suffix == Nat \ {0, 1}
<1>1. name[1] \in Bases /\ name[2] \in Seq(Suffix) /\ name = <<name[1], name[2]>>
    BY DEF Name
<1>2. ASSUME NEW k \in Suffix
      PROVE  Append(name[2], k) \in Seq(Suffix) /\ Append(name[2], k) # name[2]
    <2>1. /\ Append(name[2], k) \in Seq(Suffix)
          /\ Len(Append(name[2], k)) = Len(name[2]) + 1
        BY <1>1, AppendProperties
    <2>2. Len(name[2]) \in Nat
        BY <1>1, LenProperties
    <2> QED
        BY <2>1, <2>2
<1>3. Suffixed(name, n) \in Name
    <2>1. CASE n = 1
        BY <2>1 DEF Suffixed
    <2>2. CASE n # 1
        <3>1. Append(name[2], n) \in Seq(Suffix)
            BY <1>2, <2>2
        <3> QED
            BY <1>1, <2>2, <3>1 DEF Suffixed, Name
    <2> QED
        BY <2>1, <2>2
<1>4. ASSUME Suffixed(name, m) = Suffixed(name, n) PROVE m = n
    <2>1. CASE m = 1 /\ n # 1
        <3>1. Append(name[2], n) = name[2]
            BY <1>1, <1>4, <2>1 DEF Suffixed
        <3> QED
            BY <1>2, <2>1, <3>1
    <2>2. CASE m # 1 /\ n = 1
        <3>1. Append(name[2], m) = name[2]
            BY <1>1, <1>4, <2>2 DEF Suffixed
        <3> QED
            BY <1>2, <2>2, <3>1
    <2>3. CASE m # 1 /\ n # 1
        <3>1. Append(name[2], m) = Append(name[2], n)
            BY <1>4, <2>3 DEF Suffixed
        <3>2. m \in Suffix /\ n \in Suffix
            BY <2>3
        <3> QED
            BY <1>1, <3>1, <3>2, AppendInjective
    <2> QED
        BY <2>1, <2>2, <2>3
<1> QED
    BY <1>3, <1>4

\* Of one name more than there are rules, one is taken by none.
LEMMA FreeName ==
    ASSUME rules \in Seq(Rule), NEW base \in Name
    PROVE  \E n \in 1 .. Len(rules) + 1 : Suffixed(base, n) \notin NamesBut(0)
<1> DEFINE L == Len(rules)
<1>1. L \in Nat /\ DOMAIN rules = 1 .. L
    BY LenProperties
<1> SUFFICES ASSUME \A n \in 1 .. L + 1 : Suffixed(base, n) \in NamesBut(0)
             PROVE  FALSE
    OBVIOUS
<1>2. \A n \in 1 .. L + 1 : \E k \in 1 .. L : rules[k].name = Suffixed(base, n)
    BY <1>1 DEF NamesBut
<1> DEFINE f == [n \in 1 .. L + 1 |-> CHOOSE k \in 1 .. L : rules[k].name = Suffixed(base, n)]
<1>3. \A n \in 1 .. L + 1 : f[n] \in 1 .. L /\ rules[f[n]].name = Suffixed(base, n)
    BY <1>2
<1>4. f \in [1 .. L + 1 -> 1 .. L]
    BY <1>3
<1>5. /\ IsFiniteSet(1 .. L + 1) /\ IsFiniteSet(1 .. L)
      /\ Cardinality(1 .. L) < Cardinality(1 .. L + 1)
    <2> HIDE DEF L, f
    <2> QED
        BY <1>1, OneMore
<1>6. PICK x \in 1 .. L + 1, y \in 1 .. L + 1 : x # y /\ f[x] = f[y]
    <2> HIDE DEF f
    <2> QED
        BY <1>4, <1>5, FS_PigeonHole
<1>7. Suffixed(base, x) = Suffixed(base, y)
    BY <1>3, <1>6
<1>8. x \in Nat \ {0} /\ y \in Nat \ {0}
    BY <1>1
<1> QED
    BY <1>6, <1>7, <1>8, SuffixedName

\* The name chosen for a new rule is a name, and free.
LEMMA FreshName ==
    ASSUME rules \in Seq(Rule), NEW base \in Name
    PROVE  Fresh(base) \in Name /\ Fresh(base) \notin NamesBut(0)
<1> DEFINE L == Len(rules)
           Free == {n \in 1 .. L + 1 : Suffixed(base, n) \notin NamesBut(0)}
           Least(n) == /\ Suffixed(base, n) \notin NamesBut(0)
                       /\ \A m \in 1 .. n - 1 : Suffixed(base, m) \in NamesBut(0)
<1>1. L \in Nat
    BY LenProperties
<1>2. Free \in SUBSET Nat /\ Free # {}
    <2>1. Free \in SUBSET Nat
        BY <1>1
    <2>2. \E n \in 1 .. L + 1 : Suffixed(base, n) \notin NamesBut(0)
        BY FreeName
    <2> QED
        BY <2>1, <2>2
<1>3. PICK x \in Free : \A y \in Free : x <= y
    BY <1>2, LeastNumber
<1>4. Least(x)
    <2>1. ASSUME NEW m \in 1 .. x - 1 PROVE Suffixed(base, m) \in NamesBut(0)
        <3>1. m \in 1 .. L + 1 /\ m < x
            BY <1>1
        <3>2. m \notin Free
            BY <1>3, <3>1
        <3> QED
            BY <3>1, <3>2
    <2> QED
        BY <2>1
<1>5. \E n \in 1 .. L + 1 : Least(n)
    BY <1>4
<1>6. PICK n \in 1 .. L + 1 : Least(n) /\ Fresh(base) = Suffixed(base, n)
    <2> DEFINE chosen == CHOOSE n \in 1 .. L + 1 : Least(n)
    <2>1. chosen \in 1 .. L + 1 /\ Least(chosen)
        BY <1>5
    <2>2. Fresh(base) = Suffixed(base, chosen)
        BY DEF Fresh
    <2> HIDE DEF chosen, Least
    <2> QED
        BY <2>1, <2>2
<1>7. n \in Nat \ {0}
    BY <1>1
<1> QED
    BY <1>6, <1>7, SuffixedName

\* Where no rule is the first of a source, no rule has it.
LEMMA FirstOfSource ==
    ASSUME rules \in Seq(Rule), NEW source, \A k \in DOMAIN rules : ~First(k, source)
    PROVE  \A k \in DOMAIN rules : rules[k].source # source
<1> DEFINE T == {k \in DOMAIN rules : rules[k].source = source}
<1>1. Len(rules) \in Nat /\ DOMAIN rules = 1 .. Len(rules)
    BY LenProperties
<1> SUFFICES ASSUME T # {} PROVE FALSE
    OBVIOUS
<1>2. T \in SUBSET Nat
    BY <1>1
<1>3. PICK x \in T : \A y \in T : x <= y
    BY <1>2, LeastNumber
<1>4. First(x, source)
    <2>1. ASSUME NEW n \in 1 .. x - 1 PROVE rules[n].source # source
        <3>1. n \in DOMAIN rules /\ ~(x <= n)
            BY <1>1
        <3> QED
            BY <1>3, <3>1
    <2> QED
        BY <2>1 DEF First
<1> QED
    BY <1>4

-----------------------------------------------------------------------------
(* Changes of the rules. *)

\* A rule whose name is free, or that is under the override, and that is not a
\* second automatic one of its source, may be added.
LEMMA AddRule ==
    ASSUME RulesInv, NEW r \in Rule, rules' = Append(rules, r),
           r.override \/ r.name \notin NamesBut(0),
           r.automatic => \A k \in DOMAIN rules : rules[k].source # r.source
    PROVE  RulesInv'
<1> DEFINE L == Len(rules)
<1>1. L \in Nat /\ DOMAIN rules = 1 .. L
    BY LenProperties DEF RulesInv
<1>2. /\ rules' \in Seq(Rule)
      /\ Len(rules') = L + 1
      /\ \A k \in 1 .. L : rules'[k] = rules[k]
      /\ rules'[L + 1] = r
    BY AppendProperties DEF RulesInv
<1>3. DOMAIN rules' = 1 .. L + 1
    BY <1>2, LenProperties
<1>4. \A k \in 1 .. L : r.override \/ rules[k].name # r.name
    BY <1>1 DEF NamesBut
<1>5. NamesUnique'
    <2> SUFFICES ASSUME NEW i \in 1 .. L + 1, NEW j \in 1 .. L + 1, i # j,
                        rules'[i].name = rules'[j].name
                 PROVE  rules'[i].override \/ rules'[j].override
        BY <1>3 DEF NamesUnique
    <2>1. CASE i \in 1 .. L /\ j \in 1 .. L
        BY <1>1, <1>2, <2>1 DEF RulesInv, NamesUnique
    <2>2. CASE i = L + 1
        BY <1>1, <1>2, <1>4, <2>2
    <2>3. CASE j = L + 1
        BY <1>1, <1>2, <1>4, <2>3
    <2> QED
        BY <1>1, <2>1, <2>2, <2>3
<1>6. OneAutomaticRulePerSource'
    <2> SUFFICES ASSUME NEW i \in 1 .. L + 1, NEW j \in 1 .. L + 1,
                        rules'[i].automatic, rules'[j].automatic,
                        rules'[i].source = rules'[j].source
                 PROVE  i = j
        BY <1>3 DEF OneAutomaticRulePerSource
    <2>1. CASE i \in 1 .. L /\ j \in 1 .. L
        BY <1>1, <1>2, <2>1 DEF RulesInv, OneAutomaticRulePerSource
    <2>2. CASE i = L + 1
        BY <1>1, <1>2, <2>2
    <2>3. CASE j = L + 1
        BY <1>1, <1>2, <2>3
    <2> QED
        BY <1>1, <2>1, <2>2, <2>3
<1> QED
    BY <1>2, <1>5, <1>6 DEF RulesInv

\* A rule may be replaced by one of its source and origin that keeps its name
\* and override, or is under the override, or takes a free name.
LEMMA ReplaceRule ==
    ASSUME RulesInv, NEW i \in DOMAIN rules, NEW r \in Rule,
           rules' = [rules EXCEPT ![i] = r],
           r.source = rules[i].source,
           r.automatic = rules[i].automatic,
           \/ r.override
           \/ r.name \notin NamesBut(i)
           \/ r.name = rules[i].name /\ r.override = rules[i].override
    PROVE  RulesInv'
<1> DEFINE L == Len(rules)
<1>1. L \in Nat /\ DOMAIN rules = 1 .. L
    BY LenProperties DEF RulesInv
<1>2. /\ rules' \in Seq(Rule)
      /\ Len(rules') = L
      /\ \A k \in 1 .. L : rules'[k] = IF k = i THEN r ELSE rules[k]
    BY <1>1, ExceptSeq DEF RulesInv
<1>3. DOMAIN rules' = 1 .. L
    BY <1>2, LenProperties
<1>4. NamesUnique'
    <2> SUFFICES ASSUME NEW x \in 1 .. L, NEW y \in 1 .. L, x # y,
                        rules'[x].name = rules'[y].name
                 PROVE  rules'[x].override \/ rules'[y].override
        BY <1>3 DEF NamesUnique
    <2>1. r.override \/ (\A k \in 1 .. L : k # i => rules[k].name # r.name)
          \/ (r.name = rules[i].name /\ r.override = rules[i].override)
        BY <1>1 DEF NamesBut
    <2>2. rules[x].name = rules[y].name => rules[x].override \/ rules[y].override
        BY <1>1 DEF RulesInv, NamesUnique
    <2> QED
        BY <1>1, <1>2, <2>1, <2>2
<1>5. OneAutomaticRulePerSource'
    BY <1>1, <1>2, <1>3 DEF RulesInv, OneAutomaticRulePerSource
<1> QED
    BY <1>2, <1>4, <1>5 DEF RulesInv

\* The rules after one of them are moved up when it is deleted.
LEMMA RemoveRule ==
    ASSUME RulesInv, NEW i \in DOMAIN rules,
           rules' = SubSeq(rules, 1, i - 1) \o SubSeq(rules, i + 1, Len(rules))
    PROVE  RulesInv'
<1> DEFINE L == Len(rules)
           before == SubSeq(rules, 1, i - 1)
           after == SubSeq(rules, i + 1, L)
           Old(k) == IF k < i THEN k ELSE k + 1
<1>1. L \in Nat /\ DOMAIN rules = 1 .. L /\ i \in 1 .. L
    BY LenProperties DEF RulesInv
<1>2. \A k \in 1 .. L : rules[k] \in Rule
    BY <1>1, ElementOfSeq DEF RulesInv
<1>3. /\ before \in Seq(Rule)
      /\ Len(before) = i - 1
      /\ \A k \in 1 .. i - 1 : before[k] = rules[k]
    <2>1. \A k \in 1 .. i - 1 : rules[k] \in Rule
        BY <1>1, <1>2
    <2>2. 1 \in Int /\ i - 1 \in Int
        BY <1>1
    <2>3. /\ before \in Seq(Rule)
          /\ Len(before) = IF 1 <= i - 1 THEN i - 1 - 1 + 1 ELSE 0
          /\ \A k \in 1 .. i - 1 - 1 + 1 : before[k] = rules[1 + k - 1]
        BY <2>1, <2>2, SubSeqProperties
    <2> QED
        BY <1>1, <2>3
<1>4. /\ after \in Seq(Rule)
      /\ Len(after) = L - i
      /\ \A k \in 1 .. L - i : after[k] = rules[i + k]
    <2>1. \A k \in i + 1 .. L : rules[k] \in Rule
        BY <1>1, <1>2
    <2>2. i + 1 \in Int /\ L \in Int
        BY <1>1
    <2>3. /\ after \in Seq(Rule)
          /\ Len(after) = IF i + 1 <= L THEN L - (i + 1) + 1 ELSE 0
          /\ \A k \in 1 .. L - (i + 1) + 1 : after[k] = rules[i + 1 + k - 1]
        BY <2>1, <2>2, SubSeqProperties
    <2> HIDE DEF after
    <2>4. ASSUME NEW k \in 1 .. L - i PROVE after[k] = rules[i + k]
        <3>1. k \in 1 .. L - (i + 1) + 1 /\ i + 1 + k - 1 = i + k
            BY <1>1
        <3> QED
            BY <2>3, <3>1
    <2>5. Len(after) = L - i
        BY <1>1, <2>3
    <2> QED
        BY <2>3, <2>4, <2>5
<1>5. /\ rules' \in Seq(Rule)
      /\ Len(rules') = L - 1
      /\ \A k \in 1 .. L - 1 : rules'[k] = rules[Old(k)]
    <2> HIDE DEF before, after
    <2>1. rules' = before \o after
        BY DEF before, after
    <2>2. /\ before \o after \in Seq(Rule)
          /\ Len(before \o after) = Len(before) + Len(after)
          /\ \A k \in 1 .. Len(before) + Len(after) :
                (before \o after)[k] =
                    IF k <= Len(before) THEN before[k] ELSE after[k - Len(before)]
        BY <1>3, <1>4, ConcatProperties
    <2>3. Len(before) + Len(after) = L - 1
        BY <1>1, <1>3, <1>4
    <2>4. ASSUME NEW k \in 1 .. L - 1 PROVE rules'[k] = rules[Old(k)]
        <3>1. CASE k < i
            BY <1>1, <1>3, <2>1, <2>2, <2>3, <3>1
        <3>2. CASE ~(k < i)
            <4>1. k - (i - 1) \in 1 .. L - i /\ i + (k - (i - 1)) = k + 1
                BY <1>1, <3>2
            <4>2. rules'[k] = after[k - (i - 1)]
                <5>1. k \in 1 .. Len(before) + Len(after) /\ ~(k <= Len(before))
                    BY <1>1, <1>3, <2>3, <3>2
                <5>2. rules'[k] = after[k - Len(before)]
                    BY <2>1, <2>2, <5>1
                <5> QED
                    BY <1>3, <5>2
            <4>3. after[k - (i - 1)] = rules[i + (k - (i - 1))]
                BY <1>4, <4>1
            <4> QED
                BY <3>2, <4>1, <4>2, <4>3
        <3> QED
            BY <3>1, <3>2
    <2> QED
        BY <2>1, <2>2, <2>3, <2>4
<1>6. DOMAIN rules' = 1 .. L - 1
    BY <1>5, LenProperties
<1>7. \A x, y \in 1 .. L - 1 :
            Old(x) \in 1 .. L /\ Old(y) \in 1 .. L /\ (Old(x) = Old(y) => x = y)
    BY <1>1
<1> HIDE DEF Old
<1>8. NamesUnique'
    <2> SUFFICES ASSUME NEW x \in 1 .. L - 1, NEW y \in 1 .. L - 1, x # y,
                        rules'[x].name = rules'[y].name
                 PROVE  rules'[x].override \/ rules'[y].override
        BY <1>6 DEF NamesUnique
    <2>1. Old(x) \in DOMAIN rules /\ Old(y) \in DOMAIN rules /\ Old(x) # Old(y)
        BY <1>1, <1>7
    <2>2. rules'[x] = rules[Old(x)] /\ rules'[y] = rules[Old(y)]
        BY <1>5
    <2> QED
        BY <2>1, <2>2 DEF RulesInv, NamesUnique
<1>9. OneAutomaticRulePerSource'
    <2> SUFFICES ASSUME NEW x \in 1 .. L - 1, NEW y \in 1 .. L - 1,
                        rules'[x].automatic, rules'[y].automatic,
                        rules'[x].source = rules'[y].source
                 PROVE  x = y
        BY <1>6 DEF OneAutomaticRulePerSource
    <2>1. Old(x) \in DOMAIN rules /\ Old(y) \in DOMAIN rules
        BY <1>1, <1>7
    <2>2. rules'[x] = rules[Old(x)] /\ rules'[y] = rules[Old(y)]
        BY <1>5
    <2>3. Old(x) = Old(y)
        BY <2>1, <2>2 DEF RulesInv, OneAutomaticRulePerSource
    <2> QED
        BY <1>7, <2>3
<1> QED
    BY <1>5, <1>8, <1>9 DEF RulesInv

\* The rule made for a candidate or a proposal.
LEMMA AddNewRule ==
    ASSUME RulesInv, NEW f, f.source \in Sources, f.sinks \in SUBSET Sinks, f.base \in Name,
           rules' = Append(rules, NewRule(f)),
           \A k \in DOMAIN rules : rules[k].source # f.source
    PROVE  RulesInv'
<1>1. Fresh(f.base) \in Name /\ Fresh(f.base) \notin NamesBut(0)
    BY FreshName DEF RulesInv
<1>2. /\ NewRule(f) \in Rule
      /\ NewRule(f).name = Fresh(f.base)
      /\ NewRule(f).source = f.source
    BY <1>1 DEF NewRule, Rule
<1> QED
    BY <1>1, <1>2, AddRule

\* Rules and plan stay as they are.
LEMMA SameRules == ASSUME RulesInv, UNCHANGED rules PROVE RulesInv'
BY DEF RulesInv, NamesUnique, OneAutomaticRulePerSource

LEMMA SamePlanInv ==
    ASSUME PlanInv, UNCHANGED <<rules, plan, jmxStatus, report>>,
           handler.changed => handler'.changed
    PROVE  PlanInv'
BY DEF PlanInv, PlanIsCurrent, ReportBelongsToPlan

\* Nothing is said of a plan that was withdrawn.
LEMMA Withdrawn == ASSUME Invalidate PROVE PlanInv'
BY DEF Invalidate, PlanInv, PlanIsCurrent, ReportBelongsToPlan

-----------------------------------------------------------------------------
(* The requests. *)

LEMMA InitInv == Init => SessionInv
<1> SUFFICES ASSUME Init PROVE SessionInv
    OBVIOUS
<1>1. rules = <<>> /\ Len(rules) = 0 /\ DOMAIN rules = 1 .. 0
    BY EmptySeq, LenProperties DEF Init
<1>2. RulesInv
    BY <1>1, EmptySeq DEF RulesInv, NamesUnique, OneAutomaticRulePerSource
<1>3. PlanInv
    BY DEF Init, PlanInv, PlanIsCurrent, ReportBelongsToPlan
<1>4. RequestsInv
    BY DEF Init, RequestsInv, Handler, Idle
<1> QED
    BY <1>2, <1>3, <1>4 DEF SessionInv

LEMMA StutterInv == SessionInv /\ UNCHANGED vars => SessionInv'
<1> SUFFICES ASSUME SessionInv, UNCHANGED vars PROVE SessionInv'
    OBVIOUS
<1>1. RulesInv'
    BY SameRules DEF SessionInv, vars
<1>2. PlanInv'
    BY SamePlanInv DEF SessionInv, vars
<1>3. RequestsInv'
    BY DEF SessionInv, RequestsInv, vars
<1> QED
    BY <1>1, <1>2, <1>3 DEF SessionInv

LEMMA CreateRuleStep ==
    ASSUME SessionInv, NEW b \in Bodies, CreateRule(b) PROVE SessionInv'
<1> DEFINE r == [source |-> b.source, sinks |-> b.sinks, name |-> b.name,
                 enabled |-> TRUE, override |-> b.override, automatic |-> FALSE]
<1>1. /\ r \in Rule
      /\ ~r.automatic
      /\ rules' = Append(rules, r)
      /\ r.name \notin NamesBut(0) \/ r.override
    BY AnalysisAssumption DEF CreateRule, Sound, Body, Rule
<1>2. RulesInv'
    <2> HIDE DEF r
    <2> QED
        BY <1>1, AddRule DEF SessionInv
<1>3. PlanInv'
    BY Withdrawn DEF CreateRule
<1>4. RequestsInv'
    BY DEF SessionInv, RequestsInv, CreateRule
<1> QED
    BY <1>2, <1>3, <1>4 DEF SessionInv

LEMMA PatchedRule ==
    ASSUME NEW r \in Rule, NEW p \in Patches
    PROVE  /\ Patched(r, p) \in Rule
           /\ Patched(r, p).source = r.source
           /\ Patched(r, p).automatic = r.automatic
<1>1. p \in Patch
    BY AnalysisAssumption
<1> DEFINE sinks == IF p.sinks = Keep THEN r.sinks ELSE p.sinks
           name == IF p.name = Keep THEN r.name ELSE p.name
           enabled == IF p.enabled = Keep THEN r.enabled ELSE p.enabled
           override == IF p.override = Keep THEN r.override ELSE p.override
<1>2. sinks \in SUBSET Sinks /\ name \in Name
    BY <1>1 DEF Patch, Rule
<1>3. enabled \in BOOLEAN /\ override \in BOOLEAN
    BY <1>1, Zenon DEF Patch, Rule
<1>4. Patched(r, p) = [r EXCEPT !.sinks = sinks, !.name = name,
                                !.enabled = enabled, !.override = override]
    BY DEF Patched
<1> HIDE DEF sinks, name, enabled, override
<1> QED
    BY <1>2, <1>3, <1>4 DEF Rule

LEMMA UpdateRuleStep ==
    ASSUME SessionInv, NEW i \in DOMAIN rules, NEW p \in Patches, UpdateRule(i, p)
    PROVE  SessionInv'
<1> DEFINE r == Patched(rules[i], p)
<1>1. rules[i] \in Rule
    BY LenProperties, ElementOfSeq DEF SessionInv, RulesInv
<1>2. r \in Rule /\ r.source = rules[i].source /\ r.automatic = rules[i].automatic
    BY <1>1, PatchedRule
<1>3. rules' = [rules EXCEPT ![i] = r] /\ (r.name \notin NamesBut(i) \/ r.override)
    BY DEF UpdateRule, Sound
<1>4. RulesInv'
    <2> HIDE DEF r
    <2> QED
        BY <1>2, <1>3, ReplaceRule DEF SessionInv
<1>5. PlanInv'
    BY Withdrawn DEF UpdateRule
<1>6. RequestsInv'
    BY DEF SessionInv, RequestsInv, UpdateRule
<1> QED
    BY <1>4, <1>5, <1>6 DEF SessionInv

LEMMA DeleteRuleStep ==
    ASSUME SessionInv, NEW i \in DOMAIN rules, DeleteRule(i) PROVE SessionInv'
<1>1. RulesInv'
    BY RemoveRule DEF SessionInv, DeleteRule
<1>2. PlanInv'
    BY Withdrawn DEF DeleteRule
<1>3. RequestsInv'
    BY DEF SessionInv, RequestsInv, DeleteRule
<1> QED
    BY <1>1, <1>2, <1>3 DEF SessionInv

\* Accepting a candidate, alone or in the loop of accept-high.
LEMMA AcceptStep ==
    ASSUME RulesInv, PlanInv, NEW i \in DOMAIN Candidates, Accept(i),
           handler.changed => handler'.changed
    PROVE  RulesInv' /\ PlanInv'
<1> DEFINE c == Candidates[i]
<1>1. c \in Found
    BY AnalysisAssumption, LenProperties, ElementOfSeq
<1>2. CASE UNCHANGED <<rules, plan, jmxStatus, report>>
    BY <1>2, SameRules, SamePlanInv
<1>3. CASE \E k \in DOMAIN rules :
                /\ First(k, c.source)
                /\ rules' = [rules EXCEPT ![k].enabled = TRUE, ![k].sinks = @ \cup c.sinks]
                /\ Invalidate
    <2>1. PICK k \in DOMAIN rules :
                rules' = [rules EXCEPT ![k].enabled = TRUE, ![k].sinks = @ \cup c.sinks]
        BY <1>3
    <2> DEFINE r == [rules[k] EXCEPT !.enabled = TRUE, !.sinks = @ \cup c.sinks]
    <2>2. rules[k] \in Rule /\ rules \in Seq(Rule)
        BY LenProperties, ElementOfSeq DEF RulesInv
    <2>3. /\ r \in Rule
          /\ r.source = rules[k].source /\ r.automatic = rules[k].automatic
          /\ r.name = rules[k].name /\ r.override = rules[k].override
        BY <1>1, <2>2 DEF Rule, Found
    <2>4. rules' = [rules EXCEPT ![k] = r]
        BY <2>1, <2>2, LenProperties
    <2>5. RulesInv'
        <3> HIDE DEF r
        <3> QED
            BY <2>3, <2>4, ReplaceRule
    <2> QED
        BY <1>3, <2>5, Withdrawn
<1>4. CASE /\ \A k \in DOMAIN rules : ~First(k, c.source)
           /\ rules' = Append(rules, NewRule(c))
           /\ Invalidate
    <2>1. \A k \in DOMAIN rules : rules[k].source # c.source
        BY <1>4, FirstOfSource DEF RulesInv
    <2>2. RulesInv'
        BY <1>1, <1>4, <2>1, AddNewRule DEF Found
    <2> QED
        BY <1>4, <2>2, Withdrawn
<1> QED
    BY <1>2, <1>3, <1>4 DEF Accept

LEMMA AcceptCandidates ==
    ASSUME candidate \in [DOMAIN Candidates -> {"suggested", "accepted", "rejected"}],
           NEW i \in DOMAIN Candidates, Accept(i)
    PROVE  candidate' \in [DOMAIN Candidates -> {"suggested", "accepted", "rejected"}]
BY DEF Accept

LEMMA AcceptCandidateStep ==
    ASSUME SessionInv, NEW i \in DOMAIN Candidates, AcceptCandidate(i) PROVE SessionInv'
<1>1. RulesInv' /\ PlanInv'
    BY AcceptStep DEF SessionInv, AcceptCandidate
<1>2. RequestsInv'
    BY AcceptCandidates DEF SessionInv, RequestsInv, AcceptCandidate
<1> QED
    BY <1>1, <1>2 DEF SessionInv

LEMMA AcceptNextHighStep == ASSUME SessionInv, AcceptNextHigh PROVE SessionInv'
<1>1. ~handler.changed /\ handler \in Handler /\ handler.next \in DOMAIN Candidates
    BY DEF SessionInv, RequestsInv, AcceptNextHigh
<1>2. CASE /\ Accept(handler.next)
           /\ handler' = [handler EXCEPT !.next = @ + 1]
    <2>1. RulesInv' /\ PlanInv'
        BY <1>1, <1>2, AcceptStep DEF SessionInv
    <2>2. handler' \in Handler /\ ~handler'.changed
        BY <1>1, <1>2 DEF Handler
    <2>3. RequestsInv'
        BY <1>1, <1>2, <2>2, AcceptCandidates DEF SessionInv, RequestsInv, AcceptNextHigh
    <2> QED
        BY <2>1, <2>3 DEF SessionInv
<1>3. CASE /\ handler' = Idle \/ handler' = [handler EXCEPT !.next = @ + 1]
           /\ UNCHANGED <<rules, candidate, plan, jmxStatus, report>>
    <2>1. handler' \in Handler /\ ~handler'.changed
        <3>1. CASE handler' = Idle
            BY <3>1 DEF Handler, Idle
        <3>2. CASE handler' = [handler EXCEPT !.next = @ + 1]
            BY <1>1, <3>2 DEF Handler
        <3> QED
            BY <1>3, <3>1, <3>2
    <2>2. RulesInv' /\ PlanInv'
        BY <1>1, <1>3, SameRules, SamePlanInv DEF SessionInv
    <2>3. RequestsInv'
        BY <1>3, <2>1 DEF SessionInv, RequestsInv, AcceptNextHigh
    <2> QED
        BY <2>2, <2>3 DEF SessionInv
<1> QED
    BY <1>2, <1>3 DEF AcceptNextHigh

\* A step that touches neither rules nor plan, and leaves no change behind that
\* only auto-correlation may make.
LEMMA QuietStep ==
    ASSUME SessionInv, UNCHANGED <<rules, plan, jmxStatus, report>>,
           handler.changed => handler'.changed,
           RequestsInv'
    PROVE  SessionInv'
BY SameRules, SamePlanInv DEF SessionInv

LEMMA StartStep ==
    ASSUME SessionInv, StartAcceptHigh \/ StartAuto PROVE SessionInv'
<1>1. handler = Idle /\ ~handler.changed
    BY DEF StartAcceptHigh, StartAuto, Served, Idle
<1>2. handler' \in Handler /\ ~handler'.changed
    <2>1. PICK at \in {"accept_high", "auto"} : handler' = [Idle EXCEPT !.at = at]
        BY DEF StartAcceptHigh, StartAuto
    <2>2. handler' = [at |-> at, next |-> 1, changed |-> FALSE]
        BY <2>1 DEF Idle
    <2> QED
        BY <2>2 DEF Handler
<1>3. RequestsInv'
    BY <1>2 DEF SessionInv, RequestsInv, StartAcceptHigh, StartAuto
<1> QED
    BY <1>1, <1>3, QuietStep DEF StartAcceptHigh, StartAuto

LEMMA EndWithoutChangeStep ==
    ASSUME SessionInv, EndAcceptHigh \/ AutoFails PROVE SessionInv'
<1>1. ~handler.changed
    BY DEF SessionInv, RequestsInv, EndAcceptHigh, AutoFails, Idle
<1>2. handler' \in Handler /\ ~handler'.changed
    <2>1. handler' = Idle
        BY DEF EndAcceptHigh, AutoFails
    <2> QED
        BY <2>1 DEF Handler, Idle
<1>3. RequestsInv'
    BY <1>2 DEF SessionInv, RequestsInv, EndAcceptHigh, AutoFails
<1> QED
    BY <1>1, <1>3, QuietStep DEF EndAcceptHigh, AutoFails

LEMMA RejectCandidateStep ==
    ASSUME SessionInv, NEW i \in DOMAIN Candidates, RejectCandidate(i) PROVE SessionInv'
<1>1. RequestsInv'
    BY DEF SessionInv, RequestsInv, RejectCandidate
<1> QED
    BY <1>1, QuietStep DEF RejectCandidate

\* A proposal's sinks go to the rule of its source.
LEMMA MergeFacts ==
    ASSUME rules \in Seq(Rule), NEW p \in Found, MergeProposal(p)
    PROVE  \E k \in DOMAIN rules, r \in Rule :
                /\ rules' = [rules EXCEPT ![k] = r]
                /\ rules[k].enabled
                /\ r = [rules[k] EXCEPT !.sinks = @ \cup Unclaimed(p)]
<1>1. PICK k \in DOMAIN rules :
            /\ rules[k].enabled
            /\ rules' = [rules EXCEPT ![k].sinks = @ \cup Unclaimed(p)]
    BY DEF MergeProposal
<1> DEFINE r == [rules[k] EXCEPT !.sinks = @ \cup Unclaimed(p)]
<1>2. rules[k] \in Rule
    BY LenProperties, ElementOfSeq
<1>3. r \in Rule
    BY <1>2 DEF Rule, Found, Unclaimed
<1>4. rules' = [rules EXCEPT ![k] = r]
    BY <1>1, LenProperties
<1> QED
    BY <1>1, <1>3, <1>4

LEMMA NextProposalStep == ASSUME SessionInv, NextProposal PROVE SessionInv'
<1> DEFINE p == Proposals[handler.next]
<1>1. handler \in Handler /\ handler.at = "auto" /\ p \in Found
    BY AnalysisAssumption, LenProperties, ElementOfSeq DEF SessionInv, RequestsInv, NextProposal
<1>2. CASE /\ MergeProposal(p) \/ AddProposal(p)
           /\ handler' = [handler EXCEPT !.next = @ + 1, !.changed = TRUE]
    <2>1. handler' \in Handler /\ handler'.changed /\ handler'.at = "auto"
        <3>1. handler.next + 1 \in Nat \ {0}
            BY <1>1 DEF Handler
        <3>2. handler' = [handler EXCEPT !.next = handler.next + 1, !.changed = TRUE]
            BY <1>2
        <3>3. handler' = [at |-> handler.at, next |-> handler.next + 1, changed |-> TRUE]
            BY <1>1, <3>2 DEF Handler
        <3> QED
            BY <1>1, <3>1, <3>3 DEF Handler
    <2>2. RulesInv'
        <3>1. CASE MergeProposal(p)
            <4>1. PICK k \in DOMAIN rules, r \in Rule :
                        /\ rules' = [rules EXCEPT ![k] = r]
                        /\ r = [rules[k] EXCEPT !.sinks = @ \cup Unclaimed(p)]
                BY <1>1, <3>1, MergeFacts DEF SessionInv, RulesInv
            <4>2. rules[k] \in Rule
                BY LenProperties, ElementOfSeq DEF SessionInv, RulesInv
            <4>3. /\ r.source = rules[k].source /\ r.automatic = rules[k].automatic
                  /\ r.name = rules[k].name /\ r.override = rules[k].override
                BY <4>1, <4>2 DEF Rule
            <4> QED
                BY <4>1, <4>3, ReplaceRule DEF SessionInv
        <3>2. CASE AddProposal(p)
            <4> DEFINE f == [p EXCEPT !.sinks = Unclaimed(p)]
            <4>1. /\ f.source = p.source /\ f.source \in Sources
                  /\ f.sinks \in SUBSET Sinks /\ f.base \in Name
                BY <1>1 DEF Found, Unclaimed
            <4>2. /\ \A k \in DOMAIN rules : rules[k].source # f.source
                  /\ rules' = Append(rules, NewRule(f))
                BY <3>2, <4>1 DEF AddProposal
            <4> HIDE DEF f
            <4> QED
                BY <4>1, <4>2, AddNewRule DEF SessionInv
        <3> QED
            BY <1>2, <3>1, <3>2
    <2>3. PlanInv'
        BY <2>1 DEF SessionInv, PlanInv, PlanIsCurrent, ReportBelongsToPlan, NextProposal
    <2>4. RequestsInv'
        BY <2>1 DEF SessionInv, RequestsInv, NextProposal
    <2> QED
        BY <2>2, <2>3, <2>4 DEF SessionInv
<1>3. CASE /\ handler' = [handler EXCEPT !.next = @ + 1]
           /\ UNCHANGED rules
    <2>1. /\ handler' \in Handler /\ handler'.at = "auto"
          /\ handler.changed => handler'.changed
        BY <1>1, <1>3 DEF Handler
    <2>2. RequestsInv'
        BY <2>1 DEF SessionInv, RequestsInv, NextProposal
    <2> QED
        BY <1>3, <2>1, <2>2, QuietStep DEF NextProposal
<1> QED
    BY <1>2, <1>3 DEF NextProposal

LEMMA EndAutoStep == ASSUME SessionInv, EndAuto PROVE SessionInv'
<1>1. RulesInv'
    BY SameRules DEF SessionInv, EndAuto
<1>2. PlanInv'
    <2>1. CASE handler.changed
        BY <2>1, Withdrawn DEF EndAuto
    <2>2. CASE ~handler.changed
        BY <2>2, SamePlanInv DEF SessionInv, EndAuto
    <2> QED
        BY <2>1, <2>2
<1>3. candidate' \in [DOMAIN Candidates -> {"suggested", "accepted", "rejected"}]
    BY DEF SessionInv, RequestsInv, EndAuto
<1>4. RequestsInv'
    BY <1>3 DEF SessionInv, RequestsInv, EndAuto, Handler, Idle
<1> QED
    BY <1>1, <1>2, <1>4 DEF SessionInv

LEMMA GenerateStep == ASSUME SessionInv, NEW m \in Manifests, Generate(m) PROVE SessionInv'
<1>1. RulesInv'
    BY SameRules DEF SessionInv, Generate
<1>2. plan' \in Plan /\ plan' # None
    BY AnalysisAssumption DEF SessionInv, RulesInv, Generate, Plan
<1>3. plan'.rules = rules'
    BY DEF Generate
<1>4. PlanInv'
    BY <1>2, <1>3 DEF Generate, PlanInv, PlanIsCurrent, ReportBelongsToPlan
<1>5. RequestsInv'
    BY DEF SessionInv, RequestsInv, Generate
<1> QED
    BY <1>1, <1>4, <1>5 DEF SessionInv

LEMMA StartValidationStep ==
    ASSUME SessionInv, NEW v \in Validators, StartValidation(v) PROVE SessionInv'
<1>1. plan.manifest \in Manifests
    BY DEF SessionInv, PlanInv, StartValidation, Plan
<1>2. RequestsInv'
    BY <1>1 DEF SessionInv, RequestsInv, StartValidation
<1> QED
    BY <1>2, QuietStep DEF StartValidation

LEMMA FinishValidationStep ==
    ASSUME SessionInv, NEW v \in Validators, NEW verdict \in Verdict, FinishValidation(v, verdict)
    PROVE  SessionInv'
<1>1. RulesInv'
    BY SameRules DEF SessionInv, FinishValidation
<1>2. checking[v] \in Manifests /\ checking' \in [Validators -> Manifests \cup {None}]
    BY DEF SessionInv, RequestsInv, FinishValidation
<1>3. RequestsInv'
    BY <1>2 DEF SessionInv, RequestsInv, FinishValidation
<1>4. PlanInv'
    <2>1. CASE SamePlan(v)
        <3>1. report' = [manifest |-> checking[v], status |-> verdict] /\ jmxStatus' = verdict
            BY <2>1 DEF FinishValidation
        <3>2. report' \in Report /\ report' # None
            BY <1>2, <3>1, AnalysisAssumption DEF Report
        <3> QED
            BY <2>1, <3>1, <3>2 DEF SessionInv, PlanInv, PlanIsCurrent, ReportBelongsToPlan,
                SamePlan, FinishValidation
    <2>2. CASE ~SamePlan(v)
        BY <2>2, SamePlanInv DEF SessionInv, FinishValidation
    <2> QED
        BY <2>1, <2>2
<1> QED
    BY <1>1, <1>3, <1>4 DEF SessionInv

LEMMA AbandonValidationStep ==
    ASSUME SessionInv, NEW v \in Validators, AbandonValidation(v) PROVE SessionInv'
<1>1. RequestsInv'
    BY DEF SessionInv, RequestsInv, AbandonValidation
<1> QED
    BY <1>1, QuietStep DEF AbandonValidation

LEMMA StepInv == SessionInv /\ [Next]_vars => SessionInv'
<1> SUFFICES ASSUME SessionInv, [Next]_vars PROVE SessionInv'
    OBVIOUS
<1>1. CASE \E b \in Bodies : CreateRule(b)
    BY <1>1, CreateRuleStep
<1>2. CASE \E i \in DOMAIN rules, p \in Patches : UpdateRule(i, p)
    BY <1>2, UpdateRuleStep
<1>3. CASE \E i \in DOMAIN rules : DeleteRule(i)
    BY <1>3, DeleteRuleStep
<1>4. CASE \E i \in DOMAIN Candidates : AcceptCandidate(i)
    BY <1>4, AcceptCandidateStep
<1>5. CASE AcceptNextHigh
    BY <1>5, AcceptNextHighStep
<1>6. CASE StartAcceptHigh \/ StartAuto
    BY <1>6, StartStep
<1>7. CASE EndAcceptHigh \/ AutoFails
    BY <1>7, EndWithoutChangeStep
<1>8. CASE \E i \in DOMAIN Candidates : RejectCandidate(i)
    BY <1>8, RejectCandidateStep
<1>9. CASE NextProposal
    BY <1>9, NextProposalStep
<1>10. CASE EndAuto
    BY <1>10, EndAutoStep
<1>11. CASE \E m \in Manifests : Generate(m)
    BY <1>11, GenerateStep
<1>12. CASE \E v \in Validators : StartValidation(v)
    BY <1>12, StartValidationStep
<1>13. CASE \E v \in Validators, verdict \in Verdict : FinishValidation(v, verdict)
    BY <1>13, FinishValidationStep
<1>14. CASE \E v \in Validators : AbandonValidation(v)
    BY <1>14, AbandonValidationStep
<1>15. CASE UNCHANGED vars
    BY <1>15, StutterInv
<1> QED
    BY <1>1, <1>2, <1>3, <1>4, <1>5, <1>6, <1>7, <1>8, <1>9, <1>10, <1>11, <1>12, <1>13, <1>14,
       <1>15
       DEF Next

\* SessionInv holds in every reachable state: it is true of a new analysis, and
\* every request keeps it.
THEOREM SessionInvariance == Spec => []SessionInv
BY InitInv, StepInv, PTL DEF Spec

\* Whatever the requests, every variable keeps its type: above all, a rule that
\* was patched, merged or made for a candidate is a rule with a proper name.
THEOREM SessionTypeCorrect == Spec => []TypeOK
<1>1. SessionInv => TypeOK
    BY DEF SessionInv, RulesInv, PlanInv, RequestsInv, TypeOK
<1> QED
    BY <1>1, SessionInvariance, PTL

\* The plan that can be downloaded was generated from the rules as they are.
THEOREM PlanAlwaysCurrent == Spec => []PlanIsCurrent
<1>1. SessionInv => PlanIsCurrent
    BY DEF SessionInv, PlanInv
<1> QED
    BY <1>1, SessionInvariance, PTL

\* A verdict of JMeter is only ever attached to the plan that JMeter ran.
THEOREM ReportAlwaysBelongs == Spec => []ReportBelongsToPlan
<1>1. SessionInv => ReportBelongsToPlan
    BY DEF SessionInv, PlanInv
<1> QED
    BY <1>1, SessionInvariance, PTL

\* Two rules have one variable only under the expert override.
THEOREM NamesAlwaysUnique == Spec => []NamesUnique
<1>1. SessionInv => NamesUnique
    BY DEF SessionInv, RulesInv
<1> QED
    BY <1>1, SessionInvariance, PTL

\* No history gives a source two automatic rules.
THEOREM OneAutomaticRule == Spec => []OneAutomaticRulePerSource
<1>1. SessionInv => OneAutomaticRulePerSource
    BY DEF SessionInv, RulesInv
<1> QED
    BY <1>1, SessionInvariance, PTL

-----------------------------------------------------------------------------
(* Auto-correlation. *)

\* What a proposal adds is filled by no enabled rule.
LEMMA UnclaimedFree ==
    ASSUME NEW p, NEW k \in DOMAIN rules, rules[k].enabled
    PROVE  Unclaimed(p) \cap rules[k].sinks = {}
BY DEF Unclaimed, Claimed

LEMMA NoNewConflict ==
    ASSUME SessionInv, NextProposal PROVE Conflicts' \subseteq Conflicts
<1> DEFINE p == Proposals[handler.next]
           L == Len(rules)
<1>1. rules \in Seq(Rule) /\ p \in Found /\ L \in Nat /\ DOMAIN rules = 1 .. L
    BY AnalysisAssumption, LenProperties, ElementOfSeq DEF SessionInv, RulesInv, NextProposal
<1>2. CASE UNCHANGED rules
    BY <1>2 DEF Conflicts
<1>3. CASE MergeProposal(p)
    <2>1. PICK k \in DOMAIN rules, r \in Rule :
                /\ rules' = [rules EXCEPT ![k] = r]
                /\ rules[k].enabled
                /\ r = [rules[k] EXCEPT !.sinks = @ \cup Unclaimed(p)]
        BY <1>1, <1>3, MergeFacts
    <2>2. rules[k] \in Rule
        BY <1>1, ElementOfSeq
    <2>3. r.enabled /\ r.sinks = rules[k].sinks \cup Unclaimed(p)
        BY <2>1, <2>2 DEF Rule
    <2>4. /\ DOMAIN rules' = DOMAIN rules
          /\ \A n \in DOMAIN rules : rules'[n] = IF n = k THEN r ELSE rules[n]
        BY <1>1, <2>1
    <2>5. ASSUME NEW i \in DOMAIN rules, NEW j \in DOMAIN rules, i # j,
                 rules'[i].enabled, rules'[j].enabled,
                 rules'[i].sinks \cap rules'[j].sinks # {}
          PROVE  /\ rules[i].enabled /\ rules[j].enabled
                 /\ rules[i].sinks \cap rules[j].sinks # {}
        <3>1. rules[i].enabled /\ rules[j].enabled
            BY <2>1, <2>4, <2>5
        <3>2. /\ Unclaimed(p) \cap rules[i].sinks = {}
              /\ Unclaimed(p) \cap rules[j].sinks = {}
            BY <3>1, UnclaimedFree
        <3> QED
            BY <2>3, <2>4, <2>5, <3>1, <3>2
    <2> QED
        BY <2>4, <2>5 DEF Conflicts
<1>4. CASE AddProposal(p)
    <2> DEFINE r == NewRule([p EXCEPT !.sinks = Unclaimed(p)])
    <2>1. rules' = Append(rules, r)
        BY <1>4 DEF AddProposal
    <2>2. r.sinks = Unclaimed(p)
        BY <1>1 DEF NewRule, Found
    <2> HIDE DEF r
    <2>3. /\ DOMAIN rules' = 1 .. L + 1
          /\ \A n \in 1 .. L : rules'[n] = rules[n]
          /\ rules'[L + 1] = r
        BY <1>1, <2>1
    <2>4. ASSUME NEW i \in 1 .. L + 1, NEW j \in 1 .. L + 1, i # j,
                 rules'[i].enabled, rules'[j].enabled,
                 rules'[i].sinks \cap rules'[j].sinks # {}
          PROVE  i \in 1 .. L /\ j \in 1 .. L
        <3>1. CASE i = L + 1
            <4>1. j \in DOMAIN rules /\ rules'[j] = rules[j]
                BY <1>1, <2>3, <2>4, <3>1
            <4>2. Unclaimed(p) \cap rules[j].sinks = {}
                BY <2>4, <4>1, UnclaimedFree
            <4> QED
                BY <2>2, <2>3, <2>4, <3>1, <4>1, <4>2
        <3>2. CASE j = L + 1
            <4>1. i \in DOMAIN rules /\ rules'[i] = rules[i]
                BY <1>1, <2>3, <2>4, <3>2
            <4>2. Unclaimed(p) \cap rules[i].sinks = {}
                BY <2>4, <4>1, UnclaimedFree
            <4> QED
                BY <2>2, <2>3, <2>4, <3>2, <4>1, <4>2
        <3> QED
            BY <1>1, <3>1, <3>2
    <2> QED
        BY <1>1, <2>3, <2>4 DEF Conflicts
<1> QED
    BY <1>2, <1>3, <1>4 DEF NextProposal

-----------------------------------------------------------------------------
(* Acceptance. *)

\* Where no rule is the first that covers a candidate or clashes with it, none
\* does either.
LEMMA NothingClashes ==
    ASSUME rules \in Seq(Rule), NEW c, \A k \in DOMAIN rules : ~Decides(k, c)
    PROVE  \A k \in DOMAIN rules : ~Clashes(rules[k], c)
<1> DEFINE T == {k \in DOMAIN rules : Covers(rules[k], c) \/ Clashes(rules[k], c)}
<1>1. Len(rules) \in Nat /\ DOMAIN rules = 1 .. Len(rules)
    BY LenProperties
<1> SUFFICES ASSUME T # {} PROVE FALSE
    OBVIOUS
<1>2. T \in SUBSET Nat
    BY <1>1
<1>3. PICK x \in T : \A y \in T : x <= y
    BY <1>2, LeastNumber
<1>4. ASSUME NEW n \in 1 .. x - 1 PROVE ~Covers(rules[n], c) /\ ~Clashes(rules[n], c)
    <2>1. n \in DOMAIN rules /\ ~(x <= n)
        BY <1>1
    <2> QED
        BY <1>3, <2>1
<1> QED
    BY <1>4 DEF Decides

\* An acceptance extends a rule by consumers that no enabled rule of another
\* source has, so a rule that fills one of them now was overlooked.
LEMMA AcceptOverlooks ==
    ASSUME RulesInv, NEW c \in Found, \A k \in DOMAIN rules : ~Decides(k, c),
           NEW k \in DOMAIN rules, First(k, c.source),
           rules' = [rules EXCEPT ![k].enabled = TRUE, ![k].sinks = @ \cup c.sinks],
           NEW i \in DOMAIN rules, NEW j \in DOMAIN rules, <<i, j>> \in Conflicts' \ Conflicts
    PROVE  Overlooked(i, j)
<1>1. \A n \in DOMAIN rules : rules[n] \in Rule
    BY ElementOfSeq DEF RulesInv
<1>2. /\ rules'[k].sinks = rules[k].sinks \cup c.sinks
      /\ \A n \in DOMAIN rules \ {k} : rules'[n] = rules[n]
    BY <1>1 DEF Rule
<1>3. /\ i # j /\ rules'[i].enabled /\ rules'[j].enabled
      /\ rules'[i].sinks \cap rules'[j].sinks # {}
      /\ ~(/\ rules[i].enabled /\ rules[j].enabled
           /\ rules[i].sinks \cap rules[j].sinks # {})
    BY DEF Conflicts
<1>4. ASSUME NEW n \in DOMAIN rules \ {k}, rules[n].enabled,
             (rules[k].sinks \cup c.sinks) \cap rules[n].sinks # {},
             ~(rules[k].enabled /\ rules[k].sinks \cap rules[n].sinks # {})
      PROVE  Outdated(k, n) \/ rules[k].source = rules[n].source
    <2>1. CASE rules[n].source = c.source
        BY <2>1 DEF First
    <2>2. CASE rules[n].source # c.source
        <3>1. c.sinks \cap rules[n].sinks = {}
            BY <1>4, <2>2, NothingClashes DEF Clashes, RulesInv
        <3>2. rules[k].sinks \cap rules[n].sinks # {}
            BY <1>4, <3>1
        <3> QED
            BY <1>4, <3>2 DEF Outdated
    <2> QED
        BY <2>1, <2>2
<1>5. CASE i = k
    BY <1>2, <1>3, <1>4, <1>5 DEF Overlooked
<1>6. CASE j = k
    BY <1>2, <1>3, <1>4, <1>6 DEF Overlooked
<1>7. CASE i # k /\ j # k
    BY <1>2, <1>3, <1>7
<1> QED
    BY <1>5, <1>6, <1>7

\* Accepting a candidate brings two rules to one consumer only where it
\* overlooks one of them.
LEMMA AcceptConflicts ==
    ASSUME RulesInv, NEW i \in DOMAIN Candidates, Accept(i), NEW ij \in Conflicts' \ Conflicts
    PROVE  ij \in (DOMAIN rules) \X (DOMAIN rules) /\ Overlooked(ij[1], ij[2])
<1> DEFINE c == Candidates[i]
           L == Len(rules)
<1>1. c \in Found /\ rules \in Seq(Rule) /\ L \in Nat /\ DOMAIN rules = 1 .. L
    BY AnalysisAssumption, LenProperties, ElementOfSeq DEF RulesInv
<1>2. CASE UNCHANGED <<rules, plan, jmxStatus, report>>
    BY <1>2 DEF Conflicts
<1>3. CASE /\ \A k \in DOMAIN rules : ~Decides(k, c)
           /\ \E k \in DOMAIN rules :
                /\ First(k, c.source)
                /\ rules' = [rules EXCEPT ![k].enabled = TRUE, ![k].sinks = @ \cup c.sinks]
    <2>1. PICK k \in DOMAIN rules :
                /\ First(k, c.source)
                /\ rules' = [rules EXCEPT ![k].enabled = TRUE, ![k].sinks = @ \cup c.sinks]
        BY <1>3
    <2>2. DOMAIN rules' = DOMAIN rules
        BY <2>1
    <2>3. PICK x \in DOMAIN rules, y \in DOMAIN rules : ij = <<x, y>>
        BY <2>2 DEF Conflicts
    <2> HIDE DEF c
    <2>4. Overlooked(x, y)
        BY <1>1, <1>3, <2>1, <2>3, AcceptOverlooks
    <2> QED
        BY <2>3, <2>4
<1>4. CASE /\ \A k \in DOMAIN rules : ~Decides(k, c)
           /\ \A k \in DOMAIN rules : ~First(k, c.source)
           /\ rules' = Append(rules, NewRule(c))
    <2>1. \A k \in DOMAIN rules : rules[k].source # c.source /\ ~Clashes(rules[k], c)
        BY <1>1, <1>4, FirstOfSource, NothingClashes
    <2>2. \A k \in DOMAIN rules : rules[k].enabled => c.sinks \cap rules[k].sinks = {}
        BY <2>1 DEF Clashes
    <2> DEFINE r == NewRule(c)
    <2>3. r.sinks = c.sinks
        BY DEF NewRule
    <2> HIDE DEF r, c
    <2>4. /\ DOMAIN rules' = 1 .. L + 1
          /\ \A n \in 1 .. L : rules'[n] = rules[n]
          /\ rules'[L + 1] = r
        BY <1>1, <1>4 DEF r
    <2>5. PICK x \in 1 .. L + 1, y \in 1 .. L + 1 : ij = <<x, y>>
        BY <2>4 DEF Conflicts
    <2>6. /\ x # y /\ rules'[x].enabled /\ rules'[y].enabled
          /\ rules'[x].sinks \cap rules'[y].sinks # {}
        BY <2>5 DEF Conflicts
    <2>7. CASE x = L + 1
        <3>1. y \in DOMAIN rules /\ rules'[y] = rules[y]
            BY <1>1, <2>4, <2>6, <2>7
        <3> QED
            BY <2>2, <2>3, <2>4, <2>6, <2>7, <3>1
    <2>8. CASE y = L + 1
        <3>1. x \in DOMAIN rules /\ rules'[x] = rules[x]
            BY <1>1, <2>4, <2>6, <2>8
        <3> QED
            BY <2>2, <2>3, <2>4, <2>6, <2>8, <3>1
    <2>9. CASE x \in 1 .. L /\ y \in 1 .. L
        BY <1>1, <2>4, <2>5, <2>6, <2>9 DEF Conflicts
    <2> QED
        BY <1>1, <2>7, <2>8, <2>9
<1> QED
    BY <1>2, <1>3, <1>4 DEF Accept

\* No consumer gets a second enabled rule by an automatic step, whatever is found
\* in the run and whatever rules there are, but where an acceptance overlooks one.
THEOREM ConsumersAlwaysKeepTheirRule == Spec => ConsumersKeepTheirRule
<1>1. SessionInv /\ [Next]_vars =>
        [\/ \A ij \in Conflicts' \ Conflicts :
              /\ handler.at # "auto"
              /\ ij \in (DOMAIN rules) \X (DOMAIN rules) /\ Overlooked(ij[1], ij[2])
         \/ EditRules]_vars
    <2> SUFFICES ASSUME SessionInv, Next, ~EditRules, NEW ij \in Conflicts' \ Conflicts
                 PROVE  /\ handler.at # "auto"
                        /\ ij \in (DOMAIN rules) \X (DOMAIN rules) /\ Overlooked(ij[1], ij[2])
        OBVIOUS
    <2>1. ~UNCHANGED rules
        BY DEF Conflicts
    <2>2. CASE NextProposal
        BY <2>2, NoNewConflict
    <2>3. CASE \E i \in DOMAIN Candidates : AcceptCandidate(i)
        <3>1. PICK i \in DOMAIN Candidates : AcceptCandidate(i)
            BY <2>3
        <3>2. handler.at # "auto" /\ Accept(i)
            BY <3>1 DEF AcceptCandidate, Served, Idle
        <3> QED
            BY <3>2, AcceptConflicts DEF SessionInv
    <2>4. CASE AcceptNextHigh
        <3>1. /\ handler.at # "auto" /\ handler.next \in DOMAIN Candidates
              /\ Accept(handler.next)
            BY <2>1, <2>4 DEF AcceptNextHigh
        <3> QED
            BY <3>1, AcceptConflicts DEF SessionInv
    <2>5. CASE \/ StartAcceptHigh \/ EndAcceptHigh \/ \E i \in DOMAIN Candidates : RejectCandidate(i)
               \/ StartAuto \/ AutoFails \/ EndAuto
        BY <2>1, <2>5 DEF StartAcceptHigh, EndAcceptHigh, RejectCandidate, StartAuto, AutoFails, EndAuto
    <2>6. CASE \/ \E m \in Manifests : Generate(m)
               \/ \E v \in Validators : StartValidation(v)
               \/ \E v \in Validators, verdict \in Verdict : FinishValidation(v, verdict)
               \/ \E v \in Validators : AbandonValidation(v)
        BY <2>1, <2>6 DEF Generate, StartValidation, FinishValidation, AbandonValidation
    <2> QED
        BY <2>2, <2>3, <2>4, <2>5, <2>6 DEF Next, EditRules
<1> QED
    BY <1>1, SessionInvariance, PTL DEF Spec, ConsumersKeepTheirRule
=============================================================================
