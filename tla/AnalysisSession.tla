--------------------------- MODULE AnalysisSession ---------------------------
(***************************************************************************)
(* One analysis in memory: candidates, correlation rules, the generated    *)
(* plan and its validation (api/v1/analyses.py, api/v1/rules.py,           *)
(* repositories/analysis_store.py).                                        *)
(*                                                                         *)
(* The handlers are coroutines of one event loop.  One that does not await *)
(* holds the loop to its end, so it is one action, or, where it loops over *)
(* candidates or proposals, a series of actions during which handler is    *)
(* not idle and no other handler moves.  validate awaits JMeter, and       *)
(* everything else may happen meanwhile.                                   *)
(*                                                                         *)
(* A rule is known by its place in the dictionary, which keeps insertion   *)
(* order.  What the validator says of values, extractors and positions is  *)
(* left out: those issues refuse a request, which then changes nothing.    *)
(***************************************************************************)
EXTENDS Integers, Sequences

CONSTANTS
    Sources,        \* locations of values in responses
    Sinks,          \* locations of values in requests
    Bases,          \* variable names without a numeric suffix
    ValueOf,        \* the captured value at a source
    Candidates,     \* the engine's candidates, in order
    Proposals,      \* what auto_correlate finds in the run, in order
    Bodies,         \* bodies of POST rules
    Patches,        \* bodies of PATCH rules/{id}
    Keep,           \* a field that a patch does not name
    Manifests,      \* identities of manifest objects
    Validators,     \* concurrent requests to validate
    None,
    Blocked,        \* run health forbids automatic correlation
    MaxRules        \* bound: no manual rule is added beyond it

\* A base and the suffixes after it: token_2_3 is <<token, <<2, 3>>>>.
Name == Bases \X Seq(Nat \ {0, 1})

\* name, then name_2, name_3 and so on.
Suffixed(name, n) == IF n = 1 THEN name ELSE <<name[1], Append(name[2], n)>>

Rule == [source : Sources, sinks : SUBSET Sinks, name : Name,
         enabled : BOOLEAN, override : BOOLEAN, automatic : BOOLEAN]

Found == [source : Sources, sinks : SUBSET Sinks, base : Name, high : BOOLEAN]

Body == [source : Sources, sinks : SUBSET Sinks, name : Name, override : BOOLEAN]

Patch == [sinks : (SUBSET Sinks) \cup {Keep}, name : Name \cup {Keep},
          enabled : BOOLEAN \cup {Keep}, override : BOOLEAN \cup {Keep}]

Verdict == {"validated", "validation_failed"}

Plan == [rules : Seq(Rule), manifest : Manifests]
Report == [manifest : Manifests, status : Verdict]

ASSUME AnalysisAssumption ==
    /\ Candidates \in Seq(Found)
    /\ Proposals \in Seq(Found)
    /\ Bodies \subseteq Body
    /\ Patches \subseteq Patch
    /\ Blocked \in BOOLEAN
    /\ MaxRules \in Nat
    /\ None \notin Plan
    /\ None \notin Report
    /\ None \notin Manifests
    /\ None \notin Verdict \cup {"generated"}

VARIABLES
    rules,          \* rules
    candidate,      \* state of each candidate
    auto,           \* auto_correlation_status
    plan,           \* generated_jmx and generated_manifest
    jmxStatus,      \* jmx_status
    report,         \* validation_report
    checking,       \* the manifest of the plan each validate request is about
    handler         \* the handler that holds the event loop

vars == <<rules, candidate, auto, plan, jmxStatus, report, checking, handler>>

Idle == [at |-> "idle", next |-> 1, changed |-> FALSE]

Handler == [at : {"idle", "accept_high", "auto"}, next : Nat \ {0}, changed : BOOLEAN]

TypeOK ==
    /\ rules \in Seq(Rule)
    /\ candidate \in [DOMAIN Candidates -> {"suggested", "accepted", "rejected"}]
    /\ auto \in {"not_started", "running", "completed", "failed"}
    /\ plan \in Plan \cup {None}
    /\ jmxStatus \in Verdict \cup {None, "generated"}
    /\ report \in Report \cup {None}
    /\ checking \in [Validators -> Manifests \cup {None}]
    /\ handler \in Handler

Init ==
    /\ rules = <<>>
    /\ candidate = [c \in DOMAIN Candidates |-> "suggested"]
    /\ auto = "not_started"
    /\ plan = None
    /\ jmxStatus = None
    /\ report = None
    /\ checking = [v \in Validators |-> None]
    /\ handler = Idle

\* A request finds the loop free.
Served == handler = Idle

-----------------------------------------------------------------------------
(* Rules. *)

\* Fault: names of disabled rules are free again.
NamesBut_Enabled(i) == {rules[k].name : k \in {n \in DOMAIN rules \ {i} : rules[n].enabled}}

\* existing_variable_names(exclude=i); no rule has place 0.
NamesBut(i) == {rules[k].name : k \in DOMAIN rules \ {i}}

\* dedupe_variable_name, and the loop of auto-correlate that does the same; with
\* one name per rule, one of the first Len(rules) + 1 candidates is free.
Fresh(base) ==
    Suffixed(base, CHOOSE n \in 1 .. Len(rules) + 1 :
        /\ Suffixed(base, n) \notin NamesBut(0)
        /\ \A m \in 1 .. n - 1 : Suffixed(base, m) \in NamesBut(0))

NewRule(f) ==
    [source |-> f.source, sinks |-> f.sinks, name |-> Fresh(f.base),
     enabled |-> TRUE, override |-> FALSE, automatic |-> TRUE]

\* invalidate_generated.
Invalidate == plan' = None /\ jmxStatus' = None /\ report' = None

\* validate_rule: what it can find wrong with names and consumers.
Sound(r, others) == r.name \notin others /\ r.sinks # {}

\* POST rules.
CreateRule(b) ==
    LET r == [source |-> b.source, sinks |-> b.sinks, name |-> b.name,
              enabled |-> TRUE, override |-> b.override, automatic |-> FALSE]
    IN  /\ Served
        /\ Len(rules) < MaxRules
        /\ Sound(r, NamesBut(0)) \/ r.override
        /\ rules' = Append(rules, r)
        /\ Invalidate
        /\ UNCHANGED <<candidate, auto, checking, handler>>

Patched(r, p) ==
    [r EXCEPT !.sinks    = IF p.sinks = Keep THEN @ ELSE p.sinks,
              !.name     = IF p.name = Keep THEN @ ELSE p.name,
              !.enabled  = IF p.enabled = Keep THEN @ ELSE p.enabled,
              !.override = IF p.override = Keep THEN @ ELSE p.override]

\* PATCH rules/{id}.
UpdateRule(i, p) ==
    LET r == Patched(rules[i], p)
    IN  /\ Served
        /\ Sound(r, NamesBut(i)) \/ r.override
        /\ rules' = [rules EXCEPT ![i] = r]
        /\ Invalidate
        /\ UNCHANGED <<candidate, auto, checking, handler>>

\* DELETE rules/{id}.
DeleteRule(i) ==
    /\ Served
    /\ rules' = SubSeq(rules, 1, i - 1) \o SubSeq(rules, i + 1, Len(rules))
    /\ Invalidate
    /\ UNCHANGED <<candidate, auto, checking, handler>>

-----------------------------------------------------------------------------
(* Accepting candidates. *)

Covers(r, c) ==
    /\ r.enabled
    /\ c.sinks # {}
    /\ c.sinks \subseteq r.sinks
    /\ ValueOf[r.source] = ValueOf[c.source]

Clashes(r, c) ==
    /\ r.enabled
    /\ c.sinks \cap r.sinks # {}
    /\ r.source # c.source

\* The first rule, in the order of the dictionary, for which one of the two holds.
Decides(k, c) ==
    /\ Covers(rules[k], c) \/ Clashes(rules[k], c)
    /\ \A n \in 1 .. k - 1 : ~Covers(rules[n], c) /\ ~Clashes(rules[n], c)

Refused(i) ==
    \E k \in DOMAIN rules :
        /\ Decides(k, Candidates[i])
        /\ ~Covers(rules[k], Candidates[i])

\* Fault: only enabled rules of the same source are extended.
First_Enabled(k, source) ==
    /\ rules[k].source = source /\ rules[k].enabled
    /\ \A n \in 1 .. k - 1 : rules[n].source # source \/ ~rules[n].enabled

First(k, source) ==
    /\ rules[k].source = source
    /\ \A n \in 1 .. k - 1 : rules[n].source # source

\* _accept_candidate, where no rule clashes: a rule covers the candidate, or
\* its source has one, which is enabled and extended, or it gets a new one.
Accept(i) ==
    LET c == Candidates[i]
        free == \A k \in DOMAIN rules : ~Decides(k, c)
    IN  /\ candidate' = [candidate EXCEPT ![i] = "accepted"]
        /\ \/ /\ \E k \in DOMAIN rules : Decides(k, c) /\ Covers(rules[k], c)
              /\ UNCHANGED <<rules, plan, jmxStatus, report>>
           \/ /\ free
              /\ \E k \in DOMAIN rules :
                    /\ First(k, c.source)
                    /\ rules' = [rules EXCEPT ![k].enabled = TRUE,
                                              ![k].sinks = @ \cup c.sinks]
              /\ Invalidate
           \/ /\ free
              /\ \A k \in DOMAIN rules : ~First(k, c.source)
              /\ rules' = Append(rules, NewRule(c))
              /\ Invalidate

\* POST candidates/{id}/accept.
AcceptCandidate(i) ==
    /\ Served
    /\ ~Blocked
    /\ ~Refused(i)
    /\ Accept(i)
    /\ UNCHANGED <<auto, checking, handler>>

\* POST candidates/accept-high: one iteration of its loop at a time.
StartAcceptHigh ==
    /\ Served
    /\ ~Blocked
    /\ handler' = [Idle EXCEPT !.at = "accept_high"]
    /\ UNCHANGED <<rules, candidate, auto, plan, jmxStatus, report, checking>>

\* A candidate that is refused ends the loop with an error; those before it stay.
AcceptNextHigh ==
    /\ handler.at = "accept_high"
    /\ handler.next \in DOMAIN Candidates
    /\ IF Candidates[handler.next].high /\ candidate[handler.next] = "suggested"
       THEN \/ /\ ~Refused(handler.next)
               /\ Accept(handler.next)
               /\ handler' = [handler EXCEPT !.next = @ + 1]
            \/ /\ Refused(handler.next)
               /\ handler' = Idle
               /\ UNCHANGED <<rules, candidate, plan, jmxStatus, report>>
       ELSE /\ handler' = [handler EXCEPT !.next = @ + 1]
            /\ UNCHANGED <<rules, candidate, plan, jmxStatus, report>>
    /\ UNCHANGED <<auto, checking>>

EndAcceptHigh ==
    /\ handler.at = "accept_high"
    /\ handler.next \notin DOMAIN Candidates
    /\ handler' = Idle
    /\ UNCHANGED <<rules, candidate, auto, plan, jmxStatus, report, checking>>

\* POST candidates/{id}/reject.
RejectCandidate(i) ==
    /\ Served
    /\ candidate' = [candidate EXCEPT ![i] = "rejected"]
    /\ UNCHANGED <<rules, auto, plan, jmxStatus, report, checking, handler>>

-----------------------------------------------------------------------------
(* POST auto-correlate: one proposal at a time. The sets it carries along   *)
(* (existing, by_source, claimed) are always those of the rules so far.     *)

\* A completed analysis answers with the cached result.
StartAuto ==
    /\ Served
    /\ ~Blocked
    /\ auto # "completed"
    /\ auto' = "running"
    /\ handler' = [Idle EXCEPT !.at = "auto"]
    /\ UNCHANGED <<rules, candidate, plan, jmxStatus, report, checking>>

\* auto_correlate raises, before the first proposal is looked at.
AutoFails ==
    /\ handler = [Idle EXCEPT !.at = "auto"]
    /\ auto' = "failed"
    /\ handler' = Idle
    /\ UNCHANGED <<rules, candidate, plan, jmxStatus, report, checking>>

\* The sinks that enabled rules fill.
Claimed == UNION {rules[k].sinks : k \in {n \in DOMAIN rules : rules[n].enabled}}

\* Fault: sinks that other rules fill are proposed again.
Unclaimed_All(p) == p.sinks

Unclaimed(p) == p.sinks \ Claimed

\* by_source keeps the last rule of a source.
Last(k, source) ==
    /\ rules[k].source = source
    /\ \A n \in DOMAIN rules : n > k => rules[n].source # source

MergeProposal(p) ==
    \E k \in DOMAIN rules :
        /\ Last(k, p.source)
        /\ rules[k].enabled
        /\ rules' = [rules EXCEPT ![k].sinks = @ \cup Unclaimed(p)]

AddProposal(p) ==
    /\ \A k \in DOMAIN rules : rules[k].source # p.source
    /\ rules' = Append(rules, NewRule([p EXCEPT !.sinks = Unclaimed(p)]))

\* A proposal is passed over when nothing of it is unclaimed, when its rule is
\* disabled, and when the validator objects to what it would make.
NextProposal ==
    /\ handler.at = "auto"
    /\ handler.next \in DOMAIN Proposals
    /\ LET p == Proposals[handler.next]
       IN  \/ /\ Unclaimed(p) # {}
              /\ MergeProposal(p) \/ AddProposal(p)
              /\ handler' = [handler EXCEPT !.next = @ + 1, !.changed = TRUE]
           \/ /\ handler' = [handler EXCEPT !.next = @ + 1]
              /\ UNCHANGED rules
    /\ UNCHANGED <<candidate, auto, plan, jmxStatus, report, checking>>

Covered(c) ==
    c.sinks \subseteq UNION {rules[k].sinks : k \in
        {n \in DOMAIN rules : rules[n].enabled /\ ValueOf[rules[n].source] = ValueOf[c.source]}}

\* Fault: the plan made before is not withdrawn.
EndAuto_KeepsPlan ==
    /\ handler.at = "auto"
    /\ handler.next \notin DOMAIN Proposals
    /\ auto' = "completed"
    /\ handler' = Idle
    /\ UNCHANGED <<rules, candidate, plan, jmxStatus, report, checking>>

EndAuto ==
    /\ handler.at = "auto"
    /\ handler.next \notin DOMAIN Proposals
    /\ IF handler.changed THEN Invalidate ELSE UNCHANGED <<plan, jmxStatus, report>>
    /\ candidate' = [i \in DOMAIN Candidates |->
                        IF Candidates[i].sinks # {} /\ Covered(Candidates[i])
                        THEN "accepted" ELSE candidate[i]]
    /\ auto' = "completed"
    /\ handler' = Idle
    /\ UNCHANGED <<rules, checking>>

-----------------------------------------------------------------------------
(* The plan. *)

\* The last rule that fills a sink is the one whose variable is found there, and
\* _generate refuses a plan in which another enabled rule's variable is missing.
Materialized(rs) ==
    \A i, j \in DOMAIN rs :
        /\ rs[i].enabled
        /\ rs[j].enabled
        /\ rs[i].sinks \cap rs[j].sinks # {}
        => rs[i].name = rs[j].name

\* Objects that somebody still refers to.
Referenced ==
    {p.manifest : p \in {plan} \ {None}} \cup {checking[v] : v \in Validators}

\* POST generate, when the plan is sound; preview changes nothing.
Generate(m) ==
    /\ Served
    /\ m \notin Referenced
    /\ Materialized(rules)
    /\ plan' = [rules |-> rules, manifest |-> m]
    /\ jmxStatus' = "generated"
    /\ report' = None
    /\ UNCHANGED <<rules, candidate, auto, checking, handler>>

\* POST validate, up to its await.
StartValidation(v) ==
    /\ Served
    /\ plan # None
    /\ checking[v] = None
    /\ checking' = [checking EXCEPT ![v] = plan.manifest]
    /\ UNCHANGED <<rules, candidate, auto, plan, jmxStatus, report, handler>>

\* Fault: any plan will do.
SamePlan_Any(v) == plan # None

\* generated_manifest is manifest, which no other text goes with.
SamePlan(v) == plan # None /\ plan.manifest = checking[v]

\* POST validate, after JMeter.
FinishValidation(v, verdict) ==
    /\ Served
    /\ checking[v] # None
    /\ checking' = [checking EXCEPT ![v] = None]
    /\ IF SamePlan(v)
       THEN /\ jmxStatus' = verdict
            /\ report' = [manifest |-> checking[v], status |-> verdict]
       ELSE UNCHANGED <<jmxStatus, report>>
    /\ UNCHANGED <<rules, candidate, auto, plan, handler>>

\* run_plan raises: its directory cannot be written.
AbandonValidation(v) ==
    /\ Served
    /\ checking[v] # None
    /\ checking' = [checking EXCEPT ![v] = None]
    /\ UNCHANGED <<rules, candidate, auto, plan, jmxStatus, report, handler>>

Next ==
    \/ \E b \in Bodies : CreateRule(b)
    \/ \E i \in DOMAIN rules, p \in Patches : UpdateRule(i, p)
    \/ \E i \in DOMAIN rules : DeleteRule(i)
    \/ \E i \in DOMAIN Candidates : AcceptCandidate(i)
    \/ StartAcceptHigh
    \/ AcceptNextHigh
    \/ EndAcceptHigh
    \/ \E i \in DOMAIN Candidates : RejectCandidate(i)
    \/ StartAuto
    \/ AutoFails
    \/ NextProposal
    \/ EndAuto
    \/ \E m \in Manifests : Generate(m)
    \/ \E v \in Validators : StartValidation(v)
    \/ \E v \in Validators, verdict \in Verdict : FinishValidation(v, verdict)
    \/ \E v \in Validators : AbandonValidation(v)

Spec == Init /\ [][Next]_vars

-----------------------------------------------------------------------------
(* Properties. *)

\* The plan offered for download was generated from the rules as they are now:
\* every change of a rule, by whichever request, withdraws it. Auto-correlation
\* withdraws it at its end, so only its own loop may see the two differ.
PlanIsCurrent == plan # None /\ ~handler.changed => plan.rules = rules

\* A plan is called validated, or failed, only by a JMeter run of that very plan:
\* not of an earlier one that was edited, or generated again, while JMeter ran.
ReportBelongsToPlan ==
    /\ report # None => plan # None /\ report.manifest = plan.manifest
    /\ jmxStatus = IF plan = None THEN None
                   ELSE IF report = None THEN "generated" ELSE report.status

\* A variable has one extractor, unless both of its rules are under the expert
\* override or one of them is: renames, disabled rules and the names chosen for
\* automatic rules do not collide.
NamesUnique ==
    \A i, j \in DOMAIN rules :
        i # j /\ rules[i].name = rules[j].name => rules[i].override \/ rules[j].override

\* Accepting, accepting again, disabling, renaming and auto-correlating in any
\* order never gives a source a second automatic rule.
OneAutomaticRulePerSource ==
    \A i, j \in DOMAIN rules :
        /\ rules[i].automatic
        /\ rules[j].automatic
        /\ rules[i].source = rules[j].source
        => i = j

\* Pairs of enabled rules that fill the same sink.
Conflicts ==
    {ij \in (DOMAIN rules) \X (DOMAIN rules) :
        /\ ij[1] # ij[2]
        /\ rules[ij[1]].enabled
        /\ rules[ij[2]].enabled
        /\ rules[ij[1]].sinks \cap rules[ij[2]].sinks # {}}

\* POST, PATCH and DELETE of rules look at no other rule's consumers.
EditRules ==
    \/ \E b \in Bodies : CreateRule(b)
    \/ \E i \in DOMAIN rules, p \in Patches : UpdateRule(i, p)
    \/ \E i \in DOMAIN rules : DeleteRule(i)

\* A disabled rule one of whose sinks was given to another rule.
Outdated(i, j) == ~rules[i].enabled /\ rules[i].sinks \cap rules[j].sinks # {}

\* What _accept_candidate does not look at: the rule it enables again is
\* outdated, or its source has another rule that is enabled.
Overlooked(i, j) == Outdated(i, j) \/ Outdated(j, i) \/ rules[i].source = rules[j].source

\* In whatever order candidates are accepted, rules disabled and values found:
\* no step but the owner's own edit of a rule gives a consumer of one enabled rule
\* to a second one, unless an acceptance overlooks it, and auto-correlation
\* overlooks nothing.
ConsumersKeepTheirRule ==
    [][\/ \A ij \in Conflicts' \ Conflicts :
            /\ handler.at # "auto"
            /\ ij \in (DOMAIN rules) \X (DOMAIN rules) /\ Overlooked(ij[1], ij[2])
       \/ EditRules]_vars
=============================================================================
