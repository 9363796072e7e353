------------------------------ MODULE Pipeline ------------------------------
(***************************************************************************)
(* An upload from its reports to a validated plan: build_analysis, the     *)
(* acceptance of candidates, auto-correlation request by request, the      *)
(* generation of the plan and a run of it, and the dependency graph.       *)
(*                                                                         *)
(* Each endpoint runs without an await in between, so the requests of one  *)
(* session come one after another; AnalysisSession has the edits, manual   *)
(* rules and overlapping requests that are left out here.                  *)
(***************************************************************************)
EXTENDS AutoCorrelation, JmxPlan

CONSTANTS
    Capture,        \* the uploads
    Outcome         \* what a run of JMeter may do, apart from its variables

\* Runs and their messages are sequences.
Indexed(s) == Len(s) \in Nat /\ DOMAIN s = 1..Len(s)
ASSUME CaptureAssumption ==
    \A c \in Capture : \A run \in {c.a, c.b} :
        Indexed(run) /\ \A i \in DOMAIN run : Indexed(run[i].request) /\ Indexed(run[i].response)

\* A sample of a host that never answered is one that failed.
ASSUME OutcomeAssumption ==
    \A o \in Outcome : o.samples \in Nat /\ o.failed \in Nat /\ o.unreachable \in 0..o.failed

VARIABLES
    capture,        \* the normalised runs
    stage,          \* what the session has done so far
    kept,           \* analysis.candidates, those left to the Cookie Manager included
    insights,
    readiness,
    next,           \* auto_correlate: the request to wire, ...
    sources,        \* ... the values responses have made available, ...
    selected,       \* ... the array rows requests have selected, ...
    wired,          \* ... and <<source, use, inferred>> for each use wired
    rules,          \* the enabled rules
    plan,
    report          \* the last run of the plan

session == <<kept, insights, readiness>>
pass == <<next, sources, selected, wired>>
vars == <<capture, stage, session, pass, rules, plan, report>>

NoPlan == [texts |-> {}, extractors |-> {}]
NoReport == [status |-> "none", found |-> {}, missed |-> {}]

Init ==
    /\ capture \in Capture /\ stage = "uploaded"
    /\ kept = {} /\ insights = {} /\ readiness = "none"
    /\ next = 1 /\ sources = {} /\ selected = {} /\ wired = {}
    /\ rules = {} /\ plan = NoPlan /\ report = NoReport

\* build_analysis.
Analyze ==
    /\ stage = "uploaded"
    /\ kept' = Kept(Detected(capture))
    /\ insights' = Insights(capture, kept')
    /\ readiness' = Readiness(capture, Reviews(insights'))
    /\ stage' = "review"
    /\ UNCHANGED <<capture, pass, rules, plan, report>>

\* The candidates the session shows.
Candidates == Correlations(capture, kept)

SameSource(x, r) == <<x.exec, x.src>> = <<r.exec, r.src>>
Covers(x, r) == x.uses \subseteq r.uses /\ x.src.value = r.src.value

Clashes(x, r) == x.uses \cap r.uses # {} /\ ~SameSource(x, r)

Joined(x, r) == [exec |-> r.exec, src |-> r.src,
                 uses |-> r.uses \cup x.uses, inferred |-> r.inferred \cup x.inferred]
RuleOf(x) == [exec |-> x.exec, src |-> x.src, uses |-> x.uses, inferred |-> {}]

\* _accept_candidate, refused on a blocked upload.
Accept(x) ==
    /\ stage \in {"review", "correlated"} /\ ~Blockers(capture)
    /\ ~\E r \in rules : Covers(x, r) \/ Clashes(x, r)
    /\ rules' = IF \E r \in rules : SameSource(x, r)
                THEN {IF SameSource(x, r) THEN Joined(RuleOf(x), r) ELSE r : r \in rules}
                ELSE rules \cup {RuleOf(x)}
    /\ plan' = NoPlan /\ report' = NoReport
    /\ UNCHANGED <<capture, stage, session, pass>>

-----------------------------------------------------------------------------
(* auto_correlate_endpoint *)

StartAuto ==
    /\ stage = "review" /\ ~Blockers(capture)
    /\ stage' = "wiring"
    /\ UNCHANGED <<capture, session, pass, rules, plan, report>>

\* One request of auto_correlate: its concrete values first, then its
\* placeholders, and only then what its response offers.
WireRequest ==
    /\ stage = "wiring" /\ next <= Len(capture.a)
    /\ selected' = selected \cup SelectedBy(capture.a, next, sources)
    /\ wired' = wired \cup Wired(capture.a, next, sources, selected')
    /\ sources' = sources \cup Offered(capture.a, next)
    /\ next' = next + 1
    /\ UNCHANGED <<capture, stage, session, rules, plan, report>>

\* The uses that no enabled rule has go to the rule of their source or to a new one.
Fresh(p) == [p EXCEPT !.uses = @ \ UNION {r.uses : r \in rules}]
Additions == {p \in {Fresh(q) : q \in Proposals(capture.a, wired)} : p.uses # {}}

EndAuto ==
    /\ stage = "wiring" /\ next > Len(capture.a)
    /\ rules' = {IF \E p \in Additions : SameSource(p, r)
                 THEN Joined(CHOOSE p \in Additions : SameSource(p, r), r) ELSE r : r \in rules}
                \cup {p \in Additions : ~\E r \in rules : SameSource(p, r)}
    /\ plan' = IF Additions = {} THEN plan ELSE NoPlan
    /\ report' = IF Additions = {} THEN report ELSE NoReport
    /\ stage' = "correlated"
    /\ UNCHANGED <<capture, session, pass>>

-----------------------------------------------------------------------------
(* _generate and validate *)

Generate ==
    /\ stage \in {"review", "correlated"} /\ plan = NoPlan
    /\ Sound(capture, rules)
    /\ plan' = Plan(capture, rules)
    /\ report' = NoReport
    /\ UNCHANGED <<capture, stage, session, pass, rules>>

\* The variables of the plan's manifest, and those the samples of a run can show.
Variables == {e[2] : e \in plan.extractors}
Shown(o) == IF o.launched /\ o.samples > 0 THEN Variables ELSE {}

Ran(o, found, missed) ==
    [launched |-> o.launched, late |-> o.late, code |-> o.code, samples |-> o.samples, failed |-> o.failed,
     unreachable |-> o.unreachable, asserted |-> o.asserted, found |-> found, missed |-> missed]

\* Each variable is judged by itself: found in some sample or in none, missed in some or in none.
Validate ==
    /\ plan # NoPlan /\ report = NoReport
    /\ \E o \in Outcome : \E found \in SUBSET Shown(o), missed \in SUBSET Shown(o) :
        report' = [status |-> IF Validated(Variables, Ran(o, found, missed))
                              THEN "validated" ELSE "validation_failed",
                   found |-> found, missed |-> missed]
    /\ UNCHANGED <<capture, stage, session, pass, rules, plan>>

Next ==
    \/ Analyze
    \/ \E x \in Candidates : Accept(x)
    \/ StartAuto \/ WireRequest \/ EndAuto
    \/ Generate \/ Validate

Spec == Init /\ [][Next]_vars

-----------------------------------------------------------------------------
(* graph_builder: edges are <<producer, consumer's use, source>>.          *)

Edges(x, uses) == {<<x.exec, u, x.src>> : u \in uses}

\* Fault: candidates are drawn beside the rules.
Open_All(x) == x.uses

\* Candidates lose what enabled rules have; those of an enabled source are left out.
Open(x) ==
    IF \E r \in rules : SameSource(x, r) THEN {}
    ELSE {u \in x.uses : ~\E r \in rules : u \in r.uses}

Graph == (UNION {Edges(r, r.uses) : r \in rules}) \cup (UNION {Edges(x, Open(x)) : x \in Candidates})

-----------------------------------------------------------------------------
(* Properties *)

\* A request matched with one of the other run is the one that request is
\* matched with: what a run is compared with does not depend on the order of
\* the uploads (run_aligner.align_runs).
AlignmentIsSymmetric ==
    capture.two =>
        LET there == Aligned(capture)  back == Alignment(capture.b, capture.a)
        IN  /\ DOMAIN back = {there[i] : i \in DOMAIN there}
            /\ \A i \in DOMAIN there : back[there[i]] = i

\* Whatever is dropped as an echo of an earlier response, every use of a value
\* is still a use of a candidate with that value (_dedupe_and_flag_conflicts).
NoConsumerIsLost ==
    stage # "uploaded" =>
        \A x \in Detected(capture) : \A u \in x.uses :
            \E y \in kept : y.src.value = x.src.value /\ u \in y.uses

\* Auto-correlation, which finds its sources by itself and in another way than
\* the engine, leaves none of the engine's candidates with a use it could have
\* wired: each has one enabled rule, and that rule has the value the request
\* sends (auto_correlate, auto_correlate_endpoint).
Wireable(x) ==
    /\ Usable(capture.a[x.exec]) /\ x.src.loc # "cookie" /\ x.src.value \notin Placeholder
    /\ Cardinality({m \in DOMAIN capture.a[x.exec].response :
                        capture.a[x.exec].response[m].value = x.src.value}) = 1
AutoCoversCandidates ==
    stage = "correlated" =>
        \A x \in {x \in Candidates : Wireable(x)} :
            \A u \in {u \in x.uses : IsTarget(Sink(capture.a, u))} :
                /\ Cardinality(RuleFor(rules, u)) = 1
                /\ \A r \in RuleFor(rules, u) : r.src.value = Sink(capture.a, u).value

\* What an enabled rule sends is drawn once, from that rule's source, whatever
\* candidates had the same use (graph_builder.build_graph).
EnabledConsumersDrawnOnce ==
    \A r \in rules : \A u \in r.uses : {e \in Graph : e[2] = u} = {<<r.exec, u, r.src>>}

\* Sent by the plan as it was captured, when every extractor finds the captured
\* value.  Not so: values inferred from a name, runtime headers, the Cookie
\* Manager's cookies, values of cookies, parts of text bodies with a rule, and
\* the query of a request with a body.
Faithful(u) ==
    LET sink == Sink(capture.a, u)
    IN  /\ Materialized(capture, u)
        /\ ~(sink.loc = "query" /\ HasBody(capture, u[1]))
        /\ \A r \in RuleFor(rules, u) : u \notin r.inferred /\ r.src.loc # "cookie" /\ sink.wrap # "within"

\* Replaying the plan against responses like the captured ones sends what was
\* captured: detection, acceptance, auto-correlation and substitution together
\* put no other value, no value without its prefix, and none that a later
\* response would have to supply, into a request.
ReplaySendsTheCapture ==
    plan # NoPlan =>
        \A u \in {u \in AllSinks(capture.a) : Faithful(u)} :
            \E t \in plan.texts :
                /\ t[1] = u
                /\ \A r \in RuleFor(rules, u) : r.exec < u[1]
                /\ <<t[2].value, t[2].wrap>> = <<Sink(capture.a, u).value, Sink(capture.a, u).wrap>>

\* A validated plan sent no default: every enabled rule has its extractor in the
\* plan, its variable had a value in some sample and the default in none, and
\* each variable that a request of the plan sends is one of these, whichever
\* rules came after an earlier plan (invalidate_generated, _generate, validate,
\* jmeter_runner._build_report and _decide_status).
ValidatedMeansCorrelated ==
    report.status = "validated" =>
        LET supplied == Variables \cap (report.found \ report.missed)
        IN  /\ rules \subseteq supplied
            /\ \A t \in plan.texts : t[2].kind = "var" => \E r \in supplied : t[1] \in r.uses

\* analyses.py says of a generated plan that an accepted correlation appears in
\* the rendered request.
MaterializedIsRendered ==
    plan # NoPlan => \A r \in rules : \A u \in r.uses : \E t \in plan.texts : t[1] = u
=============================================================================
