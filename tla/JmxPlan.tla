------------------------------ MODULE JmxPlan ------------------------------
(***************************************************************************)
(* JmxBuilder and jmeter_runner: the test plan that replays the baseline   *)
(* with the values of its rules, the check of what was written into it,    *)
(* and the verdict on a run of it by JMeter.                               *)
(*                                                                         *)
(* A rule is a proposal with uses that no other rule has, and goes by      *)
(* itself where the code has a variable's name.  XML, the managers' fixed  *)
(* properties, hosts and ports are left out.                               *)
(***************************************************************************)
EXTENDS Correlation

(* _robustify_jsonpath: a row of an array is found by a field that is      *)
(* unique in the array, in both runs if there are two.                     *)

Cells(response, name) == {k \in DOMAIN response : response[k].loc = "json" /\ response[k].name = name}
RowsWith(response, name, value) ==
    {response[k].row : k \in {k \in Cells(response, name) : response[k].row > 0 /\ response[k].value = value}}

\* In a single run, fields that rules of the same response extract are no anchors.
Excluded(c, rules, r) ==
    IF c.two THEN {}
    ELSE {x.src.name : x \in {x \in rules : x.exec = r.exec /\ x.src.value \notin Small}}

Anchors(c, rules, r) ==
    LET response == c.a[r.exec].response
        unique(k) ==
            /\ Cardinality(RowsWith(response, response[k].name, response[k].value)) = 1
            /\ c.two => /\ r.exec \in DOMAIN Aligned(c)
                        /\ Cardinality(RowsWith(c.b[Aligned(c)[r.exec]].response,
                                                response[k].name, response[k].value)) = 1
    IN  {k \in DOMAIN response :
            /\ response[k].loc = "json" /\ response[k].row = r.src.row
            /\ response[k].name \notin Excluded(c, rules, r)
            /\ unique(k)}

\* The selector is the anchor's position, or 0 for the path as it was captured.
Selector(c, rules, r) ==
    LET anchors == Anchors(c, rules, r)
        ids == {k \in anchors : c.a[r.exec].response[k].name \in IdNames}
    IN  IF ~(r.src.loc = "json" /\ r.src.row > 0) \/ anchors = {} THEN 0
        ELSE CHOOSE k \in (IF ids # {} THEN ids ELSE anchors) : TRUE

\* The first match of the selector in the response it was made from.
Resolves(c, rules, r) ==
    LET response == c.a[r.exec].response
        k == Selector(c, rules, r)
        rows == RowsWith(response, response[k].name, response[k].value)
        first == CHOOSE n \in rows : \A m \in rows : n <= m
    IN  k # 0 => \E m \in Cells(response, r.src.name) :
                     response[m].row = first /\ response[m].value = r.src.value

\* What an extractor finds when the response is the captured one.  The regular
\* expression for a cookie looks for a header of the cookie's name.
Lost == "__NOT_FOUND__"
Extracted(r) == IF r.src.loc = "cookie" THEN Lost ELSE r.src.value

-----------------------------------------------------------------------------
(* _mutate_request: substitutions, then secrets as properties.             *)

RuleFor(rules, u) == {r \in rules : u \in r.uses}

\* Sensitive headers, and credential fields of forms and JSON bodies.
Externalized(sink) ==
    sink.name \in SecretNames /\ sink.loc \in {"header", "form", "json"}
        /\ ~(sink.loc = "header" /\ sink.name \in Unsent)

Variable(r, wrap) == [kind |-> "var", value |-> Extracted(r), wrap |-> wrap]

\* Fault: the prefix of a header is lost.
Substituted_Bare(sink, r) == Variable(r, "")

\* Only headers keep what stands around the value; a text body is replaced whole.
Substituted(sink, r) == Variable(r, IF sink.loc = "header" THEN sink.wrap ELSE "")

Mutated(c, rules, u) ==
    LET sink == Sink(c.a, u)
    IN  IF RuleFor(rules, u) # {} THEN Substituted(sink, CHOOSE r \in RuleFor(rules, u) : TRUE)
        ELSE IF Externalized(sink) THEN [kind |-> "property", value |-> sink.value, wrap |-> sink.wrap]
        ELSE [kind |-> "literal", value |-> sink.value, wrap |-> sink.wrap]

\* Cookies that responses have set so far are the Cookie Manager's.
ServerCookies(c, i) ==
    {c.a[s[1]].response[s[2]].name :
        s \in {s \in Sources(c.a) : s[1] < i /\ c.a[s[1]].response[s[2]].loc = "cookie"}}

\* The final look at a substitution: header filtering and cookies count, bodies do not.
Materialized(c, u) ==
    LET sink == Sink(c.a, u)
    IN  /\ ~(sink.loc = "header" /\ sink.name \in Unsent)
        /\ ~(sink.loc = "cookie" /\ sink.name \in ServerCookies(c, u[1]))

\* _http_sampler, _header_manager, _client_cookie_preprocessor: the query becomes
\* arguments of requests without a body only.
HasBody(c, i) == \E k \in DOMAIN c.a[i].request : c.a[i].request[k].loc \in {"json", "text", "form"}

Rendered(c, u) ==
    /\ Materialized(c, u)
    /\ Sink(c.a, u).loc = "query" => ~HasBody(c, u[1])

Unmaterialized(c, rules) == {u \in UNION {r.uses : r \in rules} : ~Materialized(c, u)}

\* build, as _generate takes it: a plan that fails a check is not kept.
Sound(c, rules) ==
    /\ Unmaterialized(c, rules) = {}
    /\ \A r \in rules : Resolves(c, rules, r)

Plan(c, rules) ==
    [texts |-> {<<u, Mutated(c, rules, u)>> : u \in {u \in AllSinks(c.a) : Rendered(c, u)}},
     extractors |-> {<<r.exec, r>> : r \in rules}]

-----------------------------------------------------------------------------
(* jmeter_runner: an outcome is [launched, late, code, samples, failed,    *)
(* unreachable, asserted, found, missed], found and missed the rules whose *)
(* variable some sample shows with a value, or with the default.           *)

\* Fault: a variable that was found once is not missing.
Missing_Once(rules, o) == rules \ o.found

\* Fault: one variable that was always found is enough.
Missing_AllOrNone(rules, o) == IF rules \cap (o.found \ o.missed) # {} THEN {} ELSE rules

\* _build_report: what a variable lacks, in any sample.
Missing(rules, o) == {r \in rules : r \notin o.found \/ r \in o.missed}

\* _decide_status, where no sampler may fail; a host that never answered tells nothing of variables.
ConnectionFailed(o) == o.samples > 0 /\ o.unreachable = o.samples
Validated(rules, o) ==
    /\ o.launched /\ ~o.late /\ o.code = 0
    /\ o.samples > 0 /\ o.failed = 0 /\ ~o.asserted
    /\ Missing(rules, o) = {} \/ ConnectionFailed(o)
=============================================================================
