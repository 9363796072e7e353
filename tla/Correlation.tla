---------------------------- MODULE Correlation ----------------------------
(***************************************************************************)
(* CorrelationEngine and classification: which values of responses later   *)
(* requests send back, and what every other value of a request is.         *)
(*                                                                         *)
(* A use is a place in the baseline's requests: <<execution, position>>.   *)
(* A candidate is [exec, src, uses, confidence].  The order of candidates, *)
(* their variable names and the wording of the evidence are left out, as   *)
(* are values of four or five characters and ones with blanks around them. *)
(***************************************************************************)
EXTENDS Captures

Sink(run, u) == run[u[1]].request[u[2]]
AllSinks(run) == UNION {{<<i, k>> : k \in DOMAIN run[i].request} : i \in DOMAIN run}

\* _match_consumer: the whole value, a header's prefix, a part of a text body.
Matches(value, sink) ==
    /\ sink.value = value
    /\ \/ sink.wrap = ""
       \/ sink.loc = "header" /\ sink.wrap = "Bearer"
       \/ sink.loc = "text" /\ sink.wrap = "within" /\ value \in Token

\* _resource_id_path_match: a small number counts in the path of its own resource.
OwnPath(src, sink) == sink.loc = "path" /\ sink.name = src.name /\ src.value \in Small

\* Later requests that send the value, wherever it may come from.
Claims(c, i, src) ==
    {u \in AllSinks(c.a) :
        /\ u[1] > i
        /\ Matches(src.value, Sink(c.a, u))
        /\ src.value \in Small => c.two /\ OwnPath(src, Sink(c.a, u))}

\* What the comparison has at the same location.
HasRival(c, i, src) ==
    i \in DOMAIN Aligned(c) /\ Holding(c.b[Aligned(c)[i]].response, Where(src)) # {}
Rival(c, i, src) == LastAt(c.b[Aligned(c)[i]].response, Where(src))

\* The sink of the comparison that corresponds to a use.
HasTwin(c, u) ==
    u[1] \in DOMAIN Aligned(c) /\ Holding(c.b[Aligned(c)[u[1]]].request, Where(Sink(c.a, u))) # {}
Twin(c, u) == LastAt(c.b[Aligned(c)[u[1]]].request, Where(Sink(c.a, u)))

\* analyze_two_run: the value differs between the runs, and so does each use of it.
Dynamic(c, i, src) == HasRival(c, i, src) /\ Rival(c, i, src).value # src.value

Proven(c, i, src) ==
    IF c.two
    THEN {u \in Claims(c, i, src) :
            Dynamic(c, i, src) /\ HasTwin(c, u) /\ Matches(Rival(c, i, src).value, Twin(c, u))}
    ELSE Claims(c, i, src)

\* _score and the confidence it is worth.
Bonus(n) == IF 5 * (n - 1) < 15 THEN 5 * (n - 1) ELSE 15
Structured(src) == src.loc \in {"json", "xml"}
Score(c, i, src) ==
    LET uses == Proven(c, i, src)
        points == (IF c.two THEN 65 ELSE -15)
                + (IF Structured(src) THEN 10 ELSE 0)
                + (IF src.value \in Token THEN 10 ELSE IF src.value \in Small THEN -20 ELSE 0)
                + Bonus(Cardinality(uses))
                - (IF ~Structured(src) \/ \E u \in uses : Sink(c.a, u).loc = "text" THEN 15 ELSE 0)
                - (IF uses # Claims(c, i, src) THEN 15 ELSE 0)
                - (IF Usable(c.a[i]) THEN 0 ELSE 25)
    IN  IF points < 0 THEN 0 ELSE points

Confidence(score) ==
    IF score >= 70 THEN "high" ELSE IF score >= 45 THEN "medium"
    ELSE IF score > 0 THEN "low" ELSE "rejected"

Sources(run) == UNION {{<<i, k>> : k \in DOMAIN run[i].response} : i \in {i \in DOMAIN run : Present(run[i])}}
Source(run, s) == run[s[1]].response[s[2]]

Candidate(c, s) ==
    LET src == Source(c.a, s)
    IN  [exec |-> s[1], src |-> src, uses |-> Proven(c, s[1], src),
         confidence |-> Confidence(Score(c, s[1], src))]
Detected(c) == {x \in {Candidate(c, s) : s \in Sources(c.a)} : x.uses # {}}

\* Fault: two sources of one response make each other redundant.
Echoes_Same(later, earlier) ==
    /\ earlier # later
    /\ earlier.exec <= later.exec
    /\ earlier.src.value = later.src.value
    /\ later.uses \subseteq earlier.uses

\* _dedupe_and_flag_conflicts: a later response that only echoes what an
\* earlier one supplied to its request adds nothing.
Echoes(later, earlier) ==
    /\ earlier.exec < later.exec
    /\ earlier.src.value = later.src.value
    /\ \E u \in earlier.uses : u[1] = later.exec
    /\ later.uses \subseteq earlier.uses

Kept(found) == {x \in found : ~\E y \in found : Echoes(x, y)}

-----------------------------------------------------------------------------
(* classification                                                          *)

\* _is_cookie_managed: set by Set-Cookie and sent back as a cookie only.
CookieManaged(c, x) == x.src.loc = "cookie" /\ \A u \in x.uses : Sink(c.a, u).loc = "cookie"

Correlations(c, kept) == {x \in kept : ~CookieManaged(c, x)}
Correlated(c, kept) == UNION {x.uses : x \in Correlations(c, kept)}

Produced(run, sink) == sink.wrap = "" /\ \E s \in Sources(run) : Source(run, s).value = sink.value

Differs(c, u) ==
    c.two /\ HasTwin(c, u) /\ <<Twin(c, u).value, Twin(c, u).wrap>> # <<Sink(c.a, u).value, Sink(c.a, u).wrap>>

\* _classify_request_sink; only headers, parameters and forms have keys.
Bucket(c, u) ==
    LET sink == Sink(c.a, u)
    IN  IF sink.loc = "cookie" \/ Produced(c.a, sink) THEN "none"
        ELSE IF sink.loc = "header" /\ sink.name \in Unsent THEN "noise"
        ELSE IF sink.value \in Suspicious /\ sink.wrap = "" THEN "review_required"
        ELSE IF sink.loc \in {"header", "query", "form"} /\ sink.name \in SecretNames THEN "external_credential"
        ELSE IF (sink.value \in Token /\ sink.wrap = "") \/ sink.wrap = "Bearer" THEN "review_required"
        ELSE IF Differs(c, u) THEN "parameterization"
        ELSE "none"

\* classify: one insight for each bucket and field, over its occurrences.
Insights(c, kept) ==
    LET field(u) == <<Bucket(c, u), Where(Sink(c.a, u))>>
        noted == {u \in AllSinks(c.a) \ Correlated(c, kept) : Bucket(c, u) # "none"}
    IN  {[bucket |-> f[1], where |-> f[2], at |-> {u \in noted : field(u) = f}] : f \in {field(u) : u \in noted}}

Reviews(insights) == Cardinality({x \in insights : x.bucket = "review_required"})
=============================================================================
