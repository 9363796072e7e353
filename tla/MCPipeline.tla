----------------------------- MODULE MCPipeline -----------------------------
(***************************************************************************)
(* Uploads for Pipeline: a login, an order and a follow-up that reuse what *)
(* came before in different ways, alone or against a second run that is    *)
(* fresh, identical, shorter, reordered, refused, emptied or elsewhere     *)
(* changed; and all pairs of runs of up to three empty requests.           *)
(***************************************************************************)
EXTENDS Pipeline

At(loc, name, value) == [loc |-> loc, name |-> name, row |-> 0, value |-> value, wrap |-> ""]
InCell(row, name, value) == [At("json", name, value) EXCEPT !.row = row]
Wrapped(o, wrap) == [o EXCEPT !.wrap = wrap]
Call(sig, code, request, response) ==
    [sig |-> sig, code |-> code, failed |-> FALSE, flag |-> FALSE, size |-> -1,
     request |-> request, response |-> response]

Bearer == Wrapped(At("header", "authorization", "t1"), "Bearer")

Logins == {
    <<At("json", "token", "t1")>>,
    <<At("json", "orderId", "41")>>,
    <<At("header", "x-token", "t1")>>,
    <<At("cookie", "sid", "t1")>>,
    <<At("text", "csrf", "t1")>>,
    <<At("json", "token", "t1"), At("header", "x-token", "t1")>>,
    <<InCell(1, "orderId", "41"), InCell(1, "customer", "alpha"),
      InCell(2, "orderId", "42"), InCell(2, "customer", "beta")>>}

Orders == {
    <<>>, <<Bearer>>, <<At("path", "orderId", "41")>>, <<At("cookie", "sid", "t1")>>,
    <<At("query", "token", "t1"), At("json", "orderId", "42")>>}

Answers == {<<>>, <<At("json", "token", "t1")>>, <<At("json", "receipt", "t3"), At("json", "customer", "beta")>>}

FollowUps == {
    <<Bearer, At("path", "orderId", "41")>>,
    <<At("query", "token", "t1"), At("json", "customer", "string")>>,
    <<Wrapped(At("text", "body", "t1"), "within"), At("header", "host", "beta")>>,
    <<At("form", "password", "alpha"), At("form", "receipt", "t3"), At("cookie", "sid", "t1")>>,
    <<At("path", "orderId", "42"), At("query", "customer", "guid")>>}

Journey(code, l, o, a, f) ==
    <<Call("login", code, <<>>, l), [Call("order", 200, o, a) EXCEPT !.size = 2], Call("order", 200, f, <<>>)>>
Journeys ==
    {Journey(200, l, o, a, f) : l \in Logins, o \in Orders, a \in Answers, f \in FollowUps}
    \cup {Journey(code, l, <<Bearer>>, <<>>, f) : code \in {0, 500}, l \in Logins, f \in FollowUps}
Usual == {Journey(200, l, <<Bearer>>, <<At("json", "token", "t1")>>, f) : l \in Logins, f \in FollowUps}

\* The values of another run.
Renewed(v) == CASE v = "t1" -> "t2" [] v = "41" -> "43" [] v = "42" -> "44" [] OTHER -> v
Renewals(occurrences) == [k \in DOMAIN occurrences |-> [occurrences[k] EXCEPT !.value = Renewed(@)]]
FreshRun(run) ==
    [i \in DOMAIN run |-> [run[i] EXCEPT !.request = Renewals(@), !.response = Renewals(@)]]

Comparisons(run) ==
    LET fresh == FreshRun(run)
    IN  {run, SubSeq(fresh, 1, 2),
         <<fresh[1], fresh[3], fresh[2]>>,
         [fresh EXCEPT ![2].code = 401],
         [fresh EXCEPT ![2].code = -1, ![2].response = <<>>],
         [fresh EXCEPT ![3].request = run[3].request],
         [run EXCEPT ![2].size = 0, ![3].failed = TRUE]}

Silent(sig) == Call(sig, 200, <<>>, <<>>)
Sequences3 == UNION {[1..n -> {Silent("get"), Silent("put")}] : n \in 0..3}

MCCaptures ==
    {[two |-> FALSE, a |-> run, b |-> <<>>] : run \in Journeys}
    \cup {[two |-> TRUE, a |-> run, b |-> FreshRun(run)] : run \in Journeys}
    \cup UNION {{[two |-> TRUE, a |-> run, b |-> other] : other \in Comparisons(run)} : run \in Usual}
    \cup {[two |-> TRUE, a |-> a, b |-> b] : a \in Sequences3, b \in Sequences3}

Fine == [launched |-> TRUE, late |-> FALSE, code |-> 0, samples |-> 3, failed |-> 0,
         unreachable |-> 0, asserted |-> FALSE]
MCOutcomes == {
    Fine, [Fine EXCEPT !.launched = FALSE], [Fine EXCEPT !.late = TRUE], [Fine EXCEPT !.code = 1],
    [Fine EXCEPT !.samples = 0], [Fine EXCEPT !.failed = 1], [Fine EXCEPT !.failed = 3, !.unreachable = 3],
    [Fine EXCEPT !.asserted = TRUE]}
=============================================================================
