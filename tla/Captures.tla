------------------------------ MODULE Captures ------------------------------
(***************************************************************************)
(* What one or two uploaded Newman runs say: the requests and responses of *)
(* the normalised executions as values at locations, their alignment by    *)
(* signature, their health, and whether the pair is one business scenario. *)
(*                                                                         *)
(* A capture is [two, a, b]: the baseline a and, when two holds, the       *)
(* comparison b (empty otherwise).  A run is a sequence of executions      *)
(*   [sig, code, failed, flag, size, request, response]                    *)
(* with code -1 for a missing response and 0 for a response that says no   *)
(* code, failed for a failed assertion, flag for a business-error          *)
(* indicator, size for the number of records of an array or a count (-1:   *)
(* neither).  request and response are sequences of occurrences            *)
(*   [loc, name, row, value, wrap],                                        *)
(* row the array row of a JSON leaf (0: none), wrap the text around a      *)
(* value: "" for none, "Bearer" for a prefix of a header, "within" for the *)
(* rest of a text body.  The name of a path segment is that of the id its  *)
(* resource has.  Occurrences of one message have different locations, and *)
(* paths have ids of different resources at different positions.           *)
(***************************************************************************)
EXTENDS Integers, FiniteSets, Sequences

CONSTANTS
    Token,          \* long values of high entropy
    Small,          \* numbers too short to be dynamic by themselves
    Placeholder,    \* values such as "string" that stand for a real one
    Word,           \* every other value
    Suspicious,     \* placeholders that classification asks about
    IdNames,        \* field names that end in id, guid or uuid
    SecretNames,    \* sensitive keys: authorization, password, api_key
    Unsent          \* request headers a plan does not replay

ASSUME CapturesAssumption ==
    /\ Suspicious \subseteq Placeholder
    /\ Token \cap (Small \cup Placeholder \cup Word) = {}
    /\ (Small \cup Word) \cap Placeholder = {}

Where(o) == <<o.loc, o.name, o.row>>

\* An execution with a response; and one whose response is no error.
Present(e) == e.code >= 0
Usable(e) == e.code = 0 \/ e.code \in 200..399

\* Occurrences at a location; the last one stands for it in an index.
Holding(occurrences, where) == {k \in DOMAIN occurrences : Where(occurrences[k]) = where}
LastAt(occurrences, where) ==
    occurrences[CHOOSE k \in Holding(occurrences, where) :
                    \A m \in Holding(occurrences, where) : m <= k]

-----------------------------------------------------------------------------
(* run_aligner: a request is matched by its signature and the number of    *)
(* earlier requests with the same signature.                               *)

\* Fault: repeated requests are not told apart.
Ordinal_None(run, i) == 0

Ordinal(run, i) == Cardinality({j \in 1..(i - 1) : run[j].sig = run[i].sig})

Signature(run, i) == <<run[i].sig, Ordinal(run, i)>>

\* The comparison's map from signatures, where a later request wins.
Partners(run, other, i) == {j \in DOMAIN other : Signature(other, j) = Signature(run, i)}
Alignment(run, other) ==
    [i \in {i \in DOMAIN run : Partners(run, other, i) # {}} |->
        CHOOSE j \in Partners(run, other, i) : \A k \in Partners(run, other, i) : k <= j]

\* The alignment of an analysis; a single run is aligned with nothing.
Aligned(c) == IF c.two THEN Alignment(c.a, c.b) ELSE <<>>

\* Coverage below 80%, or below 100%, of the baseline.
Matched(c) == Cardinality(DOMAIN Aligned(c))
PoorlyAligned(c) == c.a = <<>> \/ 10 * Matched(c) < 8 * Len(c.a)
PartlyAligned(c) == Matched(c) < Len(c.a)

-----------------------------------------------------------------------------
(* run_health and business_health.                                         *)

\* compute_health: more than 30% of the requests were refused as 401 or 403.
AuthFailed(run) == {i \in DOMAIN run : run[i].code \in {401, 403}}
Blocked(run) == 10 * Cardinality(AuthFailed(run)) > 3 * (IF run = <<>> THEN 1 ELSE Len(run))

\* apply_alignment_health adds its blocker to the comparison.
Blockers(c) == Blocked(c.a) \/ (c.two /\ (Blocked(c.b) \/ PoorlyAligned(c)))

Failed(run) == {i \in DOMAIN run : run[i].failed}
Signalled(run) == {i \in DOMAIN run : Present(run[i]) /\ (run[i].flag \/ run[i].size = 0)}

\* The request's inputs, without cookies and runtime headers.
Inputs(e) ==
    {<<Where(e.request[k]), LastAt(e.request, Where(e.request[k])).value, e.request[k].wrap>> :
        k \in {k \in DOMAIN e.request : ~(e.request[k].loc = "cookie"
                                           \/ (e.request[k].loc = "header" /\ e.request[k].name \in Unsent))}}

\* detect_scenario_inconsistencies: one run empty, the other not, for the same inputs.
Inconsistent(c) ==
    \E i \in DOMAIN Aligned(c) :
        LET e == c.a[i]  f == c.b[Aligned(c)[i]]
        IN  /\ Present(e) /\ Present(f) /\ e.size >= 0 /\ f.size >= 0
            /\ (e.size = 0) # (f.size = 0)
            /\ Inputs(e) = Inputs(f)

\* compute_readiness, with the number of values classification wants reviewed.
Readiness(c, review) ==
    IF Blockers(c) THEN "not_ready"
    ELSE IF \/ ~c.two \/ PartlyAligned(c) \/ Inconsistent(c)
            \/ review > 0
            \/ Failed(c.a) # {} \/ Failed(c.b) # {}
            \/ Signalled(c.a) # {} \/ Signalled(c.b) # {}
         THEN "ready_with_review" ELSE "ready"
=============================================================================
