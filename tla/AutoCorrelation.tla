-------------------------- MODULE AutoCorrelation --------------------------
(***************************************************************************)
(* auto_correlate: one pass over the requests of a run that wires each     *)
(* reused value to the first response that supplied it, and a placeholder  *)
(* to the one earlier field of its name.                                   *)
(*                                                                         *)
(* A proposal is [exec, src, uses, inferred].  Rows of a response are rows *)
(* of one array.  Responses here have no infrastructure headers (Date,     *)
(* Server), which the pass skips, but another header follows every one     *)
(* that is modelled: rule_validator cannot resolve the last one.  Fields   *)
(* have the names of requests' once case and separators are removed.       *)
(***************************************************************************)
EXTENDS Correlation

CONSTANT Generic        \* field names of fewer than four letters

\* is_correlation_target: headers the plan does not send are no targets.
IsTarget(sink) == ~(sink.loc = "header" /\ sink.name \in Unsent)

\* Segments of a path have a number for a name.
SameName(src, sink) == sink.loc # "path" /\ src.name = sink.name /\ src.name \notin Generic

Qualifies(src, sink) ==
    /\ Matches(src.value, sink)
    /\ src.value \in Small => (SameName(src, sink) /\ src.name \in IdNames) \/ OwnPath(src, sink)

Targets(run, i) == {u \in {<<i, k>> : k \in DOMAIN run[i].request} : IsTarget(Sink(run, u))}

\* Available sources of a run are places <<execution, position>>, in that order.
NotAfter(s, t) == s[1] < t[1] \/ (s[1] = t[1] /\ s[2] <= t[2])
Fits(run, sources, u) == {s \in sources : Qualifies(Source(run, s), Sink(run, u))}
Concrete(run, i, sources) == {u \in Targets(run, i) : Fits(run, sources, u) # {}}
FirstFit(run, sources, u) == CHOOSE s \in Fits(run, sources, u) : \A t \in Fits(run, sources, u) : NotAfter(s, t)

\* Rows that concrete values of this request select.
SelectedBy(run, i, sources) ==
    {<<s[1], Source(run, s).row>> :
        s \in {s \in {FirstFit(run, sources, u) : u \in Concrete(run, i, sources)} :
                  Source(run, s).loc = "json" /\ Source(run, s).row > 0}}

Pending(run, i, sources) ==
    {u \in Targets(run, i) \ Concrete(run, i, sources) :
        Sink(run, u).value \in Placeholder /\ Sink(run, u).wrap = ""}

-----------------------------------------------------------------------------
(* A placeholder is resolved by name: the rows of an array count only when *)
(* one row of it was selected, and all that is left must hold one value.   *)

Namesakes(run, sources, u) == {s \in sources : SameName(Source(run, s), Sink(run, u))}
InRow(run, s) == Source(run, s).loc = "json" /\ Source(run, s).row > 0
RowsOf(run, sources, u, i) == {s \in Namesakes(run, sources, u) : s[1] = i /\ InRow(run, s)}

Narrowed(run, sources, selected, u, i) ==
    LET rows == RowsOf(run, sources, u, i)
        chosen == {r \in selected : r[1] = i}
    IN  IF Cardinality(rows) < 2 THEN rows
        ELSE IF Cardinality(chosen) # 1 THEN {}
        ELSE {s \in rows : <<i, Source(run, s).row>> \in chosen}

Fields(run, sources, selected, u) ==
    {s \in Namesakes(run, sources, u) : ~InRow(run, s)}
        \cup UNION {Narrowed(run, sources, selected, u, i) : i \in DOMAIN run}

Resolvable(run, sources, selected, u) ==
    /\ \A i \in DOMAIN run : RowsOf(run, sources, u, i) # {}
                                => Cardinality(Narrowed(run, sources, selected, u, i)) = 1
    /\ Cardinality({Source(run, s).value : s \in Fields(run, sources, selected, u)}) = 1

Earliest(run, sources, selected, u) ==
    CHOOSE s \in Fields(run, sources, selected, u) :
        \A t \in Fields(run, sources, selected, u) : s[1] <= t[1]

-----------------------------------------------------------------------------
(* The wiring of one request, and what its response makes available.       *)

Wired(run, i, sources, selected) ==
    {<<FirstFit(run, sources, u), u, FALSE>> : u \in Concrete(run, i, sources)}
    \cup {<<Earliest(run, sources, selected, u), u, TRUE>> :
            u \in {u \in Pending(run, i, sources) : Resolvable(run, sources, selected, u)}}

\* Values that occur once in a response that is no error, and stand for nothing else.
Once(run, s) ==
    Cardinality({m \in DOMAIN run[s[1]].response : run[s[1]].response[m].value = Source(run, s).value}) = 1

\* Fault: header values are not offered.
Offers_Bodies(run, s) ==
    /\ Structured(Source(run, s)) /\ Source(run, s).value \notin Placeholder
    /\ Once(run, s)

Offers(run, s) ==
    /\ Source(run, s).loc # "cookie" /\ Source(run, s).value \notin Placeholder
    /\ Once(run, s)

Offered(run, i) ==
    {s \in {<<i, k>> : k \in DOMAIN run[i].response} : Usable(run[i]) /\ Offers(run, s)}

\* The proposals: one for each source, over all that was wired to it.
SourceKey(run, w) == <<w[1][1], Source(run, w[1])>>
Proposals(run, wired) ==
    {[exec |-> key[1], src |-> key[2],
      uses |-> {w[2] : w \in {w \in wired : SourceKey(run, w) = key}},
      inferred |-> {w[2] : w \in {w \in wired : SourceKey(run, w) = key /\ w[3]}}] :
        key \in {SourceKey(run, w) : w \in wired}}
=============================================================================
