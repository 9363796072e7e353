------------------------- MODULE MCAnalysisSession -------------------------
(* An instance of AnalysisSession for TLC: a user's id and an account's id, *)
(* each found in a response of its own and reused later.                    *)
EXTENDS AnalysisSession, TLC

CONSTANTS s1, s2, k1, k2, k3, b1, b2

\* In this run the two sources hold one value, in the other run they do not.
MCValueOf == (s1 :> 1) @@ (s2 :> 1)

Seen(source, sinks, base, high) ==
    [source |-> source, sinks |-> sinks, base |-> <<base, <<>>>>, high |-> high]

\* Both runs together tell the consumers of the two sources apart, so that after
\* auto-correlation the second candidate is refused.
MCCandidates == <<Seen(s1, {k1}, b1, TRUE), Seen(s2, {k2, k3}, b2, TRUE)>>

\* Auto-correlation looks at one run, gives both consumers to the first source,
\* and finds a placeholder with the second one's field name.
MCProposals == <<Seen(s1, {k1, k2}, b1, FALSE), Seen(s2, {k3}, b2, FALSE)>>

\* A rule by hand for one consumer of the second source, plain or under the
\* expert override, named as the first source.
MCBodies ==
    {[source |-> s2, sinks |-> {k2}, name |-> <<b1, <<>>>>, override |-> FALSE],
     [source |-> s2, sinks |-> {k3}, name |-> <<b1, <<>>>>, override |-> TRUE]}

Nothing == [sinks |-> Keep, name |-> Keep, enabled |-> Keep, override |-> Keep]

MCPatches ==
    {[Nothing EXCEPT !.enabled = e] : e \in BOOLEAN}
    \cup {[Nothing EXCEPT !.name = <<b1, <<2>>>>], [Nothing EXCEPT !.override = FALSE]}

ManifestSymmetry == Permutations(Manifests)
=============================================================================
