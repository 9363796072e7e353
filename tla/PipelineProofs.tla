--------------------------- MODULE PipelineProofs ---------------------------
(***************************************************************************)
(* For every set of uploads: the alignment of two runs pairs requests one  *)
(* to one; removing echoes loses no consumer; the enabled rules, which the *)
(* dependency graph draws, share none and lead forward; auto-correlation   *)
(* covers the candidates; a plan replays the capture and loses nothing but *)
(* queries of requests with a body; a validated one had every variable;    *)
(* and what the scores of one and of two runs can add up to.               *)
(*                                                                         *)
(* The invariants, each on those before it: SessionInv (the candidates are *)
(* those detected), WiringInv and RulesInv (a use has one rule), PassInv   *)
(* (what the pass has available and wired so far), UsesInv (the uses of a  *)
(* rule are later requests that send its value), PlanInv (the plan and the *)
(* report are of the present rules).                                       *)
(***************************************************************************)
EXTENDS Pipeline, FiniteSetTheorems, WellFoundedInduction, TLAPS

\* A set of natural numbers that is not empty has a least one.
LEMMA LeastNumber ==
    ASSUME NEW T \in SUBSET Nat, T # {}
    PROVE  \E x \in T : \A y \in T : x <= y
<1>1. PICK x \in T : \A y \in T : ~(<<y, x>> \in OpToRel(<, Nat))
    BY NatLessThanWellFounded, WFMin
<1>2. ASSUME NEW y \in T PROVE x <= y
    <2>1. ~(y < x)
        BY <1>1, x \in Nat, y \in Nat DEF OpToRel
    <2> QED
        BY <2>1, x \in Nat, y \in Nat
<1> QED
    BY <1>2

-----------------------------------------------------------------------------
(* Alignment *)

\* Of two requests with one signature the later has the greater number.
LEMMA OrdinalGrows ==
    ASSUME NEW run, Indexed(run), NEW i \in DOMAIN run, NEW j \in DOMAIN run,
           i < j, run[i].sig = run[j].sig
    PROVE  Ordinal(run, i) # Ordinal(run, j)
<1> DEFINE Earlier(n) == {k \in 1..(n - 1) : run[k].sig = run[n].sig}
<1>1. i \in Nat /\ j \in Nat /\ i \in 1..(j - 1)
    BY DEF Indexed
<1>2. IsFiniteSet(1..(j - 1))
    BY <1>1, FS_Interval
<1>3. Earlier(j) \in SUBSET (1..(j - 1))
    OBVIOUS
<1>4. IsFiniteSet(Earlier(j))
    BY <1>2, <1>3, FS_Subset
<1>5. Earlier(i) \in SUBSET Earlier(j)
    BY <1>1
<1>6. i \in Earlier(j) /\ i \notin Earlier(i)
    BY <1>1
<1>7. Cardinality(Earlier(j)) # Cardinality(Earlier(i))
    <2> HIDE DEF Earlier
    <2> QED
        BY <1>4, <1>5, <1>6, FS_Subset
<1> QED
    BY <1>7 DEF Ordinal

\* No two requests of a run have the same numbered signature.
LEMMA SignatureIdentifies ==
    ASSUME NEW run, Indexed(run), NEW i \in DOMAIN run, NEW j \in DOMAIN run,
           Signature(run, i) = Signature(run, j)
    PROVE  i = j
<1>1. i \in Nat /\ j \in Nat
    BY DEF Indexed
<1>2. run[i].sig = run[j].sig /\ Ordinal(run, i) = Ordinal(run, j)
    BY DEF Signature
<1>3. ~(i < j) /\ ~(j < i)
    BY <1>2, OrdinalGrows
<1> QED
    BY <1>1, <1>3

\* A request is aligned with the request of its signature, if there is one.
LEMMA AlignedBySignature ==
    ASSUME NEW run, NEW other, Indexed(other)
    PROVE  /\ DOMAIN Alignment(run, other) =
                {i \in DOMAIN run : \E j \in DOMAIN other : Signature(other, j) = Signature(run, i)}
           /\ \A i \in DOMAIN Alignment(run, other) :
                /\ Alignment(run, other)[i] \in DOMAIN other
                /\ Signature(other, Alignment(run, other)[i]) = Signature(run, i)
<1>1. DOMAIN Alignment(run, other) = {i \in DOMAIN run : Partners(run, other, i) # {}}
    BY DEF Alignment
<1>2. ASSUME NEW i \in DOMAIN Alignment(run, other)
      PROVE  Alignment(run, other)[i] \in Partners(run, other, i)
    <2>1. PICK j \in Partners(run, other, i) : TRUE
        BY <1>1, <1>2
    <2>2. \A k \in Partners(run, other, i) : k = j
        BY <2>1, SignatureIdentifies DEF Partners
    <2>3. j \in Nat
        BY <2>1 DEF Partners, Indexed
    <2>4. \E m \in Partners(run, other, i) : \A k \in Partners(run, other, i) : k <= m
        BY <2>1, <2>2, <2>3
    <2>5. Alignment(run, other)[i] =
              CHOOSE m \in Partners(run, other, i) : \A k \in Partners(run, other, i) : k <= m
        BY <1>1, <1>2 DEF Alignment
    <2> QED
        BY <2>4, <2>5
<1> QED
    BY <1>1, <1>2 DEF Partners

\* Two runs are aligned with each other as each is with the other one.
LEMMA AlignmentInverts ==
    ASSUME NEW a, NEW b, Indexed(a), Indexed(b)
    PROVE  /\ DOMAIN Alignment(b, a) = {Alignment(a, b)[i] : i \in DOMAIN Alignment(a, b)}
           /\ \A i \in DOMAIN Alignment(a, b) : Alignment(b, a)[Alignment(a, b)[i]] = i
<1> DEFINE there == Alignment(a, b)
           back == Alignment(b, a)
<1>1. /\ DOMAIN there = {i \in DOMAIN a : \E j \in DOMAIN b : Signature(b, j) = Signature(a, i)}
      /\ \A i \in DOMAIN there : there[i] \in DOMAIN b /\ Signature(b, there[i]) = Signature(a, i)
    BY AlignedBySignature
<1>2. /\ DOMAIN back = {j \in DOMAIN b : \E i \in DOMAIN a : Signature(a, i) = Signature(b, j)}
      /\ \A j \in DOMAIN back : back[j] \in DOMAIN a /\ Signature(a, back[j]) = Signature(b, j)
    BY AlignedBySignature
<1> HIDE DEF there, back
<1>3. ASSUME NEW i \in DOMAIN there
      PROVE  there[i] \in DOMAIN back /\ back[there[i]] = i
    <2>1. there[i] \in DOMAIN back
        BY <1>1, <1>2, <1>3
    <2>2. back[there[i]] \in DOMAIN a /\ Signature(a, back[there[i]]) = Signature(a, i)
        BY <1>1, <1>2, <1>3, <2>1
    <2> QED
        BY <1>1, <1>3, <2>1, <2>2, SignatureIdentifies
<1>4. ASSUME NEW j \in DOMAIN back
      PROVE  \E i \in DOMAIN there : there[i] = j
    <2>1. back[j] \in DOMAIN there
        BY <1>1, <1>2, <1>4
    <2>2. Signature(b, there[back[j]]) = Signature(b, j) /\ there[back[j]] \in DOMAIN b
        BY <1>1, <1>2, <1>4, <2>1
    <2>3. there[back[j]] = j
        BY <1>2, <1>4, <2>2, SignatureIdentifies
    <2> QED
        BY <2>1, <2>3
<1>5. DOMAIN back = {there[i] : i \in DOMAIN there}
    BY <1>3, <1>4
<1> QED
    BY <1>3, <1>5 DEF there, back

-----------------------------------------------------------------------------
(* Echoes *)

\* A use of a candidate that is left out as an echo is a use of one that stays
\* and has the same value: the first response that had it.
LEMMA EchoesLoseNothing ==
    ASSUME NEW found, \A x \in found : x.exec \in Nat,
           NEW x \in found, NEW u \in x.uses
    PROVE  \E y \in Kept(found) : y.src.value = x.src.value /\ u \in y.uses
<1> DEFINE Same == {y \in found : y.src.value = x.src.value /\ u \in y.uses}
           Times == {y.exec : y \in Same}
<1>1. Times \in SUBSET Nat /\ Times # {}
    OBVIOUS
<1>2. PICK n \in Times : \A m \in Times : n <= m
    <2> HIDE DEF Times
    <2> QED
        BY <1>1, LeastNumber
<1>3. PICK y \in Same : y.exec = n
    OBVIOUS
<1>4. ASSUME NEW z \in found, Echoes(y, z) PROVE FALSE
    <2>1. z.exec < y.exec /\ z \in Same
        BY <1>3, <1>4 DEF Echoes
    <2>2. n <= z.exec
        BY <1>2, <2>1
    <2> QED
        BY <1>1, <1>3, <2>1, <2>2
<1> QED
    BY <1>3, <1>4 DEF Kept

-----------------------------------------------------------------------------
(* The session *)

\* What an analysis keeps is what was detected in its uploads, without echoes.
SessionInv ==
    /\ capture \in Capture
    /\ IF stage = "uploaded" THEN kept = {} ELSE kept = Kept(Detected(capture))

\* Candidates are made once, when the reports are analysed.
LEMMA KeepsDetected == Spec => []SessionInv
<1>1. Init => SessionInv
    BY DEF Init, SessionInv
<1>2. SessionInv /\ [Next]_vars => SessionInv'
    <2> SUFFICES ASSUME SessionInv, [Next]_vars PROVE SessionInv'
        OBVIOUS
    <2>1. CASE Analyze
        BY <2>1 DEF Analyze, SessionInv
    <2>2. CASE \E x \in Candidates : Accept(x)
        BY <2>2 DEF Accept, session, SessionInv
    <2>3. CASE StartAuto \/ WireRequest \/ EndAuto
        BY <2>3 DEF StartAuto, WireRequest, EndAuto, session, SessionInv
    <2>4. CASE Generate \/ Validate
        BY <2>4 DEF Generate, Validate, session, SessionInv
    <2>5. CASE UNCHANGED vars
        BY <2>5 DEF vars, session, SessionInv
    <2> QED
        BY <2>1, <2>2, <2>3, <2>4, <2>5 DEF Next
<1> QED
    BY <1>1, <1>2, PTL DEF Spec

\* The alignment of any two uploads is the inverse of the alignment the other
\* way round.
THEOREM AlignmentAlwaysSymmetric == Spec => []AlignmentIsSymmetric
<1>1. SessionInv => AlignmentIsSymmetric
    <2> SUFFICES ASSUME SessionInv, capture.two PROVE AlignmentIsSymmetric
        BY DEF AlignmentIsSymmetric
    <2>1. Indexed(capture.a) /\ Indexed(capture.b)
        BY CaptureAssumption DEF SessionInv
    <2>2. Aligned(capture) = Alignment(capture.a, capture.b)
        BY DEF Aligned
    <2>3. /\ DOMAIN Alignment(capture.b, capture.a) =
                {Alignment(capture.a, capture.b)[i] : i \in DOMAIN Alignment(capture.a, capture.b)}
          /\ \A i \in DOMAIN Alignment(capture.a, capture.b) :
                Alignment(capture.b, capture.a)[Alignment(capture.a, capture.b)[i]] = i
        BY <2>1, AlignmentInverts
    <2> QED
        BY <2>2, <2>3 DEF AlignmentIsSymmetric
<1> QED
    BY <1>1, KeepsDetected, PTL

\* In any upload the removal of echoes leaves every use of every value with a
\* candidate of that value.
THEOREM NoConsumerEverLost == Spec => []NoConsumerIsLost
<1>1. SessionInv => NoConsumerIsLost
    <2> SUFFICES ASSUME SessionInv, stage # "uploaded",
                        NEW x \in Detected(capture), NEW u \in x.uses
                 PROVE  \E y \in kept : y.src.value = x.src.value /\ u \in y.uses
        BY DEF NoConsumerIsLost
    <2>1. ASSUME NEW y \in Detected(capture) PROVE y.exec \in Nat
        <3>1. PICK s \in Sources(capture.a) : y = Candidate(capture, s)
            BY <2>1 DEF Detected
        <3>2. s[1] \in DOMAIN capture.a
            BY <3>1 DEF Sources
        <3> QED
            BY <3>1, <3>2, CaptureAssumption DEF Candidate, SessionInv, Indexed
    <2> QED
        BY <2>1, EchoesLoseNothing DEF SessionInv
<1> QED
    BY <1>1, KeepsDetected, PTL

-----------------------------------------------------------------------------
(* The rules *)

IsRule(r) == r = [exec |-> r.exec, src |-> r.src, uses |-> r.uses, inferred |-> r.inferred]

\* The pass has wired each use once, and none of the requests to come.
WiringInv ==
    /\ next \in Nat
    /\ \A w \in wired : w[2][1] \in Nat /\ w[2][1] < next
    /\ \A v, w \in wired : v[2] = w[2] => v = w

\* A source has one enabled rule, and a use one at most.
RulesInv ==
    /\ \A r \in rules : IsRule(r)
    /\ \A q, r \in rules : SameSource(q, r) => q = r
    /\ \A q, r \in rules : q.uses \cap r.uses # {} => q = r

\* One request's wiring: every use is the request's own, and has one source.
LEMMA WiredOnce ==
    ASSUME NEW run, NEW i, NEW available, NEW chosen,
           NEW w \in Wired(run, i, available, chosen)
    PROVE  /\ w[2][1] = i
           /\ \A v \in Wired(run, i, available, chosen) : v[2] = w[2] => v = w
<1> DEFINE Taken == Concrete(run, i, available)
           Left == {u \in Pending(run, i, available) : Resolvable(run, available, chosen, u)}
           First(u) == FirstFit(run, available, u)
           Named(u) == Earliest(run, available, chosen, u)
<1>1. \A u \in Taken \cup Left : u[1] = i
    <2>1. \A u \in Targets(run, i) : u[1] = i
        BY DEF Targets
    <2>2. Taken \subseteq Targets(run, i) /\ Left \subseteq Targets(run, i)
        BY DEF Concrete, Pending
    <2> HIDE DEF Taken, Left
    <2> QED
        BY <2>1, <2>2
<1>2. Taken \cap Left = {}
    BY DEF Pending
<1>3. Wired(run, i, available, chosen) =
          {<<First(u), u, FALSE>> : u \in Taken} \cup {<<Named(u), u, TRUE>> : u \in Left}
    BY DEF Wired
<1> HIDE DEF Taken, Left, First, Named
<1>4. ASSUME NEW v \in Wired(run, i, available, chosen)
      PROVE  \/ v[2] \in Taken /\ v = <<First(v[2]), v[2], FALSE>>
             \/ v[2] \in Left /\ v = <<Named(v[2]), v[2], TRUE>>
    <2>1. CASE \E u \in Taken : v = <<First(u), u, FALSE>>
        BY <2>1
    <2>2. CASE \E u \in Left : v = <<Named(u), u, TRUE>>
        BY <2>2
    <2> QED
        BY <1>3, <1>4, <2>1, <2>2
<1>5. ASSUME NEW v \in Wired(run, i, available, chosen), v[2] = w[2]
      PROVE  v = w
    <2>1. CASE w[2] \in Taken
        BY <1>2, <1>4, <1>5, <2>1
    <2>2. CASE w[2] \in Left
        BY <1>2, <1>4, <1>5, <2>2
    <2> QED
        BY <1>4, <2>1, <2>2
<1> QED
    BY <1>1, <1>4, <1>5

\* What auto-correlation adds: rules of different sources that share no use
\* with each other or with the rules there are.
LEMMA AdditionsAreNew ==
    ASSUME WiringInv
    PROVE  /\ \A p \in Additions : IsRule(p)
           /\ \A p \in Additions, r \in rules : p.uses \cap r.uses = {}
           /\ \A o, p \in Additions : SameSource(o, p) => o = p
           /\ \A o, p \in Additions : o.uses \cap p.uses # {} => o = p
<1> DEFINE Taken == UNION {r.uses : r \in rules}
           Key(w) == SourceKey(capture.a, w)
           All(key) == {w[2] : w \in {w \in wired : Key(w) = key}}
           Inferred(key) == {w[2] : w \in {w \in wired : Key(w) = key /\ w[3]}}
           New(key) == [exec |-> key[1], src |-> key[2],
                        uses |-> All(key) \ Taken, inferred |-> Inferred(key)]
<1>1. ASSUME NEW p \in Additions
      PROVE  \E w \in wired : p = New(Key(w))
    <2>1. PICK q \in Proposals(capture.a, wired) : p = Fresh(q)
        BY <1>1 DEF Additions
    <2>2. PICK w \in wired : q = [exec |-> Key(w)[1], src |-> Key(w)[2],
                                  uses |-> All(Key(w)), inferred |-> Inferred(Key(w))]
        BY <2>1 DEF Proposals
    <2>3. Fresh(q) = New(Key(w))
        <3> HIDE DEF Key, All, Inferred
        <3> QED
            BY <2>2 DEF Fresh
    <2> QED
        BY <2>1, <2>3
<1>2. \A w \in wired : Key(w) = <<Key(w)[1], Key(w)[2]>>
    BY DEF SourceKey
<1>3. ASSUME NEW w \in wired, NEW v \in wired, All(Key(w)) \cap All(Key(v)) # {}
      PROVE  Key(w) = Key(v)
    <2>1. PICK u : u \in All(Key(w)) /\ u \in All(Key(v))
        BY <1>3
    <2>2. PICK s \in wired : Key(s) = Key(w) /\ s[2] = u
        BY <2>1
    <2>3. PICK t \in wired : Key(t) = Key(v) /\ t[2] = u
        BY <2>1
    <2>4. s = t
        BY <2>2, <2>3 DEF WiringInv
    <2> QED
        BY <2>2, <2>3, <2>4
<1> HIDE DEF Key, All, Inferred
<1>4. \A p \in Additions : IsRule(p)
    BY <1>1 DEF IsRule
<1>5. \A p \in Additions, r \in rules : p.uses \cap r.uses = {}
    BY <1>1
<1>6. ASSUME NEW o \in Additions, NEW p \in Additions, SameSource(o, p)
      PROVE  o = p
    <2>1. PICK w \in wired : o = New(Key(w))
        BY <1>1
    <2>2. PICK v \in wired : p = New(Key(v))
        BY <1>1
    <2>3. Key(w)[1] = Key(v)[1] /\ Key(w)[2] = Key(v)[2]
        BY <1>6, <2>1, <2>2 DEF SameSource
    <2>4. Key(w) = Key(v)
        BY <1>2, <2>3
    <2> QED
        BY <2>1, <2>2, <2>4
<1>7. ASSUME NEW o \in Additions, NEW p \in Additions, o.uses \cap p.uses # {}
      PROVE  o = p
    <2>1. PICK w \in wired : o = New(Key(w))
        BY <1>1
    <2>2. PICK v \in wired : p = New(Key(v))
        BY <1>1
    <2>3. All(Key(w)) \cap All(Key(v)) # {}
        BY <1>7, <2>1, <2>2
    <2>4. Key(w) = Key(v)
        BY <1>3, <2>3
    <2> QED
        BY <2>1, <2>2, <2>4
<1> QED
    BY <1>4, <1>5, <1>6, <1>7

\* Accepting a candidate extends the rule of its source, or adds one.
LEMMA AcceptKeepsRules ==
    ASSUME RulesInv, NEW x \in Candidates, Accept(x)
    PROVE  RulesInv'
<1> DEFINE n == RuleOf(x)
           J(r) == IF SameSource(x, r) THEN Joined(n, r) ELSE r
<1>1. /\ n = [exec |-> x.exec, src |-> x.src, uses |-> x.uses, inferred |-> {}]
      /\ IsRule(n)
    BY DEF RuleOf, IsRule
<1>2. \A r \in rules : ~SameSource(x, r) => x.uses \cap r.uses = {}
    BY DEF Accept, Clashes
<1>3. CASE \E r \in rules : SameSource(x, r)
    <2>1. rules' = {J(r) : r \in rules}
        BY <1>3 DEF Accept
    <2>2. ASSUME NEW r \in rules
          PROVE  /\ IsRule(J(r)) /\ J(r).exec = r.exec /\ J(r).src = r.src
                 /\ J(r).uses = IF SameSource(x, r) THEN r.uses \cup x.uses ELSE r.uses
        <3>1. CASE SameSource(x, r)
            <4>1. J(r) = [exec |-> r.exec, src |-> r.src,
                          uses |-> r.uses \cup n.uses, inferred |-> r.inferred \cup n.inferred]
                BY <3>1 DEF Joined
            <4>2. n.uses = x.uses
                BY <1>1
            <4> HIDE DEF J, n
            <4> QED
                BY <3>1, <4>1, <4>2 DEF IsRule
        <3>2. CASE ~SameSource(x, r)
            BY <3>2 DEF RulesInv
        <3> QED
            BY <3>1, <3>2
    <2> HIDE DEF J
    <2>3. ASSUME NEW q \in rules, NEW r \in rules, SameSource(J(q), J(r))
          PROVE  q = r
        <3>1. q.exec = r.exec /\ q.src = r.src
            BY <2>2, <2>3 DEF SameSource
        <3> QED
            BY <3>1 DEF RulesInv, SameSource
    <2>4. ASSUME NEW q \in rules, NEW r \in rules, J(q).uses \cap J(r).uses # {}
          PROVE  q = r
        <3>1. SameSource(x, q) /\ SameSource(x, r) => q = r
            BY DEF RulesInv, SameSource
        <3> QED
            BY <1>2, <2>2, <2>4, <3>1 DEF RulesInv
    <2>5. \A r \in rules' : IsRule(r)
        BY <2>1, <2>2
    <2>6. \A q, r \in rules' : SameSource(q, r) => q = r
        BY <2>1, <2>3
    <2>7. \A q, r \in rules' : q.uses \cap r.uses # {} => q = r
        BY <2>1, <2>4
    <2> QED
        BY <2>5, <2>6, <2>7 DEF RulesInv, SameSource
<1>4. CASE ~\E r \in rules : SameSource(x, r)
    <2>1. rules' = rules \cup {n}
        BY <1>4 DEF Accept
    <2>2. \A r \in rules : ~SameSource(n, r) /\ ~SameSource(r, n) /\ n.uses \cap r.uses = {}
        BY <1>1, <1>2, <1>4 DEF SameSource
    <2> HIDE DEF n
    <2>3. \A r \in rules' : IsRule(r)
        BY <1>1, <2>1 DEF RulesInv
    <2>4. \A q, r \in rules' : SameSource(q, r) => q = r
        BY <2>1, <2>2 DEF RulesInv
    <2>5. \A q, r \in rules' : q.uses \cap r.uses # {} => q = r
        BY <2>1, <2>2 DEF RulesInv
    <2> QED
        BY <2>3, <2>4, <2>5 DEF RulesInv, SameSource
<1> QED
    BY <1>3, <1>4

\* Auto-correlation extends rules and adds others.
LEMMA EndAutoKeepsRules ==
    ASSUME RulesInv, WiringInv, EndAuto
    PROVE  RulesInv'
<1> DEFINE Has(r) == \E p \in Additions : SameSource(p, r)
           For(r) == CHOOSE p \in Additions : SameSource(p, r)
           J(r) == IF Has(r) THEN Joined(For(r), r) ELSE r
           Others == {p \in Additions : ~\E r \in rules : SameSource(p, r)}
<1>1. rules' = {J(r) : r \in rules} \cup Others
    BY DEF EndAuto
<1>2. ASSUME NEW r \in rules, Has(r)
      PROVE  For(r) \in Additions /\ SameSource(For(r), r)
    BY <1>2
<1>3. ASSUME NEW r \in rules
      PROVE  /\ IsRule(J(r)) /\ J(r).exec = r.exec /\ J(r).src = r.src
             /\ Has(r) => J(r).uses = r.uses \cup For(r).uses
             /\ ~Has(r) => J(r).uses = r.uses
    <2>1. CASE Has(r)
        <3> HIDE DEF For, Has
        <3>1. J(r) = [exec |-> r.exec, src |-> r.src,
                      uses |-> r.uses \cup For(r).uses, inferred |-> r.inferred \cup For(r).inferred]
            BY <2>1 DEF Joined
        <3> HIDE DEF J
        <3> QED
            BY <2>1, <3>1 DEF IsRule
    <2>2. CASE ~Has(r)
        BY <2>2 DEF RulesInv
    <2> QED
        BY <2>1, <2>2
<1>4. /\ \A p \in Additions : IsRule(p)
      /\ \A p \in Additions, r \in rules : p.uses \cap r.uses = {}
      /\ \A o, p \in Additions : SameSource(o, p) => o = p
      /\ \A o, p \in Additions : o.uses \cap p.uses # {} => o = p
    BY AdditionsAreNew
<1>5. Others \subseteq Additions /\ \A p \in Others, r \in rules : ~SameSource(p, r)
    OBVIOUS
<1> HIDE DEF J, For, Has, Others
<1>6. ASSUME NEW q \in rules, NEW r \in rules, SameSource(J(q), J(r))
      PROVE  q = r
    BY <1>3, <1>6 DEF RulesInv, SameSource
<1>7. ASSUME NEW q \in rules, NEW r \in rules, J(q).uses \cap J(r).uses # {}
      PROVE  q = r
    <2>1. ASSUME Has(q), Has(r), For(q).uses \cap For(r).uses # {} PROVE q = r
        <3>1. For(q) = For(r)
            BY <1>2, <1>4, <2>1
        <3>2. SameSource(q, r)
            BY <1>2, <2>1, <3>1 DEF SameSource
        <3> QED
            BY <3>2 DEF RulesInv
    <2>2. q.uses \cap r.uses # {} => q = r
        BY DEF RulesInv
    <2>3. /\ Has(q) => For(q).uses \cap r.uses = {}
          /\ Has(r) => For(r).uses \cap q.uses = {}
        BY <1>2, <1>4
    <2> QED
        BY <1>3, <1>7, <2>1, <2>2, <2>3
<1>8. ASSUME NEW p \in Others, NEW r \in rules
      PROVE  /\ ~SameSource(p, J(r)) /\ ~SameSource(J(r), p)
             /\ p.uses \cap J(r).uses = {}
    <2>1. ~SameSource(p, r)
        BY <1>5, <1>8
    <2>2. ASSUME Has(r), p.uses \cap For(r).uses # {} PROVE FALSE
        <3>1. p = For(r)
            BY <1>2, <1>4, <1>5, <2>2
        <3> QED
            BY <1>2, <2>1, <2>2, <3>1
    <2>3. p.uses \cap r.uses = {}
        BY <1>4, <1>5
    <2> QED
        BY <1>3, <2>1, <2>2, <2>3 DEF SameSource
<1>9. \A r \in rules' : IsRule(r)
    BY <1>1, <1>3, <1>4, <1>5
<1>10. \A q, r \in rules' : SameSource(q, r) => q = r
    BY <1>1, <1>4, <1>5, <1>6, <1>8
<1>11. \A q, r \in rules' : q.uses \cap r.uses # {} => q = r
    BY <1>1, <1>4, <1>5, <1>7, <1>8
<1> QED
    BY <1>9, <1>10, <1>11 DEF RulesInv, SameSource

\* Accepting candidates and auto-correlation, in any order, leave every use
\* with one enabled rule at most.
THEOREM RulesShareNothing == Spec => [](WiringInv /\ RulesInv)
<1>1. Init => WiringInv /\ RulesInv
    BY DEF Init, WiringInv, RulesInv
<1>2. WiringInv /\ RulesInv /\ [Next]_vars => (WiringInv /\ RulesInv)'
    <2> SUFFICES ASSUME WiringInv, RulesInv, [Next]_vars
                 PROVE  WiringInv' /\ RulesInv'
        OBVIOUS
    <2>1. rules' = rules => RulesInv'
        BY DEF RulesInv, SameSource
    <2>2. pass' = pass => WiringInv'
        BY DEF pass, WiringInv
    <2>3. CASE Analyze \/ StartAuto \/ Generate \/ Validate
        BY <2>1, <2>2, <2>3 DEF Analyze, StartAuto, Generate, Validate
    <2>4. ASSUME NEW x \in Candidates, Accept(x)
          PROVE  WiringInv' /\ RulesInv'
        BY <2>2, <2>4, AcceptKeepsRules DEF Accept
    <2>5. CASE WireRequest
        <3>1. rules' = rules /\ next' = next + 1
            BY <2>5 DEF WireRequest
        <3>2. wired' = wired \cup Wired(capture.a, next, sources, selected')
            BY <2>5 DEF WireRequest
        <3>3. \A w \in Wired(capture.a, next, sources, selected') :
                /\ w[2][1] = next
                /\ \A v \in Wired(capture.a, next, sources, selected') : v[2] = w[2] => v = w
            BY WiredOnce
        <3>4. \A w \in wired' : w[2][1] \in Nat /\ w[2][1] < next'
            BY <3>1, <3>2, <3>3 DEF WiringInv
        <3>5. \A v \in wired, w \in Wired(capture.a, next, sources, selected') : v[2] # w[2]
            BY <3>3 DEF WiringInv
        <3>6. \A v, w \in wired' : v[2] = w[2] => v = w
            BY <3>2, <3>3, <3>5 DEF WiringInv
        <3> QED
            BY <2>1, <3>1, <3>4, <3>6 DEF WiringInv
    <2>6. CASE EndAuto
        BY <2>2, <2>6, EndAutoKeepsRules DEF EndAuto
    <2>7. CASE UNCHANGED vars
        BY <2>1, <2>2, <2>7 DEF vars
    <2> QED
        BY <2>3, <2>4, <2>5, <2>6, <2>7 DEF Next
<1> QED
    BY <1>1, <1>2, PTL DEF Spec

\* Whatever was uploaded and accepted, the graph draws what an enabled rule
\* sends once, from that rule's source.
THEOREM EnabledAlwaysDrawnOnce == Spec => []EnabledConsumersDrawnOnce
<1>1. RulesInv => EnabledConsumersDrawnOnce
    <2> SUFFICES ASSUME RulesInv, NEW r \in rules, NEW u \in r.uses
                 PROVE  {e \in Graph : e[2] = u} = {<<r.exec, u, r.src>>}
        BY DEF EnabledConsumersDrawnOnce
    <2>1. <<r.exec, u, r.src>> \in Graph
        BY DEF Graph, Edges
    <2>2. ASSUME NEW e \in Graph, e[2] = u
          PROVE  e = <<r.exec, u, r.src>>
        <3>1. ASSUME NEW q \in rules, e \in Edges(q, q.uses)
              PROVE  e = <<r.exec, u, r.src>>
            <4>1. PICK v \in q.uses : e = <<q.exec, v, q.src>>
                BY <3>1 DEF Edges
            <4>2. q = r
                BY <2>2, <4>1 DEF RulesInv
            <4> QED
                BY <2>2, <4>1, <4>2
        <3>2. ASSUME NEW x \in Candidates, e \in Edges(x, Open(x))
              PROVE  FALSE
            BY <2>2, <3>2 DEF Edges, Open
        <3> QED
            BY <2>2, <3>1, <3>2 DEF Graph
    <2> QED
        BY <2>1, <2>2
<1> QED
    BY <1>1, RulesShareNothing, PTL

-----------------------------------------------------------------------------
(* The pass: its sources, and what it wires.                               *)

\* Places of a set that is not empty have a first one.
LEMMA FirstPlace ==
    ASSUME NEW T \in SUBSET (Nat \X Nat), T # {}
    PROVE  \E s \in T : \A t \in T : NotAfter(s, t)
<1> DEFINE Firsts == {t[1] : t \in T}
<1>1. Firsts \in SUBSET Nat /\ Firsts # {}
    OBVIOUS
<1>2. PICK i \in Firsts : \A j \in Firsts : i <= j
    <2> HIDE DEF Firsts
    <2> QED
        BY <1>1, LeastNumber
<1> DEFINE Seconds == {t[2] : t \in {t \in T : t[1] = i}}
<1>3. Seconds \in SUBSET Nat /\ Seconds # {}
    OBVIOUS
<1>4. PICK k \in Seconds : \A m \in Seconds : k <= m
    <2> HIDE DEF Seconds
    <2> QED
        BY <1>3, LeastNumber
<1>5. PICK s \in T : s[1] = i /\ s[2] = k
    OBVIOUS
<1>6. ASSUME NEW t \in T PROVE NotAfter(s, t)
    <2>1. i <= t[1] /\ (t[1] = i => k <= t[2])
        BY <1>2, <1>4
    <2>2. i \in Nat /\ t[1] \in Nat
        BY <1>1
    <2> QED
        BY <1>5, <2>1, <2>2 DEF NotAfter
<1> QED
    BY <1>6

\* The source of a concrete value is one that fits it.
LEMMA FirstFitFits ==
    ASSUME NEW run, NEW available \in SUBSET (Nat \X Nat), NEW u,
           Fits(run, available, u) # {}
    PROVE  FirstFit(run, available, u) \in Fits(run, available, u)
<1>1. Fits(run, available, u) \in SUBSET (Nat \X Nat)
    BY DEF Fits
<1>2. \E s \in Fits(run, available, u) : \A t \in Fits(run, available, u) : NotAfter(s, t)
    BY <1>1, FirstPlace
<1> QED
    BY <1>2 DEF FirstFit

\* The source of a placeholder is one of the fields it was resolved to.
LEMMA EarliestIsAvailable ==
    ASSUME NEW run, NEW available \in SUBSET (Nat \X Nat), NEW chosen, NEW u,
           Resolvable(run, available, chosen, u)
    PROVE  Earliest(run, available, chosen, u) \in available
<1> DEFINE F == Fields(run, available, chosen, u)
           Times == {s[1] : s \in F}
<1>1. F \subseteq available
    BY DEF Fields, Narrowed, RowsOf, Namesakes
<1>2. F # {}
    <2>1. Cardinality({Source(run, s).value : s \in F}) = 1
        BY DEF Resolvable
    <2>2. Cardinality({}) = 0
        BY FS_EmptySet
    <2> HIDE DEF F
    <2> QED
        BY <2>1, <2>2
<1> HIDE DEF F
<1>3. Times \in SUBSET Nat /\ Times # {}
    BY <1>1, <1>2
<1>4. PICK n \in Times : \A m \in Times : n <= m
    <2> HIDE DEF Times
    <2> QED
        BY <1>3, LeastNumber
<1>5. \E s \in F : \A t \in F : s[1] <= t[1]
    BY <1>4
<1>6. Earliest(run, available, chosen, u) \in F
    BY <1>5 DEF Earliest, F
<1> QED
    BY <1>1, <1>6

\* One request's wiring goes from available sources to targets of the request,
\* and a value that is not inferred is the one the source has.
LEMMA WiredFrom ==
    ASSUME NEW run, NEW i, NEW available \in SUBSET (Nat \X Nat), NEW chosen,
           NEW w \in Wired(run, i, available, chosen)
    PROVE  /\ w[1] \in available /\ w[2] \in Targets(run, i) /\ w[3] \in BOOLEAN
           /\ ~w[3] => Matches(Source(run, w[1]).value, Sink(run, w[2]))
<1>1. CASE \E u \in Concrete(run, i, available) : w = <<FirstFit(run, available, u), u, FALSE>>
    <2>1. PICK u \in Concrete(run, i, available) : w = <<FirstFit(run, available, u), u, FALSE>>
        BY <1>1
    <2>2. u \in Targets(run, i) /\ FirstFit(run, available, u) \in Fits(run, available, u)
        BY FirstFitFits DEF Concrete
    <2> QED
        BY <2>1, <2>2 DEF Fits, Qualifies
<1>2. CASE \E u \in Pending(run, i, available) :
              /\ Resolvable(run, available, chosen, u)
              /\ w = <<Earliest(run, available, chosen, u), u, TRUE>>
    <2>1. PICK u \in Pending(run, i, available) :
              /\ Resolvable(run, available, chosen, u)
              /\ w = <<Earliest(run, available, chosen, u), u, TRUE>>
        BY <1>2
    <2>2. u \in Targets(run, i) /\ Earliest(run, available, chosen, u) \in available
        BY <2>1, EarliestIsAvailable DEF Pending
    <2> QED
        BY <2>1, <2>2
<1> QED
    BY <1>1, <1>2 DEF Wired

\* Of a request's targets, those that something available fits are wired to it.
LEMMA ConcreteIsWired ==
    ASSUME NEW run, NEW i, NEW available, NEW chosen, NEW u \in Targets(run, i),
           NEW s \in available, Qualifies(Source(run, s), Sink(run, u))
    PROVE  \E w \in Wired(run, i, available, chosen) : w[2] = u /\ w[3] = FALSE
<1>1. u \in Concrete(run, i, available)
    BY DEF Concrete, Fits
<1>2. <<FirstFit(run, available, u), u, FALSE>> \in Wired(run, i, available, chosen)
    BY <1>1 DEF Wired
<1> QED
    BY <1>2

\* What the pass has read and wired so far: everything its requests' responses
\* offer, every target that something earlier fits, and nothing else.
PassInv ==
    /\ next \in 1..(Len(capture.a) + 1)
    /\ stage = "correlated" => next > Len(capture.a)
    /\ sources = UNION {Offered(capture.a, i) : i \in 1..(next - 1)}
    /\ \A w \in wired :
        /\ w[1] \in sources /\ w[1][1] < w[2][1]
        /\ w[2] \in AllSinks(capture.a) /\ w[3] \in BOOLEAN
        /\ ~w[3] => Matches(Source(capture.a, w[1]).value, Sink(capture.a, w[2]))
    /\ \A i \in 1..(next - 1) : \A u \in Targets(capture.a, i) : \A s \in sources :
        s[1] < i /\ Qualifies(Source(capture.a, s), Sink(capture.a, u))
            => \E w \in wired : w[2] = u /\ w[3] = FALSE

\* Runs of an upload, and their messages, are sequences.
LEMMA Indices ==
    ASSUME SessionInv
    PROVE  /\ Len(capture.a) \in Nat /\ DOMAIN capture.a = 1..Len(capture.a)
           /\ \A i \in DOMAIN capture.a :
                /\ DOMAIN capture.a[i].request \subseteq Nat
                /\ DOMAIN capture.a[i].response \subseteq Nat
<1>1. Indexed(capture.a)
    BY CaptureAssumption DEF SessionInv
<1>2. ASSUME NEW i \in DOMAIN capture.a
      PROVE  Indexed(capture.a[i].request) /\ Indexed(capture.a[i].response)
    BY CaptureAssumption DEF SessionInv
<1> QED
    BY <1>1, <1>2 DEF Indexed

\* A response offers places of its own, in responses that are no errors.
LEMMA OfferedPlaces ==
    ASSUME SessionInv, NEW i \in DOMAIN capture.a, NEW s \in Offered(capture.a, i)
    PROVE  s[1] = i /\ s \in Nat \X Nat
<1>1. PICK k \in DOMAIN capture.a[i].response : s = <<i, k>>
    BY DEF Offered
<1> QED
    BY <1>1, Indices

\* Wiring the next request keeps the record of the pass complete.
LEMMA WireRequestKeepsPass ==
    ASSUME SessionInv, PassInv, WireRequest
    PROVE  PassInv'
<1> DEFINE run == capture.a
           new == Wired(run, next, sources, selected')
           more == Offered(run, next)
<1>1. /\ capture' = capture /\ stage' = "wiring" /\ next' = next + 1
      /\ wired' = wired \cup new /\ sources' = sources \cup more
      /\ next \in DOMAIN run /\ next \in Nat
    BY Indices DEF WireRequest, PassInv
<1>2. Len(run) \in Nat /\ next \in 1..Len(run)
    BY Indices DEF WireRequest, PassInv
<1>3. 1..(next' - 1) = (1..(next - 1)) \cup {next}
    BY <1>1, <1>2
<1>4. \A s \in sources : s \in Nat \X Nat /\ s[1] < next
    <2> SUFFICES ASSUME NEW s \in sources PROVE s \in Nat \X Nat /\ s[1] < next
        OBVIOUS
    <2>1. PICK i \in 1..(next - 1) : s \in Offered(run, i)
        BY DEF PassInv
    <2>2. i \in DOMAIN run /\ i < next
        BY <1>2, <2>1, Indices
    <2> QED
        BY <2>1, <2>2, OfferedPlaces
<1>5. \A s \in more : s[1] = next
    BY <1>1, OfferedPlaces
<1>6. sources' = UNION {Offered(run, i) : i \in 1..(next' - 1)}
    BY <1>1, <1>3 DEF PassInv
<1>7. ASSUME NEW w \in new
      PROVE  /\ w[1] \in sources' /\ w[1][1] < w[2][1]
             /\ w[2] \in AllSinks(run) /\ w[3] \in BOOLEAN
             /\ ~w[3] => Matches(Source(run, w[1]).value, Sink(run, w[2]))
    <2>1. /\ w[1] \in sources /\ w[2] \in Targets(run, next) /\ w[3] \in BOOLEAN
          /\ ~w[3] => Matches(Source(run, w[1]).value, Sink(run, w[2]))
        BY <1>4, <1>7, WiredFrom
    <2>2. w[2][1] = next /\ w[2] \in AllSinks(run)
        BY <1>1, <2>1 DEF Targets, AllSinks
    <2> QED
        BY <1>1, <1>4, <2>1, <2>2
<1>8. ASSUME NEW i \in 1..(next' - 1), NEW u \in Targets(run, i), NEW s \in sources',
             s[1] < i, Qualifies(Source(run, s), Sink(run, u))
      PROVE  \E w \in wired' : w[2] = u /\ w[3] = FALSE
    <2>1. s \in sources
        BY <1>1, <1>2, <1>5, <1>8
    <2>2. CASE i \in 1..(next - 1)
        BY <1>1, <1>8, <2>1, <2>2 DEF PassInv
    <2>3. CASE i = next
        BY <1>1, <1>8, <2>1, <2>3, ConcreteIsWired
    <2> QED
        BY <1>3, <1>8, <2>2, <2>3
<1>9. next' \in 1..(Len(run) + 1)
    BY <1>1, <1>2
<1> HIDE DEF new, more
<1>10. \A w \in wired' :
        /\ w[1] \in sources' /\ w[1][1] < w[2][1]
        /\ w[2] \in AllSinks(run) /\ w[3] \in BOOLEAN
        /\ ~w[3] => Matches(Source(run, w[1]).value, Sink(run, w[2]))
    BY <1>1, <1>7 DEF PassInv
<1>11. \A i \in 1..(next' - 1) : \A u \in Targets(run, i) : \A s \in sources' :
        s[1] < i /\ Qualifies(Source(run, s), Sink(run, u))
            => \E w \in wired' : w[2] = u /\ w[3] = FALSE
    BY <1>8
<1>12. /\ next' \in 1..(Len(capture'.a) + 1)
       /\ stage' = "correlated" => next' > Len(capture'.a)
    BY <1>1, <1>9
<1>13. sources' = UNION {Offered(capture'.a, i) : i \in 1..(next' - 1)}
    BY <1>1, <1>6
<1>14. \A w \in wired' :
        /\ w[1] \in sources' /\ w[1][1] < w[2][1]
        /\ w[2] \in AllSinks(capture'.a) /\ w[3] \in BOOLEAN
        /\ ~w[3] => Matches(Source(capture'.a, w[1]).value, Sink(capture'.a, w[2]))
    BY <1>1, <1>10
<1>15. \A i \in 1..(next' - 1) : \A u \in Targets(capture'.a, i) : \A s \in sources' :
        s[1] < i /\ Qualifies(Source(capture'.a, s), Sink(capture'.a, u))
            => \E w \in wired' : w[2] = u /\ w[3] = FALSE
    BY <1>1, <1>11
<1> QED
    BY <1>12, <1>13, <1>14, <1>15 DEF PassInv

\* Only the pass itself reads responses and wires requests.
LEMMA PassIsComplete == Spec => []PassInv
<1>1. Init => PassInv
    <2> SUFFICES ASSUME Init PROVE PassInv
        OBVIOUS
    <2>1. SessionInv
        BY DEF Init, SessionInv
    <2>2. Len(capture.a) \in Nat
        BY <2>1, Indices
    <2>3. next = 1 /\ 1..(next - 1) = {}
        BY DEF Init
    <2> QED
        BY <2>2, <2>3 DEF Init, PassInv
<1>2. SessionInv /\ PassInv /\ [Next]_vars => PassInv'
    <2> SUFFICES ASSUME SessionInv, PassInv, [Next]_vars PROVE PassInv'
        OBVIOUS
    <2>1. ASSUME capture' = capture, pass' = pass,
                 stage' = "correlated" => next > Len(capture.a)
          PROVE  PassInv'
        BY <2>1 DEF pass, PassInv
    <2>2. CASE Analyze
        BY <2>1, <2>2 DEF Analyze
    <2>3. ASSUME NEW x \in Candidates, Accept(x) PROVE PassInv'
        BY <2>1, <2>3 DEF Accept, PassInv
    <2>4. CASE StartAuto \/ EndAuto
        BY <2>1, <2>4 DEF StartAuto, EndAuto
    <2>5. CASE WireRequest
        BY <2>5, WireRequestKeepsPass
    <2>6. CASE Generate \/ Validate
        BY <2>1, <2>6 DEF Generate, Validate, PassInv
    <2>7. CASE UNCHANGED vars
        BY <2>1, <2>7 DEF vars, PassInv
    <2> QED
        BY <2>2, <2>3, <2>4, <2>5, <2>6, <2>7 DEF Next
<1> QED
    BY <1>1, <1>2, KeepsDetected, PTL DEF Spec

-----------------------------------------------------------------------------
(* What the uses of the rules are.                                         *)

\* A rule sends the value of its source to requests that come after it, unless
\* it was inferred from a name, which only auto-correlation does; and all that
\* auto-correlation wired has a rule.
UsesInv ==
    /\ \A r \in rules : \A u \in r.uses :
        /\ u \in AllSinks(capture.a) /\ r.exec < u[1]
        /\ u \in r.inferred \/ Matches(r.src.value, Sink(capture.a, u))
    /\ \A r \in rules : \A u \in r.inferred : \E w \in wired : w[2] = u /\ w[3]
    /\ stage = "correlated" => \A w \in wired : \E r \in rules : w[2] \in r.uses

\* A candidate's uses send its value, after the response it comes from.
LEMMA CandidatesUses ==
    ASSUME SessionInv, NEW x \in Candidates, stage # "uploaded"
    PROVE  \E s \in Sources(capture.a) :
                /\ x.exec = s[1] /\ x.src = Source(capture.a, s)
                /\ \A u \in x.uses :
                    /\ u \in AllSinks(capture.a) /\ x.exec < u[1]
                    /\ Matches(x.src.value, Sink(capture.a, u))
                    /\ x.src.value \in Small => OwnPath(x.src, Sink(capture.a, u))
<1>1. x \in Detected(capture)
    BY DEF Candidates, Correlations, SessionInv, Kept
<1>2. PICK s \in Sources(capture.a) : x = Candidate(capture, s)
    BY <1>1 DEF Detected
<1>3. /\ x.exec = s[1] /\ x.src = Source(capture.a, s)
      /\ x.uses = Proven(capture, s[1], Source(capture.a, s))
    BY <1>2 DEF Candidate
<1>4. x.uses \subseteq Claims(capture, s[1], x.src)
    BY <1>3 DEF Proven
<1>5. s[1] \in Nat
    BY Indices DEF Sources
<1>6. ASSUME NEW u \in x.uses
      PROVE  /\ u \in AllSinks(capture.a) /\ x.exec < u[1]
             /\ Matches(x.src.value, Sink(capture.a, u))
             /\ x.src.value \in Small => OwnPath(x.src, Sink(capture.a, u))
    <2>1. u \in Claims(capture, s[1], x.src)
        BY <1>4
    <2>2. u[1] \in Nat
        BY <2>1, Indices DEF Claims, AllSinks
    <2> QED
        BY <1>3, <1>5, <2>1, <2>2 DEF Claims
<1> QED
    BY <1>3, <1>6

\* What a proposal leaves for a rule was wired to the proposal's source, and is
\* inferred only where the wiring was.
LEMMA AdditionsUses ==
    ASSUME SessionInv, PassInv, WiringInv, NEW p \in Additions
    PROVE  /\ \A u \in p.uses :
                /\ u \in AllSinks(capture.a) /\ p.exec < u[1]
                /\ u \in p.inferred \/ Matches(p.src.value, Sink(capture.a, u))
           /\ \A u \in p.inferred : \E w \in wired : w[2] = u /\ w[3]
<1> DEFINE Key(w) == SourceKey(capture.a, w)
<1>1. PICK q \in Proposals(capture.a, wired) : p = Fresh(q)
    BY DEF Additions
<1>2. PICK v \in wired :
        q = [exec |-> Key(v)[1], src |-> Key(v)[2],
             uses |-> {w[2] : w \in {w \in wired : Key(w) = Key(v)}},
             inferred |-> {w[2] : w \in {w \in wired : Key(w) = Key(v) /\ w[3]}}]
    BY <1>1 DEF Proposals
<1> HIDE DEF Key
<1>3. /\ p.exec = q.exec /\ p.src = q.src /\ p.inferred = q.inferred
      /\ p.uses \subseteq q.uses
    BY <1>1, <1>2 DEF Fresh
<1>4. ASSUME NEW u \in p.uses
      PROVE  /\ u \in AllSinks(capture.a) /\ p.exec < u[1]
             /\ u \in p.inferred \/ Matches(p.src.value, Sink(capture.a, u))
    <2>1. PICK w \in wired : Key(w) = Key(v) /\ w[2] = u
        BY <1>2, <1>3
    <2>2. p.exec = w[1][1] /\ p.src = Source(capture.a, w[1])
        BY <1>2, <1>3, <2>1 DEF Key, SourceKey
    <2>3. w[3] => u \in p.inferred
        BY <1>2, <1>3, <2>1
    <2> QED
        BY <2>1, <2>2, <2>3 DEF PassInv
<1>5. \A u \in p.inferred : \E w \in wired : w[2] = u /\ w[3]
    BY <1>2, <1>3
<1> QED
    BY <1>4, <1>5

\* Accepting a candidate adds the candidate's uses to one rule.
LEMMA AcceptKeepsUses ==
    ASSUME SessionInv, UsesInv, NEW x \in Candidates, Accept(x)
    PROVE  UsesInv'
<1> DEFINE J(r) == IF SameSource(x, r) THEN Joined(RuleOf(x), r) ELSE r
<1>1. PICK s \in Sources(capture.a) :
        /\ x.exec = s[1] /\ x.src = Source(capture.a, s)
        /\ \A u \in x.uses :
            /\ u \in AllSinks(capture.a) /\ x.exec < u[1]
            /\ Matches(x.src.value, Sink(capture.a, u))
    BY CandidatesUses DEF Accept
<1>2. capture' = capture /\ wired' = wired /\ stage' = stage
    BY DEF Accept, pass
<1>3. ASSUME NEW r \in rules
      PROVE  /\ \A u \in J(r).uses :
                /\ u \in AllSinks(capture.a) /\ J(r).exec < u[1]
                /\ u \in J(r).inferred \/ Matches(J(r).src.value, Sink(capture.a, u))
             /\ J(r).inferred \subseteq r.inferred
             /\ r.uses \subseteq J(r).uses
    <2>1. CASE SameSource(x, r)
        <3>1. J(r) = [exec |-> r.exec, src |-> r.src, uses |-> r.uses \cup x.uses,
                      inferred |-> r.inferred \cup {}]
            BY <2>1 DEF Joined, RuleOf
        <3>2. x.exec = r.exec /\ x.src = r.src
            BY <2>1 DEF SameSource
        <3> HIDE DEF J
        <3>3. /\ J(r).exec = r.exec /\ J(r).src = r.src
              /\ J(r).uses = r.uses \cup x.uses /\ J(r).inferred = r.inferred \cup {}
            BY <3>1
        <3> QED
            BY <1>1, <3>2, <3>3 DEF UsesInv
    <2>2. CASE ~SameSource(x, r)
        BY <2>2 DEF UsesInv
    <2> QED
        BY <2>1, <2>2
<1>4. /\ RuleOf(x).exec = x.exec /\ RuleOf(x).src = x.src
      /\ RuleOf(x).uses = x.uses /\ RuleOf(x).inferred = {}
    BY DEF RuleOf
<1> HIDE DEF J
<1>5. /\ \A q \in rules' : q = RuleOf(x) \/ \E r \in rules : q = J(r)
      /\ \A r \in rules : J(r) \in rules' \/ r \in rules'
    <2>1. CASE \E r \in rules : SameSource(x, r)
        BY <2>1 DEF Accept, J
    <2>2. CASE ~\E r \in rules : SameSource(x, r)
        BY <2>2 DEF Accept, J
    <2> QED
        BY <2>1, <2>2
<1>6. \A q \in rules' : \A u \in q.uses :
        /\ u \in AllSinks(capture.a) /\ q.exec < u[1]
        /\ u \in q.inferred \/ Matches(q.src.value, Sink(capture.a, u))
    BY <1>1, <1>3, <1>4, <1>5
<1>7. \A q \in rules' : \A u \in q.inferred : \E w \in wired : w[2] = u /\ w[3]
    BY <1>3, <1>4, <1>5 DEF UsesInv
<1>8. stage = "correlated" => \A w \in wired : \E q \in rules' : w[2] \in q.uses
    BY <1>3, <1>5 DEF UsesInv
<1> QED
    BY <1>2, <1>6, <1>7, <1>8 DEF UsesInv

\* Auto-correlation gives every use it wired to a rule.
LEMMA EndAutoKeepsUses ==
    ASSUME SessionInv, PassInv, WiringInv, RulesInv, UsesInv, EndAuto
    PROVE  UsesInv'
<1> DEFINE Has(r) == \E p \in Additions : SameSource(p, r)
           For(r) == CHOOSE p \in Additions : SameSource(p, r)
           J(r) == IF Has(r) THEN Joined(For(r), r) ELSE r
           Others == {p \in Additions : ~\E r \in rules : SameSource(p, r)}
<1>1. /\ capture' = capture /\ wired' = wired
      /\ rules' = {J(r) : r \in rules} \cup Others
    BY DEF EndAuto, pass
<1>2. ASSUME NEW r \in rules, Has(r)
      PROVE  For(r) \in Additions /\ SameSource(For(r), r)
    BY <1>2
<1>3. \A o, p \in Additions : SameSource(o, p) => o = p
    BY AdditionsAreNew
<1>4. ASSUME NEW p \in Additions
      PROVE  /\ \A u \in p.uses :
                /\ u \in AllSinks(capture.a) /\ p.exec < u[1]
                /\ u \in p.inferred \/ Matches(p.src.value, Sink(capture.a, u))
             /\ \A u \in p.inferred : \E w \in wired : w[2] = u /\ w[3]
    BY AdditionsUses
<1>5. ASSUME NEW r \in rules
      PROVE  /\ \A u \in J(r).uses :
                /\ u \in AllSinks(capture.a) /\ J(r).exec < u[1]
                /\ u \in J(r).inferred \/ Matches(J(r).src.value, Sink(capture.a, u))
             /\ \A u \in J(r).inferred : \E w \in wired : w[2] = u /\ w[3]
             /\ r.uses \subseteq J(r).uses
             /\ Has(r) => For(r).uses \subseteq J(r).uses
    <2>1. CASE Has(r)
        <3> HIDE DEF For, Has
        <3>1. J(r) = [exec |-> r.exec, src |-> r.src, uses |-> r.uses \cup For(r).uses,
                      inferred |-> r.inferred \cup For(r).inferred]
            BY <2>1 DEF Joined
        <3>2. For(r).exec = r.exec /\ For(r).src = r.src /\ For(r) \in Additions
            BY <1>2, <2>1 DEF SameSource
        <3> HIDE DEF J
        <3>3. /\ J(r).exec = r.exec /\ J(r).src = r.src
              /\ J(r).uses = r.uses \cup For(r).uses
              /\ J(r).inferred = r.inferred \cup For(r).inferred
            BY <3>1
        <3> QED
            BY <1>4, <3>2, <3>3 DEF UsesInv
    <2>2. CASE ~Has(r)
        BY <2>2 DEF UsesInv
    <2> QED
        BY <2>1, <2>2
<1>6. ASSUME NEW p \in Additions, NEW r \in rules, SameSource(p, r)
      PROVE  Has(r) /\ For(r) = p
    <2>1. Has(r)
        BY <1>6
    <2>2. SameSource(For(r), p)
        BY <1>2, <1>6, <2>1 DEF SameSource
    <2> QED
        BY <1>2, <1>3, <2>1, <2>2
<1>7. /\ Others \subseteq Additions
      /\ \A p \in Additions : (~\E r \in rules : SameSource(p, r)) => p \in Others
    OBVIOUS
<1> HIDE DEF J, For, Has, Others
<1>8. ASSUME NEW w \in wired
      PROVE  \E q \in rules' : w[2] \in q.uses
    <2>1. CASE \E r \in rules : w[2] \in r.uses
        BY <1>1, <1>5, <2>1
    <2>2. CASE ~\E r \in rules : w[2] \in r.uses
        <3> DEFINE Key(v) == SourceKey(capture.a, v)
                   q == [exec |-> Key(w)[1], src |-> Key(w)[2],
                         uses |-> {v[2] : v \in {v \in wired : Key(v) = Key(w)}},
                         inferred |-> {v[2] : v \in {v \in wired : Key(v) = Key(w) /\ v[3]}}]
        <3>1. q \in Proposals(capture.a, wired) /\ w[2] \in q.uses
            BY DEF Proposals
        <3>2. Fresh(q).uses = q.uses \ UNION {r.uses : r \in rules}
            BY DEF Fresh
        <3> HIDE DEF q
        <3>3. w[2] \in Fresh(q).uses
            BY <2>2, <3>1, <3>2
        <3>4. Fresh(q) \in Additions
            BY <3>1, <3>3 DEF Additions
        <3>5. CASE \E r \in rules : SameSource(Fresh(q), r)
            BY <1>1, <1>5, <1>6, <3>3, <3>4, <3>5
        <3>6. CASE ~\E r \in rules : SameSource(Fresh(q), r)
            BY <1>1, <1>7, <3>3, <3>4, <3>6
        <3> QED
            BY <3>5, <3>6
    <2> QED
        BY <2>1, <2>2
<1>9. \A q \in rules' : \A u \in q.uses :
        /\ u \in AllSinks(capture.a) /\ q.exec < u[1]
        /\ u \in q.inferred \/ Matches(q.src.value, Sink(capture.a, u))
    BY <1>1, <1>4, <1>5, <1>7
<1>10. \A q \in rules' : \A u \in q.inferred : \E w \in wired : w[2] = u /\ w[3]
    BY <1>1, <1>4, <1>5, <1>7
<1> QED
    BY <1>1, <1>8, <1>9, <1>10 DEF UsesInv

\* Whatever was uploaded and accepted, before auto-correlation or after it, a
\* rule sends its source's value to later requests that sent it in the capture.
LEMMA UsesAreSound == Spec => []UsesInv
<1>1. Init => UsesInv
    BY DEF Init, UsesInv
<1>2. /\ SessionInv /\ PassInv /\ WiringInv /\ RulesInv /\ UsesInv
      /\ [Next]_vars
      => UsesInv'
    <2> SUFFICES ASSUME SessionInv, PassInv, WiringInv, RulesInv, UsesInv, [Next]_vars
                 PROVE  UsesInv'
        OBVIOUS
    <2>1. ASSUME capture' = capture, rules' = rules, wired' = wired,
                 stage' = stage \/ stage' # "correlated"
          PROVE  UsesInv'
        BY <2>1 DEF UsesInv
    <2>2. CASE Analyze \/ StartAuto \/ Generate \/ Validate
        BY <2>1, <2>2 DEF Analyze, StartAuto, Generate, Validate, pass
    <2>3. ASSUME NEW x \in Candidates, Accept(x) PROVE UsesInv'
        BY <2>3, AcceptKeepsUses
    <2>4. CASE WireRequest
        <3>1. /\ capture' = capture /\ rules' = rules /\ stage' = "wiring"
              /\ wired \subseteq wired'
            BY <2>4 DEF WireRequest
        <3> QED
            BY <3>1 DEF UsesInv
    <2>5. CASE EndAuto
        BY <2>5, EndAutoKeepsUses
    <2>6. CASE UNCHANGED vars
        BY <2>1, <2>6 DEF vars, pass
    <2> QED
        BY <2>2, <2>3, <2>4, <2>5, <2>6 DEF Next
<1> QED
    BY <1>1, <1>2, KeepsDetected, PassIsComplete, RulesShareNothing, PTL DEF Spec

\* Of every upload's candidates that auto-correlation could have wired, each use
\* ends with one enabled rule, whose value is the one the request sent.
THEOREM CandidatesAlwaysCovered == Spec => []AutoCoversCandidates
<1>1. SessionInv /\ PassInv /\ WiringInv /\ RulesInv /\ UsesInv => AutoCoversCandidates
    <2> SUFFICES ASSUME SessionInv, PassInv, WiringInv, RulesInv, UsesInv, stage = "correlated",
                        NEW x \in Candidates, Wireable(x),
                        NEW u \in x.uses, IsTarget(Sink(capture.a, u))
                 PROVE  /\ Cardinality(RuleFor(rules, u)) = 1
                        /\ \A r \in RuleFor(rules, u) : r.src.value = Sink(capture.a, u).value
        BY DEF AutoCoversCandidates
    <2>1. PICK s \in Sources(capture.a) :
            /\ x.exec = s[1] /\ x.src = Source(capture.a, s)
            /\ u \in AllSinks(capture.a) /\ x.exec < u[1]
            /\ Matches(x.src.value, Sink(capture.a, u))
            /\ x.src.value \in Small => OwnPath(x.src, Sink(capture.a, u))
        BY CandidatesUses
    <2>2. /\ s[1] \in DOMAIN capture.a /\ u[1] \in DOMAIN capture.a
          /\ u \in Targets(capture.a, u[1])
        BY <2>1 DEF Sources, AllSinks, Targets
    <2>3. s[1] \in 1..(next - 1) /\ u[1] \in 1..(next - 1)
        BY <2>2, Indices DEF PassInv
    <2>4. s \in sources
        <3>1. PICK k \in DOMAIN capture.a[s[1]].response : s = <<s[1], k>>
            BY <2>1 DEF Sources
        <3>2. Once(capture.a, s)
            BY <2>1 DEF Wireable, Once
        <3>3. Usable(capture.a[s[1]]) /\ Offers(capture.a, s)
            BY <2>1, <3>2 DEF Wireable, Offers
        <3>4. s \in Offered(capture.a, s[1])
            BY <3>1, <3>3 DEF Offered
        <3> QED
            BY <2>3, <3>4 DEF PassInv
    <2>5. Qualifies(Source(capture.a, s), Sink(capture.a, u))
        BY <2>1 DEF Qualifies
    <2>6. PICK w \in wired : w[2] = u /\ w[3] = FALSE
        BY <2>1, <2>2, <2>3, <2>4, <2>5 DEF PassInv
    <2>7. PICK r \in rules : u \in r.uses
        BY <2>6 DEF UsesInv
    <2>8. RuleFor(rules, u) = {r}
        BY <2>7 DEF RuleFor, RulesInv
    <2>9. Cardinality({r}) = 1
        BY FS_Singleton
    <2>10. u \notin r.inferred
        BY <2>6, <2>7 DEF UsesInv, WiringInv
    <2>11. r.src.value = Sink(capture.a, u).value
        BY <2>7, <2>10 DEF UsesInv, Matches
    <2> QED
        BY <2>8, <2>9, <2>11
<1> QED
    BY <1>1, KeepsDetected, PassIsComplete, RulesShareNothing, UsesAreSound, PTL

-----------------------------------------------------------------------------
(* The plan and its report.                                                *)

\* A plan is the one that the rules there are give, all of them materialised, and
\* so is a good report: every change of the rules drops both.
PlanInv ==
    /\ plan # NoPlan => plan = Plan(capture, rules) /\ Unmaterialized(capture, rules) = {}
    /\ report.status = "validated" =>
        plan # NoPlan /\ \A r \in rules : r \in report.found /\ r \notin report.missed

\* The manifest of a plan names the variables of all the rules it is made from.
LEMMA VariablesAreRules ==
    ASSUME plan = Plan(capture, rules)
    PROVE  Variables = rules
<1>1. plan.extractors = {<<r.exec, r>> : r \in rules}
    BY DEF Plan
<1>2. \A r \in rules : <<r.exec, r>> \in plan.extractors /\ <<r.exec, r>>[2] = r
    BY <1>1
<1>3. \A e \in plan.extractors : \E r \in rules : e[2] = r
    BY <1>1
<1>4. Variables \subseteq rules
    BY <1>3 DEF Variables
<1>5. rules \subseteq Variables
    BY <1>2 DEF Variables
<1> QED
    BY <1>4, <1>5

\* A run in which no sample failed did not lose its connection either, so it is
\* good only if every variable was found and none was missed.
LEMMA GoodRunsMissNothing ==
    ASSUME NEW o \in Outcome, NEW found, NEW missed, Validated(Variables, Ran(o, found, missed))
    PROVE  \A r \in Variables : r \in found /\ r \notin missed
<1> DEFINE ran == Ran(o, found, missed)
<1>1. /\ ran.samples = o.samples /\ ran.failed = o.failed /\ ran.unreachable = o.unreachable
      /\ ran.found = found /\ ran.missed = missed
    BY DEF Ran
<1>2. o.samples \in Nat /\ o.failed \in Nat /\ o.unreachable \in 0..o.failed
    BY OutcomeAssumption
<1>3. Validated(Variables, ran)
    OBVIOUS
<1> HIDE DEF ran
<1>4. ran.samples > 0 /\ ran.failed = 0 /\ (Missing(Variables, ran) = {} \/ ConnectionFailed(ran))
    BY <1>3 DEF Validated
<1>5. ~ConnectionFailed(ran)
    BY <1>1, <1>2, <1>4 DEF ConnectionFailed
<1> QED
    BY <1>1, <1>4, <1>5 DEF Missing

\* Plans and reports are of the rules there are.
LEMMA PlansAreCurrent == Spec => []PlanInv
<1>1. Init => PlanInv
    BY DEF Init, PlanInv, NoReport
<1>2. PlanInv /\ [Next]_vars => PlanInv'
    <2> SUFFICES ASSUME PlanInv, [Next]_vars PROVE PlanInv'
        OBVIOUS
    <2>1. ASSUME capture' = capture, rules' = rules, plan' = plan, report' = report
          PROVE  PlanInv'
        BY <2>1 DEF PlanInv, NoPlan
    <2>2. ASSUME plan' = NoPlan, report' = NoReport
          PROVE  PlanInv'
        BY <2>2 DEF PlanInv, NoReport, NoPlan
    <2>3. CASE Analyze \/ StartAuto \/ WireRequest
        BY <2>1, <2>3 DEF Analyze, StartAuto, WireRequest
    <2>4. ASSUME NEW x \in Candidates, Accept(x) PROVE PlanInv'
        BY <2>2, <2>4 DEF Accept
    <2>5. CASE EndAuto
        <3>1. CASE Additions = {}
            <4>1. rules' = rules
                <5>1. rules' = {r : r \in rules} \cup {p \in {} : ~\E r \in rules : SameSource(p, r)}
                    BY <2>5, <3>1 DEF EndAuto
                <5> QED
                    BY <5>1
            <4> QED
                BY <2>1, <2>5, <3>1, <4>1 DEF EndAuto
        <3>2. CASE Additions # {}
            BY <2>2, <2>5, <3>2 DEF EndAuto
        <3> QED
            BY <3>1, <3>2
    <2>6. CASE Generate
        <3>1. /\ capture' = capture /\ rules' = rules
              /\ plan' = Plan(capture, rules) /\ report' = NoReport
              /\ Unmaterialized(capture, rules) = {}
            BY <2>6 DEF Generate, Sound
        <3> QED
            BY <3>1 DEF PlanInv, NoReport
    <2>7. CASE Validate
        <3>1. capture' = capture /\ rules' = rules /\ plan' = plan /\ plan # NoPlan
            BY <2>7 DEF Validate
        <3>2. ASSUME report'.status = "validated"
              PROVE  \A r \in rules : r \in report'.found /\ r \notin report'.missed
            <4>1. PICK o \in Outcome :
                    \E found \in SUBSET Shown(o), missed \in SUBSET Shown(o) :
                        report' = [status |-> IF Validated(Variables, Ran(o, found, missed))
                                              THEN "validated" ELSE "validation_failed",
                                   found |-> found, missed |-> missed]
                BY <2>7 DEF Validate, Ran
            <4>2. PICK found, missed :
                    report' = [status |-> IF Validated(Variables, Ran(o, found, missed))
                                          THEN "validated" ELSE "validation_failed",
                               found |-> found, missed |-> missed]
                BY <4>1
            <4>3. report'.found = found /\ report'.missed = missed
                BY <4>2
            <4>4. Validated(Variables, Ran(o, found, missed))
                BY <3>2, <4>2
            <4>5. \A r \in Variables : r \in found /\ r \notin missed
                BY <4>4, GoodRunsMissNothing
            <4>6. Variables = rules
                BY <3>1, VariablesAreRules DEF PlanInv
            <4> QED
                BY <4>3, <4>5, <4>6
        <3> QED
            BY <3>1, <3>2 DEF PlanInv
    <2>8. CASE UNCHANGED vars
        BY <2>1, <2>8 DEF vars
    <2> QED
        BY <2>3, <2>4, <2>5, <2>6, <2>7, <2>8 DEF Next
<1> QED
    BY <1>1, <1>2, PTL DEF Spec

\* However a run of the plan ends, with any variables found in some samples and
\* missed in others, each judged by itself: a plan called validated had the
\* variable of every enabled rule found and never missed, and its requests send
\* no other variable.
THEOREM ValidatedAlwaysCorrelated == Spec => []ValidatedMeansCorrelated
<1>1. ASSUME PlanInv PROVE ValidatedMeansCorrelated
    <2> SUFFICES ASSUME report.status = "validated"
                 PROVE  LET supplied == Variables \cap (report.found \ report.missed)
                        IN  /\ rules \subseteq supplied
                            /\ \A t \in plan.texts :
                                    t[2].kind = "var" => \E r \in supplied : t[1] \in r.uses
        BY DEF ValidatedMeansCorrelated
    <2>1. plan = Plan(capture, rules) /\ \A r \in rules : r \in report.found /\ r \notin report.missed
        BY <1>1 DEF PlanInv
    <2>2. Variables = rules
        BY <2>1, VariablesAreRules
    <2>3. ASSUME NEW t \in plan.texts, t[2].kind = "var" PROVE \E r \in rules : t[1] \in r.uses
        <3>1. PICK u \in AllSinks(capture.a) : t = <<u, Mutated(capture, rules, u)>>
            BY <2>1, <2>3 DEF Plan
        <3>2. RuleFor(rules, u) # {}
            BY <2>3, <3>1 DEF Mutated
        <3> QED
            BY <3>1, <3>2 DEF RuleFor
    <2> QED
        BY <2>1, <2>2, <2>3
<1> QED
    BY <1>1, PlansAreCurrent, PTL

\* What the text of a use is, for a source that gives what it gave before.
LEMMA SubstitutionIsFaithful ==
    ASSUME NEW u, Faithful(u),
           \A r \in RuleFor(rules, u) :
                u \in r.inferred \/ Matches(r.src.value, Sink(capture.a, u))
    PROVE  /\ Mutated(capture, rules, u).value = Sink(capture.a, u).value
           /\ Mutated(capture, rules, u).wrap = Sink(capture.a, u).wrap
<1>1. CASE RuleFor(rules, u) = {}
    BY <1>1 DEF Mutated
<1>2. CASE RuleFor(rules, u) # {}
    <2> DEFINE r == CHOOSE r \in RuleFor(rules, u) : TRUE
    <2>1. r \in RuleFor(rules, u)
        BY <1>2
    <2>2. Mutated(capture, rules, u) = Substituted(Sink(capture.a, u), r)
        BY <1>2 DEF Mutated
    <2> HIDE DEF r
    <2>3. /\ u \notin r.inferred /\ r.src.loc # "cookie"
          /\ Sink(capture.a, u).wrap # "within"
        BY <2>1 DEF Faithful
    <2>4. Matches(r.src.value, Sink(capture.a, u))
        BY <2>1, <2>3
    <2>5. Extracted(r) = r.src.value
        BY <2>3 DEF Extracted
    <2> QED
        <3> DEFINE sink == Sink(capture.a, u)
        <3>1. Substituted(sink, r) =
                [kind |-> "var", value |-> r.src.value, wrap |-> IF sink.loc = "header" THEN sink.wrap ELSE ""]
            BY <2>5 DEF Substituted, Variable
        <3>2. sink.value = r.src.value
            BY <2>4 DEF Matches
        <3>3. sink.loc = "header" \/ sink.wrap = ""
            BY <2>3, <2>4 DEF Matches
        <3> HIDE DEF sink
        <3>4. (IF sink.loc = "header" THEN sink.wrap ELSE "") = sink.wrap
            BY <3>3
        <3>5. Substituted(sink, r) = [kind |-> "var", value |-> sink.value, wrap |-> sink.wrap]
            BY <3>1, <3>2, <3>4
        <3>6. /\ Substituted(sink, r).value = sink.value
              /\ Substituted(sink, r).wrap = sink.wrap
            BY <3>5
        <3> QED
            BY <2>2, <3>6 DEF sink
<1> QED
    BY <1>1, <1>2

\* Whatever was uploaded, accepted and correlated, a plan whose extractors find
\* the captured values sends what was captured, in every place where it claims
\* to, and takes no value from a response still to come.
THEOREM ReplayAlwaysFaithful == Spec => []ReplaySendsTheCapture
<1>1. UsesInv /\ PlanInv => ReplaySendsTheCapture
    <2> SUFFICES ASSUME UsesInv, PlanInv, plan # NoPlan,
                        NEW u \in AllSinks(capture.a), Faithful(u)
                 PROVE  \E t \in plan.texts :
                            /\ t[1] = u
                            /\ \A r \in RuleFor(rules, u) : r.exec < u[1]
                            /\ <<t[2].value, t[2].wrap>> =
                                    <<Sink(capture.a, u).value, Sink(capture.a, u).wrap>>
        BY DEF ReplaySendsTheCapture
    <2>1. \A r \in RuleFor(rules, u) :
            /\ r.exec < u[1]
            /\ u \in r.inferred \/ Matches(r.src.value, Sink(capture.a, u))
        BY DEF UsesInv, RuleFor
    <2>2. Rendered(capture, u)
        BY DEF Faithful, Rendered
    <2>3. <<u, Mutated(capture, rules, u)>> \in plan.texts
        BY <2>2 DEF PlanInv, Plan
    <2>4. /\ Mutated(capture, rules, u).value = Sink(capture.a, u).value
          /\ Mutated(capture, rules, u).wrap = Sink(capture.a, u).wrap
        BY <2>1, SubstitutionIsFaithful
    <2> QED
        BY <2>1, <2>3, <2>4
<1> QED
    BY <1>1, UsesAreSound, PlansAreCurrent, PTL

\* The final look at the substitutions leaves one place where an accepted
\* correlation may be missing from the plan: the query of a request that has a
\* body too.
LostUses == {u \in UNION {r.uses : r \in rules} : ~\E t \in plan.texts : t[1] = u}

OnlyQueriesAreLost ==
    plan # NoPlan =>
        LostUses = {u \in UNION {r.uses : r \in rules} :
                        Sink(capture.a, u).loc = "query" /\ HasBody(capture, u[1])}

\* For any upload and any rules: what the violated MaterializedIsRendered loses
\* is this and nothing else.
THEOREM LossesAreQueries == Spec => []OnlyQueriesAreLost
<1>1. UsesInv /\ PlanInv => OnlyQueriesAreLost
    <2> SUFFICES ASSUME UsesInv, PlanInv, plan # NoPlan, NEW r \in rules, NEW u \in r.uses
                 PROVE  (\E t \in plan.texts : t[1] = u)
                            <=> ~(Sink(capture.a, u).loc = "query" /\ HasBody(capture, u[1]))
        BY DEF OnlyQueriesAreLost, LostUses
    <2>1. u \in AllSinks(capture.a) /\ Materialized(capture, u)
        BY DEF UsesInv, PlanInv, Unmaterialized
    <2>2. plan.texts = {<<v, Mutated(capture, rules, v)>> :
                            v \in {v \in AllSinks(capture.a) : Rendered(capture, v)}}
        BY DEF PlanInv, Plan
    <2>3. (\E t \in plan.texts : t[1] = u) <=> Rendered(capture, u)
        <3>1. ASSUME NEW t \in plan.texts, t[1] = u PROVE Rendered(capture, u)
            <4>1. PICK v \in {v \in AllSinks(capture.a) : Rendered(capture, v)} :
                    t = <<v, Mutated(capture, rules, v)>>
                BY <2>2
            <4> QED
                BY <3>1, <4>1
        <3>2. ASSUME Rendered(capture, u) PROVE \E t \in plan.texts : t[1] = u
            <4>1. <<u, Mutated(capture, rules, u)>> \in plan.texts
                BY <2>1, <2>2, <3>2
            <4> QED
                BY <4>1
        <3> QED
            BY <3>1, <3>2
    <2> QED
        BY <2>1, <2>3 DEF Rendered
<1> QED
    BY <1>1, UsesAreSound, PlansAreCurrent, PTL

-----------------------------------------------------------------------------
(* The graph.                                                              *)

\* Every edge leads from a response to a later request, so the dependency graph
\* has no cycle (graph_builder.build_graph looks for none).
GraphRunsForward == \A e \in Graph : e[1] < e[2][1]

\* It holds of the edges of rules, inferred ones included, and of those that
\* candidates still have.
THEOREM GraphAlwaysForward == Spec => []GraphRunsForward
<1>1. SessionInv /\ UsesInv => GraphRunsForward
    <2> SUFFICES ASSUME SessionInv, UsesInv, NEW e \in Graph PROVE e[1] < e[2][1]
        BY DEF GraphRunsForward
    <2>1. ASSUME NEW r \in rules, e \in Edges(r, r.uses) PROVE e[1] < e[2][1]
        <3>1. PICK u \in r.uses : e = <<r.exec, u, r.src>>
            BY <2>1 DEF Edges
        <3> QED
            BY <3>1 DEF UsesInv
    <2>2. ASSUME NEW x \in Candidates, e \in Edges(x, Open(x)) PROVE e[1] < e[2][1]
        <3>1. PICK u \in x.uses : e = <<x.exec, u, x.src>>
            BY <2>2 DEF Edges, Open
        <3>2. stage # "uploaded"
            BY DEF SessionInv, Candidates, Correlations
        <3> QED
            BY <3>1, <3>2, CandidatesUses
    <2> QED
        BY <2>1, <2>2 DEF Graph
<1> QED
    BY <1>1, KeepsDetected, UsesAreSound, PTL

-----------------------------------------------------------------------------
(* The scores.                                                             *)

\* A run has finitely many places that send something.
LEMMA SinksAreFinite ==
    ASSUME NEW run, Indexed(run), \A i \in DOMAIN run : Indexed(run[i].request)
    PROVE  IsFiniteSet(AllSinks(run))
<1> DEFINE Of(i) == {<<i, k>> : k \in DOMAIN run[i].request}
           UpTo(n) == UNION {Of(i) : i \in 1..n}
           Bad == {n \in 0..Len(run) : ~IsFiniteSet(UpTo(n))}
<1>1. Len(run) \in Nat /\ DOMAIN run = 1..Len(run)
    BY DEF Indexed
<1>2. ASSUME NEW i \in 1..Len(run) PROVE IsFiniteSet(Of(i))
    <2> DEFINE n == Len(run[i].request)
    <2>1. n \in Nat /\ DOMAIN run[i].request = 1..n
        BY <1>1 DEF Indexed
    <2> HIDE DEF n
    <2>2. Of(i) = {i} \X (1..n)
        BY <2>1
    <2>3. IsFiniteSet({i})
        BY FS_Singleton
    <2>4. IsFiniteSet(1..n)
        BY <2>1, FS_Interval
    <2>5. IsFiniteSet({i} \X (1..n))
        BY <2>3, <2>4, FS_Product
    <2> HIDE DEF Of
    <2> QED
        BY <2>2, <2>5
<1>3. Bad = {}
    <2> SUFFICES ASSUME Bad # {} PROVE FALSE
        OBVIOUS
    <2>1. PICK n \in Bad : \A m \in Bad : n <= m
        <3>1. Bad \in SUBSET Nat
            BY <1>1
        <3> HIDE DEF Bad
        <3> QED
            BY <3>1, LeastNumber
    <2>2. n \in 0..Len(run) /\ ~IsFiniteSet(UpTo(n))
        BY <2>1
    <2>3. CASE n = 0
        <3>1. UpTo(n) = {}
            BY <2>3
        <3> QED
            BY <2>2, <3>1, FS_EmptySet
    <2>4. CASE n # 0
        <3>1. n - 1 \in 0..Len(run) /\ n \in 1..Len(run) /\ ~(n <= n - 1)
            BY <1>1, <2>2, <2>4
        <3>2. IsFiniteSet(UpTo(n - 1))
            BY <2>1, <3>1
        <3>3. IsFiniteSet(Of(n))
            BY <1>2, <3>1
        <3>4. UpTo(n) = UpTo(n - 1) \cup Of(n)
            <4>1. 1..n = (1..(n - 1)) \cup {n}
                BY <1>1, <3>1
            <4> HIDE DEF Of
            <4> QED
                BY <4>1
        <3>5. IsFiniteSet(UpTo(n - 1) \cup Of(n))
            <4> HIDE DEF UpTo, Of
            <4> QED
                BY <3>2, <3>3, FS_Union
        <3> QED
            BY <2>2, <3>4, <3>5
    <2> QED
        BY <2>3, <2>4
<1>4. IsFiniteSet(UpTo(Len(run)))
    <2>1. Len(run) \in 0..Len(run)
        BY <1>1
    <2> HIDE DEF UpTo
    <2> QED
        BY <1>3, <2>1
<1>5. AllSinks(run) = UpTo(Len(run))
    BY <1>1 DEF AllSinks
<1> QED
    BY <1>4, <1>5

\* What the number of uses adds to a score.
LEMMA UsesAreCounted ==
    ASSUME NEW c \in Capture, NEW i, NEW src
    PROVE  /\ Proven(c, i, src) \subseteq AllSinks(c.a)
           /\ IsFiniteSet(Proven(c, i, src)) /\ Cardinality(Proven(c, i, src)) \in Nat
           /\ Bonus(Cardinality(Proven(c, i, src))) \in -5..15
           /\ Proven(c, i, src) # {} => Bonus(Cardinality(Proven(c, i, src))) >= 0
<1>1. IsFiniteSet(AllSinks(c.a))
    BY CaptureAssumption, SinksAreFinite
<1>2. Proven(c, i, src) \subseteq AllSinks(c.a)
    BY DEF Proven, Claims
<1> DEFINE uses == Proven(c, i, src)
<1> HIDE DEF uses
<1>3. IsFiniteSet(uses) /\ Cardinality(uses) \in Nat
    BY <1>1, <1>2, FS_Subset, FS_CardinalityType DEF uses
<1>4. uses # {} => Cardinality(uses) # 0
    BY <1>3, FS_EmptySet
<1>5. Bonus(Cardinality(uses)) \in -5..15 /\ (Cardinality(uses) # 0 => Bonus(Cardinality(uses)) >= 0)
    BY <1>3 DEF Bonus
<1> QED
    BY <1>2, <1>3, <1>4, <1>5 DEF uses

\* One report gives no candidate that accept-high would take: without a second
\* run to compare with, no evidence adds up to more than low confidence.
SingleRunIsUnsure ==
    ~capture.two => \A x \in kept : x.confidence \in {"low", "rejected"}

\* For every upload of one report, whatever its values, places and codes are.
THEOREM SingleRunAlwaysUnsure == Spec => []SingleRunIsUnsure
<1>1. ASSUME SessionInv PROVE SingleRunIsUnsure
    <2> SUFFICES ASSUME ~capture.two, NEW x \in kept
                 PROVE  x.confidence \in {"low", "rejected"}
        BY DEF SingleRunIsUnsure
    <2>0. x \in Detected(capture)
        BY <1>1 DEF SessionInv, Kept
    <2>1. PICK s \in Sources(capture.a) :
            x.confidence = Confidence(Score(capture, s[1], Source(capture.a, s)))
        BY <2>0 DEF Detected, Candidate
    <2> DEFINE src == Source(capture.a, s)
               uses == Proven(capture, s[1], src)
               points == -15
                       + (IF Structured(src) THEN 10 ELSE 0)
                       + (IF src.value \in Token THEN 10 ELSE IF src.value \in Small THEN -20 ELSE 0)
                       + Bonus(Cardinality(uses))
                       - (IF ~Structured(src) \/ \E u \in uses : Sink(capture.a, u).loc = "text" THEN 15 ELSE 0)
                       - (IF uses # Claims(capture, s[1], src) THEN 15 ELSE 0)
                       - (IF Usable(capture.a[s[1]]) THEN 0 ELSE 25)
    <2>2. Score(capture, s[1], src) = IF points < 0 THEN 0 ELSE points
        BY DEF Score
    <2>3. Bonus(Cardinality(uses)) \in -5..15
        BY <1>1, UsesAreCounted DEF SessionInv
    <2> HIDE DEF src, uses
    <2>4. points \in Int /\ points <= 20
        BY <2>3
    <2> HIDE DEF points
    <2>5. Confidence(IF points < 0 THEN 0 ELSE points) \in {"low", "rejected"}
        BY <2>4 DEF Confidence
    <2> QED
        BY <2>1, <2>2, <2>5 DEF src
<1> QED
    BY <1>1, KeepsDetected, PTL

\* With two runs, a value that is no short number, from the body of a good
\* response, is a candidate that accept-high takes as soon as every later use
\* of it changed with it and none is a part of a text.
PlainValuesAreSure ==
    capture.two =>
        \A s \in Sources(capture.a) :
            LET src == Source(capture.a, s)
                uses == Proven(capture, s[1], src)
            IN  /\ Structured(src) /\ src.value \notin Small /\ Usable(capture.a[s[1]])
                /\ uses # {} /\ uses = Claims(capture, s[1], src)
                /\ \A u \in uses : Sink(capture.a, u).loc # "text"
                => Candidate(capture, s).confidence = "high"

\* So every such value is offered, for any two reports.
THEOREM PlainValuesAlwaysSure == Spec => []PlainValuesAreSure
<1>1. ASSUME SessionInv PROVE PlainValuesAreSure
    <2> SUFFICES ASSUME capture.two, NEW s \in Sources(capture.a),
                        Structured(Source(capture.a, s)), Source(capture.a, s).value \notin Small,
                        Usable(capture.a[s[1]]),
                        Proven(capture, s[1], Source(capture.a, s)) # {},
                        Proven(capture, s[1], Source(capture.a, s))
                            = Claims(capture, s[1], Source(capture.a, s)),
                        \A u \in Proven(capture, s[1], Source(capture.a, s)) :
                            Sink(capture.a, u).loc # "text"
                 PROVE  Candidate(capture, s).confidence = "high"
        BY DEF PlainValuesAreSure
    <2> DEFINE src == Source(capture.a, s)
               uses == Proven(capture, s[1], src)
               points == 65 + 10 + (IF src.value \in Token THEN 10 ELSE 0)
                       + Bonus(Cardinality(uses)) - 0 - 0 - 0
    <2>1. Score(capture, s[1], src) = IF points < 0 THEN 0 ELSE points
        BY DEF Score
    <2>2. Bonus(Cardinality(uses)) \in 0..15
        BY <1>1, UsesAreCounted DEF SessionInv
    <2>3. Candidate(capture, s).confidence = Confidence(Score(capture, s[1], src))
        BY DEF Candidate
    <2> HIDE DEF src, uses
    <2>4. points \in Int /\ points >= 75
        BY <2>2
    <2> HIDE DEF points
    <2>5. Confidence(IF points < 0 THEN 0 ELSE points) = "high"
        BY <2>4 DEF Confidence
    <2> QED
        BY <2>1, <2>3, <2>5
<1> QED
    BY <1>1, KeepsDetected, PTL
=============================================================================
