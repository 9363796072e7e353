SPECIFICATION Spec
CONSTANTS
    s1 = s1
    s2 = s2
    k1 = k1
    k2 = k2
    k3 = k3
    b1 = b1
    b2 = b2
    Sources = {s1, s2}
    Sinks = {k1, k2, k3}
    Bases = {b1, b2}
    ValueOf <- MCValueOf
    Candidates <- MCCandidates
    Proposals <- MCProposals
    Bodies <- MCBodies
    Patches <- MCPatches
    Keep = Keep
    Manifests = {m1, m2, m3}
    Validators = {v1}
    None = None
    Blocked = FALSE
    MaxRules = 2
SYMMETRY ManifestSymmetry
INVARIANTS
    PlanIsCurrent
    ReportBelongsToPlan
    NamesUnique
    OneAutomaticRulePerSource
PROPERTIES
    ConsumersKeepTheirRule
CHECK_DEADLOCK FALSE
