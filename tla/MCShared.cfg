SPECIFICATION SharedSpec
CONSTANTS
    p1 = p1
    p2 = p2
    s1 = s1
    v1 = v1
    c1 = c1
    Nobody = Nobody
    Keys <- Sharers
    Names <- ThreeNames
    NameOf <- SharerNames
    KindOf <- SharerKinds
    Claims <- OneClaim
    ClaimsOf <- SharerClaims
    Rwop <- NoClaims
    HasVms = TRUE
    Workers = 2
    Faults <- NoFaults
    MaxFaults = 0
    MaxCrashes = 0
    MaxWakes = 0
    MaxChanges = 0
INVARIANTS
    ClaimExclusion
    ClaimMutationsSerialized
    TableKept
PROPERTIES
    NoLostWake
    NeverDowngraded
CHECK_DEADLOCK FALSE
