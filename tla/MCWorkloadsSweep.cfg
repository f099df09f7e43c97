SPECIFICATION Spec
CONSTANTS
    p1 = p1
    p2 = p2
    s1 = s1
    v1 = v1
    c1 = c1
    Nobody = Nobody
    Keys <- OneStatic
    Names <- OneName
    NameOf <- StaticName
    KindOf <- StaticKind
    Claims <- OneClaim
    ClaimsOf <- StaticClaims
    Rwop <- NoClaims
    HasVms = FALSE
    Workers = 2
    Faults <- NoFaults
    MaxFaults = 0
    MaxCrashes = 0
    MaxWakes = 0
    MaxChanges = 1
INVARIANT StartKeepsVolumes
CHECK_DEADLOCK FALSE
