SPECIFICATION Spec
CONSTANTS
    p1 = p1
    p2 = p2
    s1 = s1
    v1 = v1
    c1 = c1
    Nobody = Nobody
    Keys <- TwoPods
    Names <- OneName
    NameOf <- SameName
    KindOf <- BothPods
    Claims <- OneClaim
    ClaimsOf <- PodsOneClaim
    Rwop <- NoClaims
    HasVms = FALSE
    Workers = 2
    Faults <- AllButSeed
    MaxFaults = 1
    MaxCrashes = 1
    MaxWakes = 1
    MaxChanges = 4
SYMMETRY Symmetric
INVARIANTS
    NameExclusion
    NothingForgotten
    CleanupConfirmed
CHECK_DEADLOCK FALSE
