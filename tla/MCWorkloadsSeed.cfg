SPECIFICATION RestartSpec
CONSTANTS
    p1 = p1
    p2 = p2
    s1 = s1
    v1 = v1
    c1 = c1
    Nobody = Nobody
    Keys <- PodAndVm
    Names <- TwoNames
    NameOf <- OwnNames
    KindOf <- PodAndVmKinds
    Claims <- OneClaim
    ClaimsOf <- PodAndVmClaims
    Rwop <- NoClaims
    HasVms = TRUE
    Workers = 2
    Faults <- SeedOnly
    MaxFaults = 1
    MaxCrashes = 0
    MaxWakes = 0
    MaxChanges = 1
INVARIANT ClaimExclusion
CHECK_DEADLOCK FALSE
