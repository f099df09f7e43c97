SPECIFICATION FairRestartSpec
CONSTANTS
    p1 = p1
    p2 = p2
    s1 = s1
    v1 = v1
    c1 = c1
    Nobody = Nobody
    Keys <- TwoPods
    Names <- TwoNames
    NameOf <- NameEach
    KindOf <- BothPods
    Claims <- OneClaim
    ClaimsOf <- PodsOneClaim
    Rwop <- OneClaim
    HasVms = FALSE
    Workers = 1
    Faults <- FaultKinds
    MaxFaults = 1
    MaxCrashes = 0
    MaxWakes = 0
    MaxChanges = 1
PROPERTIES
    GoneIsReleased
    LastOneRuns
CHECK_DEADLOCK FALSE
