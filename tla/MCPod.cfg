SPECIFICATION PodLiveSpec
CONSTANTS
    Inits <- MCInits
    Apps <- MCApps
    Sidecars = {"side"}
    Probed = {"app"}
    Policies = {"Always", "OnFailure"}
    Faults <- Survivable
    Crashes <- OneCrash
    MaxTroubles = 2
    MaxIds = 5
INVARIANTS PodTypeOK SandboxKept
PROPERTIES ContainersInOrder DeletedIsGone ComesBack
CHECK_DEADLOCK FALSE
