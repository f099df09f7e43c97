SPECIFICATION PodLiveSpec
CONSTANTS
    Inits <- MCInits
    Apps <- MCApps
    Sidecars = {"side"}
    Probed = {"app"}
    Policies = {"Always"}
    Faults <- RestartFails
    Crashes <- NoCrash
    MaxTroubles = 2
    MaxIds = 5
PROPERTIES DeletedIsGone
CHECK_DEADLOCK FALSE
