SPECIFICATION NodeSpec
CONSTANTS
    Claims = {"c", "d"}
    Room = 1
    MaxRemakes = 1
    MaxComes = 2
    MaxSnags = 1
    MaxDeaths = 1
    MaxBoots = 2
    MaxTurns = 2
    MaxUnheard = 1
    Period <- MCPeriod
    Delay <- MCDelay
    Threshold <- MCThreshold
    StartTime = 1
    HoldOff = 2
    MaxMishaps = 3
    MaxFalls = 1
INVARIANTS
    NodeTypeOK
    ClaimsKept
    NodeKept
    ProbesKept
PROPERTIES
    NodeSettles
CHECK_DEADLOCK FALSE
