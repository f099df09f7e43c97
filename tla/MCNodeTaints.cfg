SPECIFICATION NdSpec
CONSTANTS
    MaxBoots = 1
    MaxTurns = 0
    MaxUnheard = 1
INVARIANTS
    RegisteredTainted
CHECK_DEADLOCK FALSE
