SPECIFICATION SceneSpec
CONSTANTS
    mount = mount
    query = query
    look = look
    spawn = spawn
    other = other
    big = big
    Callers <- AllCallers
    OpOf <- TheirOps
    SizeOf <- TheirSizes
    ArenaLen = 4
    Align = 2
    SqLen = 1
    RecentMax = 1
    Stuck <- SpawnAndBig
    Nobody = Nobody
INVARIANTS
    PayloadIntact
    GivenUpIsUndone
    ExitHeard
PROPERTIES
    CallsKept
    EveryCallAnswered
    LateUndone
