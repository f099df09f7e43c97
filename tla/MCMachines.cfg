SPECIFICATION MachinesSpec
CONSTANTS
    Vms = {"v1", "v2"}
    Once = {"v2"}
    MaxFaults = 2
    MaxVmDeaths = 1
    Src = "src"
    Dst = "dst"
    MaxMishaps = 2
    MaxDeaths = 1
    Here = "a"
    Others = {"b", "c"}
    MaxMoves = 2
    MaxAsks = 2
    MaxTrouble = 2
    Users = {"p", "v"}
    Machines = {"v"}
    MaxHitches = 2
    Holders = {"n1", "n2"}
    MaxHops = 2
    MaxLate = 1
    MaxSlips = 1
    MaxRestoreAsks = 2
    MaxFailures = 2
    MaxSpecs = 3
    MaxSnags = 2
INVARIANTS
    MachinesTypeOK
    MachineKept
    GuestKept
    GuestHasItsData
    VolumeKept
    CopiesKept
PROPERTIES
    MachinesSettle
CHECK_DEADLOCK FALSE
