SPECIFICATION PartsSpec
CONSTANTS
    Cts = {"a"}
    Others = {"b"}
    Strays = {"x"}
    MaxKept = 1
    MaxSlips = 2
    Boxes = {"s1", "s2", "s3"}
    Addrs = {1, 2, 3}
    Reserved = {1}
    MaxUpsets = 2
    Loopers = {"a", "b"}
    Base = 1
    Cap = 2
    Stable = 3
    MaxNow = 3
    MaxKills = 1
    Ports = {"dns"}
    Vips = {"v1", "v2"}
    Backs = {"b1", "b2"}
    BackPorts = {1, 2}
    MaxEdits = 3
    MaxRefusals = 1
    MaxGaps = 1
INVARIANTS
    PartsTypeOK
    RecordsKept
    NetworksKept
    DelayIsKept
    FlowsFollowRules
PROPERTIES
    PartsSettle
CHECK_DEADLOCK FALSE
