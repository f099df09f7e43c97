---------------------------- MODULE MCWorkloads ----------------------------
(***************************************************************************)
(* The workloads the runs put on one node.  Each run gives Keys, KindOf,   *)
(* NameOf and ClaimsOf from here.                                          *)
(***************************************************************************)
EXTENDS Workloads, TLC

CONSTANTS p1, p2, s1, v1, c1

\* A Pod and its same-name successor, both on one claim.
TwoPods == {p1, p2}
OneName == {"a"}
SameName == [k \in TwoPods |-> "a"]
BothPods == [k \in TwoPods |-> "pod"]
PodsOneClaim == [k \in TwoPods |-> {c1}]
Symmetric == Permutations(TwoPods)

\* The same two with a name each.
TwoNames == {"a", "b"}
NameEach == [k \in TwoPods |-> IF k = p1 THEN "a" ELSE "b"]

\* A Pod and a VM on one claim.
PodAndVm == {p1, v1}
OwnNames == [k \in PodAndVm |-> IF k = v1 THEN "b" ELSE "a"]
PodAndVmKinds == [k \in PodAndVm |-> IF k = v1 THEN "vm" ELSE "pod"]
PodAndVmClaims == [k \in PodAndVm |-> {c1}]

\* A Pod and a static Pod sharing a claim, and a VM that wants it.
Sharers == {p1, s1, v1}
ThreeNames == {"a", "b", "c"}
SharerNames == [k \in Sharers |-> IF k = p1 THEN "a" ELSE IF k = s1 THEN "b" ELSE "c"]
SharerKinds == [k \in Sharers |-> IF k = p1 THEN "pod" ELSE IF k = s1 THEN "static" ELSE "vm"]
SharerClaims == [k \in Sharers |-> {c1}]

\* A static Pod with a claim, alone.
OneStatic == {s1}
StaticName == [k \in OneStatic |-> "a"]
StaticKind == [k \in OneStatic |-> "static"]
StaticClaims == [k \in OneStatic |-> {c1}]

OneClaim == {c1}
NoClaims == {}
NoFaults == {}
SeedOnly == {"seed"}
AllButSeed == FaultKinds \ {"seed"}

\* The node as a crashed kubelet leaves it: any objects, anything running that
\* exclusion allows, its volumes staged, nothing in memory.
Restart ==
    /\ TableInit
    /\ api \in [Keys -> {"absent", "live", "deleting", "gone"}]
    /\ \A k \in Keys : KindOf[k] = "static" => api[k] # "deleting"
    /\ up \in SUBSET {k \in Keys : api[k] # "absent"}
    \* (one whose object is gone matters only while it runs)
    /\ \A k \in Keys : api[k] = "gone" => k \in up
    /\ staged = {k \in up : ClaimsOf[k] # {}}
    /\ NameExclusion /\ ClaimExclusion
    /\ record = [k \in Keys |-> "none"]
    /\ desired = [k \in Keys |-> "none"]
    /\ synced = {} /\ parked = {} /\ timer = {}
    /\ pass = [k \in Keys |-> NoPass]
    /\ loop = [l \in Loops |-> IdleLoop]
    /\ running = FALSE
    /\ crashes = 0 /\ faults = 0 /\ wakes = 0 /\ changes = 0

RestartSpec == Restart /\ [][Next]_vars
FairRestartSpec == RestartSpec /\ Fairness
=============================================================================
