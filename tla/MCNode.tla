------------------------------- MODULE MCNode -------------------------------
(***************************************************************************)
(* Components of the node that share no state, explored one at a time:     *)
(* which one is chosen in the initial state.                               *)
(***************************************************************************)
EXTENDS ClaimVolumes, NodeObject, Probes

MCPeriod == [k \in Kinds |-> IF k = "liveness" THEN 2 ELSE 1]
MCDelay == [k \in Kinds |-> IF k = "startup" THEN 0 ELSE 1]
MCThreshold == [k \in Kinds |-> 2]

VARIABLE place

VolumesOfClaims == place = "claims" /\ ClNext /\ UNCHANGED <<ndVars, pbVars>>
TheNode == place = "node" /\ NdNext /\ UNCHANGED <<clVars, pbVars>>
ProbesOfOne == place = "probes" /\ PbNext /\ UNCHANGED <<clVars, ndVars>>

NodeVars == <<clVars, ndVars, pbVars, place>>

NodeInit ==
    /\ place \in {"claims", "node", "probes"}
    /\ ClInit /\ NdInit /\ PbInit
    \* NodeObject treats KVM's two values alike: one of them to begin with.
    /\ ndKvm = "off"
    \* What only the probes' initial states differ in, once in the other places.
    /\ place # "probes" => pbSpec = [policy |-> "Never", readiness |-> FALSE]

NodeNext == (VolumesOfClaims \/ TheNode \/ ProbesOfOne) /\ UNCHANGED place

\* Each component's fairness, where it is the one that runs.
At(p, A) == place = p /\ A
NodeFairness ==
    /\ \A c \in Claims : /\ WF_clVars(At("claims", Provision(c))) /\ SF_clVars(At("claims", Enter(c)))
                         /\ WF_clVars(At("claims", Binder(c))) /\ SF_clVars(At("claims", ReclaimBegins(c)))
                         /\ WF_clVars(At("claims", BindReads(c) \/ BindWrites(c) \/ BindClaims(c)))
    /\ WF_clVars(At("claims", Format)) /\ WF_clVars(At("claims", MintEnds)) /\ WF_clVars(At("claims", Formatted))
    /\ WF_clVars(At("claims", ReclaimVolume)) /\ WF_clVars(At("claims", ReclaimPv))
    /\ WF_ndVars(At("node", Registration)) /\ WF_ndVars(At("node", Heartbeat))
    /\ WF_pbVars(At("probes", TimePasses)) /\ WF_pbVars(At("probes", ProbePass))

NodeSpec == NodeInit /\ [][NodeNext]_NodeVars /\ NodeFairness

\* The type invariants of the components.
NodeTypeOK == ClTypeOK /\ NdTypeOK /\ PbTypeOK

\* What is tried again comes to its end, whatever fails meanwhile: the starts
\* that wait for a volume (provision_claim_volume) and the reclaims
\* (reclaim_released), the Node's registration and status (heartbeat), and a
\* container that hangs or ends is made again (check_pod_status).
NodeSettles ==
    <>[](/\ place = "claims" => ClaimsServed
         /\ place = "node" => NodeCurrent
         /\ place = "probes" => Probing)
=============================================================================
