------------------------------- MODULE Proxy -------------------------------
(***************************************************************************)
(* kube-proxy's pass (pkg/proxy: proxy.rs, endpoints.rs, service_map.rs,   *)
(* conntrack.rs) for UDP Services: two lists, the rules made from them,    *)
(* their application, and the removal of the flows conntrack keeps to      *)
(* backends that left.  Clients send all the while, and the cluster        *)
(* changes between any two calls.                                          *)
(***************************************************************************)
EXTENDS Naturals, FiniteSets

CONSTANTS Ports,        \* UDP Service ports: namespace, name and port
          Vips,         \* ClusterIPs
          Backs,        \* addresses of backends
          BackPorts,    \* port numbers backends listen at
          MaxEdits,     \* bound: changes of the cluster
          MaxRefusals,  \* bound: lists refused, applications that change nothing
          MaxGaps       \* bound: what leaves flows behind (see Gap)

NodePort == "nodePort"

ASSUME ProxyAssumption ==
    MaxEdits \in Nat /\ MaxRefusals \in Nat /\ MaxGaps \in Nat /\ NodePort \notin Vips

VARIABLES pxSvcs, pxEps,  \* the cluster: ClusterIPs of the Service ports there are, ready endpoints
          pxAt,           \* where the pass is
          pxListed,       \* the first list's answer
          pxMap,          \* ServiceMap: a Service port's ClusterIP and endpoints
          pxRules,        \* the rules in the kernel
          pxApplied,      \* applied: the rules last said to be there
          pxUdp,          \* udp_applied: the backends flows were last compared with
          pxDeletes,      \* conntrack deletes still to run
          pxFlows,        \* conntrack: a Service port, the address used, the endpoint sent to
          pxMoved,        \* history: Service ports whose ClusterIP was replaced in place
          pxEdits, pxRefusals, pxGaps

pxVars == <<pxSvcs, pxEps, pxAt, pxListed, pxMap, pxRules, pxApplied, pxUdp, pxDeletes, pxFlows,
            pxMoved, pxEdits, pxRefusals, pxGaps>>
pxCluster == <<pxSvcs, pxEps, pxEdits>>
pxNode == <<pxRules, pxFlows>>
pxKnown == <<pxListed, pxMap, pxApplied, pxUdp, pxDeletes, pxMoved>>

Endpoints == Backs \X BackPorts
\* The endpoint of a flow nobody answers: sent while the rules sent nowhere.
Nowhere == <<"nowhere", 0>>
\* A flow goes to its Service port at an address, or at the node's own by the
\* NodePort (a Service port keeps its own; one without has no such flow).
Flows == Ports \X (Vips \cup {NodePort}) \X (Endpoints \cup {Nowhere})
NoRules == [k \in {} |-> {}]
\* What a map holds of a Service port, and where it sends what comes by an address.
EndpointsOf(map, k) == IF k \in DOMAIN map THEN map[k].eps ELSE {}
BacksOf(map, k) == {e[1] : e \in EndpointsOf(map, k)}
Reached(map, k, by) ==
    IF k \in DOMAIN map /\ by \in {map[k].ip, NodePort} THEN map[k].eps ELSE {}
Refusal == pxRefusals < MaxRefusals /\ pxRefusals' = pxRefusals + 1 /\ UNCHANGED pxGaps
Gap == pxGaps < MaxGaps /\ pxGaps' = pxGaps + 1 /\ UNCHANGED pxRefusals
Well == UNCHANGED <<pxRefusals, pxGaps>>

-----------------------------------------------------------------------------
(* The cluster, and the clients on this node. *)

\* A Service is made, deleted, or deleted and made again with another ClusterIP;
\* its endpoints change (all listen at one number, the target port).
Edit ==
    /\ pxEdits < MaxEdits /\ pxEdits' = pxEdits + 1
    /\ \E k \in Ports :
         \/ pxSvcs' = [j \in DOMAIN pxSvcs \ {k} |-> pxSvcs[j]] /\ UNCHANGED pxEps
         \/ /\ \E v \in Vips : pxSvcs' = [j \in DOMAIN pxSvcs \cup {k} |->
                                             IF j = k THEN v ELSE pxSvcs[j]]
            /\ UNCHANGED pxEps
         \/ /\ \E S \in SUBSET Backs, n \in BackPorts : pxEps' = [pxEps EXCEPT ![k] = S \X {n}]
            /\ UNCHANGED pxSvcs
    /\ UNCHANGED <<pxAt, pxKnown, pxNode>> /\ Well

\* A new flow goes where the rules send it.
Send ==
    /\ \E k \in Ports, by \in Vips \cup {NodePort} :
         /\ \A e \in Endpoints \cup {Nowhere} : <<k, by, e>> \notin pxFlows
         /\ \E e \in IF Reached(pxRules, k, by) = {} THEN {Nowhere} ELSE Reached(pxRules, k, by) :
              pxFlows' = pxFlows \cup {<<k, by, e>>}
    /\ UNCHANGED <<pxCluster, pxAt, pxKnown, pxRules>> /\ Well

-----------------------------------------------------------------------------
(* sync_once. *)

ListServices ==
    /\ pxAt = "idle"
    /\ \/ pxAt' = "services" /\ pxListed' = pxSvcs /\ Well
       \/ Refusal /\ UNCHANGED <<pxAt, pxListed>>
    /\ UNCHANGED <<pxCluster, pxMap, pxApplied, pxUdp, pxDeletes, pxMoved, pxNode>>

\* A failed second list leaves the map as it was.
ListEndpoints ==
    /\ pxAt = "services"
    /\ \/ /\ pxMap' = [k \in DOMAIN pxListed |-> [ip |-> pxListed[k], eps |-> pxEps[k]]]
          /\ pxAt' = "listed" /\ Well
       \/ Refusal /\ pxAt' = "idle" /\ UNCHANGED pxMap
    /\ UNCHANGED <<pxCluster, pxListed, pxApplied, pxUdp, pxDeletes, pxMoved, pxNode>>

RulesOf(map) == [k \in {k \in DOMAIN map : map[k].eps # {}} |-> map[k]]

\* Rules that are there already and not due again are left alone.
LeaveRules ==
    /\ pxAt = "listed" /\ pxApplied = {RulesOf(pxMap)}
    /\ pxAt' = "idle"
    /\ UNCHANGED <<pxCluster, pxKnown, pxNode>> /\ Well

\* Applied and recorded, or refused and tried again by the next pass.  A
\* failure once the rules are in place (a jump that cannot be inserted) is a gap.
Apply ==
    /\ pxAt = "listed"
    /\ \/ /\ pxRules' = RulesOf(pxMap) /\ pxApplied' = {RulesOf(pxMap)} /\ pxAt' = "compare"
          /\ Well
       \/ Refusal /\ pxAt' = "idle" /\ UNCHANGED <<pxRules, pxApplied>>
       \/ Gap /\ pxRules' = RulesOf(pxMap) /\ pxAt' = "idle" /\ UNCHANGED pxApplied
    /\ UNCHANGED <<pxCluster, pxListed, pxMap, pxUdp, pxDeletes, pxMoved, pxFlows>>

\* The flows one conntrack -D takes: all to a ClusterIP (--orig-dst), whichever
\* the Service port, or those a Service port sent to one backend.
ToVip(v) == {f \in Flows : f[2] = v}
ToBack(k, v, a) == {{f \in ToVip(v) : f[3][1] = a},
                    {f \in Flows : f[1] = k /\ f[2] = NodePort /\ f[3][1] = a}}

\* Faulty: the ports that left are not looked at.
StaleOfKept(before, after) ==
    LET First == {k \in DOMAIN after : EndpointsOf(before, k) = {} /\ after[k].eps # {}}
        Gone == {p \in (DOMAIN after) \X Backs : p[2] \in BacksOf(before, p[1]) \ BacksOf(after, p[1])}
    IN  {ToVip(after[k].ip) : k \in First} \cup UNION {ToBack(p[1], after[p[1]].ip, p[2]) : p \in Gone}

\* The deletes that going from before to after calls for: everything to the
\* ClusterIP of a Service port that gains its first endpoint (and nothing by its
\* NodePort), and what went to each backend that left, by the ClusterIP the port
\* has now (the last it had, if it is gone) and by its NodePort.
Stale(before, after) ==
    LET First == {k \in DOMAIN after : EndpointsOf(before, k) = {} /\ after[k].eps # {}}
        Gone == {p \in Ports \X Backs : p[2] \in BacksOf(before, p[1]) \ BacksOf(after, p[1])}
        VipOf(k) == IF k \in DOMAIN after THEN after[k].ip ELSE before[k].ip
    IN  {ToVip(after[k].ip) : k \in First} \cup UNION {ToBack(p[1], VipOf(p[1]), p[2]) : p \in Gone}

\* Service ports with endpoints whose ClusterIP is another than before.
Moving(before, after) ==
    {k \in DOMAIN before \cap DOMAIN after : before[k].ip # after[k].ip /\ before[k].eps # {}}

Compare ==
    /\ pxAt = "compare"
    /\ pxDeletes' = Stale(pxUdp, pxMap) /\ pxUdp' = pxMap /\ pxAt' = "delete"
    /\ pxMoved' = pxMoved \cup Moving(pxUdp, pxMap)
    /\ UNCHANGED <<pxCluster, pxListed, pxMap, pxApplied, pxNode>> /\ Well

\* One conntrack -D after the other; one that fails is not run again.
DeleteFlows ==
    /\ pxAt = "delete"
    /\ \E D \in pxDeletes :
         /\ pxDeletes' = pxDeletes \ {D}
         /\ \/ pxFlows' = pxFlows \ D /\ Well
            \/ pxFlows \cap D # {} /\ Gap /\ UNCHANGED pxFlows
    /\ UNCHANGED <<pxCluster, pxAt, pxListed, pxMap, pxApplied, pxUdp, pxMoved, pxRules>>

PassDone ==
    /\ pxAt = "delete" /\ pxDeletes = {} /\ pxAt' = "idle"
    /\ UNCHANGED <<pxCluster, pxKnown, pxNode>> /\ Well

\* A proxy that starts again knows nothing; the rules and the flows stay.
Restart ==
    /\ Gap
    /\ pxAt' = "idle" /\ pxListed' = NoRules /\ pxMap' = NoRules /\ pxApplied' = {}
    /\ pxUdp' = NoRules /\ pxDeletes' = {}
    /\ UNCHANGED <<pxCluster, pxMoved, pxNode>>

-----------------------------------------------------------------------------
PxInit ==
    /\ pxSvcs = NoRules /\ pxEps = [k \in Ports |-> {}] /\ pxAt = "idle" /\ pxListed = NoRules
    /\ pxMap = NoRules /\ pxRules = NoRules /\ pxApplied = {} /\ pxUdp = NoRules
    /\ pxDeletes = {} /\ pxFlows = {} /\ pxMoved = {} /\ pxEdits = 0 /\ pxRefusals = 0 /\ pxGaps = 0

Pass == ListServices \/ ListEndpoints \/ LeaveRules \/ Apply \/ Compare \/ DeleteFlows \/ PassDone

PxNext == Edit \/ Send \/ Pass \/ Restart

\* Rules older than resync_interval are applied again, the same or not.
PxFairness == WF_pxVars(Pass) /\ SF_pxVars(Apply)

PxSpec == PxInit /\ [][PxNext]_pxVars /\ PxFairness

-----------------------------------------------------------------------------
(* Properties. *)

PxTypeOK ==
    /\ DOMAIN pxSvcs \subseteq Ports /\ pxEps \in [Ports -> SUBSET Endpoints]
    /\ \A k \in DOMAIN pxSvcs : pxSvcs[k] \in Vips
    /\ pxAt \in {"idle", "services", "listed", "compare", "delete"}
    /\ \A map \in {pxMap, pxRules, pxUdp} :
         /\ DOMAIN map \subseteq Ports
         /\ \A k \in DOMAIN map : map[k] \in [ip : Vips, eps : SUBSET Endpoints]
    /\ pxFlows \subseteq Flows
    /\ pxMoved \subseteq Ports

\* Between two passes every flow goes to the address of a backend the rules send
\* it to, or nowhere if they send it nowhere (#147), whatever the cluster did
\* between the two lists and whoever sent between the rules and the deletes.
\* What the code leaves behind, and this does not claim: a flow sent by NodePort
\* before the Service port had an endpoint keeps going nowhere (only the
\* ClusterIP's are deleted then); once a Service was deleted and made again with
\* another ClusterIP between two passes, flows by either ClusterIP are not
\* followed up (the deletes name the new one); an endpoint whose port number
\* changed keeps its flows (addresses alone are compared); and after a gap (an
\* application that failed half-way, a delete that failed, a restart) a flow may
\* keep a backend that left.
FlowsFollowRules ==
    pxAt = "idle" /\ pxGaps = 0 =>
        \A f \in pxFlows :
            LET S == Reached(pxRules, f[1], f[2]) IN
            \/ f[3][1] \in {e[1] : e \in S}
            \/ f[3] = Nowhere /\ (S = {} \/ f[2] = NodePort)
            \/ f[1] \in pxMoved /\ f[2] # NodePort

\* The rules are what the cluster says.  A list or an application that fails is
\* tried again (#145), and rules that went in without being recorded are written
\* over when the last ones are due again.
RulesCurrent == pxRules = RulesOf([k \in DOMAIN pxSvcs |-> [ip |-> pxSvcs[k], eps |-> pxEps[k]]])
=============================================================================
