------------------------------- MODULE MCParts -------------------------------
(***************************************************************************)
(* Four components that share no state, explored one at a time: which one  *)
(* is chosen in the initial state.                                         *)
(***************************************************************************)
EXTENDS Containers, Networks, CrashLoop, Proxy

VARIABLE part

Runtime == part = "containers" /\ CtNext /\ UNCHANGED <<nwVars, crVars, pxVars>>
Cni == part = "networks" /\ NwNext /\ UNCHANGED <<ctVars, crVars, pxVars>>
BackOff == part = "crashloop" /\ CrNext /\ UNCHANGED <<ctVars, nwVars, pxVars>>
KubeProxy == part = "proxy" /\ PxNext /\ UNCHANGED <<ctVars, nwVars, crVars>>

PartsVars == <<ctVars, nwVars, crVars, pxVars, part>>

PartsInit ==
    /\ part \in {"containers", "networks", "crashloop", "proxy"}
    /\ CtInit /\ NwInit /\ CrInit /\ PxInit

PartsNext == (Runtime \/ Cni \/ BackOff \/ KubeProxy) /\ UNCHANGED part

\* Each component's fairness, where it is the one that runs.
In(p, A) == part = p /\ A
PartsFairness ==
    /\ \A d \in Callers : WF_ctVars(In("containers", Noting(d)))
    /\ \A c \in Cts : /\ WF_ctVars(In("containers", RetryForBox(c)))
                      /\ WF_ctVars(In("containers", ctProc[c] = "stopping" /\ End(c)))
    /\ WF_pxVars(In("proxy", Pass)) /\ SF_pxVars(In("proxy", Apply))

PartsSpec == PartsInit /\ [][PartsNext]_PartsVars /\ PartsFairness

\* The type invariants of the four.
PartsTypeOK == CtTypeOK /\ NwTypeOK /\ CrTypeOK /\ PxTypeOK

\* What is tried again comes to its end, whatever fails meanwhile: the removals
\* the engine refused (finish_removal), the proxy's rules (sync_once).
PartsSettle ==
    <>[](/\ part = "containers" => RemovalsOver
         /\ part = "proxy" => RulesCurrent)
=============================================================================
