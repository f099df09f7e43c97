-------------------------------- MODULE MCPod --------------------------------
(* A Pod with an init container, a sidecar declared after it, and an app     *)
(* container with a liveness probe.                                          *)
EXTENDS PodLifecycle

MCInits == <<"init", "side">>
MCApps == <<"app">>

\* What the kubelet gets over: everything but a restart's stop that fails and,
\* on stormpump, a restart's start or a finished Pod's sidecar that fails.
Survivable == [r \in {"cri", "ring"} |->
                 FaultKinds \ (IF r = "cri" THEN {"replace"} ELSE {"replace", "restart", "finish"})]
OneCrash == [r \in {"cri", "ring"} |-> 1]

\* A container's start refused while it is restarted, on stormpump.
RestartFails == [r \in {"ring"} |-> {"restart"}]
NoCrash == [r \in {"ring"} |-> 0]
=============================================================================
