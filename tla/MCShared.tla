------------------------------ MODULE MCShared ------------------------------
(***************************************************************************)
(* A Pod, a static Pod and a VM over one claim, in two scenes explored one *)
(* at a time: the admission table alone, every method called by every key  *)
(* in every order; and the node a crashed kubelet leaves behind.           *)
(***************************************************************************)
EXTENDS MCWorkloads

VARIABLE scene

\* The node around a table of which the methods are called freely.
Around == <<api, up, staged, record, desired, synced, parked, timer, pass, loop, running,
            crashes, faults, wakes, changes>>

TableAlone ==
    /\ TableInit
    /\ api = [k \in Keys |-> "absent"] /\ up = {} /\ staged = {}
    /\ record = [k \in Keys |-> "none"] /\ desired = [k \in Keys |-> "none"]
    /\ synced = {} /\ parked = {} /\ timer = {}
    /\ pass = [k \in Keys |-> NoPass] /\ loop = [l \in Loops |-> IdleLoop]
    /\ running = FALSE
    /\ crashes = 0 /\ faults = 0 /\ wakes = 0 /\ changes = 0

\* At most one workload on its way out: two at once are the run of the two Pods.
OneLeaves == \A k, l \in Keys :
    api[k] \in {"deleting", "gone"} /\ api[l] \in {"deleting", "gone"} => k = l

SharedInit ==
    \/ scene = "table" /\ TableAlone
    \/ scene = "node" /\ Restart /\ OneLeaves
SharedNext ==
    /\ UNCHANGED scene
    /\ \/ scene = "table" /\ TableNext /\ UNCHANGED Around
       \/ scene = "node" /\ Next
SharedSpec == SharedInit /\ [][SharedNext]_<<vars, scene>>
=============================================================================
