----------------------------- MODULE NodeObject -----------------------------
(***************************************************************************)
(* The node's own object in the apiserver (node_status.rs, kubelet.rs).    *)
(* Two tasks of a kubelet write it, each with a reporter of its own: one   *)
(* registers the node once, the other beats every interval, and registers  *)
(* it again when it is gone.  Both read the object's conditions and boot   *)
(* id and then write the whole status; others write it too.                *)
(***************************************************************************)
EXTENDS Naturals

CONSTANTS MaxBoots,     \* bound: boots of the node
          MaxTurns,     \* bound: starts of the kubelet, deletions of the Node, flips of KVM
          MaxUnheard    \* bound: calls the apiserver does not answer

ASSUME NodeAssumption ==
    MaxBoots \in Nat \ {0} /\ MaxTurns \in Nat /\ MaxUnheard \in Nat

VARIABLES ndNode,       \* the Node, or NoNode
          ndBoot,       \* this boot
          ndKvm,        \* kvm_available: "on" or "off"
          ndAt,         \* each task's next step
          ndSaw,        \* what its current_status answered
          ndLabelled,   \* kvm_labelled: what the heartbeat last wrote
          ndOdds,       \* turns and unheard calls so far
          ndHist        \* history: see NoHist

ndVars == <<ndNode, ndBoot, ndKvm, ndAt, ndSaw, ndLabelled, ndOdds, ndHist>>

Reporters == {"registration", "heartbeat"}
NoNode == [there |-> FALSE, taints |-> FALSE, ready |-> "unknown", boot |-> 0, foreign |-> FALSE, kvm |-> "off"]
Unread == [boot |-> 0, foreign |-> FALSE]

\* old: the Node was there before this boot; shown: it has said NotReady for it;
\* missed: a read failed in this boot; wiped: a foreign condition was lost;
\* crossed: it came between a read and a write, or a read failed;
\* freed: the taints were taken off; remade: it was deleted since the kubelet started;
\* lost: its labels were patched and the answer did not come, nor one since.
NoHist == [old |-> FALSE, shown |-> FALSE, missed |-> FALSE, wiped |-> FALSE, crossed |-> FALSE,
           freed |-> FALSE, remade |-> FALSE, lost |-> FALSE]

Heard == UNCHANGED ndOdds
Turn == ndOdds.turns < MaxTurns /\ ndOdds' = [ndOdds EXCEPT !.turns = @ + 1]
Unheard == ndOdds.unheard < MaxUnheard /\ ndOdds' = [ndOdds EXCEPT !.unheard = @ + 1]
Goes(r, from, to) == ndAt[r] = from /\ ndAt' = [ndAt EXCEPT ![r] = to]
\* Where a task is after its status write, and after one that failed.
After(r) == IF r = "registration" THEN "done" ELSE "label"
Failed(r) == IF r = "registration" THEN "post" ELSE "label"

-----------------------------------------------------------------------------
(* register *)

\* A fresh Node: taints where the reporter has them, KVM as it is, Ready.
Fresh(tainted) ==
    [there |-> TRUE, taints |-> tainted, ready |-> "yes", boot |-> ndBoot, foreign |-> FALSE, kvm |-> ndKvm]
Made == [ndHist EXCEPT !.old = FALSE, !.freed = FALSE]

\* The registration task, built with the labels, annotations and taints of the
\* command line: POST, and a status write if the Node exists; retried on failure.
Register ==
    /\ UNCHANGED <<ndBoot, ndKvm, ndSaw, ndLabelled>>
    /\ \/ /\ ~ ndNode.there /\ ndNode' = Fresh(TRUE) /\ ndHist' = Made
          /\ \/ Goes("registration", "post", "done") /\ Heard
             \/ Goes("registration", "post", "post") /\ Unheard
       \/ /\ ndNode.there /\ Goes("registration", "post", "read")
          /\ Heard /\ UNCHANGED <<ndNode, ndHist>>
       \/ ndAt["registration"] = "post" /\ Unheard /\ UNCHANGED <<ndNode, ndAt, ndHist>>

\* The heartbeat finds no Node and registers with its own reporter, built
\* without them.
ReRegister ==
    /\ UNCHANGED <<ndBoot, ndKvm, ndSaw, ndLabelled>>
    /\ \/ /\ ~ ndNode.there /\ ndNode' = Fresh(FALSE) /\ ndHist' = Made
          /\ Goes("heartbeat", "register", "label") /\ (Heard \/ Unheard)
       \/ /\ ndNode.there /\ Goes("heartbeat", "register", "reread")
          /\ Heard /\ UNCHANGED <<ndNode, ndHist>>
       \/ Goes("heartbeat", "register", "label") /\ Unheard /\ UNCHANGED <<ndNode, ndHist>>

-----------------------------------------------------------------------------
(* put_node_status *)

\* The lease is renewed, or made; the status follows whatever came of it.
Beat ==
    /\ Goes("heartbeat", "idle", "read")
    /\ UNCHANGED <<ndNode, ndBoot, ndKvm, ndSaw, ndLabelled, ndOdds, ndHist>>

\* current_status: no answer, or no Node, reads as no conditions and no boot id.
CurrentStatus(r) ==
    /\ Goes(r, "read", "put") \/ Goes(r, "reread", "reput")
    /\ \/ /\ Heard /\ UNCHANGED ndHist
          /\ ndSaw' = [ndSaw EXCEPT ![r] = [boot |-> ndNode.boot, foreign |-> ndNode.foreign]]
       \/ /\ Unheard /\ ndSaw' = [ndSaw EXCEPT ![r] = Unread]
          /\ ndHist' = [ndHist EXCEPT !.missed = TRUE, !.crossed = TRUE]
    /\ UNCHANGED <<ndNode, ndBoot, ndKvm, ndLabelled>>

Rebooted(r) == ndSaw[r].boot \notin {0, ndBoot}

\* Faulty: conditions of others are not carried over.
StatusOwnOnly(r) ==
    [ndNode EXCEPT !.ready = IF Rebooted(r) THEN "no" ELSE "yes", !.boot = ndBoot, !.foreign = FALSE]

\* Faulty: a node that rebooted is Ready at once.
StatusReady(r) == [ndNode EXCEPT !.ready = "yes", !.boot = ndBoot, !.foreign = ndSaw[r].foreign]

\* status_with: the owned conditions, and the others as they were read; a boot
\* id other than this boot's makes this write say NotReady.
StatusWith(r) ==
    [ndNode EXCEPT !.ready = IF Rebooted(r) THEN "no" ELSE "yes", !.boot = ndBoot, !.foreign = ndSaw[r].foreign]

PutGoes(r, to) == Goes(r, "put", to) \/ Goes(r, "reput", to)

\* The PUT of /status, without a resourceVersion: 404 sends the heartbeat to
\* register, and is an error to the registration (and after a 409).  One that
\* is not answered is an error, done or not.
PutStatus(r) ==
    /\ \/ /\ ndNode.there /\ ndNode' = StatusWith(r)
          /\ \E answered \in BOOLEAN :
                /\ IF answered THEN Heard ELSE Unheard
                /\ PutGoes(r, IF ~ answered THEN Failed(r) ELSE IF Rebooted(r) THEN "event" ELSE After(r))
          /\ ndHist' = [ndHist EXCEPT !.wiped = @ \/ (ndNode.foreign /\ ~ ndNode'.foreign),
                                      !.crossed = @ \/ (ndNode'.foreign /\ ~ ndNode.foreign),
                                      !.shown = @ \/ ndNode'.ready = "no"]
       \/ /\ ~ ndNode.there /\ Heard /\ UNCHANGED <<ndNode, ndHist>>
          /\ Goes(r, "put", IF r = "heartbeat" THEN "register" ELSE Failed(r)) \/ Goes(r, "reput", Failed(r))
       \/ /\ Unheard /\ UNCHANGED <<ndNode, ndHist>>
          /\ PutGoes(r, Failed(r))
    /\ UNCHANGED <<ndBoot, ndKvm, ndSaw, ndLabelled>>

\* record_reboot, best effort.
RecordReboot(r) ==
    /\ Goes(r, "event", After(r))
    /\ Heard \/ Unheard
    /\ UNCHANGED <<ndNode, ndBoot, ndKvm, ndSaw, ndLabelled, ndHist>>

\* A patch of the labels, made or not, whose answer does not come.
PatchLost ==
    /\ ndLabelled # ndKvm /\ Unheard
    /\ \/ UNCHANGED <<ndNode, ndHist>>
       \/ /\ ndNode.there /\ ndNode' = [ndNode EXCEPT !.kvm = ndKvm]
          /\ ndHist' = [ndHist EXCEPT !.lost = TRUE]

\* Faulty: noted as written before it is.
LabelsNotedFirst ==
    /\ Goes("heartbeat", "label", "idle") /\ ndLabelled' = ndKvm
    /\ \/ (ndLabelled = ndKvm \/ ~ ndNode.there) /\ Heard /\ UNCHANGED <<ndNode, ndHist>>
       \/ /\ ndLabelled # ndKvm /\ ndNode.there /\ Heard
          /\ ndNode' = [ndNode EXCEPT !.kvm = ndKvm] /\ ndHist' = [ndHist EXCEPT !.lost = FALSE]
       \/ PatchLost
    /\ UNCHANGED <<ndBoot, ndKvm, ndSaw>>

\* sync_kvm_labels: patched when KVM is not what was last written.
SyncKvmLabels ==
    /\ Goes("heartbeat", "label", "idle")
    /\ \/ ndLabelled = ndKvm /\ Heard /\ UNCHANGED <<ndNode, ndLabelled, ndHist>>
       \/ /\ ndLabelled # ndKvm /\ ndNode.there /\ Heard
          /\ ndNode' = [ndNode EXCEPT !.kvm = ndKvm] /\ ndLabelled' = ndKvm
          /\ ndHist' = [ndHist EXCEPT !.lost = FALSE]
       \/ ndLabelled # ndKvm /\ ~ ndNode.there /\ Heard /\ UNCHANGED <<ndNode, ndLabelled, ndHist>>
       \/ PatchLost /\ UNCHANGED ndLabelled
    /\ UNCHANGED <<ndBoot, ndKvm, ndSaw>>

-----------------------------------------------------------------------------
(* The others, and the kubelet's life. *)

\* Another component adds a condition of its own (Cilium, a problem detector).
ForeignWrites ==
    /\ ndNode.there /\ ~ ndNode.foreign /\ ~ ndHist.wiped
    /\ ndNode' = [ndNode EXCEPT !.foreign = TRUE]
    /\ ndHist' = [ndHist EXCEPT !.crossed = @ \/ \E r \in Reporters : ndAt[r] \in {"put", "reput"}]
    /\ UNCHANGED <<ndBoot, ndKvm, ndAt, ndSaw, ndLabelled, ndOdds>>

\* Whoever makes the node usable takes the taints off.
TaintsRemoved ==
    /\ ndNode.taints /\ ndNode' = [ndNode EXCEPT !.taints = FALSE]
    /\ ndHist' = [ndHist EXCEPT !.freed = TRUE]
    /\ UNCHANGED <<ndBoot, ndKvm, ndAt, ndSaw, ndLabelled, ndOdds>>

NodeDeleted ==
    /\ ndNode.there /\ ndNode' = NoNode
    /\ Turn
    /\ ndHist' = [ndHist EXCEPT !.freed = FALSE, !.remade = TRUE]
    /\ UNCHANGED <<ndBoot, ndKvm, ndAt, ndSaw, ndLabelled>>

KvmFlips ==
    /\ Turn
    /\ ndKvm' = IF ndKvm = "on" THEN "off" ELSE "on"
    /\ UNCHANGED <<ndNode, ndBoot, ndAt, ndSaw, ndLabelled, ndHist>>

Begin == [r \in Reporters |-> IF r = "registration" THEN "post" ELSE "idle"]

\* The kubelet starts again, on the same boot or on the next.
KubeletStarts ==
    /\ Turn
    /\ \/ /\ UNCHANGED ndBoot
          /\ ndHist' = [ndHist EXCEPT !.remade = FALSE, !.lost = FALSE]
       \/ /\ ndBoot < MaxBoots /\ ndBoot' = ndBoot + 1
          /\ ndHist' = [ndHist EXCEPT !.old = ndNode.there, !.shown = FALSE, !.missed = FALSE,
                                      !.remade = FALSE, !.lost = FALSE]
    /\ ndAt' = Begin /\ ndSaw' = [r \in Reporters |-> Unread] /\ ndLabelled' = "none"
    /\ UNCHANGED <<ndNode, ndKvm>>

NdInit ==
    /\ ndNode = NoNode /\ ndBoot = 1 /\ ndKvm \in {"on", "off"} /\ ndAt = Begin
    /\ ndSaw = [r \in Reporters |-> Unread] /\ ndLabelled = "none"
    /\ ndOdds = [turns |-> 0, unheard |-> 0] /\ ndHist = NoHist

Registration == Register \/ CurrentStatus("registration") \/ PutStatus("registration")
                         \/ RecordReboot("registration")
Heartbeat == Beat \/ CurrentStatus("heartbeat") \/ PutStatus("heartbeat") \/ RecordReboot("heartbeat")
                  \/ ReRegister \/ SyncKvmLabels

NdNext == Registration \/ Heartbeat \/ ForeignWrites \/ TaintsRemoved \/ NodeDeleted \/ KvmFlips \/ KubeletStarts

\* Both tasks keep running: the heartbeat on its interval, the registration
\* with its back-off until it is through.
NdSpec == NdInit /\ [][NdNext]_ndVars /\ WF_ndVars(Registration) /\ WF_ndVars(Heartbeat)

-----------------------------------------------------------------------------
NdTypeOK ==
    /\ ndNode \in [there : BOOLEAN, taints : BOOLEAN, ready : {"unknown", "yes", "no"}, boot : 0..MaxBoots,
                   foreign : BOOLEAN, kvm : {"on", "off"}]
    /\ ndBoot \in 1..MaxBoots /\ ndKvm \in {"on", "off"} /\ ndLabelled \in {"on", "off", "none"}
    /\ ndAt \in [Reporters -> {"post", "done", "idle", "read", "put", "event", "register", "reread", "reput", "label"}]
    /\ ndSaw \in [Reporters -> [boot : 0..MaxBoots, foreign : BOOLEAN]]

\* A status write of the kubelet's loses no condition of another component,
\* except one written between its read and its write, or after a read that failed.
ForeignKept == ndHist.wiped => ndHist.crossed

\* A reboot shows: a Node from before this boot is not Ready for it until it
\* has said NotReady once, unless a read failed.
RebootShows ==
    ndHist.old /\ ndNode.there /\ ndNode.boot = ndBoot /\ ndNode.ready = "yes" => ndHist.shown \/ ndHist.missed

\* Taints that were taken off do not come back while the Node lives.
TaintsStayOff == ndHist.freed => ~ ndNode.taints

\* What others wrote on the Node, and what it says of a reboot, survive two
\* tasks that each read it and write it whole.
NodeKept == ForeignKept /\ RebootShows /\ TaintsStayOff

\* A Node this kubelet made has the registration's taints until they are taken
\* off: no workload comes to a node that cannot carry it yet.
RegisteredTainted == ndNode.there /\ ~ ndHist.freed => ndNode.taints

\* The Node is there, Ready for this boot, and its labels say what KVM is,
\* unless the Node was made again under the heartbeat's memory of them, or a
\* patch was made without an answer and KVM is again what the heartbeat last
\* heard it wrote.
NodeCurrent ==
    /\ ndNode.there /\ ndNode.ready = "yes" /\ ndNode.boot = ndBoot
    /\ ndNode.kvm = ndKvm \/ ndHist.remade \/ (ndHist.lost /\ ndLabelled = ndKvm)
=============================================================================
