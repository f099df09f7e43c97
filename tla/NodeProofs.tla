----------------------------- MODULE NodeProofs -----------------------------
(***************************************************************************)
(* What NodeObject.tla, Probes.tla and ClaimVolumes.tla promise for every  *)
(* value of their constants.                                               *)
(***************************************************************************)
EXTENDS MCNode, FiniteSetTheorems, WellFoundedInduction, TLAPS

-----------------------------------------------------------------------------
(* The node's own object. *)

\* Between its read and its write a task knows of every condition another
\* component has put on the Node, unless one crossed it.
Aware ==
    \A r \in Reporters :
        ndAt[r] \in {"put", "reput"} /\ ndNode.foreign /\ ~ ndSaw[r].foreign => ndHist.crossed

\* Until the Node has said NotReady for a boot, it has the boot id of an
\* earlier one, and whoever is about to write it has read that id.
Unshown == ndHist.old /\ ndNode.there /\ ~ ndHist.shown /\ ~ ndHist.missed
OldBoot(n) == n \notin {0, ndBoot}
RebootUnderWay ==
    /\ ndNode.there => ndNode.boot \in 1..ndBoot
    /\ Unshown => /\ OldBoot(ndNode.boot)
                  /\ \A r \in Reporters : ndAt[r] \in {"put", "reput"} => OldBoot(ndSaw[r].boot)

\* The types of the Node and of the history.
NodeType ==
    [there : BOOLEAN, taints : BOOLEAN, ready : {"unknown", "yes", "no"}, boot : 0..MaxBoots,
     foreign : BOOLEAN, kvm : {"on", "off"}]
HistType ==
    [old : BOOLEAN, shown : BOOLEAN, missed : BOOLEAN, wiped : BOOLEAN, crossed : BOOLEAN,
     freed : BOOLEAN, remade : BOOLEAN, lost : BOOLEAN]
NdHistType == ndHist \in HistType

NdInv == NdTypeOK /\ NdHistType /\ Aware /\ RebootUnderWay /\ ForeignKept /\ TaintsStayOff

\* The node's reporters keep their types, and what is known of a boot and of
\* the conditions of others, at every step.
LEMMA NdInvInit == NdInit => NdInv
<1> SUFFICES ASSUME NdInit PROVE NdInv
    OBVIOUS
<1>1. NdTypeOK /\ NdHistType
    BY NodeAssumption DEF NdInit, NdTypeOK, NdHistType, HistType, NoHist, NoNode, Unread, Begin, Reporters
<1>2. Aware /\ RebootUnderWay /\ ForeignKept /\ TaintsStayOff
    BY DEF NdInit, Aware, RebootUnderWay, Unshown, ForeignKept, TaintsStayOff, NoHist, NoNode, Unread
<1> QED BY <1>1, <1>2 DEF NdInv

\* Between a task's read of the Node and its write.
Writing(r) == ndAt[r] \in {"put", "reput"}

LEMMA NdTypeStep == NdTypeOK /\ NdHistType /\ [NdNext]_ndVars => NdTypeOK' /\ NdHistType'
<1> SUFFICES ASSUME NdTypeOK, NdHistType, [NdNext]_ndVars PROVE NdTypeOK' /\ NdHistType'
    OBVIOUS
<1> DEFINE AtType == [Reporters -> {"post", "done", "idle", "read", "put", "event", "register", "reread", "reput", "label"}]
           SawType == [Reporters -> [boot : 0..MaxBoots, foreign : BOOLEAN]]
           Typed == ndNode' \in NodeType /\ ndHist' \in HistType
           Clock == ndBoot' \in 1..MaxBoots /\ ndKvm' \in {"on", "off"} /\ ndLabelled' \in {"on", "off", "none"}
<1>1. /\ ndNode \in NodeType /\ ndHist \in HistType /\ ndAt \in AtType /\ ndSaw \in SawType
      /\ ndBoot \in 1..MaxBoots /\ ndKvm \in {"on", "off"} /\ ndLabelled \in {"on", "off", "none"}
    BY DEF NdTypeOK, NdHistType, NodeType, HistType
<1>2. /\ ndNode.there \in BOOLEAN /\ ndNode.boot \in 0..MaxBoots /\ ndNode.foreign \in BOOLEAN
      /\ \A r \in Reporters : ndSaw[r].boot \in 0..MaxBoots /\ ndSaw[r].foreign \in BOOLEAN
    BY <1>1 DEF NodeType
<1>3. ASSUME NEW r \in Reporters, NEW from, NEW to, Goes(r, from, to),
             to \in {"post", "done", "idle", "read", "put", "event", "register", "reread", "reput", "label"}
      PROVE  ndAt' \in AtType
    BY <1>1, <1>3 DEF Goes
<1>4. Clock
    <2>1. CASE KvmFlips \/ SyncKvmLabels
        BY <1>1, <2>1 DEF KvmFlips, SyncKvmLabels
    <2>2. CASE KubeletStarts
        BY <1>1, <2>2, NodeAssumption DEF KubeletStarts
    <2>3. CASE UNCHANGED <<ndBoot, ndKvm, ndLabelled>>
        BY <1>1, <2>3
    <2> QED BY <2>1, <2>2, <2>3
        DEF NdNext, Registration, Heartbeat, Register, ReRegister, Beat, CurrentStatus, PutStatus, RecordReboot,
            ForeignWrites, TaintsRemoved, NodeDeleted, ndVars
<1>5. ndAt' \in AtType
    <2>1. CASE \E r \in Reporters : CurrentStatus(r) \/ PutStatus(r) \/ RecordReboot(r)
        BY <1>3, <2>1 DEF CurrentStatus, PutStatus, PutGoes, RecordReboot, After, Failed
    <2>2. CASE Register \/ ReRegister \/ Beat \/ SyncKvmLabels
        BY <1>1, <1>3, <2>2 DEF Register, ReRegister, Beat, SyncKvmLabels, Reporters
    <2>3. CASE ForeignWrites \/ TaintsRemoved \/ NodeDeleted \/ KvmFlips \/ UNCHANGED ndVars
        BY <1>1, <2>3 DEF ForeignWrites, TaintsRemoved, NodeDeleted, KvmFlips, ndVars
    <2>4. CASE KubeletStarts
        BY <2>4 DEF KubeletStarts, Begin
    <2> QED BY <2>1, <2>2, <2>3, <2>4 DEF NdNext, Registration, Heartbeat, Reporters
<1>6. ndSaw' \in SawType
    <2>1. ASSUME NEW r \in Reporters, CurrentStatus(r) PROVE ndSaw' \in SawType
        <3>1. [boot |-> ndNode.boot, foreign |-> ndNode.foreign] \in [boot : 0..MaxBoots, foreign : BOOLEAN]
            BY <1>2
        <3>2. Unread \in [boot : 0..MaxBoots, foreign : BOOLEAN]
            BY NodeAssumption DEF Unread
        <3> QED BY <1>1, <2>1, <3>1, <3>2 DEF CurrentStatus
    <2>2. CASE KubeletStarts
        BY <2>2, NodeAssumption DEF KubeletStarts, Unread
    <2>3. CASE UNCHANGED ndSaw
        BY <1>1, <2>3
    <2> QED BY <2>1, <2>2, <2>3
        DEF NdNext, Registration, Heartbeat, Register, ReRegister, Beat, PutStatus, RecordReboot, SyncKvmLabels,
            ForeignWrites, TaintsRemoved, NodeDeleted, KvmFlips, ndVars, Reporters
<1>7. ndNode' \in NodeType
    <2>1. ASSUME NEW t \in BOOLEAN PROVE Fresh(t) \in NodeType
        BY <1>1, NodeAssumption DEF Fresh, NodeType
    <2>2. ASSUME NEW r \in Reporters PROVE StatusWith(r) \in NodeType
        <3>1. /\ (IF Rebooted(r) THEN "no" ELSE "yes") \in {"unknown", "yes", "no"}
              /\ ndBoot \in 0..MaxBoots /\ ndSaw[r].foreign \in BOOLEAN
            BY <1>1, <1>2
        <3>2. \A x \in {"unknown", "yes", "no"}, b \in 0..MaxBoots, f \in BOOLEAN :
                  [ndNode EXCEPT !.ready = x, !.boot = b, !.foreign = f] \in NodeType
            BY <1>1 DEF NodeType
        <3> QED BY <3>1, <3>2 DEF StatusWith
    <2>3. NoNode \in NodeType
        BY NodeAssumption DEF NoNode, NodeType
    <2>4. [ndNode EXCEPT !.foreign = TRUE] \in NodeType
        BY <1>1 DEF NodeType
    <2>5. [ndNode EXCEPT !.taints = FALSE] \in NodeType
        BY <1>1 DEF NodeType
    <2>6. [ndNode EXCEPT !.kvm = ndKvm] \in NodeType
        BY <1>1 DEF NodeType
    <2> QED BY <1>1, <2>1, <2>2, <2>3, <2>4, <2>5, <2>6
        DEF NdNext, Registration, Heartbeat, Register, ReRegister, Beat, CurrentStatus, PutStatus, RecordReboot,
            SyncKvmLabels, PatchLost, ForeignWrites, TaintsRemoved, NodeDeleted, KvmFlips, KubeletStarts, ndVars,
            Reporters
<1>8. ndHist' \in HistType
    <2>1. Made \in HistType
        BY <1>1 DEF Made, HistType
    <2>2. ASSUME NEW r \in Reporters, CurrentStatus(r) PROVE ndHist' \in HistType
        BY <1>1, <2>2 DEF CurrentStatus, HistType
    <2>3. ASSUME NEW r \in Reporters, PutStatus(r) PROVE ndHist' \in HistType
        BY <1>1, <2>3 DEF PutStatus, HistType
    <2>4. CASE ForeignWrites
        BY <1>1, <2>4 DEF ForeignWrites, HistType
    <2>5. CASE TaintsRemoved \/ NodeDeleted
        BY <1>1, <2>5 DEF TaintsRemoved, NodeDeleted, HistType
    <2>6. CASE KubeletStarts
        BY <1>1, <1>2, <2>6 DEF KubeletStarts, HistType
    <2>7. CASE SyncKvmLabels
        BY <1>1, <2>7 DEF SyncKvmLabels, PatchLost, HistType
    <2>8. CASE UNCHANGED ndHist
        BY <1>1, <2>8
    <2> QED BY <2>1, <2>2, <2>3, <2>4, <2>5, <2>6, <2>7, <2>8
        DEF NdNext, Registration, Heartbeat, Register, ReRegister, Beat, RecordReboot, KvmFlips, ndVars, Reporters
<1> QED BY <1>4, <1>5, <1>6, <1>7, <1>8 DEF NdTypeOK, NdHistType, NodeType, HistType

\* A step that brings no task to a write and leaves what the Node says of boots
\* and of others as it is keeps what is known of them.
LEMMA Quiet ==
    ASSUME NdInv, UNCHANGED <<ndBoot, ndSaw>>,
           ndNode'.there = ndNode.there, ndNode'.boot = ndNode.boot, ndNode'.foreign = ndNode.foreign,
           \A r \in Reporters : Writing(r)' => Writing(r),
           ndHist'.old = ndHist.old, ndHist'.shown = ndHist.shown, ndHist'.missed = ndHist.missed,
           ndHist'.wiped = ndHist.wiped, ndHist'.crossed = ndHist.crossed
    PROVE  Aware' /\ RebootUnderWay' /\ ForeignKept'
BY DEF NdInv, Aware, RebootUnderWay, Unshown, OldBoot, ForeignKept, Writing

\* A Node made anew has no past.
LEMMA Remade ==
    ASSUME NdInv, UNCHANGED <<ndBoot, ndSaw>>, NEW t \in BOOLEAN, ndNode' = Fresh(t), ndHist' = Made
    PROVE  Aware' /\ RebootUnderWay' /\ ForeignKept' /\ TaintsStayOff'
<1>1. /\ ndHist'.old = FALSE /\ ndHist'.freed = FALSE
      /\ ndHist'.wiped = ndHist.wiped /\ ndHist'.crossed = ndHist.crossed
    BY DEF Made, NdInv, NdHistType, HistType
<1>2. ndNode'.foreign = FALSE /\ ndNode'.boot = ndBoot
    BY DEF Fresh
<1>3. Aware' /\ TaintsStayOff'
    BY <1>1, <1>2 DEF Aware, TaintsStayOff
<1>4. RebootUnderWay'
    BY <1>1, <1>2 DEF RebootUnderWay, Unshown, NdInv, NdTypeOK
<1>5. ForeignKept'
    BY <1>1 DEF ForeignKept, NdInv
<1> QED BY <1>3, <1>4, <1>5

LEMMA NdInvStep == NdInv /\ [NdNext]_ndVars => NdInv'
<1> SUFFICES ASSUME NdInv, [NdNext]_ndVars PROVE NdInv'
    OBVIOUS
<1>1. NdTypeOK' /\ NdHistType'
    BY NdTypeStep DEF NdInv
<1>2. /\ ndNode \in NodeType /\ ndHist \in HistType
      /\ ndNode.there \in BOOLEAN /\ ndNode.foreign \in BOOLEAN /\ ndBoot \in 1..MaxBoots
    BY DEF NdInv, NdTypeOK, NdHistType, NodeType, HistType
<1> DEFINE Rest == Aware' /\ RebootUnderWay' /\ ForeignKept' /\ TaintsStayOff'
<1> SUFFICES Rest
    BY <1>1 DEF NdInv
<1>3. CASE Register
    <2>1. CASE ~ ndNode.there /\ ndNode' = Fresh(TRUE) /\ ndHist' = Made
        BY <1>3, <2>1, Remade DEF Register
    <2>2. CASE UNCHANGED <<ndNode, ndHist>>
        <3>1. \A r \in Reporters : Writing(r)' => Writing(r)
            BY <1>3, <2>2 DEF Register, Goes, Writing, Reporters, NdInv, NdTypeOK
        <3> QED BY <1>3, <2>2, <3>1, Quiet DEF Register, NdInv, TaintsStayOff
    <2> QED BY <1>3, <2>1, <2>2 DEF Register
<1>4. CASE ReRegister
    <2>1. CASE ~ ndNode.there /\ ndNode' = Fresh(FALSE) /\ ndHist' = Made
        BY <1>4, <2>1, Remade DEF ReRegister
    <2>2. CASE UNCHANGED <<ndNode, ndHist>>
        <3>1. \A r \in Reporters : Writing(r)' => Writing(r)
            BY <1>4, <2>2 DEF ReRegister, Goes, Writing, Reporters, NdInv, NdTypeOK
        <3> QED BY <1>4, <2>2, <3>1, Quiet DEF ReRegister, NdInv, TaintsStayOff
    <2> QED BY <1>4, <2>1, <2>2 DEF ReRegister
<1>5. CASE Beat
    <2>1. \A r \in Reporters : Writing(r)' => Writing(r)
        BY <1>5 DEF Beat, Goes, Writing, Reporters, NdInv, NdTypeOK
    <2> QED BY <1>5, <2>1, Quiet DEF Beat, NdInv, TaintsStayOff
<1>6. ASSUME NEW r \in Reporters, CurrentStatus(r) PROVE Rest
    <2>1. \A q \in Reporters \ {r} : (Writing(q)' <=> Writing(q)) /\ ndSaw'[q] = ndSaw[q]
        BY <1>6 DEF CurrentStatus, Goes, Writing, NdInv, NdTypeOK
    <2>2. CASE UNCHANGED ndHist /\ ndSaw' = [ndSaw EXCEPT ![r] = [boot |-> ndNode.boot, foreign |-> ndNode.foreign]]
        <3>1. ndSaw'[r].boot = ndNode.boot /\ ndSaw'[r].foreign = ndNode.foreign
            BY <2>2 DEF NdInv, NdTypeOK
        <3> QED BY <1>6, <2>1, <2>2, <3>1
            DEF CurrentStatus, NdInv, Aware, RebootUnderWay, Unshown, OldBoot, ForeignKept, TaintsStayOff, Writing
    <2>3. CASE ndHist' = [ndHist EXCEPT !.missed = TRUE, !.crossed = TRUE]
        <3>1. ndHist'.missed /\ ndHist'.crossed /\ ndHist'.freed = ndHist.freed
            BY <1>2, <2>3 DEF HistType
        <3> QED BY <1>6, <3>1
            DEF CurrentStatus, NdInv, Aware, RebootUnderWay, Unshown, ForeignKept, TaintsStayOff
    <2> QED BY <1>6, <2>2, <2>3 DEF CurrentStatus
<1>7. ASSUME NEW r \in Reporters, PutStatus(r) PROVE Rest
    <2>1. \A q \in Reporters : Writing(q)' => Writing(q)
        BY <1>7 DEF PutStatus, PutGoes, Goes, After, Failed, Writing, Reporters, NdInv, NdTypeOK
    <2>2. CASE UNCHANGED <<ndNode, ndHist>>
        BY <1>7, <2>1, <2>2, Quiet DEF PutStatus, NdInv, TaintsStayOff
    <2>3. CASE /\ ndNode.there /\ ndNode' = StatusWith(r) /\ Writing(r)
               /\ ndHist' = [ndHist EXCEPT !.wiped = @ \/ (ndNode.foreign /\ ~ ndNode'.foreign),
                                           !.crossed = @ \/ (ndNode'.foreign /\ ~ ndNode.foreign),
                                           !.shown = @ \/ ndNode'.ready = "no"]
        <3>1. /\ ndNode'.there = ndNode.there /\ ndNode'.taints = ndNode.taints
              /\ ndNode'.boot = ndBoot /\ ndNode'.foreign = ndSaw[r].foreign
              /\ ndNode'.ready = IF Rebooted(r) THEN "no" ELSE "yes"
            BY <1>2, <2>3 DEF StatusWith, NodeType
        <3>2. /\ ndHist'.old = ndHist.old /\ ndHist'.missed = ndHist.missed /\ ndHist'.freed = ndHist.freed
              /\ ndHist'.wiped = (ndHist.wiped \/ (ndNode.foreign /\ ~ ndNode'.foreign))
              /\ ndHist'.crossed = (ndHist.crossed \/ (ndNode'.foreign /\ ~ ndNode.foreign))
              /\ ndHist'.shown = (ndHist.shown \/ ndNode'.ready = "no")
            BY <1>2, <2>3 DEF HistType
        <3>3. UNCHANGED <<ndBoot, ndSaw>>
            BY <1>7 DEF PutStatus
        <3>4. Aware'
            BY <2>1, <2>3, <3>1, <3>2, <3>3 DEF NdInv, Aware, Writing
        <3>5. ForeignKept'
            BY <2>3, <3>1, <3>2 DEF NdInv, Aware, ForeignKept, Writing
        <3>6. RebootUnderWay'
            <4>1. Unshown' => Unshown /\ ~ Rebooted(r)
                BY <3>1, <3>2 DEF Unshown
            <4>2. Unshown => Rebooted(r)
                BY <2>3 DEF NdInv, RebootUnderWay, OldBoot, Rebooted, Writing
            <4> QED BY <1>2, <3>1, <3>3, <4>1, <4>2 DEF RebootUnderWay
        <3>7. TaintsStayOff'
            BY <3>1, <3>2 DEF NdInv, TaintsStayOff
        <3> QED BY <3>4, <3>5, <3>6, <3>7
    <2> QED BY <1>7, <2>2, <2>3 DEF PutStatus, PutGoes, Goes, Writing
<1>8. ASSUME NEW r \in Reporters, RecordReboot(r) PROVE Rest
    <2>1. \A q \in Reporters : Writing(q)' => Writing(q)
        BY <1>8 DEF RecordReboot, Goes, After, Writing, Reporters, NdInv, NdTypeOK
    <2> QED BY <1>8, <2>1, Quiet DEF RecordReboot, NdInv, TaintsStayOff
<1>9. CASE SyncKvmLabels
    <2>1. \A r \in Reporters : Writing(r)' => Writing(r)
        BY <1>9 DEF SyncKvmLabels, Goes, Writing, Reporters, NdInv, NdTypeOK
    <2>2. /\ ndNode'.there = ndNode.there /\ ndNode'.boot = ndNode.boot
          /\ ndNode'.foreign = ndNode.foreign /\ ndNode'.taints = ndNode.taints
        BY <1>2, <1>9 DEF SyncKvmLabels, PatchLost, NodeType
    <2>3. /\ ndHist'.old = ndHist.old /\ ndHist'.shown = ndHist.shown /\ ndHist'.missed = ndHist.missed
          /\ ndHist'.wiped = ndHist.wiped /\ ndHist'.crossed = ndHist.crossed /\ ndHist'.freed = ndHist.freed
        BY <1>2, <1>9 DEF SyncKvmLabels, PatchLost, HistType
    <2> QED BY <1>9, <2>1, <2>2, <2>3, Quiet DEF SyncKvmLabels, NdInv, TaintsStayOff
<1>10. CASE ForeignWrites
    <2>1. /\ ndNode'.there = ndNode.there /\ ndNode'.boot = ndNode.boot /\ ndNode'.taints = ndNode.taints
          /\ ndHist'.crossed = (ndHist.crossed \/ \E r \in Reporters : Writing(r))
          /\ ndHist'.old = ndHist.old /\ ndHist'.shown = ndHist.shown /\ ndHist'.missed = ndHist.missed
          /\ ndHist'.wiped = ndHist.wiped /\ ndHist'.freed = ndHist.freed
        BY <1>2, <1>10 DEF ForeignWrites, NodeType, HistType, Writing
    <2>2. UNCHANGED <<ndBoot, ndAt, ndSaw>>
        BY <1>10 DEF ForeignWrites
    <2> QED BY <2>1, <2>2
        DEF NdInv, Aware, RebootUnderWay, Unshown, OldBoot, ForeignKept, TaintsStayOff, Writing
<1>11. CASE TaintsRemoved \/ KvmFlips
    <2>1. /\ ndNode'.there = ndNode.there /\ ndNode'.boot = ndNode.boot /\ ndNode'.foreign = ndNode.foreign
          /\ ndHist'.old = ndHist.old /\ ndHist'.shown = ndHist.shown /\ ndHist'.missed = ndHist.missed
          /\ ndHist'.wiped = ndHist.wiped /\ ndHist'.crossed = ndHist.crossed
        BY <1>2, <1>11 DEF TaintsRemoved, KvmFlips, NodeType, HistType
    <2>2. TaintsStayOff'
        BY <1>2, <1>11 DEF TaintsRemoved, KvmFlips, TaintsStayOff, NdInv, NodeType
    <2> QED BY <1>11, <2>1, <2>2, Quiet DEF TaintsRemoved, KvmFlips, Writing
<1>12. CASE NodeDeleted
    <2>1. /\ ndNode'.there = FALSE /\ ndNode'.foreign = FALSE /\ ndHist'.freed = FALSE
          /\ ndHist'.wiped = ndHist.wiped /\ ndHist'.crossed = ndHist.crossed
        BY <1>2, <1>12 DEF NodeDeleted, NoNode, HistType
    <2> QED BY <2>1 DEF NdInv, Aware, RebootUnderWay, Unshown, ForeignKept, TaintsStayOff
<1>13. CASE KubeletStarts
    <2>1. /\ \A r \in Reporters : ~ Writing(r)'
          /\ ndHist'.wiped = ndHist.wiped /\ ndHist'.crossed = ndHist.crossed /\ ndHist'.freed = ndHist.freed
        BY <1>2, <1>13 DEF KubeletStarts, Begin, Writing, HistType
    <2>2. Aware' /\ ForeignKept' /\ TaintsStayOff'
        BY <1>13, <2>1 DEF KubeletStarts, NdInv, Aware, ForeignKept, TaintsStayOff, Writing
    <2>3. CASE UNCHANGED ndBoot /\ ndHist' = [ndHist EXCEPT !.remade = FALSE, !.lost = FALSE]
        <3>1. ndHist'.old = ndHist.old /\ ndHist'.shown = ndHist.shown /\ ndHist'.missed = ndHist.missed
            BY <1>2, <2>3 DEF HistType
        <3>2. RebootUnderWay'
            BY <1>13, <2>1, <2>3, <3>1 DEF KubeletStarts, NdInv, RebootUnderWay, Unshown, OldBoot, Writing
        <3> QED BY <2>2, <3>2
    <2>4. CASE ndBoot' = ndBoot + 1
        <3>1. ndNode' = ndNode /\ (ndNode.there => ndNode.boot \in 1..ndBoot)
            BY <1>13 DEF KubeletStarts, NdInv, RebootUnderWay
        <3>2. RebootUnderWay'
            BY <1>2, <2>1, <2>4, <3>1 DEF RebootUnderWay, Unshown, OldBoot, Writing
        <3> QED BY <2>2, <3>2
    <2> QED BY <1>13, <2>3, <2>4 DEF KubeletStarts
<1>14. CASE UNCHANGED ndVars
    BY <1>14 DEF ndVars, NdInv, Aware, RebootUnderWay, Unshown, OldBoot, ForeignKept, TaintsStayOff
<1> QED
    BY <1>1, <1>3, <1>4, <1>5, <1>6, <1>7, <1>8, <1>9, <1>10, <1>11, <1>12, <1>13, <1>14
    DEF NdNext, Registration, Heartbeat, Reporters, NdInv

THEOREM NodeTypeCorrect == NdSpec => []NdTypeOK
<1>1. NdInv => NdTypeOK
    BY DEF NdInv
<1> QED BY NdInvInit, NdInvStep, <1>1, PTL DEF NdSpec

\* What others wrote on the Node survives the two tasks that each read it and
\* write it whole (status_with), and so does what a reboot must show, for any
\* number of boots, restarts, deletions and unheard calls.
THEOREM NodeKeptHolds == NdSpec => []NodeKept
<1>1. NdInv => NodeKept
    BY NodeAssumption
    DEF NdInv, NdTypeOK, NodeKept, ForeignKept, TaintsStayOff, RebootShows, RebootUnderWay, Unshown, OldBoot
<1> QED BY NdInvInit, NdInvStep, <1>1, PTL DEF NdSpec

-----------------------------------------------------------------------------
(* Probes. *)

\* The counter of failures, which the startup and the liveness probe share,
\* never says more than the probe that owns it has failed in a row.
Owner == IF pbPassed THEN "liveness" ELSE "startup"
CountIsEarned ==
    /\ pbFails <= pbHist.row[Owner]
    /\ pbAt \in {"liveness", "readiness"} => pbPassed
    /\ pbFails < Threshold[Owner]

\* What was taken away is not run again but by being made again, what is over
\* is not ready, and what is said to be ready was probed, or is looked at soon.
RemovedIsGone == pbHist.removed => pbApp \in {"exited", "gone"}
OverIsNotReady == pbOver => pbAt = "idle" /\ ~ pbReady
ReadyWasProbed ==
    pbReady /\ pbSpec.readiness => pbHist.ready /\ (pbHist.removed => pbHist.early /\ pbDue <= Recheck)

PbHistType == [row : [Kinds -> Nat], ready : BOOLEAN, unjust : BOOLEAN, removed : BOOLEAN, early : BOOLEAN]
PbMoreTypes ==
    /\ pbSpec \in [policy : {"Always", "Never"}, readiness : BOOLEAN] /\ pbRuns \in [Kinds -> Nat]
    /\ pbHist \in PbHistType
    /\ pbPassed \in BOOLEAN /\ pbOver \in BOOLEAN
    /\ pbAt = "readiness" => pbDue # Never

PbInv == PbTypeOK /\ PbMoreTypes /\ KillsAreEarned /\ CountIsEarned /\ RemovedIsGone /\ OverIsNotReady
         /\ ReadyWasProbed

\* A non-empty set of naturals under a bound has a largest element.
LEMMA LargestIs ==
    ASSUME NEW S \in SUBSET Nat, S # {}, NEW b \in Nat, \A n \in S : n <= b
    PROVE  Largest(S) \in S /\ \A n \in S : n <= Largest(S)
<1> DEFINE T == {b - n : n \in S}
<1>1. T \in SUBSET Nat /\ T # {}
    <2>1. \A n \in S : b - n \in Nat
        OBVIOUS
    <2> QED BY <2>1
<1>2. PICK x \in T : \A y \in T : ~ (<<y, x>> \in OpToRel(<, Nat))
    BY <1>1, NatLessThanWellFounded, WFMin
<1>3. PICK m \in S : x = b - m
    BY <1>2
<1>4. ASSUME NEW n \in S PROVE n <= m
    <2>1. b - n \in T /\ b - n \in Nat /\ x \in Nat
        BY <1>1, <1>2
    <2>2. ~ (b - n < x)
        BY <1>2, <2>1 DEF OpToRel
    <2> QED BY <1>3, <2>1, <2>2
<1>5. \E i \in S : \A j \in S : j <= i
    BY <1>4
<1> QED BY <1>5 DEF Largest

\* Never is later than anything that is waited for.
LEMMA NeverIs ==
    /\ Never \in Nat /\ StartTime < Never /\ HoldOff < Never /\ 1 < Never
    /\ \A k \in Kinds : Period[k] < Never /\ Delay[k] < Never
<1> DEFINE b == Period["startup"] + Period["liveness"] + Period["readiness"]
                + Delay["startup"] + Delay["liveness"] + Delay["readiness"] + StartTime + HoldOff + 1
<1>1. Spans \in SUBSET Nat /\ b \in Nat
    BY ProbesAssumption DEF Spans, Kinds
<1>2. \A n \in Spans : n <= b
    BY ProbesAssumption DEF Spans, Kinds
<1>3. 1 \in Spans /\ StartTime \in Spans /\ HoldOff \in Spans
      /\ \A k \in Kinds : Period[k] \in Spans /\ Delay[k] \in Spans
    BY DEF Spans
<1> HIDE DEF b
<1>4. Largest(Spans) \in Spans /\ \A n \in Spans : n <= Largest(Spans)
    BY <1>1, <1>2, <1>3, LargestIs
<1>5. Largest(Spans) \in Nat
    BY <1>1, <1>4
<1>6. \A n \in Spans : n \in Nat /\ n < Largest(Spans) + 1
    BY <1>1, <1>4, <1>5
<1>7. Never \in Nat /\ \A n \in Spans : n < Never
    BY <1>5, <1>6 DEF Never
<1> QED BY <1>3, <1>7

LEMMA ThresholdIs ==
    /\ Largest({Threshold[k] : k \in Kinds}) \in Nat
    /\ \A k \in Kinds : Threshold[k] <= Largest({Threshold[k2] : k2 \in Kinds})
<1> DEFINE b == Threshold["startup"] + Threshold["liveness"] + Threshold["readiness"]
           S == {Threshold[k] : k \in Kinds}
<1>1. S \in SUBSET Nat /\ b \in Nat /\ \A n \in S : n <= b
    BY ProbesAssumption DEF Kinds
<1>2. \A k \in Kinds : Threshold[k] \in S
    OBVIOUS
<1>3. S # {}
    BY <1>2 DEF Kinds
<1> HIDE DEF S, b
<1>4. Largest(S) \in S /\ \A n \in S : n <= Largest(S)
    BY <1>1, <1>3, LargestIs
<1> QED BY <1>1, <1>2, <1>4 DEF S

\* Looks asked for are before Never.
LEMMA DueInSound ==
    ASSUME PbInv, NEW n \in Nat, n < Never, DueIn(n)
    PROVE  pbDue' \in 0..Never /\ pbDue' # Never /\ pbDue' <= pbDue
BY NeverIs DEF DueIn, Least, PbInv, PbTypeOK

LEMMA UntilDueSound ==
    ASSUME PbInv, NEW k \in Kinds
    PROVE  UntilDue(k) \in Nat /\ UntilDue(k) < Never
<1>1. /\ Period[k] \in Nat /\ Delay[k] \in Nat /\ Period[k] < Never /\ Delay[k] < Never /\ Never \in Nat
      /\ pbRuns[k] \in 0..Period[k] /\ pbAge \in Nat
    BY NeverIs, ProbesAssumption DEF PbInv, PbTypeOK
<1> QED BY <1>1 DEF UntilDue

\* Which probe is asked, and when it must be again.
LEMMA AskedSound ==
    ASSUME PbInv, NEW k \in Kinds, (NotYet(k) /\ UNCHANGED pbRuns) \/ Probed(k)
    PROVE  /\ pbRuns' \in [Kinds -> Nat] /\ \A j \in Kinds : pbRuns'[j] \in 0..Period[j]
           /\ pbDue' \in 0..Never /\ pbDue' # Never /\ pbDue' <= pbDue
<1>1. pbRuns \in [Kinds -> Nat] /\ \A j \in Kinds : pbRuns[j] \in 0..Period[j]
    BY DEF PbInv, PbTypeOK, PbMoreTypes
<1>2. CASE NotYet(k) /\ UNCHANGED pbRuns
    <2>1. DueIn(UntilDue(k))
        BY <1>2 DEF NotYet
    <2> QED BY <1>1, <1>2, <2>1, UntilDueSound, DueInSound
<1>3. CASE Probed(k)
    <2>1. DueIn(Period[k]) /\ pbRuns' = [pbRuns EXCEPT ![k] = 0] /\ Period[k] \in Nat /\ Period[k] < Never
        BY <1>3, NeverIs, ProbesAssumption DEF Probed
    <2>2. pbDue' \in 0..Never /\ pbDue' # Never /\ pbDue' <= pbDue
        BY <2>1, DueInSound
    <2> QED BY <1>1, <2>1, <2>2, ProbesAssumption
<1> QED BY <1>2, <1>3

\* Counting a failure of the owner of the counter.
LEMMA CountSound ==
    ASSUME PbInv, NEW k \in Kinds, k = Owner
    PROVE  /\ Counted(k).row \in [Kinds -> Nat] /\ Counted(k).row[k] = Least(pbHist.row[k] + 1, Threshold[k])
           /\ pbFails + 1 < Threshold[k] => Counted(k).row[k] >= pbFails + 1
           /\ pbFails + 1 >= Threshold[k] => Counted(k).row[k] = Threshold[k]
           /\ Counted(k).ready = pbHist.ready /\ Counted(k).unjust = pbHist.unjust
           /\ Counted(k).removed = pbHist.removed /\ Counted(k).early = pbHist.early
           /\ Counted(k) \in PbHistType
<1>1. /\ pbHist \in PbHistType
      /\ pbHist.row \in [Kinds -> Nat] /\ Threshold[k] \in Nat \ {0} /\ pbFails \in Nat
      /\ pbFails <= pbHist.row[k]
    BY ThresholdIs, ProbesAssumption DEF PbInv, PbTypeOK, PbMoreTypes, PbHistType, CountIsEarned
<1>2. Least(pbHist.row[k] + 1, Threshold[k]) \in Nat
    BY <1>1 DEF Least
<1>3. Counted(k) = [pbHist EXCEPT !.row = [pbHist.row EXCEPT ![k] = Least(pbHist.row[k] + 1, Threshold[k])]]
    BY <1>1 DEF Counted, PbHistType
<1>4. Counted(k).row = [pbHist.row EXCEPT ![k] = Least(pbHist.row[k] + 1, Threshold[k])]
    BY <1>1, <1>3 DEF PbHistType
<1>5. Counted(k).row \in [Kinds -> Nat] /\ Counted(k).row[k] = Least(pbHist.row[k] + 1, Threshold[k])
    BY <1>1, <1>2, <1>4
<1>6. /\ Counted(k).ready = pbHist.ready /\ Counted(k).unjust = pbHist.unjust
      /\ Counted(k).removed = pbHist.removed /\ Counted(k).early = pbHist.early
      /\ Counted(k) \in PbHistType
    BY <1>1, <1>3, <1>4, <1>5 DEF PbHistType
<1> QED BY <1>1, <1>5, <1>6 DEF Least

\* A container made again begins with no failures and nothing known of it.
LEMMA StartAgainSound ==
    ASSUME PbInv, StartAgain, ~ pbOver, UNCHANGED <<pbSpec, pbPassed, pbOver>>, NEW h \in PbHistType, ~ h.unjust,
           pbHist' = NewHist(h), pbAt' = "idle", pbDue' \in 0..Never, pbDue' # Never, pbWait' \in 0..HoldOff
    PROVE  PbInv'
<1>1. /\ pbHist' \in PbHistType /\ pbHist'.row = [k \in Kinds |-> 0]
      /\ pbHist'.removed = FALSE /\ pbHist'.unjust = h.unjust
    BY DEF NewHist, PbHistType
<1>2. pbReady' \in BOOLEAN /\ (pbReady' => ~ pbSpec.readiness)
    BY DEF StartAgain
<1>3. pbRuns' \in [Kinds -> Nat] /\ \A k \in Kinds : pbRuns'[k] \in 0..Period[k]
    BY ProbesAssumption DEF StartAgain, NoRuns
<1>4. PbTypeOK'
    BY <1>2, <1>3, NeverIs, ThresholdIs DEF StartAgain, PbTypeOK
<1>5. PbMoreTypes'
    BY <1>1, <1>3 DEF PbMoreTypes, PbInv
<1>6. CountIsEarned'
    <2>1. Owner' \in Kinds /\ pbFails' = 0
        BY DEF StartAgain, Owner, Kinds
    <2> QED BY <1>1, <2>1, ProbesAssumption DEF CountIsEarned
<1> QED BY <1>1, <1>2, <1>4, <1>5, <1>6 DEF PbInv, KillsAreEarned, RemovedIsGone, OverIsNotReady, ReadyWasProbed

\* One taken away and not made again: ready only if it was and the failure was
\* an early one, and then looked at at once.
LEMMA NotMadeSound ==
    ASSUME PbInv, NEW h \in PbHistType, NEW keeps \in BOOLEAN, NotMade(h, keeps), ~ pbOver,
           UNCHANGED <<pbSpec, pbPassed, pbOver>>, ~ h.unjust, h.ready = pbHist.ready,
           pbAt' \in {"idle", "readiness"}, pbAt' = "readiness" => pbPassed,
           pbDue' \in 0..Never, pbDue' <= Recheck, pbWait' \in 0..HoldOff
    PROVE  PbInv'
<1>0. pbDue' # Never
    BY NeverIs DEF Recheck
<1>h. PICK early \in BOOLEAN : pbReady' = (early /\ keeps /\ pbReady) /\ pbHist' = Removed(h, early)
    BY DEF NotMade
<1>g. /\ pbHist' \in PbHistType /\ ~ pbHist'.unjust /\ pbHist'.ready = pbHist.ready
      /\ pbHist'.removed = (pbApp' \in {"exited", "gone"}) /\ pbHist'.early = early
    <2>1. (pbApp' \in {"exited", "gone"}) \in BOOLEAN
        OBVIOUS
    <2> QED BY <1>h, <2>1 DEF Removed, PbHistType
<1>1. PbTypeOK'
    <2>1. pbAt' \in {"idle"} \cup Kinds
        BY DEF Kinds
    <2>2. pbFails' \in 0..Largest({Threshold[k] : k \in Kinds})
        BY ThresholdIs DEF NotMade
    <2>3. /\ pbApp' \in {"starting", "up", "unready", "hung", "exited", "gone"}
          /\ pbAge' = pbAge /\ pbStart' = pbStart /\ pbRuns' = pbRuns
        BY DEF NotMade, Leftovers, PbInv, PbTypeOK
    <2>4. pbReady' \in BOOLEAN
        BY <1>h DEF PbInv, PbTypeOK
    <2> QED BY <1>0, <2>1, <2>2, <2>3, <2>4 DEF PbTypeOK, PbInv
<1>2. PbMoreTypes'
    BY <1>0, <1>g DEF PbMoreTypes, PbInv, NotMade
<1>3. CountIsEarned'
    <2>1. Owner' \in Kinds /\ pbFails' = 0
        BY DEF NotMade, Owner, Kinds
    <2>2. pbHist'.row[Owner'] \in Nat
        BY <1>g, <2>1 DEF PbHistType
    <2> QED BY <2>1, <2>2, ProbesAssumption DEF CountIsEarned
<1>4. ReadyWasProbed'
    <2>1. pbReady' => pbReady /\ early
        BY <1>h
    <2> QED BY <1>g, <2>1 DEF PbInv, ReadyWasProbed
<1> QED BY <1>1, <1>2, <1>3, <1>4, <1>g DEF PbInv, KillsAreEarned, RemovedIsGone, OverIsNotReady

\* A probe that kills has failed its threshold in a row.
LEMMA KillSound ==
    ASSUME PbInv, NEW k \in Kinds, k = Owner, pbFails + 1 >= Threshold[k], NEW over \in {"idle", "readiness"},
           over = "readiness" => pbPassed, Kill(k, over), ~ pbOver,
           UNCHANGED <<pbSpec, pbPassed, pbOver, pbExit, pbWait>>
    PROVE  PbInv'
<1> DEFINE h == [Counted(k) EXCEPT !.unjust = @ \/ Counted(k).row[k] < Threshold[k]]
<1>1. /\ Counted(k) \in PbHistType /\ Counted(k).row[k] = Threshold[k] /\ Counted(k).unjust = FALSE
      /\ Counted(k).ready = pbHist.ready /\ Threshold[k] \in Nat
    BY CountSound, ProbesAssumption DEF PbInv, KillsAreEarned, PbMoreTypes, PbHistType
<1>2. h \in PbHistType /\ h.unjust = FALSE /\ h.ready = pbHist.ready
    BY <1>1 DEF PbHistType
<1>3. \/ StartAgain /\ pbAt' = "idle" /\ pbHist' = NewHist(h) /\ DueIn(Period[k])
      \/ NotMade(h, k = "liveness") /\ pbAt' = over /\ DueIn(Recheck)
    BY DEF Kill
<1>4. pbWait' \in 0..HoldOff
    BY DEF PbInv, PbTypeOK
<1> HIDE DEF h
<1>5. CASE StartAgain /\ pbAt' = "idle" /\ pbHist' = NewHist(h) /\ DueIn(Period[k])
    <2>1. pbDue' \in 0..Never /\ pbDue' # Never
        BY <1>5, DueInSound, NeverIs, ProbesAssumption
    <2> QED BY <1>2, <1>4, <1>5, <2>1, StartAgainSound
<1>6. CASE NotMade(h, k = "liveness") /\ pbAt' = over /\ DueIn(Recheck)
    <2>1. pbDue' \in 0..Never /\ pbDue' <= Recheck
        BY <1>6, NeverIs DEF Recheck, DueIn, Least, PbInv, PbTypeOK
    <2>2. (k = "liveness") \in BOOLEAN
        OBVIOUS
    <2> QED BY <1>2, <1>4, <1>6, <2>1, <2>2, NotMadeSound
<1> QED BY <1>3, <1>5, <1>6

LEMMA RemakeSound ==
    ASSUME PbInv, Remake, ~ pbOver, UNCHANGED <<pbSpec, pbPassed, pbOver>>
    PROVE  PbInv'
<1>1. pbHist \in PbHistType /\ ~ pbHist.unjust
    BY DEF PbInv, PbMoreTypes, KillsAreEarned
<1>2. pbAt' = "idle" /\ pbWait' \in 0..HoldOff
    BY ProbesAssumption DEF Remake
<1>5. \/ StartAgain /\ pbHist' = NewHist(pbHist) /\ pbDue' = HoldOff
      \/ NotMade(pbHist, TRUE) /\ pbDue' = Least(HoldOff, Recheck)
    BY Zenon DEF Remake
<1>3. CASE StartAgain /\ pbHist' = NewHist(pbHist) /\ pbDue' = HoldOff
    <2>1. pbDue' \in 0..Never /\ pbDue' # Never
        BY <1>3, NeverIs, ProbesAssumption
    <2> QED BY <1>1, <1>2, <1>3, <2>1, StartAgainSound
<1>4. CASE NotMade(pbHist, TRUE) /\ pbDue' = Least(HoldOff, Recheck)
    <2>1. pbDue' \in 0..Never /\ pbDue' <= Recheck
        BY <1>4, NeverIs, ProbesAssumption DEF Least, Recheck
    <2> QED BY <1>1, <1>2, <1>4, <2>1, NotMadeSound
<1> QED BY <1>3, <1>4, <1>5

\* A step that leaves the counter, the history and what is ready as they were.
LEMMA PbQuiet ==
    ASSUME PbInv, UNCHANGED <<pbSpec, pbPassed, pbFails, pbReady, pbOver, pbHist>>, PbTypeOK', PbMoreTypes',
           pbApp \in {"exited", "gone"} => pbApp' \in {"exited", "gone"},
           pbAt' \in {"liveness", "readiness"} => pbPassed,
           pbOver => pbAt' = "idle", pbDue' <= pbDue \/ ~ pbHist.removed \/ pbOver
    PROVE  PbInv'
<1>1. ReadyWasProbed'
    <2>1. pbReady' /\ pbSpec'.readiness => pbHist.ready /\ (pbHist.removed => pbHist.early /\ pbDue <= Recheck /\ ~ pbOver)
        BY DEF PbInv, ReadyWasProbed, OverIsNotReady
    <2>2. pbDue \in Nat /\ pbDue' \in Nat /\ Recheck \in Nat
        BY NeverIs DEF PbInv, PbTypeOK, Recheck
    <2> QED BY <2>1, <2>2 DEF ReadyWasProbed
<1> QED BY <1>1 DEF PbInv, KillsAreEarned, CountIsEarned, Owner, RemovedIsGone, OverIsNotReady

LEMMA StatusSound == PbInv /\ Status => PbInv'
<1> SUFFICES ASSUME PbInv, Status PROVE PbInv'
    OBVIOUS
<1>1. UNCHANGED <<pbSpec, pbPassed>> /\ pbAt = "idle"
    BY DEF Status
<1>2. CASE pbOver /\ pbDue' = Never /\ UNCHANGED <<pbApp, pbAge, pbAt, pbStart, pbRuns, pbFails, pbReady, pbOver, pbWait, pbHist>>
    <2>1. pbDue' \in 0..Never /\ pbAt' \in {"idle"} \cup Kinds
        BY <1>1, <1>2, NeverIs
    <2>2. PbTypeOK' /\ PbMoreTypes'
        BY <1>1, <1>2, <2>1 DEF PbInv, PbTypeOK, PbMoreTypes
    <2> QED BY <1>1, <1>2, <2>2, PbQuiet
<1>3. CASE /\ ~ pbOver /\ pbApp \notin {"exited", "gone"} /\ pbAt' = "startup" /\ pbDue' = Never
           /\ UNCHANGED <<pbApp, pbAge, pbStart, pbRuns, pbFails, pbReady, pbOver, pbWait, pbHist>>
    <2>1. pbDue' \in 0..Never /\ pbAt' \in {"idle"} \cup Kinds
        BY <1>1, <1>3, NeverIs DEF Kinds
    <2>2. PbTypeOK' /\ PbMoreTypes'
        BY <1>1, <1>3, <2>1 DEF PbInv, PbTypeOK, PbMoreTypes
    <2>3. ~ pbHist.removed
        BY <1>3 DEF PbInv, RemovedIsGone
    <2> QED BY <1>1, <1>3, <2>2, <2>3, PbQuiet
<1>4. CASE /\ pbReady' = FALSE /\ pbDue' = Recheck
           /\ UNCHANGED <<pbApp, pbAge, pbAt, pbStart, pbRuns, pbFails, pbOver, pbWait, pbHist>>
    <2>1. pbDue' \in 0..Never /\ pbDue' # Never
        BY <1>4, NeverIs DEF Recheck
    <2>2. PbTypeOK'
        BY <1>1, <1>4, <2>1 DEF PbInv, PbTypeOK
    <2>3. PbMoreTypes'
        BY <1>1, <1>4, <2>1 DEF PbInv, PbMoreTypes
    <2> QED BY <1>1, <1>4, <2>2, <2>3 DEF PbInv, KillsAreEarned, CountIsEarned, Owner, RemovedIsGone, OverIsNotReady, ReadyWasProbed
<1>5. CASE /\ pbOver' = TRUE /\ pbReady' = FALSE /\ pbDue' = Never
           /\ UNCHANGED <<pbApp, pbAge, pbAt, pbStart, pbRuns, pbFails, pbWait, pbHist>>
    <2>1. pbDue' \in 0..Never
        BY <1>5, NeverIs
    <2>2. PbTypeOK'
        BY <1>1, <1>5, <2>1 DEF PbInv, PbTypeOK
    <2>3. PbMoreTypes'
        BY <1>1, <1>5 DEF PbInv, PbMoreTypes
    <2> QED BY <1>1, <1>5, <2>2, <2>3 DEF PbInv, KillsAreEarned, CountIsEarned, Owner, RemovedIsGone, OverIsNotReady, ReadyWasProbed
<1>6. CASE /\ pbReady' = FALSE /\ pbDue' = pbWait
           /\ UNCHANGED <<pbApp, pbAge, pbAt, pbStart, pbRuns, pbFails, pbOver, pbWait, pbHist>>
    <2>1. pbWait \in 0..Never /\ pbWait # Never
        BY NeverIs, ProbesAssumption DEF PbInv, PbTypeOK
    <2>2. PbTypeOK' /\ PbMoreTypes'
        BY <1>1, <1>6, <2>1 DEF PbInv, PbTypeOK, PbMoreTypes
    <2> QED BY <1>1, <1>6, <2>2 DEF PbInv, KillsAreEarned, CountIsEarned, Owner, RemovedIsGone, OverIsNotReady, ReadyWasProbed
<1>7. CASE Remake /\ UNCHANGED pbOver /\ ~ pbOver
    BY <1>1, <1>7, RemakeSound
<1> QED BY <1>2, <1>3, <1>4, <1>5, <1>6, <1>7 DEF Status

LEMMA StartupSound == PbInv /\ StartupProbe => PbInv'
<1> SUFFICES ASSUME PbInv, StartupProbe PROVE PbInv'
    OBVIOUS
<1>1. UNCHANGED <<pbSpec, pbOver, pbExit, pbWait>> /\ pbAt = "startup" /\ "startup" \in Kinds
    BY DEF StartupProbe, Kinds
<1>o. ~ pbOver /\ pbDue \in Nat
    BY <1>1, NeverIs DEF PbInv, OverIsNotReady, PbTypeOK
<1>2. CASE /\ pbPassed /\ pbAt' = "liveness"
           /\ UNCHANGED <<pbApp, pbAge, pbStart, pbRuns, pbPassed, pbFails, pbReady, pbDue, pbHist>>
    <2>1. PbTypeOK' /\ PbMoreTypes'
        BY <1>1, <1>2 DEF PbInv, PbTypeOK, PbMoreTypes, Kinds
    <2> QED BY <1>1, <1>o, <1>2, <2>1, PbQuiet
<1>3. CASE /\ ~ pbPassed /\ NotYet("startup") /\ pbAt' = "idle" /\ pbReady' = FALSE
           /\ UNCHANGED <<pbApp, pbAge, pbStart, pbRuns, pbPassed, pbFails, pbHist>>
    <2>1. pbDue' \in 0..Never /\ pbDue' # Never /\ pbDue' <= pbDue
        BY <1>1, <1>3, AskedSound
    <2>2. PbTypeOK' /\ PbMoreTypes'
        BY <1>1, <1>3, <2>1 DEF PbInv, PbTypeOK, PbMoreTypes
    <2> QED BY <1>1, <1>3, <2>2 DEF PbInv, KillsAreEarned, CountIsEarned, Owner, RemovedIsGone, OverIsNotReady, ReadyWasProbed
<1>4. CASE /\ ~ pbPassed /\ Probed("startup") /\ pbAt' = "liveness" /\ pbPassed' = TRUE /\ pbFails' = 0
           /\ pbHist' = [pbHist EXCEPT !.row["startup"] = 0]
           /\ UNCHANGED <<pbApp, pbAge, pbStart, pbReady>>
    <2>1. /\ pbRuns' \in [Kinds -> Nat] /\ \A j \in Kinds : pbRuns'[j] \in 0..Period[j]
          /\ pbDue' \in 0..Never /\ pbDue' # Never /\ pbDue' <= pbDue
        BY <1>1, <1>4, AskedSound
    <2>2. /\ pbHist' \in PbHistType /\ pbHist'.ready = pbHist.ready /\ pbHist'.unjust = pbHist.unjust
          /\ pbHist'.removed = pbHist.removed /\ pbHist'.early = pbHist.early /\ pbHist'.row \in [Kinds -> Nat]
        BY <1>4 DEF PbInv, PbMoreTypes, PbHistType
    <2>3. PbTypeOK'
        BY <1>1, <1>4, <2>1, ThresholdIs DEF PbInv, PbTypeOK, Kinds
    <2>4. PbMoreTypes'
        BY <1>1, <1>4, <2>1, <2>2 DEF PbInv, PbMoreTypes
    <2>5. CountIsEarned'
        <3>1. Owner' \in Kinds /\ pbHist'.row[Owner'] \in Nat
            BY <2>2 DEF Owner, Kinds
        <3> QED BY <1>4, <3>1, ProbesAssumption DEF CountIsEarned
    <2>6. ReadyWasProbed'
        BY <1>1, <1>o, <1>4, <2>1, <2>2, NeverIs DEF PbInv, ReadyWasProbed, Recheck
    <2> QED BY <1>1, <1>o, <1>4, <2>2, <2>3, <2>4, <2>5, <2>6 DEF PbInv, KillsAreEarned, RemovedIsGone, OverIsNotReady, ReadyWasProbed
<1>5. CASE /\ ~ pbPassed /\ Probed("startup") /\ pbFails + 1 < Threshold["startup"]
           /\ pbAt' = "idle" /\ pbFails' = pbFails + 1 /\ pbReady' = FALSE /\ pbHist' = Counted("startup")
           /\ UNCHANGED <<pbApp, pbAge, pbStart, pbPassed>>
    <2>1. /\ pbRuns' \in [Kinds -> Nat] /\ \A j \in Kinds : pbRuns'[j] \in 0..Period[j]
          /\ pbDue' \in 0..Never /\ pbDue' # Never /\ pbDue' <= pbDue
        BY <1>1, <1>5, AskedSound
    <2>2. Owner = "startup" /\ Owner' = "startup"
        BY <1>5 DEF Owner
    <2>3. pbFails' \in 0..Largest({Threshold[k] : k \in Kinds}) /\ pbFails' < Threshold["startup"]
        BY <1>1, <1>5, ThresholdIs, ProbesAssumption DEF PbInv, PbTypeOK
    <2>4. PbTypeOK'
        BY <1>1, <1>5, <2>1, <2>3 DEF PbInv, PbTypeOK
    <2>5. /\ pbHist' \in PbHistType /\ pbHist'.unjust = pbHist.unjust /\ pbHist'.removed = pbHist.removed
          /\ pbHist'.early = pbHist.early
          /\ pbHist'.row["startup"] >= pbFails'
        BY <1>1, <1>5, <2>2, CountSound
    <2>6. PbMoreTypes'
        BY <1>1, <1>5, <2>1, <2>5 DEF PbInv, PbMoreTypes
    <2>7. CountIsEarned'
        <3>1. pbHist'.row["startup"] \in Nat /\ pbFails' \in Nat
            BY <1>1, <2>3, <2>5, ThresholdIs DEF PbHistType
        <3> QED BY <1>5, <2>2, <2>3, <2>5, <3>1 DEF CountIsEarned
    <2> QED BY <1>5, <2>4, <2>5, <2>6, <2>7 DEF PbInv, KillsAreEarned, RemovedIsGone, OverIsNotReady, ReadyWasProbed
<1>6. CASE ~ pbPassed /\ pbFails + 1 >= Threshold["startup"] /\ Kill("startup", "idle") /\ UNCHANGED pbPassed
    <2>1. Owner = "startup"
        BY <1>6 DEF Owner
    <2> QED BY <1>1, <1>o, <1>6, <2>1, KillSound
<1> QED BY <1>2, <1>3, <1>4, <1>5, <1>6 DEF StartupProbe

LEMMA LivenessSound == PbInv /\ LivenessProbe => PbInv'
<1> SUFFICES ASSUME PbInv, LivenessProbe PROVE PbInv'
    OBVIOUS
<1>1. /\ UNCHANGED <<pbSpec, pbPassed, pbOver, pbExit, pbWait>> /\ pbAt = "liveness"
      /\ "liveness" \in Kinds /\ "readiness" \in Kinds
    BY DEF LivenessProbe, Kinds
<1>2. pbPassed /\ Owner = "liveness" /\ Owner' = "liveness"
    BY <1>1 DEF PbInv, CountIsEarned, Owner
<1>o. ~ pbOver /\ pbDue \in Nat
    BY <1>1, NeverIs DEF PbInv, OverIsNotReady, PbTypeOK
<1>3. CASE /\ NotYet("liveness") /\ pbAt' = "readiness"
           /\ UNCHANGED <<pbApp, pbAge, pbStart, pbRuns, pbFails, pbReady, pbHist>>
    <2>1. pbDue' \in 0..Never /\ pbDue' # Never /\ pbDue' <= pbDue
        BY <1>1, <1>3, AskedSound
    <2>2. PbTypeOK' /\ PbMoreTypes'
        BY <1>1, <1>3, <2>1 DEF PbInv, PbTypeOK, PbMoreTypes
    <2> QED BY <1>1, <1>o, <1>2, <1>3, <2>1, <2>2, PbQuiet
<1>4. CASE /\ Probed("liveness") /\ pbAt' = "readiness" /\ pbFails' = 0
           /\ pbHist' = [pbHist EXCEPT !.row["liveness"] = 0]
           /\ UNCHANGED <<pbApp, pbAge, pbStart, pbReady>>
    <2>1. /\ pbRuns' \in [Kinds -> Nat] /\ \A j \in Kinds : pbRuns'[j] \in 0..Period[j]
          /\ pbDue' \in 0..Never /\ pbDue' # Never /\ pbDue' <= pbDue
        BY <1>1, <1>4, AskedSound
    <2>2. /\ pbHist' \in PbHistType /\ pbHist'.ready = pbHist.ready /\ pbHist'.unjust = pbHist.unjust
          /\ pbHist'.removed = pbHist.removed /\ pbHist'.early = pbHist.early /\ pbHist'.row \in [Kinds -> Nat]
        BY <1>4 DEF PbInv, PbMoreTypes, PbHistType
    <2>3. pbFails' \in 0..Largest({Threshold[k] : k \in Kinds})
        BY <1>4, ThresholdIs
    <2>4. PbTypeOK'
        BY <1>1, <1>4, <2>1, <2>3 DEF PbInv, PbTypeOK
    <2>5. PbMoreTypes'
        BY <1>1, <1>4, <2>1, <2>2 DEF PbInv, PbMoreTypes
    <2>6. CountIsEarned'
        BY <1>1, <1>2, <1>4, <2>2, ProbesAssumption DEF CountIsEarned
    <2>7. ReadyWasProbed'
        BY <1>1, <1>o, <1>4, <2>1, <2>2, NeverIs DEF PbInv, ReadyWasProbed, Recheck
    <2> QED BY <1>1, <1>o, <1>4, <2>2, <2>4, <2>5, <2>6, <2>7 DEF PbInv, KillsAreEarned, RemovedIsGone, OverIsNotReady, ReadyWasProbed
<1>5. CASE /\ Probed("liveness") /\ pbFails + 1 < Threshold["liveness"]
           /\ pbAt' = "readiness" /\ pbFails' = pbFails + 1
           /\ pbHist' = Counted("liveness")
           /\ UNCHANGED <<pbApp, pbAge, pbStart, pbReady>>
    <2>1. /\ pbRuns' \in [Kinds -> Nat] /\ \A j \in Kinds : pbRuns'[j] \in 0..Period[j]
          /\ pbDue' \in 0..Never /\ pbDue' # Never /\ pbDue' <= pbDue
        BY <1>1, <1>5, AskedSound
    <2>2. pbFails' \in 0..Largest({Threshold[k] : k \in Kinds}) /\ pbFails' < Threshold["liveness"]
        BY <1>1, <1>5, ThresholdIs, ProbesAssumption DEF PbInv, PbTypeOK
    <2>3. PbTypeOK'
        BY <1>1, <1>5, <2>1, <2>2 DEF PbInv, PbTypeOK
    <2>4. /\ pbHist' \in PbHistType /\ pbHist'.unjust = pbHist.unjust /\ pbHist'.removed = pbHist.removed
          /\ pbHist'.early = pbHist.early
          /\ pbHist'.ready = pbHist.ready /\ pbHist'.row["liveness"] >= pbFails'
        BY <1>1, <1>2, <1>5, CountSound
    <2>5. PbMoreTypes'
        BY <1>1, <1>5, <2>1, <2>4 DEF PbInv, PbMoreTypes
    <2>6. CountIsEarned'
        <3>1. pbHist'.row["liveness"] \in Nat /\ pbFails' \in Nat
            BY <1>1, <2>2, <2>4, ThresholdIs DEF PbHistType
        <3> QED BY <1>1, <1>2, <2>2, <2>4, <3>1 DEF CountIsEarned
    <2>7. ReadyWasProbed'
        BY <1>1, <1>o, <1>5, <2>1, <2>4, NeverIs DEF PbInv, ReadyWasProbed, Recheck
    <2> QED BY <1>1, <1>o, <1>5, <2>3, <2>4, <2>5, <2>6, <2>7 DEF PbInv, KillsAreEarned, RemovedIsGone, OverIsNotReady, ReadyWasProbed
<1>6. CASE pbFails + 1 >= Threshold["liveness"] /\ Kill("liveness", "readiness")
    BY <1>1, <1>o, <1>2, <1>6, KillSound
<1> QED BY <1>3, <1>4, <1>5, <1>6 DEF LivenessProbe, Counted

LEMMA ReadinessSound == PbInv /\ ReadinessProbe => PbInv'
<1> SUFFICES ASSUME PbInv, ReadinessProbe PROVE PbInv'
    OBVIOUS
<1>1. /\ UNCHANGED <<pbApp, pbAge, pbSpec, pbStart, pbPassed, pbFails, pbOver, pbExit, pbWait>>
      /\ pbAt = "readiness" /\ pbAt' = "idle" /\ "readiness" \in Kinds
    BY DEF ReadinessProbe, Kinds
<1>o. ~ pbOver /\ pbDue \in Nat
    BY <1>1, NeverIs DEF PbInv, OverIsNotReady, PbTypeOK
<1>2. pbReady' \in BOOLEAN
    BY DEF ReadinessProbe, PbInv, PbTypeOK
<1>3. /\ pbRuns' \in [Kinds -> Nat] /\ \A j \in Kinds : pbRuns'[j] \in 0..Period[j]
      /\ pbDue' \in 0..Never /\ pbDue' # Never /\ pbDue' <= pbDue
    <2>1. CASE UNCHANGED <<pbRuns, pbDue>>
        BY <1>1, <1>o, <2>1 DEF PbInv, PbTypeOK, PbMoreTypes
    <2>2. CASE NotYet("readiness") /\ UNCHANGED pbRuns
        BY <1>1, <2>2, AskedSound
    <2>3. CASE Probed("readiness")
        BY <1>1, <2>3, AskedSound
    <2> QED BY <2>1, <2>2, <2>3 DEF ReadinessProbe
<1>4. /\ pbHist' \in PbHistType /\ pbHist'.row = pbHist.row
      /\ pbHist'.unjust = pbHist.unjust /\ pbHist'.removed = pbHist.removed
          /\ pbHist'.early = pbHist.early
    BY DEF ReadinessProbe, PbInv, PbMoreTypes, PbHistType
<1>5. PbTypeOK'
    BY <1>1, <1>2, <1>3 DEF PbInv, PbTypeOK
<1>6. PbMoreTypes'
    BY <1>1, <1>3, <1>4 DEF PbInv, PbMoreTypes
<1>7. ReadyWasProbed'
    <2>1. CASE ~ pbSpec.readiness
        BY <1>1, <2>1 DEF ReadyWasProbed
    <2>2. CASE (pbReady' => pbReady) /\ UNCHANGED pbHist
        BY <1>1, <1>o, <1>3, <2>2, NeverIs DEF PbInv, ReadyWasProbed, Recheck
    <2>3. CASE Passes("readiness") /\ pbHist' = [pbHist EXCEPT !.ready = TRUE]
        <3>1. pbApp = "up"
            BY <2>3 DEF Passes
        <3>2. pbHist.removed = FALSE /\ pbHist'.ready = TRUE
            BY <2>3, <3>1 DEF PbInv, PbMoreTypes, PbHistType, RemovedIsGone
        <3> QED BY <1>4, <3>2 DEF ReadyWasProbed
    <2>4. CASE pbReady' = FALSE
        BY <2>4 DEF ReadyWasProbed
    <2> QED BY <2>1, <2>2, <2>3, <2>4 DEF ReadinessProbe
<1> QED BY <1>1, <1>o, <1>4, <1>5, <1>6, <1>7 DEF PbInv, KillsAreEarned, CountIsEarned, Owner, RemovedIsGone,
                                                    OverIsNotReady

\* The passing of time brings the looks nearer, and never one that was not asked.
LEMMA TimeSound == PbInv /\ TimePasses => PbInv'
<1> SUFFICES ASSUME PbInv, TimePasses PROVE PbInv'
    OBVIOUS
<1>1. /\ UNCHANGED <<pbSpec, pbAt, pbStart, pbPassed, pbFails, pbReady, pbOver, pbExit, pbHist>>
      /\ pbApp' \in {pbApp, "up"} /\ (pbApp \in {"exited", "gone"} => pbApp' = pbApp)
    BY DEF TimePasses
<1>2. /\ pbAge' \in 0..Never /\ pbDue' \in 0..Never /\ (pbDue' = Never <=> pbDue = Never) /\ pbDue' <= pbDue
      /\ pbWait' \in 0..HoldOff
    BY NeverIs, ProbesAssumption DEF TimePasses, Older, Sooner, PbInv, PbTypeOK
<1>3. pbRuns' \in [Kinds -> Nat] /\ \A k \in Kinds : pbRuns'[k] \in 0..Period[k]
    <2>1. pbRuns' = [k \in Kinds |-> Older(pbRuns[k], Period[k])]
        BY DEF TimePasses
    <2>2. \A k \in Kinds : Older(pbRuns[k], Period[k]) \in 0..Period[k]
        BY ProbesAssumption DEF Older, PbInv, PbTypeOK
    <2> QED BY <2>1, <2>2, ProbesAssumption
<1>4. PbTypeOK'
    BY <1>1, <1>2, <1>3 DEF PbInv, PbTypeOK
<1>5. PbMoreTypes'
    BY <1>1, <1>2, <1>3 DEF PbInv, PbMoreTypes
<1> QED BY <1>1, <1>2, <1>4, <1>5, PbQuiet DEF PbInv, CountIsEarned, OverIsNotReady

LEMMA PbInvStep == PbInv /\ [PbNext]_pbVars => PbInv'
<1> SUFFICES ASSUME PbInv, [PbNext]_pbVars PROVE PbInv'
    OBVIOUS
<1>1. CASE AppChanges
    <2>1. /\ UNCHANGED <<pbAge, pbSpec, pbAt, pbStart, pbRuns, pbPassed, pbFails, pbReady, pbOver, pbDue, pbWait, pbHist>>
          /\ pbApp' \in {"up", "unready", "hung", "exited", "gone"}
          /\ (pbApp \in {"exited", "gone"} => pbApp' = "gone")
        BY <1>1 DEF AppChanges, Alive
    <2>2. PbTypeOK' /\ PbMoreTypes'
        BY <2>1 DEF PbInv, PbTypeOK, PbMoreTypes
    <2>3. pbDue' <= pbDue
        BY <2>1, NeverIs DEF PbInv, PbTypeOK
    <2> QED BY <2>1, <2>2, <2>3, PbQuiet DEF PbInv, CountIsEarned, OverIsNotReady
<1>2. CASE Adopt
    <2>1. /\ UNCHANGED <<pbApp, pbAge, pbSpec, pbWait>> /\ pbAt' = "idle" /\ pbStart' = FALSE
          /\ pbRuns' = NoRuns /\ pbPassed' = FALSE /\ pbFails' = 0 /\ pbReady' = FALSE /\ pbOver' = FALSE
          /\ pbDue' = 0
        BY <1>2 DEF Adopt
    <2>2. pbRuns' \in [Kinds -> Nat] /\ \A k \in Kinds : pbRuns'[k] \in 0..Period[k]
        BY <2>1, ProbesAssumption DEF NoRuns
    <2>3. PbTypeOK'
        <3>1. pbDue' \in 0..Never /\ pbFails' \in 0..Largest({Threshold[k] : k \in Kinds})
            BY <2>1, NeverIs, ThresholdIs
        <3>2. pbDue' # Never
            BY <2>1, NeverIs
        <3> QED BY <2>1, <2>2, <3>1, <3>2 DEF PbInv, PbTypeOK
    <2>h. /\ pbHist' \in PbHistType /\ pbHist'.unjust = pbHist.unjust /\ pbHist'.removed = FALSE
        BY <1>2 DEF Adopt, NewHist, PbInv, PbMoreTypes, PbHistType
    <2>4. PbMoreTypes'
        BY <2>1, <2>2, <2>h DEF PbInv, PbMoreTypes
    <2>5. CountIsEarned'
        <3>1. Owner' \in Kinds
            BY DEF Owner, Kinds
        <3>2. pbHist'.row[Owner'] \in Nat
            BY <2>h, <3>1 DEF PbHistType
        <3> QED BY <2>1, <3>1, <3>2, ProbesAssumption DEF CountIsEarned
    <2> QED BY <2>1, <2>h, <2>3, <2>4, <2>5 DEF PbInv, KillsAreEarned, RemovedIsGone, OverIsNotReady, ReadyWasProbed
<1>3. CASE UNCHANGED pbVars
    BY <1>3 DEF pbVars, PbInv, PbTypeOK, PbMoreTypes, KillsAreEarned, CountIsEarned, Owner, RemovedIsGone,
                OverIsNotReady, ReadyWasProbed
<1> QED BY <1>1, <1>2, <1>3, StatusSound, StartupSound, LivenessSound, ReadinessSound, TimeSound
        DEF PbNext, ProbePass

LEMMA PbInvInit == PbInit => PbInv
<1> SUFFICES ASSUME PbInit PROVE PbInv
    OBVIOUS
<1>1. /\ pbApp = "starting" /\ pbAge = 0 /\ pbStart = TRUE /\ pbAt = "idle" /\ pbRuns = Period
      /\ pbPassed = FALSE /\ pbFails = 0 /\ pbOver = FALSE /\ pbDue = 1 /\ pbWait = 0
      /\ pbSpec \in [policy : {"Always", "Never"}, readiness : BOOLEAN]
      /\ pbReady \in BOOLEAN /\ (pbReady => ~ pbSpec.readiness)
    BY DEF PbInit, NoRuns, Recheck
<1>2. pbHist \in PbHistType /\ pbHist.row = [k \in Kinds |-> 0] /\ ~ pbHist.unjust /\ ~ pbHist.removed
    BY DEF PbInit, PbHistType
<1>3. PbTypeOK
    BY <1>1, NeverIs, ThresholdIs, ProbesAssumption DEF PbTypeOK
<1>4. PbMoreTypes
    BY <1>1, <1>2, ProbesAssumption DEF PbMoreTypes
<1>5. CountIsEarned
    <2>1. Owner \in Kinds
        BY DEF Owner, Kinds
    <2> QED BY <1>1, <1>2, <2>1, ProbesAssumption DEF CountIsEarned
<1> QED BY <1>1, <1>2, <1>3, <1>4, <1>5 DEF PbInv, KillsAreEarned, RemovedIsGone, OverIsNotReady, ReadyWasProbed

\* The probes' state keeps its types, and a pass that ends leaves a next look
\* behind unless the container is over (next_look).
THEOREM ProbesTypeCorrect == PbSpec => []PbTypeOK
<1>1. PbInv => PbTypeOK
    BY DEF PbInv
<1> QED BY PbInvInit, PbInvStep, <1>1, PTL DEF PbSpec

\* No container is killed by a probe that has not failed its threshold in a
\* row, though two probes count in one counter and restarts and adoptions come
\* between, and none is said to be ready that was not probed or was taken away,
\* but until a look due at once where restart_container failed early
\* (check_pod_status).
THEOREM ProbesKeptHolds == PbSpec => []ProbesKept
<1>1. PbInv => ProbesKept
    BY DEF PbInv, ProbesKept, ReadyIsProbed, ReadyWasProbed
<1> QED BY PbInvInit, PbInvStep, <1>1, PTL DEF PbSpec

-----------------------------------------------------------------------------
(* The volumes of claims. *)

\* A Pod that starts or runs has its claim's reservation, and the claim, which
\* its use protects; a reclaim has the reservation until the volume is gone.
Reserved ==
    \A c \in Claims :
        /\ clAt[c] # "gone" <=> clHold[c] = "pod"
        /\ clAt[c] \in {"room", "making", "made", "up"} => clClaim[c] # NoClaim
        /\ clPass.at = "volume" /\ clPass.claim = c => clHold[c] = "reclaim"

\* What is known of a claim is of one the name has had.
OfTheName ==
    \A c \in Claims :
        /\ clClaim[c] = NoClaim \/ (clClaim[c].uid = clUid[c] /\ clUid[c] > 0)
        /\ clUsed[c] <= clUid[c]
        /\ clPv[c] # NoPv => clPv[c].claim \in 1..clUid[c]
        /\ clBind[c].at \in {"write", "claim"} => clBind[c].saw.uid \in 1..clUid[c]

\* The first claim of a name has no Released PV while it is there, so no
\* reclaim is under way that listed one.
FirstClaim ==
    \A c \in Claims :
        /\ clClaim[c].uid = 1 => clPv[c].phase # "released"
        /\ clPass.at # "none" /\ clPass.claim = c /\ clPass.pv # NoPv => clUid[c] > 0
        /\ clPass.at # "none" /\ clPass.claim = c /\ clPass.pv # NoPv /\ clUid[c] = 1 => clClaim[c] = NoClaim
        /\ clPass.at = "volume" /\ clPass.claim = c => ~ (clClaim[c].uid = 1 /\ clUsed[c] = 1)

\* The room that was read is there until the volume is made: one is made at a time.
RoomStays ==
    \A c \in Claims :
        clAt[c] = "making" => clLock = c /\ (clUnchecked \/ Cardinality(Volumes) < Room)

MintKnown == clMinting # "flying" => clMkfs = 0

Uids == 0..(MaxRemakes + 1)
ClaimType == [uid : Uids, bound : BOOLEAN]
PvType == [claim : Uids, phase : {"none", "bound", "released"}]
BindType == [at : {"none", "read", "write", "claim"}, saw : ClaimType]
PassType == [at : {"none", "volume", "pv"}, claim : Claims \cup {"none"}, pv : PvType]
ClMoreTypes ==
    /\ clUid \in [Claims -> Uids] /\ clUsed \in [Claims -> Uids] /\ clUnchecked \in BOOLEAN
    /\ clBind \in [Claims -> BindType] /\ clPass \in PassType
    /\ clPass.at = "none" => clPass = NoReclaim
    /\ clPass.at # "none" => clPass.claim \in Claims
    /\ clPass.at = "pv" => clPass.pv # NoPv

ClInv ==
    /\ ClTypeOK /\ ClMoreTypes /\ Reserved /\ OfTheName /\ FirstClaim /\ RoomStays /\ MintKnown
    /\ ClaimsKept

LEMMA ClConstants == MaxRemakes \in Nat /\ Room \in Nat /\ "none" \notin Claims /\ IsFiniteSet(Claims) /\ 0 \in Uids
BY ClaimVolumesAssumption DEF Uids

LEMMA ClTyped ==
    ASSUME ClInv
    PROVE  /\ clClaim \in [Claims -> ClaimType] /\ clPv \in [Claims -> PvType]
           /\ clVol \in [Claims -> {"none", "made", "attached"}]
           /\ clAt \in [Claims -> {"gone", "wait", "room", "making", "made", "up"}]
           /\ clHold \in [Claims -> {"none", "pod", "reclaim"}]
           /\ clUid \in [Claims -> Uids] /\ clUsed \in [Claims -> Uids]
           /\ clBind \in [Claims -> BindType] /\ clPass \in PassType
BY DEF ClInv, ClTypeOK, ClMoreTypes, ClaimType, PvType, Uids

LEMMA NoneTyped == NoClaim \in ClaimType /\ NoPv \in PvType /\ NoBind \in BindType /\ NoReclaim \in PassType
<1>1. NoClaim \in ClaimType /\ NoPv \in PvType
    BY ClConstants DEF NoClaim, NoPv, ClaimType, PvType
<1>2. NoBind \in BindType /\ NoReclaim \in PassType
    BY <1>1 DEF NoBind, NoReclaim, BindType, PassType
<1> QED BY <1>1, <1>2

\* What each variable is left alone by: every step but the actions named.

LEMMA ClClaimSame ==
    ASSUME [ClNext]_clVars, ~ \E c \in Claims : ClaimMade(c) \/ ClaimDeleted(c) \/ BindClaims(c)
    PROVE  clClaim' = clClaim
BY DEF ClNext, Binder, PodComes, PodGoes, Look, Enter, Make, Attach, BindReads, BindWrites, ReclaimBegins,
       ReleaseAsked, Format, MintEnds, BlankBreaks, Formatted, ReclaimVolume, ReclaimPv, ClRestart, clVars

LEMMA ClPvSame ==
    ASSUME [ClNext]_clVars, ~ \E c \in Claims : Binder(c) \/ BindWrites(c), ~ ReclaimPv
    PROVE  clPv' = clPv
BY DEF ClNext, ClaimMade, ClaimDeleted, BindClaims, PodComes, PodGoes, Look, Enter, Make, Attach, BindReads,
       ReclaimBegins, ReleaseAsked, Format, MintEnds, BlankBreaks, Formatted, ReclaimVolume, ClRestart, clVars

LEMMA ClVolSame ==
    ASSUME [ClNext]_clVars, ~ \E c \in Claims : Make(c) \/ Attach(c), ~ ReclaimVolume
    PROVE  clVol' = clVol
BY DEF ClNext, ClaimMade, ClaimDeleted, Binder, BindWrites, BindClaims, PodComes, PodGoes, Look, Enter, BindReads,
       ReclaimBegins, ReleaseAsked, Format, MintEnds, BlankBreaks, Formatted, ReclaimPv, ClRestart, clVars

LEMMA ClAtSame ==
    ASSUME [ClNext]_clVars, ~ ClRestart,
           ~ \E c \in Claims : PodComes(c) \/ PodGoes(c) \/ Look(c) \/ Enter(c) \/ Make(c) \/ Attach(c)
    PROVE  clAt' = clAt /\ clLock' = clLock /\ clUnchecked' = clUnchecked
BY DEF ClNext, ClaimMade, ClaimDeleted, Binder, BindReads, BindWrites, BindClaims, ReclaimBegins,
       ReleaseAsked, Format, MintEnds, BlankBreaks, Formatted, ReclaimVolume, ReclaimPv, clVars, clHist

LEMMA ClHoldSame ==
    ASSUME [ClNext]_clVars, ~ ClRestart, ~ ReclaimVolume,
           ~ \E c \in Claims : PodComes(c) \/ PodGoes(c) \/ ReclaimBegins(c) \/ ReleaseAsked(c)
    PROVE  clHold' = clHold
BY DEF ClNext, ClaimMade, ClaimDeleted, Binder, Look, Enter, Make, Attach, BindReads, BindWrites, BindClaims,
       Format, MintEnds, BlankBreaks, Formatted, ReclaimPv, clVars, clHist

LEMMA ClPassSame ==
    ASSUME [ClNext]_clVars, ~ ClRestart, ~ ReclaimVolume, ~ ReclaimPv,
           ~ \E c \in Claims : ReclaimBegins(c) \/ ReleaseAsked(c)
    PROVE  clPass' = clPass
BY DEF ClNext, ClaimMade, ClaimDeleted, Binder, PodComes, PodGoes, Look, Enter, Make, Attach, BindReads, BindWrites,
       BindClaims, Format, MintEnds, BlankBreaks, Formatted, clVars, clHist

LEMMA ClUidSame ==
    ASSUME [ClNext]_clVars, ~ \E c \in Claims : ClaimMade(c)
    PROVE  clUid' = clUid
BY DEF ClNext, ClaimDeleted, Binder, PodComes, PodGoes, Look, Enter, Make, Attach, BindReads, BindWrites, BindClaims,
       ReclaimBegins, ReleaseAsked, Format, MintEnds, BlankBreaks, Formatted, ReclaimVolume, ReclaimPv, ClRestart,
       clVars, clHist

LEMMA ClUsedSame ==
    ASSUME [ClNext]_clVars, ~ \E c \in Claims : Attach(c)
    PROVE  clUsed' = clUsed
BY DEF ClNext, ClaimMade, ClaimDeleted, Binder, PodComes, PodGoes, Look, Enter, Make, BindReads, BindWrites,
       BindClaims, ReclaimBegins, ReleaseAsked, Format, MintEnds, BlankBreaks, Formatted, ReclaimVolume, ReclaimPv,
       ClRestart, clVars, clHist

LEMMA ClBindSame ==
    ASSUME [ClNext]_clVars, ~ ClRestart,
           ~ \E c \in Claims : Attach(c) \/ BindReads(c) \/ BindWrites(c) \/ BindClaims(c)
    PROVE  clBind' = clBind
BY DEF ClNext, ClaimMade, ClaimDeleted, Binder, PodComes, PodGoes, Look, Enter, Make, ReclaimBegins, ReleaseAsked,
       Format, MintEnds, BlankBreaks, Formatted, ReclaimVolume, ReclaimPv, clVars, clHist

LEMMA ClMintSame ==
    ASSUME [ClNext]_clVars, ~ ClRestart, ~ Format, ~ MintEnds, ~ BlankBreaks, ~ Formatted, ~ \E c \in Claims : Make(c)
    PROVE  UNCHANGED <<clBlank, clMinting, clMkfs>>
BY DEF ClNext, ClaimMade, ClaimDeleted, Binder, PodComes, PodGoes, Look, Enter, Attach, BindReads, BindWrites,
       BindClaims, ReclaimBegins, ReleaseAsked, ReclaimVolume, ReclaimPv, clVars, clHist

LEMMA ClTypesStep == ClInv /\ [ClNext]_clVars => ClTypeOK' /\ ClMoreTypes'
<1> SUFFICES ASSUME ClInv, [ClNext]_clVars PROVE ClTypeOK' /\ ClMoreTypes'
    OBVIOUS
<1> USE ClTyped, ClConstants, NoneTyped
<1>1. clClaim' \in [Claims -> ClaimType]
    <2>1. ASSUME NEW c \in Claims, ClaimMade(c) PROVE clClaim' \in [Claims -> ClaimType]
        <3>1. [uid |-> clUid[c] + 1, bound |-> FALSE] \in ClaimType
            BY <2>1 DEF ClaimMade, ClaimType, Uids
        <3> QED BY <2>1, <3>1 DEF ClaimMade
    <2>2. ASSUME NEW c \in Claims, ClaimDeleted(c) PROVE clClaim' \in [Claims -> ClaimType]
        BY <2>2 DEF ClaimDeleted
    <2>3. ASSUME NEW c \in Claims, BindClaims(c) PROVE clClaim' \in [Claims -> ClaimType]
        <3>1. [clClaim[c] EXCEPT !.bound = TRUE] \in ClaimType
            BY DEF ClaimType
        <3> QED BY <2>3, <3>1 DEF BindClaims
    <2> QED BY <2>1, <2>2, <2>3, ClClaimSame
<1>2. clPv' \in [Claims -> PvType]
    <2>1. ASSUME NEW c \in Claims, Binder(c) PROVE clPv' \in [Claims -> PvType]
        BY <2>1 DEF Binder, PvType
    <2>2. ASSUME NEW c \in Claims, BindWrites(c) PROVE clPv' \in [Claims -> PvType]
        <3>1. clBind[c].saw.uid \in Uids
            BY DEF BindType, ClaimType
        <3>2. clPv[c].phase \in {"none", "bound", "released"}
            BY DEF PvType
        <3>3. [claim |-> clBind[c].saw.uid, phase |-> IF clPv[c] = NoPv THEN "bound" ELSE clPv[c].phase] \in PvType
            BY <3>1, <3>2 DEF PvType
        <3> QED BY <2>2, <3>3 DEF BindWrites
    <2>3. CASE ReclaimPv
        BY <2>3 DEF ReclaimPv
    <2> QED BY <2>1, <2>2, <2>3, ClPvSame
<1>3. clVol' \in [Claims -> {"none", "made", "attached"}]
    <2>1. ASSUME NEW c \in Claims, Make(c) \/ Attach(c) PROVE clVol' \in [Claims -> {"none", "made", "attached"}]
        BY <2>1 DEF Make, Clone, Wait, Attach
    <2>2. CASE ReclaimVolume
        BY <2>2 DEF ReclaimVolume
    <2> QED BY <2>1, <2>2, ClVolSame
<1>4. clAt' \in [Claims -> {"gone", "wait", "room", "making", "made", "up"}]
    <2>1. ASSUME NEW c \in Claims, PodComes(c) \/ PodGoes(c) \/ Look(c) \/ Enter(c) \/ Make(c) \/ Attach(c)
          PROVE  clAt' \in [Claims -> {"gone", "wait", "room", "making", "made", "up"}]
        BY <2>1 DEF PodComes, PodGoes, Look, Enter, Make, Clone, Wait, Attach, Step
    <2>2. CASE ClRestart
        <3>1. \A c \in Claims : (IF clAt[c] \in {"up", "gone"} THEN clAt[c] ELSE "wait")
                                \in {"gone", "wait", "room", "making", "made", "up"}
            OBVIOUS
        <3> QED BY <2>2, <3>1 DEF ClRestart
    <2> QED BY <2>1, <2>2, ClAtSame
<1>5. clHold' \in [Claims -> {"none", "pod", "reclaim"}]
    <2>1. ASSUME NEW c \in Claims, PodComes(c) \/ PodGoes(c) \/ ReclaimBegins(c) \/ ReleaseAsked(c)
          PROVE  clHold' \in [Claims -> {"none", "pod", "reclaim"}]
        BY <2>1 DEF PodComes, PodGoes, ReclaimBegins, ReleaseAsked, Held
    <2>2. CASE ClRestart \/ ReclaimVolume
        BY <2>2 DEF ClRestart, ReclaimVolume, Held
    <2> QED BY <2>1, <2>2, ClHoldSame
<1>6. clUid' \in [Claims -> Uids] /\ clUsed' \in [Claims -> Uids] /\ clUnchecked' \in BOOLEAN
    <2>1. clUid' \in [Claims -> Uids]
        <3>1. ASSUME NEW c \in Claims, ClaimMade(c) PROVE clUid' \in [Claims -> Uids]
            BY <3>1 DEF ClaimMade, Uids
        <3> QED BY <3>1, ClUidSame
    <2>2. clUsed' \in [Claims -> Uids]
        <3>1. ASSUME NEW c \in Claims, Attach(c) PROVE clUsed' \in [Claims -> Uids]
            BY <3>1 DEF Attach, ClaimType
        <3> QED BY <3>1, ClUsedSame
    <2>3. clUnchecked' \in BOOLEAN
        <3>1. ASSUME NEW c \in Claims, Enter(c) PROVE clUnchecked' \in BOOLEAN
            BY <3>1 DEF Enter, ClInv, ClMoreTypes
        <3>2. CASE UNCHANGED clUnchecked
            BY <3>2 DEF ClInv, ClMoreTypes
        <3>3. (\E c \in Claims : PodComes(c) \/ PodGoes(c) \/ Look(c) \/ Make(c) \/ Attach(c)) \/ ClRestart
              => UNCHANGED clUnchecked
            BY DEF PodComes, PodGoes, Look, Make, Attach, ClRestart, clHist
        <3> QED BY <3>1, <3>2, <3>3, ClAtSame
    <2> QED BY <2>1, <2>2, <2>3
<1>7. clBind' \in [Claims -> BindType]
    <2>1. ASSUME NEW c \in Claims, Attach(c) \/ BindReads(c) \/ BindWrites(c) \/ BindClaims(c)
          PROVE  clBind' \in [Claims -> BindType]
        <3>1. /\ [at |-> "read", saw |-> NoClaim] \in BindType
              /\ [at |-> "write", saw |-> clClaim[c]] \in BindType
              /\ [at |-> "claim", saw |-> clBind[c].saw] \in BindType
            BY DEF BindType
        <3> QED BY <2>1, <3>1 DEF Attach, BindReads, BindWrites, BindClaims, BindStep
    <2>2. CASE ClRestart
        BY <2>2 DEF ClRestart
    <2> QED BY <2>1, <2>2, ClBindSame
<1>8. /\ clPass' \in PassType /\ (clPass'.at = "none" => clPass' = NoReclaim)
      /\ (clPass'.at # "none" => clPass'.claim \in Claims) /\ (clPass'.at = "pv" => clPass'.pv # NoPv)
    <2>1. ASSUME NEW c \in Claims, ReclaimBegins(c) \/ ReleaseAsked(c)
          PROVE  clPass' \in PassType /\ clPass'.at = "volume" /\ clPass'.claim = c
        BY <2>1 DEF ReclaimBegins, ReleaseAsked, PassType
    <2>2. CASE clPass' = NoReclaim
        BY <2>2 DEF NoReclaim
    <2>3. CASE clPass.pv # NoPv /\ clPass.at = "volume" /\ clPass' = [clPass EXCEPT !.at = "pv"]
        BY <2>3 DEF PassType, ClInv, ClMoreTypes
    <2>4. CASE UNCHANGED clPass
        BY <2>4 DEF ClInv, ClMoreTypes
    <2>5. ClRestart \/ ReclaimPv => clPass' = NoReclaim
        BY DEF ClRestart, ReclaimPv
    <2>6. ReclaimVolume => clPass' = NoReclaim
                        \/ (clPass.pv # NoPv /\ clPass.at = "volume" /\ clPass' = [clPass EXCEPT !.at = "pv"])
        <3>1. AfterVolume = NoReclaim \/ (clPass.pv # NoPv /\ AfterVolume = [clPass EXCEPT !.at = "pv"])
            BY DEF AfterVolume
        <3>2. ReclaimVolume => clPass.at = "volume" /\ clPass' \in {AfterVolume, NoReclaim}
            BY DEF ReclaimVolume
        <3> QED BY <3>1, <3>2
    <2> QED BY <2>1, <2>2, <2>3, <2>4, <2>5, <2>6, ClPassSame
<1>9. /\ clBlank' \in {"none", "formatting", "ready", "broken"}
      /\ clMinting' \in {"none", "flying", "failed"} /\ clMkfs' \in 0..3
    <2>1. /\ clBlank \in {"none", "formatting", "ready", "broken"}
          /\ clMinting \in {"none", "flying", "failed"} /\ clMkfs \in 0..3 /\ (clMinting = "none" => clMkfs = 0)
        BY DEF ClInv, ClTypeOK, MintKnown
    <2>2. ASSUME NEW c \in Claims, Make(c)
          PROVE  /\ clBlank' \in {"none", "formatting", "ready", "broken"}
                 /\ clMinting' \in {"none", "flying", "failed"} /\ clMkfs' \in 0..3
        BY <2>1, <2>2 DEF Make, Clone, Wait, MintTemplate
    <2>3. CASE Format \/ BlankBreaks \/ Formatted
        BY <2>1, <2>3 DEF Format, BlankBreaks, Formatted
    <2>4. CASE MintEnds
        BY <2>1, <2>4 DEF MintEnds
    <2>5. CASE ClRestart
        BY <2>1, <2>5 DEF ClRestart
    <2>6. CASE UNCHANGED <<clBlank, clMinting, clMkfs>>
        BY <2>1, <2>6
    <2> QED BY <2>2, <2>3, <2>4, <2>5, <2>6, ClMintSame
<1>10. clLock' \in Claims \cup {"none"} /\ (clLock' # "none" => clAt'[clLock'] \in {"making", "made"})
    <2>1. clLock \in Claims \cup {"none"} /\ (clLock # "none" => clAt[clLock] \in {"making", "made"})
        BY DEF ClInv, ClTypeOK
    <2>2. ASSUME NEW c \in Claims, PodComes(c) \/ PodGoes(c) \/ Look(c) \/ Enter(c) \/ Make(c) \/ Attach(c)
          PROVE  clLock' \in Claims \cup {"none"} /\ (clLock' # "none" => clAt'[clLock'] \in {"making", "made"})
        BY <2>1, <2>2 DEF PodComes, PodGoes, Look, Enter, Make, Clone, Wait, Attach, Step, Unlock
    <2>3. CASE ClRestart
        BY <2>3 DEF ClRestart
    <2> QED BY <2>1, <2>2, <2>3, ClAtSame
<1>11. ClTypeOK'
    BY <1>1, <1>2, <1>3, <1>4, <1>5, <1>8, <1>9, <1>10 DEF ClTypeOK, ClaimType, PvType, PassType, Uids
<1> QED BY <1>6, <1>7, <1>8, <1>11 DEF ClMoreTypes

\* What a reclaim's step does to what it is at.
LEMMA PassMoves ==
    ASSUME ClInv
    PROVE  /\ \A c \in Claims : ReclaimBegins(c) =>
                  /\ clPass' = [at |-> "volume", claim |-> c, pv |-> clPv[c]] /\ clPass.at = "none"
                  /\ clHold' = [clHold EXCEPT ![c] = "reclaim"] /\ clHold[c] = "none"
                  /\ UNCHANGED <<clClaim, clPv, clVol, clAt, clUid, clUsed>>
           /\ \A c \in Claims : ReleaseAsked(c) =>
                  /\ clPass' = [at |-> "volume", claim |-> c, pv |-> NoPv] /\ clPass.at = "none"
                  /\ clHold' = [clHold EXCEPT ![c] = "reclaim"] /\ clHold[c] = "none" /\ clClaim[c] = NoClaim
                  /\ UNCHANGED <<clClaim, clPv, clVol, clAt, clUid, clUsed>>
           /\ ReclaimVolume =>
                  /\ clPass.at = "volume" /\ clPass.claim \in Claims
                  /\ \/ clPass' = NoReclaim
                     \/ /\ clPass.pv # NoPv /\ clPass'.at = "pv" /\ clPass'.claim = clPass.claim
                        /\ clPass'.pv = clPass.pv /\ clVol' = [clVol EXCEPT ![clPass.claim] = "none"]
                  /\ clHold' = [clHold EXCEPT ![clPass.claim] = "none"]
                  /\ \A d \in Claims \ {clPass.claim} : clVol'[d] = clVol[d]
                  /\ UNCHANGED <<clClaim, clPv, clAt, clUid, clUsed>>
           /\ ReclaimPv => clPass' = NoReclaim
<1> USE ClTyped
<1>1. ASSUME NEW c \in Claims, ReclaimBegins(c)
      PROVE  /\ clPass' = [at |-> "volume", claim |-> c, pv |-> clPv[c]] /\ clPass.at = "none"
             /\ clHold' = [clHold EXCEPT ![c] = "reclaim"] /\ clHold[c] = "none"
             /\ UNCHANGED <<clClaim, clPv, clVol, clAt, clUid, clUsed>>
    BY <1>1 DEF ReclaimBegins, NoReclaim, Held, clHist
<1>2. ASSUME NEW c \in Claims, ReleaseAsked(c)
      PROVE  /\ clPass' = [at |-> "volume", claim |-> c, pv |-> NoPv] /\ clPass.at = "none"
             /\ clHold' = [clHold EXCEPT ![c] = "reclaim"] /\ clHold[c] = "none" /\ clClaim[c] = NoClaim
             /\ UNCHANGED <<clClaim, clPv, clVol, clAt, clUid, clUsed>>
    BY <1>2 DEF ReleaseAsked, NoReclaim, Held, clHist
<1>3. ASSUME ReclaimVolume
      PROVE  /\ clPass.at = "volume" /\ clPass.claim \in Claims
             /\ \/ clPass' = NoReclaim
                \/ /\ clPass.pv # NoPv /\ clPass'.at = "pv" /\ clPass'.claim = clPass.claim
                   /\ clPass'.pv = clPass.pv /\ clVol' = [clVol EXCEPT ![clPass.claim] = "none"]
             /\ clHold' = [clHold EXCEPT ![clPass.claim] = "none"]
             /\ \A d \in Claims \ {clPass.claim} : clVol'[d] = clVol[d]
             /\ UNCHANGED <<clClaim, clPv, clAt, clUid, clUsed>>
    <2>1. clPass.at = "volume" /\ clPass.claim \in Claims
        BY <1>3 DEF ReclaimVolume, ClInv, ClMoreTypes
    <2>2. /\ clHold' = [clHold EXCEPT ![clPass.claim] = "none"]
          /\ UNCHANGED <<clClaim, clPv, clAt, clUid, clUsed>>
        BY <1>3 DEF ReclaimVolume, Held, clHist
    <2>3. \A d \in Claims \ {clPass.claim} : clVol'[d] = clVol[d]
        BY <1>3, <2>1 DEF ReclaimVolume
    <2>4. \/ clPass' = NoReclaim
          \/ clPass' = AfterVolume /\ clVol' = [clVol EXCEPT ![clPass.claim] = "none"]
        BY <1>3 DEF ReclaimVolume
    <2>5. \/ AfterVolume = NoReclaim
          \/ clPass.pv # NoPv /\ AfterVolume = [clPass EXCEPT !.at = "pv"]
        BY DEF AfterVolume
    <2>6. [clPass EXCEPT !.at = "pv"].at = "pv" /\ [clPass EXCEPT !.at = "pv"].claim = clPass.claim
          /\ [clPass EXCEPT !.at = "pv"].pv = clPass.pv
        BY DEF PassType
    <2> QED BY <2>1, <2>2, <2>3, <2>4, <2>5, <2>6
<1>4. ReclaimPv => clPass' = NoReclaim
    BY DEF ReclaimPv
<1> QED BY <1>1, <1>2, <1>3, <1>4

LEMMA ReservedStep == ClInv /\ [ClNext]_clVars => Reserved'
<1> SUFFICES ASSUME ClInv, [ClNext]_clVars PROVE Reserved'
    OBVIOUS
<1> USE ClTyped
<1>1. Reserved
    BY DEF ClInv
<1>2. ASSUME NEW c \in Claims, ClaimMade(c) \/ ClaimDeleted(c) \/ BindClaims(c) PROVE Reserved'
    <2>1. UNCHANGED <<clAt, clHold, clPass>>
        BY <1>2 DEF ClaimMade, ClaimDeleted, BindClaims
    <2>2. \A d \in Claims : clAt[d] # "gone" /\ clClaim[d] # NoClaim => clClaim'[d] # NoClaim
        <3>1. CASE ClaimMade(c) \/ ClaimDeleted(c)
            BY <3>1 DEF ClaimMade, ClaimDeleted
        <3>2. CASE BindClaims(c)
            <4>1. \A d \in Claims \ {c} : clClaim'[d] = clClaim[d]
                BY <3>2 DEF BindClaims
            <4>2. clClaim'[c] \in {clClaim[c], [clClaim[c] EXCEPT !.bound = TRUE]}
                BY <3>2 DEF BindClaims
            <4>3. [clClaim[c] EXCEPT !.bound = TRUE] # NoClaim
                BY DEF NoClaim, ClaimType
            <4> QED BY <4>1, <4>2, <4>3
        <3> QED BY <1>2, <3>1, <3>2
    <2> QED BY <1>1, <2>1, <2>2 DEF Reserved
<1>3. ASSUME NEW c \in Claims, PodComes(c) \/ PodGoes(c) PROVE Reserved'
    <2>1. /\ UNCHANGED <<clClaim, clPass>>
          /\ \/ clAt[c] = "gone" /\ clHold[c] = "none" /\ clAt' = [clAt EXCEPT ![c] = "wait"]
                /\ clHold' = [clHold EXCEPT ![c] = "pod"]
             \/ clAt[c] # "gone" /\ clAt' = [clAt EXCEPT ![c] = "gone"] /\ clHold' = [clHold EXCEPT ![c] = "none"]
        BY <1>3 DEF PodComes, PodGoes, Step
    <2> QED BY <1>1, <2>1 DEF Reserved
<1>4. ASSUME NEW c \in Claims, Look(c) \/ Enter(c) \/ Make(c) \/ Attach(c) PROVE Reserved'
    <2>1. UNCHANGED <<clClaim, clPass, clHold>>
        BY <1>4 DEF Look, Enter, Make, Attach
    <2>2. /\ clAt[c] # "gone" /\ clAt'[c] # "gone" /\ \A d \in Claims \ {c} : clAt'[d] = clAt[d]
          /\ clAt'[c] # "wait" => clClaim[c] # NoClaim
        BY <1>1, <1>4 DEF Look, Enter, Make, Clone, Wait, Attach, Step, Reserved
    <2> QED BY <1>1, <2>1, <2>2 DEF Reserved
<1>5. ASSUME NEW c \in Claims, ReclaimBegins(c) \/ ReleaseAsked(c) PROVE Reserved'
    <2>1. /\ UNCHANGED <<clClaim, clAt>> /\ clHold' = [clHold EXCEPT ![c] = "reclaim"] /\ clHold[c] = "none"
          /\ clPass'.claim = c
        BY <1>5, PassMoves
    <2> QED BY <1>1, <2>1 DEF Reserved
<1>6. CASE ReclaimVolume
    <2>1. /\ UNCHANGED <<clClaim, clAt>> /\ clHold' = [clHold EXCEPT ![clPass.claim] = "none"]
          /\ clPass.at = "volume" /\ clPass.claim \in Claims /\ clPass'.at # "volume"
        BY <1>6, PassMoves DEF NoReclaim
    <2> QED BY <1>1, <2>1 DEF Reserved
<1>7. CASE ReclaimPv
    <2>1. UNCHANGED <<clClaim, clAt, clHold>> /\ clPass'.at = "none"
        BY <1>7 DEF ReclaimPv, NoReclaim
    <2> QED BY <1>1, <2>1 DEF Reserved
<1>8. CASE ClRestart
    <2>1. clClaim' = clClaim /\ clPass'.at = "none"
        BY <1>8 DEF ClRestart, NoReclaim
    <2>2. \A c \in Claims : /\ clAt'[c] = IF clAt[c] \in {"up", "gone"} THEN clAt[c] ELSE "wait"
                            /\ clHold'[c] = IF clHold[c] = "reclaim" THEN "none" ELSE clHold[c]
        BY <1>8 DEF ClRestart
    <2> QED BY <1>1, <2>1, <2>2 DEF Reserved
<1>9. CASE UNCHANGED <<clClaim, clAt, clHold, clPass>>
    BY <1>1, <1>9 DEF Reserved
<1> QED BY <1>2, <1>3, <1>4, <1>5, <1>6, <1>7, <1>8, <1>9, ClClaimSame, ClAtSame, ClHoldSame, ClPassSame

LEMMA OfTheNameStep == ClInv /\ [ClNext]_clVars => OfTheName'
<1> SUFFICES ASSUME ClInv, [ClNext]_clVars PROVE OfTheName'
    OBVIOUS
<1> USE ClTyped, ClConstants
<1>1. OfTheName
    BY DEF ClInv
<1>2. \A c \in Claims : clUid[c] \in Nat /\ clUsed[c] \in Nat /\ clPv[c].claim \in Nat /\ clBind[c].saw.uid \in Nat
    BY DEF PvType, BindType, ClaimType, Uids
<1>3. ASSUME NEW c \in Claims, ClaimMade(c) PROVE OfTheName'
    <2>1. /\ UNCHANGED <<clPv, clUsed, clBind>>
          /\ \A d \in Claims \ {c} : clUid'[d] = clUid[d] /\ clClaim'[d] = clClaim[d]
          /\ clUid'[c] = clUid[c] + 1 /\ clClaim'[c].uid = clUid[c] + 1
        BY <1>3 DEF ClaimMade
    <2> QED BY <1>1, <1>2, <2>1 DEF OfTheName
<1>4. ASSUME NEW c \in Claims, ClaimDeleted(c) PROVE OfTheName'
    <2>1. UNCHANGED <<clPv, clUsed, clBind, clUid>> /\ clClaim'[c] = NoClaim
          /\ \A d \in Claims \ {c} : clClaim'[d] = clClaim[d]
        BY <1>4 DEF ClaimDeleted, clHist
    <2> QED BY <1>1, <2>1 DEF OfTheName
<1>5. ASSUME NEW c \in Claims, BindClaims(c) PROVE OfTheName'
    <2>1. UNCHANGED <<clPv, clUsed, clUid>>
        BY <1>5 DEF BindClaims, clHist
    <2>2. \A d \in Claims \ {c} : clClaim'[d] = clClaim[d] /\ clBind'[d] = clBind[d]
        BY <1>5 DEF BindClaims, BindStep
    <2>3. clBind[c].at = "claim" /\ clBind'[c].at = "none"
        BY <1>5 DEF BindClaims, BindStep, NoBind
    <2>4. \/ clClaim'[c] = clClaim[c]
          \/ clClaim[c] = clBind[c].saw /\ clClaim'[c] = [clClaim[c] EXCEPT !.bound = TRUE]
        BY <1>5 DEF BindClaims
    <2>5. [clClaim[c] EXCEPT !.bound = TRUE].uid = clClaim[c].uid
        BY DEF ClaimType
    <2>6. clClaim'[c] = NoClaim \/ (clClaim'[c].uid = clUid[c] /\ clUid[c] > 0)
        <3>1. clClaim[c] = clBind[c].saw => clClaim[c].uid \in 1..clUid[c]
            BY <1>1, <2>3 DEF OfTheName
        <3>2. clClaim[c] = clBind[c].saw => clClaim[c] # NoClaim
            BY <1>2, <3>1 DEF NoClaim
        <3> QED BY <1>1, <2>4, <2>5, <3>2 DEF OfTheName
    <2> QED BY <1>1, <2>1, <2>2, <2>3, <2>6 DEF OfTheName
<1>6. ASSUME NEW c \in Claims, Binder(c) PROVE OfTheName'
    <2>1. UNCHANGED <<clClaim, clUsed, clUid, clBind>>
        BY <1>6 DEF Binder, clHist
    <2>2. clPv[c] # NoPv /\ clPv'[c].claim = clPv[c].claim /\ \A d \in Claims \ {c} : clPv'[d] = clPv[d]
        BY <1>6 DEF Binder, PvType
    <2> QED BY <1>1, <2>1, <2>2 DEF OfTheName
<1>7. ASSUME NEW c \in Claims, Attach(c) PROVE OfTheName'
    <2>1. UNCHANGED <<clClaim, clPv, clUid>>
        BY <1>7 DEF Attach
    <2>2. \A d \in Claims \ {c} : clUsed'[d] = clUsed[d] /\ clBind'[d] = clBind[d]
        BY <1>7 DEF Attach
    <2>3. clUsed'[c] \in {clUsed[c], clClaim[c].uid} /\ (clBind'[c] = clBind[c] \/ clBind'[c].at = "read")
        BY <1>7 DEF Attach
    <2>4. clClaim[c].uid \in Nat /\ clClaim[c].uid <= clUid[c]
        BY <1>1, <1>2 DEF OfTheName, NoClaim, ClaimType, Uids
    <2> QED BY <1>1, <2>1, <2>2, <2>3, <2>4 DEF OfTheName
<1>8. ASSUME NEW c \in Claims, BindReads(c) PROVE OfTheName'
    <2>1. UNCHANGED <<clClaim, clPv, clUsed, clUid>> /\ \A d \in Claims \ {c} : clBind'[d] = clBind[d]
        BY <1>8 DEF BindReads, BindStep, clHist
    <2>2. clBind'[c] = NoBind \/ (clClaim[c] # NoClaim /\ clBind'[c] = [at |-> "write", saw |-> clClaim[c]])
        BY <1>8 DEF BindReads, BindStep
    <2>3. clClaim[c] # NoClaim => clClaim[c].uid \in 1..clUid[c]
        BY <1>1, <1>2 DEF OfTheName
    <2>4. clBind'[c].at \in {"write", "claim"} => clBind'[c].saw.uid \in 1..clUid[c]
        BY <2>2, <2>3 DEF NoBind
    <2> QED BY <1>1, <2>1, <2>4 DEF OfTheName
<1>9. ASSUME NEW c \in Claims, BindWrites(c) PROVE OfTheName'
    <2>1. UNCHANGED <<clClaim, clUsed, clUid>>
          /\ \A d \in Claims \ {c} : clBind'[d] = clBind[d] /\ clPv'[d] = clPv[d]
        BY <1>9 DEF BindWrites, BindStep, clHist
    <2>2. clBind[c].at = "write" /\ clBind'[c].saw = clBind[c].saw
        BY <1>9 DEF BindWrites, BindStep
    <2>3. clPv'[c] = clPv[c] \/ clPv'[c].claim = clBind[c].saw.uid
        BY <1>9 DEF BindWrites
    <2> QED BY <1>1, <2>1, <2>2, <2>3 DEF OfTheName
<1>10. CASE ReclaimPv
    <2>1. UNCHANGED <<clClaim, clUsed, clUid, clBind>>
        BY <1>10 DEF ReclaimPv, clHist
    <2>2. \A c \in Claims : clPv'[c] \in {clPv[c], NoPv}
        BY <1>10 DEF ReclaimPv
    <2> QED BY <1>1, <2>1, <2>2 DEF OfTheName
<1>11. CASE ClRestart
    BY <1>1, <1>11 DEF ClRestart, OfTheName, NoBind
<1>12. CASE UNCHANGED <<clClaim, clPv, clUid, clUsed, clBind>>
    BY <1>1, <1>12 DEF OfTheName
<1> QED BY <1>3, <1>4, <1>5, <1>6, <1>7, <1>8, <1>9, <1>10, <1>11, <1>12,
           ClClaimSame, ClPvSame, ClUidSame, ClUsedSame, ClBindSame

\* What is known of a claim and of its name, in numbers.
LEMMA NamesKnown ==
    ASSUME ClInv, NEW c \in Claims
    PROVE  /\ clUid[c] \in Nat /\ clUsed[c] \in Nat /\ clUsed[c] <= clUid[c]
           /\ clClaim[c].uid \in Nat
           /\ clClaim[c] = NoClaim => clClaim[c].uid = 0
           /\ clClaim[c].uid # 0 => clClaim[c].uid = clUid[c] /\ clClaim[c] # NoClaim
           /\ clPv[c] # NoPv => clPv[c].claim \in 1..clUid[c]
           /\ clPv[c].phase = "released" => clPv[c] # NoPv
           /\ clBind[c].at \in {"write", "claim"} => clBind[c].saw.uid \in 1..clUid[c]
           /\ clPass.at # "none" /\ clPass.claim = c /\ clPass.pv # NoPv => clUid[c] > 0
BY ClTyped DEF ClInv, OfTheName, FirstClaim, NoClaim, NoPv, Uids, ClaimType

\* A bind that writes the claim leaves its uid, and never makes one of none.
LEMMA BindClaimsKeeps ==
    ASSUME ClInv, NEW c \in Claims, BindClaims(c)
    PROVE  \A d \in Claims : clClaim'[d].uid = clClaim[d].uid /\ (clClaim[d] = NoClaim => clClaim'[d] = NoClaim)
<1> USE ClTyped
<1>1. \A d \in Claims \ {c} : clClaim'[d] = clClaim[d]
    BY DEF BindClaims
<1>2. \/ clClaim'[c] = clClaim[c]
      \/ clClaim[c] = clBind[c].saw /\ clBind[c].at = "claim" /\ clClaim'[c] = [clClaim[c] EXCEPT !.bound = TRUE]
    BY DEF BindClaims, BindStep
<1>3. [clClaim[c] EXCEPT !.bound = TRUE].uid = clClaim[c].uid
    BY DEF ClaimType
<1>4. clBind[c].at = "claim" /\ clClaim[c] = clBind[c].saw => clClaim[c].uid # 0
    BY NamesKnown
<1>5. clClaim[c] = NoClaim => clClaim[c].uid = 0
    BY DEF NoClaim
<1> QED BY <1>1, <1>2, <1>3, <1>4, <1>5

LEMMA FirstClaimStep == ClInv /\ [ClNext]_clVars => FirstClaim'
<1> SUFFICES ASSUME ClInv, [ClNext]_clVars PROVE FirstClaim'
    OBVIOUS
<1> USE ClTyped
<1>1. FirstClaim
    BY DEF ClInv
<1>2. ASSUME NEW c \in Claims, ClaimMade(c) PROVE FirstClaim'
    <2>1. /\ UNCHANGED <<clPv, clUsed, clPass>>
          /\ \A d \in Claims \ {c} : clUid'[d] = clUid[d] /\ clClaim'[d] = clClaim[d]
          /\ clUid'[c] = clUid[c] + 1 /\ clClaim'[c].uid = clUid[c] + 1
        BY <1>2 DEF ClaimMade
    <2>2. clUid'[c] = 1 => /\ clPv[c].phase # "released" /\ clUsed[c] = 0
                           /\ ~ (clPass.at # "none" /\ clPass.claim = c /\ clPass.pv # NoPv)
        BY <2>1, NamesKnown
    <2>3. clUid'[c] > 0
        BY <2>1, NamesKnown
    <2> QED BY <1>1, <2>1, <2>2, <2>3 DEF FirstClaim
<1>3. ASSUME NEW c \in Claims, ClaimDeleted(c) PROVE FirstClaim'
    <2>1. /\ UNCHANGED <<clPv, clUsed, clUid, clPass>> /\ clClaim'[c] = NoClaim
          /\ \A d \in Claims \ {c} : clClaim'[d] = clClaim[d]
        BY <1>3 DEF ClaimDeleted, clHist
    <2>2. NoClaim.uid = 0
        BY DEF NoClaim
    <2> QED BY <1>1, <2>1, <2>2 DEF FirstClaim
<1>4. ASSUME NEW c \in Claims, BindClaims(c) PROVE FirstClaim'
    <2>1. UNCHANGED <<clPv, clUsed, clUid, clPass>>
        BY <1>4 DEF BindClaims, clHist
    <2>2. \A d \in Claims : clClaim'[d].uid = clClaim[d].uid /\ (clClaim[d] = NoClaim => clClaim'[d] = NoClaim)
        BY <1>4, BindClaimsKeeps
    <2> QED BY <1>1, <2>1, <2>2 DEF FirstClaim
<1>5. ASSUME NEW c \in Claims, Binder(c) PROVE FirstClaim'
    <2>1. UNCHANGED <<clClaim, clUsed, clUid, clPass>> /\ \A d \in Claims \ {c} : clPv'[d] = clPv[d]
        BY <1>5 DEF Binder, clHist
    <2>2. /\ clPv[c] # NoPv /\ (clPv[c].phase = "bound" <=> clPv[c].claim # clClaim[c].uid)
          /\ clPv'[c].phase = IF clPv[c].phase = "bound" THEN "released" ELSE "bound"
        BY <1>5 DEF Binder, PvType
    <2>3. clClaim[c].uid = 1 => clPv[c].claim = 1
        BY <2>2, NamesKnown
    <2>4. clClaim[c].uid = 1 => clPv'[c].phase # "released"
        BY <2>2, <2>3
    <2> QED BY <1>1, <2>1, <2>4 DEF FirstClaim
<1>6. ASSUME NEW c \in Claims, BindWrites(c) PROVE FirstClaim'
    <2>1. UNCHANGED <<clClaim, clUsed, clUid, clPass>> /\ \A d \in Claims \ {c} : clPv'[d] = clPv[d]
        BY <1>6 DEF BindWrites, clHist
    <2>2. clPv'[c].phase \in {"bound", clPv[c].phase}
        BY <1>6 DEF BindWrites
    <2> QED BY <1>1, <2>1, <2>2 DEF FirstClaim
<1>7. ASSUME NEW c \in Claims, Attach(c) PROVE FirstClaim'
    <2>1. UNCHANGED <<clClaim, clPv, clUid, clPass>> /\ \A d \in Claims \ {c} : clUsed'[d] = clUsed[d]
        BY <1>7 DEF Attach
    <2>2. clAt[c] = "made"
        BY <1>7 DEF Attach, Step
    <2>3. ~ (clPass.at = "volume" /\ clPass.claim = c)
        BY <2>2 DEF ClInv, Reserved
    <2> QED BY <1>1, <2>1, <2>3 DEF FirstClaim
<1>8. ASSUME NEW c \in Claims, ReclaimBegins(c) PROVE FirstClaim'
    <2>1. /\ clPass' = [at |-> "volume", claim |-> c, pv |-> clPv[c]] /\ clPv[c].phase = "released"
          /\ UNCHANGED <<clClaim, clPv, clUid, clUsed>>
        BY <1>8, PassMoves DEF ReclaimBegins
    <2>2. clPv[c] # NoPv /\ clUid[c] > 0 /\ clClaim[c].uid # 1
        BY <1>1, <2>1, NamesKnown DEF FirstClaim
    <2>3. clUid[c] = 1 => clClaim[c] = NoClaim
        BY <2>2, NamesKnown DEF ClInv, OfTheName
    <2> QED BY <1>1, <2>1, <2>2, <2>3 DEF FirstClaim
<1>9. ASSUME NEW c \in Claims, ReleaseAsked(c) PROVE FirstClaim'
    <2>1. /\ clPass' = [at |-> "volume", claim |-> c, pv |-> NoPv] /\ clClaim[c] = NoClaim
          /\ UNCHANGED <<clClaim, clPv, clUid, clUsed>>
        BY <1>9, PassMoves
    <2> QED BY <1>1, <2>1 DEF FirstClaim, NoClaim
<1>10. CASE ReclaimVolume
    <2>1. /\ UNCHANGED <<clClaim, clPv, clUid, clUsed>> /\ clPass.at = "volume"
          /\ \/ clPass'.at = "none"
             \/ clPass'.at = "pv" /\ clPass'.claim = clPass.claim /\ clPass'.pv = clPass.pv
        BY <1>10, PassMoves DEF NoReclaim
    <2> QED BY <1>1, <2>1 DEF FirstClaim
<1>11. CASE ReclaimPv
    <2>1. UNCHANGED <<clClaim, clUid, clUsed>> /\ clPass'.at = "none"
        BY <1>11 DEF ReclaimPv, clHist, NoReclaim
    <2>2. \A c \in Claims : clPv'[c] = clPv[c] \/ clPv'[c].phase = "none"
        BY <1>11 DEF ReclaimPv, NoPv
    <2> QED BY <1>1, <2>1, <2>2 DEF FirstClaim
<1>12. CASE ClRestart
    BY <1>1, <1>12 DEF ClRestart, FirstClaim, NoReclaim
<1>13. CASE UNCHANGED <<clClaim, clPv, clUid, clUsed, clPass>>
    BY <1>1, <1>13 DEF FirstClaim
<1> QED BY <1>2, <1>3, <1>4, <1>5, <1>6, <1>7, <1>8, <1>9, <1>10, <1>11, <1>12, <1>13,
           ClClaimSame, ClPvSame, ClUidSame, ClUsedSame, ClPassSame

\* A mint is under way at most once, however many starts ask for one.
LEMMA MintStep == ClInv /\ [ClNext]_clVars => MintKnown' /\ OneMint'
<1> SUFFICES ASSUME ClInv, [ClNext]_clVars PROVE MintKnown' /\ OneMint'
    OBVIOUS
<1>1. clMkfs \in 0..1 /\ (clMinting # "flying" => clMkfs = 0)
    BY DEF ClInv, ClTypeOK, MintKnown, ClaimsKept, OneMint
<1>2. ASSUME NEW c \in Claims, Make(c) PROVE MintKnown' /\ OneMint'
    BY <1>1, <1>2 DEF Make, Clone, Wait, MintTemplate, MintKnown, OneMint
<1>3. CASE Format \/ BlankBreaks \/ Formatted
    BY <1>1, <1>3 DEF Format, BlankBreaks, Formatted, MintKnown, OneMint
<1>4. CASE MintEnds
    BY <1>1, <1>4 DEF MintEnds, MintKnown, OneMint
<1>5. CASE ClRestart
    BY <1>5 DEF ClRestart, MintKnown, OneMint
<1>6. CASE UNCHANGED <<clBlank, clMinting, clMkfs>>
    BY <1>1, <1>6 DEF MintKnown, OneMint
<1> QED BY <1>2, <1>3, <1>4, <1>5, <1>6, ClMintSame

\* A volume comes with Clone or is there already, and goes with a reclaim of a
\* claim no Pod has.
LEMMA VolumeMoves ==
    ASSUME ClInv, [ClNext]_clVars
    PROVE  \A c \in Claims :
              /\ clVol'[c] # clVol[c] =>
                    \/ clVol[c] = "none" /\ clVol'[c] = "made" /\ clAt[c] = "making" /\ clAt'[c] = "made"
                    \/ clVol[c] # "none" /\ clVol'[c] = "attached" /\ clAt[c] = "made" /\ clAt'[c] = "up"
                    \/ /\ clVol[c] # "none" /\ clAt[c] = "gone" /\ clAt'[c] = "gone"
                       /\ clPass.at = "volume" /\ clPass.claim = c
<1> USE ClTyped
<1>1. ASSUME NEW d \in Claims, Make(d), NEW c \in Claims, clVol'[c] # clVol[c]
      PROVE  clVol[c] = "none" /\ clVol'[c] = "made" /\ clAt[c] = "making" /\ clAt'[c] = "made"
    BY <1>1 DEF Make, Clone, Wait, Step
<1>2. ASSUME NEW d \in Claims, Attach(d), NEW c \in Claims, clVol'[c] # clVol[c]
      PROVE  clVol[c] # "none" /\ clVol'[c] = "attached" /\ clAt[c] = "made" /\ clAt'[c] = "up"
    BY <1>2 DEF Attach, Step
<1>3. ASSUME ReclaimVolume, NEW c \in Claims, clVol'[c] # clVol[c]
      PROVE  /\ clVol[c] # "none" /\ clAt[c] = "gone" /\ clAt'[c] = "gone"
             /\ clPass.at = "volume" /\ clPass.claim = c
    <2>1. c = clPass.claim /\ clPass.at = "volume" /\ clAt' = clAt
        BY <1>3, PassMoves
    <2>2. clVol' \in {clVol, [clVol EXCEPT ![c] = IF @ = "none" THEN @ ELSE "made"], [clVol EXCEPT ![c] = "none"]}
        BY <1>3, <2>1 DEF ReclaimVolume
    <2>3. clVol[c] # "none"
        BY <1>3, <2>2
    <2> QED BY <2>1, <2>3 DEF ClInv, Reserved
<1> QED BY <1>1, <1>2, <1>3, ClVolSame

LEMMA MountStep == ClInv /\ [ClNext]_clVars => MountKept'
<1> SUFFICES ASSUME ClInv, [ClNext]_clVars, NEW c \in Claims, clAt'[c] = "up" PROVE clVol'[c] = "attached"
    BY DEF MountKept
<1> USE ClTyped
<1>1. clAt[c] = "up" \/ Attach(c)
    <2>1. ASSUME NEW d \in Claims, PodComes(d) \/ PodGoes(d) \/ Look(d) \/ Enter(d) \/ Make(d) PROVE clAt[c] = "up"
        BY <2>1 DEF PodComes, PodGoes, Look, Enter, Make, Clone, Wait, Step
    <2>2. ASSUME NEW d \in Claims, Attach(d) PROVE clAt[c] = "up" \/ d = c
        BY <2>2 DEF Attach, Step
    <2>3. ClRestart => clAt[c] = "up"
        BY DEF ClRestart
    <2> QED BY <2>1, <2>2, <2>3, ClAtSame
<1>2. CASE clAt[c] = "up"
    <2>1. clVol[c] = "attached"
        BY <1>2 DEF ClInv, ClaimsKept, MountKept
    <2> QED BY <1>2, <2>1, VolumeMoves
<1>3. CASE Attach(c)
    BY <1>3 DEF Attach, Step
<1> QED BY <1>1, <1>2, <1>3

LEMMA DataStep == ClInv /\ [ClNext]_clVars => DataStays'
<1> SUFFICES ASSUME ClInv, [ClNext]_clVars, NEW c \in Claims, clClaim'[c].uid = 1, clUsed'[c] = 1
             PROVE  clVol'[c] # "none"
    BY DEF DataStays
<1> USE ClTyped
<1>1. clClaim[c].uid = 1
    <2>1. ASSUME NEW d \in Claims, ClaimMade(d) PROVE clClaim[c].uid = 1
        <3>1. CASE d = c
            <4>1. clClaim'[c].uid = clUid[c] + 1 /\ clUsed'[c] = clUsed[c]
                BY <2>1, <3>1 DEF ClaimMade
            <4> QED BY <4>1, NamesKnown
        <3>2. CASE d # c
            BY <2>1, <3>2 DEF ClaimMade
        <3> QED BY <3>1, <3>2
    <2>2. ASSUME NEW d \in Claims, ClaimDeleted(d) PROVE clClaim[c].uid = 1
        BY <2>2 DEF ClaimDeleted, NoClaim
    <2>3. ASSUME NEW d \in Claims, BindClaims(d) PROVE clClaim[c].uid = 1
        BY <2>3, BindClaimsKeeps
    <2> QED BY <2>1, <2>2, <2>3, ClClaimSame
<1>2. clUsed[c] = 1 \/ Attach(c)
    <2>1. ASSUME NEW d \in Claims, Attach(d), d # c PROVE clUsed[c] = 1
        BY <2>1 DEF Attach
    <2> QED BY <2>1, ClUsedSame
<1>3. CASE clUsed[c] = 1
    <2>1. clVol[c] # "none" /\ ~ (clPass.at = "volume" /\ clPass.claim = c)
        BY <1>1, <1>3 DEF ClInv, ClaimsKept, DataStays, FirstClaim
    <2> QED BY <2>1, VolumeMoves
<1>4. CASE Attach(c) /\ clUsed[c] # 1
    <2>1. clVol' = [clVol EXCEPT ![c] = "attached"]
        BY <1>4 DEF Attach
    <2> QED BY <2>1
<1> QED BY <1>2, <1>3, <1>4

\* The volumes a step leaves: fewer, as many, or one more, which was cloned.
LEMMA VolumesMove ==
    ASSUME ClInv, [ClNext]_clVars
    PROVE  /\ Volumes \in SUBSET Claims /\ IsFiniteSet(Volumes) /\ Volumes' \in SUBSET Claims /\ IsFiniteSet(Volumes')
           /\ Cardinality(Volumes) \in Nat /\ Cardinality(Volumes') \in Nat
           /\ \/ Volumes' \subseteq Volumes /\ Cardinality(Volumes') <= Cardinality(Volumes)
              \/ \E c \in Claims : /\ clAt[c] = "making" /\ clAt'[c] = "made"
                                   /\ Cardinality(Volumes') <= Cardinality(Volumes) + 1
<1>1. Volumes \in SUBSET Claims /\ IsFiniteSet(Volumes) /\ Volumes' \in SUBSET Claims /\ IsFiniteSet(Volumes')
    BY ClConstants, FS_Subset DEF Volumes
<1>2. Cardinality(Volumes) \in Nat /\ Cardinality(Volumes') \in Nat
    BY <1>1, FS_CardinalityType
<1>3. CASE Volumes' \subseteq Volumes
    BY <1>1, <1>2, <1>3, FS_Subset
<1>4. CASE \E c \in Claims : c \in Volumes' /\ c \notin Volumes
    <2>1. PICK c \in Claims : c \in Volumes' /\ c \notin Volumes
        BY <1>4
    <2>2. clVol[c] = "none" /\ clVol'[c] # "none"
        BY <2>1 DEF Volumes
    <2>3. clAt[c] = "making" /\ clAt'[c] = "made"
        BY <2>2, VolumeMoves
    <2>4. \A d \in Claims : d \in Volumes' /\ d \notin Volumes => clAt[d] = "making"
        BY VolumeMoves DEF Volumes
    <2>5. \A d \in Claims : clAt[d] = "making" => d = c
        BY <2>3 DEF ClInv, RoomStays
    <2>6. Volumes' \subseteq Volumes \cup {c}
        BY <1>1, <2>4, <2>5
    <2>7. IsFiniteSet(Volumes \cup {c}) /\ Cardinality(Volumes \cup {c}) <= Cardinality(Volumes) + 1
        BY <1>1, <1>2, FS_AddElement
    <2>8. Cardinality(Volumes') <= Cardinality(Volumes \cup {c}) /\ Cardinality(Volumes \cup {c}) \in Nat
        BY <2>6, <2>7, FS_Subset, FS_CardinalityType
    <2> QED BY <1>1, <1>2, <2>3, <2>7, <2>8
<1> QED BY <1>1, <1>3, <1>4

LEMMA RoomStep == ClInv /\ [ClNext]_clVars => RoomStays' /\ RoomKept'
<1> SUFFICES ASSUME ClInv, [ClNext]_clVars PROVE RoomStays' /\ RoomKept'
    OBVIOUS
<1> USE ClTyped
<1>1. clUnchecked => clUnchecked'
    <2>1. ASSUME NEW c \in Claims, PodComes(c) \/ PodGoes(c) \/ Look(c) \/ Enter(c) \/ Make(c) \/ Attach(c), clUnchecked
          PROVE  clUnchecked'
        BY <2>1 DEF PodComes, PodGoes, Look, Enter, Make, Attach, clHist
    <2>2. ASSUME ClRestart, clUnchecked PROVE clUnchecked'
        BY <2>2 DEF ClRestart
    <2> QED BY <2>1, <2>2, ClAtSame
<1>2. RoomStays'
    <2> SUFFICES ASSUME NEW c \in Claims, clAt'[c] = "making"
                 PROVE  clLock' = c /\ (clUnchecked' \/ Cardinality(Volumes') < Room)
        BY DEF RoomStays
    <2>1. CASE clAt[c] = "making"
        <3>1. clLock = c /\ (clUnchecked \/ Cardinality(Volumes) < Room) /\ \A d \in Claims : clAt[d] = "making" => d = c
            BY <2>1 DEF ClInv, RoomStays
        <3>2. clLock' = c
            <4>1. ASSUME NEW d \in Claims, PodComes(d) \/ PodGoes(d) \/ Look(d) \/ Enter(d) \/ Make(d) \/ Attach(d)
                  PROVE  clLock' = c
                BY <2>1, <3>1, <4>1, ClConstants
                DEF PodComes, PodGoes, Look, Enter, Make, Clone, Wait, Attach, Step, Unlock
            <4>2. ~ ClRestart
                BY <2>1 DEF ClRestart
            <4> QED BY <3>1, <4>1, <4>2, ClAtSame
        <3>3. Cardinality(Volumes') <= Cardinality(Volumes)
            <4>1. \A d \in Claims : ~ (clAt[d] = "making" /\ clAt'[d] = "made")
                BY <3>1
            <4> QED BY <4>1, VolumesMove
        <3> QED BY <1>1, <3>1, <3>2, <3>3, ClConstants, VolumesMove
    <2>2. CASE clAt[c] # "making"
        <3>1. Enter(c)
            <4>1. ASSUME NEW d \in Claims, PodComes(d) \/ PodGoes(d) \/ Look(d) \/ Make(d) \/ Attach(d) PROVE FALSE
                BY <2>2, <4>1 DEF PodComes, PodGoes, Look, Make, Clone, Wait, Attach, Step
            <4>2. ASSUME NEW d \in Claims, Enter(d) PROVE d = c
                BY <2>2, <4>2 DEF Enter, Step
            <4>3. ~ ClRestart
                BY <2>2 DEF ClRestart
            <4> QED BY <2>2, <4>1, <4>2, <4>3, ClAtSame
        <3>2. clLock' = c /\ (clUnchecked' \/ Cardinality(Volumes) < Room) /\ clVol' = clVol
            BY <2>2, <3>1 DEF Enter, Step
        <3>3. Volumes' = Volumes
            BY <3>2 DEF Volumes
        <3> QED BY <3>2, <3>3
    <2> QED BY <2>1, <2>2
<1>3. RoomKept'
    <2>1. Cardinality(Volumes) > Room => clUnchecked
        BY DEF ClInv, ClaimsKept, RoomKept
    <2>2. ASSUME NEW c \in Claims, clAt[c] = "making" PROVE clUnchecked \/ Cardinality(Volumes) < Room
        BY <2>2 DEF ClInv, RoomStays
    <2> QED BY <1>1, <2>1, <2>2, VolumesMove, ClConstants DEF RoomKept
<1> QED BY <1>2, <1>3

LEMMA PvOutlivesStep == ClInv /\ [ClNext]_clVars => PvOutlives'
<1> SUFFICES ASSUME ClInv, [ClNext]_clVars, clPass'.at = "pv", clUid'[clPass'.claim] = 1
             PROVE  clVol'[clPass'.claim] = "none"
    BY DEF PvOutlives
<1> USE ClTyped
<1>1. CASE ReclaimVolume
    <2>1. /\ clPass.claim \in Claims /\ clPass'.claim = clPass.claim
          /\ clVol' = [clVol EXCEPT ![clPass.claim] = "none"]
        BY <1>1, PassMoves DEF NoReclaim
    <2> QED BY <2>1
<1>2. CASE clPass' = clPass
    <2> DEFINE c == clPass.claim
    <2>1. c \in Claims /\ clPass.pv # NoPv /\ clPass.at = "pv"
        BY <1>2 DEF ClInv, ClMoreTypes
    <2>2. clUid[c] > 0 /\ clUid[c] \in Nat
        BY <2>1, NamesKnown
    <2>3. clUid[c] = 1
        <3>1. ASSUME NEW d \in Claims, ClaimMade(d) PROVE clUid[c] = 1
            BY <1>2, <2>1, <2>2, <3>1 DEF ClaimMade, Uids
        <3> QED BY <1>2, <3>1, ClUidSame
    <2>4. clClaim[c] = NoClaim /\ clVol[c] = "none"
        BY <2>1, <2>3 DEF ClInv, FirstClaim, ClaimsKept, PvOutlives
    <2>5. clAt[c] # "making"
        BY <2>1, <2>4 DEF ClInv, Reserved
    <2> QED BY <1>2, <2>1, <2>4, <2>5, VolumeMoves
<1>3. ASSUME NEW c \in Claims, ReclaimBegins(c) \/ ReleaseAsked(c) PROVE FALSE
    BY <1>3, PassMoves
<1>4. ~ ClRestart /\ ~ ReclaimPv
    BY DEF ClRestart, ReclaimPv, NoReclaim
<1> QED BY <1>1, <1>2, <1>3, <1>4, ClPassSame

LEMMA ClInvStep == ClInv /\ [ClNext]_clVars => ClInv'
BY ClTypesStep, ReservedStep, OfTheNameStep, FirstClaimStep, MintStep, MountStep, DataStep, RoomStep, PvOutlivesStep
DEF ClInv, ClaimsKept

LEMMA ClInvInit == ClInit => ClInv
<1> SUFFICES ASSUME ClInit PROVE ClInv
    OBVIOUS
<1> USE ClConstants, NoneTyped
<1>1. ClTypeOK
    BY DEF ClInit, ClTypeOK, ClaimType, PvType, NoReclaim, Uids
<1>2. ClMoreTypes
    BY DEF ClInit, ClMoreTypes, NoReclaim
<1>3. Volumes = {}
    BY DEF ClInit, Volumes
<1>4. Cardinality(Volumes) = 0
    BY <1>3, FS_EmptySet
<1>5. RoomKept
    BY <1>4 DEF RoomKept
<1>6. Reserved /\ OfTheName /\ FirstClaim /\ RoomStays /\ MintKnown
    BY DEF ClInit, Reserved, OfTheName, FirstClaim, RoomStays, MintKnown, NoClaim, NoPv, NoBind, NoReclaim
<1>7. MountKept /\ DataStays /\ OneMint /\ PvOutlives
    BY DEF ClInit, MountKept, DataStays, OneMint, PvOutlives, NoClaim, NoReclaim
<1> QED BY <1>1, <1>2, <1>5, <1>6, <1>7 DEF ClInv, ClaimsKept

THEOREM ClaimVolumesTypeCorrect == ClSpec => []ClTypeOK
<1>1. ClInv => ClTypeOK
    BY DEF ClInv
<1> QED BY ClInvInit, ClInvStep, <1>1, PTL DEF ClSpec

\* Starts, binds, mints and reclaims of any number of claims do not cross: no
\* Pod loses the volume it has mounted, no claim its data, the slab is not
\* charged beyond its room, one task formats a blank (provision_claim_volume,
\* reclaim_released, mint_template).
THEOREM ClaimsKeptHolds == ClSpec => []ClaimsKept
<1>1. ClInv => ClaimsKept
    BY DEF ClInv
<1> QED BY ClInvInit, ClInvStep, <1>1, PTL DEF ClSpec

-----------------------------------------------------------------------------
(* The three beside one another. *)

NodeInv == ClInv /\ NdInv /\ PbInv

\* The claims' records, the Node object and the probes' counts keep their types
\* whichever of them runs (pod_manager.rs, node_status.rs, health.rs).
THEOREM NodePartsTypeCorrect == NodeSpec => []NodeTypeOK
<1>1. NodeInit => NodeInv
    BY ClInvInit, NdInvInit, PbInvInit DEF NodeInit, NodeInv
<1>2. NodeInv /\ [NodeNext]_NodeVars => NodeInv'
    <2> SUFFICES ASSUME NodeInv, [NodeNext]_NodeVars PROVE NodeInv'
        OBVIOUS
    <2>1. [ClNext]_clVars /\ [NdNext]_ndVars /\ [PbNext]_pbVars
        BY DEF NodeNext, NodeVars, VolumesOfClaims, TheNode, ProbesOfOne
    <2>2. ClInv'
        BY <2>1, ClInvStep DEF NodeInv
    <2>3. NdInv'
        BY <2>1, NdInvStep DEF NodeInv
    <2>4. PbInv'
        BY <2>1, PbInvStep DEF NodeInv
    <2> QED BY <2>2, <2>3, <2>4 DEF NodeInv
<1>3. NodeInv => NodeTypeOK
    BY DEF NodeInv, NodeTypeOK, ClInv, NdInv, PbInv
<1>4. NodeInit /\ [][NodeNext]_NodeVars => []NodeInv
    BY <1>1, <1>2, PTL
<1> QED BY <1>3, <1>4, PTL DEF NodeSpec
=============================================================================
