--------------------------- MODULE MachinesProofs ---------------------------
(***************************************************************************)
(* What the parts of the VM manager promise for every value of their       *)
(* constants: a machine's start and stop (VmMachine), its migration        *)
(* (VmMigration), its changes while it runs (VmHotplug), its snapshots     *)
(* (VmSnapshot) and restores (VmRestore), and all of them with the volumes *)
(* of VolumeProofs.tla, as MCMachines.tla puts them together.              *)
(***************************************************************************)
EXTENDS MCMachines, VolumeProofs, FiniteSetTheorems, TLAPS

-----------------------------------------------------------------------------
(* A VMI's machine (VmMachine). *)

InTheWindow == {"register", "handles", "spawn", "unwind"}
VmAttached == InTheWindow \cup {"net", "window", "give back", "record"}
VmStartSteps == VmAttached \cup {"disks"}

\* One VMI is in the window, the one whose worker is.
InWindow == \A v \in Vms : vmAt[v] \in InTheWindow <=> vmWindow = v

\* Of one VMI: a start has no record and, before its registration is written or
\* once it is over, none; a stop has one, and is past the machine when it gives
\* the network back; a machine, and a disk attached, is on a record or its start's.
VmOnRecord(v) ==
    /\ vmAt[v] \in VmStartSteps => vmRec[v] = "none"
    /\ vmRec[v] = "none" /\ vmAt[v] \notin {"handles", "spawn", "record"} => vmReg[v] = "none"
    /\ vmAt[v] \in {"release", "release net"} => vmRec[v] # "none" /\ ~ vmDisks[v]
    /\ vmAt[v] = "release net" => vmMach[v] \notin {"running", "ended"} \/ vmRec[v] = "failed"
    /\ vmWant[v] = "gone" => vmAt[v] = "idle" /\ vmRec[v] = "none"
    /\ vmMach[v] \in {"running", "ended"} =>
         <<v, "machine">> \in vmLost \/ vmRec[v] \in {"running", "ended", "blind"} \/ vmAt[v] = "record"
    /\ vmDisks[v] => <<v, "disks">> \in vmLost \/ vmRec[v] \notin {"none", "failed"} \/ vmAt[v] \in VmAttached

SlotOfLive == \A v \in Vms : vmWant[v] = "gone" => vmSlot # v

VmInv ==
    /\ VmTypeOK /\ vmDeaths \in Nat
    /\ InWindow /\ (\A v \in Vms : VmOnRecord(v)) /\ SlotOfLive /\ LeftoversNamed

\* What the step of one VMI's worker leaves of the others.
OthersKept(v) ==
    /\ \A u \in Vms \ {v} : /\ vmWant'[u] = vmWant[u] /\ vmAt'[u] = vmAt[u] /\ vmRec'[u] = vmRec[u]
                            /\ vmReg'[u] = vmReg[u] /\ vmMach'[u] = vmMach[u] /\ vmDisks'[u] = vmDisks[u]
    /\ vmLost \subseteq vmLost'

\* The window is where it was, or v has gone in or out of it.
WindowKept(v) ==
    \/ vmWindow' = vmWindow /\ (vmAt'[v] \in InTheWindow <=> vmAt[v] \in InTheWindow)
    \/ vmWindow = "none" /\ vmWindow' = v /\ vmAt'[v] \in InTheWindow
    \/ vmWindow = v /\ vmWindow' = "none" /\ vmAt'[v] \notin InTheWindow

LEMMA VmStep ==
    ASSUME VmInv, NEW v \in Vms, VmTypeOK', vmDeaths' \in Nat, OthersKept(v), WindowKept(v), VmOnRecord(v)',
           LeftoversNamed', vmSlot' \in {vmSlot, "none", v}, vmWant'[v] = "gone" => vmSlot' # v
    PROVE  VmInv'
<1>1. "none" \notin Vms
    BY VmMachineAssumption
<1>2. InWindow'
    BY <1>1 DEF VmInv, InWindow, OthersKept, WindowKept
<1>3. ASSUME NEW u \in Vms PROVE VmOnRecord(u)'
    BY <1>3 DEF VmInv, OthersKept, VmOnRecord
<1>4. SlotOfLive'
    BY <1>1 DEF VmInv, SlotOfLive, OthersKept
<1> QED BY <1>2, <1>3, <1>4 DEF VmInv

\* The engine is left as it is.
LEMMA VmEngineKept ==
    ASSUME VmInv, NEW v \in Vms, UNCHANGED <<vmEngine, vmDeaths>>, OthersKept(v),
           vmAt'[v] \in {"register", "handles", "spawn"} => vmAt[v] \in {"register", "handles", "spawn"}
    PROVE  LeftoversNamed'
<1>1. UNCHANGED <<vmTaken, vmSlot, vmLedger, vmOrphans>>
    BY DEF vmEngine
<1>2. \A u \in Vms : OrphansOf(u)' = OrphansOf(u)
    BY <1>1 DEF OrphansOf
<1> QED BY <1>1, <1>2 DEF VmInv, LeftoversNamed, OthersKept

\* What is undone is undone in the engine, what is refused stays named, and
\* nobody's tap is taken from under its start.
LEMMA VmUnwinds ==
    ASSUME VmInv, NEW v \in Vms, NEW last \in BOOLEAN, NEW refused \in SUBSET vmLedger[v], NEW left \in SUBSET vmOrphans,
           UnwindLeaves(v, last, refused, left), UNCHANGED vmDeaths, OthersKept(v),
           vmWindow \in {"none", v}, vmAt'[v] \notin {"register", "handles", "spawn"}
    PROVE  /\ LeftoversNamed' /\ vmSlot' \in {vmSlot, "none"}
           /\ "tap" \notin refused => vmSlot' # v
           /\ (vmLedger \in [Vms -> SUBSET Steps] /\ vmOrphans \subseteq Vms \X Handles)'
           /\ (vmTaken \in [Vms -> SUBSET Handles] /\ vmSlot \in Vms \cup {"none"})'
<1>1. /\ vmTaken \in [Vms -> SUBSET Handles] /\ vmLedger \in [Vms -> SUBSET Steps] /\ vmOrphans \subseteq Vms \X Handles
      /\ vmSlot \in Vms \cup {"none"} /\ "none" \notin Vms /\ LeftoversNamed
    BY VmMachineAssumption DEF VmInv, VmTypeOK
<1>2. refused \subseteq Steps /\ "tap" \notin Handles /\ Handles \subseteq Steps /\ "tap" \in Steps
    BY <1>1 DEF Steps, Handles
<1>3. /\ vmLedger' = [vmLedger EXCEPT ![v] = IF last THEN refused \ Handles ELSE refused]
      /\ vmOrphans' = left \cup (IF last THEN {v} \X (refused \cap Handles) ELSE {})
      /\ vmSlot' = (IF "tap" \in UndoneSteps(v, refused) THEN "none" ELSE vmSlot)
      /\ vmTaken' = [u \in Vms |-> vmTaken[u] \ ({h \in Handles : <<u, h>> \in vmOrphans \ left}
                                                 \cup (IF u = v THEN UndoneSteps(v, refused) ELSE {}))]
    BY DEF UnwindLeaves
<1>4. vmLedger' \in [Vms -> SUBSET Steps] /\ vmOrphans' \subseteq Vms \X Handles
    BY <1>1, <1>2, <1>3
<1>5. vmTaken' \in [Vms -> SUBSET Handles] /\ vmSlot' \in Vms \cup {"none"}
    BY <1>1, <1>3
<1>6. vmSlot' \in {vmSlot, "none"} /\ ("tap" \notin refused => vmSlot' # v)
    <2>1. vmSlot = v => "tap" \in vmLedger[v]
        BY <1>1 DEF LeftoversNamed
    <2> QED BY <1>1, <1>3, <2>1 DEF UndoneSteps
<1>7. vmSlot' # "none" => "tap" \in vmLedger'[vmSlot']
    <2> SUFFICES ASSUME vmSlot' # "none" PROVE "tap" \in vmLedger'[vmSlot']
        OBVIOUS
    <2>1. vmSlot' = vmSlot /\ vmSlot \in Vms /\ "tap" \in vmLedger[vmSlot] /\ "tap" \notin UndoneSteps(v, refused)
        BY <1>1, <1>3 DEF LeftoversNamed
    <2>2. CASE vmSlot = v
        BY <1>1, <1>2, <1>3, <2>1, <2>2 DEF UndoneSteps
    <2>3. CASE vmSlot # v
        BY <1>1, <1>3, <2>1, <2>3
    <2> QED BY <2>2, <2>3
<1>8. vmDeaths' = 0 => \A u \in Vms : vmTaken'[u] \subseteq vmLedger'[u] \cup OrphansOf(u)'
    <2> SUFFICES ASSUME vmDeaths = 0, NEW u \in Vms, NEW h \in vmTaken'[u]
                 PROVE  h \in vmLedger'[u] \/ (h \in Handles /\ <<u, h>> \in vmOrphans')
        BY DEF OrphansOf
    <2>1. /\ h \in Handles /\ h \in vmTaken[u] /\ <<u, h>> \notin vmOrphans \ left
          /\ u = v => h \notin UndoneSteps(v, refused)
        BY <1>1, <1>3
    <2>2. h \in vmLedger[u] \/ <<u, h>> \in vmOrphans
        BY <1>1, <2>1 DEF LeftoversNamed, OrphansOf
    <2>3. CASE <<u, h>> \in vmOrphans
        BY <1>3, <2>1, <2>3
    <2>4. CASE h \in vmLedger[u] /\ u # v
        BY <1>1, <1>3, <2>4
    <2>5. CASE h \in vmLedger[u] /\ u = v
        <3>1. h \in refused
            BY <2>1, <2>5 DEF UndoneSteps
        <3>2. CASE last
            BY <1>3, <2>1, <2>5, <3>1, <3>2
        <3>3. CASE ~ last
            BY <1>1, <1>3, <2>5, <3>1, <3>3
        <3> QED BY <3>2, <3>3
    <2> QED BY <2>2, <2>3, <2>4, <2>5
<1>9. \A u \in Vms : vmAt'[u] \in {"register", "handles", "spawn"} => vmSlot' = u
    BY <1>1 DEF VmInv, InWindow, InTheWindow, OthersKept
<1> QED BY <1>4, <1>5, <1>6, <1>7, <1>8, <1>9 DEF LeftoversNamed

VmPlaces == {"idle", "disks", "net", "window", "register", "handles", "spawn", "unwind", "give back", "record",
             "release", "release net"}

LEMMA VmTypes ==
    VmTypeOK <=>
        /\ vmWant \in [Vms -> {"wanted", "deleting", "gone"}] /\ vmAt \in [Vms -> VmPlaces]
        /\ vmRec \in [Vms -> {"none", "blind", "running", "ended", "failed"}]
        /\ vmReg \in [Vms -> {"none", "asked", "handle"}]
        /\ vmMach \in [Vms -> {"none", "running", "ended", "released"}]
        /\ vmTaken \in [Vms -> SUBSET Handles] /\ vmLedger \in [Vms -> SUBSET Steps]
        /\ vmOrphans \subseteq Vms \X Handles /\ vmSlot \in Vms \cup {"none"}
        /\ vmDisks \in [Vms -> BOOLEAN] /\ vmNet \in [Vms -> {"none", "held"}]
        /\ vmWindow \in Vms \cup {"none"} /\ vmStopping \subseteq Vms
BY DEF VmTypeOK, VmPlaces

LEMMA VmTypesNext ==
    VmTypeOK' <=>
        /\ (vmWant \in [Vms -> {"wanted", "deleting", "gone"}] /\ vmAt \in [Vms -> VmPlaces])'
        /\ (vmRec \in [Vms -> {"none", "blind", "running", "ended", "failed"}])'
        /\ (vmReg \in [Vms -> {"none", "asked", "handle"}])'
        /\ (vmMach \in [Vms -> {"none", "running", "ended", "released"}])'
        /\ (vmTaken \in [Vms -> SUBSET Handles] /\ vmLedger \in [Vms -> SUBSET Steps])'
        /\ (vmOrphans \subseteq Vms \X Handles /\ vmSlot \in Vms \cup {"none"})'
        /\ (vmDisks \in [Vms -> BOOLEAN] /\ vmNet \in [Vms -> {"none", "held"}])'
        /\ (vmWindow \in Vms \cup {"none"} /\ vmStopping \subseteq Vms)'
BY DEF VmTypeOK, VmPlaces

Elsewhere(g, f, v) == \A u \in Vms \ {v} : g[u] = f[u]

\* The steps that undo what was left: a start's first, its last, the deletion's.
LEMMA VmUndoing ==
    ASSUME VmInv, NEW v \in Vms, BeginStart(v) \/ UnwindFailed(v) \/ LetVmiGo(v)
    PROVE  VmInv'
<1>1. VmTypeOK /\ vmDeaths \in Nat /\ InWindow /\ VmOnRecord(v) /\ "none" \notin Vms
    BY VmMachineAssumption DEF VmInv
<1>2. UNCHANGED <<vmRec, vmReg, vmMach, vmDisks, vmNet, vmLost, vmStopping, vmDeaths>>
    BY DEF BeginStart, UnwindFailed, LetVmiGo, vmKnown, vmHeld
<1> DEFINE Left(refused) == LetVmiGo(v) => (vmWant' = vmWant \/ (vmWant' = [vmWant EXCEPT ![v] = "gone"] /\ "tap" \notin refused))
           Undoes == \E last \in BOOLEAN, refused \in SUBSET vmLedger[v], left \in SUBSET vmOrphans :
                        UnwindLeaves(v, last, refused, left) /\ Left(refused)
<1>3. Undoes
    <2>1. ASSUME NEW last \in BOOLEAN, UnwindLeaves(v, last, {}, {}),
                 Left({})
          PROVE  Undoes
        <3>1. {} \in SUBSET vmLedger[v] /\ {} \in SUBSET vmOrphans /\ "tap" \notin {}
            OBVIOUS
        <3> QED BY <2>1, <3>1
    <2>2. ASSUME NEW last \in BOOLEAN, NEW r \in Refusable(v), UnwindLeaves(v, last, r[1], r[2]),
                 Left(r[1])
          PROVE  Undoes
        <3>1. r[1] \in SUBSET vmLedger[v] /\ r[2] \in SUBSET vmOrphans
            BY DEF Refusable
        <3> QED BY <2>2, <3>1
    <2>3. CASE BeginStart(v) \/ UnwindFailed(v)
        <3>1. ~ LetVmiGo(v) \/ UNCHANGED vmWant
            BY <2>3 DEF BeginStart, UnwindFailed
        <3>2. \A refused : Left(refused)
            BY <3>1
        <3> HIDE DEF Left, Undoes
        <3> QED BY <2>1, <2>2, <2>3, <3>2 DEF BeginStart, UnwindFailed
    <2>4. CASE LetVmiGo(v)
        <3>1. CASE UnwindLeaves(v, TRUE, {}, {}) /\ vmWant' = [vmWant EXCEPT ![v] = "gone"]
            <4>1. Left({})
                BY <3>1
            <4> HIDE DEF Left, Undoes
            <4> QED BY <2>1, <3>1, <4>1
        <3>2. ASSUME NEW r \in Refusable(v), UnwindLeaves(v, TRUE, r[1], r[2]),
                     vmWant' \in IF "tap" \in r[1] THEN {vmWant} ELSE {[vmWant EXCEPT ![v] = "gone"]}
              PROVE  Undoes
            <4>1. Left(r[1])
                BY <3>2
            <4> HIDE DEF Left, Undoes
            <4> QED BY <2>2, <3>2, <4>1
        <3> HIDE DEF Undoes
        <3> QED BY <2>4, <3>1, <3>2 DEF LetVmiGo
    <2> QED BY <2>3, <2>4
<1>4. /\ vmWindow \in {"none", v} /\ vmWindow' = "none"
      /\ vmAt' \in [Vms -> VmPlaces] /\ Elsewhere(vmAt', vmAt, v) /\ vmAt'[v] \in {"idle", "disks", "give back"}
    BY ZenonT(60), <1>1, VmTypes DEF BeginStart, UnwindFailed, LetVmiGo, VmAt, VmGo, InWindow, InTheWindow, VmPlaces, Elsewhere
<1>5. /\ vmWant' = vmWant \/ (LetVmiGo(v) /\ vmWant' = [vmWant EXCEPT ![v] = "gone"])
      /\ vmWant' \in [Vms -> {"wanted", "deleting", "gone"}] /\ Elsewhere(vmWant', vmWant, v)
    <2>1. vmWant' = vmWant \/ (LetVmiGo(v) /\ vmWant' = [vmWant EXCEPT ![v] = "gone"])
        BY <1>3 DEF BeginStart, UnwindFailed, LetVmiGo
    <2> QED BY <1>1, <2>1, VmTypes DEF Elsewhere
<1>6. OthersKept(v)
    BY <1>1, <1>2, <1>4, <1>5 DEF OthersKept, Elsewhere
<1>7. WindowKept(v)
    <2>1. vmAt[v] \in InTheWindow <=> vmWindow = v
        BY <1>1 DEF InWindow
    <2> QED BY <1>1, <1>4, <2>1 DEF WindowKept, InTheWindow
<1>8. PICK last \in BOOLEAN, refused \in SUBSET vmLedger[v], left \in SUBSET vmOrphans :
        UnwindLeaves(v, last, refused, left) /\ Left(refused)
    BY <1>3
<1>9. /\ LeftoversNamed' /\ vmSlot' \in {vmSlot, "none"} /\ ("tap" \notin refused => vmSlot' # v)
      /\ (vmLedger \in [Vms -> SUBSET Steps] /\ vmOrphans \subseteq Vms \X Handles)'
      /\ (vmTaken \in [Vms -> SUBSET Handles] /\ vmSlot \in Vms \cup {"none"})'
    BY <1>2, <1>4, <1>6, <1>8, VmUnwinds
<1>10. VmTypeOK'
    <2>1. vmWindow' \in Vms \cup {"none"}
        BY <1>4
    <2> HIDE DEF Left, Undoes
    <2> QED BY <1>1, <1>2, <1>4, <1>5, <1>9, <2>1, VmTypes, VmTypesNext
<1>11. VmOnRecord(v)'
    <2>1. CASE BeginStart(v)
        <3>1. vmAt[v] = "idle" /\ vmRec[v] = "none" /\ vmAt'[v] \in {"idle", "disks"} /\ vmWant'[v] # "gone"
            BY <1>1, <2>1, VmTypes DEF BeginStart, VmAt, VmGo
        <3> QED BY <1>1, <1>2, <3>1 DEF VmOnRecord, VmStartSteps, VmAttached, InTheWindow
    <2>2. CASE UnwindFailed(v)
        <3>1. vmAt[v] = "unwind" /\ vmAt'[v] = "give back" /\ UNCHANGED vmWant
            BY <1>1, <2>2, VmTypes DEF UnwindFailed, VmAt, VmGo
        <3> QED BY <1>1, <1>2, <3>1 DEF VmOnRecord, VmStartSteps, VmAttached, InTheWindow
    <2>3. CASE LetVmiGo(v)
        <3>1. vmAt[v] = "idle" /\ vmRec[v] = "none" /\ vmAt'[v] = "idle"
            BY <1>1, <2>3, VmTypes DEF LetVmiGo, VmAt
        <3> QED BY <1>1, <1>2, <3>1 DEF VmOnRecord, VmStartSteps, VmAttached, InTheWindow
    <2> QED BY <2>1, <2>2, <2>3
<1>12. vmWant'[v] = "gone" => vmSlot' # v
    <2>1. CASE vmWant' = vmWant
        BY <1>1, <1>9, <2>1 DEF VmInv, SlotOfLive
    <2>2. CASE LetVmiGo(v) /\ vmWant' # vmWant
        BY <1>8, <1>9, <2>2
    <2> QED BY <1>5, <2>1, <2>2
<1> QED BY <1>1, <1>2, <1>6, <1>7, <1>9, <1>10, <1>11, <1>12, VmStep

\* The steps that leave the window and the engine's deposits alone.
LEMMA VmBeforeWindow ==
    ASSUME VmInv, NEW v \in Vms, ResolveDisks(v) \/ AcquireNetwork(v) \/ GiveBack(v) \/ Record(v)
    PROVE  VmInv'
<1>1. VmTypeOK /\ vmDeaths \in Nat /\ VmOnRecord(v)
    BY DEF VmInv
<1>2. UNCHANGED <<vmWant, vmMach, vmEngine, vmWindow, vmStopping, vmDeaths>> /\ vmLost \subseteq vmLost'
    BY DEF ResolveDisks, AcquireNetwork, GiveBack, Record, vmKnown, vmHeld, Loses, LosesOldNet
<1>3. UNCHANGED <<vmTaken, vmSlot, vmLedger, vmOrphans>>
    BY <1>2 DEF vmEngine
<1>4. /\ vmAt[v] \in {"disks", "net", "give back", "record"}
      /\ vmAt' \in [Vms -> VmPlaces] /\ Elsewhere(vmAt', vmAt, v)
      /\ vmAt'[v] \in {"net", "window", "idle"}
      /\ vmAt'[v] = "net" => vmAt[v] = "disks" /\ UNCHANGED vmRec
      /\ vmAt'[v] = "window" => vmAt[v] = "net" /\ UNCHANGED <<vmRec, vmDisks>>
    BY ZenonT(60), <1>1, VmTypes DEF ResolveDisks, AcquireNetwork, GiveBack, Record, FailedStart, VmAt, VmGo, vmKnown, VmPlaces, Elsewhere
<1>5. /\ vmRec' \in [Vms -> {"none", "blind", "running", "ended", "failed"}] /\ Elsewhere(vmRec', vmRec, v)
      /\ vmRec'[v] \in {"none", "failed", "running"}
      /\ vmRec'[v] = "running" <=> Record(v)
      /\ Record(v) => vmAt[v] = "record"
    <2>1. vmRec[v] = "none"
        BY <1>1, <1>4 DEF VmOnRecord, VmStartSteps, VmAttached
    <2>2. CASE Record(v)
        BY <1>1, <2>2, VmTypes DEF Record, VmAt, Elsewhere
    <2>3. CASE ResolveDisks(v) \/ AcquireNetwork(v) \/ GiveBack(v)
        <3>1. (vmRec' = vmRec \/ vmRec' = [vmRec EXCEPT ![v] = "failed"]) /\ vmAt[v] # "record"
            BY <2>3 DEF ResolveDisks, AcquireNetwork, GiveBack, FailedStart, vmKnown, VmAt
        <3> QED BY <1>1, <2>1, <3>1, VmTypes DEF Record, VmAt, Elsewhere
    <2> QED BY <2>2, <2>3
<1>6. /\ vmReg' \in [Vms -> {"none", "asked", "handle"}] /\ Elsewhere(vmReg', vmReg, v)
      /\ vmReg'[v] = vmReg[v] \/ Record(v)
    <2>1. vmReg' = vmReg \/ (Record(v) /\ vmReg' = [vmReg EXCEPT ![v] = "handle"])
        BY DEF ResolveDisks, AcquireNetwork, GiveBack, Record, vmKnown
    <2> QED BY <1>1, <2>1, VmTypes DEF Elsewhere
<1>6a. vmNet' \in [Vms -> {"none", "held"}]
    BY <1>1, VmTypes DEF ResolveDisks, AcquireNetwork, GiveBack, Record, vmHeld, NetGone
<1>7. /\ vmDisks' \in [Vms -> BOOLEAN] /\ Elsewhere(vmDisks', vmDisks, v)
      /\ vmDisks'[v] =>
           <<v, "disks">> \in vmLost' \/ vmRec'[v] \notin {"none", "failed"} \/ vmAt'[v] \in VmAttached
    <2>1. CASE ResolveDisks(v)
        <3>1. (vmDisks' = [vmDisks EXCEPT ![v] = TRUE] /\ vmAt' = [vmAt EXCEPT ![v] = "net"]) \/ UNCHANGED vmDisks
            BY <2>1 DEF ResolveDisks, VmGo
        <3>2. UNCHANGED vmDisks => (vmDisks[v] => <<v, "disks">> \in vmLost)
            BY <1>1, <2>1 DEF ResolveDisks, VmAt, VmOnRecord, VmStartSteps, VmAttached, InTheWindow
        <3> QED BY ZenonT(60), <1>1, <1>2, <3>1, <3>2, VmTypes DEF VmAttached, Elsewhere
    <2>2. CASE AcquireNetwork(v)
        <3>1. \/ UNCHANGED vmDisks /\ vmAt' = [vmAt EXCEPT ![v] = "window"]
              \/ vmDisks' = [vmDisks EXCEPT ![v] = FALSE]
            BY <2>2 DEF AcquireNetwork, VmGo, Detached
        <3> QED BY <1>1, <3>1, VmTypes DEF VmAttached, Elsewhere
    <2>3. CASE GiveBack(v)
        <3>1. vmDisks' = [vmDisks EXCEPT ![v] = FALSE] \/ (UNCHANGED vmDisks /\ <<v, "disks">> \in vmLost')
            BY <2>3 DEF GiveBack, Detached, Loses
        <3> QED BY <1>1, <3>1, VmTypes DEF Elsewhere
    <2>4. CASE Record(v)
        <3>1. UNCHANGED vmDisks
            BY <2>4 DEF Record, vmHeld
        <3> QED BY <1>1, <1>5, <2>4, <3>1, VmTypes DEF Elsewhere
    <2> QED BY <2>1, <2>2, <2>3, <2>4
<1>8. OthersKept(v)
    BY <1>2, <1>4, <1>5, <1>6, <1>7 DEF OthersKept, Elsewhere
<1>9. VmTypeOK'
    BY <1>1, <1>2, <1>3, <1>4, <1>5, <1>6, <1>6a, <1>7, VmTypes, VmTypesNext
<1>10. WindowKept(v)
    BY <1>2, <1>4 DEF WindowKept, InTheWindow
<1>11. LeftoversNamed'
    BY <1>2, <1>4, <1>8, VmEngineKept
<1>12. vmWant[v] # "gone"
    BY <1>1, <1>4 DEF VmOnRecord
<1>13. VmOnRecord(v)'
    <2>1. vmAt'[v] \in VmStartSteps => vmRec'[v] = "none"
        BY <1>1, <1>4 DEF VmOnRecord, VmStartSteps, VmAttached, InTheWindow
    <2>2. vmRec[v] = "none"
        BY <1>1, <1>4 DEF VmOnRecord, VmStartSteps, VmAttached
    <2>3. vmRec'[v] = "none" => vmReg'[v] = "none"
        <3>1. CASE vmAt[v] = "record"
            <4>1. Record(v)
                BY <3>1 DEF ResolveDisks, AcquireNetwork, GiveBack, VmAt
            <4> QED BY <1>5, <4>1
        <3>2. CASE vmAt[v] # "record"
            BY <1>1, <1>4, <1>5, <1>6, <2>2, <3>2 DEF VmOnRecord
        <3> QED BY <3>1, <3>2
    <2>4. vmMach'[v] \in {"running", "ended"} => <<v, "machine">> \in vmLost' \/ vmRec'[v] = "running"
        <3>1. vmAt[v] = "record" => Record(v)
            BY DEF ResolveDisks, AcquireNetwork, GiveBack, VmAt
        <3> QED BY <1>1, <1>2, <1>5, <2>2, <3>1 DEF VmOnRecord
    <2> QED BY <1>2, <1>4, <1>7, <1>12, <2>1, <2>3, <2>4 DEF VmOnRecord
<1> QED BY <1>1, <1>2, <1>3, <1>8, <1>9, <1>10, <1>11, <1>12, <1>13, VmStep

\* The step of a launch: the tap, the registration, the handles, the spawn.
LEMMA VmLaunching ==
    ASSUME VmInv, NEW v \in Vms, DepositTap(v) \/ Register(v) \/ RegisterVolumes(v) \/ SpawnMachine(v)
    PROVE  VmInv'
<1>1. VmTypeOK /\ vmDeaths \in Nat /\ VmOnRecord(v) /\ LeftoversNamed /\ InWindow /\ "none" \notin Vms
    BY VmMachineAssumption DEF VmInv
<1>2. UNCHANGED <<vmWant, vmRec, vmDisks, vmNet, vmLost, vmOrphans, vmStopping, vmDeaths>>
    BY DEF DepositTap, Register, RegisterVolumes, SpawnMachine, vmKnown, vmHeld, vmEngine
<1>3. /\ vmAt[v] \in {"window", "register", "handles", "spawn"} /\ vmRec[v] = "none" /\ vmWant[v] # "gone"
      /\ vmWindow = "none" \/ (vmWindow = v /\ ~ DepositTap(v))
    <2>1. vmAt[v] \in {"window", "register", "handles", "spawn"} /\ (DepositTap(v) => vmWindow = "none")
          /\ (~ DepositTap(v) => vmAt[v] \in InTheWindow)
        BY DEF DepositTap, Register, RegisterVolumes, SpawnMachine, VmAt, InTheWindow
    <2> QED BY <1>1, <2>1 DEF VmOnRecord, VmStartSteps, VmAttached, InTheWindow, InWindow
<1>4. /\ vmAt' \in [Vms -> VmPlaces] /\ Elsewhere(vmAt', vmAt, v) /\ vmAt'[v] \in InTheWindow \cup {"record"}
      /\ vmAt'[v] = "record" => SpawnMachine(v) /\ vmMach'[v] = "running"
    <2>1. CASE DepositTap(v)
        BY ZenonT(60), <1>1, <2>1, VmTypes DEF DepositTap, VmGo, VmPlaces, Elsewhere, InTheWindow
    <2>2. CASE Register(v)
        <3>1. vmAt' = [vmAt EXCEPT ![v] = "handles"] \/ vmAt' = [vmAt EXCEPT ![v] = "unwind"]
            BY <2>2 DEF Register, VmGo
        <3> QED BY ZenonT(60), <1>1, <3>1, VmTypes DEF VmPlaces, Elsewhere, InTheWindow
    <2>3. CASE RegisterVolumes(v)
        <3>1. vmAt' = [vmAt EXCEPT ![v] = "spawn"] \/ vmAt' = [vmAt EXCEPT ![v] = "unwind"]
            BY <2>3 DEF RegisterVolumes, VmGo
        <3> QED BY ZenonT(60), <1>1, <3>1, VmTypes DEF VmPlaces, Elsewhere, InTheWindow
    <2>4. CASE SpawnMachine(v)
        <3>1. \/ vmAt' = [vmAt EXCEPT ![v] = "record"] /\ vmMach' = [vmMach EXCEPT ![v] = "running"]
              \/ vmAt' = [vmAt EXCEPT ![v] = "unwind"]
            BY <2>4 DEF SpawnMachine, VmGo
        <3> QED BY ZenonT(60), <1>1, <2>4, <3>1, VmTypes DEF VmPlaces, Elsewhere, InTheWindow
    <2> QED BY <2>1, <2>2, <2>3, <2>4
<1>5. /\ vmReg' \in [Vms -> {"none", "asked", "handle"}] /\ Elsewhere(vmReg', vmReg, v)
      /\ vmAt'[v] = "register" => vmAt[v] = "window" /\ vmReg'[v] = vmReg[v]
      /\ vmAt'[v] = "unwind" => vmReg'[v] = "none"
    <2>1. CASE DepositTap(v)
        BY <1>1, <2>1, VmTypes DEF DepositTap, VmAt, vmKnown, VmOnRecord, VmStartSteps, VmAttached, Elsewhere
    <2>2. CASE Register(v)
        <3>1. vmAt[v] = "register" /\ vmReg[v] = "none" /\ vmAt'[v] \in {"handles", "unwind"}
            BY <1>1, <1>3, <2>2, VmTypes DEF Register, VmAt, VmGo, VmOnRecord
        <3>2. \/ vmReg' = [vmReg EXCEPT ![v] = "asked"] /\ vmAt' = [vmAt EXCEPT ![v] = "handles"]
              \/ vmReg' = vmReg
            BY <2>2 DEF Register, VmGo
        <3> QED BY <1>1, <3>1, <3>2, VmTypes DEF Elsewhere
    <2>3. CASE RegisterVolumes(v) \/ SpawnMachine(v)
        <3>1. \/ vmReg' = [vmReg EXCEPT ![v] = "none"] /\ vmAt' = [vmAt EXCEPT ![v] = "unwind"]
              \/ vmReg' = vmReg /\ (vmAt' = [vmAt EXCEPT ![v] = "spawn"] \/ vmAt' = [vmAt EXCEPT ![v] = "record"])
            BY <2>3 DEF RegisterVolumes, SpawnMachine, VmGo, Deregistered
        <3> QED BY <1>1, <3>1, VmTypes DEF Elsewhere
    <2> QED BY <2>1, <2>2, <2>3
<1>6. /\ vmMach' \in [Vms -> {"none", "running", "ended", "released"}] /\ Elsewhere(vmMach', vmMach, v)
      /\ vmMach'[v] = vmMach[v] \/ vmAt'[v] = "record"
    BY <1>1, VmTypes DEF DepositTap, Register, RegisterVolumes, SpawnMachine, VmGo, vmKnown, Elsewhere
<1>7. /\ vmWindow' \in Vms \cup {"none"} /\ WindowKept(v)
    <2>1. CASE DepositTap(v)
        BY <1>1, <1>3, <1>4, <2>1 DEF DepositTap, WindowKept, SpawnMachine, VmAt
    <2>2. CASE Register(v) \/ RegisterVolumes(v)
        <3>1. UNCHANGED vmWindow /\ vmAt[v] \in InTheWindow /\ vmAt'[v] \in InTheWindow
            BY <1>4, <2>2 DEF Register, RegisterVolumes, SpawnMachine, VmAt, InTheWindow
        <3> QED BY <1>1, <3>1, VmTypes DEF WindowKept
    <2>3. CASE SpawnMachine(v)
        <3>1. /\ vmAt[v] = "spawn"
              /\ \/ vmWindow' = "none" /\ vmAt'[v] = "record"
                 \/ vmWindow' = vmWindow /\ vmAt'[v] = "unwind"
            BY <1>1, <2>3, VmTypes DEF SpawnMachine, VmAt, VmGo
        <3>2. vmWindow = v
            BY <1>1, <3>1 DEF InWindow, InTheWindow
        <3> QED BY <1>1, <3>1, <3>2 DEF WindowKept, InTheWindow
    <2> QED BY <2>1, <2>2, <2>3
<1>8. OthersKept(v)
    BY <1>2, <1>4, <1>5, <1>6 DEF OthersKept, Elsewhere
<1>9. /\ vmTaken' \in [Vms -> SUBSET Handles] /\ Elsewhere(vmTaken', vmTaken, v)
      /\ vmLedger' \in [Vms -> SUBSET Steps] /\ Elsewhere(vmLedger', vmLedger, v)
      /\ \E got \in SUBSET Handles : /\ vmTaken'[v] = vmTaken[v] \cup got \/ vmTaken'[v] = {}
                                     /\ vmTaken'[v] = {} \/ vmLedger[v] \cup got \subseteq vmLedger'[v]
      /\ vmLedger[v] \subseteq vmLedger'[v] \/ (vmSlot' = "none" /\ SpawnMachine(v))
    <2>1. CASE DepositTap(v)
        <3>1. vmTaken' = vmTaken /\ vmLedger' = [vmLedger EXCEPT ![v] = vmLedger[v] \cup {"tap"}]
            BY <2>1 DEF DepositTap
        <3>2. {} \in SUBSET Handles /\ "tap" \in Steps
            BY DEF Steps
        <3>3. vmTaken'[v] = vmTaken[v] \cup {} /\ vmLedger[v] \cup {} \subseteq vmLedger'[v]
            BY <1>1, <3>1, VmTypes
        <3>4. vmLedger' \in [Vms -> SUBSET Steps] /\ Elsewhere(vmLedger', vmLedger, v)
            BY <1>1, <3>1, <3>2, VmTypes DEF Elsewhere
        <3>5. vmTaken' \in [Vms -> SUBSET Handles] /\ Elsewhere(vmTaken', vmTaken, v)
            BY <1>1, <3>1, VmTypes DEF Elsewhere
        <3> QED BY <3>2, <3>3, <3>4, <3>5
    <2>2. CASE Register(v)
        <3>1. UNCHANGED <<vmTaken, vmLedger>> /\ {} \in SUBSET Handles
            BY <2>2 DEF Register, vmEngine
        <3>2. vmTaken'[v] = vmTaken[v] \cup {} /\ vmLedger[v] \cup {} \subseteq vmLedger'[v]
            BY <3>1
        <3> QED BY <1>1, <3>1, <3>2, VmTypes DEF Elsewhere
    <2>3. CASE RegisterVolumes(v)
        <3>1. PICK got \in {{}, {"vol"}, Handles} : /\ vmTaken' = [vmTaken EXCEPT ![v] = vmTaken[v] \cup got]
                                                    /\ vmLedger' = [vmLedger EXCEPT ![v] = vmLedger[v] \cup got]
            BY <2>3 DEF RegisterVolumes
        <3>2. got \in SUBSET Handles /\ Handles \subseteq Steps
            BY DEF Handles, Steps
        <3>3. vmTaken'[v] = vmTaken[v] \cup got /\ vmLedger'[v] = vmLedger[v] \cup got
            BY <1>1, <3>1, VmTypes
        <3>4. vmTaken' \in [Vms -> SUBSET Handles] /\ Elsewhere(vmTaken', vmTaken, v)
            BY <1>1, <3>1, <3>2, VmTypes DEF Elsewhere
        <3>5. vmLedger' \in [Vms -> SUBSET Steps] /\ Elsewhere(vmLedger', vmLedger, v)
            BY <1>1, <3>1, <3>2, VmTypes DEF Elsewhere
        <3> QED BY <3>2, <3>3, <3>4, <3>5
    <2>4. CASE SpawnMachine(v)
        <3>1. \/ /\ vmTaken' = [vmTaken EXCEPT ![v] = {}] /\ vmLedger' = [vmLedger EXCEPT ![v] = {}]
                 /\ vmSlot' = "none"
              \/ UNCHANGED <<vmTaken, vmLedger>>
            BY <2>4 DEF SpawnMachine
        <3>2. {} \in SUBSET Handles
            OBVIOUS
        <3>3. CASE UNCHANGED <<vmTaken, vmLedger>>
            <4>1. vmTaken'[v] = vmTaken[v] \cup {} /\ vmLedger[v] \cup {} \subseteq vmLedger'[v]
                BY <3>3
            <4> QED BY <1>1, <3>2, <3>3, <4>1, VmTypes DEF Elsewhere
        <3>4. CASE /\ vmTaken' = [vmTaken EXCEPT ![v] = {}] /\ vmLedger' = [vmLedger EXCEPT ![v] = {}]
                   /\ vmSlot' = "none"
            <4>1. vmTaken'[v] = {}
                BY <1>1, <3>4, VmTypes
            <4> QED BY <1>1, <2>4, <3>2, <3>4, <4>1, VmTypes DEF Elsewhere
        <3> QED BY <3>1, <3>3, <3>4
    <2> QED BY <2>1, <2>2, <2>3, <2>4
<1>10. /\ vmSlot' \in {vmSlot, "none", v} /\ (vmSlot' = v => vmSlot = v \/ DepositTap(v))
       /\ vmAt'[v] \in {"register", "handles", "spawn"} => vmSlot' = v
       /\ DepositTap(v) => "tap" \in vmLedger'[v]
    <2>1. CASE DepositTap(v)
        <3>1. \/ vmSlot' = v
              \/ vmSlot' = vmSlot /\ vmAt' = [vmAt EXCEPT ![v] = "unwind"]
            BY <2>1 DEF DepositTap, VmGo
        <3>2. "tap" \in vmLedger'[v]
            BY <1>1, <2>1, VmTypes DEF DepositTap
        <3> QED BY <1>1, <2>1, <3>1, <3>2, VmTypes
    <2>2. CASE Register(v) \/ RegisterVolumes(v)
        <3>1. UNCHANGED vmSlot /\ vmAt[v] \in {"register", "handles", "spawn"} /\ ~ DepositTap(v)
            BY <2>2 DEF Register, RegisterVolumes, vmEngine, VmAt, DepositTap
        <3> QED BY <1>1, <3>1 DEF LeftoversNamed
    <2>3. CASE SpawnMachine(v)
        <3>1. /\ \/ vmSlot' = "none" /\ vmAt'[v] = "record"
                 \/ vmSlot' = vmSlot /\ vmAt'[v] = "unwind"
              /\ ~ DepositTap(v)
            BY <1>1, <2>3, VmTypes DEF SpawnMachine, VmAt, VmGo, DepositTap
        <3> QED BY <1>1, <3>1
    <2> QED BY <2>1, <2>2, <2>3
<1>11. VmTypeOK'
    <2>1. vmSlot' \in Vms \cup {"none"}
        BY <1>1, <1>10, VmTypes
    <2> QED BY <1>1, <1>2, <1>4, <1>5, <1>6, <1>7, <1>9, <2>1, VmTypes, VmTypesNext
<1>12. LeftoversNamed'
    <2>1. vmSlot' # "none" => "tap" \in vmLedger'[vmSlot']
        <3> SUFFICES ASSUME vmSlot' # "none" PROVE "tap" \in vmLedger'[vmSlot']
            OBVIOUS
        <3>1. CASE DepositTap(v) /\ vmSlot' = v
            BY <1>10, <3>1
        <3>2. CASE vmSlot' = vmSlot
            <4>1. "tap" \in vmLedger[vmSlot] /\ vmSlot \in Vms
                BY <1>1, <3>2, VmTypes DEF LeftoversNamed
            <4>2. vmLedger[v] \subseteq vmLedger'[v]
                BY <1>9
            <4> QED BY <1>9, <3>2, <4>1, <4>2 DEF Elsewhere
        <3> QED BY <1>10, <3>1, <3>2
    <2>2. vmDeaths' = 0 => \A u \in Vms : vmTaken'[u] \subseteq vmLedger'[u] \cup OrphansOf(u)'
        <3> SUFFICES ASSUME vmDeaths = 0, NEW u \in Vms PROVE vmTaken'[u] \subseteq vmLedger'[u] \cup OrphansOf(u)'
            BY <1>2
        <3>1. OrphansOf(u)' = OrphansOf(u) /\ vmTaken[u] \subseteq vmLedger[u] \cup OrphansOf(u)
            BY <1>1, <1>2 DEF OrphansOf, LeftoversNamed
        <3>2. CASE u = v
            <4>1. PICK got \in SUBSET Handles : /\ vmTaken'[v] = vmTaken[v] \cup got \/ vmTaken'[v] = {}
                                                /\ vmTaken'[v] = {} \/ vmLedger[v] \cup got \subseteq vmLedger'[v]
                BY <1>9
            <4> QED BY <3>1, <3>2, <4>1
        <3>3. CASE u # v
            BY <1>9, <3>1, <3>3 DEF Elsewhere
        <3> QED BY <3>2, <3>3
    <2>3. \A u \in Vms : vmAt'[u] \in {"register", "handles", "spawn"} => vmSlot' = u
        <3>1. \A u \in Vms \ {v} : vmAt[u] \notin InTheWindow
            BY <1>1, <1>3 DEF InWindow
        <3> QED BY <1>4, <1>10, <3>1 DEF Elsewhere, InTheWindow
    <2> QED BY <2>1, <2>2, <2>3 DEF LeftoversNamed
<1>13. VmOnRecord(v)'
    <2>1. vmMach'[v] \in {"running", "ended"} => <<v, "machine">> \in vmLost' \/ vmAt'[v] = "record"
        BY <1>1, <1>2, <1>3, <1>6 DEF VmOnRecord
    <2>2. vmAt'[v] \notin {"handles", "spawn", "record"} => vmReg'[v] = "none"
        BY <1>1, <1>3, <1>4, <1>5 DEF VmOnRecord, InTheWindow
    <2> QED BY <1>2, <1>3, <1>4, <2>1, <2>2 DEF VmOnRecord, VmStartSteps, VmAttached, InTheWindow
<1> QED BY <1>1, <1>2, <1>3, <1>7, <1>8, <1>10, <1>11, <1>12, <1>13, VmStep

\* The steps of a stop and of an end, and what the user and the guest do.
LEMMA VmEnding ==
    ASSUME VmInv, NEW v \in Vms,
           \/ AbsorbEnd(v) \/ AskToStop(v) \/ Detach(v) \/ ReleaseMachine(v) \/ ReleaseNetwork(v)
           \/ StopOver(v) \/ Delete(v) \/ PowersOff(v)
    PROVE  VmInv'
<1>1. VmTypeOK /\ vmDeaths \in Nat /\ VmOnRecord(v)
    BY DEF VmInv
<1>2. UNCHANGED <<vmEngine, vmLost, vmWindow, vmDeaths>>
    BY DEF AbsorbEnd, AskToStop, Detach, ReleaseMachine, ReleaseNetwork, StopOver, Delete, PowersOff, vmHeld
<1>3. UNCHANGED <<vmTaken, vmSlot, vmLedger, vmOrphans>>
    BY <1>2 DEF vmEngine
<1>4. /\ vmWant' \in [Vms -> {"wanted", "deleting", "gone"}] /\ Elsewhere(vmWant', vmWant, v)
      /\ vmWant'[v] = "gone" => vmWant[v] = "gone" /\ UNCHANGED <<vmAt, vmRec>>
    <2>1. \/ vmWant' = [vmWant EXCEPT ![v] = "deleting"]
          \/ UNCHANGED vmWant /\ (UNCHANGED <<vmAt, vmRec>> \/ vmWant[v] \in {"wanted", "deleting"} \/ vmAt[v] # "idle")
        BY DEF AbsorbEnd, AskToStop, Detach, ReleaseMachine, ReleaseNetwork, StopOver, Delete, PowersOff, vmKnown, VmAt
    <2> QED BY <1>1, <2>1, VmTypes DEF Elsewhere, VmOnRecord
<1>5. /\ vmAt' \in [Vms -> VmPlaces] /\ Elsewhere(vmAt', vmAt, v)
      /\ vmAt' = vmAt \/ (vmAt[v] \in {"idle", "release", "release net"} /\ vmAt'[v] \in {"idle", "release", "release net"})
      /\ vmAt'[v] = "release" => UNCHANGED vmRec /\ (vmAt[v] = "release" \/ Detach(v)) /\ (Detach(v) => vmRec[v] # "none")
      /\ vmAt'[v] = "release net" => UNCHANGED vmRec /\ (vmAt[v] = "release net" \/ ReleaseMachine(v))
    <2>1. CASE Detach(v)
        <3>1. vmAt[v] = "idle" /\ vmAt' = [vmAt EXCEPT ![v] = "release"] /\ UNCHANGED vmRec /\ vmRec[v] # "none"
            BY <2>1 DEF Detach, VmAt, VmGo, vmKnown, Ended
        <3> QED BY <1>1, <2>1, <3>1, VmTypes DEF VmPlaces, Elsewhere
    <2>2. CASE ReleaseMachine(v)
        <3>1. /\ vmAt[v] = "release" /\ UNCHANGED vmRec
              /\ vmAt' = [vmAt EXCEPT ![v] = "release net"] \/ vmAt' = [vmAt EXCEPT ![v] = "idle"]
            BY <2>2 DEF ReleaseMachine, VmAt, VmGo
        <3> QED BY ZenonT(60), <1>1, <2>2, <3>1, VmTypes DEF VmPlaces, Elsewhere
    <2>3. CASE ReleaseNetwork(v)
        <3>1. vmAt[v] = "release net" /\ vmAt' = [vmAt EXCEPT ![v] = "idle"]
            BY <2>3 DEF ReleaseNetwork, VmAt, VmGo
        <3> QED BY <1>1, <2>3, <3>1, VmTypes DEF VmPlaces, Elsewhere
    <2>4. CASE AbsorbEnd(v)
        <3>1. UNCHANGED vmAt /\ vmAt[v] = "idle"
            BY <2>4 DEF AbsorbEnd, VmAt
        <3> QED BY <1>1, <3>1, VmTypes DEF Elsewhere
    <2>5. CASE AskToStop(v) \/ StopOver(v) \/ Delete(v) \/ PowersOff(v)
        <3>1. UNCHANGED <<vmAt, vmRec>>
            BY <2>5 DEF AskToStop, StopOver, Delete, PowersOff, vmKnown
        <3>2. ~ Detach(v)  \/ vmAt[v] = "idle"
            BY DEF Detach, VmAt
        <3> QED BY <1>1, <3>1, <3>2, VmTypes DEF Elsewhere
    <2> QED BY <2>1, <2>2, <2>3, <2>4, <2>5
<1>6. /\ vmRec' \in [Vms -> {"none", "blind", "running", "ended", "failed"}] /\ Elsewhere(vmRec', vmRec, v)
      /\ vmReg' \in [Vms -> {"none", "asked", "handle"}] /\ Elsewhere(vmReg', vmReg, v)
      /\ \/ vmRec'[v] = vmRec[v] /\ vmReg'[v] = vmReg[v]
         \/ vmRec'[v] = "ended" /\ vmAt[v] = "idle"
         \/ vmRec'[v] = "none" /\ vmReg'[v] = "none" /\ vmAt[v] = "release net" /\ UNCHANGED vmMach
    <2>1. CASE AbsorbEnd(v)
        BY <1>1, <2>1, VmTypes DEF AbsorbEnd, VmAt, Elsewhere
    <2>2. CASE ReleaseNetwork(v)
        <3>1. /\ vmAt[v] = "release net" /\ UNCHANGED vmMach
              /\ \/ vmRec' = [vmRec EXCEPT ![v] = "none"] /\ vmReg' = [vmReg EXCEPT ![v] = "none"]
                 \/ UNCHANGED <<vmRec, vmReg>>
            BY <2>2 DEF ReleaseNetwork, VmAt, Deregistered
        <3> QED BY ZenonT(60), <1>1, <3>1, VmTypes DEF Elsewhere
    <2>3. CASE ~ AbsorbEnd(v) /\ ~ ReleaseNetwork(v)
        <3>1. UNCHANGED <<vmRec, vmReg>>
            BY <2>3 DEF AskToStop, Detach, ReleaseMachine, StopOver, Delete, PowersOff, vmKnown
        <3> QED BY <1>1, <3>1, VmTypes DEF Elsewhere
    <2> QED BY <2>1, <2>2, <2>3
<1>7. /\ vmMach' \in [Vms -> {"none", "running", "ended", "released"}] /\ Elsewhere(vmMach', vmMach, v)
      /\ vmMach'[v] \in {"running", "ended"} => vmMach[v] \in {"running", "ended"}
      /\ ReleaseMachine(v) /\ vmAt'[v] = "release net" => vmMach'[v] = "released" \/ vmRec[v] = "failed"
    <2>1. \/ UNCHANGED vmMach
          \/ vmMach' = [vmMach EXCEPT ![v] = "released"]
          \/ vmMach[v] = "running" /\ vmMach' = [vmMach EXCEPT ![v] = "ended"]
          \/ vmMach' = [vmMach EXCEPT ![v] = IF vmMach[v] = "running" THEN "ended" ELSE vmMach[v]]
        BY DEF AbsorbEnd, AskToStop, Detach, ReleaseMachine, ReleaseNetwork, StopOver, Delete, PowersOff, vmKnown
    <2>2. vmMach' \in [Vms -> {"none", "running", "ended", "released"}] /\ Elsewhere(vmMach', vmMach, v)
          /\ (vmMach'[v] \in {"running", "ended"} => vmMach[v] \in {"running", "ended"})
        BY <1>1, <2>1, VmTypes DEF Elsewhere
    <2>3. ReleaseMachine(v) /\ vmAt'[v] = "release net" => vmMach'[v] = "released" \/ vmRec[v] = "failed"
        BY <1>1, VmTypes DEF ReleaseMachine, VmGo
    <2> QED BY <2>2, <2>3
<1>8. /\ vmDisks' \in [Vms -> BOOLEAN] /\ Elsewhere(vmDisks', vmDisks, v)
      /\ vmDisks'[v] => vmDisks[v] /\ ~ Detach(v)
    <2>1. vmDisks' = [vmDisks EXCEPT ![v] = FALSE] \/ (UNCHANGED vmDisks /\ ~ Detach(v)) \/ (Detach(v) /\ ~ vmDisks'[v])
        BY <1>1, VmTypes DEF AbsorbEnd, AskToStop, Detach, ReleaseMachine, ReleaseNetwork, StopOver, Delete, PowersOff, vmHeld
    <2>2. Detach(v) => vmDisks' = [vmDisks EXCEPT ![v] = FALSE]
        BY DEF Detach
    <2> QED BY <1>1, <2>1, <2>2, VmTypes DEF Elsewhere
<1>9. vmNet' \in [Vms -> {"none", "held"}] /\ vmStopping' \subseteq Vms
    BY <1>1, VmTypes DEF AbsorbEnd, AskToStop, Detach, ReleaseMachine, ReleaseNetwork, StopOver, Delete, PowersOff,
       vmHeld, NetGone
<1>10. VmTypeOK'
    BY <1>1, <1>2, <1>3, <1>4, <1>5, <1>6, <1>7, <1>8, <1>9, VmTypes, VmTypesNext
<1>11. OthersKept(v)
    BY <1>2, <1>4, <1>5, <1>6, <1>7, <1>8 DEF OthersKept, Elsewhere
<1>12. WindowKept(v)
    BY <1>2, <1>5 DEF WindowKept, InTheWindow
<1>13. LeftoversNamed'
    BY <1>2, <1>5, <1>11, VmEngineKept
<1>14. VmOnRecord(v)'
    <2>1. vmAt'[v] \in VmStartSteps => vmRec'[v] = "none"
        BY <1>1, <1>5, <1>6 DEF VmOnRecord, VmStartSteps, VmAttached, InTheWindow
    <2>2. vmRec'[v] = "none" /\ vmAt'[v] \notin {"handles", "spawn", "record"} => vmReg'[v] = "none"
        BY <1>1, <1>5, <1>6 DEF VmOnRecord
    <2>3. vmAt'[v] \in {"release", "release net"} => vmRec'[v] # "none" /\ ~ vmDisks'[v]
        <3>1. vmAt'[v] = "release" /\ Detach(v) => vmRec'[v] # "none" /\ ~ vmDisks'[v]
            BY <1>5, <1>8
        <3>2. ReleaseMachine(v) => vmAt[v] = "release"
            BY DEF ReleaseMachine, VmAt
        <3> QED BY <1>1, <1>5, <1>8, <3>1, <3>2 DEF VmOnRecord
    <2>4. vmAt'[v] = "release net" => vmMach'[v] \notin {"running", "ended"} \/ vmRec'[v] = "failed"
        BY <1>1, <1>5, <1>7 DEF VmOnRecord
    <2>5. vmWant'[v] = "gone" => vmAt'[v] = "idle" /\ vmRec'[v] = "none"
        BY <1>1, <1>4 DEF VmOnRecord
    <2>6. vmMach'[v] \in {"running", "ended"} =>
            <<v, "machine">> \in vmLost' \/ vmRec'[v] \in {"running", "ended", "blind"} \/ vmAt'[v] = "record"
        BY <1>1, <1>2, <1>5, <1>6, <1>7 DEF VmOnRecord
    <2>7. vmDisks'[v] => <<v, "disks">> \in vmLost' \/ vmRec'[v] \notin {"none", "failed"} \/ vmAt'[v] \in VmAttached
        BY <1>1, <1>2, <1>5, <1>6, <1>8 DEF VmOnRecord, VmAttached, InTheWindow
    <2> QED BY <2>1, <2>2, <2>3, <2>4, <2>5, <2>6, <2>7 DEF VmOnRecord
<1>15. vmWant'[v] = "gone" => vmSlot' # v
    BY <1>3, <1>4 DEF VmInv, SlotOfLive
<1> QED BY <1>1, <1>2, <1>3, <1>10, <1>11, <1>12, <1>13, <1>14, <1>15, VmStep

\* A kubelet dies: what a registration does not name is lost, and the rest is adopted.
LEMMA VmDying ==
    ASSUME VmInv, VmDie
    PROVE  VmInv'
<1>1. VmTypeOK /\ vmDeaths \in Nat /\ (\A v \in Vms : VmOnRecord(v)) /\ "none" \notin Vms
    BY VmMachineAssumption DEF VmInv
<1>2. /\ vmDeaths' = vmDeaths + 1 /\ vmAt' = [v \in Vms |-> "idle"] /\ vmWindow' = "none" /\ vmStopping' = {}
      /\ vmLedger' = [v \in Vms |-> {}] /\ vmOrphans' = {} /\ vmSlot' = "none" /\ vmRec' = [v \in Vms |-> AdoptedAs(v)]
      /\ UNCHANGED <<vmWant, vmReg, vmMach, vmTaken, vmDisks>>
    BY DEF VmDie
<1>3. \A v \in Vms : /\ vmReg[v] = "none" => AdoptedAs(v) = "none"
                     /\ vmReg[v] = "asked" => AdoptedAs(v) = "blind"
                     /\ vmReg[v] = "handle" => AdoptedAs(v) = "running"
    BY DEF AdoptedAs
<1>4. \A v \in Vms : /\ vmAt'[v] = "idle"
                     /\ vmRec'[v] \in {"none", "blind", "running"}
                     /\ vmRec'[v] = "none" <=> vmReg[v] = "none"
    BY <1>1, <1>2, <1>3, VmTypes
<1>5. /\ vmLost \subseteq vmLost'
      /\ \A v \in Vms : vmReg[v] = "none" /\ vmDisks[v] => <<v, "disks">> \in vmLost'
      /\ \A v \in Vms : vmReg[v] = "none" /\ vmMach[v] \in {"running", "ended"} => <<v, "machine">> \in vmLost'
    BY DEF VmDie
<1>6. VmTypeOK'
    <2>1. vmNet' \in [Vms -> {"none", "held"}]
        <3>1. \/ vmNet' = vmNet
              \/ vmNet' = [v \in Vms |-> IF v \in {u \in Vms : vmReg[u] = "none"} THEN "none" ELSE vmNet[v]]
            BY DEF VmDie
        <3> QED BY <1>1, <3>1, VmTypes
    <2>2. vmRec' \in [Vms -> {"none", "blind", "running", "ended", "failed"}]
        BY <1>2, <1>4
    <2>3. vmAt' \in [Vms -> VmPlaces] /\ vmLedger' \in [Vms -> SUBSET Steps] /\ vmOrphans' \subseteq Vms \X Handles
        BY <1>2 DEF VmPlaces
    <2> QED BY <1>1, <1>2, <2>1, <2>2, <2>3, VmTypes, VmTypesNext
<1>7. ASSUME NEW v \in Vms PROVE VmOnRecord(v)'
    <2>1. vmAt'[v] = "idle" /\ vmRec'[v] \in {"none", "blind", "running"} /\ (vmRec'[v] = "none" <=> vmReg[v] = "none")
        BY <1>4, <1>7
    <2>2. vmWant[v] = "gone" => vmReg[v] = "none"
        BY <1>1, <1>7 DEF VmOnRecord
    <2> QED BY <1>2, <1>5, <1>7, <2>1, <2>2 DEF VmOnRecord, VmStartSteps, VmAttached, InTheWindow
<1>8. InWindow' /\ SlotOfLive'
    BY <1>1, <1>2, <1>4 DEF InWindow, InTheWindow, SlotOfLive
<1>9. LeftoversNamed'
    BY <1>1, <1>2, <1>4 DEF LeftoversNamed
<1> QED BY <1>1, <1>2, <1>6, <1>7, <1>8, <1>9 DEF VmInv

LEMMA VmInvInit == VmInit => VmInv
<1> SUFFICES ASSUME VmInit PROVE VmInv
    OBVIOUS
<1>1. \A v \in Vms : VmOnRecord(v)
    BY DEF VmInit, VmOnRecord, VmStartSteps, VmAttached, InTheWindow
<1>2. InWindow /\ SlotOfLive /\ LeftoversNamed
    BY VmMachineAssumption DEF VmInit, InWindow, InTheWindow, SlotOfLive, LeftoversNamed
<1>3. VmTypeOK
    BY VmTypes DEF VmInit, VmPlaces
<1> QED BY <1>1, <1>2, <1>3 DEF VmInv, VmInit

LEMMA VmInvStep == VmInv /\ [VmNext]_vmVars => VmInv'
<1> SUFFICES ASSUME VmInv, [VmNext]_vmVars PROVE VmInv'
    OBVIOUS
<1>1. CASE UNCHANGED vmVars
    <2>1. VmTypeOK' /\ vmDeaths' \in Nat
        BY <1>1 DEF vmVars, VmInv, VmTypeOK
    <2>2. InWindow' /\ SlotOfLive' /\ (\A v \in Vms : VmOnRecord(v)')
        BY <1>1 DEF vmVars, VmInv, InWindow, SlotOfLive, VmOnRecord
    <2>3. LeftoversNamed'
        BY <1>1 DEF vmVars, VmInv, LeftoversNamed, OrphansOf
    <2> QED BY <2>1, <2>2, <2>3 DEF VmInv
<1>2. ASSUME NEW v \in Vms, VmPass(v) \/ StopOver(v) \/ Delete(v) \/ PowersOff(v) PROVE VmInv'
    <2>1. CASE Starting(v)
        BY <2>1, VmUndoing, VmBeforeWindow, VmLaunching DEF Starting
    <2>2. CASE StoppingVm(v)
        BY <2>2, VmUndoing, VmEnding DEF StoppingVm
    <2> QED BY <1>2, <2>1, <2>2, VmEnding DEF VmPass
<1> QED BY <1>1, <1>2, VmDying DEF VmNext

\* The types of the VMIs, their workers, their machines and what is left of them.
THEOREM MachineTypeCorrect == VmSpec => []VmTypeOK
<1>1. VmInv => VmTypeOK
    BY DEF VmInv
<1> QED BY <1>1, VmInvInit, VmInvStep, PTL DEF VmSpec

LEMMA VmNothingLeft == VmInv => NothingLeft
<1> SUFFICES ASSUME VmInv PROVE NothingLeft
    OBVIOUS
<1>1. ASSUME NEW v \in Vms, vmWant[v] = "gone"
      PROVE  /\ vmSlot # v
             /\ vmMach[v] \in {"running", "ended"} => <<v, "machine">> \in vmLost
             /\ vmDisks[v] => <<v, "disks">> \in vmLost
    BY <1>1 DEF VmInv, VmOnRecord, SlotOfLive, VmAttached, InTheWindow
<1> QED BY <1>1 DEF VmInv, NothingLeft, GoneLeavesNothing

\* What a start has left in the engine is named by a ledger until it is undone,
\* a machine is spawned with its own tap, and a VMI let go leaves its successor
\* nothing, with any number of VMIs, failures and deaths.
THEOREM NothingLeftHolds == VmSpec => []NothingLeft
BY VmNothingLeft, VmInvInit, VmInvStep, PTL DEF VmSpec

-----------------------------------------------------------------------------
(* A live migration (VmMigration). *)

\* A kubelet is handed nothing the apiserver did not have.
SeenIsOld == \A n \in Nodes : mgSeen[n] \subseteq mgApi

\* The guest's memory is where the last byte of it went, and only its end is
\* told as completed.
GuestIsSent ==
    /\ mgGuest = Dst <=> mgXfer = "completed"
    /\ \A n \in Nodes : "completed" \in mgApi \/ mgWrite[n] = "completed" => mgXfer = "completed"

\* The source lets its machine go for a completed migration only, and no machine
\* but the source's runs until the memory is sent.
SourceKept ==
    /\ mgKept[Src] # "incoming" /\ (mgKept[Src] # "vms" => "completed" \in mgSeen[Src])
    /\ mgXfer # "completed" => mgMachine[Src] = "running" /\ mgMachine[Dst] # "running"

\* The memory is sent after the disks are recorded and the target is ready; each
\* kubelet writes what is its own to write.
SentInOrder ==
    /\ mgXfer # "none" => "disks" \in mgSeen[Src] /\ "ready" \in mgApi
    /\ mgWrite[Src] # "ready" /\ mgWrite[Dst] \in {"none", "ready", "failed"}
    /\ mgWrite[Src] = "disks" => mgXfer = "none"
    /\ mgWrite[Dst] = "ready" => mgKept[Dst] = "incoming"

\* But for the excepted races: the source knows that it sends, a ready target
\* keeps its receiver, and what is being sent or is sent was not given up.
UnderControl ==
    /\ mgXfer # "none" => mgSent \/ "started" \in mgSeen[Src]
    /\ "ready" \in mgApi /\ "failed" \notin mgApi => mgKept[Dst] \in {"incoming", "vms"} /\ mgWrite[Dst] # "failed"
    /\ mgXfer \in {"active", "completed"} => "failed" \notin mgApi /\ mgWrite[Src] # "failed"

MgOrder == SeenIsOld /\ GuestIsSent /\ SourceKept /\ SentInOrder
MgInv == MgTypeOK /\ MgOrder /\ (~ mgExcused => UnderControl) /\ GuestKept

LEMMA MgInvInit == MgInit => MgInv
<1> SUFFICES ASSUME MgInit PROVE MgInv
    OBVIOUS
<1>1. MgTypeOK
    BY DEF MgInit, MgTypeOK, Nodes, Fields
<1>2. MgOrder /\ UnderControl /\ GuestKept
    BY MigrationAssumption DEF MgInit, MgOrder, SeenIsOld, GuestIsSent, SourceKept, SentInOrder, UnderControl, GuestKept, Nodes
<1> QED BY <1>1, <1>2 DEF MgInv

LEMMA MgTypeStep == MgTypeOK /\ [MgNext]_mgVars => MgTypeOK'
<1> SUFFICES ASSUME MgTypeOK, [MgNext]_mgVars PROVE MgTypeOK'
    OBVIOUS
<1> USE DEF MgTypeOK, Writes, Keeps, mgTold, mgOutside
<1>0. Src \in Nodes /\ Dst \in Nodes /\ {"disks", "ready", "started", "completed", "failed"} \subseteq Fields
    BY DEF Nodes, Fields
<1>1. CASE MigrateOut
    BY <1>0, <1>1 DEF MigrateOut, LetGo, AbortDisks, FailEarly, Mirror, SendMemory, AbortSending, Progress, Outcome
<1>2. CASE MigrateIn
    BY <1>0, <1>2 DEF MigrateIn, Arrive, FinishDisks, GiveUpFound, AbortReceiving, Receive, ReportReady, Leave
<1>3. CASE Outside
    <2>1. CASE Ask
        <3>1. mgApi' \subseteq Fields
            BY <2>1 DEF Ask, Fields
        <3> QED BY <2>1, <3>1 DEF Ask
    <2> QED BY <1>0, <1>3, <2>1 DEF Outside, Copy, Transfer
<1>4. ASSUME NEW n \in Nodes, FinishForced(n) \/ StartCold(n) PROVE MgTypeOK'
    BY <1>4 DEF FinishForced, StartCold
<1>5. ASSUME NEW n \in Nodes, Land(n) PROVE MgTypeOK'
    <2>1. mgWrite[n] \in Fields
        BY <1>5 DEF Land
    <2> QED BY <1>0, <1>5, <2>1 DEF Land
<1>6. ASSUME NEW n \in Nodes, Watch(n) PROVE MgTypeOK'
    BY <1>6 DEF Watch
<1>7. ASSUME NEW n \in Nodes, Die(n) PROVE MgTypeOK'
    BY <1>7 DEF Die
<1>8. CASE UNCHANGED mgVars
    BY <1>8 DEF mgVars
<1> QED BY <1>1, <1>2, <1>3, <1>4, <1>5, <1>6, <1>7, <1>8 DEF MgNext

LEMMA MgSafeStep == MgInv /\ [MgNext]_mgVars => (MgOrder /\ (~ mgExcused => UnderControl) /\ GuestKept)'
<1> DEFINE Good == MgOrder /\ (~ mgExcused => UnderControl) /\ GuestKept
<1> SUFFICES ASSUME MgInv, [MgNext]_mgVars PROVE Good'
    OBVIOUS
<1>0. Src \in Nodes /\ Dst \in Nodes /\ Nodes = {Src, Dst} /\ Src # Dst
    BY MigrationAssumption DEF Nodes
<1> USE <1>0 DEF MgInv, MgTypeOK, MgOrder, SeenIsOld, GuestIsSent, SourceKept, SentInOrder, UnderControl, GuestKept,
            Writes, Keeps, mgTold, mgOutside, mgMemory, Moved, Active
<1>1. CASE LetGo
    BY <1>1 DEF LetGo
<1>2. CASE AbortDisks
    BY <1>2 DEF AbortDisks
<1>3. CASE FailEarly
    BY <1>3 DEF FailEarly, Started
<1>4. CASE Mirror
    BY <1>4 DEF Mirror, SourcePass, MayPass
<1>5. CASE SendMemory
    <2>1. /\ mgWrite[Src] = "none" /\ ~ mgSent /\ "started" \notin mgSeen[Src] /\ mgKept[Src] = "vms"
          /\ {"disks", "ready"} \subseteq mgSeen[Src]
          /\ UNCHANGED <<mgApi, mgSeen, mgMachine, mgKept, mgGuest>>
        BY <1>5 DEF SendMemory, SourcePass, MayPass, Started
    <2>2. CASE /\ mgXfer = "none" /\ mgXfer' = "active" /\ mgSent' = TRUE /\ Writes(Src, "started")
               /\ mgExcused' = (mgExcused \/ "failed" \in mgApi)
        BY <2>1, <2>2
    <2>3. CASE Writes(Src, "failed") /\ UNCHANGED <<mgXfer, mgSent, mgExcused>>
        BY <2>1, <2>3
    <2> QED BY <1>5, <2>2, <2>3 DEF SendMemory
<1>6. CASE AbortSending
    BY <1>6 DEF AbortSending, SourcePass, MayPass
<1>7. CASE Progress
    BY <1>7 DEF Progress, SourcePass, MayPass, Outcome, Started
<1>8. CASE Arrive
    BY <1>8 DEF Arrive, MayPass
<1>9. CASE FinishDisks
    BY <1>9 DEF FinishDisks
<1>10. CASE GiveUpFound
    BY <1>10 DEF GiveUpFound
<1>11. CASE AbortReceiving
    BY <1>11 DEF AbortReceiving, MayPass, Unsent
<1>12. CASE Receive
    BY <1>12 DEF Receive, TargetPass, MayPass
<1>13. CASE ReportReady
    BY <1>13 DEF ReportReady, TargetPass, MayPass
<1>14. CASE Leave
    BY <1>14 DEF Leave, MayPass
<1>15. CASE Ask
    BY <1>15 DEF Ask
<1>16. CASE Copy
    BY <1>16 DEF Copy
<1>17. CASE Transfer
    BY <1>17 DEF Transfer
<1>18. ASSUME NEW n \in Nodes, FinishForced(n) PROVE Good'
    BY <1>18 DEF FinishForced
<1>19. ASSUME NEW n \in Nodes, StartCold(n) PROVE Good'
    BY <1>19 DEF StartCold
<1>20. ASSUME NEW n \in Nodes, Land(n) PROVE Good'
    BY <1>20 DEF Land
<1>21. ASSUME NEW n \in Nodes, Watch(n) PROVE Good'
    BY <1>21 DEF Watch
<1>22. ASSUME NEW n \in Nodes, Die(n) PROVE Good'
    BY <1>22 DEF Die
<1>23. CASE UNCHANGED mgVars
    BY <1>23 DEF mgVars
<1> QED BY <1>1, <1>2, <1>3, <1>4, <1>5, <1>6, <1>7, <1>8, <1>9, <1>10, <1>11, <1>12, <1>13, <1>14, <1>15, <1>16,
           <1>17, <1>18, <1>19, <1>20, <1>21, <1>22, <1>23 DEF MgNext, MigrateOut, MigrateIn, Outside

\* The types of the two kubelets' views, of the machines, the mirror and the transfer.
THEOREM MigrationTypeCorrect == MgSpec => []MgTypeOK
<1>1. MgInv => MgTypeOK
    BY DEF MgInv
<1>2. MgInv /\ [MgNext]_mgVars => MgInv'
    BY MgTypeStep, MgSafeStep DEF MgInv
<1> QED BY <1>1, <1>2, MgInvInit, PTL DEF MgSpec

\* The machine with the guest's memory runs, and it alone, whatever writes are
\* lost, however old the objects the two passes are handed and whenever either
\* kubelet dies, but for the races GuestKept names.
THEOREM GuestKeptHolds == MgSpec => []GuestKept
<1>1. MgInv => GuestKept
    BY DEF MgInv
<1>2. MgInv /\ [MgNext]_mgVars => MgInv'
    BY MgTypeStep, MgSafeStep DEF MgInv
<1> QED BY <1>1, <1>2, MgInvInit, PTL DEF MgSpec

-----------------------------------------------------------------------------
(* A running machine's changes (VmHotplug). *)

\* What the books say of the disk: the pass's copy of the record, or memory's.
OnBooks == IF hpAt = "idle" THEN hpMem.disk ELSE hpNow.disk

\* An attachment is recorded before it is asked for.
AddNoted == hpAt = "add" => hpNoted

\* But for a verb no record has: the disk the guest has, and a volume that is
\* attached, are on the books, or the pass is about to put them there or give
\* them back.
DiskHeld ==
    ~ hpCut /\ hpAt # "stopped" =>
        /\ hpGuest.disk => OnBooks
        /\ hpVol = "attached" /\ hpAt \notin {"plug disk", "give back"} => OnBooks
        /\ hpAt = "detach disk" => ~ hpGuest.disk
        /\ hpAt \in {"plug disk", "give back"} => ~ hpNow.disk
        /\ hpAt = "plug disk" => hpVol = "attached"

HpInv == HpTypeOK /\ HotplugKeepsUp /\ AddNoted /\ DiskHeld /\ (hpAt = "stopped" => ~ hpGuest.disk)

HpSteps == {"idle", "cpus", "nic", "detach", "add", "plug nic", "disk", "detach disk", "plug disk",
            "give back", "record", "save", "done", "stopped"}

\* The same as HpTypeOK, one variable at a time.
HpBooksTyped ==
    /\ hpSpec \in [gen : 1..MaxSpecs, want : Hardware] /\ hpSeen \in 0..MaxSpecs
    /\ hpMem \in Hardware /\ hpDisk \in Hardware
HpPassTyped ==
    /\ hpGuest \in Hardware /\ hpNow \in Hardware /\ hpAt \in HpSteps /\ hpCut \in BOOLEAN
    /\ hpTold \in {"synchronized", "refused", "waits"} /\ hpSnags \in 0..MaxSnags
HpNodeTyped ==
    /\ hpIf \in BOOLEAN /\ hpNoted \in BOOLEAN /\ hpFresh \in BOOLEAN
    /\ hpVol \in {"absent", "made", "attached"}

LEMMA HpTypes == HpTypeOK <=> HpBooksTyped /\ HpPassTyped /\ HpNodeTyped
BY DEF HpTypeOK, HpBooksTyped, HpPassTyped, HpNodeTyped, HpSteps

LEMMA HpTypesNext == HpTypeOK' <=> (HpBooksTyped /\ HpPassTyped /\ HpNodeTyped)'
BY DEF HpTypeOK, HpBooksTyped, HpPassTyped, HpNodeTyped, HpSteps

\* What the sandbox's record says, and what the disk's.
NicKept == SandboxNamed /\ AddNoted
DiskKept == DiskFollowsGuest /\ DiskHeld /\ (hpAt = "stopped" => ~ hpGuest.disk)

LEMMA HpInvIs == HpInv <=> HpTypeOK /\ NicKept /\ DiskKept
BY DEF HpInv, HotplugKeepsUp, NicKept, DiskKept

LEMMA HardwareParts ==
    /\ AtBoot \in Hardware /\ ~ AtBoot.disk
    /\ \A m \in Hardware : /\ m.cpus \in 1..2 /\ m.nic \in BOOLEAN /\ m.disk \in BOOLEAN
                           /\ \A d \in BOOLEAN : [m EXCEPT !.disk = d] \in Hardware /\ [m EXCEPT !.disk = d].disk = d
BY DEF AtBoot, Has, Hardware

LEMMA HpInvInit == HpInit => HpInv
<1> SUFFICES ASSUME HpInit PROVE HpInv
    OBVIOUS
<1>1. AtBoot \in Hardware /\ ~ AtBoot.disk
    BY HardwareParts
<1>5. 1 \in 1..MaxSpecs /\ 1 \in 0..MaxSpecs /\ 0 \in 0..MaxSnags
    BY VmHotplugAssumption
<1>2. HpBooksTyped /\ HpNodeTyped
    <2>1. hpSpec \in [gen : 1..MaxSpecs, want : Hardware]
        BY <1>1, <1>5 DEF HpInit
    <2> QED BY <1>1, <1>5, <2>1 DEF HpInit, HpBooksTyped, HpNodeTyped
<1>3. HpPassTyped
    BY <1>1, <1>5 DEF HpInit, HpPassTyped, HpSteps
<1>4. NicKept /\ DiskKept
    BY <1>1 DEF HpInit, NicKept, DiskKept, SandboxNamed, DiskFollowsGuest, AddNoted, DiskHeld, OnBooks
<1> QED BY <1>2, <1>3, <1>4, HpTypes, HpInvIs

\* A step that leaves the interface and the disk as they are.
LEMMA HpElsewhere ==
    ASSUME HpInv, UNCHANGED <<hpIf, hpNoted, hpVol, hpMem>>, hpAt' # "add",
           hpNow'.disk = OnBooks, hpGuest'.disk = hpGuest.disk, hpCut => hpCut',
           hpAt \notin {"plug disk", "give back", "stopped"},
           hpAt' \notin {"idle", "detach disk", "plug disk", "give back", "stopped"}
    PROVE  NicKept' /\ DiskKept'
<1>1. NicKept /\ DiskKept
    BY HpInvIs
<1>2. NicKept'
    BY <1>1 DEF NicKept, SandboxNamed, AddNoted
<1>3. DiskKept'
    BY <1>1 DEF DiskKept, DiskFollowsGuest, DiskHeld, OnBooks
<1> QED BY <1>2, <1>3

\* A verb of the machine changes one part of it, of which the pass's copy is told
\* or the difference is noted.
LEMMA VerbDoes ==
    ASSUME HpInv, NEW part \in {"cpus", "nic", "disk"}, NEW v,
           v \in IF part = "cpus" THEN 1..2 ELSE BOOLEAN, Verb(With(part, v))
    PROVE  /\ hpGuest' \in Hardware /\ hpNow' \in Hardware /\ hpCut' \in BOOLEAN
           /\ hpTold' \in {"synchronized", "refused", "waits"}
           /\ hpSnags' \in 0..MaxSnags /\ (hpCut => hpCut')
           /\ part # "disk" => hpGuest'.disk = hpGuest.disk /\ hpNow'.disk = hpNow.disk
           /\ part = "disk" => \/ hpGuest'.disk = v /\ hpNow'.disk = v
                               \/ hpGuest'.disk = hpGuest.disk /\ hpNow'.disk = hpNow.disk
                               \/ hpCut' /\ hpNow'.disk = hpNow.disk
<1>1. HpPassTyped
    BY HpInvIs, HpTypes
<1>2. ASSUME NEW m \in Hardware
      PROVE  /\ With(part, v)[m] \in Hardware
             /\ part # "disk" => With(part, v)[m].disk = m.disk
             /\ part = "disk" => With(part, v)[m].disk = v
    <2>1. With(part, v)[m] = [m EXCEPT ![part] = v]
        BY DEF With
    <2>2. CASE part = "cpus"
        BY <2>1, <2>2 DEF Hardware
    <2>3. CASE part = "nic"
        BY <2>1, <2>3 DEF Hardware
    <2>4. CASE part = "disk"
        BY <2>1, <2>4 DEF Hardware
    <2> QED BY <2>2, <2>3, <2>4
<1>3. PICK done : done = With(part, v)
    OBVIOUS
<1>4. /\ done[hpGuest] \in Hardware /\ done[hpNow] \in Hardware
      /\ part # "disk" => done[hpGuest].disk = hpGuest.disk /\ done[hpNow].disk = hpNow.disk
      /\ part = "disk" => done[hpGuest].disk = v /\ done[hpNow].disk = v
    BY <1>1, <1>2, <1>3 DEF HpPassTyped
<1>5. Verb(done)
    BY <1>3
<1>6. hpSnags' = hpSnags \/ (hpSnags < MaxSnags /\ hpSnags' = hpSnags + 1)
    BY <1>5 DEF Verb, Snag, NoSnag
<1>7. hpSnags' \in 0..MaxSnags
    BY <1>1, <1>6, VmHotplugAssumption DEF HpPassTyped
<1>8. CASE hpGuest' = done[hpGuest] /\ hpNow' = done[hpNow] /\ Told /\ NoSnag /\ UNCHANGED hpCut
    BY <1>1, <1>4, <1>7, <1>8 DEF HpPassTyped, Told
<1>9. CASE UNCHANGED <<hpGuest, hpNow, hpCut>> /\ Refused /\ Snag
    BY <1>1, <1>7, <1>9 DEF HpPassTyped, Refused
<1>10. CASE hpGuest' = done[hpGuest] /\ hpGuest' # hpGuest /\ hpCut' = TRUE /\ UNCHANGED hpNow /\ Refused /\ Snag
    BY <1>1, <1>4, <1>7, <1>10 DEF HpPassTyped, Refused
<1> QED BY <1>5, <1>8, <1>9, <1>10 DEF Verb

\* A step in which something may fail, its bound.
LEMMA HpSnags ==
    ASSUME HpInv, Snag \/ NoSnag
    PROVE  hpSnags' \in 0..MaxSnags
BY HpInvIs, HpTypes, VmHotplugAssumption DEF HpPassTyped, Snag, NoSnag

LEMMA HpNicStep ==
    ASSUME HpInv, SetVcpus \/ RemoveNic \/ DetachNic \/ NoteNic \/ AddNetwork \/ PlugNic \/ NicStays
    PROVE  HpInv'
<1>0. HpBooksTyped /\ HpPassTyped /\ HpNodeTyped /\ NicKept /\ DiskKept
    BY HpInvIs, HpTypes
<1>1. HpBooksTyped'
    BY <1>0 DEF SetVcpus, RemoveNic, DetachNic, NoteNic, AddNetwork, PlugNic, NicStays, hpBooks, HpBooksTyped
<1>2. CASE SetVcpus \/ RemoveNic \/ PlugNic
    <2>1. /\ hpAt \in {"cpus", "nic", "plug nic"} /\ hpAt' \in {"nic", "disk", "detach"}
          /\ UNCHANGED <<hpMem, hpIf, hpNoted, hpVol, hpFresh>>
        BY <1>2 DEF SetVcpus, RemoveNic, PlugNic, Step, To, hpNet, hpStore, hpBooks
    <2>2. /\ hpGuest' \in Hardware /\ hpNow' \in Hardware /\ hpCut' \in BOOLEAN
          /\ hpTold' \in {"synchronized", "refused", "waits"} /\ hpSnags' \in 0..MaxSnags /\ (hpCut => hpCut')
          /\ hpGuest'.disk = hpGuest.disk /\ hpNow'.disk = hpNow.disk
        <3>1. CASE SetVcpus /\ UNCHANGED <<hpGuest, hpNow, hpTold, hpCut, hpSnags>>
            BY <1>0, <3>1 DEF HpPassTyped
        <3>2. CASE SetVcpus /\ Verb(With("cpus", hpSpec.want.cpus))
            <4>1. hpSpec.want.cpus \in 1..2
                BY <1>0, HardwareParts DEF HpBooksTyped
            <4> QED BY <3>2, <4>1, VerbDoes
        <3>3. CASE \E v \in BOOLEAN : Verb(With("nic", v))
            BY <3>3, VerbDoes
        <3> QED BY <1>2, <3>1, <3>2, <3>3 DEF SetVcpus, RemoveNic, PlugNic
    <2>3. HpPassTyped' /\ HpNodeTyped'
        BY <1>0, <2>1, <2>2 DEF HpPassTyped, HpNodeTyped, HpSteps
    <2>4. NicKept' /\ DiskKept'
        BY <2>1, <2>2, HpElsewhere DEF OnBooks
    <2> QED BY <1>1, <2>3, <2>4, HpInvIs, HpTypesNext DEF HpInv, NicKept, DiskKept, HotplugKeepsUp
<1>3. CASE DetachNic \/ NoteNic \/ AddNetwork \/ NicStays
    <2>1. /\ hpAt \in {"nic", "detach", "add"} /\ hpAt' \in {"disk", "add", "plug nic", "detach"}
          /\ UNCHANGED <<hpMem, hpGuest, hpNow, hpCut, hpVol, hpFresh>>
          /\ hpTold' \in {hpTold, "refused"} /\ (Snag \/ NoSnag)
        BY <1>3 DEF DetachNic, NoteNic, AddNetwork, NicStays, Step, To, hpStore, hpBooks, Told, Refused, NoSnag
    <2>2. hpIf' \in BOOLEAN /\ hpNoted' \in BOOLEAN
        BY <1>0, <1>3 DEF DetachNic, NoteNic, AddNetwork, NicStays, hpNet, HpNodeTyped
    <2>3. HpPassTyped' /\ HpNodeTyped'
        BY <1>0, <2>1, <2>2, HpSnags DEF HpPassTyped, HpNodeTyped, HpSteps
    <2>4. NicKept'
        <3>1. CASE DetachNic
            BY <1>0, <3>1 DEF DetachNic, Step, To, hpNet, NicKept, SandboxNamed, AddNoted
        <3>2. CASE NoteNic
            BY <1>0, <3>2 DEF NoteNic, Step, To, NicKept, SandboxNamed, AddNoted
        <3>3. CASE AddNetwork
            BY <1>0, <3>3 DEF AddNetwork, Step, To, NicKept, SandboxNamed, AddNoted
        <3>4. CASE NicStays
            BY <1>0, <3>4 DEF NicStays, Step, To, hpNet, NicKept, SandboxNamed, AddNoted
        <3> QED BY <1>3, <3>1, <3>2, <3>3, <3>4
    <2>5. DiskKept'
        BY <1>0, <2>1 DEF DiskKept, DiskFollowsGuest, DiskHeld, OnBooks
    <2> QED BY <1>1, <2>3, <2>4, <2>5, HpInvIs, HpTypesNext DEF HpInv, NicKept, DiskKept, HotplugKeepsUp
<1> QED BY <1>2, <1>3

LEMMA HpDiskStep ==
    ASSUME HpInv, RemoveDisk \/ DetachDisk \/ AttachDisk \/ PlugDisk \/ GiveBackDisk \/ DiskStays
    PROVE  HpInv'
<1>0. HpBooksTyped /\ HpPassTyped /\ HpNodeTyped /\ NicKept /\ DiskKept
    BY HpInvIs, HpTypes
<1>1. HpBooksTyped' /\ UNCHANGED <<hpMem, hpIf, hpNoted>>
    BY <1>0 DEF RemoveDisk, DetachDisk, AttachDisk, PlugDisk, GiveBackDisk, DiskStays, hpBooks, hpNet, HpBooksTyped
<1>2. /\ hpAt \in {"disk", "detach disk", "plug disk", "give back"}
      /\ hpAt' \in {"detach disk", "plug disk", "give back", "record"}
    BY DEF RemoveDisk, DetachDisk, AttachDisk, PlugDisk, GiveBackDisk, DiskStays, Step, To
<1>3. NicKept'
    BY <1>0, <1>1, <1>2 DEF NicKept, SandboxNamed, AddNoted
<1>4. ASSUME hpGuest' \in Hardware, hpNow' \in Hardware, hpTold' \in {"synchronized", "refused", "waits"},
             hpSnags' \in 0..MaxSnags, hpVol' \in {"absent", "made", "attached"}, hpFresh' \in BOOLEAN,
             hpCut' \in BOOLEAN, DiskKept'
      PROVE  HpInv'
    <2>1. HpPassTyped' /\ HpNodeTyped'
        BY <1>0, <1>1, <1>2, <1>4 DEF HpPassTyped, HpNodeTyped, HpSteps
    <2> QED BY <1>1, <1>3, <1>4, <2>1, HpTypesNext DEF HpInv, NicKept, DiskKept, HotplugKeepsUp
<1> DEFINE G == [hpGuest EXCEPT !.disk = FALSE]
           N == [hpNow EXCEPT !.disk = FALSE]
<1>5. G \in Hardware /\ N \in Hardware /\ ~ G.disk /\ ~ N.disk
    BY <1>0, HardwareParts DEF HpPassTyped
<1>6. CASE RemoveDisk
    <2>1. /\ hpAt = "disk" /\ UNCHANGED <<hpNow, hpMem, hpVol, hpFresh, hpCut>> /\ (Snag \/ NoSnag)
          /\ hpTold' \in {hpTold, "refused"}
          /\ \/ hpGuest' = G /\ hpAt' \in {"detach disk", "record"}
             \/ UNCHANGED hpGuest /\ hpAt' = "record"
        BY <1>6 DEF RemoveDisk, Step, To, Told, Refused, hpStore, hpBooks, NoSnag
    <2>2. hpGuest' \in Hardware /\ (hpGuest'.disk => hpGuest.disk) /\ (hpAt' = "detach disk" => ~ hpGuest'.disk)
        BY <1>0, <1>5, <2>1 DEF HpPassTyped
    <2>3. DiskKept'
        BY <1>0, <2>1, <2>2 DEF DiskKept, DiskFollowsGuest, DiskHeld, OnBooks
    <2> QED BY <1>0, <1>4, <2>1, <2>2, <2>3, HpSnags DEF HpPassTyped, HpNodeTyped
<1>7. CASE DetachDisk
    <2>1. /\ hpAt = "detach disk" /\ hpAt' = "record" /\ UNCHANGED <<hpGuest, hpMem, hpFresh, hpCut>> /\ (Snag \/ NoSnag)
          /\ hpTold' \in {hpTold, "refused"}
          /\ \/ hpVol' = "made" /\ hpNow' = N
             \/ UNCHANGED <<hpVol, hpNow>>
        BY <1>7 DEF DetachDisk, Step, To, Told, Refused, hpBooks, NoSnag
    <2>2. hpNow' \in Hardware
        BY <1>0, <1>5, <2>1 DEF HpPassTyped
    <2>3. DiskKept'
        BY <1>0, <2>1 DEF DiskKept, DiskFollowsGuest, DiskHeld, OnBooks
    <2> QED BY <1>0, <1>4, <2>1, <2>2, <2>3, HpSnags DEF HpPassTyped, HpNodeTyped
<1>8. CASE AttachDisk
    <2>1. /\ hpAt = "disk" /\ UNCHANGED <<hpGuest, hpNow, hpMem, hpCut>> /\ (Snag \/ NoSnag) /\ ~ hpNow.disk
          /\ hpTold' \in {hpTold, "refused", "waits"}
          /\ \/ hpVol' = "attached" /\ hpFresh' = (hpVol = "absent") /\ hpAt' = "plug disk"
             \/ UNCHANGED <<hpVol, hpFresh>> /\ hpAt' = "record"
        BY <1>8 DEF AttachDisk, Step, To, Told, hpStore, hpBooks, NoSnag
    <2>2. hpFresh' \in BOOLEAN
        BY <1>0, <2>1 DEF HpNodeTyped
    <2>3. DiskKept'
        BY <1>0, <2>1 DEF DiskKept, DiskFollowsGuest, DiskHeld, OnBooks
    <2> QED BY <1>0, <1>4, <2>1, <2>2, <2>3, HpSnags DEF HpPassTyped, HpNodeTyped
<1>9. CASE PlugDisk
    <2>1. hpAt = "plug disk" /\ UNCHANGED <<hpMem, hpVol, hpFresh>>
        BY <1>9 DEF PlugDisk, Step, hpStore, hpBooks
    <2>2. CASE ~ hpGuest.disk /\ Verb(With("disk", TRUE)) /\ To(IF hpNow'.disk THEN "record" ELSE "give back")
        <3>1. /\ hpGuest' \in Hardware /\ hpNow' \in Hardware /\ hpCut' \in BOOLEAN
              /\ hpTold' \in {"synchronized", "refused", "waits"} /\ hpSnags' \in 0..MaxSnags /\ (hpCut => hpCut')
              /\ \/ hpGuest'.disk = TRUE /\ hpNow'.disk = TRUE
                 \/ hpGuest'.disk = hpGuest.disk /\ hpNow'.disk = hpNow.disk
                 \/ hpCut' /\ hpNow'.disk = hpNow.disk
            BY <2>2, VerbDoes
        <3>2. /\ hpAt' \in {"record", "give back"} /\ (hpAt' = "give back" <=> ~ hpNow'.disk)
            BY <2>2 DEF To
        <3>3. DiskKept'
            BY <1>0, <2>1, <2>2, <3>1, <3>2 DEF DiskKept, DiskFollowsGuest, DiskHeld, OnBooks
        <3> QED BY <1>0, <1>4, <2>1, <3>1, <3>3 DEF HpNodeTyped
    <2>3. CASE hpGuest.disk /\ UNCHANGED <<hpGuest, hpNow, hpCut, hpSnags>> /\ Refused /\ To("give back")
        <3>1. DiskKept'
            BY <1>0, <2>1, <2>3 DEF DiskKept, DiskFollowsGuest, DiskHeld, OnBooks, To
        <3> QED BY <1>0, <1>4, <2>1, <2>3, <3>1 DEF HpPassTyped, HpNodeTyped, Refused
    <2> QED BY <1>9, <2>2, <2>3 DEF PlugDisk
<1>10. CASE GiveBackDisk
    <2>1. /\ hpAt = "give back" /\ hpAt' = "record" /\ UNCHANGED <<hpGuest, hpNow, hpMem, hpCut, hpTold, hpSnags>>
          /\ hpVol' \in {"absent", "made"} /\ hpFresh' = FALSE
        BY <1>10 DEF GiveBackDisk, Step, To, hpBooks
    <2>2. DiskKept'
        BY <1>0, <2>1 DEF DiskKept, DiskFollowsGuest, DiskHeld, OnBooks
    <2> QED BY <1>0, <1>4, <2>1, <2>2 DEF HpPassTyped
<1>11. CASE DiskStays
    <2>1. hpAt = "disk" /\ hpAt' = "record" /\ UNCHANGED <<hpGuest, hpNow, hpMem, hpCut, hpTold, hpSnags, hpVol, hpFresh>>
        BY <1>11 DEF DiskStays, Step, To, hpBooks, hpStore
    <2>2. DiskKept'
        BY <1>0, <2>1 DEF DiskKept, DiskFollowsGuest, DiskHeld, OnBooks
    <2> QED BY <1>0, <1>4, <2>1, <2>2 DEF HpPassTyped, HpNodeTyped
<1> QED BY <1>6, <1>7, <1>8, <1>9, <1>10, <1>11

LEMMA HpBooksStep ==
    ASSUME HpInv, Begin \/ RecordDisks \/ SaveRecord \/ Finish \/ SpecChanges
    PROVE  HpInv'
<1>0. HpBooksTyped /\ HpPassTyped /\ HpNodeTyped /\ NicKept /\ DiskKept
    BY HpInvIs, HpTypes
<1>1. /\ hpAt' \in {"cpus", "save", "done", "idle"} /\ hpAt \in {"idle", "record", "save", "done"}
      /\ (hpAt' = "idle" => hpMem'.disk = OnBooks) /\ (hpAt' # "idle" => hpNow'.disk = OnBooks)
      /\ UNCHANGED <<hpGuest, hpIf, hpNoted, hpVol, hpCut>>
    BY DEF Begin, RecordDisks, SaveRecord, Finish, SpecChanges, Step, To, hpBooks, hpNet, hpStore, OnBooks
<1>2. hpNow' \in Hardware /\ hpTold' \in {"synchronized", "refused", "waits"} /\ hpFresh' \in BOOLEAN /\ hpMem' \in Hardware
    BY <1>0 DEF Begin, RecordDisks, SaveRecord, Finish, SpecChanges, hpBooks, hpStore, HpBooksTyped, HpPassTyped, HpNodeTyped
<1>3. hpSnags' \in 0..MaxSnags
    <2>1. Snag \/ NoSnag
        BY DEF Begin, RecordDisks, SaveRecord, Finish, SpecChanges, NoSnag
    <2> QED BY <2>1, HpSnags
<1>4. hpDisk' \in Hardware
    <2>1. hpDisk' \in {hpDisk, [hpDisk EXCEPT !.disk = hpNow.disk], [hpNow EXCEPT !.disk = hpDisk.disk]}
        BY DEF Begin, RecordDisks, SaveRecord, Finish, SpecChanges, hpBooks
    <2> QED BY <1>0, <2>1, HardwareParts DEF HpBooksTyped, HpPassTyped
<1>5. hpSeen' \in 0..MaxSpecs
    <2>1. hpSpec.gen \in 0..MaxSpecs
        <3>1. hpSpec.gen \in 1..MaxSpecs
            BY <1>0 DEF HpBooksTyped
        <3> QED BY <3>1, VmHotplugAssumption
    <2> QED BY <1>0, <2>1 DEF Begin, RecordDisks, SaveRecord, Finish, SpecChanges, hpBooks, HpBooksTyped
<1>6. hpSpec' \in [gen : 1..MaxSpecs, want : Hardware]
    <2>1. CASE SpecChanges
        <3>1. PICK w \in Hardware : hpSpec' = [gen |-> hpSpec.gen + 1, want |-> w]
            BY <2>1 DEF SpecChanges
        <3>2. hpSpec.gen \in 1..MaxSpecs /\ hpSpec.gen < MaxSpecs
            BY <1>0, <2>1 DEF HpBooksTyped, SpecChanges
        <3>3. hpSpec.gen + 1 \in 1..MaxSpecs
            BY <3>2, VmHotplugAssumption
        <3> QED BY <3>1, <3>3
    <2>2. CASE ~ SpecChanges
        BY <1>0, <2>2 DEF Begin, RecordDisks, SaveRecord, Finish, hpBooks, HpBooksTyped
    <2> QED BY <2>1, <2>2
<1>7. HpBooksTyped' /\ HpPassTyped' /\ HpNodeTyped'
    BY <1>0, <1>1, <1>2, <1>3, <1>4, <1>5, <1>6 DEF HpBooksTyped, HpPassTyped, HpNodeTyped, HpSteps
<1>8. NicKept'
    BY <1>0, <1>1 DEF NicKept, SandboxNamed, AddNoted
<1>9. DiskKept'
    BY <1>0, <1>1 DEF DiskKept, DiskFollowsGuest, DiskHeld, OnBooks
<1> QED BY <1>7, <1>8, <1>9, HpTypesNext DEF HpInv, NicKept, DiskKept, HotplugKeepsUp

LEMMA HpEndsStep ==
    ASSUME HpInv, HpDies \/ Stops \/ UNCHANGED hpVars
    PROVE  HpInv'
<1>0. HpBooksTyped /\ HpPassTyped /\ HpNodeTyped /\ NicKept /\ DiskKept
    BY HpInvIs, HpTypes
<1>1. CASE HpDies
    <2>1. /\ hpAt' = "idle" /\ hpMem' = hpDisk /\ UNCHANGED <<hpSpec, hpDisk, hpGuest, hpNow, hpTold, hpIf, hpNoted, hpVol>>
          /\ hpSeen' = 0 /\ hpFresh' = FALSE
          /\ hpCut' = (hpCut \/ hpGuest.disk # hpDisk.disk \/ (~hpDisk.disk /\ hpVol = "attached"))
        BY <1>1 DEF HpDies, To, hpNet
    <2>2. hpSnags' \in 0..MaxSnags /\ 0 \in 0..MaxSpecs
        BY <1>1, HpSnags, VmHotplugAssumption DEF HpDies
    <2>3. HpBooksTyped' /\ HpNodeTyped'
        BY <1>0, <2>1, <2>2 DEF HpBooksTyped, HpNodeTyped
    <2>4. HpPassTyped'
        BY <1>0, <2>1, <2>2 DEF HpPassTyped, HpSteps
    <2>5. NicKept'
        BY <1>0, <2>1 DEF NicKept, SandboxNamed, AddNoted
    <2>6. DiskKept'
        <3>1. hpAt # "stopped"
            BY <1>1 DEF HpDies
        <3> QED BY <1>0, <2>1, <3>1 DEF DiskKept, DiskFollowsGuest, DiskHeld, OnBooks
    <2> QED BY <2>3, <2>4, <2>5, <2>6, HpTypesNext DEF HpInv, NicKept, DiskKept, HotplugKeepsUp
<1>2. CASE Stops
    <2>1. /\ hpAt = "idle" /\ hpAt' = "stopped" /\ hpGuest' = AtBoot /\ hpIf' = (hpIf /\ ~hpNoted) /\ hpNoted' = FALSE
          /\ hpVol' = (IF hpMem.disk /\ hpVol = "attached" THEN "made" ELSE hpVol)
          /\ UNCHANGED <<hpSpec, hpSeen, hpMem, hpDisk, hpNow, hpTold, hpFresh, hpCut, hpSnags>>
        BY <1>2 DEF Stops, Step, To, hpBooks
    <2>2. AtBoot \in Hardware /\ ~ AtBoot.disk
        BY HardwareParts
    <2>3. HpBooksTyped' /\ HpPassTyped' /\ HpNodeTyped'
        BY <1>0, <2>1, <2>2 DEF HpBooksTyped, HpPassTyped, HpNodeTyped, HpSteps
    <2>4. NicKept'
        BY <1>0, <2>1 DEF NicKept, SandboxNamed, AddNoted
    <2>5. DiskKept'
        BY <1>0, <2>1, <2>2 DEF DiskKept, DiskFollowsGuest, DiskHeld, OnBooks
    <2> QED BY <2>3, <2>4, <2>5, HpTypesNext DEF HpInv, NicKept, DiskKept, HotplugKeepsUp
<1>3. CASE UNCHANGED hpVars
    <2>1. HpBooksTyped' /\ HpPassTyped' /\ HpNodeTyped'
        BY <1>0, <1>3 DEF hpVars, HpBooksTyped, HpPassTyped, HpNodeTyped
    <2>2. NicKept' /\ DiskKept'
        BY <1>0, <1>3 DEF hpVars, NicKept, SandboxNamed, AddNoted, DiskKept, DiskFollowsGuest, DiskHeld, OnBooks
    <2> QED BY <2>1, <2>2, HpTypesNext DEF HpInv, NicKept, DiskKept, HotplugKeepsUp
<1> QED BY <1>1, <1>2, <1>3

LEMMA HpInvStep == HpInv /\ [HpNext]_hpVars => HpInv'
BY HpNicStep, HpDiskStep, HpBooksStep, HpEndsStep DEF HpNext, HotplugPass

\* The types of the spec, the machine, its records and the pass.
THEOREM HotplugTypeCorrect == HpSpec => []HpTypeOK
<1>1. HpInv => HpTypeOK
    BY DEF HpInv
<1> QED BY <1>1, HpInvInit, HpInvStep, PTL DEF HpSpec

\* Nothing is left in the sandbox that no record names, and the guest's disk and
\* the volume's attachment follow one another, whatever is refused or fails and
\* whenever the kubelet dies.
THEOREM HotplugKeepsUpHolds == HpSpec => []HotplugKeepsUp
<1>1. HpInv => HotplugKeepsUp
    BY DEF HpInv
<1> QED BY <1>1, HpInvInit, HpInvStep, PTL DEF HpSpec

-----------------------------------------------------------------------------
(* A snapshot (VmSnapshot). *)

\* A listing whose version would be accepted is the object as it is now.
MatchIsNow == \A n \in Holders : snSeen[n].match => snSeen[n].at # "none" /\ snSeen[n].obj = snObj

\* A listing that names an owner names the object's: it is claimed once.
OwnerStays ==
    \A n \in Holders : snSeen[n].at # "none" /\ snSeen[n].obj.owner # "nobody" => snSeen[n].obj.owner = snObj.owner

\* The owner alone takes it, has its group, and is named by its content.
OwnersOnly ==
    /\ snObj.content \in {"nobody", snObj.owner}
    /\ \A n \in Holders : Taking(n) \/ n \in snGroup => snObj.owner = n

\* Who is about to take the finalizer off takes nothing and has deleted the content.
ReleasedFirst ==
    \A n \in Holders : snSeen[n].at = "released" =>
        /\ ~ Taking(n) /\ snSeen[n].obj.owner = n /\ snSeen[n].obj.is = "deleted"
        /\ ~ snKeep => snSeen[n].obj.content \notin snGroup

\* Of an object that is gone there is no take, and no listing that could begin one.
GoneQuiet ==
    snObj.is = "gone" => \A n \in Holders :
        ~ Taking(n) /\ (snSeen[n].at # "none" => snSeen[n].obj.owner # n /\ ~ snSeen[n].match)

SnSafe == MatchIsNow /\ OwnerStays /\ OwnersOnly /\ ReleasedFirst /\ GoneQuiet /\ ContentGoesFirst
SnInv == SnTypeOK /\ SnSafe

SnListing == [obj : Object, match : BOOLEAN, at : {"none", "listed", "released"}]
SnStages == {"idle", "begun", "taking", "taken", "left paused", "not taken"}

LEMMA SnOneTaker == SnInv => OneTaker
<1> SUFFICES ASSUME SnInv PROVE OneTaker
    OBVIOUS
<1>1. snGroup \subseteq {snObj.owner} /\ {n \in Holders : Taking(n)} \subseteq {snObj.owner}
    BY DEF SnInv, SnSafe, OwnersOnly, SnTypeOK
<1>2. IsFiniteSet({snObj.owner}) /\ Cardinality({snObj.owner}) = 1
    BY FS_Singleton
<1>3. \A S : S \subseteq {snObj.owner} => Cardinality(S) <= 1
    BY <1>2, FS_Subset
<1> QED BY <1>1, <1>3 DEF OneTaker

\* The object is written: no listing matches, and those `out` are over.
Rewritten(o, out) ==
    /\ snObj' = o /\ o \in Object /\ snSeen' \in [Holders -> SnListing]
    /\ \A m \in Holders : /\ ~ snSeen'[m].match
                          /\ snSeen'[m].at = IF m \in out THEN "none" ELSE snSeen[m].at
                          /\ snSeen'[m].at # "none" => snSeen'[m].obj = snSeen[m].obj

\* The object is not written, and node n's listing becomes l.
Reseen(n, l) ==
    /\ snObj' = snObj /\ snSeen' \in [Holders -> SnListing]
    /\ \A m \in Holders : snSeen'[m] = IF m = n THEN l ELSE snSeen[m]

LEMMA SnListings ==
    /\ SnTypeOK => snSeen \in [Holders -> SnListing]
    /\ Nothing \in SnListing /\ Nothing.at = "none" /\ ~ Nothing.match
    /\ \A l \in SnListing : /\ [l EXCEPT !.match = FALSE] \in SnListing
                            /\ ~ [l EXCEPT !.match = FALSE].match
                            /\ [l EXCEPT !.match = FALSE].at = l.at /\ [l EXCEPT !.match = FALSE].obj = l.obj
<1>1. Nothing \in SnListing /\ Nothing.at = "none" /\ ~ Nothing.match
    BY DEF SnListing, Nothing, NewObject, Object, Phases
<1>2. SnTypeOK => snSeen \in [Holders -> SnListing]
    BY DEF SnTypeOK, SnListing
<1>3. \A l \in SnListing : /\ [l EXCEPT !.match = FALSE] \in SnListing
                           /\ ~ [l EXCEPT !.match = FALSE].match
                           /\ [l EXCEPT !.match = FALSE].at = l.at /\ [l EXCEPT !.match = FALSE].obj = l.obj
    BY DEF SnListing
<1> QED BY <1>1, <1>2, <1>3

LEMMA SnWrites ==
    ASSUME SnTypeOK, NEW o \in Object, NEW n \in Holders, WritesObject(o, Seen(n, Nothing))
    PROVE  Rewritten(o, {n})
<1>1. snObj' = o /\ snSeen' = [m \in Holders |-> [Seen(n, Nothing)[m] EXCEPT !.match = FALSE]]
    BY DEF WritesObject
<1>2. /\ \A m \in Holders : Seen(n, Nothing)[m] = IF m = n THEN Nothing ELSE snSeen[m]
      /\ Seen(n, Nothing) \in [Holders -> SnListing]
    BY SnListings DEF Seen
<1>3. snSeen' \in [Holders -> SnListing]
    BY <1>1, <1>2, SnListings
<1>4. \A m \in Holders : snSeen'[m] = [Seen(n, Nothing)[m] EXCEPT !.match = FALSE] /\ Seen(n, Nothing)[m] \in SnListing
    BY <1>1, <1>2
<1> QED BY ZenonT(60), <1>1, <1>2, <1>3, <1>4, SnListings DEF Rewritten

LEMMA SnWritesAll ==
    ASSUME SnTypeOK, NEW o \in Object, WritesObject(o, snSeen)
    PROVE  Rewritten(o, {})
<1>1. snObj' = o /\ snSeen' = [m \in Holders |-> [snSeen[m] EXCEPT !.match = FALSE]]
    BY DEF WritesObject
<1>2. \A m \in Holders : snSeen'[m] = [snSeen[m] EXCEPT !.match = FALSE] /\ snSeen[m] \in SnListing
    BY <1>1, SnListings
<1>3. snSeen' \in [Holders -> SnListing]
    BY <1>1, <1>2, SnListings
<1> QED BY <1>1, <1>2, <1>3, SnListings DEF Rewritten

LEMMA SnLooks ==
    ASSUME SnTypeOK, NEW n \in Holders, NEW l \in SnListing, snSeen' = Seen(n, l), UNCHANGED snObj
    PROVE  Reseen(n, l)
<1>1. snSeen \in [Holders -> SnListing]
    BY DEF SnTypeOK, SnListing
<1> QED BY <1>1 DEF Reseen, Seen

LEMMA SnLeaving ==
    ASSUME SnTypeOK, NEW n \in Holders, Leaves(n)
    PROVE  Reseen(n, Nothing)
BY SnListings, SnLooks DEF Leaves

\* Node n's take goes to s, the others stay.
TakeAt(n, s) ==
    /\ snTake' \in [Holders -> SnStages]
    /\ \A m \in Holders : snTake'[m] = IF m = n THEN s ELSE snTake[m]

SnBounded == snHops \in 0..MaxHops /\ snLate \in 0..MaxLate /\ snMishaps \in 0..MaxSlips

LEMMA SnTypesNext ==
    SnTypeOK' <=> /\ (snObj \in Object)' /\ (snKeep \in BOOLEAN /\ snOver \in BOOLEAN)' /\ (snReg \subseteq Holders)'
                  /\ (snGroup \subseteq Holders)' /\ (snTake \in [Holders -> SnStages])'
                  /\ (snSeen \in [Holders -> SnListing])' /\ SnBounded'
BY DEF SnTypeOK, SnStages, SnListing, SnBounded

LEMMA SnTypes ==
    SnTypeOK <=> /\ snObj \in Object /\ snKeep \in BOOLEAN /\ snOver \in BOOLEAN /\ snReg \subseteq Holders
                 /\ snGroup \subseteq Holders /\ snTake \in [Holders -> SnStages]
                 /\ snSeen \in [Holders -> SnListing] /\ SnBounded
BY DEF SnTypeOK, SnStages, SnListing, SnBounded

LEMMA SnSlips == SnTypeOK /\ (Slip \/ NoSlip) => SnBounded'
<1> SUFFICES ASSUME SnTypeOK, Slip \/ NoSlip PROVE SnBounded'
    OBVIOUS
<1>1. SnBounded /\ MaxSlips \in Nat
    BY VmSnapshotAssumption, SnTypes
<1>2. CASE Slip
    <2>1. snMishaps' \in 0..MaxSlips
        BY <1>1, <1>2 DEF Slip, SnBounded
    <2> QED BY <1>1, <1>2, <2>1 DEF Slip, SnBounded
<1>3. CASE NoSlip
    BY <1>1, <1>3 DEF NoSlip, snBounds, SnBounded
<1> QED BY <1>2, <1>3

LEMMA SnTakes ==
    ASSUME SnTypeOK, NEW n \in Holders, NEW s \in SnStages, Takes(n, s)
    PROVE  TakeAt(n, s)
BY SnTypes DEF Takes, TakeAt

\* What a pass knows of the object it acts on, now or from its listing.
SnView(n, o, match) ==
    /\ o \in Object /\ match \in BOOLEAN /\ (match => o = snObj) /\ snSeen[n].at # "released"
    /\ o.owner # "nobody" => o.owner = snObj.owner
    /\ snObj.is = "gone" => o.owner # n /\ ~ match

LEMMA SnViews ==
    ASSUME SnInv, NEW n \in Holders
    PROVE  /\ SnPass(n) => SnView(n, snObj, TRUE)
           /\ SnReach(n) => SnView(n, snSeen[n].obj, snSeen[n].match)
<1>1. snSeen \in [Holders -> SnListing] /\ snObj \in Object /\ SnSafe
    BY SnTypes DEF SnInv
<1>2. SnPass(n) => SnView(n, snObj, TRUE)
    BY <1>1 DEF SnPass, SnView
<1>3. snSeen[n].obj \in Object /\ snSeen[n].match \in BOOLEAN
    BY <1>1 DEF SnListing
<1>4. SnReach(n) => SnView(n, snSeen[n].obj, snSeen[n].match)
    BY <1>1, <1>3 DEF SnReach, SnView, SnSafe, MatchIsNow, OwnerStays, GoneQuiet
<1> QED BY <1>2, <1>4

\* A pass that leaves the object be: it is skipped, or taken up again by its owner.
LEMMA SnLooksOn ==
    ASSUME SnInv, NEW n \in Holders, NEW l \in SnListing, Reseen(n, l), UNCHANGED snKeep,
           l.match => l.at # "none" /\ l.obj = snObj,
           l.at # "none" /\ l.obj.owner # "nobody" => l.obj.owner = snObj.owner,
           snGroup' \subseteq snGroup,
           UNCHANGED snTake \/ (\E s \in SnStages : TakeAt(n, s) /\ snObj.owner = n /\ snObj.is # "gone" /\ l.at = "none"),
           l.at = "released" => /\ ~ Taking(n) /\ l.obj.owner = n /\ l.obj.is = "deleted"
                                /\ ~ snKeep => l.obj.content \notin snGroup',
           snObj.is = "gone" => l.at = "none" /\ ~ l.match
    PROVE  SnSafe'
<1>1. SnSafe /\ snObj' = snObj
    BY DEF SnInv, Reseen
<1>2. \A m \in Holders : snSeen'[m] = IF m = n THEN l ELSE snSeen[m]
    BY DEF Reseen
<1>3. \A m \in Holders : Taking(m)' => Taking(m) \/ (m = n /\ snObj.owner = n /\ snObj.is # "gone" /\ l.at = "none")
    BY DEF Taking, TakeAt
<1>4. MatchIsNow' /\ OwnerStays'
    BY <1>1, <1>2 DEF SnSafe, MatchIsNow, OwnerStays
<1>5. OwnersOnly'
    BY <1>1, <1>3 DEF SnSafe, OwnersOnly
<1>6. ReleasedFirst'
    BY <1>1, <1>2, <1>3 DEF SnSafe, ReleasedFirst
<1>7. GoneQuiet' /\ ContentGoesFirst'
    BY <1>1, <1>2, <1>3 DEF SnSafe, GoneQuiet, ContentGoesFirst
<1> QED BY <1>4, <1>5, <1>6, <1>7 DEF SnSafe

\* A write that leaves the object whose it is: its phase, its content, its deletion.
LEMMA SnWritesOn ==
    ASSUME SnInv, NEW o \in Object, NEW out \in SUBSET Holders, Rewritten(o, out), UNCHANGED <<snKeep, snGroup>>,
           o.owner = snObj.owner, o.content \in {snObj.content, o.owner},
           o.is = "gone" => snObj.is = "gone",
           snObj.is = "gone" => o.content = snObj.content,
           \A m \in Holders : Taking(m)' => Taking(m)
    PROVE  SnSafe'
<1>1. SnSafe /\ snObj' = o
    BY DEF SnInv, Rewritten
<1>2. \A m \in Holders : /\ ~ snSeen'[m].match
                         /\ snSeen'[m].at # "none" => snSeen'[m].at = snSeen[m].at /\ snSeen'[m].obj = snSeen[m].obj
    BY DEF Rewritten
<1>4. MatchIsNow' /\ OwnerStays'
    BY <1>1, <1>2 DEF SnSafe, MatchIsNow, OwnerStays
<1>5. OwnersOnly'
    BY <1>1 DEF SnSafe, OwnersOnly
<1>6. ReleasedFirst'
    BY <1>1, <1>2 DEF SnSafe, ReleasedFirst
<1>7. GoneQuiet' /\ ContentGoesFirst'
    BY <1>1, <1>2 DEF SnSafe, GoneQuiet, ContentGoesFirst
<1> QED BY <1>4, <1>5, <1>6, <1>7 DEF SnSafe

LEMMA SnActs ==
    ASSUME SnInv, NEW n \in Holders, NEW o, NEW match, SnView(n, o, match), ActsOn(n, o, match)
    PROVE  SnInv'
<1>1. /\ SnTypeOK /\ SnSafe /\ snObj \in Object /\ o \in Object /\ snTake \in [Holders -> SnStages]
      /\ snSeen \in [Holders -> SnListing] /\ snGroup \subseteq Holders /\ "nobody" \notin Holders
    BY SnTypes, VmSnapshotAssumption DEF SnInv, SnView
<1>2. UNCHANGED <<snKeep, snOver, snReg>> /\ (Slip \/ NoSlip)
    BY DEF ActsOn, PassSkips, PassFails, PassClaims, PassResumes, PassReleases, snWorld
<1>3. ASSUME (snObj \in Object)', (snGroup \subseteq Holders)', (snTake \in [Holders -> SnStages])',
             (snSeen \in [Holders -> SnListing])', SnSafe'
      PROVE  SnInv'
    BY <1>1, <1>2, <1>3, SnTypes, SnTypesNext, SnSlips DEF SnInv
<1>4. ASSUME Leaves(n), UNCHANGED <<snGroup, snTake>> PROVE SnInv'
    <2>1. Reseen(n, Nothing)
        BY <1>1, <1>4, SnLeaving
    <2>2. SnSafe'
        BY <1>2, <1>4, <2>1, SnListings, SnLooksOn
    <2> QED BY <1>1, <1>3, <1>4, <2>1, <2>2 DEF Reseen
<1>5. CASE PassSkips(n, o)
    BY <1>4, <1>5 DEF PassSkips
<1>6. CASE PassFails(n, o)
    <2>1. CASE snObj.is # "gone" /\ WritesObject([snObj EXCEPT !.phase = "Failed"], Seen(n, Nothing))
        <3>1. PICK w \in Object : /\ WritesObject(w, Seen(n, Nothing)) /\ w.is = snObj.is /\ w.owner = snObj.owner
                                  /\ w.content = snObj.content
            <4> DEFINE w == [snObj EXCEPT !.phase = "Failed"]
            <4>1. w \in Object /\ w.is = snObj.is /\ w.owner = snObj.owner /\ w.content = snObj.content
                BY <1>1 DEF Object, Phases
            <4> QED BY <2>1, <4>1
        <3>2. Rewritten(w, {n}) /\ UNCHANGED <<snGroup, snTake>>
            BY <1>1, <1>6, <3>1, SnWrites DEF PassFails
        <3>3. SnSafe'
            BY <1>2, <3>1, <3>2, SnWritesOn DEF Taking
        <3> QED BY <1>1, <1>3, <3>2, <3>3 DEF Rewritten
    <2> QED BY <1>4, <1>6, <2>1 DEF PassFails
<1>7. CASE PassClaims(n, o, match)
    <2>1. CASE match /\ WritesObject([snObj EXCEPT !.owner = n], Seen(n, Nothing)) /\ (Takes(n, "begun") \/ UNCHANGED snTake)
        <3>1. /\ o = snObj /\ snObj.owner = "nobody" /\ snObj.is = "there" /\ UNCHANGED snGroup
            BY <1>7, <2>1 DEF PassClaims, Wanted, SnView
        <3>2. PICK w \in Object : /\ WritesObject(w, Seen(n, Nothing)) /\ w.is = "there" /\ w.owner = n
                                  /\ w.content = snObj.content
            <4> DEFINE w == [snObj EXCEPT !.owner = n]
            <4>1. w \in Object /\ w.is = snObj.is /\ w.owner = n /\ w.content = snObj.content
                BY <1>1 DEF Object
            <4> QED BY <2>1, <3>1, <4>1
        <3>3. Rewritten(w, {n})
            BY <1>1, <3>2, SnWrites
        <3>4. snTake' \in [Holders -> SnStages] /\ \A m \in Holders : Taking(m)' => Taking(m) \/ m = n
            <4>1. CASE Takes(n, "begun")
                <5>1. TakeAt(n, "begun")
                    BY <1>1, <4>1, SnTakes DEF SnStages
                <5> QED BY <5>1 DEF TakeAt, Taking
            <4> QED BY <1>1, <2>1, <4>1 DEF Taking
        <3>5. /\ \A m \in Holders : ~ Taking(m) /\ m \notin snGroup
              /\ \A m \in Holders : snSeen[m].at # "released"
              /\ \A m \in Holders : snSeen[m].at # "none" => snSeen[m].obj.owner = "nobody"
              /\ snObj.content = "nobody"
            BY <1>1, <3>1 DEF SnSafe, OwnersOnly, OwnerStays, ReleasedFirst
        <3>6. MatchIsNow' /\ OwnerStays' /\ ReleasedFirst'
            BY <3>3, <3>5 DEF Rewritten, MatchIsNow, OwnerStays, ReleasedFirst
        <3>7. OwnersOnly' /\ GoneQuiet' /\ ContentGoesFirst'
            BY <3>1, <3>2, <3>3, <3>4, <3>5 DEF Rewritten, OwnersOnly, GoneQuiet, ContentGoesFirst
        <3> QED BY <1>1, <1>3, <3>1, <3>3, <3>4, <3>6, <3>7 DEF Rewritten, SnSafe
    <2>2. CASE Leaves(n) /\ UNCHANGED snTake
        BY <1>4, <1>7, <2>2 DEF PassClaims
    <2> QED BY <1>7, <2>1, <2>2 DEF PassClaims
<1>8. CASE PassResumes(n, o)
    <2>1. Reseen(n, Nothing) /\ TakeAt(n, "begun") /\ UNCHANGED snGroup
        BY <1>1, <1>8, SnLeaving, SnTakes DEF PassResumes, SnStages
    <2>2. snObj.owner = n /\ snObj.is # "gone"
        BY <1>1, <1>8 DEF PassResumes, SnView
    <2>3. SnSafe'
        BY <1>2, <2>1, <2>2, SnListings, SnLooksOn DEF SnStages
    <2> QED BY <1>1, <1>3, <2>1, <2>3 DEF Reseen, TakeAt
<1>9. CASE PassReleases(n, o, match)
    <2>1. o.is = "deleted" /\ o.owner = n /\ ~ Taking(n) /\ UNCHANGED <<snObj, snTake>> /\ snGroup' \subseteq snGroup
        BY <1>9 DEF PassReleases, Holds
    <2>2. CASE snSeen' = Seen(n, Nothing)
        <3>1. Reseen(n, Nothing)
            BY <1>1, <2>1, <2>2, SnListings, SnLooks
        <3>2. SnSafe'
            BY <1>2, <2>1, <3>1, SnListings, SnLooksOn
        <3> QED BY <1>1, <1>3, <2>1, <3>1, <3>2 DEF Reseen
    <2>3. CASE snSeen' = Seen(n, [obj |-> o, match |-> match, at |-> "released"])
                 /\ snGroup' = (IF snKeep THEN snGroup ELSE snGroup \ {o.content})
        <3>1. PICK l \in SnListing : l = [obj |-> o, match |-> match, at |-> "released"]
            BY <1>1 DEF SnView, SnListing
        <3>2. Reseen(n, l)
            BY <1>1, <2>1, <2>3, <3>1, SnLooks
        <3>3. snObj.is # "gone" /\ o.owner = snObj.owner /\ (match => o = snObj)
            BY <1>1, <2>1 DEF SnView
        <3>4. l.obj = o /\ (l.match => match) /\ l.at = "released"
            BY <3>1
        <3>5. ~ snKeep => l.obj.content \notin snGroup'
            BY <2>3, <3>4
        <3>6. SnSafe'
            BY <1>2, <2>1, <3>2, <3>3, <3>4, <3>5, SnLooksOn
        <3> QED BY <1>1, <1>3, <2>1, <3>2, <3>6 DEF Reseen
    <2> QED BY <1>9, <2>2, <2>3 DEF PassReleases
<1> QED BY <1>5, <1>6, <1>7, <1>8, <1>9 DEF ActsOn

LEMMA SnTaking ==
    ASSUME SnInv, NEW n \in Holders, SnBegin(n) \/ SnCut(n) \/ SnFinish(n)
    PROVE  SnInv'
<1>1. /\ SnTypeOK /\ SnSafe /\ snObj \in Object /\ snTake \in [Holders -> SnStages]
      /\ snSeen \in [Holders -> SnListing] /\ snGroup \subseteq Holders /\ "nobody" \notin Holders
    BY SnTypes, VmSnapshotAssumption DEF SnInv
<1>2. UNCHANGED <<snKeep, snOver, snReg>> /\ (Slip \/ NoSlip)
    BY DEF SnBegin, SnCut, SnFinish, snWorld
<1>3. ASSUME (snObj \in Object)', (snGroup \subseteq Holders)', (snTake \in [Holders -> SnStages])',
             (snSeen \in [Holders -> SnListing])', SnSafe'
      PROVE  SnInv'
    BY <1>1, <1>2, <1>3, SnTypes, SnTypesNext, SnSlips DEF SnInv
<1>4. Taking(n) /\ snObj.owner = n /\ snObj.is # "gone" /\ snSeen[n].at # "released"
    <2>1. Taking(n)
        BY DEF SnBegin, SnCut, SnFinish, Taking
    <2> QED BY <1>1, <2>1 DEF SnSafe, OwnersOnly, GoneQuiet, ReleasedFirst
<1>5. \E s \in SnStages : TakeAt(n, s)
    <2>1. \E s \in SnStages : Takes(n, s)
        BY DEF SnBegin, SnCut, SnFinish, SnStages
    <2> QED BY <1>1, <2>1, SnTakes
<1>6. snTake' \in [Holders -> SnStages] /\ \A m \in Holders : Taking(m)' => Taking(m)
    BY <1>4, <1>5 DEF TakeAt, Taking
<1>7. ASSUME UNCHANGED <<snObj, snSeen>>, snGroup' \subseteq snGroup \cup {n} PROVE SnInv'
    <2>1. MatchIsNow' /\ OwnerStays'
        BY <1>1, <1>7 DEF SnSafe, MatchIsNow, OwnerStays
    <2>2. OwnersOnly' /\ GoneQuiet' /\ ContentGoesFirst'
        BY <1>1, <1>4, <1>6, <1>7 DEF SnSafe, OwnersOnly, GoneQuiet, ContentGoesFirst
    <2>3. ASSUME NEW m \in Holders, snSeen[m].at = "released" PROVE m # n /\ snObj.owner = m
        BY <1>1, <1>4, <2>3 DEF SnSafe, ReleasedFirst, OwnerStays
    <2>4. ReleasedFirst'
        BY <1>1, <1>4, <1>7, <2>3 DEF SnSafe, ReleasedFirst
    <2> QED BY <1>1, <1>3, <1>6, <1>7, <2>1, <2>2, <2>4 DEF SnSafe
<1>8. ASSUME NEW w \in Object, WritesObject(w, snSeen), w.is = snObj.is, w.owner = snObj.owner,
             w.content \in {snObj.content, n}, UNCHANGED snGroup
      PROVE  SnInv'
    <2>1. Rewritten(w, {})
        BY <1>1, <1>8, SnWritesAll
    <2>2. SnSafe'
        BY <1>2, <1>4, <1>6, <1>8, <2>1, SnWritesOn
    <2> QED BY <1>1, <1>3, <1>6, <1>8, <2>1, <2>2 DEF Rewritten
<1>9. CASE SnBegin(n)
    <2>1. CASE WritesObject([snObj EXCEPT !.phase = "InProgress"], snSeen)
        <3> DEFINE w == [snObj EXCEPT !.phase = "InProgress"]
        <3>1. w \in Object /\ w.is = snObj.is /\ w.owner = snObj.owner /\ w.content = snObj.content
            BY <1>1 DEF Object, Phases
        <3>2. UNCHANGED snGroup
            BY <1>9 DEF SnBegin
        <3> QED BY <1>8, <2>1, <3>1, <3>2
    <2> QED BY <1>7, <1>9, <2>1 DEF SnBegin
<1>10. CASE SnCut(n)
    BY <1>7, <1>10 DEF SnCut
<1>11. CASE SnFinish(n)
    <2>1. CASE WritesObject(TakeOutcome(n), snSeen)
        <3> DEFINE w == TakeOutcome(n)
        <3>1. w \in Object /\ w.is = snObj.is /\ w.owner = snObj.owner /\ w.content \in {snObj.content, n}
            BY <1>1 DEF Object, Phases, TakeOutcome
        <3>2. UNCHANGED snGroup
            BY <1>11 DEF SnFinish
        <3> HIDE DEF w
        <3> QED BY <1>8, <2>1, <3>1, <3>2 DEF w
    <2> QED BY <1>7, <1>11, <2>1 DEF SnFinish
<1> QED BY <1>9, <1>10, <1>11

LEMMA SnInvInit == SnInit => SnInv
<1> SUFFICES ASSUME SnInit PROVE SnInv
    OBVIOUS
<1>1. /\ NewObject \in Object /\ NewObject.content = "nobody" /\ NewObject.is = "there"
      /\ Nothing \in SnListing /\ Nothing.at = "none" /\ ~ Nothing.match
    BY SnListings DEF Object, NewObject, Phases
<1>2. SnBounded
    BY VmSnapshotAssumption DEF SnInit, SnBounded
<1>3. SnTypeOK
    BY <1>1, <1>2, SnTypes DEF SnInit, SnStages
<1>4. \A n \in Holders : ~ Taking(n) /\ snSeen[n] = Nothing /\ n \notin snGroup
    BY DEF SnInit, Taking
<1>5. snObj = NewObject
    BY DEF SnInit
<1>6. SnSafe
    BY <1>1, <1>4, <1>5 DEF SnSafe, MatchIsNow, OwnerStays, OwnersOnly, ReleasedFirst, GoneQuiet, ContentGoesFirst
<1> QED BY <1>3, <1>6 DEF SnInv

LEMMA SnInvStep == SnInv /\ [SnNext]_snVars => SnInv'
<1> SUFFICES ASSUME SnInv, [SnNext]_snVars PROVE SnInv'
    OBVIOUS
<1>1. /\ SnTypeOK /\ SnSafe /\ snObj \in Object /\ snTake \in [Holders -> SnStages] /\ snReg \subseteq Holders
      /\ snSeen \in [Holders -> SnListing] /\ snGroup \subseteq Holders /\ "nobody" \notin Holders
    BY SnTypes, VmSnapshotAssumption DEF SnInv
<1>2. ASSUME UNCHANGED <<snObj, snKeep, snGroup, snTake, snSeen>>, (snOver \in BOOLEAN)', (snReg \subseteq Holders)', SnBounded'
      PROVE  SnInv'
    <2>1. SnSafe'
        BY <1>1, <1>2 DEF SnSafe, MatchIsNow, OwnerStays, OwnersOnly, ReleasedFirst, GoneQuiet, ContentGoesFirst, Taking
    <2> QED BY <1>1, <1>2, <2>1, SnTypes, SnTypesNext DEF SnInv
<1>3. CASE SnDelete
    <2>1. UNCHANGED <<snKeep, snOver, snReg, snGroup, snTake>> /\ NoSlip /\ snObj.is = "there"
        BY <1>3 DEF SnDelete, snWorld, NoSlip
    <2>2. PICK w \in Object : /\ WritesObject(w, snSeen) /\ w.owner = snObj.owner /\ w.content = snObj.content
                              /\ w.is = IF snObj.owner = "nobody" THEN "gone" ELSE "deleted"
        <3> DEFINE i == IF snObj.owner = "nobody" THEN "gone" ELSE "deleted"
                   w == [snObj EXCEPT !.is = i]
        <3>1. w \in Object /\ w.is = i /\ w.owner = snObj.owner /\ w.content = snObj.content
            BY <1>1 DEF Object
        <3> QED BY <1>3, <3>1 DEF SnDelete
    <2>3. Rewritten(w, {})
        BY <1>1, <2>2, SnWritesAll
    <2>4. SnSafe'
        <3>1. CASE snObj.owner # "nobody"
            BY <1>1, <2>1, <2>2, <2>3, <3>1, SnWritesOn DEF Taking
        <3>2. CASE snObj.owner = "nobody"
            <4>1. /\ \A m \in Holders : ~ Taking(m)' /\ m \notin snGroup'
                  /\ \A m \in Holders : /\ ~ snSeen'[m].match /\ snSeen'[m].at # "released"
                                        /\ snSeen'[m].at # "none" => snSeen'[m].obj.owner = "nobody"
                  /\ snObj'.content = "nobody"
                BY <1>1, <2>1, <2>2, <2>3, <3>2 DEF SnSafe, OwnersOnly, OwnerStays, ReleasedFirst, Rewritten, Taking
            <4> QED BY <1>1, <4>1 DEF SnSafe, MatchIsNow, OwnerStays, OwnersOnly, ReleasedFirst, GoneQuiet, ContentGoesFirst
        <3> QED BY <3>1, <3>2
    <2> QED BY <1>1, <2>1, <2>3, <2>4, SnTypes, SnTypesNext, SnSlips DEF SnInv, Rewritten
<1>4. CASE SnDeadline
    BY <1>1, <1>2, <1>4, SnTypes, SnSlips DEF SnDeadline, NoSlip
<1>5. ASSUME NEW n \in Holders, SnArrives(n) \/ SnLeaves(n) PROVE SnInv'
    <2>1. SnBounded'
        <3>1. SnBounded /\ MaxHops \in Nat
            BY <1>1, SnTypes, VmSnapshotAssumption
        <3>2. snHops' \in 0..MaxHops
            BY <1>5, <3>1 DEF SnArrives, SnLeaves, Hop, SnBounded
        <3> QED BY <1>5, <3>1, <3>2 DEF SnArrives, SnLeaves, Hop, SnBounded
    <2> QED BY <1>1, <1>2, <1>5, <2>1, SnTypes DEF SnArrives, SnLeaves
<1>6. ASSUME NEW n \in Holders, SnPass(n) \/ SnReach(n) PROVE SnInv'
    <2>1. CASE SnPass(n)
        BY <2>1, SnViews, SnActs DEF SnPass
    <2>2. CASE SnReach(n)
        BY <2>2, SnViews, SnActs DEF SnReach
    <2> QED BY <1>6, <2>1, <2>2
<1>7. ASSUME NEW n \in Holders, SnList(n) PROVE SnInv'
    <2>1. PICK l \in SnListing : l = Listing("listed") /\ l.obj = snObj /\ l.match /\ l.at = "listed"
        <3>1. Listing("listed") \in SnListing
            BY <1>1 DEF Listing, SnListing
        <3>2. Listing("listed").obj = snObj /\ Listing("listed").match /\ Listing("listed").at = "listed"
            BY DEF Listing
        <3> QED BY <3>1, <3>2
    <2>2. Reseen(n, l) /\ UNCHANGED <<snKeep, snOver, snReg, snGroup, snTake>> /\ snObj.is # "gone"
        BY <1>1, <1>7, <2>1, SnLooks DEF SnList, snWorld
    <2>3. SnSafe'
        BY <2>1, <2>2, SnLooksOn
    <2>4. SnBounded'
        <3>1. SnBounded /\ MaxLate \in Nat
            BY <1>1, SnTypes, VmSnapshotAssumption
        <3>2. snLate' \in 0..MaxLate
            BY <1>7, <3>1 DEF SnList, SnBounded
        <3> QED BY <1>7, <3>1, <3>2 DEF SnList, SnBounded
    <2> QED BY <1>1, <2>2, <2>3, <2>4, SnTypes, SnTypesNext DEF SnInv, Reseen
<1>8. ASSUME NEW n \in Holders, SnUnfinalize(n) PROVE SnInv'
    <2>1. UNCHANGED <<snKeep, snOver, snReg, snGroup, snTake>> /\ (Slip \/ NoSlip) /\ snSeen[n].at = "released"
        BY <1>8 DEF SnUnfinalize, snWorld
    <2>2. CASE snSeen[n].match /\ WritesObject([snObj EXCEPT !.is = "gone"], Seen(n, Nothing))
        <3>1. PICK w \in Object : /\ WritesObject(w, Seen(n, Nothing)) /\ w.is = "gone" /\ w.owner = snObj.owner
                                  /\ w.content = snObj.content
            <4> DEFINE w == [snObj EXCEPT !.is = "gone"]
            <4>1. w \in Object /\ w.is = "gone" /\ w.owner = snObj.owner /\ w.content = snObj.content
                BY <1>1 DEF Object
            <4> QED BY <2>2, <4>1
        <3>2. Rewritten(w, {n})
            BY <1>1, <3>1, SnWrites
        <3>3. snObj.owner = n /\ ~ Taking(n) /\ (~ snKeep => snObj.content \notin snGroup)
            BY <1>1, <2>1, <2>2 DEF SnSafe, MatchIsNow, ReleasedFirst
        <3>4. \A m \in Holders : ~ Taking(m)' /\ ~ Taking(m)
            BY <1>1, <2>1, <3>3 DEF SnSafe, OwnersOnly, Taking
        <3>5. \A m \in Holders : /\ ~ snSeen'[m].match /\ snSeen'[m].at # "released"
                                 /\ snSeen'[m].at # "none" => m # n /\ snSeen'[m].obj.owner \in {"nobody", n}
            BY <1>1, <3>2, <3>3 DEF SnSafe, OwnerStays, ReleasedFirst, Rewritten
        <3>6. snObj' = w
            BY <3>2 DEF Rewritten
        <3>7. MatchIsNow' /\ OwnerStays' /\ ReleasedFirst' /\ GoneQuiet'
            BY <1>1, <3>1, <3>3, <3>4, <3>5, <3>6 DEF MatchIsNow, OwnerStays, ReleasedFirst, GoneQuiet
        <3>8. OwnersOnly' /\ ContentGoesFirst'
            BY <1>1, <2>1, <3>1, <3>3, <3>4, <3>6 DEF SnSafe, OwnersOnly, ContentGoesFirst
        <3> QED BY <1>1, <2>1, <3>2, <3>7, <3>8, SnTypes, SnTypesNext, SnSlips DEF SnInv, SnSafe, Rewritten
    <2>3. CASE Leaves(n)
        <3>1. Reseen(n, Nothing)
            BY <1>1, <2>3, SnLeaving
        <3>2. SnSafe'
            BY <2>1, <3>1, SnListings, SnLooksOn
        <3> QED BY <1>1, <2>1, <3>1, <3>2, SnTypes, SnTypesNext, SnSlips DEF SnInv, Reseen
    <2> QED BY <1>8, <2>2, <2>3 DEF SnUnfinalize
<1>9. ASSUME NEW n \in Holders, SnDies(n) PROVE SnInv'
    <2>1. UNCHANGED <<snObj, snKeep, snOver, snReg, snGroup>> /\ Slip
        BY <1>9 DEF SnDies, snWorld
    <2>2. Reseen(n, Nothing) /\ TakeAt(n, "idle")
        BY <1>1, <1>9, SnListings, SnLooks, SnTakes DEF SnDies, SnStages
    <2>3. \A m \in Holders : Taking(m)' => Taking(m)
        BY <2>2 DEF TakeAt, Taking
    <2>4. SnSafe'
        BY <1>1, <2>1, <2>2, <2>3, SnListings DEF SnSafe, MatchIsNow, OwnerStays, OwnersOnly, ReleasedFirst, GoneQuiet,
             ContentGoesFirst, Reseen
    <2> QED BY <1>1, <2>1, <2>2, <2>4, SnTypes, SnTypesNext, SnSlips DEF SnInv, Reseen, TakeAt
<1>10. CASE UNCHANGED snVars
    BY <1>1, <1>2, <1>10, SnTypes DEF snVars, SnBounded
<1> QED BY <1>3, <1>4, <1>5, <1>6, <1>7, <1>8, <1>9, <1>10, SnTaking DEF SnNext

\* The types of the object, the listings, the takes and the groups.
THEOREM SnapshotTypeCorrect == SnSpec => []SnTypeOK
<1>1. SnInv => SnTypeOK
    BY DEF SnInv
<1> QED BY <1>1, SnInvInit, SnInvStep, PTL DEF SnSpec

LEMMA SnKeepsSnapshots == SnInv => SnapshotsKept
BY SnOneTaker DEF SnInv, SnSafe, SnapshotsKept

\* One node takes a snapshot and the content its status names is deleted before
\* the object is let go, however late the listings the passes act on, whichever
\* writes are refused or lost, and whenever a kubelet dies or the VM migrates.
THEOREM SnapshotsKeptHolds == SnSpec => []SnapshotsKept
BY SnKeepsSnapshots, SnInvInit, SnInvStep, PTL DEF SnSpec

-----------------------------------------------------------------------------
(* A restore (VmRestore). *)

\* The pass makes the volume, its claim, its PV and the state in that order, and
\* says complete what it has rewired.
MadeInOrder ==
    /\ rsAt \in {"claim", "pv", "state", "rewire", "status"} => "volume" \in rsMade
    /\ rsAt \in {"pv", "state", "rewire", "status"} => "claim" \in rsMade
    /\ rsAt \in {"state", "rewire", "status"} => "pv" \in rsMade
    /\ rsAt = "status" => rsVm.disk = "restored"
    /\ rsAt # "idle" => ~ rsObj.complete

\* What a pass read, a VMI was made from, a guest wrote to or a note names as
\* restored, the VirtualMachine names as restored; with no VMI nothing runs.
NothingUndone ==
    /\ rsRead.of.disk = "restored" => rsVm.disk = "restored"
    /\ rsVmi.of.disk = "restored" => rsVm.disk = "restored"
    /\ rsWritten => rsVm.disk = "restored"
    /\ rsVmi.is = "none" => rsMachine = "off" /\ ~ rsTried /\ rsVmi.of.disk = "old"
    /\ rsVmi.of.note => rsVmi.of.disk = "restored"
    /\ rsVm.note => rsVm.disk = "restored"

\* Where nothing fails, whoever may still resume from the state comes before the
\* restored guest's first write: the VirtualMachine's note, its VMI's, the
\* machine that loads it.
OneResume ==
    rsFaults = 0 =>
        /\ rsVm.disk = "restored" => rsAt = "status" \/ rsObj.complete
        /\ rsVm.note => ~ rsWritten
        /\ rsVmi.of.note /\ ~ rsTried => ~ rsWritten /\ rsMachine = "off"
        /\ rsMachine = "loading" /\ rsVmi.of.disk = "restored" => ~ rsWritten
        /\ rsVmi.of.disk = "restored" /\ (~ rsVmi.of.note \/ rsTried) => ~ rsVm.note
        /\ ~ rsTorn

RsWhole ==
    /\ rsVm.disk = "restored" => {"volume", "claim", "pv"} \subseteq rsMade
    /\ rsObj.complete => rsVm.disk = "restored"

RsSafe == RsWhole /\ MadeInOrder /\ NothingUndone /\ OneResume
RsInv == RsTypeOK /\ RsSafe

RsPassSteps == {"idle", "guest", "vm", "volume", "claim", "pv", "state", "rewire", "status"}
RsVms == [disk : {"old", "restored"}, note : BOOLEAN, run : BOOLEAN]
RsVmis == [is : {"none", "made"}, of : Template]
RsReads == [of : Template, match : BOOLEAN]
RsObjs == [asked : BOOLEAN, complete : BOOLEAN, memory : {"none", "pending", "resumed", "cold-boot"}]

RsTyped ==
    /\ rsSnap \in {"pending", "Succeeded", "Failed", "gone"} /\ rsGroup \in BOOLEAN
    /\ rsMade \subseteq {"volume", "claim", "pv", "state"}
    /\ rsVm \in RsVms /\ rsVmi \in RsVmis /\ rsObj \in RsObjs /\ rsAt \in RsPassSteps /\ rsRead \in RsReads
    /\ rsEvent \in BOOLEAN /\ rsMachine \in {"off", "loading", "running"}
    /\ rsTried \in BOOLEAN /\ rsResuming \in BOOLEAN /\ rsWritten \in BOOLEAN /\ rsTorn \in BOOLEAN
RsBounded == rsAsks \in 0..MaxRestoreAsks /\ rsFaults \in 0..MaxFailures

LEMMA RsTypes == RsTypeOK <=> RsTyped /\ RsBounded
BY DEF RsTypeOK, RsTyped, RsBounded, RsVms, RsVmis, RsReads, RsObjs, RsPassSteps

LEMMA RsTypesNext == RsTypeOK' <=> RsTyped' /\ RsBounded'
BY DEF RsTypeOK, RsTyped, RsBounded, RsVms, RsVmis, RsReads, RsObjs, RsPassSteps

LEMMA RsRecords ==
    /\ OldTemplate \in Template /\ NewTemplate \in Template /\ NoVmi \in RsVmis /\ NothingRead \in RsReads
    /\ OldTemplate.disk = "old" /\ ~ OldTemplate.note /\ NewTemplate.disk = "restored"
    /\ NoVmi.is = "none" /\ NoVmi.of = OldTemplate /\ NothingRead.of = OldTemplate
    /\ \A vm \in RsVms : /\ vm.disk \in {"old", "restored"} /\ vm.note \in BOOLEAN /\ vm.run \in BOOLEAN
                         /\ [disk |-> vm.disk, note |-> vm.note] \in Template
    /\ \A r \in RsReads : /\ [r EXCEPT !.match = FALSE] \in RsReads /\ [r EXCEPT !.match = FALSE].of = r.of
    /\ \A t \in Template : t.disk \in {"old", "restored"} /\ t.note \in BOOLEAN
<1>1. OldTemplate \in Template /\ NewTemplate \in Template
    BY DEF OldTemplate, NewTemplate, Template
<1>2. NoVmi \in RsVmis /\ NothingRead \in RsReads
    BY <1>1 DEF NoVmi, NothingRead, RsVmis, RsReads
<1>3. /\ OldTemplate.disk = "old" /\ ~ OldTemplate.note /\ NewTemplate.disk = "restored"
      /\ NoVmi.is = "none" /\ NoVmi.of = OldTemplate /\ NothingRead.of = OldTemplate
    BY DEF OldTemplate, NewTemplate, NoVmi, NothingRead
<1>4. \A vm \in RsVms : /\ vm.disk \in {"old", "restored"} /\ vm.note \in BOOLEAN /\ vm.run \in BOOLEAN
                        /\ [disk |-> vm.disk, note |-> vm.note] \in Template
    BY DEF RsVms, Template
<1>5. \A r \in RsReads : /\ [r EXCEPT !.match = FALSE] \in RsReads /\ [r EXCEPT !.match = FALSE].of = r.of
    BY DEF RsReads
<1>6. \A t \in Template : t.disk \in {"old", "restored"} /\ t.note \in BOOLEAN
    BY DEF Template
<1> QED BY <1>1, <1>2, <1>3, <1>4, <1>5, <1>6

LEMMA RsInvInit == RsInit => RsInv
<1> SUFFICES ASSUME RsInit PROVE RsInv
    OBVIOUS
<1>1. rsVm \in RsVms /\ rsObj \in RsObjs /\ rsVmi \in RsVmis
    BY RsRecords DEF RsInit, RsVms, RsObjs, RsVmis
<1>2. RsTyped
    BY <1>1, RsRecords DEF RsInit, RsTyped, RsPassSteps
<1>2a. RsBounded
    <2>1. 0 \in 0..MaxRestoreAsks /\ 0 \in 0..MaxFailures
        BY VmRestoreAssumption
    <2> QED BY <2>1 DEF RsInit, RsBounded
<1>3. /\ rsVm.disk = "old" /\ ~ rsVm.note /\ rsVmi.is = "made" /\ rsVmi.of = OldTemplate /\ ~ rsObj.complete
      /\ rsRead.of = OldTemplate
    BY RsRecords DEF RsInit
<1>4. RsSafe
    BY <1>3, RsRecords DEF RsInit, RsSafe, RsWhole, MadeInOrder, NothingUndone, OneResume
<1> QED BY <1>2, <1>2a, <1>4, RsTypes DEF RsInv

\* A failure is counted; where one is not, none was.
LEMMA RsFailures ==
    ASSUME RsInv, Failure \/ NoFailure, UNCHANGED rsAsks
    PROVE  RsBounded' /\ (rsFaults' = 0 => rsFaults = 0 /\ NoFailure) /\ (Failure => rsFaults' # 0)
<1>1. RsBounded /\ MaxFailures \in Nat
    BY RsTypes, VmRestoreAssumption DEF RsInv
<1>2. CASE Failure
    BY <1>1, <1>2 DEF Failure, RsBounded
<1>3. CASE NoFailure
    <2>1. ~ (rsFaults' = rsFaults + 1)
        BY <1>1, <1>3 DEF NoFailure, RsBounded
    <2> QED BY <1>1, <1>3, <2>1 DEF NoFailure, Failure, RsBounded
<1> QED BY <1>2, <1>3

\* A step of the pass, or of the user, that leaves the machine and both templates be.
LEMMA RsQuiet ==
    ASSUME RsInv, UNCHANGED <<rsVm, rsVmi, rsMachine, rsTried, rsWritten, rsTorn>>,
           rsObj'.complete = rsObj.complete, rsMade \subseteq rsMade', MadeInOrder',
           rsRead'.of.disk = "restored" => rsVm.disk = "restored",
           rsFaults' = 0 => rsFaults = 0 /\ (rsAt = "status" => rsAt' = "status")
    PROVE  RsSafe'
<1>1. RsSafe
    BY DEF RsInv
<1>2. RsWhole' /\ NothingUndone'
    BY <1>1 DEF RsSafe, RsWhole, NothingUndone
<1>3. OneResume'
    BY <1>1 DEF RsSafe, OneResume
<1> QED BY <1>2, <1>3 DEF RsSafe

LEMMA RsPassing ==
    ASSUME RsInv, RsPass \/ RsLooksForGuest \/ RsReadsVm \/ RsNoGroup
    PROVE  RsInv'
<1>1. RsTyped /\ RsBounded /\ RsSafe
    BY RsTypes DEF RsInv
<1>2. UNCHANGED <<rsSnap, rsGroup, rsMade, rsVm, rsVmi, rsObj, rsMachine, rsTried, rsResuming, rsWritten, rsTorn, rsAsks>>
    BY DEF RsPass, RsLooksForGuest, RsReadsVm, RsNoGroup, rsCluster, rsGuest
<1>3. Failure \/ NoFailure
    BY DEF RsPass, RsLooksForGuest, RsReadsVm, RsNoGroup, NoFailure
<1>4. rsAt # "status" /\ rsAt' \in {"idle", "guest", "vm", "volume"} /\ (rsAt' # "idle" => ~ rsObj.complete)
    BY <1>1 DEF RsPass, RsLooksForGuest, RsReadsVm, RsNoGroup, At, GoesTo, GivesUp, RsSafe, MadeInOrder
<1>5. rsRead' \in RsReads /\ rsEvent' \in BOOLEAN /\ (rsRead'.of.disk = "restored" => rsVm.disk = "restored")
    <2>1. CASE UNCHANGED rsRead
        <3>1. rsEvent' \in BOOLEAN
            BY <1>1 DEF RsTyped, RsPass, RsLooksForGuest, RsReadsVm, RsNoGroup
        <3> QED BY <1>1, <2>1, <3>1 DEF RsTyped, RsSafe, NothingUndone
    <2>2. CASE RsReadsVm /\ rsRead' = [of |-> [disk |-> rsVm.disk, note |-> rsVm.note], match |-> TRUE]
        <3> DEFINE t == [disk |-> rsVm.disk, note |-> rsVm.note]
        <3>1. t \in Template /\ t.disk = rsVm.disk
            BY <1>1, RsRecords DEF RsTyped
        <3>2. rsRead' = [of |-> t, match |-> TRUE]
            BY <2>2
        <3> HIDE DEF t
        <3>3. rsRead' \in RsReads /\ rsRead'.of = t
            BY <3>1, <3>2 DEF RsReads
        <3> QED BY <1>1, <2>2, <3>1, <3>3 DEF RsReadsVm, RsTyped
    <2> QED BY <2>1, <2>2 DEF RsPass, RsLooksForGuest, RsReadsVm, RsNoGroup
<1>6. RsTyped'
    BY <1>1, <1>2, <1>4, <1>5 DEF RsTyped, RsPassSteps
<1>7. MadeInOrder'
    BY <1>2, <1>4 DEF MadeInOrder
<1>8. RsSafe'
    BY <1>2, <1>3, <1>4, <1>5, <1>7, RsFailures, RsQuiet
<1> QED BY <1>2, <1>3, <1>6, <1>8, RsFailures, RsTypesNext DEF RsInv

LEMMA RsMaking ==
    ASSUME RsInv, RsVolume \/ RsClaim \/ RsPv \/ RsState
    PROVE  RsInv'
<1>1. RsTyped /\ RsBounded /\ RsSafe
    BY RsTypes DEF RsInv
<1>2. PICK what \in {"volume", "claim", "pv", "state"}, next \in {"claim", "pv", "state", "rewire"} :
        /\ Makes(rsAt, what, next) /\ rsAt = what
        /\ what = "volume" => next = "claim"
        /\ what = "claim" => next = "pv"
        /\ what = "pv" => next = "state"
        /\ what = "state" => next = "rewire"
    BY DEF RsVolume, RsClaim, RsPv, RsState, Makes, At
<1>3. UNCHANGED <<rsSnap, rsGroup, rsVm, rsVmi, rsObj, rsRead, rsMachine, rsTried, rsResuming, rsWritten, rsTorn, rsAsks>>
    BY <1>2 DEF Makes, rsCluster, rsGuest
<1>4. /\ Failure \/ NoFailure
      /\ rsMade' = rsMade \/ rsMade' = rsMade \cup {what}
      /\ rsAt' = "idle" \/ (rsAt' = next /\ rsMade' = rsMade \cup {what})
    BY <1>2 DEF Makes, GoesTo, GivesUp
<1>5. rsEvent' \in BOOLEAN
    BY <1>1 DEF RsVolume, RsClaim, RsPv, RsState, InEngine, NoEvent, RsTyped
<1>6. RsTyped'
    BY ZenonT(60), <1>1, <1>2, <1>3, <1>4, <1>5 DEF RsTyped, RsPassSteps
<1>7. MadeInOrder'
    BY <1>1, <1>2, <1>3, <1>4 DEF RsSafe, MadeInOrder
<1>8. RsSafe'
    <2>1. rsRead'.of.disk = "restored" => rsVm.disk = "restored"
        BY <1>1, <1>3 DEF RsSafe, NothingUndone
    <2> QED BY <1>2, <1>3, <1>4, <1>7, <2>1, RsFailures, RsQuiet
<1> QED BY <1>3, <1>4, <1>6, <1>8, RsFailures, RsTypesNext DEF RsInv

\* A VirtualMachine written from the one there is.
LEMMA RsUpdates ==
    ASSUME RsTyped, NEW vm \in RsVms, Updates(vm)
    PROVE  rsVm' = vm /\ rsRead' \in RsReads /\ rsRead'.of = rsRead.of
BY RsRecords DEF Updates, RsTyped

LEMMA RsRewiring ==
    ASSUME RsInv, RsRewires
    PROVE  RsInv'
<1>1. RsTyped /\ RsBounded /\ RsSafe
    BY RsTypes DEF RsInv
<1>2. /\ rsAt = "rewire" /\ (Failure \/ NoFailure)
      /\ UNCHANGED <<rsSnap, rsGroup, rsMade, rsVmi, rsObj, rsMachine, rsTried, rsResuming, rsWritten, rsTorn, rsAsks>>
    BY DEF RsRewires, At, rsCluster, rsGuest
<1>3. {"volume", "claim", "pv"} \subseteq rsMade /\ ~ rsObj.complete
    BY <1>1, <1>2 DEF RsSafe, MadeInOrder
<1>4. CASE UNCHANGED <<rsVm, rsRead, rsEvent>>
    <2>1. rsAt' = "idle" \/ (rsAt' = "status" /\ rsVm.disk = "restored")
        <3>1. rsAt' = "idle" \/ (rsAt' = "status" /\ (\/ rsRead.of = NewTemplate
                                                   \/ rsVm' = [rsVm EXCEPT !.disk = NewTemplate.disk, !.note = NewTemplate.note]))
            BY DEF RsRewires, Updates, GoesTo, GivesUp
        <3>2. rsRead.of = NewTemplate => rsVm.disk = "restored"
            BY <1>1, RsRecords DEF RsSafe, NothingUndone
        <3>3. [rsVm EXCEPT !.disk = NewTemplate.disk, !.note = NewTemplate.note].disk = "restored"
            BY <1>1, RsRecords DEF RsTyped, RsVms
        <3> QED BY <1>4, <3>1, <3>2, <3>3
    <2>2. RsTyped'
        BY <1>1, <1>2, <1>4, <2>1 DEF RsTyped, RsPassSteps
    <2>3. MadeInOrder'
        BY <1>2, <1>3, <1>4, <2>1 DEF MadeInOrder
    <2>4. rsRead'.of.disk = "restored" => rsVm.disk = "restored"
        BY <1>1, <1>4 DEF RsSafe, NothingUndone
    <2>5. RsSafe'
        BY <1>2, <1>4, <2>3, <2>4, RsFailures, RsQuiet
    <2> QED BY <1>2, <2>2, <2>5, RsFailures, RsTypesNext DEF RsInv
<1>5. CASE Updates([rsVm EXCEPT !.disk = NewTemplate.disk, !.note = NewTemplate.note]) /\ Event
    <2> DEFINE vm == [rsVm EXCEPT !.disk = NewTemplate.disk, !.note = NewTemplate.note]
    <2>1. vm \in RsVms /\ vm.disk = "restored"
        BY <1>1, RsRecords DEF RsTyped, RsVms, Template
    <2> HIDE DEF vm
    <2>2. Updates(vm) /\ rsEvent'
        BY <1>5 DEF vm, Event
    <2>3. rsVm' = vm /\ rsRead' \in RsReads /\ rsRead'.of = rsRead.of
        BY <1>1, <2>1, <2>2, RsUpdates
    <2>4. /\ rsAt' \in {"idle", "status"}
          /\ NoFailure /\ ~ Failure => rsAt' = "status" \/ UNCHANGED rsVm
        BY DEF RsRewires, GoesTo, GivesUp
    <2>5. RsTyped'
        <3>1. rsEvent' \in BOOLEAN
            BY <1>5 DEF Event
        <3> QED BY <1>1, <1>2, <2>1, <2>3, <2>4, <3>1 DEF RsTyped, RsPassSteps
    <2>6. RsWhole' /\ MadeInOrder' /\ NothingUndone'
        BY <1>1, <1>2, <1>3, <2>1, <2>3, <2>4 DEF RsSafe, RsWhole, MadeInOrder, NothingUndone
    <2>7. OneResume'
        <3> SUFFICES ASSUME rsFaults' = 0
                     PROVE  /\ rsAt' = "status"
                            /\ ~ rsWritten' /\ ~ rsTorn' /\ rsVmi'.of.disk # "restored" /\ ~ rsVmi'.of.note
            BY DEF OneResume
        <3>1. rsFaults = 0 /\ NoFailure /\ ~ Failure
            BY <1>2, RsFailures
        <3>2. rsVm.disk # "restored"
            BY <1>1, <1>2, <1>3, <3>1 DEF RsSafe, OneResume
        <3> QED BY <1>1, <1>2, <2>1, <2>3, <2>4, <3>1, <3>2 DEF RsSafe, OneResume, NothingUndone
    <2> QED BY <1>2, <2>5, <2>6, <2>7, RsFailures, RsTypesNext DEF RsInv, RsSafe
<1> QED BY <1>4, <1>5 DEF RsRewires, NoEvent

LEMMA RsCompleting ==
    ASSUME RsInv, RsSaysComplete
    PROVE  RsInv'
<1>1. RsTyped /\ RsBounded /\ RsSafe
    BY RsTypes DEF RsInv
<1>2. /\ rsAt = "status" /\ rsAt' = "idle" /\ (Failure \/ NoFailure)
      /\ UNCHANGED <<rsSnap, rsGroup, rsMade, rsVm, rsVmi, rsRead, rsEvent, rsMachine, rsTried, rsResuming, rsWritten, rsTorn, rsAsks>>
    BY DEF RsSaysComplete, At, GivesUp, rsCluster, rsGuest
<1>3. /\ rsObj' \in RsObjs
      /\ rsObj'.complete \/ (Failure /\ UNCHANGED rsObj)
    BY <1>1 DEF RsSaysComplete, RsTyped, RsObjs
<1>4. RsTyped'
    BY <1>1, <1>2, <1>3 DEF RsTyped, RsPassSteps
<1>5. RsWhole' /\ MadeInOrder' /\ NothingUndone'
    BY <1>1, <1>2 DEF RsSafe, RsWhole, MadeInOrder, NothingUndone
<1>6. OneResume'
    <2>1. rsFaults' = 0 => rsFaults = 0 /\ rsObj'.complete
        BY <1>2, <1>3, RsFailures
    <2> QED BY <1>1, <1>2, <2>1 DEF RsSafe, OneResume
<1> QED BY <1>2, <1>4, <1>5, <1>6, RsFailures, RsTypesNext DEF RsInv, RsSafe

\* A step of the machine and of its resume, of the user or a death: no restore is
\* undone by it, and the pass goes on or is given up.
LEMMA RsMachineStep ==
    ASSUME RsInv, RsTyped', RsBounded', UNCHANGED rsVmi, rsAt' \in {rsAt, "idle"},
           rsVm'.disk = rsVm.disk, rsVm'.note => rsVm.note,
           rsRead'.of = rsRead.of, rsObj'.complete = rsObj.complete,
           rsMade \ {"state"} \subseteq rsMade',
           rsVmi.is = "none" => rsMachine' = "off" /\ ~ rsTried',
           rsWritten' => rsWritten \/ rsVmi.of.disk = "restored",
           rsFaults' = 0 =>
               /\ rsFaults = 0 /\ rsAt' = rsAt
               /\ rsVm'.note => ~ rsWritten'
               /\ rsVmi.of.note /\ ~ rsTried' => ~ rsWritten' /\ rsMachine' = "off"
               /\ rsMachine' = "loading" /\ rsVmi.of.disk = "restored" => ~ rsWritten'
               /\ rsVmi.of.disk = "restored" /\ (~ rsVmi.of.note \/ rsTried') => ~ rsVm'.note
               /\ ~ rsTorn'
    PROVE  RsInv'
<1>1. RsSafe
    BY DEF RsInv
<1>2. RsWhole'
    BY <1>1 DEF RsSafe, RsWhole
<1>3. MadeInOrder'
    BY <1>1 DEF RsSafe, MadeInOrder
<1>4. NothingUndone'
    BY <1>1 DEF RsSafe, NothingUndone
<1>5. OneResume'
    BY <1>1 DEF RsSafe, OneResume
<1> QED BY <1>2, <1>3, <1>4, <1>5, RsTypesNext DEF RsInv, RsSafe

LEMMA RsMachines ==
    ASSUME RsInv, StartsCold \/ GuestResumes \/ ResumeOver \/ ResumeFails \/ RestoredGuestWrites
    PROVE  RsInv'
<1>1. RsTyped /\ RsBounded /\ RsSafe
    BY RsTypes DEF RsInv
<1>2. /\ UNCHANGED <<rsSnap, rsGroup, rsVm, rsVmi, rsAt, rsRead, rsTried, rsAsks>> /\ (Failure \/ NoFailure)
      /\ ResumeFails => Failure
    BY DEF StartsCold, GuestResumes, ResumeOver, ResumeFails, RestoredGuestWrites, rsCluster, rsPass, NoFailure
<1>3. RsBounded' /\ (rsFaults' = 0 => rsFaults = 0 /\ ~ ResumeFails)
    BY <1>2, RsFailures
<1>4. /\ rsMade' \subseteq rsMade /\ rsMade \ {"state"} \subseteq rsMade'
      /\ rsObj' \in RsObjs /\ rsObj'.complete = rsObj.complete
      /\ rsEvent' \in BOOLEAN
    BY <1>1 DEF StartsCold, GuestResumes, ResumeOver, ResumeFails, RestoredGuestWrites, DropsState, Says, RsTyped, RsObjs
<1>5. /\ rsMachine' \in {"off", "running"}
      /\ rsResuming' \in BOOLEAN /\ rsWritten' \in BOOLEAN /\ rsTorn' \in BOOLEAN
      /\ rsWritten' => rsWritten \/ (rsVmi.of.disk = "restored" /\ rsMachine = "running")
      /\ rsTorn' => rsTorn \/ (rsMachine = "loading" /\ rsVmi.of.disk = "restored" /\ rsWritten)
    <2>1. CASE GuestResumes
        <3>1. /\ rsMachine' = "running" /\ UNCHANGED <<rsResuming, rsWritten>>
              /\ rsTorn' = (rsTorn \/ (rsVmi.of.disk = "restored" /\ rsWritten))
              /\ rsMachine = "loading"
            BY <2>1 DEF GuestResumes
        <3>2. rsTorn' \in BOOLEAN /\ (rsTorn' => rsTorn \/ (rsVmi.of.disk = "restored" /\ rsWritten))
            BY <3>1
        <3> QED BY <1>1, <3>1, <3>2 DEF RsTyped
    <2>2. CASE StartsCold \/ ResumeOver \/ ResumeFails \/ RestoredGuestWrites
        <3>1. UNCHANGED rsTorn
            BY <2>2 DEF StartsCold, ResumeOver, ResumeFails, RestoredGuestWrites
        <3>2. rsMachine' \in {"off", "running"} /\ rsResuming' \in BOOLEAN
            BY <1>1, <2>2 DEF StartsCold, ResumeOver, ResumeFails, RestoredGuestWrites, RsTyped
        <3>3. /\ rsWritten' \in BOOLEAN
              /\ rsWritten' => rsWritten \/ (rsVmi.of.disk = "restored" /\ rsMachine = "running")
            <4>1. CASE RestoredGuestWrites
                <5>1. rsWritten' = TRUE /\ rsVmi.of.disk = "restored" /\ rsMachine = "running"
                    BY <4>1 DEF RestoredGuestWrites
                <5> QED BY <5>1
            <4>2. CASE StartsCold \/ ResumeOver \/ ResumeFails
                <5>1. UNCHANGED rsWritten
                    BY <4>2 DEF StartsCold, ResumeOver, ResumeFails
                <5> QED BY <1>1, <5>1 DEF RsTyped
            <4> QED BY <2>2, <4>1, <4>2
        <3> QED BY <1>1, <3>1, <3>2, <3>3 DEF RsTyped
    <2> QED BY <2>1, <2>2
<1>6. RsTyped'
    BY <1>1, <1>2, <1>4, <1>5 DEF RsTyped
<1>7. rsVmi.is = "none" => rsMachine' = "off" /\ ~ rsTried'
    <2>1. rsVmi.is = "none" => rsMachine = "off" /\ ~ rsTried
        BY <1>1 DEF RsSafe, NothingUndone
    <2> QED BY <1>2, <2>1 DEF StartsCold, GuestResumes, ResumeOver, ResumeFails, RestoredGuestWrites
<1>8. ASSUME rsFaults' = 0
      PROVE  /\ rsVm'.note => ~ rsWritten'
             /\ rsVmi.of.note /\ ~ rsTried' => ~ rsWritten' /\ rsMachine' = "off"
             /\ rsMachine' = "loading" /\ rsVmi.of.disk = "restored" => ~ rsWritten'
             /\ rsVmi.of.disk = "restored" /\ (~ rsVmi.of.note \/ rsTried') => ~ rsVm'.note
             /\ ~ rsTorn'
    <2>1. /\ rsVm.note => ~ rsWritten
          /\ rsVmi.of.note /\ ~ rsTried => ~ rsWritten /\ rsMachine = "off"
          /\ rsMachine = "loading" /\ rsVmi.of.disk = "restored" => ~ rsWritten
          /\ rsVmi.of.disk = "restored" /\ (~ rsVmi.of.note \/ rsTried) => ~ rsVm.note
          /\ ~ rsTorn
        BY <1>1, <1>3, <1>8 DEF RsSafe, OneResume
    <2>2. rsWritten' => rsWritten \/ (rsVmi.of.disk = "restored" /\ (~ rsVmi.of.note \/ rsTried))
        BY <1>5, <2>1
    <2>3. rsVmi.of.note /\ ~ rsTried => UNCHANGED <<rsMachine, rsWritten>>
        BY <1>3, <1>8, <2>1 DEF StartsCold, ToResume, GuestResumes, ResumeOver, RestoredGuestWrites
    <2> QED BY <1>2, <1>5, <2>1, <2>2, <2>3
<1>9. rsFaults' = 0 => rsFaults = 0 /\ rsAt' = rsAt
    BY <1>2, <1>3
<1> QED BY <1>2, <1>3, <1>4, <1>5, <1>6, <1>7, <1>8, <1>9, RsMachineStep

LEMMA RsResuming ==
    ASSUME RsInv, StartsFromState
    PROVE  RsInv'
<1>1. RsTyped /\ RsBounded /\ RsSafe
    BY RsTypes DEF RsInv
<1>2. /\ UNCHANGED <<rsSnap, rsGroup, rsMade, rsVmi, rsAt, rsWritten, rsTorn, rsAsks>> /\ (Failure \/ NoFailure)
      /\ rsTried' = TRUE /\ rsEvent' = TRUE /\ rsVmi.is = "made" /\ rsVmi.of.note /\ ~ rsTried
    BY DEF StartsFromState, Consumes, rsCluster, Event, ToResume
<1>3. RsBounded' /\ (rsFaults' = 0 => rsFaults = 0 /\ ~ Failure)
    BY <1>2, RsFailures
<1>4. /\ rsVm' \in RsVms /\ rsRead' \in RsReads /\ rsRead'.of = rsRead.of /\ rsVm'.disk = rsVm.disk
      /\ rsVm'.note => rsVm.note
      /\ ~ Failure => ~ rsVm'.note
    <2>1. CASE Updates([rsVm EXCEPT !.note = FALSE])
        <3> DEFINE vm == [rsVm EXCEPT !.note = FALSE]
        <3>1. vm \in RsVms /\ vm.disk = rsVm.disk /\ ~ vm.note
            BY <1>1 DEF RsTyped, RsVms
        <3> HIDE DEF vm
        <3> QED BY <1>1, <2>1, <3>1, RsUpdates DEF vm
    <2>2. CASE Failure /\ UNCHANGED <<rsVm, rsRead>>
        BY <1>1, <2>2 DEF RsTyped
    <2> QED BY <2>1, <2>2 DEF StartsFromState, Consumes
<1>5. /\ rsObj' \in RsObjs /\ rsObj'.complete = rsObj.complete
      /\ rsMachine' \in {"loading", "running"} /\ rsResuming' \in BOOLEAN
    BY <1>1 DEF StartsFromState, Says, RsTyped, RsObjs
<1>6. RsTyped'
    BY <1>1, <1>2, <1>4, <1>5 DEF RsTyped
<1>7. rsFaults' = 0 => ~ rsWritten /\ ~ rsTorn
    BY <1>1, <1>2, <1>3 DEF RsSafe, OneResume
<1>8. rsFaults' = 0 => rsFaults = 0 /\ rsAt' = rsAt
    BY <1>2, <1>3
<1> QED BY <1>2, <1>3, <1>4, <1>5, <1>6, <1>7, <1>8, RsMachineStep

LEMMA RsOutside ==
    ASSUME RsInv, AsksRestore \/ StartsOrStops \/ SnapshotEnds \/ SnapshotGoes
    PROVE  RsInv'
<1>1. RsTyped /\ RsBounded /\ RsSafe
    BY RsTypes DEF RsInv
<1>2. UNCHANGED <<rsMade, rsVmi, rsAt, rsMachine, rsTried, rsResuming, rsWritten, rsTorn, rsFaults>>
    BY DEF AsksRestore, StartsOrStops, SnapshotEnds, SnapshotGoes, rsGuest, rsPass
<1>3. RsBounded'
    <2>1. MaxRestoreAsks \in Nat
        BY VmRestoreAssumption
    <2>2. rsAsks' \in 0..MaxRestoreAsks
        BY <1>1, <2>1 DEF AsksRestore, StartsOrStops, SnapshotEnds, SnapshotGoes, RsBounded
    <2> QED BY <1>1, <1>2, <2>2 DEF RsBounded
<1>4. /\ rsVm' \in RsVms /\ rsRead' \in RsReads /\ rsRead'.of = rsRead.of /\ rsVm'.disk = rsVm.disk
      /\ rsVm'.note = rsVm.note
    <2>1. CASE Updates([rsVm EXCEPT !.run = ~ rsVm.run])
        <3> DEFINE vm == [rsVm EXCEPT !.run = ~ rsVm.run]
        <3>1. vm \in RsVms /\ vm.disk = rsVm.disk /\ vm.note = rsVm.note
            BY <1>1 DEF RsTyped, RsVms
        <3> HIDE DEF vm
        <3> QED BY <1>1, <2>1, <3>1, RsUpdates DEF vm
    <2>2. CASE UNCHANGED <<rsVm, rsRead>>
        BY <1>1, <2>2 DEF RsTyped
    <2> QED BY <2>1, <2>2 DEF AsksRestore, StartsOrStops, SnapshotEnds, SnapshotGoes, rsPass
<1>5. /\ rsObj' \in RsObjs /\ rsObj'.complete = rsObj.complete /\ rsEvent' \in BOOLEAN
      /\ rsSnap' \in {"pending", "Succeeded", "Failed", "gone"} /\ rsGroup' \in BOOLEAN
    BY <1>1 DEF AsksRestore, StartsOrStops, SnapshotEnds, SnapshotGoes, RsTyped, RsObjs, Event, rsCluster
<1>6. RsTyped'
    BY <1>1, <1>2, <1>4, <1>5 DEF RsTyped
<1>7. rsVmi.is = "none" => rsMachine' = "off" /\ ~ rsTried'
    BY <1>1, <1>2 DEF RsSafe, NothingUndone
<1>8. rsFaults' = 0 =>
        /\ rsVm'.note => ~ rsWritten'
        /\ rsVmi.of.note /\ ~ rsTried' => ~ rsWritten' /\ rsMachine' = "off"
        /\ rsMachine' = "loading" /\ rsVmi.of.disk = "restored" => ~ rsWritten'
        /\ rsVmi.of.disk = "restored" /\ (~ rsVmi.of.note \/ rsTried') => ~ rsVm'.note
        /\ ~ rsTorn'
    BY <1>1, <1>2, <1>4 DEF RsSafe, OneResume
<1> QED BY <1>1, <1>2, <1>3, <1>4, <1>5, <1>6, <1>7, <1>8, RsMachineStep

LEMMA RsDying ==
    ASSUME RsInv, RsKubeletDies \/ RsNodeDies
    PROVE  RsInv'
<1>1. RsTyped /\ RsBounded /\ RsSafe
    BY RsTypes DEF RsInv
<1>2. /\ UNCHANGED <<rsSnap, rsGroup, rsMade, rsVm, rsVmi, rsObj, rsRead, rsWritten, rsTorn, rsAsks>>
      /\ Failure /\ rsAt' = "idle" /\ rsTried' = FALSE /\ rsResuming' = FALSE /\ rsEvent' = TRUE
      /\ rsMachine' \in {rsMachine, "off"}
    BY DEF RsKubeletDies, RsNodeDies, RsDies, rsCluster, GivesUp, Event
<1>3. RsBounded' /\ rsFaults' # 0
    BY <1>2, RsFailures
<1>4. RsTyped'
    BY <1>1, <1>2 DEF RsTyped, RsPassSteps
<1>5. rsVmi.is = "none" => rsMachine' = "off" /\ ~ rsTried'
    BY <1>1, <1>2 DEF RsSafe, NothingUndone
<1> QED BY <1>2, <1>3, <1>4, <1>5, RsMachineStep

LEMMA RsControlling ==
    ASSUME RsInv, MakesVmi \/ DeletesVmi
    PROVE  RsInv'
<1>1. RsTyped /\ RsBounded /\ RsSafe
    BY RsTypes DEF RsInv
<1>2. /\ UNCHANGED <<rsSnap, rsGroup, rsMade, rsVm, rsObj, rsAt, rsRead, rsWritten, rsTorn, rsAsks, rsFaults>>
      /\ rsEvent' = TRUE
    BY DEF MakesVmi, DeletesVmi, rsCluster, rsPass, Event
<1>3. RsBounded'
    BY <1>1, <1>2 DEF RsBounded
<1>4. CASE MakesVmi
    <2> DEFINE t == [disk |-> rsVm.disk, note |-> rsVm.note]
    <2>1. t \in Template /\ t.disk = rsVm.disk /\ t.note = rsVm.note
        BY <1>1, RsRecords DEF RsTyped
    <2>2. rsVmi' = [is |-> "made", of |-> t] /\ rsVmi.is = "none" /\ UNCHANGED <<rsMachine, rsTried, rsResuming>>
        BY <1>4 DEF MakesVmi
    <2> HIDE DEF t
    <2>3. rsVmi' \in RsVmis /\ rsVmi'.is = "made" /\ rsVmi'.of = t
        BY <2>1, <2>2 DEF RsVmis
    <2>4. rsMachine = "off" /\ ~ rsTried
        BY <1>1, <2>2 DEF RsSafe, NothingUndone
    <2>5. RsTyped'
        BY <1>1, <1>2, <2>2, <2>3 DEF RsTyped
    <2>6. RsWhole' /\ MadeInOrder'
        BY <1>1, <1>2 DEF RsSafe, RsWhole, MadeInOrder
    <2>7. NothingUndone'
        BY <1>1, <1>2, <2>1, <2>2, <2>3, <2>4 DEF RsSafe, NothingUndone
    <2>8. OneResume'
        BY <1>1, <1>2, <2>1, <2>2, <2>3, <2>4 DEF RsSafe, OneResume
    <2> QED BY <1>3, <2>5, <2>6, <2>7, <2>8, RsTypesNext DEF RsInv, RsSafe
<1>5. CASE DeletesVmi
    <2>1. /\ rsVmi' \in RsVmis /\ rsVmi'.is = "none" /\ rsVmi'.of.disk = "old" /\ ~ rsVmi'.of.note
          /\ rsMachine' = "off" /\ rsTried' = FALSE /\ rsResuming' = FALSE
        BY <1>5, RsRecords DEF DeletesVmi
    <2>2. RsTyped'
        BY <1>1, <1>2, <2>1 DEF RsTyped
    <2>3. RsWhole' /\ MadeInOrder'
        BY <1>1, <1>2 DEF RsSafe, RsWhole, MadeInOrder
    <2>4. NothingUndone' /\ OneResume'
        BY <1>1, <1>2, <2>1 DEF RsSafe, NothingUndone, OneResume
    <2> QED BY <1>3, <2>2, <2>3, <2>4, RsTypesNext DEF RsInv, RsSafe
<1> QED BY <1>4, <1>5

LEMMA RsInvStep == RsInv /\ [RsNext]_rsVars => RsInv'
<1> SUFFICES ASSUME RsInv, [RsNext]_rsVars PROVE RsInv'
    OBVIOUS
<1>1. CASE UNCHANGED rsVars
    BY <1>1 DEF rsVars, RsInv, RsTypeOK, RsSafe, RsWhole, MadeInOrder, NothingUndone, OneResume
<1>2. CASE PassStep
    BY <1>2, RsPassing, RsMaking, RsRewiring, RsCompleting DEF PassStep
<1>3. CASE Kubelet \/ Controller
    BY <1>3, RsMachines, RsResuming, RsControlling DEF Kubelet, Controller
<1> QED BY <1>1, <1>2, <1>3, RsMachines, RsOutside, RsDying DEF RsNext

\* The types of the restore, its VirtualMachine, its VMI and its machine.
THEOREM RestoreTypeCorrect == RsSpec => []RsTypeOK
<1>1. RsInv => RsTypeOK
    BY DEF RsInv
<1> QED BY <1>1, RsInvInit, RsInvStep, PTL DEF RsSpec

LEMMA RsKeepsWhole == RsInv => RestoreWhole
<1> SUFFICES ASSUME RsInv PROVE RestoreWhole
    OBVIOUS
<1>1. RsBounded /\ RsSafe /\ MaxFailures \in Nat
    BY RsTypes, VmRestoreAssumption DEF RsInv
<1>2. rsTorn => rsFaults > 0
    BY <1>1 DEF RsSafe, OneResume, RsBounded
<1> QED BY <1>1, <1>2 DEF RsSafe, RsWhole, RestoreWhole

\* A VirtualMachine names a restored claim only once volume, claim and PV are
\* there, a complete restore is whole, and where nothing fails no guest resumes
\* from a memory older than its disks, however often the VM is started and stopped.
THEOREM RestoreWholeHolds == RsSpec => []RestoreWhole
BY RsKeepsWhole, RsInvInit, RsInvStep, PTL DEF RsSpec

-----------------------------------------------------------------------------
(* The seven parts together (MCMachines). *)

MachinesInv == VmInv /\ MgInv /\ DmInv /\ CvInv /\ SnInv /\ RsInv /\ HpInv

LEMMA MachinesInvInit == MachinesInit => MachinesInv
BY VmInvInit, MgInvInit, DmInvInit, CvInvInit, SnInvInit, RsInvInit, HpInvInit DEF MachinesInit, MachinesInv

\* A step of them all is a step or a stutter of each.
LEMMA MachinesStepEach ==
    ASSUME [MachinesNext]_MachinesVars
    PROVE  /\ [VmNext]_vmVars /\ [MgNext]_mgVars /\ [DmNext]_dmVars /\ [CvNext]_cvVars
           /\ [SnNext]_snVars /\ [RsNext]_rsVars /\ [HpNext]_hpVars
BY DEF MachinesNext, MachinesVars, StartStop, Migration, DiskMove, Volume, Snapshot, Restore, Hotplug

LEMMA MachinesInvStep == MachinesInv /\ [MachinesNext]_MachinesVars => MachinesInv'
<1> SUFFICES ASSUME MachinesInv, [MachinesNext]_MachinesVars PROVE MachinesInv'
    OBVIOUS
<1>1. MgInv'
    BY MachinesStepEach, MgTypeStep, MgSafeStep DEF MachinesInv, MgInv
<1>2. VmInv' /\ DmInv' /\ CvInv' /\ SnInv' /\ RsInv' /\ HpInv'
    BY MachinesStepEach, VmInvStep, DmInvStep, CvInvStep, SnInvStep, RsInvStep, HpInvStep DEF MachinesInv
<1> QED BY <1>1, <1>2 DEF MachinesInv

\* The types of every part of the VM manager and of the volumes it shares.
THEOREM MachinesTypeCorrect == MachinesSpec => []MachinesTypeOK
<1>1. MachinesInv => MachinesTypeOK
    BY DEF MachinesInv, VmInv, MgInv, DmInv, CvInv, SnInv, RsInv, HpInv, MachinesTypeOK
<1> QED BY <1>1, MachinesInvInit, MachinesInvStep, PTL DEF MachinesSpec

\* What a machine has, of the engine and on the node, is what its record says,
\* through its start, undo and stop and its changes while it runs (vm_manager.rs).
THEOREM MachineKeptHolds == MachinesSpec => []MachineKept
<1>1. MachinesInv => MachineKept
    BY VmNothingLeft DEF MachinesInv, HpInv, MachineKept
<1> QED BY <1>1, MachinesInvInit, MachinesInvStep, PTL DEF MachinesSpec

\* A snapshot is one take's, and a restore whole or not there (vm_snapshot.rs,
\* vm_restore.rs).
THEOREM CopiesKeptHolds == MachinesSpec => []CopiesKept
<1>1. MachinesInv => CopiesKept
    BY SnKeepsSnapshots, RsKeepsWhole DEF MachinesInv, CopiesKept
<1> QED BY <1>1, MachinesInvInit, MachinesInvStep, PTL DEF MachinesSpec
=============================================================================
