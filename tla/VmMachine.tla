------------------------------ MODULE VmMachine ------------------------------
(***************************************************************************)
(* A VMI's machine on its node (vm_manager.rs): one worker's passes over   *)
(* each VMI, which start it, see it end and stop it.  A start attaches     *)
(* disks and a pod network, then, inside one window for all machines,      *)
(* deposits its tap, registers volumes, defines a spec and spawns; what it *)
(* leaves in the engine when it fails is in a ledger the next pass undoes  *)
(* (#100).  Every call may fail, and the kubelet may die between any two.  *)
(* The machines' NICs have one name, and the engine one slot of that name. *)
(***************************************************************************)
EXTENDS Naturals, FiniteSets

CONSTANTS Vms,          \* VMIs
          Once,         \* those whose VirtualMachine has a failed start given up on
          MaxFaults,    \* bound: passes in which a call fails; a restart counts for two
          MaxVmDeaths   \* bound: restarts of the kubelet

ASSUME VmMachineAssumption ==
    Once \subseteq Vms /\ MaxFaults \in Nat /\ MaxVmDeaths \in Nat /\ "none" \notin Vms

Handles == {"vol", "spec"}
Steps == Handles \cup {"tap"}

VARIABLES vmWant,     \* the VMI: wanted here, deleting, gone
          vmAt,       \* where its worker's pass is
          vmRec,      \* vms: its record, "blind" if it was adopted without a handle
          vmReg,      \* its registration on the disk: asked for, or with the handle
          vmMach,     \* the engine's workload; "released" once its handle is
          vmTaken,    \* the handles the engine has for it that no machine has
          vmSlot,     \* whose tap is deposited
          vmLedger,   \* partial: what its starts left in the engine
          vmOrphans,  \* what is under ORPHANED there
          vmDisks,    \* its disks are attached
          vmNet,      \* its pod network: the sandbox pod_nets has
          vmWindow,   \* who is in the deposit window
          vmStopping, \* the stops under way in the background
          vmFaults, vmDeaths,
          vmLost      \* history: what is held for a VMI and no record names

vmVars == <<vmWant, vmAt, vmRec, vmReg, vmMach, vmTaken, vmSlot, vmLedger, vmOrphans, vmDisks,
            vmNet, vmWindow, vmStopping, vmFaults, vmDeaths, vmLost>>
vmEngine == <<vmTaken, vmSlot, vmLedger, vmOrphans>>
vmHeld == <<vmDisks, vmNet, vmLost>>
vmKnown == <<vmRec, vmReg, vmMach>>

VmAt(v, a) == vmAt[v] = a
VmGo(v, a) == vmAt' = [vmAt EXCEPT ![v] = a]
Fault == vmFaults < MaxFaults /\ vmFaults' = vmFaults + 1
Fine == UNCHANGED vmFaults

-----------------------------------------------------------------------------
(* unwind: what the starts of v left, and the orphans, by a caller inside   *)
(* the window.  What is refused is kept; a deposit then holds v up, and on  *)
(* the last pass handles go to the orphans instead.                         *)

OrphansOf(v) == {h \in Handles : <<v, h>> \in vmOrphans}
UndoneSteps(v, refused) == vmLedger[v] \ refused

\* Faulty: what is refused is not put back in the ledger.
UnwindLeavesOut(v, last, refused, left) ==
    /\ vmLedger' = [vmLedger EXCEPT ![v] = {}]
    /\ vmOrphans' = left \cup (IF last THEN {v} \X (refused \cap Handles) ELSE {})
    /\ vmSlot' = (IF "tap" \in UndoneSteps(v, refused) THEN "none" ELSE vmSlot)
    /\ vmTaken' = [u \in Vms |-> vmTaken[u] \ ({h \in Handles : <<u, h>> \in vmOrphans \ left}
                                               \cup (IF u = v THEN UndoneSteps(v, refused) ELSE {}))]

\* The outcome if refused, of v's, and left, of the orphans, are not done.
UnwindLeaves(v, last, refused, left) ==
    /\ vmLedger' = [vmLedger EXCEPT ![v] = IF last THEN refused \ Handles ELSE refused]
    /\ vmOrphans' = left \cup (IF last THEN {v} \X (refused \cap Handles) ELSE {})
    /\ vmSlot' = (IF "tap" \in UndoneSteps(v, refused) THEN "none" ELSE vmSlot)
    /\ vmTaken' = [u \in Vms |-> vmTaken[u] \ ({h \in Handles : <<u, h>> \in vmOrphans \ left}
                                               \cup (IF u = v THEN UndoneSteps(v, refused) ELSE {}))]

\* Nothing refused, or some.
Refusable(v) == {r \in (SUBSET vmLedger[v]) \X (SUBSET vmOrphans) : r # <<{}, {}>>}

-----------------------------------------------------------------------------
(* start_with_retry, start and start_attempt, before the window.  When it   *)
(* is tried again (an event, its back-off over) is not told apart.          *)

BeginStart(v) ==
    /\ VmAt(v, "idle") /\ vmWant[v] = "wanted" /\ vmRec[v] = "none" /\ vmWindow = "none"
    /\ \/ UnwindLeaves(v, FALSE, {}, {}) /\ VmGo(v, "disks") /\ Fine
       \/ /\ Fault
          /\ \E r \in Refusable(v) :
               /\ UnwindLeaves(v, FALSE, r[1], r[2])
               /\ VmGo(v, IF "tap" \in r[1] THEN "idle" ELSE "disks")
    /\ UNCHANGED <<vmWant, vmKnown, vmHeld, vmWindow, vmStopping, vmDeaths>>

\* A start that failed: given up on, or tried again.
FailedStart(v) ==
    /\ VmGo(v, "idle")
    /\ vmRec' = (IF v \in Once THEN [vmRec EXCEPT ![v] = "failed"] ELSE vmRec)

\* resolve_disks_as gives back what it took.
ResolveDisks(v) ==
    /\ VmAt(v, "disks")
    /\ \/ Fine /\ vmDisks' = [vmDisks EXCEPT ![v] = TRUE] /\ VmGo(v, "net") /\ UNCHANGED vmRec
       \/ Fault /\ FailedStart(v) /\ UNCHANGED vmDisks
    /\ UNCHANGED <<vmWant, vmReg, vmMach, vmEngine, vmNet, vmLost, vmWindow, vmStopping, vmDeaths>>

Loses(v, what) == vmLost' = vmLost \cup {<<v, what>>}
\* An old sandbox, still held, is replaced in the record.
LosesOldNet(v) == vmLost' = (IF vmNet[v] = "held" THEN vmLost \cup {<<v, "net">>} ELSE vmLost)
\* release_pod_network: DEL, the sandbox, the record.
NetGone(v) == vmNet' = [vmNet EXCEPT ![v] = "none"]
Detached(v) == vmDisks' = [vmDisks EXCEPT ![v] = FALSE]

\* acquire_pod_network.  A wait (no CNI, no launcher Pod) before there is a
\* sandbox; or an ADD that fails, and perhaps its DEL.
AcquireNetwork(v) ==
    /\ VmAt(v, "net")
    /\ \/ /\ Fine /\ vmNet' = [vmNet EXCEPT ![v] = "held"] /\ VmGo(v, "window")
          /\ LosesOldNet(v) /\ UNCHANGED vmDisks
       \/ Fault /\ VmGo(v, "idle") /\ Detached(v) /\ UNCHANGED <<vmNet, vmLost>>
       \/ /\ Fault /\ VmGo(v, "idle") /\ Detached(v) /\ LosesOldNet(v)
          /\ \E n \in {"none", "held"} : vmNet' = [vmNet EXCEPT ![v] = n]
    /\ UNCHANGED <<vmWant, vmKnown, vmEngine, vmWindow, vmStopping, vmDeaths>>

-----------------------------------------------------------------------------
(* launch, inside the window. *)

\* Noted before it is sent.  The engine has one tap under the name: a second
\* takes its place, or is refused.  A machine that runs holds its tap open.
DepositTap(v) ==
    /\ VmAt(v, "window") /\ vmWindow = "none"
    /\ vmWindow' = v
    /\ vmLedger' = [vmLedger EXCEPT ![v] = @ \cup {"tap"}]
    /\ \/ vmMach[v] # "running" /\ Fine /\ vmSlot' = v /\ VmGo(v, "register")
       \/ /\ IF vmSlot = "none" /\ vmMach[v] # "running" THEN Fault ELSE Fine
          /\ UNCHANGED vmSlot /\ VmGo(v, "unwind")
    /\ UNCHANGED <<vmWant, vmKnown, vmTaken, vmOrphans, vmHeld, vmStopping, vmDeaths>>

\* The plan refused; or the registration not written, which stops nothing.
Register(v) ==
    /\ VmAt(v, "register")
    /\ \/ Fine /\ vmReg' = [vmReg EXCEPT ![v] = "asked"] /\ VmGo(v, "handles")
       \/ Fault /\ vmAt' \in {[vmAt EXCEPT ![v] = a] : a \in {"handles", "unwind"}} /\ UNCHANGED vmReg
    /\ UNCHANGED <<vmWant, vmRec, vmMach, vmEngine, vmHeld, vmWindow, vmStopping, vmDeaths>>

Deregistered(v) == vmReg' = [vmReg EXCEPT ![v] = "none"]

\* Each handle is noted as the engine gives it.
RegisterVolumes(v) ==
    /\ VmAt(v, "handles")
    /\ \E got \in {{}, {"vol"}, Handles} :
         /\ IF got = Handles THEN Fine /\ VmGo(v, "spawn") /\ UNCHANGED vmReg
            ELSE Fault /\ VmGo(v, "unwind") /\ Deregistered(v)
         /\ vmTaken' = [vmTaken EXCEPT ![v] = @ \cup got]
         /\ vmLedger' = [vmLedger EXCEPT ![v] = @ \cup got]
    /\ UNCHANGED <<vmWant, vmRec, vmMach, vmSlot, vmOrphans, vmHeld, vmWindow, vmStopping, vmDeaths>>

\* The deposit and the handles are the machine's, and the ledger forgets them.
SpawnMachine(v) ==
    /\ VmAt(v, "spawn")
    /\ \/ /\ Fine /\ VmGo(v, "record") /\ vmWindow' = "none"
          /\ vmMach' = [vmMach EXCEPT ![v] = "running"]
          /\ vmSlot' = "none" /\ vmTaken' = [vmTaken EXCEPT ![v] = {}]
          /\ vmLedger' = [vmLedger EXCEPT ![v] = {}] /\ UNCHANGED vmReg
       \/ /\ Fault /\ VmGo(v, "unwind") /\ Deregistered(v)
          /\ UNCHANGED <<vmMach, vmSlot, vmTaken, vmLedger, vmWindow>>
    /\ UNCHANGED <<vmWant, vmRec, vmOrphans, vmHeld, vmStopping, vmDeaths>>

\* A launch that failed: undone before the window is left.
UnwindFailed(v) ==
    /\ VmAt(v, "unwind") /\ VmGo(v, "give back") /\ vmWindow' = "none"
    /\ \/ UnwindLeaves(v, FALSE, {}, {}) /\ Fine
       \/ Fault /\ \E r \in Refusable(v) : UnwindLeaves(v, FALSE, r[1], r[2])
    /\ UNCHANGED <<vmWant, vmKnown, vmHeld, vmStopping, vmDeaths>>

\* Its disks and its network; a network not released stays in pod_nets.
GiveBack(v) ==
    /\ VmAt(v, "give back") /\ FailedStart(v)
    /\ \/ Fine /\ Detached(v) /\ NetGone(v) /\ UNCHANGED vmLost
       \/ Fault /\ Detached(v) /\ UNCHANGED <<vmNet, vmLost>>
       \/ Fault /\ Loses(v, "disks") /\ NetGone(v) /\ UNCHANGED vmDisks
    /\ UNCHANGED <<vmWant, vmReg, vmMach, vmEngine, vmWindow, vmStopping, vmDeaths>>

\* The handle in the registration, if it can be written, and the record.
Record(v) ==
    /\ VmAt(v, "record") /\ VmGo(v, "idle")
    /\ vmRec' = [vmRec EXCEPT ![v] = "running"]
    /\ \/ Fine /\ vmReg' = [vmReg EXCEPT ![v] = "handle"]
       \/ Fault /\ UNCHANGED vmReg
    /\ UNCHANGED <<vmWant, vmMach, vmEngine, vmHeld, vmWindow, vmStopping, vmDeaths>>

-----------------------------------------------------------------------------
(* absorb_ends_for: the engine says it ended; its network is given back.    *)

AbsorbEnd(v) ==
    /\ VmAt(v, "idle") /\ vmWant[v] = "wanted" /\ vmRec[v] = "running" /\ vmMach[v] = "ended"
    /\ vmRec' = [vmRec EXCEPT ![v] = "ended"]
    /\ \/ Fine /\ NetGone(v)
       \/ Fault /\ UNCHANGED vmNet
    /\ UNCHANGED <<vmWant, vmAt, vmReg, vmMach, vmEngine, vmDisks, vmLost, vmWindow,
                   vmStopping, vmDeaths>>

-----------------------------------------------------------------------------
(* stop: the object is being deleted.  A machine with no handle is never    *)
(* sure to have ended.                                                      *)

\* The guest is asked, then the engine, in the background.
AskToStop(v) ==
    /\ VmAt(v, "idle") /\ vmWant[v] = "deleting" /\ vmRec[v] = "running" /\ vmMach[v] = "running"
    /\ v \notin vmStopping /\ vmStopping' = vmStopping \cup {v}
    /\ Fine /\ UNCHANGED <<vmWant, vmAt, vmKnown, vmEngine, vmHeld, vmWindow, vmDeaths>>

StopOver(v) ==
    /\ v \in vmStopping /\ vmStopping' = vmStopping \ {v}
    /\ \/ Fine /\ vmMach' = [vmMach EXCEPT ![v] = IF @ = "running" THEN "ended" ELSE @]
       \/ Fault /\ UNCHANGED vmMach
    /\ UNCHANGED <<vmWant, vmAt, vmRec, vmReg, vmEngine, vmHeld, vmWindow, vmDeaths>>

\* Faulty: one that never started waits for the engine to say it ended.
EndedOnlyIfRun(v) == vmRec[v] = "ended" \/ (vmRec[v] = "running" /\ vmMach[v] = "ended")

\* The engine confirms the end, or it was seen before.
Ended(v) == vmRec[v] \in {"ended", "failed"} \/ (vmRec[v] = "running" /\ vmMach[v] = "ended")

Detach(v) ==
    /\ VmAt(v, "idle") /\ vmWant[v] = "deleting" /\ Ended(v)
    /\ Fine /\ vmDisks' = [vmDisks EXCEPT ![v] = FALSE] /\ VmGo(v, "release")
    /\ UNCHANGED <<vmWant, vmKnown, vmEngine, vmNet, vmLost, vmWindow, vmStopping, vmDeaths>>

\* workload_release; a handle released before is refused.
ReleaseMachine(v) ==
    /\ VmAt(v, "release")
    /\ \/ vmRec[v] = "failed" /\ Fine /\ VmGo(v, "release net") /\ UNCHANGED vmMach
       \/ /\ vmMach[v] = "ended" /\ Fine /\ VmGo(v, "release net")
          /\ vmMach' = [vmMach EXCEPT ![v] = "released"]
       \/ vmMach[v] = "released" /\ Fine /\ VmGo(v, "idle") /\ UNCHANGED vmMach
       \/ vmMach[v] = "ended" /\ Fault /\ VmGo(v, "idle") /\ UNCHANGED vmMach
    /\ UNCHANGED <<vmWant, vmRec, vmReg, vmEngine, vmHeld, vmWindow, vmStopping, vmDeaths>>

\* release_pod_network, then everything that is remembered.
ReleaseNetwork(v) ==
    /\ VmAt(v, "release net") /\ VmGo(v, "idle")
    /\ \/ /\ Fine /\ NetGone(v)
          /\ vmRec' = [vmRec EXCEPT ![v] = "none"] /\ Deregistered(v)
          /\ vmStopping' = vmStopping \ {v}
       \/ Fault /\ vmNet[v] = "held" /\ UNCHANGED <<vmNet, vmRec, vmReg, vmStopping>>
    /\ UNCHANGED <<vmWant, vmMach, vmEngine, vmDisks, vmLost, vmWindow, vmDeaths>>

\* Faulty: the finalizer goes though the tap could not be withdrawn.
LetGoWithTap(v) ==
    /\ VmAt(v, "idle") /\ vmWant[v] = "deleting" /\ vmRec[v] = "none" /\ vmWindow = "none"
    /\ \/ UnwindLeaves(v, TRUE, {}, {}) /\ Fine
       \/ Fault /\ \E r \in Refusable(v) : UnwindLeaves(v, TRUE, r[1], r[2])
    /\ vmWant' = [vmWant EXCEPT ![v] = "gone"]
    /\ UNCHANGED <<vmAt, vmKnown, vmHeld, vmWindow, vmStopping, vmDeaths>>

\* The deletion's end: the last unwind, and the finalizer if no tap is held.
LetVmiGo(v) ==
    /\ VmAt(v, "idle") /\ vmWant[v] = "deleting" /\ vmRec[v] = "none" /\ vmWindow = "none"
    /\ \/ UnwindLeaves(v, TRUE, {}, {}) /\ Fine /\ vmWant' = [vmWant EXCEPT ![v] = "gone"]
       \/ /\ Fault
          /\ \E r \in Refusable(v) :
               /\ UnwindLeaves(v, TRUE, r[1], r[2])
               /\ vmWant' \in IF "tap" \in r[1] THEN {vmWant} ELSE {[vmWant EXCEPT ![v] = "gone"]}
    /\ UNCHANGED <<vmAt, vmKnown, vmHeld, vmWindow, vmStopping, vmDeaths>>

-----------------------------------------------------------------------------
(* The object, the guest and the kubelet. *)

Delete(v) ==
    /\ vmWant[v] = "wanted" /\ vmWant' = [vmWant EXCEPT ![v] = "deleting"]
    /\ Fine /\ UNCHANGED <<vmAt, vmKnown, vmEngine, vmHeld, vmWindow, vmStopping, vmDeaths>>

PowersOff(v) ==
    /\ vmMach[v] = "running" /\ vmMach' = [vmMach EXCEPT ![v] = "ended"]
    /\ Fine /\ UNCHANGED <<vmWant, vmAt, vmRec, vmReg, vmEngine, vmHeld, vmWindow, vmStopping, vmDeaths>>

AdoptedAs(v) ==
    CASE vmReg[v] = "none" -> "none" [] vmReg[v] = "asked" -> "blind" [] vmReg[v] = "handle" -> "running"

\* adopt_registered and restore_pod_networks.  The engine closes the deposits
\* of a connection that goes; whether its handles, it does not matter here.
VmDie ==
    /\ vmFaults + 2 <= MaxFaults /\ vmFaults' = vmFaults + 2
    /\ vmDeaths < MaxVmDeaths /\ vmDeaths' = vmDeaths + 1
    /\ vmAt' = [v \in Vms |-> "idle"] /\ vmWindow' = "none" /\ vmStopping' = {}
    /\ vmLedger' = [v \in Vms |-> {}] /\ vmOrphans' = {} /\ vmSlot' = "none"
    /\ vmRec' = [v \in Vms |-> AdoptedAs(v)]
    /\ LET idle == {v \in Vms : vmReg[v] = "none"} IN
         vmNet' \in {vmNet, [v \in Vms |-> IF v \in idle THEN "none" ELSE vmNet[v]]}
    /\ vmLost' = vmLost \cup {<<v, "disks">> : v \in {u \in Vms : vmReg[u] = "none" /\ vmDisks[u]}}
                         \cup {<<v, "machine">> : v \in {u \in Vms : vmReg[u] = "none" /\ vmMach[u] \in {"running", "ended"}}}
    /\ UNCHANGED <<vmWant, vmReg, vmMach, vmTaken, vmDisks>>

-----------------------------------------------------------------------------
VmInit ==
    /\ vmWant = [v \in Vms |-> "wanted"] /\ vmAt = [v \in Vms |-> "idle"]
    /\ vmRec = [v \in Vms |-> "none"] /\ vmReg = [v \in Vms |-> "none"]
    /\ vmMach = [v \in Vms |-> "none"] /\ vmTaken = [v \in Vms |-> {}]
    /\ vmSlot = "none" /\ vmLedger = [v \in Vms |-> {}] /\ vmOrphans = {}
    /\ vmDisks = [v \in Vms |-> FALSE] /\ vmNet = [v \in Vms |-> "none"]
    /\ vmWindow = "none" /\ vmStopping = {} /\ vmFaults = 0 /\ vmDeaths = 0
    /\ vmLost = {}

Starting(v) == BeginStart(v) \/ ResolveDisks(v) \/ AcquireNetwork(v) \/ DepositTap(v) \/ Register(v)
               \/ RegisterVolumes(v) \/ SpawnMachine(v) \/ UnwindFailed(v) \/ GiveBack(v) \/ Record(v)
StoppingVm(v) == AskToStop(v) \/ Detach(v) \/ ReleaseMachine(v) \/ ReleaseNetwork(v) \/ LetVmiGo(v)
VmPass(v) == Starting(v) \/ AbsorbEnd(v) \/ StoppingVm(v)

VmNext == (\E v \in Vms : VmPass(v) \/ StopOver(v) \/ Delete(v) \/ PowersOff(v)) \/ VmDie

Windowed(v) == BeginStart(v) \/ DepositTap(v) \/ LetVmiGo(v)

\* A pass follows every event, and the deadline every pass leaves (due_in); who
\* waits for the window has it in turn (a Mutex of tokio's is fair); a stop in
\* the background ends, one way or the other.
VmFairness == \A v \in Vms : /\ WF_vmVars(VmPass(v)) /\ SF_vmVars(Windowed(v))
                             /\ WF_vmVars(StopOver(v))

VmSpec == VmInit /\ [][VmNext]_vmVars /\ VmFairness

-----------------------------------------------------------------------------
(* Properties. *)

VmTypeOK ==
    /\ vmWant \in [Vms -> {"wanted", "deleting", "gone"}]
    /\ vmAt \in [Vms -> {"idle", "disks", "net", "window", "register", "handles", "spawn", "unwind",
                         "give back", "record", "release", "release net"}]
    /\ vmRec \in [Vms -> {"none", "blind", "running", "ended", "failed"}]
    /\ vmReg \in [Vms -> {"none", "asked", "handle"}]
    /\ vmMach \in [Vms -> {"none", "running", "ended", "released"}]
    /\ vmTaken \in [Vms -> SUBSET Handles] /\ vmLedger \in [Vms -> SUBSET Steps]
    /\ vmOrphans \subseteq Vms \X Handles /\ vmSlot \in Vms \cup {"none"}
    /\ vmDisks \in [Vms -> BOOLEAN] /\ vmNet \in [Vms -> {"none", "held"}]
    /\ vmWindow \in Vms \cup {"none"} /\ vmStopping \subseteq Vms

\* What a start has in the engine and no machine has, the ledger names,
\* whichever call failed and whoever unwinds meanwhile (#100); but for the
\* handles of a kubelet that died.  And a machine is spawned with its own tap,
\* though all are deposited under one name: whoever else starts, fails,
\* unwinds or goes, the deposit is there until then (vm_manager.rs:1556).
LeftoversNamed ==
    /\ vmSlot # "none" => "tap" \in vmLedger[vmSlot]
    /\ vmDeaths = 0 => \A v \in Vms : vmTaken[v] \subseteq vmLedger[v] \cup OrphansOf(v)
    /\ \A v \in Vms : vmAt[v] \in {"register", "handles", "spawn"} => vmSlot = v

\* A VMI that is let go leaves nothing its successor of the name would meet:
\* no machine, no disk, no deposit; but for what a failed start could not
\* give back, which no later pass looks for.
GoneLeavesNothing ==
    \A v \in Vms : vmWant[v] = "gone" =>
        /\ vmSlot # v
        /\ vmMach[v] \in {"running", "ended"} => <<v, "machine">> \in vmLost
        /\ vmDisks[v] => <<v, "disks">> \in vmLost

\* Neither a failed start nor a VMI let go leaves what nobody gives back.
NothingLeft == LeftoversNamed /\ GoneLeavesNothing

\* A machine whose handle is released and whose record is kept: every later
\* stop is refused (a stale handle).
Wedged(v) == vmMach[v] = "released" /\ vmRec[v] # "none"

\* A VMI has what it is to get: one wanted runs, has ended or is given up
\* on, and one deleted goes; but for one wedged, and one a dying kubelet left
\* with a registration and no handle, or with a machine and no registration.
Settled(v) ==
    \/ vmWant[v] = "wanted" /\ vmRec[v] \in {"running", "ended", "failed"}
    \/ vmWant[v] = "gone" \/ vmRec[v] = "blind" \/ Wedged(v) \/ <<v, "machine">> \in vmLost
=============================================================================
