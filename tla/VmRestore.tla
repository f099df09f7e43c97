------------------------------ MODULE VmRestore ------------------------------
(***************************************************************************)
(* A VirtualMachineRestore of a memory snapshot (vm_restore.rs), served by *)
(* the snapshot's node: each disk a new volume, with a claim and a PV; a   *)
(* volume of the saved memory; the VirtualMachine pointed at both; and the *)
(* start that resumes from the memory (prepare_resume, check_resume in     *)
(* vm_manager.rs).  A pass is a sequence of awaited calls, each of which   *)
(* may fail; the VM may be started and stopped between any two, and the    *)
(* kubelet or the node may die.  The VM controller, which makes and        *)
(* deletes the VMI, is outside.  One disk stands for the set.              *)
(***************************************************************************)
EXTENDS Naturals

CONSTANTS MaxRestoreAsks,      \* bound: times the VM is started and stopped
          MaxFailures     \* bound: calls that fail, deaths of kubelet and node

ASSUME VmRestoreAssumption == MaxRestoreAsks \in Nat /\ MaxFailures \in Nat

VARIABLES rsSnap,     \* the snapshot's phase
          rsGroup,    \* its group is in this node's stormblock
          rsMade,     \* what the restore has made: volume, claim, pv, state
          rsVm,       \* the VirtualMachine: its template, and whether it is to run
          rsVmi,      \* the VMI, with the template it was made from
          rsObj,      \* the restore: complete, and what its memory came to
          rsAt, rsRead,   \* the pass: the step it is at, the VirtualMachine it read
          rsEvent,    \* an event the maintenance loop has not served
          rsMachine,  \* the machine: off, loading the state, running
          rsTried, rsResuming,  \* resume_tried and resuming, of this VMI
          rsWritten,  \* the guest has written to the restored disk
          rsTorn,     \* history: a guest resumed on disks of a later instant
          rsAsks, rsFaults

rsVars == <<rsSnap, rsGroup, rsMade, rsVm, rsVmi, rsObj, rsAt, rsRead, rsEvent, rsMachine, rsTried,
            rsResuming, rsWritten, rsTorn, rsAsks, rsFaults>>
rsCluster == <<rsSnap, rsGroup>>
rsGuest == <<rsMachine, rsTried, rsResuming, rsWritten, rsTorn>>
rsPass == <<rsAt, rsRead>>

Failure == rsFaults < MaxFailures /\ rsFaults' = rsFaults + 1
NoFailure == UNCHANGED rsFaults
Event == rsEvent' = TRUE
NoEvent == UNCHANGED rsEvent

\* A VirtualMachine: its template's disk, the resume annotation on it, whether
\* it is to run.  NoVmi and NothingRead stand for none.
Template == [disk : {"old", "restored"}, note : BOOLEAN]
OldTemplate == [disk |-> "old", note |-> FALSE]
NewTemplate == [disk |-> "restored", note |-> TRUE]
NoVmi == [is |-> "none", of |-> OldTemplate]
NothingRead == [of |-> OldTemplate, match |-> FALSE]

\* A write to the VirtualMachine: a version read before no longer matches.
Updates(vm) == rsVm' = vm /\ rsRead' = [rsRead EXCEPT !.match = FALSE]

At(step) == rsAt = step
GoesTo(to) == rsAt' = to
GivesUp == rsAt' = "idle"

-----------------------------------------------------------------------------
(* restore_one, restore_steps.                                              *)

\* The snapshot is read, and has succeeded.
RsPass ==
    /\ At("idle") /\ rsEvent /\ rsEvent' = FALSE
    /\ LET due == rsObj.asked /\ ~rsObj.complete
       IN  \/ due /\ rsSnap = "Succeeded" /\ GoesTo("guest") /\ NoFailure
           \/ ~(due /\ rsSnap = "Succeeded") /\ GivesUp /\ NoFailure
           \/ due /\ GivesUp /\ Failure
    /\ UNCHANGED <<rsCluster, rsMade, rsVm, rsVmi, rsObj, rsRead, rsGuest, rsAsks>>

\* Stopped: no VMI.  api_object answers none for one that cannot be read.
RsLooksForGuest ==
    /\ At("guest")
    /\ \/ rsVmi.is = "none" /\ GoesTo("vm") /\ NoFailure
       \/ rsVmi.is # "none" /\ GivesUp /\ NoFailure
       \/ rsVmi.is # "none" /\ GoesTo("vm") /\ Failure
    /\ UNCHANGED <<rsCluster, rsMade, rsVm, rsVmi, rsObj, rsRead, rsEvent, rsGuest, rsAsks>>

RsReadsVm ==
    /\ At("vm")
    /\ \/ GoesTo("volume") /\ rsRead' = [of |-> [disk |-> rsVm.disk, note |-> rsVm.note], match |-> TRUE] /\ NoFailure
       \/ GivesUp /\ Failure /\ UNCHANGED rsRead
    /\ UNCHANGED <<rsCluster, rsMade, rsVm, rsVmi, rsObj, rsEvent, rsGuest, rsAsks>>

\* Faulty: a claim that is not written is taken for one that is there.
MakesUnsure(step, what, next) ==
    /\ At(step) /\ GoesTo(next)
    /\ \/ rsMade' = rsMade \cup {what} /\ NoFailure
       \/ UNCHANGED rsMade /\ Failure
    /\ UNCHANGED <<rsCluster, rsVm, rsVmi, rsObj, rsRead, rsGuest, rsAsks>>

\* from_snapshot, bind_restored: each found or made, under a name that is
\* the restore's.  What it makes in the engine is an event.
Makes(step, what, next) ==
    /\ At(step)
    /\ \/ GoesTo(next) /\ rsMade' = rsMade \cup {what} /\ NoFailure
       \/ GivesUp /\ UNCHANGED rsMade /\ Failure
       \/ GivesUp /\ rsMade' = rsMade \cup {what} /\ Failure
    /\ UNCHANGED <<rsCluster, rsVm, rsVmi, rsObj, rsRead, rsGuest, rsAsks>>
InEngine == rsEvent' = (rsEvent \/ rsMade' # rsMade)

RsVolume == rsGroup /\ Makes("volume", "volume", "claim") /\ InEngine
RsClaim == Makes("claim", "claim", "pv") /\ NoEvent
RsPv == Makes("pv", "pv", "state") /\ NoEvent
RsState == rsGroup /\ Makes("state", "state", "rewire") /\ InEngine

\* The group is gone from this node: an error.
RsNoGroup ==
    /\ rsAt \in {"volume", "state"} /\ ~rsGroup /\ GivesUp
    /\ UNCHANGED <<rsCluster, rsMade, rsVm, rsVmi, rsObj, rsRead, rsEvent, rsGuest, rsAsks, rsFaults>>

\* rewired, and the resume: the whole VirtualMachine against the version read.
RsRewires ==
    /\ At("rewire")
    /\ LET put == Updates([rsVm EXCEPT !.disk = NewTemplate.disk, !.note = NewTemplate.note]) /\ Event
           as_is == UNCHANGED <<rsVm, rsRead>> /\ NoEvent
       IN  \/ rsRead.of = NewTemplate /\ as_is /\ GoesTo("status") /\ NoFailure
           \/ rsRead.of # NewTemplate /\ rsRead.match /\ put /\ GoesTo("status") /\ NoFailure
           \/ rsRead.of # NewTemplate /\ rsRead.match /\ put /\ GivesUp /\ Failure
           \/ rsRead.of # NewTemplate /\ rsRead.match /\ as_is /\ GivesUp /\ Failure
           \/ rsRead.of # NewTemplate /\ ~rsRead.match /\ as_is /\ GivesUp /\ NoFailure
    /\ UNCHANGED <<rsCluster, rsMade, rsVmi, rsObj, rsGuest, rsAsks>>

\* complete; one that is not written is only said in the log.
RsSaysComplete ==
    /\ At("status") /\ GivesUp
    /\ \/ rsObj' = [rsObj EXCEPT !.complete = TRUE, !.memory = "pending"] /\ NoFailure
       \/ UNCHANGED rsObj /\ Failure
    /\ UNCHANGED <<rsCluster, rsMade, rsVm, rsVmi, rsRead, rsEvent, rsGuest, rsAsks>>

-----------------------------------------------------------------------------
(* The machine: start_attempt, prepare_resume, check_resume, finish_resume.  *)

Says(outcome) == rsObj' = [rsObj EXCEPT !.memory = outcome]
DropsState == rsMade' = rsMade \ {"state"} /\ rsEvent' = TRUE
Startable == rsVmi.of.disk = "restored" => {"volume", "claim", "pv"} \subseteq rsMade
ToResume == rsVmi.of.note /\ ~rsTried

\* prepare_resume: the note is taken off the template first; a patch that is
\* refused is only said in the log.
Consumes == \/ Updates([rsVm EXCEPT !.note = FALSE]) /\ NoFailure
            \/ UNCHANGED <<rsVm, rsRead>> /\ Failure

StartsCold ==
    /\ rsVmi.is = "made" /\ rsMachine = "off" /\ Startable /\ ~ToResume
    /\ rsMachine' = "running"
    /\ UNCHANGED <<rsCluster, rsMade, rsVm, rsVmi, rsObj, rsPass, rsEvent, rsTried, rsResuming,
                   rsWritten, rsTorn, rsAsks, rsFaults>>

StartsFromState ==
    /\ rsVmi.is = "made" /\ rsMachine = "off" /\ Startable /\ ToResume
    /\ rsTried' = TRUE /\ Consumes /\ Event
    /\ IF "state" \in rsMade
       THEN rsMachine' = "loading" /\ rsResuming' = TRUE /\ UNCHANGED rsObj
       ELSE rsMachine' = "running" /\ UNCHANGED rsResuming /\ Says("cold-boot")
    /\ UNCHANGED <<rsCluster, rsMade, rsVmi, rsAt, rsWritten, rsTorn, rsAsks>>

\* The machine has the state and its guest runs from it.
GuestResumes ==
    /\ rsMachine = "loading" /\ rsMachine' = "running"
    /\ rsTorn' = (rsTorn \/ (rsVmi.of.disk = "restored" /\ rsWritten))
    /\ UNCHANGED <<rsCluster, rsMade, rsVm, rsVmi, rsObj, rsPass, rsEvent, rsTried, rsResuming,
                   rsWritten, rsAsks, rsFaults>>

\* check_resume: it runs; the state has served and is deleted.
ResumeOver ==
    /\ rsResuming /\ rsMachine = "running" /\ rsResuming' = FALSE
    /\ DropsState /\ Says("resumed")
    /\ UNCHANGED <<rsCluster, rsVm, rsVmi, rsPass, rsMachine, rsTried, rsWritten, rsTorn, rsAsks, rsFaults>>

\* check_for_exits, check_resume: the state is refused or does not load in
\* time; the machine is stopped, and started again cold.
ResumeFails ==
    /\ rsResuming /\ rsMachine = "loading" /\ Failure
    /\ rsResuming' = FALSE /\ rsMachine' = "off" /\ DropsState /\ Says("cold-boot")
    /\ UNCHANGED <<rsCluster, rsVm, rsVmi, rsPass, rsTried, rsWritten, rsTorn, rsAsks>>

RestoredGuestWrites ==
    /\ rsMachine = "running" /\ rsVmi.of.disk = "restored" /\ ~rsWritten /\ rsWritten' = TRUE
    /\ UNCHANGED <<rsCluster, rsMade, rsVm, rsVmi, rsObj, rsPass, rsEvent, rsMachine, rsTried, rsResuming,
                   rsTorn, rsAsks, rsFaults>>

-----------------------------------------------------------------------------
(* Outside: the user, the VM controller, the snapshot, deaths.               *)

AsksRestore ==
    /\ ~rsObj.asked /\ rsObj' = [rsObj EXCEPT !.asked = TRUE]
    /\ UNCHANGED <<rsCluster, rsMade, rsVm, rsVmi, rsPass, rsEvent, rsGuest, rsAsks, rsFaults>>

StartsOrStops ==
    /\ rsAsks < MaxRestoreAsks /\ rsAsks' = rsAsks + 1
    /\ Updates([rsVm EXCEPT !.run = ~@]) /\ Event
    /\ UNCHANGED <<rsCluster, rsMade, rsVmi, rsObj, rsAt, rsGuest, rsFaults>>

MakesVmi ==
    /\ rsVm.run /\ rsVmi.is = "none"
    /\ rsVmi' = [is |-> "made", of |-> [disk |-> rsVm.disk, note |-> rsVm.note]] /\ Event
    /\ UNCHANGED <<rsCluster, rsMade, rsVm, rsObj, rsPass, rsMachine, rsTried, rsResuming, rsWritten,
                   rsTorn, rsAsks, rsFaults>>

\* The VM is to stop: its VMI goes once the machine is stopped.
DeletesVmi ==
    /\ ~rsVm.run /\ rsVmi.is = "made" /\ rsVmi' = NoVmi /\ Event
    /\ rsMachine' = "off" /\ rsTried' = FALSE /\ rsResuming' = FALSE
    /\ UNCHANGED <<rsCluster, rsMade, rsVm, rsObj, rsPass, rsWritten, rsTorn, rsAsks, rsFaults>>

SnapshotEnds ==
    /\ rsSnap = "pending" /\ \E p \in {"Succeeded", "Failed"} : rsSnap' = p
    /\ rsGroup' = (rsSnap' = "Succeeded") /\ Event
    /\ UNCHANGED <<rsMade, rsVm, rsVmi, rsObj, rsPass, rsGuest, rsAsks, rsFaults>>

\* The snapshot is deleted, and its group with it.
SnapshotGoes ==
    /\ rsGroup /\ rsGroup' = FALSE /\ rsSnap' = "gone" /\ Event
    /\ UNCHANGED <<rsMade, rsVm, rsVmi, rsObj, rsPass, rsGuest, rsAsks, rsFaults>>

\* The kubelet dies: the machine runs on and is adopted.  With the node the
\* machine goes too, and the VMI is started again.  A worker begins with a pass.
RsDies(machine) ==
    /\ Failure /\ GivesUp /\ rsTried' = FALSE /\ rsResuming' = FALSE /\ rsMachine' = machine /\ Event
    /\ UNCHANGED <<rsCluster, rsMade, rsVm, rsVmi, rsObj, rsRead, rsWritten, rsTorn, rsAsks>>
RsKubeletDies == RsDies(rsMachine)
RsNodeDies == rsMachine # "off" /\ RsDies("off")

RsInit ==
    /\ rsSnap = "pending" /\ rsGroup = FALSE /\ rsMade = {}
    /\ rsVm = [disk |-> "old", note |-> FALSE, run |-> TRUE]
    /\ rsVmi = [is |-> "made", of |-> OldTemplate]
    /\ rsObj = [asked |-> FALSE, complete |-> FALSE, memory |-> "none"]
    /\ rsAt = "idle" /\ rsRead = NothingRead /\ rsEvent = TRUE
    /\ rsMachine = "running" /\ rsTried = FALSE /\ rsResuming = FALSE
    /\ rsWritten = FALSE /\ rsTorn = FALSE /\ rsAsks = 0 /\ rsFaults = 0

PassStep ==
    \/ RsPass \/ RsLooksForGuest \/ RsReadsVm \/ RsVolume \/ RsClaim \/ RsPv \/ RsState \/ RsNoGroup
    \/ RsRewires \/ RsSaysComplete
Kubelet == StartsCold \/ StartsFromState \/ ResumeOver
Controller == MakesVmi \/ DeletesVmi

RsNext ==
    \/ PassStep \/ Kubelet \/ Controller
    \/ GuestResumes \/ ResumeFails \/ RestoredGuestWrites
    \/ AsksRestore \/ StartsOrStops \/ SnapshotEnds \/ SnapshotGoes
    \/ RsKubeletDies \/ RsNodeDies

RsFairness ==
    /\ WF_rsVars(PassStep) /\ WF_rsVars(Kubelet) /\ WF_rsVars(Controller) /\ WF_rsVars(GuestResumes)

RsSpec == RsInit /\ [][RsNext]_rsVars /\ RsFairness

-----------------------------------------------------------------------------

RsTypeOK ==
    /\ rsSnap \in {"pending", "Succeeded", "Failed", "gone"} /\ rsGroup \in BOOLEAN
    /\ rsMade \subseteq {"volume", "claim", "pv", "state"}
    /\ rsVm \in [disk : {"old", "restored"}, note : BOOLEAN, run : BOOLEAN]
    /\ rsVmi \in [is : {"none", "made"}, of : Template]
    /\ rsObj \in [asked : BOOLEAN, complete : BOOLEAN, memory : {"none", "pending", "resumed", "cold-boot"}]
    /\ rsAt \in {"idle", "guest", "vm", "volume", "claim", "pv", "state", "rewire", "status"}
    /\ rsRead \in [of : Template, match : BOOLEAN] /\ rsEvent \in BOOLEAN
    /\ rsMachine \in {"off", "loading", "running"}
    /\ {rsTried, rsResuming, rsWritten, rsTorn} \subseteq BOOLEAN
    /\ rsAsks \in 0..MaxRestoreAsks /\ rsFaults \in 0..MaxFailures

\* The VirtualMachine names a restored claim only once the claim is bound to a
\* volume of its data, and a restore that is complete is whole
\* (restore_steps): whatever failed and died on the way, and whenever.  Where
\* nothing fails and nobody dies, no guest resumes from a memory older than its
\* disks.
RestoreWhole ==
    /\ rsVm.disk = "restored" => {"volume", "claim", "pv"} \subseteq rsMade
    /\ rsObj.complete => rsVm.disk = "restored"
    /\ rsTorn => rsFaults > 0

\* vm_restore.rs:65-68 "the next start resumes from this saved state (#251), one
\* time"; README.md:977-981 "the VMI tries once".
ResumedOnce == ~rsTorn

\* README.md:961: an interrupted restore finishes on the next pass: one that
\* could be served is, some time.
RestoreServed ==
    <>[](rsObj.asked /\ rsSnap = "Succeeded" /\ ~rsVm.run) => <>rsObj.complete
=============================================================================
