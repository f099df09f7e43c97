------------------------------ MODULE VmHotplug ------------------------------
(***************************************************************************)
(* A running machine brought to its VMI's vCPUs, its interface on a NAD    *)
(* and its hot-pluggable disk (hotplug in vm_manager.rs, vm_hotplug.rs),   *)
(* while the spec changes.  What the machine was given is in memory, and   *)
(* on the node: the record, the registration's disks, the pod network's    *)
(* attachments.  A verb may be refused by the guest, a call may fail, the  *)
(* answer of one that is done may be lost, and the kubelet may die between *)
(* any two.                                                                *)
(***************************************************************************)
EXTENDS Naturals

CONSTANTS MaxSpecs,  \* bound: generations of the spec
          MaxSnags   \* bound: refusals, failures, answers lost, deaths

ASSUME VmHotplugAssumption == MaxSpecs \in Nat \ {0} /\ MaxSnags \in Nat

VARIABLES hpSpec,    \* the VMI: its generation and what it asks for
          hpSeen,    \* hot_seen: the generation looked at
          hpGuest,   \* what the machine has
          hpMem,     \* what this kubelet holds: hot_records, and vms' disks
          hpDisk,    \* the same on the node's disk: record file, registration
          hpNow,     \* the pass's copy of it
          hpAt,      \* the pass's next step
          hpTold,    \* what the pass is to say: synchronized, refused, waits
          hpIf,      \* the interface is in the sandbox (CNI ADD)
          hpNoted,   \* it is among the recorded attachments
          hpVol,     \* the disk's volume: absent, made, attached
          hpFresh,   \* fresh: the pass under way made it
          hpCut,     \* history: a verb done that no record has
          hpSnags

hpVars == <<hpSpec, hpSeen, hpGuest, hpMem, hpDisk, hpNow, hpAt, hpTold, hpIf, hpNoted, hpVol,
            hpFresh, hpCut, hpSnags>>
hpNet == <<hpIf, hpNoted>>
hpStore == <<hpVol, hpFresh>>
hpBooks == <<hpSpec, hpSeen, hpMem, hpDisk>>

Has(cpus, nic, disk) == [cpus |-> cpus, nic |-> nic, disk |-> disk]
Hardware == [cpus : 1..2, nic : BOOLEAN, disk : BOOLEAN]
AtBoot == Has(1, FALSE, FALSE)

Snag == hpSnags < MaxSnags /\ hpSnags' = hpSnags + 1
NoSnag == UNCHANGED hpSnags
Step(a) == hpAt = a
To(a) == hpAt' = a
Told == UNCHANGED hpTold
Refused == hpTold' = "refused"

\* A verb of the machine: done, refused, or done and its answer lost; the
\* machine and the pass's copy as they are then.
Verb(done) ==
    \/ hpGuest' = done[hpGuest] /\ hpNow' = done[hpNow] /\ Told /\ NoSnag /\ UNCHANGED hpCut
    \/ UNCHANGED <<hpGuest, hpNow, hpCut>> /\ Refused /\ Snag
    \/ hpGuest' = done[hpGuest] /\ hpGuest' # hpGuest /\ hpCut' = TRUE /\ UNCHANGED hpNow /\ Refused /\ Snag
With(part, v) == [m \in Hardware |-> [m EXCEPT ![part] = v]]

-----------------------------------------------------------------------------
(* hotplug: a pass looks at a generation it has not seen.                   *)

Begin ==
    /\ Step("idle") /\ hpSeen # hpSpec.gen
    /\ hpNow' = hpMem /\ hpTold' = "synchronized" /\ To("cpus")
    /\ UNCHANGED <<hpBooks, hpGuest, hpNet, hpStore, hpCut, hpSnags>>

SetVcpus ==
    /\ Step("cpus") /\ To("nic")
    /\ IF hpNow.cpus = hpSpec.want.cpus THEN UNCHANGED <<hpGuest, hpNow, hpTold, hpCut, hpSnags>>
       ELSE Verb(With("cpus", hpSpec.want.cpus))
    /\ UNCHANGED <<hpBooks, hpNet, hpStore>>

\* remove_hot_nic: the guest releases it, then detach_network.
RemoveNic ==
    /\ Step("nic") /\ hpNow.nic /\ ~hpSpec.want.nic
    /\ Verb(With("nic", FALSE)) /\ To(IF hpNow'.nic THEN "disk" ELSE "detach")
    /\ UNCHANGED <<hpBooks, hpNet, hpStore>>

\* detach_network: DEL, then its attachment; a DEL that fails keeps it.
DetachNic ==
    /\ Step("detach") /\ To("disk")
    /\ \/ hpNoted /\ hpIf' = FALSE /\ hpNoted' = FALSE /\ NoSnag
       \/ hpNoted /\ UNCHANGED hpNet /\ Snag
       \/ ~hpNoted /\ UNCHANGED hpNet /\ NoSnag
    /\ UNCHANGED <<hpBooks, hpGuest, hpNow, hpStore, hpTold, hpCut>>

\* attach_network: refused where the sandbox interface is recorded already;
\* recorded first, then ADD, which fails or is done.
NoteNic ==
    /\ Step("nic") /\ ~hpNow.nic /\ hpSpec.want.nic
    /\ IF hpNoted THEN To("disk") /\ Refused /\ UNCHANGED hpNoted
       ELSE To("add") /\ Told /\ hpNoted' = TRUE
    /\ UNCHANGED <<hpBooks, hpGuest, hpNow, hpIf, hpStore, hpCut, hpSnags>>
AddNetwork ==
    /\ Step("add")
    /\ \/ hpIf' = TRUE /\ To("plug nic") /\ Told /\ NoSnag
       \/ hpIf' \in BOOLEAN /\ To("detach") /\ Refused /\ Snag
    /\ UNCHANGED <<hpBooks, hpGuest, hpNow, hpNoted, hpStore, hpCut>>
PlugNic ==
    /\ Step("plug nic") /\ Verb(With("nic", TRUE)) /\ To(IF hpNow'.nic THEN "disk" ELSE "detach")
    /\ UNCHANGED <<hpBooks, hpNet, hpStore>>

NicStays ==
    /\ Step("nic") /\ hpNow.nic = hpSpec.want.nic /\ To("disk")
    /\ UNCHANGED <<hpBooks, hpGuest, hpNow, hpNet, hpStore, hpTold, hpCut, hpSnags>>

\* remove_hot_disk: the guest releases it, then its volume is detached; one
\* that is not stays on the machine's record.
RemoveDisk ==
    /\ Step("disk") /\ hpNow.disk /\ ~hpSpec.want.disk
    /\ \/ hpGuest' = [hpGuest EXCEPT !.disk = FALSE] /\ To("detach disk") /\ Told /\ NoSnag
       \/ UNCHANGED hpGuest /\ To("record") /\ Refused /\ Snag
       \/ hpGuest' = [hpGuest EXCEPT !.disk = FALSE] /\ To("record") /\ Refused /\ Snag
    /\ UNCHANGED <<hpBooks, hpNow, hpNet, hpStore, hpCut>>
DetachDisk ==
    /\ Step("detach disk") /\ To("record")
    /\ \/ hpVol' = "made" /\ hpNow' = [hpNow EXCEPT !.disk = FALSE] /\ Told /\ NoSnag
       \/ UNCHANGED <<hpVol, hpNow>> /\ Refused /\ Snag
    /\ UNCHANGED <<hpBooks, hpGuest, hpNet, hpFresh, hpCut>>

\* add_hot_disk: the volume found by its name or made, and attached; then the
\* plug.  A refused plug gives the attach back and deletes what was made.
AttachDisk ==
    /\ Step("disk") /\ ~hpNow.disk /\ hpSpec.want.disk
    /\ \/ hpVol' = "attached" /\ hpFresh' = (hpVol = "absent") /\ To("plug disk") /\ Told /\ NoSnag
       \/ UNCHANGED hpStore /\ To("record") /\ hpTold' \in {"refused", "waits"} /\ Snag
    /\ UNCHANGED <<hpBooks, hpGuest, hpNow, hpNet, hpCut>>
\* Faulty: a refused plug leaves the volume attached.
PlugDiskOnly ==
    /\ Step("plug disk") /\ To("record")
    /\ \/ ~hpGuest.disk /\ Verb(With("disk", TRUE))
       \/ hpGuest.disk /\ UNCHANGED <<hpGuest, hpNow, hpCut, hpSnags>> /\ Refused
    /\ UNCHANGED <<hpBooks, hpNet, hpStore>>

PlugDisk ==
    /\ Step("plug disk")
    /\ \/ /\ ~hpGuest.disk /\ Verb(With("disk", TRUE))
          /\ To(IF hpNow'.disk THEN "record" ELSE "give back")
       \/ hpGuest.disk /\ UNCHANGED <<hpGuest, hpNow, hpCut, hpSnags>> /\ Refused /\ To("give back")
    /\ UNCHANGED <<hpBooks, hpNet, hpStore>>
GiveBackDisk ==
    /\ Step("give back") /\ To("record")
    /\ hpVol' = (IF hpFresh THEN "absent" ELSE "made") /\ hpFresh' = FALSE
    /\ UNCHANGED <<hpBooks, hpGuest, hpNow, hpNet, hpTold, hpCut, hpSnags>>

DiskStays ==
    /\ Step("disk") /\ hpNow.disk = hpSpec.want.disk /\ To("record")
    /\ UNCHANGED <<hpBooks, hpGuest, hpNow, hpNet, hpStore, hpTold, hpCut, hpSnags>>

\* record_disks, then save; a write that fails is only said in the log.
RecordDisks ==
    /\ Step("record") /\ To("save") /\ hpFresh' = FALSE
    /\ \/ hpDisk' = [hpDisk EXCEPT !.disk = hpNow.disk] /\ NoSnag
       \/ hpDisk.disk # hpNow.disk /\ UNCHANGED hpDisk /\ Snag
    /\ UNCHANGED <<hpSpec, hpSeen, hpMem, hpGuest, hpNow, hpNet, hpVol, hpTold, hpCut>>
SaveRecord ==
    /\ Step("save") /\ To("done")
    /\ \/ hpDisk' = [hpNow EXCEPT !.disk = hpDisk.disk] /\ NoSnag
       \/ hpDisk # hpNow /\ UNCHANGED hpDisk /\ Snag
    /\ UNCHANGED <<hpSpec, hpSeen, hpMem, hpGuest, hpNow, hpNet, hpStore, hpTold, hpCut>>

\* The machine's record in memory, the status, the generation seen; a disk
\* that waits for its claim is asked again.
Finish ==
    /\ Step("done") /\ To("idle") /\ hpMem' = hpNow
    /\ hpSeen' = (IF hpTold = "waits" THEN hpSeen ELSE hpSpec.gen)
    /\ UNCHANGED <<hpSpec, hpDisk, hpGuest, hpNow, hpNet, hpStore, hpTold, hpCut, hpSnags>>

-----------------------------------------------------------------------------
(* Around it.                                                               *)

\* A change is read by the next pass; one under way has the object it began
\* with, and reconcile_one is handed the new one.
SpecChanges ==
    /\ hpSpec.gen < MaxSpecs /\ Step("idle")
    /\ \E w \in Hardware \ {hpSpec.want} : hpSpec' = [gen |-> hpSpec.gen + 1, want |-> w]
    /\ UNCHANGED <<hpSeen, hpMem, hpDisk, hpGuest, hpNow, hpAt, hpTold, hpNet, hpStore, hpCut, hpSnags>>

\* The kubelet dies: what it held is read again (adoption), the pass is gone.
HpDies ==
    /\ hpAt # "stopped" /\ Snag /\ To("idle") /\ hpMem' = hpDisk /\ hpSeen' = 0 /\ hpFresh' = FALSE
    /\ hpCut' = (hpCut \/ hpGuest.disk # hpDisk.disk \/ (~hpDisk.disk /\ hpVol = "attached"))
    /\ UNCHANGED <<hpSpec, hpDisk, hpGuest, hpNow, hpTold, hpNet, hpVol>>

\* stop: the machine goes, its recorded disks are detached and its recorded
\* attachments taken out; it is tried until all are.
Stops ==
    /\ Step("idle") /\ To("stopped")
    /\ hpGuest' = AtBoot /\ hpIf' = (hpIf /\ ~hpNoted) /\ hpNoted' = FALSE
    /\ hpVol' = (IF hpMem.disk /\ hpVol = "attached" THEN "made" ELSE hpVol)
    /\ UNCHANGED <<hpBooks, hpNow, hpTold, hpFresh, hpCut, hpSnags>>

HpInit ==
    /\ hpSpec = [gen |-> 1, want |-> AtBoot] /\ hpSeen = 1
    /\ hpGuest = AtBoot /\ hpMem = AtBoot /\ hpDisk = AtBoot /\ hpNow = AtBoot
    /\ hpAt = "idle" /\ hpTold = "synchronized" /\ hpIf = FALSE /\ hpNoted = FALSE
    /\ hpVol = "absent" /\ hpFresh = FALSE /\ hpCut = FALSE /\ hpSnags = 0

HotplugPass ==
    \/ Begin \/ SetVcpus \/ RemoveNic \/ DetachNic \/ NoteNic \/ AddNetwork \/ PlugNic \/ NicStays
    \/ RemoveDisk \/ DetachDisk \/ AttachDisk \/ PlugDisk \/ GiveBackDisk \/ DiskStays
    \/ RecordDisks \/ SaveRecord \/ Finish
HpNext == HotplugPass \/ SpecChanges \/ HpDies \/ Stops

HpSpec == HpInit /\ [][HpNext]_hpVars /\ WF_hpVars(HotplugPass)

-----------------------------------------------------------------------------

HpTypeOK ==
    /\ hpSpec \in [gen : 1..MaxSpecs, want : Hardware] /\ hpSeen \in 0..MaxSpecs
    /\ {hpGuest, hpMem, hpDisk, hpNow} \subseteq Hardware
    /\ hpAt \in {"idle", "cpus", "nic", "detach", "add", "plug nic", "disk", "detach disk", "plug disk",
                 "give back", "record", "save", "done", "stopped"}
    /\ {hpIf, hpNoted, hpFresh, hpCut} \subseteq BOOLEAN /\ hpTold \in {"synchronized", "refused", "waits"}
    /\ hpVol \in {"absent", "made", "attached"} /\ hpSnags \in 0..MaxSnags

\* Nothing is left in the sandbox that no record names, whenever the kubelet
\* dies and whatever the CNI refuses (attach_network: "recorded first").
SandboxNamed == hpIf => hpNoted

\* A disk the guest has is attached, and a machine that is stopped leaves none
\* attached (add_hot_disk, remove_hot_disk, stop); but for a verb whose answer
\* was lost and a kubelet that died before record_disks.
DiskFollowsGuest ==
    ~hpCut => /\ hpGuest.disk => hpVol = "attached"
              /\ hpAt = "stopped" => hpVol # "attached"

HotplugKeepsUp == SandboxNamed /\ DiskFollowsGuest

\* A pass looks at every generation, and says whether the machine has it.
GenerationSeen == hpAt = "stopped" \/ hpSeen = hpSpec.gen
=============================================================================
