----------------------------- MODULE VmMigration -----------------------------
(***************************************************************************)
(* A VMI's live migration (vm_manager.rs, vm_migration.rs; #40): the       *)
(* source's and the target's kubelets, which speak only through the VMI's  *)
(* status.migrationState, each over a copy of the VMI that may be old; the *)
(* writes they make of it, which may be lost; the disk's mirror in         *)
(* stormstorage; the two machines and the transfer between them.  A pass   *)
(* and the write it ends in are two steps.  Either kubelet may die.        *)
(***************************************************************************)
EXTENDS Naturals

CONSTANTS Src, Dst,     \* the nodes
          MaxMishaps,   \* bound: calls refused, writes lost, copies and transfers that fail
          MaxDeaths     \* bound: restarts of a kubelet

ASSUME MigrationAssumption == Src # Dst /\ MaxMishaps \in Nat /\ MaxDeaths \in Nat

Nodes == {Src, Dst}
Fields == {"target", "disks", "ready", "started", "completed", "failed", "abort"}

VARIABLES mgApi,      \* the fields of migrationState that are set
          mgSeen,     \* the same, as each kubelet's pass is handed it
          mgWrite,    \* the write each kubelet's pass ends in
          mgMachine,  \* the machine on each node
          mgKept,     \* where each kubelet keeps it: vms, incoming, forced
          mgSent,     \* sent has this migration
          mgReported, \* incoming.reported
          mgXfer,     \* the memory's transfer, as the source's qemu says
          mgMirror,   \* the disk's migration, as stormstorage says
          mgMishaps, mgDeaths,
          mgGuest,    \* history: where the guest's memory is
          mgExcused   \* history: see GuestKept

mgVars == <<mgApi, mgSeen, mgWrite, mgMachine, mgKept, mgSent, mgReported, mgXfer, mgMirror,
            mgMishaps, mgDeaths, mgGuest, mgExcused>>
mgOutside == <<mgXfer, mgMirror, mgGuest>>
mgTold == <<mgApi, mgSeen>>
mgMemory == <<mgSent, mgReported>>

Mishap == mgMishaps < MaxMishaps /\ mgMishaps' = mgMishaps + 1
NoMishap == UNCHANGED mgMishaps
Writes(n, w) == mgWrite' = [mgWrite EXCEPT ![n] = w]
Keeps(n, k) == mgKept' = [mgKept EXCEPT ![n] = k]

\* Completed, and not failed after all.
Moved(o) == "completed" \in o /\ "failed" \notin o
Active(o) == "completed" \notin o /\ "failed" \notin o
\* The last pass, and its write, are over.
MayPass(n) == mgWrite[n] = "none"
\* The node's engine has a machine, its disks attached.
Attached(n) == mgMachine[n] \notin {"none", "gone"}

-----------------------------------------------------------------------------
(* The source's pass: migrate_out. *)

\* The guest runs on the target: this copy is paused and must never run again.
LetGo ==
    /\ MayPass(Src) /\ Moved(mgSeen[Src]) /\ mgKept[Src] = "vms"
    /\ Keeps(Src, "forced")
    /\ NoMishap /\ UNCHANGED <<mgTold, mgWrite, mgMachine, mgMemory, mgOutside, mgDeaths, mgExcused>>

\* abort_disks: refused as long as the target has the copy attached.
AbortDisks ==
    /\ MayPass(Src) /\ {"failed", "disks"} \subseteq mgSeen[Src]
    /\ mgMirror \notin {"aborted", "completed"} /\ ~ Attached(Dst)
    /\ mgMirror' = "aborted"
    /\ NoMishap /\ UNCHANGED <<mgTold, mgWrite, mgMachine, mgKept, mgMemory, mgXfer, mgGuest, mgDeaths, mgExcused>>

Started == "started" \in mgSeen[Src] \/ mgSent
Aborting == "abort" \in mgSeen[Src]
SourcePass(o) == MayPass(Src) /\ Active(o) /\ mgKept[Src] = "vms" /\ (Aborting => Started)

FailEarly ==
    /\ MayPass(Src) /\ Active(mgSeen[Src]) /\ mgKept[Src] = "vms" /\ Aborting /\ ~ Started
    /\ Writes(Src, "failed")
    /\ NoMishap /\ UNCHANGED <<mgTold, mgMachine, mgKept, mgMemory, mgOutside, mgDeaths, mgExcused>>

\* The disks first: a mirror, to be recorded on the VMI.  Refused if there is
\* one already (the object is from before the record).
Mirror ==
    /\ SourcePass(mgSeen[Src]) /\ "target" \in mgSeen[Src] /\ "disks" \notin mgSeen[Src]
    /\ \/ mgMirror = "none" /\ mgMirror' = "copying" /\ Writes(Src, "disks") /\ NoMishap
       \/ mgMirror # "none" /\ Writes(Src, "failed") /\ NoMishap /\ UNCHANGED mgMirror
       \/ mgMirror = "none" /\ Mishap /\ Writes(Src, "failed") /\ UNCHANGED mgMirror
    /\ UNCHANGED <<mgTold, mgMachine, mgKept, mgMemory, mgXfer, mgGuest, mgDeaths, mgExcused>>

\* Once the target is ready.  A machine that has sent already refuses.
SendMemory ==
    /\ SourcePass(mgSeen[Src]) /\ {"disks", "ready"} \subseteq mgSeen[Src] /\ ~ Started
    /\ \/ /\ mgXfer = "none" /\ mgXfer' = "active" /\ mgSent' = TRUE
          /\ Writes(Src, "started") /\ NoMishap
          /\ mgExcused' = (mgExcused \/ "failed" \in mgApi)
       \/ /\ mgXfer # "none" /\ Writes(Src, "failed")
          /\ NoMishap /\ UNCHANGED <<mgXfer, mgSent, mgExcused>>
       \/ /\ mgXfer = "none" /\ Mishap /\ Writes(Src, "failed")
          /\ UNCHANGED <<mgXfer, mgSent, mgExcused>>
    /\ UNCHANGED <<mgTold, mgMachine, mgKept, mgReported, mgMirror, mgGuest, mgDeaths>>

\* cancel is taken by a machine that has sent everything, too.
AbortSending ==
    /\ SourcePass(mgSeen[Src]) /\ "disks" \in mgSeen[Src] /\ Started /\ Aborting
    /\ Writes(Src, "failed")
    /\ mgXfer' = (IF mgXfer = "active" THEN "cancelled" ELSE mgXfer)
    /\ mgExcused' = (mgExcused \/ mgXfer = "completed")
    /\ NoMishap /\ UNCHANGED <<mgTold, mgMachine, mgKept, mgMemory, mgMirror, mgGuest, mgDeaths>>

\* Faulty: any end is reported as a success.
OverIsCompleted(x) == "completed"
\* What the transfer's end is reported as.
Outcome(x) == IF x = "completed" THEN "completed" ELSE "failed"

Progress ==
    /\ SourcePass(mgSeen[Src]) /\ "disks" \in mgSeen[Src] /\ Started /\ ~ Aborting
    /\ mgXfer # "active" /\ Writes(Src, Outcome(mgXfer))
    /\ NoMishap /\ UNCHANGED <<mgTold, mgMachine, mgKept, mgMemory, mgOutside, mgDeaths, mgExcused>>

-----------------------------------------------------------------------------
(* The target's pass: migrate_in. *)

\* Adopted.
Arrive ==
    /\ MayPass(Dst) /\ Moved(mgSeen[Dst]) /\ mgKept[Dst] = "incoming"
    /\ Keeps(Dst, "vms")
    /\ NoMishap /\ UNCHANGED <<mgTold, mgWrite, mgMachine, mgMemory, mgOutside, mgDeaths, mgExcused>>

\* finish_disks: a cut-over refused leaves a failed mirror, started again; a
\* source's volume is retired once its machine has let it go.
FinishDisks ==
    /\ MayPass(Dst) /\ Moved(mgSeen[Dst]) /\ mgKept[Dst] = "vms" /\ "disks" \in mgSeen[Dst]
    /\ \/ mgMirror = "synced" /\ mgMirror' = "cut_over" /\ NoMishap
       \/ mgMirror = "synced" /\ Mishap /\ mgMirror' = "failed"
       \/ mgMirror = "cut_over" /\ ~ Attached(Src) /\ mgMirror' = "completed" /\ NoMishap
       \/ mgMirror = "failed" /\ mgMirror' = "copying" /\ NoMishap
    /\ UNCHANGED <<mgTold, mgWrite, mgMachine, mgKept, mgMemory, mgXfer, mgGuest, mgDeaths, mgExcused>>

\* A receiver a restarted kubelet found.
GiveUpFound ==
    /\ MayPass(Dst) /\ Active(mgSeen[Dst]) /\ mgKept[Dst] = "vms"
    /\ Keeps(Dst, "forced") /\ Writes(Dst, "failed")
    /\ mgExcused' = TRUE
    /\ NoMishap /\ UNCHANGED <<mgTold, mgMachine, mgMemory, mgOutside, mgDeaths>>

Unsent == "abort" \in mgSeen[Dst] /\ "started" \notin mgSeen[Dst]
TargetPass(o) == MayPass(Dst) /\ Active(o) /\ mgKept[Dst] # "vms" /\ ~ Unsent

\* The source may not have seen the abort, nor its startTimestamp be here.
AbortReceiving ==
    /\ MayPass(Dst) /\ Active(mgSeen[Dst]) /\ Unsent /\ mgKept[Dst] = "incoming"
    /\ Keeps(Dst, "forced")
    /\ mgExcused' = (mgExcused \/ "ready" \in mgApi)
    /\ NoMishap /\ UNCHANGED <<mgTold, mgWrite, mgMachine, mgMemory, mgOutside, mgDeaths>>

\* A receiving machine on the copy, once it is in sync.
Receive ==
    /\ TargetPass(mgSeen[Dst]) /\ mgKept[Dst] = "none" /\ "disks" \in mgSeen[Dst]
    /\ \/ /\ mgMirror = "synced" /\ NoMishap
          /\ mgMachine' = [mgMachine EXCEPT ![Dst] = "inmigrate"] /\ Keeps(Dst, "incoming")
          /\ mgReported' = FALSE /\ Writes(Dst, "ready")
       \/ /\ mgMirror \in {"failed", "aborted"} /\ NoMishap
          /\ Writes(Dst, "failed") /\ UNCHANGED <<mgMachine, mgKept, mgReported>>
       \/ /\ mgMirror = "synced" /\ Mishap
          /\ Writes(Dst, "failed") /\ UNCHANGED <<mgMachine, mgKept, mgReported>>
    /\ UNCHANGED <<mgTold, mgSent, mgOutside, mgDeaths, mgExcused>>

ReportReady ==
    /\ TargetPass(mgSeen[Dst]) /\ mgKept[Dst] = "incoming" /\ ~ mgReported
    /\ Writes(Dst, "ready")
    /\ NoMishap /\ UNCHANGED <<mgTold, mgMachine, mgKept, mgMemory, mgOutside, mgDeaths, mgExcused>>

\* A failed migration's VMI is not the target's any more: its pass has no object.
Leave ==
    /\ MayPass(Dst) /\ "failed" \in mgSeen[Dst] /\ mgKept[Dst] \in {"incoming", "vms"}
    /\ Keeps(Dst, "forced")
    /\ NoMishap /\ UNCHANGED <<mgTold, mgWrite, mgMachine, mgMemory, mgOutside, mgDeaths, mgExcused>>

-----------------------------------------------------------------------------
(* Both. *)

\* finish_forced: the engine's stop, the disks detached, the handle released.
FinishForced(n) ==
    /\ mgKept[n] = "forced"
    /\ mgMachine' = [mgMachine EXCEPT ![n] = "gone"] /\ Keeps(n, "none")
    /\ NoMishap /\ UNCHANGED <<mgTold, mgWrite, mgMemory, mgOutside, mgDeaths, mgExcused>>

\* The rest of the pass: a VMI that is this node's, with no machine here, and
\* not moved away, is started.
StartCold(n) ==
    /\ MayPass(n) /\ mgKept[n] = "none"
    /\ \/ n = Src /\ ~ Moved(mgSeen[n]) /\ mgMachine[n] = "gone"
       \/ n = Dst /\ Moved(mgSeen[n])
    /\ mgMachine' = [mgMachine EXCEPT ![n] = "running"] /\ Keeps(n, "vms")
    /\ NoMishap /\ UNCHANGED <<mgTold, mgWrite, mgMemory, mgOutside, mgDeaths, mgExcused>>

\* The write lands and is known to; or it is not known to.  Mirrors that could
\* not be recorded are aborted.
Land(n) ==
    /\ mgWrite[n] # "none"
    /\ \/ /\ mgApi' = mgApi \cup {mgWrite[n]} /\ NoMishap
          /\ mgReported' = (mgReported \/ mgWrite[n] = "ready")
          /\ Writes(n, "none") /\ UNCHANGED mgMirror
       \/ /\ Mishap /\ mgApi' \in {mgApi, mgApi \cup {mgWrite[n]}} /\ UNCHANGED mgReported
          /\ IF mgWrite[n] = "disks" THEN mgMirror' = "aborted" /\ Writes(n, "failed")
             ELSE UNCHANGED mgMirror /\ Writes(n, "none")
    /\ UNCHANGED <<mgSeen, mgMachine, mgKept, mgSent, mgXfer, mgDeaths, mgGuest, mgExcused>>

Watch(n) ==
    /\ mgSeen[n] # mgApi /\ mgSeen' = [mgSeen EXCEPT ![n] = mgApi]
    /\ NoMishap /\ UNCHANGED <<mgApi, mgWrite, mgMachine, mgKept, mgMemory, mgOutside, mgDeaths, mgExcused>>

\* adopt_registered: a machine is found again by its registration, whatever it
\* was being done with; the first list is of now.
Die(n) ==
    /\ mgDeaths < MaxDeaths /\ mgDeaths' = mgDeaths + 1
    /\ Keeps(n, IF mgKept[n] = "none" THEN "none" ELSE "vms")
    /\ Writes(n, "none") /\ mgSeen' = [mgSeen EXCEPT ![n] = mgApi]
    /\ mgSent' = (mgSent /\ n # Src) /\ mgReported' = (mgReported /\ n # Dst)
    /\ mgExcused' = (mgExcused \/ (n = Src /\ mgSent /\ "started" \notin mgApi))
    /\ NoMishap /\ UNCHANGED <<mgApi, mgMachine, mgOutside>>

-----------------------------------------------------------------------------
(* Outside: the control plane, stormstorage, the hypervisors. *)

\* The scheduler chooses the target; an abort is asked for.
Ask ==
    /\ Active(mgApi) /\ NoMishap
    /\ \E f \in {"target", "abort"} \ mgApi : mgApi' = mgApi \cup {f}
    /\ UNCHANGED <<mgSeen, mgWrite, mgMachine, mgKept, mgMemory, mgOutside, mgDeaths, mgExcused>>

Copy ==
    /\ mgMirror = "copying"
    /\ \/ mgMirror' = "synced" /\ NoMishap
       \/ Mishap /\ mgMirror' = "failed"
    /\ UNCHANGED <<mgTold, mgWrite, mgMachine, mgKept, mgMemory, mgXfer, mgGuest, mgDeaths, mgExcused>>

\* The stream ends with the source paused and the guest running on the target.
Transfer ==
    /\ mgXfer = "active"
    /\ \/ /\ mgMachine[Dst] = "inmigrate" /\ mgXfer' = "completed" /\ mgGuest' = Dst
          /\ mgMachine' = [mgMachine EXCEPT ![Src] = "paused", ![Dst] = "running"] /\ NoMishap
       \/ /\ mgXfer' = "failed" /\ (IF mgMachine[Dst] = "inmigrate" THEN Mishap ELSE NoMishap)
          /\ UNCHANGED <<mgMachine, mgGuest>>
    /\ UNCHANGED <<mgTold, mgWrite, mgKept, mgMemory, mgMirror, mgDeaths, mgExcused>>

-----------------------------------------------------------------------------
MgInit ==
    /\ mgApi = {} /\ mgSeen = [n \in Nodes |-> {}] /\ mgWrite = [n \in Nodes |-> "none"]
    /\ mgMachine = [n \in Nodes |-> IF n = Src THEN "running" ELSE "none"]
    /\ mgKept = [n \in Nodes |-> IF n = Src THEN "vms" ELSE "none"]
    /\ mgSent = FALSE /\ mgReported = FALSE /\ mgXfer = "none" /\ mgMirror = "none"
    /\ mgMishaps = 0 /\ mgDeaths = 0
    /\ mgGuest = Src /\ mgExcused = FALSE

MigrateOut == LetGo \/ AbortDisks \/ FailEarly \/ Mirror \/ SendMemory \/ AbortSending \/ Progress
MigrateIn == Arrive \/ FinishDisks \/ GiveUpFound \/ AbortReceiving \/ Receive \/ ReportReady \/ Leave
Outside == Ask \/ Copy \/ Transfer

MgNext ==
    \/ MigrateOut \/ MigrateIn \/ Outside
    \/ \E n \in Nodes : FinishForced(n) \/ StartCold(n) \/ Land(n) \/ Watch(n) \/ Die(n)

\* A pass runs on every event and, while a migration lasts, every POLL; the
\* watch delivers; a copy and a transfer end, one way or the other.
MgFairness ==
    /\ WF_mgVars(MigrateOut) /\ WF_mgVars(MigrateIn) /\ WF_mgVars(Copy) /\ WF_mgVars(Transfer)
    /\ \A n \in Nodes : WF_mgVars(FinishForced(n)) /\ WF_mgVars(Land(n)) /\ WF_mgVars(Watch(n))

MgSpec == MgInit /\ [][MgNext]_mgVars /\ MgFairness

-----------------------------------------------------------------------------
(* Properties. *)

MgTypeOK ==
    /\ mgApi \subseteq Fields /\ mgSeen \in [Nodes -> SUBSET Fields]
    /\ mgWrite \in [Nodes -> Fields \cup {"none"}]
    /\ mgMachine \in [Nodes -> {"none", "inmigrate", "running", "paused", "gone"}]
    /\ mgKept \in [Nodes -> {"none", "incoming", "vms", "forced"}]
    /\ mgXfer \in {"none", "active", "completed", "failed", "cancelled"}
    /\ mgMirror \in {"none", "copying", "synced", "failed", "cut_over", "completed", "aborted"}
    /\ mgGuest \in Nodes

\* The machine with the guest's memory runs, and it alone: whichever writes are
\* lost and however old the objects the two passes are handed, nobody stops it,
\* and nobody runs the other (#40).  Five races are excepted: a target kubelet
\* that restarts while it receives, a source kubelet that sends again because
\* its startTimestamp was lost with it, one whose pass is handed an object from
\* before its own failed and sends, an abort that reaches the target before the
\* source, and one that reaches the source after the last byte.
GuestKept ==
    ~ mgExcused => /\ mgMachine[mgGuest] = "running"
                   /\ \A n \in Nodes \ {mgGuest} : mgMachine[n] # "running"

\* A migration ends, and both halves with it, whatever writes, copies, cut-overs
\* and transfers failed on the way: moved, the source's machine is let go and
\* the disk is the target's; failed, the receiver is gone and the mirror that
\* was recorded is aborted (docs/status.md:36).
MigrationOver ==
    \/ "target" \notin mgApi \/ mgExcused
    \/ Moved(mgApi) /\ mgMirror = "completed" /\ mgMachine[Src] = "gone"
    \/ "failed" \in mgApi /\ ~ Attached(Dst) /\ ("disks" \in mgApi => mgMirror = "aborted")
=============================================================================
