----------------------------- MODULE MCMachines -----------------------------
(***************************************************************************)
(* The parts of the VM manager and the CSI volumes it shares with the      *)
(* Pods, explored one at a time, which one is chosen in the initial state: *)
(* a machine's start and stop, a live migration, the move of a disk, a     *)
(* volume and its holders, a snapshot, a restore, a running machine's      *)
(* changes.                                                                *)
(***************************************************************************)
EXTENDS VmMachine, VmMigration, VmDiskMove, CsiVolumes, VmSnapshot, VmRestore, VmHotplug

VARIABLE scene

StartStop == scene = "machine" /\ VmNext
                /\ UNCHANGED <<mgVars, dmVars, cvVars, snVars, rsVars, hpVars>>
Migration == scene = "migration" /\ MgNext
                /\ UNCHANGED <<vmVars, dmVars, cvVars, snVars, rsVars, hpVars>>
DiskMove == scene = "disk move" /\ DmNext
                /\ UNCHANGED <<vmVars, mgVars, cvVars, snVars, rsVars, hpVars>>
Volume == scene = "volume" /\ CvNext
                /\ UNCHANGED <<vmVars, mgVars, dmVars, snVars, rsVars, hpVars>>
Snapshot == scene = "snapshot" /\ SnNext
                /\ UNCHANGED <<vmVars, mgVars, dmVars, cvVars, rsVars, hpVars>>
Restore == scene = "restore" /\ RsNext
                /\ UNCHANGED <<vmVars, mgVars, dmVars, cvVars, snVars, hpVars>>
Hotplug == scene = "hotplug" /\ HpNext
                /\ UNCHANGED <<vmVars, mgVars, dmVars, cvVars, snVars, rsVars>>

MachinesVars == <<vmVars, mgVars, dmVars, cvVars, snVars, rsVars, hpVars, scene>>

MachinesInit ==
    /\ scene \in {"machine", "migration", "disk move", "volume", "snapshot", "restore", "hotplug"}
    /\ VmInit /\ MgInit /\ DmInit /\ CvInit /\ SnInit /\ RsInit /\ HpInit
    \* What only a snapshot's initial states differ in, once in the other scenes.
    /\ scene # "snapshot" => snKeep /\ snReg = {CHOOSE n \in Holders : TRUE}

MachinesNext ==
    /\ UNCHANGED scene
    /\ StartStop \/ Migration \/ DiskMove \/ Volume \/ Snapshot \/ Restore \/ Hotplug

\* Each part's fairness (VmFairness, MgFairness, DmFairness, CvFairness, SnFairness,
\* RsFairness, HpSpec's), where it is the one that runs.
Where(s, A) == scene = s /\ A
MachinesFairness ==
    /\ \A v \in Vms : /\ WF_vmVars(Where("machine", VmPass(v)))
                      /\ SF_vmVars(Where("machine", Windowed(v)))
                      /\ WF_vmVars(Where("machine", StopOver(v)))
    /\ WF_mgVars(Where("migration", MigrateOut)) /\ WF_mgVars(Where("migration", MigrateIn))
    /\ WF_mgVars(Where("migration", Copy)) /\ WF_mgVars(Where("migration", Transfer))
    /\ \A n \in Nodes : /\ WF_mgVars(Where("migration", FinishForced(n)))
                        /\ WF_mgVars(Where("migration", Land(n)))
                        /\ WF_mgVars(Where("migration", Watch(n)))
    /\ WF_dmVars(Where("disk move", MovePass))
    /\ \A i \in 1..MaxMoves : WF_dmVars(Where("disk move", InSync(i)))
    /\ \A u \in Users : WF_cvVars(Where("volume", UserPass(u)))
    /\ \A s \in Sweeps : WF_cvVars(Where("volume", SweepStep(s)))
    /\ \A n \in Holders : /\ WF_snVars(Where("snapshot", SnPass(n)))
                          /\ WF_snVars(Where("snapshot", SnReach(n)))
                          /\ WF_snVars(Where("snapshot", SnUnfinalize(n)))
                          /\ WF_snVars(Where("snapshot", SnBegin(n)))
                          /\ WF_snVars(Where("snapshot", SnCut(n)))
                          /\ WF_snVars(Where("snapshot", SnFinish(n)))
    /\ WF_rsVars(Where("restore", PassStep)) /\ WF_rsVars(Where("restore", Kubelet))
    /\ WF_rsVars(Where("restore", Controller)) /\ WF_rsVars(Where("restore", GuestResumes))
    /\ WF_hpVars(Where("hotplug", HotplugPass))

MachinesSpec == MachinesInit /\ [][MachinesNext]_MachinesVars /\ MachinesFairness

\* The type invariants of the seven.
MachinesTypeOK ==
    /\ VmTypeOK /\ MgTypeOK /\ DmTypeOK /\ CvTypeOK
    /\ SnTypeOK /\ RsTypeOK /\ HpTypeOK

\* What a machine has, on the node and of the engine, is what its record says:
\* through its start, undo and stop (VmMachine) and its changes while it runs
\* (VmHotplug).
MachineKept == NothingLeft /\ HotplugKeepsUp

\* A snapshot is one take's and a restore whole or not there (vm_snapshot.rs,
\* vm_restore.rs).
CopiesKept == SnapshotsKept /\ RestoreWhole

\* Whatever is begun is brought to an end, whatever fails and dies meanwhile
\* (reconcile_one's due_in, POLL, vm_maintenance_loop): every VMI is settled
\* (VmMachine), a migration moved or failed with both halves tidied
\* (VmMigration), a disk's move over and its guest run again (VmDiskMove), the
\* volumes of holders that are gone given back (CsiVolumes), a snapshot taken,
\* failed or gone (VmSnapshot), every generation of a running machine's spec
\* looked at (VmHotplug).
MachinesSettle ==
    <>[](/\ scene = "machine" => \A v \in Vms : Settled(v)
         /\ scene = "migration" => MigrationOver
         /\ scene = "disk move" => MoveEnded
         /\ scene = "volume" => GoneGiveBack
         /\ scene = "snapshot" => SnapshotOver
         /\ scene = "hotplug" => GenerationSeen)
=============================================================================
