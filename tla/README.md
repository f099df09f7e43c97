# rustkube-node in TLA+

rustkube-node is the node side of a Kubernetes cluster: a kubelet that runs
Pods and KubeVirt-style virtual machines, a CNI library, a service proxy and the
retry library they share.  This directory holds its specifications: TLA+
modules translated from the Rust source, TLC runs that check them on small
instances, and TLAPS proofs of what must hold for every instance.

Source paths below are relative to `src/`; `kubelet/` is `pkg/kubelet/src/`.

## 1. Inventory

| Part | Source | State it keeps | Operations | What makes it correct | Module |
|---|---|---|---|---|---|
| Admission table | `kubelet/workload.rs` 139-322 | holders and owned (one relation, two indexes), wait sets, one mutation lock per claim | acquire, seed, release, try_operations, reclaim | no conflicting holders but those recovery records; a refused key is woken; the two indexes agree | `Reservations` |
| Workload executor | `kubelet/workload.rs` 330-530 | desired objects by source, work queue, parked keys | replace_source, wake_*, park, run | a change is never missed by the pass it overtakes; one pass per key | `Workloads` |
| Listing loops, startup admission, recovery | `kubelet/kubelet.rs` | pods_synced, vmis_synced, static_read_complete | run_inner, sync, load_static_pods, vm_loop, seed_names, seed_claims, admission_open, release_parked, reconcile | nothing starts on what an adopted workload holds; nothing adopted is forgotten; cleanup before release | `Workloads` |
| Pod lifecycle | `kubelet/pod_manager.rs` | one PodState per UID: sandbox, containers, counts, phase | sync_pods_observed, start_pod, init containers, check_pod_status, restart_container, stop_pod_within, recover_state | one sandbox per Pod, init order, sidecars last, restartPolicy, no deletion confirmed too early | `PodLifecycle` |
| Probes | `pod_manager.rs` check_pod_status, `deadlines.rs`, `health.rs` | failures, last runs, startup_passed, ready, next look | run_probe, restart on failure, next_look | nobody killed for less than its threshold; ready means probed; somebody always looks again | `Probes` |
| CSI volumes | `kubelet/pod_manager/csi_volumes.rs`, `csi.rs` | staged and published volumes, records on disk, a lock per volume | mount_csi, publish, teardown, two sweeps | on record while there, never taken from a holder that is up | `CsiVolumes` |
| Volumes of claims | `pod_manager.rs`, `system_claims.rs`, `storage.rs` | claims, PVs, volumes, blanks, room in the slab | provision, late bind, mint, reclaim | no mounted volume deleted, no data handed to another claim, the slab not overcommitted | `ClaimVolumes` |
| VM manager | `kubelet/vm_manager.rs` | one machine per UID, its registration, the ledger of undo steps, the deposit window | adopt_registered, reconcile_one, launch, unwind, stop | what a failed start left is undone, by name; nothing of a gone VMI is left | `VmMachine` |
| Live migration | `vm_manager.rs`, `vm_migration.rs` | status.migrationState, incoming, sent, the disk's mirror | migrate_out, migrate_in, abort, cut-over | the machine with the guest's memory runs, and it alone | `VmMigration` |
| Disk move | `vm_disk_move.rs`, `vm_manager.rs` | the record of the move, copies | move_disks, switch_disk_over, retire_disk_source | the guest's device holds what it wrote | `VmDiskMove` |
| Snapshot, restore | `vm_snapshot.rs`, `vm_restore.rs` | object's owner, phase, content; restored claims and volumes | claim, take, finish, release; restore_steps, prepare_resume | one taker; content deleted first; a restore whole or not there | `VmSnapshot`, `VmRestore` |
| Hotplug | `vm_hotplug.rs`, `vm_manager.rs` | hot_records, registration's disks, attachments | hotplug, add_hot_disk | nothing in the sandbox no record names | `VmHotplug` |
| Engine ring client | `kubelet/stormpump_ring.rs` | requests in flight, abandoned and orphaned; the shared arena; undo queue; exit waiters | request, place, expire, undo_late, wait_exit | every call is answered; nothing the engine made late is left without an owner; payloads never overlap | `Ring`, `EngineCalls` |
| stormpump runtime | `kubelet/stormpump_runtime.rs` | records of containers and sandboxes, unclaimed exits, failed networks | create, start, stop, note_exits, finish_removal, run/stop/remove_pod_sandbox | records neither behind what is held nor behind what was reported | `Containers`, `Networks` |
| CRI and gRPC clients | `cri*.rs`, `runtime.rs`, `engine.rs` | none | calls | translation of calls | - |
| Crash-loop back-off | `kubelet/crashloop.rs` | a delay per container, and its file | record, ready, save, restore | a delay survives a restart and concurrent saves | `CrashLoop` |
| The Node object | `kubelet/node_status.rs`, `kubelet.rs` | the Node, the boot id, KVM's label | register, heartbeat, put_node_status | what others wrote and what a reboot must show survive two writers | `NodeObject` |
| Lease, health, events, statistics | `node_health.rs`, `events.rs`, `capacity.rs`, `metrics.rs` | last report | periodic writes | reports only | - |
| Static Pod mirrors | `static_mirror.rs`, `mirror.rs`, `fs_watch.rs` | mirror per manifest | create, delete | one mirror per manifest | - |
| Server: exec, logs, attach, port forward | `server.rs`, `exec.rs`, `spdy.rs` | streams | byte copying | framing | - |
| CNI address management | `pkg/cni/src/ipam.rs` | an address per container, in files | allocate, release, load | no address twice but for ADDs that ran at once; none lost | `Networks` |
| CNI plumbing | `pkg/cni/src/{bridge,vxlan,ebpf_encap,invoker}.rs` | kernel devices | add, delete | all or undone | `Networks`, in part |
| Service proxy | `pkg/proxy/src/` | service map, last applied rules, UDP backends | sync_once, apply, conntrack deletes | flows follow the rules | `Proxy` |
| Retry library | `pkg/retry/src/lib.rs` | attempts | send_inner | bounded; no unrepeatable request repeated | - |
| Programs, tests, packaging | `cmd/`, `test/`, `packaging/`, `deploy/` | - | - | wiring | - |

**How they interact.**  Watches and the manifest directory wake the two listing
loops.  A loop lists, gives the managers the specs, reserves what adopted
workloads hold and publishes the whole list as one source of the executor.  The
executor keeps one key per UID, runs at most `--pod-workers` passes at once and
never two for one key.  A pass asks startup admission, reads the claims, acquires
name and claims in one call, takes the per-claim mutation locks and calls the Pod
or VM manager, which provisions and stages volumes, makes a sandbox or a machine
(through the ring client when the engine is stormpump) and writes status.  A pass
that finds its object gone or being deleted stops, tears down, acknowledges and
releases; the release puts on the queue everyone who was refused over what it
held.

**What is hard here.**  Passes of several workloads interleave at every await.
A crash loses all memory but not the runtime, the staged volumes, the records on
disk or the objects.  Lists are read, then awaited on, then acted on.  Calls time
out while the other side still acts on them.  Stops and starts are many steps and
each may fail.  PROJECT.json lists each such hazard at its line.

## 2. How the project is laid out

A module per component, named after what it models; `MC...` modules that give TLC
the instances; `...Proofs` modules with the theorems.  Every await of the code is a
boundary between two actions, so the other tasks, the cluster and a crash come
between any two of them.  A counter that bounds an adversary (faults, crashes,
changes) is named `Max...`; the proofs hold for every value of it.

Components that share no state are explored side by side rather than multiplied:
a variable chosen in the initial state says which one runs (`part` in MCParts,
`scene` in MCMachines, MCRing and MCShared, `place` in MCNode), the others stay
as they are, and the run's properties are the conjunction over all of them.

| | Module | Proofs | State |
|---|---|---|---|
| A | `Reservations` | `ReservationsProofs` | all its properties proved |
| B | `Workloads` | `WorkloadsProofs` | safety proved, liveness checked |
| C | `EngineCalls`, `Ring` | `RingProofs` | safety and the refinement proved, liveness checked |
| D | `PodLifecycle`, `Probes` | `PodProofs`, `NodeProofs` | safety proved but for `ContainersInOrder`, liveness checked |
| E | `Containers`, `Networks`, `CrashLoop`, `Proxy` | `PartsProofs` | safety proved, liveness checked |
| F | `VmMachine`, `VmMigration`, `VmSnapshot`, `VmRestore`, `VmHotplug` | `MachinesProofs` | safety proved, liveness checked |
| G | `VmDiskMove`, `CsiVolumes` | `VolumeProofs` | safety proved, liveness checked |
| H | `ClaimVolumes`, `NodeObject` | `NodeProofs` | safety proved, liveness checked |

Left to do: a proof of `ContainersInOrder`; static Pod mirrors and their seeding;
the retry library; a finer model of `stop_pod_within` on CRI runtimes.

## 3. Runs

| Run | Instance | Properties |
|---|---|---|
| **shared** (MCShared) | a Pod and a static Pod sharing a claim and a VM that wants it; scene "table": every method of the admission table by every key in any order; scene "node": every world a dead kubelet can leave (`Restart`) with one workload on its way out at most (`OneLeaves`), two workers | `ClaimExclusion`, `ClaimMutationsSerialized`, `TableKept`, `NoLostWake`, `NeverDowngraded` |
| **pods** (MCWorkloads) | a Pod and a Pod of the same name made after it; two workers; 4 changes of the cluster, one failure of any kind but a seed's, one crash, one spurious wake | `NameExclusion`, `NothingForgotten`, `CleanupConfirmed` |
| **live** (MCWorkloads) | two Pods on a ReadWriteOncePod claim, one worker, from `Restart`, one change, any one failure | `GoneIsReleased`, `LastOneRuns` |
| **ring** (MCRing) | scene 1: a device mount and two queries whose payloads do not all fit, a submission queue of one; scene 2: a spawn whose workload ends when it likes, a request larger than the arena, a thread that may be stuck; scene 3: two spawns answered in time, one exit remembered at most | `PayloadIntact`, `GivenUpIsUndone`, `ExitHeard`, `CallsKept`, `EveryCallAnswered`, `LateUndone` |
| **pod_life** (MCPod) | an init container, a sidecar after it, an app container with a liveness probe; Always and OnFailure; a CRI runtime and stormpump; two troubles (failed calls, ended processes) of which one may be a crash; five containers in all | `PodTypeOK`, `SandboxKept`, `ContainersInOrder`, `DeletedIsGone`, `ComesBack` |
| **parts** (MCParts) | a container, another lister, a stray exit; three sandboxes over two free addresses; two crash-looping containers; a Service port with two ClusterIPs and two backends at two port numbers | `PartsTypeOK`, `RecordsKept`, `NetworksKept`, `DelayIsKept`, `FlowsFollowRules`, `PartsSettle` |
| **machines** (MCMachines) | two VMIs, one that tries once; one migration; one disk, two moves, three nodes; a Pod and a VM on one CSI volume and both sweeps; a snapshot on two nodes; a restore; three generations of a running VMI's spec | `MachinesTypeOK`, `MachineKept`, `GuestKept`, `GuestHasItsData`, `VolumeKept`, `CopiesKept`, `MachinesSettle` |
| **node** (MCNode) | two claims over room for one, each made again once; two boots of a node, two restarts, deletions or flips of KVM; a container with all three probes | `NodeTypeOK`, `ClaimsKept`, `NodeKept`, `ProbesKept`, `NodeSettles` |
| **seed_fails** | a Pod and a VM on one claim that cannot be read while seeding | `ClaimExclusion` is violated (finding 1) |
| **sweep** | one static Pod with a claim | `StartKeepsVolumes` is violated (finding 2) |
| **pod_restart** | a restart's start refused on stormpump | `DeletedIsGone` is violated (finding 3) |
| **node_taints** | a heartbeat before the registration is through | `RegisteredTainted` is violated (finding 4) |

*Why these bounds.*  Every conflict the table and the executor settle is between two
workloads, so two keys show it; three are used where a shared hold is contended by
an exclusive one.  One failure and one crash reach every half-done step, as each
may hit at any point.  `Restart` is the full set of worlds a crash leaves, which
makes an earlier life unnecessary in the runs that start from it.  In the ring, three
payloads in an arena of four bytes aligned to two are the least that make two
regions live together while a third waits, is freed a place or runs out of time;
a queue of one entry makes it full whenever anything else is on it.  In the Pod, two
troubles combine a half-done call with a crash, or two half-done calls; more of
either only repeats them, the passes being the same from then on.  In the other
components two actors are the least that race, and two or three mishaps the least
that make an undo itself fail.  Where safety is proved, the bounds matter only to
liveness and to the runs' own sanity: the theorems take the bounds as parameters.

Deadlock checking is on in **ring**, whose thread always has a step, and off
elsewhere: with the bounds used up and everything started or stopped, the system
rests.

## 4. Modules

### Reservations

`workload.rs` 139-322.  Every method of the table runs under one mutex and is one
step: `Acquire` (all of a request or none of it: `Granted` or `Refused`), `Seed`,
`Release`, `TryOperations`; `DropOperations` is the end of the pass that holds the
guards, `Take` the executor taking a key off its queue.  `reclaim` (the node-volumes
endpoint) is an acquire and a release by a key of its own, which the model's keys
stand for.  `Requested`, `Conflicts`, `Merged` and `Record` are the loops of
`acquire`; `Woken`, `WaitersWithout` and `HoldersWithout` those of `release`.
`seeded` is a history variable: whose reservation is a recorded fact.  The ready
queue is a set: only membership matters to the table.

| Property | What would break it |
|---|---|
| `TableKept` | a release that leaves a hold `owned` does not list, a wait set that outlives the hold it waits on, an acquire beside another holder |
| `NoLostWake` | a release that queues only some of the waiters of what it gave back, or drops a waiter that it does not queue |
| `NeverDowngraded` | a later shared request, or a seed, weakening an exclusive hold |

### Workloads

Extends the table.  What survives a crash is `api` (objects, or manifests for static
Pods), `up` (what the runtime has) and `staged` (volumes staged on the node).  The
rest is memory: the table, `record` (the managers' map: none, adopted without a
spec, with a spec), `desired`, `synced`, `parked`, `timer`, `pass` (where each key's
pass stands, with the object and the claims it read when it began) and `loop`
(where each listing loop stands, with its list).

| Code | Actions |
|---|---|
| `run_inner`, `recover_state`, `adopt_registered`, `seed_names` (repeated until they succeed, before anything else runs) | `Boot` |
| `load_static_pods`, `sync` | `BeginPods`, `List`, `Cache`, `Known`, `SeedOne`, `SeedFails`, `Mark`, `Publish`, `Wake` of loop "pods"; the static list is published before the Pods are listed |
| `vm_loop` | the same of loop "vms" from `BeginVms`; `Mark` comes after `Publish` here, before it for Pods, as in the code |
| `Executor::run` | `Pop`; `Fail`, `Again`, `Done` for what it makes of a result |
| `Kubelet::reconcile`, live object | `Admit`, `Park`, `Recheck`, `ReadClaims`, `Reserve`, `Report`, `Operate`, `Mount`, `Launch`, `AlreadyUp`, `StartFails`, `Status`, `Done` |
| `Kubelet::reconcile`, object deleting or gone | `LockForStop`, `StopRuntime`, `Unstage`, `StopFails`, `Stopped`, `Acknowledge`, `LetGo`, `Done` |
| `sweep_csi_volumes`, `sweep_orphans` | `Sweep` |
| the process | `Crash` |
| the cluster (external) | `Create`, `Delete`, `Vanish` in `ApiChange` |
| `WorkQueue` (external): one active pass per key, a key added meanwhile stays queued, delayed keys | `Pop`'s guard, `ready`, `TimerFires` |

Objects are their existence and deletion mark; a timer may fire at any time; a
volume is the pair of its claim and its workload.  A 404 for the VMI resource is
left out; `HasVms = FALSE` is a node with no VM manager.  `MountRefused` is the
second guard `other_pod_holding` puts behind the table for ReadWriteOncePod claims.
`ClaimMutationsSerialized` speaks of the claims a pass really stages or unstages, not of the
locks it has: a stop locks what its key owns, and the key of a workload adopted and never
seeded owns no claim.  Such a stop may run beside another stop, and beside a start too when no
record of the workload is left (see Observations); while there is a record, admission keeps
every start out.
The CSI teardown is one step, `Unstage`; its own steps are in `CsiVolumes`.

*Fairness.*  Weak fairness of `Boot`, of each loop, of each pass, of timers and of the
sweeps: all are tokio tasks or timers.  Strong fairness of `Pop`: the queue is first
in, first out (`docs/event-driven-design.md:21`), so a queued key is not passed over
for ever while a worker comes free again and again.  The cluster is under no
fairness.  `GoneIsReleased` and `LastOneRuns` fail if a back-off is dropped, if a
vanished object is not queued, or if a parked key is not woken.

### EngineCalls and Ring

`EngineCalls.tla` is what a caller is promised, with no ring in it: a call is
answered once; *done*, and the caller owns what the engine made; *refused*, and
nothing was made; or *given up*, and what was or will be made is taken back, unless
the engine will not let go of it.  `Ring.tla` is `stormpump_ring.rs`, and implements
it with `thing <- Thing` (what the engine has of a handle) and the same `status`:
the property `CallsKept`.  One thread owns the ring and loops; `at` says where it
stands.

| Code | Actions |
|---|---|
| `request_within`, its own wait of twice the deadline | `Send`, `Ageing`, `StopWaiting` |
| the thread: undo requests first | `SubmitUndo`, `UndoneForNow` |
| then the parked, oldest first, then one new request; `place` | `RetryParked`, `RetriedAll`, `Receive`, `NothingReceived`, through `Place` |
| then every completion; `Outstanding::complete`, `undo_late` | `Complete` (`Answered` or `AnsweredLate`), `ExitReported`, `Drained` |
| then deadlines: `Outstanding::expire`, `parked.retain` | `Expire`, `Retain`, `RetainedAll` |
| `Slots::take`, `Slots::free` | `Taken`, `Freed` over `Offset`, `Fits`, `FirstFit`, `Up` |
| `ExitWaiters` | `WaitExit`, `Remember` |
| the engine (external) | `Dispatch`, `Answer`, `Exit` |

A caller makes one request, and the handle the engine gives back is the caller's
name.  Time is `age`: a deadline may pass at any step, and twice the deadline only
for callers in `Stuck`, whose thread may be held up that long.  The engine takes
entries in order, answers them in any order or never, and reports a spawn before
that workload's exit.  Stopping what runs is not refused; stopping what has exited
may be; a release may be refused (`kept`).  Every request carries its settled signal
here; in the code only a device mount does, and only of those does a property speak.
Left out: descriptors deposited out of band, a payload too long for an `ArenaRef`
(answered like a full ring), the drained exit queue and the broadcast, the end of the
client, the id a full ring costs an undo request.

*Fairness.*  The thread runs and time passes; nothing is assumed of the engine, so
`EveryCallAnswered` is the deadline's doing.  `LateUndone` has the engine's part as its
hypothesis: it answers what it was sent, and what it stops ends.

### PodLifecycle

One Pod's whole life call by call (`pod_manager.rs`), on a CRI runtime ("cri": it
outlives the kubelet, a stop waits for the end, removing a sandbox removes its
containers) or stormpump ("ring": its records are the kubelet's memory, a stop
signals, a removal refused while the process runs is still owed, a sandbox with
container records is not removed).  The executor runs one pass per Pod at a time, so
the Pod is alone.  `pass.at` is the step of the pass at work; `rec` is PodState, `box`
and `con` the runtime's account, `hidden` the removals stormpump still owes, `inited`
the history of what has completed in this sandbox, `strays` that of the sandboxes the
manager has no record of: a CRI runtime made one and the answer was lost
(`pod_manager.rs:3742` returns by `?`), or a recovery adopted another of the same Pod
(2899, `contains_key`).  A stray is there until a recovery adopts it.  `SandboxKept`
speaks of the others, whatever else fails.

| Code | Actions |
|---|---|
| `sync_pods_observed`, the tear-down before a retry | `Begin` |
| `start_pod`: the sandbox, the init containers and sidecars one by one, the apps; `cleanup_partial_start` | `Sandbox`, `SkipInit`, `CreateInit`, `StartInit`, `LookAtInit`, `CreateApp`, `StartApp`; `FailStart` |
| `check_pod_status`: container states, restarts, missing ones, the end by policy | `CheckOne`, `CreateMissing`, `Conclude`, `FinishSidecar` |
| `restart_container`, its calls one by one | `Replace`, `Recreate`, `Restart` |
| `stop_finished_sandbox` | `ReleaseBox` |
| `stop_pod_within` | `StopApps`, `RemoveApps`, `StopSidecar`, `StopSandbox`, `RemoveSandbox`, `Forget` |
| `Kubelet::reconcile`, `write_pod_status` | `Acknowledge`, `WriteStatus` |
| `recover_state`; the process | `Boot`; `Crash` |
| the back-offs' ends, the executor's list | `BackoffEnds`, `HoldoffEnds`, `List` |
| the runtime's exits; the cluster (external) | `End`; `Delete`, `Vanish` |

*Fairness.*  The pass goes on; the executor lists and a dead kubelet is started again;
crash-loop back-offs and hold-offs are timers; a process told to stop ends (the
runtime kills it after the grace period), and an init container ends.  Apps and
sidecars owe nothing.

`Survivable`, the faults of the run **pod_life**, leaves out a restart's stop that
fails ("replace") and, on stormpump, a restart's start ("restart", finding 3) and a
finished Pod's sidecar that fails ("finish").

### Probes

A container's three probes (`check_pod_status`, `deadlines.rs`, `health.rs`): a pass
reads the container's state, runs the probes that are due one call after the other,
kills and makes again what failed often enough, and says when it must look again.
Nothing else brings the pass back but the container's exit: `pbDue = Never` with a
container that still needs a look would be a probe nobody runs.  `pbHist` counts the
failures in a row of this start, by kind, which `KillsAreEarned` compares with the one
counter (`liveness_failures`) the startup and liveness probes share.  A remake that fails
has stopped and removed the container, or been refused either (`Leftovers`); what it says
of `ready` depends on where it failed (`NotMade`).  `ReadyIsProbed`: none is ready that
was not probed, or was taken away, but for one look (RECHECK) after a remake that failed
early.  *Fairness*: time passes; a pass begins at its deadline and goes on.

### Containers, Networks, CrashLoop, Proxy

*Containers* is the stormpump runtime's account of containers: a Pod's own calls
(create, mount, define, start, stop, remove), and any caller that drains the exits,
notes them and goes on with the removals they unblock.  A call to the engine and the
note of its answer are two steps.  `RecordsKept`: nothing is held that no record names
(`HeldIsRecorded`), and an exit read before its handle was recorded reaches the record
unless UNCLAIMED_EXITS others came after it (`ExitOnItsWay`).

*Networks* is a sandbox's namespace, CNI ADD and DEL, the failed ADDs still to be undone
and the plugin's allocation files.  Each plugin command is a process: it reads all
files, picks the lowest free address, writes its own.  `NetworksKept`: two sandboxes
have one address only if their ADDs overlapped, and an address taken is somebody's to
give back, in a namespace that is still there.

*CrashLoop* is the back-off table and its file: each save takes a snapshot, opens (and
empties) the one temporary file, writes and renames it.  `DelayIsKept` compares the
table with `crWant`, what it would be had the kubelet never died.  A kubelet that dies in
the middle of a save has, of the container whose pass was saving, what was there before
or after the change, and of every other what it had; only what is read after saves of two
passes that overlapped, with none alone since, may be anything (they share the temporary
file, and a torn file is a fresh start), and what comes after that is kept again.

*Proxy* is kube-proxy's pass: two lists, the rules, their application, the deletes of
stale UDP flows; clients send (to a ClusterIP, or by the NodePort) and the cluster changes
between any two calls, a Service deleted and made again with another ClusterIP included.
A delete is one `conntrack -D` and takes what its arguments match.  `FlowsFollowRules` says
what that achieves, and names what it does not: the first endpoint clears the flows to the
ClusterIP alone (conntrack.rs:50-52), so one sent by NodePort before it keeps going nowhere;
the deletes name the ClusterIP of now, so flows by one that was replaced under the same name
between two passes stay; addresses are compared, not port numbers.

*Fairness.*  Whoever notes exits goes on; a Pod being stopped comes back for its
sandbox; what is told to stop ends.  The proxy's pass goes on, and rules older than
`resync_interval` are applied again, the same or not.

### VmMachine, VmHotplug

*VmMachine* is one worker's passes over each VMI: attach, network, then, inside one
window for all machines, the tap deposited, volumes registered, a spec defined, the
machine spawned; what fails is in a ledger (`vmLedger`) the next pass undoes, and what
cannot be undone goes to `vmOrphans`.  `NothingLeft`: whatever the engine has of a failed
start is named by a ledger, a machine is spawned with its own tap, and a VMI let go
leaves nothing but what `vmLost` names.  *VmHotplug* is a running machine brought to a new
generation of its spec: vCPUs, an interface, a disk.  `MachineKept` is both.

*Fairness.*  A pass follows every event and every `due_in` deadline; a tokio Mutex hands
the window on in turn (strong fairness of `Windowed`); a stop in the background ends.

### VmMigration, VmDiskMove

*VmMigration* is two kubelets that speak only through `status.migrationState`, each over
a copy that may be old, with writes that may be lost, the disk's mirror and the memory's
transfer.  `GuestKept` follows the guest's memory (`mgGuest`).  `mgExcused` names the five
races in which the code does stop it or run another: a target that restarts while it
receives, a source that sends again because its startTimestamp was lost with it, one
whose pass is handed an object from before its own failed and sends, an abort that
reaches the target before the source, and one that reaches the source after the last
byte.

*VmDiskMove* is the switch of a running disk to its copy: pause, cut over, attach, switch,
resume, retire.  `GuestHasItsData`: the guest's device is on a volume that is there and is
not behind, unless a start looked for the volume by its name though the data is in a copy
(`dmAstray`, see Observations).  `MoveEnded`: the move ends and the guest runs again, unless
the code left it paused (`dmFrozen`): an unpause refused, a pause answered with an error, a
kubelet dead once the switch was on record.  Pausing a guest that is paused and running one
that runs change nothing (QMP's `stop` and `cont`).

*Fairness.*  Passes run on every event and every POLL while something is in flight; a copy
and a transfer end one way or the other; the watch delivers.

### VmSnapshot, VmRestore

*VmSnapshot*: a node that runs the VM claims the object against the version it read, takes
the snapshot in the background, says what came of it, and on deletion removes content,
then finalizer.  `CopiesKept` has `SnapshotsKept`: one taker (`OneTaker`), content deleted
before the object is let go (`ContentGoesFirst`).  *VmRestore*: volume, claim, PV and saved
memory, then the VirtualMachine pointed at them; `RestoreWhole`.  *Fairness*: any VM's,
VMI's or snapshot's event is a pass of `vm_maintenance_loop`, and a take tells it is over;
a restore's pass, the kubelet and the controller go on.

### CsiVolumes

One volume, staged once and published to each holder.  Starts, stops and the two sweeps
exclude one another by `try_lock`; one that finds it taken fails and is tried again.
`VolumeKept`: what the driver has is on record (`VolumeOnRecord`), and it is never taken from
a holder that is up (`UpKeepsVolume`).  *Fairness*: a pass that fails is tried again, and so
is a sweep with something left (`CSI_TEARDOWN_PENDING`).

### ClaimVolumes

A Pod's start provisions its claim (lookup, room, blank, clone, attach), a task binds claim
and PV afterwards, formatting of a blank runs in the background, a pass reclaims what
Released PVs leave.  A volume is named after namespace and claim, so a claim deleted and
made again finds the volume of the first.  `ClaimsKept` is `MountKept`, `DataStays`,
`RoomKept`, `OneMint`, `PvOutlives`.  *Fairness*: a waiting start is tried again (hold-off,
volume_changes), strongly fair entry where the reservation comes and goes, the binder and
the reclaim (`RECLAIM_PENDING`) go on.

### NodeObject

Two tasks with a reporter each: one registers the Node once, the other beats every interval
and registers it again when it is gone.  Both read conditions and boot id, then write the
whole status; others write taints and conditions in between.  `NodeKept`: a foreign
condition is lost only where it crossed a read and a write (`ForeignKept`), a reboot shows
(`RebootShows`), taints taken off stay off (`TaintsStayOff`).  A POST, PUT or PATCH that is
not answered was done or was not; one that arrives after a later call of the same task is
not modelled.  `NodeCurrent`, where the Node settles, excepts two of the Observations: KVM's
label on a Node made again (`remade`), and after a patch whose answer was lost (`lost`).
*Fairness*: the heartbeat's interval, the registration's back-off.

## 5. Proofs

The theorems hold for every value of the constants: any number of workloads, claims,
workers, containers, sandboxes, nodes or sizes, and any number of failures, crashes and
changes.  They rest on the `ASSUME`s of the modules, which TLC evaluates in the runs and
which say no more than the code does (names are distinct, a threshold is at least one,
BASE is at most CAP and CAP below STABLE, a node without a VM manager has no VMs),
and `ClaimExclusionHolds` and `ClaimMutationsSerializedHolds` on two hypotheses they state.

| Module | Theorems |
|---|---|
| `ReservationsProofs` | `TableTypeCorrect`, `TableIndexesAgree`, `TableKeepsHolds`, `TableNoLostWake`, `TableNeverDowngraded` |
| `WorkloadsProofs` | `WorkloadsTypeCorrect`, `NameExclusionHolds`, `NothingForgottenHolds`, `CleanupConfirmedHolds`, `ClaimMutationsSerializedHolds`, `ClaimExclusionHolds` |
| `RingProofs` | `RingTypeCorrect`, `RingPayloadIntact`, `RingInvariant`, `RingAccounts`, `RingGivenUpIsUndone`, `RingExitHeard`, `RingKeepsCalls` |
| `PodProofs` | `PodTypeCorrect`, `SandboxKeptHolds` |
| `PartsProofs` | `NetworksTypeCorrect`, `NetworksKeptHolds`, `ProxyTypeCorrect`, `FlowsFollowRulesHolds`, `CrashLoopTypeCorrect`, `DelayIsKeptHolds`, `ContainersTypeCorrect`, `RecordsKeptHolds`, `PartsTypeCorrect` |
| `VolumeProofs` | `CsiTypeCorrect`, `VolumeKeptHolds`, `DiskMoveTypeCorrect`, `GuestHasItsDataHolds` |
| `MachinesProofs` | `MachineTypeCorrect`, `NothingLeftHolds`, `MigrationTypeCorrect`, `GuestKeptHolds`, `HotplugTypeCorrect`, `HotplugKeepsUpHolds`, `SnapshotTypeCorrect`, `SnapshotsKeptHolds`, `RestoreTypeCorrect`, `RestoreWholeHolds`, `MachinesTypeCorrect`, `MachineKeptHolds`, `CopiesKeptHolds` |
| `NodeProofs` | `NodeTypeCorrect`, `NodeKeptHolds`, `ClaimVolumesTypeCorrect`, `ClaimsKeptHolds`, `ProbesTypeCorrect`, `ProbesKeptHolds`, `NodePartsTypeCorrect` |

So every state invariant the passing runs check is a theorem.

### The arguments

**Table.**  `TableInv`, the conjunction of the type invariant and the three parts of
`TableKept`, is inductive as it stands; the action properties follow from it step by step.

**Names.**  `NameExclusion` says nothing of the table, so it is not inductive.  `NameInv`
adds what carries it: a workload *occupies* its name from the grant that lets a pass go on
(`Working`) to the end of what the runtime has of it; no two occupy one name; whoever
works holds the name exclusively, and while the kubelet runs so does everything that is
up, which also has a record; a kubelet that does not run does nothing (`Quiet`); and a
pass that acknowledges or releases has cleaned up.  A grant is then possible only if
nobody else holds the name, hence nobody else occupies it.  `Crash` forgets the holds and
the passes with them, and `Boot` takes the names of exactly what is up.

**Claims.**  `ClaimExclusionHolds` has two hypotheses, `SeedsSucceed` and
`ManifestsClaimNothing`: without the first, finding 1; without the second, the manifest
window of the Observations.  Whoever uses a claim while the kubelet runs either holds it in
the table, or was adopted and is still unclaimed; no grant is made against the first, and
while there is one of the second no pass is past admission.  `ClaimInv` says so: the shape
of the lists (`LoopShape`), nothing is up that was never created (`SeenWasCreated`), an
adopted workload stays unclaimed only while its list has not been marked in or passed it
over, and then never gets a spec (`AllUnclaimedKept`), who was let in was let in with
nobody unclaimed (`AdmittedAlone`), who works holds (`WorkersHold`), two that use one
claim share it (`UsersTogether`), and what was stopped is on no record (`StoppedForgotten`).

**Locks.**  `ClaimMutationsSerializedHolds` rests on the same two hypotheses.  `LocksInv`: a pass
at work has the operation lock of every claim in `pass[k].cs`; a lock has one holder.
`AsksAllOrNone`: a start has asked for all its claims and a stop for all or none; and if the
table has the claims of a stopping workload that is on record, its pass asked for them: it was
seeded before the pass began or not at all, because what stops unclaimed is gone and on no
list (`UnclaimedKept`).  So a stop without locks is of an unclaimed workload, and while that is
on record nobody was let in (`AdmittedAlone`).

**Arena.**  `PayloadIntact` alone is not inductive.  `IInv` adds: the regions are in order,
in the arena, and share no byte (`Apart`); each region's bytes are its owner's (`Owned`); a
request in flight or awaited has a region of its size (`Pending`); ids in use are behind
the next (`Fresh`) and each is in one place (`OnceEach`), so that reading a completion
frees no region but its own; and a round over the parked requests ends before they do
(`Rounds`).  First fit is shown sound by `FirstFits`.  Whoever gave up, `Expire` moves a
request from `live` to `abandoned` and touches no region.

**Accounts.**  `RgInv` follows a handle through the ring: a caller's request is on its way
at most once and owed an answer unless it left (`AskedOnce`, `NotYetAsked`); every entry
has one owner and what the engine made of it is as it said (`OneOwner`, `EntriesKnown`,
`MadeAsSaid`); what was given up is taken back once (`TakenBack`, `ReleasedOnce`,
`GivenUpBefore`); an exit is reported once, after the answer, and stays to be told,
remembered or heard (`ExitsOnce`, `AnswersFirst`, `ExitDue`, `Awaited`).  `GivenUpIsUndone`
follows, and `ExitHeard`: an exit that is remembered was followed by as many unclaimed ones
as are behind it (`later`, counted from its report), so that what is dropped was followed by
RECENT_EXITS of them (`ExitsKept`, `RememberedOrder`).

**Refinement.**  `RingKeepsCalls` proves `RingClient => CallsKept`: every step of the ring maps
to a step of `EngineCalls` or a stutter (`CallsStep`), under `RgInv`.

**Pod.**  `PodInv` says, besides the types, what a pass at each of its steps works on
(`PassOf`); that a kubelet that is down knows nothing, and one that runs has the sandbox on
record, of which there is one beside the strays (`Recorded`); that each container is in a
sandbox that is there (`Bare`); that a record outlives its sandbox only in a teardown still to be finished
(`Torn`); and where in its work a pass may be by what there is (`Placed`): a step inside
the sandbox has one, one that forgets or acknowledges has none.  The steps fall into those
inside the sandbox (`Inner`: start and look), those that touch none (`Quiet`: the cluster,
processes, time, writes) and the stop (`Halting`).

**Runtime.**  Networks: `NwInv` gives, per stage of a sandbox's caller, what is there of it
(`StageOf`); a failed ADD is listed until its DEL is done; who retries holds the lock; and an
ADD at work knows every address taken but those of ADDs beside it (`Informed`).  Proxy:
`PxInv`, every flow is to an address of the last compared rules, or about to be deleted, or
by a ClusterIP given up in place (`FlowsKnown`, `StaleIsRest`).  CrashLoop: a save that has
run alone so far owns its file (`AloneUntouched`); unless saves mixed, what can be read has of
each container what the kubelet knows, or what was wanted before the change its pass is still
saving (`DiskCurrent`, `UnmixedAlone`).
Containers: a container and its own Pod's call agree (`OwnCall`), what a removal has still
to let go is on its list (`Removals`), every exit is in one place (`NotedOnce`) and one that
came before its handle was recorded is kept (`ExitKept`).

**Volumes.**  CSI: whoever is between two calls to the driver has the lock; a start's record
is there before its volume is staged and the volume staged before it is published
(`RecordedFirst`); a teardown forgets a record only when the publish is undone, and the
staging unless another uses it (`UndoneFirst`); what is torn down is wanted by nobody
(`TornDownUnwanted`): a sweep takes only holders whose object it saw gone or finished, and
none of those is live again.  Disk move: a record under way is of a copy of the guest's
volume that nobody else uses, or of a switch that was made (`RecordRight`); a copy in sync is
not behind (`MirrorsFresh`); the switch is in order (`SwitchOrder`); where the kubelet's own
knowledge is old, the old volume is gone or the switch's source (`Behind`).

**Machines.**  `VmInv`: one VMI is in the window; per VMI, what its stage has on record
(`VmOnRecord`).  Migration: a kubelet is handed nothing the apiserver did not have
(`SeenIsOld`), the guest's memory is where the last byte went (`GuestIsSent`), the source
lets go for a completed migration only (`SourceKept`), memory goes after disks and readiness
(`SentInOrder`), and but for the excepted races what is being sent was not given up
(`UnderControl`).  Snapshot: a listing whose version would be accepted is the object as it is
(`MatchIsNow`), so it is claimed once; the owner alone takes (`OwnersOnly`); who is about to
take the finalizer off has deleted the content (`ReleasedFirst`).  Restore: `MadeInOrder`,
`NothingUndone`, `OneResume`.  Hotplug: an attachment is recorded before it is asked for
(`AddNoted`), and the disk the guest has is on the books but for a verb no record has
(`DiskHeld`).

**Node.**  Between its read and its write a task knows every foreign condition but one that
crossed it (`Aware`); until the Node has said NotReady for a boot it has an earlier boot id
(`OldBoot`, `Unshown`).  Claims: a Pod that starts or runs has its claim's reservation, and a
reclaim has it until the volume is gone (`Reserved`); the first claim of a name has no
Released PV (`FirstClaim`); the room read is there until the volume is made (`RoomStays`).
Probes: the one counter never says more than the probe that owns it failed in a row
(`CountIsEarned`); what was taken away does not run until it is made again
(`RemovedIsGone`), what is over is not ready (`OverIsNotReady`), and what is ready was
probed, or is looked at within RECHECK (`ReadyWasProbed`).

### What is only model-checked

- *Liveness*: `GoneIsReleased`, `LastOneRuns`, `EveryCallAnswered`, `LateUndone`,
  `DeletedIsGone`, `ComesBack`, `PartsSettle`, `MachinesSettle`, `NodeSettles`.  TLAPS reaches
  neither `ENABLED` nor fairness.
- `ContainersInOrder`: an action property, checked in **pod_life**.  Its proof needs a
  hypothesis on "replace" faults and what is known of the init containers at each step; planned.
- `MachinesInv`, `NodeInv` and `PartsInv` are conjunctions over components that share nothing;
  the components' own theorems are stated for their own specifications.

### What proving changed

The proofs found these definitions wrong or too narrow, and they were brought back to the code:
the type of a disk move's records; the bound on kept exits in `ExitOnItsWay`, which counts
other containers' exits too; stopping a sandbox the runtime no longer has, which is not an
error (`stormpump_runtime.rs` 1358-1389); `SettledMeansGone` for a mount that was never made.
They also made assumptions explicit that were implicit in the instances (`NetworksAssumption`,
`CrashLoopAssumption`, `ContainersAssumption`, `CsiAssumption`).

## 6. Findings

Each is a run in which TLC finds the property violated by what the code does.

1. **A failed seed opens admission** (run seed_fails).  `sync` gives adopted Pods
   their spec (`cache_specs`, `kubelet.rs:1136`) before it reserves their claims
   (`seed_claims`, 1139).  If the seed fails for a Pod whose object is then
   force-deleted, the next pass does not list it and seeds nothing for it; but it
   has a spec, so `admission_open` is true and a VM may take its claim while it
   still runs.
2. **The CSI sweep judges static Pods by the wrong list** (run sweep).  Between its
   mounts and its sandbox a static Pod is neither in the manager nor, under its own
   UID, in the apiserver's list, and `sweep_csi_volumes` undoes its volumes
   (`csi_volumes.rs:615`).
3. **A restart's container is forgotten** (run pod_restart).  `restart_container`
   creates the new container, then starts it; when the start is refused the new id is
   on no record (`pod_manager.rs:4816`).  On stormpump the sandbox is not removed while
   a record names it, so a Pod deleted afterwards never goes.
4. **A node may come up untainted** (run node_taints).  The heartbeat's reporter has no
   registration labels or taints, but registers the Node when its status write finds
   none (`node_status.rs:480`); the registration task then writes status only.

## 7. Observations

What modelling and proving showed of the code and no run states as a property.  The
properties of the runs either except these cases by name or do not speak of them.

*Admission.*  A static Pod adopted after a restart gets its spec from the manifests
(`kubelet.rs:1112`) before its claims are seeded (1114): one failed read of its manifest
at the start, or a manifest removed and put back before its Pod was stopped, leaves
it admitted and unseeded, against `kubelet.rs:2059-2061`.  This is why `ClaimExclusionHolds`
asks that manifests claim nothing.  A crash between staging a claim and making the sandbox
leaves the claim staged and unreserved: `seed_names` recovers what runs.  If the object then
goes, its stop unstages the claim with no lock (`kubelet.rs:1801`, `claims` of a key that owns
none) while another workload may be staging it, and two adopted workloads whose objects went
before the first list are unstaged at once: `workload.rs:227-228` says that no two of these run
simultaneously.  `ClaimMutationsSerialized` excepts both.

*Pods.*  A Pod reported Failed may run again: a failed start leaves phase Cleanup and the
next pass starts it (`pod_manager.rs:3013`, 3245).  An init container that fails under
OnFailure is reported Failed, against the comment at 3364-3365.  A Pod that finishes while its
sandbox is being released can be seen without one (3013, 4698-4702).  A `RunPodSandbox` a
CRI runtime did and did not answer for leaves a sandbox on no record: the next start asks
for another (if the runtime gives one), against 3743-3744 ("a failed or cancelled start is
cleaned by this UID before another sandbox can be created"), and the deletion is
acknowledged with the first still there; it goes after a restart of the kubelet that adopts
it.  `SandboxKept` excepts it (`strays`).  stormpump makes its record last and undoes before.

*Probes.*  `restart_container` (4739-4866) does not clear `startup_passed`, as 48-51 and
4235-4238 read; a liveness restart that fails reports waiting, then the old state (4355-4423);
liveness kills restart a container under policy Never and go round its crash-loop back-off;
`ProbeResult::Unknown` is never made.  A restart that fails for its sandbox, its volumes or
its token (4759-4794) has stopped and removed the container and leaves `ready` as it was, and
the liveness branch keeps it (4386-4388): a container that is gone is Ready until the next look.

*Ring and runtime.*  A thread stuck past twice a mount's deadline answers a caller that
left, and drops the settled signal with the mount in place (`stormpump_ring.rs:1080`, against
543-548); `Accounted` excepts callers in `Stuck` that left.  An undo that is refused is tried
once (1124).  Past RECENT_EXITS an exit is dropped and its waiter waits.  UNCLAIMED_EXITS counts
the exits of everybody.  A release done and not answered leaves a record no retry removes
(`stormpump_runtime.rs:687`).

*VMs.*  Which volume a start attaches is read from the last move's record, which a second
move of the disk replaces (`vm_manager.rs:1958`, against `README.md:1065-1066`; `StartsOnTheCopy`
states it, no run checks it); a kubelet that restarts mid-switch may leave the guest paused
(6015, against `README.md:1052`; `GuestRunsAgain`), and so may an unpause the hypervisor
refuses (6022, 6151, 6178, 6209) and a pause that is done and answered with an error (6126): the
record goes on and no later pass runs the guest.  A migration's target that restarts while it
receives stops the machine (5526, against `README.md:1033-1034`).  A stop that is refused at
`release_pod_network` after `workload_release` was done is refused at the second from then on
(2948-2959).  A pod network whose ADD and DEL both failed is lost with its VMI (2411, 3552).
A hotplugged disk that is in the guest and not yet on record when the kubelet dies is on no
record.  A restore's resume may be tried twice (`vm_restore.rs:65-68`; `ResumedOnce`), and the
kubelet watches no restores (`kubelet.rs` 732-790, against `README.md:961`; `RestoreServed`).  A
failed read of the VM makes `owner_of` miss that its disks are kept (`vm_manager.rs:5091`, 4552,
against `README.md:662-664`).

*CSI.*  Two volumes of one claim in one Pod share what `csi_volumes.rs:519-535` takes for one
holder.

*Claims.*  The reclaim looks at the phase Released while a bind moves `claimRef` and not the
phase (`pod_manager.rs` 1607-1611, 441-447); a bind that finds the claim gone leaves the volume
(417); a claim is written Bound though its PV was not (423-476); a failed read of PVs is read as
nothing provisioned (1998-2031); volume names of different claims may meet (`storage.rs:274`).

*The Node.*  A failed read before a status write wipes others' conditions (`node_status.rs`
312-326, 602-613) and hides a reboot; KVM's label stays old when the Node is made again
(494-501), and when a patch is done, its answer lost, and KVM is back to what was last heard
written before the next heartbeat (494-515, against 490-493: "whenever KVM comes or goes").

## 8. Not modelled

- *Static Pod mirrors* (`static_mirror.rs`, `mirror.rs`): planned with `Workloads`' seeding.
- *Retry library*: planned; a bounded loop over classes of failures.
- *Lease, health, events, capacity, statistics*: periodic reports of what others hold.
- *Server, exec, logs, attach, port forward*: protocol framing over streams of bytes.
- *CRI and gRPC clients, API client, kubeconfig, DNS, workload identity*: translation of calls
  and rendering of files.
- *eBPF and network policy* of the proxy, *VXLAN and encapsulation* of the CNI: kernel state
  programmed from one input, no shared decision.
- Inside modelled components: resizes, ephemeral containers and volumes other than CSI and
  claims (`PodLifecycle`); a VM's credentials and guest agent, the orphan sweep's deletion of
  volumes, resume from a saved state outside a restore (`VmMachine`); PV placement and the
  node-volumes endpoint (`ClaimVolumes`); a container made beside one whose removal was refused
  (`Probes`); a disconnect and the drained exit queue (`Ring`).
