------------------------------ MODULE Workloads ------------------------------
(***************************************************************************)
(* The kubelet's workload executor over the admission table of             *)
(* Reservations.tla (pkg/kubelet/src/workload.rs, kubelet.rs): the Pod and *)
(* VMI lists that publish desired state, the bounded pool whose passes     *)
(* start and stop workloads, the reservations each pass takes, and the     *)
(* startup admission that holds every start back after a restart until the *)
(* claims of what still runs are known again.                              *)
(*                                                                         *)
(* What survives a kubelet crash is the API (or the manifest directory),   *)
(* what the runtime runs and the volumes staged on the node.  Everything   *)
(* else, the table included, is memory.                                    *)
(***************************************************************************)
EXTENDS Reservations, Naturals, FiniteSets

CONSTANTS KindOf,      \* "pod", "static" (a Pod of the manifest directory) or "vm"
          ClaimsOf,    \* the claims a workload's volumes name
          Rwop,        \* the claims that are ReadWriteOncePod
          HasVms,      \* this node has a VM manager
          Workers,     \* --pod-workers
          Faults,      \* the calls that may fail, a subset of FaultKinds
          MaxFaults, MaxCrashes, MaxWakes, MaxChanges   \* bounds on the environment

Kinds == {"pod", "static", "vm"}
FaultKinds == {"manifest", "list", "claims", "seed", "start", "stop", "ack", "status"}

ASSUME KindAssumption == KindOf \in [Keys -> Kinds]
ASSUME ClaimsAssumption == ClaimsOf \in [Keys -> SUBSET Claims] /\ Rwop \subseteq Claims
\* Without a VM manager nothing brings in the key of a VM.
ASSUME VmsAssumption == HasVms \/ \A k \in Keys : KindOf[k] # "vm"
ASSUME BoundsAssumption ==
    /\ HasVms \in BOOLEAN
    /\ Workers \in Nat \ {0}
    /\ Faults \subseteq FaultKinds
    /\ MaxFaults \in Nat /\ MaxCrashes \in Nat /\ MaxWakes \in Nat /\ MaxChanges \in Nat

VARIABLES api,       \* the object: absent, live, deleting or gone
          up,        \* the workloads the runtime has a sandbox or a machine of
          staged,    \* the workloads with volumes staged on this node
          record,    \* the manager's record: none, unspec (adopted, no spec yet) or spec
          desired,   \* the executor's published object of each key
          synced,    \* the loops whose first list is in: pods_synced, vmis_synced
          parked,    \* the workloads that met admission closed
          timer,     \* the keys with a deadline in the queue
          pass,      \* the pass at work for each key
          loop,      \* the two list loops
          running, crashes, faults, wakes, changes

world == <<api, up, staged>>
memory == <<record, desired, synced, parked>>
env == <<running, crashes, faults, wakes, changes>>
vars == <<tableVars, world, memory, timer, pass, loop, env>>

Loops == {"pods", "vms"}
LoopOf(k) == IF KindOf[k] = "vm" THEN "vms" ELSE "pods"
IsPod(k) == KindOf[k] # "vm"

Objects == {"none", "placeholder", "live", "deleting"}
PassSteps == {"idle", "admit", "park", "recheck", "claims", "acquire", "report", "operate",
              "start", "launch", "status", "lock", "stop", "ack", "release", "done"}
LoopSteps == {"idle", "list", "cache", "known", "seed", "publish", "mark", "wake"}

NoPass == [at |-> "idle", obj |-> "none", cs |-> {}]
NoList == [k \in Keys |-> "none"]
IdleLoop == [at |-> "idle", src |-> "pod", list |-> NoList, todo |-> {}, due |-> FALSE]

\* Kubelet::claims_for: a VM's disk and a ReadWriteOncePod claim are held
\* exclusively, any other claim is shared.
Wanted(k) ==
    [c \in ClaimsOf[k] |-> IF KindOf[k] = "vm" \/ c \in Rwop THEN "exclusive" ELSE "shared"]

\* A call of kind f fails, within the bound.
Fault(f) == f \in Faults /\ faults < MaxFaults /\ faults' = faults + 1
NoFault == UNCHANGED env
SameButFaults == UNCHANGED <<running, crashes, wakes, changes>>

Due(l) == [loop EXCEPT ![l].due = TRUE]

-----------------------------------------------------------------------------
(* The cluster: objects are created, deleted, and sometimes removed outright. *)

Created(k) == api[k] \in {"live", "deleting"}

\* The apiserver holds one object of a name; a manifest can come back.
Create(k) ==
    /\ api[k] = "absent" \/ (KindOf[k] = "static" /\ api[k] = "gone")
    /\ \A o \in Keys \ {k} : NameOf[o] = NameOf[k] /\ KindOf[o] = KindOf[k] => ~ Created(o)
    /\ api' = [api EXCEPT ![k] = "live"]

Delete(k) ==
    /\ api[k] = "live" /\ KindOf[k] # "static"
    /\ api' = [api EXCEPT ![k] = "deleting"]

\* A force delete, a finalizer edited away, a manifest removed.
Vanish(k) ==
    /\ Created(k)
    /\ api' = [api EXCEPT ![k] = "gone"]

ApiChange(k) ==
    /\ Create(k) \/ Delete(k) \/ Vanish(k)
    /\ changes < MaxChanges /\ changes' = changes + 1
    /\ loop' = IF running THEN Due(LoopOf(k)) ELSE loop
    /\ UNCHANGED <<tableVars, up, staged, memory, timer, pass, running, crashes, faults, wakes>>

-----------------------------------------------------------------------------
(* The kubelet's life. *)

Crash ==
    /\ running /\ crashes < MaxCrashes
    /\ running' = FALSE /\ crashes' = crashes + 1
    /\ holders' = [r \in Resources |-> [k \in Keys |-> "none"]]
    /\ owned' = [k \in Keys |-> {}]
    /\ waiting' = [r \in Resources |-> {}]
    /\ operations' = [c \in Claims |-> Nobody]
    /\ ready' = {} /\ seeded' = {} /\ timer' = {} /\ parked' = {} /\ synced' = {}
    /\ record' = [k \in Keys |-> "none"]
    /\ desired' = [k \in Keys |-> "none"]
    /\ pass' = [k \in Keys |-> NoPass]
    /\ loop' = [l \in Loops |-> IdleLoop]
    /\ UNCHANGED <<world, faults, wakes, changes>>

\* Faulty: the adopted workloads' names are not reserved.
NamesOfNobody(ks) == [k \in Keys |-> {}]

\* Kubelet::seed_names: the names of what runs.
NamesOf(ks) == [k \in Keys |-> IF k \in ks THEN {NameOf[k]} ELSE {}]

\* Kubelet::run_inner up to the executor: recover_state and adopt_registered
\* (repeated until they succeed) record what the runtime has, without a spec;
\* seed_names reserves each name and publishes a placeholder.
Boot ==
    /\ ~ running
    /\ running' = TRUE
    /\ record' = [k \in Keys |-> IF k \in up THEN "unspec" ELSE "none"]
    /\ owned' = NamesOf(up)
    /\ holders' = [r \in Resources |->
                     [k \in Keys |-> IF r \in NamesOf(up)[k] THEN "exclusive" ELSE "none"]]
    /\ seeded' = up
    /\ desired' = [k \in Keys |-> IF k \in up THEN "placeholder" ELSE "none"]
    /\ ready' = up
    /\ synced' = IF HasVms THEN {} ELSE {"vms"}
    /\ loop' = [l \in Loops |-> [IdleLoop EXCEPT !.due = (l = "pods" \/ HasVms)]]
    /\ UNCHANGED <<waiting, operations, world, parked, timer, pass, crashes, faults, wakes, changes>>

-----------------------------------------------------------------------------
(* Startup admission. *)

\* Faulty: the lists being in is taken for every spec being known.
AdmissionOpenEarly == synced = Loops

\* Kubelet::admission_open: both lists are in, and every adopted workload has
\* its spec.
AdmissionOpen == synced = Loops /\ \A k \in Keys : record[k] # "unspec"

\* A static Pod without claims may bootstrap the control plane.
Bypasses(k) == KindOf[k] = "static" /\ ClaimsOf[k] = {}

-----------------------------------------------------------------------------
(* The list loops: Kubelet::sync (static manifests, then API Pods) and     *)
(* vm_loop.  `src` is what the loop is publishing.                         *)

Of(l) == loop[l].src
Listed(l) == {k \in Keys : loop[l].list[k] # "none"}
Snapshot(src) ==
    [k \in Keys |-> IF KindOf[k] = src /\ Created(k) THEN api[k] ELSE "none"]

Step(l, at) == loop' = [loop EXCEPT ![l].at = at, ![l].todo = {}]

\* The pass over the loop failed: the reactor runs it again.
GiveUp(l) == loop' = [loop EXCEPT ![l] = [IdleLoop EXCEPT !.due = TRUE]]

LoopOnly == UNCHANGED <<tableVars, world, memory, timer, pass>>

\* load_static_pods: a read that is not complete publishes no manifest.
BeginPods ==
    LET l == "pods" IN
    /\ loop[l].at = "idle" /\ loop[l].due
    /\ \/ /\ loop' = [loop EXCEPT ![l] = [IdleLoop EXCEPT !.at = "cache", !.src = "static",
                                                         !.list = Snapshot("static")]]
          /\ NoFault
       \/ /\ loop' = [loop EXCEPT ![l] = [IdleLoop EXCEPT !.at = "list", !.due = TRUE]]
          /\ Fault("manifest") /\ SameButFaults
    /\ LoopOnly

BeginVms ==
    LET l == "vms" IN
    /\ loop[l].at = "idle" /\ loop[l].due
    /\ loop' = [loop EXCEPT ![l] = [IdleLoop EXCEPT !.at = "list", !.src = "vm"]]
    /\ NoFault /\ LoopOnly

List(l) ==
    /\ loop[l].at = "list"
    /\ \/ /\ loop' = [loop EXCEPT ![l].at = "cache", ![l].list = Snapshot(Of(l))]
          /\ NoFault
       \/ GiveUp(l) /\ Fault("list") /\ SameButFaults
    /\ LoopOnly

\* PodManager::cache_specs fills in the records the list names;
\* VmManager::cache_specs replaces what is known of every machine.
Cached(l, k) ==
    IF record[k] = "none" \/ LoopOf(k) # l THEN record[k]
    ELSE IF k \in Listed(l) THEN "spec"
    ELSE IF l = "vms" THEN "unspec" ELSE record[k]

Cache(l) ==
    /\ loop[l].at = "cache"
    /\ record' = [k \in Keys |-> Cached(l, k)]
    /\ Step(l, "known")
    /\ NoFault
    /\ UNCHANGED <<tableVars, world, desired, synced, parked, timer, pass>>

\* seed_claims reads which of the listed workloads it has a record of ...
Known(l) ==
    /\ loop[l].at = "known"
    /\ loop' = [loop EXCEPT ![l].at = "seed",
                            ![l].todo = {k \in Listed(l) : record[k] # "none"}]
    /\ NoFault /\ LoopOnly

\* ... and then, one after another, asks the apiserver for the claims of each
\* and seeds them.  One that cannot be read ends the whole pass.
SeedOne(l) ==
    /\ loop[l].at = "seed"
    /\ \E k \in loop[l].todo :
         /\ Seed(k, Wanted(k))
         /\ loop' = [loop EXCEPT ![l].todo = @ \ {k}]
    /\ NoFault
    /\ UNCHANGED <<world, memory, timer, pass>>

SeedFails(l) ==
    /\ loop[l].at = "seed" /\ loop[l].todo # {}
    /\ GiveUp(l)
    /\ Fault("seed") /\ SameButFaults /\ LoopOnly

Seeded(l) == loop[l].at = "seed" /\ loop[l].todo = {}

\* Pods are marked synced before they are published, VMIs after.
Mark(l) ==
    /\ IF l = "pods" THEN Seeded(l) /\ Of(l) = "pod" ELSE loop[l].at = "mark"
    /\ synced' = synced \cup {l}
    /\ Step(l, IF l = "pods" THEN "publish" ELSE "wake")
    /\ NoFault
    /\ UNCHANGED <<tableVars, world, record, desired, parked, timer, pass>>

\* Faulty: only what is new or changed is queued, not what is gone.
ChangedKeptOnly(l) == {k \in Listed(l) : loop[l].list[k] # desired[k]}

\* Executor::replace_source: this source's objects are exactly the list.
Changed(l) == {k \in Keys : KindOf[k] = Of(l) /\ loop[l].list[k] # desired[k]}

Publish(l) ==
    /\ \/ loop[l].at = "publish"
       \/ Seeded(l) /\ Of(l) # "pod"
    /\ desired' = [k \in Keys |-> IF KindOf[k] = Of(l) THEN loop[l].list[k] ELSE desired[k]]
    /\ ready' = ready \cup Changed(l)
    /\ loop' = CASE Of(l) = "static" -> [loop EXCEPT ![l].at = "list", ![l].src = "pod",
                                                     ![l].list = NoList, ![l].todo = {}]
                 [] Of(l) = "pod"    -> [loop EXCEPT ![l].at = "wake", ![l].list = NoList]
                 [] OTHER            -> [loop EXCEPT ![l].at = "mark", ![l].list = NoList]
    /\ NoFault
    /\ UNCHANGED <<holders, owned, waiting, operations, seeded, world,
                   record, synced, parked, timer, pass>>

\* Kubelet::release_parked, Executor::wake_parked.
Wake(l) ==
    /\ loop[l].at = "wake"
    /\ IF AdmissionOpen
         THEN /\ ready' = ready \cup {k \in parked : desired[k] # "none"}
              /\ parked' = {}
         ELSE UNCHANGED <<ready, parked>>
    /\ loop' = [loop EXCEPT ![l] = [IdleLoop EXCEPT !.due = loop[l].due]]
    /\ NoFault
    /\ UNCHANGED <<holders, owned, waiting, operations, seeded, world,
                   record, desired, synced, timer, pass>>

LoopStep(l) ==
    \/ l = "pods" /\ BeginPods
    \/ l = "vms" /\ BeginVms
    \/ List(l) \/ Cache(l) \/ Known(l) \/ SeedOne(l) \/ SeedFails(l)
    \/ Mark(l) \/ Publish(l) \/ Wake(l)

-----------------------------------------------------------------------------
(* The executor: Executor::run takes a key off the queue, reads its object *)
(* and runs one pass of it at a time.                                      *)

Active == {k \in Keys : pass[k].at # "idle"}
Goto(k, at) == pass' = [pass EXCEPT ![k].at = at]
Finish(k) == pass' = [pass EXCEPT ![k] = NoPass]

\* Faulty: nothing brings the key back.
NeverAgain(k) == timer' = timer \ {k}

\* The key is due again: an error's back-off, a busy lock, a closed admission.
Again(k) == timer' = timer \cup {k}

\* Faulty: an object that is gone leaves nothing to stop.
FirstStepForgetting(k, obj) ==
    CASE obj = "none"                        -> "release"
      [] obj = "deleting"                    -> "lock"
      [] obj = "placeholder"                 -> "done"
      [] obj = "live" /\ Bypasses(k)         -> "claims"
      [] OTHER                               -> "admit"

\* What the pass does first, by the object it was handed: reconcile's branches.
FirstStep(k, obj) ==
    CASE obj \in {"none", "deleting"}        -> "lock"
      [] obj = "placeholder"                 -> "done"
      [] obj = "live" /\ Bypasses(k)         -> "claims"
      [] OTHER                               -> "admit"

Pop(k) ==
    /\ k \in ready /\ pass[k].at = "idle"
    /\ Cardinality(Active) < Workers
    /\ ready' = ready \ {k}
    /\ timer' = IF desired[k] = "placeholder" THEN timer \cup {k} ELSE timer \ {k}
    /\ pass' = [pass EXCEPT ![k] =
                  [at |-> FirstStep(k, desired[k]), obj |-> desired[k],
                   cs |-> IF desired[k] \in {"none", "deleting"} THEN owned[k] \cap Claims
                                                                ELSE ClaimsOf[k]]]
    /\ NoFault
    /\ UNCHANGED <<holders, owned, waiting, operations, seeded, world, memory, loop>>

TimerFires(k) ==
    /\ k \in timer
    /\ timer' = timer \ {k}
    /\ ready' = ready \cup {k}
    /\ NoFault
    /\ UNCHANGED <<holders, owned, waiting, operations, seeded, world, memory, pass, loop>>

\* An exit, a dependency, an image, a driver: any desired key may be woken.
ExternalWake(k) ==
    /\ running /\ desired[k] # "none" /\ wakes < MaxWakes
    /\ ready' = ready \cup {k} /\ wakes' = wakes + 1
    /\ UNCHANGED <<holders, owned, waiting, operations, seeded, world, memory,
                   timer, pass, loop, running, crashes, faults, changes>>

\* The pass ends in an error: its guards are dropped and it is retried.
Fail(k) ==
    /\ Finish(k) /\ Again(k)
    /\ operations' = Unlocked(operations, k)
    /\ UNCHANGED <<holders, owned, waiting, ready, seeded>>

\* The pass yields for a later look, changing nothing else.
Later(k) ==
    /\ Finish(k) /\ Again(k)
    /\ NoFault
    /\ UNCHANGED <<tableVars, world, memory, loop>>

\* Admission is asked, and asked again once parked: an opening in between
\* finds the key in the parked set or lets it through here.
Admit(k) ==
    /\ pass[k].at = "admit"
    /\ Goto(k, IF AdmissionOpen THEN "claims" ELSE "park")
    /\ NoFault
    /\ UNCHANGED <<tableVars, world, memory, timer, loop>>

Park(k) ==
    /\ pass[k].at = "park"
    /\ parked' = parked \cup {k}
    /\ Goto(k, "recheck")
    /\ NoFault
    /\ UNCHANGED <<tableVars, world, record, desired, synced, timer, loop>>

Recheck(k) ==
    /\ pass[k].at = "recheck"
    /\ \/ ~ AdmissionOpen /\ Later(k)
       \/ /\ AdmissionOpen
          /\ parked' = parked \ {k}
          /\ Goto(k, "claims")
          /\ NoFault
          /\ UNCHANGED <<tableVars, world, record, desired, synced, timer, loop>>

ReadClaims(k) ==
    /\ pass[k].at = "claims"
    /\ \/ /\ Goto(k, "acquire")
          /\ NoFault
          /\ UNCHANGED <<tableVars, timer>>
       \/ Fail(k) /\ Fault("claims") /\ SameButFaults
    /\ UNCHANGED <<world, memory, loop>>

\* Granted, the pass goes on holding its reservations; refused, it ends until
\* a holder lets go, saying so first on a Pod refused over a claim.
Reserve(k) ==
    /\ pass[k].at = "acquire"
    /\ \/ Granted(k, Wanted(k)) /\ Goto(k, "operate")
       \/ /\ Refused(k, Wanted(k))
          /\ IF IsPod(k) /\ Blocked(k, Wanted(k)) \cap Claims # {}
               THEN Goto(k, "report") ELSE Finish(k)
    /\ NoFault
    /\ UNCHANGED <<world, memory, timer, loop>>

Report(k) ==
    /\ pass[k].at = "report"
    /\ \/ Finish(k) /\ NoFault /\ UNCHANGED <<tableVars, timer>>
       \/ Fail(k) /\ Fault("status") /\ SameButFaults
    /\ UNCHANGED <<world, memory, loop>>

\* Faulty: the locks are taken over.
TakeLocksAnyway(k, next) ==
    /\ operations' = Locked(operations, k, pass[k].cs)
    /\ Goto(k, next)
    /\ UNCHANGED <<holders, owned, waiting, ready, seeded, timer>>

\* The claims' mutation locks, all or none; busy, the pass looks again shortly.
TakeLocks(k, next) ==
    \/ TryOperations(k, pass[k].cs) /\ Goto(k, next) /\ UNCHANGED timer
    \/ ~ Free(pass[k].cs) /\ Finish(k) /\ Again(k) /\ UNCHANGED tableVars

Operate(k) ==
    /\ pass[k].at = "operate"
    /\ TakeLocks(k, "start")
    /\ NoFault
    /\ UNCHANGED <<world, memory, loop>>

\* PodManager::other_pod_holding, asked as a ReadWriteOncePod claim is mounted:
\* a second guard, of the Pods whose spec is in memory.
MountRefused(k) ==
    \E o \in Keys \ {k} : /\ IsPod(o) /\ record[o] = "spec"
                          /\ ClaimsOf[k] \cap ClaimsOf[o] \cap Rwop # {}

\* The start: volumes first ...
Mount(k) ==
    /\ pass[k].at = "start" /\ k \notin up
    /\ \/ /\ ~ MountRefused(k)
          /\ staged' = IF ClaimsOf[k] = {} THEN staged ELSE staged \cup {k}
          /\ Goto(k, "launch")
          /\ UNCHANGED <<tableVars, timer>>
       \/ MountRefused(k) /\ Fail(k) /\ UNCHANGED staged
    /\ NoFault
    /\ UNCHANGED <<api, up, memory, loop>>

\* VmManager::reconcile_one caches the object it was handed.
RecordOf(k) == IF record[k] # "none" THEN "spec" ELSE record[k]

\* ... then the sandbox, or machine, with its record.
Launch(k) ==
    /\ pass[k].at = "launch"
    /\ up' = up \cup {k}
    /\ record' = [record EXCEPT ![k] = "spec"]
    /\ Goto(k, "status")
    /\ NoFault
    /\ UNCHANGED <<tableVars, api, staged, desired, synced, parked, timer, loop>>

AlreadyUp(k) ==
    /\ pass[k].at = "start" /\ k \in up
    /\ record' = [record EXCEPT ![k] = RecordOf(k)]
    /\ Goto(k, "status")
    /\ NoFault
    /\ UNCHANGED <<tableVars, world, desired, synced, parked, timer, loop>>

\* A failed start keeps what it staged, or has taken it down.
StartFails(k) ==
    /\ pass[k].at \in {"start", "launch"} /\ k \notin up
    /\ staged' \in {staged, staged \ {k}}
    /\ Fail(k)
    /\ Fault("start") /\ SameButFaults
    /\ UNCHANGED <<api, up, memory, loop>>

Status(k) ==
    /\ pass[k].at = "status"
    /\ \/ Goto(k, "done") /\ NoFault /\ UNCHANGED <<tableVars, timer>>
       \/ Fail(k) /\ Fault("status") /\ SameButFaults
    /\ UNCHANGED <<world, memory, loop>>

\* reconcile_one again: the object of a machine being deleted is cached while
\* there is one, and forgotten once it is gone.
StoppingRecord(k) ==
    IF record[k] = "none" \/ IsPod(k) THEN record[k]
    ELSE IF pass[k].obj = "none" THEN "unspec" ELSE "spec"

\* Deletion: the mutation locks of what the key holds, then the runtime, then
\* the volumes, then the record, the acknowledgement and the reservations.
LockForStop(k) ==
    /\ pass[k].at = "lock"
    /\ TakeLocks(k, "stop")
    /\ record' = [record EXCEPT ![k] = IF Free(pass[k].cs) THEN StoppingRecord(k) ELSE @]
    /\ NoFault
    /\ UNCHANGED <<world, desired, synced, parked, loop>>

StopRuntime(k) ==
    /\ pass[k].at = "stop" /\ k \in up /\ record[k] # "none"
    /\ up' = up \ {k}
    /\ NoFault
    /\ UNCHANGED <<tableVars, api, staged, memory, timer, pass, loop>>

StopFails(k) ==
    /\ pass[k].at = "stop" /\ Fail(k)
    /\ Fault("stop") /\ SameButFaults
    /\ UNCHANGED <<world, memory, loop>>

\* Faulty: the record, and with it the reservation, goes before the volumes.
CleanedUpEarly(k) == record[k] = "none" \/ k \notin up

\* The runtime has nothing of k left (or there is no record to stop it by) and
\* its volumes are torn down.
CleanedUp(k) == (record[k] = "none" \/ k \notin up) /\ k \notin staged

Unstage(k) ==
    /\ pass[k].at = "stop" /\ k \notin up /\ k \in staged
    /\ staged' = staged \ {k}
    /\ NoFault
    /\ UNCHANGED <<tableVars, api, up, memory, timer, pass, loop>>

Stopped(k) ==
    /\ pass[k].at = "stop" /\ CleanedUp(k)
    /\ record' = [record EXCEPT ![k] = "none"]
    /\ Goto(k, IF pass[k].obj = "deleting" THEN "ack" ELSE "release")
    /\ NoFault
    /\ UNCHANGED <<tableVars, world, desired, synced, parked, timer, loop>>

\* The object goes: a Pod's DELETE with its UID as precondition, a VMI's
\* finalizer.
Acknowledge(k) ==
    /\ pass[k].at = "ack"
    /\ \/ /\ api' = [api EXCEPT ![k] = "gone"]
          /\ loop' = IF api[k] # "gone" THEN Due(LoopOf(k)) ELSE loop
          /\ Goto(k, "release")
          /\ NoFault
          /\ UNCHANGED <<tableVars, timer>>
       \/ Fail(k) /\ Fault("ack") /\ SameButFaults /\ UNCHANGED <<api, loop>>
    /\ UNCHANGED <<up, staged, memory>>

LetGo(k) ==
    /\ pass[k].at = "release"
    /\ Release(k)
    /\ Goto(k, "done")
    /\ NoFault
    /\ UNCHANGED <<world, memory, timer, loop>>

\* The pass returns and drops its guards.
Done(k) ==
    /\ pass[k].at = "done"
    /\ Finish(k)
    /\ operations' = Unlocked(operations, k)
    /\ NoFault
    /\ UNCHANGED <<holders, owned, waiting, ready, seeded, world, memory, timer, loop>>

PassStep(k) ==
    \/ Admit(k) \/ Park(k) \/ Recheck(k) \/ ReadClaims(k) \/ Reserve(k) \/ Report(k)
    \/ Operate(k) \/ Mount(k) \/ Launch(k) \/ AlreadyUp(k) \/ StartFails(k) \/ Status(k)
    \/ LockForStop(k) \/ StopRuntime(k) \/ StopFails(k) \/ Unstage(k) \/ Stopped(k)
    \/ Acknowledge(k) \/ LetGo(k) \/ Done(k)

\* The workload is not among those a sweep asks about: PodManager's asks the
\* apiserver, which lists no static Pod under its own UID; VmManager's asks the
\* list it was last given.
Unlisted(k) ==
    CASE KindOf[k] = "pod"    -> ~ Created(k)
      [] KindOf[k] = "static" -> TRUE
      [] OTHER                -> desired[k] = "none"

\* The sweeps undo the volumes of unlisted workloads there is no record of:
\* PodManager::sweep_csi_volumes, and VmManager::sweep_orphans, which waits for
\* the VM starts under way (disk_lifecycle).
Sweep(k) ==
    /\ running /\ k \in staged
    /\ record[k] = "none" /\ Unlisted(k)
    /\ IsPod(k) \/ pass[k].at \notin {"start", "launch"}
    /\ staged' = staged \ {k}
    /\ NoFault
    /\ UNCHANGED <<tableVars, api, up, memory, timer, pass, loop>>

-----------------------------------------------------------------------------
Init ==
    /\ TableInit
    /\ api = [k \in Keys |-> "absent"]
    /\ up = {} /\ staged = {}
    /\ record = [k \in Keys |-> "none"]
    /\ desired = [k \in Keys |-> "none"]
    /\ synced = {} /\ parked = {} /\ timer = {}
    /\ pass = [k \in Keys |-> NoPass]
    /\ loop = [l \in Loops |-> IdleLoop]
    /\ running = FALSE /\ crashes = 0 /\ faults = 0 /\ wakes = 0 /\ changes = 0

Next ==
    \/ Crash \/ Boot
    \/ \E l \in Loops : running /\ LoopStep(l)
    \/ \E k \in Keys : \/ ApiChange(k) \/ ExternalWake(k) \/ Sweep(k)
                       \/ Pop(k) \/ TimerFires(k) \/ PassStep(k)

Spec == Init /\ [][Next]_vars

\* Tasks are run by tokio, deadlines fire, a started kubelet comes up: every
\* process goes on.  The queue is first in, first out
\* (docs/event-driven-design.md:21), so a key on it is not passed over for ever
\* by the others.  Nothing is assumed of the cluster.
Fairness ==
    /\ WF_vars(Boot)
    /\ \A l \in Loops : WF_vars(running /\ LoopStep(l))
    /\ \A k \in Keys : /\ SF_vars(Pop(k)) /\ WF_vars(TimerFires(k))
                       /\ WF_vars(PassStep(k)) /\ WF_vars(Sweep(k))

FairSpec == Spec /\ Fairness

-----------------------------------------------------------------------------
TypeOK ==
    /\ TableTypeOK
    /\ api \in [Keys -> {"absent", "live", "deleting", "gone"}]
    /\ up \in SUBSET Keys /\ staged \in SUBSET Keys
    /\ record \in [Keys -> {"none", "unspec", "spec"}]
    /\ desired \in [Keys -> Objects]
    /\ synced \in SUBSET Loops /\ parked \in SUBSET Keys /\ timer \in SUBSET Keys
    /\ pass \in [Keys -> [at : PassSteps, obj : Objects, cs : SUBSET Claims]]
    /\ loop \in [Loops -> [at : LoopSteps, src : Kinds, list : [Keys -> Objects],
                           todo : SUBSET Keys, due : BOOLEAN]]
    /\ running \in BOOLEAN
    /\ crashes \in 0..MaxCrashes /\ faults \in 0..MaxFaults /\ wakes \in 0..MaxWakes /\ changes \in 0..MaxChanges

\* Two workloads of one name never run at once, across crashes, forced
\* deletions and same-name successors.
NameExclusion == \A k, o \in up : k # o => NameOf[k] # NameOf[o]

\* A claim one workload needs for itself is never used by another at once.
ClaimExclusion ==
    \A k, o \in up : \A c \in ClaimsOf[k] \cap ClaimsOf[o] :
        k # o => Wanted(k)[c] = "shared" /\ Wanted(o)[c] = "shared"

\* A live workload is never forgotten: while the kubelet runs it has a record
\* of everything the runtime has, and holds its name.
NothingForgotten ==
    running => \A k \in up : record[k] # "none" /\ NameOf[k] \in owned[k]

\* The claims a pass is staging for its start or unstaging for its stop, with
\* or without their locks.
Staging(k) == pass[k].at \in {"start", "launch"} /\ k \notin up
Unstaging(k) == pass[k].at = "stop" /\ k \in staged
Mutates(k) == IF Staging(k) \/ Unstaging(k) THEN ClaimsOf[k] ELSE {}

\* Only one pass at a time stages or unstages a claim.  The code lets two be at
\* it where one stops a workload whose claims were never seeded, which locks
\* nothing: beside another stop, or, when no record of the workload is left but
\* its volumes are, beside a start too.  One with a record keeps every start
\* out until it is gone.
ClaimMutationsSerialized ==
    \A k, o \in Keys : k # o /\ Mutates(k) \cap Mutates(o) # {} =>
        \E q \in {k, o} : /\ Unstaging(q) /\ pass[q].cs = {}
                          /\ record[q] = "none" \/ (Unstaging(k) /\ Unstaging(o))

\* A deletion is acknowledged, and a reservation given up, only when the
\* runtime and the volumes of the workload are gone.
CleanupConfirmed ==
    \A k \in Keys : pass[k].at \in {"ack", "release"} => k \notin up /\ k \notin staged

\* A workload half-way through its start keeps the volumes it has mounted.
StartKeepsVolumes ==
    \A k \in Keys : pass[k].at = "launch" /\ ClaimsOf[k] # {} => k \in staged

\* A workload whose object is gone is eventually stopped, its volumes unstaged
\* and its reservations released.
GoneIsReleased ==
    \A k \in Keys : []<>(api[k] # "gone" \/ (k \notin up /\ k \notin staged /\ owned[k] = {}))

\* A workload whose object stays, with nothing else left that could hold its
\* name or claims, eventually runs.
LastOneRuns ==
    \A k \in Keys :
        <>[](api[k] = "live" /\ \A o \in Keys \ {k} : api[o] \in {"absent", "gone"})
            => <>[](k \in up)
=============================================================================
