---------------------------- MODULE PodLifecycle ----------------------------
(***************************************************************************)
(* One Pod's life in the Pod manager (pkg/kubelet/src/pod_manager.rs): the *)
(* pass over its object that starts it, looks at it, restarts its          *)
(* containers, finishes it or stops it, against a runtime that keeps its   *)
(* own account of sandboxes and containers, and a kubelet that may die     *)
(* between any two calls.  The executor runs one pass per Pod at a time    *)
(* (Workloads.tla), so the other Pods of the node are left out.            *)
(*                                                                         *)
(* The runtime is a CRI one ("cri": it outlives the kubelet, a stop waits  *)
(* for the end, removing a sandbox removes its containers) or stormpump    *)
(* ("ring", stormpump_runtime.rs: its records are the kubelet's memory, a  *)
(* stop signals, a removal refused while the process runs is still owed,   *)
(* and a sandbox with container records is not removed).                   *)
(***************************************************************************)
EXTENDS Naturals, Sequences, FiniteSets

CONSTANTS Inits,      \* the init containers, as declared: a sequence
          Sidecars,   \* those of them with restartPolicy Always
          Apps,       \* the app containers, as declared: a sequence
          Probed,     \* the app containers with a liveness probe
          Policies,   \* the restartPolicies tried
          Faults,     \* for each runtime tried, the calls that may fail
          Crashes,    \* for each, how often the kubelet may die
          MaxTroubles,  \* bound: calls that fail, processes that end and crashes, together
          MaxIds        \* bound: containers

Names(s) == {s[i] : i \in DOMAIN s}
Declared == Names(Apps) \cup Sidecars
All == Names(Apps) \cup Names(Inits)
Ids == 1..MaxIds
Boxes == 1..(MaxTroubles + 1)
FaultKinds == {"sandbox", "create", "start", "replace", "restart", "status", "probe", "stop",
               "finish", "volumes", "write", "ack"}

ASSUME NamesAssumption ==
    /\ Inits \in Seq(Names(Inits)) /\ Apps \in Seq(Names(Apps))
    /\ Sidecars \subseteq Names(Inits) /\ Probed \subseteq Names(Apps)
    /\ Names(Inits) \cap Names(Apps) = {}
ASSUME RuntimeAssumption ==
    /\ Policies \subseteq {"Always", "OnFailure", "Never"}
    /\ Faults \in [DOMAIN Faults -> SUBSET FaultKinds] /\ DOMAIN Faults \subseteq {"cri", "ring"}
    /\ Crashes \in [DOMAIN Faults -> Nat]
ASSUME BoundAssumption == MaxTroubles \in Nat /\ MaxIds \in Nat

VARIABLES policy,     \* the Pod's restartPolicy
          runtime,    \* the node's runtime
          obj,        \* the object in the API: the outcome its status gives, and whether it is live
          seen,       \* the copy of it the executor has published
          box,        \* the runtime's sandboxes of this Pod
          con,        \* its containers, by id
          hidden,     \* the containers whose removal the runtime still owes (removing)
          rec,        \* the manager's PodState
          held,       \* the containers in their crash-loop back-off (kept on disk)
          holdoff,    \* the Pod waits out a failed start
          pass,       \* the pass at work
          running, crashes, troubles,
          inited,     \* history: the init containers that completed in the sandbox
          strays      \* history: sandboxes the manager has no record of

spec == <<policy, runtime>>
api == <<obj, seen>>
engine == <<box, con, hidden>>
memory == <<rec, held, holdoff>>
env == <<running, crashes, troubles>>
past == <<inited, strays>>
vars == <<spec, api, engine, memory, pass, env, past>>

NoRec == [phase |-> "none", box |-> 0, ids |-> [n \in All |-> 0],
          term |-> [n \in All |-> "no"], done |-> {}, stopped |-> FALSE]
NoCon == [name |-> "none", box |-> 0, st |-> "free"]
NoPass == [at |-> "idle", i |-> 0, todo |-> {}, name |-> "none", new |-> 0,
           gated |-> FALSE, then |-> "none", report |-> "none"]

\* What a later pass makes of a status.phase: the Pod is over, or still active.
Outcome(p) == IF p \in {"Succeeded", "Failed"} /\ policy # "Always" THEN "over" ELSE "active"
PolicyOf(n) == IF n \in Sidecars THEN "Always" ELSE policy
At(a) == running /\ pass.at = a
Go(a) == pass' = [pass EXCEPT !.at = a]
Look(a, s) == pass' = [pass EXCEPT !.at = a, !.todo = s]
Finish == pass' = NoPass
\* The pass is over but for what it writes to the object's status.
Report(p) == pass' = [NoPass EXCEPT !.at = "report", !.report = Outcome(p)]

\* A call of kind f fails, within the bound.
Trouble == troubles < MaxTroubles /\ troubles' = troubles + 1
Fails(f) == f \in Faults[runtime] /\ Trouble
Holds == UNCHANGED troubles
Env == UNCHANGED <<spec, running, crashes>>

-----------------------------------------------------------------------------
(* The runtime. *)

Free(i) == con[i].st = "free" /\ \A n \in All : rec.ids[n] # i
In(b) == {i \in Ids : con[i].box = b}
State(i, s) == [con EXCEPT ![i] = IF s = "free" THEN NoCon ELSE [@ EXCEPT !.st = s]]

\* What container_status answers: a container being removed is not found, and
\* one that was told to stop counts as exited.
StatusOf(i) ==
    IF i = 0 \/ i \in hidden THEN "free"
    ELSE IF con[i].st = "stopping" THEN "ok" ELSE con[i].st

Busy(i) == con[i].st \in {"running", "stopping"}
Stopped(i) == IF con[i].st = "running" THEN (IF runtime = "cri" THEN "bad" ELSE "stopping")
              ELSE con[i].st

Make(n, i) ==
    /\ Free(i) /\ \A j \in Ids : Free(j) => i <= j
    /\ con' = [con EXCEPT ![i] = [name |-> n, box |-> rec.box, st |-> "created"]]
    /\ UNCHANGED <<box, hidden>>

Start(i) ==
    /\ con[i].st = "created" /\ con' = State(i, "running")
    /\ UNCHANGED <<box, hidden>>

\* stop_container and remove_container of a set of ids: a stop ends a process
\* or signals it, a removal of one still running stays owed.
Stop(S) ==
    /\ con' = [i \in Ids |-> IF i \in S THEN [con[i] EXCEPT !.st = Stopped(i)] ELSE con[i]]
    /\ UNCHANGED <<box, hidden>>

Owed(S) == {i \in S : runtime = "ring" /\ Busy(i)}
Remove(S) ==
    /\ con' = [i \in Ids |-> IF i \in S \ Owed(S) THEN NoCon ELSE con[i]]
    /\ hidden' = hidden \cup Owed(S)
    /\ UNCHANGED box

\* A sandbox the runtime no longer has is none to stop.
StopBox(b) ==
    /\ box' = [box EXCEPT ![b] = IF @ = "none" THEN @ ELSE "stopped"]
    /\ con' = [i \in Ids |-> IF runtime = "cri" /\ i \in In(b) THEN [con[i] EXCEPT !.st = Stopped(i)]
                            ELSE con[i]]
    /\ UNCHANGED hidden

\* A new sandbox.
MakeBox(b) ==
    /\ box[b] = "none" /\ \A c \in Boxes : box[c] = "none" => b <= c
    /\ box' = [box EXCEPT ![b] = "ready"]
    /\ UNCHANGED <<con, hidden>>

-----------------------------------------------------------------------------
(* The pass begins: sync_pods_observed, by what the published object says. *)

\* Faulty: a deleted Pod with no record is not stopped.
ToStopKnown == seen.life \in {"deleting", "gone"} /\ rec # NoRec
ToStop == seen.life = "deleting" \/ (seen.life = "gone" /\ rec # NoRec)
Known == rec.phase \notin {"none", "Starting", "Cleanup"}

Begin ==
    /\ At("idle")
    /\ \/ /\ ToStop
          /\ pass' = [pass EXCEPT !.at = "stop", !.then = seen.life, !.i = Len(Inits)]
       \/ /\ seen.life = "live" /\ seen.phase = "over"
          /\ Go("release")
       \/ /\ seen.life = "live" /\ seen.phase = "active"
          /\ \/ /\ rec.phase = "Cleanup"
                /\ pass' = [pass EXCEPT !.at = "stop", !.then = "start", !.i = Len(Inits)]
             \/ Known /\ Look("check", {n \in All : rec.ids[n] # 0})
             \/ rec.phase \in {"none", "Starting"} /\ ~ holdoff /\ Go("sandbox")
    /\ Holds /\ Env /\ UNCHANGED <<api, engine, memory, past>>

-----------------------------------------------------------------------------
(* start_pod and its error paths. *)

\* Faulty: the record goes with the failed start.
FailStartForgets(p) == rec' = NoRec /\ Report(p)
\* Faulty: the phase is left as it was.
FailStartKeeps(p) == UNCHANGED rec /\ Report(p)

\* The start failed: what was made is torn down by the next pass.
FailStart(p) ==
    /\ rec' = IF rec = NoRec THEN rec ELSE [rec EXCEPT !.phase = "Cleanup"]
    /\ Report(p)

Sandbox ==
    /\ At("sandbox")
    /\ \/ \* volumes, images or the network are not there yet: nothing is undone
          Fails("sandbox") /\ Report("Pending") /\ UNCHANGED <<engine, memory, past>>
       \/ Fails("sandbox") /\ FailStart("Failed") /\ UNCHANGED <<engine, held, holdoff, past>>
       \/ \* a CRI runtime made it and the answer was lost: it is on no record
          /\ rec = NoRec /\ runtime = "cri" /\ Fails("sandbox")
          /\ \E b \in Boxes : MakeBox(b) /\ strays' = strays \cup {b}
          /\ \E p \in {"Pending", "Failed"} : Report(p)
          /\ UNCHANGED <<memory, inited>>
       \/ /\ rec # NoRec /\ Holds
          /\ pass' = [pass EXCEPT !.at = "init", !.i = 1]
          /\ UNCHANGED <<engine, memory, past>>
       \/ /\ rec = NoRec /\ Holds
          /\ \E b \in Boxes : MakeBox(b) /\ rec' = [NoRec EXCEPT !.phase = "Starting", !.box = b]
          /\ pass' = [pass EXCEPT !.at = "init", !.i = 1]
          /\ inited' = {}
          /\ UNCHANGED <<held, holdoff, strays>>
    /\ Env /\ UNCHANGED api

Init_ == Inits[pass.i]
InInits == At("init") /\ pass.i <= Len(Inits)
NextInit == pass' = [pass EXCEPT !.i = @ + 1]

\* An error of an init container's calls: "Failed" if the runtime refused,
\* "Pending" if it did not answer; an image that does not pull waits as well.
InitError(f) ==
    /\ Fails(f)
    /\ \/ \E p \in {"Pending", "Failed"} : FailStart(p) /\ UNCHANGED holdoff
       \/ f = "create" /\ FailStart("Pending") /\ holdoff' = TRUE
    /\ UNCHANGED <<engine, held>>

\* Faulty: one that was made is passed over as if it had ended.
SkipMadeInit ==
    /\ InInits /\ rec.ids[Init_] # 0 /\ NextInit
    /\ Holds /\ Env /\ UNCHANGED <<api, engine, memory, past>>

SkipInit ==
    /\ InInits /\ Init_ \in rec.done /\ NextInit
    /\ Holds /\ Env /\ UNCHANGED <<api, engine, memory, past>>

CreateInit ==
    /\ InInits /\ Init_ \notin rec.done /\ rec.ids[Init_] = 0
    /\ \/ /\ Init_ \in Sidecars \cap held
          /\ Report("Pending") /\ Holds /\ UNCHANGED <<engine, memory>>
       \/ /\ Init_ \notin Sidecars \cap held /\ Holds
          /\ \E i \in Ids : Make(Init_, i) /\ rec' = [rec EXCEPT !.ids[Init_] = i]
          /\ Go("initstart") /\ UNCHANGED <<held, holdoff>>
       \/ Init_ \notin Sidecars \cap held /\ InitError("create")
    /\ Env /\ UNCHANGED <<api, past>>

StartInit ==
    /\ At("initstart")
    /\ \/ Start(rec.ids[Init_]) /\ Go("init") /\ Holds /\ UNCHANGED memory
       \/ InitError("start")
    /\ Env /\ UNCHANGED <<api, past>>

\* The wait for an init container, and sidecar_step.
LookAtInit ==
    /\ InInits /\ Init_ \notin rec.done /\ rec.ids[Init_] # 0
    /\ LET id == rec.ids[Init_] status == StatusOf(id) IN
       \/ /\ status \in {"created", "running"} /\ ~ (Init_ \in Sidecars /\ status = "running")
          /\ Report("Pending") /\ Holds /\ UNCHANGED <<engine, memory>>
       \/ /\ Init_ \in Sidecars /\ status = "running"
          /\ NextInit /\ Holds /\ UNCHANGED <<engine, memory>>
       \/ /\ Init_ \in Sidecars /\ status \in {"ok", "bad"}
          /\ Remove({id}) /\ rec' = [rec EXCEPT !.ids[Init_] = 0] /\ held' = held \cup {Init_}
          /\ Report("Pending") /\ Holds /\ UNCHANGED holdoff
       \/ /\ Init_ \notin Sidecars /\ status = "ok"
          /\ rec' = [rec EXCEPT !.done = @ \cup {Init_}]
          \* a CRI runtime keeps it, for its log
          /\ IF runtime = "ring" THEN Remove({id}) ELSE UNCHANGED engine
          /\ NextInit /\ Holds /\ UNCHANGED <<held, holdoff>>
       \/ /\ Init_ \notin Sidecars /\ status = "bad"
          /\ Remove({id}) /\ FailStart("Failed") /\ Holds /\ UNCHANGED <<held, holdoff>>
       \/ /\ status = "free" /\ FailStart("Failed") /\ Holds /\ UNCHANGED <<engine, held, holdoff>>
       \/ InitError("status")
    /\ Env /\ UNCHANGED <<api, past>>

App == Apps[pass.i - Len(Inits)]
InApps == At("init") /\ pass.i \in (Len(Inits) + 1)..(Len(Inits) + Len(Apps))

\* ImagePull, Container and Connection errors of an app container.
AppError(f) ==
    /\ Fails(f)
    /\ \/ \* a start refused ends a Never Pod; anything else waits
          /\ FailStart(IF f = "start" /\ policy = "Never" THEN "Failed" ELSE "Pending")
          /\ holdoff' = (holdoff \/ ~ (f = "start" /\ policy = "Never"))
       \/ FailStart("Pending") /\ UNCHANGED holdoff
    /\ UNCHANGED <<engine, held>>

CreateApp ==
    /\ InApps
    /\ \/ /\ \E i \in Ids : Make(App, i) /\ rec' = [rec EXCEPT !.ids[App] = i]
          /\ Go("appstart") /\ Holds /\ UNCHANGED <<held, holdoff>>
       \/ AppError("create")
    /\ Env /\ UNCHANGED <<api, past>>

StartApp ==
    /\ At("appstart")
    /\ \/ /\ Start(rec.ids[App])
          /\ pass' = [pass EXCEPT !.at = "init", !.i = @ + 1]
          /\ Holds /\ UNCHANGED memory
       \/ AppError("start")
    /\ Env /\ UNCHANGED <<api, past>>

Started ==
    /\ At("init") /\ pass.i > Len(Inits) + Len(Apps)
    /\ rec' = [rec EXCEPT !.phase = "Running",
                          !.ids = [n \in All |-> IF n \in Declared THEN rec.ids[n] ELSE 0]]
    /\ holdoff' = FALSE
    /\ Report("Running")
    /\ Holds /\ Env /\ UNCHANGED <<api, engine, held, past>>

-----------------------------------------------------------------------------
(* check_pod_status and restart_container. *)

\* An ended container is restarted, by the policy and how it ended.
Restarted(n, status) ==
    PolicyOf(n) = "Always" \/ (PolicyOf(n) = "OnFailure" /\ status \in {"free", "bad"})

\* Faulty: any answer is put down as the end.
TermAsAnswered(status) == status
TermOf(status) == IF status = "bad" THEN "bad" ELSE "ok"

\* The container comes round: left alone, put down as ended, or replaced.
CheckOne ==
    /\ At("check")
    /\ \E n \in pass.todo :
         LET id == rec.ids[n]
             status == StatusOf(id)
             comesBack == Restarted(n, status)
             rest == pass.todo \ {n}
         IN \/ /\ rec.term[n] # "no" \/ status \in {"created", "running"}
               /\ Look("check", rest) /\ Holds /\ UNCHANGED rec
            \/ Fails("status") /\ rec.term[n] = "no" /\ Look("check", rest) /\ UNCHANGED rec
            \/ \* the liveness probe reached its threshold, whatever the policy
               /\ rec.term[n] = "no" /\ status = "running" /\ n \in Probed /\ Fails("probe")
               /\ pass' = [pass EXCEPT !.at = "replace", !.name = n, !.todo = rest, !.gated = FALSE]
               /\ UNCHANGED rec
            \/ /\ rec.term[n] = "no" /\ status \in {"free", "ok", "bad"} /\ Holds
               /\ \/ /\ comesBack /\ n \in held
                     /\ Look("check", rest) /\ UNCHANGED rec
                  \/ \* an adopted init container has no spec to be made again from
                     /\ comesBack /\ n \notin held /\ (n \in Declared \/ status # "free")
                     /\ pass' = [pass EXCEPT !.at = "replace", !.name = n, !.todo = rest, !.gated = TRUE]
                     /\ UNCHANGED rec
                  \/ /\ ~ comesBack \/ (n \notin held /\ n \notin Declared /\ status = "free")
                     /\ rec' = [rec EXCEPT !.term[n] = TermOf(status)]
                     /\ Look("check", rest)
    /\ Env /\ UNCHANGED <<api, engine, held, holdoff, past>>

\* The old container is stopped and removed, and both answers are ignored.
Replace ==
    /\ At("replace")
    /\ LET id == rec.ids[pass.name] IN
       \/ /\ Holds
          /\ IF id = 0 THEN UNCHANGED engine
             ELSE /\ con' = State(id, IF runtime = "ring" /\ Busy(id) THEN "stopping" ELSE "free")
                  /\ hidden' = hidden \cup Owed({id})
                  /\ UNCHANGED box
       \/ /\ id # 0 /\ Busy(id) /\ Fails("replace")
          /\ hidden' = hidden \cup Owed({id}) /\ UNCHANGED <<box, con>>
    /\ Go("create")
    /\ Env /\ UNCHANGED <<api, memory, past>>

\* What follows restart_container, made or not: its back-off, when it has one.
Back ==
    /\ pass' = [pass EXCEPT !.at = "check", !.new = 0, !.name = "none", !.gated = FALSE]
    /\ held' = IF pass.gated THEN held \cup {pass.name} ELSE held

Recreate ==
    /\ At("create")
    /\ \/ /\ pass.name \in Declared
          /\ \E i \in Ids : Make(pass.name, i) /\ pass' = [pass EXCEPT !.at = "restart", !.new = i]
          /\ Holds /\ UNCHANGED held
       \/ /\ Fails("restart") \/ (pass.name \notin Declared /\ Holds)
          /\ Back /\ UNCHANGED engine
    /\ Env /\ UNCHANGED <<api, rec, holdoff, past>>

\* A start that fails leaves the new container created and on no record.
Restart ==
    /\ At("restart") /\ Back
    /\ \/ /\ Start(pass.new) /\ Holds
          /\ rec' = [rec EXCEPT !.ids[pass.name] = pass.new]
       \/ Fails("restart") /\ UNCHANGED <<engine, rec>>
    /\ Env /\ UNCHANGED <<api, holdoff, past>>

Missing == {n \in Declared : rec.ids[n] = 0 /\ rec.term[n] = "no"}

\* A declared container with no record is made, unless it backs off.
CreateMissing ==
    /\ At("check") /\ pass.todo = {} /\ ~ Missing \subseteq held
    /\ \E n \in Missing \ held : pass' = [pass EXCEPT !.at = "create", !.name = n, !.gated = TRUE]
    /\ Holds /\ Env /\ UNCHANGED <<api, engine, memory, past>>

\* The phase is the app containers'.
Phase ==
    LET apps == {n \in All \ Sidecars : rec.ids[n] # 0}
    IN IF policy = "Always" \/ apps = {} \/ \E n \in apps : rec.term[n] = "no" THEN "Running"
       ELSE IF \A n \in apps : rec.term[n] = "ok" THEN "Succeeded" ELSE "Failed"

Conclude ==
    /\ At("check") /\ pass.todo = {} /\ Missing \subseteq held
    /\ rec' = [rec EXCEPT !.phase = Phase]
    /\ IF Phase = "Running" THEN Report("Running")
       ELSE pass' = [pass EXCEPT !.at = "finish", !.report = Outcome(Phase), !.i = Len(Inits)]
    /\ Holds /\ Env /\ UNCHANGED <<api, engine, held, holdoff, past>>

\* The sidecars of a finished Pod, last declared first.
FinishSidecar ==
    /\ At("finish") /\ pass.i > 0
    /\ pass' = [pass EXCEPT !.i = @ - 1]
    /\ \/ /\ Init_ \notin Sidecars \/ rec.ids[Init_] = 0 \/ rec.term[Init_] # "no"
          /\ Holds /\ UNCHANGED <<engine, rec>>
       \/ /\ Init_ \in Sidecars /\ rec.ids[Init_] # 0 /\ rec.term[Init_] = "no"
          /\ \/ /\ Stop({rec.ids[Init_]}) /\ Holds
                /\ rec' = [rec EXCEPT !.term[Init_] = "ok"]
             \/ Fails("finish") /\ UNCHANGED <<engine, rec>>
    /\ Env /\ UNCHANGED <<api, held, holdoff, past>>

\* stop_finished_sandbox: from the pass that finished the Pod, or a later one.
ReleaseBox ==
    /\ At("release") \/ (At("finish") /\ pass.i = 0)
    /\ IF pass.report = "none" THEN Finish ELSE Go("report")
    /\ \/ /\ rec = NoRec \/ rec.stopped
          /\ Holds /\ UNCHANGED <<engine, rec>>
       \/ /\ rec # NoRec /\ ~ rec.stopped /\ Holds
          /\ StopBox(rec.box) /\ rec' = [rec EXCEPT !.stopped = TRUE]
       \/ rec # NoRec /\ ~ rec.stopped /\ Fails("finish") /\ UNCHANGED <<engine, rec>>
    /\ Env /\ UNCHANGED <<api, held, holdoff, past>>

-----------------------------------------------------------------------------
(* stop_pod_within. *)

Running(S) == {i \in S : con[i].st = "running"}
AppIds == {rec.ids[n] : n \in All \ Sidecars} \ {0}
Left(S) == {i \in S : con[i].st # "free"}
\* Faulty: a stop that fails goes on to forget the Pod.
StopErrorIgnored == Fails("stop") /\ Go("forget")
StopError == Fails("stop") /\ Finish
Stopping == Env /\ UNCHANGED <<api, memory, past>>

StopApps ==
    /\ At("stop") /\ Running(AppIds) # {}
    /\ \/ Stop(AppIds) /\ Holds /\ UNCHANGED pass
       \/ StopError /\ \E S \in SUBSET AppIds : S # AppIds /\ Stop(S)
    /\ Stopping

\* A removal the runtime refuses ends the pass: the next one tries again.
Removal(S) ==
    \E i \in Left(S) :
       \/ Remove({i}) /\ Holds /\ IF Owed({i}) = {} THEN UNCHANGED pass ELSE Finish
       \/ StopError /\ UNCHANGED engine

RemoveApps ==
    /\ At("stop") /\ Running(AppIds) = {}
    /\ \/ Removal(AppIds)
       \/ Left(AppIds) = {} /\ Go("sides") /\ Holds /\ UNCHANGED engine
    /\ Stopping

StopSidecar ==
    /\ At("sides") /\ pass.i > 0
    /\ LET S == IF Init_ \in Sidecars THEN {rec.ids[Init_]} \ {0} ELSE {} IN
       \/ /\ Running(S) # {}
          /\ \/ Stop(S) /\ Holds /\ UNCHANGED pass
             \/ StopError /\ UNCHANGED engine
       \/ Running(S) = {} /\ Removal(S)
       \/ /\ Left(S) = {} /\ Holds /\ UNCHANGED engine
          /\ pass' = [pass EXCEPT !.i = @ - 1]
    /\ Stopping

\* The sandbox: stopped, then removed with what a CRI runtime has in it;
\* stormpump refuses while it has a container's record.
StopSandbox ==
    /\ At("sides") /\ pass.i = 0
    /\ \/ rec.box = 0 /\ Go("forget") /\ Holds /\ UNCHANGED engine
       \/ rec.box # 0 /\ StopBox(rec.box) /\ Go("unbox") /\ Holds
       \/ rec.box # 0 /\ StopError /\ UNCHANGED engine
    /\ Stopping

RemoveSandbox ==
    /\ At("unbox")
    /\ \/ /\ runtime = "ring" /\ Left(In(rec.box)) # {}
          /\ Finish /\ Holds /\ UNCHANGED engine
       \/ /\ runtime = "cri" \/ Left(In(rec.box)) = {}
          /\ box' = [box EXCEPT ![rec.box] = "none"]
          /\ con' = [i \in Ids |-> IF i \in In(rec.box) THEN NoCon ELSE con[i]]
          /\ hidden' = hidden \ In(rec.box) /\ Go("forget") /\ Holds
       \/ StopError /\ UNCHANGED engine
    /\ Stopping

\* The volumes, and then every table but the start hold-off.
Forget ==
    /\ At("forget")
    /\ \/ Fails("volumes") /\ Finish /\ UNCHANGED memory
       \/ /\ Holds /\ rec' = NoRec /\ held' = {} /\ UNCHANGED holdoff
          /\ CASE pass.then = "deleting" -> Go("ack")
               [] pass.then = "start" /\ ~ holdoff -> pass' = [NoPass EXCEPT !.at = "sandbox"]
               [] OTHER -> Finish
    /\ Env /\ UNCHANGED <<api, engine, past>>

-----------------------------------------------------------------------------
(* What the pass tells the API. *)

Acknowledge ==
    /\ At("ack") /\ Finish
    /\ \/ Holds /\ obj' = [obj EXCEPT !.life = "gone"]
       \/ Fails("ack") /\ UNCHANGED obj
    /\ Env /\ UNCHANGED <<seen, engine, memory, past>>

\* Written over whatever the API holds: on a 409 it is read again and written.
WriteStatus ==
    /\ At("report") /\ Finish
    /\ \/ Holds /\ obj' = IF obj.life = "gone" THEN obj ELSE [obj EXCEPT !.phase = pass.report]
       \/ Fails("write") /\ UNCHANGED obj
    /\ Env /\ UNCHANGED <<seen, engine, memory, past>>

-----------------------------------------------------------------------------
(* The cluster, the containers' processes, time, and the kubelet's life. *)

Delete ==
    /\ obj.life = "live" /\ obj' = [obj EXCEPT !.life = "deleting"]
    /\ UNCHANGED <<spec, seen, engine, memory, pass, env, past>>

\* A force delete.
Vanish ==
    /\ obj.life \in {"live", "deleting"} /\ obj' = [obj EXCEPT !.life = "gone"]
    /\ UNCHANGED <<spec, seen, engine, memory, pass, env, past>>

List ==
    /\ running /\ seen # obj /\ seen' = obj
    /\ UNCHANGED <<spec, obj, engine, memory, pass, env, past>>

End(i, r) ==
    /\ Busy(i)
    /\ CASE con[i].st = "stopping" -> r = "bad" /\ Holds
         [] con[i].st # "stopping" /\ con[i].name \in Names(Inits) \ Sidecars /\ r = "ok" -> Holds
         [] OTHER -> Trouble
    /\ con' = State(i, IF i \in hidden THEN "free" ELSE r)
    /\ hidden' = hidden \ {i}
    /\ inited' = IF r = "ok" /\ con[i].name \in Names(Inits) \ Sidecars
                 THEN inited \cup {con[i].name} ELSE inited
    /\ UNCHANGED <<spec, api, box, memory, pass, running, crashes, strays>>

BackoffEnds ==
    /\ held # {} /\ \E n \in held : held' = held \ {n}
    /\ UNCHANGED <<spec, api, engine, rec, holdoff, pass, env, past>>

HoldoffEnds ==
    /\ holdoff /\ holdoff' = FALSE
    /\ UNCHANGED <<spec, api, engine, rec, held, pass, env, past>>

Crash ==
    /\ running /\ crashes < Crashes[runtime] /\ crashes' = crashes + 1 /\ Trouble
    /\ running' = FALSE /\ rec' = NoRec /\ holdoff' = FALSE /\ pass' = NoPass
    /\ seen' = [phase |-> "active", life |-> "unknown"]
    /\ IF runtime = "cri" THEN UNCHANGED <<engine, strays>>
       ELSE /\ box' = [b \in Boxes |-> "none"] /\ hidden' = {} /\ strays' = {}
            /\ con' = [i \in Ids |-> NoCon]
    /\ UNCHANGED <<spec, obj, held, inited>>

\* recover_state: a sandbox the runtime lists is adopted as a running Pod, and
\* another of the same Pod is passed over.
Boot ==
    /\ ~ running /\ running' = TRUE
    /\ \/ (\A b \in Boxes : box[b] = "none") /\ UNCHANGED <<rec, strays>>
       \/ \E b \in Boxes, f \in [All -> {0} \cup Ids] :
            /\ box[b] # "none"
            /\ \A n \in All :
                 LET mine == {i \in Left(In(b)) : con[i].name = n}
                 IN IF mine = {} THEN f[n] = 0 ELSE f[n] \in mine
            /\ rec' = [NoRec EXCEPT !.phase = "Running", !.box = b, !.ids = f]
            /\ strays' = {c \in Boxes : box[c] # "none"} \ {b}
    /\ UNCHANGED <<spec, api, engine, held, holdoff, pass, crashes, troubles, inited>>

-----------------------------------------------------------------------------
PodInit ==
    /\ policy \in Policies /\ runtime \in DOMAIN Faults
    /\ obj = [phase |-> "active", life |-> "live"] /\ seen = obj
    /\ box = [b \in Boxes |-> "none"]
    /\ con = [i \in Ids |-> NoCon] /\ hidden = {}
    /\ rec = NoRec /\ held = {} /\ holdoff = FALSE /\ pass = NoPass
    /\ running = TRUE /\ crashes = 0 /\ troubles = 0 /\ inited = {} /\ strays = {}

Starting == Sandbox \/ SkipInit \/ CreateInit \/ StartInit \/ LookAtInit \/ CreateApp \/ StartApp
            \/ Started
Checking == CheckOne \/ Replace \/ Recreate \/ Restart \/ CreateMissing \/ Conclude \/ FinishSidecar
            \/ ReleaseBox
Ended == StopApps \/ RemoveApps \/ StopSidecar \/ StopSandbox \/ RemoveSandbox \/ Forget
PassStep == Begin \/ Starting \/ Checking \/ Ended \/ Acknowledge \/ WriteStatus

PodNext ==
    \/ PassStep
    \/ Delete \/ Vanish \/ List
    \/ \E i \in Ids, r \in {"ok", "bad"} : End(i, r)
    \/ BackoffEnds \/ HoldoffEnds
    \/ Crash \/ Boot

PodSpec == PodInit /\ [][PodNext]_vars

PodFairness ==
    /\ WF_vars(PassStep) /\ WF_vars(List) /\ WF_vars(Boot)
    /\ WF_vars(BackoffEnds) /\ WF_vars(HoldoffEnds)
    /\ \A i \in Ids : /\ WF_vars(con[i].st = "stopping" /\ End(i, "bad"))
                      /\ WF_vars(con[i].name \in Names(Inits) \ Sidecars /\ End(i, "ok"))
PodLiveSpec == PodSpec /\ PodFairness

-----------------------------------------------------------------------------
(* Properties. *)

PodTypeOK ==
    /\ policy \in Policies /\ runtime \in DOMAIN Faults
    /\ obj \in [phase : {"active", "over"}, life : {"live", "deleting", "gone"}]
    /\ box \in [Boxes -> {"none", "ready", "stopped"}]
    /\ con \in [Ids -> [name : All \cup {"none"}, box : {0} \cup Boxes,
                        st : {"free", "created", "running", "stopping", "ok", "bad"}]]
    /\ hidden \subseteq Ids
    /\ rec.ids \in [All -> {0} \cup Ids] /\ rec.term \in [All -> {"no", "ok", "bad"}]
    /\ rec.done \subseteq Names(Inits) /\ rec.box \in {0} \cup Boxes
    /\ held \subseteq All /\ inited \subseteq Names(Inits) /\ strays \subseteq Boxes
    /\ holdoff \in BOOLEAN

\* One sandbox per Pod, through failed starts, crashes and adoptions: the
\* record outlives every await of a teardown (stop_pod_within), so a new start
\* never makes a second beside one it knows of.  Not so for one that
\* run_pod_sandbox did not answer for, or that recover_state passed over.
OneSandbox == \A b, c \in Boxes \ strays : box[b] # "none" /\ box[c] # "none" => b = c

\* A deletion is acknowledged only when nothing of the Pod is left in the
\* runtime, whichever calls of the stop failed and were tried again
\* (Kubelet::reconcile deletes the object after stop_pod_within), but for the
\* sandboxes the manager has no record of.
AcknowledgedIsGone ==
    pass.at = "ack" => /\ \A b \in Boxes \ strays : box[b] = "none"
                       /\ \A i \in Ids : Busy(i) => con[i].box \in strays

\* A Pod's sandbox, from its start to its acknowledged end.
SandboxKept == OneSandbox /\ AcknowledgedIsGone

\* The order of a Pod's containers, at both ends of its life: no app container
\* starts before every init container has completed in this sandbox (start_pod),
\* and the kubelet never stops a sidecar under a running app container (the end
\* of check_pod_status, stop_pod_within).  A sandbox adopted from a CRI runtime
\* after a crash has lost which init containers completed.
ContainersInOrder ==
    [][\A i \in Ids : crashes = 0 \/ runtime = "ring" =>
          /\ (con'[i].name \in Names(Apps) /\ con'[i].st = "running" /\ con[i].st # "running"
             => Names(Inits) \ Sidecars \subseteq inited)
          /\ (/\ con[i].name \in Sidecars /\ con[i].st = "running" /\ con'[i].st # "running"
              /\ troubles' = troubles /\ box' = box
              => \A j \in Ids : con[j].name \in Names(Apps) => con[j].st # "running")]_vars

\* A deleted Pod is gone in the end, whatever failed on the way: every failure
\* of the stop is tried again (remove_pod_sandbox tries the removals it waits on).
DeletedIsGone == obj.life = "deleting" ~> obj.life = "gone"

\* An Always Pod's containers come back: what ends, is pruned or fails to start
\* is running again in the end (check_pod_status).
ComesBack ==
    policy = "Always" /\ obj.life = "live"
    ~> \/ obj.life # "live" \/ (crashes > 0 /\ runtime = "cri")
       \/ \A n \in Names(Apps) : \E i \in Ids : con[i].name = n /\ con[i].st = "running"
=============================================================================
