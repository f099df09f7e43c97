----------------------------- MODULE PodProofs -----------------------------
(***************************************************************************)
(* What PodLifecycle.tla promises for every Pod (any init containers,      *)
(* sidecars and app containers), any calls that may fail and any number of *)
(* crashes: one sandbox it knows of, recorded as long as it is there, and  *)
(* nothing left of that when the deletion is acknowledged.                 *)
(***************************************************************************)
EXTENDS PodLifecycle, TLAPS

Phases == {"none", "Starting", "Cleanup", "Running", "Succeeded", "Failed"}
Inside == {"init", "initstart", "appstart", "check", "replace", "create", "restart", "finish"}
Ending == {"stop", "sides", "unbox", "forget"}
PassSteps == {"idle", "sandbox", "release", "report", "ack"} \cup Inside \cup Ending
RecType == [phase : Phases, box : {0} \cup Boxes, ids : [All -> {0} \cup Ids],
            term : [All -> {"no", "ok", "bad"}], done : SUBSET Names(Inits), stopped : BOOLEAN]
ConType == [name : All \cup {"none"}, box : {0} \cup Boxes,
            st : {"free", "created", "running", "stopping", "ok", "bad"}]
PassType == [at : PassSteps, i : Nat, todo : SUBSET All, name : All \cup {"none"}, new : {0} \cup Ids,
             gated : BOOLEAN, then : {"none", "deleting", "gone", "start"},
             report : {"none", "active", "over"}]

ApiType == /\ obj \in [phase : {"active", "over"}, life : {"live", "deleting", "gone"}]
           /\ seen \in [phase : {"active", "over"}, life : {"live", "deleting", "gone", "unknown"}]
EngineType == /\ box \in [Boxes -> {"none", "ready", "stopped"}]
              /\ con \in [Ids -> ConType] /\ hidden \subseteq Ids
SpecType == policy \in Policies /\ runtime \in DOMAIN Faults
RestType == held \subseteq All /\ holdoff \in BOOLEAN /\ running \in BOOLEAN /\ inited \subseteq Names(Inits)
            /\ strays \subseteq Boxes

\* What a pass at its steps works on.
PassOf(p) ==
    /\ p \in PassType
    /\ p.at \in {"init", "initstart", "appstart"} => p.i >= 1
    /\ p.at = "initstart" => p.i <= Len(Inits)
    /\ p.at = "appstart" => p.i - Len(Inits) \in 1..Len(Apps)
    /\ p.at \in {"finish", "stop", "sides"} => p.i <= Len(Inits)
    /\ p.at \in {"replace", "create", "restart"} => p.name \in All
    /\ p.at = "restart" => p.new \in Ids
    /\ p.at = "report" => p.report # "none"

PodTypes == ApiType /\ EngineType /\ SpecType /\ RestType /\ rec \in RecType /\ PassOf(pass)

-----------------------------------------------------------------------------
Boxed == rec.box # 0 /\ box[rec.box] # "none"
Unboxed == rec.box # 0 /\ box[rec.box] = "none"
\* No sandbox but those the manager has no record of.
NoBoxes == \A b \in Boxes \ strays : box[b] = "none"
IsEnding == rec.phase = "Cleanup" \/ seen.life \in {"deleting", "gone"}

\* A kubelet that is down knows nothing; one that runs has the sandbox on record.
Recorded ==
    /\ ~ running => rec = NoRec /\ pass = NoPass
    /\ running => \A b \in Boxes \ strays : box[b] # "none" => rec.box = b
    /\ rec.box = 0 => rec = NoRec
    /\ rec.box \notin strays /\ \A b \in strays : box[b] # "none"
    /\ OneSandbox
\* A container is in a sandbox that is there.
Bare == \A i \in Ids : con[i] = NoCon \/ (con[i].box \in Boxes /\ box[con[i].box] # "none")
\* A record outlives its sandbox only in a teardown that has still to be finished.
Torn ==
    /\ Unboxed \/ pass.at \in Ending => IsEnding
    /\ seen.life \in {"deleting", "gone"} => obj.life \in {"deleting", "gone"}
\* Where in its work a pass is, by what there is.
Placed ==
    /\ pass.at \in Inside => Boxed
    /\ pass.at = "sandbox" => ~ Unboxed
    /\ pass.at = "unbox" => rec.box # 0
    /\ pass.at = "forget" => ~ Boxed
    /\ pass.at = "ack" => rec = NoRec

BoxInv == Recorded /\ Bare /\ Torn /\ Placed
PodInv == PodTypes /\ BoxInv

-----------------------------------------------------------------------------
(* The types of what the steps are made of. *)

LEMMA Declarations ==
    /\ Len(Inits) \in Nat /\ Len(Apps) \in Nat
    /\ \A i \in Nat : i >= 1 /\ i <= Len(Inits) => Inits[i] \in Names(Inits)
    /\ \A i \in 1..Len(Apps) : Apps[i] \in Names(Apps)
    /\ Names(Inits) \subseteq All /\ Names(Apps) \subseteq All /\ Declared \subseteq All
    /\ Sidecars \subseteq Names(Inits)
<1>1. Inits \in Seq(Names(Inits)) /\ Apps \in Seq(Names(Apps)) /\ Sidecars \subseteq Names(Inits)
    BY NamesAssumption
<1>2. /\ Len(Inits) \in Nat /\ DOMAIN Inits = 1..Len(Inits)
      /\ Len(Apps) \in Nat /\ DOMAIN Apps = 1..Len(Apps)
    <2>1. \A S : \A s \in Seq(S) : Len(s) \in Nat /\ DOMAIN s = 1..Len(s)
        OBVIOUS
    <2> QED BY <1>1, <2>1
<1>3. /\ \A i \in Nat : i >= 1 /\ i <= Len(Inits) => Inits[i] \in Names(Inits)
      /\ \A i \in 1..Len(Apps) : Apps[i] \in Names(Apps)
    BY <1>2 DEF Names
<1> QED BY <1>1, <1>2, <1>3 DEF All, Declared

LEMMA Nothings ==
    /\ NoRec \in RecType /\ NoRec.box = 0 /\ NoRec.phase = "none"
    /\ NoCon \in ConType /\ NoCon.st = "free"
    /\ PassOf(NoPass) /\ NoPass.at = "idle" /\ NoPass.i = 0
<1>1. NoPass \in PassType /\ NoPass.at = "idle" /\ NoPass.i = 0
    BY DEF NoPass, PassType, PassSteps
<1>2. PassOf(NoPass)
    BY <1>1 DEF PassOf
<1> QED BY <1>1, <1>2 DEF NoRec, RecType, Phases, NoCon, ConType

LEMMA ReportEffect == ASSUME NEW p, Report(p) PROVE PassOf(pass') /\ pass'.at = "report"
<1>1. PICK o \in {"over", "active"} : o = Outcome(p)
    BY DEF Outcome
<1>2. pass' = [NoPass EXCEPT !.at = "report", !.report = o]
    BY <1>1 DEF Report
<1>3. NoPass \in PassType
    BY Nothings DEF PassOf
<1>4. pass' \in PassType /\ pass'.at = "report" /\ pass'.report # "none"
    BY <1>1, <1>2, <1>3 DEF PassType, PassSteps
<1> QED BY <1>4 DEF PassOf

LEMMA FailEffect ==
    ASSUME rec \in RecType, NEW p, FailStart(p)
    PROVE  rec' \in RecType /\ rec'.box = rec.box /\ PassOf(pass') /\ pass'.at = "report"
<1>1. Report(p)
    BY DEF FailStart
<1>2. rec' \in RecType /\ rec'.box = rec.box
    <2>1. CASE rec = NoRec
        BY <2>1 DEF FailStart
    <2>2. CASE rec # NoRec
        BY <2>2 DEF FailStart, RecType, Phases
    <2> QED BY <2>1, <2>2
<1> QED BY <1>1, <1>2, ReportEffect

\* The runtime's calls.
SameBoxes == \A b \in Boxes : box'[b] = "none" <=> box[b] = "none"
\* No new container, and none elsewhere than it was.
SameBare == \A i \in Ids : con'[i] = NoCon \/ (con[i] # NoCon /\ con'[i].box = con[i].box)
\* A new one only in the Pod's sandbox.
Homed == \A i \in Ids : \/ con'[i] = NoCon \/ con'[i].box = rec.box
                        \/ con[i] # NoCon /\ con'[i].box = con[i].box

LEMMA BoxIds == 0 \notin Boxes
BY BoundAssumption DEF Boxes

LEMMA MakeEffect ==
    ASSUME EngineType, rec \in RecType, NEW n \in All, NEW i \in Ids, Make(n, i)
    PROVE  EngineType' /\ SameBoxes /\ Homed
<1>1. [name |-> n, box |-> rec.box, st |-> "created"] \in ConType
    BY DEF ConType, RecType
<1> QED BY <1>1 DEF Make, EngineType, SameBoxes, Homed

LEMMA StateEffect ==
    ASSUME EngineType, NEW i, NEW s \in {"running", "stopping", "free", "ok", "bad"},
           con' = State(i, s), box' = box, hidden' \subseteq Ids, s # "free" => con[i] # NoCon
    PROVE  EngineType' /\ SameBoxes /\ SameBare
<1>1. con' \in [Ids -> ConType] /\ SameBare
    <2>1. CASE s = "free"
        BY <2>1, Nothings DEF EngineType, State, SameBare
    <2>2. CASE s # "free"
        <3>1. con' = [con EXCEPT ![i] = [@ EXCEPT !.st = s]]
            BY <2>2 DEF State
        <3>2. \A j \in Ids : [con[j] EXCEPT !.st = s] \in ConType /\ [con[j] EXCEPT !.st = s].box = con[j].box
            BY DEF EngineType, ConType
        <3>3. con \in [Ids -> ConType]
            BY DEF EngineType
        <3>4. con' = [j \in Ids |-> IF j = i THEN [con[j] EXCEPT !.st = s] ELSE con[j]]
            BY <3>1, <3>3
        <3> QED BY <2>2, <3>2, <3>3, <3>4 DEF SameBare
    <2> QED BY <2>1, <2>2
<1> QED BY <1>1 DEF EngineType, SameBoxes

LEMMA StartEffect == ASSUME EngineType, NEW i, Start(i) PROVE EngineType' /\ SameBoxes /\ SameBare
<1>1. con[i] # NoCon
    BY Nothings DEF Start
<1> QED BY <1>1, StateEffect DEF Start, EngineType

LEMMA Settled == ASSUME SameBare PROVE Homed
BY DEF SameBare, Homed

LEMMA StoppedType ==
    \A i \in Ids : con[i] \in ConType => /\ [con[i] EXCEPT !.st = Stopped(i)] \in ConType
                                        /\ [con[i] EXCEPT !.st = Stopped(i)].box = con[i].box
<1> SUFFICES ASSUME NEW i \in Ids, con[i] \in ConType
             PROVE  /\ [con[i] EXCEPT !.st = Stopped(i)] \in ConType
                    /\ [con[i] EXCEPT !.st = Stopped(i)].box = con[i].box
    OBVIOUS
<1>1. Stopped(i) \in {"free", "created", "running", "stopping", "ok", "bad"}
    BY DEF Stopped, ConType
<1> QED BY <1>1 DEF ConType

LEMMA StoppedNothing == \A i \in Ids : con[i] = NoCon => [con[i] EXCEPT !.st = Stopped(i)] = NoCon
BY DEF Stopped, NoCon

LEMMA StopEffect == ASSUME EngineType, NEW S, Stop(S) PROVE EngineType' /\ SameBoxes /\ SameBare
<1>1. con' \in [Ids -> ConType] /\ SameBare
    BY StoppedType, StoppedNothing DEF EngineType, Stop, SameBare
<1> QED BY <1>1 DEF EngineType, Stop, SameBoxes

LEMMA RemoveEffect == ASSUME EngineType, NEW S, Remove(S), S \subseteq Ids PROVE EngineType' /\ SameBoxes /\ SameBare
<1>1. con' \in [Ids -> ConType]
    BY Nothings DEF EngineType, Remove
<1>2. hidden' \subseteq Ids
    BY DEF EngineType, Remove, Owed
<1>3. SameBare
    BY DEF SameBare, Remove
<1> QED BY <1>1, <1>2, <1>3 DEF EngineType, Remove, SameBoxes

LEMMA StopBoxEffect == ASSUME EngineType, NEW b, StopBox(b) PROVE EngineType' /\ SameBoxes /\ SameBare
<1>1. con' \in [Ids -> ConType] /\ SameBare
    BY StoppedType, StoppedNothing DEF EngineType, StopBox, SameBare
<1>2. hidden' = hidden
    BY DEF StopBox
<1>3. box' \in [Boxes -> {"none", "ready", "stopped"}] /\ SameBoxes
    BY DEF EngineType, StopBox, SameBoxes
<1> QED BY <1>1, <1>2, <1>3 DEF EngineType, StopBox

-----------------------------------------------------------------------------
(* A step of a pass that starts the Pod or looks at it: the sandbox stays. *)

Inner ==
    /\ running /\ pass.at \in Inside
    /\ rec' \in RecType /\ rec'.box = rec.box
    /\ PassOf(pass') /\ pass'.at \in Inside \cup {"report", "idle"}
    /\ EngineType' /\ SameBoxes /\ Homed
    /\ held' \subseteq All /\ holdoff' \in BOOLEAN /\ inited' \subseteq Names(Inits)
    /\ UNCHANGED <<policy, runtime, obj, seen, running, strays>>

LEMMA InnerStep == ASSUME PodInv, Inner PROVE PodInv'
<1> USE DEF PodInv, BoxInv, Inner
<1>1. PodTypes'
    BY DEF PodTypes, ApiType, SpecType, RestType
<1>2. Boxed /\ Boxed' /\ rec.box \in Boxes
    BY DEF Placed, Boxed, PodTypes, RecType, SameBoxes
<1>3. Recorded'
    <2>1. \A b \in Boxes \ strays : box'[b] # "none" => rec'.box = b
        BY DEF Recorded, SameBoxes
    <2>2. OneSandbox'
        BY <2>1 DEF OneSandbox
    <2>3. \A b \in strays : box'[b] # "none"
        BY DEF Recorded, SameBoxes, PodTypes, RestType
    <2> QED BY <1>2, <2>1, <2>2, <2>3, BoxIds DEF Recorded, Boxed
<1>4. Bare'
    BY <1>2 DEF Bare, Boxed, Homed, SameBoxes
<1>5. Torn'
    BY <1>2 DEF Torn, Boxed, Unboxed, Ending, Inside
<1>6. Placed'
    BY <1>2 DEF Placed, Boxed, Unboxed, Inside
<1> QED BY <1>1, <1>3, <1>4, <1>5, <1>6

-----------------------------------------------------------------------------
(* Each of those steps. *)

LEMMA AtWork ==
    ASSUME PodInv
    PROVE  /\ rec \in RecType /\ EngineType /\ PassOf(pass) /\ pass \in PassType /\ pass.i \in Nat
           /\ held \subseteq All /\ holdoff \in BOOLEAN /\ inited \subseteq Names(Inits)
           /\ strays \subseteq Boxes /\ rec.ids \in [All -> {0} \cup Ids]
BY DEF PodInv, PodTypes, PassOf, PassType, RestType, RecType

LEMMA SameEngine == ASSUME EngineType, UNCHANGED engine PROVE EngineType' /\ SameBoxes /\ SameBare /\ Homed
BY DEF Homed, engine, EngineType, SameBoxes, SameBare

LEMMA SameMemory == ASSUME UNCHANGED memory PROVE rec' = rec /\ held' = held /\ holdoff' = holdoff
BY DEF memory

LEMMA RecordId ==
    ASSUME rec \in RecType, NEW n \in All, NEW i \in {0} \cup Ids, rec' = [rec EXCEPT !.ids[n] = i]
    PROVE  rec' \in RecType /\ rec'.box = rec.box
<1>1. [rec.ids EXCEPT ![n] = i] \in [All -> {0} \cup Ids]
    BY DEF RecType
<1> QED BY <1>1 DEF RecType

LEMMA RecordTerm ==
    ASSUME rec \in RecType, NEW n \in All, NEW t \in {"ok", "bad"}, rec' = [rec EXCEPT !.term[n] = t]
    PROVE  rec' \in RecType /\ rec'.box = rec.box
<1>1. [rec.term EXCEPT ![n] = t] \in [All -> {"no", "ok", "bad"}]
    BY DEF RecType
<1> QED BY <1>1 DEF RecType

LEMMA NextEffect ==
    ASSUME pass \in PassType, NextInit, pass.at = "init"
    PROVE  PassOf(pass') /\ pass'.at = "init"
BY DEF NextInit, PassType, PassOf

LEMMA InitErrorEffect ==
    ASSUME PodInv, NEW f, InitError(f)
    PROVE  /\ rec' \in RecType /\ rec'.box = rec.box /\ PassOf(pass') /\ pass'.at = "report"
           /\ EngineType' /\ SameBoxes /\ Homed /\ held' = held /\ holdoff' \in BOOLEAN
<1>1. PICK p \in {"Pending", "Failed"} : FailStart(p) /\ holdoff' \in {holdoff, TRUE}
    BY DEF InitError
<1> QED BY <1>1, AtWork, FailEffect, SameEngine DEF InitError

LEMMA AppErrorEffect ==
    ASSUME PodInv, NEW f, AppError(f)
    PROVE  /\ rec' \in RecType /\ rec'.box = rec.box /\ PassOf(pass') /\ pass'.at = "report"
           /\ EngineType' /\ SameBoxes /\ Homed /\ held' = held /\ holdoff' \in BOOLEAN
<1>1. PICK p : FailStart(p)
    BY DEF AppError
<1>2. holdoff' \in BOOLEAN
    BY AtWork, Zenon DEF AppError
<1> QED BY <1>1, <1>2, AtWork, FailEffect, SameEngine DEF AppError

LEMMA SkipInitInner == ASSUME PodInv, SkipInit PROVE Inner
<1>1. pass.at = "init" /\ running /\ NextInit /\ UNCHANGED <<engine, memory>>
    BY DEF SkipInit, InInits, At
<1> QED BY <1>1, AtWork, NextEffect, SameEngine, SameMemory DEF Inner, Inside, SkipInit, Env, spec, api, past

LEMMA CreateInitInner == ASSUME PodInv, CreateInit PROVE Inner
<1>1. pass.at = "init" /\ running /\ pass.i <= Len(Inits) /\ inited' = inited /\ strays' = strays
    BY DEF CreateInit, InInits, At, past
<1>2. Init_ \in All /\ pass.i >= 1
    BY <1>1, AtWork, Declarations DEF PassOf, Init_
<1>3. UNCHANGED <<policy, runtime, obj, seen, running>>
    BY DEF CreateInit, Env, spec, api
<1>4. CASE Report("Pending") /\ UNCHANGED <<engine, memory>>
    BY <1>1, <1>3, <1>4, AtWork, ReportEffect, SameEngine, SameMemory DEF Inner, Inside
<1>5. CASE /\ \E i \in Ids : Make(Init_, i) /\ rec' = [rec EXCEPT !.ids[Init_] = i]
           /\ Go("initstart") /\ UNCHANGED <<held, holdoff>>
    <2>1. PICK i \in Ids : Make(Init_, i) /\ rec' = [rec EXCEPT !.ids[Init_] = i]
        BY <1>5
    <2>2. PassOf(pass') /\ pass'.at = "initstart"
        BY <1>1, <1>2, <1>5, AtWork DEF PassOf, PassType, PassSteps, Inside, Go
    <2> QED BY <1>1, <1>2, <1>3, <1>5, <2>1, <2>2, AtWork, MakeEffect, RecordId DEF Inner, Inside
<1>6. CASE InitError("create")
    BY <1>1, <1>3, <1>6, AtWork, InitErrorEffect DEF Inner, Inside
<1> QED BY <1>4, <1>5, <1>6 DEF CreateInit

LEMMA StartInitInner == ASSUME PodInv, StartInit PROVE Inner
<1>1. pass.at = "initstart" /\ running /\ pass.i >= 1 /\ inited' = inited /\ strays' = strays
    BY AtWork DEF StartInit, At, PassOf, past
<1>2. UNCHANGED <<policy, runtime, obj, seen, running>>
    BY DEF StartInit, Env, spec, api
<1>3. CASE Start(rec.ids[Init_]) /\ Go("init") /\ UNCHANGED memory
    <2>1. PassOf(pass') /\ pass'.at = "init"
        BY <1>1, <1>3, AtWork DEF PassOf, PassType, PassSteps, Inside, Go
    <2>2. EngineType' /\ SameBoxes /\ Homed
        BY <1>3, AtWork, StartEffect, Settled
    <2> QED BY <1>1, <1>2, <1>3, <2>1, <2>2, AtWork, SameMemory DEF Inner, Inside
<1>4. CASE InitError("start")
    BY <1>1, <1>2, <1>4, AtWork, InitErrorEffect DEF Inner, Inside
<1> QED BY <1>3, <1>4 DEF StartInit

LEMMA LookAtInitInner == ASSUME PodInv, LookAtInit PROVE Inner
<1>1. pass.at = "init" /\ running /\ pass.i <= Len(Inits) /\ inited' = inited /\ strays' = strays /\ rec.ids[Init_] # 0
    BY DEF LookAtInit, InInits, At, past
<1>2. Init_ \in All /\ Init_ \in Names(Inits) /\ pass.i >= 1
    BY <1>1, AtWork, Declarations DEF PassOf, Init_
<1>3. UNCHANGED <<policy, runtime, obj, seen, running>>
    BY DEF LookAtInit, Env, spec, api
<1>4. {rec.ids[Init_]} \subseteq Ids
    BY <1>1, <1>2, AtWork
<1>5. CASE Report("Pending") /\ UNCHANGED <<engine, memory>>
    BY <1>1, <1>3, <1>5, AtWork, ReportEffect, SameEngine, SameMemory DEF Inner, Inside
<1>6. CASE NextInit /\ UNCHANGED <<engine, memory>>
    BY <1>1, <1>3, <1>6, AtWork, NextEffect, SameEngine, SameMemory DEF Inner, Inside
<1>7. CASE /\ Remove({rec.ids[Init_]}) /\ rec' = [rec EXCEPT !.ids[Init_] = 0] /\ held' = held \cup {Init_}
           /\ Report("Pending") /\ UNCHANGED holdoff
    BY <1>1, <1>2, <1>3, <1>4, <1>7, AtWork, ReportEffect, RemoveEffect, Settled, RecordId DEF Inner, Inside
<1>8. CASE /\ rec' = [rec EXCEPT !.done = @ \cup {Init_}]
           /\ IF runtime = "ring" THEN Remove({rec.ids[Init_]}) ELSE UNCHANGED engine
           /\ NextInit /\ UNCHANGED <<held, holdoff>>
    <2>1. rec' \in RecType /\ rec'.box = rec.box
        BY <1>2, <1>8, AtWork DEF RecType
    <2>2. EngineType' /\ SameBoxes /\ Homed
        BY <1>4, <1>8, AtWork, RemoveEffect, Settled, SameEngine
    <2> QED BY <1>1, <1>3, <1>8, <2>1, <2>2, AtWork, NextEffect DEF Inner, Inside
<1>9. CASE Remove({rec.ids[Init_]}) /\ FailStart("Failed") /\ UNCHANGED <<held, holdoff>>
    BY <1>1, <1>3, <1>4, <1>9, AtWork, RemoveEffect, Settled, FailEffect DEF Inner, Inside
<1>10. CASE FailStart("Failed") /\ UNCHANGED <<engine, held, holdoff>>
    BY <1>1, <1>3, <1>10, AtWork, SameEngine, FailEffect DEF Inner, Inside
<1>11. CASE InitError("status")
    BY <1>1, <1>3, <1>11, AtWork, InitErrorEffect DEF Inner, Inside
<1> QED BY <1>5, <1>6, <1>7, <1>8, <1>9, <1>10, <1>11 DEF LookAtInit

LEMMA CreateAppInner == ASSUME PodInv, CreateApp PROVE Inner
<1>1. pass.at = "init" /\ running /\ pass.i \in (Len(Inits) + 1)..(Len(Inits) + Len(Apps)) /\ inited' = inited /\ strays' = strays
    BY DEF CreateApp, InApps, At, past
<1>2. App \in All /\ pass.i - Len(Inits) \in 1..Len(Apps) /\ pass.i >= 1
    <2>1. pass.i - Len(Inits) \in 1..Len(Apps) /\ pass.i >= 1
        BY <1>1, AtWork, Declarations
    <2> QED BY <2>1, Declarations DEF App
<1>3. UNCHANGED <<policy, runtime, obj, seen, running>>
    BY DEF CreateApp, Env, spec, api
<1>4. CASE /\ \E i \in Ids : Make(App, i) /\ rec' = [rec EXCEPT !.ids[App] = i]
           /\ Go("appstart") /\ UNCHANGED <<held, holdoff>>
    <2>1. PICK i \in Ids : Make(App, i) /\ rec' = [rec EXCEPT !.ids[App] = i]
        BY <1>4
    <2>2. PassOf(pass') /\ pass'.at = "appstart"
        BY <1>1, <1>2, <1>4, AtWork DEF PassOf, PassType, PassSteps, Inside, Go
    <2> QED BY <1>1, <1>2, <1>3, <1>4, <2>1, <2>2, AtWork, MakeEffect, RecordId DEF Inner, Inside
<1>5. CASE AppError("create")
    BY <1>1, <1>3, <1>5, AtWork, AppErrorEffect DEF Inner, Inside
<1> QED BY <1>4, <1>5 DEF CreateApp

LEMMA StartAppInner == ASSUME PodInv, StartApp PROVE Inner
<1>1. pass.at = "appstart" /\ running /\ pass.i >= 1 /\ inited' = inited /\ strays' = strays
    BY AtWork DEF StartApp, At, PassOf, past
<1>2. UNCHANGED <<policy, runtime, obj, seen, running>>
    BY DEF StartApp, Env, spec, api
<1>3. CASE /\ Start(rec.ids[App])
           /\ pass' = [pass EXCEPT !.at = "init", !.i = @ + 1]
           /\ UNCHANGED memory
    <2>1. PassOf(pass') /\ pass'.at = "init"
        <3>1. pass' = [pass EXCEPT !.at = "init", !.i = pass.i + 1] /\ pass.i + 1 \in Nat /\ pass.i + 1 >= 1
            BY <1>1, <1>3, AtWork
        <3>2. pass' \in PassType /\ pass'.at = "init" /\ pass'.i = pass.i + 1
            BY <3>1, AtWork DEF PassType, PassSteps, Inside
        <3> QED BY <3>1, <3>2 DEF PassOf
    <2>2. EngineType' /\ SameBoxes /\ Homed
        BY <1>3, AtWork, StartEffect, Settled
    <2> QED BY <1>1, <1>2, <1>3, <2>1, <2>2, AtWork, SameMemory DEF Inner, Inside
<1>4. CASE AppError("start")
    BY <1>1, <1>2, <1>4, AtWork, AppErrorEffect DEF Inner, Inside
<1> QED BY <1>3, <1>4 DEF StartApp

LEMMA StartedInner == ASSUME PodInv, Started PROVE Inner
<1>1. pass.at = "init" /\ running /\ inited' = inited /\ strays' = strays /\ held' = held /\ holdoff' = FALSE /\ Report("Running")
    BY DEF Started, At, past
<1>2. UNCHANGED <<policy, runtime, obj, seen, running>>
    BY DEF Started, Env, spec, api
<1>3. rec' \in RecType /\ rec'.box = rec.box
    <2>1. [n \in All |-> IF n \in Declared THEN rec.ids[n] ELSE 0] \in [All -> {0} \cup Ids]
        BY AtWork
    <2> QED BY <2>1, AtWork DEF Started, RecType, Phases
<1>4. EngineType' /\ SameBoxes /\ Homed
    BY AtWork, SameEngine DEF Started
<1> QED BY <1>1, <1>2, <1>3, <1>4, AtWork, ReportEffect DEF Inner, Inside

LEMMA CheckOneInner == ASSUME PodInv, CheckOne PROVE Inner
<1>1. pass.at = "check" /\ running /\ inited' = inited /\ strays' = strays /\ held' = held /\ holdoff' = holdoff
    BY DEF CheckOne, At, past
<1>2. UNCHANGED <<policy, runtime, obj, seen, running>>
    BY DEF CheckOne, Env, spec, api
<1>3. EngineType' /\ SameBoxes /\ Homed
    BY AtWork, SameEngine DEF CheckOne
<1>4. PICK n \in pass.todo :
        /\ \/ Look("check", pass.todo \ {n})
           \/ \E g \in BOOLEAN :
                pass' = [pass EXCEPT !.at = "replace", !.name = n, !.todo = pass.todo \ {n}, !.gated = g]
        /\ \/ UNCHANGED rec
           \/ \E t \in {"ok", "bad"} : rec' = [rec EXCEPT !.term[n] = t]
    BY DEF CheckOne, TermOf
<1>5. n \in All
    BY <1>4, AtWork DEF PassType
<1>6. rec' \in RecType /\ rec'.box = rec.box
    BY <1>4, <1>5, AtWork, RecordTerm
<1>7. PassOf(pass') /\ pass'.at \in {"check", "replace"}
    <2>1. CASE Look("check", pass.todo \ {n})
        BY <1>1, <2>1, AtWork DEF PassOf, PassType, PassSteps, Inside, Look
    <2>2. ASSUME NEW g \in BOOLEAN,
                 pass' = [pass EXCEPT !.at = "replace", !.name = n, !.todo = pass.todo \ {n}, !.gated = g]
          PROVE  PassOf(pass') /\ pass'.at \in {"check", "replace"}
        BY <1>1, <1>5, <2>2, AtWork DEF PassOf, PassType, PassSteps, Inside
    <2> QED BY <1>4, <2>1, <2>2
<1> QED BY <1>1, <1>2, <1>3, <1>6, <1>7, AtWork DEF Inner, Inside

LEMMA ReplaceInner == ASSUME PodInv, Replace PROVE Inner
<1>1. pass.at = "replace" /\ running /\ inited' = inited /\ strays' = strays /\ pass.name \in All /\ UNCHANGED memory
    BY AtWork DEF Replace, At, PassOf, past
<1>2. UNCHANGED <<policy, runtime, obj, seen, running>>
    BY DEF Replace, Env, spec, api
<1>3. rec.ids[pass.name] \in {0} \cup Ids
    BY <1>1, AtWork
<1>4. EngineType' /\ SameBoxes /\ Homed
    <2>1. CASE UNCHANGED engine
        BY <2>1, AtWork, SameEngine
    <2>2. CASE ~ UNCHANGED engine
        <3>1. rec.ids[pass.name] \in Ids
            BY <1>3, <2>2 DEF Replace, engine, Busy
        <3>2. hidden' \subseteq Ids /\ box' = box
            BY <2>2, <3>1, AtWork DEF Replace, Owed, EngineType
        <3>3. CASE con' = con
            BY <1>1, <3>2, <3>3, AtWork, SameMemory DEF EngineType, SameBoxes, Homed
        <3>4. CASE con' # con
            <4>1. PICK s \in {"stopping", "free"} :
                    con' = State(rec.ids[pass.name], s) /\ (s # "free" => Busy(rec.ids[pass.name]))
                BY <2>2, <3>4 DEF Replace
            <4>2. s # "free" => con[rec.ids[pass.name]] # NoCon
                BY <4>1, Nothings DEF Busy
            <4> QED BY <3>2, <4>1, <4>2, AtWork, StateEffect, Settled
        <3> QED BY <3>3, <3>4
    <2> QED BY <2>1, <2>2
<1>5. PassOf(pass') /\ pass'.at = "create"
    BY <1>1, AtWork DEF Replace, Go, PassOf, PassType, PassSteps, Inside
<1> QED BY <1>1, <1>2, <1>4, <1>5, AtWork, SameMemory DEF Inner, Inside

LEMMA BackEffect ==
    ASSUME PodInv, Back, pass.name \in All
    PROVE  PassOf(pass') /\ pass'.at = "check" /\ held' \subseteq All
<1>1. PassOf(pass') /\ pass'.at = "check"
    BY AtWork DEF Back, PassOf, PassType, PassSteps, Inside
<1> QED BY <1>1, AtWork DEF Back

LEMMA RecreateInner == ASSUME PodInv, Recreate PROVE Inner
<1>1. pass.at = "create" /\ running /\ inited' = inited /\ strays' = strays /\ pass.name \in All /\ rec' = rec /\ holdoff' = holdoff
    BY AtWork DEF Recreate, At, PassOf, past
<1>2. UNCHANGED <<policy, runtime, obj, seen, running>>
    BY DEF Recreate, Env, spec, api
<1>3. CASE /\ \E i \in Ids : Make(pass.name, i) /\ pass' = [pass EXCEPT !.at = "restart", !.new = i]
           /\ UNCHANGED held
    <2>1. PICK i \in Ids : Make(pass.name, i) /\ pass' = [pass EXCEPT !.at = "restart", !.new = i]
        BY <1>3
    <2>2. PassOf(pass') /\ pass'.at = "restart"
        BY <1>1, <2>1, AtWork DEF PassOf, PassType, PassSteps, Inside
    <2> QED BY <1>1, <1>2, <1>3, <2>1, <2>2, AtWork, MakeEffect DEF Inner, Inside
<1>4. CASE Back /\ UNCHANGED engine
    BY <1>1, <1>2, <1>4, AtWork, BackEffect, SameEngine DEF Inner, Inside
<1> QED BY <1>3, <1>4 DEF Recreate

LEMMA RestartInner == ASSUME PodInv, Restart PROVE Inner
<1>1. /\ pass.at = "restart" /\ running /\ inited' = inited /\ strays' = strays /\ pass.name \in All /\ pass.new \in Ids
      /\ holdoff' = holdoff /\ Back
    BY AtWork DEF Restart, At, PassOf, past
<1>2. UNCHANGED <<policy, runtime, obj, seen, running>>
    BY DEF Restart, Env, spec, api
<1>3. CASE Start(pass.new) /\ rec' = [rec EXCEPT !.ids[pass.name] = pass.new]
    <2>1. EngineType' /\ SameBoxes /\ Homed
        BY <1>3, AtWork, StartEffect, Settled
    <2> QED BY <1>1, <1>2, <1>3, <2>1, AtWork, BackEffect, RecordId DEF Inner, Inside
<1>4. CASE UNCHANGED <<engine, rec>>
    BY <1>1, <1>2, <1>4, AtWork, BackEffect, SameEngine DEF Inner, Inside
<1> QED BY <1>3, <1>4 DEF Restart

LEMMA CreateMissingInner == ASSUME PodInv, CreateMissing PROVE Inner
<1>1. pass.at = "check" /\ running /\ inited' = inited /\ strays' = strays /\ UNCHANGED <<engine, memory>>
    BY DEF CreateMissing, At, past
<1>2. UNCHANGED <<policy, runtime, obj, seen, running>>
    BY DEF CreateMissing, Env, spec, api
<1>3. PICK n \in Missing : pass' = [pass EXCEPT !.at = "create", !.name = n, !.gated = TRUE]
    BY DEF CreateMissing
<1>4. n \in All
    BY Declarations DEF Missing
<1>5. PassOf(pass') /\ pass'.at = "create"
    BY <1>1, <1>3, <1>4, AtWork DEF PassOf, PassType, PassSteps, Inside
<1> QED BY <1>1, <1>2, <1>5, AtWork, SameEngine, SameMemory DEF Inner, Inside

LEMMA ConcludeInner == ASSUME PodInv, Conclude PROVE Inner
<1>1. pass.at = "check" /\ running /\ inited' = inited /\ strays' = strays /\ held' = held /\ holdoff' = holdoff /\ UNCHANGED engine
    BY DEF Conclude, At, past
<1>2. UNCHANGED <<policy, runtime, obj, seen, running>>
    BY DEF Conclude, Env, spec, api
<1>3. PICK p \in {"Running", "Succeeded", "Failed"} : p = Phase
    BY DEF Phase
<1>4. rec' \in RecType /\ rec'.box = rec.box
    BY <1>3, AtWork DEF Conclude, RecType, Phases
<1>5. CASE Report("Running")
    BY <1>1, <1>2, <1>4, <1>5, AtWork, ReportEffect, SameEngine DEF Inner, Inside
<1>6. CASE pass' = [pass EXCEPT !.at = "finish", !.report = Outcome(Phase), !.i = Len(Inits)]
    <2>1. PICK o \in {"over", "active"} : o = Outcome(Phase)
        BY DEF Outcome
    <2>2. PassOf(pass') /\ pass'.at = "finish"
        <3>1. Len(Inits) \in Nat /\ pass' = [pass EXCEPT !.at = "finish", !.report = o, !.i = Len(Inits)]
            BY <1>6, <2>1, Declarations
        <3>2. pass' \in PassType /\ pass'.at = "finish" /\ pass'.i = Len(Inits)
            BY <2>1, <3>1, AtWork DEF PassType, PassSteps, Inside
        <3> QED BY <3>1, <3>2 DEF PassOf
    <2> QED BY <1>1, <1>2, <1>4, <2>2, AtWork, SameEngine DEF Inner, Inside
<1> QED BY <1>5, <1>6 DEF Conclude

LEMMA FinishSidecarInner == ASSUME PodInv, FinishSidecar PROVE Inner
<1>1. /\ pass.at = "finish" /\ running /\ inited' = inited /\ strays' = strays /\ held' = held /\ holdoff' = holdoff
      /\ pass.i > 0 /\ pass.i <= Len(Inits) /\ pass.i \in Nat
    BY AtWork DEF FinishSidecar, At, PassOf, past
<1>2. UNCHANGED <<policy, runtime, obj, seen, running>>
    BY DEF FinishSidecar, Env, spec, api
<1>3. PassOf(pass') /\ pass'.at = "finish"
    <2>1. pass' = [pass EXCEPT !.i = pass.i - 1] /\ pass.i - 1 \in Nat
        BY <1>1 DEF FinishSidecar
    <2>2. pass' \in PassType /\ pass'.at = "finish" /\ pass'.i = pass.i - 1
        BY <1>1, <2>1, AtWork DEF PassType
    <2> QED BY <1>1, <2>1, <2>2, Declarations DEF PassOf
<1>4. Init_ \in All
    BY <1>1, Declarations DEF Init_
<1>5. CASE UNCHANGED <<engine, rec>>
    BY <1>1, <1>2, <1>3, <1>5, AtWork, SameEngine DEF Inner, Inside
<1>6. CASE Stop({rec.ids[Init_]}) /\ rec' = [rec EXCEPT !.term[Init_] = "ok"]
    BY <1>1, <1>2, <1>3, <1>4, <1>6, AtWork, StopEffect, Settled, RecordTerm DEF Inner, Inside
<1> QED BY <1>5, <1>6 DEF FinishSidecar

\* The release of the sandbox, from the pass that finished the Pod.
LEMMA FinishBoxInner == ASSUME PodInv, ReleaseBox, pass.at = "finish" PROVE Inner
<1>1. /\ pass.at = "finish" /\ running /\ inited' = inited /\ strays' = strays /\ held' = held /\ holdoff' = holdoff
    BY DEF ReleaseBox, At, past
<1>2. UNCHANGED <<policy, runtime, obj, seen, running>>
    BY DEF ReleaseBox, Env, spec, api
<1>3. PassOf(pass') /\ pass'.at \in {"idle", "report"}
    <2>1. CASE Finish
        BY <2>1, Nothings DEF Finish
    <2>2. CASE pass.report # "none" /\ Go("report")
        BY <2>2, AtWork DEF Go, PassOf, PassType, PassSteps
    <2> QED BY <2>1, <2>2 DEF ReleaseBox
<1>4. CASE UNCHANGED <<engine, rec>>
    BY <1>1, <1>2, <1>3, <1>4, AtWork, SameEngine DEF Inner, Inside
<1>5. CASE StopBox(rec.box) /\ rec' = [rec EXCEPT !.stopped = TRUE]
    <2>1. rec' \in RecType /\ rec'.box = rec.box
        BY <1>5, AtWork DEF RecType
    <2> QED BY <1>1, <1>2, <1>3, <1>5, <2>1, AtWork, StopBoxEffect, Settled DEF Inner, Inside
<1> QED BY <1>4, <1>5 DEF ReleaseBox

-----------------------------------------------------------------------------
(* The steps that leave the sandbox and the record of it alone, outside a    *)
(* start or a look: what the cluster, the processes and time do, and what a  *)
(* pass tells the API.                                                       *)

Quiet ==
    /\ ApiType' /\ EngineType'
    /\ held' \subseteq All /\ holdoff' \in BOOLEAN /\ inited' \subseteq Names(Inits)
    /\ UNCHANGED <<policy, runtime, box, rec, running, strays>> /\ pass' \in {pass, NoPass}
    /\ SameBare
    /\ seen.life \in {"deleting", "gone"} => seen'.life \in {"deleting", "gone"}
    /\ seen'.life \in {"deleting", "gone"} => obj'.life \in {"deleting", "gone"}

LEMMA QuietStep == ASSUME PodInv, Quiet PROVE PodInv'
<1> USE DEF PodInv, BoxInv, Quiet
<1>1. PodTypes'
    BY Nothings DEF PodTypes, SpecType, RestType
<1>2. Boxed' = Boxed /\ Unboxed' = Unboxed /\ NoBoxes' = NoBoxes
    BY DEF Boxed, Unboxed, NoBoxes
<1>3. Recorded'
    BY DEF Recorded, OneSandbox
<1>4. Bare'
    BY DEF Bare, SameBare
<1>5. Torn'
    BY <1>2, Nothings DEF Torn, IsEnding, Ending
<1>6. Placed'
    BY <1>2, Nothings DEF Placed, Inside
<1> QED BY <1>1, <1>3, <1>4, <1>5, <1>6

LEMMA ApiIs == ASSUME PodInv PROVE ApiType /\ (seen.life \in {"deleting", "gone"} => obj.life \in {"deleting", "gone"})
BY DEF PodInv, PodTypes, BoxInv, Torn

LEMMA AcknowledgeStep == ASSUME PodInv, Acknowledge PROVE PodInv'
<1>1. UNCHANGED <<policy, runtime, box, con, hidden, rec, held, holdoff, seen, inited, strays, running>> /\ pass' = NoPass
    BY DEF Acknowledge, Finish, Env, spec, engine, memory, past
<1>2. ApiType' /\ obj'.life \in {obj.life, "gone"}
    BY <1>1, ApiIs DEF Acknowledge, ApiType
<1>3. EngineType' /\ SameBare
    BY <1>1, AtWork DEF EngineType, SameBare
<1> QED BY <1>1, <1>2, <1>3, ApiIs, AtWork, QuietStep DEF Quiet

LEMMA WriteStatusStep == ASSUME PodInv, WriteStatus PROVE PodInv'
<1>1. UNCHANGED <<policy, runtime, box, con, hidden, rec, held, holdoff, seen, inited, strays, running>> /\ pass' = NoPass
    BY DEF WriteStatus, Finish, Env, spec, engine, memory, past
<1>2. ApiType' /\ obj'.life = obj.life
    <2>1. pass.report \in {"active", "over"}
        BY AtWork DEF WriteStatus, At, PassOf, PassType
    <2> QED BY <1>1, <2>1, ApiIs DEF WriteStatus, ApiType
<1>3. EngineType' /\ SameBare
    BY <1>1, AtWork DEF EngineType, SameBare
<1> QED BY <1>1, <1>2, <1>3, ApiIs, AtWork, QuietStep DEF Quiet

LEMMA ClusterStep == ASSUME PodInv, Delete \/ Vanish \/ List PROVE PodInv'
<1>1. UNCHANGED <<policy, runtime, box, con, hidden, rec, held, holdoff, pass, inited, strays, running>>
    BY DEF Delete, Vanish, List, spec, engine, memory, env, past
<1>2. /\ ApiType'
      /\ seen.life \in {"deleting", "gone"} => seen'.life \in {"deleting", "gone"}
      /\ seen'.life \in {"deleting", "gone"} => obj'.life \in {"deleting", "gone"}
    <2>1. CASE Delete
        BY <2>1, ApiIs DEF Delete, ApiType
    <2>2. CASE Vanish
        BY <2>2, ApiIs DEF Vanish, ApiType
    <2>3. CASE List
        BY <2>3, ApiIs DEF List, ApiType
    <2> QED BY <2>1, <2>2, <2>3
<1>3. EngineType' /\ SameBare
    BY <1>1, AtWork DEF EngineType, SameBare
<1> QED BY <1>1, <1>2, <1>3, AtWork, QuietStep DEF Quiet

LEMMA TimeStep == ASSUME PodInv, BackoffEnds \/ HoldoffEnds PROVE PodInv'
<1>1. UNCHANGED <<policy, runtime, obj, seen, box, con, hidden, rec, pass, inited, strays, running>>
    BY DEF BackoffEnds, HoldoffEnds, spec, engine, api, env, past
<1>2. ApiType' /\ EngineType' /\ SameBare
    BY <1>1, AtWork, ApiIs DEF EngineType, SameBare, ApiType
<1>3. held' \subseteq All /\ holdoff' \in BOOLEAN
    BY AtWork DEF BackoffEnds, HoldoffEnds
<1> QED BY <1>1, <1>2, <1>3, ApiIs, AtWork, QuietStep DEF Quiet

LEMMA EndStep == ASSUME PodInv, NEW i \in Ids, NEW r \in {"ok", "bad"}, End(i, r) PROVE PodInv'
<1>1. UNCHANGED <<policy, runtime, obj, seen, box, rec, held, holdoff, pass, running, strays>>
    BY DEF End, spec, api, memory, past
<1>2. hidden' \subseteq Ids /\ inited' \subseteq Names(Inits)
    BY AtWork DEF End, EngineType
<1>3. PICK s \in {"free", "ok", "bad"} : con' = State(i, s)
    BY DEF End
<1>4. con[i] # NoCon
    BY Nothings DEF End, Busy
<1>5. EngineType' /\ SameBare
    BY <1>1, <1>2, <1>3, <1>4, AtWork, StateEffect
<1> QED BY <1>1, <1>2, <1>5, ApiIs, AtWork, QuietStep DEF Quiet, ApiType

-----------------------------------------------------------------------------
(* A step of a stop that leaves the sandbox there. *)

Halting ==
    /\ running /\ pass.at \in Ending
    /\ EngineType' /\ SameBoxes /\ SameBare
    /\ UNCHANGED <<policy, runtime, obj, seen, rec, held, holdoff, running, inited, strays>>
    /\ PassOf(pass') /\ pass'.at \in Ending \cup {"idle"}
    /\ pass'.at = "unbox" => rec.box # 0
    /\ pass'.at = "forget" => rec.box = 0

LEMMA HaltingStep == ASSUME PodInv, Halting PROVE PodInv'
<1> USE DEF PodInv, BoxInv, Halting
<1>1. PodTypes'
    BY DEF PodTypes, ApiType, SpecType, RestType
<1>2. Boxed' = Boxed /\ Unboxed' = Unboxed /\ NoBoxes' = NoBoxes
    <2>1. NoBoxes' = NoBoxes
        BY DEF NoBoxes, SameBoxes
    <2>2. rec.box \in {0} \cup Boxes
        BY DEF PodTypes, RecType
    <2> QED BY <2>1, <2>2 DEF Boxed, Unboxed, SameBoxes
<1>3. Recorded'
    BY DEF Recorded, OneSandbox, SameBoxes, PodTypes, RestType
<1>4. Bare'
    BY DEF Bare, SameBare, SameBoxes
<1>5. Torn'
    BY <1>2 DEF Torn, IsEnding, Ending
<1>6. Placed'
    BY <1>2 DEF Placed, Inside, Ending, Boxed
<1> QED BY <1>1, <1>3, <1>4, <1>5, <1>6

LEMMA StoppingStep == ASSUME Stopping PROVE UNCHANGED <<policy, runtime, obj, seen, rec, held, holdoff, running, inited, strays>>
BY DEF Stopping, Env, spec, api, memory, past

LEMMA AppIdsAreIds == ASSUME PodInv PROVE AppIds \subseteq Ids
BY AtWork DEF AppIds

LEMMA StopErrorEffect == ASSUME StopError PROVE PassOf(pass') /\ pass'.at = "idle"
BY Nothings DEF StopError, Finish

LEMMA RemovalEffect ==
    ASSUME PodInv, NEW S, S \subseteq Ids, Removal(S)
    PROVE  EngineType' /\ SameBoxes /\ SameBare /\ (pass' = pass \/ (PassOf(pass') /\ pass'.at = "idle"))
<1>1. PICK i \in Left(S) :
        \/ Remove({i}) /\ IF Owed({i}) = {} THEN UNCHANGED pass ELSE Finish
        \/ StopError /\ UNCHANGED engine
    BY DEF Removal
<1>2. {i} \subseteq Ids
    BY DEF Left
<1>3. CASE Remove({i}) /\ IF Owed({i}) = {} THEN UNCHANGED pass ELSE Finish
    BY <1>2, <1>3, AtWork, RemoveEffect, Nothings DEF Finish
<1>4. CASE StopError /\ UNCHANGED engine
    BY <1>4, AtWork, SameEngine, StopErrorEffect
<1> QED BY <1>1, <1>3, <1>4

LEMMA StopAppsStep == ASSUME PodInv, StopApps PROVE PodInv'
<1>1. running /\ pass.at = "stop" /\ Stopping
    BY DEF StopApps, At
<1>2. PICK S : Stop(S)
    BY DEF StopApps
<1>3. pass' = pass \/ StopError
    BY DEF StopApps
<1> QED BY <1>1, <1>2, <1>3, AtWork, StopEffect, StopErrorEffect, StoppingStep, HaltingStep DEF Halting, Ending

LEMMA RemoveAppsStep == ASSUME PodInv, RemoveApps PROVE PodInv'
<1>1. running /\ pass.at = "stop" /\ Stopping
    BY DEF RemoveApps, At
<1>2. CASE Removal(AppIds)
    BY <1>1, <1>2, AtWork, AppIdsAreIds, RemovalEffect, StoppingStep, HaltingStep DEF Halting, Ending
<1>3. CASE Go("sides") /\ UNCHANGED engine
    <2>1. PassOf(pass') /\ pass'.at = "sides"
        BY <1>1, <1>3, AtWork DEF Go, PassOf, PassType, PassSteps, Ending
    <2> QED BY <1>1, <1>3, <2>1, AtWork, SameEngine, StoppingStep, HaltingStep DEF Halting, Ending
<1> QED BY <1>2, <1>3 DEF RemoveApps

LEMMA StopSidecarStep == ASSUME PodInv, StopSidecar PROVE PodInv'
<1>1. running /\ pass.at = "sides" /\ Stopping /\ pass.i > 0 /\ pass.i \in Nat /\ pass.i <= Len(Inits)
    BY AtWork DEF StopSidecar, At, PassOf
<1>2. Init_ \in All
    BY <1>1, Declarations DEF Init_
<1>3. PICK S : S = IF Init_ \in Sidecars THEN {rec.ids[Init_]} \ {0} ELSE {}
    OBVIOUS
<1>4. S \subseteq Ids
    BY <1>2, <1>3, AtWork
<1>5. CASE Stop(S) /\ UNCHANGED pass
    BY <1>1, <1>5, AtWork, StopEffect, StoppingStep, HaltingStep DEF Halting, Ending
<1>6. CASE StopError /\ UNCHANGED engine
    BY <1>1, <1>6, AtWork, SameEngine, StopErrorEffect, StoppingStep, HaltingStep DEF Halting, Ending
<1>7. CASE Removal(S)
    BY <1>1, <1>4, <1>7, AtWork, RemovalEffect, StoppingStep, HaltingStep DEF Halting, Ending
<1>8. CASE UNCHANGED engine /\ pass' = [pass EXCEPT !.i = @ - 1]
    <2>1. pass' = [pass EXCEPT !.i = pass.i - 1] /\ pass.i - 1 \in Nat
        BY <1>1, <1>8
    <2>2. pass' \in PassType /\ pass'.at = "sides" /\ pass'.i = pass.i - 1
        BY <1>1, <2>1, AtWork DEF PassType
    <2>3. PassOf(pass')
        BY <1>1, <2>1, <2>2, Declarations DEF PassOf
    <2> QED BY <1>1, <1>8, <2>2, <2>3, AtWork, SameEngine, StoppingStep, HaltingStep DEF Halting, Ending
<1> QED BY <1>3, <1>5, <1>6, <1>7, <1>8 DEF StopSidecar

LEMMA StopSandboxStep == ASSUME PodInv, StopSandbox PROVE PodInv'
<1>1. running /\ pass.at = "sides" /\ Stopping
    BY DEF StopSandbox, At
<1>2. CASE rec.box = 0 /\ Go("forget") /\ UNCHANGED engine
    <2>1. PassOf(pass') /\ pass'.at = "forget"
        BY <1>1, <1>2, AtWork DEF Go, PassOf, PassType, PassSteps, Ending
    <2> QED BY <1>1, <1>2, <2>1, AtWork, SameEngine, StoppingStep, HaltingStep DEF Halting, Ending
<1>3. CASE rec.box # 0 /\ StopBox(rec.box) /\ Go("unbox")
    <2>1. PassOf(pass') /\ pass'.at = "unbox"
        BY <1>1, <1>3, AtWork DEF Go, PassOf, PassType, PassSteps, Ending
    <2> QED BY <1>1, <1>3, <2>1, AtWork, StopBoxEffect, StoppingStep, HaltingStep DEF Halting, Ending
<1>4. CASE StopError /\ UNCHANGED engine
    BY <1>1, <1>4, AtWork, SameEngine, StopErrorEffect, StoppingStep, HaltingStep DEF Halting, Ending
<1> QED BY <1>2, <1>3, <1>4 DEF StopSandbox

-----------------------------------------------------------------------------
(* The steps that move the sandbox, and those that begin or end a pass. *)

LEMMA BoxOf == ASSUME PodInv PROVE /\ rec.box \in {0} \cup Boxes
                                   /\ rec.box = 0 => rec = NoRec
                                   /\ Recorded /\ Bare /\ Torn /\ Placed
BY DEF PodInv, BoxInv, PodTypes, RecType, Recorded

\* Nothing is there when the Pod is on no record, or its sandbox is gone.
LEMMA NotBoxed == ASSUME PodInv, running, ~ Boxed PROVE NoBoxes
BY BoxOf, BoxIds DEF Recorded, Boxed, NoBoxes

LEMMA TypesKept ==
    ASSUME PodInv, UNCHANGED <<policy, runtime, obj>>, EngineType', rec' \in RecType, PassOf(pass'),
           held' \subseteq All, holdoff' \in BOOLEAN, running' \in BOOLEAN, inited' \subseteq Names(Inits),
           strays' \subseteq Boxes, seen' \in {seen, [phase |-> "active", life |-> "unknown"]}
    PROVE  PodTypes'
<1>1. ApiType'
    BY ApiIs DEF ApiType
<1> QED BY <1>1 DEF PodInv, PodTypes, SpecType, RestType

LEMMA RemoveSandboxStep == ASSUME PodInv, RemoveSandbox PROVE PodInv'
<1>1. running /\ pass.at = "unbox" /\ Stopping
    BY DEF RemoveSandbox, At
<1>2. UNCHANGED <<policy, runtime, obj, seen, rec, held, holdoff, running, inited, strays>>
    BY <1>1, StoppingStep
<1>3. CASE Finish /\ UNCHANGED engine
    BY <1>1, <1>3, AtWork, Nothings, SameEngine, StoppingStep, HaltingStep DEF Halting, Ending, Finish
<1>4. CASE StopError /\ UNCHANGED engine
    BY <1>1, <1>4, AtWork, SameEngine, StopErrorEffect, StoppingStep, HaltingStep DEF Halting, Ending
<1>5. CASE /\ box' = [box EXCEPT ![rec.box] = "none"] /\ hidden' = hidden \ In(rec.box) /\ Go("forget")
           /\ con' = [i \in Ids |-> IF i \in In(rec.box) THEN NoCon ELSE con[i]]
    <2>1. rec.box \in Boxes
        BY <1>1, BoxOf DEF Placed
    <2>2. EngineType'
        BY <1>5, AtWork, Nothings DEF EngineType
    <2>3. PassOf(pass') /\ pass'.at = "forget"
        BY <1>1, <1>5, AtWork DEF Go, PassOf, PassType, PassSteps, Ending
    <2>4. PodTypes'
        BY <1>1, <1>2, <2>2, <2>3, AtWork, TypesKept
    <2>5. \A b \in Boxes : box'[b] # "none" <=> box[b] # "none" /\ b # rec.box
        BY <1>5, <2>1, AtWork DEF EngineType
    <2>6. Recorded'
        BY <1>1, <1>2, <2>5, BoxOf, AtWork DEF Recorded, OneSandbox
    <2>7. Bare'
        BY <1>5, <2>5, BoxOf DEF Bare, In
    <2>8. Torn'
        BY <1>1, <1>2, BoxOf DEF Torn, Ending, IsEnding
    <2>9. Placed'
        BY <1>2, <2>3, <2>5, <2>1 DEF Placed, Inside, Boxed
    <2> QED BY <2>4, <2>6, <2>7, <2>8, <2>9 DEF PodInv, BoxInv
<1> QED BY <1>3, <1>4, <1>5 DEF RemoveSandbox

LEMMA ForgetStep == ASSUME PodInv, Forget PROVE PodInv'
<1>1. /\ running /\ pass.at = "forget" /\ EngineType' /\ SameBoxes /\ SameBare
      /\ UNCHANGED <<policy, runtime, obj, seen, inited, strays, running>>
    BY AtWork, SameEngine DEF Forget, At, Env, spec, api, past
<1>2. CASE Finish /\ UNCHANGED memory
    BY <1>1, <1>2, Nothings, SameMemory, HaltingStep DEF Halting, Ending, Finish
<1>3. CASE /\ rec' = NoRec /\ held' = {} /\ UNCHANGED holdoff
           /\ pass' \in {[pass EXCEPT !.at = "ack"], [NoPass EXCEPT !.at = "sandbox"], NoPass}
    <2>1. PassOf(pass') /\ pass'.at \in {"ack", "sandbox", "idle"}
        <3>1. NoPass \in PassType /\ pass \in PassType
            BY AtWork, Nothings DEF PassOf
        <3>2. pass' \in PassType /\ pass'.at \in {"ack", "sandbox", "idle"}
            BY <1>3, <3>1, Nothings DEF PassType, PassSteps
        <3> QED BY <3>2 DEF PassOf
    <2>2. PodTypes'
        BY <1>1, <1>3, <2>1, AtWork, Nothings, TypesKept
    <2>3. NoBoxes
        BY <1>1, BoxOf, NotBoxed DEF Placed
    <2>4. Recorded'
        BY <1>1, <1>3, <2>3, Nothings, BoxIds, BoxOf, AtWork DEF Recorded, OneSandbox, NoBoxes, SameBoxes
    <2>5. Bare'
        BY <1>1, BoxOf DEF Bare, SameBare, SameBoxes
    <2>6. Torn'
        BY <1>1, <1>3, <2>1, Nothings, BoxOf DEF Torn, Unboxed, Ending
    <2>7. Placed'
        BY <1>3, <2>1, Nothings DEF Placed, Inside, Unboxed
    <2> QED BY <2>2, <2>4, <2>5, <2>6, <2>7 DEF PodInv, BoxInv
<1> QED BY <1>2, <1>3 DEF Forget, Go, Finish

LEMMA BeginStep == ASSUME PodInv, Begin PROVE PodInv'
<1>1. /\ running /\ pass.at = "idle"
      /\ UNCHANGED <<policy, runtime, obj, seen, box, con, hidden, rec, held, holdoff, inited, strays, running>>
    BY DEF Begin, At, Env, spec, api, engine, memory, past
<1>2. /\ PassOf(pass') /\ pass'.at \in {"stop", "release", "check", "sandbox"}
      /\ pass'.at = "stop" => IsEnding
      /\ pass'.at = "check" => Boxed
      /\ pass'.at = "sandbox" => ~ Unboxed
    <2>1. CASE ToStop /\ pass' = [pass EXCEPT !.at = "stop", !.then = seen.life, !.i = Len(Inits)]
        <3>1. PICK l \in {"deleting", "gone"} : l = seen.life
            BY <2>1 DEF ToStop
        <3>2. pass' \in PassType /\ pass'.at = "stop" /\ pass'.i = Len(Inits)
            BY <2>1, <3>1, AtWork, Declarations DEF PassType, PassSteps, Ending
        <3> QED BY <3>1, <3>2, Declarations DEF PassOf, IsEnding
    <2>2. CASE Go("release")
        BY <2>2, AtWork DEF Go, PassOf, PassType, PassSteps
    <2>3. CASE rec.phase = "Cleanup" /\ pass' = [pass EXCEPT !.at = "stop", !.then = "start", !.i = Len(Inits)]
        <3>1. pass' \in PassType /\ pass'.at = "stop" /\ pass'.i = Len(Inits)
            BY <2>3, AtWork, Declarations DEF PassType, PassSteps, Ending
        <3> QED BY <2>3, <3>1, Declarations DEF PassOf, IsEnding
    <2>4. CASE seen.life = "live" /\ Known /\ Look("check", {n \in All : rec.ids[n] # 0})
        <3>1. PassOf(pass') /\ pass'.at = "check"
            BY <2>4, AtWork DEF Look, PassOf, PassType, PassSteps, Inside
        <3>2. Boxed
            BY <1>1, <2>4, BoxOf, Nothings DEF Torn, Known, Boxed, Unboxed, IsEnding
        <3> QED BY <3>1, <3>2
    <2>5. CASE seen.life = "live" /\ rec.phase \in {"none", "Starting"} /\ Go("sandbox")
        <3>1. PassOf(pass') /\ pass'.at = "sandbox"
            BY <2>5, AtWork DEF Go, PassOf, PassType, PassSteps
        <3> QED BY <2>5, <3>1, BoxOf DEF Torn, IsEnding
    <2> QED BY <2>1, <2>2, <2>3, <2>4, <2>5 DEF Begin
<1>3. PodTypes'
    BY <1>1, <1>2, AtWork, TypesKept DEF EngineType
<1>4. Boxed' = Boxed /\ Unboxed' = Unboxed /\ NoBoxes' = NoBoxes /\ IsEnding' = IsEnding
    BY <1>1 DEF Boxed, Unboxed, NoBoxes, IsEnding
<1>5. Recorded'
    BY <1>1, BoxOf DEF Recorded, OneSandbox
<1>6. Bare'
    BY <1>1, <1>4, BoxOf DEF Bare
<1>7. Torn'
    BY <1>1, <1>2, <1>4, BoxOf DEF Torn, Ending
<1>8. Placed'
    BY <1>2, <1>4 DEF Placed, Inside
<1> QED BY <1>3, <1>5, <1>6, <1>7, <1>8 DEF PodInv, BoxInv

LEMMA FirstEffect ==
    ASSUME PodInv, pass' = [pass EXCEPT !.at = "init", !.i = 1]
    PROVE  PassOf(pass') /\ pass'.at = "init"
<1>1. pass' \in PassType /\ pass'.at = "init" /\ pass'.i = 1
    BY AtWork DEF PassType, PassSteps, Inside
<1> QED BY <1>1 DEF PassOf

LEMMA SandboxStep == ASSUME PodInv, Sandbox PROVE PodInv'
<1>1. running /\ pass.at = "sandbox" /\ UNCHANGED <<policy, runtime, obj, seen, running>> /\ ~ Unboxed
    BY BoxOf DEF Sandbox, At, Env, spec, api, Placed
<1>2. CASE Report("Pending") /\ UNCHANGED <<engine, memory, past>>
    <2>1. PassOf(pass') /\ pass'.at = "report" /\ UNCHANGED <<box, con, hidden, rec, held, holdoff, inited, strays>>
        BY <1>2, ReportEffect DEF engine, memory, past
    <2>2. PodTypes'
        BY <1>1, <2>1, AtWork, TypesKept DEF EngineType
    <2>3. Recorded' /\ Bare'
        BY <1>1, <2>1, BoxOf DEF Recorded, OneSandbox, Bare
    <2>4. Torn' /\ Placed'
        BY <1>1, <2>1, BoxOf DEF Torn, Placed, Boxed, Unboxed, Ending, Inside
    <2> QED BY <2>2, <2>3, <2>4 DEF PodInv, BoxInv
<1>3. CASE FailStart("Failed") /\ UNCHANGED <<engine, held, holdoff, past>>
    <2>1. /\ PassOf(pass') /\ pass'.at = "report" /\ UNCHANGED <<box, con, hidden, held, holdoff, inited, strays>>
          /\ rec' \in RecType /\ rec'.box = rec.box /\ (rec.box = 0 => rec' = NoRec)
        BY <1>3, AtWork, BoxOf, FailEffect DEF engine, FailStart, past
    <2>2. PodTypes'
        BY <1>1, <2>1, AtWork, TypesKept DEF EngineType
    <2>3. Recorded' /\ Bare'
        BY <1>1, <2>1, BoxOf DEF Recorded, OneSandbox, Bare
    <2>4. Torn' /\ Placed'
        BY <1>1, <2>1, BoxOf DEF Torn, Placed, Boxed, Unboxed, Ending, Inside
    <2> QED BY <2>2, <2>3, <2>4 DEF PodInv, BoxInv
<1>4. CASE rec # NoRec /\ pass' = [pass EXCEPT !.at = "init", !.i = 1] /\ UNCHANGED <<engine, memory, past>>
    <2>1. /\ PassOf(pass') /\ pass'.at = "init" /\ UNCHANGED <<box, con, hidden, rec, held, holdoff, inited, strays>>
        BY <1>4, FirstEffect DEF engine, memory, past
    <2>2. PodTypes'
        BY <1>1, <2>1, AtWork, TypesKept DEF EngineType
    <2>3. Recorded' /\ Bare'
        BY <1>1, <2>1, BoxOf DEF Recorded, OneSandbox, Bare
    <2>4. Boxed
        BY <1>1, <1>4, BoxOf DEF Boxed, Unboxed
    <2>5. Torn' /\ Placed'
        BY <1>1, <2>1, <2>4, BoxOf DEF Torn, Placed, Boxed, Unboxed, Ending, Inside
    <2> QED BY <2>2, <2>3, <2>5 DEF PodInv, BoxInv
<1>5. ASSUME NEW b \in Boxes, rec = NoRec, MakeBox(b)
      PROVE  NoBoxes /\ b # 0 /\ b \notin strays /\ EngineType' /\ UNCHANGED con
             /\ \A c \in Boxes : box'[c] # "none" <=> box[c] # "none" \/ c = b
    <2>1. NoBoxes /\ b # 0 /\ b \notin strays
        BY <1>1, <1>5, NotBoxed, BoxIds, BoxOf, Nothings DEF Boxed, Recorded, MakeBox
    <2> QED BY <1>5, <2>1, AtWork DEF MakeBox, EngineType
<1>6. CASE /\ rec = NoRec /\ \E b \in Boxes : MakeBox(b) /\ strays' = strays \cup {b}
           /\ \E p \in {"Pending", "Failed"} : Report(p)
           /\ UNCHANGED <<memory, inited>>
    <2>1. PICK b \in Boxes : MakeBox(b) /\ strays' = strays \cup {b}
        BY <1>6
    <2>2. PassOf(pass') /\ pass'.at = "report" /\ UNCHANGED <<rec, held, holdoff, inited>>
        BY <1>6, ReportEffect, SameMemory
    <2>3. PodTypes'
        BY <1>1, <1>5, <1>6, <2>1, <2>2, AtWork, TypesKept
    <2>4. Recorded'
        BY <1>1, <1>5, <1>6, <2>1, <2>2, BoxOf, AtWork, Nothings DEF Recorded, OneSandbox
    <2>5. Bare'
        BY <1>5, <1>6, <2>1, BoxOf DEF Bare
    <2>6. Torn' /\ Placed'
        BY <1>1, <1>6, <2>2, BoxOf, Nothings DEF Torn, Placed, Boxed, Unboxed, Ending, Inside
    <2> QED BY <2>3, <2>4, <2>5, <2>6 DEF PodInv, BoxInv
<1>7. CASE /\ rec = NoRec
           /\ \E b \in Boxes : MakeBox(b) /\ rec' = [NoRec EXCEPT !.phase = "Starting", !.box = b]
           /\ pass' = [pass EXCEPT !.at = "init", !.i = 1]
           /\ inited' = {} /\ UNCHANGED <<held, holdoff, strays>>
    <2>1. PICK b \in Boxes : MakeBox(b) /\ rec' = [NoRec EXCEPT !.phase = "Starting", !.box = b]
        BY <1>7
    <2>2. rec' \in RecType /\ rec'.box = b
        BY <2>1, Nothings DEF RecType, Phases
    <2>3. PassOf(pass') /\ pass'.at = "init"
        BY <1>7, FirstEffect
    <2>4. PodTypes'
        BY <1>1, <1>5, <1>7, <2>1, <2>2, <2>3, AtWork, TypesKept
    <2>5. Recorded'
        BY <1>1, <1>5, <1>7, <2>1, <2>2, BoxOf, AtWork DEF Recorded, OneSandbox, NoBoxes
    <2>6. Bare'
        BY <1>5, <1>7, <2>1, BoxOf DEF Bare
    <2>7. Torn' /\ Placed'
        BY <1>1, <1>5, <1>7, <2>1, <2>2, <2>3, BoxOf DEF Torn, Placed, Boxed, Unboxed, Ending, Inside
    <2> QED BY <2>4, <2>5, <2>6, <2>7 DEF PodInv, BoxInv
<1> QED BY <1>2, <1>3, <1>4, <1>6, <1>7 DEF Sandbox

\* stop_finished_sandbox, in a pass of its own.
LEMMA ReleaseBoxStep == ASSUME PodInv, ReleaseBox, pass.at = "release" PROVE PodInv'
<1>1. /\ running /\ UNCHANGED <<policy, runtime, obj, seen, held, holdoff, inited, strays, running>>
    BY DEF ReleaseBox, At, Env, spec, api, past
<1>2. PassOf(pass') /\ pass'.at \in {"idle", "report"}
    <2>1. CASE Finish
        BY <2>1, Nothings DEF Finish
    <2>2. CASE pass.report # "none" /\ Go("report")
        BY <2>2, AtWork DEF Go, PassOf, PassType, PassSteps
    <2> QED BY <2>1, <2>2 DEF ReleaseBox
<1>3. /\ EngineType' /\ SameBoxes /\ SameBare
      /\ rec' \in RecType /\ rec'.box = rec.box /\ rec'.phase = rec.phase /\ (rec.box = 0 => rec' = rec)
    <2>1. CASE UNCHANGED <<engine, rec>>
        BY <2>1, AtWork, SameEngine
    <2>2. CASE rec # NoRec /\ StopBox(rec.box) /\ rec' = [rec EXCEPT !.stopped = TRUE]
        <3>1. rec' \in RecType /\ rec'.box = rec.box /\ rec'.phase = rec.phase
            BY <2>2, AtWork DEF RecType
        <3> QED BY <2>2, <3>1, AtWork, StopBoxEffect, BoxOf
    <2> QED BY <2>1, <2>2 DEF ReleaseBox
<1>4. PodTypes'
    BY <1>1, <1>2, <1>3, AtWork, TypesKept
<1>5. Recorded' /\ Bare'
    BY <1>1, <1>3, BoxOf, AtWork DEF Recorded, OneSandbox, Bare, SameBoxes, SameBare
<1>6. Unboxed' => Unboxed
    BY <1>3, BoxOf DEF Unboxed, SameBoxes
<1>7. Torn' /\ Placed'
    BY <1>1, <1>2, <1>3, <1>6, BoxOf DEF Torn, IsEnding, Placed, Ending, Inside
<1> QED BY <1>4, <1>5, <1>7 DEF PodInv, BoxInv

LEMMA CrashStep == ASSUME PodInv, Crash PROVE PodInv'
<1>1. /\ UNCHANGED <<policy, runtime, obj, held, inited>> /\ running' = FALSE /\ rec' = NoRec /\ holdoff' = FALSE
      /\ pass' = NoPass /\ seen' = [phase |-> "active", life |-> "unknown"]
    BY DEF Crash, spec
<1>2. \/ UNCHANGED <<box, con, hidden, strays>>
      \/ /\ box' = [b \in Boxes |-> "none"] /\ hidden' = {} /\ strays' = {}
         /\ con' = [i \in Ids |-> NoCon]
    BY DEF Crash, engine, past
<1>3. EngineType' /\ strays' \subseteq Boxes
    BY <1>2, AtWork, Nothings DEF EngineType
<1>4. PodTypes'
    BY <1>1, <1>3, AtWork, Nothings, TypesKept
<1>5. Recorded'
    BY <1>1, <1>2, BoxOf, Nothings, BoxIds, AtWork DEF Recorded, OneSandbox
<1>6. Bare'
    BY <1>2, BoxOf DEF Bare
<1>7. Torn' /\ Placed'
    BY <1>1, Nothings DEF Torn, Placed, Boxed, Unboxed, Ending, Inside
<1> QED BY <1>4, <1>5, <1>6, <1>7 DEF PodInv, BoxInv

LEMMA BootStep == ASSUME PodInv, Boot PROVE PodInv'
<1>1. /\ UNCHANGED <<policy, runtime, obj, seen, box, con, hidden, held, holdoff, pass, inited>>
      /\ ~ running /\ running' = TRUE
    BY DEF Boot, spec, api, engine
<1>2. rec = NoRec /\ pass = NoPass
    BY <1>1, BoxOf DEF Recorded
<1>3. /\ rec' \in RecType /\ (rec'.box = 0 => rec' = NoRec) /\ strays' \subseteq Boxes
      /\ rec'.box \notin strays' /\ \A b \in strays' : box[b] # "none"
      /\ \A b \in Boxes \ strays' : box[b] # "none" => rec'.box = b
      /\ rec'.box # 0 => box[rec'.box] # "none"
    <2>1. CASE (\A b \in Boxes : box[b] = "none") /\ UNCHANGED <<rec, strays>>
        BY <1>2, <2>1, Nothings, BoxOf, BoxIds, AtWork DEF Recorded, past
    <2>2. ASSUME NEW b \in Boxes, NEW f \in [All -> {0} \cup Ids], box[b] # "none",
                 rec' = [NoRec EXCEPT !.phase = "Running", !.box = b, !.ids = f]
          PROVE  rec' \in RecType /\ rec'.box = b /\ b # 0
        <3>1. rec' \in RecType /\ rec'.box = b
            BY <2>2, Nothings DEF RecType, Phases
        <3> QED BY <3>1, BoxIds
    <2> QED BY <2>1, <2>2 DEF Boot
<1>4. PodTypes'
    BY <1>1, <1>2, <1>3, AtWork, TypesKept, Nothings DEF EngineType
<1>5. Recorded'
    BY <1>1, <1>3 DEF Recorded, OneSandbox
<1>6. Bare'
    BY <1>1, BoxOf DEF Bare
<1>7. Torn' /\ Placed'
    BY <1>1, <1>2, <1>3, BoxOf, Nothings DEF Torn, Placed, Boxed, Unboxed, Ending, Inside
<1> QED BY <1>4, <1>5, <1>6, <1>7 DEF PodInv, BoxInv

-----------------------------------------------------------------------------
(* The whole Pod. *)

LEMMA PodInitInv == ASSUME PodInit PROVE PodInv
<1>1. /\ policy \in Policies /\ runtime \in DOMAIN Faults /\ rec = NoRec /\ pass = NoPass /\ running = TRUE
      /\ seen = obj /\ obj = [phase |-> "active", life |-> "live"]
      /\ box = [b \in Boxes |-> "none"] /\ con = [i \in Ids |-> NoCon] /\ hidden = {}
      /\ held = {} /\ holdoff = FALSE /\ inited = {} /\ strays = {}
    BY DEF PodInit
<1>2. ApiType /\ SpecType /\ RestType
    BY <1>1 DEF ApiType, SpecType, RestType
<1>3. EngineType
    BY <1>1, Nothings DEF EngineType
<1>4. PodTypes
    BY <1>1, <1>2, <1>3, Nothings DEF PodTypes
<1>5. Recorded /\ Bare
    BY <1>1, Nothings DEF Recorded, OneSandbox, Bare
<1>6. Torn /\ Placed
    BY <1>1, Nothings DEF Torn, Placed, Unboxed, Ending, Inside
<1> QED BY <1>4, <1>5, <1>6 DEF PodInv, BoxInv

LEMMA StutterStep == ASSUME PodInv, UNCHANGED vars PROVE PodInv'
<1>1. UNCHANGED <<policy, runtime, obj, seen, box, con, hidden, rec, held, holdoff, pass, running, inited, strays>>
    BY DEF vars, spec, api, engine, memory, env, past
<1>2. EngineType' /\ SameBare /\ ApiType'
    BY <1>1, AtWork, ApiIs DEF EngineType, SameBare, ApiType
<1> QED BY <1>1, <1>2, ApiIs, AtWork, QuietStep DEF Quiet

LEMMA PodStep == ASSUME PodInv, [PodNext]_vars PROVE PodInv'
<1>1. CASE Begin
    BY <1>1, BeginStep
<1>2. CASE Sandbox
    BY <1>2, SandboxStep
<1>3. CASE SkipInit \/ CreateInit \/ StartInit \/ LookAtInit
    BY <1>3, SkipInitInner, CreateInitInner, StartInitInner, LookAtInitInner, InnerStep
<1>4. CASE CreateApp \/ StartApp \/ Started
    BY <1>4, CreateAppInner, StartAppInner, StartedInner, InnerStep
<1>5. CASE CheckOne \/ Replace \/ Recreate \/ Restart
    BY <1>5, CheckOneInner, ReplaceInner, RecreateInner, RestartInner, InnerStep
<1>6. CASE CreateMissing \/ Conclude \/ FinishSidecar
    BY <1>6, CreateMissingInner, ConcludeInner, FinishSidecarInner, InnerStep
<1>7. CASE ReleaseBox
    <2>1. pass.at \in {"release", "finish"}
        BY <1>7 DEF ReleaseBox, At
    <2> QED BY <1>7, <2>1, FinishBoxInner, InnerStep, ReleaseBoxStep
<1>8. CASE StopApps \/ RemoveApps \/ StopSidecar \/ StopSandbox
    BY <1>8, StopAppsStep, RemoveAppsStep, StopSidecarStep, StopSandboxStep
<1>9. CASE RemoveSandbox \/ Forget
    BY <1>9, RemoveSandboxStep, ForgetStep
<1>10. CASE Acknowledge \/ WriteStatus
    BY <1>10, AcknowledgeStep, WriteStatusStep
<1>11. CASE Delete \/ Vanish \/ List
    BY <1>11, ClusterStep
<1>12. CASE \E i \in Ids, r \in {"ok", "bad"} : End(i, r)
    BY <1>12, EndStep
<1>13. CASE BackoffEnds \/ HoldoffEnds
    BY <1>13, TimeStep
<1>14. CASE Crash \/ Boot
    BY <1>14, CrashStep, BootStep
<1>15. CASE UNCHANGED vars
    BY <1>15, StutterStep
<1> QED
    BY <1>1, <1>2, <1>3, <1>4, <1>5, <1>6, <1>7, <1>8, <1>9, <1>10, <1>11, <1>12, <1>13, <1>14, <1>15
    DEF PodNext, PassStep, Starting, Checking, Ended

LEMMA PodInvariant == PodSpec => []PodInv
<1>1. PodInit => PodInv
    BY PodInitInv
<1>2. PodInv /\ [PodNext]_vars => PodInv'
    BY PodStep
<1> QED BY <1>1, <1>2, PTL DEF PodSpec

(* PodTypeOK: whatever the manager, the runtime and the API hold of a Pod is
   of its type, through failed calls, crashes and adoptions (PodState,
   pod_manager.rs; the runtime's answers, container_status and list). *)
THEOREM PodTypeCorrect == PodSpec => []PodTypeOK
<1>1. PodInv => PodTypeOK
    BY DEF PodInv, PodTypes, PodTypeOK, SpecType, RestType, ApiType, EngineType, ConType, RecType
<1> QED BY <1>1, PodInvariant, PTL

(* SandboxKept: a Pod never has two sandboxes, and its deletion is acknowledged
   only when no sandbox and no process of it is left, whichever of the stop's
   calls failed and however often the kubelet died (start_pod, stop_pod_within
   and recover_state in pod_manager.rs, the delete in Kubelet::reconcile); but
   for the sandboxes whose making was not answered or that a recovery passed
   over, which the manager does not know of. *)
THEOREM SandboxKeptHolds == PodSpec => []SandboxKept
<1>1. PodInv => SandboxKept
    <2> SUFFICES ASSUME PodInv PROVE SandboxKept
        OBVIOUS
    <2>1. OneSandbox
        BY BoxOf DEF Recorded
    <2>2. ASSUME pass.at = "ack" PROVE NoBoxes /\ \A i \in Ids : Busy(i) => con[i].box \in strays
        <3>1. running /\ rec = NoRec
            BY <2>2, BoxOf, Nothings DEF Recorded, Placed
        <3>2. NoBoxes
            BY <3>1, NotBoxed, Nothings DEF Boxed
        <3> QED BY <3>2, BoxOf, Nothings DEF Bare, Busy, NoBoxes
    <2> QED BY <2>1, <2>2 DEF SandboxKept, AcknowledgedIsGone, NoBoxes
<1> QED BY <1>1, PodInvariant, PTL
=============================================================================
