-------------------------- MODULE WorkloadsProofs --------------------------
(***************************************************************************)
(* What Workloads.tla promises for every set of workloads, names and       *)
(* claims, every number of workers, and any number of crashes, faults and  *)
(* changes of the cluster.                                                 *)
(***************************************************************************)
EXTENDS Workloads, ReservationsProofs

PassType == pass \in [Keys -> [at : PassSteps, obj : Objects, cs : SUBSET Claims]]
LoopType == loop \in [Loops -> [at : LoopSteps, src : Kinds, list : [Keys -> Objects],
                                todo : SUBSET Keys, due : BOOLEAN]]
EnvType == /\ running \in BOOLEAN
           /\ crashes \in 0..MaxCrashes /\ faults \in 0..MaxFaults
           /\ wakes \in 0..MaxWakes /\ changes \in 0..MaxChanges
WorldType == /\ api \in [Keys -> {"absent", "live", "deleting", "gone"}]
             /\ up \in SUBSET Keys /\ staged \in SUBSET Keys
MemoryType == /\ record \in [Keys -> {"none", "unspec", "spec"}]
              /\ desired \in [Keys -> Objects]
              /\ synced \in SUBSET Loops /\ parked \in SUBSET Keys
TimerType == timer \in SUBSET Keys

LEMMA TypeParts ==
    TypeOK <=> /\ TableTypeOK /\ WorldType /\ MemoryType /\ TimerType
               /\ PassType /\ LoopType /\ EnvType
BY DEF TypeOK, PassType, LoopType, EnvType, WorldType, MemoryType, TimerType

-----------------------------------------------------------------------------
(* The helpers keep the types. *)

\* Every workload's claims make a request.
LEMMA WantedIsRequest ==
    ASSUME NEW k \in Keys
    PROVE  Wanted(k) \in Requests
<1>1. ClaimsOf[k] \in SUBSET Claims
    BY ClaimsAssumption
<1>2. Wanted(k) \in [ClaimsOf[k] -> Access]
    BY DEF Wanted, Access
<1> QED BY <1>1, <1>2 DEF Requests

\* A pass moves on, or ends.
LEMMA GotoType ==
    ASSUME PassType, NEW k \in Keys, NEW at \in PassSteps, Goto(k, at)
    PROVE  PassType'
BY DEF PassType, Goto

LEMMA FinishType ==
    ASSUME PassType, NEW k \in Keys, Finish(k)
    PROVE  PassType'
<1>1. NoPass \in [at : PassSteps, obj : Objects, cs : SUBSET Claims]
    BY DEF NoPass, PassSteps, Objects
<1> QED BY <1>1 DEF PassType, Finish

\* A failed pass drops its locks and is due again.
LEMMA FailType ==
    ASSUME TableTypeOK, PassType, TimerType, NEW k \in Keys, Fail(k)
    PROVE  TableTypeOK' /\ PassType' /\ TimerType'
<1>1. PassType'
    BY FinishType DEF Fail
<1>2. TimerType'
    BY DEF Fail, Again, TimerType
<1>3. TableTypeOK'
    BY DEF Fail, Unlocked, TableTypeOK
<1> QED BY <1>1, <1>2, <1>3

\* Taking the locks, or going off to look again, keeps the types.
LEMMA TakeLocksType ==
    ASSUME TableTypeOK, PassType, TimerType, NEW k \in Keys, NEW next \in PassSteps,
           TakeLocks(k, next)
    PROVE  TableTypeOK' /\ PassType' /\ TimerType'
<1>1. CASE TryOperations(k, pass[k].cs) /\ Goto(k, next) /\ UNCHANGED timer
    <2>1. PassType'
        BY <1>1, GotoType
    <2>2. TableTypeOK'
        BY <1>1 DEF TryOperations, Locked, TableTypeOK
    <2> QED BY <1>1, <2>1, <2>2 DEF TimerType
<1>2. CASE Finish(k) /\ Again(k) /\ UNCHANGED tableVars
    <2>1. PassType'
        BY <1>2, FinishType
    <2>2. TableTypeOK'
        BY <1>2 DEF tableVars, TableTypeOK
    <2> QED BY <1>2, <2>1, <2>2 DEF Again, TimerType
<1> QED BY <1>1, <1>2 DEF TakeLocks

\* Faults are counted within their bound.
LEMMA FaultType ==
    ASSUME EnvType, NEW f, Fault(f), SameButFaults
    PROVE  EnvType'
BY BoundsAssumption DEF EnvType, Fault, SameButFaults

\* A seed, a grant and a refusal of what a workload wants.
LEMMA ReserveType ==
    ASSUME TableTypeOK, NEW k \in Keys,
           Seed(k, Wanted(k)) \/ Granted(k, Wanted(k)) \/ Refused(k, Wanted(k))
    PROVE  TableTypeOK'
<1>1. Wanted(k) \in Requests
    BY WantedIsRequest
<1>2. CASE Seed(k, Wanted(k))
    BY <1>1, <1>2, RecordType DEF Seed, TableTypeOK
<1>3. CASE Granted(k, Wanted(k))
    BY <1>1, <1>3, RecordType DEF Granted, TableTypeOK
<1>4. CASE Refused(k, Wanted(k))
    BY <1>4 DEF Refused, TableTypeOK
<1> QED BY <1>2, <1>3, <1>4

-----------------------------------------------------------------------------
(* The type invariant, step by step. *)

\* What a list loop publishes is objects.
LEMMA SnapshotType ==
    ASSUME WorldType, NEW src \in Kinds
    PROVE  Snapshot(src) \in [Keys -> Objects]
BY DEF WorldType, Snapshot, Created, Objects

\* A loop moves on with a new list.
LEMMA ListChange ==
    ASSUME LoopType, NEW l \in Loops, NEW at \in LoopSteps, NEW list \in [Keys -> Objects],
           loop' = [loop EXCEPT ![l].at = at, ![l].list = list]
    PROVE  LoopType'
BY ZenonT(40) DEF LoopType

\* A loop moves on with a new list, of another source.
LEMMA SourceChange ==
    ASSUME LoopType, NEW l \in Loops, NEW at \in LoopSteps, NEW src \in Kinds,
           NEW list \in [Keys -> Objects],
           loop' = [loop EXCEPT ![l].at = at, ![l].src = src, ![l].list = list, ![l].todo = {}]
    PROVE  LoopType'
<1> DEFINE T == [Loops -> [at : LoopSteps, src : Kinds, list : [Keys -> Objects],
                           todo : SUBSET Keys, due : BOOLEAN]]
           L1 == [loop EXCEPT ![l].at = at, ![l].src = src]
           L2 == [L1 EXCEPT ![l].list = list, ![l].todo = {}]
<1>1. loop' = L2
    OBVIOUS
<1>2. L1 \in T
    BY ZenonT(40) DEF LoopType
<1> HIDE DEF L1
<1>3. L2 \in T
    BY <1>2, ZenonT(40)
<1> QED BY <1>1, <1>3 DEF LoopType

\* A loop gives up, and is due again.
LEMMA IdleLoopType ==
    IdleLoop \in [at : LoopSteps, src : Kinds, list : [Keys -> Objects],
                  todo : SUBSET Keys, due : BOOLEAN]
BY DEF IdleLoop, NoList, LoopSteps, Kinds, Objects

LEMMA LoopTypeStep ==
    ASSUME TypeOK, NEW l \in Loops, LoopStep(l)
    PROVE  TypeOK'
<1> USE DEF NoFault, LoopOnly, env, world, memory
<1>0. /\ TableTypeOK /\ WorldType /\ MemoryType /\ TimerType
      /\ PassType /\ LoopType /\ EnvType
    BY TypeParts
<1>1. CASE l = "pods" /\ BeginPods
    <2>a. Snapshot("static") \in [Keys -> Objects]
        BY <1>0, SnapshotType DEF Kinds
    <2>b. IdleLoop.todo \in SUBSET Keys /\ IdleLoop.due \in BOOLEAN /\ IdleLoop.src \in Kinds
          /\ IdleLoop.list \in [Keys -> Objects]
        BY IdleLoopType
    <2>1. LoopType'
        <3>1. CASE loop' = [loop EXCEPT !["pods"] =
                              [IdleLoop EXCEPT !.at = "cache", !.src = "static",
                                               !.list = Snapshot("static")]]
            BY <1>0, <2>a, <2>b, <3>1, IdleLoopType DEF LoopType, LoopSteps, Kinds
        <3>2. CASE loop' = [loop EXCEPT !["pods"] =
                              [IdleLoop EXCEPT !.at = "list", !.due = TRUE]]
            BY <1>0, <2>b, <3>2, IdleLoopType DEF LoopType, LoopSteps
        <3> QED BY <1>1, <3>1, <3>2 DEF BeginPods
    <2>2. EnvType'
        BY <1>0, <1>1, FaultType DEF BeginPods, EnvType
    <2> QED BY <1>0, <1>1, <2>1, <2>2
            DEF BeginPods, TypeOK, TableTypeOK, tableVars, LoopType, EnvType
<1>2. CASE l = "vms" /\ BeginVms
    <2>1. LoopType'
        BY <1>0, <1>2, IdleLoopType DEF BeginVms, LoopType, LoopSteps, Kinds, IdleLoop
    <2> QED BY <1>0, <1>2, <2>1 DEF BeginVms, TypeOK, TableTypeOK, tableVars, LoopType
<1>3. CASE List(l)
    <2>1. LoopType'
        <3>1. Snapshot(Of(l)) \in [Keys -> Objects]
            BY <1>0, SnapshotType DEF Of, LoopType
        <3>2. CASE loop' = [loop EXCEPT ![l].at = "cache", ![l].list = Snapshot(Of(l))]
            BY <1>0, <3>1, <3>2, ListChange DEF LoopSteps
        <3>3. CASE GiveUp(l)
            BY <1>0, <3>3, IdleLoopType DEF GiveUp, LoopType
        <3> QED BY <1>3, <3>2, <3>3 DEF List
    <2>2. EnvType'
        BY <1>0, <1>3, FaultType DEF List, EnvType
    <2>3. TableTypeOK' /\ WorldType' /\ MemoryType' /\ TimerType' /\ PassType'
        BY <1>0, <1>3
           DEF List, TableTypeOK, tableVars, WorldType, MemoryType, TimerType, PassType
    <2> QED BY <2>1, <2>2, <2>3
            DEF TypeOK, WorldType, MemoryType, TimerType, PassType, LoopType, EnvType
<1>4. CASE Cache(l)
    <2>1. LoopType'
        BY <1>0, <1>4, ZenonT(40) DEF Cache, Step, LoopType, LoopSteps
    <2>2. \A k \in Keys : Cached(l, k) \in {"none", "unspec", "spec"}
        BY <1>0 DEF Cached, MemoryType
    <2> QED BY <1>0, <1>4, <2>1, <2>2 DEF Cache, TypeOK, TableTypeOK, tableVars, LoopType
<1>5. CASE Known(l)
    <2>1. LoopType'
        BY <1>0, <1>5, ZenonT(40) DEF Known, Listed, LoopType, LoopSteps
    <2> QED BY <1>0, <1>5, <2>1 DEF Known, TypeOK, TableTypeOK, tableVars, LoopType
<1>6. CASE SeedOne(l)
    <2>1. PICK k \in loop[l].todo : /\ Seed(k, Wanted(k))
                                   /\ loop' = [loop EXCEPT ![l].todo = @ \ {k}]
        BY <1>6 DEF SeedOne
    <2>2. k \in Keys
        BY <1>0 DEF LoopType
    <2>3. TableTypeOK'
        BY <1>0, <2>1, <2>2, ReserveType
    <2>4. LoopType'
        BY <1>0, <2>1 DEF LoopType
    <2> QED BY <1>0, <1>6, <2>3, <2>4 DEF SeedOne, TypeOK, LoopType
<1>7. CASE SeedFails(l)
    <2>1. LoopType'
        BY <1>0, <1>7, IdleLoopType DEF SeedFails, GiveUp, LoopType, IdleLoop
    <2>2. EnvType'
        BY <1>0, <1>7, FaultType DEF SeedFails
    <2> QED BY <1>0, <1>7, <2>1, <2>2
            DEF SeedFails, TypeOK, TableTypeOK, tableVars, LoopType, EnvType
<1>8. CASE Mark(l)
    <2>1. LoopType'
        <3>1. CASE Step(l, "publish")
            BY <1>0, <3>1, ZenonT(40) DEF Step, LoopType, LoopSteps
        <3>2. CASE Step(l, "wake")
            BY <1>0, <3>2, ZenonT(40) DEF Step, LoopType, LoopSteps
        <3> QED BY <1>8, <3>1, <3>2 DEF Mark
    <2> QED BY <1>0, <1>8, <2>1 DEF Mark, TypeOK, TableTypeOK, tableVars, LoopType
<1>9. CASE Publish(l)
    <2>1. LoopType'
        <3>1. NoList \in [Keys -> Objects]
            BY DEF NoList, Objects
        <3>2. CASE loop' = [loop EXCEPT ![l].at = "list", ![l].src = "pod",
                                        ![l].list = NoList, ![l].todo = {}]
            BY <1>0, <3>1, <3>2, SourceChange DEF LoopSteps, Kinds
        <3>3. CASE loop' = [loop EXCEPT ![l].at = "wake", ![l].list = NoList]
            BY <1>0, <3>1, <3>3, ListChange DEF LoopSteps
        <3>4. CASE loop' = [loop EXCEPT ![l].at = "mark", ![l].list = NoList]
            BY <1>0, <3>1, <3>4, ListChange DEF LoopSteps
        <3> QED BY <1>9, <3>2, <3>3, <3>4 DEF Publish
    <2>2. desired' \in [Keys -> Objects]
        BY <1>0, <1>9 DEF Publish, LoopType, MemoryType
    <2>3. TableTypeOK'
        BY <1>0, <1>9 DEF Publish, Changed, TableTypeOK
    <2> QED BY <1>0, <1>9, <2>1, <2>2, <2>3 DEF Publish, TypeOK, LoopType
<1>10. CASE Wake(l)
    <2>1. LoopType'
        BY <1>0, <1>10, IdleLoopType DEF Wake, LoopType, IdleLoop
    <2>2. TableTypeOK' /\ parked' \in SUBSET Keys
        BY <1>0, <1>10 DEF Wake, TableTypeOK, MemoryType
    <2> QED BY <1>0, <1>10, <2>1, <2>2 DEF Wake, TypeOK, LoopType
<1> QED BY <1>1, <1>2, <1>3, <1>4, <1>5, <1>6, <1>7, <1>8, <1>9, <1>10 DEF LoopStep

\* An ended pass that is to be looked at again.
LEMMA LaterType ==
    ASSUME TypeOK, NEW k \in Keys, Later(k)
    PROVE  TypeOK'
<1>1. PassType'
    BY FinishType DEF Later, TypeOK, PassType
<1> QED BY <1>1 DEF Later, Again, NoFault, env, world, memory, tableVars, TypeOK, TableTypeOK, PassType

\* A pass that asks about starting.
LEMMA AdmissionTypeStep ==
    ASSUME TypeOK, NEW k \in Keys,
           Admit(k) \/ Park(k) \/ Recheck(k) \/ ReadClaims(k) \/ Reserve(k) \/ Report(k)
    PROVE  TypeOK'
<1> USE DEF NoFault, env, world, memory
<1>0. /\ TableTypeOK /\ WorldType /\ MemoryType /\ TimerType
      /\ PassType /\ LoopType /\ EnvType
    BY TypeParts
<1>1. CASE Admit(k)
    <2>1. PassType'
        BY <1>0, <1>1, GotoType DEF Admit, PassSteps
    <2> QED BY <1>1, <2>1 DEF Admit, tableVars, TypeOK, TableTypeOK, PassType
<1>2. CASE Park(k)
    <2>1. PassType'
        BY <1>0, <1>2, GotoType DEF Park, PassSteps
    <2> QED BY <1>2, <2>1 DEF Park, tableVars, TypeOK, TableTypeOK, PassType
<1>3. CASE Recheck(k)
    <2>1. CASE Later(k)
        BY <2>1, LaterType
    <2>2. CASE ~ Later(k)
        <3>1. PassType'
            BY <1>0, <1>3, <2>2, GotoType DEF Recheck, PassSteps
        <3> QED BY <1>3, <2>2, <3>1 DEF Recheck, tableVars, TypeOK, TableTypeOK, PassType
    <2> QED BY <2>1, <2>2
<1>4. CASE ReadClaims(k)
    <2>1. CASE Fail(k)
        <3>1. TableTypeOK' /\ PassType' /\ TimerType'
            BY <1>0, <2>1, FailType
        <3>2. EnvType'
            BY <1>0, <1>4, FaultType DEF ReadClaims, EnvType
        <3> QED BY <1>4, <3>1, <3>2 DEF ReadClaims, TypeOK, PassType, TimerType, EnvType
    <2>2. CASE ~ Fail(k)
        <3>1. PassType'
            BY <1>0, <1>4, <2>2, GotoType DEF ReadClaims, PassSteps
        <3> QED BY <1>4, <2>2, <3>1 DEF ReadClaims, tableVars, TypeOK, TableTypeOK, PassType
    <2> QED BY <2>1, <2>2
<1>5. CASE Reserve(k)
    <2>1. PassType'
        BY <1>0, <1>5, GotoType, FinishType DEF Reserve, PassSteps
    <2>2. TableTypeOK'
        BY <1>0, <1>5, ReserveType DEF Reserve
    <2> QED BY <1>5, <2>1, <2>2 DEF Reserve, TypeOK, PassType
<1>6. CASE Report(k)
    <2>1. CASE Fail(k)
        <3>1. TableTypeOK' /\ PassType' /\ TimerType'
            BY <1>0, <2>1, FailType
        <3>2. EnvType'
            BY <1>0, <1>6, FaultType DEF Report, EnvType
        <3> QED BY <1>6, <3>1, <3>2 DEF Report, TypeOK, PassType, TimerType, EnvType
    <2>2. CASE ~ Fail(k)
        <3>1. PassType'
            BY <1>0, <1>6, <2>2, FinishType DEF Report
        <3> QED BY <1>6, <2>2, <3>1 DEF Report, tableVars, TypeOK, TableTypeOK, PassType
    <2> QED BY <2>1, <2>2
<1> QED BY <1>1, <1>2, <1>3, <1>4, <1>5, <1>6

\* A pass at work on the runtime, starting or stopping.
LEMMA WorkTypeStep ==
    ASSUME TypeOK, NEW k \in Keys,
           \/ Operate(k) \/ Mount(k) \/ Launch(k) \/ AlreadyUp(k) \/ StartFails(k) \/ Status(k)
           \/ LockForStop(k) \/ StopRuntime(k) \/ StopFails(k) \/ Unstage(k) \/ Stopped(k)
    PROVE  TypeOK'
<1> USE DEF NoFault, env, world, memory
<1>0. /\ TableTypeOK /\ WorldType /\ MemoryType /\ TimerType
      /\ PassType /\ LoopType /\ EnvType
    BY TypeParts
<1>1. CASE Operate(k)
    <2>1. TableTypeOK' /\ PassType' /\ TimerType'
        BY <1>0, <1>1, TakeLocksType DEF Operate, PassSteps
    <2> QED BY <1>1, <2>1 DEF Operate, TypeOK, PassType, TimerType
<1>2. CASE Mount(k)
    <2>1. TableTypeOK' /\ PassType' /\ TimerType'
        <3>1. CASE Fail(k)
            BY <1>0, <3>1, FailType
        <3>2. CASE ~ Fail(k)
            BY <1>0, <1>2, <3>2, GotoType DEF Mount, PassSteps, tableVars, TableTypeOK, TimerType
        <3> QED BY <3>1, <3>2
    <2>2. staged' \in SUBSET Keys
        BY <1>0, <1>2 DEF Mount, WorldType
    <2> QED BY <1>2, <2>1, <2>2 DEF Mount, TypeOK, PassType, TimerType
<1>3. CASE Launch(k)
    <2>1. PassType'
        BY <1>0, <1>3, GotoType DEF Launch, PassSteps
    <2> QED BY <1>3, <2>1 DEF Launch, tableVars, TypeOK, TableTypeOK, PassType
<1>4. CASE AlreadyUp(k)
    <2>1. PassType'
        BY <1>0, <1>4, GotoType DEF AlreadyUp, PassSteps
    <2> QED BY <1>4, <2>1 DEF AlreadyUp, RecordOf, tableVars, TypeOK, TableTypeOK, PassType
<1>5. CASE StartFails(k)
    <2>1. TableTypeOK' /\ PassType' /\ TimerType'
        BY <1>0, <1>5, FailType DEF StartFails
    <2>2. EnvType'
        BY <1>0, <1>5, FaultType DEF StartFails
    <2> QED BY <1>5, <2>1, <2>2 DEF StartFails, TypeOK, PassType, TimerType, EnvType
<1>6. CASE Status(k)
    <2>1. CASE Fail(k)
        <3>1. TableTypeOK' /\ PassType' /\ TimerType'
            BY <1>0, <2>1, FailType
        <3>2. EnvType'
            BY <1>0, <1>6, FaultType DEF Status, EnvType
        <3> QED BY <1>6, <3>1, <3>2 DEF Status, TypeOK, PassType, TimerType, EnvType
    <2>2. CASE ~ Fail(k)
        <3>1. PassType'
            BY <1>0, <1>6, <2>2, GotoType DEF Status, PassSteps
        <3> QED BY <1>6, <2>2, <3>1 DEF Status, tableVars, TypeOK, TableTypeOK, PassType
    <2> QED BY <2>1, <2>2
<1>7. CASE LockForStop(k)
    <2>1. TableTypeOK' /\ PassType' /\ TimerType'
        BY <1>0, <1>7, TakeLocksType DEF LockForStop, PassSteps
    <2>2. StoppingRecord(k) \in {"none", "unspec", "spec"}
        BY <1>0 DEF StoppingRecord, MemoryType
    <2> QED BY <1>7, <2>1, <2>2 DEF LockForStop, TypeOK, PassType, TimerType
<1>8. CASE StopRuntime(k)
    BY <1>8 DEF StopRuntime, tableVars, TypeOK, TableTypeOK
<1>9. CASE StopFails(k)
    <2>1. TableTypeOK' /\ PassType' /\ TimerType'
        BY <1>0, <1>9, FailType DEF StopFails
    <2>2. EnvType'
        BY <1>0, <1>9, FaultType DEF StopFails
    <2> QED BY <1>9, <2>1, <2>2 DEF StopFails, TypeOK, PassType, TimerType, EnvType
<1>10. CASE Unstage(k)
    BY <1>10 DEF Unstage, tableVars, TypeOK, TableTypeOK
<1>11. CASE Stopped(k)
    <2>1. PassType'
        BY <1>0, <1>11, GotoType DEF Stopped, PassSteps
    <2> QED BY <1>11, <2>1 DEF Stopped, tableVars, TypeOK, TableTypeOK, PassType
<1> QED BY <1>1, <1>2, <1>3, <1>4, <1>5, <1>6, <1>7, <1>8, <1>9, <1>10, <1>11

\* A loop is told that its list has changed.
LEMMA DueType ==
    ASSUME LoopType, NEW k \in Keys, loop' \in {loop, Due(LoopOf(k))}
    PROVE  LoopType'
<1>1. LoopOf(k) \in Loops
    BY DEF LoopOf, Loops
<1>2. Due(LoopOf(k)) \in [Loops -> [at : LoopSteps, src : Kinds, list : [Keys -> Objects],
                                   todo : SUBSET Keys, due : BOOLEAN]]
    BY <1>1 DEF LoopType, Due
<1> QED BY <1>2 DEF LoopType

\* A pass at its end.
LEMMA EndTypeStep ==
    ASSUME TypeOK, NEW k \in Keys, Acknowledge(k) \/ LetGo(k) \/ Done(k)
    PROVE  TypeOK'
<1> USE DEF NoFault, env, world, memory
<1>0. /\ TableTypeOK /\ WorldType /\ MemoryType /\ TimerType
      /\ PassType /\ LoopType /\ EnvType
    BY TypeParts
<1>1. CASE Acknowledge(k)
    <2>1. CASE Fail(k)
        <3>1. TableTypeOK' /\ PassType' /\ TimerType'
            BY <1>0, <2>1, FailType
        <3>2. EnvType' /\ LoopType' /\ api' \in [Keys -> {"absent", "live", "deleting", "gone"}]
            BY <1>0, <1>1, FaultType, DueType DEF Acknowledge, EnvType, WorldType
        <3> QED BY <1>1, <3>1, <3>2
                DEF Acknowledge, TypeOK, PassType, TimerType, EnvType, LoopType
    <2>2. CASE ~ Fail(k)
        <3>1. PassType'
            BY <1>0, <1>1, <2>2, GotoType DEF Acknowledge, PassSteps
        <3>2. LoopType'
            BY <1>0, <1>1, <2>2, DueType DEF Acknowledge
        <3> QED BY <1>1, <2>2, <3>1, <3>2
                DEF Acknowledge, tableVars, TypeOK, TableTypeOK, PassType, LoopType
    <2> QED BY <2>1, <2>2
<1>2. CASE LetGo(k)
    <2>1. PassType'
        BY <1>0, <1>2, GotoType DEF LetGo, PassSteps
    <2>2. TableTypeOK'
        BY <1>0, <1>2, TypeStep DEF LetGo, TableNext
    <2> QED BY <1>2, <2>1, <2>2 DEF LetGo, TypeOK, PassType
<1>3. CASE Done(k)
    <2>1. PassType'
        BY <1>0, <1>3, FinishType DEF Done
    <2>2. TableTypeOK'
        BY <1>0, <1>3 DEF Done, Unlocked, TableTypeOK
    <2> QED BY <1>3, <2>1, <2>2 DEF Done, TypeOK, PassType
<1> QED BY <1>1, <1>2, <1>3

\* The queue, the sweeps and the cluster.
LEMMA OtherTypeStep ==
    ASSUME TypeOK, NEW k \in Keys,
           Pop(k) \/ TimerFires(k) \/ ExternalWake(k) \/ Sweep(k) \/ ApiChange(k)
    PROVE  TypeOK'
<1> USE DEF NoFault, env, world, memory
<1>0. /\ TableTypeOK /\ WorldType /\ MemoryType /\ TimerType
      /\ PassType /\ LoopType /\ EnvType
    BY TypeParts
<1>1. CASE Pop(k)
    <2>1. FirstStep(k, desired[k]) \in PassSteps /\ desired[k] \in Objects
        BY <1>0 DEF FirstStep, PassSteps, MemoryType
    <2>2. owned[k] \cap Claims \in SUBSET Claims /\ ClaimsOf[k] \in SUBSET Claims
        BY ClaimsAssumption
    <2>3. PassType'
        BY <1>0, <1>1, <2>1, <2>2 DEF Pop, PassType
    <2>4. TableTypeOK' /\ TimerType'
        BY <1>0, <1>1 DEF Pop, TableTypeOK, TimerType
    <2> QED BY <1>1, <2>3, <2>4 DEF Pop, TypeOK, PassType, TimerType
<1>2. CASE TimerFires(k)
    BY <1>2 DEF TimerFires, TypeOK, TableTypeOK
<1>3. CASE ExternalWake(k)
    BY <1>3, BoundsAssumption DEF ExternalWake, TypeOK, TableTypeOK
<1>4. CASE Sweep(k)
    BY <1>4 DEF Sweep, tableVars, TypeOK, TableTypeOK
<1>5. CASE ApiChange(k)
    <2>1. LoopType'
        BY <1>0, <1>5, DueType DEF ApiChange
    <2>2. api' \in [Keys -> {"absent", "live", "deleting", "gone"}]
        BY <1>0, <1>5 DEF ApiChange, Create, Delete, Vanish, WorldType
    <2>3. changes' \in 0..MaxChanges
        BY <1>0, <1>5, BoundsAssumption DEF ApiChange, EnvType
    <2> QED BY <1>5, <2>1, <2>2, <2>3
            DEF ApiChange, tableVars, TypeOK, TableTypeOK, LoopType
<1> QED BY <1>1, <1>2, <1>3, <1>4, <1>5

\* The kubelet's crash and its start.
LEMMA LifeTypeStep ==
    ASSUME TypeOK, Crash \/ Boot
    PROVE  TypeOK'
<1> USE DEF env, world
<1>0. /\ TableTypeOK /\ WorldType /\ MemoryType /\ TimerType
      /\ PassType /\ LoopType /\ EnvType
    BY TypeParts
<1>1. NoPass \in [at : PassSteps, obj : Objects, cs : SUBSET Claims]
    BY DEF NoPass, PassSteps, Objects
<1>2. CASE Crash
    <2>1. PassType' /\ LoopType'
        <3>1. PassType'
            BY <1>1, <1>2 DEF Crash, PassType
        <3>2. LoopType'
            BY <1>2, IdleLoopType DEF Crash, LoopType
        <3> QED BY <3>1, <3>2
    <2>2. TableTypeOK' /\ MemoryType' /\ TimerType'
        BY <1>2 DEF Crash, TableTypeOK, MemoryType, TimerType, Mode, Objects
    <2>3. EnvType' /\ WorldType'
        <3>1. crashes' \in 0..MaxCrashes
            BY <1>0, <1>2, BoundsAssumption DEF Crash, EnvType
        <3> QED BY <1>0, <1>2, <3>1 DEF Crash, EnvType, WorldType
    <2> QED BY <2>1, <2>2, <2>3 DEF TypeOK, TableTypeOK, MemoryType, TimerType, PassType,
                                    LoopType, EnvType, WorldType
<1>3. CASE Boot
    <2>1. LoopType'
        <3>1. \A b \in BOOLEAN : [IdleLoop EXCEPT !.due = b]
                 \in [at : LoopSteps, src : Kinds, list : [Keys -> Objects],
                     todo : SUBSET Keys, due : BOOLEAN]
            BY IdleLoopType
        <3>2. \A l \in Loops : (l = "pods" \/ HasVms) \in BOOLEAN
            BY BoundsAssumption
        <3> QED BY <1>3, <3>1, <3>2 DEF Boot, LoopType
    <2>2. TableTypeOK'
        <3>1. owned' \in [Keys -> SUBSET Resources]
            BY <1>3, NameOfAssumption DEF Boot, NamesOf, Resources
        <3> QED BY <1>0, <1>3, <3>1 DEF Boot, TableTypeOK, WorldType, Mode, Access
    <2>3. MemoryType'
        BY <1>0, <1>3 DEF Boot, MemoryType, Objects, Loops
    <2> QED BY <1>0, <1>3, <2>1, <2>2, <2>3
            DEF Boot, TypeOK, TableTypeOK, MemoryType, TimerType, PassType, LoopType,
                EnvType, WorldType
<1> QED BY <1>2, <1>3

\* The type invariant is inductive.
LEMMA WorkloadsTypeStep == TypeOK /\ [Next]_vars => TypeOK'
<1> SUFFICES ASSUME TypeOK, [Next]_vars PROVE TypeOK'
    OBVIOUS
<1>1. CASE Crash \/ Boot
    BY <1>1, LifeTypeStep
<1>2. ASSUME NEW l \in Loops, running, LoopStep(l) PROVE TypeOK'
    BY <1>2, LoopTypeStep
<1>3. ASSUME NEW k \in Keys, PassStep(k) PROVE TypeOK'
    BY <1>3, AdmissionTypeStep, WorkTypeStep, EndTypeStep DEF PassStep
<1>4. ASSUME NEW k \in Keys,
             ApiChange(k) \/ ExternalWake(k) \/ Sweep(k) \/ Pop(k) \/ TimerFires(k)
      PROVE  TypeOK'
    BY <1>4, OtherTypeStep
<1>5. CASE UNCHANGED vars
    BY <1>5 DEF vars, tableVars, world, memory, env, TypeOK, TableTypeOK
<1> QED BY <1>1, <1>2, <1>3, <1>4, <1>5 DEF Next

LEMMA WorkloadsTypeStart == Init => TypeOK
<1> SUFFICES ASSUME Init PROVE TypeOK
    OBVIOUS
<1>1. TableTypeOK
    BY DEF Init, TableInit, TableTypeOK, Mode
<1>2. PassType
    BY DEF Init, PassType, NoPass, PassSteps, Objects
<1>3. LoopType
    BY IdleLoopType DEF Init, LoopType
<1>4. EnvType
    <2>1. running = FALSE /\ crashes = 0 /\ faults = 0 /\ wakes = 0 /\ changes = 0
        BY DEF Init
    <2>2. 0 \in 0..MaxCrashes /\ 0 \in 0..MaxFaults /\ 0 \in 0..MaxWakes /\ 0 \in 0..MaxChanges
        BY BoundsAssumption
    <2> QED BY <2>1, <2>2, Zenon DEF EnvType
<1>5. WorldType /\ MemoryType /\ TimerType
    BY DEF Init, WorldType, MemoryType, TimerType, Objects
<1> QED BY <1>1, <1>2, <1>3, <1>4, <1>5, TypeParts

\* Type correctness of the executor over its table.
THEOREM WorkloadsTypeCorrect == Spec => []TypeOK
BY WorkloadsTypeStart, WorkloadsTypeStep, PTL DEF Spec

-----------------------------------------------------------------------------
(* The exclusion of names.  A workload occupies its name from the grant of  *)
(* its reservation to the end of what the runtime has of it.  While the     *)
(* kubelet runs, whoever occupies a name holds it exclusively in the table, *)
(* which is why no other grant can be made; a crash forgets the holds, but  *)
(* every pass with them, and the start takes them again for what runs.      *)

Working(k) == pass[k].at \in {"operate", "start", "launch", "status"}
Occupies(k) == k \in up \/ Working(k)
HoldsName(k) == holders[NameOf[k]][k] = "exclusive" /\ NameOf[k] \in owned[k]

\* A kubelet that is not running does nothing.
Quiet == running \/ (ready = {} /\ timer = {} /\ \A k \in Keys : pass[k].at = "idle")

NameInv ==
    /\ TypeOK
    /\ Quiet
    /\ running => \A k \in up : record[k] # "none" /\ HoldsName(k)
    /\ \A k \in Keys : Working(k) => HoldsName(k)
    /\ CleanupConfirmed
    /\ \A k, o \in Keys : k # o /\ Occupies(k) /\ Occupies(o) => NameOf[k] # NameOf[o]

\* Where the passes are after one of them moves on, or ends.
LEMMA GotoAt ==
    ASSUME PassType, NEW k \in Keys, NEW at \in PassSteps, Goto(k, at)
    PROVE  \A o \in Keys : /\ pass'[o].at = IF o = k THEN at ELSE pass[o].at
                           /\ pass'[o].cs = pass[o].cs
BY DEF PassType, Goto

LEMMA FinishAt ==
    ASSUME PassType, NEW k \in Keys, Finish(k)
    PROVE  \A o \in Keys : /\ pass'[o].at = IF o = k THEN "idle" ELSE pass[o].at
                           /\ o # k => pass'[o].cs = pass[o].cs
BY DEF PassType, Finish, NoPass

\* A step that lets nobody occupy a name anew, and takes no name from
\* anybody who still occupies it.
LEMMA NameFrame ==
    ASSUME NameInv, TypeOK', Quiet',
           running' => running,
           \A k \in Keys : Occupies(k)' => Occupies(k) /\ (HoldsName(k) => HoldsName(k)'),
           running' => \A k \in up' : record'[k] # "none",
           CleanupConfirmed'
    PROVE  NameInv'
<1>1. \A k \in Keys : running /\ Occupies(k) => HoldsName(k)
    BY DEF NameInv, Occupies
<1>2. running' => \A k \in up' : record'[k] # "none" /\ HoldsName(k)'
    <2> SUFFICES ASSUME running', NEW k \in up' PROVE record'[k] # "none" /\ HoldsName(k)'
        OBVIOUS
    <2>1. k \in Keys
        BY DEF TypeOK
    <2> QED BY <1>1, <2>1 DEF Occupies
<1>3. ASSUME NEW k \in Keys, Working(k)' PROVE HoldsName(k)'
    <2>1. running'
        BY <1>3 DEF Quiet, Working
    <2> QED BY <1>1, <1>3, <2>1 DEF Occupies
<1>4. \A k, o \in Keys : k # o /\ Occupies(k)' /\ Occupies(o)' => NameOf[k] # NameOf[o]
    BY DEF NameInv
<1> QED BY <1>2, <1>3, <1>4 DEF NameInv

\* The same for a step of the loops or the cluster: the passes stay put.
LEMMA NameIdle ==
    ASSUME NameInv, TypeOK', UNCHANGED <<pass, up, running>>,
           \A k \in Keys : HoldsName(k) => HoldsName(k)',
           \A k \in up : record[k] # "none" => record'[k] # "none",
           staged' \subseteq staged,
           running \/ UNCHANGED <<ready, timer>>
    PROVE  NameInv'
<1>1. Quiet'
    BY DEF NameInv, Quiet
<1>2. CleanupConfirmed'
    BY DEF NameInv, CleanupConfirmed
<1>3. \A k \in Keys : Occupies(k)' => Occupies(k)
    BY DEF Occupies, Working
<1> QED BY <1>1, <1>2, <1>3, NameFrame DEF NameInv

\* A record downgrades no hold.
LEMMA RecordKeepsNames ==
    ASSUME TableTypeOK, NEW k \in Keys, Record(k, Wanted(k))
    PROVE  \A o \in Keys : HoldsName(o) => HoldsName(o)'
<1>1. Wanted(k) \in Requests
    BY WantedIsRequest
<1> SUFFICES ASSUME NEW o \in Keys, HoldsName(o) PROVE HoldsName(o)'
    OBVIOUS
<1>2. NameOf[o] \in Resources
    BY NameOfAssumption DEF Resources
<1> QED BY <1>1, <1>2, RecordEffect DEF HoldsName, Merged

LEMMA NameLoopStep ==
    ASSUME NameInv, TypeOK', NEW l \in Loops, running, LoopStep(l)
    PROVE  NameInv'
<1> USE DEF NoFault, LoopOnly, env, world, memory
<1>1. CASE SeedOne(l)
    <2>1. PICK k \in loop[l].todo : Seed(k, Wanted(k))
        BY <1>1 DEF SeedOne
    <2>2. k \in Keys
        BY DEF NameInv, TypeOK
    <2>3. \A o \in Keys : HoldsName(o) => HoldsName(o)'
        BY <2>1, <2>2, RecordKeepsNames DEF Seed, NameInv, TypeOK
    <2> QED BY <1>1, <2>3, NameIdle DEF SeedOne
<1>2. CASE Cache(l)
    <2>1. \A k \in up : record[k] # "none" => record'[k] # "none"
        BY <1>2 DEF Cache, Cached, NameInv, TypeOK
    <2> QED BY <1>2, <2>1, NameIdle DEF Cache, tableVars, HoldsName
<1>3. CASE (l = "pods" /\ BeginPods) \/ (l = "vms" /\ BeginVms) \/ List(l) \/ Known(l) \/ SeedFails(l)
    BY <1>3, NameIdle DEF BeginPods, BeginVms, List, Known, SeedFails, Fault, SameButFaults,
                          tableVars, HoldsName
<1>4. CASE Mark(l) \/ Publish(l) \/ Wake(l)
    BY <1>4, NameIdle DEF Mark, Publish, Wake, tableVars, HoldsName
<1> QED BY <1>1, <1>2, <1>3, <1>4 DEF LoopStep

\* A step of one pass that ends, or moves on without coming to hold a name
\* or to an acknowledgement.
LEMMA NamePass ==
    ASSUME NameInv, TypeOK', running, running', NEW k \in Keys,
           \A o \in Keys \ {k} : pass'[o].at = pass[o].at,
           Occupies(k)' => Occupies(k),
           up' \ {k} = up \ {k},
           staged' \ {k} \subseteq staged,
           pass'[k].at \in {"ack", "release"} => k \notin up' /\ k \notin staged',
           \A o \in Keys : HoldsName(o) => (o = k /\ ~ Occupies(k)') \/ HoldsName(o)',
           \A o \in up' : o \in up /\ record[o] # "none" => record'[o] # "none",
           k \in up' \ up => record'[k] # "none"
    PROVE  NameInv'
<1>1. Quiet'
    BY DEF Quiet
<1>2. CleanupConfirmed'
    BY DEF NameInv, CleanupConfirmed
<1>3. \A o \in Keys : Occupies(o)' => Occupies(o) /\ (HoldsName(o) => HoldsName(o)')
    BY DEF Occupies, Working
<1>4. \A o \in up' : record'[o] # "none"
    BY DEF NameInv
<1> QED BY <1>1, <1>2, <1>3, <1>4, NameFrame

\* Only a running kubelet has a pass at work.
LEMMA AtWork ==
    ASSUME NameInv, NEW k \in Keys, pass[k].at # "idle"
    PROVE  running /\ PassType /\ TypeOK
BY DEF NameInv, Quiet, TypeOK, PassType

LEMMA NameAdmission ==
    ASSUME NameInv, TypeOK', NEW k \in Keys,
           Admit(k) \/ Park(k) \/ Recheck(k) \/ ReadClaims(k) \/ Report(k)
    PROVE  NameInv'
<1> USE DEF NoFault, env, world, memory
<1>1. pass[k].at \in {"admit", "park", "recheck", "claims", "report"}
    BY DEF Admit, Park, Recheck, ReadClaims, Report
<1>2. running /\ PassType
    BY <1>1, AtWork
<1>3. ~ Working(k)
    BY <1>1 DEF Working
<1>4. Finish(k) \/ \E at \in {"claims", "park", "recheck", "acquire"} : Goto(k, at)
    BY DEF Admit, Park, Recheck, Later, ReadClaims, Report, Fail
<1>5. /\ \A o \in Keys \ {k} : pass'[o].at = pass[o].at
      /\ pass'[k].at \in {"claims", "park", "recheck", "acquire", "idle"}
    <2>1. CASE Finish(k)
        BY <1>2, <2>1, FinishAt
    <2>2. ASSUME NEW at \in {"claims", "park", "recheck", "acquire"}, Goto(k, at)
          PROVE  /\ \A o \in Keys \ {k} : pass'[o].at = pass[o].at
                 /\ pass'[k].at = at
        BY <1>2, <2>2, GotoAt DEF PassSteps
    <2> QED BY <1>4, <2>1, <2>2
<1>6. UNCHANGED <<up, staged, record, running, holders, owned>>
    BY DEF Admit, Park, Recheck, Later, ReadClaims, Report, Fail, SameButFaults, tableVars
<1>7. Occupies(k)' => Occupies(k)
    BY <1>5, <1>6 DEF Occupies, Working
<1>8. \A o \in Keys : HoldsName(o) => HoldsName(o)'
    BY <1>6 DEF HoldsName
<1> QED BY <1>2, <1>5, <1>6, <1>7, <1>8, NamePass

\* The grant: nobody else holds the name, so nobody else occupies it.
LEMMA NameReserve ==
    ASSUME NameInv, TypeOK', NEW k \in Keys, Reserve(k)
    PROVE  NameInv'
<1> USE DEF NoFault, env, world, memory
<1>1. pass[k].at = "acquire" /\ running /\ PassType /\ TypeOK
    BY AtWork DEF Reserve
<1>2. UNCHANGED <<up, staged, record, running>>
    BY DEF Reserve
<1>3. CASE Granted(k, Wanted(k)) /\ Goto(k, "operate")
    <2>1. Wanted(k) \in Requests
        BY WantedIsRequest
    <2>2. NameOf[k] \in Resources
        BY NameOfAssumption DEF Resources
    <2>3. /\ NameOf[k] \in DOMAIN Requested(k, Wanted(k))
          /\ Requested(k, Wanted(k))[NameOf[k]] = "exclusive"
        BY <2>1, RequestedType DEF Requested
    <2>4. \A o \in Keys \ {k} : holders[NameOf[k]][o] = "none"
        BY <1>3, <2>3 DEF Granted, Blocked, Conflicts
    <2>5. \A o \in Keys \ {k} : Occupies(o) => NameOf[o] # NameOf[k]
        <3> SUFFICES ASSUME NEW o \in Keys \ {k}, Occupies(o), NameOf[o] = NameOf[k] PROVE FALSE
            OBVIOUS
        <3>1. HoldsName(o)
            BY <1>1 DEF NameInv, Occupies
        <3> QED BY <2>4, <3>1 DEF HoldsName
    <2>6. /\ \A o \in Keys \ {k} : pass'[o].at = pass[o].at
          /\ pass'[k].at = "operate"
        BY <1>1, <1>3, GotoAt DEF PassSteps
    <2>7. \A o \in Keys : HoldsName(o) => HoldsName(o)'
        BY <1>1, <1>3, RecordKeepsNames DEF Granted, TypeOK
    <2>8. HoldsName(k)'
        BY <1>1, <1>3, <2>1, <2>2, <2>3, RecordEffect DEF Granted, HoldsName, Merged, TypeOK
    <2>9. \A o \in Keys : Occupies(o)' => o = k \/ Occupies(o)
        BY <1>2, <2>6 DEF Occupies, Working
    <2>10. \A o \in Keys : Working(o)' => o = k \/ Working(o)
        BY <2>6 DEF Working
    <2>11. \A o, q \in Keys : o # q /\ Occupies(o)' /\ Occupies(q)' => NameOf[o] # NameOf[q]
        BY <2>5, <2>9 DEF NameInv
    <2>12. CleanupConfirmed' /\ Quiet'
        BY <1>1, <1>2, <2>6 DEF NameInv, CleanupConfirmed, Quiet
    <2>13. \A o \in up' : record'[o] # "none" /\ HoldsName(o)'
        BY <1>1, <1>2, <2>7 DEF NameInv, TypeOK
    <2> QED BY <2>7, <2>8, <2>10, <2>11, <2>12, <2>13 DEF NameInv
<1>4. CASE Refused(k, Wanted(k))
    <2>1. Goto(k, "report") \/ Finish(k)
        BY <1>1, <1>4 DEF Reserve, Granted, Refused
    <2>2. /\ \A o \in Keys \ {k} : pass'[o].at = pass[o].at
          /\ pass'[k].at \in {"report", "idle"}
        <3>1. CASE Finish(k)
            BY <1>1, <3>1, FinishAt
        <3>2. CASE Goto(k, "report")
            BY <1>1, <3>2, GotoAt DEF PassSteps
        <3> QED BY <2>1, <3>1, <3>2
    <2>3. Occupies(k)' => Occupies(k)
        BY <1>2, <2>2 DEF Occupies, Working
    <2>4. \A o \in Keys : HoldsName(o) => HoldsName(o)'
        BY <1>4 DEF Refused, HoldsName
    <2> QED BY <1>1, <1>2, <2>2, <2>3, <2>4, NamePass
<1> QED BY <1>3, <1>4 DEF Reserve

\* A pass that holds its name keeps it through the start, and a pass that is
\* stopping its workload never comes to hold it.
LEMMA NameStart ==
    ASSUME NameInv, TypeOK', NEW k \in Keys,
           Operate(k) \/ Mount(k) \/ Launch(k) \/ AlreadyUp(k) \/ StartFails(k) \/ Status(k)
    PROVE  NameInv'
<1> USE DEF NoFault, env, world, memory
<1>1. pass[k].at \in {"operate", "start", "launch", "status"}
    BY DEF Operate, Mount, Launch, AlreadyUp, StartFails, Status
<1>2. running /\ PassType /\ TypeOK
    BY <1>1, AtWork
<1>3. Occupies(k)
    BY <1>1 DEF Occupies, Working
<1>4. Finish(k) \/ \E at \in {"start", "launch", "status", "done"} : Goto(k, at)
    BY DEF Operate, TakeLocks, Mount, Launch, AlreadyUp, StartFails, Status, Fail
<1>5. /\ \A o \in Keys \ {k} : pass'[o].at = pass[o].at
      /\ pass'[k].at \in {"start", "launch", "status", "done", "idle"}
    <2>1. CASE Finish(k)
        BY <1>2, <2>1, FinishAt
    <2>2. ASSUME NEW at \in {"start", "launch", "status", "done"}, Goto(k, at)
          PROVE  /\ \A o \in Keys \ {k} : pass'[o].at = pass[o].at
                 /\ pass'[k].at = at
        BY <1>2, <2>2, GotoAt DEF PassSteps
    <2> QED BY <1>4, <2>1, <2>2
<1>6. UNCHANGED <<running, holders, owned>>
    BY DEF Operate, TakeLocks, TryOperations, Mount, Launch, AlreadyUp, StartFails, Status, Fail,
           SameButFaults, tableVars
<1>7. up' \ {k} = up \ {k} /\ staged' \ {k} \subseteq staged
    BY <1>2 DEF Operate, Mount, Launch, AlreadyUp, StartFails, Status, TypeOK
<1>8. /\ \A o \in up' : o \in up /\ record[o] # "none" => record'[o] # "none"
      /\ k \in up' \ up => record'[k] # "none"
    BY <1>2 DEF Operate, Mount, Launch, AlreadyUp, RecordOf, StartFails, Status, TypeOK
<1>9. \A o \in Keys : HoldsName(o) => HoldsName(o)'
    BY <1>6 DEF HoldsName
<1> QED BY <1>2, <1>3, <1>5, <1>6, <1>7, <1>8, <1>9, NamePass

LEMMA NameStop ==
    ASSUME NameInv, TypeOK', NEW k \in Keys,
           LockForStop(k) \/ StopRuntime(k) \/ StopFails(k) \/ Unstage(k) \/ Done(k)
    PROVE  NameInv'
<1> USE DEF NoFault, env, world, memory
<1>1. pass[k].at \in {"lock", "stop", "done"}
    BY DEF LockForStop, StopRuntime, StopFails, Unstage, Done
<1>2. running /\ PassType /\ TypeOK
    BY <1>1, AtWork
<1>3. Finish(k) \/ Goto(k, "stop") \/ UNCHANGED pass
    BY DEF LockForStop, TakeLocks, StopRuntime, StopFails, Unstage, Done, Fail
<1>4. /\ \A o \in Keys \ {k} : pass'[o].at = pass[o].at
      /\ pass'[k].at \in {"stop", "done", "lock", "idle"}
    <2>1. CASE Finish(k)
        BY <1>2, <2>1, FinishAt
    <2>2. CASE Goto(k, "stop")
        BY <1>2, <2>2, GotoAt DEF PassSteps
    <2>3. CASE UNCHANGED pass
        BY <1>1, <2>3
    <2> QED BY <1>3, <2>1, <2>2, <2>3
<1>5. UNCHANGED <<running, holders, owned>>
    BY DEF LockForStop, TakeLocks, TryOperations, StopRuntime, StopFails, Unstage, Done, Fail,
           SameButFaults, tableVars
<1>6. up' \subseteq up /\ up' \ {k} = up \ {k} /\ staged' \subseteq staged
    BY DEF LockForStop, StopRuntime, StopFails, Unstage, Done
<1>7. \A o \in up' : o \in up /\ record[o] # "none" => record'[o] # "none"
    BY <1>2, ZenonT(40) DEF LockForStop, StoppingRecord, StopRuntime, StopFails, Unstage, Done, TypeOK
<1>8. Occupies(k)' => Occupies(k)
    BY <1>4, <1>6 DEF Occupies, Working
<1>9. \A o \in Keys : HoldsName(o) => HoldsName(o)'
    BY <1>5 DEF HoldsName
<1> QED BY <1>2, <1>4, <1>5, <1>6, <1>7, <1>8, <1>9, NamePass

\* Cleanup is confirmed before the record goes.  A workload without a record
\* has nothing in the runtime.
LEMMA NameStopped ==
    ASSUME NameInv, TypeOK', NEW k \in Keys, Stopped(k) \/ Acknowledge(k)
    PROVE  NameInv'
<1> USE DEF NoFault, env, world, memory
<1>1. pass[k].at \in {"stop", "ack"}
    BY DEF Stopped, Acknowledge
<1>2. running /\ PassType /\ TypeOK
    BY <1>1, AtWork
<1>3. k \notin up /\ k \notin staged
    <2>1. CASE Stopped(k)
        BY <1>2, <2>1 DEF Stopped, CleanedUp, NameInv
    <2>2. CASE Acknowledge(k)
        BY <2>2 DEF Acknowledge, NameInv, CleanupConfirmed
    <2> QED BY <2>1, <2>2
<1>4. Finish(k) \/ \E at \in {"ack", "release"} : Goto(k, at)
    BY DEF Stopped, Acknowledge, Fail
<1>5. /\ \A o \in Keys \ {k} : pass'[o].at = pass[o].at
      /\ pass'[k].at \in {"ack", "release", "idle"}
    <2>1. CASE Finish(k)
        BY <1>2, <2>1, FinishAt
    <2>2. ASSUME NEW at \in {"ack", "release"}, Goto(k, at)
          PROVE  /\ \A o \in Keys \ {k} : pass'[o].at = pass[o].at
                 /\ pass'[k].at = at
        BY <1>2, <2>2, GotoAt DEF PassSteps
    <2> QED BY <1>4, <2>1, <2>2
<1>6. UNCHANGED <<up, staged, running, holders, owned>>
    BY DEF Stopped, Acknowledge, Fail, SameButFaults, tableVars
<1>7. \A o \in up' : o \in up /\ record[o] # "none" => record'[o] # "none"
    BY <1>2, <1>3, <1>6 DEF Stopped, Acknowledge, TypeOK
<1>8. Occupies(k)' => Occupies(k)
    BY <1>5, <1>6 DEF Occupies, Working
<1>9. \A o \in Keys : HoldsName(o) => HoldsName(o)'
    BY <1>6 DEF HoldsName
<1> QED BY <1>2, <1>3, <1>5, <1>6, <1>7, <1>8, <1>9, NamePass

\* The release takes nothing from anybody else.
LEMMA NameLetGo ==
    ASSUME NameInv, TypeOK', NEW k \in Keys, LetGo(k)
    PROVE  NameInv'
<1> USE DEF NoFault, env, world, memory
<1>1. pass[k].at = "release" /\ running /\ PassType /\ TypeOK
    BY AtWork DEF LetGo
<1>2. k \notin up /\ k \notin staged
    BY <1>1 DEF NameInv, CleanupConfirmed
<1>3. /\ \A o \in Keys \ {k} : pass'[o].at = pass[o].at
      /\ pass'[k].at = "done"
    BY <1>1, GotoAt DEF LetGo, PassSteps
<1>4. UNCHANGED <<up, staged, record, running>>
    BY DEF LetGo
<1>5. ~ Occupies(k)'
    BY <1>2, <1>3, <1>4 DEF Occupies, Working
<1>6. \A o \in Keys \ {k} : HoldsName(o) => HoldsName(o)'
    <2> SUFFICES ASSUME NEW o \in Keys \ {k}, HoldsName(o) PROVE HoldsName(o)'
        OBVIOUS
    <2>1. NameOf[o] \in Resources
        BY NameOfAssumption DEF Resources
    <2>2. holders'[NameOf[o]][o] = holders[NameOf[o]][o]
        BY <1>1, <2>1 DEF LetGo, Release, HoldersWithout, TypeOK, TableTypeOK
    <2>3. owned'[o] = owned[o]
        BY <1>1 DEF LetGo, Release, TypeOK, TableTypeOK
    <2> QED BY <2>2, <2>3 DEF HoldsName
<1> QED BY <1>1, <1>2, <1>3, <1>4, <1>5, <1>6, NamePass

\* The queue, the sweeps and the cluster.
LEMMA NameOther ==
    ASSUME NameInv, TypeOK', NEW k \in Keys,
           Pop(k) \/ TimerFires(k) \/ ExternalWake(k) \/ Sweep(k) \/ ApiChange(k)
    PROVE  NameInv'
<1> USE DEF NoFault, env, world, memory
<1>1. CASE Pop(k)
    <2>1. running /\ PassType /\ k \in ready
        BY <1>1 DEF Pop, NameInv, Quiet, TypeOK, PassType
    <2>2. FirstStep(k, desired[k]) \in {"lock", "done", "claims", "admit"}
        BY DEF FirstStep
    <2>3. /\ \A o \in Keys \ {k} : pass'[o].at = pass[o].at
          /\ pass'[k].at = FirstStep(k, desired[k])
        BY <1>1, <2>1 DEF Pop, PassType
    <2>4. UNCHANGED <<up, staged, record, running, holders, owned>>
        BY <1>1 DEF Pop
    <2>5. Occupies(k)' => Occupies(k)
        BY <2>2, <2>3, <2>4 DEF Occupies, Working
    <2>6. \A o \in Keys : HoldsName(o) => HoldsName(o)'
        BY <2>4 DEF HoldsName
    <2> QED BY <2>1, <2>2, <2>3, <2>4, <2>5, <2>6, NamePass
<1>2. CASE TimerFires(k)
    <2>1. running
        BY <1>2 DEF TimerFires, NameInv, Quiet
    <2> QED BY <1>2, <2>1, NameIdle DEF TimerFires, HoldsName
<1>3. CASE ExternalWake(k)
    BY <1>3, NameIdle DEF ExternalWake, HoldsName
<1>4. CASE Sweep(k)
    BY <1>4, NameIdle DEF Sweep, tableVars, HoldsName
<1>5. CASE ApiChange(k)
    BY <1>5, NameIdle DEF ApiChange, tableVars, HoldsName
<1> QED BY <1>1, <1>2, <1>3, <1>4, <1>5

\* A crash forgets the holds with the passes; the start takes the names of
\* what runs, which are one each.
LEMMA NameLife ==
    ASSUME NameInv, TypeOK', Crash \/ Boot
    PROVE  NameInv'
<1> USE DEF env, world
<1>1. TypeOK
    BY DEF NameInv
<1>2. CASE Crash
    <2>1. /\ \A k \in Keys : pass'[k].at = "idle"
          /\ ~ running' /\ ready' = {} /\ timer' = {} /\ up' = up
        BY <1>2 DEF Crash, NoPass
    <2>2. \A k \in Keys : ~ Working(k)' /\ (Occupies(k)' => Occupies(k))
        BY <2>1 DEF Working, Occupies
    <2>3. Quiet' /\ CleanupConfirmed'
        BY <2>1 DEF Quiet, CleanupConfirmed
    <2> QED BY <2>1, <2>2, <2>3 DEF NameInv
<1>3. CASE Boot
    <2>1. ~ running /\ running' /\ UNCHANGED <<pass, up, staged>>
        BY <1>3 DEF Boot
    <2>2. \A k \in Keys : pass[k].at = "idle"
        BY <2>1 DEF NameInv, Quiet
    <2>3. \A k \in up : record'[k] # "none" /\ HoldsName(k)'
        <3> SUFFICES ASSUME NEW k \in up PROVE record'[k] # "none" /\ HoldsName(k)'
            OBVIOUS
        <3>1. k \in Keys /\ NameOf[k] \in Resources
            BY <1>1, NameOfAssumption DEF TypeOK, Resources
        <3>2. record'[k] = "unspec" /\ owned'[k] = {NameOf[k]}
            BY <1>3, <3>1 DEF Boot, NamesOf
        <3>3. holders'[NameOf[k]][k] = "exclusive"
            BY <1>3, <3>1 DEF Boot, NamesOf
        <3> QED BY <3>2, <3>3 DEF HoldsName
    <2>4. \A k \in Keys : ~ Working(k)' /\ (Occupies(k)' => Occupies(k))
        BY <2>1, <2>2 DEF Working, Occupies
    <2>5. Quiet' /\ CleanupConfirmed'
        BY <2>1, <2>2 DEF Quiet, CleanupConfirmed
    <2> QED BY <2>1, <2>3, <2>4, <2>5 DEF NameInv
<1> QED BY <1>2, <1>3

\* The name invariant is inductive.
LEMMA NameStep == NameInv /\ [Next]_vars => NameInv'
<1> SUFFICES ASSUME NameInv, [Next]_vars PROVE NameInv'
    OBVIOUS
<1>1. TypeOK'
    BY WorkloadsTypeStep DEF NameInv
<1>2. CASE Crash \/ Boot
    BY <1>1, <1>2, NameLife
<1>3. ASSUME NEW l \in Loops, running, LoopStep(l) PROVE NameInv'
    BY <1>1, <1>3, NameLoopStep
<1>4. ASSUME NEW k \in Keys, PassStep(k) PROVE NameInv'
    BY <1>1, <1>4, NameAdmission, NameReserve, NameStart, NameStop, NameStopped, NameLetGo
       DEF PassStep
<1>5. ASSUME NEW k \in Keys,
             ApiChange(k) \/ ExternalWake(k) \/ Sweep(k) \/ Pop(k) \/ TimerFires(k)
      PROVE  NameInv'
    BY <1>1, <1>5, NameOther
<1>6. CASE UNCHANGED vars
    BY <1>1, <1>6, NameIdle DEF vars, tableVars, world, memory, env, HoldsName
<1> QED BY <1>2, <1>3, <1>4, <1>5, <1>6 DEF Next

LEMMA NameInit == Init => NameInv
<1> SUFFICES ASSUME Init PROVE NameInv
    OBVIOUS
<1>1. TypeOK
    BY WorkloadsTypeStart
<1>2. /\ \A k \in Keys : pass[k].at = "idle"
      /\ up = {} /\ ~ running /\ ready = {} /\ timer = {}
    BY DEF Init, TableInit, NoPass
<1> QED BY <1>1, <1>2 DEF NameInv, Quiet, CleanupConfirmed, Working, Occupies

\* Whatever fails or crashes, two workloads of one name never run at once.
THEOREM NameExclusionHolds == Spec => []NameExclusion
<1>1. NameInv => NameExclusion
    BY DEF NameInv, NameExclusion, Occupies, TypeOK
<1> QED BY <1>1, NameInit, NameStep, PTL DEF Spec

\* A running kubelet has a record of everything that runs, and holds its name.
THEOREM NothingForgottenHolds == Spec => []NothingForgotten
<1>1. NameInv => NothingForgotten
    BY DEF NameInv, NothingForgotten, HoldsName
<1> QED BY <1>1, NameInit, NameStep, PTL DEF Spec

\* No deletion is acknowledged, and nothing released, before its cleanup is
\* confirmed.
THEOREM CleanupConfirmedHolds == Spec => []CleanupConfirmed
<1>1. NameInv => CleanupConfirmed
    BY DEF NameInv
<1> QED BY <1>1, NameInit, NameStep, PTL DEF Spec

-----------------------------------------------------------------------------
(* The locks of claim mutations: a pass at work has the operation lock of   *)
(* each claim it has asked for.                                             *)

Mutating(k) == pass[k].at \in {"start", "launch", "status", "stop", "ack", "release"}
HasLocks(k) == \A c \in pass[k].cs : operations[c] = k
LocksInv == \A k \in Keys : Mutating(k) => HasLocks(k)

\* A step that starts no mutation and takes no lock from a mutation under way.
LEMMA LocksFrame ==
    ASSUME LocksInv,
           \A k \in Keys : Mutating(k)' => Mutating(k) /\ pass'[k].cs = pass[k].cs,
           \A k \in Keys, c \in Claims : Mutating(k)' /\ operations[c] = k => operations'[c] = k,
           TypeOK
    PROVE  LocksInv'
<1> SUFFICES ASSUME NEW k \in Keys, Mutating(k)', NEW c \in pass'[k].cs
             PROVE  operations'[c] = k
    BY DEF LocksInv, HasLocks
<1>1. c \in pass[k].cs /\ operations[c] = k
    BY DEF LocksInv, HasLocks
<1>2. c \in Claims
    BY <1>1 DEF TypeOK
<1> QED BY <1>1, <1>2

\* A pass ends: it alone gives up its locks.
LEMMA LocksFinish ==
    ASSUME LocksInv, TypeOK, NEW k \in Keys, Finish(k),
           operations' \in {operations, Unlocked(operations, k)}
    PROVE  LocksInv'
<1>1. \A o \in Keys : /\ pass'[o].at = IF o = k THEN "idle" ELSE pass[o].at
                      /\ o # k => pass'[o].cs = pass[o].cs
    BY FinishAt DEF TypeOK, PassType
<1>2. \A o \in Keys : Mutating(o)' => o # k /\ Mutating(o) /\ pass'[o].cs = pass[o].cs
    BY <1>1 DEF Mutating
<1>3. \A o \in Keys, c \in Claims : o # k /\ operations[c] = o => operations'[c] = o
    BY DEF Unlocked
<1> QED BY <1>2, <1>3, LocksFrame

\* A pass moves on without taking locks.
LEMMA LocksGoto ==
    ASSUME LocksInv, TypeOK, NEW k \in Keys, NEW at \in PassSteps, Goto(k, at),
           UNCHANGED operations,
           at \in {"start", "launch", "status", "stop", "ack", "release"} => Mutating(k)
    PROVE  LocksInv'
<1>1. \A o \in Keys : /\ pass'[o].at = IF o = k THEN at ELSE pass[o].at
                      /\ pass'[o].cs = pass[o].cs
    BY GotoAt DEF TypeOK, PassType
<1>2. \A o \in Keys : Mutating(o)' => Mutating(o)
    BY <1>1 DEF Mutating
<1> QED BY <1>1, <1>2, LocksFrame

\* A pass takes its locks: they were free, so nobody's mutation has them.
LEMMA LocksTake ==
    ASSUME LocksInv, TypeOK, NEW k \in Keys, NEW next \in PassSteps, TakeLocks(k, next)
    PROVE  LocksInv'
<1>1. CASE Finish(k) /\ UNCHANGED tableVars
    BY <1>1, LocksFinish DEF tableVars
<1>2. CASE TryOperations(k, pass[k].cs) /\ Goto(k, next)
    <2>1. \A o \in Keys : /\ pass'[o].at = IF o = k THEN next ELSE pass[o].at
                          /\ pass'[o].cs = pass[o].cs
        BY <1>2, GotoAt DEF TypeOK, PassType
    <2> SUFFICES ASSUME NEW o \in Keys, Mutating(o)', NEW c \in pass[o].cs
                 PROVE  operations'[c] = o
        BY <2>1 DEF LocksInv, HasLocks
    <2>2. c \in Claims
        BY DEF TypeOK
    <2>3. CASE o = k
        BY <1>2, <2>2, <2>3 DEF TryOperations, Locked
    <2>4. CASE o # k
        <3>1. operations[c] = o
            BY <2>1, <2>4 DEF LocksInv, HasLocks, Mutating
        <3>2. c \notin pass[k].cs
            BY <1>2, <3>1, NobodyAssumption DEF TryOperations, Free
        <3> QED BY <1>2, <2>2, <3>1, <3>2 DEF TryOperations, Locked
    <2> QED BY <2>3, <2>4
<1> QED BY <1>1, <1>2 DEF TakeLocks

LEMMA LocksPassStep ==
    ASSUME LocksInv, TypeOK, NEW k \in Keys, PassStep(k)
    PROVE  LocksInv'
<1>1. CASE Admit(k) \/ Park(k) \/ Recheck(k)
    <2>1. Finish(k) \/ \E at \in {"claims", "park", "recheck"} : Goto(k, at)
        BY <1>1 DEF Admit, Park, Recheck, Later
    <2>2. UNCHANGED operations
        BY <1>1 DEF Admit, Park, Recheck, Later, tableVars
    <2>3. CASE Finish(k)
        BY <2>2, <2>3, LocksFinish
    <2>4. ASSUME NEW at \in {"claims", "park", "recheck"}, Goto(k, at) PROVE LocksInv'
        BY <2>2, <2>4, LocksGoto DEF PassSteps
    <2> QED BY <2>1, <2>3, <2>4
<1>2. CASE ReadClaims(k) \/ Report(k)
    <2>1. \/ Finish(k) /\ operations' \in {operations, Unlocked(operations, k)}
          \/ Goto(k, "acquire") /\ UNCHANGED operations
        BY <1>2 DEF ReadClaims, Report, Fail, tableVars
    <2> QED BY <2>1, LocksFinish, LocksGoto DEF PassSteps
<1>3. CASE Reserve(k)
    <2>1. UNCHANGED operations
        BY <1>3 DEF Reserve, Granted, Refused
    <2>2. Finish(k) \/ \E at \in {"operate", "report"} : Goto(k, at)
        BY <1>3 DEF Reserve
    <2>3. ASSUME NEW at \in {"operate", "report"}, Goto(k, at) PROVE LocksInv'
        BY <2>1, <2>3, LocksGoto DEF PassSteps
    <2> QED BY <2>1, <2>2, <2>3, LocksFinish
<1>4. CASE Operate(k) \/ LockForStop(k)
    BY <1>4, LocksTake DEF Operate, LockForStop, PassSteps
<1>5. CASE Mount(k) \/ Launch(k) \/ AlreadyUp(k) \/ Status(k) \/ Stopped(k) \/ Acknowledge(k)
    <2>1. Mutating(k)
        BY <1>5 DEF Mount, Launch, AlreadyUp, Status, Stopped, Acknowledge, Mutating
    <2>2. \/ Fail(k)
          \/ /\ UNCHANGED operations
             /\ \E at \in {"launch", "status", "done", "ack", "release"} : Goto(k, at)
        BY <1>5 DEF Mount, Launch, AlreadyUp, Status, Stopped, Acknowledge, tableVars
    <2>3. CASE Fail(k)
        BY <2>3, LocksFinish DEF Fail
    <2>4. ASSUME NEW at \in {"launch", "status", "done", "ack", "release"}, Goto(k, at),
                 UNCHANGED operations
          PROVE  LocksInv'
        BY <2>1, <2>4, LocksGoto DEF PassSteps
    <2> QED BY <2>2, <2>3, <2>4
<1>6. CASE StartFails(k) \/ StopFails(k)
    BY <1>6, LocksFinish DEF StartFails, StopFails, Fail
<1>7. CASE StopRuntime(k) \/ Unstage(k)
    BY <1>7, LocksFrame DEF StopRuntime, Unstage, tableVars, Mutating
<1>8. CASE LetGo(k)
    BY <1>8, LocksGoto DEF LetGo, Release, PassSteps
<1>9. CASE Done(k)
    BY <1>9, LocksFinish DEF Done
<1> QED BY <1>1, <1>2, <1>3, <1>4, <1>5, <1>6, <1>7, <1>8, <1>9 DEF PassStep

\* No other step starts a mutation or touches a lock; a crash ends them all.
LEMMA LocksStep == TypeOK /\ LocksInv /\ [Next]_vars => LocksInv'
<1> SUFFICES ASSUME TypeOK, LocksInv, [Next]_vars PROVE LocksInv'
    OBVIOUS
<1>1. CASE Crash
    BY <1>1 DEF Crash, NoPass, LocksInv, Mutating
<1>2. CASE UNCHANGED <<pass, operations>>
    BY <1>2, LocksFrame DEF Mutating
<1>3. CASE Boot
    BY <1>2, <1>3 DEF Boot
<1>4. ASSUME NEW l \in Loops, LoopStep(l) PROVE LocksInv'
    BY <1>2, <1>4
       DEF LoopStep, BeginPods, BeginVms, List, Cache, Known, SeedOne, Seed, SeedFails, Mark,
           Publish, Wake, LoopOnly, tableVars
<1>5. ASSUME NEW k \in Keys, Pop(k) PROVE LocksInv'
    <2>1. FirstStep(k, desired[k]) \in {"lock", "done", "claims", "admit"}
        BY DEF FirstStep
    <2>2. UNCHANGED operations /\ \A o \in Keys \ {k} : pass'[o] = pass[o]
        BY <1>5 DEF Pop, TypeOK
    <2>3. ~ Mutating(k)'
        BY <1>5, <2>1 DEF Pop, Mutating, TypeOK
    <2> QED BY <2>2, <2>3, LocksFrame DEF Mutating
<1>6. ASSUME NEW k \in Keys, ApiChange(k) \/ ExternalWake(k) \/ Sweep(k) \/ TimerFires(k)
      PROVE  LocksInv'
    BY <1>2, <1>6 DEF ApiChange, ExternalWake, Sweep, TimerFires, tableVars
<1>7. CASE UNCHANGED vars
    BY <1>2, <1>7 DEF vars, tableVars
<1> QED BY <1>1, <1>3, <1>4, <1>5, <1>6, <1>7, LocksPassStep DEF Next

-----------------------------------------------------------------------------
(***************************************************************************)
(* Startup admission keeps what it is there for (Workloads.tla): a claim   *)
(* that one workload needs for itself is never used by another at once,    *)
(* across any number of kubelet crashes.                                   *)
(*                                                                         *)
(* The argument.  Whoever uses a claim while the kubelet runs either holds *)
(* it in the table, or was adopted and is still unclaimed.  No grant can   *)
(* be made against the first; and while there is one of the second, no     *)
(* pass gets past admission.  The claims of an adopted workload are seeded *)
(* before its list is marked in, unless its object was gone from the list  *)
(* already, and then it never gets a spec.                                 *)
(***************************************************************************)
\* What the claims of a workload need of the table.
HoldsClaims(k) ==
    \A c \in ClaimsOf[k] : \/ holders[c][k] = "exclusive"
                           \/ holders[c][k] = "shared" /\ Wanted(k)[c] = "shared"

\* Known to its manager, having been adopted, and its claims not in the table.
Unclaimed(k) == running /\ record[k] # "none" /\ ~ HoldsClaims(k)

\* A list holds objects of the loop's source only, and VMIs go through the
\* loop on their own.
LoopShape ==
    /\ loop["pods"].src \in {"static", "pod"} /\ loop["pods"].at # "mark"
    /\ loop["vms"].at # "idle" => loop["vms"].src = "vm"
    /\ loop["vms"].at # "publish"
    /\ loop["vms"].at = "mark" => loop["vms"].list = NoList
    /\ \A l \in Loops : loop[l].todo \subseteq Listed(l) /\ (loop[l].at = "seed" \/ loop[l].todo = {})
    /\ \A l \in Loops, k \in Keys : loop[l].list[k] # "none" => KindOf[k] = loop[l].src

\* Only what was created is ever listed, published, started or up.
Starting == {"admit", "park", "recheck", "claims", "acquire", "report",
             "operate", "start", "launch", "status"}
Seen(k) == \/ k \in up
           \/ record[k] # "none"
           \/ desired[k] # "none"
           \/ pass[k].at \in Starting
           \/ loop[LoopOf(k)].list[k] # "none"
SeenWasCreated == \A k \in Keys : Seen(k) => api[k] # "absent"

\* The list loop of k has a list, of k's kind, and k is not on it.
PassedOver(k) ==
    LET l == loop[LoopOf(k)] IN
    l.at \in {"cache", "known", "seed", "mark"} /\ l.src = KindOf[k] /\ l.list[k] = "none"

\* Its object is gone, and on no list that could bring in its claims.
Lost(k) == api[k] = "gone" /\ loop[LoopOf(k)].list[k] = "none"

\* What is true of an adopted workload as long as its claims are not seeded.
UnclaimedKept(k) ==
    LET l == loop[LoopOf(k)] IN
    /\ desired[k] \in {"none", "placeholder"}
    /\ pass[k].at = "lock" => pass[k].obj = "none"
    /\ record[k] = "spec" => l.at \in {"known", "seed"} /\ l.list[k] # "none"
    /\ l.at = "seed" /\ l.list[k] # "none" => k \in l.todo
    /\ PassedOver(k) => api[k] = "gone"
    /\ \/ l.at = "publish"
       \/ desired[k] = "none"
       \/ pass[k].at \in {"lock", "stop"}
       \/ LoopOf(k) \in synced
       => Lost(k)

\* The pass is past admission.
LetIn(k) == pass[k].at \in {"claims", "acquire", "operate", "start", "launch", "status"}

\* Two workloads that may use their claims at once.
Uses(k) == k \in up \/ Working(k)
Together(k, o) ==
    \A c \in ClaimsOf[k] \cap ClaimsOf[o] :
        Wanted(k)[c] = "shared" /\ Wanted(o)[c] = "shared"

AllUnclaimedKept == \A k \in Keys : Unclaimed(k) => UnclaimedKept(k)
AdmittedAlone == \A k, o \in Keys : LetIn(k) /\ ClaimsOf[k] # {} => ~ Unclaimed(o)
WorkersHold == \A k \in Keys : Working(k) => HoldsClaims(k)
UsersTogether == \A k, o \in Keys : k # o /\ Uses(k) /\ Uses(o) => Together(k, o)
StoppedForgotten == \A k \in Keys : pass[k].at \in {"ack", "release"} => record[k] = "none"

ClaimInv ==
    /\ LoopShape /\ SeenWasCreated /\ AllUnclaimedKept /\ AdmittedAlone /\ WorkersHold
    /\ UsersTogether /\ StoppedForgotten

\* What the theorem asks of the node: no seed of an adopted workload's claims
\* fails, and no manifest of the node names a claim.
SeedsSucceed == "seed" \notin Faults
ManifestsClaimNothing == \A k \in Keys : KindOf[k] = "static" => ClaimsOf[k] = {}

-----------------------------------------------------------------------------
(* What the table does to a workload's claims. *)

\* A seed or a grant gives its workload the claims and takes nobody's.
LEMMA RecordHolds ==
    ASSUME TableTypeOK, NEW k \in Keys, Record(k, Wanted(k))
    PROVE  /\ HoldsClaims(k)'
           /\ \A o \in Keys : HoldsClaims(o) => HoldsClaims(o)'
<1>1. Wanted(k) \in Requests
    BY WantedIsRequest
<1>2. ASSUME NEW o \in Keys, NEW c \in ClaimsOf[o]
      PROVE  /\ c \in Claims /\ c \in Resources /\ \A q \in Keys : c # NameOf[q]
             /\ holders[c][o] \in Mode
    BY ClaimsAssumption, DisjointAssumption, NameOfAssumption DEF Resources, TableTypeOK
<1>3. ASSUME NEW c \in ClaimsOf[k]
      PROVE  c \in DOMAIN Requested(k, Wanted(k)) /\ Requested(k, Wanted(k))[c] = Wanted(k)[c]
    BY <1>2 DEF Requested, Wanted
<1>4. HoldsClaims(k)'
    <2> SUFFICES ASSUME NEW c \in ClaimsOf[k]
                 PROVE  \/ holders'[c][k] = "exclusive"
                        \/ holders'[c][k] = "shared" /\ Wanted(k)[c] = "shared"
        BY DEF HoldsClaims, Wanted
    <2>1. holders'[c][k] = Merged(holders[c][k], Wanted(k)[c])
        BY <1>1, <1>2, <1>3, RecordEffect
    <2>2. Wanted(k)[c] \in {"shared", "exclusive"}
        BY DEF Wanted
    <2> QED BY <1>2, <2>1, <2>2 DEF Merged, Mode, Access
<1>5. ASSUME NEW o \in Keys, HoldsClaims(o) PROVE HoldsClaims(o)'
    <2>1. CASE o = k
        BY <1>4, <2>1
    <2>2. CASE o # k
        <3>1. \A c \in ClaimsOf[o] : holders'[c][o] = holders[c][o]
            BY <1>1, <1>2, <2>2, RecordEffect
        <3> QED BY <1>5, <3>1 DEF HoldsClaims, Wanted
    <2> QED BY <2>1, <2>2
<1> QED BY <1>4, <1>5

\* A release takes the claims of nobody else.
LEMMA ReleaseHolds ==
    ASSUME TableTypeOK, NEW k \in Keys, Release(k), NEW o \in Keys \ {k}, HoldsClaims(o)
    PROVE  HoldsClaims(o)'
<1>1. ASSUME NEW c \in ClaimsOf[o] PROVE holders'[c][o] = holders[c][o]
    <2>1. c \in Resources
        BY ClaimsAssumption DEF Resources
    <2> QED BY <2>1 DEF Release, HoldersWithout, TableTypeOK
<1> QED BY <1>1 DEF HoldsClaims, Wanted

\* A grant is made against no holder that minds.
LEMMA GrantedTogether ==
    ASSUME TableTypeOK, NEW k \in Keys, Granted(k, Wanted(k)),
           NEW o \in Keys \ {k}, HoldsClaims(o)
    PROVE  Together(k, o) /\ Together(o, k)
<1> SUFFICES ASSUME NEW c \in ClaimsOf[k] \cap ClaimsOf[o]
             PROVE  Wanted(k)[c] = "shared" /\ Wanted(o)[c] = "shared"
    BY DEF Together
<1>1. c # NameOf[k]
    BY ClaimsAssumption, DisjointAssumption, NameOfAssumption
<1>2. c \in DOMAIN Requested(k, Wanted(k)) /\ Requested(k, Wanted(k))[c] = Wanted(k)[c]
    BY <1>1 DEF Requested, Wanted
<1>3. ~ Conflicts(k, c, Wanted(k)[c])
    BY <1>2 DEF Granted, Blocked
<1>4. holders[c][o] # "none" /\ (holders[c][o] = "exclusive" \/ Wanted(o)[c] = "shared")
    BY DEF HoldsClaims
<1>5. Wanted(k)[c] \in {"shared", "exclusive"}
    BY DEF Wanted
<1> QED BY <1>3, <1>4, <1>5 DEF Conflicts

-----------------------------------------------------------------------------
(* What a step does to what the invariant speaks of. *)

\* A pass ends or moves on, one at a time, and comes to its claims only by
\* being let in and to its work only by a grant.
MovesOn(k) ==
    /\ \A o \in Keys \ {k} : pass'[o].at = pass[o].at /\ pass'[o].obj = pass[o].obj
    /\ pass'[k].at = "lock" => pass[k].at = "lock" /\ pass'[k].obj = pass[k].obj
    /\ pass'[k].at = "stop" => pass[k].at \in {"lock", "stop"}
    /\ pass'[k].at \in Starting => pass[k].at \in Starting
    /\ LetIn(k)' => LetIn(k) \/ AdmissionOpen
    /\ Working(k)' => Working(k) \/ Granted(k, Wanted(k))

LEMMA PassMoves ==
    ASSUME PassType, NEW k \in Keys, PassStep(k)
    PROVE  MovesOn(k)
<1>1. ASSUME NEW at \in PassSteps, Goto(k, at)
      PROVE  /\ \A o \in Keys \ {k} : pass'[o].at = pass[o].at /\ pass'[o].obj = pass[o].obj
             /\ pass'[k].at = at /\ pass'[k].obj = pass[k].obj
    BY <1>1 DEF Goto, PassType
<1>2. ASSUME Finish(k)
      PROVE  /\ \A o \in Keys \ {k} : pass'[o].at = pass[o].at /\ pass'[o].obj = pass[o].obj
             /\ pass'[k].at = "idle"
    BY <1>2 DEF Finish, NoPass, PassType
<1>3. CASE \/ Finish(k) \/ \E at \in {"ack", "release", "done"} : Goto(k, at)
           \/ pass[k].at = "lock" /\ Goto(k, "stop")
    BY <1>1, <1>2, <1>3 DEF MovesOn, Starting, LetIn, Working, PassSteps
<1>4. ASSUME NEW at \in {"park", "recheck", "report"}, Goto(k, at), pass[k].at \in Starting
      PROVE  MovesOn(k)
    BY <1>1, <1>4 DEF MovesOn, Starting, LetIn, Working, PassSteps
<1>5. CASE pass[k].at \in {"admit", "recheck"} /\ Goto(k, "claims") /\ AdmissionOpen
    BY <1>1, <1>5 DEF MovesOn, Starting, LetIn, Working, PassSteps
<1>6. CASE pass[k].at = "claims" /\ Goto(k, "acquire")
    BY <1>1, <1>6 DEF MovesOn, Starting, LetIn, Working, PassSteps
<1>7. CASE pass[k].at = "acquire" /\ Goto(k, "operate") /\ Granted(k, Wanted(k))
    BY <1>1, <1>7 DEF MovesOn, Starting, LetIn, Working, PassSteps
<1>8. ASSUME NEW at \in {"start", "launch", "status"}, Goto(k, at), Working(k)
      PROVE  MovesOn(k)
    BY <1>1, <1>8 DEF MovesOn, Starting, LetIn, Working, PassSteps
<1>9. CASE UNCHANGED pass
    BY <1>9 DEF MovesOn, LetIn, Working
<1>10. CASE Admit(k) \/ Park(k) \/ Recheck(k) \/ ReadClaims(k) \/ Reserve(k) \/ Report(k)
    BY <1>3, <1>4, <1>5, <1>6, <1>7, <1>10
       DEF Admit, Park, Recheck, Later, ReadClaims, Reserve, Report, Fail, Starting
<1>11. CASE Operate(k) \/ Mount(k) \/ Launch(k) \/ AlreadyUp(k) \/ StartFails(k) \/ Status(k)
    BY <1>3, <1>8, <1>11
       DEF Operate, TakeLocks, Mount, Launch, AlreadyUp, StartFails, Status, Fail, Working
<1>12. CASE LockForStop(k) \/ Stopped(k) \/ Acknowledge(k) \/ LetGo(k)
    <2>1. \/ Finish(k) \/ \E at \in {"ack", "release", "done"} : Goto(k, at)
          \/ pass[k].at = "lock" /\ Goto(k, "stop")
        BY <1>12 DEF LockForStop, TakeLocks, Stopped, Acknowledge, LetGo, Fail
    <2> QED BY <1>3, <2>1
<1>13. CASE StopRuntime(k) \/ StopFails(k) \/ Unstage(k) \/ Done(k)
    BY <1>3, <1>9, <1>13 DEF StopRuntime, StopFails, Unstage, Done, Fail
<1> QED BY <1>10, <1>11, <1>12, <1>13 DEF PassStep

\* What a pass changes of the rest: it starts only what it is working on, takes
\* an object away at most, and gives a spec to what it has started or is
\* deleting.
Touches(k) ==
    /\ up' \subseteq up \cup {k} /\ (k \in up' \ up => Working(k))
    /\ \A o \in Keys : api'[o] \in {api[o], "gone"}
    /\ \A o \in Keys : record'[o] = "spec" =>
          \/ record[o] = "spec"
          \/ o = k /\ Working(k)
          \/ o = k /\ pass[k].at = "lock" /\ pass[k].obj # "none"
    /\ \A o \in Keys : record'[o] # "none" => record[o] # "none" \/ (o = k /\ Working(k))
    /\ pass'[k].at \in {"ack", "release"} /\ pass[k].at \notin {"ack", "release"} => record'[k] = "none"
    /\ \A l \in Loops : /\ loop'[l].at = loop[l].at /\ loop'[l].src = loop[l].src
                        /\ loop'[l].list = loop[l].list /\ loop'[l].todo = loop[l].todo
    /\ UNCHANGED <<desired, synced, running>>

LEMMA PassTouches ==
    ASSUME TypeOK, NEW k \in Keys, PassStep(k)
    PROVE  Touches(k)
<1> USE DEF NoFault, env, world, memory, SameButFaults
<1>0. /\ Finish(k) => pass'[k].at = "idle"
      /\ \A at \in PassSteps : Goto(k, at) => pass'[k].at = at
    BY FinishAt, GotoAt DEF TypeOK, PassType
<1>1. CASE Admit(k) \/ Park(k) \/ Recheck(k) \/ ReadClaims(k) \/ Reserve(k) \/ Report(k)
    <2>1. Finish(k) \/ \E at \in {"park", "recheck", "claims", "acquire", "operate", "report"} : Goto(k, at)
        BY <1>1 DEF Admit, Park, Recheck, Later, ReadClaims, Reserve, Report, Fail
    <2>2. pass'[k].at \notin {"ack", "release"}
        BY <1>0, <2>1 DEF PassSteps
    <2>3. UNCHANGED <<up, api, record, desired, synced, running, loop>>
        BY <1>1 DEF Admit, Park, Recheck, Later, ReadClaims, Reserve, Report
    <2> QED BY <2>2, <2>3 DEF Touches
<1>2. CASE Operate(k) \/ Mount(k) \/ StartFails(k) \/ Status(k)
    <2>1. Finish(k) \/ \E at \in {"start", "launch", "done"} : Goto(k, at)
        BY <1>2 DEF Operate, TakeLocks, Mount, StartFails, Status, Fail
    <2>2. pass'[k].at \notin {"ack", "release"}
        BY <1>0, <2>1 DEF PassSteps
    <2>3. UNCHANGED <<up, api, record, desired, synced, running, loop>>
        BY <1>2 DEF Operate, Mount, StartFails, Status
    <2> QED BY <2>2, <2>3 DEF Touches
<1>3. CASE Launch(k) \/ AlreadyUp(k)
    <2>1. Working(k)
        BY <1>3 DEF Launch, AlreadyUp, Working
    <2>2. \A o \in Keys \ {k} : record'[o] = record[o]
        BY <1>3 DEF Launch, AlreadyUp, TypeOK
    <2>3. \A o \in Keys : record'[o] = "spec" => record[o] = "spec" \/ (o = k /\ Working(k))
        BY <2>1, <2>2
    <2>4. up' \subseteq up \cup {k} /\ UNCHANGED <<api, loop, desired, synced, running>>
        BY <1>3 DEF Launch, AlreadyUp
    <2>5. pass'[k].at = "status"
        BY <1>0, <1>3 DEF Launch, AlreadyUp, PassSteps
    <2> HIDE <1>3
    <2> QED BY <2>1, <2>2, <2>3, <2>4, <2>5 DEF Touches
<1>4. CASE StopRuntime(k) \/ StopFails(k) \/ Unstage(k) \/ LetGo(k) \/ Done(k)
    <2>1. pass'[k].at \notin {"ack", "release"} \/ pass'[k].at = pass[k].at
        BY <1>0, <1>4 DEF StopRuntime, StopFails, Unstage, LetGo, Done, Fail, PassSteps
    <2> QED BY <1>4, <2>1 DEF StopRuntime, StopFails, Unstage, LetGo, Done, Touches
<1>5. CASE LockForStop(k)
    <2>1. record'[k] = "spec" => record[k] = "spec" \/ pass[k].obj # "none"
        BY <1>5 DEF LockForStop, StoppingRecord, TypeOK
    <2>2. /\ \A o \in Keys \ {k} : record'[o] = record[o]
          /\ record'[k] # "none" => record[k] # "none"
        BY <1>5 DEF LockForStop, StoppingRecord, TypeOK
    <2>3. pass'[k].at \notin {"ack", "release"}
        BY <1>0, <1>5 DEF LockForStop, TakeLocks, PassSteps
    <2> QED BY <1>5, <2>1, <2>2, <2>3 DEF LockForStop, Touches
<1>6. CASE Stopped(k)
    BY <1>6 DEF Stopped, Touches, TypeOK
<1>7. CASE Acknowledge(k)
    <2>1. \A o \in Keys : api'[o] \in {api[o], "gone"}
        BY <1>7 DEF Acknowledge, TypeOK
    <2>2. \A l \in Loops : /\ loop'[l].at = loop[l].at /\ loop'[l].src = loop[l].src
                           /\ loop'[l].list = loop[l].list /\ loop'[l].todo = loop[l].todo
        BY <1>7 DEF Acknowledge, Due, TypeOK
    <2>3. pass[k].at = "ack"
        BY <1>7 DEF Acknowledge
    <2> QED BY <1>7, <2>1, <2>2, <2>3 DEF Acknowledge, Touches
<1> QED BY <1>1, <1>2, <1>3, <1>4, <1>5, <1>6, <1>7 DEF PassStep

\* A pass takes nobody's claims, and gives up its own only once released; a
\* grant gives it its own.
LEMMA PassHolds ==
    ASSUME TypeOK, NEW k \in Keys, PassStep(k)
    PROVE  /\ \A o \in Keys : HoldsClaims(o) =>
                 HoldsClaims(o)' \/ (o = k /\ pass[k].at = "release")
           /\ Granted(k, Wanted(k)) => HoldsClaims(k)'
<1>0. TableTypeOK
    BY DEF TypeOK
<1>1. CASE UNCHANGED holders
    <2>1. ASSUME NEW o \in Keys, HoldsClaims(o) PROVE HoldsClaims(o)'
        BY <1>1, <2>1 DEF HoldsClaims, Wanted
    <2>2. Granted(k, Wanted(k)) => HoldsClaims(k)'
        BY <1>0, RecordHolds DEF Granted
    <2> QED BY <2>1, <2>2
<1>2. CASE Reserve(k)
    BY <1>0, <1>1, <1>2, RecordHolds DEF Reserve, Granted, Refused
<1>3. CASE LetGo(k)
    <2>1. Granted(k, Wanted(k)) => HoldsClaims(k)'
        BY <1>0, RecordHolds DEF Granted
    <2> QED BY <1>0, <1>3, <2>1, ReleaseHolds DEF LetGo
<1>4. CASE Admit(k) \/ Park(k) \/ Recheck(k) \/ ReadClaims(k) \/ Report(k)
    BY <1>1, <1>4 DEF Admit, Park, Recheck, Later, ReadClaims, Report, Fail, tableVars, memory
<1>5. CASE Operate(k) \/ Mount(k) \/ Launch(k) \/ AlreadyUp(k) \/ StartFails(k) \/ Status(k)
    BY <1>1, <1>5 DEF Operate, TakeLocks, TryOperations, Mount, Launch, AlreadyUp, StartFails,
                      Status, Fail, tableVars
<1>6. CASE LockForStop(k) \/ StopRuntime(k) \/ StopFails(k) \/ Unstage(k) \/ Stopped(k)
           \/ Acknowledge(k) \/ Done(k)
    BY <1>1, <1>6 DEF LockForStop, TakeLocks, TryOperations, StopRuntime, StopFails, Unstage,
                      Stopped, Acknowledge, Done, Fail, tableVars
<1> QED BY <1>2, <1>3, <1>4, <1>5, <1>6 DEF PassStep

\* Admission opens only when nobody is left unclaimed.
LEMMA OpenMeansClaimed ==
    ASSUME NameInv, AllUnclaimedKept, AdmissionOpen, NEW o \in Keys
    PROVE  ~ Unclaimed(o)
<1> SUFFICES ASSUME Unclaimed(o) PROVE FALSE
    OBVIOUS
<1>1. record[o] # "none" /\ record[o] \in {"none", "unspec", "spec"}
    BY DEF Unclaimed, NameInv, TypeOK
<1>2. record[o] = "spec"
    BY <1>1 DEF AdmissionOpen
<1>3. LoopOf(o) \in synced
    BY DEF AdmissionOpen, LoopOf, Loops
<1> QED BY <1>2, <1>3 DEF AllUnclaimedKept, UnclaimedKept, Lost

\* A step by which nobody becomes unclaimed, nobody is let in on an adopted
\* workload, and nobody comes to use its claims but by a grant.
LEMMA ClaimFrame ==
    ASSUME NameInv, AllUnclaimedKept, AdmittedAlone, WorkersHold, UsersTogether, running,
           \A o \in Keys : Unclaimed(o)' => Unclaimed(o),
           \A o \in Keys : LetIn(o)' => LetIn(o) \/ AdmissionOpen \/ ClaimsOf[o] = {},
           \A o \in Keys : Working(o)' => HoldsClaims(o)',
           \A o \in Keys : Uses(o)' => Uses(o) \/ (Granted(o, Wanted(o)) /\ LetIn(o)'),
           \A p, o \in Keys : o # p /\ Uses(p)' /\ Uses(o)' => Uses(p) \/ Uses(o)
    PROVE  AdmittedAlone' /\ WorkersHold' /\ UsersTogether'
<1>1. AdmittedAlone'
    <2> SUFFICES ASSUME NEW k \in Keys, NEW o \in Keys, LetIn(k)', ClaimsOf[k] # {}, Unclaimed(o)'
                 PROVE  FALSE
        BY DEF AdmittedAlone
    <2> QED BY OpenMeansClaimed DEF AdmittedAlone
<1>2. WorkersHold'
    BY DEF WorkersHold
<1>3. ASSUME NEW k \in Keys, NEW o \in Keys \ {k}, Granted(k, Wanted(k)), LetIn(k)', Uses(o)
      PROVE  Together(k, o) /\ Together(o, k)
    <2>1. CASE ClaimsOf[k] = {}
        BY <2>1 DEF Together
    <2>2. CASE ClaimsOf[k] # {}
        <3>1. LetIn(k) \/ AdmissionOpen
            BY <1>3, <2>2
        <3>2. ~ Unclaimed(o)
            BY <2>2, <3>1, OpenMeansClaimed DEF AdmittedAlone
        <3>3. HoldsClaims(o)
            BY <1>3, <3>2 DEF NameInv, Uses, Unclaimed, WorkersHold
        <3> QED BY <1>3, <3>3, GrantedTogether DEF NameInv, TypeOK
    <2> QED BY <2>1, <2>2
<1>4. UsersTogether'
    <2> SUFFICES ASSUME NEW k \in Keys, NEW o \in Keys, k # o, Uses(k)', Uses(o)'
                 PROVE  Together(k, o)
        BY DEF UsersTogether, Together, Wanted
    <2>1. CASE Uses(k) /\ Uses(o)
        BY <2>1 DEF UsersTogether
    <2>2. CASE ~ Uses(k)
        BY <1>3, <2>2
    <2>3. CASE ~ Uses(o)
        BY <1>3, <2>3
    <2> QED BY <2>1, <2>2, <2>3
<1> QED BY <1>1, <1>2, <1>4

-----------------------------------------------------------------------------
(* The invariant, step by step. *)

LEMMA ClaimPassStep ==
    ASSUME NameInv, ClaimInv, NEW k \in Keys, PassStep(k)
    PROVE  ClaimInv'
<1>0. /\ LoopShape /\ SeenWasCreated /\ AllUnclaimedKept /\ AdmittedAlone /\ WorkersHold
      /\ UsersTogether /\ StoppedForgotten
    BY DEF ClaimInv
<1>1. TypeOK /\ PassType /\ MovesOn(k) /\ Touches(k)
    BY PassMoves, PassTouches DEF NameInv, TypeOK, PassType
<1>2. running /\ running'
    <2>1. pass[k].at # "idle"
        BY DEF PassStep, Admit, Park, Recheck, ReadClaims, Reserve, Report, Operate, Mount, Launch,
               AlreadyUp, StartFails, Status, LockForStop, StopRuntime, StopFails, Unstage,
               Stopped, Acknowledge, LetGo, Done
    <2> QED BY <1>1, <2>1, AtWork DEF Touches
<1>3. /\ \A o \in Keys : HoldsClaims(o) => HoldsClaims(o)' \/ (o = k /\ pass[k].at = "release")
      /\ Granted(k, Wanted(k)) => HoldsClaims(k)'
    BY <1>1, PassHolds
<1>4. \A o \in Keys : Working(o)' => Working(o) \/ (o = k /\ Granted(k, Wanted(k)))
    BY <1>1 DEF MovesOn, Working
<1>5. ASSUME NEW o \in Keys, Unclaimed(o)' PROVE Unclaimed(o)
    <2>1. record[o] # "none"
        <3> SUFFICES ASSUME record[o] = "none" PROVE FALSE
            OBVIOUS
        <3>1. o = k /\ Working(k)
            BY <1>1, <1>5 DEF Unclaimed, Touches
        <3>2. HoldsClaims(k)'
            BY <1>0, <1>3, <3>1 DEF WorkersHold, Working
        <3> QED BY <1>5, <3>1, <3>2 DEF Unclaimed
    <2>2. ~ HoldsClaims(o)
        BY <1>0, <1>3, <1>5, <2>1 DEF StoppedForgotten, Unclaimed
    <2> QED BY <1>2, <2>1, <2>2 DEF Unclaimed
<1>6. LoopShape'
    BY <1>0, <1>1 DEF LoopShape, Touches, Loops, Listed
<1>7. SeenWasCreated'
    <2>1. ASSUME NEW o \in Keys, Seen(o)' PROVE Seen(o)
        <3>1. /\ pass'[o].at \in Starting => pass[o].at \in Starting
              /\ record'[o] # "none" => record[o] # "none" \/ pass[o].at \in Starting
            BY <1>1 DEF MovesOn, Touches, Working, Starting
        <3>2. o \in up' => o \in up \/ pass[o].at \in Starting
            BY <1>1 DEF Touches, Working, Starting
        <3>3. loop'[LoopOf(o)].list = loop[LoopOf(o)].list
            BY <1>1 DEF Touches, LoopOf, Loops
        <3> QED BY <1>1, <2>1, <3>1, <3>2, <3>3 DEF Seen, Touches, LoopOf
    <2> QED BY <1>0, <1>1, <2>1 DEF SeenWasCreated, Touches
<1>8. AllUnclaimedKept'
    <2> SUFFICES ASSUME NEW o \in Keys, Unclaimed(o)' PROVE UnclaimedKept(o)'
        BY DEF AllUnclaimedKept
    <2>1. Unclaimed(o) /\ UnclaimedKept(o) /\ ~ Working(o)
        BY <1>0, <1>5 DEF AllUnclaimedKept, WorkersHold, Unclaimed
    <2>2. LoopOf(o) \in Loops
        BY DEF LoopOf, Loops
    <2>3. /\ pass'[o].at = "lock" => pass[o].at = "lock" /\ pass'[o].obj = pass[o].obj
          /\ pass'[o].at \in {"lock", "stop"} => pass[o].at \in {"lock", "stop"}
        BY <1>1 DEF MovesOn
    <2>4. record'[o] = "spec" => record[o] = "spec"
        BY <1>1, <2>1 DEF Touches, UnclaimedKept
    <2>5. Lost(o) => Lost(o)'
        BY <1>1, <2>2 DEF Lost, Touches, LoopOf
    <2> QED BY <1>1, <2>1, <2>2, <2>3, <2>4, <2>5 DEF UnclaimedKept, PassedOver, Touches, LoopOf
<1>9. \A o \in Keys : LetIn(o)' => LetIn(o) \/ AdmissionOpen
    BY <1>1 DEF MovesOn, LetIn
<1>10. \A o \in Keys : Working(o)' => HoldsClaims(o)'
    <2> SUFFICES ASSUME NEW o \in Keys, Working(o)' PROVE HoldsClaims(o)'
        OBVIOUS
    <2>1. CASE Working(o)
        BY <1>0, <1>3, <2>1 DEF WorkersHold, Working
    <2>2. CASE o = k /\ Granted(k, Wanted(k))
        BY <1>3, <2>2
    <2> QED BY <1>4, <2>1, <2>2
<1>11. \A o \in Keys : Uses(o)' => Uses(o) \/ (Granted(o, Wanted(o)) /\ LetIn(o)')
    BY <1>1, <1>4 DEF Uses, Touches, LetIn, Working
<1>12. ASSUME NEW p \in Keys, NEW o \in Keys, o # p, Uses(p)', Uses(o)' PROVE Uses(p) \/ Uses(o)
    BY <1>1, <1>4, <1>12 DEF Uses, Touches
<1>13. StoppedForgotten'
    <2> SUFFICES ASSUME NEW o \in Keys, pass'[o].at \in {"ack", "release"} PROVE record'[o] = "none"
        BY DEF StoppedForgotten
    <2>1. pass'[o].at \in {"ack", "release"} => pass[o].at \in {"ack", "release"} \/ o = k
        BY <1>1 DEF MovesOn
    <2> QED BY <1>0, <1>1, <2>1 DEF StoppedForgotten, Touches, Working
<1> QED BY <1>0, <1>2, <1>5, <1>6, <1>7, <1>8, <1>9, <1>10, <1>11, <1>12, <1>13, ClaimFrame
        DEF ClaimInv

\* A step during which the passes stay put, nothing starts or stops, and
\* nobody's claims are taken.
LEMMA ClaimIdle ==
    ASSUME AdmittedAlone, WorkersHold, UsersTogether, StoppedForgotten,
           UNCHANGED <<pass, up, running>>,
           \A o \in Keys : record'[o] # "none" => record[o] # "none",
           \A o \in Keys : HoldsClaims(o) => HoldsClaims(o)'
    PROVE  /\ AdmittedAlone' /\ WorkersHold' /\ UsersTogether' /\ StoppedForgotten'
           /\ \A o \in Keys : Unclaimed(o)' => Unclaimed(o)
<1>1. \A o \in Keys : Unclaimed(o)' => Unclaimed(o)
    BY DEF Unclaimed
<1>2. \A o \in Keys : LetIn(o)' = LetIn(o) /\ Working(o)' = Working(o) /\ Uses(o)' = Uses(o)
    BY DEF LetIn, Working, Uses
<1>3. UsersTogether'
    BY <1>2 DEF UsersTogether, Together, Wanted
<1> QED BY <1>1, <1>2, <1>3 DEF AdmittedAlone, WorkersHold, StoppedForgotten

\* What a list loop leaves alone.
LEMMA LoopRest ==
    ASSUME NameInv, LoopShape, NEW l \in Loops, LoopStep(l)
    PROVE  /\ \A m \in Loops \ {l} : loop'[m] = loop[m]
           /\ UNCHANGED <<pass, up, running, api>>
           /\ \A o \in Keys : LoopOf(o) # l => record'[o] = record[o] /\ desired'[o] = desired[o]
           /\ synced' \subseteq synced \cup {l}
           /\ \A o \in Keys : record'[o] # "none" => record[o] # "none"
           /\ \A o \in Keys : HoldsClaims(o) => HoldsClaims(o)'
<1> USE DEF NoFault, env, world, memory, SameButFaults, LoopOnly
<1>1. UNCHANGED holders => \A o \in Keys : HoldsClaims(o) => HoldsClaims(o)'
    BY DEF HoldsClaims, Wanted
<1>2. CASE SeedOne(l)
    <2>1. PICK k \in loop[l].todo : Seed(k, Wanted(k))
        BY <1>2 DEF SeedOne
    <2>2. k \in Keys /\ TableTypeOK
        BY DEF NameInv, TypeOK
    <2>3. \A o \in Keys : HoldsClaims(o) => HoldsClaims(o)'
        BY <2>1, <2>2, RecordHolds DEF Seed
    <2> QED BY <1>2, <2>3 DEF SeedOne, NameInv, TypeOK
<1>3. CASE (l = "pods" /\ BeginPods) \/ (l = "vms" /\ BeginVms)
    BY <1>1, <1>3 DEF BeginPods, BeginVms, tableVars, NameInv, TypeOK
<1>4. CASE List(l) \/ Known(l) \/ SeedFails(l)
    BY <1>1, <1>4 DEF List, Known, SeedFails, GiveUp, tableVars, NameInv, TypeOK
<1>5. CASE Cache(l)
    <2>1. \A m \in Loops \ {l} : loop'[m] = loop[m]
        BY <1>5 DEF Cache, Step, NameInv, TypeOK
    <2>2. \A o \in Keys : /\ LoopOf(o) # l => record'[o] = record[o]
                          /\ record'[o] # "none" => record[o] # "none"
        BY <1>5 DEF Cache, Cached
    <2>3. UNCHANGED <<holders, pass, up, running, api, synced, desired>>
        BY <1>5 DEF Cache, tableVars
    <2> QED BY <1>1, <2>1, <2>2, <2>3
<1>6. CASE Mark(l) \/ Wake(l)
    <2>1. \A m \in Loops \ {l} : loop'[m] = loop[m]
        BY <1>6 DEF Mark, Wake, Step, NameInv, TypeOK
    <2>2. UNCHANGED <<holders, pass, up, running, api, record, desired>>
        BY <1>6 DEF Mark, Wake, tableVars
    <2>3. synced' \subseteq synced \cup {l}
        BY <1>6 DEF Mark, Wake
    <2> QED BY <1>1, <2>1, <2>2, <2>3
<1>7. CASE Publish(l)
    <2>1. \A o \in Keys : KindOf[o] = Of(l) => LoopOf(o) = l
        BY <1>7 DEF Publish, Seeded, Of, LoopOf, LoopShape, Loops
    <2>2. \A o \in Keys : LoopOf(o) # l => record'[o] = record[o] /\ desired'[o] = desired[o]
        BY <1>7, <2>1 DEF Publish
    <2>3. \A m \in Loops \ {l} : loop'[m] = loop[m]
        BY <1>7 DEF Publish, NameInv, TypeOK
    <2> QED BY <1>1, <1>7, <2>2, <2>3 DEF Publish
<1> QED BY <1>2, <1>3, <1>4, <1>5, <1>6, <1>7 DEF LoopStep

\* So only the loop's own workloads need looking at.
LEMMA OwnLoopOnly ==
    ASSUME NameInv, ClaimInv, NEW l \in Loops, LoopStep(l),
           LoopShape', SeenWasCreated',
           \A o \in Keys : LoopOf(o) = l /\ Unclaimed(o) /\ Unclaimed(o)' => UnclaimedKept(o)'
    PROVE  ClaimInv'
<1>0. /\ LoopShape /\ AllUnclaimedKept /\ AdmittedAlone /\ WorkersHold /\ UsersTogether
      /\ StoppedForgotten
    BY DEF ClaimInv
<1>1. /\ AdmittedAlone' /\ WorkersHold' /\ UsersTogether' /\ StoppedForgotten'
      /\ \A o \in Keys : Unclaimed(o)' => Unclaimed(o)
    BY <1>0, LoopRest, ClaimIdle
<1>2. AllUnclaimedKept'
    <2> SUFFICES ASSUME NEW o \in Keys, Unclaimed(o)', LoopOf(o) # l PROVE UnclaimedKept(o)'
        BY <1>1 DEF AllUnclaimedKept
    <2>1. UnclaimedKept(o)
        BY <1>0, <1>1 DEF AllUnclaimedKept
    <2>2. LoopOf(o)' = LoopOf(o) /\ loop'[LoopOf(o)] = loop[LoopOf(o)]
        BY <1>0, LoopRest DEF LoopOf, Loops
    <2>3. UNCHANGED <<pass, api>> /\ record'[o] = record[o] /\ desired'[o] = desired[o]
        BY <1>0, LoopRest
    <2>4. LoopOf(o) \in synced' => LoopOf(o) \in synced
        BY <1>0, LoopRest
    <2> QED BY <2>1, <2>2, <2>3, <2>4 DEF UnclaimedKept, PassedOver, Lost
<1> QED BY <1>1, <1>2 DEF ClaimInv

\* A loop is done with a list, or gives it up.
LEMMA EndsEffect ==
    ASSUME TypeOK, NEW l \in Loops, SeedFails(l) \/ Wake(l) \/ (List(l) /\ GiveUp(l))
    PROVE  loop'[l].at = "idle" /\ loop'[l].list = NoList /\ loop'[l].todo = {}
<1>1. PICK d : loop' = [loop EXCEPT ![l] = [IdleLoop EXCEPT !.due = d]]
    BY DEF SeedFails, Wake, GiveUp
<1>2. loop'[l] = [IdleLoop EXCEPT !.due = d]
    BY <1>1 DEF TypeOK
<1>3. /\ [IdleLoop EXCEPT !.due = d].at = "idle" /\ [IdleLoop EXCEPT !.due = d].list = NoList
      /\ [IdleLoop EXCEPT !.due = d].todo = {}
    BY DEF IdleLoop
<1> QED BY <1>2, <1>3

\* The VMI loop begins with an empty list.
LEMMA BeginVmsEffect ==
    ASSUME TypeOK, BeginVms
    PROVE  loop'["vms"].at = "list" /\ loop'["vms"].list = NoList /\ loop'["vms"].todo = {}
<1>1. loop'["vms"] = [IdleLoop EXCEPT !.at = "list", !.src = "vm"]
    BY DEF BeginVms, TypeOK, Loops
<1>2. /\ [IdleLoop EXCEPT !.at = "list", !.src = "vm"].at = "list"
      /\ [IdleLoop EXCEPT !.at = "list", !.src = "vm"].list = NoList
      /\ [IdleLoop EXCEPT !.at = "list", !.src = "vm"].todo = {}
    BY DEF IdleLoop
<1> QED BY <1>1, <1>2

\* The Pod loop begins with the manifests, or without them.
LEMMA BeginPodsEffect ==
    ASSUME TypeOK, BeginPods
    PROVE  /\ loop'["vms"] = loop["vms"] /\ loop'["pods"].todo = {}
           /\ \/ /\ loop'["pods"].at = "cache" /\ loop'["pods"].src = "static"
                 /\ loop'["pods"].list = Snapshot("static")
              \/ /\ loop'["pods"].at = "list" /\ loop'["pods"].src = "pod"
                 /\ loop'["pods"].list = NoList
<1> DEFINE Read == [IdleLoop EXCEPT !.at = "cache", !.src = "static", !.list = Snapshot("static")]
           Unread == [IdleLoop EXCEPT !.at = "list", !.due = TRUE]
<1>1. Read.at = "cache" /\ Read.src = "static" /\ Read.list = Snapshot("static") /\ Read.todo = {}
    BY DEF IdleLoop
<1>2. Unread.at = "list" /\ Unread.src = "pod" /\ Unread.list = NoList /\ Unread.todo = {}
    BY DEF IdleLoop
<1>3. loop' \in {[loop EXCEPT !["pods"] = Read], [loop EXCEPT !["pods"] = Unread]}
    BY DEF BeginPods
<1> HIDE DEF Read, Unread
<1>4. loop'["vms"] = loop["vms"] /\ loop'["pods"] \in {Read, Unread}
    BY <1>3 DEF TypeOK, Loops
<1> QED BY <1>1, <1>2, <1>4

LEMMA EndsShape ==
    ASSUME TypeOK, LoopShape, NEW l \in Loops, SeedFails(l) \/ Wake(l) \/ (List(l) /\ GiveUp(l))
    PROVE  LoopShape'
<1>1. PICK d : loop' = [loop EXCEPT ![l] = [IdleLoop EXCEPT !.due = d]]
    BY DEF SeedFails, Wake, GiveUp
<1>2. loop'[l] = [IdleLoop EXCEPT !.due = d] /\ \A m \in Loops \ {l} : loop'[m] = loop[m]
    BY <1>1 DEF TypeOK
<1>3. [IdleLoop EXCEPT !.due = d].src = "pod"
    BY DEF IdleLoop
<1>4. loop'[l].src = "pod" /\ loop'[l].at = "idle" /\ loop'[l].list = NoList /\ loop'[l].todo = {}
    BY <1>2, <1>3, EndsEffect
<1>5. ASSUME NEW m \in Loops, NEW k \in Keys, loop'[m].list[k] # "none"
      PROVE  KindOf[k] = loop'[m].src
    <2>1. CASE m = l
        BY <1>4, <1>5, <2>1 DEF NoList
    <2>2. CASE m # l
        BY <1>2, <1>5, <2>2 DEF LoopShape
    <2> QED BY <2>1, <2>2
<1>8. ASSUME NEW m \in Loops
      PROVE  /\ \A k \in loop'[m].todo : k \in Keys /\ loop'[m].list[k] # "none"
             /\ loop'[m].at = "seed" \/ loop'[m].todo = {}
    <2>1. CASE m = l
        BY <1>4, <2>1
    <2>2. CASE m # l
        BY <1>2, <2>2 DEF LoopShape, Listed
    <2> QED BY <2>1, <2>2
<1>6. CASE l = "pods"
    BY <1>2, <1>4, <1>5, <1>6, <1>8 DEF LoopShape, Loops, Listed
<1>7. CASE l = "vms"
    BY <1>2, <1>4, <1>5, <1>7, <1>8 DEF LoopShape, Loops, Listed
<1> QED BY <1>6, <1>7 DEF Loops

\* A list loop keeps to the kinds it lists, whatever it goes through.
LEMMA ShapeStep ==
    ASSUME TypeOK, LoopShape, NEW l \in Loops, LoopStep(l)
    PROVE  LoopShape'
<1>1. CASE l = "pods" /\ BeginPods
    <2>1. /\ loop'["vms"] = loop["vms"] /\ loop'["pods"].todo = {}
          /\ \/ /\ loop'["pods"].at = "cache" /\ loop'["pods"].src = "static"
                /\ loop'["pods"].list = Snapshot("static")
             \/ /\ loop'["pods"].at = "list" /\ loop'["pods"].src = "pod"
                /\ loop'["pods"].list = NoList
        BY <1>1, BeginPodsEffect
    <2> QED BY <2>1 DEF NoList, Snapshot, LoopShape, Loops, Listed
<1>2. CASE l = "vms" /\ BeginVms
    <2>1. /\ loop'["vms"].src = "vm" /\ loop'["vms"].list = NoList
          /\ loop'["pods"] = loop["pods"]
        BY <1>2 DEF BeginVms, IdleLoop, Loops, TypeOK
    <2>2. loop'["vms"].at = "list" /\ loop'["vms"].todo = {}
        BY <1>2, BeginVmsEffect
    <2> QED BY <2>1, <2>2 DEF NoList, LoopShape, Loops, Listed
<1>3. CASE List(l)
    <2>1. CASE GiveUp(l)
        BY <1>3, <2>1, EndsShape
    <2>2. CASE loop' = [loop EXCEPT ![l].at = "cache", ![l].list = Snapshot(Of(l))]
        <3>1. /\ loop[l].at = "list" /\ loop'[l].at = "cache" /\ loop'[l].src = loop[l].src
              /\ loop'[l].list = Snapshot(loop[l].src)
              /\ loop'[l].todo = loop[l].todo /\ \A m \in Loops \ {l} : loop'[m] = loop[m]
            BY <1>3, <2>2 DEF List, Of, TypeOK
        <3>6. loop'[l].todo = {}
            BY <3>1 DEF LoopShape
        <3>2. \A m \in Loops : /\ \A k \in loop'[m].todo : k \in Keys /\ loop'[m].list[k] # "none"
                               /\ loop'[m].at = "seed" \/ loop'[m].todo = {}
            BY <3>1, <3>6 DEF LoopShape, Listed
        <3>3. \A m \in Loops, k \in Keys : loop'[m].list[k] # "none" => KindOf[k] = loop'[m].src
            BY <3>1 DEF LoopShape, Snapshot
        <3>4. CASE l = "pods"
            BY <3>1, <3>2, <3>3, <3>4 DEF LoopShape, Loops, Listed
        <3>5. CASE l = "vms"
            BY <3>1, <3>2, <3>3, <3>5 DEF LoopShape, Loops, Listed
        <3> QED BY <3>4, <3>5 DEF Loops
    <2> QED BY <1>3, <2>1, <2>2 DEF List
<1>4. CASE Cache(l) \/ Known(l) \/ SeedOne(l)
    <2>1. CASE Cache(l)
        BY <2>1 DEF Cache, Step, LoopShape, Loops, Listed, TypeOK
    <2>2. CASE Known(l)
        BY <2>2 DEF Known, Step, LoopShape, Loops, Listed, TypeOK
    <2>3. CASE SeedOne(l)
        BY <2>3 DEF SeedOne, Step, LoopShape, Loops, Listed, TypeOK
    <2> QED BY <1>4, <2>1, <2>2, <2>3
<1>5. CASE SeedFails(l)
    BY <1>5, EndsShape
<1>6. CASE Mark(l)
    BY <1>6 DEF Mark, Step, LoopShape, Loops, Listed, TypeOK
<1>7. CASE Publish(l)
    <2>1. /\ l = "pods" => Of(l) \in {"static", "pod"}
          /\ l = "vms" => Of(l) = "vm"
        BY <1>7 DEF Publish, Seeded, Of, LoopShape
    <2>2. \A m \in Loops \ {l} : loop'[m] = loop[m]
        BY <1>7 DEF Publish, TypeOK
    <2>3. /\ loop'[l].list = NoList
          /\ loop'[l].src = IF Of(l) = "static" THEN "pod" ELSE loop[l].src
          /\ loop'[l].at = IF Of(l) = "static" THEN "list" ELSE IF Of(l) = "pod" THEN "wake" ELSE "mark"
          /\ loop'[l].todo = {}
        BY <1>7 DEF Publish, Seeded, LoopShape, TypeOK
    <2> QED BY <2>1, <2>2, <2>3 DEF Of, NoList, LoopShape, Loops, Listed
<1>8. CASE Wake(l)
    BY <1>8, EndsShape
<1> QED BY <1>1, <1>2, <1>3, <1>4, <1>5, <1>6, <1>7, <1>8 DEF LoopStep

\* Nothing is listed or published that was not created.
LEMMA SeenStep ==
    ASSUME NameInv, LoopShape, SeenWasCreated, NEW l \in Loops, LoopStep(l)
    PROVE  SeenWasCreated'
<1> SUFFICES ASSUME NEW o \in Keys, Seen(o)' PROVE api[o] # "absent"
    BY LoopRest DEF SeenWasCreated
<1>0. TypeOK /\ LoopOf(o) \in Loops
    BY DEF NameInv, LoopOf, Loops
<1>1. desired'[o] # "none" => Seen(o)
    <2>1. CASE Publish(l)
        <3>1. desired'[o] = IF KindOf[o] = Of(l) THEN loop[l].list[o] ELSE desired[o]
            BY <2>1 DEF Publish
        <3>2. KindOf[o] = Of(l) => LoopOf(o) = l
            BY <2>1 DEF Publish, Seeded, Of, LoopOf, LoopShape, Loops
        <3> QED BY <3>1, <3>2 DEF Seen
    <2>2. CASE ~ Publish(l)
        <3>1. UNCHANGED desired
            BY <2>2 DEF LoopStep, BeginPods, BeginVms, List, Cache, Known, SeedOne, SeedFails, Mark,
                        Wake, LoopOnly, memory
        <3> QED BY <3>1 DEF Seen
    <2> QED BY <2>1, <2>2
<1>2. loop'[LoopOf(o)].list[o] # "none" => Seen(o) \/ Created(o)
    <2>1. CASE LoopOf(o) # l
        BY <1>0, <2>1, LoopRest DEF Seen
    <2>2. CASE LoopOf(o) = l
        <3>1. CASE l = "pods" /\ BeginPods
            BY <1>0, <2>2, <3>1, BeginPodsEffect DEF Snapshot, NoList
        <3>2. CASE (l = "vms" /\ BeginVms) \/ SeedFails(l) \/ Wake(l) \/ Publish(l)
            <4>1. loop'[l].list = NoList
                <5>1. CASE (l = "vms" /\ BeginVms) \/ SeedFails(l) \/ Wake(l)
                    BY <1>0, <5>1, EndsEffect, BeginVmsEffect
                <5>2. CASE Publish(l)
                    BY <1>0, <5>2 DEF Publish, TypeOK
                <5> QED BY <3>2, <5>1, <5>2
            <4> QED BY <2>2, <4>1 DEF NoList
        <3>3. CASE List(l)
            <4>1. loop'[l].list \in {NoList, Snapshot(Of(l))}
                <5>1. CASE GiveUp(l)
                    BY <1>0, <3>3, <5>1, EndsEffect
                <5>2. CASE loop' = [loop EXCEPT ![l].at = "cache", ![l].list = Snapshot(Of(l))]
                    BY <1>0, <5>2 DEF TypeOK
                <5> QED BY <3>3, <5>1, <5>2 DEF List
            <4> QED BY <2>2, <4>1 DEF NoList, Snapshot
        <3>4. CASE Cache(l) \/ Known(l) \/ SeedOne(l) \/ Mark(l)
            <4>1. loop'[l].list = loop[l].list
                BY <1>0, <3>4 DEF Cache, Known, SeedOne, Mark, Step, TypeOK
            <4> QED BY <2>2, <4>1 DEF Seen
        <3> QED BY <3>1, <3>2, <3>3, <3>4 DEF LoopStep
    <2> QED BY <2>1, <2>2
<1>3. UNCHANGED <<pass, up>> /\ (record'[o] # "none" => record[o] # "none")
    BY LoopRest
<1> QED BY <1>1, <1>2, <1>3 DEF Seen, SeenWasCreated, Created, LoopOf

\* The claims of an adopted workload are seeded before its list is in, or it
\* was gone from the list already.
LEMMA OwnLoop ==
    ASSUME NameInv, ClaimInv, SeedsSucceed, ManifestsClaimNothing, NEW l \in Loops, LoopStep(l),
           NEW o \in Keys, LoopOf(o) = l, Unclaimed(o), Unclaimed(o)'
    PROVE  UnclaimedKept(o)'
<1>0. /\ TypeOK /\ LoopShape /\ SeenWasCreated
      /\ UnclaimedKept(o) /\ record[o] # "none" /\ api[o] # "absent"
    BY DEF NameInv, ClaimInv, AllUnclaimedKept, Unclaimed, SeenWasCreated, Seen
<1>1. KindOf[o] # "static"
    BY DEF ManifestsClaimNothing, Unclaimed, HoldsClaims
<1>2. /\ UNCHANGED <<pass, api>> /\ LoopOf(o)' = l
      /\ \A m \in Loops \ {l} : loop'[m] = loop[m]
    BY <1>0, LoopRest DEF LoopOf
<1>3. CASE (l = "vms" /\ BeginVms) \/ SeedFails(l) \/ Wake(l) \/ (List(l) /\ GiveUp(l))
    <2>1. loop'[l].at \in {"idle", "list"} /\ loop'[l].list = NoList
        BY <1>0, <1>3, EndsEffect, BeginVmsEffect
    <2>2. record[o] # "spec"
        BY <1>0, <1>3
           DEF BeginVms, SeedFails, Fault, SeedsSucceed, Wake, List, UnclaimedKept
    <2>3. UNCHANGED <<record, desired, synced>>
        BY <1>3 DEF BeginVms, SeedFails, Wake, List, LoopOnly, memory
    <2> QED BY <1>0, <1>2, <2>1, <2>2, <2>3 DEF UnclaimedKept, PassedOver, Lost, NoList
<1>4. CASE l = "pods" /\ BeginPods
    <2>1. /\ loop'[l].at \in {"cache", "list"}
          /\ loop'[l].at = "cache" => loop'[l].src = "static"
          /\ loop'[l].list[o] = "none"
        BY <1>0, <1>1, <1>4, BeginPodsEffect DEF Snapshot, NoList
    <2>2. record[o] # "spec"
        BY <1>0, <1>4 DEF BeginPods, UnclaimedKept
    <2>3. UNCHANGED <<record, desired, synced>>
        BY <1>4 DEF BeginPods, LoopOnly, memory
    <2> QED BY <1>0, <1>1, <1>2, <2>1, <2>2, <2>3 DEF UnclaimedKept, PassedOver, Lost
<1>5. CASE List(l) /\ ~ GiveUp(l)
    <2>1. /\ loop[l].at = "list" /\ loop'[l].at = "cache" /\ loop'[l].src = loop[l].src
          /\ loop'[l].list = Snapshot(Of(l))
        BY <1>0, <1>5 DEF List, TypeOK
    <2>2. record[o] # "spec"
        BY <1>0, <2>1 DEF UnclaimedKept
    <2>3. UNCHANGED <<record, desired, synced>>
        BY <1>5 DEF List, LoopOnly, memory
    <2>4. loop'[l].src = KindOf[o] /\ loop'[l].list[o] = "none" => api[o] = "gone"
        BY <1>0, <2>1 DEF Snapshot, Of, Created, TypeOK
    <2>5. api[o] = "gone" => loop'[l].list[o] = "none"
        BY <2>1 DEF Snapshot, Created
    <2> QED BY <1>0, <1>2, <2>1, <2>2, <2>3, <2>4, <2>5 DEF UnclaimedKept, PassedOver, Lost
<1>6. CASE Cache(l)
    <2>1. /\ loop[l].at = "cache" /\ loop'[l].at = "known" /\ loop'[l].src = loop[l].src
          /\ loop'[l].list = loop[l].list
        BY <1>0, <1>6 DEF Cache, Step, TypeOK
    <2>2. record'[o] = "spec" => loop[l].list[o] # "none"
        BY <1>0, <1>6, <2>1 DEF Cache, Cached, Listed, UnclaimedKept
    <2>3. UNCHANGED <<desired, synced>>
        BY <1>6 DEF Cache
    <2> QED BY <1>0, <1>2, <2>1, <2>2, <2>3 DEF UnclaimedKept, PassedOver, Lost
<1>7. CASE Known(l)
    <2>1. /\ loop[l].at = "known" /\ loop'[l].at = "seed" /\ loop'[l].src = loop[l].src
          /\ loop'[l].list = loop[l].list
          /\ loop'[l].todo = {k \in Listed(l) : record[k] # "none"}
        BY <1>0, <1>7 DEF Known, TypeOK
    <2>2. loop[l].list[o] # "none" => o \in loop'[l].todo
        BY <1>0, <2>1 DEF Listed
    <2>3. UNCHANGED <<record, desired, synced>>
        BY <1>7 DEF Known, LoopOnly, memory
    <2> QED BY <1>0, <1>2, <2>1, <2>2, <2>3 DEF UnclaimedKept, PassedOver, Lost
<1>8. CASE SeedOne(l)
    <2>1. PICK k \in loop[l].todo :
              /\ Seed(k, Wanted(k))
              /\ loop' = [loop EXCEPT ![l].todo = @ \ {k}]
        BY <1>8 DEF SeedOne
    <2>2. o # k
        BY <1>0, <2>1, RecordHolds DEF Seed, TypeOK, Unclaimed
    <2>3. /\ loop[l].at = "seed" /\ loop'[l].at = "seed" /\ loop'[l].src = loop[l].src
          /\ loop'[l].list = loop[l].list /\ loop'[l].todo = loop[l].todo \ {k}
        BY <1>0, <1>8, <2>1 DEF SeedOne, TypeOK
    <2>4. UNCHANGED <<record, desired, synced>>
        BY <1>8 DEF SeedOne, memory
    <2> QED BY <1>0, <1>2, <2>2, <2>3, <2>4 DEF UnclaimedKept, PassedOver, Lost
<1>9. CASE Mark(l)
    <2>1. /\ loop[l].at \in {"seed", "mark"}
          /\ loop'[l].at \in {"publish", "wake"} /\ loop'[l].list = loop[l].list
          /\ UNCHANGED <<record, desired>>
        BY <1>0, <1>9 DEF Mark, Seeded, Step, TypeOK
    <2>2. loop[l].src = KindOf[o] /\ loop[l].list[o] = "none"
        <3>1. CASE l = "pods"
            <4>1. KindOf[o] = "pod" /\ loop[l].src = "pod" /\ loop[l].at = "seed" /\ loop[l].todo = {}
                BY <1>1, <1>9, <3>1, KindAssumption DEF Mark, Seeded, Of, LoopOf, Kinds
            <4> QED BY <1>0, <4>1 DEF UnclaimedKept
        <3>2. CASE l = "vms"
            <4>1. KindOf[o] = "vm" /\ loop[l].at = "mark"
                BY <1>9, <3>2 DEF Mark, LoopOf
            <4> QED BY <1>0, <3>2, <4>1 DEF LoopShape, NoList
        <3> QED BY <3>1, <3>2 DEF Loops
    <2>3. api[o] = "gone" /\ record[o] # "spec"
        BY <1>0, <2>1, <2>2 DEF UnclaimedKept, PassedOver, Lost
    <2> QED BY <1>0, <1>2, <2>1, <2>2, <2>3 DEF UnclaimedKept, PassedOver, Lost
<1>10. CASE Publish(l)
    <2>1. /\ loop'[l].at \in {"list", "wake", "mark"} /\ loop'[l].list = NoList
          /\ loop'[l].at = "mark" => loop[l].at = "seed" /\ loop[l].todo = {}
                                     /\ loop[l].src = "vm" /\ loop'[l].src = "vm"
        <3>1. loop'[l].at = "mark" => Of(l) \notin {"static", "pod"}
            <4>1. CASE Of(l) = "static"
                BY <1>0, <1>10, <4>1 DEF Publish, TypeOK
            <4>2. CASE Of(l) = "pod"
                BY <1>0, <1>10, <4>2 DEF Publish, TypeOK
            <4> QED BY <4>1, <4>2
        <3>2. loop'[l].at = "mark" => l = "vms" /\ loop[l].src = "vm" /\ loop[l].at # "publish"
            BY <1>0, <1>10, <3>1 DEF Publish, Seeded, Of, LoopShape, Loops
        <3>3. loop'[l].at = "mark" => loop'[l].src = loop[l].src
            BY <1>0, <1>10, <3>1 DEF Publish, TypeOK
        <3>4. loop'[l].at \in {"list", "wake", "mark"} /\ loop'[l].list = NoList
            <4>1. CASE Of(l) = "static"
                BY <1>0, <1>10, <4>1 DEF Publish, TypeOK
            <4>2. CASE Of(l) = "pod"
                BY <1>0, <1>10, <4>2 DEF Publish, TypeOK
            <4>3. CASE Of(l) \notin {"static", "pod"}
                BY <1>0, <1>10, <4>3 DEF Publish, TypeOK
            <4> QED BY <4>1, <4>2, <4>3
        <3> QED BY <1>10, <3>2, <3>3, <3>4 DEF Publish, Seeded
    <2>2. loop[l].list[o] = "none"
        BY <1>0, <1>10 DEF Publish, Seeded, UnclaimedKept, Lost
    <2>6. desired'[o] = "none" => api[o] = "gone"
        <3> SUFFICES ASSUME desired'[o] = "none", desired[o] # "none", api[o] # "gone" PROVE FALSE
            BY <1>0 DEF UnclaimedKept, Lost
        <3>1. KindOf[o] = Of(l)
            BY <1>10 DEF Publish
        <3>2. loop[l].at # "publish"
            BY <1>0 DEF UnclaimedKept, Lost
        <3>3. loop[l].at = "seed"
            BY <1>10, <3>2 DEF Publish, Seeded
        <3> QED BY <1>0, <2>2, <3>1, <3>3 DEF UnclaimedKept, PassedOver, Of
    <2>3. desired'[o] \in {"none", "placeholder"} /\ UNCHANGED <<record, synced>>
        BY <1>0, <1>10, <2>2 DEF Publish, UnclaimedKept
    <2>4. record[o] # "spec"
        BY <1>0, <2>2 DEF UnclaimedKept
    <2>5. loop'[l].at = "mark" /\ KindOf[o] = "vm" => api[o] = "gone"
        BY <1>0, <2>1, <2>2 DEF UnclaimedKept, PassedOver, Lost
    <2>7. pass'[o].at \in {"lock", "stop"} \/ l \in synced' => api[o] = "gone"
        BY <1>0, <1>2, <2>3 DEF UnclaimedKept, Lost
    <2>8. loop'[l].list[o] = "none"
        BY <2>1 DEF NoList
    <2>9. LoopOf(o) = l /\ record'[o] # "spec" /\ loop'[l].at \notin {"cache", "known", "seed", "publish"}
        BY <2>1, <2>3, <2>4
    <2>10. pass'[o].at = "lock" => pass'[o].obj = "none"
        BY <1>0, <1>2 DEF UnclaimedKept
    <2>11. PassedOver(o)' => api'[o] = "gone"
        BY <1>0, <1>2, <2>1, <2>2, <2>5 DEF PassedOver, UnclaimedKept
    <2> QED BY <1>2, <2>3, <2>6, <2>7, <2>8, <2>9, <2>10, <2>11 DEF UnclaimedKept, Lost
<1> QED BY <1>3, <1>4, <1>5, <1>6, <1>7, <1>8, <1>9, <1>10 DEF LoopStep

LEMMA ClaimLoopStep ==
    ASSUME NameInv, ClaimInv, SeedsSucceed, ManifestsClaimNothing, NEW l \in Loops, LoopStep(l)
    PROVE  ClaimInv'
<1>1. LoopShape' /\ SeenWasCreated'
    BY ShapeStep, SeenStep DEF ClaimInv, NameInv
<1> QED BY <1>1, OwnLoop, OwnLoopOnly

\* A key is taken off the queue: only a manifest without claims is let in
\* unasked.
LEMMA ClaimPop ==
    ASSUME NameInv, ClaimInv, NEW k \in Keys, Pop(k)
    PROVE  ClaimInv'
<1>0. /\ LoopShape /\ SeenWasCreated /\ AllUnclaimedKept /\ AdmittedAlone /\ WorkersHold
      /\ UsersTogether /\ StoppedForgotten /\ PassType
    BY DEF ClaimInv, NameInv, TypeOK, PassType
<1>1. running /\ UNCHANGED <<running, up, holders, api, record, desired, synced, loop>>
    BY DEF Pop, NoFault, env, world, memory, NameInv, Quiet
<1>2. /\ \A o \in Keys \ {k} : pass'[o] = pass[o]
      /\ pass'[k].at = FirstStep(k, desired[k]) /\ pass'[k].obj = desired[k]
    BY <1>0 DEF Pop, PassType
<1>3. /\ FirstStep(k, desired[k]) \in {"lock", "done", "claims", "admit"}
      /\ FirstStep(k, desired[k]) \in {"claims", "admit"} => desired[k] \notin {"none", "deleting"}
      /\ FirstStep(k, desired[k]) = "lock" => desired[k] \in {"none", "deleting"}
      /\ FirstStep(k, desired[k]) = "claims" => ClaimsOf[k] = {}
    BY DEF FirstStep, Bypasses
<1>4. \A o \in Keys : HoldsClaims(o)' = HoldsClaims(o) /\ Unclaimed(o)' = Unclaimed(o)
    BY <1>1 DEF HoldsClaims, Unclaimed, Wanted
<1>5. /\ \A o \in Keys : Working(o)' => Working(o)
      /\ \A o \in Keys : Uses(o)' => Uses(o)
      /\ \A o \in Keys : LetIn(o)' => LetIn(o) \/ ClaimsOf[o] = {}
    BY <1>1, <1>2, <1>3 DEF Working, Uses, LetIn
<1>6. AdmittedAlone' /\ WorkersHold' /\ UsersTogether'
    BY <1>0, <1>1, <1>4, <1>5, ClaimFrame DEF WorkersHold
<1>9. StoppedForgotten'
    BY <1>0, <1>1, <1>2, <1>3 DEF StoppedForgotten
<1>7. SeenWasCreated'
    <2>1. \A o \in Keys : Seen(o)' => Seen(o)
        BY <1>1, <1>2, <1>3 DEF Seen, Starting, LoopOf
    <2> QED BY <1>0, <1>1, <2>1 DEF SeenWasCreated
<1>8. AllUnclaimedKept'
    <2> SUFFICES ASSUME NEW o \in Keys, Unclaimed(o), UnclaimedKept(o) PROVE UnclaimedKept(o)'
        BY <1>0, <1>4 DEF AllUnclaimedKept
    <2>1. pass'[o].at = "lock" => pass'[o].obj = "none"
        BY <1>2, <1>3 DEF UnclaimedKept
    <2>2. pass'[o].at \in {"lock", "stop"} => pass[o].at \in {"lock", "stop"} \/ desired[o] = "none"
        BY <1>2, <1>3 DEF UnclaimedKept
    <2> QED BY <1>1, <2>1, <2>2 DEF UnclaimedKept, PassedOver, Lost, LoopOf
<1> QED BY <1>0, <1>1, <1>6, <1>7, <1>8, <1>9 DEF ClaimInv, LoopShape, Listed

\* The cluster: an object that went does not come back, but for a manifest.
LEMMA ClaimApi ==
    ASSUME NameInv, ClaimInv, ManifestsClaimNothing, NEW k \in Keys, ApiChange(k)
    PROVE  ClaimInv'
<1>0. /\ LoopShape /\ SeenWasCreated /\ AllUnclaimedKept /\ AdmittedAlone /\ WorkersHold
      /\ UsersTogether /\ StoppedForgotten /\ TypeOK
    BY DEF ClaimInv, NameInv
<1>1. UNCHANGED <<running, up, pass, holders, record, desired, synced>>
    BY DEF ApiChange, tableVars, memory
<1>2. \A l \in Loops : /\ loop'[l].at = loop[l].at /\ loop'[l].src = loop[l].src
                       /\ loop'[l].list = loop[l].list /\ loop'[l].todo = loop[l].todo
    BY <1>0 DEF ApiChange, Due, TypeOK
<1>3. /\ \A o \in Keys : api[o] # "absent" => api'[o] # "absent"
      /\ \A o \in Keys : api[o] = "gone" /\ api'[o] # "gone" => KindOf[o] = "static"
    <2>1. CASE Create(k)
        BY <1>0, <2>1 DEF Create, TypeOK
    <2>2. CASE Delete(k) \/ Vanish(k)
        BY <1>0, <2>2 DEF Delete, Vanish, Created, TypeOK
    <2> QED BY <2>1, <2>2 DEF ApiChange
<1>4. \A o \in Keys : HoldsClaims(o) => HoldsClaims(o)'
    BY <1>1 DEF HoldsClaims, Wanted
<1>5. /\ AdmittedAlone' /\ WorkersHold' /\ UsersTogether' /\ StoppedForgotten'
      /\ \A o \in Keys : Unclaimed(o)' => Unclaimed(o)
    BY <1>0, <1>1, <1>4, ClaimIdle
<1>6. LoopShape'
    BY <1>0, <1>2 DEF LoopShape, Loops, Listed
<1>7. \A o \in Keys : LoopOf(o) \in Loops /\ LoopOf(o)' = LoopOf(o)
    BY DEF LoopOf, Loops
<1>8. SeenWasCreated'
    <2>1. \A o \in Keys : Seen(o)' => Seen(o)
        BY <1>1, <1>2, <1>7 DEF Seen
    <2> QED BY <1>0, <1>3, <2>1 DEF SeenWasCreated
<1>9. AllUnclaimedKept'
    <2> SUFFICES ASSUME NEW o \in Keys, Unclaimed(o), UnclaimedKept(o) PROVE UnclaimedKept(o)'
        BY <1>0, <1>5 DEF AllUnclaimedKept
    <2>1. api[o] = "gone" => api'[o] = "gone"
        BY <1>3 DEF ManifestsClaimNothing, Unclaimed, HoldsClaims
    <2>2. LoopOf(o) \in Loops
        BY <1>7
    <2>3. /\ loop'[LoopOf(o)].at = loop[LoopOf(o)].at /\ loop'[LoopOf(o)].src = loop[LoopOf(o)].src
          /\ loop'[LoopOf(o)].list = loop[LoopOf(o)].list /\ loop'[LoopOf(o)].todo = loop[LoopOf(o)].todo
        BY <1>2, <2>2
    <2> QED BY <1>1, <1>7, <2>1, <2>3 DEF UnclaimedKept, PassedOver, Lost
<1> QED BY <1>5, <1>6, <1>8, <1>9 DEF ClaimInv

\* Nothing the invariant speaks of changes.
LEMMA ClaimSame ==
    ASSUME ClaimInv, UNCHANGED <<running, up, pass, holders, api, record, desired, synced, loop>>
    PROVE  ClaimInv'
<1>1. \A o \in Keys : HoldsClaims(o)' = HoldsClaims(o) /\ Unclaimed(o)' = Unclaimed(o)
    BY DEF HoldsClaims, Unclaimed, Wanted
<1>2. AdmittedAlone' /\ WorkersHold' /\ UsersTogether' /\ StoppedForgotten'
    BY <1>1, ClaimIdle DEF ClaimInv
<1>3. LoopShape' /\ SeenWasCreated'
    BY DEF ClaimInv, LoopShape, Listed, SeenWasCreated, Seen, LoopOf
<1>4. AllUnclaimedKept'
    BY <1>1 DEF ClaimInv, AllUnclaimedKept, UnclaimedKept, PassedOver, Lost, LoopOf
<1> QED BY <1>2, <1>3, <1>4 DEF ClaimInv

\* A crash leaves nobody at work and nothing in memory.
LEMMA ClaimCrash ==
    ASSUME NameInv, ClaimInv, Crash
    PROVE  ClaimInv'
<1>1. /\ ~ running' /\ UNCHANGED <<up, api>>
      /\ \A k \in Keys : pass'[k] = NoPass /\ desired'[k] = "none" /\ record'[k] = "none"
      /\ \A l \in Loops : loop'[l] = IdleLoop
    BY DEF Crash, world
<1>2. \A k \in Keys : ~ Unclaimed(k)' /\ ~ LetIn(k)' /\ ~ Working(k)' /\ (Uses(k)' => Uses(k))
    BY <1>1 DEF Unclaimed, LetIn, Working, Uses, NoPass
<1>3. AllUnclaimedKept' /\ AdmittedAlone' /\ WorkersHold' /\ StoppedForgotten'
    BY <1>1, <1>2 DEF AllUnclaimedKept, AdmittedAlone, WorkersHold, StoppedForgotten
<1>4. UsersTogether'
    BY <1>2 DEF ClaimInv, UsersTogether, Together, Wanted
<1>5. LoopShape'
    BY <1>1 DEF LoopShape, IdleLoop, NoList, Loops, Listed
<1>6. SeenWasCreated'
    <2>1. \A k \in Keys : LoopOf(k) \in Loops
        BY DEF LoopOf, Loops
    <2>2. \A k \in Keys : Seen(k)' => Seen(k)
        BY <1>1, <2>1 DEF Seen, IdleLoop, NoList, NoPass, Starting, LoopOf
    <2> QED BY <1>1, <2>2 DEF ClaimInv, SeenWasCreated
<1> QED BY <1>3, <1>4, <1>5, <1>6 DEF ClaimInv

\* A start: what runs is adopted without a spec and without its claims.
LEMMA ClaimBoot ==
    ASSUME NameInv, ClaimInv, Boot
    PROVE  ClaimInv'
<1>1. /\ UNCHANGED <<up, api, pass>> /\ TypeOK
      /\ \A k \in Keys : pass[k].at = "idle"
      /\ \A k \in Keys : /\ record'[k] = IF k \in up THEN "unspec" ELSE "none"
                         /\ desired'[k] = IF k \in up THEN "placeholder" ELSE "none"
      /\ synced' = IF HasVms THEN {} ELSE {"vms"}
    BY DEF Boot, world, NameInv, Quiet
<1>2. ASSUME NEW l \in Loops
      PROVE  loop'[l].at = "idle" /\ loop'[l].src = "pod" /\ loop'[l].list = NoList /\ loop'[l].todo = {}
    <2>1. loop'[l] = [IdleLoop EXCEPT !.due = (l = "pods" \/ HasVms)]
        BY DEF Boot
    <2> QED BY <2>1 DEF IdleLoop
<1>3. \A k \in Keys : LoopOf(k) \in Loops /\ LoopOf(k)' = LoopOf(k) /\ LoopOf(k) \notin synced'
    BY <1>1, VmsAssumption DEF LoopOf, Loops
<1>4. \A k \in Keys : ~ LetIn(k)' /\ ~ Working(k)' /\ (Uses(k)' => Uses(k))
    BY <1>1 DEF LetIn, Working, Uses
<1>5. AdmittedAlone' /\ WorkersHold' /\ StoppedForgotten'
    BY <1>1, <1>4 DEF AdmittedAlone, WorkersHold, StoppedForgotten
<1>6. UsersTogether'
    BY <1>4 DEF ClaimInv, UsersTogether, Together, Wanted
<1>7. LoopShape'
    BY <1>2 DEF LoopShape, NoList, Loops, Listed
<1>8. SeenWasCreated'
    <2>1. \A k \in Keys : Seen(k)' => Seen(k)
        BY <1>1, <1>2, <1>3 DEF Seen, NoList, Starting
    <2> QED BY <1>1, <2>1 DEF ClaimInv, SeenWasCreated
<1>9. AllUnclaimedKept'
    <2> SUFFICES ASSUME NEW k \in Keys, k \in up PROVE UnclaimedKept(k)'
        BY <1>1 DEF AllUnclaimedKept, Unclaimed
    <2>1. loop'[LoopOf(k)].at = "idle" /\ LoopOf(k)' = LoopOf(k) /\ LoopOf(k) \notin synced'
        BY <1>2, <1>3
    <2> QED BY <1>1, <2>1 DEF UnclaimedKept, PassedOver
<1> QED BY <1>5, <1>6, <1>7, <1>8, <1>9 DEF ClaimInv

\* The invariant is inductive, on a node whose seeds succeed and whose
\* manifests claim nothing.
LEMMA ClaimStep ==
    ASSUME SeedsSucceed, ManifestsClaimNothing, NameInv, ClaimInv, [Next]_vars
    PROVE  ClaimInv'
<1>1. CASE Crash \/ Boot
    BY <1>1, ClaimCrash, ClaimBoot
<1>2. ASSUME NEW l \in Loops, LoopStep(l) PROVE ClaimInv'
    BY <1>2, ClaimLoopStep
<1>3. ASSUME NEW k \in Keys, PassStep(k) PROVE ClaimInv'
    BY <1>3, ClaimPassStep
<1>4. ASSUME NEW k \in Keys, Pop(k) \/ ApiChange(k) PROVE ClaimInv'
    BY <1>4, ClaimPop, ClaimApi
<1>5. ASSUME NEW k \in Keys, TimerFires(k) \/ ExternalWake(k) \/ Sweep(k) PROVE ClaimInv'
    BY <1>5, ClaimSame DEF TimerFires, ExternalWake, Sweep, NoFault, env, world, memory, tableVars
<1>6. CASE UNCHANGED vars
    BY <1>6, ClaimSame DEF vars, env, world, memory, tableVars
<1> QED BY <1>1, <1>2, <1>3, <1>4, <1>5, <1>6 DEF Next

LEMMA ClaimInit == Init => ClaimInv
<1> SUFFICES ASSUME Init PROVE ClaimInv
    OBVIOUS
<1>1. /\ up = {} /\ ~ running
      /\ \A k \in Keys : /\ pass[k].at = "idle" /\ desired[k] = "none" /\ api[k] = "absent"
                         /\ record[k] = "none"
      /\ \A l \in Loops : loop[l] = IdleLoop
    BY DEF Init, NoPass
<1>2. \A k \in Keys : LoopOf(k) \in Loops /\ ~ Unclaimed(k) /\ ~ LetIn(k) /\ ~ Working(k) /\ ~ Uses(k)
    BY <1>1 DEF Unclaimed, LetIn, Working, Uses, LoopOf, Loops
<1>3. LoopShape
    BY <1>1 DEF LoopShape, IdleLoop, NoList, Loops, Listed
<1>4. SeenWasCreated
    BY <1>1, <1>2 DEF SeenWasCreated, Seen, IdleLoop, NoList, Starting
<1> QED BY <1>1, <1>2, <1>3, <1>4
        DEF ClaimInv, AllUnclaimedKept, AdmittedAlone, WorkersHold, UsersTogether, StoppedForgotten

-----------------------------------------------------------------------------
\* A claim one workload needs for itself is never used by another at once,
\* across kubelet crashes, failures, forced deletions and any interleaving of
\* the passes with the list loops (Kubelet::admission_open, seed_claims,
\* Reservations::acquire), as long as no seed fails and no manifest of the
\* node names a claim.  Without the one or the other it does not hold.
THEOREM ClaimExclusionHolds ==
    ASSUME SeedsSucceed, ManifestsClaimNothing
    PROVE  Spec => []ClaimExclusion
<1>1. ClaimInv /\ NameInv /\ [Next]_vars => ClaimInv'
    BY ClaimStep
<1>2. NameInv /\ ClaimInv => ClaimExclusion
    BY DEF NameInv, TypeOK, ClaimInv, UsersTogether, Uses, Together, ClaimExclusion
<1> QED BY <1>1, <1>2, ClaimInit, NameInit, NameStep, PTL DEF Spec

-----------------------------------------------------------------------------
(***************************************************************************)
(* One mutation of a claim at a time.  A start has asked for all its claims *)
(* and has the lock of each.  A stop has asked for what its key owned when  *)
(* the pass began, all its claims or none; none, and a record: then they    *)
(* were not seeded and will not be, and admission lets no start in.         *)
(***************************************************************************)
\* The table's own list of what a key has: all its claims or none, and none
\* only if it holds none.
OwnsAllOrNone ==
    \A k \in Keys : /\ owned[k] \cap Claims = {} \/ ClaimsOf[k] \subseteq owned[k]
                    /\ \A c \in ClaimsOf[k] : holders[c][k] # "none" => c \in owned[k]

\* What a pass locks, or will.
AsksAllOrNone ==
    \A k \in Keys :
        /\ pass[k].at \in Starting => pass[k].cs = ClaimsOf[k]
        /\ pass[k].at \in {"lock", "stop"} =>
              /\ pass[k].cs = {} \/ ClaimsOf[k] \subseteq pass[k].cs
              /\ record[k] # "none" /\ HoldsClaims(k) => ClaimsOf[k] \subseteq pass[k].cs

MutationInv == OwnsAllOrNone /\ AsksAllOrNone /\ LocksInv

\* A record of k brings in all its claims, and nothing of anybody else.
LEMMA OwnsRecord ==
    ASSUME TableTypeOK, OwnsAllOrNone, NEW k \in Keys, Record(k, Wanted(k))
    PROVE  /\ OwnsAllOrNone'
           /\ \A o \in Keys \ {k} : HoldsClaims(o)' => HoldsClaims(o)
<1>1. Wanted(k) \in Requests /\ Claims \subseteq Resources /\ ClaimsOf[k] \subseteq DOMAIN Requested(k, Wanted(k))
    BY WantedIsRequest DEF Resources, Requested, Wanted
<1>2. ASSUME NEW o \in Keys \ {k}, NEW c \in Claims
      PROVE  (c \in owned'[o] <=> c \in owned[o]) /\ holders'[c][o] = holders[c][o]
    BY <1>1, RecordEffect
<1>3. \A c \in ClaimsOf[k] : c \in owned'[k]
    <2> SUFFICES ASSUME NEW c \in ClaimsOf[k] PROVE c \in owned'[k]
        OBVIOUS
    <2>1. c \in Resources
        BY <1>1, ClaimsAssumption
    <2> QED BY <1>1, <2>1, RecordEffect
<1>4. ASSUME NEW o \in Keys \ {k}
      PROVE  /\ owned'[o] \cap Claims = {} \/ ClaimsOf[o] \subseteq owned'[o]
             /\ \A c \in ClaimsOf[o] : holders'[c][o] # "none" => c \in owned'[o]
             /\ HoldsClaims(o)' => HoldsClaims(o)
    <2>1. ClaimsOf[o] \subseteq Claims
        BY ClaimsAssumption
    <2>2. owned[o] \cap Claims = {} \/ ClaimsOf[o] \subseteq owned[o]
        BY DEF OwnsAllOrNone
    <2>3. HoldsClaims(o)' => HoldsClaims(o)
        BY <1>2, <2>1 DEF HoldsClaims, Wanted
    <2>4. owned'[o] \cap Claims = {} \/ ClaimsOf[o] \subseteq owned'[o]
        BY <1>2, <2>1, <2>2
    <2>5. \A c \in ClaimsOf[o] : holders'[c][o] # "none" => c \in owned'[o]
        BY <1>2, <2>1 DEF OwnsAllOrNone
    <2> QED BY <2>3, <2>4, <2>5
<1> QED BY <1>3, <1>4 DEF OwnsAllOrNone

\* A release leaves nothing, and takes nothing of anybody else.
LEMMA OwnsRelease ==
    ASSUME TableTypeOK, OwnsAllOrNone, NEW k \in Keys, Release(k)
    PROVE  /\ OwnsAllOrNone'
           /\ \A o \in Keys \ {k} : HoldsClaims(o)' => HoldsClaims(o)
<1>1. /\ owned'[k] = {} /\ \A o \in Keys \ {k} : owned'[o] = owned[o]
    BY DEF Release, TableTypeOK
<1>2. ASSUME NEW o \in Keys, NEW c \in Claims
      PROVE  /\ o # k => holders'[c][o] = holders[c][o]
             /\ o = k => holders'[c][o] = IF c \in owned[k] THEN "none" ELSE holders[c][o]
    <2>1. c \in Resources /\ holders[c] \in [Keys -> Mode]
        BY DEF Resources, TableTypeOK
    <2> QED BY <2>1 DEF Release, HoldersWithout
<1>3. \A o \in Keys : ClaimsOf[o] \subseteq Claims
    BY ClaimsAssumption
<1>4. \A o \in Keys \ {k} : HoldsClaims(o)' => HoldsClaims(o)
    BY <1>2, <1>3 DEF HoldsClaims, Wanted
<1>5. ASSUME NEW o \in Keys, NEW c \in ClaimsOf[o], holders'[c][o] # "none" PROVE c \in owned'[o]
    BY <1>1, <1>2, <1>3, <1>5 DEF OwnsAllOrNone
<1> QED BY <1>1, <1>4, <1>5 DEF OwnsAllOrNone

\* What a pass does to the table's list and to what it asks for.
LEMMA MutationPass ==
    ASSUME TypeOK, OwnsAllOrNone, NEW k \in Keys, PassStep(k)
    PROVE  /\ OwnsAllOrNone'
           /\ \A o \in Keys : HoldsClaims(o)' => HoldsClaims(o) \/ (o = k /\ pass[k].at = "acquire")
           /\ \A o \in Keys : pass'[o].at # "idle" => pass'[o].cs = pass[o].cs
<1>0. TableTypeOK /\ PassType
    BY DEF TypeOK, PassType
<1>1. ASSUME UNCHANGED <<holders, owned>>
      PROVE  OwnsAllOrNone' /\ \A o \in Keys : HoldsClaims(o)' => HoldsClaims(o)
    BY <1>1 DEF OwnsAllOrNone, HoldsClaims, Wanted
<1>2. /\ Finish(k) => \A o \in Keys : pass'[o].at # "idle" => pass'[o].cs = pass[o].cs
      /\ \A at \in PassSteps : Goto(k, at) => \A o \in Keys : pass'[o].cs = pass[o].cs
    BY <1>0, FinishAt, GotoAt
<1>3. CASE Reserve(k)
    <2>1. Finish(k) \/ \E at \in {"operate", "report"} : Goto(k, at)
        BY <1>3 DEF Reserve
    <2>2. CASE Granted(k, Wanted(k))
        BY <1>0, <1>2, <1>3, <2>1, <2>2, OwnsRecord DEF Granted, Reserve, PassSteps
    <2>3. CASE Refused(k, Wanted(k))
        BY <1>1, <1>2, <2>1, <2>3 DEF Refused, PassSteps
    <2> QED BY <1>3, <2>2, <2>3 DEF Reserve
<1>4. CASE LetGo(k)
    <2>1. \A c \in ClaimsOf[k] : holders'[c][k] # "none" => holders'[c][k] = holders[c][k]
        <3> SUFFICES ASSUME NEW c \in ClaimsOf[k] PROVE holders'[c][k] \in {"none", holders[c][k]}
            OBVIOUS
        <3>1. c \in Resources /\ holders[c] \in [Keys -> Mode]
            BY <1>0, ClaimsAssumption DEF Resources, TableTypeOK
        <3> QED BY <1>4, <3>1 DEF LetGo, Release, HoldersWithout
    <2>2. HoldsClaims(k)' => HoldsClaims(k)
        BY <2>1 DEF HoldsClaims, Wanted
    <2> QED BY <1>0, <1>2, <1>4, <2>2, OwnsRelease DEF LetGo, PassSteps
<1>5. CASE Admit(k) \/ Park(k) \/ Recheck(k) \/ ReadClaims(k) \/ Report(k)
    <2>1. Finish(k) \/ \E at \in {"claims", "park", "recheck", "acquire"} : Goto(k, at)
        BY <1>5 DEF Admit, Park, Recheck, Later, ReadClaims, Report, Fail
    <2>2. UNCHANGED <<holders, owned>>
        BY <1>5 DEF Admit, Park, Recheck, Later, ReadClaims, Report, Fail, tableVars
    <2> QED BY <1>1, <1>2, <2>1, <2>2 DEF PassSteps
<1>6. CASE Operate(k) \/ Mount(k) \/ Launch(k) \/ AlreadyUp(k) \/ StartFails(k) \/ Status(k)
    <2>1. Finish(k) \/ \E at \in {"start", "launch", "status", "done"} : Goto(k, at)
        BY <1>6 DEF Operate, TakeLocks, Mount, Launch, AlreadyUp, StartFails, Status, Fail
    <2>2. UNCHANGED <<holders, owned>>
        BY <1>6 DEF Operate, TakeLocks, TryOperations, Mount, Launch, AlreadyUp, StartFails, Status,
                    Fail, tableVars
    <2> QED BY <1>1, <1>2, <2>1, <2>2 DEF PassSteps
<1>7. CASE LockForStop(k) \/ StopFails(k) \/ Stopped(k) \/ Acknowledge(k) \/ Done(k)
    <2>1. Finish(k) \/ \E at \in {"stop", "ack", "release"} : Goto(k, at)
        BY <1>7 DEF LockForStop, TakeLocks, StopFails, Stopped, Acknowledge, Done, Fail
    <2>2. UNCHANGED <<holders, owned>>
        BY <1>7 DEF LockForStop, TakeLocks, TryOperations, StopFails, Stopped, Acknowledge, Done,
                    Fail, tableVars
    <2> QED BY <1>1, <1>2, <2>1, <2>2 DEF PassSteps
<1>8. CASE StopRuntime(k) \/ Unstage(k)
    BY <1>1, <1>8 DEF StopRuntime, Unstage, tableVars
<1> QED BY <1>3, <1>4, <1>5, <1>6, <1>7, <1>8 DEF PassStep

\* Passes stay as they are, and no workload on its way out comes to hold.
LEMMA AsksFrame ==
    ASSUME AsksAllOrNone, UNCHANGED pass,
           \A o \in Keys : record'[o] # "none" => record[o] # "none",
           \A o \in Keys : HoldsClaims(o)' /\ pass[o].at \in {"lock", "stop"} /\ record[o] # "none"
                              => HoldsClaims(o)
    PROVE  AsksAllOrNone'
BY DEF AsksAllOrNone

\* Only what is listed is seeded, and what stops unclaimed is on no list.
LEMMA MutationLoop ==
    ASSUME NameInv, ClaimInv, MutationInv, NEW l \in Loops, LoopStep(l)
    PROVE  OwnsAllOrNone' /\ AsksAllOrNone'
<1>0. TypeOK /\ TableTypeOK /\ LoopShape /\ OwnsAllOrNone /\ AsksAllOrNone
    BY DEF NameInv, TypeOK, ClaimInv, MutationInv
<1>1. /\ UNCHANGED pass
      /\ \A o \in Keys : record'[o] # "none" => record[o] # "none"
    BY <1>0, LoopRest
<1>2. CASE SeedOne(l)
    <2>1. PICK k \in loop[l].todo : Seed(k, Wanted(k))
        BY <1>2 DEF SeedOne
    <2>2. k \in Keys /\ loop[l].list[k] # "none" /\ l = LoopOf(k)
        BY <1>0, <2>1 DEF LoopShape, Listed, LoopOf, Loops
    <2>3. OwnsAllOrNone' /\ \A o \in Keys \ {k} : HoldsClaims(o)' => HoldsClaims(o)
        BY <1>0, <2>1, <2>2, OwnsRecord DEF Seed
    <2>4. ASSUME pass[k].at \in {"lock", "stop"}, record[k] # "none" PROVE HoldsClaims(k)
        <3>1. running
            BY <2>2, <2>4, AtWork
        <3>2. ~ Unclaimed(k)
            BY <2>2, <2>4 DEF ClaimInv, AllUnclaimedKept, UnclaimedKept, Lost
        <3> QED BY <2>4, <3>1, <3>2 DEF Unclaimed
    <2> QED BY <1>0, <1>1, <2>3, <2>4, AsksFrame
<1>3. CASE ~ SeedOne(l)
    <2>1. UNCHANGED <<holders, owned>>
        BY <1>3 DEF LoopStep, BeginPods, BeginVms, List, Cache, Known, SeedFails, Mark, Publish,
                    Wake, LoopOnly, tableVars
    <2>2. OwnsAllOrNone' /\ \A o \in Keys : HoldsClaims(o)' => HoldsClaims(o)
        BY <1>0, <2>1 DEF OwnsAllOrNone, HoldsClaims, Wanted
    <2> QED BY <1>0, <1>1, <2>2, AsksFrame
<1> QED BY <1>2, <1>3

LEMMA MutationWork ==
    ASSUME NameInv, ClaimInv, MutationInv, NEW k \in Keys, PassStep(k)
    PROVE  OwnsAllOrNone' /\ AsksAllOrNone'
<1>0. TypeOK /\ PassType /\ OwnsAllOrNone /\ AsksAllOrNone /\ MovesOn(k) /\ Touches(k)
    BY PassMoves, PassTouches DEF NameInv, TypeOK, PassType, MutationInv
<1>1. /\ OwnsAllOrNone'
      /\ \A o \in Keys : HoldsClaims(o)' => HoldsClaims(o) \/ (o = k /\ pass[k].at = "acquire")
      /\ \A o \in Keys : pass'[o].at # "idle" => pass'[o].cs = pass[o].cs
    BY <1>0, MutationPass
<1>2. ASSUME NEW o \in Keys, pass'[o].at \in Starting PROVE pass'[o].cs = ClaimsOf[o]
    <2>1. pass[o].at \in Starting
        BY <1>0, <1>2 DEF MovesOn
    <2> QED BY <1>0, <1>1, <1>2, <2>1 DEF AsksAllOrNone, Starting
<1>3. ASSUME NEW o \in Keys, pass'[o].at \in {"lock", "stop"}
      PROVE  /\ pass'[o].cs = {} \/ ClaimsOf[o] \subseteq pass'[o].cs
             /\ record'[o] # "none" /\ HoldsClaims(o)' => ClaimsOf[o] \subseteq pass'[o].cs
    <2>1. pass[o].at \in {"lock", "stop"}
        BY <1>0, <1>3 DEF MovesOn
    <2>2. record'[o] # "none" => record[o] # "none"
        BY <1>0, <2>1 DEF Touches, Working
    <2>3. HoldsClaims(o)' => HoldsClaims(o)
        BY <1>1, <2>1
    <2> QED BY <1>0, <1>1, <1>3, <2>1, <2>2, <2>3 DEF AsksAllOrNone
<1>4. AsksAllOrNone'
    BY <1>2, <1>3 DEF AsksAllOrNone
<1> QED BY <1>1, <1>4

\* A pass asks for what its key owns, to stop it, or for its claims.
LEMMA MutationPop ==
    ASSUME NameInv, MutationInv, NEW k \in Keys, Pop(k)
    PROVE  OwnsAllOrNone' /\ AsksAllOrNone'
<1>0. PassType /\ OwnsAllOrNone /\ AsksAllOrNone
    BY DEF NameInv, TypeOK, PassType, MutationInv
<1>1. UNCHANGED <<holders, owned, record>>
    BY DEF Pop, memory
<1>2. OwnsAllOrNone' /\ \A o \in Keys : HoldsClaims(o)' = HoldsClaims(o)
    BY <1>0, <1>1 DEF OwnsAllOrNone, HoldsClaims, Wanted
<1>3. /\ \A o \in Keys \ {k} : pass'[o] = pass[o]
      /\ pass'[k].at = FirstStep(k, desired[k])
      /\ pass'[k].cs = IF desired[k] \in {"none", "deleting"} THEN owned[k] \cap Claims
                                                              ELSE ClaimsOf[k]
    BY <1>0 DEF Pop, PassType
<1>4. /\ FirstStep(k, desired[k]) \in {"lock", "done", "claims", "admit"}
      /\ FirstStep(k, desired[k]) \in {"claims", "admit"} => desired[k] \notin {"none", "deleting"}
      /\ FirstStep(k, desired[k]) = "lock" => desired[k] \in {"none", "deleting"}
    BY DEF FirstStep
<1>5. ClaimsOf[k] \subseteq Claims
    BY ClaimsAssumption
<1>6. /\ owned[k] \cap Claims = {} \/ ClaimsOf[k] \subseteq owned[k] \cap Claims
      /\ HoldsClaims(k) => ClaimsOf[k] \subseteq owned[k] \cap Claims
    BY <1>0, <1>5 DEF OwnsAllOrNone, HoldsClaims
<1>7. /\ pass'[k].at \in Starting => pass'[k].cs = ClaimsOf[k]
      /\ pass'[k].at \in {"lock", "stop"} => pass'[k].cs = owned[k] \cap Claims
    BY <1>3, <1>4 DEF Starting
<1>8. AsksAllOrNone'
    BY <1>0, <1>1, <1>2, <1>3, <1>6, <1>7 DEF AsksAllOrNone
<1> QED BY <1>2, <1>8

LEMMA MutationStep ==
    ASSUME NameInv, ClaimInv, MutationInv, [Next]_vars
    PROVE  MutationInv'
<1>0. TypeOK /\ OwnsAllOrNone /\ AsksAllOrNone /\ LocksInv
    BY DEF NameInv, MutationInv
<1>1. LocksInv'
    BY <1>0, LocksStep
<1>2. CASE Crash
    <2>1. \A k \in Keys : pass'[k] = NoPass /\ owned'[k] = {}
        BY <1>2 DEF Crash
    <2>2. \A k \in Keys : \A c \in ClaimsOf[k] : holders'[c][k] = "none"
        BY <1>2, ClaimsAssumption DEF Crash, Resources
    <2> QED BY <1>1, <2>1, <2>2 DEF MutationInv, OwnsAllOrNone, AsksAllOrNone, NoPass, Starting
<1>3. CASE Boot
    <2>1. /\ UNCHANGED pass /\ \A k \in Keys : pass[k].at = "idle"
          /\ \A k \in Keys : owned'[k] \subseteq {NameOf[k]}
        BY <1>3 DEF Boot, NameInv, Quiet, NamesOf
    <2>2. ASSUME NEW k \in Keys
          PROVE  owned'[k] \cap Claims = {} /\ \A c \in ClaimsOf[k] : holders'[c][k] = "none"
        <3>1. NameOf[k] \notin Claims
            BY NameOfAssumption, DisjointAssumption
        <3>2. ASSUME NEW c \in ClaimsOf[k] PROVE holders'[c][k] = "none"
            <4>1. c \in Resources /\ c \notin NamesOf(up)[k]
                BY <3>1, ClaimsAssumption DEF Resources, NamesOf
            <4> QED BY <1>3, <4>1 DEF Boot
        <3> QED BY <2>1, <3>1, <3>2
    <2> QED BY <1>1, <2>1, <2>2 DEF MutationInv, OwnsAllOrNone, AsksAllOrNone, Starting
<1>4. ASSUME NEW l \in Loops, LoopStep(l) PROVE MutationInv'
    BY <1>1, <1>4, MutationLoop DEF MutationInv
<1>5. ASSUME NEW k \in Keys, PassStep(k) \/ Pop(k) PROVE MutationInv'
    BY <1>1, <1>5, MutationWork, MutationPop DEF MutationInv
<1>6. CASE UNCHANGED <<pass, record, holders, owned>>
    <2>1. OwnsAllOrNone' /\ \A o \in Keys : HoldsClaims(o)' = HoldsClaims(o)
        BY <1>0, <1>6 DEF OwnsAllOrNone, HoldsClaims, Wanted
    <2> QED BY <1>0, <1>1, <1>6, <2>1, AsksFrame DEF MutationInv
<1>7. ASSUME NEW k \in Keys, ApiChange(k) \/ ExternalWake(k) \/ Sweep(k) \/ TimerFires(k)
      PROVE  MutationInv'
    BY <1>6, <1>7 DEF ApiChange, ExternalWake, Sweep, TimerFires, tableVars, memory
<1>8. CASE UNCHANGED vars
    BY <1>6, <1>8 DEF vars, tableVars, memory
<1> QED BY <1>2, <1>3, <1>4, <1>5, <1>7, <1>8 DEF Next

\* Without the lock of a claim it mutates, a pass is a stop that asked for
\* nothing.
LEMMA UnlockedStops ==
    ASSUME MutationInv, TypeOK, NEW k \in Keys, NEW c \in Mutates(k), c \notin pass[k].cs
    PROVE  Unstaging(k) /\ pass[k].cs = {} /\ (record[k] # "none" => ~ HoldsClaims(k))
<1>1. c \in ClaimsOf[k]
    BY DEF Mutates
<1>2. ~ Staging(k)
    BY <1>1 DEF Staging, MutationInv, AsksAllOrNone, Starting
<1>3. Unstaging(k)
    BY <1>2 DEF Mutates
<1> QED BY <1>1, <1>3 DEF Unstaging, MutationInv, AsksAllOrNone

\* A start stages a claim alone: no other start and no stop of a workload the
\* kubelet has a record of is at it; and two stops that have asked for it are
\* one after the other (Kubelet::reconcile, Reservations::try_operations,
\* Kubelet::admission_open).  As for the exclusion of claims: as long as no
\* seed fails and no manifest of the node names a claim.
THEOREM ClaimMutationsSerializedHolds ==
    ASSUME SeedsSucceed, ManifestsClaimNothing
    PROVE  Spec => []ClaimMutationsSerialized
<1>1. ClaimInv /\ NameInv /\ [Next]_vars => ClaimInv'
    BY ClaimStep
<1>2. NameInv /\ ClaimInv /\ MutationInv /\ [Next]_vars => MutationInv'
    BY MutationStep
<1>3. Init => MutationInv
    <2> SUFFICES ASSUME Init PROVE MutationInv
        OBVIOUS
    <2>1. \A k \in Keys : pass[k].at = "idle" /\ owned[k] = {}
        BY DEF Init, TableInit, NoPass
    <2>2. \A k \in Keys : \A c \in ClaimsOf[k] : holders[c][k] = "none"
        BY ClaimsAssumption DEF Init, TableInit, Resources
    <2> QED BY <2>1, <2>2 DEF MutationInv, OwnsAllOrNone, AsksAllOrNone, LocksInv, Mutating, Starting
<1>4. NameInv /\ ClaimInv /\ MutationInv => ClaimMutationsSerialized
    <2> SUFFICES ASSUME NameInv, ClaimInv, MutationInv, NEW k \in Keys, NEW o \in Keys, k # o,
                        NEW c \in Mutates(k) \cap Mutates(o)
                 PROVE  \E q \in {k, o} : /\ Unstaging(q) /\ pass[q].cs = {}
                                          /\ record[q] = "none" \/ (Unstaging(k) /\ Unstaging(o))
        BY DEF ClaimMutationsSerialized
    <2>0. TypeOK /\ LocksInv
        BY DEF NameInv, MutationInv
    <2>1. ASSUME NEW q \in {k, o}, NEW p \in {k, o} \ {q}, c \notin pass[q].cs
          PROVE  /\ Unstaging(q) /\ pass[q].cs = {}
                 /\ record[q] = "none" \/ (Unstaging(k) /\ Unstaging(o))
        <3>1. /\ Unstaging(q) /\ pass[q].cs = {}
              /\ record[q] # "none" => ~ HoldsClaims(q)
            BY <2>0, <2>1, UnlockedStops
        <3>2. CASE Unstaging(p)
            BY <3>1, <3>2
        <3>3. CASE ~ Unstaging(p)
            <4>1. Staging(p) /\ c \in ClaimsOf[p]
                BY <3>3 DEF Mutates
            <4>2. LetIn(p) /\ running
                BY <4>1, AtWork DEF Staging, LetIn
            <4>3. ~ Unclaimed(q)
                BY <4>1, <4>2 DEF ClaimInv, AdmittedAlone
            <4> QED BY <3>1, <4>2, <4>3 DEF Unclaimed
        <3> QED BY <3>2, <3>3
    <2>2. c \notin pass[k].cs \/ c \notin pass[o].cs
        <3>1. Mutating(k) /\ Mutating(o)
            BY DEF Mutates, Staging, Unstaging, Mutating
        <3> QED BY <2>0, <3>1 DEF LocksInv, HasLocks
    <2> QED BY <2>1, <2>2
<1> QED BY <1>1, <1>2, <1>3, <1>4, ClaimInit, NameInit, NameStep, PTL DEF Spec
=============================================================================
