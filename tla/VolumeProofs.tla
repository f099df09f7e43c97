---------------------------- MODULE VolumeProofs ----------------------------
(***************************************************************************)
(* What CsiVolumes.tla promises of a volume and its holders, and           *)
(* VmDiskMove.tla of a disk moved under its guest, for every value of      *)
(* their constants.                                                        *)
(***************************************************************************)
EXTENDS CsiVolumes, VmDiskMove, FiniteSetTheorems, TLAPS
-----------------------------------------------------------------------------
(* A volume and its holders (CsiVolumes). *)

LockSteps == {"record", "stage", "publish", "unpublish", "unstage", "forget"}
TeardownSteps == {"read", "lock", "unpublish", "unstage", "forget", "clean"}
StartSteps == {"record", "stage", "publish", "launch"}

\* Whoever is between two calls to the driver has the volume's lock.
HasLock == \A t \in Tasks : cvTask[t].at \in LockSteps => cvLock = t

\* Whose volume each task is at: a holder's pass at its own, a sweep at a holder's.
Whose ==
    /\ \A u \in Users : cvTask[u].at # "idle" =>
           cvTask[u].of = u /\ cvTask[u].at \in StartSteps \cup TeardownSteps
    /\ \A s \in Sweeps : cvTask[s].at \notin StartSteps
    /\ \A s \in Sweeps : cvTask[s].at \in TeardownSteps => cvTask[s].of \in Users

\* A start's record is there before its volume is staged, and the volume staged
\* before it is published.
RecordedFirst ==
    \A u \in Users :
        /\ cvTask[u].at \in {"stage", "publish"} => u \in cvRec
        /\ cvTask[u].at = "publish" => cvStaged

\* A holder that is being started is not up.
NotYetUp == \A u \in Users : cvTask[u].at \in StartSteps => u \notin cvKnown

\* A teardown forgets a record only when its holder's publish is undone, and
\* the staging too unless another has use of it.
UndoneFirst ==
    \A t \in Tasks :
        /\ cvTask[t].at \in {"unstage", "forget"} => cvTask[t].of \notin cvTarget
        /\ cvTask[t].at = "forget" /\ cvStaged => InUse(cvTask[t].of)

\* Nothing is on the node of a holder that never had an object.
WasThere ==
    \A u \in Users : cvObj[u] = "none" => u \notin cvKnown /\ u \notin cvRec /\ cvTask[u].at = "idle"

\* What is torn down is wanted by nobody: a sweep takes only holders whose
\* object it saw gone, finished or never there, and none of those is live again.
TornDownUnwanted ==
    /\ \A u \in Users : cvTask[u].at \in TeardownSteps => u \notin cvKnown \/ cvObj[u] # "live"
    /\ \A s \in Sweeps : cvTask[s].at \in TeardownSteps => cvObj[cvTask[s].of] \notin {"none", "live"}
    /\ \A s \in Sweeps : \A u \in cvTodo[s] : cvObj[u] # "none"
    /\ cvTask["sweep"].at # "list" => \A u \in cvTodo["sweep"] : cvObj[u] # "live"

CvInv ==
    /\ CvTypeOK /\ HasLock /\ Whose /\ RecordedFirst /\ NotYetUp /\ UndoneFirst /\ WasThere /\ TornDownUnwanted
    /\ VolumeKept

LEMMA CvInvInit == CvInit => CvInv
<1> SUFFICES ASSUME CvInit PROVE CvInv
    OBVIOUS
<1>1. \A t \in Tasks : cvTask[t] = [at |-> "idle", of |-> "free"]
    BY DEF CvInit, AtRest
<1>2. CvTypeOK
    BY CsiAssumption DEF CvInit, CvTypeOK, AtRest
<1>3. Users \subseteq Tasks /\ Sweeps \subseteq Tasks /\ \A s \in Sweeps : cvTodo[s] = {}
    BY DEF Tasks, CvInit
<1>4. HasLock /\ Whose /\ RecordedFirst /\ NotYetUp /\ UndoneFirst
    BY <1>1, <1>3 DEF HasLock, Whose, RecordedFirst, NotYetUp, UndoneFirst, LockSteps, StartSteps, TeardownSteps
<1>5. WasThere
    BY <1>1, <1>3 DEF CvInit, WasThere
<1>7. TornDownUnwanted
    <2>1. \A t \in Users \cup Sweeps : cvTask[t].at \notin TeardownSteps
        BY <1>1, <1>3 DEF TeardownSteps
    <2>2. "sweep" \in Sweeps
        BY DEF Sweeps
    <2> QED BY <2>1, <2>2, <1>3 DEF TornDownUnwanted
<1>6. VolumeKept
    BY <1>1, <1>3 DEF CvInit, VolumeKept, VolumeOnRecord, UpKeepsVolume, Task
<1> QED BY <1>2, <1>4, <1>5, <1>6, <1>7 DEF CvInv

CvAtSteps == {"idle", "list", "next"} \cup StartSteps \cup TeardownSteps
CvTaskType == [at : CvAtSteps, of : Users \cup {"free"}]

\* Where a task may be, and with whose volume.
Allowed(t, a, o) ==
    /\ a \in CvAtSteps /\ o \in Users \cup {"free"}
    /\ t \in Users /\ a # "idle" => o = t /\ a \in StartSteps \cup TeardownSteps
    /\ t \in Sweeps => a \notin StartSteps /\ (a \in TeardownSteps => o \in Users)

\* A step of task t alone, to a with the holder o: it has the volume's lock from
\* its first call to the driver to its last.
CvStep(t, a, o) ==
    /\ Allowed(t, a, o)
    /\ cvTask' \in [Tasks -> CvTaskType]
    /\ \A x \in Tasks : /\ cvTask'[x].at = IF x = t THEN a ELSE cvTask[x].at
                        /\ cvTask'[x].of = IF x = t THEN o ELSE cvTask[x].of
    /\ cvLock' = IF a \in LockSteps THEN t ELSE IF cvTask[t].at \in LockSteps THEN "free" ELSE cvLock
    /\ a \in LockSteps /\ cvTask[t].at \notin LockSteps => cvLock = "free"

LEMMA CvTasksTyped == CvTypeOK => cvTask \in [Tasks -> CvTaskType]
BY DEF CvTypeOK, CvTaskType, CvAtSteps, StartSteps, TeardownSteps

\* A task goes to a; the lock is taken, kept or left as the step it goes to wants.
LEMMA CvSteps ==
    ASSUME CvTypeOK, NEW t \in Tasks, NEW a, NEW o, Allowed(t, a, o),
           \/ cvTask' = [cvTask EXCEPT ![t] = [at |-> a, of |-> o]]
           \/ ToStep(t, a) /\ o = cvTask[t].of
           \/ Over(t) /\ a = "idle" /\ o = "free",
           cvLock' = IF a \in LockSteps THEN t ELSE IF cvTask[t].at \in LockSteps THEN "free" ELSE cvLock,
           a \in LockSteps /\ cvTask[t].at \notin LockSteps => cvLock = "free"
    PROVE  CvStep(t, a, o)
<1>1. cvTask \in [Tasks -> CvTaskType] /\ a \in CvAtSteps /\ o \in Users \cup {"free"}
    BY CvTasksTyped DEF Allowed
<1>2. /\ cvTask' \in [Tasks -> CvTaskType]
      /\ \A x \in Tasks : /\ cvTask'[x].at = IF x = t THEN a ELSE cvTask[x].at
                          /\ cvTask'[x].of = IF x = t THEN o ELSE cvTask[x].of
    BY <1>1 DEF CvTaskType, ToStep, Over, AtRest
<1> QED BY <1>2 DEF CvStep

LEMMA CvStartActs ==
    ASSUME CvInv, NEW u \in Users
    PROVE  /\ BeginPublish(u) => CvStep(u, "record", u)
           /\ WriteVolData(u) => \/ CvStep(u, "stage", u) /\ cvRec' = cvRec \cup {u}
                                 \/ CvStep(u, "idle", "free") /\ UNCHANGED cvRec
           /\ StageVolume(u) => \/ CvStep(u, "publish", u) /\ cvStaged' = TRUE
                                \/ CvStep(u, "idle", "free") /\ cvStaged' \in {cvStaged, TRUE}
           /\ PublishVolume(u) => \/ CvStep(u, "launch", u) /\ cvTarget' = cvTarget \cup {u}
                                  \/ CvStep(u, "idle", "free") /\ cvTarget' \in {cvTarget, cvTarget \cup {u}}
           /\ LaunchUser(u) => \/ CvStep(u, "idle", "free") /\ cvKnown' = cvKnown \cup {u}
                               \/ CvStep(u, "read", u) /\ UNCHANGED cvKnown
                               \/ CvStep(u, "idle", "free") /\ UNCHANGED cvKnown
           /\ BeginStop(u) => CvStep(u, "read", u)
<1>1. u \in Tasks /\ u \notin Sweeps /\ CvTypeOK
    BY CsiAssumption DEF Tasks, Sweeps, CvInv
<1>2. \A a \in StartSteps \cup TeardownSteps : Allowed(u, a, u)
    BY <1>1 DEF Allowed, CvAtSteps
<1>3. Allowed(u, "idle", "free")
    BY <1>1 DEF Allowed, CvAtSteps, TeardownSteps
<1>4. cvTask[u].at # "idle" => cvTask[u].of = u
    BY DEF CvInv, Whose
<1>5. BeginPublish(u) => CvStep(u, "record", u)
    BY <1>1, <1>2, CvSteps DEF BeginPublish, StartSteps, LockSteps, Task
<1>6. WriteVolData(u) => \/ CvStep(u, "stage", u) /\ cvRec' = cvRec \cup {u}
                         \/ CvStep(u, "idle", "free") /\ UNCHANGED cvRec
    BY <1>1, <1>2, <1>3, <1>4, CvSteps DEF WriteVolData, StartSteps, LockSteps, Task, OverUnlocked, CvInv, HasLock
<1>7. StageVolume(u) => \/ CvStep(u, "publish", u) /\ cvStaged' = TRUE
                        \/ CvStep(u, "idle", "free") /\ cvStaged' \in {cvStaged, TRUE}
    BY <1>1, <1>2, <1>3, <1>4, CvSteps DEF StageVolume, StartSteps, LockSteps, Task, OverUnlocked, CvInv, HasLock
<1>8. PublishVolume(u) => \/ CvStep(u, "launch", u) /\ cvTarget' = cvTarget \cup {u}
                          \/ CvStep(u, "idle", "free") /\ cvTarget' \in {cvTarget, cvTarget \cup {u}}
    BY <1>1, <1>2, <1>3, <1>4, CvSteps DEF PublishVolume, StartSteps, LockSteps, Task
<1>9. LaunchUser(u) => \/ CvStep(u, "idle", "free") /\ cvKnown' = cvKnown \cup {u}
                       \/ CvStep(u, "read", u) /\ UNCHANGED cvKnown
                       \/ CvStep(u, "idle", "free") /\ UNCHANGED cvKnown
    BY <1>1, <1>2, <1>3, <1>4, CvSteps DEF LaunchUser, TeardownSteps, LockSteps, Task, Over, AtRest
<1>10. BeginStop(u) => CvStep(u, "read", u)
    BY <1>1, <1>2, CvSteps DEF BeginStop, TeardownSteps, LockSteps, Task
<1> QED BY <1>5, <1>6, <1>7, <1>8, <1>9, <1>10

LEMMA CvTeardownActs ==
    ASSUME CvInv, NEW t \in Tasks, NEW u, u = cvTask[t].of
    PROVE  /\ ReadVolData(t) => CvStep(t, "lock", u) \/ CvStep(t, "clean", u)
           /\ LockVolume(t) => CvStep(t, "unpublish", u) \/ CvStep(t, "idle", "free")
           /\ UnpublishVolume(t) =>
                 \/ CvStep(t, "unstage", u) /\ cvTarget' = cvTarget \ {u}
                 \/ CvStep(t, "idle", "free") /\ cvTarget' \in {cvTarget, cvTarget \ {u}}
           /\ UnstageVolume(t) =>
                 \/ CvStep(t, "forget", u) /\ cvStaged' = (cvStaged /\ InUse(u))
                 \/ CvStep(t, "idle", "free") /\ ~ InUse(u) /\ cvStaged' \in {cvStaged, FALSE}
           /\ RemoveVolData(t) =>
                 \/ CvStep(t, "clean", u) /\ cvRec' = cvRec \ {u}
                 \/ CvStep(t, "idle", "free") /\ UNCHANGED cvRec
           /\ Clean(t) => CvStep(t, "idle", "free")
<1>1. CvTypeOK /\ HasLock
    BY DEF CvInv
<1>2. cvTask[t].at \in TeardownSteps => \A a \in TeardownSteps : Allowed(t, a, u)
    BY CsiAssumption DEF CvInv, Whose, Allowed, CvAtSteps, Tasks, Sweeps, StartSteps, TeardownSteps
<1>3. Allowed(t, "idle", "free")
    BY CsiAssumption DEF Allowed, CvAtSteps, TeardownSteps, StartSteps
<1>4. ReadVolData(t) => CvStep(t, "lock", u) \/ CvStep(t, "clean", u)
    BY <1>1, <1>2, CvSteps DEF ReadVolData, TeardownSteps, LockSteps, Task
<1>5. LockVolume(t) => CvStep(t, "unpublish", u) \/ CvStep(t, "idle", "free")
    BY <1>1, <1>2, <1>3, CvSteps DEF LockVolume, TeardownSteps, LockSteps, Task
<1>6. UnpublishVolume(t) =>
          \/ CvStep(t, "unstage", u) /\ cvTarget' = cvTarget \ {u}
          \/ CvStep(t, "idle", "free") /\ cvTarget' \in {cvTarget, cvTarget \ {u}}
    BY <1>1, <1>2, <1>3, CvSteps DEF UnpublishVolume, TeardownSteps, LockSteps, Task, OverUnlocked, HasLock
<1>7. UnstageVolume(t) =>
          \/ CvStep(t, "forget", u) /\ cvStaged' = (cvStaged /\ InUse(u))
          \/ CvStep(t, "idle", "free") /\ ~ InUse(u) /\ cvStaged' \in {cvStaged, FALSE}
    BY <1>1, <1>2, <1>3, CvSteps DEF UnstageVolume, TeardownSteps, LockSteps, Task, OverUnlocked, HasLock
<1>8. RemoveVolData(t) =>
          \/ CvStep(t, "clean", u) /\ cvRec' = cvRec \ {u}
          \/ CvStep(t, "idle", "free") /\ UNCHANGED cvRec
    BY <1>1, <1>2, <1>3, CvSteps DEF RemoveVolData, TeardownSteps, LockSteps, Task
<1>9. Clean(t) => CvStep(t, "idle", "free")
    BY <1>1, <1>3, CvSteps DEF Clean, LockSteps, Task
<1> QED BY <1>4, <1>5, <1>6, <1>7, <1>8, <1>9

LEMMA CvSweepActs ==
    ASSUME CvInv, NEW s \in Sweeps
    PROVE  /\ BeginSweep(s) => CvStep(s, IF s = "sweep" THEN "list" ELSE "next", "free")
           /\ ListUsers => \/ CvStep("sweep", "next", cvTask["sweep"].of)
                           \/ CvStep("sweep", "idle", "free") /\ cvTodo' = [cvTodo EXCEPT !["sweep"] = {}]
           /\ SweepNext(s) =>
                 \/ CvStep(s, "idle", "free") /\ UNCHANGED cvTodo
                 \/ \E u \in cvTodo[s] :
                       /\ cvTodo' = [cvTodo EXCEPT ![s] = @ \ {u}]
                       /\ \/ Spared(s, u) /\ CvStep(s, "next", cvTask[s].of)
                          \/ ~ Spared(s, u) /\ CvStep(s, "read", u)
<1>1. CvTypeOK /\ s \in Tasks /\ "sweep" \in Sweeps /\ "sweep" \in Tasks /\ s \notin Users /\ "sweep" \notin Users
    BY CsiAssumption DEF CvInv, Tasks, Sweeps
<1>2. \A t \in Sweeps : Allowed(t, "idle", "free") /\ Allowed(t, "list", "free") /\ Allowed(t, "next", "free")
    BY CsiAssumption DEF Allowed, CvAtSteps, TeardownSteps, StartSteps, Sweeps
<1>3. \A t \in Sweeps : cvTask[t].of \in Users \cup {"free"}
    BY CvTasksTyped, <1>1 DEF CvTaskType, Tasks
<1>4. \A t \in Sweeps : Allowed(t, "next", cvTask[t].of)
    BY <1>3, CsiAssumption DEF Allowed, CvAtSteps, TeardownSteps, StartSteps, Sweeps
<1>5. \A u \in cvTodo[s] : u \in Users /\ Allowed(s, "read", u)
    BY <1>1, CsiAssumption DEF Allowed, CvAtSteps, TeardownSteps, StartSteps, CvTypeOK
<1>6. BeginSweep(s) => CvStep(s, IF s = "sweep" THEN "list" ELSE "next", "free")
    BY <1>1, <1>2, CvSteps DEF BeginSweep, LockSteps, Task
<1>7. ListUsers => \/ CvStep("sweep", "next", cvTask["sweep"].of)
                   \/ CvStep("sweep", "idle", "free") /\ cvTodo' = [cvTodo EXCEPT !["sweep"] = {}]
    BY <1>1, <1>2, <1>4, CvSteps DEF ListUsers, LockSteps, Task
<1>8. ASSUME SweepNext(s), NEW u \in cvTodo[s], Spared(s, u),
             cvTask' = [cvTask EXCEPT ![s] = [@ EXCEPT !.at = "next"]]
      PROVE  CvStep(s, "next", cvTask[s].of)
    BY <1>1, <1>4, <1>8, CvSteps DEF SweepNext, LockSteps, Task, ToStep
<1>9. ASSUME SweepNext(s), NEW u \in cvTodo[s], cvTask' = [cvTask EXCEPT ![s] = [at |-> "read", of |-> u]]
      PROVE  CvStep(s, "read", u)
    BY <1>1, <1>5, <1>9, CvSteps DEF SweepNext, LockSteps, Task
<1>10. ASSUME SweepNext(s), Over(s) PROVE CvStep(s, "idle", "free")
    BY <1>1, <1>2, <1>10, CvSteps DEF SweepNext, LockSteps, Task
<1>11. SweepNext(s) =>
          \/ Over(s) /\ UNCHANGED cvTodo
          \/ \E u \in cvTodo[s] :
                /\ cvTodo' = [cvTodo EXCEPT ![s] = @ \ {u}]
                /\ \/ Spared(s, u) /\ cvTask' = [cvTask EXCEPT ![s] = [@ EXCEPT !.at = "next"]]
                   \/ ~ Spared(s, u) /\ cvTask' = [cvTask EXCEPT ![s] = [at |-> "read", of |-> u]]
    BY DEF SweepNext
<1> QED BY <1>6, <1>7, <1>8, <1>9, <1>10, <1>11

\* What each step is: a task's, or the cluster's or the kubelet's.
LEMMA CvTaskSteps ==
    ASSUME CvInv, CvNext
    PROVE  \/ \E t \in Tasks : \E a, o : CvStep(t, a, o)
           \/ UNCHANGED <<cvTask, cvLock>>
           \/ KubeletRestarts
<1>1. CASE \E u \in Users : UserPass(u)
    <2>1. PICK u \in Users : UserPass(u)
        BY <1>1
    <2>2. u \in Tasks
        BY DEF Tasks
    <2>3. cvTask[u].of = cvTask[u].of
        OBVIOUS
    <2> QED BY <2>1, <2>2, CvStartActs, CvTeardownActs DEF UserPass, Teardown
<1>2. CASE \E s \in Sweeps : SweepStep(s)
    <2>1. PICK s \in Sweeps : SweepStep(s)
        BY <1>2
    <2>2. s \in Tasks /\ "sweep" \in Tasks
        BY DEF Tasks, Sweeps
    <2> QED BY <2>1, <2>2, CvSweepActs, CvTeardownActs DEF SweepStep, Teardown
<1>3. CASE \E u \in Users : ObjectChanges(u)
    BY <1>3 DEF ObjectChanges
<1> QED BY <1>1, <1>2, <1>3 DEF CvNext

LEMMA CvLockStep == CvInv /\ [CvNext]_cvVars => HasLock' /\ Whose'
<1> SUFFICES ASSUME CvInv, [CvNext]_cvVars PROVE HasLock' /\ Whose'
    OBVIOUS
<1>1. HasLock /\ Whose
    BY DEF CvInv
<1>2. ASSUME NEW t \in Tasks, NEW a, NEW o, CvStep(t, a, o) PROVE HasLock' /\ Whose'
    <2>1. HasLock'
        <3>1. "free" \notin Tasks
            BY CsiAssumption DEF Tasks, Sweeps
        <3> QED BY <1>1, <1>2, <3>1 DEF HasLock, CvStep
    <2>2. \A u \in Users : cvTask'[u].at # "idle" =>
              cvTask'[u].of = u /\ cvTask'[u].at \in StartSteps \cup TeardownSteps
        BY <1>1, <1>2 DEF Whose, CvStep, Allowed, Tasks
    <2>3. \A s \in Sweeps : /\ cvTask'[s].at \notin StartSteps
                            /\ cvTask'[s].at \in TeardownSteps => cvTask'[s].of \in Users
        BY <1>1, <1>2 DEF Whose, CvStep, Allowed, Tasks
    <2> QED BY <2>1, <2>2, <2>3 DEF Whose
<1>3. CASE UNCHANGED <<cvTask, cvLock>>
    BY <1>1, <1>3 DEF HasLock, Whose
<1>4. CASE KubeletRestarts
    <2>1. \A t \in Tasks : cvTask'[t].at = "idle"
        BY <1>4 DEF KubeletRestarts, AtRest
    <2> QED BY <2>1 DEF HasLock, Whose, LockSteps, StartSteps, TeardownSteps, Tasks
<1> QED BY <1>2, <1>3, <1>4, CvTaskSteps DEF cvVars

\* The calls to the driver and the writes of the records, each under the lock.
CvCalls(x) ==
    \/ x \in Users /\ (WriteVolData(x) \/ StageVolume(x) \/ PublishVolume(x))
    \/ UnpublishVolume(x) \/ UnstageVolume(x) \/ RemoveVolData(x)

\* While x calls, nobody else is between two calls.
LEMMA CvAlone ==
    ASSUME CvInv, NEW x \in Tasks, CvCalls(x), NEW t \in Tasks, t # x, cvTask'[t].at = cvTask[t].at
    PROVE  cvTask'[t].at \notin LockSteps
<1>1. cvTask[x].at \in LockSteps
    BY DEF CvCalls, WriteVolData, StageVolume, PublishVolume, UnpublishVolume, UnstageVolume, RemoveVolData,
        Task, LockSteps
<1> QED BY <1>1 DEF CvInv, HasLock

\* Without a call, what the driver has and the records stay, and nobody is
\* further between two calls than it was.
LEMMA CvQuiet ==
    ASSUME CvInv, [CvNext]_cvVars, \A x \in Tasks : ~ CvCalls(x)
    PROVE  /\ UNCHANGED <<cvRec, cvTarget, cvStaged>>
           /\ \A t \in Tasks : cvTask'[t].at \in {"stage", "publish", "unstage", "forget"} =>
                 cvTask'[t].at = cvTask[t].at /\ cvTask'[t].of = cvTask[t].of
<1> DEFINE Same == UNCHANGED <<cvRec, cvTarget, cvStaged>>
           Stays == \A t \in Tasks : cvTask'[t].at \in {"stage", "publish", "unstage", "forget"} =>
                 cvTask'[t].at = cvTask[t].at /\ cvTask'[t].of = cvTask[t].of
<1>1. ASSUME NEW t \in Tasks, NEW a, NEW o, CvStep(t, a, o), a \notin {"stage", "publish", "unstage", "forget"}
      PROVE  Stays
    BY <1>1 DEF CvStep
<1>2. ASSUME NEW u \in Users, UserPass(u) PROVE Same /\ Stays
    <2>1. u \in Tasks
        BY DEF Tasks
    <2>2. \/ BeginPublish(u) \/ LaunchUser(u) \/ BeginStop(u)
          \/ ReadVolData(u) \/ LockVolume(u) \/ Clean(u)
        BY <1>2, <2>1 DEF UserPass, Teardown, CvCalls
    <2>3. Same
        BY <2>2 DEF BeginPublish, LaunchUser, BeginStop, ReadVolData, LockVolume, Clean, cvDriver
    <2>4. Stays
        BY ZenonT(60), <2>1, <2>2, <1>1, CvStartActs, CvTeardownActs
    <2> QED BY <2>3, <2>4
<1>3. ASSUME NEW s \in Sweeps, SweepStep(s) PROVE Same /\ Stays
    <2>1. s \in Tasks /\ "sweep" \in Tasks
        BY DEF Tasks, Sweeps
    <2>2. \/ BeginSweep(s) \/ (s = "sweep" /\ ListUsers) \/ SweepNext(s)
          \/ ReadVolData(s) \/ LockVolume(s) \/ Clean(s)
        BY <1>3, <2>1 DEF SweepStep, Teardown, CvCalls
    <2>3. Same
        BY <2>2 DEF BeginSweep, ListUsers, SweepNext, ReadVolData, LockVolume, Clean, cvDriver
    <2>4. Stays
        <3>1. CASE BeginSweep(s)
            BY <2>1, <3>1, <1>1, CvSweepActs
        <3>2. CASE ListUsers
            BY <2>1, <3>2, <1>1, CvSweepActs
        <3>3. CASE SweepNext(s)
            BY <2>1, <3>3, <1>1, CvSweepActs
        <3>4. CASE ReadVolData(s) \/ LockVolume(s) \/ Clean(s)
            BY <2>1, <3>4, <1>1, CvTeardownActs
        <3> QED BY <2>2, <3>1, <3>2, <3>3, <3>4
    <2> QED BY <2>3, <2>4
<1>4. CASE \E u \in Users : ObjectChanges(u)
    BY <1>4 DEF ObjectChanges, cvDriver
<1>5. CASE KubeletRestarts
    BY <1>5 DEF KubeletRestarts, cvDriver, AtRest
<1>6. CASE UNCHANGED cvVars
    BY <1>6 DEF cvVars
<1> QED BY <1>2, <1>3, <1>4, <1>5, <1>6 DEF CvNext

LEMMA CvDriverStep == CvInv /\ [CvNext]_cvVars => RecordedFirst' /\ UndoneFirst' /\ VolumeOnRecord'
<1> SUFFICES ASSUME CvInv, [CvNext]_cvVars PROVE RecordedFirst' /\ UndoneFirst' /\ VolumeOnRecord'
    OBVIOUS
<1>1. RecordedFirst /\ UndoneFirst /\ VolumeOnRecord /\ Whose /\ Users \subseteq Tasks /\ cvStaged \in BOOLEAN
    BY DEF CvInv, VolumeKept, Tasks, CvTypeOK
<1>2. CASE \A x \in Tasks : ~ CvCalls(x)
    BY <1>1, <1>2, CvQuiet DEF RecordedFirst, UndoneFirst, VolumeOnRecord, InUse
<1>3. ASSUME NEW x \in Tasks, CvCalls(x) PROVE RecordedFirst' /\ UndoneFirst' /\ VolumeOnRecord'
    <2> PICK u : u = cvTask[x].of
        OBVIOUS
    <2>1. ASSUME NEW a, NEW o, CvStep(x, a, o), 
                 a \in {"stage", "publish"} => x \in cvRec',
                 a = "publish" => cvStaged',
                 a \in {"unstage", "forget"} => o \notin cvTarget',
                 a = "forget" /\ cvStaged' => InUse(o)'
          PROVE  RecordedFirst' /\ UndoneFirst'
        <3>1. \A t \in Tasks : t # x => cvTask'[t].at \notin LockSteps
            BY <1>3, <2>1, CvAlone DEF CvStep
        <3>2. cvTask'[x].at = a /\ cvTask'[x].of = o
            BY <2>1 DEF CvStep
        <3> QED BY <1>1, <2>1, <3>1, <3>2 DEF RecordedFirst, UndoneFirst, LockSteps
    <2>2. CASE x \in Users /\ WriteVolData(x)
        <3>1. UNCHANGED <<cvTarget, cvStaged>>
            BY <2>2 DEF WriteVolData, cvDriver
        <3>2. \/ CvStep(x, "stage", x) /\ cvRec' = cvRec \cup {x}
              \/ CvStep(x, "idle", "free") /\ UNCHANGED cvRec
            BY <2>2, CvStartActs
        <3> QED BY <1>1, <2>1, <3>1, <3>2 DEF VolumeOnRecord
    <2>3. CASE x \in Users /\ StageVolume(x)
        <3>1. UNCHANGED <<cvTarget, cvRec>> /\ x \in cvRec
            BY <1>1, <2>3 DEF StageVolume, RecordedFirst, Task
        <3>2. \/ CvStep(x, "publish", x) /\ cvStaged' = TRUE
              \/ CvStep(x, "idle", "free") /\ cvStaged' \in {cvStaged, TRUE}
            BY <2>3, CvStartActs
        <3> QED BY <1>1, <2>1, <3>1, <3>2 DEF VolumeOnRecord
    <2>4. CASE x \in Users /\ PublishVolume(x)
        <3>1. UNCHANGED <<cvRec, cvStaged>> /\ x \in cvRec /\ cvStaged
            BY <1>1, <2>4 DEF PublishVolume, RecordedFirst, Task
        <3>2. \/ CvStep(x, "launch", x) /\ cvTarget' = cvTarget \cup {x}
              \/ CvStep(x, "idle", "free") /\ cvTarget' \in {cvTarget, cvTarget \cup {x}}
            BY <2>4, CvStartActs
        <3> QED BY <1>1, <2>1, <3>1, <3>2 DEF VolumeOnRecord
    <2>5. CASE UnpublishVolume(x)
        <3>1. UNCHANGED <<cvRec, cvStaged>>
            BY <2>5 DEF UnpublishVolume
        <3>2. \/ CvStep(x, "unstage", u) /\ cvTarget' = cvTarget \ {u}
              \/ CvStep(x, "idle", "free") /\ cvTarget' \in {cvTarget, cvTarget \ {u}}
            BY <2>5, CvTeardownActs
        <3> QED BY <1>1, <2>1, <3>1, <3>2 DEF VolumeOnRecord
    <2>6. CASE UnstageVolume(x)
        <3>1. UNCHANGED <<cvRec, cvTarget>> /\ u \notin cvTarget
            BY <1>1, <2>6 DEF UnstageVolume, UndoneFirst, Task
        <3>2. \/ CvStep(x, "forget", u) /\ cvStaged' = (cvStaged /\ InUse(u))
              \/ CvStep(x, "idle", "free") /\ ~ InUse(u) /\ cvStaged' \in {cvStaged, FALSE}
            BY <2>6, CvTeardownActs
        <3>3. (cvTarget # {} => InUse(u)) /\ (InUse(u) => InUse(u)') /\ (InUse(u) => cvRec # {})
            BY <1>1, <3>1 DEF InUse, VolumeOnRecord
        <3>4. CASE CvStep(x, "forget", u) /\ cvStaged' = (cvStaged /\ InUse(u))
            <4>1. cvStaged' => InUse(u) /\ InUse(u)'
                BY <3>3, <3>4
            <4>2. RecordedFirst' /\ UndoneFirst'
                BY <2>1, <3>1, <3>4, <4>1
            <4>3. VolumeOnRecord'
                BY <1>1, <3>1, <3>3, <3>4 DEF VolumeOnRecord
            <4> QED BY <4>2, <4>3
        <3>5. CASE CvStep(x, "idle", "free") /\ ~ InUse(u) /\ cvStaged' \in {cvStaged, FALSE}
            <4>1. RecordedFirst' /\ UndoneFirst'
                BY <2>1, <3>5
            <4>2. cvStaged' => cvStaged
                BY <1>1, <3>5
            <4>3. VolumeOnRecord'
                BY <1>1, <3>1, <3>3, <3>5, <4>2 DEF VolumeOnRecord
            <4> QED BY <4>1, <4>3
        <3> QED BY <3>2, <3>4, <3>5
    <2>7. CASE RemoveVolData(x)
        <3>1. UNCHANGED <<cvTarget, cvStaged>> /\ u \notin cvTarget /\ (cvStaged => InUse(u))
            BY <1>1, <2>7 DEF RemoveVolData, UndoneFirst, Task, cvDriver
        <3>2. \/ CvStep(x, "clean", u) /\ cvRec' = cvRec \ {u}
              \/ CvStep(x, "idle", "free") /\ UNCHANGED cvRec
            BY <2>7, CvTeardownActs
        <3> QED BY <1>1, <2>1, <3>1, <3>2 DEF VolumeOnRecord, InUse
    <2> QED BY <1>3, <2>2, <2>3, <2>4, <2>5, <2>6, <2>7 DEF CvCalls
<1> QED BY <1>2, <1>3

\* An object is never there for the first time again, and one that becomes live
\* was none, nothing else moving meanwhile.
LEMMA CvObjects ==
    ASSUME CvInv, [CvNext]_cvVars, NEW u \in Users
    PROVE  /\ cvObj'[u] = "none" => cvObj[u] = "none"
           /\ cvObj'[u] = "live" =>
                 \/ cvObj[u] = "live"
                 \/ cvObj[u] = "none" /\ UNCHANGED <<cvTask, cvKnown, cvRec, cvTarget, cvTodo>>
<1>1. cvObj \in [Users -> {"none", "live", "over", "deleting", "gone"}]
    BY DEF CvInv, CvTypeOK
<1>2. CASE \E t \in Tasks : Clean(t)
    BY <1>1, <1>2 DEF Clean
<1>3. CASE \E w \in Users : ObjectChanges(w)
    BY <1>1, <1>3 DEF ObjectChanges, cvDriver
<1>4. CASE UNCHANGED cvObj
    BY <1>4
<1>5. (\E t \in Tasks : Clean(t)) \/ (\E w \in Users : ObjectChanges(w)) \/ UNCHANGED cvObj
    BY DEF CvNext, UserPass, SweepStep, Teardown, BeginPublish, WriteVolData, StageVolume, PublishVolume, LaunchUser,
           BeginStop, ReadVolData, LockVolume, UnpublishVolume, UnstageVolume, RemoveVolData, BeginSweep, ListUsers,
           SweepNext, KubeletRestarts, cvNode, cvVars, Tasks
<1> QED BY <1>2, <1>3, <1>4, <1>5

\* A holder comes up by the end of its start, in no other way.
LEMMA CvUps ==
    ASSUME CvInv, [CvNext]_cvVars, NEW u \in Users, u \in cvKnown', u \notin cvKnown
    PROVE  LaunchUser(u) /\ CvStep(u, "idle", "free")
<1>1. PICK w \in Users : LaunchUser(w)
    <2>1. (\E t \in Tasks : Clean(t)) \/ (\E w \in Users : LaunchUser(w)) \/ KubeletRestarts \/ UNCHANGED cvKnown
        BY DEF CvNext, UserPass, SweepStep, Teardown, BeginPublish, WriteVolData, StageVolume, PublishVolume,
               BeginStop, ReadVolData, LockVolume, UnpublishVolume, UnstageVolume, RemoveVolData, BeginSweep, ListUsers,
               SweepNext, ObjectChanges, cvNode, cvVars, Tasks
    <2>2. cvKnown' \subseteq cvKnown \/ \E w \in Users : LaunchUser(w)
        BY <2>1 DEF Clean, KubeletRestarts
    <2> QED BY <2>2
<1>2. \/ CvStep(w, "idle", "free") /\ cvKnown' = cvKnown \cup {w}
      \/ UNCHANGED cvKnown
    BY <1>1, CvStartActs
<1> QED BY <1>1, <1>2

\* What a task's next step tells of the one it was at.
LEMMA CvGoesOn ==
    ASSUME CvInv, [CvNext]_cvVars, NEW t \in Tasks
    PROVE  /\ t \in Users /\ cvTask[t].at = "idle" /\ cvTask'[t].at # "idle" => BeginPublish(t) \/ BeginStop(t)
           /\ t \in Users /\ cvTask'[t].at \in StartSteps => cvTask[t].at \in StartSteps \/ BeginPublish(t)
           /\ t \in Users /\ cvTask'[t].at = "launch" => cvTask[t].at = "launch" \/ (PublishVolume(t) /\ t \in cvTarget')
           /\ cvTask'[t].at \in TeardownSteps =>
                 \/ cvTask[t].at \in TeardownSteps /\ cvTask'[t].of = cvTask[t].of
                 \/ t \in Users /\ (BeginStop(t) \/ (LaunchUser(t) /\ UNCHANGED cvKnown))
                 \/ t \in Sweeps /\ \E u \in cvTodo[t] : SweepNext(t) /\ ~ Spared(t, u) /\ cvTask'[t].of = u
<1> DEFINE Told ==
           /\ t \in Users /\ cvTask[t].at = "idle" /\ cvTask'[t].at # "idle" => BeginPublish(t) \/ BeginStop(t)
           /\ t \in Users /\ cvTask'[t].at \in StartSteps => cvTask[t].at \in StartSteps \/ BeginPublish(t)
           /\ t \in Users /\ cvTask'[t].at = "launch" => cvTask[t].at = "launch" \/ (PublishVolume(t) /\ t \in cvTarget')
           /\ cvTask'[t].at \in TeardownSteps =>
                 \/ cvTask[t].at \in TeardownSteps /\ cvTask'[t].of = cvTask[t].of
                 \/ t \in Users /\ (BeginStop(t) \/ (LaunchUser(t) /\ UNCHANGED cvKnown))
                 \/ t \in Sweeps /\ \E u \in cvTodo[t] : SweepNext(t) /\ ~ Spared(t, u) /\ cvTask'[t].of = u
<1>0. Users \subseteq Tasks /\ Sweeps \subseteq Tasks /\ Users \cap Sweeps = {} /\ "sweep" \in Sweeps
    BY CsiAssumption DEF Tasks, Sweeps
<1>1. ASSUME cvTask'[t].at = cvTask[t].at, cvTask'[t].of = cvTask[t].of PROVE Told
    BY <1>1
<1>2. ASSUME cvTask'[t].at = "idle" \/ (cvTask'[t].at \in {"list", "next"} /\ t \in Sweeps) PROVE Told
    BY <1>0, <1>2 DEF StartSteps, TeardownSteps
<1>3. ASSUME NEW x \in Tasks, NEW a, NEW o, CvStep(x, a, o), x # t PROVE Told
    BY <1>1, <1>3 DEF CvStep
<1>4. ASSUME NEW a, NEW o, CvStep(t, a, o) PROVE cvTask'[t].at = a /\ cvTask'[t].of = o
    BY <1>4 DEF CvStep
<1>5. ASSUME NEW u \in Users, BeginPublish(u) \/ BeginStop(u) PROVE Told
    <2>1. (CvStep(u, "record", u) /\ BeginPublish(u)) \/ (CvStep(u, "read", u) /\ BeginStop(u))
        <3>1. ASSUME BeginPublish(u) PROVE CvStep(u, "record", u)
            BY <3>1, CvStartActs
        <3>2. ASSUME BeginStop(u) PROVE CvStep(u, "read", u)
            BY <3>2, CvStartActs
        <3> QED BY <1>5, <3>1, <3>2
    <2>2. CASE u = t
        BY <1>0, <1>4, <2>1, <2>2 DEF StartSteps, TeardownSteps
    <2> QED BY <1>0, <1>3, <2>1, <2>2
<1>6. ASSUME NEW u \in Users, WriteVolData(u) \/ StageVolume(u) \/ PublishVolume(u) PROVE Told
    <2>1. \E a, o : /\ CvStep(u, a, o) /\ a \in {"idle", "stage", "publish", "launch"}
                    /\ a = "launch" => PublishVolume(u) /\ u \in cvTarget'
        <3>1. CASE WriteVolData(u)
            <4>1. CvStep(u, "stage", u) \/ CvStep(u, "idle", "free")
                BY <3>1, CvStartActs
            <4> QED BY <4>1
        <3>2. CASE StageVolume(u)
            <4>1. CvStep(u, "publish", u) \/ CvStep(u, "idle", "free")
                BY <3>2, CvStartActs
            <4> QED BY <4>1
        <3>3. CASE PublishVolume(u)
            <4>1. \/ CvStep(u, "launch", u) /\ cvTarget' = cvTarget \cup {u}
                  \/ CvStep(u, "idle", "free")
                BY <3>3, CvStartActs
            <4> QED BY <3>3, <4>1
        <3> QED BY <1>6, <3>1, <3>2, <3>3
    <2>2. cvTask[u].at \in StartSteps /\ cvTask[u].at # "idle"
        BY <1>6 DEF WriteVolData, StageVolume, PublishVolume, Task, StartSteps
    <2>3. CASE u = t
        BY <1>0, <1>4, <2>1, <2>2, <2>3 DEF StartSteps, TeardownSteps
    <2> QED BY <1>0, <1>3, <2>1, <2>3
<1>7. ASSUME NEW u \in Users, LaunchUser(u) PROVE Told
    <2>1. \E a, o : CvStep(u, a, o) /\ (a = "idle" \/ (a = "read" /\ UNCHANGED cvKnown))
        <3>1. CvStep(u, "idle", "free") \/ (CvStep(u, "read", u) /\ UNCHANGED cvKnown)
            BY <1>7, CvStartActs
        <3> QED BY <3>1
    <2>2. cvTask[u].at # "idle"
        BY <1>7 DEF LaunchUser, Task
    <2>3. CASE u = t
        BY <1>0, <1>4, <1>7, <2>1, <2>2, <2>3 DEF StartSteps, TeardownSteps
    <2> QED BY <1>0, <1>3, <2>1, <2>3
<1>8. ASSUME NEW x \in Tasks, Teardown(x) PROVE Told
    <2>1. \E a, o : /\ CvStep(x, a, o)
                    /\ a = "idle" \/ (a \in TeardownSteps /\ o = cvTask[x].of)
        BY <1>8, CvTeardownActs DEF Teardown, TeardownSteps
    <2>2. cvTask[x].at \in TeardownSteps /\ cvTask[x].at # "idle"
        BY <1>8 DEF Teardown, ReadVolData, LockVolume, UnpublishVolume, UnstageVolume, RemoveVolData, Clean,
               Task, TeardownSteps
    <2>3. CASE x = t
        BY <1>4, <2>1, <2>2, <2>3 DEF StartSteps, TeardownSteps
    <2> QED BY <1>3, <2>1, <2>3
<1>9. ASSUME NEW s \in Sweeps, BeginSweep(s) \/ ListUsers PROVE Told
    <2>1. \E x \in Sweeps : \E a, o : CvStep(x, a, o) /\ a \in {"idle", "list", "next"}
        BY <1>0, <1>9, CvSweepActs
    <2> QED BY <1>0, <1>2, <1>3, <1>4, <2>1
<1>10. ASSUME NEW s \in Sweeps, SweepNext(s) PROVE Told
    <2>1. \/ \E a, o : CvStep(s, a, o) /\ a \in {"idle", "next"}
          \/ \E u \in cvTodo[s] : ~ Spared(s, u) /\ CvStep(s, "read", u)
        BY <1>10, CvSweepActs
    <2>2. CASE s = t /\ \E a, o : CvStep(s, a, o) /\ a \in {"idle", "next"}
        BY <1>2, <1>4, <2>2
    <2>3. CASE s = t /\ \E u \in cvTodo[s] : ~ Spared(s, u) /\ CvStep(s, "read", u)
        BY <1>0, <1>4, <1>10, <2>3 DEF StartSteps
    <2>4. CASE s # t
        BY <1>0, <1>3, <2>1, <2>4
    <2> QED BY <2>1, <2>2, <2>3, <2>4
<1>11. ASSUME KubeletRestarts PROVE Told
    BY <1>2, <1>11 DEF KubeletRestarts, AtRest
<1>12. ASSUME NEW u \in Users, ObjectChanges(u) PROVE Told
    BY <1>1, <1>12 DEF ObjectChanges
<1>13. ASSUME UNCHANGED cvVars PROVE Told
    BY <1>1, <1>13 DEF cvVars
<1> HIDE DEF Told
<1>14. Told
    <2>1. ASSUME NEW u \in Users, UserPass(u) PROVE Told
        BY <1>0, <1>5, <1>6, <1>7, <1>8, <2>1 DEF UserPass
    <2>2. ASSUME NEW s \in Sweeps, SweepStep(s) PROVE Told
        BY <1>0, <1>8, <1>9, <1>10, <2>2 DEF SweepStep
    <2>3. CvNext \/ UNCHANGED cvVars
        OBVIOUS
    <2>4. CASE CvNext
        BY <1>11, <1>12, <2>1, <2>2, <2>4 DEF CvNext
    <2> QED BY <1>13, <2>3, <2>4
<1> QED BY <1>14 DEF Told

\* A holder that is being started is not up; one that never had an object has nothing.
LEMMA CvUpsStep == CvInv /\ [CvNext]_cvVars => NotYetUp' /\ WasThere'
<1> SUFFICES ASSUME CvInv, [CvNext]_cvVars, NEW u \in Users
             PROVE  /\ cvTask'[u].at \in StartSteps => u \notin cvKnown'
                    /\ cvObj'[u] = "none" => u \notin cvKnown' /\ u \notin cvRec' /\ cvTask'[u].at = "idle"
    BY DEF NotYetUp, WasThere
<1>1. NotYetUp /\ WasThere /\ u \in Tasks /\ "idle" \notin StartSteps
    BY DEF CvInv, Tasks, StartSteps
<1>2. u \in cvKnown' => u \in cvKnown \/ (LaunchUser(u) /\ cvTask'[u].at = "idle")
    BY <1>1, CvUps DEF CvStep
<1>3. cvTask'[u].at \in StartSteps => u \notin cvKnown'
    <2>1. BeginPublish(u) => u \notin cvKnown
        BY DEF BeginPublish
    <2> QED BY <1>1, <1>2, <2>1, CvGoesOn DEF NotYetUp
<1>4. ASSUME cvObj'[u] = "none" PROVE u \notin cvKnown' /\ u \notin cvRec' /\ cvTask'[u].at = "idle"
    <2>1. cvObj[u] = "none"
        BY <1>4, CvObjects
    <2>2. u \notin cvKnown /\ u \notin cvRec /\ cvTask[u].at = "idle"
        BY <1>1, <2>1 DEF WasThere
    <2>3. ~ LaunchUser(u) /\ ~ WriteVolData(u) /\ ~ BeginPublish(u) /\ ~ BeginStop(u)
        BY <2>1, <2>2 DEF LaunchUser, WriteVolData, BeginPublish, BeginStop, Task
    <2>4. cvTask'[u].at = "idle"
        BY <1>1, <2>2, <2>3, CvGoesOn
    <2>5. u \notin cvKnown'
        BY <1>2, <2>2, <2>3
    <2>6. u \notin cvRec'
        <3>1. CASE \A x \in Tasks : ~ CvCalls(x)
            BY <2>2, <3>1, CvQuiet
        <3>2. ASSUME NEW x \in Tasks, CvCalls(x) PROVE u \notin cvRec'
            <4>1. x \in Users /\ WriteVolData(x) => x # u /\ cvRec' \subseteq cvRec \cup {x}
                BY <2>3 DEF WriteVolData
            <4>2. StageVolume(x) \/ PublishVolume(x) \/ UnpublishVolume(x) \/ UnstageVolume(x) \/ RemoveVolData(x)
                  => cvRec' \subseteq cvRec
                BY DEF StageVolume, PublishVolume, UnpublishVolume, UnstageVolume, RemoveVolData
            <4> QED BY <2>2, <3>2, <4>1, <4>2 DEF CvCalls
        <3> QED BY <3>1, <3>2
    <2> QED BY <2>4, <2>5, <2>6
<1> QED BY <1>3, <1>4

\* What a sweep still has to look at it had before, and the Pods it saw live are
\* struck out; or it begins, with the records.
LEMMA CvTodos ==
    ASSUME CvInv, [CvNext]_cvVars, NEW s \in Sweeps, NEW u \in cvTodo'[s]
    PROVE  \/ /\ u \in cvTodo[s]
              /\ s = "sweep" /\ cvTask[s].at = "list" => cvTask'[s].at = "list" \/ cvObj[u] # "live"
           \/ u \in cvRec /\ (s = "sweep" => cvTask'[s].at = "list")
<1> DEFINE Told ==
           \/ /\ u \in cvTodo[s]
              /\ s = "sweep" /\ cvTask[s].at = "list" => cvTask'[s].at = "list" \/ cvObj[u] # "live"
           \/ u \in cvRec /\ (s = "sweep" => cvTask'[s].at = "list")
<1>1. /\ CvTypeOK /\ Sweeps \subseteq Tasks /\ Users \subseteq Tasks /\ "sweep" \in Sweeps
      /\ s \notin Users /\ cvTodo \in [Sweeps -> SUBSET Users]
    BY CsiAssumption DEF CvInv, CvTypeOK, Tasks, Sweeps
<1>2. ASSUME UNCHANGED cvTodo, NEW x \in Tasks, NEW a, NEW o, CvStep(x, a, o), x # s \/ cvTask[s].at # "list"
      PROVE  Told
    BY <1>1, <1>2 DEF CvStep
<1>3. ASSUME NEW x \in Tasks, Teardown(x) PROVE Told
    <2>1. UNCHANGED cvTodo /\ cvTask[x].at # "list"
        BY <1>3 DEF Teardown, ReadVolData, LockVolume, UnpublishVolume, UnstageVolume, RemoveVolData, Clean, cvNode, Task
    <2>2. \E a, o : CvStep(x, a, o)
        BY <1>3, CvTeardownActs DEF Teardown
    <2> QED BY <1>2, <2>1, <2>2
<1>4. ASSUME NEW x \in Users, UserPass(x) PROVE Told
    <2>1. CASE Teardown(x)
        BY <1>1, <1>3, <2>1
    <2>2. CASE ~ Teardown(x)
        <3>1. \/ BeginPublish(x) \/ WriteVolData(x) \/ StageVolume(x) \/ PublishVolume(x) \/ LaunchUser(x)
              \/ BeginStop(x)
            BY <1>4, <2>2 DEF UserPass
        <3>2. UNCHANGED cvTodo
            BY <3>1 DEF BeginPublish, WriteVolData, StageVolume, PublishVolume, LaunchUser, BeginStop, cvNode
        <3>3. \E a, o : CvStep(x, a, o)
            BY <3>1, CvStartActs
        <3> QED BY <1>1, <1>2, <3>2, <3>3
    <2> QED BY <2>1, <2>2
<1>5. ASSUME NEW x \in Sweeps, BeginSweep(x) PROVE Told
    <2>1. cvTodo' = [cvTodo EXCEPT ![x] = cvRec \cap SweptBy(x)] /\ cvTask[x].at # "list"
        BY <1>5 DEF BeginSweep, Task
    <2>2. CvStep(x, IF x = "sweep" THEN "list" ELSE "next", "free")
        BY <1>5, CvSweepActs
    <2>3. CASE x = s
        BY <1>1, <2>1, <2>2, <2>3 DEF CvStep
    <2>4. CASE x # s
        BY <1>1, <2>1, <2>2, <2>4 DEF CvStep
    <2> QED BY <2>3, <2>4
<1>6. ASSUME ListUsers PROVE Told
    <2>1. \/ cvTodo' = [cvTodo EXCEPT !["sweep"] = {w \in @ : cvObj[w] \notin {"live", "deleting"}}]
          \/ cvTodo' = [cvTodo EXCEPT !["sweep"] = {}]
        BY <1>6 DEF ListUsers
    <2> QED BY <1>1, <2>1
<1>7. ASSUME NEW x \in Sweeps, SweepNext(x) PROVE Told
    <2>1. cvTodo'[s] \subseteq cvTodo[s] /\ cvTask[x].at # "list"
        BY <1>1, <1>7 DEF SweepNext, Task
    <2>2. \E a, o : CvStep(x, a, o)
        BY <1>7, CvSweepActs
    <2> QED BY <1>1, <2>1, <2>2 DEF CvStep
<1>8. ASSUME KubeletRestarts PROVE Told
    BY <1>1, <1>8 DEF KubeletRestarts
<1>9. ASSUME NEW w \in Users, ObjectChanges(w) PROVE Told
    BY <1>9 DEF ObjectChanges
<1>10. ASSUME UNCHANGED cvVars PROVE Told
    BY <1>10 DEF cvVars
<1> HIDE DEF Told
<1>11. Told
    <2>1. ASSUME NEW x \in Sweeps, SweepStep(x) PROVE Told
        BY <1>1, <1>3, <1>5, <1>6, <1>7, <2>1 DEF SweepStep
    <2>2. CvNext \/ UNCHANGED cvVars
        OBVIOUS
    <2>3. CASE CvNext
        BY <1>4, <1>8, <1>9, <2>1, <2>3 DEF CvNext
    <2> QED BY <1>10, <2>2, <2>3
<1> QED BY <1>11 DEF Told

\* What is torn down is wanted by nobody.
LEMMA CvUnwantedStep == CvInv /\ [CvNext]_cvVars => TornDownUnwanted'
<1> SUFFICES ASSUME CvInv, [CvNext]_cvVars PROVE TornDownUnwanted'
    OBVIOUS
<1>1. /\ TornDownUnwanted /\ WasThere /\ NotYetUp /\ Whose /\ Users \subseteq Tasks /\ Sweeps \subseteq Tasks
      /\ Users \cap Sweeps = {} /\ cvTodo \in [Sweeps -> SUBSET Users]
      /\ "sweep" \in Sweeps
    BY CsiAssumption DEF CvInv, CvTypeOK, Tasks, Sweeps
<1>2. ASSUME NEW u \in Users, cvObj[u] \notin {"none", "live"} PROVE cvObj'[u] \notin {"none", "live"}
    BY <1>2, CvObjects
<1>3. ASSUME NEW u \in Users, cvTask'[u].at \in TeardownSteps PROVE u \notin cvKnown' \/ cvObj'[u] # "live"
    <2>1. u \in cvKnown' => u \in cvKnown
        <3>1. "idle" \notin TeardownSteps
            BY DEF TeardownSteps
        <3> QED BY <1>1, <1>3, <3>1, CvUps DEF CvStep
    <2>2. u \notin cvKnown \/ cvObj[u] \notin {"none", "live"}
        <3>1. u \notin cvKnown \/ cvObj[u] # "live"
            <4>1. CASE cvTask[u].at \in TeardownSteps
                BY <1>1, <4>1 DEF TornDownUnwanted
            <4>2. CASE BeginStop(u)
                BY <4>2 DEF BeginStop
            <4>3. CASE LaunchUser(u)
                BY <1>1, <4>3 DEF LaunchUser, NotYetUp, Task, StartSteps
            <4> QED BY <1>1, <1>3, <4>1, <4>2, <4>3, CvGoesOn
        <3> QED BY <1>1, <3>1 DEF WasThere
    <2> QED BY <1>2, <2>1, <2>2
<1>4. ASSUME NEW s \in Sweeps, cvTask'[s].at \in TeardownSteps PROVE cvObj'[cvTask'[s].of] \notin {"none", "live"}
    <2>1. CASE cvTask[s].at \in TeardownSteps /\ cvTask'[s].of = cvTask[s].of
        <3>1. cvTask[s].of \in Users /\ cvObj[cvTask[s].of] \notin {"none", "live"}
            BY <1>1, <2>1 DEF Whose, TornDownUnwanted
        <3> QED BY <1>2, <2>1, <3>1
    <2>2. ASSUME NEW u \in cvTodo[s], SweepNext(s), ~ Spared(s, u), cvTask'[s].of = u
          PROVE  cvObj'[u] \notin {"none", "live"}
        <3>1. u \in Users /\ cvObj[u] # "none" /\ (s = "sweep" => cvTask[s].at # "list")
            BY <1>1, <2>2 DEF TornDownUnwanted, SweepNext, Task
        <3>2. cvObj[u] # "live"
            BY <1>1, <2>2, <3>1 DEF TornDownUnwanted, Spared, Sweeps
        <3> QED BY <1>2, <3>1, <3>2
    <2> QED BY <1>1, <1>4, <2>1, <2>2, CvGoesOn
<1>5. ASSUME NEW s \in Sweeps, NEW u \in cvTodo'[s]
      PROVE  /\ cvObj'[u] # "none"
             /\ s = "sweep" /\ cvTask'[s].at # "list" => cvObj'[u] # "live"
    <2>1. u \in Users /\ cvObj[u] # "none"
        BY <1>1, <1>5, CvTodos DEF TornDownUnwanted, WasThere, CvInv, CvTypeOK
    <2>2. s = "sweep" /\ cvTask'[s].at # "list" => cvObj[u] # "live"
        BY <1>1, <1>5, CvTodos DEF TornDownUnwanted
    <2> QED BY <1>2, <2>1, <2>2, CvObjects
<1> QED BY <1>1, <1>3, <1>4, <1>5 DEF TornDownUnwanted

\* One that is up, or on its way, with its object there, keeps its volume.
LEMMA CvUpKeeps == CvInv /\ [CvNext]_cvVars => UpKeepsVolume'
<1> SUFFICES ASSUME CvInv, [CvNext]_cvVars, NEW u \in Users,
                    cvObj'[u] = "live", u \in cvKnown' \/ cvTask'[u].at = "launch"
             PROVE  u \in cvTarget'
    BY DEF UpKeepsVolume, Task
<1>1. /\ TornDownUnwanted /\ WasThere /\ Whose /\ UpKeepsVolume /\ Users \subseteq Tasks
      /\ Tasks = Users \cup Sweeps /\ "idle" \notin StartSteps
    BY DEF CvInv, Tasks, VolumeKept, StartSteps
<1>2. CASE cvTask'[u].at = "launch" /\ PublishVolume(u) /\ u \in cvTarget'
    BY <1>2
<1>3. CASE u \in cvKnown \/ cvTask[u].at = "launch"
    <2>1. cvObj[u] = "live"
        BY <1>1, <1>3, CvObjects DEF WasThere
    <2>2. u \in cvTarget
        BY <1>1, <1>3, <2>1 DEF UpKeepsVolume, Task
    <2>3. ASSUME NEW x \in Tasks, UnpublishVolume(x) PROVE cvTask[x].of # u
        <3>1. cvTask[x].at = "unpublish" /\ "unpublish" \in TeardownSteps /\ "unpublish" # "idle"
            BY <2>3 DEF UnpublishVolume, Task, TeardownSteps
        <3>2. CASE x \in Users /\ cvTask[x].of = u
            <4>1. x = u
                BY <1>1, <3>1, <3>2 DEF Whose
            <4> QED BY <1>1, <1>3, <2>1, <3>1, <4>1 DEF TornDownUnwanted
        <3>3. CASE x \in Sweeps
            BY <1>1, <2>1, <3>1, <3>3 DEF TornDownUnwanted
        <3> QED BY <1>1, <3>2, <3>3
    <2>4. CASE \A x \in Tasks : ~ CvCalls(x)
        BY <2>2, <2>4, CvQuiet
    <2>5. ASSUME NEW x \in Tasks, CvCalls(x) PROVE u \in cvTarget'
        <3>1. UnpublishVolume(x) => cvTarget \ {cvTask[x].of} \subseteq cvTarget'
            BY DEF UnpublishVolume
        <3>2. WriteVolData(x) \/ StageVolume(x) \/ PublishVolume(x) \/ UnstageVolume(x) \/ RemoveVolData(x)
              => cvTarget \subseteq cvTarget'
            BY DEF WriteVolData, StageVolume, PublishVolume, UnstageVolume, RemoveVolData, cvDriver
        <3> QED BY <2>2, <2>3, <2>5, <3>1, <3>2 DEF CvCalls
    <2> QED BY <2>4, <2>5
<1>4. u \in cvKnown' /\ u \notin cvKnown => cvTask[u].at = "launch"
    BY CvUps DEF LaunchUser, Task
<1>5. cvTask'[u].at = "launch" => cvTask[u].at = "launch" \/ (PublishVolume(u) /\ u \in cvTarget')
    BY <1>1, CvGoesOn
<1> QED BY <1>2, <1>3, <1>4, <1>5

\* The types; who has the lock is between two calls to the driver.
LEMMA CvTypeStep == CvInv /\ [CvNext]_cvVars => CvTypeOK'
<1> SUFFICES ASSUME CvInv, [CvNext]_cvVars PROVE CvTypeOK'
    OBVIOUS
<1>1. CvTypeOK /\ Users \subseteq Tasks /\ Sweeps \subseteq Tasks /\ "free" \notin Tasks
    BY CsiAssumption DEF CvInv, Tasks, Sweeps
<1>2. cvObj' \in [Users -> {"none", "live", "over", "deleting", "gone"}]
    BY ZenonT(60), <1>1 DEF CvTypeOK, CvNext, UserPass, SweepStep, Teardown, BeginPublish, WriteVolData, StageVolume, PublishVolume,
           LaunchUser, BeginStop, ReadVolData, LockVolume, UnpublishVolume, UnstageVolume, RemoveVolData, Clean,
           BeginSweep, ListUsers, SweepNext, ObjectChanges, KubeletRestarts, cvNode, cvVars
<1>3. cvKnown' \subseteq Users
    <2>1. \A u : u \in cvKnown' => u \in Users
        BY ZenonT(60), <1>1 DEF CvTypeOK, CvNext, UserPass, SweepStep, Teardown, BeginPublish, WriteVolData, StageVolume,
           PublishVolume, LaunchUser, BeginStop, ReadVolData, LockVolume, UnpublishVolume, UnstageVolume, RemoveVolData,
           Clean, BeginSweep, ListUsers, SweepNext, ObjectChanges, KubeletRestarts, cvNode, cvVars
    <2> QED BY <2>1
<1>4. cvRec' \subseteq Users /\ cvTarget' \subseteq Users /\ cvStaged' \in BOOLEAN
    <2>1. CASE \A x \in Tasks : ~ CvCalls(x)
        BY <1>1, <2>1, CvQuiet DEF CvTypeOK
    <2>2. ASSUME NEW x \in Tasks, CvCalls(x) PROVE cvRec' \subseteq Users /\ cvTarget' \subseteq Users /\ cvStaged' \in BOOLEAN
        BY <1>1, <2>2 DEF CvTypeOK, CvCalls, WriteVolData, StageVolume, PublishVolume, UnpublishVolume, UnstageVolume,
             RemoveVolData, cvDriver
    <2> QED BY <2>1, <2>2
<1>5. cvTodo' \in [Sweeps -> SUBSET Users]
    <2>1. CASE KubeletRestarts
        BY <2>1 DEF KubeletRestarts
    <2>2. UNCHANGED cvTodo \/ KubeletRestarts \/ \E s \in Sweeps : BeginSweep(s) \/ ListUsers \/ SweepNext(s)
        BY DEF CvNext, UserPass, SweepStep, Teardown, BeginPublish, WriteVolData, StageVolume,
           PublishVolume, LaunchUser, BeginStop, ReadVolData, LockVolume, UnpublishVolume, UnstageVolume, RemoveVolData,
           Clean, ObjectChanges, cvNode, cvVars
    <2>3. cvTodo \in [Sweeps -> SUBSET Users] /\ cvRec \subseteq Users
        BY <1>1 DEF CvTypeOK
    <2>4. ASSUME NEW s \in Sweeps, BeginSweep(s) PROVE cvTodo' \in [Sweeps -> SUBSET Users]
        BY <2>3, <2>4 DEF BeginSweep
    <2>5. ASSUME ListUsers PROVE cvTodo' \in [Sweeps -> SUBSET Users]
        BY <2>3, <2>5 DEF ListUsers
    <2>6. ASSUME NEW s \in Sweeps, SweepNext(s) PROVE cvTodo' \in [Sweeps -> SUBSET Users]
        BY <2>3, <2>6 DEF SweepNext
    <2> QED BY <2>1, <2>2, <2>3, <2>4, <2>5, <2>6
<1>6. /\ cvTask' \in [Tasks -> CvTaskType]
      /\ cvLock' \in Tasks \cup {"free"}
      /\ cvLock' # "free" => cvTask'[cvLock'].at \in LockSteps
    <2>1. /\ cvTask \in [Tasks -> CvTaskType] /\ cvLock \in Tasks \cup {"free"}
          /\ cvLock # "free" => cvTask[cvLock].at \in LockSteps
        BY <1>1, CvTasksTyped DEF CvTypeOK, LockSteps
    <2>2. ASSUME NEW t \in Tasks, NEW a, NEW o, CvStep(t, a, o)
          PROVE  /\ cvTask' \in [Tasks -> CvTaskType]
                 /\ cvLock' \in Tasks \cup {"free"}
                 /\ cvLock' # "free" => cvTask'[cvLock'].at \in LockSteps
        <3>1. HasLock
            BY DEF CvInv
        <3> QED BY <1>1, <2>1, <2>2, <3>1 DEF CvStep, HasLock
    <2>3. CASE UNCHANGED <<cvTask, cvLock>>
        BY <2>1, <2>3
    <2>4. CASE KubeletRestarts
        <3>1. cvTask' = [t \in Tasks |-> AtRest] /\ cvLock' = "free"
            BY <2>4 DEF KubeletRestarts
        <3>2. AtRest \in CvTaskType
            BY DEF AtRest, CvTaskType, CvAtSteps
        <3> QED BY <3>1, <3>2
    <2> QED BY <2>2, <2>3, <2>4, CvTaskSteps DEF cvVars
<1> QED BY <1>2, <1>3, <1>4, <1>5, <1>6 DEF CvTypeOK, CvTaskType, CvAtSteps, StartSteps, TeardownSteps, LockSteps

LEMMA CvInvStep == CvInv /\ [CvNext]_cvVars => CvInv'
BY CvLockStep, CvDriverStep, CvUpsStep, CvUnwantedStep, CvUpKeeps, CvTypeStep DEF CvInv, VolumeKept

\* The types of a volume, its records, its lock, and the tasks that are at it.
THEOREM CsiTypeCorrect == CvSpec => []CvTypeOK
<1>1. CvInv => CvTypeOK
    BY DEF CvInv
<1> QED BY <1>1, CvInvInit, CvInvStep, PTL DEF CvSpec

\* What the driver has of a volume is on record, and the volume is never taken
\* from a holder that is up, whichever starts, stops, sweeps, failed calls and
\* deaths of the kubelet interleave.
THEOREM VolumeKeptHolds == CvSpec => []VolumeKept
<1>1. CvInv => VolumeKept
    BY DEF CvInv
<1> QED BY <1>1, CvInvInit, CvInvStep, PTL DEF CvSpec

-----------------------------------------------------------------------------
(* A disk move (VmDiskMove). *)

CopyIds == 1..MaxMoves
DmStages == {"idle", "mark", "pause", "cutover", "attach", "switch", "record", "unpause", "undo",
             "detach", "complete", "write"}
DmMigration == [st : {"none", "copying", "synced", "cut_over", "completed", "aborted", "failed"},
                from : Volumes \cup {Blank}]
CutOverStates == {"cut_over", "completed"}
MirrorStates == {"none", "copying", "synced"}
UnderWay(r) == r.st \in {"copying", "switching"}

\* The records there are: the annotation's, the kubelet's, the pass's.
DmRecs == {dmNote, Now} \cup (IF dmAt = "idle" THEN {} ELSE {dmCur})

\* A volume of the guest's, or that the kubelet takes for it, is 0 or was cut over to.
OnCutOver ==
    /\ dmOn \in Volumes /\ dmKnown \in Volumes /\ dmReg \in Volumes
    /\ \A i \in {dmOn, dmKnown, dmReg} : i # 0 => dmMig[i].st \in CutOverStates

\* A copy is of another volume, 0 or one that was itself cut over to.
FromOthers ==
    \A i \in CopyIds : dmMig[i].st # "none" =>
        /\ dmMig[i].from # i
        /\ dmMig[i].from # 0 => dmMig[i].from \in CopyIds /\ dmMig[dmMig[i].from].st \notin MirrorStates

\* A copy under way is there, and one in sync with the guest's volume is not behind.
MirrorsFresh ==
    \A i \in CopyIds : /\ dmMig[i].st \in MirrorStates => i \notin dmGone
                       /\ dmMig[i].st = "synced" /\ dmMig[i].from = dmOn => i \in dmFresh

\* A record under way is of a copy of the guest's volume, that nobody else uses,
\* or of a switch that was made; one that is over is of the guest's.
RecordRight(r) ==
    /\ UnderWay(r) =>
        /\ r.id \in CopyIds /\ dmMig[r.id].st # "none"
        /\ dmMig[r.id].from = dmOn \/ (r.st = "switching" /\ r.id = dmOn)
        /\ r.id # dmOn => /\ r.id # dmKnown /\ r.id # dmReg
                          /\ \A i \in CopyIds : dmMig[i].st # "none" => dmMig[i].from # r.id
        /\ r.st = "copying" => dmMig[r.id].st \notin CutOverStates
    /\ OnCopy(r) => r.id \in CopyIds /\ r.id = dmOn

\* Where the kubelet, or its registration, has the disk on another volume than
\* the guest's, that is gone, or it is the source of the switch on record.
Behind(k, r) ==
    \/ k = dmOn \/ k \in dmGone
    \/ dmOn \in CopyIds /\ k = dmMig[dmOn].from /\ r.id = dmOn /\ r.st \in {"switching", "switched", "unknown"}
RecordOk(r) == RecordRight(r) /\ Behind(dmKnown, r) /\ Behind(dmReg, r)

\* A switch over in order: on record before the guest stops, cut over while it is
\* stopped, attached before it is switched to, said switched once it is.
SwitchOrder ==
    /\ dmAt = "mark" => dmCur.st = "copying"
    /\ dmAt \in {"pause", "cutover", "attach", "switch", "undo", "record"} =>
         dmNote = dmCur /\ dmMem = dmCur /\ dmCur.st = "switching"
    /\ dmAt \in {"pause", "cutover", "attach", "switch", "undo"} => dmMig[dmCur.id].from = dmOn
    /\ dmAt \in {"mark", "pause", "cutover"} => dmMig[dmCur.id].st \in {"synced", "failed"}
    /\ dmAt \in {"cutover", "attach", "switch"} => dmGuest # "running"
    /\ dmAt \in {"attach", "switch"} =>
         dmMig[dmCur.id].st = "cut_over" /\ dmCur.id \in dmFresh /\ dmCur.id \notin dmGone
    /\ dmAt \in {"unpause", "detach", "complete"} => dmCur.st = "switched"
    /\ dmAt \in {"record", "unpause", "detach", "complete"} => dmCur.id = dmOn

DisksRight == OnCutOver /\ FromOthers /\ MirrorsFresh /\ dmOn \in dmFresh /\ dmOn \notin dmGone
DmSafe == DisksRight /\ (\A r \in DmRecs : RecordOk(r)) /\ SwitchOrder

\* A record of a copy begun, and a pass beyond its first look, name the copy.
OfCopy(r) == r.st \in {"copying", "switching", "switched", "moved", "unknown"} => r.id \in CopyIds
DmCopied ==
    /\ OfCopy(dmNote) /\ OfCopy(dmMem) /\ OfCopy(dmCur)
    /\ dmAt \notin {"idle", "write"} => dmCur.id \in CopyIds

DmInv == DmTypeOK /\ DmCopied /\ (~ dmAstray => DmSafe)

LEMMA DmTypes ==
    DmTypeOK <=>
        /\ dmAsk \in Places /\ dmNote \in Moves /\ dmMem \in Moves /\ dmCur \in Moves /\ dmAt \in DmStages
        /\ dmMig \in [CopyIds -> DmMigration] /\ dmGone \subseteq Volumes \cup {Blank}
        /\ dmFresh \subseteq Volumes \cup {Blank} /\ dmOn \in Volumes \cup {Blank}
        /\ dmKnown \in Volumes \cup {Blank} /\ dmReg \in Volumes \cup {Blank} /\ dmGuest \in {"running", "paused", "off"}
BY DEF DmTypeOK, DmStages, CopyIds, DmMigration

LEMMA DmTypesNext ==
    DmTypeOK' <=>
        /\ (dmAsk \in Places /\ dmNote \in Moves /\ dmMem \in Moves /\ dmCur \in Moves /\ dmAt \in DmStages)'
        /\ (dmMig \in [CopyIds -> DmMigration] /\ dmGone \subseteq Volumes \cup {Blank})'
        /\ (dmFresh \subseteq Volumes \cup {Blank} /\ dmOn \in Volumes \cup {Blank})'
        /\ (dmKnown \in Volumes \cup {Blank} /\ dmReg \in Volumes \cup {Blank} /\ dmGuest \in {"running", "paused", "off"})'
BY DEF DmTypeOK, DmStages, CopyIds, DmMigration

LEMMA DmNumbers ==
    /\ MaxMoves \in Nat /\ CopyIds \subseteq Volumes /\ 0 \in Volumes /\ 0 \notin CopyIds /\ Blank \notin Volumes
    /\ \A i \in Volumes : i # 0 => i \in CopyIds
BY VmDiskMoveAssumption DEF CopyIds, Volumes, Blank

\* What is made of a record, and what a move begins with.
LEMMA DmRecords ==
    /\ NoMove \in Moves /\ NoMove.st = "none"
    /\ \A st \in {"copying", "failed"}, to \in Places, node \in Places, from \in Volumes \cup {Blank}, id \in Volumes :
         /\ MoveTo(st, to, node, from, id) \in Moves /\ MoveTo(st, to, node, from, id).st = st
         /\ MoveTo(st, to, node, from, id).id = id
    /\ \A r \in Moves, st \in {"copying", "switching", "switched", "moved", "failed", "unknown"} :
         [r EXCEPT !.st = st] \in Moves /\ [r EXCEPT !.st = st].st = st /\ [r EXCEPT !.st = st].id = r.id
<1>1. NoMove \in Moves /\ NoMove.st = "none"
    BY DmNumbers DEF NoMove, MoveTo, Moves, Places
<1>2. \A st \in {"copying", "failed"}, to \in Places, node \in Places, from \in Volumes \cup {Blank}, id \in Volumes :
         /\ MoveTo(st, to, node, from, id) \in Moves /\ MoveTo(st, to, node, from, id).st = st
         /\ MoveTo(st, to, node, from, id).id = id
    BY DEF MoveTo, Moves
<1>3. \A r \in Moves, st \in {"copying", "switching", "switched", "moved", "failed", "unknown"} :
         [r EXCEPT !.st = st] \in Moves /\ [r EXCEPT !.st = st].st = st /\ [r EXCEPT !.st = st].id = r.id
    BY DEF Moves
<1> QED BY <1>1, <1>2, <1>3

LEMMA DmNow == DmTypeOK => Now \in Moves /\ LocationOf(Now) \in Places
BY DmTypes DEF Now, LocationOf, Moves

-----------------------------------------------------------------------------
(* What the store does to the disks and the records. *)

\* Migration i goes from its state to s, and the others stay.
MigAt(i, s) ==
    /\ dmMig' \in [CopyIds -> DmMigration]
    /\ \A j \in CopyIds : dmMig'[j].from = dmMig[j].from /\ dmMig'[j].st = IF j = i THEN s ELSE dmMig[j].st

LEMMA DmMigs ==
    ASSUME DmTypeOK, NEW i \in CopyIds,
           NEW s \in {"synced", "cut_over", "completed", "aborted", "failed"}, MigIs(i, s)
    PROVE  MigAt(i, s)
<1>1. dmMig \in [CopyIds -> DmMigration] /\ dmMig' = [dmMig EXCEPT ![i].st = s]
    BY DmTypes DEF MigIs
<1>2. \A m \in DmMigration : [m EXCEPT !.st = s] \in DmMigration /\ [m EXCEPT !.st = s].st = s
                             /\ [m EXCEPT !.st = s].from = m.from
    BY DEF DmMigration
<1>3. \A j \in CopyIds : dmMig'[j] = IF j = i THEN [dmMig[j] EXCEPT !.st = s] ELSE dmMig[j]
    BY <1>1
<1>4. dmMig' \in [CopyIds -> DmMigration]
    BY <1>1, <1>2, <1>3
<1> QED BY <1>1, <1>2, <1>3, <1>4 DEF MigAt

\* A record stays right while the migrations go on, no copy under way is cut over
\* to, and a new one is of the guest's volume.
LEMMA DmRecordKept ==
    ASSUME NEW r, RecordOk(r), UNCHANGED <<dmOn, dmKnown, dmReg>>, dmGone \subseteq dmGone',
           dmOn \in CopyIds => dmMig[dmOn].st # "none",
           \A j \in CopyIds : dmMig[j].st # "none" => dmMig'[j].st # "none" /\ dmMig'[j].from = dmMig[j].from,
           \A j \in CopyIds : dmMig[j].st = "none" /\ dmMig'[j].st # "none" => dmMig'[j].from = dmOn,
           r.st = "copying" => dmMig'[r.id].st \notin CutOverStates
    PROVE  RecordOk(r)'
<1>1. RecordRight(r)'
    BY DEF RecordOk, RecordRight, UnderWay, OnCopy
<1>2. Behind(dmKnown, r)' /\ Behind(dmReg, r)'
    BY DEF RecordOk, Behind
<1> QED BY <1>1, <1>2 DEF RecordOk

LEMMA DmRecordStep ==
    ASSUME DmSafe, UNCHANGED <<dmStore, dmOn, dmKnown, dmReg>>, SwitchOrder',
           \A r \in DmRecs' : r \in DmRecs \/ RecordOk(r)
    PROVE  DmSafe'
<1>1. UNCHANGED <<dmMig, dmGone, dmFresh, dmOn, dmKnown, dmReg>>
    BY DEF dmStore
<1>2. DisksRight'
    BY <1>1 DEF DmSafe, DisksRight, OnCutOver, FromOthers, MirrorsFresh
<1>3. \A r : RecordOk(r) => RecordOk(r)'
    BY <1>1 DEF RecordOk, RecordRight, Behind, UnderWay, OnCopy
<1> QED BY <1>2, <1>3 DEF DmSafe

LEMMA DmStoreStep ==
    ASSUME DmSafe, DisksRight', SwitchOrder', \A r \in DmRecs' : RecordOk(r)'
    PROVE  DmSafe'
BY DEF DmSafe

LEMMA DmOnIsMigrated == DmSafe => (dmOn \in CopyIds => dmMig[dmOn].st \in CutOverStates /\ dmMig[dmOn].st # "none")
BY DmNumbers DEF DmSafe, DisksRight, OnCutOver, CutOverStates

\* A copy nobody is on is aborted.
LEMMA DmAborts ==
    ASSUME DmTypeOK, DmSafe, NEW i \in CopyIds, i # dmOn, i # dmKnown, i # dmReg, dmMig[i].st # "none",
           CanAbort(i), Aborted(i), UNCHANGED <<dmOn, dmKnown, dmReg>>
    PROVE  DisksRight' /\ \A r \in DmRecs : RecordOk(r)'
<1>1. MigAt(i, "aborted") /\ dmGone' = dmGone \cup {i} /\ dmFresh' = dmFresh \ {i}
    BY DmMigs DEF Aborted
<1>2. dmMig' \in [CopyIds -> DmMigration] /\ dmMig'[i].st = "aborted"
      /\ (\A j \in CopyIds : dmMig'[j].from = dmMig[j].from /\ (j # i => dmMig'[j].st = dmMig[j].st))
    BY <1>1 DEF MigAt
<1>3. OnCutOver'
    BY <1>2, DmNumbers DEF DmSafe, DisksRight, OnCutOver
<1>4. FromOthers'
    BY <1>2 DEF DmSafe, DisksRight, FromOthers, MirrorStates
<1>5. MirrorsFresh'
    BY <1>1, <1>2 DEF DmSafe, DisksRight, MirrorsFresh, MirrorStates
<1>6. \A r \in DmRecs : RecordOk(r)'
    <2> SUFFICES ASSUME NEW r \in DmRecs PROVE RecordOk(r)'
        OBVIOUS
    <2>1. RecordOk(r)
        BY DEF DmSafe
    <2>2. r.st = "copying" => dmMig'[r.id].st \notin CutOverStates
        BY <1>2, <2>1 DEF RecordOk, RecordRight, UnderWay, CutOverStates
    <2>3. \A j \in CopyIds : /\ dmMig[j].st # "none" => dmMig'[j].st # "none" /\ dmMig'[j].from = dmMig[j].from
                             /\ dmMig[j].st = "none" /\ dmMig'[j].st # "none" => dmMig'[j].from = dmOn
        BY <1>2
    <2> QED BY <1>1, <2>1, <2>2, <2>3, DmOnIsMigrated, DmRecordKept
<1> QED BY <1>1, <1>3, <1>4, <1>5, <1>6 DEF DmSafe, DisksRight

\* The source of the copy the guest is on is deleted.
LEMMA DmCompletes ==
    ASSUME DmTypeOK, DmSafe, dmOn \in CopyIds, Completed(dmOn), UNCHANGED <<dmOn, dmKnown, dmReg>>
    PROVE  /\ DisksRight' /\ \A r \in DmRecs : RecordOk(r)'
           /\ dmGone' = dmGone \cup {dmMig[dmOn].from} /\ dmMig'[dmOn].from = dmMig[dmOn].from
<1> DEFINE from == dmMig[dmOn].from
<1>1. MigAt(dmOn, "completed") /\ dmGone' = dmGone \cup {from} /\ dmFresh' = dmFresh \ {from}
    BY DmMigs DEF Completed
<1>2. dmMig'[dmOn].st = "completed"
      /\ (\A j \in CopyIds : dmMig'[j].from = dmMig[j].from /\ (j # dmOn => dmMig'[j].st = dmMig[j].st))
    BY <1>1 DEF MigAt
<1>3. dmMig[dmOn].st \in CutOverStates /\ dmMig[dmOn].st \notin MirrorStates
    BY DmOnIsMigrated DEF CutOverStates, MirrorStates
<1>4. from # dmOn /\ (from # 0 => from \in CopyIds /\ dmMig[from].st \notin MirrorStates)
    BY <1>3, DmOnIsMigrated DEF DmSafe, DisksRight, FromOthers
<1>5. OnCutOver'
    BY <1>2, DmNumbers DEF DmSafe, DisksRight, OnCutOver, CutOverStates
<1>6. FromOthers'
    BY <1>2, <1>3 DEF DmSafe, DisksRight, FromOthers, MirrorStates
<1>7. MirrorsFresh'
    <2>1. \A i \in CopyIds : dmMig'[i].st \in MirrorStates => dmMig[i].st \in MirrorStates /\ i # from
        BY <1>2, <1>4, DmNumbers DEF MirrorStates
    <2>2. \A i \in CopyIds : dmMig'[i].st = "synced" => dmMig[i].st = "synced" /\ i # from
        BY <1>2, <2>1 DEF MirrorStates
    <2> QED BY <1>1, <1>2, <2>1, <2>2 DEF DmSafe, DisksRight, MirrorsFresh
<1>8. \A r \in DmRecs : RecordOk(r)'
    <2> SUFFICES ASSUME NEW r \in DmRecs PROVE RecordOk(r)'
        OBVIOUS
    <2>1. RecordOk(r)
        BY DEF DmSafe
    <2>2. r.st = "copying" => dmMig'[r.id].st \notin CutOverStates
        BY <1>2, <1>3, <2>1 DEF RecordOk, RecordRight, UnderWay
    <2>3. \A j \in CopyIds : /\ dmMig[j].st # "none" => dmMig'[j].st # "none" /\ dmMig'[j].from = dmMig[j].from
                             /\ dmMig[j].st = "none" /\ dmMig'[j].st # "none" => dmMig'[j].from = dmOn
        BY <1>2, <1>3 DEF CutOverStates
    <2> QED BY <1>1, <2>1, <2>2, <2>3, DmOnIsMigrated, DmRecordKept
<1>9. dmOn \in dmFresh' /\ dmOn \notin dmGone'
    BY <1>1, <1>4 DEF DmSafe, DisksRight
<1> QED BY <1>1, <1>2, <1>5, <1>6, <1>7, <1>8, <1>9 DEF DmSafe, DisksRight

\* The store goes on by itself, and the guest writes.
LEMMA DmStoring ==
    ASSUME DmTypeOK, DmSafe, (\E i \in CopyIds : InSync(i) \/ MirrorBreaks(i)) \/ GuestWrites
    PROVE  DmSafe'
<1>1. UNCHANGED <<dmNote, dmMem, dmCur, dmAt, dmOn, dmGuest, dmKnown, dmReg>>
    BY DEF InSync, MirrorBreaks, GuestWrites, dmRecords, dmMachine
<1>2. DmRecs' = DmRecs /\ (\A r \in DmRecs : RecordOk(r))
    BY <1>1 DEF DmRecs, Now, DmSafe
<1>3. CASE GuestWrites
    <2>1. UNCHANGED <<dmMig, dmGone>> /\ dmGuest = "running"
          /\ dmFresh' = {dmOn} \cup {i \in 1..MaxMoves : dmMig[i] = [st |-> "synced", from |-> dmOn]}
        BY <1>3 DEF GuestWrites
    <2>2. \A m \in DmMigration : m.st = "synced" /\ m.from = dmOn => m = [st |-> "synced", from |-> dmOn]
        BY DEF DmMigration
    <2>3. \A i \in CopyIds : dmMig[i].st = "synced" /\ dmMig[i].from = dmOn => i \in dmFresh'
        BY <2>1, <2>2, DmTypes DEF CopyIds
    <2>4. DisksRight'
        BY <1>1, <2>1, <2>3 DEF DmSafe, DisksRight, OnCutOver, FromOthers, MirrorsFresh
    <2>5. \A r : RecordOk(r) => RecordOk(r)'
        BY <1>1, <2>1 DEF RecordOk, RecordRight, Behind, UnderWay, OnCopy
    <2>6. SwitchOrder'
        BY <1>1, <2>1 DEF DmSafe, SwitchOrder
    <2> QED BY <1>2, <2>4, <2>5, <2>6, DmStoreStep
<1>4. ASSUME NEW i \in CopyIds, InSync(i) PROVE DmSafe'
    <2>1. MigAt(i, "synced") /\ dmMig[i].st = "copying" /\ dmMig[i].from \notin dmGone /\ UNCHANGED dmGone
          /\ dmFresh' = (IF dmMig[i].from \in dmFresh THEN dmFresh \cup {i} ELSE dmFresh)
        BY <1>4, DmMigs DEF InSync
    <2>2. dmMig'[i].st = "synced"
          /\ (\A j \in CopyIds : dmMig'[j].from = dmMig[j].from /\ (j # i => dmMig'[j].st = dmMig[j].st))
        BY <2>1 DEF MigAt
    <2>3. OnCutOver'
        BY <1>1, <2>1, <2>2, DmNumbers DEF DmSafe, DisksRight, OnCutOver, CutOverStates
    <2>4. FromOthers'
        BY <2>1, <2>2 DEF DmSafe, DisksRight, FromOthers, MirrorStates
    <2>5. MirrorsFresh' /\ dmOn \in dmFresh' /\ dmOn \notin dmGone'
        BY <1>1, <2>1, <2>2 DEF DmSafe, DisksRight, MirrorsFresh, MirrorStates
    <2>6. ASSUME NEW r \in DmRecs PROVE RecordOk(r)'
        <3>1. RecordOk(r)
            BY <1>2
        <3>2. r.st = "copying" => dmMig'[r.id].st \notin CutOverStates
            BY <2>2, <3>1 DEF RecordOk, RecordRight, UnderWay, CutOverStates
        <3>3. \A j \in CopyIds : /\ dmMig[j].st # "none" => dmMig'[j].st # "none" /\ dmMig'[j].from = dmMig[j].from
                                 /\ dmMig[j].st = "none" /\ dmMig'[j].st # "none" => dmMig'[j].from = dmOn
            BY <2>1, <2>2
        <3> QED BY <1>1, <2>1, <3>1, <3>2, <3>3, DmOnIsMigrated, DmRecordKept
    <2>7. SwitchOrder'
        BY <1>1, <1>2, <2>1, <2>2 DEF DmSafe, SwitchOrder, RecordOk, RecordRight, UnderWay, DmRecs
    <2> QED BY <1>1, <1>2, <2>3, <2>4, <2>5, <2>6, <2>7, DmStoreStep DEF DisksRight
<1>5. ASSUME NEW i \in CopyIds, MirrorBreaks(i) PROVE DmSafe'
    <2>1. MigAt(i, "failed") /\ dmMig[i].st \in {"copying", "synced"}
          /\ dmGone' = dmGone \cup {i} /\ dmFresh' = dmFresh \ {i}
        BY <1>5, DmMigs DEF MirrorBreaks
    <2>2. dmMig'[i].st = "failed"
          /\ (\A j \in CopyIds : dmMig'[j].from = dmMig[j].from /\ (j # i => dmMig'[j].st = dmMig[j].st))
        BY <2>1 DEF MigAt
    <2>3. i # dmOn /\ i # dmKnown /\ i # dmReg
        BY <2>1, DmNumbers DEF DmSafe, DisksRight, OnCutOver, CutOverStates
    <2>4. OnCutOver'
        BY <1>1, <2>2, <2>3, DmNumbers DEF DmSafe, DisksRight, OnCutOver
    <2>5. FromOthers'
        BY <2>1, <2>2 DEF DmSafe, DisksRight, FromOthers, MirrorStates
    <2>6. MirrorsFresh' /\ dmOn \in dmFresh' /\ dmOn \notin dmGone'
        BY <1>1, <2>1, <2>2, <2>3 DEF DmSafe, DisksRight, MirrorsFresh, MirrorStates
    <2>7. ASSUME NEW r \in DmRecs PROVE RecordOk(r)'
        <3>1. RecordOk(r)
            BY <1>2
        <3>2. r.st = "copying" => dmMig'[r.id].st \notin CutOverStates
            BY <2>2, <3>1 DEF RecordOk, RecordRight, UnderWay, CutOverStates
        <3>3. \A j \in CopyIds : /\ dmMig[j].st # "none" => dmMig'[j].st # "none" /\ dmMig'[j].from = dmMig[j].from
                                 /\ dmMig[j].st = "none" /\ dmMig'[j].st # "none" => dmMig'[j].from = dmOn
            BY <2>1, <2>2
        <3> QED BY <1>1, <2>1, <3>1, <3>2, <3>3, DmOnIsMigrated, DmRecordKept
    <2>8. SwitchOrder'
        <3>1. dmAt \in {"mark", "pause", "cutover", "attach", "switch", "undo"} => dmCur.id \in CopyIds
            BY <1>2 DEF DmSafe, SwitchOrder, RecordOk, RecordRight, UnderWay, DmRecs
        <3>2. dmAt \in {"attach", "switch"} => dmCur.id # i
            BY <2>1 DEF DmSafe, SwitchOrder
        <3> QED BY <1>1, <2>1, <2>2, <3>1, <3>2 DEF DmSafe, SwitchOrder
    <2> QED BY <1>1, <1>2, <2>4, <2>5, <2>6, <2>7, <2>8, DmStoreStep DEF DisksRight
<1> QED BY <1>3, <1>4, <1>5

\* A pass looks at the disk and begins what it finds.
LEMMA DmLooking ==
    ASSUME DmTypeOK, DmSafe, LookAtDisk
    PROVE  DmSafe'
<1>1. UNCHANGED <<dmNote, dmMem, dmOn, dmKnown, dmReg>> /\ dmAt = "idle"
    BY DEF LookAtDisk, StartMove, ForgetFailed, CancelMove, CarryCopying, CarrySwitching, CarrySwitched, Looks, Stage,
       dmRecords, dmMachine
<1>2. /\ Now \in Moves /\ Now \in DmRecs /\ RecordOk(Now) /\ UNCHANGED Now
      /\ \A r \in DmRecs' : r \in DmRecs \/ (r = dmCur' /\ dmAt' # "idle")
    BY <1>1, DmNow DEF DmRecs, DmSafe, Now
<1>c. PICK c : c = dmCur'
    OBVIOUS
<1>3. ASSUME UNCHANGED dmStore, RecordOk(dmCur') \/ dmCur' = Now \/ dmAt' = "idle",
             dmAt' = "mark" => dmCur'.st = "copying" /\ dmMig[dmCur'.id].st = "synced",
             dmAt' \in {"idle", "mark", "detach", "write"},
             dmAt' = "detach" => dmCur'.st = "switched" /\ dmCur'.id = dmOn
      PROVE  DmSafe'
    <2>1. SwitchOrder'
        BY <1>1, <1>3 DEF SwitchOrder, dmStore
    <2> QED BY <1>1, <1>2, <1>3, <2>1, DmRecordStep
<1>4. ASSUME Now.st \notin {"switching", "switched", "unknown"}
      PROVE  (dmKnown = dmOn \/ dmKnown \in dmGone) /\ (dmReg = dmOn \/ dmReg \in dmGone)
    BY <1>2, <1>4 DEF RecordOk, Behind
<1>5. ASSUME NEW r, r.st \in {"none", "failed"}, Now.st \notin {"switching", "switched", "unknown"} PROVE RecordOk(r)
    BY <1>4, <1>5 DEF RecordOk, RecordRight, Behind, UnderWay, OnCopy
<1>6. Now.st = "copying" =>
        /\ Now.id \in CopyIds /\ Now.id # dmOn /\ Now.id # dmKnown /\ Now.id # dmReg /\ dmMig[Now.id].st # "none"
        /\ dmMig[Now.id].from = dmOn /\ dmMig[Now.id].st \notin CutOverStates
    BY <1>2 DEF RecordOk, RecordRight, UnderWay, DmSafe, DisksRight, FromOthers
<1>7. CASE StartMove
    <2>1. Now.st \in {"none", "moved", "failed"} /\ dmAt' = "write" /\ dmAsk \in Places
        BY <1>7, DmTypes DEF StartMove, Looks, Starts, ToStage
    <2>2. PICK i \in FreshMoves :
            \/ /\ dmKnown \notin dmGone /\ UNCHANGED <<dmGone, dmFresh>>
               /\ dmMig' = [dmMig EXCEPT ![i] = [st |-> "copying", from |-> dmKnown]]
               /\ dmCur' = MoveTo("copying", dmAsk, LocationOf(Now), dmKnown, i)
            \/ dmCur' = MoveTo("failed", dmAsk, LocationOf(Now), dmKnown, 0) /\ UNCHANGED dmStore
        BY <1>7 DEF StartMove, dmStore
    <2>3. i \in CopyIds /\ dmMig[i].st = "none"
        BY DEF FreshMoves, CopyIds
    <2>4. CASE dmCur' = MoveTo("failed", dmAsk, LocationOf(Now), dmKnown, 0) /\ UNCHANGED dmStore
        <3>1. dmCur'.st = "failed"
            BY <2>4 DEF MoveTo
        <3> QED BY <1>3, <1>5, <2>1, <2>4, <3>1
    <2>5. CASE /\ dmKnown \notin dmGone /\ UNCHANGED <<dmGone, dmFresh>>
               /\ dmMig' = [dmMig EXCEPT ![i] = [st |-> "copying", from |-> dmKnown]]
               /\ dmCur' = MoveTo("copying", dmAsk, LocationOf(Now), dmKnown, i)
        <3>1. dmKnown = dmOn /\ dmCur'.st = "copying" /\ dmCur'.id = i
            BY <1>4, <2>1, <2>5 DEF MoveTo
        <3>2. /\ dmMig'[i].st = "copying" /\ dmMig'[i].from = dmOn
              /\ \A j \in CopyIds : j # i => dmMig'[j] = dmMig[j]
            BY <2>3, <2>5, <3>1, DmTypes
        <3>3. i # dmOn /\ i # dmKnown /\ i # dmReg
            BY <2>3, DmNumbers DEF DmSafe, DisksRight, OnCutOver, CutOverStates
        <3>4. dmOn # 0 => dmOn \in CopyIds /\ dmMig[dmOn].st \in CutOverStates
            BY DmNumbers DEF DmSafe, DisksRight, OnCutOver
        <3>5. OnCutOver'
            BY <1>1, <3>2, <3>3, DmNumbers DEF DmSafe, DisksRight, OnCutOver
        <3>6. FromOthers'
            <4>1. \A j \in CopyIds : dmMig[j].st # "none" => dmMig[j].from # i
                BY <2>3, DmNumbers DEF DmSafe, DisksRight, FromOthers, MirrorStates
            <4>2. dmOn # 0 => dmOn \in CopyIds /\ dmMig'[dmOn].st \notin MirrorStates
                BY <3>2, <3>3, <3>4 DEF CutOverStates, MirrorStates
            <4> QED BY <3>2, <3>3, <4>1, <4>2 DEF DmSafe, DisksRight, FromOthers
        <3>7. MirrorsFresh' /\ dmOn \in dmFresh' /\ dmOn \notin dmGone'
            BY <1>1, <2>3, <2>5, <3>2 DEF DmSafe, DisksRight, MirrorsFresh, MirrorStates
        <3>8. ASSUME NEW r \in DmRecs PROVE RecordOk(r)'
            <4>1. RecordOk(r)
                BY DEF DmSafe
            <4>2. r.st = "copying" => dmMig'[r.id].st \notin CutOverStates
                BY <3>2, <4>1 DEF RecordOk, RecordRight, UnderWay, CutOverStates
            <4>3. \A j \in CopyIds : /\ dmMig[j].st # "none" => dmMig'[j].st # "none" /\ dmMig'[j].from = dmMig[j].from
                                     /\ dmMig[j].st = "none" /\ dmMig'[j].st # "none" => dmMig'[j].from = dmOn
                BY <2>3, <3>2
            <4> QED BY <1>1, <2>5, <4>1, <4>2, <4>3, DmOnIsMigrated, DmRecordKept
        <3>9. RecordOk(c)'
            <4>1. \A j \in CopyIds : dmMig'[j].st # "none" => dmMig'[j].from # i
                BY <2>3, <3>2, <3>3, DmNumbers DEF DmSafe, DisksRight, FromOthers, MirrorStates
            <4>2. RecordRight(c)'
                BY <1>1, <1>c, <2>3, <3>1, <3>2, <3>3, <4>1 DEF RecordRight, UnderWay, OnCopy, CutOverStates
            <4>3. (dmKnown = dmOn \/ dmKnown \in dmGone) /\ (dmReg = dmOn \/ dmReg \in dmGone)
                BY <1>4, <2>1
            <4> QED BY <1>1, <2>5, <4>2, <4>3 DEF RecordOk, Behind
        <3>10. SwitchOrder'
            BY <2>1 DEF SwitchOrder
        <3>11. DisksRight'
            BY <1>1, <3>5, <3>6, <3>7 DEF DisksRight
        <3>12. \A r \in DmRecs' : RecordOk(r)'
            BY <1>2, <1>c, <3>8, <3>9
        <3> QED BY <3>10, <3>11, <3>12, DmStoreStep
    <2> QED BY <2>2, <2>4, <2>5
<1>8. CASE ForgetFailed
    <2>1. Now.st = "failed" /\ dmCur' = NoMove /\ dmAt' = "write" /\ UNCHANGED dmStore
        BY <1>8 DEF ForgetFailed, Looks, ToStage
    <2> QED BY <1>3, <1>5, <2>1, DmRecords
<1>9. CASE CancelMove
    <2>1. Now.st = "copying"
        BY <1>9 DEF CancelMove, Looks
    <2>2. CASE CanAbort(Now.id) /\ Aborted(Now.id) /\ dmCur' = [Now EXCEPT !.st = "failed"] /\ dmAt' = "write"
        <3>1. DisksRight' /\ \A r \in DmRecs : RecordOk(r)'
            BY <1>1, <1>6, <2>1, <2>2, DmAborts
        <3>2. dmCur'.st = "failed"
            BY <1>2, <2>2, DmRecords
        <3>3. (dmKnown = dmOn \/ dmKnown \in dmGone) /\ (dmReg = dmOn \/ dmReg \in dmGone) /\ dmGone \subseteq dmGone'
            BY <1>4, <2>1, <2>2 DEF Aborted
        <3>4. RecordOk(c)'
            BY <1>1, <1>c, <3>2, <3>3 DEF RecordOk, RecordRight, Behind, UnderWay, OnCopy
        <3>5. SwitchOrder'
            BY <2>2 DEF SwitchOrder
        <3> QED BY <1>2, <1>c, <3>1, <3>4, <3>5, DmStoreStep
    <2>3. CASE UNCHANGED <<dmStore, dmCur, dmAt>>
        BY <1>1, <1>3, <2>3
    <2> QED BY <1>9, <2>2, <2>3 DEF CancelMove, ToStage
<1>10. CASE CarryCopying
    <2>1. Now.st = "copying" /\ dmKnown # Now.id
        BY <1>6, <1>10 DEF CarryCopying, Looks
    <2>2. \/ dmMig[Now.id].st = "synced" /\ dmAt' = "mark" /\ dmCur' = Now /\ UNCHANGED dmStore
          \/ UNCHANGED <<dmAt, dmCur, dmStore>>
          \/ dmAt' = "write" /\ dmCur' = [Now EXCEPT !.st = "failed"] /\ UNCHANGED dmStore
        <3>1. dmMig[Now.id] \in DmMigration
            BY <1>6, <2>1, DmTypes
        <3>2. dmMig[Now.id].st \in {"copying", "synced", "aborted", "failed"}
            BY <1>6, <2>1, <3>1 DEF DmMigration, CutOverStates
        <3>3. CASE dmMig[Now.id].st = "synced"
            BY <1>10, <2>1, <3>3 DEF CarryCopying, ToStage
        <3>4. CASE dmMig[Now.id].st = "copying"
            BY <1>10, <2>1, <3>4 DEF CarryCopying, ToStage
        <3>5. CASE dmMig[Now.id].st \in {"aborted", "failed"}
            BY <1>10, <2>1, <3>5 DEF CarryCopying, ToStage
        <3> QED BY <3>2, <3>3, <3>4, <3>5
    <2>3. CASE dmAt' = "write" /\ dmCur' = [Now EXCEPT !.st = "failed"] /\ UNCHANGED dmStore
        <3>1. dmCur'.st = "failed"
            BY <1>2, <2>3, DmRecords
        <3>2. RecordOk(dmCur')
            BY <1>5, <2>1, <3>1
        <3> QED BY <1>3, <2>3, <3>2
    <2>4. CASE UNCHANGED <<dmAt, dmCur, dmStore>>
        BY <1>1, <1>3, <2>4
    <2>5. CASE dmMig[Now.id].st = "synced" /\ dmAt' = "mark" /\ dmCur' = Now /\ UNCHANGED dmStore
        BY <1>3, <2>1, <2>5
    <2> QED BY <2>2, <2>3, <2>4, <2>5
<1>11. CASE CarrySwitching
    <2>1. Now.st = "switching" /\ UNCHANGED dmStore
        BY <1>11 DEF CarrySwitching
    <2>2. /\ dmMig[Now.id].from = dmOn \/ Now.id = dmOn
          /\ Now.id # dmOn => Now.id # dmKnown /\ Now.id # dmReg
          /\ Now.id # dmOn => \A i \in CopyIds : dmMig[i].st # "none" => dmMig[i].from # Now.id
          /\ Now.id \in CopyIds /\ dmMig[Now.id].st # "none"
        BY <1>2, <2>1 DEF RecordOk, RecordRight, UnderWay
    <2>3. CASE dmKnown = Now.id
        <3>1. dmAt' = "detach" /\ dmCur' = [Now EXCEPT !.st = "switched"]
            BY <1>11, <2>3 DEF CarrySwitching, ToStage
        <3>2. dmCur'.st = "switched" /\ dmCur'.id = dmOn /\ Now.id = dmOn /\ Now.id \in CopyIds
            BY <1>2, <2>2, <2>3, <3>1, DmRecords
        <3>3. RecordOk(dmCur')
            BY <1>2, <2>1, <3>2 DEF RecordOk, RecordRight, Behind, UnderWay, OnCopy
        <3> QED BY <1>3, <2>1, <3>1, <3>2, <3>3
    <2>4. CASE dmAt' = "write" /\ dmKnown # Now.id /\
               dmCur' = [Now EXCEPT !.st = IF dmMig[Now.id].st \in {"synced", "copying"} THEN "copying" ELSE "unknown"]
        <3>1. CASE dmMig[Now.id].st \in {"synced", "copying"}
            <4>1. dmCur'.st = "copying" /\ dmCur'.id = Now.id
                BY <1>2, <2>4, <3>1, DmRecords
            <4>2. Now.id # dmOn /\ dmMig[Now.id].st \notin CutOverStates
                BY <2>2, <3>1, DmOnIsMigrated DEF CutOverStates
            <4>3. RecordOk(dmCur')
                BY <1>2, <2>2, <4>1, <4>2 DEF RecordOk, RecordRight, Behind, UnderWay, OnCopy
            <4> QED BY <1>3, <2>1, <2>4, <4>3
        <3>2. CASE dmMig[Now.id].st \notin {"synced", "copying"}
            <4>1. dmCur'.st = "unknown" /\ dmCur'.id = Now.id
                BY <1>2, <2>4, <3>2, DmRecords
            <4>2. RecordOk(dmCur')
                BY <1>2, <4>1 DEF RecordOk, RecordRight, Behind, UnderWay, OnCopy
            <4> QED BY <1>3, <2>1, <2>4, <4>2
        <3> QED BY <3>1, <3>2
    <2>5. CASE UNCHANGED <<dmAt, dmCur>>
        BY <1>1, <1>3, <2>1, <2>5
    <2> QED BY <1>11, <2>3, <2>4, <2>5 DEF CarrySwitching, ToStage
<1>12. CASE CarrySwitched
    <2>1. Now.st = "switched" /\ dmCur' = Now /\ dmAt' = "detach" /\ UNCHANGED dmStore
        BY <1>12 DEF CarrySwitched, Looks, ToStage
    <2>2. Now.id = dmOn
        BY <1>2, <2>1 DEF RecordOk, RecordRight, OnCopy
    <2> QED BY <1>3, <2>1, <2>2
<1> QED BY <1>7, <1>8, <1>9, <1>10, <1>11, <1>12 DEF LookAtDisk

\* The switch over, a call at a time.
LEMMA DmSwitching ==
    ASSUME DmTypeOK, DmSafe, SwitchOver
    PROVE  DmSafe'
<1>1. /\ dmCur \in Moves /\ dmAt # "idle" /\ dmCur \in DmRecs /\ RecordOk(dmCur)
      /\ dmAt \in {"mark", "pause", "cutover", "attach", "switch", "record", "unpause", "undo"}
      /\ \A r \in DmRecs : RecordOk(r)
    BY DmTypes DEF SwitchOver, MarkSwitching, PauseGuest, CutOver, AttachCopy, SwitchDisk, RecordDisk, Unpause, UndoSwitch,
       Stage, DmRecs, DmSafe
<1>2. dmCur.st \in {"copying", "switching"} =>
        dmCur.id \in CopyIds /\ (dmMig[dmCur.id].from = dmOn \/ (dmCur.st = "switching" /\ dmCur.id = dmOn))
    BY <1>1 DEF RecordOk, RecordRight, UnderWay
<1>3. dmAt \in {"mark", "pause", "cutover", "attach", "switch", "undo"} =>
        /\ dmCur.id \in CopyIds /\ dmMig[dmCur.id].from = dmOn /\ dmMig[dmCur.id].st # "none" /\ dmCur.id # dmOn
        /\ dmCur.id # dmKnown /\ dmCur.id # dmReg
        /\ \A i \in CopyIds : dmMig[i].st # "none" => dmMig[i].from # dmCur.id
        /\ (dmKnown = dmOn \/ dmKnown \in dmGone) /\ (dmReg = dmOn \/ dmReg \in dmGone)
    BY <1>1, <1>2 DEF DmSafe, DisksRight, FromOthers, SwitchOrder, RecordOk, RecordRight, Behind, UnderWay
<1>c. PICK c : c = dmCur'
    OBVIOUS
<1>4. ASSUME UNCHANGED <<dmNote, dmMem>> PROVE UNCHANGED Now /\ \A r \in DmRecs' : r \in DmRecs \/ r = dmCur'
    BY <1>4 DEF DmRecs, Now
\* A failed call: the record is given another word.
<1>5. ASSUME UNCHANGED <<dmNote, dmMem, dmStore, dmOn, dmKnown, dmReg>>, dmAt' = "write", RecordOk(dmCur') \/ UNCHANGED dmCur
      PROVE  DmSafe'
    <2>1. SwitchOrder'
        BY <1>5 DEF SwitchOrder
    <2>2. \A r \in DmRecs' : r \in DmRecs \/ RecordOk(r)
        BY <1>1, <1>4, <1>5
    <2> QED BY <1>5, <2>1, <2>2, DmRecordStep
<1>6. CASE MarkSwitching
    <2> DEFINE r == [dmCur EXCEPT !.st = "switching"]
    <2>1. dmAt = "mark" /\ dmCur.st = "copying" /\ dmMig[dmCur.id].st \in {"synced", "failed"}
          /\ UNCHANGED <<dmStore, dmOn, dmGuest, dmKnown, dmReg>>
        BY <1>6 DEF MarkSwitching, Stage, DmSafe, SwitchOrder, dmMachine
    <2>2. r.st = "switching" /\ r.id = dmCur.id
        BY <1>1, DmRecords
    <2>3. \/ dmNote' = r /\ dmMem' = r /\ dmCur' = r /\ dmAt' = "pause"
          \/ dmNote' \in {dmNote, r} /\ dmAt' = "idle" /\ UNCHANGED <<dmMem, dmCur>>
        BY <1>6 DEF MarkSwitching, ToStage
    <2> HIDE DEF r
    <2>4. RecordOk(r)
        BY <1>3, <2>1, <2>2 DEF RecordOk, RecordRight, Behind, UnderWay, OnCopy
    <2>5. \A q \in DmRecs' : q \in DmRecs \/ q = r
        BY <1>1, <2>3 DEF DmRecs, Now
    <2>6. SwitchOrder'
        <3>1. dmMig[r.id].from = dmOn /\ dmMig[r.id].st \in {"synced", "failed"}
            BY <1>3, <2>1, <2>2
        <3> QED BY <2>1, <2>2, <2>3, <3>1 DEF SwitchOrder, dmStore
    <2> QED BY <2>1, <2>4, <2>5, <2>6, DmRecordStep
<1>7. CASE PauseGuest
    <2>1. dmAt = "pause" /\ dmMig[dmCur.id].st \in {"synced", "failed"} /\ dmCur.st = "switching"
          /\ UNCHANGED <<dmNote, dmMem, dmStore, dmOn, dmKnown, dmReg>>
        BY <1>7 DEF PauseGuest, Stage, DmSafe, SwitchOrder, dmRecords
    <2>2. CASE dmGuest' # "running" /\ dmAt' = "cutover" /\ UNCHANGED dmCur
        <3>1. SwitchOrder'
            BY <2>1, <2>2 DEF DmSafe, SwitchOrder, dmStore
        <3> QED BY <1>1, <1>4, <2>1, <2>2, <3>1, DmRecordStep
    <2>3. CASE dmCur' = [dmCur EXCEPT !.st = "copying"] /\ dmAt' = "write"
        <3>1. dmCur'.st = "copying" /\ dmCur'.id = dmCur.id
            BY <1>1, <2>3, DmRecords
        <3>2. RecordOk(dmCur')
            BY <1>3, <2>1, <3>1 DEF RecordOk, RecordRight, Behind, UnderWay, OnCopy, CutOverStates
        <3> QED BY <1>5, <2>1, <2>3, <3>2
    <2> QED BY <1>7, <2>2, <2>3 DEF PauseGuest, ToStage, Becomes
<1>8. CASE CutOver
    <2>1. dmAt = "cutover" /\ dmCur.st = "switching" /\ dmNote = dmCur /\ dmMem = dmCur /\ dmGuest # "running"
          /\ UNCHANGED <<dmGone, dmFresh, dmNote, dmMem, dmCur, dmOn, dmGuest, dmKnown, dmReg>>
          /\ dmAt' \in {"attach", "undo"}
        BY <1>8 DEF CutOver, Stage, ToStage, DmSafe, SwitchOrder, dmRecords, dmMachine
    <2>2. Now = dmCur /\ DmRecs = {dmCur} /\ DmRecs' = {dmCur}
        BY <2>1 DEF Now, DmRecs, Unread, MoveTo
    <2>3. CASE UNCHANGED dmMig /\ dmAt' = "undo"
        <3>1. SwitchOrder'
            BY <2>1, <2>3 DEF DmSafe, SwitchOrder
        <3> QED BY <2>1, <2>2, <2>3, <3>1, DmRecordStep DEF dmStore
    <2>4. CASE dmMig[dmCur.id].st = "synced" /\ MigIs(dmCur.id, "cut_over")
        <3> DEFINE i == dmCur.id
        <3>1. MigAt(i, "cut_over")
            BY <1>3, <2>1, <2>4, DmMigs
        <3> HIDE DEF i
        <3>2. /\ i = dmCur.id /\ i \in CopyIds /\ dmMig'[i].st = "cut_over" /\ dmMig[i].st = "synced"
              /\ dmMig[i].from = dmOn
              /\ (\A j \in CopyIds : dmMig'[j].from = dmMig[j].from /\ (j # i => dmMig'[j].st = dmMig[j].st))
            BY <1>3, <2>1, <2>4, <3>1 DEF MigAt, i
        <3>3. OnCutOver'
            BY <2>1, <3>2, DmNumbers DEF DmSafe, DisksRight, OnCutOver, CutOverStates
        <3>4. FromOthers'
            BY <3>2 DEF DmSafe, DisksRight, FromOthers, MirrorStates
        <3>5. MirrorsFresh' /\ dmOn' \in dmFresh' /\ dmOn' \notin dmGone'
            BY <2>1, <3>2 DEF DmSafe, DisksRight, MirrorsFresh, MirrorStates
        <3>6. RecordOk(dmCur)'
            <4>1. \A j \in CopyIds : /\ dmMig[j].st # "none" => dmMig'[j].st # "none" /\ dmMig'[j].from = dmMig[j].from
                                     /\ dmMig[j].st = "none" /\ dmMig'[j].st # "none" => dmMig'[j].from = dmOn
                BY <3>2
            <4>2. PICK r : r = dmCur
                OBVIOUS
            <4>3. RecordOk(r)' 
                BY <1>1, <2>1, <4>1, <4>2, DmOnIsMigrated, DmRecordKept
            <4> QED BY <2>1, <4>2, <4>3
        <3>7. i \in dmFresh /\ i \notin dmGone
            BY <3>2 DEF DmSafe, DisksRight, MirrorsFresh, MirrorStates
        <3>8. SwitchOrder'
            BY <2>1, <3>2, <3>7 DEF SwitchOrder
        <3>9. \A r \in DmRecs' : RecordOk(r)'
            <4>1. PICK r : r = dmCur
                OBVIOUS
            <4>2. RecordOk(r)'
                BY <2>1, <3>6, <4>1
            <4> QED BY <2>2, <4>1, <4>2
        <3> QED BY <3>3, <3>4, <3>5, <3>8, <3>9, DmStoreStep DEF DisksRight
    <2> QED BY <1>8, <2>3, <2>4 DEF CutOver, ToStage
<1>9. CASE AttachCopy
    <2>1. UNCHANGED <<dmStore, dmNote, dmMem, dmCur, dmOn, dmGuest, dmKnown, dmReg>> /\ dmAt' \in {"switch", "undo"}
          /\ dmAt = "attach"
        BY <1>9 DEF AttachCopy, Stage, ToStage, dmRecords, dmMachine
    <2>2. SwitchOrder'
        BY <2>1 DEF DmSafe, SwitchOrder, dmStore
    <2> QED BY <1>1, <1>4, <2>1, <2>2, DmRecordStep
<1>10. CASE SwitchDisk
    <2>1. /\ dmAt = "switch" /\ dmCur.st = "switching" /\ dmNote = dmCur /\ dmMem = dmCur
          /\ dmMig[dmCur.id].st = "cut_over" /\ dmCur.id \in dmFresh /\ dmCur.id \notin dmGone
          /\ UNCHANGED <<dmMig, dmGone, dmFresh, dmNote, dmMem, dmKnown, dmReg>>
        BY <1>10 DEF SwitchDisk, Stage, DmSafe, SwitchOrder, dmRecords, dmStore
    <2>2. Now = dmCur /\ DmRecs' \subseteq {dmCur, dmCur'}
        BY <2>1 DEF Now, DmRecs, Unread, MoveTo
    <2>3. CASE dmOn' = dmCur.id
        <3>1. \/ dmAt' = "record" /\ UNCHANGED dmCur
              \/ dmAt' = "write" /\ dmCur' = [dmCur EXCEPT !.st = "unknown"]
            BY <1>3, <1>10, <2>1, <2>3 DEF SwitchDisk, ToStage, Becomes
        <3>2. DisksRight'
            <4>1. OnCutOver'
                BY <1>3, <2>1, <2>3, DmNumbers DEF DmSafe, DisksRight, OnCutOver, CutOverStates
            <4>2. FromOthers'
                BY <2>1 DEF DmSafe, DisksRight, FromOthers
            <4>3. MirrorsFresh'
                BY <1>3, <2>1, <2>3 DEF DmSafe, DisksRight, MirrorsFresh
            <4> QED BY <2>1, <2>3, <4>1, <4>2, <4>3 DEF DisksRight
        <3>3. ASSUME NEW r, r.id = dmCur.id, r.st \in {"switching", "unknown"} PROVE RecordOk(r)'
            <4>1. dmOn' \in CopyIds /\ dmMig'[dmOn'].from = dmOn /\ dmMig'[r.id].st # "none"
                BY <1>3, <2>1, <2>3, <3>3
            <4>2. RecordRight(r)'
                BY <2>3, <3>3, <4>1 DEF RecordRight, UnderWay, OnCopy
            <4>3. Behind(dmKnown, r)' /\ Behind(dmReg, r)'
                BY <1>3, <2>1, <2>3, <3>3, <4>1 DEF Behind
            <4> QED BY <4>2, <4>3 DEF RecordOk
        <3>4. dmCur'.id = dmCur.id /\ dmCur'.st \in {"switching", "unknown"}
            <4>1. CASE UNCHANGED dmCur
                BY <2>1, <4>1
            <4>2. CASE dmCur' = [dmCur EXCEPT !.st = "unknown"]
                BY <1>1, <4>2, DmRecords
            <4> QED BY <3>1, <4>1, <4>2
        <3>5. \A r \in DmRecs' : RecordOk(r)'
            BY <2>1, <2>2, <3>3, <3>4
        <3>6. SwitchOrder'
            BY <2>1, <2>3, <3>1 DEF SwitchOrder
        <3> QED BY <3>2, <3>5, <3>6, DmStoreStep
    <2>4. CASE dmOn' = dmOn
        <3>1. dmAt' = "write" /\ dmCur' = [dmCur EXCEPT !.st = "unknown"]
            BY <1>3, <1>10, <2>1, <2>4 DEF SwitchDisk, ToStage, Becomes
        <3>2. dmCur'.st = "unknown"
            BY <1>1, <3>1, DmRecords
        <3>3. RecordOk(dmCur')
            BY <1>3, <2>1, <3>2 DEF RecordOk, RecordRight, Behind, UnderWay, OnCopy
        <3> QED BY <1>5, <2>1, <2>4, <3>1, <3>3 DEF dmStore
    <2> QED BY <1>10, <2>3, <2>4 DEF SwitchDisk
<1>11. CASE RecordDisk
    <2>1. /\ dmAt = "record" /\ dmCur.st = "switching" /\ dmNote = dmCur /\ dmMem = dmCur /\ dmCur.id = dmOn
          /\ UNCHANGED <<dmMig, dmGone, dmFresh, dmNote, dmMem, dmOn, dmGuest>>
          /\ dmKnown' = dmOn /\ dmReg' \in {dmOn, dmReg} /\ dmAt' = "unpause" /\ dmCur' = [dmCur EXCEPT !.st = "switched"]
        BY <1>11 DEF RecordDisk, Stage, ToStage, Becomes, DmSafe, SwitchOrder, dmRecords, dmStore
    <2>2. dmOn \in CopyIds /\ dmMig[dmOn].st # "none" /\ dmMig[dmOn].st \in CutOverStates /\ Behind(dmReg, dmCur)
        BY <1>1, <1>2, <2>1, DmOnIsMigrated DEF RecordOk
    <2>3. DmRecs' \subseteq {dmCur, dmCur'} /\ dmCur'.st = "switched" /\ dmCur'.id = dmOn
        BY <1>1, <2>1, DmRecords DEF Now, DmRecs, Unread, MoveTo
    <2>4. DisksRight'
        <3>1. OnCutOver'
            BY <2>1, <2>2 DEF DmSafe, DisksRight, OnCutOver
        <3> QED BY <2>1, <3>1 DEF DmSafe, DisksRight, FromOthers, MirrorsFresh
    <2>5. ASSUME NEW r, r.id = dmOn, r.st \in {"switching", "switched"} PROVE RecordOk(r)'
        <3>1. RecordRight(r)'
            BY <2>1, <2>2, <2>5 DEF RecordRight, UnderWay, OnCopy
        <3>2. Behind(dmKnown, r)' /\ Behind(dmReg, r)'
            BY <2>1, <2>2, <2>5 DEF Behind
        <3> QED BY <3>1, <3>2 DEF RecordOk
    <2>6. \A r \in DmRecs' : RecordOk(r)'
        BY <2>1, <2>3, <2>5
    <2>7. SwitchOrder'
        BY <2>1, <2>3 DEF SwitchOrder
    <2> QED BY <2>4, <2>6, <2>7, DmStoreStep
<1>12. CASE Unpause
    <2>1. UNCHANGED <<dmStore, dmNote, dmMem, dmCur, dmOn, dmKnown, dmReg>> /\ dmAt' = "detach" /\ dmAt = "unpause"
        BY <1>12 DEF Unpause, Stage, ToStage, dmRecords
    <2>2. SwitchOrder'
        BY <2>1 DEF DmSafe, SwitchOrder
    <2> QED BY <1>1, <1>4, <2>1, <2>2, DmRecordStep
<1>13. CASE UndoSwitch
    <2>1. /\ dmAt = "undo" /\ UNCHANGED <<dmNote, dmMem, dmOn, dmKnown, dmReg>> /\ dmAt' = "write"
          /\ dmCur' = [dmCur EXCEPT !.st = "failed"]
        BY <1>13 DEF UndoSwitch, Stage, ToStage, Becomes, dmRecords
    <2>2. dmCur'.st = "failed"
        BY <1>1, <2>1, DmRecords
    <2>3. CASE UNCHANGED dmStore
        <3>1. RecordOk(dmCur')
            BY <1>3, <2>1, <2>2 DEF RecordOk, RecordRight, Behind, UnderWay, OnCopy
        <3> QED BY <1>5, <2>1, <2>3, <3>1
    <2>4. CASE CanAbort(dmCur.id) /\ Aborted(dmCur.id)
        <3>1. DisksRight' /\ \A r \in DmRecs : RecordOk(r)'
            BY <1>3, <2>1, <2>4, DmAborts
        <3>2. dmGone \subseteq dmGone'
            BY <2>4 DEF Aborted
        <3>3. RecordOk(c)'
            BY <1>3, <1>c, <2>1, <2>2, <3>2 DEF RecordOk, RecordRight, Behind, UnderWay, OnCopy
        <3>4. SwitchOrder'
            BY <2>1 DEF SwitchOrder
        <3> QED BY <1>4, <1>c, <2>1, <3>1, <3>3, <3>4, DmStoreStep
    <2> QED BY <1>13, <2>3, <2>4 DEF UndoSwitch, Aborted
<1> QED BY <1>6, <1>7, <1>8, <1>9, <1>10, <1>11, <1>12, <1>13 DEF SwitchOver

\* What comes after the switch, and between passes.
LEMMA DmRetiring ==
    ASSUME DmTypeOK, DmSafe, DetachSource \/ CompleteMove \/ WriteRecord
    PROVE  DmSafe'
<1>1. /\ UNCHANGED <<dmOn, dmKnown, dmReg, dmGuest>> /\ dmAt \in {"detach", "complete", "write"}
      /\ dmCur \in DmRecs /\ dmCur \in Moves /\ \A r \in DmRecs : RecordOk(r)
    BY DmTypes DEF DetachSource, CompleteMove, WriteRecord, Stage, dmMachine, DmRecs, DmSafe
<1>c. PICK c : c = dmCur'
    OBVIOUS
<1>2. CASE DetachSource
    <2>1. UNCHANGED <<dmStore, dmNote, dmMem, dmCur>> /\ dmAt = "detach" /\ dmAt' \in {"complete", "write"}
        BY <1>2 DEF DetachSource, Stage, ToStage, dmRecords
    <2>2. SwitchOrder'
        BY <1>1, <2>1 DEF DmSafe, SwitchOrder
    <2>3. DmRecs' \subseteq DmRecs
        BY <2>1 DEF DmRecs, Now
    <2> QED BY <1>1, <2>1, <2>2, <2>3, DmRecordStep
<1>3. CASE CompleteMove
    <2>1. /\ dmAt' = "write" /\ dmCur.st = "switched" /\ dmCur.id = dmOn /\ dmOn \in CopyIds
          /\ UNCHANGED <<dmNote, dmMem>>
        BY <1>1, <1>3 DEF CompleteMove, Stage, ToStage, DmSafe, SwitchOrder, dmRecords, RecordOk, RecordRight, OnCopy
    <2>2. SwitchOrder'
        BY <2>1 DEF SwitchOrder
    <2>3. \A r \in DmRecs' : r \in DmRecs \/ r = dmCur'
        BY <2>1 DEF DmRecs, Now
    <2>4. CASE UNCHANGED <<dmStore, dmCur>>
        BY <1>1, <2>2, <2>3, <2>4, DmRecordStep
    <2>5. CASE Completed(dmCur.id) /\ (UNCHANGED dmCur \/ dmCur' = [dmCur EXCEPT !.st = "moved"])
        <3>1. /\ DisksRight' /\ \A r \in DmRecs : RecordOk(r)'
              /\ dmGone' = dmGone \cup {dmMig[dmOn].from}
            BY <1>1, <2>1, <2>5, DmCompletes
        <3>2. CASE UNCHANGED dmCur
            BY <1>1, <2>2, <2>3, <3>1, <3>2, DmStoreStep
        <3>3. CASE dmCur' = [dmCur EXCEPT !.st = "moved"]
            <4>1. c.st = "moved" /\ c.id = dmOn
                BY <1>1, <1>c, <2>1, <3>3, DmRecords
            <4>2. Behind(dmKnown, dmCur) /\ Behind(dmReg, dmCur)
                BY <1>1 DEF RecordOk
            <4>3. RecordOk(c)'
                BY <1>1, <2>1, <3>1, <4>1, <4>2 DEF RecordOk, RecordRight, Behind, UnderWay, OnCopy
            <4> QED BY <1>c, <2>2, <2>3, <3>1, <4>3, DmStoreStep
        <3> QED BY <2>5, <3>2, <3>3
    <2> QED BY <1>3, <2>4, <2>5 DEF CompleteMove, Becomes
<1>4. CASE WriteRecord
    <2>1. /\ UNCHANGED <<dmStore, dmCur>> /\ dmAt' = "idle" /\ dmAt = "write"
          /\ dmNote' \in {dmNote, dmCur} /\ dmMem' \in {dmMem, dmCur}
          /\ (dmNote' = dmCur /\ dmMem' = dmCur) \/ UNCHANGED dmMem
        BY <1>4 DEF WriteRecord, Stage, ToStage
    <2>2. SwitchOrder'
        BY <2>1 DEF SwitchOrder
    <2>3. DmRecs' \subseteq DmRecs
        BY <2>1 DEF DmRecs, Now
    <2> QED BY <1>1, <2>1, <2>2, <2>3, DmRecordStep
<1> QED BY <1>2, <1>3, <1>4

\* A start attaches what the record says, or what the disk's name finds: with the
\* guest's data in no copy, that is the guest's volume all the same.
LEMMA DmStarting ==
    ASSUME DmTypeOK, DmSafe, StartVmi, ~ dmAstray'
    PROVE  DmSafe'
<1>1. /\ UNCHANGED <<dmStore, dmNote, dmMem, dmCur, dmAt>> /\ dmAt = "idle"
      /\ dmOn' = StartVolume /\ dmKnown' = StartVolume /\ dmReg' = StartVolume /\ (OnCopy(Now) \/ dmOn = 0)
    BY DEF StartVmi, Stage, dmRecords
<1>2. Now \in DmRecs /\ (\A r \in DmRecs : RecordOk(r)) /\ DmRecs' = DmRecs
    BY <1>1 DEF DmRecs, DmSafe, Now
<1>3. StartVolume = dmOn
    BY <1>1, <1>2 DEF StartVolume, DmSafe, DisksRight, RecordOk, RecordRight
<1>4. dmOn' = dmOn /\ dmKnown' = dmOn /\ dmReg' = dmOn /\ UNCHANGED <<dmMig, dmGone, dmFresh>>
    BY <1>1, <1>3 DEF dmStore
<1>5. DisksRight'
    BY <1>4 DEF DmSafe, DisksRight, OnCutOver, FromOthers, MirrorsFresh
<1>6. ASSUME NEW r \in DmRecs PROVE RecordOk(r)'
    <2>1. RecordOk(r)
        BY <1>2
    <2> QED BY <1>4, <2>1 DEF RecordOk, RecordRight, Behind, UnderWay, OnCopy
<1>7. SwitchOrder'
    BY <1>1 DEF SwitchOrder
<1> QED BY <1>2, <1>5, <1>6, <1>7, DmStoreStep

\* A kubelet that dies forgets the pass, and reads what is on record.
LEMMA DmDying ==
    ASSUME DmTypeOK, DmSafe, KubeletDies
    PROVE  DmSafe'
<1>1. /\ UNCHANGED <<dmMig, dmGone, dmFresh, dmOn, dmReg, dmNote>> /\ dmAt' = "idle" /\ dmMem' = Unread /\ dmKnown' = dmReg
    BY DEF KubeletDies, dmStore
<1>2. DmRecs' = {dmNote} /\ RecordOk(dmNote)
    BY <1>1 DEF DmRecs, Now, DmSafe
<1>3. DisksRight'
    BY <1>1 DEF DmSafe, DisksRight, OnCutOver, FromOthers, MirrorsFresh
<1>4. RecordOk(dmNote)'
    BY <1>1, <1>2 DEF RecordOk, RecordRight, Behind, UnderWay, OnCopy
<1>5. SwitchOrder'
    BY <1>1 DEF SwitchOrder
<1>6. \A r \in DmRecs' : RecordOk(r)'
    <2>1. PICK n : n = dmNote
        OBVIOUS
    <2>2. RecordOk(n)'
        BY <1>1, <1>4, <2>1
    <2> QED BY <1>2, <2>1, <2>2
<1> QED BY <1>3, <1>5, <1>6, DmStoreStep

\* Asking, powering off, and nothing at all.
LEMMA DmElsewhere ==
    ASSUME DmSafe, (\E n \in Places : Request(n)) \/ PowerOff \/ UNCHANGED dmVars
    PROVE  DmSafe'
<1>1. UNCHANGED <<dmNote, dmMem, dmCur, dmAt, dmMig, dmGone, dmFresh, dmOn, dmKnown, dmReg>>
    BY DEF Request, PowerOff, dmVars, dmRecords, dmStore, dmMachine
<1>2. UNCHANGED dmGuest \/ dmAt = "idle"
    BY DEF Request, PowerOff, dmVars, dmMachine, Stage
<1>3. DmRecs' = DmRecs
    BY <1>1 DEF DmRecs, Now
<1>4. SwitchOrder'
    BY <1>1, <1>2 DEF DmSafe, SwitchOrder
<1> QED BY <1>1, <1>3, <1>4, DmRecordStep DEF dmStore

LEMMA DmSafeStep ==
    ASSUME DmInv, [DmNext]_dmVars, ~ dmAstray'
    PROVE  DmSafe'
<1>1. DmTypeOK
    BY DEF DmInv
<1>2. CASE StartVmi
    <2>1. DmSafe
        BY <1>2 DEF DmInv, StartVmi
    <2> QED BY <1>1, <1>2, <2>1, DmStarting
<1>3. CASE ~ StartVmi
    <2>1. UNCHANGED dmAstray
        BY <1>3 DEF DmNext, MovePass, LookAtDisk, StartMove, ForgetFailed, CancelMove, CarryCopying, CarrySwitching,
           CarrySwitched, Looks, SwitchOver, MarkSwitching, PauseGuest, CutOver, AttachCopy, SwitchDisk, RecordDisk, Unpause,
           UndoSwitch, DetachSource, CompleteMove, WriteRecord, GuestWrites, PowerOff, KubeletDies, InSync, MirrorBreaks,
           Request, dmBooks, dmVars
    <2>2. DmSafe
        BY <2>1 DEF DmInv
    <2> QED BY <1>1, <1>3, <2>2, DmStoring, DmLooking, DmSwitching, DmRetiring, DmDying, DmElsewhere
            DEF DmNext, MovePass, CopyIds
<1> QED BY <1>2, <1>3

-----------------------------------------------------------------------------
(* The types of a disk move, and its theorems. *)

LEMMA DmMigTypes ==
    ASSUME DmTypeOK, NEW i, NEW s \in {"synced", "cut_over", "completed", "aborted", "failed"}, MigIs(i, s)
    PROVE  dmMig' \in [CopyIds -> DmMigration]
<1>1. CASE i \in CopyIds
    BY <1>1, DmMigs DEF MigAt
<1>2. CASE i \notin CopyIds
    BY <1>2, DmTypes DEF MigIs
<1> QED BY <1>1, <1>2

LEMMA DmAbortTypes ==
    ASSUME DmTypeOK, NEW i \in Volumes, Aborted(i)
    PROVE  /\ dmMig' \in [CopyIds -> DmMigration] /\ dmGone' \subseteq Volumes \cup {Blank}
           /\ dmFresh' \subseteq Volumes \cup {Blank}
<1>1. CASE CanAbort(i)
    BY <1>1, DmTypes, DmMigTypes DEF Aborted
<1>2. CASE ~ CanAbort(i)
    BY <1>2, DmTypes DEF Aborted, dmStore
<1> QED BY <1>1, <1>2

LEMMA DmLookingTypes ==
    ASSUME DmTypeOK, LookAtDisk PROVE DmTypeOK'
<1>1. /\ UNCHANGED <<dmAsk, dmNote, dmMem, dmOn, dmKnown, dmReg>> /\ dmGuest' \in {"running", "paused", "off"}
      /\ dmAt' \in {dmAt, "write", "detach", "mark"}
    BY DmTypes DEF LookAtDisk, StartMove, ForgetFailed, CancelMove, CarryCopying, CarrySwitching, CarrySwitched, Looks,
       ToStage, Runs, WouldNotRun, dmRecords, dmMachine, dmBooks
<1>2. Now \in Moves /\ LocationOf(Now) \in Places /\ dmAt' \in DmStages
    BY <1>1, DmNow, DmTypes DEF DmStages
<1>m. Now.id \in Volumes
    BY <1>2 DEF Moves
<1>3. ASSUME dmCur' \in Moves, dmMig' \in [CopyIds -> DmMigration], dmGone' \subseteq Volumes \cup {Blank},
             dmFresh' \subseteq Volumes \cup {Blank}
      PROVE  DmTypeOK'
    BY <1>1, <1>2, <1>3, DmTypes, DmTypesNext
<1>4. \A st \in {"copying", "switching", "switched", "failed", "unknown"} : [Now EXCEPT !.st = st] \in Moves
    BY <1>2, DmRecords
<1>5. ASSUME UNCHANGED dmStore, dmCur' \in Moves PROVE DmTypeOK'
    BY <1>3, <1>5, DmTypes DEF dmStore
<1>6. CASE StartMove
    <2>1. PICK i \in CopyIds :
            \/ /\ dmKnown \notin dmGone
               /\ dmMig' = [dmMig EXCEPT ![i] = [st |-> "copying", from |-> dmKnown]]
               /\ dmCur' = MoveTo("copying", dmAsk, LocationOf(Now), dmKnown, i)
            \/ dmCur' = MoveTo("failed", dmAsk, LocationOf(Now), dmKnown, 0) /\ UNCHANGED dmMig
        BY <1>6 DEF StartMove, FreshMoves, CopyIds
    <2>2. [st |-> "copying", from |-> dmKnown] \in DmMigration
        BY DmTypes DEF DmMigration
    <2>3. UNCHANGED <<dmGone, dmFresh>>
        BY <1>6 DEF StartMove
    <2>4. dmMig' \in [CopyIds -> DmMigration]
        BY <2>1, <2>2, DmTypes
    <2>5. dmCur' \in Moves
        BY SMTT(30), <1>2, <2>1, DmTypes, DmRecords, DmNumbers
    <2> QED BY <1>3, <2>3, <2>4, <2>5, DmTypes
<1>7. CASE ForgetFailed
    BY <1>5, <1>7, DmRecords DEF ForgetFailed
<1>8. CASE CancelMove
    <2>1. CASE UNCHANGED <<dmStore, dmCur>>
        BY <1>5, <2>1, DmTypes
    <2>2. CASE CanAbort(Now.id) /\ Aborted(Now.id) /\ dmCur' = [Now EXCEPT !.st = "failed"]
        BY <1>2, <1>3, <1>4, <1>m, <2>2, DmAbortTypes
    <2> QED BY <1>8, <2>1, <2>2 DEF CancelMove
<1>9. CASE CarryCopying
    <2>1. CASE UNCHANGED dmStore
        <3>1. \/ dmCur' = [Now EXCEPT !.st = "switched"] \/ dmCur' = [Now EXCEPT !.st = "failed"]
              \/ dmCur' = Now \/ dmCur' = dmCur
            BY <1>9 DEF CarryCopying
        <3> QED BY <1>2, <1>4, <1>5, <2>1, <3>1, DmTypes
    <2>2. CASE Aborted(Now.id) /\ dmCur' = [Now EXCEPT !.st = "failed"]
        BY <1>2, <1>3, <1>4, <1>m, <2>2, DmAbortTypes
    <2> QED BY <1>9, <2>1, <2>2 DEF CarryCopying
<1>10. CASE CarrySwitching
    <2>1. \/ dmCur' = [Now EXCEPT !.st = "switched"] \/ dmCur' = [Now EXCEPT !.st = "copying"]
          \/ dmCur' = [Now EXCEPT !.st = "unknown"] \/ dmCur' = dmCur
        BY <1>10 DEF CarrySwitching
    <2> QED BY <1>4, <1>5, <1>10, <2>1, DmTypes DEF CarrySwitching
<1>11. CASE CarrySwitched
    BY <1>2, <1>5, <1>11 DEF CarrySwitched
<1> QED BY <1>6, <1>7, <1>8, <1>9, <1>10, <1>11 DEF LookAtDisk

LEMMA DmSwitchingTypes ==
    ASSUME DmTypeOK, SwitchOver PROVE DmTypeOK'
<1>1. /\ UNCHANGED dmAsk /\ dmGuest' \in {"running", "paused", "off"} /\ dmAt' \in DmStages
      /\ dmCur \in Moves /\ dmCur.id \in Volumes
    <2>1. UNCHANGED dmAsk
        BY DEF SwitchOver, MarkSwitching, PauseGuest, CutOver, AttachCopy, SwitchDisk, RecordDisk, Unpause, UndoSwitch, dmBooks
    <2>2. dmGuest' \in {"running", "paused", "off"}
        BY DmTypes DEF SwitchOver, MarkSwitching, PauseGuest, CutOver, AttachCopy, SwitchDisk, RecordDisk, Unpause,
           UndoSwitch, Runs, WouldNotRun, dmMachine
    <2>3. dmAt' \in DmStages
        BY DEF SwitchOver, MarkSwitching, PauseGuest, CutOver, AttachCopy, SwitchDisk, RecordDisk, Unpause,
           UndoSwitch, ToStage, DmStages
    <2> QED BY <2>1, <2>2, <2>3, DmTypes DEF Moves
<1>2. \A st \in {"copying", "switching", "switched", "failed", "unknown"} : [dmCur EXCEPT !.st = st] \in Moves
    BY <1>1, DmRecords
<1>3. dmCur' \in Moves
    BY <1>1, <1>2 DEF SwitchOver, MarkSwitching, PauseGuest, CutOver, AttachCopy, SwitchDisk, RecordDisk, Unpause,
       UndoSwitch, Becomes
<1>4. dmNote' \in Moves /\ dmMem' \in Moves
    BY <1>1, <1>2, DmTypes DEF SwitchOver, MarkSwitching, PauseGuest, CutOver, AttachCopy, SwitchDisk, RecordDisk, Unpause,
       UndoSwitch, dmRecords
<1>5. dmOn' \in Volumes \cup {Blank} /\ dmKnown' \in Volumes \cup {Blank} /\ dmReg' \in Volumes \cup {Blank}
    BY <1>1, DmTypes DEF SwitchOver, MarkSwitching, PauseGuest, CutOver, AttachCopy, SwitchDisk, RecordDisk, Unpause,
       UndoSwitch, dmMachine
<1>6. /\ dmMig' \in [CopyIds -> DmMigration] /\ dmGone' \subseteq Volumes \cup {Blank}
      /\ dmFresh' \subseteq Volumes \cup {Blank}
    <2>1. CASE UNCHANGED dmStore
        BY <2>1, DmTypes DEF dmStore
    <2>2. CASE MigIs(dmCur.id, "cut_over") /\ UNCHANGED <<dmGone, dmFresh>>
        BY <2>2, DmTypes, DmMigTypes
    <2>3. CASE Aborted(dmCur.id)
        BY <1>1, <2>3, DmAbortTypes
    <2> QED BY <2>1, <2>2, <2>3 DEF SwitchOver, MarkSwitching, PauseGuest, CutOver, AttachCopy, SwitchDisk, RecordDisk,
                                 Unpause, UndoSwitch, dmStore
<1> QED BY <1>1, <1>3, <1>4, <1>5, <1>6, DmTypes, DmTypesNext

LEMMA DmOtherTypes ==
    ASSUME DmTypeOK, DmCopied,
           DetachSource \/ CompleteMove \/ WriteRecord \/ StartVmi \/ GuestWrites \/ PowerOff \/ KubeletDies
           \/ (\E i \in CopyIds : InSync(i) \/ MirrorBreaks(i)) \/ (\E n \in Places : Request(n)) \/ UNCHANGED dmVars
    PROVE  DmTypeOK'
<1>1. CASE DetachSource \/ WriteRecord \/ UNCHANGED dmVars
    BY <1>1, DmTypes, DmTypesNext
       DEF DetachSource, WriteRecord, dmVars, dmStore, dmRecords, dmMachine, dmBooks, ToStage, DmStages
<1>2. CASE CompleteMove
    <2>1. dmCur.id \in Volumes /\ [dmCur EXCEPT !.st = "moved"] \in Moves
        BY DmTypes, DmRecords DEF Moves
    <2>2. dmCur' \in Moves
        BY <1>2, <2>1, DmTypes DEF CompleteMove, Becomes
    <2>3. dmMig' \in [CopyIds -> DmMigration] /\ dmGone' \subseteq Volumes \cup {Blank}
          /\ dmFresh' \subseteq Volumes \cup {Blank}
        <3>1. CASE UNCHANGED dmStore
            BY <3>1, DmTypes DEF dmStore
        <3>2. CASE CanComplete(dmCur.id) /\ Completed(dmCur.id)
            <4>1. dmMig' \in [CopyIds -> DmMigration]
                BY <3>2, DmMigTypes DEF Completed
            <4>2. dmMig[dmCur.id].from \in Volumes \cup {Blank}
                BY <1>2, DmTypes DEF DmCopied, CompleteMove, Stage, DmMigration
            <4> QED BY <3>2, <4>1, <4>2, DmTypes DEF Completed
        <3> QED BY <1>2, <3>1, <3>2 DEF CompleteMove
    <2> QED BY <1>2, <2>2, <2>3, DmTypes, DmTypesNext DEF CompleteMove, ToStage, DmStages, dmRecords, dmMachine, dmBooks
<1>3. CASE StartVmi
    <2>1. StartVolume \in Volumes \cup {Blank}
        BY DmNow, DmNumbers DEF StartVolume, Moves
    <2> QED BY <1>3, <2>1, DmTypes, DmTypesNext DEF StartVmi, dmRecords, dmStore
<1>4. CASE GuestWrites
    BY <1>4, DmTypes, DmTypesNext, DmNumbers DEF GuestWrites, CopyIds, dmRecords, dmMachine, dmBooks
<1>5. CASE PowerOff \/ (\E n \in Places : Request(n))
    BY <1>5, DmTypes, DmTypesNext DEF PowerOff, Request, dmRecords, dmStore, dmMachine, dmBooks
<1>6. CASE KubeletDies
    <2>1. NoMove \in Moves /\ Unread \in Moves
        BY DmNumbers DEF NoMove, Unread, MoveTo, Moves, Places
    <2> QED BY <1>6, <2>1, DmTypes, DmTypesNext DEF KubeletDies, dmStore, DmStages
<1>7. ASSUME NEW i \in CopyIds, InSync(i) \/ MirrorBreaks(i) PROVE DmTypeOK'
    <2>1. dmMig' \in [CopyIds -> DmMigration]
        BY <1>7, DmMigTypes DEF InSync, MirrorBreaks
    <2>2. dmGone' \subseteq Volumes \cup {Blank} /\ dmFresh' \subseteq Volumes \cup {Blank}
        BY <1>7, DmTypes, DmNumbers DEF InSync, MirrorBreaks
    <2> QED BY <1>7, <2>1, <2>2, DmTypes, DmTypesNext DEF InSync, MirrorBreaks, dmRecords, dmMachine, dmBooks
<1> QED BY <1>1, <1>2, <1>3, <1>4, <1>5, <1>6, <1>7

LEMMA DmTypesStep == DmTypeOK /\ DmCopied /\ [DmNext]_dmVars => DmTypeOK'
BY DmLookingTypes, DmSwitchingTypes, DmOtherTypes DEF DmNext, MovePass, CopyIds

LEMMA DmCopiedStep ==
    ASSUME DmTypeOK, DmCopied, [DmNext]_dmVars PROVE DmCopied'
<1> DEFINE Kept == UNCHANGED <<dmNote, dmMem>> /\ OfCopy(dmCur') /\ (dmAt' \notin {"idle", "write"} => dmCur'.id \in CopyIds)
<1>1. Kept => DmCopied'
    BY DEF DmCopied, OfCopy
<1> HIDE DEF Kept
<1>2. Now \in Moves /\ OfCopy(Now) /\ dmCur \in Moves
    BY DmNow, DmTypes DEF Now, DmCopied
<1>3. /\ [Now EXCEPT !.st = "copying"].id = Now.id
      /\ [Now EXCEPT !.st = "switched"].id = Now.id
      /\ [Now EXCEPT !.st = "moved"].id = Now.id
      /\ [Now EXCEPT !.st = "failed"].id = Now.id
      /\ [Now EXCEPT !.st = "unknown"].id = Now.id
      /\ [dmCur EXCEPT !.st = "copying"].id = dmCur.id
      /\ [dmCur EXCEPT !.st = "switched"].id = dmCur.id
      /\ [dmCur EXCEPT !.st = "moved"].id = dmCur.id
      /\ [dmCur EXCEPT !.st = "failed"].id = dmCur.id
      /\ [dmCur EXCEPT !.st = "unknown"].id = dmCur.id
      /\ [Now EXCEPT !.st = "failed"].st = "failed"
    BY <1>2, DmRecords
<1>4. CASE StartMove
    <2>1. PICK i \in CopyIds : \/ dmCur' = MoveTo("copying", dmAsk, LocationOf(Now), dmKnown, i)
                              \/ dmCur' = MoveTo("failed", dmAsk, LocationOf(Now), dmKnown, 0)
        BY <1>4 DEF StartMove, FreshMoves, CopyIds
    <2>2. OfCopy(dmCur') /\ dmAt' = "write" /\ UNCHANGED <<dmNote, dmMem>>
        BY <1>4, <2>1 DEF OfCopy, MoveTo, StartMove, Looks, ToStage, dmRecords
    <2> QED BY <1>1, <2>2 DEF Kept
<1>5. CASE ForgetFailed
    BY <1>1, <1>5 DEF ForgetFailed, Looks, ToStage, dmRecords, OfCopy, NoMove, MoveTo, Kept
<1>6. CASE CancelMove
    BY <1>1, <1>2, <1>3, <1>6 DEF CancelMove, Looks, Stage, ToStage, dmRecords, OfCopy, DmCopied, Kept
<1>7. CASE CarryCopying
    <2>1. Now.id \in CopyIds /\ UNCHANGED <<dmNote, dmMem>> /\ dmAt = "idle"
        BY <1>2, <1>7 DEF CarryCopying, Looks, Stage, OfCopy, dmRecords
    <2>2. \/ dmCur' = [Now EXCEPT !.st = "switched"] \/ dmCur' = [Now EXCEPT !.st = "failed"]
          \/ dmCur' = Now \/ UNCHANGED <<dmCur, dmAt>>
        BY <1>7 DEF CarryCopying
    <2>3. dmCur'.id \in CopyIds \/ UNCHANGED <<dmCur, dmAt>>
        BY <1>3, <2>1, <2>2
    <2>4. OfCopy(dmCur') /\ (dmAt' # "idle" => dmCur'.id \in CopyIds)
        BY <2>1, <2>3 DEF OfCopy, DmCopied
    <2> QED BY <1>1, <2>1, <2>4 DEF Kept
<1>8. CASE CarrySwitching \/ CarrySwitched
    <2>1. Now.id \in CopyIds /\ UNCHANGED <<dmNote, dmMem>> /\ dmAt = "idle"
        BY <1>2, <1>8 DEF CarrySwitching, CarrySwitched, Looks, Stage, OfCopy, dmRecords
    <2>2. \/ dmCur' = [Now EXCEPT !.st = "switched"] \/ dmCur' = [Now EXCEPT !.st = "copying"]
          \/ dmCur' = [Now EXCEPT !.st = "unknown"] \/ dmCur' = Now \/ UNCHANGED <<dmCur, dmAt>>
        BY <1>8 DEF CarrySwitching, CarrySwitched
    <2>3. dmCur'.id \in CopyIds \/ UNCHANGED <<dmCur, dmAt>>
        BY <1>3, <2>1, <2>2
    <2>4. OfCopy(dmCur') /\ (dmAt' # "idle" => dmCur'.id \in CopyIds)
        BY <2>1, <2>3 DEF OfCopy, DmCopied
    <2> QED BY <1>1, <2>1, <2>4 DEF Kept
<1>9. CASE MarkSwitching
    <2> DEFINE r == [dmCur EXCEPT !.st = "switching"]
    <2>1. r.st = "switching" /\ r.id = dmCur.id /\ dmCur.id \in CopyIds
        BY <1>3, <1>9 DEF MarkSwitching, Stage, DmCopied
    <2>2. \/ dmNote' = r /\ dmMem' = r /\ dmCur' = r
          \/ (dmNote' = dmNote \/ dmNote' = r) /\ UNCHANGED <<dmMem, dmCur>>
        BY <1>9 DEF MarkSwitching
    <2> HIDE DEF r
    <2> QED BY <2>1, <2>2 DEF DmCopied, OfCopy
<1>10. CASE PauseGuest \/ CutOver \/ AttachCopy \/ SwitchDisk \/ RecordDisk \/ Unpause \/ UndoSwitch
    <2>1. dmCur.id \in CopyIds /\ UNCHANGED <<dmNote, dmMem>>
        BY <1>10 DEF PauseGuest, CutOver, AttachCopy, SwitchDisk, RecordDisk, Unpause, UndoSwitch, Stage, DmCopied, dmRecords
    <2>2. \/ dmCur' = [dmCur EXCEPT !.st = "copying"] \/ dmCur' = [dmCur EXCEPT !.st = "unknown"]
          \/ dmCur' = [dmCur EXCEPT !.st = "switched"] \/ dmCur' = [dmCur EXCEPT !.st = "failed"] \/ dmCur' = dmCur
        BY <1>10 DEF PauseGuest, CutOver, AttachCopy, SwitchDisk, RecordDisk, Unpause, UndoSwitch, Becomes
    <2>3. dmCur'.id \in CopyIds
        BY <1>3, <2>1, <2>2
    <2> QED BY <1>1, <2>1, <2>3 DEF OfCopy, Kept
<1>11. CASE DetachSource \/ CompleteMove
    <2>1. dmCur.id \in CopyIds /\ UNCHANGED <<dmNote, dmMem>>
        BY <1>11 DEF DetachSource, CompleteMove, Stage, DmCopied, dmRecords
    <2>2. dmCur' = [dmCur EXCEPT !.st = "moved"] \/ dmCur' = dmCur
        BY <1>11 DEF DetachSource, CompleteMove, Becomes
    <2>3. dmCur'.id \in CopyIds
        BY <1>3, <2>1, <2>2
    <2> QED BY <1>1, <2>1, <2>3 DEF OfCopy, Kept
<1>12. CASE WriteRecord
    BY <1>12 DEF WriteRecord, ToStage, DmCopied, OfCopy
<1>13. CASE KubeletDies
    BY <1>13 DEF KubeletDies, DmCopied, OfCopy, NoMove, Unread, MoveTo
<1>14. CASE StartVmi \/ GuestWrites \/ PowerOff \/ (\E i \in CopyIds : InSync(i) \/ MirrorBreaks(i))
            \/ (\E n \in Places : Request(n)) \/ UNCHANGED dmVars
    <2>1. UNCHANGED <<dmNote, dmMem, dmCur, dmAt>>
        BY <1>14 DEF StartVmi, GuestWrites, PowerOff, InSync, MirrorBreaks, Request, dmVars, dmRecords
    <2> QED BY <2>1 DEF DmCopied, OfCopy
<1> QED BY <1>4, <1>5, <1>6, <1>7, <1>8, <1>9, <1>10, <1>11, <1>12, <1>13, <1>14
        DEF DmNext, MovePass, LookAtDisk, SwitchOver, CopyIds

LEMMA DmInvInit == DmInit => DmInv
<1> SUFFICES ASSUME DmInit PROVE DmInv
    OBVIOUS
<1>1. NoMove \in Moves /\ Unread \in Moves /\ [st |-> "none", from |-> 0] \in DmMigration
    BY DmNumbers DEF NoMove, Unread, MoveTo, Moves, Places, DmMigration
<1>2. DmTypeOK
    BY <1>1, DmTypes, DmNumbers DEF DmInit, CopyIds, DmStages, Places
<1>3. DmCopied
    BY DEF DmInit, DmCopied, OfCopy, NoMove, Unread, MoveTo
<1>4. \A i \in CopyIds : dmMig[i].st = "none"
    BY DEF DmInit, CopyIds
<1>5. DmSafe
    <2>1. DisksRight
        BY <1>4, DmNumbers DEF DmInit, DisksRight, OnCutOver, FromOthers, MirrorsFresh
    <2>2. DmRecs = {NoMove}
        BY DEF DmInit, DmRecs, Now
    <2>3. RecordOk(NoMove)
        BY DEF DmInit, RecordOk, RecordRight, Behind, UnderWay, OnCopy, NoMove, MoveTo
    <2>4. SwitchOrder
        BY DEF DmInit, SwitchOrder
    <2> QED BY <2>1, <2>2, <2>3, <2>4 DEF DmSafe
<1> QED BY <1>2, <1>3, <1>5 DEF DmInv

LEMMA DmInvStep == DmInv /\ [DmNext]_dmVars => DmInv'
BY DmTypesStep, DmCopiedStep, DmSafeStep DEF DmInv

\* The types of the volumes, the migrations and the records of a move hold
\* whatever fails, is lost or dies (move_disks, vm_manager.rs).
THEOREM DiskMoveTypeCorrect == DmSpec => []DmTypeOK
<1>1. DmInv => DmTypeOK
    BY DEF DmInv
<1> QED BY <1>1, DmInvInit, DmInvStep, PTL DEF DmSpec

\* The guest has what it wrote: its device is on a volume that is there and is
\* not behind, for any number of moves, asks, failed calls and deaths
\* (switch_disk_over and retire_disk_source, vm_manager.rs).
THEOREM GuestHasItsDataHolds == DmSpec => []GuestHasItsData
<1>1. DmInv => GuestHasItsData
    BY DEF DmInv, DmSafe, DisksRight, GuestHasItsData
<1> QED BY <1>1, DmInvInit, DmInvStep, PTL DEF DmSpec
=============================================================================
