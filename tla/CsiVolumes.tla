----------------------------- MODULE CsiVolumes -----------------------------
(***************************************************************************)
(* A CSI driver's volume on the node (pod_manager/csi_volumes.rs), staged  *)
(* once and published to each Pod or VMI that uses it: a start records,    *)
(* stages and publishes it; a stop, or the sweep that looks for what gone  *)
(* holders left, unpublishes it and, for the last of them, unstages it.    *)
(* The operations on one volume exclude one another by try_lock, and one   *)
(* that finds it taken fails and is tried again.  The records are files;   *)
(* the kubelet may die between any two calls, and the driver's plugin may  *)
(* go away and come back.                                                  *)
(***************************************************************************)
EXTENDS Naturals

CONSTANTS Users,      \* the holders: Pods, and VMIs under their vm_holder
          Machines,   \* those that are VMIs
          MaxHitches  \* bound: calls that fail, and deaths of the kubelet

ASSUME CsiAssumption ==
    /\ Machines \subseteq Users /\ MaxHitches \in Nat
    /\ Users \cap {"free", "sweep", "vm sweep"} = {}

Sweeps == {"sweep", "vm sweep"}
Tasks == Users \cup Sweeps

VARIABLES cvObj,      \* what the apiserver has of each: none, live, over (finished), deleting, gone
          cvKnown,    \* pods, or vms: the holders that are up here
          cvRec,      \* the holders with a vol_data.json
          cvTarget,   \* those the driver has published the volume to
          cvStaged,   \* the driver has it staged
          cvLock,     \* csi_operations: who has the volume's
          cvTask,     \* each holder's pass, and the sweeps: the step, and whose volume
          cvTodo,     \* each sweep's holders still to look at
          cvHitches

cvVars == <<cvObj, cvKnown, cvRec, cvTarget, cvStaged, cvLock, cvTask, cvTodo, cvHitches>>
cvDriver == <<cvTarget, cvStaged>>
cvNode == <<cvObj, cvKnown, cvTodo>>

AtRest == [at |-> "idle", of |-> "free"]
Task(t, a) == cvTask[t].at = a
ToStep(t, a) == cvTask' = [cvTask EXCEPT ![t].at = a]
Hitch == cvHitches < MaxHitches /\ cvHitches' = cvHitches + 1
NoHitch == UNCHANGED cvHitches
Over(t) == cvTask' = [cvTask EXCEPT ![t] = AtRest]
\* Faulty: an error leaves the volume's lock.
OverLocked(t) == Over(t) /\ UNCHANGED cvLock
OverUnlocked(t) == Over(t) /\ cvLock' = "free"

-----------------------------------------------------------------------------
(* mount_csi and publish_csi, by the holder's start. *)

BeginPublish(u) ==
    /\ Task(u, "idle") /\ cvObj[u] = "live" /\ u \notin cvKnown
    /\ cvLock = "free" /\ cvLock' = u
    /\ cvTask' = [cvTask EXCEPT ![u] = [at |-> "record", of |-> u]]
    /\ NoHitch /\ UNCHANGED <<cvNode, cvRec, cvDriver>>

\* Faulty: recorded once it is there.
RecordLast(u) ==
    /\ Task(u, "record") /\ ToStep(u, "stage")
    /\ NoHitch /\ UNCHANGED <<cvNode, cvRec, cvDriver, cvLock>>

\* The record first, so that a publish the kubelet forgets is undone.
WriteVolData(u) ==
    /\ Task(u, "record")
    /\ \/ NoHitch /\ cvRec' = cvRec \cup {u} /\ ToStep(u, "stage") /\ UNCHANGED cvLock
       \/ Hitch /\ OverUnlocked(u) /\ UNCHANGED cvRec
    /\ UNCHANGED <<cvNode, cvDriver>>

\* A call that fails may have been done.
StageVolume(u) ==
    /\ Task(u, "stage")
    /\ \/ NoHitch /\ cvStaged' = TRUE /\ ToStep(u, "publish") /\ UNCHANGED cvLock
       \/ Hitch /\ cvStaged' \in {cvStaged, TRUE} /\ OverUnlocked(u)
    /\ UNCHANGED <<cvNode, cvRec, cvTarget>>

\* Published, and seen in mountinfo: the volume's path is the start's to bind.
PublishVolume(u) ==
    /\ Task(u, "publish")
    /\ \/ NoHitch /\ cvTarget' = cvTarget \cup {u} /\ ToStep(u, "launch")
       \/ Hitch /\ cvTarget' \in {cvTarget, cvTarget \cup {u}} /\ Over(u)
    /\ cvLock' = "free" /\ UNCHANGED <<cvNode, cvRec, cvStaged>>

\* The rest of the start; a VMI that does not start gives its disks back.
LaunchUser(u) ==
    /\ Task(u, "launch")
    /\ \/ NoHitch /\ cvKnown' = cvKnown \cup {u} /\ Over(u)
       \/ Hitch /\ UNCHANGED cvKnown
          /\ cvTask' = [cvTask EXCEPT ![u] = IF u \in Machines THEN [at |-> "read", of |-> u] ELSE AtRest]
    /\ UNCHANGED <<cvObj, cvTodo, cvRec, cvDriver, cvLock>>

-----------------------------------------------------------------------------
(* teardown_csi_dirs, by a holder's stop or by a sweep. *)

\* stop_pod_within, its containers gone; a holder that is not up is stopped as
\* long as its object is there.
BeginStop(u) ==
    /\ Task(u, "idle") /\ \/ cvObj[u] = "deleting"
                          \/ cvObj[u] = "gone" /\ u \in cvKnown
    /\ cvTask' = [cvTask EXCEPT ![u] = [at |-> "read", of |-> u]]
    /\ NoHitch /\ UNCHANGED <<cvNode, cvRec, cvDriver, cvLock>>

\* The record is read before the lock is had.  None: nothing was asked of the
\* driver.
ReadVolData(t) ==
    /\ Task(t, "read")
    /\ ToStep(t, IF cvTask[t].of \in cvRec THEN "lock" ELSE "clean")
    /\ NoHitch /\ UNCHANGED <<cvNode, cvRec, cvDriver, cvLock>>

\* It is had at once or not; and the driver is registered or not.
LockVolume(t) ==
    /\ Task(t, "lock")
    /\ \/ cvLock = "free" /\ NoHitch /\ cvLock' = t /\ ToStep(t, "unpublish")
       \/ (IF cvLock = "free" THEN Hitch ELSE NoHitch) /\ Over(t) /\ UNCHANGED cvLock
    /\ UNCHANGED <<cvNode, cvRec, cvDriver>>

UnpublishVolume(t) ==
    LET u == cvTask[t].of IN
    /\ Task(t, "unpublish")
    /\ \/ NoHitch /\ cvTarget' = cvTarget \ {u} /\ ToStep(t, "unstage") /\ UNCHANGED cvLock
       \/ Hitch /\ cvTarget' \in {cvTarget, cvTarget \ {u}} /\ OverUnlocked(t)
    /\ UNCHANGED <<cvNode, cvRec, cvStaged>>

\* Another holder's record, whether it is up or not.
InUse(u) == \E w \in cvRec : w # u

UnstageVolume(t) ==
    /\ Task(t, "unstage")
    /\ \/ /\ NoHitch /\ cvStaged' = (cvStaged /\ InUse(cvTask[t].of))
          /\ ToStep(t, "forget") /\ UNCHANGED cvLock
       \/ ~ InUse(cvTask[t].of) /\ Hitch /\ cvStaged' \in {cvStaged, FALSE} /\ OverUnlocked(t)
    /\ UNCHANGED <<cvNode, cvRec, cvTarget>>

RemoveVolData(t) ==
    /\ Task(t, "forget") /\ cvLock' = "free"
    /\ \/ NoHitch /\ cvRec' = cvRec \ {cvTask[t].of} /\ ToStep(t, "clean")
       \/ Hitch /\ Over(t) /\ UNCHANGED cvRec
    /\ UNCHANGED <<cvNode, cvDriver>>

\* Nothing is left: the stop forgets its holder and the deletion is confirmed; a
\* start that failed is over; a sweep goes on.
Clean(t) ==
    /\ Task(t, "clean") /\ Over(t)
    /\ IF t \in Users /\ cvObj[t] \in {"deleting", "gone"}
       THEN cvKnown' = cvKnown \ {t} /\ cvObj' = [cvObj EXCEPT ![t] = "gone"]
       ELSE UNCHANGED <<cvKnown, cvObj>>
    /\ NoHitch /\ UNCHANGED <<cvTodo, cvRec, cvDriver, cvLock>>

-----------------------------------------------------------------------------
(* sweep_csi_volumes and sweep_vm_csi. *)

SweptBy(s) == IF s = "vm sweep" THEN Machines ELSE Users \ Machines

\* The records.
BeginSweep(s) ==
    /\ Task(s, "idle") /\ cvTodo[s] = {} /\ cvRec \cap SweptBy(s) # {}
    /\ cvTodo' = [cvTodo EXCEPT ![s] = cvRec \cap SweptBy(s)]
    /\ cvTask' = [cvTask EXCEPT ![s] = [at |-> IF s = "sweep" THEN "list" ELSE "next", of |-> "free"]]
    /\ NoHitch /\ UNCHANGED <<cvObj, cvKnown, cvRec, cvDriver, cvLock>>

\* Faulty: only pods, the manager's own table, is asked.
ListNobody ==
    /\ Task("sweep", "list")
    /\ NoHitch /\ ToStep("sweep", "next") /\ UNCHANGED cvTodo
    /\ UNCHANGED <<cvObj, cvKnown, cvRec, cvDriver, cvLock>>

\* The apiserver's list of Pods, after the records; unreadable, nothing is touched.
ListUsers ==
    /\ Task("sweep", "list")
    /\ \/ /\ NoHitch /\ ToStep("sweep", "next")
          /\ cvTodo' = [cvTodo EXCEPT !["sweep"] = {u \in @ : cvObj[u] \notin {"live", "deleting"}}]
       \/ Hitch /\ Over("sweep") /\ cvTodo' = [cvTodo EXCEPT !["sweep"] = {}]
    /\ UNCHANGED <<cvObj, cvKnown, cvRec, cvDriver, cvLock>>

\* One that is up is passed over; a VMI that is wanted, too.
Spared(s, u) == u \in cvKnown \/ (s = "vm sweep" /\ cvObj[u] \in {"live", "deleting"})

SweepNext(s) ==
    /\ Task(s, "next") \/ (Task(s, "idle") /\ cvTodo[s] # {})
    /\ IF cvTodo[s] = {} THEN Over(s) /\ UNCHANGED cvTodo
       ELSE \E u \in cvTodo[s] :
              /\ cvTodo' = [cvTodo EXCEPT ![s] = @ \ {u}]
              /\ cvTask' = [cvTask EXCEPT ![s] =
                              IF Spared(s, u) THEN [@ EXCEPT !.at = "next"] ELSE [at |-> "read", of |-> u]]
    /\ NoHitch /\ UNCHANGED <<cvObj, cvKnown, cvRec, cvDriver, cvLock>>

-----------------------------------------------------------------------------
(* The cluster, the kubelet. *)

ObjectChanges(u) ==
    /\ \/ cvObj[u] = "none" /\ cvObj' = [cvObj EXCEPT ![u] = "live"]
       \/ cvObj[u] = "live" /\ u \in cvKnown /\ u \notin Machines /\ cvObj' = [cvObj EXCEPT ![u] = "over"]
       \/ cvObj[u] \in {"live", "over"} /\ \E o \in {"deleting", "gone"} : cvObj' = [cvObj EXCEPT ![u] = o]
    /\ NoHitch /\ UNCHANGED <<cvKnown, cvTodo, cvTask, cvRec, cvDriver, cvLock>>

\* What is up is adopted again; of a finished Pod nothing may be left to adopt.
KubeletRestarts ==
    /\ Hitch /\ cvLock' = "free"
    /\ cvTask' = [t \in Tasks |-> AtRest] /\ cvTodo' = [s \in Sweeps |-> {}]
    /\ cvKnown' \in {cvKnown, {u \in cvKnown : cvObj[u] # "over"}}
    /\ UNCHANGED <<cvObj, cvRec, cvDriver>>

-----------------------------------------------------------------------------
CvInit ==
    /\ cvObj = [u \in Users |-> "none"] /\ cvKnown = {} /\ cvRec = {} /\ cvTarget = {}
    /\ cvStaged = FALSE /\ cvLock = "free"
    /\ cvTask = [t \in Tasks |-> AtRest] /\ cvTodo = [s \in Sweeps |-> {}] /\ cvHitches = 0

Teardown(t) ==
    ReadVolData(t) \/ LockVolume(t) \/ UnpublishVolume(t) \/ UnstageVolume(t) \/ RemoveVolData(t) \/ Clean(t)
UserPass(u) ==
    \/ BeginPublish(u) \/ WriteVolData(u) \/ StageVolume(u) \/ PublishVolume(u) \/ LaunchUser(u)
    \/ BeginStop(u) \/ Teardown(u)
SweepStep(s) == BeginSweep(s) \/ (s = "sweep" /\ ListUsers) \/ SweepNext(s) \/ Teardown(s)

CvNext ==
    \/ \E u \in Users : UserPass(u) \/ ObjectChanges(u)
    \/ \E s \in Sweeps : SweepStep(s)
    \/ KubeletRestarts

\* A pass that fails is tried again, and so is a sweep with something left
\* (CSI_TEARDOWN_PENDING).
CvFairness ==
    /\ \A u \in Users : WF_cvVars(UserPass(u))
    /\ \A s \in Sweeps : WF_cvVars(SweepStep(s))

CvSpec == CvInit /\ [][CvNext]_cvVars /\ CvFairness

-----------------------------------------------------------------------------
(* Properties. *)

CvTypeOK ==
    /\ cvObj \in [Users -> {"none", "live", "over", "deleting", "gone"}]
    /\ cvKnown \subseteq Users /\ cvRec \subseteq Users /\ cvTarget \subseteq Users
    /\ cvStaged \in BOOLEAN /\ cvLock \in Tasks \cup {"free"}
    \* The volume is its holder's for the driver's calls and the record's writes.
    /\ cvLock # "free" =>
           cvTask[cvLock].at \in {"record", "stage", "publish", "unpublish", "unstage", "forget"}
    /\ cvTask \in [Tasks -> [at : {"idle", "record", "stage", "publish", "launch", "read", "lock",
                                   "unpublish", "unstage", "forget", "clean", "list", "next"},
                             of : Users \cup {"free"}]]
    /\ cvTodo \in [Sweeps -> SUBSET Users]

\* What the driver has of the volume is on record, and it is staged as long as
\* it is published to anybody, whoever starts, stops, sweeps, fails or dies
\* meanwhile (publish_csi and teardown_csi_dirs).
VolumeOnRecord ==
    /\ cvTarget \subseteq cvRec /\ (cvStaged => cvRec # {})
    /\ cvTarget # {} => cvStaged

\* A Pod or VMI that is up, or on its way, with its object there, keeps its volume
\* (sweep_csi_volumes: "keeps this away from a pod half-way through its start").
UpKeepsVolume ==
    \A u \in Users :
        /\ cvObj[u] = "live"
        /\ u \in cvKnown \/ Task(u, "launch")
        => u \in cvTarget

\* A volume is never lost sight of, nor taken from who uses it.
VolumeKept == VolumeOnRecord /\ UpKeepsVolume

\* Nothing is left of a gone holder's volume: what a teardown or a start leaves
\* behind, a later pass or sweep finds by its record.
GoneGiveBack == \A u \in Users : cvObj[u] = "gone" => u \notin cvRec
=============================================================================
