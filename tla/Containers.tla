----------------------------- MODULE Containers -----------------------------
(***************************************************************************)
(* The stormpump runtime's account of containers (stormpump_runtime.rs)    *)
(* against what the engine holds for them.  A container's Pod calls        *)
(* create, start, stop and remove, one at a time; any caller (the Pod's    *)
(* own status, or another task's listing or statistics) drains the exits   *)
(* the ring has read, notes them and goes on with the removals they        *)
(* unblock.  Every await is a step: a call to the engine and the note of   *)
(* its answer, under the lock of the records, are two.                     *)
(***************************************************************************)
EXTENDS Naturals, Sequences, FiniteSets

CONSTANTS Cts,        \* containers, each with a Pod of its own
          Others,     \* other tasks that list containers
          Strays,     \* workloads whose exit no container claims: spawns given up on
          MaxKept,    \* UNCLAIMED_EXITS
          MaxSlips    \* bound: engine calls refused for no reason here, or unanswered

ASSUME ContainersAssumption ==
    /\ IsFiniteSet(Cts \cup Strays) /\ Cts \cap Strays = {} /\ Cts \cap Others = {}
    /\ MaxKept \in Nat \ {0} /\ MaxSlips \in Nat

Callers == Cts \cup Others
\* What the engine and the block store hold for a container.
Holdings == {"work", "mounts", "root", "clone"}

VARIABLES ctRec,      \* the runtime's record of each container
          ctHeld,     \* what is held for it
          ctProc,     \* its process
          ctExits,    \* exits the ring has read and nobody drained
          ctKept,     \* unclaimed exits, oldest first
          ctJob,      \* what each caller is at
          ctDue,      \* removals last tried REMOVAL_RETRY ago
          ctBox,      \* each Pod's sandbox
          ctStrays,   \* strays that have not ended
          ctSlips, ctLost   \* calls that went wrong; those of them never answered

ctVars == <<ctRec, ctHeld, ctProc, ctExits, ctKept, ctJob, ctDue, ctBox, ctStrays, ctSlips, ctLost>>
engineVars == <<ctHeld, ctProc>>
exitVars == <<ctExits, ctKept, ctStrays>>
slipVars == <<ctSlips, ctLost>>

NoContainer == [st |-> "none", has |-> {}, removing |-> FALSE]
NoJob == [at |-> "idle", c |-> "none", plan |-> <<>>, rooted |-> FALSE, batch |-> {}, todo |-> {}]

Idle(d) == ctJob[d].at = "idle"
Goto(d, a) == ctJob' = [ctJob EXCEPT ![d].at = a]
Slip == ctSlips < MaxSlips /\ ctSlips' = ctSlips + 1
Slipped == Slip /\ UNCHANGED ctLost
Known(c) == ctRec[c].st # "none"

-----------------------------------------------------------------------------
(* create_container: clone a root, have it mounted, define the spec, record. *)

Create(c) ==
    /\ Idle(c) /\ ctBox[c] = "ready" /\ ctProc[c] = "unmade" /\ ctHeld[c] = {}
    /\ ctHeld' = [ctHeld EXCEPT ![c] = {"clone"}]
    /\ Goto(c, "mount")
    /\ UNCHANGED <<ctRec, ctProc, exitVars, ctDue, ctBox, slipVars>>

\* A mount that is not answered in time leaves the clone where it is until the
\* ring says the engine let go of it (Ring.SettledMeansGone).
Mount(c) ==
    /\ ctJob[c].at = "mount"
    /\ \/ /\ ctHeld' = [ctHeld EXCEPT ![c] = @ \cup {"root"}]
          /\ Goto(c, "define") /\ UNCHANGED slipVars
       \/ Slipped /\ ctHeld' = [ctHeld EXCEPT ![c] = {}] /\ Goto(c, "idle")
    /\ UNCHANGED <<ctRec, ctProc, exitVars, ctDue, ctBox>>

\* discard_root: the mount is released, and the clone deleted, whatever the
\* engine said of the mount.
Define(c) ==
    /\ ctJob[c].at = "define"
    /\ \/ /\ ctRec' = [ctRec EXCEPT ![c] = [st |-> "created", has |-> {"root", "clone"},
                                            removing |-> FALSE]]
          /\ ctProc' = [ctProc EXCEPT ![c] = "none"]
          /\ Goto(c, "idle") /\ UNCHANGED slipVars
       \/ Slipped /\ Goto(c, "discard") /\ UNCHANGED <<ctRec, ctProc>>
    /\ UNCHANGED <<ctHeld, exitVars, ctDue, ctBox>>

DiscardRoot(c) ==
    /\ ctJob[c].at = "discard"
    /\ \/ ctHeld' = [ctHeld EXCEPT ![c] = @ \ {"root"}] /\ UNCHANGED slipVars
       \/ Slipped /\ UNCHANGED ctHeld
    /\ Goto(c, "drop clone")
    /\ UNCHANGED <<ctRec, ctProc, exitVars, ctDue, ctBox>>

DiscardClone(c) ==
    /\ ctJob[c].at = "drop clone"
    /\ ctHeld' = [ctHeld EXCEPT ![c] = @ \ {"clone"}]
    /\ Goto(c, "idle")
    /\ UNCHANGED <<ctRec, ctProc, exitVars, ctDue, ctBox, slipVars>>

-----------------------------------------------------------------------------
(* start_container. *)

\* The closure on the ring: the volumes, then the spawn.
Spawn(c) ==
    /\ Idle(c) /\ ctRec[c].st = "created" /\ ~ ctRec[c].removing /\ ctProc[c] = "none"
    /\ "mounts" \notin ctRec[c].has
    /\ \/ /\ ctHeld' = [ctHeld EXCEPT ![c] = @ \cup {"mounts", "work"}]
          /\ ctProc' = [ctProc EXCEPT ![c] = "running"]
          /\ Goto(c, "record") /\ UNCHANGED slipVars
       \/ /\ Slipped /\ UNCHANGED ctProc
          /\ ctHeld' = [ctHeld EXCEPT ![c] = @ \cup {"mounts"}]
          /\ Goto(c, "failed")
    /\ UNCHANGED <<ctRec, exitVars, ctDue, ctBox>>

SpawnFailed(c) ==
    /\ ctJob[c].at = "failed"
    /\ ctRec' = [ctRec EXCEPT ![c].has = @ \cup {"mounts"}]
    /\ Goto(c, "idle")
    /\ UNCHANGED <<engineVars, exitVars, ctDue, ctBox, slipVars>>

Among(s) == {s[i] : i \in DOMAIN s}
WithoutAt(s, i) == SubSeq(s, 1, i - 1) \o SubSeq(s, i + 1, Len(s))

\* What the record becomes: Exited at once if the exit was read before it.
StartedOf(c) == [ctRec[c] EXCEPT !.st = IF c \in Among(ctKept) THEN "exited" ELSE "running",
                                 !.has = @ \cup {"mounts", "work"}]

\* The handle recorded, and an exit read before it taken, under one lock.
RecordStart(c) ==
    /\ ctJob[c].at = "record"
    /\ ctRec' = [ctRec EXCEPT ![c] = StartedOf(c)]
    /\ IF c \in Among(ctKept)
       THEN \E i \in DOMAIN ctKept : ctKept[i] = c /\ ctKept' = WithoutAt(ctKept, i)
       ELSE UNCHANGED ctKept
    /\ Goto(c, "idle")
    /\ UNCHANGED <<engineVars, ctExits, ctStrays, ctDue, ctBox, slipVars>>

-----------------------------------------------------------------------------
(* stop_container: one operation of the engine, which keeps the grace.      *)
(* Exited is said of it at once, ended or not.                              *)

Stop(c) ==
    /\ Idle(c) /\ Known(c) /\ ~ ctRec[c].removing
    /\ \/ /\ ctRec' = [ctRec EXCEPT ![c].st = "exited"]
          /\ ctProc' = [ctProc EXCEPT ![c] = IF @ = "running" /\ ctRec[c].st = "running"
                                             THEN "stopping" ELSE @]
          /\ UNCHANGED slipVars
       \/ ctRec[c].st = "running" /\ Slipped /\ UNCHANGED <<ctRec, ctProc>>
    /\ UNCHANGED <<ctHeld, exitVars, ctJob, ctDue, ctBox>>

-----------------------------------------------------------------------------
(* absorb_exits and note_exits. *)

Drain(d) ==
    /\ Idle(d) /\ ctExits \cup ctDue # {}
    /\ ctJob' = [ctJob EXCEPT ![d].at = "note", ![d].batch = ctExits]
    /\ ctExits' = {}
    /\ UNCHANGED <<ctRec, engineVars, ctKept, ctStrays, ctDue, ctBox, slipVars>>

Claimed(c) == c \in Cts /\ "work" \in ctRec[c].has
RemovalsDue(batch) == {c \in Cts : ctRec[c].removing /\ (c \in ctDue \/ (c \in batch /\ Claimed(c)))}

Orders(S) == {s \in [1..Cardinality(S) -> S] : Among(s) = S}

LastOf(n, s) == SubSeq(s, 1 + (IF Len(s) > n THEN Len(s) - n ELSE 0), Len(s))

\* Faulty: room is made before it is needed.
KeptBeforeFull(s) == LastOf(MaxKept - 1, ctKept \o s)

\* The oldest makes room.
KeptWith(s) == LastOf(MaxKept, ctKept \o s)

Note(d) ==
    /\ ctJob[d].at = "note"
    /\ LET batch == ctJob[d].batch IN
       /\ ctRec' = [c \in Cts |-> IF c \in batch /\ Claimed(c) THEN [ctRec[c] EXCEPT !.st = "exited"]
                                  ELSE ctRec[c]]
       /\ \E s \in Orders({e \in batch : ~ Claimed(e)}) : ctKept' = KeptWith(s)
       /\ ctJob' = [ctJob EXCEPT ![d].at = IF RemovalsDue(batch) = {} THEN "idle" ELSE "retry",
                                 ![d].batch = {}, ![d].todo = RemovalsDue(batch)]
    /\ UNCHANGED <<engineVars, ctExits, ctStrays, ctDue, ctBox, slipVars>>

-----------------------------------------------------------------------------
(* finish_removal, for whichever caller: the Pod's remove_container, the    *)
(* retries of note_exits, or remove_pod_sandbox.                            *)

\* What is still held of g and h, in the order it is let go.
IfHeld(c, h) == IF h \in ctRec[c].has THEN <<h>> ELSE <<>>
PlanOf(c, g, h) == IfHeld(c, g) \o IfHeld(c, h)
\* The removal is over, done or not: the rest of the list, if there is one.
Next_(rest) == [NoJob EXCEPT !.todo = rest, !.at = IF rest = {} THEN "idle" ELSE "retry"]
Ends(d) == Next_(ctJob[d].todo)

Begin(d, c, rest) ==
    /\ ctJob' = [ctJob EXCEPT ![d] = IF Known(c)
                   THEN [NoJob EXCEPT !.at = "release", !.c = c, !.todo = rest,
                                      !.plan = PlanOf(c, "work", "mounts")]
                   ELSE Next_(rest)]
    /\ ctRec' = [ctRec EXCEPT ![c].removing = Known(c)]
    /\ ctDue' = ctDue \ {c}
    /\ UNCHANGED <<engineVars, exitVars, ctBox, slipVars>>

RemoveContainer(c) == Idle(c) /\ Known(c) /\ ~ ctRec[c].removing /\ Begin(c, c, {})

Retry(d) == /\ ctJob[d].at = "retry"
            /\ \E c \in ctJob[d].todo : Begin(d, c, ctJob[d].todo \ {c})

\* The engine lets go of a workload that has ended, then of what it used.
LetsGo(c, h) ==
    CASE h = "work" -> ctProc[c] = "ended" /\ h \in ctHeld[c]
      [] h = "clone" -> TRUE
      [] OTHER -> h \in ctHeld[c] /\ "work" \notin ctHeld[c]

\* Faulty: a refused release counts as one that was done.
RefusedIsDone(d, c, h) ==
    \/ /\ LetsGo(c, h) /\ ctHeld' = [ctHeld EXCEPT ![c] = @ \ {h}]
       /\ Goto(d, "drop") /\ UNCHANGED slipVars
    \/ /\ ~ LetsGo(c, h) /\ Goto(d, "drop") /\ UNCHANGED <<ctHeld, slipVars>>

\* One release: done, refused (it runs, it is in use, the handle is stale), or
\* done and never answered.
Answer(d, c, h) ==
    \/ /\ LetsGo(c, h) /\ ctHeld' = [ctHeld EXCEPT ![c] = @ \ {h}]
       /\ Goto(d, "drop") /\ UNCHANGED slipVars
    \/ /\ ~ LetsGo(c, h)
       /\ ctJob' = [ctJob EXCEPT ![d] = Ends(d)] /\ UNCHANGED <<ctHeld, slipVars>>
    \/ /\ Slipped /\ ctJob' = [ctJob EXCEPT ![d] = Ends(d)] /\ UNCHANGED ctHeld
    \/ /\ Slip /\ ctLost' = ctLost + 1
       /\ LetsGo(c, h) /\ ctHeld' = [ctHeld EXCEPT ![c] = @ \ {h}]
       /\ ctJob' = [ctJob EXCEPT ![d] = Ends(d)]

ReleaseNext(d) ==
    /\ ctJob[d].at = "release" /\ ctJob[d].plan # <<>>
    /\ Answer(d, ctJob[d].c, Head(ctJob[d].plan))
    /\ UNCHANGED <<ctRec, ctProc, exitVars, ctDue, ctBox>>

Drop(d) ==
    /\ ctJob[d].at = "drop"
    /\ LET c == ctJob[d].c IN
       /\ ctRec' = [ctRec EXCEPT ![c].has = @ \ {Head(ctJob[d].plan)}]
       /\ ctJob' = [ctJob EXCEPT ![d].at = "release", ![d].plan = Tail(@)]
    /\ UNCHANGED <<engineVars, exitVars, ctDue, ctBox, slipVars>>

\* Its own root last: the mount, then the clone.
ReadRoot(d) ==
    /\ ctJob[d].at = "release" /\ ctJob[d].plan = <<>> /\ ~ ctJob[d].rooted
    /\ ctJob' = [ctJob EXCEPT ![d].rooted = TRUE,
                              ![d].plan = PlanOf(ctJob[d].c, "root", "clone")]
    /\ UNCHANGED <<ctRec, engineVars, exitVars, ctDue, ctBox, slipVars>>

Forget(d) ==
    /\ ctJob[d].at = "release" /\ ctJob[d].plan = <<>> /\ ctJob[d].rooted
    /\ ctRec' = [ctRec EXCEPT ![ctJob[d].c] = NoContainer]
    /\ ctJob' = [ctJob EXCEPT ![d] = Ends(d)]
    /\ UNCHANGED <<engineVars, exitVars, ctDue, ctBox, slipVars>>

\* Faulty: the sandbox's removal does not try them again.
RetryForBoxNever(c) == FALSE /\ UNCHANGED ctVars

\* remove_pod_sandbox: the removals it waits on, then the sandbox, if no
\* record is left in it.
RetryForBox(c) ==
    /\ Idle(c) /\ ctBox[c] = "ready" /\ ctRec[c].removing
    /\ Begin(c, c, {})

RemoveBox(c) ==
    /\ Idle(c) /\ ctBox[c] = "ready" /\ ~ Known(c)
    /\ ctBox' = [ctBox EXCEPT ![c] = "gone"]
    /\ UNCHANGED <<ctRec, engineVars, exitVars, ctJob, ctDue, slipVars>>

-----------------------------------------------------------------------------
(* The engine, and time. *)

End(c) ==
    /\ ctProc[c] \in {"running", "stopping"}
    /\ ctProc' = [ctProc EXCEPT ![c] = "ended"] /\ ctExits' = ctExits \cup {c}
    /\ UNCHANGED <<ctRec, ctHeld, ctKept, ctJob, ctDue, ctBox, ctStrays, slipVars>>

StrayEnds ==
    /\ \E x \in ctStrays : ctStrays' = ctStrays \ {x} /\ ctExits' = ctExits \cup {x}
    /\ UNCHANGED <<ctRec, engineVars, ctKept, ctJob, ctDue, ctBox, slipVars>>

RetryDue(c) ==
    /\ ctRec[c].removing /\ c \notin ctDue /\ ctDue' = ctDue \cup {c}
    /\ UNCHANGED <<ctRec, engineVars, exitVars, ctJob, ctBox, slipVars>>

-----------------------------------------------------------------------------
CtInit ==
    /\ ctRec = [c \in Cts |-> NoContainer]
    /\ ctHeld = [c \in Cts |-> {}] /\ ctProc = [c \in Cts |-> "unmade"]
    /\ ctExits = {} /\ ctKept = <<>> /\ ctStrays = Strays
    /\ ctJob = [d \in Callers |-> NoJob]
    /\ ctDue = {} /\ ctBox = [c \in Cts |-> "ready"] /\ ctSlips = 0 /\ ctLost = 0

Calling(c) == Create(c) \/ Mount(c) \/ Define(c) \/ DiscardRoot(c) \/ DiscardClone(c)
              \/ Spawn(c) \/ SpawnFailed(c) \/ RecordStart(c) \/ Stop(c)
Noting(d) == Note(d) \/ Retry(d) \/ ReleaseNext(d) \/ Drop(d) \/ ReadRoot(d) \/ Forget(d)
Removing(c) == RemoveContainer(c) \/ RetryForBox(c) \/ RemoveBox(c)

CtNext ==
    \/ \E c \in Cts : Calling(c) \/ Removing(c) \/ End(c) \/ RetryDue(c)
    \/ \E d \in Callers : Drain(d) \/ Noting(d)
    \/ StrayEnds

CtSpec == CtInit /\ [][CtNext]_ctVars

\* A Pod that is being stopped comes back for its sandbox until it is gone.
CtFairness ==
    /\ \A d \in Callers : WF_ctVars(Noting(d))
    /\ \A c \in Cts : /\ WF_ctVars(RetryForBox(c)) /\ WF_ctVars(ctProc[c] = "stopping" /\ End(c))
CtLiveSpec == CtSpec /\ CtFairness

-----------------------------------------------------------------------------
(* Properties. *)

CtTypeOK ==
    /\ ctRec \in [Cts -> [st : {"none", "created", "running", "exited"}, has : SUBSET Holdings,
                          removing : BOOLEAN]]
    /\ ctHeld \in [Cts -> SUBSET Holdings]
    /\ ctProc \in [Cts -> {"unmade", "none", "running", "stopping", "ended"}]
    /\ ctExits \subseteq Cts \cup Strays /\ ctKept \in Seq(Cts \cup Strays) /\ Len(ctKept) <= MaxKept
    /\ ctDue \subseteq Cts /\ ctBox \in [Cts -> {"ready", "gone"}]

\* Nothing is held for a container without its record saying so, but for what
\* a call at work has in hand: a record is forgotten once all it holds is
\* released, whoever of several callers releases it (finish_removal).  And what
\* is held is given back from the top: the root's clone is there as long as the
\* engine has it mounted, the mount as long as a workload runs on it (#104, #292).
HeldIsRecorded ==
    \A c \in Cts :
        ctProc[c] # "unmade" =>
            /\ ctHeld[c] \subseteq ctRec[c].has \/ ctJob[c].at \in {"record", "failed"}
            /\ "root" \in ctHeld[c] => "clone" \in ctHeld[c]
            /\ ctProc[c] \in {"running", "stopping"} => "root" \in ctHeld[c]

\* What else has ended.
EndedBeside(c) == (Strays \ ctStrays) \cup {o \in Cts \ {c} : ctProc[o] = "ended"}

\* A container recorded as running whose process has ended has its exit on the
\* way: read before its start recorded the handle, or drained by one caller
\* while another looks, it is lost only if UNCLAIMED_EXITS others came after it
\* (#285).
ExitOnItsWay ==
    \A c \in Cts :
        ctRec[c].st = "running" /\ ~ ctRec[c].removing /\ ctProc[c] = "ended"
        => \/ c \in ctExits \/ \E d \in Callers : c \in ctJob[d].batch
           \/ Cardinality(EndedBeside(c)) >= MaxKept

\* A record is neither behind what the engine holds nor behind what it reported.
RecordsKept == HeldIsRecorded /\ ExitOnItsWay

\* A container asked to be removed is forgotten, unless its process was never
\* told to stop or an answer of the engine was lost: its release done and not
\* known to be, the handle is stale in every retry (#90).
RemovalsOver == ctLost > 0 \/ \A c \in Cts : ctRec[c].removing => ctProc[c] = "running"
=============================================================================
