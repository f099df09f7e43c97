----------------------------- MODULE VmDiskMove -----------------------------
(***************************************************************************)
(* A running VMI's own disk moved to another node's storage (#302;         *)
(* vm_disk_move.rs, vm_manager.rs): stormstorage copies it, and once the   *)
(* copy is in sync the guest is paused, the copy cut over and attached,    *)
(* the machine's device switched to it, the guest run again and the source *)
(* retired.  Each step may be refused, or done and its answer lost; the    *)
(* kubelet may die between any two, and the guest may power off and the    *)
(* VMI be started again.  One disk; its volumes are 0, the one it was made *)
(* with, and n, the n-th copy.                                             *)
(***************************************************************************)
EXTENDS Naturals

CONSTANTS Here, Others,  \* this node; the nodes a disk may be asked to
          MaxMoves,      \* bound: copies started
          MaxAsks,       \* bound: changes of the request
          MaxTrouble     \* bound: calls that fail, and deaths of the kubelet

ASSUME VmDiskMoveAssumption ==
    /\ Here \notin Others /\ "nowhere" \notin Others \cup {Here}
    /\ MaxMoves \in Nat /\ MaxAsks \in Nat /\ MaxTrouble \in Nat

Places == Others \cup {Here, "nowhere"}
Volumes == 0..MaxMoves
Blank == MaxMoves + 1  \* a volume made again under the disk's name

VARIABLES dmAsk,     \* REQUEST: the node asked for, "nowhere" if none
          dmNote,    \* RECORD, the annotation
          dmMem,     \* disk_moves: what this kubelet last wrote
          dmCur,     \* the record of the pass under way
          dmAt,      \* where that pass is
          dmMig,     \* stormstorage's migrations
          dmGone,    \* volumes deleted
          dmFresh,   \* volumes that hold all the guest has written
          dmOn,      \* the volume the guest's device is on
          dmGuest,   \* running, paused, off
          dmKnown,   \* vms: the volume the kubelet has the disk on
          dmReg,     \* the same in the registration on the node's disk
          dmAsks, dmTrouble,
          dmAstray,  \* history: a start that looked for the volume by its name
                     \* though the guest's data is in a copy
          dmFrozen   \* history: the guest is left paused: it would not run again,
                     \* a pause was answered with an error, or a kubelet died
                     \* with the switch recorded

dmVars == <<dmAsk, dmNote, dmMem, dmCur, dmAt, dmMig, dmGone, dmFresh, dmOn, dmGuest, dmKnown,
            dmReg, dmAsks, dmTrouble, dmAstray, dmFrozen>>
dmStore == <<dmMig, dmGone, dmFresh>>
dmMachine == <<dmOn, dmGuest, dmFrozen, dmKnown, dmReg>>
dmBooks == <<dmAsk, dmAsks, dmAstray>>
dmRecords == <<dmNote, dmMem>>

\* Move.  A record that is not there is "none".
MoveTo(st, to, node, from, id) == [st |-> st, to |-> to, node |-> node, from |-> from, id |-> id]
NoMove == MoveTo("none", Here, Here, 0, 0)
Unread == MoveTo("unread", Here, Here, 0, 0)
Now == IF dmMem = Unread THEN dmNote ELSE dmMem

InFlight(r) == r.st \in {"copying", "switching", "switched"}
OnCopy(r) == r.st \in {"switched", "moved"}
LocationOf(r) == IF OnCopy(r) THEN r.to ELSE r.node

Stage(a) == dmAt = a
ToStage(a) == dmAt' = a
Becomes(st) == dmCur' = [dmCur EXCEPT !.st = st]
Trouble == dmTrouble < MaxTrouble /\ dmTrouble' = dmTrouble + 1
Smooth == UNCHANGED dmTrouble

\* What unpause comes to: the guest runs, or is refused and left as it is.
Runs == dmGuest' = (IF dmGuest = "off" THEN "off" ELSE "running") /\ dmFrozen' = FALSE
WouldNotRun == UNCHANGED dmGuest /\ dmFrozen' = (dmGuest = "paused")

-----------------------------------------------------------------------------
(* stormstorage: abort deletes the copy and leaves the source as it was,    *)
(* complete deletes the source; neither is taken back.                      *)

MigIs(i, s) == dmMig' = [dmMig EXCEPT ![i].st = s]
CanAbort(i) == dmMig[i].st # "completed"
Aborted(i) ==
    IF CanAbort(i)
    THEN MigIs(i, "aborted") /\ dmGone' = dmGone \cup {i} /\ dmFresh' = dmFresh \ {i}
    ELSE UNCHANGED dmStore
CanComplete(i) == dmMig[i].st \in {"cut_over", "completed"}
Completed(i) ==
    /\ MigIs(i, "completed")
    /\ dmGone' = dmGone \cup {dmMig[i].from} /\ dmFresh' = dmFresh \ {dmMig[i].from}

InSync(i) ==
    /\ dmMig[i].st = "copying" /\ dmMig[i].from \notin dmGone
    /\ MigIs(i, "synced")
    /\ dmFresh' = (IF dmMig[i].from \in dmFresh THEN dmFresh \cup {i} ELSE dmFresh)
    /\ UNCHANGED <<dmGone, dmRecords, dmCur, dmAt, dmMachine, dmBooks, dmTrouble>>

MirrorBreaks(i) ==
    /\ dmMig[i].st \in {"copying", "synced"} /\ Trouble
    /\ MigIs(i, "failed") /\ dmGone' = dmGone \cup {i} /\ dmFresh' = dmFresh \ {i}
    /\ UNCHANGED <<dmRecords, dmCur, dmAt, dmMachine, dmBooks>>

\* The mirror takes every write; a copy that is not mirrored stays behind.
GuestWrites ==
    /\ dmGuest = "running"
    /\ dmFresh' = {dmOn} \cup {i \in 1..MaxMoves : dmMig[i] = [st |-> "synced", from |-> dmOn]}
    /\ UNCHANGED <<dmMig, dmGone, dmRecords, dmCur, dmAt, dmMachine, dmBooks, dmTrouble>>

-----------------------------------------------------------------------------
(* move_disks: what a pass does about the disk (step). *)

Looks(step) == Stage("idle") /\ dmGuest # "off" /\ step /\ UNCHANGED <<dmRecords, dmMachine, dmBooks>>

Starts(r, to) ==
    /\ to # "nowhere"
    /\ \/ r.st = "none" /\ to # Here
       \/ r.st = "moved" /\ to # r.to
       \/ r.st = "failed" /\ to \notin {r.to, r.node}

FreshMoves == {i \in 1..MaxMoves : dmMig[i].st = "none"}

StartMove ==
    /\ Looks(Starts(Now, dmAsk)) /\ ToStage("write")
    /\ \E i \in FreshMoves :
         /\ \A j \in FreshMoves : i <= j
         /\ \/ /\ dmKnown \notin dmGone /\ Smooth
               /\ dmMig' = [dmMig EXCEPT ![i] = [st |-> "copying", from |-> dmKnown]]
               /\ dmCur' = MoveTo("copying", dmAsk, LocationOf(Now), dmKnown, i)
            \/ /\ IF dmKnown \in dmGone THEN Smooth ELSE Trouble
               /\ dmCur' = MoveTo("failed", dmAsk, LocationOf(Now), dmKnown, 0) /\ UNCHANGED dmMig
    /\ UNCHANGED <<dmGone, dmFresh>>

ForgetFailed ==
    /\ Looks(Now.st = "failed" /\ dmAsk = "nowhere")
    /\ dmCur' = NoMove /\ ToStage("write") /\ Smooth /\ UNCHANGED dmStore

CancelMove ==
    /\ Looks(Now.st = "copying" /\ dmAsk # Now.to)
    /\ \/ /\ Smooth /\ CanAbort(Now.id) /\ Aborted(Now.id)
          /\ dmCur' = [Now EXCEPT !.st = "failed"] /\ ToStage("write")
       \/ /\ IF CanAbort(Now.id) THEN Trouble ELSE Smooth
          /\ UNCHANGED <<dmStore, dmCur, dmAt>>

\* carry_disk_move, from a record that says copying.
CarryCopying ==
    LET r == Now s == dmMig[Now.id].st IN
    /\ Looks(r.st = "copying" /\ dmAsk = r.to)
    /\ IF dmKnown = r.id THEN ToStage("detach") /\ dmCur' = [r EXCEPT !.st = "switched"] /\ UNCHANGED dmStore
       ELSE CASE s = "synced" -> ToStage("mark") /\ dmCur' = r /\ UNCHANGED dmStore
              [] s \in {"failed", "aborted"} ->
                   ToStage("write") /\ dmCur' = [r EXCEPT !.st = "failed"] /\ UNCHANGED dmStore
              [] s \in {"cut_over", "completed"} ->
                   ToStage("write") /\ dmCur' = [r EXCEPT !.st = "failed"] /\ Aborted(r.id)
              [] OTHER -> UNCHANGED <<dmAt, dmCur, dmStore>>
    /\ Smooth

-----------------------------------------------------------------------------
(* switch_disk_over, a call at a time. *)

\* SWITCHING is on record before the guest stops.
MarkSwitching ==
    /\ Stage("mark")
    /\ LET r == [dmCur EXCEPT !.st = "switching"] IN
       \/ Smooth /\ dmNote' = r /\ dmMem' = r /\ dmCur' = r /\ ToStage("pause")
       \/ Trouble /\ dmNote' \in {dmNote, r} /\ ToStage("idle") /\ UNCHANGED <<dmMem, dmCur>>
    /\ UNCHANGED <<dmStore, dmMachine, dmBooks>>

\* An error leaves the guest running, or paused with the answer lost.
PauseGuest ==
    /\ Stage("pause")
    /\ LET paused == dmGuest' = (IF dmGuest = "off" THEN "off" ELSE "paused") IN
       \/ Smooth /\ paused /\ ToStage("cutover") /\ UNCHANGED <<dmCur, dmFrozen>>
       \/ /\ Trouble /\ Becomes("copying") /\ ToStage("write")
          /\ UNCHANGED <<dmGuest, dmFrozen>> \/ (paused /\ dmFrozen' = (dmGuest' = "paused"))
    /\ UNCHANGED <<dmRecords, dmStore, dmOn, dmKnown, dmReg, dmBooks>>

CutOver ==
    /\ Stage("cutover")
    /\ \/ dmMig[dmCur.id].st = "synced" /\ Smooth /\ MigIs(dmCur.id, "cut_over") /\ ToStage("attach")
       \/ dmMig[dmCur.id].st = "synced" /\ Trouble /\ MigIs(dmCur.id, "cut_over") /\ ToStage("undo")
       \/ /\ IF dmMig[dmCur.id].st = "synced" THEN Trouble ELSE Smooth
          /\ ToStage("undo") /\ UNCHANGED dmMig
    /\ UNCHANGED <<dmGone, dmFresh, dmRecords, dmCur, dmMachine, dmBooks>>

AttachCopy ==
    /\ Stage("attach")
    /\ \/ Smooth /\ ToStage("switch")
       \/ Trouble /\ ToStage("undo")
    /\ UNCHANGED <<dmStore, dmRecords, dmCur, dmMachine, dmBooks>>

\* An error may be an answer lost: the guest runs, on whichever it is, if it
\* will.
SwitchDisk ==
    /\ Stage("switch")
    /\ \/ Smooth /\ dmOn' = dmCur.id /\ ToStage("record") /\ UNCHANGED <<dmGuest, dmFrozen, dmCur>>
       \/ Trouble /\ dmOn' \in {dmOn, dmCur.id} /\ (Runs \/ WouldNotRun) /\ Becomes("unknown") /\ ToStage("write")
    /\ UNCHANGED <<dmStore, dmRecords, dmKnown, dmReg, dmBooks>>

\* The machine's record, and the registration unless it cannot be written.
RecordDisk ==
    /\ Stage("record")
    /\ dmKnown' = dmCur.id
    /\ \/ Smooth /\ dmReg' = dmCur.id
       \/ Trouble /\ UNCHANGED dmReg
    /\ Becomes("switched") /\ ToStage("unpause")
    /\ UNCHANGED <<dmStore, dmRecords, dmOn, dmGuest, dmFrozen, dmBooks>>

\* Refused three times, the pass goes on.
Unpause ==
    /\ Stage("unpause") /\ ToStage("detach")
    /\ (Smooth /\ Runs) \/ (Trouble /\ WouldNotRun)
    /\ UNCHANGED <<dmStore, dmRecords, dmCur, dmOn, dmKnown, dmReg, dmBooks>>

\* Faulty: the guest is not run again.
UndoPaused ==
    /\ Stage("undo") /\ Becomes("failed") /\ ToStage("write")
    /\ Smooth /\ Aborted(dmCur.id)
    /\ UNCHANGED <<dmRecords, dmMachine, dmBooks>>

\* The guest may not run, and the copy not be aborted.
UndoSwitch ==
    /\ Stage("undo") /\ Becomes("failed") /\ ToStage("write")
    /\ \/ Smooth /\ Runs /\ Aborted(dmCur.id)
       \/ Trouble /\ WouldNotRun /\ Aborted(dmCur.id)
       \/ Trouble /\ (Runs \/ WouldNotRun) /\ CanAbort(dmCur.id) /\ UNCHANGED dmStore
    /\ UNCHANGED <<dmRecords, dmOn, dmKnown, dmReg, dmBooks>>

\* Faulty: what stormstorage says is not asked: the switch is taken for done.
CarrySwitchingOn ==
    LET r == Now IN
    /\ Looks(r.st = "switching") /\ Smooth /\ UNCHANGED dmStore
    /\ ToStage("detach") /\ dmCur' = [r EXCEPT !.st = "switched"]

\* SWITCHING when a pass begins: a kubelet stopped half way.  The guest is run
\* on, if it will, once the state of the migration is asked for.
CarrySwitching ==
    LET r == Now s == dmMig[Now.id].st IN
    /\ Stage("idle") /\ dmGuest # "off" /\ r.st = "switching"
    /\ IF dmKnown = r.id
       THEN /\ ToStage("detach") /\ dmCur' = [r EXCEPT !.st = "switched"] /\ Smooth
            /\ UNCHANGED <<dmGuest, dmFrozen>>
       ELSE /\ (Smooth /\ Runs) \/ (Trouble /\ (Runs \/ WouldNotRun))
            /\ \/ /\ ToStage("write")
                  /\ dmCur' = [r EXCEPT !.st = IF s \in {"synced", "copying"} THEN "copying" ELSE "unknown"]
               \/ Trouble /\ UNCHANGED <<dmAt, dmCur>>
    /\ UNCHANGED <<dmStore, dmRecords, dmOn, dmKnown, dmReg, dmBooks>>

-----------------------------------------------------------------------------
(* retire_disk_source, from the switch or a record that says switched. *)

CarrySwitched ==
    /\ Looks(Now.st = "switched") /\ Smooth
    /\ ToStage("detach") /\ dmCur' = Now /\ UNCHANGED dmStore

DetachSource ==
    /\ Stage("detach")
    /\ \/ Smooth /\ ToStage("complete")
       \/ Trouble /\ ToStage("write")
    /\ UNCHANGED <<dmStore, dmRecords, dmCur, dmMachine, dmBooks>>

\* An error is asked after: completed all the same, or not, or not known.
CompleteMove ==
    /\ Stage("complete") /\ ToStage("write")
    /\ \/ Smooth /\ CanComplete(dmCur.id) /\ Completed(dmCur.id) /\ Becomes("moved")
       \/ /\ Trouble /\ CanComplete(dmCur.id) /\ Completed(dmCur.id)
          /\ dmCur' \in {dmCur, [dmCur EXCEPT !.st = "moved"]}
       \/ (IF CanComplete(dmCur.id) THEN Trouble ELSE Smooth) /\ UNCHANGED <<dmStore, dmCur>>
    /\ UNCHANGED <<dmRecords, dmMachine, dmBooks>>

\* write_disk_moves, at the end of a pass that changed the record.
WriteRecord ==
    /\ Stage("write") /\ ToStage("idle")
    /\ \/ Smooth /\ dmNote' = dmCur /\ dmMem' = dmCur
       \/ Trouble /\ dmNote' \in {dmNote, dmCur} /\ UNCHANGED dmMem
    /\ UNCHANGED <<dmCur, dmStore, dmMachine, dmBooks>>

-----------------------------------------------------------------------------
(* A start of the VMI: what its disk is on. *)

\* moved_volumes, or the volume found by the disk's name, or made again.
StartVolume ==
    IF OnCopy(Now) THEN Now.id ELSE IF 0 \in dmGone THEN Blank ELSE 0

StartVmi ==
    /\ Stage("idle") /\ dmGuest = "off"
    /\ dmOn' = StartVolume /\ dmKnown' = StartVolume /\ dmReg' = StartVolume
    /\ dmGuest' = "running" /\ dmFrozen' = FALSE
    /\ dmAstray' = (dmAstray \/ (~ OnCopy(Now) /\ dmOn # 0))
    /\ UNCHANGED <<dmAsk, dmAsks, dmRecords, dmCur, dmAt, dmStore, dmTrouble>>

\* While no pass is at it.
PowerOff ==
    /\ Stage("idle") /\ dmGuest # "off" /\ Trouble /\ dmGuest' = "off"
    /\ UNCHANGED <<dmBooks, dmRecords, dmCur, dmAt, dmStore, dmOn, dmFrozen, dmKnown, dmReg>>

Request(n) ==
    /\ dmAsks < MaxAsks /\ dmAsks' = dmAsks + 1 /\ n # dmAsk /\ dmAsk' = n
    /\ UNCHANGED <<dmAstray, dmRecords, dmCur, dmAt, dmStore, dmMachine, dmTrouble>>

\* adopt_registered: the registration's disks, and the record read again.
KubeletDies ==
    /\ Trouble
    /\ dmAt' = "idle" /\ dmCur' = NoMove /\ dmMem' = Unread /\ dmKnown' = dmReg
    /\ dmFrozen' = (dmFrozen \/ (Stage("unpause") /\ dmGuest = "paused" /\ dmReg = dmCur.id))
    /\ UNCHANGED <<dmAsk, dmAsks, dmAstray, dmNote, dmStore, dmOn, dmGuest, dmReg>>

-----------------------------------------------------------------------------
DmInit ==
    /\ dmAsk = "nowhere" /\ dmNote = NoMove /\ dmMem = Unread /\ dmCur = NoMove /\ dmAt = "idle"
    /\ dmMig = [i \in 1..MaxMoves |-> [st |-> "none", from |-> 0]]
    /\ dmGone = {} /\ dmFresh = {0} /\ dmOn = 0 /\ dmGuest = "running" /\ dmKnown = 0 /\ dmReg = 0
    /\ dmAsks = 0 /\ dmTrouble = 0 /\ dmAstray = FALSE /\ dmFrozen = FALSE

LookAtDisk == StartMove \/ ForgetFailed \/ CancelMove \/ CarryCopying \/ CarrySwitching \/ CarrySwitched
SwitchOver == MarkSwitching \/ PauseGuest \/ CutOver \/ AttachCopy \/ SwitchDisk \/ RecordDisk
              \/ Unpause \/ UndoSwitch
MovePass == LookAtDisk \/ SwitchOver \/ DetachSource \/ CompleteMove \/ WriteRecord \/ StartVmi

DmNext ==
    \/ MovePass \/ GuestWrites \/ PowerOff \/ KubeletDies
    \/ \E i \in 1..MaxMoves : InSync(i) \/ MirrorBreaks(i)
    \/ \E n \in Places : Request(n)

\* A pass follows every POLL while a move is in flight; a copy ends.
DmFairness == WF_dmVars(MovePass) /\ \A i \in 1..MaxMoves : WF_dmVars(InSync(i))

DmSpec == DmInit /\ [][DmNext]_dmVars /\ DmFairness

-----------------------------------------------------------------------------
(* Properties. *)

Moves == [st : {"none", "unread", "copying", "switching", "switched", "moved", "failed", "unknown"},
          to : Places, node : Places, from : Volumes \cup {Blank}, id : Volumes]

DmTypeOK ==
    /\ dmAsk \in Places /\ {dmNote, dmMem, dmCur} \subseteq Moves
    /\ dmAt \in {"idle", "mark", "pause", "cutover", "attach", "switch", "record", "unpause", "undo",
                 "detach", "complete", "write"}
    /\ dmMig \in [1..MaxMoves -> [st : {"none", "copying", "synced", "cut_over", "completed", "aborted", "failed"},
                                  from : Volumes \cup {Blank}]]
    /\ {dmGone, dmFresh} \subseteq SUBSET (Volumes \cup {Blank})
    /\ {dmOn, dmKnown, dmReg} \subseteq Volumes \cup {Blank} /\ dmGuest \in {"running", "paused", "off"}

\* The guest has what it wrote, whatever failed, was lost or died half way and
\* however often it is powered off: its device is on a volume that is there and
\* is not behind, and a volume is deleted only when it is not the guest's
\* (README.md, "A running disk moved off the node").
GuestHasItsData == ~ dmAstray => dmOn \in dmFresh /\ dmOn \notin dmGone

\* A move asked for ends: moved, failed, or left to a person; and every way it
\* ends runs the guest again, but for one that would not run when it was run,
\* whose pause was answered with an error, or whose kubelet died with the switch
\* recorded: these the code leaves paused (README.md, Observations).
MoveEnded == dmAt = "idle" /\ (InFlight(Now) => dmGuest = "off") /\ (dmGuest = "paused" => dmFrozen)

\* README.md:1066: "The machine's registration and the record name the copy, so
\* the next start of the VMI attaches it": not what the disk's name finds.
StartsOnTheCopy == Now.st # "unknown" => dmOn \in dmFresh

\* vm_disk_move.rs:49: "a restarted kubelet resumes from it": the guest is run
\* again whoever finishes the switch (but where the hypervisor refuses, too).
GuestRunsAgain == <>[](dmGuest # "paused")
=============================================================================
