----------------------------- MODULE VmSnapshot -----------------------------
(***************************************************************************)
(* A VirtualMachineSnapshot (vm_snapshot.rs): a node that runs the VM      *)
(* claims it against the version it read, takes it in the background (one  *)
(* group snapshot in that node's stormblock), says what came of it, and    *)
(* when the object is deleted deletes the content, then its finalizer.     *)
(* During a live migration the VM is registered on two nodes at once.  A   *)
(* pass may act on a listing older than what has been written since.       *)
(***************************************************************************)
EXTENDS Naturals, FiniteSets

CONSTANTS Holders,     \* the nodes
          MaxHops,     \* bound: arrivals and departures of the VM
          MaxLate,     \* bound: listings acted on late
          MaxSlips   \* bound: calls that fail or are not answered, and deaths

ASSUME VmSnapshotAssumption ==
    /\ "nobody" \notin Holders
    /\ MaxHops \in Nat /\ MaxLate \in Nat /\ MaxSlips \in Nat

VARIABLES snObj,     \* the object, as the API server has it
          snKeep,    \* spec.deletionPolicy: Retain
          snOver,    \* its failureDeadline has passed
          snReg,     \* the nodes the VM is registered on
          snGroup,   \* the nodes whose stormblock holds the group snapshot
          snTake,    \* in_flight: how far each node's take is
          snSeen,    \* the listing each node's pass holds
          snHops, snLate, snMishaps

snVars == <<snObj, snKeep, snOver, snReg, snGroup, snTake, snSeen, snHops, snLate, snMishaps>>
snBounds == <<snHops, snLate, snMishaps>>
snWorld == <<snKeep, snOver, snReg>>

Phases == {"new", "InProgress", "Succeeded", "Failed"}
Finished(o) == o.phase \in {"Succeeded", "Failed"}

\* The object: owner is the node annotation, and with it the finalizer;
\* content the node whose group its status names.
Object == [is : {"there", "deleted", "gone"}, owner : Holders \cup {"nobody"}, phase : Phases,
           content : Holders \cup {"nobody"}]
NewObject == [is |-> "there", owner |-> "nobody", phase |-> "new", content |-> "nobody"]

\* A listing: the object as it was read, whether nothing was written since
\* (its resourceVersion still matches), and how far the pass is with it.
Nothing == [obj |-> NewObject, match |-> FALSE, at |-> "none"]
Listing(at) == [obj |-> snObj, match |-> TRUE, at |-> at]

Taking(n) == snTake[n] # "idle"
Takes(n, stage) == snTake' = [snTake EXCEPT ![n] = stage]
Slip == snMishaps < MaxSlips /\ snMishaps' = snMishaps + 1 /\ UNCHANGED <<snHops, snLate>>
NoSlip == UNCHANGED snBounds

\* A write to the object: every listing made before no longer matches.  `keep`
\* are the listings as the step leaves them.
WritesObject(o, keep) ==
    /\ snObj' = o
    /\ snSeen' = [n \in Holders |-> [keep[n] EXCEPT !.match = FALSE]]
Seen(n, l) == [snSeen EXCEPT ![n] = l]
Leaves(n) == snSeen' = Seen(n, Nothing) /\ UNCHANGED snObj

-----------------------------------------------------------------------------
(* sync: a pass, one object.  `o` is the object as listed, `match` whether   *)
(* a write against its version would be accepted.                            *)

Mine(n, o) == IF o.owner = "nobody" THEN n \in snReg ELSE o.owner = n
Wanted(n, o) == o.is = "there" /\ ~Finished(o) /\ ~Taking(n) /\ Mine(n, o)
CannotBe(n, o) == Wanted(n, o) /\ (snOver \/ n \notin snReg)
Holds(n, o) == o.is = "deleted" /\ o.owner = n /\ ~Taking(n)

\* decide: Skip.
PassSkips(n, o) ==
    /\ ~Wanted(n, o) /\ ~Holds(n, o)
    /\ Leaves(n) /\ UNCHANGED <<snGroup, snTake>> /\ NoSlip

\* decide: Fail, whoever may have written meanwhile; a status that is not
\* written is only said in the log.
PassFails(n, o) ==
    /\ CannotBe(n, o) /\ UNCHANGED <<snGroup, snTake>>
    /\ \/ /\ snObj.is # "gone" /\ NoSlip
          /\ WritesObject([snObj EXCEPT !.phase = "Failed"], Seen(n, Nothing))
       \/ Slip /\ Leaves(n)
       \/ snObj.is = "gone" /\ NoSlip /\ Leaves(n)

\* Faulty: claimed without the version it was read with.
PassClaimsAnyway(n, o, match) ==
    /\ Wanted(n, o) /\ ~CannotBe(n, o) /\ o.owner = "nobody" /\ UNCHANGED snGroup
    /\ snObj.is # "gone" /\ WritesObject([snObj EXCEPT !.owner = n], Seen(n, Nothing))
    /\ Takes(n, "begun") /\ NoSlip

\* decide: Claim; the claims of its disks cannot be read, or the write is
\* refused, or it is done and its answer lost, or the take begins.
PassClaims(n, o, match) ==
    /\ Wanted(n, o) /\ ~CannotBe(n, o) /\ o.owner = "nobody" /\ UNCHANGED snGroup
    /\ LET claimed == WritesObject([snObj EXCEPT !.owner = n], Seen(n, Nothing))
       IN  \/ match /\ claimed /\ Takes(n, "begun") /\ NoSlip
           \/ match /\ claimed /\ Slip /\ UNCHANGED snTake
           \/ match /\ Slip /\ Leaves(n) /\ UNCHANGED snTake
           \/ ~match /\ Leaves(n) /\ UNCHANGED snTake /\ NoSlip

\* Faulty: one claimed and not in flight is left to whoever claimed it.
PassResumesNever(n, o) ==
    /\ Wanted(n, o) /\ ~CannotBe(n, o) /\ o.owner = n
    /\ Leaves(n) /\ UNCHANGED <<snGroup, snTake>> /\ NoSlip

\* decide: Resume.
PassResumes(n, o) ==
    /\ Wanted(n, o) /\ ~CannotBe(n, o) /\ o.owner = n
    /\ Takes(n, "begun") /\ Leaves(n) /\ UNCHANGED snGroup /\ NoSlip

\* release: the content its status named, unless it is to be retained; a
\* refusal is tried again by a later pass.
PassReleases(n, o, match) ==
    /\ Holds(n, o) /\ UNCHANGED <<snObj, snTake>>
    /\ \/ /\ snGroup' = (IF snKeep THEN snGroup ELSE snGroup \ {o.content})
          /\ snSeen' = Seen(n, [obj |-> o, match |-> match, at |-> "released"])
          /\ NoSlip
       \/ /\ Slip /\ snSeen' = Seen(n, Nothing)
          /\ snGroup' \in (IF snKeep THEN {snGroup} ELSE {snGroup, snGroup \ {o.content}})

ActsOn(n, o, match) ==
    /\ PassSkips(n, o) \/ PassFails(n, o) \/ PassClaims(n, o, match) \/ PassResumes(n, o)
         \/ PassReleases(n, o, match)
    /\ UNCHANGED snWorld

SnPass(n) == snSeen[n].at = "none" /\ snObj.is # "gone" /\ ActsOn(n, snObj, TRUE)

\* The listing is read, and the object reached only after other objects'
\* calls were awaited.
SnList(n) ==
    /\ snSeen[n].at = "none" /\ snObj.is # "gone" /\ snLate < MaxLate
    /\ snSeen' = Seen(n, Listing("listed")) /\ snLate' = snLate + 1
    /\ UNCHANGED <<snObj, snWorld, snGroup, snTake, snHops, snMishaps>>
SnReach(n) == snSeen[n].at = "listed" /\ ActsOn(n, snSeen[n].obj, snSeen[n].match)

\* release: then the finalizer, against the version read.
SnUnfinalize(n) ==
    /\ snSeen[n].at = "released" /\ UNCHANGED <<snWorld, snGroup, snTake>>
    /\ \/ /\ snSeen[n].match /\ NoSlip
          /\ WritesObject([snObj EXCEPT !.is = "gone"], Seen(n, Nothing))
       \/ ~snSeen[n].match /\ Leaves(n) /\ NoSlip
       \/ Slip /\ Leaves(n)

-----------------------------------------------------------------------------
(* start: the take, off the pass.                                           *)

SnBegin(n) ==
    /\ snTake[n] = "begun" /\ Takes(n, "taking") /\ UNCHANGED <<snWorld, snGroup>>
    /\ \/ /\ snObj.is # "gone" /\ NoSlip
          /\ WritesObject([snObj EXCEPT !.phase = "InProgress"], snSeen)
       \/ (Slip \/ (snObj.is = "gone" /\ NoSlip)) /\ UNCHANGED <<snObj, snSeen>>

\* take: freeze, pause, the group by its name (one that is there answers),
\* unpause, thaw.  It fails before the group, or after it (the guest is left
\* paused), or the group is made and the answer lost.
SnCut(n) ==
    /\ snTake[n] = "taking" /\ UNCHANGED <<snObj, snWorld, snSeen>>
    /\ \/ n \in snReg /\ snGroup' = snGroup \cup {n} /\ Takes(n, "taken") /\ NoSlip
       \/ n \in snReg /\ snGroup' = snGroup \cup {n} /\ Takes(n, "left paused") /\ Slip
       \/ n \in snReg /\ snGroup' = snGroup \cup {n} /\ Takes(n, "not taken") /\ Slip
       \/ n \notin snReg /\ UNCHANGED snGroup /\ Takes(n, "not taken") /\ NoSlip
       \/ n \in snReg /\ UNCHANGED snGroup /\ Takes(n, "not taken") /\ Slip

TakeOutcome(n) ==
    [snObj EXCEPT !.phase = IF snTake[n] = "taken" THEN "Succeeded" ELSE "Failed",
                  !.content = IF snTake[n] = "not taken" THEN @ ELSE n]

\* finish, and the take is in flight no more.
SnFinish(n) ==
    /\ snTake[n] \in {"taken", "left paused", "not taken"} /\ Takes(n, "idle")
    /\ UNCHANGED <<snWorld, snGroup>>
    /\ \/ snObj.is # "gone" /\ WritesObject(TakeOutcome(n), snSeen) /\ NoSlip
       \/ (Slip \/ (snObj.is = "gone" /\ NoSlip)) /\ UNCHANGED <<snObj, snSeen>>

-----------------------------------------------------------------------------
(* Around it.                                                               *)

SnDelete ==
    /\ snObj.is = "there"
    /\ WritesObject([snObj EXCEPT !.is = IF snObj.owner = "nobody" THEN "gone" ELSE "deleted"], snSeen)
    /\ UNCHANGED <<snWorld, snGroup, snTake, snBounds>>

SnDeadline ==
    /\ ~snOver /\ snOver' = TRUE
    /\ UNCHANGED <<snObj, snKeep, snReg, snGroup, snTake, snSeen, snBounds>>

Hop == snHops < MaxHops /\ snHops' = snHops + 1 /\ UNCHANGED <<snLate, snMishaps>>
SnArrives(n) ==
    /\ n \notin snReg /\ snReg' = snReg \cup {n} /\ Hop
    /\ UNCHANGED <<snObj, snKeep, snOver, snGroup, snTake, snSeen>>
SnLeaves(n) ==
    /\ n \in snReg /\ snReg' = snReg \ {n} /\ Hop
    /\ UNCHANGED <<snObj, snKeep, snOver, snGroup, snTake, snSeen>>

\* The kubelet dies: what is in flight is forgotten, the object is not.
SnDies(n) ==
    /\ (Taking(n) \/ snSeen[n].at # "none") /\ Slip
    /\ Takes(n, "idle") /\ snSeen' = Seen(n, Nothing)
    /\ UNCHANGED <<snObj, snWorld, snGroup>>

SnInit ==
    /\ snObj = NewObject /\ snKeep \in BOOLEAN /\ snOver = FALSE
    /\ snReg \in {{n} : n \in Holders} /\ snGroup = {}
    /\ snTake = [n \in Holders |-> "idle"] /\ snSeen = [n \in Holders |-> Nothing]
    /\ snHops = 0 /\ snLate = 0 /\ snMishaps = 0

SnNext ==
    \/ SnDelete \/ SnDeadline
    \/ \E n \in Holders :
         SnPass(n) \/ SnList(n) \/ SnReach(n) \/ SnUnfinalize(n) \/ SnBegin(n) \/ SnCut(n)
           \/ SnFinish(n) \/ SnArrives(n) \/ SnLeaves(n) \/ SnDies(n)

\* Passes go on: any VM's, VMI's or snapshot's event is one
\* (vm_maintenance_loop), and a take tells when it is over.
SnFairness ==
    \A n \in Holders :
      /\ WF_snVars(SnPass(n)) /\ WF_snVars(SnReach(n)) /\ WF_snVars(SnUnfinalize(n))
      /\ WF_snVars(SnBegin(n)) /\ WF_snVars(SnCut(n)) /\ WF_snVars(SnFinish(n))

SnSpec == SnInit /\ [][SnNext]_snVars /\ SnFairness

-----------------------------------------------------------------------------

SnTypeOK ==
    /\ snObj \in Object /\ snKeep \in BOOLEAN /\ snOver \in BOOLEAN
    /\ snReg \subseteq Holders /\ snGroup \subseteq Holders
    /\ snTake \in [Holders -> {"idle", "begun", "taking", "taken", "left paused", "not taken"}]
    /\ snSeen \in [Holders -> [obj : Object, match : BOOLEAN, at : {"none", "listed", "released"}]]
    /\ snHops \in 0..MaxHops /\ snLate \in 0..MaxLate /\ snMishaps \in 0..MaxSlips

\* One node takes a snapshot, however many run the VM (claim): two groups of
\* one name, on two nodes, never.
OneTaker == Cardinality(snGroup) <= 1 /\ Cardinality({n \in Holders : Taking(n)}) <= 1

\* The content the status names is deleted before the object is let go
\* (release): an object gone leaves no group its status named, however late
\* the listing the pass acted on.
ContentGoesFirst ==
    snObj.is = "gone" /\ ~snKeep /\ snObj.content # "nobody" => snObj.content \notin snGroup

SnapshotsKept == OneTaker /\ ContentGoesFirst

\* A snapshot ends taken, failed or gone, or is nobody's: unclaimed and its VM
\* on no node (decide).
SnapshotOver ==
    CASE snObj.is = "gone" -> \A n \in Holders : ~Taking(n)
      [] snObj.is = "deleted" -> FALSE
      [] OTHER -> Finished(snObj) \/ (snObj.owner = "nobody" /\ snReg = {})
=============================================================================
