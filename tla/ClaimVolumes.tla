---------------------------- MODULE ClaimVolumes ----------------------------
(***************************************************************************)
(* The volumes behind PersistentVolumeClaims of the node's own driver      *)
(* (pod_manager.rs): a Pod's start provisions its claim (lookup, room,     *)
(* blank, clone, attach), a task binds claim and PV afterwards, formatting *)
(* of a blank runs in the background, and a pass of the kubelet reclaims   *)
(* what Released PVs leave.  A volume is named after namespace and claim,  *)
(* so a claim deleted and made again finds the volume of the first.        *)
(* The engine and the apiserver may refuse any call (MaxSnags).            *)
(***************************************************************************)
EXTENDS Naturals, FiniteSets

CONSTANTS Claims,       \* claims of one size class, each used by one Pod of this node
          Room,         \* volumes of the class the data slab has room for
          MaxRemakes,   \* bound: times one claim is deleted and made again
          MaxComes,     \* bound: times Pods come to the node
          MaxSnags,     \* bound: calls refused
          MaxDeaths     \* bound: restarts of the kubelet

ASSUME ClaimVolumesAssumption ==
    /\ "none" \notin Claims /\ IsFiniteSet(Claims)
    /\ Room \in Nat /\ MaxRemakes \in Nat /\ MaxComes \in Nat /\ MaxSnags \in Nat /\ MaxDeaths \in Nat

VARIABLES clClaim,      \* the apiserver's claim: its uid (0: none) and whether it names a PV
          clPv,         \* the PV named after the volume: the uid its claimRef has, its phase
          clVol,        \* the engine's volume of that name
          clBlank,      \* the template of the class
          clMinting,    \* minting: the mint of the blank, as the kubelet knows it
          clMkfs,       \* mint_blank tasks under way
          clAt,         \* where the Pod of the claim is
          clHold,       \* who has the claim's reservation in the admission table
          clLock,       \* capacity_lock: the claim being made
          clBind,       \* the late bind: its next step, the claim it read
          clPass,       \* reclaim_released: the claim it is at, the PV it listed
          clUid,        \* the last uid given to a claim of the name
          clUsed,       \* history: the claim (uid) that last had the volume mounted
          clUnchecked,  \* history: a volume was made with no room read
          clComes, clSnags, clDeaths

clVars == <<clClaim, clPv, clVol, clBlank, clMinting, clMkfs, clAt, clHold, clLock, clBind, clPass,
            clUid, clUsed, clUnchecked, clComes, clSnags, clDeaths>>
clHist == <<clUid, clUsed, clUnchecked, clComes, clDeaths>>

NoClaim == [uid |-> 0, bound |-> FALSE]
NoPv == [claim |-> 0, phase |-> "none"]
NoBind == [at |-> "none", saw |-> NoClaim]
NoReclaim == [at |-> "none", claim |-> "none", pv |-> NoPv]

Volumes == {c \in Claims : clVol[c] # "none"}
ClSnag == clSnags < MaxSnags /\ clSnags' = clSnags + 1
ClFine == UNCHANGED clSnags
Step(c, from, to) == clAt[c] = from /\ clAt' = [clAt EXCEPT ![c] = to]
\* Faulty: the lock outlives the volume's making.
UnlockNever(c) == UNCHANGED clLock
\* The capacity guard is dropped with the frame that took it.
Unlock(c) == clLock' = IF clLock = c THEN "none" ELSE clLock

-----------------------------------------------------------------------------
(* The control plane and the users. *)

ClaimMade(c) ==
    /\ clClaim[c] = NoClaim /\ clUid[c] <= MaxRemakes
    /\ clUid[c] = 0 \/ \A d \in Claims \ {c} : clUid[d] <= 1
    /\ clUid' = [clUid EXCEPT ![c] = @ + 1]
    /\ clClaim' = [clClaim EXCEPT ![c] = [uid |-> clUid[c] + 1, bound |-> FALSE]]
    /\ UNCHANGED <<clPv, clVol, clBlank, clMinting, clMkfs, clAt, clHold, clLock, clBind, clPass, clUsed,
                   clUnchecked, clComes, clSnags, clDeaths>>

\* A claim in use is protected until its Pod is gone.
ClaimDeleted(c) ==
    /\ clClaim[c] # NoClaim /\ clAt[c] = "gone"
    /\ clClaim' = [clClaim EXCEPT ![c] = NoClaim]
    /\ UNCHANGED <<clPv, clVol, clBlank, clMinting, clMkfs, clAt, clHold, clLock, clBind, clPass, clSnags, clHist>>

\* The binder: a PV whose claim is gone is Released, one whose claim is there Bound.
Binder(c) ==
    /\ clPv[c] # NoPv
    /\ clPv' = [clPv EXCEPT ![c].phase = IF @ = "bound" THEN "released" ELSE "bound"]
    /\ clPv[c].phase = "bound" <=> clPv[c].claim # clClaim[c].uid
    /\ UNCHANGED <<clClaim, clVol, clBlank, clMinting, clMkfs, clAt, clHold, clLock, clBind, clPass, clSnags, clHist>>

\* A Pod of the claim comes to the node: its pass takes the reservation.
PodComes(c) ==
    /\ Step(c, "gone", "wait") /\ clHold[c] = "none"
    /\ clHold' = [clHold EXCEPT ![c] = "pod"]
    /\ clComes < MaxComes /\ clComes' = clComes + 1
    /\ UNCHANGED <<clClaim, clPv, clVol, clBlank, clMinting, clMkfs, clLock, clBind, clPass, clUid, clUsed,
                   clUnchecked, clSnags, clDeaths>>

\* It stops: the reservation goes with it, the volume stays attached.
PodGoes(c) ==
    /\ clAt[c] \in {"wait", "up"} /\ clAt' = [clAt EXCEPT ![c] = "gone"]
    /\ clHold' = [clHold EXCEPT ![c] = "none"]
    /\ UNCHANGED <<clClaim, clPv, clVol, clBlank, clMinting, clMkfs, clLock, clBind, clPass, clSnags, clHist>>

-----------------------------------------------------------------------------
(* provision_claim_volume. *)

\* The claim, its PV and the engine's list are read; a list that does not come
\* reads as no volume.
Look(c) ==
    /\ clClaim[c] # NoClaim
    /\ \/ Step(c, "wait", IF clVol[c] = "none" THEN "room" ELSE "made") /\ ClFine
       \/ Step(c, "wait", "room") /\ ClSnag
    /\ UNCHANGED <<clClaim, clPv, clVol, clBlank, clMinting, clMkfs, clHold, clLock, clBind, clPass, clHist>>

\* Faulty: the room is read without the lock.
EnterUnlocked(c) ==
    /\ Step(c, "room", IF Cardinality(Volumes) < Room THEN "making" ELSE "wait") /\ ClFine
    /\ UNCHANGED <<clClaim, clPv, clVol, clBlank, clMinting, clMkfs, clHold, clLock, clBind, clPass, clHist>>

\* A new volume is charged its class: the lock is taken and the room read; a
\* read that fails does not refuse.
Enter(c) ==
    /\ clLock = "none"
    /\ \/ /\ Cardinality(Volumes) < Room /\ ClFine
          /\ Step(c, "room", "making") /\ clLock' = c /\ UNCHANGED clUnchecked
       \/ /\ Cardinality(Volumes) >= Room /\ ClFine
          /\ Step(c, "room", "wait") /\ UNCHANGED <<clLock, clUnchecked>>
       \/ ClSnag /\ Step(c, "room", "making") /\ clLock' = c /\ clUnchecked' = TRUE
    /\ UNCHANGED <<clClaim, clPv, clVol, clBlank, clMinting, clMkfs, clHold, clBind, clPass, clUid, clUsed, clComes, clDeaths>>

\* Faulty: a mint under way is not remembered.
MintTwice ==
    \/ clMinting = "failed" /\ clMinting' = "none" /\ UNCHANGED clMkfs
    \/ clMinting # "failed" /\ clMinting' = "flying" /\ clMkfs < 3 /\ clMkfs' = clMkfs + 1

\* Faulty: a failure stays remembered.
MintNeverAgain ==
    \/ clMinting \in {"flying", "failed"} /\ UNCHANGED <<clMinting, clMkfs>>
    \/ clMinting = "none" /\ clMinting' = "flying" /\ clMkfs' = clMkfs + 1

\* mint_template: one mint at a time per blank; a refusal is told once, and the
\* next claim tries again.
MintTemplate ==
    \/ clMinting = "flying" /\ UNCHANGED <<clMinting, clMkfs>>
    \/ clMinting = "failed" /\ clMinting' = "none" /\ UNCHANGED clMkfs
    \/ clMinting = "none" /\ clMinting' = "flying" /\ clMkfs' = clMkfs + 1

\* The volume is made: a clone of the class's blank, by name, so that one that
\* exists is the answer.  With no blank, or one not formatted yet, the claim
\* waits; a broken one is deleted and minted again; an answer that does not come
\* reads as no blank.
Clone(c) ==
    /\ clBlank = "ready" /\ Step(c, "making", "made")
    /\ clVol' = [clVol EXCEPT ![c] = IF @ = "none" THEN "made" ELSE @]
    /\ ClFine /\ UNCHANGED <<clBlank, clMinting, clMkfs, clLock>>
Wait(c) ==
    /\ Step(c, "making", "wait") /\ Unlock(c) /\ UNCHANGED clVol
    /\ \/ clBlank = "formatting" /\ ClFine /\ UNCHANGED <<clBlank, clMinting, clMkfs>>
       \/ clBlank = "none" /\ MintTemplate /\ ClFine /\ UNCHANGED clBlank
       \/ clBlank = "broken" /\ clBlank' = "none" /\ MintTemplate /\ ClFine
       \/ ClSnag /\ MintTemplate /\ UNCHANGED clBlank
       \/ ClSnag /\ UNCHANGED <<clBlank, clMinting, clMkfs>>
Make(c) ==
    /\ Clone(c) \/ Wait(c)
    /\ UNCHANGED <<clClaim, clPv, clHold, clBind, clPass, clHist>>

\* mint_blank, spawned: the engine makes the template (it formats first), and
\* one that exists is a success; its end wakes the Pods that wait for volumes.
Format ==
    /\ clMkfs > 0 /\ clBlank = "none" /\ clBlank' = "formatting"
    /\ UNCHANGED <<clClaim, clPv, clVol, clMinting, clMkfs, clAt, clHold, clLock, clBind, clPass, clSnags, clHist>>
MintEnds ==
    /\ clMkfs > 0 /\ clMkfs' = clMkfs - 1
    /\ \/ clBlank # "none" /\ clMinting' = "none" /\ ClFine
          /\ clBlank' = IF clBlank = "formatting" THEN "ready" ELSE clBlank
       \/ ClSnag /\ clMinting' = "failed" /\ UNCHANGED clBlank
    /\ UNCHANGED <<clClaim, clPv, clVol, clAt, clHold, clLock, clBind, clPass, clHist>>

\* The engine: a template goes bad; one whose caller is gone is formatted all the same.
BlankBreaks ==
    /\ clBlank = "ready" /\ clBlank' = "broken" /\ ClSnag
    /\ UNCHANGED <<clClaim, clPv, clVol, clMinting, clMkfs, clAt, clHold, clLock, clBind, clPass, clHist>>
Formatted ==
    /\ clBlank = "formatting" /\ clMkfs = 0 /\ clBlank' = "ready"
    /\ UNCHANGED <<clClaim, clPv, clVol, clMinting, clMkfs, clAt, clHold, clLock, clBind, clPass, clSnags, clHist>>

\* The device is attached here, and claim and PV are bound off the start's path.
\* (A bind still under way gives way to the new one: its calls count as refused.)
Attach(c) ==
    /\ \/ /\ clVol[c] # "none" /\ Step(c, "made", "up") /\ ClFine
          /\ clVol' = [clVol EXCEPT ![c] = "attached"]
          /\ clBind' = [clBind EXCEPT ![c] = [at |-> "read", saw |-> NoClaim]]
          /\ clUsed' = [clUsed EXCEPT ![c] = clClaim[c].uid]
       \/ ClSnag /\ Step(c, "made", "wait") /\ UNCHANGED <<clVol, clBind, clUsed>>
    /\ Unlock(c)
    /\ UNCHANGED <<clClaim, clPv, clBlank, clMinting, clMkfs, clHold, clPass, clUid, clUnchecked, clComes, clDeaths>>

-----------------------------------------------------------------------------
(* ClaimBinder::bind: the claim is read, the PV made or brought up to date,  *)
(* and the claim written if it is the one that was read.                     *)

BindStep(c, from, to) == clBind[c].at = from /\ clBind' = [clBind EXCEPT ![c] = to]

BindReads(c) ==
    /\ \/ /\ clClaim[c] # NoClaim /\ ClFine
          /\ BindStep(c, "read", [at |-> "write", saw |-> clClaim[c]])
       \/ clClaim[c] = NoClaim /\ BindStep(c, "read", NoBind) /\ ClFine
       \/ BindStep(c, "read", NoBind) /\ ClSnag
    /\ UNCHANGED <<clClaim, clPv, clVol, clBlank, clMinting, clMkfs, clAt, clHold, clLock, clPass, clHist>>

\* A PV that exists keeps its phase; its claimRef follows the claim's uid.
BindWrites(c) ==
    LET uid == clBind[c].saw.uid IN
    /\ BindStep(c, "write", [at |-> "claim", saw |-> clBind[c].saw])
    /\ \/ /\ clPv' = [clPv EXCEPT ![c] = [claim |-> uid, phase |-> IF @ = NoPv THEN "bound" ELSE @.phase]]
          /\ ClFine
       \/ ClSnag /\ UNCHANGED clPv
    /\ UNCHANGED <<clClaim, clVol, clBlank, clMinting, clMkfs, clAt, clHold, clLock, clPass, clHist>>

BindClaims(c) ==
    /\ BindStep(c, "claim", NoBind)
    /\ \/ /\ clClaim[c] = clBind[c].saw /\ ClFine
          /\ clClaim' = [clClaim EXCEPT ![c].bound = TRUE]
       \/ clClaim[c] # clBind[c].saw /\ ClFine /\ UNCHANGED clClaim
       \/ ClSnag /\ UNCHANGED clClaim
    /\ UNCHANGED <<clPv, clVol, clBlank, clMinting, clMkfs, clAt, clHold, clLock, clPass, clHist>>

-----------------------------------------------------------------------------
(* reclaim_released, release_volume and release_claim_volume (one at a time). *)

Held(c, by) == clHold' = [clHold EXCEPT ![c] = by]

\* Faulty: the pass asks no reservation for the claim.
ReclaimBeginsUnguarded(c) ==
    /\ clPass = NoReclaim /\ clPv[c].phase = "released"
    /\ clPass' = [at |-> "volume", claim |-> c, pv |-> clPv[c]]
    /\ UNCHANGED clHold
    /\ UNCHANGED <<clClaim, clPv, clVol, clBlank, clMinting, clMkfs, clAt, clLock, clBind, clSnags, clHist>>

\* A PV listed as Released: its claim is reserved for the reclaim, unless a
\* workload has it, and no Pod of this node uses it.
ReclaimBegins(c) ==
    /\ clPass = NoReclaim /\ clPv[c].phase = "released"
    /\ clHold[c] = "none" /\ Held(c, "reclaim")
    /\ clPass' = [at |-> "volume", claim |-> c, pv |-> clPv[c]]
    /\ UNCHANGED <<clClaim, clPv, clVol, clBlank, clMinting, clMkfs, clAt, clLock, clBind, clSnags, clHist>>

\* The control plane asks for the volume of a claim it has deleted; the work
\* keeps its reservation though the client goes.  (With no volume nothing changes.)
ReleaseAsked(c) ==
    /\ clPass = NoReclaim /\ clClaim[c] = NoClaim /\ clVol[c] # "none"
    /\ clHold[c] = "none" /\ Held(c, "reclaim")
    /\ clPass' = [at |-> "volume", claim |-> c, pv |-> NoPv]
    /\ UNCHANGED <<clClaim, clPv, clVol, clBlank, clMinting, clMkfs, clAt, clLock, clBind, clSnags, clHist>>

AfterVolume == IF clPass.pv = NoPv THEN NoReclaim ELSE [clPass EXCEPT !.at = "pv"]

\* The Pods' list, the engine's list, the detach and the delete, any of which
\* may fail and leave the reclaim for a later pass; the reservation is over.
ReclaimVolume ==
    LET c == clPass.claim IN
    /\ clPass.at = "volume" /\ Held(c, "none")
    /\ \/ clVol' = [clVol EXCEPT ![c] = "none"] /\ clPass' = AfterVolume /\ ClFine
       \/ /\ ClSnag /\ clPass' = NoReclaim
          /\ clVol' \in {clVol, [clVol EXCEPT ![c] = IF @ = "none" THEN @ ELSE "made"]}
    /\ UNCHANGED <<clClaim, clPv, clBlank, clMinting, clMkfs, clAt, clLock, clBind, clHist>>

\* The PV goes if it is still the one that was listed.
ReclaimPv ==
    LET c == clPass.claim IN
    /\ clPass.at = "pv" /\ clPass' = NoReclaim
    /\ \/ clPv[c] = clPass.pv /\ clPv' = [clPv EXCEPT ![c] = NoPv] /\ ClFine
       \/ clPv[c] # clPass.pv /\ UNCHANGED clPv /\ ClFine
       \/ ClSnag /\ UNCHANGED clPv
    /\ UNCHANGED <<clClaim, clVol, clBlank, clMinting, clMkfs, clAt, clHold, clLock, clBind, clHist>>

\* The kubelet restarts: starts, binds, mints and reclaims of the old one end,
\* what runs keeps its claims (recovery takes them before admission opens).
ClRestart ==
    /\ clDeaths < MaxDeaths /\ clDeaths' = clDeaths + 1
    /\ clAt' = [c \in Claims |-> IF clAt[c] \in {"up", "gone"} THEN clAt[c] ELSE "wait"]
    /\ clHold' = [c \in Claims |-> IF clHold[c] = "reclaim" THEN "none" ELSE clHold[c]]
    /\ clMinting' = "none" /\ clMkfs' = 0 /\ clLock' = "none"
    /\ clBind' = [c \in Claims |-> NoBind] /\ clPass' = NoReclaim
    /\ UNCHANGED <<clClaim, clPv, clVol, clBlank, clUid, clUsed, clUnchecked, clComes, clSnags>>

-----------------------------------------------------------------------------
ClInit ==
    /\ clClaim = [c \in Claims |-> NoClaim] /\ clPv = [c \in Claims |-> NoPv]
    /\ clVol = [c \in Claims |-> "none"] /\ clBlank = "none"
    /\ clMinting = "none" /\ clMkfs = 0
    /\ clAt = [c \in Claims |-> "gone"] /\ clHold = [c \in Claims |-> "none"]
    /\ clLock = "none" /\ clBind = [c \in Claims |-> NoBind] /\ clPass = NoReclaim
    /\ clUid = [c \in Claims |-> 0] /\ clUsed = [c \in Claims |-> 0]
    /\ clUnchecked = FALSE /\ clComes = 0 /\ clSnags = 0 /\ clDeaths = 0

Provision(c) == Look(c) \/ Enter(c) \/ Make(c) \/ Attach(c)

ClNext ==
    \/ \E c \in Claims : \/ ClaimMade(c) \/ ClaimDeleted(c) \/ Binder(c) \/ PodComes(c) \/ PodGoes(c)
                         \/ Look(c) \/ Enter(c) \/ Make(c) \/ Attach(c)
                         \/ BindReads(c) \/ BindWrites(c) \/ BindClaims(c) \/ ReclaimBegins(c) \/ ReleaseAsked(c)
    \/ Format \/ MintEnds \/ BlankBreaks \/ Formatted \/ ReclaimVolume \/ ReclaimPv \/ ClRestart

\* A waiting start is tried again (the hold-off, a volume change), the engine
\* and the apiserver answer, the binder looks at every PV.
ClFairness ==
    /\ \A c \in Claims : /\ WF_clVars(Provision(c)) /\ SF_clVars(Enter(c))
                         /\ WF_clVars(Binder(c)) /\ SF_clVars(ReclaimBegins(c))
                         /\ WF_clVars(BindReads(c) \/ BindWrites(c) \/ BindClaims(c))
    /\ WF_clVars(Format) /\ WF_clVars(MintEnds) /\ WF_clVars(Formatted)
    /\ WF_clVars(ReclaimVolume) /\ WF_clVars(ReclaimPv)

ClSpec == ClInit /\ [][ClNext]_clVars /\ ClFairness

-----------------------------------------------------------------------------
ClTypeOK ==
    /\ clClaim \in [Claims -> [uid : 0..(MaxRemakes + 1), bound : BOOLEAN]]
    /\ clPv \in [Claims -> [claim : 0..(MaxRemakes + 1), phase : {"none", "bound", "released"}]]
    /\ clVol \in [Claims -> {"none", "made", "attached"}]
    /\ clBlank \in {"none", "formatting", "ready", "broken"}
    /\ clMinting \in {"none", "flying", "failed"} /\ clMkfs \in 0..3
    /\ clAt \in [Claims -> {"gone", "wait", "room", "making", "made", "up"}]
    /\ clHold \in [Claims -> {"none", "pod", "reclaim"}] /\ clLock \in Claims \cup {"none"}
    /\ clPass.at \in {"none", "volume", "pv"}
    \* The lock is held from the room's reading to the attach.
    /\ clLock # "none" => clAt[clLock] \in {"making", "made"}

\* A Pod that runs has its claim's volume, attached: no reclaim takes it.
MountKept == \A c \in Claims : clAt[c] = "up" => clVol[c] = "attached"

\* A claim that was never deleted keeps the volume its data is in.
DataStays ==
    \A c \in Claims : clClaim[c].uid = 1 /\ clUsed[c] = 1 => clVol[c] # "none"

\* No more volumes are made than there is room for.
RoomKept == Cardinality(Volumes) > Room => clUnchecked

\* A blank is formatted by one task at a time.
OneMint == clMkfs <= 1

\* A PV is removed after its volume: where no second claim has taken the name,
\* what a PV names is not left behind unnamed.
PvOutlives ==
    clPass.at = "pv" /\ clUid[clPass.claim] = 1 => clVol[clPass.claim] = "none"

\* What users and other Pods rely on, together: the reclaims, the room and the
\* mints of concurrent starts do not cross.
ClaimsKept == MountKept /\ DataStays /\ RoomKept /\ OneMint /\ PvOutlives

\* A Pod that waits for its claim starts once the claim is there and there is
\* room, and what a deleted claim left is reclaimed.
ClaimsServed ==
    \A c \in Claims :
        /\ clAt[c] \notin {"gone", "up"} => clClaim[c] = NoClaim \/ Cardinality(Volumes) >= Room
        /\ clPv[c].phase = "released" => clAt[c] # "gone"
=============================================================================
