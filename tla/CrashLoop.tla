----------------------------- MODULE CrashLoop -----------------------------
(***************************************************************************)
(* CrashLoopBackOff (crashloop.rs): how long a container that keeps dying  *)
(* waits before it is started again, and the file that keeps it across a   *)
(* restart of the kubelet.  Passes of different Pods save at once: each    *)
(* takes a snapshot under the lock and then, under none, opens the one     *)
(* temporary file (which empties it), writes it and renames it.            *)
(***************************************************************************)
EXTENDS Naturals, FiniteSets

CONSTANTS Loopers,      \* containers that keep dying, each of a Pod of its own
          Base, Cap,    \* BASE and CAP, in ticks
          Stable,       \* STABLE
          MaxNow,       \* bound: the clock
          MaxKills      \* bound: restarts of the kubelet

ASSUME CrashLoopAssumption ==
    /\ IsFiniteSet(Loopers)
    /\ Base \in Nat \ {0} /\ Cap \in Nat /\ Stable \in Nat
    /\ Base <= Cap /\ Cap < Stable /\ MaxNow \in Nat /\ MaxKills \in Nat

VARIABLES crNow,        \* the clock
          crMem,        \* entries: what the running kubelet knows
          crJob,        \* each pass: where its save is, its snapshot, the file it opened
          crData,       \* what each file on the disk holds
          crPath,       \* the file named crashloop.json (0: none)
          crTmp,        \* the file named crashloop.json.tmp (0: none)
          crGone,       \* containers whose Pod is gone
          crKills,
          crWant,       \* history: the entries, were they never lost
          crBefore,     \* history: of a pass that saves, its entry before the change
          crMixed       \* history: saves since the last one that ran alone overlapped

crVars == <<crNow, crMem, crJob, crData, crPath, crTmp, crGone, crKills, crWant, crBefore, crMixed>>
crDisk == <<crData, crPath, crTmp>>
crHist == <<crWant, crBefore, crMixed>>

NoEntry == [delay |-> 0, ready |-> 0, at |-> 0]
Entry == [delay : Base..Cap, ready : 0..(MaxNow + Cap), at : 0..MaxNow]
Nothing == [k \in Loopers |-> NoEntry]
Files == 1..(Cardinality(Loopers) + 2)
NoSave == [st |-> "none", snap |-> Nothing, file |-> 0, alone |-> TRUE]
Holding(st, map) == [st |-> st, map |-> map]
Empty == Holding("empty", Nothing)

Saving(k) == crJob[k].st # "none"
SomeoneSaves == \E k \in Loopers : Saving(k)

-----------------------------------------------------------------------------
\* Forgiven: up for STABLE since its last restart.
Forgiven(e) == e # NoEntry /\ crNow - e.at >= Stable
Smaller(a, b) == IF a <= b THEN a ELSE b

\* Faulty: no cap.
NextDelayUncapped(e) == IF e = NoEntry \/ Forgiven(e) THEN Base ELSE 2 * e.delay

\* What the next restart waits: from the base, or twice the last wait.
NextDelay(e) == IF e = NoEntry \/ Forgiven(e) THEN Base ELSE Smaller(2 * e.delay, Cap)

Restarted(e) == LET d == NextDelay(e) IN [delay |-> d, ready |-> crNow + d, at |-> crNow]

\* An entry changed: the pass goes on to save.
Change(k, f) ==
    /\ ~ Saving(k)
    /\ crMem' = [crMem EXCEPT ![k] = f]
    /\ crJob' = [crJob EXCEPT ![k].st = "snap"]
    /\ crBefore' = [crBefore EXCEPT ![k] = crWant[k]]
    /\ UNCHANGED <<crNow, crDisk, crKills, crMixed>>

\* A container that died is started again, if it need not wait.
RestartLooper(k) ==
    /\ k \notin crGone /\ crMem[k].ready <= crNow
    /\ Change(k, Restarted(crMem[k]))
    /\ crWant' = [crWant EXCEPT ![k] = Restarted(@)]
    /\ UNCHANGED crGone

\* running: seen up, and forgiven.
SeenStable(k) ==
    /\ Forgiven(crMem[k])
    /\ Change(k, NoEntry)
    /\ UNCHANGED <<crGone, crWant>>

\* forget_pod: its Pod is gone, and another has another uid.
ForgetPod(k) ==
    /\ crMem[k] # NoEntry
    /\ Change(k, NoEntry)
    /\ crGone' = crGone \cup {k} /\ crWant' = [crWant EXCEPT ![k] = NoEntry]

-----------------------------------------------------------------------------
(* save. *)

Snapshot(k) ==
    /\ crJob[k].st = "snap"
    /\ LET others == {o \in Loopers \ {k} : crJob[o].st \in {"open", "write", "rename"}} IN
       /\ crJob' = [o \in Loopers |->
            IF o = k THEN [st |-> "open", snap |-> crMem, file |-> 0, alone |-> others = {}]
            ELSE [crJob[o] EXCEPT !.alone = @ /\ o \notin others]]
       /\ crMixed' = (crMixed \/ others # {})
    /\ UNCHANGED <<crNow, crMem, crDisk, crGone, crKills, crWant, crBefore>>

Unused == CHOOSE f \in Files : f # crPath /\ \A o \in Loopers : crJob[o].file # f

\* Faulty: the file itself is opened, and there is nothing to rename.
OpenInPlace(k) ==
    /\ crJob[k].st = "open"
    /\ LET f == IF crPath # 0 THEN crPath ELSE Unused IN
         /\ crPath' = f
         /\ crData' = [crData EXCEPT ![f] = Empty]
         /\ crJob' = [crJob EXCEPT ![k].st = "write", ![k].file = f]
    /\ UNCHANGED <<crNow, crMem, crTmp, crGone, crKills, crHist>>

\* std::fs::write opens: the temporary file is made, or emptied if it is there.
Open(k) ==
    /\ crJob[k].st = "open"
    /\ LET f == IF crTmp # 0 THEN crTmp ELSE Unused IN
         /\ crTmp' = f
         /\ crData' = [crData EXCEPT ![f] = Empty]
         /\ crJob' = [crJob EXCEPT ![k].st = "write", ![k].file = f]
    /\ UNCHANGED <<crNow, crMem, crPath, crGone, crKills, crHist>>

\* And writes, over what another save wrote to the same file meanwhile.
Write(k) ==
    /\ crJob[k].st = "write"
    /\ LET f == crJob[k].file IN
         \E st \in {"saved"} \cup (IF crData[f] = Empty THEN {} ELSE {"garbage"}) :
           crData' = [crData EXCEPT ![f] = Holding(st, crJob[k].snap)]
    /\ crJob' = [crJob EXCEPT ![k].st = "rename"]
    /\ UNCHANGED <<crNow, crMem, crPath, crTmp, crGone, crKills, crHist>>

\* The rename fails if another save took the temporary file away.
Rename(k) ==
    /\ crJob[k].st = "rename"
    /\ IF crTmp = 0 THEN UNCHANGED crDisk
       ELSE /\ crPath' = crTmp /\ crTmp' = 0
            /\ crData' = [f \in Files |-> IF f = crPath THEN Empty ELSE crData[f]]
    /\ crJob' = [crJob EXCEPT ![k] = NoSave]
    /\ crMixed' = (crMixed /\ ~ crJob[k].alone)
    /\ crBefore' = [crBefore EXCEPT ![k] = NoEntry]
    /\ UNCHANGED <<crNow, crMem, crGone, crKills, crWant>>

-----------------------------------------------------------------------------
(* The kubelet dies and another starts: persist_to. *)

\* What it reads: an unreadable file is a fresh start.
Read == IF crPath = 0 \/ crData[crPath].st # "saved" THEN Nothing ELSE crData[crPath].map

Restored == [k \in Loopers |-> IF Forgiven(Read[k]) THEN NoEntry ELSE Read[k]]

\* An entry is another's, or is gone as that one is forgiven by now.
Keeps(e, w) == e = w \/ (e = NoEntry /\ Forgiven(w))

\* It writes them back at once, before any pass.  What is wanted from then on:
\* what was, or of a container whose pass was saving, what was before the
\* change; after mixed saves, whatever could be read.
Kill ==
    /\ crKills < MaxKills /\ crKills' = crKills + 1
    /\ crMem' = Restored
    /\ crJob' = [k \in Loopers |-> NoSave]
    /\ crData' = [f \in Files |-> IF f = 1 THEN Holding("saved", Restored) ELSE Empty]
    /\ crPath' = 1
    /\ crTmp' = 0
    /\ crWant' = [k \in Loopers |->
            IF crMixed THEN Restored[k]
            ELSE IF Saving(k) /\ ~ Keeps(Restored[k], crWant[k]) /\ Keeps(Restored[k], crBefore[k])
                 THEN crBefore[k] ELSE crWant[k]]
    /\ crMixed' = FALSE /\ crBefore' = Nothing
    /\ UNCHANGED <<crNow, crGone>>

\* A tick is seconds: a save is over within it.
Tick == /\ crNow < MaxNow /\ ~ SomeoneSaves
        /\ crNow' = crNow + 1
        /\ UNCHANGED <<crMem, crJob, crDisk, crGone, crKills, crHist>>

-----------------------------------------------------------------------------
CrInit ==
    /\ crNow = 0 /\ crMem = Nothing /\ crJob = [k \in Loopers |-> NoSave]
    /\ crData = [f \in Files |-> Empty] /\ crPath = 0 /\ crTmp = 0 /\ crKills = 0 /\ crGone = {}
    /\ crWant = Nothing /\ crBefore = Nothing /\ crMixed = FALSE

CrNext ==
    \/ \E k \in Loopers :
         RestartLooper(k) \/ SeenStable(k) \/ ForgetPod(k) \/ Snapshot(k) \/ Open(k) \/ Write(k) \/ Rename(k)
    \/ Kill \/ Tick

CrSpec == CrInit /\ [][CrNext]_crVars

-----------------------------------------------------------------------------
(* Properties. *)

CrTypeOK ==
    /\ crNow \in 0..MaxNow /\ crKills \in 0..MaxKills /\ crGone \subseteq Loopers
    /\ \A k \in Loopers : {crMem[k], crWant[k], crBefore[k]} \subseteq Entry \cup {NoEntry}
    /\ crPath \in Files \cup {0} /\ crTmp \in Files \cup {0}
    /\ \A k \in Loopers : crJob[k].st \in {"none", "snap", "open", "write", "rename"}

\* A container keeps its delay across restarts of the kubelet (#112), one that
\* dies in the middle of a save included: whatever was restarted, forgiven,
\* forgotten and saved before, it waits what it would had the kubelet not died,
\* or had its own pass that was saving then not made its change.  What is read
\* after saves of several Pods at once, with none alone since, may be anything
\* (they share the temporary file); what comes after is kept again.
DelayIsKept == \A k \in Loopers : Keeps(crMem[k], crWant[k])
=============================================================================
