---------------------------- MODULE PartsProofs ----------------------------
(***************************************************************************)
(* What Networks.tla, Proxy.tla, CrashLoop.tla and Containers.tla promise  *)
(* for every value of their constants.                                     *)
(***************************************************************************)
EXTENDS MCParts, SequenceTheorems, FiniteSetTheorems, WellFoundedInduction, TLAPS

-----------------------------------------------------------------------------
(* Networks: a sandbox's address and namespace, at each stage of its life. *)

Fresh == {"new", "retry", "add", "allocate"}
Starting == Fresh \cup {"plumb", "record", "unwind", "list"}
Kept == {"idle", "release", "stopped"}
BoxType == [st : {"none", "ready", "notready"}, handle : BOOLEAN]

NwJobType == nwJob \in [Boxes -> [at : Starting \cup Kept \cup {"over"}, todo : SUBSET Boxes]]
NwMemType == nwMem \in [Boxes -> [Boxes -> Addrs \cup {0}]]

\* What is there of s at the stage its caller is at.
StageOf(s, at, rec, file, ns) ==
    /\ at \in Fresh => file = 0
    /\ at \in Starting \cup {"over"} => rec = NoBox
    /\ at \in Kept => rec.st # "none"
    /\ at = "stopped" => rec.st = "notready"
    /\ at \in {"release", "stopped"} \/ rec.st = "notready" => file = 0
    /\ at \in {"add", "allocate", "plumb", "record", "unwind", "list"} \/ rec.st = "ready" => ns = "held"
    /\ rec.st = "ready" => rec.handle
    /\ file # 0 => ns = "held"
Staged ==
    \A s \in Boxes : StageOf(s, nwJob[s].at, nwRec[s], nwFile[s], nwNs[s])

\* A failed ADD is listed until its DEL is done.
Listed ==
    \A s \in Boxes :
        /\ s \in nwFailed => nwJob[s].at = "over"
        /\ nwJob[s].at = "over" => nwFile[s] = 0 \/ s \in nwFailed

\* Who retries holds the lock, and retries what is listed.
RetryLocked ==
    \A s \in Boxes :
        /\ nwJob[s].at = "retry" <=> nwLock = s
        /\ nwJob[s].todo \subseteq nwFailed
        /\ nwJob[s].at # "retry" => nwJob[s].todo = {}

\* An ADD at work knows every address taken, but for those of the ADDs that ran
\* beside it.
Informed ==
    \A s, t \in Boxes :
        nwJob[s].at = "allocate" /\ s # t =>
            /\ nwFile[t] \in {0, nwMem[s][t]} \/ {s, t} \in nwOverlap
            /\ nwJob[t].at = "allocate" => {s, t} \in nwOverlap

NwInv ==
    /\ NwTypeOK /\ NwJobType /\ NwMemType
    /\ Staged /\ Listed /\ RetryLocked /\ Informed /\ AddressesDistinct

-----------------------------------------------------------------------------
(* Proxy: with no gap, the flows follow the backends they were last compared *)
(* with, and between an application and its deletes the new ones too.        *)

PxType ==
    /\ PxTypeOK /\ pxGaps \in Nat
    /\ DOMAIN pxListed \subseteq Ports /\ \A k \in DOMAIN pxListed : pxListed[k] \in Vips

Follows(f, map) ==
    \/ f[3][1] \in {e[1] : e \in Reached(map, f[1], f[2])}
    \/ f[3] = Nowhere /\ (Reached(map, f[1], f[2]) = {} \/ f[2] = NodePort)
RulesAre(map) == \A k \in Ports, by \in Vips \cup {NodePort} : Reached(pxRules, k, by) = Reached(map, k, by)

FlowsKnown ==
    pxGaps = 0 =>
        /\ RulesAre(IF pxAt = "compare" THEN pxMap ELSE pxUdp)
        /\ \A f \in pxFlows :
             \/ Follows(f, pxUdp)
             \/ pxAt = "compare" /\ Follows(f, pxMap)
             \/ pxAt = "delete" /\ \E D \in pxDeletes : f \in D
             \/ f[1] \in pxMoved /\ f[2] # NodePort

PxInv == PxType /\ FlowsKnown

-----------------------------------------------------------------------------
(* CrashLoop: what can be read from the disk is, of each container, what the *)
(* kubelet knows, or what was wanted before the change its pass is saving.   *)

InFlight(k) == crJob[k].st \in {"open", "write", "rename"}
Entries == [Loopers -> Entry \cup {NoEntry}]
JobType == [st : {"none", "snap", "open", "write", "rename"}, snap : Entries,
            file : Files \cup {0}, alone : BOOLEAN]
FileType == [st : {"empty", "saved", "garbage"}, map : Entries]

CrType ==
    /\ CrTypeOK
    /\ crMem \in Entries /\ crWant \in Entries /\ crBefore \in Entries
    /\ crJob \in [Loopers -> JobType] /\ crData \in [Files -> FileType]
    /\ crMixed \in BOOLEAN

FilesApart == crTmp # 0 => crTmp # crPath

\* What a save may hold of a container, and the disk.
Current(e, k) == e = crMem[k] \/ (Saving(k) /\ Keeps(e, crBefore[k]))

\* A save that has run alone so far: nobody touched its file.
AloneUntouched ==
    \A k \in Loopers : InFlight(k) /\ crJob[k].alone =>
        /\ \A o \in Loopers \ {k} : ~ InFlight(o)
        /\ crJob[k].snap[k] = crMem[k]
        /\ \A o \in Loopers : Current(crJob[k].snap[o], o)
        /\ crJob[k].st # "open" => crTmp = crJob[k].file /\ crTmp # 0
        /\ crJob[k].st = "write" => crData[crTmp] = Empty
        /\ crJob[k].st = "rename" => crData[crTmp] = Holding("saved", crJob[k].snap)
UnmixedAlone == ~ crMixed => \A k \in Loopers : InFlight(k) => crJob[k].alone

DiskCurrent == ~ crMixed => \A k \in Loopers : Current(Read[k], k)

CrInv == CrType /\ FilesApart /\ AloneUntouched /\ UnmixedAlone /\ DiskCurrent /\ DelayIsKept

-----------------------------------------------------------------------------
(* Containers: what each stage of a call has in hand. *)

Making == {"mount", "define", "discard", "drop clone"}
Spawned == {"record", "failed"}
Letting == {"release", "drop"}
EarlyPlans == {<<>>, <<"work">>, <<"mounts">>, <<"work", "mounts">>}
LatePlans == {<<>>, <<"root">>, <<"clone">>, <<"root", "clone">>}
CtJobType ==
    ctJob \in [Callers -> [at : {"idle", "note", "retry"} \cup Making \cup Spawned \cup Letting,
                           c : Cts \cup {"none"}, plan : EarlyPlans \cup LatePlans,
                           rooted : BOOLEAN, batch : SUBSET (Cts \cup Strays), todo : SUBSET Cts]]
CtStraysType == ctStrays \subseteq Strays

\* A container and the call of its own Pod: its record, what is held for it, its
\* process, and where the call is.
OwnOf(rec, held, proc, at) ==
    /\ proc = "unmade" => rec.st = "none"
    /\ rec.st = "none" => rec = NoContainer
    /\ at \in Making => proc = "unmade"
    /\ at = "mount" => held = {"clone"}
    /\ at = "define" => held = {"clone", "root"}
    /\ at \in Spawned => rec.st = "created" /\ ~ rec.removing /\ "work" \notin rec.has
    /\ rec.st = "running" /\ ~ rec.removing => "work" \in rec.has
    /\ rec.st = "created" /\ ~ rec.removing => {"root", "clone"} \subseteq held /\ "work" \notin rec.has
    /\ proc \in {"running", "stopping"} => {"work", "root"} \subseteq held
    /\ at = "failed" => held \subseteq rec.has \cup {"mounts"}
    /\ at = "record" => held \subseteq rec.has \cup {"mounts", "work"}
    /\ proc # "unmade" /\ at \notin Spawned => held \subseteq rec.has
    /\ proc # "unmade" /\ "root" \in held => "clone" \in held
OwnCall == \A c \in Cts : OwnOf(ctRec[c], ctHeld[c], ctProc[c], ctJob[c].at)

\* A container somebody removes, or is about to.
Leaving(c) == ctProc[c] # "unmade" /\ (ctRec[c].removing \/ ~ Known(c))

\* What a removal has still to let go is on its list.
ListOf(job, held) ==
    /\ ~ job.rooted => /\ job.plan \in EarlyPlans
                       /\ held \cap {"work", "mounts"} \subseteq Among(job.plan)
    /\ job.rooted => job.plan \in LatePlans /\ held \subseteq Among(job.plan)
    /\ job.at = "drop" => job.plan # <<>> /\ Head(job.plan) \notin held
RemovalOf(d) ==
    /\ \A c \in ctJob[d].todo : Leaving(c)
    /\ ctJob[d].at \in Letting =>
         ctJob[d].c \in Cts /\ Leaving(ctJob[d].c) /\ ListOf(ctJob[d], ctHeld[ctJob[d].c])
Removals == \A d \in Callers : RemovalOf(d)

\* Every exit is in one place: to be drained, in one caller's hands, or kept.
NotedOnce ==
    /\ \A d \in Callers : ctJob[d].at # "note" => ctJob[d].batch = {}
    /\ \A d \in Callers : \A x \in ctJob[d].batch :
         x \notin ctExits /\ x \notin Among(ctKept) /\ \A e \in Callers \ {d} : x \notin ctJob[e].batch
    /\ \A x \in ctExits : x \notin Among(ctKept)
    /\ \A i, j \in DOMAIN ctKept : ctKept[i] = ctKept[j] => i = j
Noted(x) == x \in ctExits \/ x \in Among(ctKept) \/ \E d \in Callers : x \in ctJob[d].batch
NotedEnded ==
    /\ \A x \in ctStrays : ~ Noted(x)
    /\ \A c \in Cts : Noted(c) => ctProc[c] = "ended"

\* The exit of c is on its way to its record.
OnItsWay(c) ==
    \/ c \in ctExits \/ \E d \in Callers : c \in ctJob[d].batch
    \/ Cardinality(EndedBeside(c)) >= MaxKept

\* An exit that came before the handle it is of was recorded is kept for it.
ExitKept ==
    \A c \in Cts :
        ctJob[c].at = "record" /\ ctProc[c] = "ended" => OnItsWay(c) \/ c \in Among(ctKept)

CtHeldInv == OwnCall /\ Removals
CtExitInv == NotedOnce /\ NotedEnded /\ ExitKept /\ ExitOnItsWay
CtInv == CtTypeOK /\ CtJobType /\ CtStraysType /\ CtHeldInv /\ CtExitInv

LEMMA NwInvInit == NwInit => NwInv
<1> SUFFICES ASSUME NwInit PROVE NwInv
    OBVIOUS
<1>1. NwTypeOK /\ NwJobType /\ NwMemType
    BY NetworksAssumption DEF NwInit, NwTypeOK, NwJobType, NwMemType, NoBox, Starting, Fresh
<1>2. Staged /\ Listed
    BY DEF NwInit, Staged, StageOf, Listed, NoBox, Kept, Starting, Fresh
<1>3. RetryLocked /\ Informed
    BY NetworksAssumption DEF NwInit, RetryLocked, Informed
<1>4. AddressesDistinct
    BY NetworksAssumption DEF NwInit, AddressesDistinct
<1> QED BY <1>1, <1>2, <1>3, <1>4 DEF NwInv

\* The lowest address of a set of them is one of it.
LEMMA LowestIsOne ==
    ASSUME NEW S \in SUBSET Addrs, S # {}
    PROVE  Lowest(S) \in S
<1>1. S \subseteq Nat
    BY NetworksAssumption
<1>2. PICK a \in S : \A b \in S : ~ (<<b, a>> \in OpToRel(<, Nat))
    BY <1>1, NatLessThanWellFounded, WFMin
<1>3. \A b \in S : a <= b
    <2> TAKE b \in S
    <2>1. a \in Nat /\ b \in Nat
        BY <1>1
    <2>2. <<b, a>> \notin {p \in Nat \X Nat : p[1] < p[2]}
        BY <1>2 DEF OpToRel
    <2>3. ~ (b < a)
        BY <2>1, <2>2
    <2> QED BY <2>1, <2>3
<1> QED BY <1>3 DEF Lowest

\* A step of one caller that touches only its own sandbox, and gives no address.
Local(s, a, r, f, n) ==
    /\ nwJob[s].at \notin {"retry", "over"}
    /\ a \in (Starting \cup Kept \cup {"over"}) \ {"retry", "allocate"} /\ r \in BoxType
    /\ f \in {0, nwFile[s]} /\ n \in {"none", "held", "gone"}
    /\ StageOf(s, a, r, f, n) /\ (a = "over" => f = 0)
    /\ nwJob' = [nwJob EXCEPT ![s].at = a] /\ nwRec' = [nwRec EXCEPT ![s] = r]
    /\ nwFile' = [nwFile EXCEPT ![s] = f] /\ nwNs' = [nwNs EXCEPT ![s] = n]
    /\ UNCHANGED <<nwFailed, nwLock, nwMem, nwOverlap>>

LEMMA LocalStep ==
    ASSUME NwInv, NEW s \in Boxes, NEW a, NEW r, NEW f, NEW n, Local(s, a, r, f, n)
    PROVE  NwInv'
<1> USE DEF Local
<1>1. /\ nwJob'[s] = [nwJob[s] EXCEPT !.at = a] /\ nwJob'[s].at = a /\ nwJob'[s].todo = nwJob[s].todo
      /\ \A t \in Boxes \ {s} : nwJob'[t] = nwJob[t]
    BY DEF NwInv, NwJobType
<1>2. /\ nwRec'[s] = r /\ nwFile'[s] = f /\ nwNs'[s] = n
      /\ \A t \in Boxes \ {s} : nwRec'[t] = nwRec[t] /\ nwFile'[t] = nwFile[t] /\ nwNs'[t] = nwNs[t]
    BY DEF NwInv, NwTypeOK
<1>3. NwTypeOK' /\ NwJobType' /\ NwMemType'
    <2>1. nwJob' \in [Boxes -> [at : Starting \cup Kept \cup {"over"}, todo : SUBSET Boxes]]
        BY DEF NwInv, NwJobType
    <2>2. /\ nwRec' \in [Boxes -> [st : {"none", "ready", "notready"}, handle : BOOLEAN]]
          /\ nwFile' \in [Boxes -> Addrs \cup {0}] /\ nwNs' \in [Boxes -> {"none", "held", "gone"}]
        BY DEF NwInv, NwTypeOK, BoxType
    <2> QED BY <2>1, <2>2 DEF NwInv, NwTypeOK, NwJobType, NwMemType
<1>4. Staged'
    <2>1. ASSUME NEW t \in Boxes PROVE StageOf(t, nwJob'[t].at, nwRec'[t], nwFile'[t], nwNs'[t])
        <3>1. CASE t = s
            BY <1>1, <1>2, <3>1
        <3>2. CASE t # s
            BY <1>1, <1>2, <3>2 DEF NwInv, Staged
        <3> QED BY <3>1, <3>2
    <2> QED BY <2>1 DEF Staged, StageOf
<1>5. Listed'
    BY <1>1, <1>2 DEF NwInv, Listed
<1>6. RetryLocked'
    BY <1>1 DEF NwInv, RetryLocked
<1>7. Informed'
    BY <1>1, <1>2 DEF NwInv, Informed
<1>8. AddressesDistinct'
    BY <1>1, <1>2, NetworksAssumption DEF NwInv, AddressesDistinct
<1> QED BY <1>3, <1>4, <1>5, <1>6, <1>7, <1>8 DEF NwInv

\* An address is given: the lowest that none of the files read names.
LEMMA AllocateStep == ASSUME NwInv, NEW s \in Boxes, Allocate(s) PROVE NwInv'
<1> USE DEF NwAt, NwGo
<1>0. nwFile[s] = 0 /\ nwNs[s] = "held" /\ nwRec[s] = NoBox /\ nwJob[s].at = "allocate" /\ s \notin nwFailed
    BY DEF NwInv, Staged, StageOf, Listed, Fresh, Starting, Allocate
<1>1. CASE /\ nwFile' = nwFile /\ NwGo(s, "unwind")
           /\ UNCHANGED <<nwNs, nwRec, nwFailed, nwLock, nwMem, nwOverlap>>
    <2>1. /\ nwFile' = [nwFile EXCEPT ![s] = 0] /\ nwNs' = [nwNs EXCEPT ![s] = "held"]
          /\ nwRec' = [nwRec EXCEPT ![s] = NoBox]
        BY <1>0, <1>1 DEF NwInv, NwTypeOK
    <2>2. StageOf(s, "unwind", NoBox, 0, "held") /\ NoBox \in BoxType
        BY DEF StageOf, NoBox, BoxType, Fresh, Starting, Kept
    <2>3. Local(s, "unwind", NoBox, 0, "held")
        BY <1>0, <1>1, <2>1, <2>2 DEF Local, Fresh, Starting, Kept
    <2> QED BY <2>3, LocalStep
<1>2. CASE /\ FreeAddrs(nwMem[s]) # {} /\ NwGo(s, "plumb")
           /\ nwFile' = [nwFile EXCEPT ![s] = Lowest(FreeAddrs(nwMem[s]))]
           /\ UNCHANGED <<nwNs, nwRec, nwFailed, nwLock, nwMem, nwOverlap>>
    <2> DEFINE a == Lowest(FreeAddrs(nwMem[s]))
    <2>1. a \in FreeAddrs(nwMem[s])
        BY <1>2, LowestIsOne DEF FreeAddrs, Assignable
    <2>2. a \in Addrs /\ a \notin Reserved /\ a # 0 /\ \A t \in Boxes : nwMem[s][t] # a
        BY <2>1, NetworksAssumption DEF FreeAddrs, Assignable, Taken
    <2> HIDE DEF a
    <2>3. /\ nwJob'[s].at = "plumb" /\ nwJob'[s].todo = nwJob[s].todo /\ nwFile'[s] = a
          /\ \A t \in Boxes \ {s} : nwJob'[t] = nwJob[t] /\ nwFile'[t] = nwFile[t]
        BY <1>2 DEF NwInv, NwJobType, NwTypeOK, a
    <2>4. NwTypeOK' /\ NwJobType' /\ NwMemType'
        <3>1. nwFile' \in [Boxes -> Addrs \cup {0}]
            BY <1>2, <2>2 DEF NwInv, NwTypeOK, a
        <3>2. nwJob' \in [Boxes -> [at : Starting \cup Kept \cup {"over"}, todo : SUBSET Boxes]]
            BY <1>2 DEF NwInv, NwJobType, Starting, Fresh
        <3> QED BY <1>2, <3>1, <3>2 DEF NwInv, NwTypeOK, NwJobType, NwMemType
    <2>5. Staged'
        <3>1. StageOf(s, "plumb", nwRec[s], a, nwNs[s])
            BY <1>0 DEF StageOf, NoBox, Fresh, Starting, Kept
        <3>2. ASSUME NEW t \in Boxes PROVE StageOf(t, nwJob'[t].at, nwRec'[t], nwFile'[t], nwNs'[t])
            BY <1>2, <2>3, <3>1 DEF NwInv, Staged
        <3> QED BY <3>2 DEF Staged, StageOf
    <2>6. Listed' /\ RetryLocked'
        BY <1>0, <1>2, <2>3 DEF NwInv, Listed, RetryLocked
    <2>7. Informed'
        BY <1>0, <1>2, <2>3 DEF NwInv, Informed
    <2>8. AddressesDistinct'
        <3>1. ASSUME NEW t \in Boxes, t # s, nwFile[t] = a PROVE {s, t} \in nwOverlap
            BY <1>0, <2>2, <3>1 DEF NwInv, Informed
        <3>2. nwFile'[s] \notin Reserved
            BY <2>2, <2>3
        <3>3. ASSUME NEW p \in Boxes, NEW t \in Boxes
              PROVE  /\ nwFile'[p] \notin Reserved
                     /\ p # t /\ nwFile'[p] # 0 /\ nwFile'[p] = nwFile'[t] => {p, t} \in nwOverlap'
            <4>1. CASE p # s /\ t # s
                BY <1>2, <2>3, <4>1 DEF NwInv, AddressesDistinct
            <4>2. CASE p = s /\ t # s
                BY <1>2, <2>3, <3>1, <3>2, <4>2
            <4>3. CASE p # s /\ t = s
                <5>1. nwFile'[p] \notin Reserved
                    BY <2>3, <4>3 DEF NwInv, AddressesDistinct
                <5>2. {p, t} = {s, p}
                    BY <4>3
                <5> QED BY <1>2, <2>3, <3>1, <4>3, <5>1, <5>2
            <4>4. CASE p = s /\ t = s
                BY <3>2, <4>4
            <4> QED BY <4>1, <4>2, <4>3, <4>4
        <3> QED BY <3>3 DEF AddressesDistinct
    <2> QED BY <2>4, <2>5, <2>6, <2>7, <2>8 DEF NwInv
<1> QED BY <1>1, <1>2 DEF Allocate

\* An ADD that reads the files knows them all, and who else is at it.
LEMMA LoadFilesStep == ASSUME NwInv, NEW s \in Boxes, LoadFiles(s) PROVE NwInv'
<1>0. /\ nwJob[s].at = "add" /\ nwJob' = [nwJob EXCEPT ![s].at = "allocate"]
      /\ nwMem' = [nwMem EXCEPT ![s] = nwFile]
      /\ nwOverlap' = nwOverlap \cup {{s, t} : t \in {t \in Boxes \ {s} : nwJob[t].at = "allocate"}}
      /\ UNCHANGED <<nwNs, nwRec, nwFailed, nwLock, nwFile>>
    BY DEF LoadFiles, NwAt, NwGo
<1>1. /\ nwJob'[s].at = "allocate" /\ nwJob'[s].todo = nwJob[s].todo /\ nwMem'[s] = nwFile
      /\ \A t \in Boxes \ {s} : nwJob'[t] = nwJob[t] /\ nwMem'[t] = nwMem[t]
    BY <1>0 DEF NwInv, NwJobType, NwMemType
<1>2. NwTypeOK' /\ NwJobType' /\ NwMemType'
    <2>1. nwJob' \in [Boxes -> [at : Starting \cup Kept \cup {"over"}, todo : SUBSET Boxes]]
        BY <1>0 DEF NwInv, NwJobType, Starting, Fresh
    <2>2. nwMem' \in [Boxes -> [Boxes -> Addrs \cup {0}]]
        BY <1>0 DEF NwInv, NwMemType, NwTypeOK
    <2> QED BY <1>0, <2>1, <2>2 DEF NwInv, NwTypeOK, NwJobType, NwMemType
<1>3. Staged'
    <2>1. ASSUME NEW t \in Boxes PROVE StageOf(t, nwJob'[t].at, nwRec'[t], nwFile'[t], nwNs'[t])
        <3>1. CASE t = s
            <4>1. StageOf(s, "add", nwRec[s], nwFile[s], nwNs[s])
                BY <1>0 DEF NwInv, Staged
            <4> QED BY <1>0, <1>1, <3>1, <4>1 DEF StageOf, Fresh, Starting, Kept
        <3>2. CASE t # s
            BY <1>0, <1>1, <3>2 DEF NwInv, Staged
        <3> QED BY <3>1, <3>2
    <2> QED BY <2>1 DEF Staged, StageOf
<1>4. Listed' /\ RetryLocked'
    BY <1>0, <1>1 DEF NwInv, Listed, RetryLocked
<1>5. Informed'
    <2>1. ASSUME NEW t \in Boxes \ {s}, nwJob[t].at = "allocate" PROVE {s, t} \in nwOverlap' /\ {t, s} \in nwOverlap'
        BY <1>0, <2>1
    <2>2. ASSUME NEW p \in Boxes, NEW t \in Boxes, nwJob'[p].at = "allocate", p # t
          PROVE  /\ nwFile'[t] \in {0, nwMem'[p][t]} \/ {p, t} \in nwOverlap'
                 /\ nwJob'[t].at = "allocate" => {p, t} \in nwOverlap'
        <3>1. CASE p = s
            BY <1>0, <1>1, <2>1, <2>2, <3>1
        <3>2. CASE p # s
            BY <1>0, <1>1, <2>1, <2>2, <3>2 DEF NwInv, Informed
        <3> QED BY <3>1, <3>2
    <2> QED BY <2>2 DEF Informed
<1>6. AddressesDistinct'
    BY <1>0 DEF NwInv, AddressesDistinct
<1> QED BY <1>2, <1>3, <1>4, <1>5, <1>6 DEF NwInv

\* The DELs of failed ADDs: the caller has the lock, and then goes on.
LEMMA RunBoxStep == ASSUME NwInv, NEW s \in Boxes, RunBox(s) PROVE NwInv'
<1>0. /\ nwJob[s].at = "new" /\ nwLock = "free" /\ nwLock' = s
      /\ nwJob' = [nwJob EXCEPT ![s] = [at |-> "retry", todo |-> nwFailed]]
      /\ UNCHANGED <<nwNs, nwRec, nwFailed, nwFile, nwMem, nwOverlap>>
    BY DEF RunBox, NwAt, cniVars
<1>1. /\ nwJob'[s].at = "retry" /\ nwJob'[s].todo = nwFailed
      /\ \A t \in Boxes \ {s} : nwJob'[t] = nwJob[t]
    BY <1>0 DEF NwInv, NwJobType
<1>2. NwTypeOK' /\ NwJobType' /\ NwMemType'
    <2>1. nwJob' \in [Boxes -> [at : Starting \cup Kept \cup {"over"}, todo : SUBSET Boxes]]
        BY <1>0 DEF NwInv, NwJobType, NwTypeOK, Starting, Fresh
    <2> QED BY <1>0, <2>1 DEF NwInv, NwTypeOK, NwJobType, NwMemType
<1>3. Staged'
    <2>1. ASSUME NEW t \in Boxes PROVE StageOf(t, nwJob'[t].at, nwRec'[t], nwFile'[t], nwNs'[t])
        <3>1. CASE t = s
            <4>1. StageOf(s, "new", nwRec[s], nwFile[s], nwNs[s])
                BY <1>0 DEF NwInv, Staged
            <4> QED BY <1>0, <1>1, <3>1, <4>1 DEF StageOf, Fresh, Starting, Kept
        <3>2. CASE t # s
            BY <1>0, <1>1, <3>2 DEF NwInv, Staged
        <3> QED BY <3>1, <3>2
    <2> QED BY <2>1 DEF Staged, StageOf
<1>4. Listed'
    BY <1>0, <1>1 DEF NwInv, Listed
<1>5. RetryLocked'
    <2>1. \A t \in Boxes : nwJob[t].at # "retry"
        BY <1>0, NetworksAssumption DEF NwInv, RetryLocked
    <2> QED BY <1>0, <1>1, <2>1 DEF NwInv, RetryLocked
<1>6. Informed'
    BY <1>0, <1>1 DEF NwInv, Informed
<1>7. AddressesDistinct'
    BY <1>0 DEF NwInv, AddressesDistinct
<1> QED BY <1>2, <1>3, <1>4, <1>5, <1>6, <1>7 DEF NwInv

LEMMA RetryFailedStep == ASSUME NwInv, NEW s \in Boxes, RetryFailed(s) PROVE NwInv'
<1>0. PICK f \in nwJob[s].todo :
        /\ nwJob' = [nwJob EXCEPT ![s].todo = @ \ {f}]
        /\ \/ DelDone(f) /\ nwFailed' = nwFailed \ {f} /\ ReleaseSandbox(f)
           \/ DelFails(f) /\ UNCHANGED <<nwFailed, nwNs>>
    BY DEF RetryFailed
<1>1. /\ nwJob[s].at = "retry" /\ nwLock = s /\ UNCHANGED <<nwRec, nwLock, nwMem, nwOverlap>>
      /\ f \in Boxes /\ f \in nwFailed /\ nwJob[f].at = "over" /\ f # s
    BY <1>0 DEF NwInv, NwTypeOK, RetryLocked, Listed, RetryFailed, NwAt, DelDone, DelFails
<1>2. /\ nwJob'[s].at = "retry" /\ nwJob'[s].todo = nwJob[s].todo \ {f}
      /\ \A t \in Boxes \ {s} : nwJob'[t] = nwJob[t]
      /\ \A t \in Boxes : nwJob'[t].at = nwJob[t].at
    BY <1>0, <1>1 DEF NwInv, NwJobType
<1>3. PICK a \in {0, nwFile[f]} : nwFile' = [nwFile EXCEPT ![f] = a] /\ (a = 0 \/ nwFailed' = nwFailed)
    <2>1. nwFile = [nwFile EXCEPT ![f] = nwFile[f]]
        BY DEF NwInv, NwTypeOK
    <2> QED BY <1>0, <2>1 DEF DelDone, DelFails
<1>4. PICK n \in {"gone", nwNs[f]} : nwNs' = [nwNs EXCEPT ![f] = n] /\ (a = 0 \/ n = nwNs[f])
    <2>1. nwNs = [nwNs EXCEPT ![f] = nwNs[f]]
        BY DEF NwInv, NwTypeOK
    <2>2. CASE DelDone(f) /\ nwFailed' = nwFailed \ {f} /\ ReleaseSandbox(f)
        <3>1. nwFile'[f] = 0
            BY <1>1, <2>2 DEF DelDone, NwInv, NwTypeOK
        <3>2. a = 0
            BY <1>1, <1>3, <3>1 DEF NwInv, NwTypeOK
        <3> QED BY <2>1, <2>2, <3>2 DEF ReleaseSandbox
    <2>3. CASE UNCHANGED <<nwFailed, nwNs>>
        BY <2>1, <2>3
    <2> QED BY <1>0, <2>2, <2>3
<1>5. /\ nwFile'[f] = a /\ nwNs'[f] = n
      /\ \A t \in Boxes \ {f} : nwFile'[t] = nwFile[t] /\ nwNs'[t] = nwNs[t]
    BY <1>1, <1>3, <1>4 DEF NwInv, NwTypeOK
<1>6. \/ nwFailed' = nwFailed
      \/ nwFailed' = nwFailed \ {f} /\ a = 0
    <2>1. CASE DelDone(f) /\ nwFailed' = nwFailed \ {f}
        <3>1. nwFile'[f] = 0
            BY <1>1, <2>1 DEF DelDone, NwInv, NwTypeOK
        <3> QED BY <1>5, <2>1, <3>1
    <2> QED BY <1>0, <2>1
<1>7. NwTypeOK' /\ NwJobType' /\ NwMemType'
    <2>1. nwJob' \in [Boxes -> [at : Starting \cup Kept \cup {"over"}, todo : SUBSET Boxes]]
        BY <1>0 DEF NwInv, NwJobType
    <2>2. /\ nwFile' \in [Boxes -> Addrs \cup {0}] /\ nwNs' \in [Boxes -> {"none", "held", "gone"}]
        BY <1>3, <1>4 DEF NwInv, NwTypeOK
    <2> QED BY <1>1, <1>6, <2>1, <2>2 DEF NwInv, NwTypeOK, NwJobType, NwMemType
<1>8. Staged'
    <2>1. ASSUME NEW t \in Boxes PROVE StageOf(t, nwJob'[t].at, nwRec'[t], nwFile'[t], nwNs'[t])
        <3>1. CASE t = f
            <4>1. StageOf(f, "over", nwRec[f], nwFile[f], nwNs[f])
                BY <1>1 DEF NwInv, Staged
            <4>2. StageOf(f, "over", nwRec[f], a, n)
                BY <1>3, <1>4, <4>1 DEF StageOf, NoBox, Fresh, Starting, Kept
            <4> QED BY <1>1, <1>2, <1>5, <3>1, <4>2
        <3>2. CASE t # f
            <4>1. StageOf(t, nwJob[t].at, nwRec[t], nwFile[t], nwNs[t])
                BY DEF NwInv, Staged
            <4> QED BY <1>1, <1>2, <1>5, <3>2, <4>1
        <3> QED BY <3>1, <3>2
    <2> QED BY <2>1 DEF Staged, StageOf
<1>9. Listed'
    BY <1>1, <1>2, <1>5, <1>6 DEF NwInv, Listed
<1>10. RetryLocked'
    BY <1>1, <1>2, <1>6 DEF NwInv, RetryLocked
<1>11. Informed'
    BY <1>1, <1>2, <1>5 DEF NwInv, Informed
<1>12. AddressesDistinct'
    BY <1>1, <1>5, NetworksAssumption DEF NwInv, AddressesDistinct
<1> QED BY <1>7, <1>8, <1>9, <1>10, <1>11, <1>12 DEF NwInv

LEMMA AcquireNsStep == ASSUME NwInv, NEW s \in Boxes, AcquireNs(s) PROVE NwInv'
<1>0. /\ nwJob[s].at = "retry" /\ nwJob[s].todo = {} /\ nwLock' = "free" /\ nwLock = s
      /\ UNCHANGED <<nwRec, nwFailed, nwFile, nwMem, nwOverlap>>
    BY DEF AcquireNs, NwAt, cniVars, NwInv, RetryLocked
<1>1. PICK a \in {"add", "over"}, n \in {"held", nwNs[s]} :
        /\ nwJob' = [nwJob EXCEPT ![s].at = a] /\ nwNs' = [nwNs EXCEPT ![s] = n]
        /\ a = "add" => n = "held"
    <2>1. nwNs = [nwNs EXCEPT ![s] = nwNs[s]]
        BY DEF NwInv, NwTypeOK
    <2> QED BY <2>1 DEF AcquireNs, NwGo
<1>2. /\ nwJob'[s].at = a /\ nwJob'[s].todo = {} /\ nwNs'[s] = n
      /\ \A t \in Boxes \ {s} : nwJob'[t] = nwJob[t] /\ nwNs'[t] = nwNs[t]
    BY <1>0, <1>1 DEF NwInv, NwJobType, NwTypeOK
<1>3. NwTypeOK' /\ NwJobType' /\ NwMemType'
    <2>1. nwJob' \in [Boxes -> [at : Starting \cup Kept \cup {"over"}, todo : SUBSET Boxes]]
        BY <1>1 DEF NwInv, NwJobType, Starting, Fresh
    <2>2. nwNs' \in [Boxes -> {"none", "held", "gone"}]
        BY <1>1 DEF NwInv, NwTypeOK
    <2> QED BY <1>0, <2>1, <2>2 DEF NwInv, NwTypeOK, NwJobType, NwMemType
<1>4. StageOf(s, "retry", nwRec[s], nwFile[s], nwNs[s])
    BY <1>0 DEF NwInv, Staged
<1>5. Staged'
    <2>1. ASSUME NEW t \in Boxes PROVE StageOf(t, nwJob'[t].at, nwRec'[t], nwFile'[t], nwNs'[t])
        <3>1. CASE t = s
            BY <1>0, <1>1, <1>2, <1>4, <3>1 DEF StageOf, NoBox, Fresh, Starting, Kept
        <3>2. CASE t # s
            BY <1>0, <1>2, <3>2 DEF NwInv, Staged
        <3> QED BY <3>1, <3>2
    <2> QED BY <2>1 DEF Staged, StageOf
<1>6. Listed'
    <2>1. nwFile[s] = 0
        BY <1>4 DEF StageOf, Fresh
    <2> QED BY <1>0, <1>2, <2>1 DEF NwInv, Listed
<1>7. RetryLocked'
    <2>1. \A t \in Boxes \ {s} : nwJob[t].at # "retry"
        BY <1>0 DEF NwInv, RetryLocked
    <2> QED BY <1>0, <1>1, <1>2, <2>1, NetworksAssumption DEF NwInv, RetryLocked
<1>8. Informed'
    BY <1>0, <1>1, <1>2 DEF NwInv, Informed
<1>9. AddressesDistinct'
    BY <1>0 DEF NwInv, AddressesDistinct
<1> QED BY <1>3, <1>5, <1>6, <1>7, <1>8, <1>9 DEF NwInv

LEMMA ListFailedStep == ASSUME NwInv, NEW s \in Boxes, ListFailed(s) PROVE NwInv'
<1>0. /\ nwJob[s].at = "list" /\ nwLock = "free" /\ nwFailed' = nwFailed \cup {s}
      /\ nwJob' = [nwJob EXCEPT ![s].at = "over"]
      /\ UNCHANGED <<nwNs, nwRec, nwLock, nwFile, nwMem, nwOverlap>>
    BY DEF ListFailed, NwAt, NwGo, cniVars
<1>1. /\ nwJob'[s].at = "over" /\ nwJob'[s].todo = nwJob[s].todo
      /\ \A t \in Boxes \ {s} : nwJob'[t] = nwJob[t]
    BY <1>0 DEF NwInv, NwJobType
<1>2. NwTypeOK' /\ NwJobType' /\ NwMemType'
    <2>1. nwJob' \in [Boxes -> [at : Starting \cup Kept \cup {"over"}, todo : SUBSET Boxes]]
        BY <1>0 DEF NwInv, NwJobType
    <2> QED BY <1>0, <2>1 DEF NwInv, NwTypeOK, NwJobType, NwMemType
<1>3. Staged'
    <2>1. ASSUME NEW t \in Boxes PROVE StageOf(t, nwJob'[t].at, nwRec'[t], nwFile'[t], nwNs'[t])
        <3>1. CASE t = s
            <4>1. StageOf(s, "list", nwRec[s], nwFile[s], nwNs[s])
                BY <1>0 DEF NwInv, Staged
            <4> QED BY <1>0, <1>1, <3>1, <4>1 DEF StageOf, NoBox, Fresh, Starting, Kept
        <3>2. CASE t # s
            BY <1>0, <1>1, <3>2 DEF NwInv, Staged
        <3> QED BY <3>1, <3>2
    <2> QED BY <2>1 DEF Staged, StageOf
<1>4. Listed' /\ RetryLocked'
    BY <1>0, <1>1, NetworksAssumption DEF NwInv, Listed, RetryLocked
<1>5. Informed'
    BY <1>0, <1>1 DEF NwInv, Informed
<1>6. AddressesDistinct'
    BY <1>0 DEF NwInv, AddressesDistinct
<1> QED BY <1>2, <1>3, <1>4, <1>5, <1>6 DEF NwInv

\* The steps of a caller at its own sandbox: plumbing, its undo, the record,
\* the stop and the removal.
LEMMA OwnSandboxSteps ==
    ASSUME NwInv, NEW s \in Boxes,
           Plumb(s) \/ Unwind(s) \/ RecordBox(s) \/ StopNetwork(s) \/ ReleaseNs(s) \/ AfterStop(s)
    PROVE  NwInv'
<1> USE DEF NwAt, NwGo
<1> DEFINE at == nwJob[s].at
           Same == UNCHANGED <<nwFailed, nwLock, nwMem, nwOverlap>>
<1>1. /\ StageOf(s, at, nwRec[s], nwFile[s], nwNs[s])
      /\ nwRec[s] \in BoxType /\ nwNs[s] \in {"none", "held", "gone"}
      /\ nwFile = [nwFile EXCEPT ![s] = nwFile[s]] /\ nwRec = [nwRec EXCEPT ![s] = nwRec[s]]
      /\ nwNs = [nwNs EXCEPT ![s] = nwNs[s]]
    BY DEF NwInv, NwTypeOK, Staged, BoxType
<1>2. CASE Plumb(s)
    <2>1. PICK a \in {"record", "unwind"}, f \in {0, nwFile[s]} :
            nwJob' = [nwJob EXCEPT ![s].at = a] /\ nwFile' = [nwFile EXCEPT ![s] = f]
        BY <1>1, <1>2 DEF Plumb
    <2>2. at = "plumb" /\ Same /\ nwRec' = nwRec /\ nwNs' = nwNs
        BY <1>2 DEF Plumb
    <2>3. StageOf(s, a, nwRec[s], f, nwNs[s])
        BY <1>1, <2>1, <2>2 DEF StageOf, NoBox, Fresh, Starting, Kept
    <2>9. Local(s, a, nwRec[s], f, nwNs[s])
        BY <1>1, <2>1, <2>2, <2>3 DEF Local, Fresh, Starting, Kept
    <2> QED BY <2>9, LocalStep
<1>3. CASE Unwind(s)
    <2>1. PICK a \in {"over", "list"}, f \in {0, nwFile[s]}, n \in {"gone", nwNs[s]} :
            /\ nwJob' = [nwJob EXCEPT ![s].at = a] /\ nwFile' = [nwFile EXCEPT ![s] = f]
            /\ nwNs' = [nwNs EXCEPT ![s] = n]
            /\ a = "over" => f = 0 
            /\ a = "list" => n = nwNs[s]
        <3>1. CASE DelDone(s) /\ ReleaseSandbox(s) /\ NwGo(s, "over")
            <4>1. \E n \in {"gone", nwNs[s]} : nwNs' = [nwNs EXCEPT ![s] = n]
                BY <1>1, <3>1 DEF ReleaseSandbox
            <4> QED BY <3>1, <4>1 DEF DelDone
        <3>2. CASE DelFails(s) /\ NwGo(s, "list") /\ UNCHANGED nwNs
            <4>1. \E f \in {0, nwFile[s]} : nwFile' = [nwFile EXCEPT ![s] = f]
                BY <1>1, <3>2 DEF DelFails
            <4> QED BY <1>1, <3>2, <4>1
        <3> QED BY <1>3, <3>1, <3>2 DEF Unwind
    <2>2. at = "unwind" /\ Same /\ nwRec' = nwRec
        BY <1>3 DEF Unwind, DelDone, DelFails
    <2>3. StageOf(s, a, nwRec[s], f, n)
        BY <1>1, <2>1, <2>2 DEF StageOf, NoBox, Fresh, Starting, Kept
    <2>9. Local(s, a, nwRec[s], f, n)
        BY <1>1, <2>1, <2>2, <2>3 DEF Local, Fresh, Starting, Kept
    <2> QED BY <2>9, LocalStep
<1>4. CASE RecordBox(s)
    <2>1. /\ at = "record" /\ nwJob' = [nwJob EXCEPT ![s].at = "idle"] /\ Same
          /\ nwRec' = [nwRec EXCEPT ![s] = [st |-> "ready", handle |-> TRUE]]
          /\ nwFile' = nwFile /\ nwNs' = nwNs
        BY <1>4 DEF RecordBox, cniVars
    <2>2. /\ StageOf(s, "idle", [st |-> "ready", handle |-> TRUE], nwFile[s], nwNs[s])
          /\ [st |-> "ready", handle |-> TRUE] \in BoxType
        BY <1>1, <2>1 DEF StageOf, BoxType, NoBox, Fresh, Starting, Kept
    <2>9. Local(s, "idle", [st |-> "ready", handle |-> TRUE], nwFile[s], nwNs[s])
        BY <1>1, <2>1, <2>2 DEF Local, Fresh, Starting, Kept
    <2> QED BY <2>9, LocalStep
<1>5. CASE StopNetwork(s)
    <2>1. at = "idle" /\ Same /\ nwRec' = nwRec /\ nwNs' = nwNs
        BY <1>5 DEF StopNetwork, DelDone, DelFails, cniVars
    <2>2. PICK a \in {"idle", "release"}, f \in {0, nwFile[s]} :
            /\ nwJob' = [nwJob EXCEPT ![s].at = a] /\ nwFile' = [nwFile EXCEPT ![s] = f]
            /\ a = "release" => f = 0
        <3>1. CASE nwRec[s].st = "ready" /\ DelDone(s) /\ NwGo(s, "release")
            BY <3>1 DEF DelDone
        <3>2. CASE nwRec[s].st = "ready" /\ DelFails(s) /\ UNCHANGED nwJob
            <4>1. \E f \in {0, nwFile[s]} : nwFile' = [nwFile EXCEPT ![s] = f]
                BY <1>1, <3>2 DEF DelFails
            <4>2. nwJob = [nwJob EXCEPT ![s].at = "idle"]
                BY <2>1 DEF NwInv, NwJobType
            <4> QED BY <3>2, <4>1, <4>2
        <3>3. CASE nwRec[s].st = "notready" /\ NwGo(s, "release") /\ UNCHANGED cniVars
            <4>1. nwFile[s] = 0
                BY <1>1, <3>3 DEF StageOf
            <4> QED BY <1>1, <3>3, <4>1 DEF cniVars
        <3> QED BY <1>5, <3>1, <3>2, <3>3 DEF StopNetwork
    <2>3. StageOf(s, a, nwRec[s], f, nwNs[s])
        BY <1>1, <2>1, <2>2 DEF StageOf, Fresh, Starting, Kept
    <2>9. Local(s, a, nwRec[s], f, nwNs[s])
        BY <1>1, <2>1, <2>2, <2>3 DEF Local, Fresh, Starting, Kept
    <2> QED BY <2>9, LocalStep
<1>6. CASE ReleaseNs(s)
    <2>1. /\ at = "release" /\ nwJob' = [nwJob EXCEPT ![s].at = "stopped"] /\ Same /\ nwFile' = nwFile
        BY <1>6 DEF ReleaseNs, cniVars
    <2>2. PICK r \in BoxType, n \in {"gone", nwNs[s]} :
            /\ nwRec' = [nwRec EXCEPT ![s] = r] /\ nwNs' = [nwNs EXCEPT ![s] = n]
            /\ r.st = "notready"
        <3>1. CASE /\ nwNs' = [nwNs EXCEPT ![s] = "gone"]
                   /\ nwRec' = [nwRec EXCEPT ![s] = [st |-> "notready", handle |-> FALSE]]
            <4>1. [st |-> "notready", handle |-> FALSE] \in BoxType
                BY DEF BoxType
            <4> QED BY <3>1, <4>1
        <3>2. CASE nwRec' = [nwRec EXCEPT ![s].st = "notready"] /\ UNCHANGED nwNs
            <4>1. /\ [nwRec[s] EXCEPT !.st = "notready"] \in BoxType
                  /\ nwRec' = [nwRec EXCEPT ![s] = [nwRec[s] EXCEPT !.st = "notready"]]
                  /\ [nwRec[s] EXCEPT !.st = "notready"].st = "notready"
                BY <1>1, <3>2 DEF BoxType
            <4> QED BY <1>1, <3>2, <4>1
        <3>3. CASE ~ nwRec[s].handle /\ UNCHANGED <<nwNs, nwRec>>
            <4>1. nwRec[s].st = "notready"
                BY <1>1, <2>1, <3>3 DEF StageOf, BoxType, Kept
            <4> QED BY <1>1, <3>3, <4>1
        <3> QED BY <1>6, <3>1, <3>2, <3>3 DEF ReleaseNs
    <2>3. StageOf(s, "stopped", r, nwFile[s], n)
        BY <1>1, <2>1, <2>2 DEF StageOf, Fresh, Starting, Kept
    <2>9. Local(s, "stopped", r, nwFile[s], n)
        BY <1>1, <2>1, <2>2, <2>3 DEF Local, Fresh, Starting, Kept
    <2> QED BY <2>9, LocalStep
<1>7. CASE AfterStop(s)
    <2>1. at = "stopped" /\ Same /\ nwFile' = nwFile /\ nwFile[s] = 0 /\ nwRec[s].st = "notready"
        BY <1>1, <1>7 DEF AfterStop, cniVars, StageOf
    <2>2. NoBox \in BoxType
        BY DEF NoBox, BoxType
    <2>3. PICK a \in {"idle", "over"}, r \in {NoBox, nwRec[s]}, n \in {"gone", nwNs[s]} :
            /\ nwJob' = [nwJob EXCEPT ![s].at = a] /\ nwRec' = [nwRec EXCEPT ![s] = r]
            /\ nwNs' = [nwNs EXCEPT ![s] = n] /\ (a = "over" <=> r = NoBox)
        <3>1. nwRec[s] # NoBox
            BY <2>1 DEF NoBox
        <3> QED BY <1>1, <1>7, <3>1 DEF AfterStop
    <2>4. StageOf(s, a, r, 0, n)
        BY <1>1, <2>1, <2>3 DEF StageOf, NoBox, Fresh, Starting, Kept
    <2>9. Local(s, a, r, nwFile[s], n)
        BY <1>1, <2>1, <2>2, <2>3, <2>4 DEF Local, Fresh, Starting, Kept
    <2> QED BY <2>9, LocalStep
<1> QED BY <1>2, <1>3, <1>4, <1>5, <1>6, <1>7

\* The stages of every sandbox are kept, whoever does what.
LEMMA NwInvStep == NwInv /\ [NwNext]_nwVars => NwInv'
<1> SUFFICES ASSUME NwInv, [NwNext]_nwVars PROVE NwInv'
    OBVIOUS
<1>1. CASE NwNext
    <2>1. PICK s \in Boxes :
            \/ RunBox(s) \/ RetryFailed(s) \/ AcquireNs(s) \/ LoadFiles(s) \/ Allocate(s) \/ Plumb(s)
            \/ Unwind(s) \/ ListFailed(s) \/ RecordBox(s)
            \/ StopNetwork(s) \/ ReleaseNs(s) \/ AfterStop(s)
        BY <1>1 DEF NwNext
    <2> QED BY <2>1, RunBoxStep, RetryFailedStep, AcquireNsStep, LoadFilesStep, AllocateStep,
               ListFailedStep, OwnSandboxSteps
<1>2. CASE UNCHANGED nwVars
    BY <1>2 DEF nwVars, NwInv, NwTypeOK, NwJobType, NwMemType, Staged, StageOf, Listed, RetryLocked,
                Informed, AddressesDistinct
<1> QED BY <1>1, <1>2

LEMMA NwInvKept == NwInv => NetworksKept
<1> SUFFICES ASSUME NwInv PROVE NetworksKept
    OBVIOUS
<1>1. ASSUME NEW s \in Boxes, nwFile[s] # 0
      PROVE  /\ nwNs[s] # "gone"
             /\ \/ nwRec[s].st = "ready" \/ s \in nwFailed
                \/ nwJob[s].at \in {"plumb", "record", "unwind", "list"}
    <2>1. StageOf(s, nwJob[s].at, nwRec[s], nwFile[s], nwNs[s])
        BY DEF NwInv, Staged
    <2>2. nwJob[s].at = "over" => s \in nwFailed
        BY <1>1 DEF NwInv, Listed
    <2>3. nwJob[s].at \in Starting \cup Kept \cup {"over"} /\ nwRec[s].st \in {"none", "ready", "notready"}
        BY DEF NwInv, NwJobType, NwTypeOK
    <2> QED BY <1>1, <2>1, <2>2, <2>3 DEF StageOf, Fresh, Starting, Kept
<1> QED BY <1>1 DEF NwInv, NetworksKept, NetworkHasOwner

\* The state of the sandboxes, of the lock and of the files (run_pod_sandbox,
\* stop_pod_sandbox, ipam.rs) is well-formed.
THEOREM NetworksTypeCorrect == NwSpec => []NwTypeOK
<1>1. NwInv => NwTypeOK
    BY DEF NwInv
<1> QED BY <1>1, NwInvInit, NwInvStep, PTL DEF NwSpec

\* Two sandboxes have one address only if their ADDs ran at once (ipam.rs,
\* allocate), and an address taken is one somebody gives back, in a namespace
\* that is there for it (#100, #137), for any number of sandboxes and addresses.
THEOREM NetworksKeptHolds == NwSpec => []NetworksKept
BY NwInvInit, NwInvStep, NwInvKept, PTL DEF NwSpec

-----------------------------------------------------------------------------
MapType(map) == DOMAIN map \subseteq Ports /\ \A k \in DOMAIN map : map[k] \in [ip : Vips, eps : SUBSET Endpoints]

LEMMA NoRulesTyped == MapType(NoRules) /\ DOMAIN NoRules = {}
BY DEF MapType, NoRules

LEMMA PxInvInit == PxInit => PxInv
<1> SUFFICES ASSUME PxInit PROVE PxInv
    OBVIOUS
<1>1. PxType
    BY NoRulesTyped, ProxyAssumption DEF PxInit, PxType, PxTypeOK, MapType
<1>2. FlowsKnown
    BY DEF PxInit, FlowsKnown, RulesAre
<1> QED BY <1>1, <1>2 DEF PxInv

\* The rules made from a map send where the map says.
LEMMA RulesSendAsMapped ==
    ASSUME NEW map, MapType(map)
    PROVE  /\ MapType(RulesOf(map))
           /\ \A k, by : Reached(RulesOf(map), k, by) = Reached(map, k, by)
BY DEF Reached, RulesOf, MapType

\* What a Service port sends where an address reaches it.
LEMMA ReachedTyped ==
    ASSUME NEW map, MapType(map), NEW k \in Ports, NEW by
    PROVE  Reached(map, k, by) \subseteq Endpoints
BY DEF Reached, MapType

\* The deletes for a backend that left: by the ClusterIP, and by the NodePort.
LEMMA ToBackOf ==
    ASSUME NEW before, NEW after, NEW f \in Flows, f[3][1] \in Backs,
           f[3][1] \in BacksOf(before, f[1]) \ BacksOf(after, f[1]),
           f[2] \in {IF f[1] \in DOMAIN after THEN after[f[1]].ip ELSE before[f[1]].ip, NodePort}
    PROVE  \E D \in Stale(before, after) : f \in D
<1> DEFINE v == IF f[1] \in DOMAIN after THEN after[f[1]].ip ELSE before[f[1]].ip
           gone == <<f[1], f[3][1]>>
<1>1. gone \in {p \in Ports \X Backs : p[2] \in BacksOf(before, p[1]) \ BacksOf(after, p[1])}
    BY DEF Flows
<1>2. ToBack(f[1], v, f[3][1]) \subseteq Stale(before, after)
    BY <1>1 DEF Stale
<1>3. CASE f[2] = v
    <2>1. f \in {g \in ToVip(v) : g[3][1] = f[3][1]}
        BY <1>3 DEF ToVip
    <2> QED BY <1>2, <2>1 DEF ToBack
<1>4. CASE f[2] = NodePort
    <2>1. f \in {g \in Flows : g[1] = f[1] /\ g[2] = NodePort /\ g[3][1] = f[3][1]}
        BY <1>4
    <2> QED BY <1>2, <2>1 DEF ToBack
<1> QED BY <1>3, <1>4

\* A flow that followed the backends before follows those after, or is one a
\* delete takes, or goes by a ClusterIP of a Service port that has another now.
LEMMA StaleIsRest ==
    ASSUME NEW before, NEW after, MapType(before), MapType(after), NEW f \in Flows, Follows(f, before)
    PROVE  \/ Follows(f, after)
           \/ \E D \in Stale(before, after) : f \in D
           \/ f[1] \in Moving(before, after) /\ f[2] # NodePort
<1> DEFINE k == f[1]
<1>0. k \in Ports /\ f[2] \in Vips \cup {NodePort}
    BY DEF Flows
<1>1. CASE f[3][1] \in {e[1] : e \in Reached(before, f[1], f[2])}
    <2>1. /\ k \in DOMAIN before /\ f[2] \in {before[k].ip, NodePort} /\ before[k].eps # {}
          /\ f[3][1] \in BacksOf(before, k)
        BY <1>1 DEF Reached, BacksOf, EndpointsOf
    <2>2. f[3][1] \in Backs
        <3>1. Reached(before, k, f[2]) \subseteq Endpoints
            BY <1>0, ReachedTyped
        <3> QED BY <1>1, <3>1 DEF Endpoints
    <2>3. CASE k \notin DOMAIN after
        <3>1. f[3][1] \notin BacksOf(after, k)
            BY <2>3 DEF BacksOf, EndpointsOf
        <3> QED BY <2>1, <2>2, <2>3, <3>1, ToBackOf
    <2>4. CASE k \in DOMAIN after /\ f[2] \in {after[k].ip, NodePort}
        <3>1. CASE f[3][1] \in BacksOf(after, k)
            BY <2>4, <3>1 DEF BacksOf, EndpointsOf, Follows, Reached
        <3>2. CASE f[3][1] \notin BacksOf(after, k)
            BY <2>1, <2>2, <2>4, <3>2, ToBackOf
        <3> QED BY <3>1, <3>2
    <2>5. CASE k \in DOMAIN after /\ f[2] \notin {after[k].ip, NodePort}
        BY <2>1, <2>5 DEF Moving
    <2> QED BY <2>3, <2>4, <2>5
<1>2. CASE f[3] = Nowhere /\ f[2] # NodePort /\ Reached(before, k, f[2]) = {} /\ Reached(after, k, f[2]) # {}
    <2>1. k \in DOMAIN after /\ f[2] = after[k].ip /\ after[k].eps # {}
        BY <1>2 DEF Reached
    <2>2. CASE EndpointsOf(before, k) = {}
        <3>1. ToVip(after[k].ip) \in Stale(before, after)
            BY <2>1, <2>2 DEF Stale
        <3> QED BY <2>1, <3>1 DEF ToVip
    <2>3. CASE EndpointsOf(before, k) # {}
        BY <1>2, <2>1, <2>3 DEF EndpointsOf, Reached, Moving
    <2> QED BY <2>2, <2>3
<1>3. CASE f[3] = Nowhere /\ (f[2] = NodePort \/ Reached(after, k, f[2]) = {})
    BY <1>3 DEF Follows
<1> QED BY <1>1, <1>2, <1>3 DEF Follows

LEMMA PxTypeStep == PxType /\ [PxNext]_pxVars => PxType'
<1> SUFFICES ASSUME PxType, [PxNext]_pxVars PROVE PxType'
    OBVIOUS
<1> USE DEF PxType, PxTypeOK, pxCluster, pxNode, pxKnown, Well, Refusal, Gap
<1>1. CASE Edit
    <2>1. PICK k \in Ports :
            \/ pxSvcs' = [j \in DOMAIN pxSvcs \ {k} |-> pxSvcs[j]] /\ UNCHANGED pxEps
            \/ /\ \E v \in Vips : pxSvcs' = [j \in DOMAIN pxSvcs \cup {k} |-> IF j = k THEN v ELSE pxSvcs[j]]
               /\ UNCHANGED pxEps
            \/ /\ \E S \in SUBSET Backs, n \in BackPorts : pxEps' = [pxEps EXCEPT ![k] = S \X {n}]
               /\ UNCHANGED pxSvcs
        BY <1>1 DEF Edit
    <2>2. \A S \in SUBSET Backs, n \in BackPorts : S \X {n} \subseteq Endpoints
        BY DEF Endpoints
    <2>3. DOMAIN pxSvcs' \subseteq Ports /\ \A j \in DOMAIN pxSvcs' : pxSvcs'[j] \in Vips
        BY <2>1
    <2>4. pxEps' \in [Ports -> SUBSET Endpoints]
        BY <2>1, <2>2
    <2> QED BY <1>1, <2>3, <2>4 DEF Edit
<1>2. CASE Send
    <2>1. PICK k \in Ports, by \in Vips \cup {NodePort} :
            \E e \in IF Reached(pxRules, k, by) = {} THEN {Nowhere} ELSE Reached(pxRules, k, by) :
                pxFlows' = pxFlows \cup {<<k, by, e>>}
        BY <1>2 DEF Send
    <2>2. Reached(pxRules, k, by) \subseteq Endpoints
        BY ReachedTyped DEF MapType
    <2>3. PICK e \in Endpoints \cup {Nowhere} : pxFlows' = pxFlows \cup {<<k, by, e>>}
        BY <2>1, <2>2
    <2>4. <<k, by, e>> \in Flows
        BY DEF Flows
    <2> QED BY <1>2, <2>3, <2>4 DEF Send
<1>3. CASE ListServices
    BY <1>3 DEF ListServices
<1>4. CASE ListEndpoints
    BY <1>4 DEF ListEndpoints
<1>5. CASE LeaveRules
    BY <1>5 DEF LeaveRules
<1>6. CASE Apply
    <2>1. MapType(RulesOf(pxMap))
        BY RulesSendAsMapped DEF MapType
    <2> QED BY <1>6, <2>1 DEF Apply, MapType
<1>7. CASE Compare
    BY <1>7 DEF Compare, Moving
<1>8. CASE DeleteFlows
    BY <1>8 DEF DeleteFlows
<1>9. CASE PassDone
    BY <1>9 DEF PassDone
<1>10. CASE Restart
    BY <1>10, NoRulesTyped DEF Restart, MapType
<1>11. CASE UNCHANGED pxVars
    BY <1>11 DEF pxVars
<1> QED BY <1>1, <1>2, <1>3, <1>4, <1>5, <1>6, <1>7, <1>8, <1>9, <1>10, <1>11 DEF PxNext, Pass

\* Without a gap, each step of the pass keeps what is known of the flows.
LEMMA FlowsStep == PxInv /\ [PxNext]_pxVars => FlowsKnown'
<1> SUFFICES ASSUME PxInv, [PxNext]_pxVars, pxGaps' = 0 PROVE FlowsKnown'
    BY DEF FlowsKnown
<1> USE DEF PxInv, pxCluster, pxNode, pxKnown
<1>0. /\ pxGaps = 0 /\ ~ Gap /\ pxFlows \subseteq Flows
      /\ MapType(pxMap) /\ MapType(pxUdp) /\ MapType(pxRules)
    <2>1. ~ Gap
        BY DEF Gap, PxType
    <2>2. pxGaps = 0
        BY <2>1 DEF PxNext, Edit, Send, Pass, ListServices, ListEndpoints, LeaveRules, Apply, Compare,
                    DeleteFlows, PassDone, Restart, Well, Refusal, pxVars
    <2> QED BY <2>1, <2>2 DEF PxType, PxTypeOK, MapType
<1>1. /\ RulesAre(IF pxAt = "compare" THEN pxMap ELSE pxUdp)
      /\ \A f \in pxFlows :
           \/ Follows(f, pxUdp)
           \/ pxAt = "compare" /\ Follows(f, pxMap)
           \/ pxAt = "delete" /\ \E D \in pxDeletes : f \in D
           \/ f[1] \in pxMoved /\ f[2] # NodePort
    BY <1>0 DEF FlowsKnown
<1>2. CASE Send
    <2>1. UNCHANGED <<pxAt, pxMap, pxUdp, pxDeletes, pxRules, pxMoved>>
        BY <1>2 DEF Send
    <2>2. PICK k \in Ports, by \in Vips \cup {NodePort} :
            \E e \in IF Reached(pxRules, k, by) = {} THEN {Nowhere} ELSE Reached(pxRules, k, by) :
                pxFlows' = pxFlows \cup {<<k, by, e>>}
        BY <1>2 DEF Send
    <2>3. PICK e \in IF Reached(pxRules, k, by) = {} THEN {Nowhere} ELSE Reached(pxRules, k, by) :
                pxFlows' = pxFlows \cup {<<k, by, e>>}
        BY <2>2
    <2>4. Follows(<<k, by, e>>, pxRules)
        BY <2>3 DEF Follows
    <2>5. Follows(<<k, by, e>>, IF pxAt = "compare" THEN pxMap ELSE pxUdp)
        BY <1>1, <2>4 DEF Follows, RulesAre
    <2> QED BY <1>1, <2>1, <2>3, <2>5 DEF FlowsKnown, RulesAre, Follows
<1>3. CASE ListEndpoints
    <2>1. /\ pxAt = "services" /\ pxAt' \in {"listed", "idle"}
          /\ UNCHANGED <<pxUdp, pxDeletes, pxRules, pxFlows, pxMoved>>
        BY <1>3 DEF ListEndpoints
    <2> QED BY <1>1, <2>1 DEF FlowsKnown, RulesAre, Follows
<1>4. CASE Apply
    <2>1. /\ pxAt = "listed" /\ UNCHANGED <<pxMap, pxUdp, pxDeletes, pxFlows, pxMoved>>
          /\ \/ pxRules' = RulesOf(pxMap) /\ pxAt' = "compare"
             \/ pxRules' = pxRules /\ pxAt' = "idle"
        BY <1>0, <1>4 DEF Apply
    <2>2. CASE pxRules' = RulesOf(pxMap) /\ pxAt' = "compare"
        <3>1. \A k, by : Reached(pxRules', k, by) = Reached(pxMap, k, by)
            BY <1>0, <2>2, RulesSendAsMapped
        <3> QED BY <1>1, <2>1, <2>2, <3>1 DEF FlowsKnown, RulesAre, Follows
    <2>3. CASE pxRules' = pxRules /\ pxAt' = "idle"
        BY <1>1, <2>1, <2>3 DEF FlowsKnown, RulesAre, Follows
    <2> QED BY <2>1, <2>2, <2>3
<1>5. CASE Compare
    <2>1. /\ pxAt = "compare" /\ pxAt' = "delete" /\ pxDeletes' = Stale(pxUdp, pxMap) /\ pxUdp' = pxMap
          /\ pxMoved' = pxMoved \cup Moving(pxUdp, pxMap)
          /\ UNCHANGED <<pxMap, pxRules, pxFlows>>
        BY <1>5 DEF Compare
    <2>2. ASSUME NEW f \in pxFlows
          PROVE  \/ Follows(f, pxMap) \/ \E D \in Stale(pxUdp, pxMap) : f \in D
                 \/ f[1] \in pxMoved' /\ f[2] # NodePort
        BY <1>0, <1>1, <2>1, StaleIsRest
    <2>3. RulesAre(pxMap)'
        BY <1>1, <2>1 DEF RulesAre
    <2>4. \A f \in pxFlows' : Follows(f, pxUdp') <=> Follows(f, pxMap)
        BY <2>1
    <2> QED BY <2>1, <2>2, <2>3, <2>4 DEF FlowsKnown, RulesAre, Follows
<1>6. CASE DeleteFlows
    <2>1. PICK D \in pxDeletes : pxDeletes' = pxDeletes \ {D} /\ pxFlows' = pxFlows \ D
        BY <1>0, <1>6 DEF DeleteFlows
    <2>2. pxAt = "delete" /\ UNCHANGED <<pxAt, pxMap, pxUdp, pxRules, pxMoved>>
        BY <1>6 DEF DeleteFlows
    <2> QED BY <1>1, <2>1, <2>2 DEF FlowsKnown, RulesAre, Follows
<1>7. CASE PassDone
    <2>1. /\ pxAt = "delete" /\ pxDeletes = {} /\ pxAt' = "idle"
          /\ UNCHANGED <<pxMap, pxUdp, pxRules, pxFlows, pxMoved>>
        BY <1>7 DEF PassDone
    <2> QED BY <1>1, <2>1 DEF FlowsKnown, RulesAre, Follows
<1>8. CASE ListServices \/ LeaveRules
    <2>1. /\ pxAt \in {"idle", "listed"} /\ pxAt' \in {"idle", "services"}
          /\ UNCHANGED <<pxMap, pxUdp, pxRules, pxFlows, pxMoved>>
        BY <1>8 DEF ListServices, LeaveRules
    <2> QED BY <1>1, <2>1 DEF FlowsKnown, RulesAre, Follows
<1>9. CASE Edit \/ UNCHANGED pxVars
    <2>1. UNCHANGED <<pxAt, pxMap, pxUdp, pxDeletes, pxRules, pxFlows, pxMoved>>
        BY <1>9 DEF Edit, pxVars
    <2> QED BY <1>1, <2>1 DEF FlowsKnown, RulesAre, Follows
<1>10. CASE Restart
    BY <1>0, <1>10 DEF Restart
<1> QED BY <1>2, <1>3, <1>4, <1>5, <1>6, <1>7, <1>8, <1>9, <1>10 DEF PxNext, Pass

LEMMA PxInvStep == PxInv /\ [PxNext]_pxVars => PxInv'
BY PxTypeStep, FlowsStep DEF PxInv

LEMMA PxInvFollows == PxInv => FlowsFollowRules
<1> SUFFICES ASSUME PxInv, pxAt = "idle", pxGaps = 0, NEW f \in pxFlows
             PROVE  \/ f[3][1] \in {e[1] : e \in Reached(pxRules, f[1], f[2])}
                    \/ f[3] = Nowhere /\ (Reached(pxRules, f[1], f[2]) = {} \/ f[2] = NodePort)
                    \/ f[1] \in pxMoved /\ f[2] # NodePort
    BY DEF FlowsFollowRules
<1>1. /\ Follows(f, pxUdp) \/ (f[1] \in pxMoved /\ f[2] # NodePort)
      /\ RulesAre(pxUdp) /\ f \in Flows
    BY DEF PxInv, FlowsKnown, PxType, PxTypeOK
<1>2. f[1] \in Ports /\ f[2] \in Vips \cup {NodePort}
    BY <1>1 DEF Flows
<1>3. Reached(pxRules, f[1], f[2]) = Reached(pxUdp, f[1], f[2])
    BY <1>1, <1>2 DEF RulesAre
<1> QED BY <1>1, <1>3 DEF Follows

\* What a pass of kube-proxy knows, and what the kernel has (proxy.rs,
\* sync_once), is well-formed.
THEOREM ProxyTypeCorrect == PxSpec => []PxTypeOK
<1>1. PxInv => PxTypeOK
    BY DEF PxInv, PxType
<1> QED BY <1>1, PxInvInit, PxInvStep, PTL DEF PxSpec

\* Between two passes every UDP flow goes to an address the rules send it to, or
\* nowhere if they send it nowhere (#147, conntrack.rs, stale), for any Services,
\* ClusterIPs, endpoints and clients: but for what the deletes do not name (a
\* NodePort before the first endpoint, a ClusterIP replaced in place) and gaps.
THEOREM FlowsFollowRulesHolds == PxSpec => []FlowsFollowRules
BY PxInvInit, PxInvStep, PxInvFollows, PTL DEF PxSpec

-----------------------------------------------------------------------------
\* There are more files than saves and the path together can name.
LEMMA LoopersFinite ==
    /\ IsFiniteSet(Loopers) /\ Cardinality(Loopers) \in Nat /\ 1 \in Files /\ 0 \notin Files
    /\ Base \in Nat \ {0} /\ Cap \in Nat /\ Stable \in Nat /\ Base <= Cap /\ MaxNow \in Nat /\ MaxKills \in Nat
<1>1. IsFiniteSet(Loopers) /\ Cardinality(Loopers) \in Nat
    BY CrashLoopAssumption, FS_CardinalityType
<1> QED BY <1>1, CrashLoopAssumption DEF Files

LEMMA UnusedIsFree ==
    ASSUME CrType
    PROVE  Unused \in Files /\ Unused # crPath /\ Unused # 0 /\ \A o \in Loopers : crJob[o].file # Unused
<1> DEFINE n == Cardinality(Loopers)
           named == {crJob[o].file : o \in Loopers}
           g == [o \in Loopers |-> crJob[o].file]
<1>1. g \in Surjection(Loopers, named)
    BY DEF Surjection
<1>2. IsFiniteSet(named) /\ Cardinality(named) <= n /\ n \in Nat /\ Cardinality(named) \in Nat
    BY <1>1, LoopersFinite, FS_Surjection, FS_CardinalityType
<1> HIDE DEF named, g
<1> HIDE DEF n
<1>3. IsFiniteSet(named \cup {crPath}) /\ Cardinality(named \cup {crPath}) <= n + 1
    <2>1. /\ IsFiniteSet(named \cup {crPath})
          /\ Cardinality(named \cup {crPath}) = IF crPath \in named THEN Cardinality(named) ELSE Cardinality(named) + 1
        BY <1>2, FS_AddElement
    <2> QED BY <1>2, <2>1
<1>4. IsFiniteSet(Files) /\ Cardinality(Files) = n + 2
    <2>1. Files = 1..(n + 2)
        BY DEF Files, n
    <2>2. 1 \in Int /\ n + 2 \in Int /\ ~ (1 > n + 2)
        BY <1>2
    <2>3. IsFiniteSet(1..(n + 2)) /\ Cardinality(1..(n + 2)) = (n + 2) - 1 + 1
        BY <2>2, FS_Interval
    <2> QED BY <1>2, <2>1, <2>3
<1>5. ASSUME Files \subseteq named \cup {crPath} PROVE FALSE
    <2>1. Cardinality(Files) <= Cardinality(named \cup {crPath})
        BY <1>3, <1>5, FS_Subset
    <2>2. Cardinality(named \cup {crPath}) \in Nat
        BY <1>3, FS_CardinalityType
    <2> QED BY <1>2, <1>3, <1>4, <2>1, <2>2
<1>6. \E f \in Files : f # crPath /\ \A o \in Loopers : crJob[o].file # f
    BY <1>5 DEF named
<1> QED BY <1>6, LoopersFinite DEF Unused

\* The entries the arithmetic makes.
LEMMA RestartedIsEntry ==
    ASSUME NEW e \in Entry \cup {NoEntry}, crNow \in 0..MaxNow
    PROVE  Restarted(e) \in Entry
<1>1. NextDelay(e) \in Base..Cap
    <2>1. CASE e = NoEntry \/ Forgiven(e)
        BY <2>1, LoopersFinite DEF NextDelay
    <2>2. CASE e \in Entry /\ ~ Forgiven(e) /\ e # NoEntry
        <3>1. e.delay \in Base..Cap
            BY <2>2 DEF Entry
        <3>2. NextDelay(e) = Smaller(2 * e.delay, Cap)
            BY <2>2 DEF NextDelay
        <3> QED BY <3>1, <3>2, LoopersFinite DEF Smaller
    <2> QED BY <2>1, <2>2
<1>2. crNow + NextDelay(e) \in 0..(MaxNow + Cap)
    BY <1>1, LoopersFinite
<1>3. Restarted(e) = [delay |-> NextDelay(e), ready |-> crNow + NextDelay(e), at |-> crNow]
    BY DEF Restarted
<1> QED BY <1>1, <1>2, <1>3 DEF Entry

LEMMA NothingTyped == Nothing \in Entries /\ NoSave \in JobType /\ Empty \in FileType /\ NoEntry \in Entry \cup {NoEntry}
BY LoopersFinite DEF Nothing, Entries, NoSave, JobType, Empty, Holding, FileType, NoEntry

LEMMA CrInvInit == CrInit => CrInv
<1> SUFFICES ASSUME CrInit PROVE CrInv
    OBVIOUS
<1>1. CrType
    <2>1. /\ crMem \in Entries /\ crWant \in Entries /\ crBefore \in Entries
          /\ crJob \in [Loopers -> JobType] /\ crData \in [Files -> FileType] /\ crMixed \in BOOLEAN
        BY NothingTyped DEF CrInit
    <2>2. \A k \in Loopers : {crMem[k], crWant[k], crBefore[k]} \subseteq Entry \cup {NoEntry}
        BY <2>1 DEF Entries
    <2>3. \A k \in Loopers : crJob[k].st \in {"none", "snap", "open", "write", "rename"}
        BY <2>1 DEF JobType
    <2>4. /\ crNow \in 0..MaxNow /\ crKills \in 0..MaxKills /\ crGone \subseteq Loopers
          /\ crPath \in Files \cup {0} /\ crTmp \in Files \cup {0}
        BY LoopersFinite DEF CrInit
    <2> QED BY <2>1, <2>2, <2>3, <2>4 DEF CrType, CrTypeOK
<1>2. \A k \in Loopers : crJob[k].st = "none"
    BY DEF CrInit, NoSave
<1>3. FilesApart /\ AloneUntouched /\ UnmixedAlone
    BY <1>2 DEF CrInit, FilesApart, AloneUntouched, UnmixedAlone, InFlight
<1>4. DiskCurrent
    BY DEF CrInit, DiskCurrent, Current, Read
<1>5. DelayIsKept
    BY DEF CrInit, DelayIsKept, Keeps
<1> QED BY <1>1, <1>3, <1>4, <1>5 DEF CrInv

\* The type, from the parts that a step changes.
LEMMA CrTypeFrom ==
    ASSUME crNow' \in 0..MaxNow, crKills' \in 0..MaxKills, crGone' \subseteq Loopers,
           crPath' \in Files \cup {0}, crTmp' \in Files \cup {0},
           crMem' \in Entries, crWant' \in Entries, crBefore' \in Entries,
           crJob' \in [Loopers -> JobType], crData' \in [Files -> FileType], crMixed' \in BOOLEAN
    PROVE  CrType'
<1>1. \A k \in Loopers : {crMem'[k], crWant'[k], crBefore'[k]} \subseteq Entry \cup {NoEntry}
    BY DEF Entries
<1>2. \A k \in Loopers : crJob'[k].st \in {"none", "snap", "open", "write", "rename"}
    BY DEF JobType
<1> QED BY <1>1, <1>2 DEF CrType, CrTypeOK

\* What is said of the saves and of the disk.
Saved == FilesApart /\ AloneUntouched /\ UnmixedAlone /\ DiskCurrent

\* An entry changes: its pass is about to save, and nothing else moves.  What
\* the disk and a save have of it is what was wanted before.
LEMMA ChangeStep ==
    ASSUME CrInv, NEW k \in Loopers, NEW f \in Entry \cup {NoEntry}, Change(k, f),
           crGone' \subseteq Loopers, crWant' \in Entries
    PROVE  CrType' /\ Saved'
<1>1. /\ crJob[k].st = "none" /\ crMem' = [crMem EXCEPT ![k] = f]
      /\ crJob' = [crJob EXCEPT ![k].st = "snap"]
      /\ crBefore' = [crBefore EXCEPT ![k] = crWant[k]]
      /\ UNCHANGED <<crNow, crData, crPath, crTmp, crKills, crMixed>>
    BY DEF Change, Saving, crDisk
<1>2. /\ crJob'[k].st = "snap" /\ \A o \in Loopers \ {k} : crJob'[o] = crJob[o]
      /\ crBefore'[k] = crWant[k] /\ \A o \in Loopers \ {k} : crBefore'[o] = crBefore[o] /\ crMem'[o] = crMem[o]
    BY <1>1 DEF CrInv, CrType, JobType, Entries
<1>3. CrType'
    <2>1. crMem' \in Entries /\ crBefore' \in Entries
        BY <1>1 DEF CrInv, CrType, Entries
    <2>2. crJob' \in [Loopers -> JobType]
        BY <1>1 DEF CrInv, CrType, JobType
    <2> QED BY <1>1, <2>1, <2>2, CrTypeFrom DEF CrInv, CrType, CrTypeOK
<1>4. /\ \A o \in Loopers : InFlight(o)' <=> InFlight(o)
      /\ \A o \in Loopers : InFlight(o) => o # k /\ crJob'[o] = crJob[o]
    BY <1>1, <1>2 DEF InFlight
<1>5. ASSUME NEW o \in Loopers, NEW e, Current(e, o) PROVE Current(e, o)'
    <2>1. CASE o = k
        <3>1. e = crMem[k]
            BY <1>1, <1>5, <2>1 DEF Current, Saving
        <3>2. Keeps(e, crWant[k])
            BY <3>1 DEF CrInv, DelayIsKept
        <3>3. Keeps(e, crBefore[k])' /\ Saving(k)'
            BY <1>1, <1>2, <3>2 DEF Keeps, Forgiven, Saving
        <3> QED BY <2>1, <3>3 DEF Current
    <2>2. CASE o # k
        BY <1>1, <1>2, <1>5, <2>2 DEF Current, Saving, Keeps, Forgiven
    <2> QED BY <2>1, <2>2
<1>6. FilesApart'
    BY <1>1 DEF CrInv, FilesApart
<1>7. AloneUntouched'
    <2> SUFFICES ASSUME NEW o \in Loopers, InFlight(o)', crJob'[o].alone
                 PROVE  /\ \A p \in Loopers \ {o} : ~ InFlight(p)'
                        /\ crJob'[o].snap[o] = crMem'[o]
                        /\ \A p \in Loopers : Current(crJob[o].snap[p], p)'
                        /\ crJob'[o].st # "open" => crTmp' = crJob'[o].file /\ crTmp' # 0
                        /\ crJob'[o].st = "write" => crData'[crTmp'] = Empty
                        /\ crJob'[o].st = "rename" => crData'[crTmp'] = Holding("saved", crJob'[o].snap)
        BY DEF AloneUntouched
    <2>1. o # k /\ crJob'[o] = crJob[o] /\ InFlight(o) /\ crJob[o].alone
        BY <1>4
    <2>2. ASSUME NEW p \in Loopers, NEW e, e = crJob[o].snap[p] PROVE Current(e, p)'
        BY <1>5, <2>1, <2>2 DEF CrInv, AloneUntouched
    <2> QED BY <1>1, <1>2, <1>4, <2>1, <2>2 DEF CrInv, AloneUntouched
<1>8. UnmixedAlone'
    BY <1>1, <1>4 DEF CrInv, UnmixedAlone
<1>9. DiskCurrent'
    <2>1. Read' = Read
        BY <1>1 DEF Read
    <2> QED BY <1>1, <1>5, <2>1 DEF CrInv, DiskCurrent
<1> QED BY <1>3, <1>6, <1>7, <1>8, <1>9 DEF Saved

LEMMA RestartLooperStep == ASSUME CrInv, NEW k \in Loopers, RestartLooper(k) PROVE CrInv'
<1>1. /\ crMem[k] \in Entry \cup {NoEntry} /\ crWant[k] \in Entry \cup {NoEntry} /\ crNow \in 0..MaxNow
      /\ crWant \in Entries /\ crMem \in Entries
    BY DEF CrInv, CrType, CrTypeOK
<1>2. /\ Change(k, Restarted(crMem[k])) /\ crWant' = [crWant EXCEPT ![k] = Restarted(@)]
      /\ UNCHANGED crGone
    BY DEF RestartLooper
<1>3. Restarted(crMem[k]) \in Entry /\ Restarted(crWant[k]) \in Entry
    BY <1>1, RestartedIsEntry
<1>4. crWant' \in Entries
    BY <1>1, <1>2, <1>3 DEF Entries
<1>5. CrType' /\ Saved'
    BY <1>2, <1>3, <1>4, ChangeStep DEF CrInv, CrType, CrTypeOK
<1>6. DelayIsKept'
    <2>1. \A o \in Loopers : Keeps(crMem[o], crWant[o])
        BY DEF CrInv, DelayIsKept
    <2>2. Restarted(crMem[k]) = Restarted(crWant[k])
        BY <2>1 DEF Keeps, Restarted, NextDelay
    <2>3. /\ crMem' = [crMem EXCEPT ![k] = Restarted(crMem[k])] /\ crNow' = crNow
          /\ crWant' = [crWant EXCEPT ![k] = Restarted(crWant[k])]
        BY <1>2 DEF Change
    <2> QED BY <1>1, <2>1, <2>2, <2>3 DEF DelayIsKept, Keeps, Forgiven, Entries
<1> QED BY <1>5, <1>6 DEF CrInv, Saved

LEMMA SeenStableStep == ASSUME CrInv, NEW k \in Loopers, SeenStable(k) PROVE CrInv'
<1>1. /\ Forgiven(crMem[k]) /\ Change(k, NoEntry) /\ UNCHANGED <<crGone, crWant>>
    BY DEF SeenStable
<1>2. CrType' /\ Saved'
    BY <1>1, ChangeStep DEF CrInv, CrType, CrTypeOK
<1>3. DelayIsKept'
    <2>1. \A o \in Loopers : Keeps(crMem[o], crWant[o])
        BY DEF CrInv, DelayIsKept
    <2>2. Forgiven(crWant[k])
        BY <1>1, <2>1 DEF Keeps, Forgiven
    <2>3. crMem' = [crMem EXCEPT ![k] = NoEntry] /\ crNow' = crNow
        BY <1>1 DEF Change
    <2> QED BY <1>1, <2>1, <2>2, <2>3 DEF DelayIsKept, Keeps, Forgiven, CrInv, CrType, Entries
<1> QED BY <1>2, <1>3 DEF CrInv, Saved

LEMMA ForgetPodStep == ASSUME CrInv, NEW k \in Loopers, ForgetPod(k) PROVE CrInv'
<1>1. /\ Change(k, NoEntry) /\ crGone' = crGone \cup {k} /\ crWant' = [crWant EXCEPT ![k] = NoEntry]
    BY DEF ForgetPod
<1>2. crWant' \in Entries /\ crGone' \subseteq Loopers
    BY <1>1 DEF CrInv, CrType, CrTypeOK, Entries
<1>3. CrType' /\ Saved'
    BY <1>1, <1>2, ChangeStep
<1>4. DelayIsKept'
    <2>1. \A o \in Loopers : Keeps(crMem[o], crWant[o])
        BY DEF CrInv, DelayIsKept
    <2>2. crMem' = [crMem EXCEPT ![k] = NoEntry] /\ crNow' = crNow
        BY <1>1 DEF Change
    <2> QED BY <1>1, <2>1, <2>2 DEF DelayIsKept, Keeps, Forgiven, CrInv, CrType, Entries
<1> QED BY <1>3, <1>4 DEF CrInv, Saved

\* A step of a save, or of the clock, leaves the entries.
LEMMA DelayUntouched ==
    ASSUME CrInv, crNow' >= crNow, UNCHANGED <<crMem, crWant>>, crNow' \in Nat
    PROVE  DelayIsKept'
<1>1. ASSUME NEW e \in Entry \cup {NoEntry}, Forgiven(e) PROVE Forgiven(e)'
    <2>1. e \in Entry
        BY <1>1 DEF Forgiven
    <2>2. e.at \in Nat /\ crNow \in Nat /\ Stable \in Nat
        BY <2>1, LoopersFinite DEF Entry, CrInv, CrType, CrTypeOK
    <2> QED BY <1>1, <2>2 DEF Forgiven
<1>2. \A k \in Loopers : crWant[k] \in Entry \cup {NoEntry}
    BY DEF CrInv, CrType, CrTypeOK
<1> QED BY <1>1, <1>2 DEF CrInv, DelayIsKept, Keeps

\* A pass that stays at its save, before and after a step that leaves the entries.
LEMMA CurrentStays ==
    ASSUME NEW o \in Loopers, NEW e, Current(e, o), UNCHANGED <<crMem, crNow>>,
           crBefore'[o] = crBefore[o], Saving(o)' <=> Saving(o)
    PROVE  Current(e, o)'
BY DEF Current, Keeps, Forgiven

\* A save reads the entries, and sees who else is at one.
LEMMA SnapshotStep == ASSUME CrInv, NEW k \in Loopers, Snapshot(k) PROVE CrInv'
<1> DEFINE others == {o \in Loopers \ {k} : crJob[o].st \in {"open", "write", "rename"}}
<1>1. /\ crJob[k].st = "snap"
      /\ crJob' = [o \in Loopers |->
            IF o = k THEN [st |-> "open", snap |-> crMem, file |-> 0, alone |-> others = {}]
            ELSE [crJob[o] EXCEPT !.alone = @ /\ o \notin others]]
      /\ crMixed' = (crMixed \/ others # {})
      /\ UNCHANGED <<crNow, crMem, crData, crPath, crTmp, crGone, crKills, crWant, crBefore>>
    BY DEF Snapshot, crDisk
<1>2. others = {o \in Loopers \ {k} : InFlight(o)}
    BY DEF InFlight
<1> HIDE DEF others
<1>3. /\ crJob'[k] = [st |-> "open", snap |-> crMem, file |-> 0, alone |-> others = {}]
      /\ \A o \in Loopers \ {k} : /\ crJob'[o].st = crJob[o].st /\ crJob'[o].snap = crJob[o].snap
                                  /\ crJob'[o].file = crJob[o].file
                                  /\ crJob'[o].alone => o \notin others
    BY <1>1 DEF CrInv, CrType, JobType
<1>4. CrType'
    <2>1. (others = {}) \in BOOLEAN /\ crMixed' \in BOOLEAN
        BY <1>1 DEF CrInv, CrType
    <2>2. ASSUME NEW o \in Loopers PROVE crJob'[o] \in JobType
        <3>1. CASE o = k
            <4>1. PICK b \in BOOLEAN : b = (others = {})
                BY <2>1
            <4>2. crJob'[k] = [st |-> "open", snap |-> crMem, file |-> 0, alone |-> b]
                BY <1>3, <4>1
            <4> QED BY <3>1, <4>2 DEF CrInv, CrType, JobType
        <3>2. CASE o # k
            <4>1. crJob'[o] = [crJob[o] EXCEPT !.alone = @ /\ o \notin others] /\ crJob[o] \in JobType
                BY <1>1, <3>2 DEF CrInv, CrType
            <4> QED BY <4>1 DEF JobType
        <3> QED BY <3>1, <3>2
    <2>3. crJob' \in [Loopers -> JobType]
        BY <1>1, <2>2
    <2> QED BY <1>1, <2>1, <2>3, CrTypeFrom DEF CrInv, CrType, CrTypeOK
<1>5. /\ InFlight(k)' /\ \A o \in Loopers \ {k} : InFlight(o)' <=> o \in others
    BY <1>2, <1>3 DEF InFlight
<1>6. FilesApart'
    BY <1>1 DEF CrInv, FilesApart
<1>7. AloneUntouched'
    <2>1. ASSUME NEW o \in Loopers, InFlight(o)', crJob'[o].alone
          PROVE  o = k /\ others = {}
        <3>1. o = k
            BY <1>3, <1>5, <2>1
        <3>2. crJob'[k].alone = (others = {})
            BY <1>3
        <3> QED BY <2>1, <3>1, <3>2
    <2>2. \A o \in Loopers : Current(crMem[o], o)'
        BY <1>1 DEF Current
    <2> QED BY <1>1, <1>3, <1>5, <2>1, <2>2 DEF AloneUntouched
<1>8. UnmixedAlone'
    BY <1>1, <1>3, <1>5 DEF CrInv, UnmixedAlone
<1>9. DiskCurrent'
    <2>1. Read' = Read
        BY <1>1 DEF Read
    <2>2. \A o \in Loopers : Saving(o)' <=> Saving(o)
        BY <1>1, <1>3 DEF Saving
    <2> QED BY <1>1, <2>1, <2>2, CurrentStays DEF CrInv, DiskCurrent
<1>10. DelayIsKept'
    BY <1>1, DelayUntouched DEF CrInv, CrType, CrTypeOK
<1> QED BY <1>4, <1>6, <1>7, <1>8, <1>9, <1>10 DEF CrInv

\* The temporary file is made, or emptied if another left it there.
LEMMA OpenStep == ASSUME CrInv, NEW k \in Loopers, Open(k) PROVE CrInv'
<1>1. PICK f \in Files :
        /\ crJob[k].st = "open" /\ f # 0 /\ f # crPath
        /\ crTmp' = f /\ crData' = [crData EXCEPT ![f] = Empty]
        /\ crJob' = [crJob EXCEPT ![k].st = "write", ![k].file = f]
        /\ UNCHANGED <<crNow, crMem, crPath, crGone, crKills, crWant, crBefore, crMixed>>
    <2>1. (IF crTmp # 0 THEN crTmp ELSE Unused) \in Files
        BY UnusedIsFree DEF CrInv, CrType, CrTypeOK
    <2>2. (IF crTmp # 0 THEN crTmp ELSE Unused) \notin {0, crPath}
        BY UnusedIsFree DEF CrInv, FilesApart
    <2> QED BY <2>1, <2>2 DEF Open, crHist
<1>2. /\ crJob'[k].st = "write" /\ crJob'[k].file = f /\ crJob'[k].snap = crJob[k].snap
      /\ crJob'[k].alone = crJob[k].alone
      /\ \A o \in Loopers \ {k} : crJob'[o] = crJob[o]
      /\ crData'[f] = Empty
    BY <1>1 DEF CrInv, CrType, JobType
<1>3. CrType'
    <2>1. crJob' \in [Loopers -> JobType]
        <3>1. crJob[k] \in JobType /\ crJob \in [Loopers -> JobType]
            BY DEF CrInv, CrType
        <3>2. [crJob[k] EXCEPT !.st = "write", !.file = f] \in JobType
            BY <3>1 DEF JobType
        <3> QED BY <1>1, <3>1, <3>2
    <2>2. crData' \in [Files -> FileType]
        BY <1>1, NothingTyped DEF CrInv, CrType
    <2> QED BY <1>1, <2>1, <2>2, CrTypeFrom DEF CrInv, CrType, CrTypeOK
<1>4. /\ \A o \in Loopers : (InFlight(o)' <=> InFlight(o)) /\ (Saving(o)' <=> Saving(o))
      /\ InFlight(k)
    BY <1>1, <1>2 DEF InFlight, Saving
<1>5. FilesApart'
    BY <1>1 DEF FilesApart
<1>6. AloneUntouched'
    <2>1. ASSUME NEW o \in Loopers, InFlight(o)', crJob'[o].alone
          PROVE  /\ \A p \in Loopers \ {o} : ~ InFlight(p)'
                 /\ crJob'[o].snap[o] = crMem'[o]
                 /\ \A p \in Loopers : Current(crJob[o].snap[p], p)'
                 /\ crJob'[o].st # "open" => crTmp' = crJob'[o].file /\ crTmp' # 0
                 /\ crJob'[o].st = "write" => crData'[crTmp'] = Empty
                 /\ crJob'[o].st = "rename" => crData'[crTmp'] = Holding("saved", crJob'[o].snap)
        <3>1. o = k
            BY <1>2, <1>4, <2>1 DEF CrInv, AloneUntouched
        <3>2. ASSUME NEW p \in Loopers, NEW e, e = crJob[k].snap[p] PROVE Current(e, p)'
            <4>1. Current(e, p)
                BY <1>1, <1>2, <1>4, <2>1, <3>1, <3>2 DEF CrInv, AloneUntouched
            <4> QED BY <1>1, <1>4, <4>1, CurrentStays
        <3> QED BY <1>1, <1>2, <1>4, <2>1, <3>1, <3>2 DEF CrInv, AloneUntouched
    <2> QED BY <2>1 DEF AloneUntouched
<1>7. UnmixedAlone'
    BY <1>1, <1>2, <1>4 DEF CrInv, UnmixedAlone
<1>8. DiskCurrent'
    <2>1. Read' = Read
        BY <1>1 DEF Read, CrInv, CrType, CrTypeOK
    <2> QED BY <1>1, <1>4, <2>1, CurrentStays DEF CrInv, DiskCurrent
<1>9. DelayIsKept'
    BY <1>1, DelayUntouched DEF CrInv, CrType, CrTypeOK
<1> QED BY <1>3, <1>5, <1>6, <1>7, <1>8, <1>9 DEF CrInv

\* What a save that ran alone writes is what it read.
LEMMA WriteStep == ASSUME CrInv, NEW k \in Loopers, Write(k) PROVE CrInv'
<1> DEFINE f == crJob[k].file
<1>1. /\ crJob[k].st = "write" /\ crJob' = [crJob EXCEPT ![k].st = "rename"]
      /\ UNCHANGED <<crNow, crMem, crPath, crTmp, crGone, crKills, crWant, crBefore, crMixed>>
    BY DEF Write, crHist
<1>2. PICK st \in {"saved", "garbage"} :
        /\ crData' = [crData EXCEPT ![f] = Holding(st, crJob[k].snap)]
        /\ crData[f] = Empty => st = "saved"
    BY DEF Write
<1>3. /\ crJob'[k].st = "rename" /\ crJob'[k].file = f /\ crJob'[k].snap = crJob[k].snap
      /\ crJob'[k].alone = crJob[k].alone
      /\ \A o \in Loopers \ {k} : crJob'[o] = crJob[o]
    BY <1>1 DEF CrInv, CrType, JobType
<1>4. CrType'
    <2>1. crJob' \in [Loopers -> JobType]
        BY <1>1 DEF CrInv, CrType, JobType
    <2>2. Holding(st, crJob[k].snap) \in FileType
        BY <1>2 DEF Holding, FileType, CrInv, CrType, JobType
    <2>3. crData' \in [Files -> FileType]
        BY <1>2, <2>2 DEF CrInv, CrType
    <2> QED BY <1>1, <2>1, <2>3, CrTypeFrom DEF CrInv, CrType, CrTypeOK
<1>5. /\ \A o \in Loopers : (InFlight(o)' <=> InFlight(o)) /\ (Saving(o)' <=> Saving(o))
      /\ InFlight(k)
    BY <1>1, <1>3 DEF InFlight, Saving
<1>6. FilesApart'
    BY <1>1 DEF CrInv, FilesApart
<1>7. AloneUntouched'
    <2>1. ASSUME NEW o \in Loopers, InFlight(o)', crJob'[o].alone
          PROVE  /\ \A p \in Loopers \ {o} : ~ InFlight(p)'
                 /\ crJob'[o].snap[o] = crMem'[o]
                 /\ \A p \in Loopers : Current(crJob[o].snap[p], p)'
                 /\ crJob'[o].st # "open" => crTmp' = crJob'[o].file /\ crTmp' # 0
                 /\ crJob'[o].st = "write" => crData'[crTmp'] = Empty
                 /\ crJob'[o].st = "rename" => crData'[crTmp'] = Holding("saved", crJob'[o].snap)
        <3>1. o = k
            BY <1>3, <1>5, <2>1 DEF CrInv, AloneUntouched
        <3>2. crTmp = f /\ crTmp # 0 /\ crData[crTmp] = Empty
            BY <1>1, <1>3, <1>5, <2>1, <3>1 DEF CrInv, AloneUntouched
        <3>3. crTmp \in Files
            BY <3>2 DEF CrInv, CrType, CrTypeOK
        <3>4. crData'[crTmp] = Holding("saved", crJob[k].snap)
            BY <1>2, <3>2, <3>3 DEF CrInv, CrType
        <3>5. ASSUME NEW p \in Loopers, NEW e, e = crJob[k].snap[p] PROVE Current(e, p)'
            <4>1. Current(e, p)
                BY <1>1, <1>3, <1>5, <2>1, <3>1, <3>5 DEF CrInv, AloneUntouched
            <4> QED BY <1>1, <1>5, <4>1, CurrentStays
        <3> QED BY <1>1, <1>3, <1>5, <2>1, <3>1, <3>2, <3>4, <3>5 DEF CrInv, AloneUntouched
    <2> QED BY <2>1 DEF AloneUntouched
<1>8. UnmixedAlone'
    BY <1>1, <1>3, <1>5 DEF CrInv, UnmixedAlone
<1>9. DiskCurrent'
    <2> SUFFICES ASSUME ~ crMixed' PROVE \A o \in Loopers : Current(Read[o], o)'
        BY DEF DiskCurrent
    <2>1. crTmp = f /\ crTmp # 0 /\ crTmp # crPath
        BY <1>1, <1>5 DEF CrInv, AloneUntouched, UnmixedAlone, FilesApart
    <2>2. Read' = Read
        BY <1>1, <1>2, <2>1 DEF Read, CrInv, CrType, CrTypeOK
    <2> QED BY <1>1, <1>5, <2>2, CurrentStays DEF CrInv, DiskCurrent
<1>10. DelayIsKept'
    BY <1>1, DelayUntouched DEF CrInv, CrType, CrTypeOK
<1> QED BY <1>4, <1>6, <1>7, <1>8, <1>9, <1>10 DEF CrInv

\* A save that ran alone, over, leaves on the disk what the kubelet knows.
LEMMA RenameStep == ASSUME CrInv, NEW k \in Loopers, Rename(k) PROVE CrInv'
<1>1. /\ crJob[k].st = "rename" /\ crJob' = [crJob EXCEPT ![k] = NoSave]
      /\ crMixed' = (crMixed /\ ~ crJob[k].alone) /\ crBefore' = [crBefore EXCEPT ![k] = NoEntry]
      /\ UNCHANGED <<crNow, crMem, crGone, crKills, crWant>>
    BY DEF Rename
<1>2. \/ crTmp = 0 /\ UNCHANGED <<crData, crPath, crTmp>>
      \/ /\ crTmp # 0 /\ crPath' = crTmp /\ crTmp' = 0
         /\ crData' = [f \in Files |-> IF f = crPath THEN Empty ELSE crData[f]]
    BY DEF Rename, crDisk
<1>3. /\ crJob'[k] = NoSave /\ crJob'[k].st = "none" /\ \A o \in Loopers \ {k} : crJob'[o] = crJob[o]
    BY <1>1 DEF CrInv, CrType, NoSave
<1>4. CrType'
    <2>1. crJob' \in [Loopers -> JobType]
        BY <1>1, NothingTyped DEF CrInv, CrType
    <2>2. crData' \in [Files -> FileType] /\ crPath' \in Files \cup {0} /\ crTmp' \in Files \cup {0}
        BY <1>2, NothingTyped DEF CrInv, CrType, CrTypeOK
    <2>3. crMixed' \in BOOLEAN /\ crBefore' \in Entries
        BY <1>1, NothingTyped DEF CrInv, CrType, JobType, Entries
    <2> QED BY <1>1, <2>1, <2>2, <2>3, CrTypeFrom DEF CrInv, CrType, CrTypeOK
<1>5. InFlight(k) /\ ~ InFlight(k)' /\ \A o \in Loopers \ {k} : InFlight(o)' <=> InFlight(o)
    BY <1>1, <1>3 DEF InFlight
<1>6. FilesApart'
    BY <1>2 DEF CrInv, FilesApart
<1>7. AloneUntouched'
    <2>1. ASSUME NEW o \in Loopers, InFlight(o)', crJob'[o].alone PROVE FALSE
        <3>1. o # k /\ InFlight(o) /\ crJob[o].alone
            BY <1>3, <1>5, <2>1
        <3> QED BY <1>5, <3>1 DEF CrInv, AloneUntouched
    <2> QED BY <2>1 DEF AloneUntouched
<1>8. ~ crMixed' => crJob[k].alone /\ \A o \in Loopers \ {k} : ~ InFlight(o)
    <2>1. ~ crMixed' => crJob[k].alone
        BY <1>1, <1>5 DEF CrInv, UnmixedAlone
    <2> QED BY <1>5, <2>1 DEF CrInv, AloneUntouched
<1>9. UnmixedAlone'
    BY <1>5, <1>8 DEF UnmixedAlone
<1>10. DiskCurrent'
    <2> SUFFICES ASSUME ~ crMixed' PROVE \A o \in Loopers : Current(Read[o], o)'
        BY DEF DiskCurrent
    <2>1. /\ crJob[k].snap[k] = crMem[k] /\ crTmp # 0
          /\ \A o \in Loopers : Current(crJob[k].snap[o], o)
          /\ crData[crTmp] = Holding("saved", crJob[k].snap)
        BY <1>1, <1>5, <1>8 DEF CrInv, AloneUntouched
    <2>2. crTmp \in Files /\ crTmp # crPath
        BY <2>1 DEF CrInv, CrType, CrTypeOK, FilesApart
    <2>3. Read' = crJob[k].snap
        <3>1. crPath' = crTmp /\ crData'[crTmp] = Holding("saved", crJob[k].snap)
            BY <1>2, <2>1, <2>2
        <3> QED BY <2>1, <3>1 DEF Read, Holding
    <2>4. ASSUME NEW o \in Loopers, NEW e, e = crJob[k].snap[o] PROVE Current(e, o)'
        <3>1. CASE o = k
            BY <1>1, <2>1, <2>4, <3>1 DEF Current
        <3>2. CASE o # k
            <4>1. crBefore'[o] = crBefore[o] /\ (Saving(o)' <=> Saving(o))
                BY <1>1, <1>3, <3>2 DEF Saving, CrInv, CrType, Entries
            <4>2. Current(e, o)
                BY <2>1, <2>4
            <4> QED BY <1>1, <4>1, <4>2, CurrentStays
        <3> QED BY <3>1, <3>2
    <2> QED BY <2>3, <2>4
<1>11. DelayIsKept'
    BY <1>1, DelayUntouched DEF CrInv, CrType, CrTypeOK
<1> QED BY <1>4, <1>6, <1>7, <1>9, <1>10, <1>11 DEF CrInv

\* What a kubelet that starts reads is, of each container, what the last one
\* knew, or what was wanted before the change that one died saving; after mixed
\* saves it is what is wanted from then on.
LEMMA KillStep == ASSUME CrInv, Kill PROVE CrInv'
<1>1. /\ crKills < MaxKills /\ crKills' = crKills + 1 /\ crMem' = Restored
      /\ crJob' = [k \in Loopers |-> NoSave]
      /\ crData' = [f \in Files |-> IF f = 1 THEN Holding("saved", Restored) ELSE Empty]
      /\ crPath' = 1 /\ crTmp' = 0 /\ crMixed' = FALSE /\ crBefore' = Nothing
      /\ UNCHANGED <<crNow, crGone>>
    BY DEF Kill
<1>2. crWant' = [k \in Loopers |->
            IF crMixed THEN Restored[k]
            ELSE IF Saving(k) /\ ~ Keeps(Restored[k], crWant[k]) /\ Keeps(Restored[k], crBefore[k])
                 THEN crBefore[k] ELSE crWant[k]]
    BY DEF Kill
<1>3. Restored \in Entries
    <2>1. crPath # 0 => crData[crPath].map \in Entries
        BY DEF CrInv, CrType, CrTypeOK, FileType
    <2>2. Read \in Entries
        BY <2>1, NothingTyped DEF Read
    <2> QED BY <2>2 DEF Restored, Entries
<1>4. CrType'
    <2>1. crJob' \in [Loopers -> JobType]
        BY <1>1, NothingTyped
    <2>2. Holding("saved", Restored) \in FileType
        BY <1>3 DEF Holding, FileType
    <2>3. crData' \in [Files -> FileType]
        BY <1>1, <2>2, NothingTyped
    <2>4. crWant' \in Entries /\ crBefore' \in Entries
        BY <1>1, <1>2, <1>3, NothingTyped DEF CrInv, CrType, Entries
    <2>5. crKills' \in 0..MaxKills
        BY <1>1, LoopersFinite DEF CrInv, CrType, CrTypeOK
    <2> QED BY <1>1, <1>3, <2>1, <2>3, <2>4, <2>5, LoopersFinite, CrTypeFrom
            DEF CrInv, CrType, CrTypeOK
<1>5. \A k \in Loopers : crJob'[k].st = "none"
    BY <1>1 DEF NoSave
<1>6. FilesApart' /\ AloneUntouched' /\ UnmixedAlone'
    BY <1>1, <1>5 DEF FilesApart, AloneUntouched, UnmixedAlone, InFlight
<1>7. DiskCurrent'
    <2>1. crData'[1] = Holding("saved", Restored) /\ 1 # 0
        BY <1>1, LoopersFinite
    <2>2. Read' = Restored
        BY <1>1, <2>1 DEF Read, Holding
    <2> QED BY <1>1, <2>2 DEF DiskCurrent, Current
<1>8. DelayIsKept'
    <2>1. ASSUME NEW k \in Loopers, ~ crMixed
          PROVE  \/ Keeps(Restored[k], crWant[k])
                 \/ Saving(k) /\ Keeps(Restored[k], crBefore[k])
        <3>1. ASSUME NEW w, Keeps(Read[k], w) PROVE Keeps(Restored[k], w)
            BY <3>1 DEF Keeps, Restored, Forgiven
        <3>2. Current(Read[k], k) /\ Keeps(crMem[k], crWant[k])
            BY <2>1 DEF CrInv, DiskCurrent, DelayIsKept
        <3> QED BY <3>1, <3>2 DEF Current
    <2>2. ASSUME NEW k \in Loopers PROVE Keeps(crMem'[k], crWant'[k])
        BY <1>1, <1>2, <2>1 DEF Keeps
    <2> QED BY <1>1, <2>2 DEF DelayIsKept, Keeps, Forgiven
<1> QED BY <1>4, <1>6, <1>7, <1>8 DEF CrInv

LEMMA TickStep == ASSUME CrInv, Tick PROVE CrInv'
<1>1. /\ crNow < MaxNow /\ crNow' = crNow + 1
      /\ UNCHANGED <<crMem, crJob, crData, crPath, crTmp, crGone, crKills, crWant, crBefore, crMixed>>
    BY DEF Tick, crDisk, crHist
<1>2. crNow' \in 0..MaxNow /\ crNow' >= crNow /\ crNow' \in Nat
    BY <1>1, LoopersFinite DEF CrInv, CrType, CrTypeOK
<1>3. CrType'
    BY <1>1, <1>2, CrTypeFrom DEF CrInv, CrType, CrTypeOK
<1>4. FilesApart' /\ AloneUntouched' /\ UnmixedAlone' /\ DiskCurrent'
    <2>1. \A k \in Loopers : ~ Saving(k) /\ ~ Saving(k)' /\ ~ InFlight(k)'
        BY <1>1 DEF Tick, SomeoneSaves, Saving, InFlight
    <2>2. Read' = Read
        BY <1>1 DEF Read
    <2> QED BY <1>1, <2>1, <2>2 DEF CrInv, FilesApart, AloneUntouched, UnmixedAlone, DiskCurrent, Current
<1>5. DelayIsKept'
    BY <1>1, <1>2, DelayUntouched
<1> QED BY <1>3, <1>4, <1>5 DEF CrInv

LEMMA CrInvStep == CrInv /\ [CrNext]_crVars => CrInv'
<1> SUFFICES ASSUME CrInv, [CrNext]_crVars PROVE CrInv'
    OBVIOUS
<1>1. ASSUME NEW k \in Loopers,
             RestartLooper(k) \/ SeenStable(k) \/ ForgetPod(k) \/ Snapshot(k) \/ Open(k) \/ Write(k) \/ Rename(k)
      PROVE  CrInv'
    BY <1>1, RestartLooperStep, SeenStableStep, ForgetPodStep, SnapshotStep, OpenStep, WriteStep, RenameStep
<1>2. CASE UNCHANGED crVars
    <2>1. UNCHANGED <<crNow, crMem, crJob, crData, crPath, crTmp, crGone, crKills, crWant, crBefore, crMixed>>
        BY <1>2 DEF crVars
    <2>2. CrType'
        BY <2>1, CrTypeFrom DEF CrInv, CrType, CrTypeOK
    <2>3. FilesApart' /\ AloneUntouched' /\ UnmixedAlone' /\ DiskCurrent' /\ DelayIsKept'
        BY <2>1 DEF CrInv, FilesApart, AloneUntouched, UnmixedAlone, DiskCurrent, InFlight, Current,
                    Read, Saving, DelayIsKept, Keeps, Forgiven
    <2> QED BY <2>2, <2>3 DEF CrInv
<1> QED BY <1>1, <1>2, KillStep, TickStep DEF CrNext

\* The entries, the saves and the files of crashloop.rs are well-formed: a delay
\* is from BASE to CAP.
THEOREM CrashLoopTypeCorrect == CrSpec => []CrTypeOK
<1>1. CrInv => CrTypeOK
    BY DEF CrInv, CrType
<1> QED BY <1>1, CrInvInit, CrInvStep, PTL DEF CrSpec

\* A container keeps its delay across restarts of the kubelet (#112, crashloop.rs,
\* save and persist_to), one that dies in the middle of a save included, for any
\* number of containers: what is read after overlapping saves alone is excused.
THEOREM DelayIsKeptHolds == CrSpec => []DelayIsKept
<1>1. CrInv => DelayIsKept
    BY DEF CrInv
<1> QED BY <1>1, CrInvInit, CrInvStep, PTL DEF CrSpec

-----------------------------------------------------------------------------
RecType == [st : {"none", "created", "running", "exited"}, has : SUBSET Holdings, removing : BOOLEAN]
ProcType == {"unmade", "none", "running", "stopping", "ended"}
CtAts == {"idle", "note", "retry"} \cup Making \cup Spawned \cup Letting
CtJobs == [at : CtAts, c : Cts \cup {"none"}, plan : EarlyPlans \cup LatePlans,
           rooted : BOOLEAN, batch : SUBSET (Cts \cup Strays), todo : SUBSET Cts]

LEMMA CtTypes ==
    ASSUME CtInv
    PROVE  /\ ctRec \in [Cts -> RecType] /\ ctHeld \in [Cts -> SUBSET Holdings]
           /\ ctProc \in [Cts -> ProcType] /\ ctJob \in [Callers -> CtJobs]
           /\ Cts \subseteq Callers
BY DEF CtInv, CtTypeOK, CtJobType, RecType, ProcType, CtJobs, CtAts, Callers

\* The type, from the parts that a step changes.
LEMMA CtTypeFrom ==
    ASSUME ctRec' \in [Cts -> RecType], ctHeld' \in [Cts -> SUBSET Holdings],
           ctProc' \in [Cts -> ProcType], ctJob' \in [Callers -> CtJobs],
           ctExits' \subseteq Cts \cup Strays, ctKept' \in Seq(Cts \cup Strays), Len(ctKept') <= MaxKept,
           ctDue' \subseteq Cts, ctBox' \in [Cts -> {"ready", "gone"}], ctStrays' \subseteq Strays
    PROVE  CtTypeOK' /\ CtJobType' /\ CtStraysType'
BY DEF CtTypeOK, CtJobType, CtStraysType, RecType, ProcType, CtJobs, CtAts

LEMMA CtInvInit == CtInit => CtInv
<1> SUFFICES ASSUME CtInit PROVE CtInv
    OBVIOUS
<1>1. NoJob \in CtJobs /\ NoJob.at = "idle" /\ NoJob.batch = {} /\ NoJob.todo = {} /\ NoContainer \in RecType
    BY DEF NoJob, CtJobs, CtAts, EarlyPlans, NoContainer, RecType
<1>2. CtTypeOK /\ CtJobType /\ CtStraysType
    <2>1. ctKept \in Seq(Cts \cup Strays) /\ Len(ctKept) <= MaxKept
        BY ContainersAssumption DEF CtInit
    <2>2. ctRec \in [Cts -> RecType] /\ ctJob \in [Callers -> CtJobs]
        BY <1>1 DEF CtInit
    <2> QED BY <2>1, <2>2 DEF CtInit, CtTypeOK, CtJobType, CtStraysType, RecType, CtJobs, CtAts
<1>3. OwnCall
    BY DEF CtInit, OwnCall, OwnOf, NoContainer, NoJob, Making, Spawned, Callers
<1>4. Removals
    BY <1>1 DEF CtInit, Removals, RemovalOf, Letting
<1>5. Among(ctKept) = {} /\ DOMAIN ctKept = {}
    BY DEF CtInit, Among
<1>6. NotedOnce /\ NotedEnded
    BY <1>1, <1>5 DEF CtInit, NotedOnce, NotedEnded, Noted
<1>7. ExitKept /\ ExitOnItsWay
    BY DEF CtInit, ExitKept, ExitOnItsWay
<1> QED BY <1>2, <1>3, <1>4, <1>6, <1>7 DEF CtInv, CtHeldInv, CtExitInv

\* What a step leaves that changes no exit: who looks at which stays, and nobody
\* comes to look at one that has ended.
ExitsAside ==
    /\ UNCHANGED <<ctExits, ctKept, ctStrays>>
    /\ \A d \in Callers : /\ ctJob'[d].batch = ctJob[d].batch
                          /\ ctJob'[d].at = "note" <=> ctJob[d].at = "note"
    /\ \A c \in Cts : /\ ctProc'[c] = "ended" <=> ctProc[c] = "ended"
                      /\ ctJob'[c].at = "record" /\ ctProc[c] = "ended" => ctJob[c].at = "record"
                      /\ ctRec'[c].st = "running" /\ ~ ctRec'[c].removing
                         => ctRec[c].st = "running" /\ ~ ctRec[c].removing

LEMMA ExitsAsideStep == ASSUME CtInv, ExitsAside PROVE CtExitInv'
<1> USE DEF ExitsAside, CtInv, CtExitInv
<1>1. NotedOnce'
    BY DEF NotedOnce
<1>2. \A x : Noted(x)' <=> Noted(x)
    BY DEF Noted
<1>3. NotedEnded'
    BY <1>2 DEF NotedEnded
<1>4. \A c \in Cts : EndedBeside(c)' = EndedBeside(c)
    BY DEF EndedBeside
<1>5. \A c \in Cts : OnItsWay(c)' <=> OnItsWay(c)
    BY <1>4 DEF OnItsWay
<1>6. ExitKept'
    BY <1>5 DEF ExitKept
<1>7. ExitOnItsWay'
    BY <1>5 DEF ExitOnItsWay, OnItsWay
<1> QED BY <1>1, <1>3, <1>6, <1>7

\* A step of the call a container's own Pod makes, while nobody removes it.
Call(c, r, h, p, a) ==
    /\ ~ Leaving(c) /\ OwnOf(r, h, p, a)
    /\ r \in RecType /\ h \in SUBSET Holdings /\ p \in ProcType
    /\ ctJob[c].at \notin Letting \cup {"note", "retry"} /\ a \in CtAts \ (Letting \cup {"note", "retry"})
    /\ ctRec' = [ctRec EXCEPT ![c] = r] /\ ctHeld' = [ctHeld EXCEPT ![c] = h]
    /\ ctProc' = [ctProc EXCEPT ![c] = p] /\ ctJob' = [ctJob EXCEPT ![c].at = a]
    /\ UNCHANGED <<ctExits, ctStrays, ctDue, ctBox>>

LEMMA CallEffect ==
    ASSUME CtInv, NEW c \in Cts, NEW r, NEW h, NEW p, NEW a, Call(c, r, h, p, a)
    PROVE  /\ ctRec'[c] = r /\ ctHeld'[c] = h /\ ctProc'[c] = p /\ ctJob'[c] = [ctJob[c] EXCEPT !.at = a]
           /\ \A o \in Cts \ {c} : ctRec'[o] = ctRec[o] /\ ctHeld'[o] = ctHeld[o] /\ ctProc'[o] = ctProc[o]
           /\ \A d \in Callers \ {c} : ctJob'[d] = ctJob[d]
           /\ ctJob[c] \in CtJobs /\ c \in Callers
           /\ ctRec' \in [Cts -> RecType] /\ ctHeld' \in [Cts -> SUBSET Holdings]
           /\ ctProc' \in [Cts -> ProcType] /\ ctJob' \in [Callers -> CtJobs]
<1>1. ctRec'[c] = r /\ ctHeld'[c] = h /\ ctProc'[c] = p /\ ctJob'[c] = [ctJob[c] EXCEPT !.at = a]
      /\ ctJob[c] \in CtJobs /\ c \in Callers
    BY CtTypes DEF Call
<1>2. /\ \A o \in Cts \ {c} : ctRec'[o] = ctRec[o] /\ ctHeld'[o] = ctHeld[o] /\ ctProc'[o] = ctProc[o]
      /\ \A d \in Callers \ {c} : ctJob'[d] = ctJob[d]
    BY CtTypes DEF Call
<1>3. [ctJob[c] EXCEPT !.at = a] \in CtJobs
    BY <1>1 DEF Call, CtJobs
<1>4. ctJob' \in [Callers -> CtJobs]
    BY <1>1, <1>3, CtTypes DEF Call
<1>5. ctRec' \in [Cts -> RecType] /\ ctHeld' \in [Cts -> SUBSET Holdings] /\ ctProc' \in [Cts -> ProcType]
    BY CtTypes DEF Call
<1> QED BY <1>1, <1>2, <1>4, <1>5

LEMMA CallStep ==
    ASSUME CtInv, NEW c \in Cts, NEW r, NEW h, NEW p, NEW a, Call(c, r, h, p, a)
    PROVE  CtHeldInv'
<1>1. /\ ctRec'[c] = r /\ ctHeld'[c] = h /\ ctProc'[c] = p
      /\ ctJob'[c].at = a /\ ctJob'[c].todo = ctJob[c].todo
      /\ \A o \in Cts \ {c} : ctRec'[o] = ctRec[o] /\ ctHeld'[o] = ctHeld[o] /\ ctProc'[o] = ctProc[o]
      /\ \A d \in Callers \ {c} : ctJob'[d] = ctJob[d]
      /\ c \in Callers
    <2>1. /\ ctRec'[c] = r /\ ctHeld'[c] = h /\ ctProc'[c] = p /\ ctJob'[c] = [ctJob[c] EXCEPT !.at = a]
          /\ \A o \in Cts \ {c} : ctRec'[o] = ctRec[o] /\ ctHeld'[o] = ctHeld[o] /\ ctProc'[o] = ctProc[o]
          /\ \A d \in Callers \ {c} : ctJob'[d] = ctJob[d]
          /\ ctJob[c] \in CtJobs /\ c \in Callers
        BY CallEffect
    <2>2. [ctJob[c] EXCEPT !.at = a].at = a /\ [ctJob[c] EXCEPT !.at = a].todo = ctJob[c].todo
        BY <2>1 DEF CtJobs
    <2> QED BY <2>1, <2>2
<1>2. OwnCall'
    <2>1. ASSUME NEW o \in Cts PROVE OwnOf(ctRec'[o], ctHeld'[o], ctProc'[o], ctJob'[o].at)
        <3>1. CASE o = c
            BY <1>1, <3>1 DEF Call
        <3>2. CASE o # c
            <4>1. OwnOf(ctRec[o], ctHeld[o], ctProc[o], ctJob[o].at)
                BY DEF CtInv, CtHeldInv, OwnCall
            <4> QED BY <1>1, <3>2, <4>1 DEF Callers
        <3> QED BY <3>1, <3>2
    <2> QED BY <2>1 DEF OwnCall, OwnOf
<1>3. ASSUME NEW o \in Cts, Leaving(o) PROVE o # c /\ Leaving(o)'
    BY <1>1, <1>3 DEF Call, Leaving, Known
<1>4. ASSUME NEW d \in Callers PROVE RemovalOf(d)'
    <2>1. RemovalOf(d) /\ ctJob[d].todo \subseteq Cts
        BY CtTypes DEF CtInv, CtHeldInv, Removals, CtJobs
    <2>2. \A o \in ctJob'[d].todo : Leaving(o)'
        <3>1. ctJob'[d].todo = ctJob[d].todo
            BY <1>1
        <3> QED BY <1>3, <2>1, <3>1 DEF RemovalOf
    <2>3. CASE d = c
        BY <1>1, <2>2, <2>3 DEF RemovalOf, Call
    <2>4. CASE d # c
        <3>1. ctJob'[d] = ctJob[d]
            BY <1>1, <2>4
        <3>2. PICK o : o = ctJob[d].c
            OBVIOUS
        <3>3. ASSUME ctJob[d].at \in Letting
              PROVE  o \in Cts /\ Leaving(o)' /\ ctHeld'[o] = ctHeld[o] /\ ListOf(ctJob[d], ctHeld[o])
            <4>1. o \in Cts /\ Leaving(o) /\ ListOf(ctJob[d], ctHeld[o])
                BY <2>1, <3>2, <3>3 DEF RemovalOf
            <4> QED BY <1>1, <1>3, <4>1
        <3> QED BY <2>2, <3>1, <3>2, <3>3 DEF RemovalOf, ListOf
    <2> QED BY <2>3, <2>4
<1> QED BY <1>2, <1>4 DEF CtHeldInv, Removals

\* Such a step that changes no exit.
Quiet(c, r, p, a) ==
    /\ p = "ended" <=> ctProc[c] = "ended"
    /\ a = "record" /\ ctProc[c] = "ended" => ctJob[c].at = "record"
    /\ r.st = "running" /\ ~ r.removing => ctRec[c].st = "running" /\ ~ ctRec[c].removing

LEMMA QuietCall ==
    ASSUME CtInv, NEW c \in Cts, NEW r, NEW h, NEW p, NEW a, Call(c, r, h, p, a), Quiet(c, r, p, a),
           ctKept' = ctKept
    PROVE  CtInv'
<1>1. /\ ctRec'[c] = r /\ ctHeld'[c] = h /\ ctProc'[c] = p /\ ctJob'[c] = [ctJob[c] EXCEPT !.at = a]
      /\ \A o \in Cts \ {c} : ctRec'[o] = ctRec[o] /\ ctHeld'[o] = ctHeld[o] /\ ctProc'[o] = ctProc[o]
      /\ \A d \in Callers \ {c} : ctJob'[d] = ctJob[d]
      /\ ctJob[c] \in CtJobs /\ c \in Callers
      /\ ctRec' \in [Cts -> RecType] /\ ctHeld' \in [Cts -> SUBSET Holdings]
      /\ ctProc' \in [Cts -> ProcType] /\ ctJob' \in [Callers -> CtJobs]
    BY CallEffect
<1>2. ctJob'[c].at = a /\ ctJob'[c].batch = ctJob[c].batch
    BY <1>1 DEF CtJobs
<1>3. CtTypeOK' /\ CtJobType' /\ CtStraysType'
    BY <1>1, CtTypeFrom DEF Call, CtInv, CtTypeOK, CtStraysType
<1>4. \A d \in Callers : /\ ctJob'[d].batch = ctJob[d].batch
                         /\ ctJob'[d].at = "note" <=> ctJob[d].at = "note"
    BY <1>1, <1>2 DEF Call
<1>5. ASSUME NEW o \in Cts
      PROVE  /\ ctProc'[o] = "ended" <=> ctProc[o] = "ended"
             /\ ctJob'[o].at = "record" /\ ctProc[o] = "ended" => ctJob[o].at = "record"
             /\ ctRec'[o].st = "running" /\ ~ ctRec'[o].removing
                => ctRec[o].st = "running" /\ ~ ctRec[o].removing
    BY <1>1, <1>2 DEF Quiet, Callers
<1>6. ExitsAside
    BY <1>4, <1>5 DEF ExitsAside, Call
<1> QED BY <1>3, <1>6, CallStep, ExitsAsideStep DEF CtInv

\* What is known of a container.
LEMMA CtOf ==
    ASSUME CtInv, NEW c \in Cts
    PROVE  /\ OwnOf(ctRec[c], ctHeld[c], ctProc[c], ctJob[c].at)
           /\ ctRec[c] \in RecType /\ ctHeld[c] \in SUBSET Holdings /\ ctProc[c] \in ProcType
           /\ ctRec = [ctRec EXCEPT ![c] = ctRec[c]] /\ ctHeld = [ctHeld EXCEPT ![c] = ctHeld[c]]
           /\ ctProc = [ctProc EXCEPT ![c] = ctProc[c]] /\ ctJob = [ctJob EXCEPT ![c].at = ctJob[c].at]
           /\ ctJob[c] \in CtJobs /\ c \in Callers
           /\ RemovalOf(c)
<1>1. OwnOf(ctRec[c], ctHeld[c], ctProc[c], ctJob[c].at) /\ RemovalOf(c)
    BY CtTypes DEF CtInv, CtHeldInv, OwnCall, Removals
<1>2. ctJob[c] \in CtJobs /\ c \in Callers
    BY CtTypes
<1>3. ctJob = [ctJob EXCEPT ![c].at = ctJob[c].at]
    <2>1. [ctJob[c] EXCEPT !.at = ctJob[c].at] = ctJob[c]
        BY <1>2 DEF CtJobs
    <2> QED BY <1>2, <2>1, CtTypes
<1> QED BY <1>1, <1>2, <1>3, CtTypes

\* create_container, while there is no record.
LEMMA MakingSteps ==
    ASSUME CtInv, NEW c \in Cts,
           Create(c) \/ Mount(c) \/ Define(c) \/ DiscardRoot(c) \/ DiscardClone(c)
    PROVE  CtInv'
<1> USE DEF Idle, Goto, exitVars, engineVars
<1> DEFINE at == ctJob[c].at
           none == ctRec[c]
<1>1. /\ OwnOf(ctRec[c], ctHeld[c], ctProc[c], at) /\ ctRec[c] \in RecType
      /\ ctHeld[c] \in SUBSET Holdings /\ ctProc[c] \in ProcType
      /\ ctRec = [ctRec EXCEPT ![c] = ctRec[c]] /\ ctHeld = [ctHeld EXCEPT ![c] = ctHeld[c]]
      /\ ctProc = [ctProc EXCEPT ![c] = ctProc[c]]
    BY CtOf
<1>2. ctProc[c] = "unmade" /\ ctRec[c] = NoContainer /\ ~ Leaving(c)
    <2>1. ctProc[c] = "unmade"
        BY <1>1 DEF Create, Mount, Define, DiscardRoot, DiscardClone, OwnOf, Making
    <2> QED BY <1>1, <2>1 DEF OwnOf, Leaving
<1>3. ASSUME NEW h \in SUBSET Holdings, NEW a \in {"idle", "mount", "define", "discard", "drop clone"},
             at \notin Letting \cup {"note", "retry"},
             ctRec' = ctRec, ctProc' = ctProc, ctHeld' = [ctHeld EXCEPT ![c] = h],
             ctJob' = [ctJob EXCEPT ![c].at = a],
             UNCHANGED <<ctExits, ctKept, ctStrays, ctDue, ctBox>>,
             a = "mount" => h = {"clone"}, a = "define" => h = {"clone", "root"}
      PROVE  CtInv'
    <2>1. OwnOf(NoContainer, h, "unmade", a)
        BY <1>3 DEF OwnOf, NoContainer, Making, Spawned
    <2>2. Call(c, NoContainer, h, "unmade", a)
        BY <1>1, <1>2, <1>3, <2>1 DEF Call, CtAts, Making, Letting, ProcType
    <2>3. Quiet(c, NoContainer, "unmade", a)
        BY <1>2, <1>3 DEF Quiet, NoContainer
    <2> QED BY <1>3, <2>2, <2>3, QuietCall
<1>4. CASE Create(c)
    <2>1. /\ at = "idle" /\ ctRec' = ctRec /\ ctProc' = ctProc /\ ctHeld' = [ctHeld EXCEPT ![c] = {"clone"}]
          /\ ctJob' = [ctJob EXCEPT ![c].at = "mount"] /\ UNCHANGED <<ctExits, ctKept, ctStrays, ctDue, ctBox>>
        BY <1>4 DEF Create
    <2>2. {"clone"} \in SUBSET Holdings
        BY DEF Holdings
    <2> QED BY <1>3, <2>1, <2>2 DEF Letting
<1>5. CASE Mount(c)
    <2>1. /\ at = "mount" /\ ctRec' = ctRec /\ ctProc' = ctProc /\ UNCHANGED <<ctExits, ctKept, ctStrays, ctDue, ctBox>>
          /\ ctHeld[c] = {"clone"}
        BY <1>1, <1>5 DEF Mount, OwnOf
    <2>2. CASE ctHeld' = [ctHeld EXCEPT ![c] = @ \cup {"root"}] /\ Goto(c, "define")
        <3>1. ctHeld' = [ctHeld EXCEPT ![c] = {"clone", "root"}] /\ {"clone", "root"} \in SUBSET Holdings
            BY <2>1, <2>2 DEF Holdings
        <3> QED BY <1>3, <2>1, <2>2, <3>1 DEF Letting
    <2>3. CASE ctHeld' = [ctHeld EXCEPT ![c] = {}] /\ Goto(c, "idle")
        BY <1>3, <2>1, <2>3 DEF Letting
    <2> QED BY <1>5, <2>2, <2>3 DEF Mount
<1>6. CASE Define(c)
    <2>1. /\ at = "define" /\ UNCHANGED <<ctHeld, ctExits, ctKept, ctStrays, ctDue, ctBox>>
          /\ ctHeld[c] = {"clone", "root"}
        BY <1>1, <1>6 DEF Define, OwnOf
    <2>2. CASE Goto(c, "discard") /\ UNCHANGED <<ctRec, ctProc>>
        BY <1>1, <1>3, <2>1, <2>2 DEF Letting
    <2>3. CASE /\ ctRec' = [ctRec EXCEPT ![c] = [st |-> "created", has |-> {"root", "clone"}, removing |-> FALSE]]
               /\ ctProc' = [ctProc EXCEPT ![c] = "none"] /\ Goto(c, "idle")
        <3> DEFINE made == [st |-> "created", has |-> {"root", "clone"}, removing |-> FALSE]
        <3>1. made \in RecType /\ {"clone", "root"} \in SUBSET Holdings
            BY DEF RecType, Holdings
        <3>2. OwnOf(made, {"clone", "root"}, "none", "idle")
            BY DEF OwnOf, Making, Spawned
        <3>3. Call(c, made, {"clone", "root"}, "none", "idle")
            BY <1>1, <1>2, <2>1, <2>3, <3>1, <3>2 DEF Call, CtAts, Letting, ProcType
        <3>4. Quiet(c, made, "none", "idle")
            BY <1>2 DEF Quiet
        <3> QED BY <2>1, <3>3, <3>4, QuietCall
    <2> QED BY <1>6, <2>2, <2>3 DEF Define
<1>7. CASE DiscardRoot(c)
    <2>1. /\ at = "discard" /\ ctRec' = ctRec /\ ctProc' = ctProc /\ Goto(c, "drop clone")
          /\ UNCHANGED <<ctExits, ctKept, ctStrays, ctDue, ctBox>>
        BY <1>7 DEF DiscardRoot
    <2>2. PICK h \in SUBSET Holdings : ctHeld' = [ctHeld EXCEPT ![c] = h]
        <3>1. ctHeld[c] \ {"root"} \in SUBSET Holdings
            BY <1>1
        <3> QED BY <1>1, <1>7, <3>1 DEF DiscardRoot
    <2> QED BY <1>3, <2>1, <2>2 DEF Letting
<1>8. CASE DiscardClone(c)
    <2>1. /\ at = "drop clone" /\ ctRec' = ctRec /\ ctProc' = ctProc /\ Goto(c, "idle")
          /\ UNCHANGED <<ctExits, ctKept, ctStrays, ctDue, ctBox>>
          /\ ctHeld' = [ctHeld EXCEPT ![c] = ctHeld[c] \ {"clone"}]
        BY <1>8 DEF DiscardClone
    <2>2. ctHeld[c] \ {"clone"} \in SUBSET Holdings
        BY <1>1
    <2> QED BY <1>3, <2>1, <2>2 DEF Letting
<1> QED BY <1>4, <1>5, <1>6, <1>7, <1>8

\* start_container up to its record, and stop_container.
LEMMA SpawnSteps ==
    ASSUME CtInv, NEW c \in Cts, Spawn(c) \/ SpawnFailed(c) \/ Stop(c)
    PROVE  CtInv'
<1> USE DEF Idle, Goto, exitVars, engineVars
<1> DEFINE at == ctJob[c].at
<1>1. /\ OwnOf(ctRec[c], ctHeld[c], ctProc[c], at) /\ ctRec[c] \in RecType
      /\ ctHeld[c] \in SUBSET Holdings /\ ctProc[c] \in ProcType
      /\ ctRec = [ctRec EXCEPT ![c] = ctRec[c]] /\ ctHeld = [ctHeld EXCEPT ![c] = ctHeld[c]]
      /\ ctProc = [ctProc EXCEPT ![c] = ctProc[c]] /\ ctJob = [ctJob EXCEPT ![c].at = at]
    BY CtOf
<1>2. CASE Spawn(c)
    <2>1. /\ at = "idle" /\ ctRec[c].st = "created" /\ ~ ctRec[c].removing /\ ctProc[c] = "none"
          /\ UNCHANGED <<ctRec, ctExits, ctKept, ctStrays, ctDue, ctBox>>
        BY <1>2 DEF Spawn
    <2>2. PICK h \in SUBSET Holdings, p \in {"none", "running"}, a \in {"record", "failed"} :
            /\ ctHeld' = [ctHeld EXCEPT ![c] = h] /\ ctProc' = [ctProc EXCEPT ![c] = p]
            /\ ctJob' = [ctJob EXCEPT ![c].at = a]
            /\ h = ctHeld[c] \cup (IF a = "record" THEN {"mounts", "work"} ELSE {"mounts"})
            /\ p = "running" <=> a = "record"
        <3>1. ctHeld[c] \cup {"mounts", "work"} \in SUBSET Holdings /\ ctHeld[c] \cup {"mounts"} \in SUBSET Holdings
            BY <1>1 DEF Holdings
        <3> QED BY <1>1, <1>2, <2>1, <3>1 DEF Spawn
    <2>3. "work" \notin ctRec[c].has
        BY <1>1, <2>1 DEF OwnOf
    <2>4. OwnOf(ctRec[c], h, p, a)
        BY <1>1, <2>1, <2>2, <2>3 DEF OwnOf, Making, Spawned
    <2>5. Call(c, ctRec[c], h, p, a)
        BY <1>1, <2>1, <2>2, <2>4 DEF Call, CtAts, Letting, Spawned, ProcType, Leaving, Known
    <2>6. Quiet(c, ctRec[c], p, a)
        BY <2>1, <2>2 DEF Quiet
    <2> QED BY <2>1, <2>5, <2>6, QuietCall
<1>3. CASE SpawnFailed(c)
    <2> DEFINE r == [ctRec[c] EXCEPT !.has = @ \cup {"mounts"}]
    <2>1. /\ at = "failed" /\ ctRec' = [ctRec EXCEPT ![c] = r] /\ ctJob' = [ctJob EXCEPT ![c].at = "idle"]
          /\ UNCHANGED <<ctHeld, ctProc, ctExits, ctKept, ctStrays, ctDue, ctBox>>
        BY <1>3 DEF SpawnFailed
    <2>2. /\ r \in RecType /\ r.st = "created" /\ ~ r.removing /\ r.has = ctRec[c].has \cup {"mounts"}
          /\ ctRec[c].st = "created" /\ ~ ctRec[c].removing
        BY <1>1, <2>1 DEF RecType, Holdings, OwnOf, Spawned
    <2> HIDE DEF r
    <2>3. OwnOf(r, ctHeld[c], ctProc[c], "idle")
        BY <1>1, <2>1, <2>2 DEF OwnOf, Making, Spawned
    <2>4. Call(c, r, ctHeld[c], ctProc[c], "idle")
        BY <1>1, <2>1, <2>2, <2>3 DEF Call, CtAts, Letting, Leaving, Known, OwnOf
    <2>5. Quiet(c, r, ctProc[c], "idle")
        BY <2>2 DEF Quiet
    <2> QED BY <2>1, <2>4, <2>5, QuietCall
<1>4. CASE Stop(c)
    <2>1. /\ at = "idle" /\ ctRec[c].st # "none" /\ ~ ctRec[c].removing
          /\ UNCHANGED <<ctHeld, ctExits, ctKept, ctStrays, ctDue, ctBox, ctJob>>
        BY <1>4 DEF Stop, Known
    <2>2. CASE UNCHANGED <<ctRec, ctProc>>
        <3>1. Call(c, ctRec[c], ctHeld[c], ctProc[c], at)
            BY <1>1, <2>1, <2>2 DEF Call, CtAts, Letting, Leaving, Known
        <3>2. Quiet(c, ctRec[c], ctProc[c], at)
            BY <2>1 DEF Quiet
        <3> QED BY <2>1, <3>1, <3>2, QuietCall
    <2>3. CASE /\ ctRec' = [ctRec EXCEPT ![c].st = "exited"]
               /\ ctProc' = [ctProc EXCEPT ![c] = IF @ = "running" /\ ctRec[c].st = "running"
                                                  THEN "stopping" ELSE @]
        <3> DEFINE r == [ctRec[c] EXCEPT !.st = "exited"]
        <3>1. PICK p \in {"stopping", ctProc[c]} :
                ctProc' = [ctProc EXCEPT ![c] = p] /\ (p = "stopping" => ctProc[c] \in {"running", "stopping"})
            BY <1>1, <2>3
        <3>2. /\ r \in RecType /\ r.st = "exited" /\ ~ r.removing /\ r.has = ctRec[c].has
              /\ ctRec' = [ctRec EXCEPT ![c] = r]
            BY <1>1, <2>1, <2>3 DEF RecType
        <3> HIDE DEF r
        <3>3. OwnOf(r, ctHeld[c], p, at)
            BY <1>1, <2>1, <3>1, <3>2 DEF OwnOf, Making, Spawned
        <3>4. Call(c, r, ctHeld[c], p, at)
            BY <1>1, <2>1, <3>1, <3>2, <3>3 DEF Call, CtAts, Letting, Leaving, Known, ProcType
        <3>5. Quiet(c, r, p, at)
            BY <2>1, <3>1, <3>2 DEF Quiet
        <3> QED BY <2>1, <3>4, <3>5, QuietCall
    <2> QED BY <1>4, <2>2, <2>3 DEF Stop
<1> QED BY <1>2, <1>3, <1>4

-----------------------------------------------------------------------------
(* The lists of what a removal has still to let go. *)

LEMMA AmongOf ==
    /\ Among(<<>>) = {}
    /\ \A x : Among(<<x>>) = {x}
    /\ \A x, y : Among(<<x, y>>) = {x, y}
<1>1. Among(<<>>) = {}
    BY DEF Among
<1>2. ASSUME NEW x PROVE Among(<<x>>) = {x}
    <2>1. DOMAIN <<x>> = {1} /\ <<x>>[1] = x
        OBVIOUS
    <2> QED BY <2>1 DEF Among
<1>3. ASSUME NEW x, NEW y PROVE Among(<<x, y>>) = {x, y}
    <2>1. DOMAIN <<x, y>> = {1, 2} /\ <<x, y>>[1] = x /\ <<x, y>>[2] = y
        OBVIOUS
    <2> QED BY <2>1 DEF Among
<1> QED BY <1>1, <1>2, <1>3

LEMMA PlanMade ==
    ASSUME NEW c \in Cts, NEW g \in Holdings, NEW h \in Holdings
    PROVE  /\ PlanOf(c, g, h) \in {<<>>, <<g>>, <<h>>, <<g, h>>}
           /\ Among(PlanOf(c, g, h)) = ctRec[c].has \cap {g, h}
<1>1. CASE g \in ctRec[c].has /\ h \in ctRec[c].has
    <2>1. IfHeld(c, g) = <<g>> /\ IfHeld(c, h) = <<h>>
        BY <1>1 DEF IfHeld
    <2>2. <<g>> \o <<h>> = <<g, h>>
        <3> DEFINE s == <<g>> \o <<h>>
                   t == <<g, h>>
        <3>1. <<g>> \in Seq(Holdings) /\ <<h>> \in Seq(Holdings) /\ Len(<<g>>) = 1 /\ Len(<<h>>) = 1
              /\ <<g>>[1] = g /\ <<h>>[1] = h
            OBVIOUS
        <3>2. t \in Seq(Holdings) /\ Len(t) = 2 /\ t[1] = g /\ t[2] = h
            OBVIOUS
        <3>3. s \in Seq(Holdings) /\ Len(s) = 2 /\ s[1] = g /\ s[2] = h
            <4>1. /\ s \in Seq(Holdings) /\ Len(s) = 1 + 1
                  /\ \A i \in 1 .. 1 + 1 : s[i] = IF i <= 1 THEN <<g>>[i] ELSE <<h>>[i - 1]
                BY <3>1, ConcatProperties
            <4>2. 1 \in 1 .. 1 + 1 /\ 2 \in 1 .. 1 + 1 /\ 1 + 1 = 2 /\ 2 - 1 = 1 /\ 1 <= 1 /\ ~ (2 <= 1)
                OBVIOUS
            <4> QED BY <3>1, <4>1, <4>2
        <3> HIDE DEF s, t
        <3>4. \A i \in 1 .. Len(s) : s[i] = t[i]
            <4>1. 1 .. Len(s) = {1, 2}
                BY <3>3
            <4> QED BY <3>2, <3>3, <4>1
        <3>5. s = t
            BY <3>2, <3>3, <3>4, SeqEqual
        <3> QED BY <3>5 DEF s, t
    <2>3. PlanOf(c, g, h) = <<g, h>>
        BY <2>1, <2>2 DEF PlanOf
    <2> QED BY <1>1, <2>3, AmongOf
<1>2. CASE g \in ctRec[c].has /\ h \notin ctRec[c].has
    <2>1. PlanOf(c, g, h) = <<g>>
        BY <1>2 DEF PlanOf, IfHeld
    <2> QED BY <1>2, <2>1, AmongOf
<1>3. CASE g \notin ctRec[c].has /\ h \in ctRec[c].has
    <2>1. PlanOf(c, g, h) = <<h>>
        BY <1>3 DEF PlanOf, IfHeld
    <2> QED BY <1>3, <2>1, AmongOf
<1>4. CASE g \notin ctRec[c].has /\ h \notin ctRec[c].has
    <2>1. PlanOf(c, g, h) = <<>>
        BY <1>4 DEF PlanOf, IfHeld
    <2> QED BY <1>4, <2>1, AmongOf
<1> QED BY <1>1, <1>2, <1>3, <1>4

LEMMA PlanTaken ==
    ASSUME NEW s \in EarlyPlans \cup LatePlans, s # <<>>
    PROVE  /\ Among(s) = {Head(s)} \cup Among(Tail(s)) /\ Head(s) \in Holdings
           /\ s \in EarlyPlans => Tail(s) \in EarlyPlans /\ Head(s) \in {"work", "mounts"}
           /\ s \in LatePlans => Tail(s) \in LatePlans /\ Head(s) \in {"root", "clone"}
           /\ Head(s) = "clone" => Among(s) = {"clone"}
<1>1. ASSUME NEW x, s = <<x>> PROVE Head(s) = x /\ Tail(s) = <<>> /\ Among(s) = {x} /\ Among(Tail(s)) = {}
    BY <1>1, AmongOf
<1>2. ASSUME NEW x, NEW y, s = <<x, y>>
      PROVE  Head(s) = x /\ Tail(s) = <<y>> /\ Among(s) = {x, y} /\ Among(Tail(s)) = {y}
    BY <1>2, AmongOf
<1>3. CASE s = <<"work">> \/ s = <<"mounts">> \/ s = <<"root">> \/ s = <<"clone">>
    <2>1. PICK x \in Holdings : s = <<x>>
        BY <1>3 DEF Holdings
    <2>2. Head(s) = x /\ Tail(s) = <<>> /\ Among(s) = {x} /\ Among(Tail(s)) = {}
        BY <1>1, <2>1
    <2>3. (s \in EarlyPlans => x \in {"work", "mounts"}) /\ (s \in LatePlans => x \in {"root", "clone"})
        BY <2>1 DEF EarlyPlans, LatePlans, Holdings
    <2> QED BY <2>2, <2>3 DEF EarlyPlans, LatePlans
<1>4. CASE s = <<"work", "mounts">>
    <2>1. Head(s) = "work" /\ Tail(s) = <<"mounts">> /\ Among(s) = {"work", "mounts"} /\ Among(Tail(s)) = {"mounts"}
        BY <1>2, <1>4
    <2>2. s \notin LatePlans
        BY <1>4 DEF LatePlans
    <2> QED BY <2>1, <2>2 DEF EarlyPlans, Holdings
<1>5. CASE s = <<"root", "clone">>
    <2>1. Head(s) = "root" /\ Tail(s) = <<"clone">> /\ Among(s) = {"root", "clone"} /\ Among(Tail(s)) = {"clone"}
        BY <1>2, <1>5
    <2>2. s \notin EarlyPlans
        BY <1>5 DEF EarlyPlans
    <2> QED BY <2>1, <2>2 DEF LatePlans, Holdings
<1> QED BY <1>3, <1>4, <1>5 DEF EarlyPlans, LatePlans

-----------------------------------------------------------------------------
(* A step of a removal: d's job becomes j, and of c the record r and h is held. *)

Remove(d, c, r, h, j) ==
    /\ ctProc[c] # "unmade" /\ ctJob[c].at \notin Making \cup Spawned
    /\ (r.removing \/ r.st = "none") /\ OwnOf(r, h, ctProc[c], "idle")
    /\ r \in RecType /\ h \subseteq ctHeld[c]
    /\ ctJob[d].at \in {"idle", "retry"} \cup Letting
    /\ j \in CtJobs /\ j.at \in {"idle", "retry"} \cup Letting /\ j.batch = {}
    /\ \A o \in j.todo : Leaving(o)
    /\ j.at \in Letting => j.c = c /\ ListOf(j, h)
    /\ ctRec' = [ctRec EXCEPT ![c] = r] /\ ctHeld' = [ctHeld EXCEPT ![c] = h]
    /\ ctJob' = [ctJob EXCEPT ![d] = j]
    /\ ctDue' \subseteq Cts /\ UNCHANGED <<ctProc, ctExits, ctKept, ctStrays, ctBox>>

\* What is held only shrinks, so every other removal's list stays long enough.
LEMMA ListShrinks ==
    ASSUME NEW j, NEW g, NEW h, h \subseteq g, ListOf(j, g) PROVE ListOf(j, h)
BY DEF ListOf

\* The Pod of a container that is removed is past its start.
LEMMA LeavingCalls ==
    ASSUME CtInv, NEW c \in Cts, Leaving(c)
    PROVE  /\ ctJob[c].at \notin Making \cup Spawned
           /\ OwnOf(ctRec[c], ctHeld[c], ctProc[c], "idle")
           /\ ctProc[c] # "unmade" /\ (ctRec[c].removing \/ ctRec[c].st = "none")
<1>1. OwnOf(ctRec[c], ctHeld[c], ctProc[c], ctJob[c].at) /\ ctProc[c] # "unmade"
      /\ (ctRec[c].removing \/ ctRec[c].st = "none")
    BY CtOf DEF Leaving, Known
<1>2. ctJob[c].at \notin Making \cup Spawned
    BY <1>1 DEF OwnOf
<1> QED BY <1>1, <1>2 DEF OwnOf, Making, Spawned

LEMMA RemoveStep ==
    ASSUME CtInv, NEW d \in Callers, NEW c \in Cts, NEW r, NEW h, NEW j, Remove(d, c, r, h, j)
    PROVE  CtInv'
<1>1. /\ ctRec'[c] = r /\ ctHeld'[c] = h /\ ctJob'[d] = j
      /\ \A o \in Cts \ {c} : ctRec'[o] = ctRec[o] /\ ctHeld'[o] = ctHeld[o]
      /\ \A e \in Callers \ {d} : ctJob'[e] = ctJob[e]
      /\ ctProc' = ctProc
    BY CtTypes DEF Remove
<1>2. CtTypeOK' /\ CtJobType' /\ CtStraysType'
    <2>1. ctHeld[c] \subseteq Holdings /\ h \subseteq ctHeld[c]
        BY CtTypes DEF Remove
    <2>2. ctRec' \in [Cts -> RecType] /\ ctHeld' \in [Cts -> SUBSET Holdings]
        BY <2>1, CtTypes DEF Remove
    <2>3. ctJob' \in [Callers -> CtJobs] /\ ctProc' \in [Cts -> ProcType]
        BY CtTypes DEF Remove
    <2> QED BY <2>2, <2>3, CtTypeFrom DEF Remove, CtInv, CtTypeOK, CtStraysType
<1>3. ASSUME NEW o \in Cts, Leaving(o) PROVE Leaving(o)'
    BY <1>1, <1>3 DEF Remove, Leaving, Known
<1>4. OwnCall'
    <2>1. ASSUME NEW o \in Cts PROVE OwnOf(ctRec'[o], ctHeld'[o], ctProc'[o], ctJob'[o].at)
        <3>1. o \in Callers /\ OwnOf(ctRec[o], ctHeld[o], ctProc[o], ctJob[o].at)
            BY CtOf
        <3>2. PICK a : a = ctJob'[o].at
            OBVIOUS
        <3>3. a \in {"idle", "retry"} \cup Letting \/ a = ctJob[o].at
            BY <1>1, <3>1, <3>2 DEF Remove
        <3>4. CASE o = c
            <4>1. a \notin Making \cup Spawned
                BY <3>3, <3>4 DEF Remove, Making, Spawned, Letting
            <4>2. OwnOf(r, h, ctProc[c], "idle")
                BY DEF Remove
            <4>3. OwnOf(r, h, ctProc[c], a)
                BY <4>1, <4>2 DEF OwnOf, Making, Spawned
            <4> QED BY <1>1, <3>2, <3>4, <4>3
        <3>5. CASE o # c
            <4>1. OwnOf(ctRec[o], ctHeld[o], ctProc[o], a)
                <5>1. CASE a = ctJob[o].at
                    BY <3>1, <5>1
                <5>2. CASE o = d /\ a \in {"idle", "retry"} \cup Letting
                    <6>1. ctJob[o].at \in {"idle", "retry"} \cup Letting
                        BY <5>2 DEF Remove
                    <6> QED BY <3>1, <5>2, <6>1 DEF OwnOf, Making, Spawned, Letting
                <5>3. CASE o # d
                    BY <1>1, <3>1, <3>2, <5>3
                <5> QED BY <3>3, <5>1, <5>2, <5>3
            <4> QED BY <1>1, <3>2, <3>5, <4>1
        <3> QED BY <3>4, <3>5
    <2> QED BY <2>1 DEF OwnCall, OwnOf
<1>5. ASSUME NEW e \in Callers PROVE RemovalOf(e)'
    <2>1. RemovalOf(e) /\ ctJob[e].todo \subseteq Cts /\ j.todo \subseteq Cts
        BY CtTypes DEF CtInv, CtHeldInv, Removals, CtJobs, Remove
    <2>2. CASE e = d
        <3>1. \A o \in j.todo : Leaving(o)'
            BY <1>3, <2>1 DEF Remove
        <3>2. Leaving(c)' /\ (j.at \in Letting => j.c = c /\ ListOf(j, h))
            BY <1>1 DEF Remove, Leaving, Known
        <3> QED BY <1>1, <2>2, <3>1, <3>2 DEF RemovalOf, ListOf
    <2>3. CASE e # d
        <3>1. ctJob'[e] = ctJob[e] /\ \A o \in ctJob[e].todo : Leaving(o)'
            BY <1>1, <1>3, <2>1, <2>3 DEF RemovalOf
        <3>2. PICK o : o = ctJob[e].c
            OBVIOUS
        <3>3. ASSUME ctJob[e].at \in Letting
              PROVE  o \in Cts /\ Leaving(o)' /\ ListOf(ctJob[e], ctHeld'[o])
            <4>1. o \in Cts /\ Leaving(o) /\ ListOf(ctJob[e], ctHeld[o])
                BY <2>1, <3>2, <3>3 DEF RemovalOf
            <4>2. ctHeld'[o] \subseteq ctHeld[o]
                BY <1>1, <4>1 DEF Remove
            <4>3. ListOf(ctJob[e], ctHeld'[o])
                BY <4>1, <4>2, ListShrinks
            <4> QED BY <1>3, <4>1, <4>3
        <3> QED BY <3>1, <3>2, <3>3 DEF RemovalOf, ListOf
    <2> QED BY <2>2, <2>3
<1>6. ExitsAside
    <2>1. ASSUME NEW e \in Callers
          PROVE  ctJob'[e].batch = ctJob[e].batch /\ (ctJob'[e].at = "note" <=> ctJob[e].at = "note")
        <3>1. ctJob[d].batch = {} /\ ctJob[d].at # "note" /\ j.batch = {} /\ j.at # "note"
            BY DEF Remove, Letting, CtInv, CtExitInv, NotedOnce
        <3> QED BY <1>1, <3>1
    <2>2. ASSUME NEW o \in Cts
          PROVE  /\ ctJob'[o].at = "record" => ctJob[o].at = "record"
                 /\ ctRec'[o].st = "running" /\ ~ ctRec'[o].removing
                    => ctRec[o].st = "running" /\ ~ ctRec[o].removing
        <3>1. o \in Callers /\ j.at # "record"
            BY DEF Callers, Remove, Letting
        <3>2. r.removing \/ r.st = "none"
            BY DEF Remove
        <3> QED BY <1>1, <3>1, <3>2
    <2> QED BY <1>1, <2>1, <2>2 DEF ExitsAside, Remove
<1> QED BY <1>2, <1>4, <1>5, <1>6, ExitsAsideStep DEF CtInv, CtHeldInv, Removals

\* The removal is over: the rest of the list, if there is one.
LEMMA NextJob ==
    ASSUME NEW rest \in SUBSET Cts
    PROVE  /\ Next_(rest) \in CtJobs /\ Next_(rest).at \in {"idle", "retry"}
           /\ Next_(rest).batch = {} /\ Next_(rest).todo = rest
<1>1. PICK a \in {"idle", "retry"} : a = IF rest = {} THEN "idle" ELSE "retry"
    OBVIOUS
<1>2. Next_(rest) = [NoJob EXCEPT !.todo = rest, !.at = a]
    BY <1>1 DEF Next_
<1>3. NoJob \in CtJobs /\ NoJob.batch = {}
    BY DEF NoJob, CtJobs, CtAts, EarlyPlans
<1>4. /\ Next_(rest).todo = rest /\ Next_(rest).at = a /\ Next_(rest).batch = NoJob.batch
      /\ Next_(rest) \in CtJobs
    BY <1>1, <1>2, <1>3 DEF CtJobs, CtAts
<1> QED BY <1>1, <1>3, <1>4

\* A removal begins, for a container on the list or for one its own Pod removes.
LEMMA BeginStep ==
    ASSUME CtInv, NEW d \in Callers, NEW c \in Cts, NEW rest \in SUBSET Cts,
           \A o \in rest : Leaving(o), ctJob[d].at \in {"idle", "retry"},
           ctProc[c] # "unmade", ctJob[c].at \notin Making \cup Spawned, Begin(d, c, rest)
    PROVE  CtInv'
<1> USE DEF exitVars, engineVars
<1>1. /\ OwnOf(ctRec[c], ctHeld[c], ctProc[c], "idle") /\ ctRec[c] \in RecType
      /\ ctHeld = [ctHeld EXCEPT ![c] = ctHeld[c]]
    <2>1. OwnOf(ctRec[c], ctHeld[c], ctProc[c], ctJob[c].at) /\ ctRec[c] \in RecType
          /\ ctHeld = [ctHeld EXCEPT ![c] = ctHeld[c]]
        BY CtOf
    <2> QED BY <2>1 DEF OwnOf, Making, Spawned
<1>2. ctDue' \subseteq Cts /\ UNCHANGED <<ctHeld, ctProc, ctExits, ctKept, ctStrays, ctBox>>
    BY DEF Begin, CtInv, CtTypeOK
<1>3. PICK r : r = [ctRec[c] EXCEPT !.removing = Known(c)]
    OBVIOUS
<1>4. /\ r \in RecType /\ r.st = ctRec[c].st /\ r.has = ctRec[c].has /\ (r.removing <=> Known(c))
      /\ ctRec' = [ctRec EXCEPT ![c] = r]
    <2>1. PICK b \in BOOLEAN : b = Known(c)
        BY DEF Known
    <2>2. r = [ctRec[c] EXCEPT !.removing = b]
        BY <1>3, <2>1, Zenon
    <2>3. r \in RecType /\ r.st = ctRec[c].st /\ r.has = ctRec[c].has /\ r.removing = b
        BY <1>1, <2>2 DEF RecType
    <2>4. ctRec' = [ctRec EXCEPT ![c] = r]
        BY <1>3 DEF Begin
    <2> QED BY <2>1, <2>3, <2>4
<1>5. OwnOf(r, ctHeld[c], ctProc[c], "idle")
    <2>1. CASE Known(c)
        <3>1. r.removing /\ r.st # "none" /\ r.st = ctRec[c].st /\ r.has = ctRec[c].has
            BY <1>4, <2>1 DEF Known
        <3> QED BY <1>1, <3>1 DEF OwnOf, Making, Spawned
    <2>2. CASE ~ Known(c)
        <3>1. ctRec[c] = NoContainer /\ ~ r.removing
            BY <1>1, <1>4, <2>2 DEF OwnOf, Known
        <3>2. r = NoContainer
            BY <1>4, <3>1 DEF RecType, NoContainer
        <3> QED BY <1>1, <3>1, <3>2
    <2> QED BY <2>1, <2>2
<1>6. CASE Known(c)
    <2> DEFINE plan == PlanOf(c, "work", "mounts")
               j == [NoJob EXCEPT !.at = "release", !.c = c, !.todo = rest, !.plan = plan]
    <2>1. ctJob' = [ctJob EXCEPT ![d] = j]
        BY <1>6 DEF Begin
    <2>2. plan \in EarlyPlans /\ Among(plan) = ctRec[c].has \cap {"work", "mounts"}
        BY PlanMade DEF EarlyPlans, Holdings
    <2>3. j \in CtJobs /\ j.at = "release" /\ j.batch = {} /\ j.todo = rest /\ j.c = c
          /\ ~ j.rooted /\ j.plan = plan
        <3>1. NoJob \in CtJobs /\ NoJob.batch = {} /\ NoJob.rooted = FALSE
            BY DEF NoJob, CtJobs, CtAts, EarlyPlans
        <3> HIDE DEF plan
        <3>2. /\ j.at = "release" /\ j.batch = NoJob.batch /\ j.todo = rest /\ j.c = c
              /\ j.rooted = NoJob.rooted /\ j.plan = plan /\ j \in CtJobs
            BY <2>2, <3>1 DEF CtJobs, CtAts, Letting
        <3> QED BY <3>1, <3>2
    <2> HIDE DEF j
    <2>4. ctHeld[c] \subseteq ctRec[c].has
        BY <1>1 DEF OwnOf, Spawned
    <2>5. ListOf(j, ctHeld[c])
        BY <2>2, <2>3, <2>4 DEF ListOf
    <2>6. Remove(d, c, r, ctHeld[c], j)
        BY <1>1, <1>2, <1>4, <1>5, <1>6, <2>1, <2>3, <2>5 DEF Remove, Letting
    <2> QED BY <2>6, RemoveStep
<1>7. CASE ~ Known(c)
    <2>1. ctJob' = [ctJob EXCEPT ![d] = Next_(rest)]
        BY <1>7 DEF Begin
    <2>2. r.removing \/ r.st = "none"
        BY <1>4, <1>7 DEF Known
    <2>3. PICK j : j = Next_(rest)
        OBVIOUS
    <2>4. j \in CtJobs /\ j.at \in {"idle", "retry"} /\ j.batch = {} /\ j.todo = rest
        BY <2>3, NextJob
    <2>5. Remove(d, c, r, ctHeld[c], j)
        BY <1>1, <1>2, <1>4, <1>5, <2>1, <2>2, <2>3, <2>4 DEF Remove, Letting
    <2> QED BY <2>5, RemoveStep
<1> QED BY <1>6, <1>7

LEMMA BeginSteps ==
    ASSUME CtInv,
           \/ \E c \in Cts : RemoveContainer(c) \/ RetryForBox(c)
           \/ \E d \in Callers : Retry(d)
    PROVE  CtInv'
<1>1. ASSUME NEW c \in Cts, RemoveContainer(c) \/ RetryForBox(c) PROVE CtInv'
    <2>1. ctJob[c].at = "idle" /\ Begin(c, c, {})
        BY <1>1 DEF RemoveContainer, RetryForBox, Idle
    <2>2. OwnOf(ctRec[c], ctHeld[c], ctProc[c], ctJob[c].at) /\ c \in Callers
        BY CtOf
    <2>3. ctProc[c] # "unmade"
        BY <1>1, <2>2 DEF RemoveContainer, RetryForBox, OwnOf, Known, NoContainer
    <2>4. {} \in SUBSET Cts /\ \A o \in {} : Leaving(o)
        OBVIOUS
    <2>5. ctJob[c].at \notin Making \cup Spawned /\ ctJob[c].at \in {"idle", "retry"}
        BY <2>1 DEF Making, Spawned
    <2> QED BY <2>1, <2>2, <2>3, <2>4, <2>5, BeginStep
<1>2. ASSUME NEW d \in Callers, Retry(d) PROVE CtInv'
    <2>1. ctJob[d].at = "retry" /\ \E c \in ctJob[d].todo : Begin(d, c, ctJob[d].todo \ {c})
        BY <1>2 DEF Retry
    <2>2. PICK c \in ctJob[d].todo : Begin(d, c, ctJob[d].todo \ {c})
        BY <2>1
    <2>3. ctJob[d].todo \subseteq Cts /\ \A o \in ctJob[d].todo : Leaving(o)
        BY CtTypes DEF CtInv, CtHeldInv, Removals, RemovalOf, CtJobs
    <2>4. ctProc[c] # "unmade" /\ ctJob[c].at \notin Making \cup Spawned
        BY <2>3, LeavingCalls
    <2>5. ctJob[d].todo \ {c} \in SUBSET Cts /\ \A o \in ctJob[d].todo \ {c} : Leaving(o)
        BY <2>3
    <2> QED BY <2>1, <2>2, <2>3, <2>4, <2>5, BeginStep
<1> QED BY <1>1, <1>2

\* What is known of a removal under way.
LEMMA LettingOf ==
    ASSUME CtInv, NEW d \in Callers, ctJob[d].at \in Letting
    PROVE  LET c == ctJob[d].c IN
           /\ c \in Cts /\ Leaving(c) /\ ListOf(ctJob[d], ctHeld[c])
           /\ ctJob[c].at \notin Making \cup Spawned /\ OwnOf(ctRec[c], ctHeld[c], ctProc[c], "idle")
           /\ ctProc[c] # "unmade" /\ (ctRec[c].removing \/ ctRec[c].st = "none")
           /\ ctRec[c] \in RecType /\ ctHeld[c] \subseteq ctRec[c].has
           /\ ctRec = [ctRec EXCEPT ![c] = ctRec[c]] /\ ctHeld = [ctHeld EXCEPT ![c] = ctHeld[c]]
           /\ ctJob[d] \in CtJobs /\ ctJob[d].batch = {} /\ \A o \in ctJob[d].todo : Leaving(o)
           /\ ctDue \subseteq Cts
<1>1. PICK c : c = ctJob[d].c
    OBVIOUS
<1>2. c \in Cts /\ Leaving(c) /\ ListOf(ctJob[d], ctHeld[c]) /\ \A o \in ctJob[d].todo : Leaving(o)
    BY <1>1 DEF CtInv, CtHeldInv, Removals, RemovalOf
<1>3. /\ ctJob[c].at \notin Making \cup Spawned /\ OwnOf(ctRec[c], ctHeld[c], ctProc[c], "idle")
      /\ ctProc[c] # "unmade" /\ (ctRec[c].removing \/ ctRec[c].st = "none")
    BY <1>2, LeavingCalls
<1>4. ctHeld[c] \subseteq ctRec[c].has
    BY <1>3 DEF OwnOf, Spawned
<1>5. /\ ctRec[c] \in RecType /\ ctJob[d] \in CtJobs
      /\ ctRec = [ctRec EXCEPT ![c] = ctRec[c]] /\ ctHeld = [ctHeld EXCEPT ![c] = ctHeld[c]]
    BY <1>2, CtTypes
<1>6. ctJob[d].batch = {} /\ ctDue \subseteq Cts
    BY DEF CtInv, CtExitInv, NotedOnce, Letting, CtTypeOK
<1> QED BY <1>1, <1>2, <1>3, <1>4, <1>5, <1>6

\* The answer to one release.
LEMMA ReleaseSteps == ASSUME CtInv, NEW d \in Callers, ReleaseNext(d) PROVE CtInv'
<1> USE DEF exitVars, engineVars
<1>1. PICK c : c = ctJob[d].c
    OBVIOUS
<1>2. PICK s : s = ctJob[d].plan
    OBVIOUS
<1>3. PICK x : x = Head(s)
    OBVIOUS
<1>4. /\ ctJob[d].at = "release" /\ s # <<>> /\ Answer(d, c, x)
      /\ UNCHANGED <<ctRec, ctProc, ctExits, ctKept, ctStrays, ctDue, ctBox>>
    BY <1>1, <1>2, <1>3 DEF ReleaseNext
<1>5. /\ c \in Cts /\ ListOf(ctJob[d], ctHeld[c])
      /\ ctJob[c].at \notin Making \cup Spawned /\ OwnOf(ctRec[c], ctHeld[c], ctProc[c], "idle")
      /\ ctProc[c] # "unmade" /\ (ctRec[c].removing \/ ctRec[c].st = "none")
      /\ ctRec[c] \in RecType /\ ctHeld[c] \subseteq ctRec[c].has
      /\ ctRec = [ctRec EXCEPT ![c] = ctRec[c]] /\ ctHeld = [ctHeld EXCEPT ![c] = ctHeld[c]]
      /\ ctJob[d] \in CtJobs /\ ctJob[d].batch = {} /\ \A o \in ctJob[d].todo : Leaving(o)
      /\ ctDue \subseteq Cts
    BY <1>1, <1>4, LettingOf DEF Letting
<1>6. /\ s \in EarlyPlans \cup LatePlans /\ Among(s) = {x} \cup Among(Tail(s)) /\ x \in Holdings
      /\ s \in EarlyPlans => x \in {"work", "mounts"}
      /\ s \in LatePlans => x \in {"root", "clone"}
      /\ x = "clone" => Among(s) = {"clone"}
    BY <1>2, <1>3, <1>4, <1>5, PlanTaken DEF CtJobs
\* What is held after the engine let go of x.
<1>7. ASSUME LetsGo(c, x) PROVE OwnOf(ctRec[c], ctHeld[c] \ {x}, ctProc[c], "idle")
    <2>1. x \in {"work", "mounts", "root", "clone"}
        BY <1>6 DEF Holdings
    <2>2. CASE x = "work"
        BY <1>5, <1>7, <2>2 DEF LetsGo, OwnOf, Making, Spawned
    <2>3. CASE x = "clone"
        <3>1. ctHeld[c] \subseteq {"clone"}
            BY <1>2, <1>5, <1>6, <2>3 DEF ListOf
        <3> QED BY <1>5, <2>3, <3>1 DEF OwnOf, Making, Spawned
    <2>4. CASE x \in {"mounts", "root"}
        <3>1. "work" \notin ctHeld[c]
            BY <1>7, <2>4 DEF LetsGo
        <3> QED BY <1>5, <2>4, <3>1 DEF OwnOf, Making, Spawned
    <2> QED BY <2>1, <2>2, <2>3, <2>4
<1>8. ASSUME NEW h, h \subseteq ctHeld[c], OwnOf(ctRec[c], h, ctProc[c], "idle"),
             ctHeld' = [ctHeld EXCEPT ![c] = h], ctJob' = [ctJob EXCEPT ![d] = Ends(d)]
      PROVE  CtInv'
    <2>1. PICK j : j = Next_(ctJob[d].todo)
        OBVIOUS
    <2>2. ctJob[d].todo \in SUBSET Cts
        BY <1>5 DEF CtJobs
    <2>3. j \in CtJobs /\ j.at \in {"idle", "retry"} /\ j.batch = {} /\ j.todo = ctJob[d].todo
        BY <2>1, <2>2, NextJob
    <2>4. Remove(d, c, ctRec[c], h, j)
        BY <1>4, <1>5, <1>8, <2>1, <2>3 DEF Remove, Ends, Letting
    <2> QED BY <1>5, <2>4, RemoveStep
<1>9. CASE LetsGo(c, x) /\ ctHeld' = [ctHeld EXCEPT ![c] = @ \ {x}] /\ Goto(d, "drop")
    <2> DEFINE h == ctHeld[c] \ {x}
               j == [ctJob[d] EXCEPT !.at = "drop"]
    <2>1. /\ j \in CtJobs /\ j.at = "drop" /\ j.batch = {} /\ j.todo = ctJob[d].todo /\ j.c = c
          /\ j.plan = s /\ j.rooted = ctJob[d].rooted
        BY <1>1, <1>2, <1>5 DEF CtJobs, CtAts, Letting
    <2>2. ctJob' = [ctJob EXCEPT ![d] = j] /\ ctHeld' = [ctHeld EXCEPT ![c] = h]
        BY <1>5, <1>9, CtTypes DEF Goto
    <2>3. OwnOf(ctRec[c], h, ctProc[c], "idle") /\ x \notin h /\ h \subseteq ctHeld[c]
        BY <1>7, <1>9
    <2> HIDE DEF h, j
    <2>4. ListOf(j, h)
        BY <1>2, <1>3, <1>4, <1>5, <2>1, <2>3 DEF ListOf
    <2>5. Remove(d, c, ctRec[c], h, j)
        BY <1>4, <1>5, <2>1, <2>2, <2>3, <2>4 DEF Remove, Letting
    <2> QED BY <1>5, <2>5, RemoveStep
<1>10. CASE ctJob' = [ctJob EXCEPT ![d] = Ends(d)] /\ UNCHANGED ctHeld
    BY <1>5, <1>8, <1>10
<1>11. CASE /\ LetsGo(c, x) /\ ctHeld' = [ctHeld EXCEPT ![c] = @ \ {x}]
            /\ ctJob' = [ctJob EXCEPT ![d] = Ends(d)]
    <2>1. ctHeld' = [ctHeld EXCEPT ![c] = ctHeld[c] \ {x}]
        BY <1>11
    <2> QED BY <1>7, <1>8, <1>11, <2>1
<1> QED BY <1>4, <1>9, <1>10, <1>11 DEF Answer

\* Its note, and the list that is at its end.
LEMMA LetGoSteps ==
    ASSUME CtInv, NEW d \in Callers, Drop(d) \/ ReadRoot(d) \/ Forget(d)
    PROVE  CtInv'
<1> USE DEF exitVars, engineVars
<1>1. PICK c : c = ctJob[d].c
    OBVIOUS
<1>2. PICK s : s = ctJob[d].plan
    OBVIOUS
<1>3. ctJob[d].at \in Letting
    BY DEF Drop, ReadRoot, Forget, Letting
<1>4. /\ c \in Cts /\ ListOf(ctJob[d], ctHeld[c])
      /\ ctJob[c].at \notin Making \cup Spawned /\ OwnOf(ctRec[c], ctHeld[c], ctProc[c], "idle")
      /\ ctProc[c] # "unmade" /\ (ctRec[c].removing \/ ctRec[c].st = "none")
      /\ ctRec[c] \in RecType /\ ctHeld[c] \subseteq ctRec[c].has
      /\ ctRec = [ctRec EXCEPT ![c] = ctRec[c]] /\ ctHeld = [ctHeld EXCEPT ![c] = ctHeld[c]]
      /\ ctJob[d] \in CtJobs /\ ctJob[d].batch = {} /\ \A o \in ctJob[d].todo : Leaving(o)
      /\ ctDue \subseteq Cts
    BY <1>1, <1>3, LettingOf
<1>5. s \in EarlyPlans \cup LatePlans
    BY <1>2, <1>4 DEF CtJobs
<1>6. CASE Drop(d)
    <2> DEFINE r == [ctRec[c] EXCEPT !.has = @ \ {Head(s)}]
               j == [ctJob[d] EXCEPT !.at = "release", !.plan = Tail(@)]
    <2>1. /\ ctJob[d].at = "drop" /\ UNCHANGED <<ctHeld, ctProc, ctExits, ctKept, ctStrays, ctDue, ctBox>>
          /\ ctRec' = [ctRec EXCEPT ![c] = r] /\ ctJob' = [ctJob EXCEPT ![d] = j]
        BY <1>1, <1>2, <1>4, <1>6, CtTypes DEF Drop
    <2>2. s # <<>> /\ Head(s) \notin ctHeld[c]
        BY <1>2, <1>4, <2>1 DEF ListOf
    <2>3. /\ Among(s) = {Head(s)} \cup Among(Tail(s))
          /\ s \in EarlyPlans => Tail(s) \in EarlyPlans
          /\ s \in LatePlans => Tail(s) \in LatePlans
        BY <1>5, <2>2, PlanTaken
    <2>4. /\ j \in CtJobs /\ j.at = "release" /\ j.batch = {} /\ j.todo = ctJob[d].todo /\ j.c = c
          /\ j.plan = Tail(s) /\ j.rooted = ctJob[d].rooted
        BY <1>1, <1>2, <1>4, <1>5, <2>3 DEF CtJobs, CtAts, Letting
    <2>5. r \in RecType /\ r.st = ctRec[c].st /\ r.removing = ctRec[c].removing /\ r.has = ctRec[c].has \ {Head(s)}
        BY <1>4 DEF RecType
    <2> HIDE DEF r, j
    <2>6. OwnOf(r, ctHeld[c], ctProc[c], "idle")
        <3>1. r.st = "none" => r = NoContainer
            BY <1>4, <2>5 DEF OwnOf, RecType, NoContainer
        <3> QED BY <1>4, <2>2, <2>5, <3>1 DEF OwnOf, Making, Spawned
    <2>7. ListOf(j, ctHeld[c])
        BY <1>2, <1>4, <2>2, <2>3, <2>4 DEF ListOf
    <2>8. Remove(d, c, r, ctHeld[c], j)
        BY <1>3, <1>4, <2>1, <2>4, <2>5, <2>6, <2>7 DEF Remove, Letting
    <2> QED BY <1>4, <2>8, RemoveStep
<1>7. CASE ReadRoot(d)
    <2> DEFINE plan == PlanOf(c, "root", "clone")
               j == [ctJob[d] EXCEPT !.rooted = TRUE, !.plan = plan]
    <2>1. /\ ctJob[d].at = "release" /\ s = <<>> /\ ~ ctJob[d].rooted
          /\ UNCHANGED <<ctRec, ctHeld, ctProc, ctExits, ctKept, ctStrays, ctDue, ctBox>>
          /\ ctJob' = [ctJob EXCEPT ![d] = j]
        BY <1>1, <1>2, <1>4, <1>7, CtTypes DEF ReadRoot
    <2>2. plan \in LatePlans /\ Among(plan) = ctRec[c].has \cap {"root", "clone"}
        BY <1>4, PlanMade DEF LatePlans, Holdings
    <2>3. j \in CtJobs /\ j.at = "release" /\ j.batch = {} /\ j.todo = ctJob[d].todo /\ j.c = c /\ j.plan = plan
          /\ j.rooted
        <3> HIDE DEF plan
        <3> QED BY <1>1, <1>4, <2>1, <2>2 DEF CtJobs
    <2> HIDE DEF j
    <2>4. ctHeld[c] \subseteq ctRec[c].has \cap {"root", "clone"}
        <3>1. ctHeld[c] \cap {"work", "mounts"} = {}
            BY <1>2, <1>4, <2>1, AmongOf DEF ListOf
        <3> QED BY <1>4, <3>1 DEF RecType, Holdings
    <2>5. ListOf(j, ctHeld[c])
        BY <2>2, <2>3, <2>4 DEF ListOf
    <2>6. Remove(d, c, ctRec[c], ctHeld[c], j)
        BY <1>3, <1>4, <2>1, <2>3, <2>5 DEF Remove, Letting
    <2> QED BY <1>4, <2>6, RemoveStep
<1>8. CASE Forget(d)
    <2>1. /\ ctJob[d].at = "release" /\ s = <<>> /\ ctJob[d].rooted
          /\ UNCHANGED <<ctHeld, ctProc, ctExits, ctKept, ctStrays, ctDue, ctBox>>
          /\ ctRec' = [ctRec EXCEPT ![c] = NoContainer] /\ ctJob' = [ctJob EXCEPT ![d] = Next_(ctJob[d].todo)]
        BY <1>1, <1>2, <1>8 DEF Forget, Ends
    <2>2. ctHeld[c] = {}
        BY <1>2, <1>4, <2>1, AmongOf DEF ListOf
    <2>3. NoContainer \in RecType /\ NoContainer.st = "none"
        BY DEF NoContainer, RecType
    <2>4. OwnOf(NoContainer, ctHeld[c], ctProc[c], "idle")
        BY <1>4, <2>2, <2>3 DEF OwnOf, Making, Spawned
    <2>5. PICK j : j = Next_(ctJob[d].todo)
        OBVIOUS
    <2>6. ctJob[d].todo \in SUBSET Cts
        BY <1>4 DEF CtJobs
    <2>7. j \in CtJobs /\ j.at \in {"idle", "retry"} /\ j.batch = {} /\ j.todo = ctJob[d].todo
        BY <2>5, <2>6, NextJob
    <2>8. Remove(d, c, NoContainer, ctHeld[c], j)
        BY <1>3, <1>4, <2>1, <2>3, <2>4, <2>5, <2>7 DEF Remove, Letting
    <2> QED BY <1>4, <2>8, RemoveStep
<1> QED BY <1>6, <1>7, <1>8

-----------------------------------------------------------------------------
(* The sequence of exits that are kept. *)

Distinct(s) == \A i, j \in DOMAIN s : s[i] = s[j] => i = j

LEMMA WithoutAtFacts ==
    ASSUME NEW S, NEW s \in Seq(S), NEW i \in DOMAIN s, Distinct(s)
    PROVE  /\ WithoutAt(s, i) \in Seq(S) /\ Len(WithoutAt(s, i)) <= Len(s) /\ Distinct(WithoutAt(s, i))
           /\ Among(WithoutAt(s, i)) = Among(s) \ {s[i]}
<1> DEFINE a == SubSeq(s, 1, i - 1)
           b == SubSeq(s, i + 1, Len(s))
           w == WithoutAt(s, i)
           n == Len(s)
<1>1. n \in Nat /\ DOMAIN s = 1 .. n /\ i \in 1 .. n /\ \A k \in 1 .. n : s[k] \in S
    BY LenProperties, ElementOfSeq
<1>2. a \in Seq(S) /\ Len(a) = i - 1 /\ \A k \in 1 .. i - 1 : a[k] = s[k]
    <2>1. \A k \in 1 .. i - 1 : s[k] \in S
        BY <1>1
    <2>2. a \in Seq(S) /\ Len(a) = (IF 1 <= i - 1 THEN (i - 1) - 1 + 1 ELSE 0)
          /\ \A k \in 1 .. (i - 1) - 1 + 1 : a[k] = s[1 + k - 1]
        BY <1>1, <2>1, SubSeqProperties
    <2>3. (i - 1) - 1 + 1 = i - 1 /\ (IF 1 <= i - 1 THEN (i - 1) - 1 + 1 ELSE 0) = i - 1
          /\ \A k \in 1 .. i - 1 : 1 + k - 1 = k
        BY <1>1
    <2> HIDE DEF a
    <2> QED BY <2>2, <2>3
<1>3. b \in Seq(S) /\ Len(b) = n - i /\ \A k \in 1 .. n - i : b[k] = s[i + k]
    <2>1. \A k \in i + 1 .. n : s[k] \in S
        BY <1>1
    <2>2. b \in Seq(S) /\ Len(b) = (IF i + 1 <= n THEN n - (i + 1) + 1 ELSE 0)
          /\ \A k \in 1 .. n - (i + 1) + 1 : b[k] = s[i + 1 + k - 1]
        BY <1>1, <2>1, SubSeqProperties
    <2>3. n - (i + 1) + 1 = n - i /\ (IF i + 1 <= n THEN n - (i + 1) + 1 ELSE 0) = n - i
          /\ \A k \in 1 .. n - i : i + 1 + k - 1 = i + k
        BY <1>1
    <2> HIDE DEF b
    <2> QED BY <2>2, <2>3
<1>4. /\ w \in Seq(S) /\ Len(w) = n - 1 /\ DOMAIN w = 1 .. n - 1
      /\ \A k \in 1 .. n - 1 : w[k] = IF k <= i - 1 THEN s[k] ELSE s[k + 1]
    <2> HIDE DEF a, b
    <2>1. w = a \o b
        BY DEF WithoutAt, a, b
    <2> HIDE DEF w
    <2>2. w \in Seq(S) /\ Len(w) = Len(a) + Len(b)
          /\ \A k \in 1 .. Len(a) + Len(b) : w[k] = IF k <= Len(a) THEN a[k] ELSE b[k - Len(a)]
        BY <1>2, <1>3, <2>1, ConcatProperties
    <2>3. Len(a) + Len(b) = n - 1
        BY <1>1, <1>2, <1>3
    <2>4. ASSUME NEW k \in 1 .. n - 1 PROVE w[k] = IF k <= i - 1 THEN s[k] ELSE s[k + 1]
        <3>1. w[k] = IF k <= i - 1 THEN a[k] ELSE b[k - (i - 1)]
            BY <1>2, <2>2, <2>3
        <3>2. CASE k <= i - 1
            <4>1. k \in 1 .. i - 1
                BY <1>1, <3>2
            <4> QED BY <1>2, <3>1, <3>2, <4>1
        <3>3. CASE ~ (k <= i - 1)
            <4>1. k - (i - 1) \in 1 .. n - i /\ i + (k - (i - 1)) = k + 1
                BY <1>1, <3>3
            <4> QED BY <1>3, <3>1, <3>3, <4>1
        <3> QED BY <3>2, <3>3
    <2>5. DOMAIN w = 1 .. Len(w)
        BY <2>2, LenProperties
    <2> QED BY <2>2, <2>3, <2>4, <2>5
<1> HIDE DEF a, b, w, n
<1>5. \A k \in 1 .. n - 1 : \E m \in 1 .. n : m # i /\ w[k] = s[m] /\ m = (IF k <= i - 1 THEN k ELSE k + 1)
    BY <1>1, <1>4
<1>6. Distinct(w)
    <2>1. ASSUME NEW k \in 1 .. n - 1, NEW l \in 1 .. n - 1, w[k] = w[l] PROVE k = l
        <3>1. PICK p \in 1 .. n : w[k] = s[p] /\ p = (IF k <= i - 1 THEN k ELSE k + 1)
            BY <1>5
        <3>2. PICK q \in 1 .. n : w[l] = s[q] /\ q = (IF l <= i - 1 THEN l ELSE l + 1)
            BY <1>5
        <3>3. p = q
            BY <1>1, <2>1, <3>1, <3>2 DEF Distinct
        <3> QED BY <1>1, <3>1, <3>2, <3>3
    <2> QED BY <1>4, <2>1 DEF Distinct
<1>7. Among(w) = Among(s) \ {s[i]}
    <2>1. ASSUME NEW x \in Among(w) PROVE x \in Among(s) \ {s[i]}
        <3>1. PICK k \in 1 .. n - 1 : x = w[k]
            BY <1>4, <2>1 DEF Among
        <3>2. PICK m \in 1 .. n : m # i /\ w[k] = s[m]
            BY <1>5
        <3>3. s[m] # s[i]
            BY <1>1, <3>2 DEF Distinct
        <3> QED BY <1>1, <3>1, <3>2, <3>3 DEF Among
    <2>2. ASSUME NEW x \in Among(s) \ {s[i]} PROVE x \in Among(w)
        <3>1. PICK m \in 1 .. n : x = s[m]
            BY <1>1, <2>2 DEF Among
        <3>2. m # i
            BY <2>2, <3>1
        <3>3. PICK k \in 1 .. n - 1 : (k <= i - 1 /\ k = m) \/ (~ (k <= i - 1) /\ k + 1 = m)
            <4>1. CASE m < i
                BY <1>1, <4>1
            <4>2. CASE ~ (m < i)
                <5>1. m - 1 \in 1 .. n - 1 /\ ~ (m - 1 <= i - 1) /\ (m - 1) + 1 = m
                    BY <1>1, <3>2, <4>2
                <5> QED BY <5>1
            <4> QED BY <4>1, <4>2
        <3>4. w[k] = x
            BY <1>4, <3>1, <3>3
        <3> QED BY <1>4, <3>4 DEF Among
    <2> QED BY <2>1, <2>2
<1>8. w \in Seq(S) /\ Len(w) <= n
    BY <1>1, <1>4
<1> QED BY <1>6, <1>7, <1>8 DEF w, n

LEMMA ConcatFacts ==
    ASSUME NEW S, NEW s \in Seq(S), NEW t \in Seq(S), Distinct(s), Distinct(t), Among(s) \cap Among(t) = {}
    PROVE  s \o t \in Seq(S) /\ Distinct(s \o t) /\ Among(s \o t) = Among(s) \cup Among(t)
<1> DEFINE w == s \o t
           n == Len(s)
           m == Len(t)
<1>1. /\ n \in Nat /\ m \in Nat /\ DOMAIN s = 1 .. n /\ DOMAIN t = 1 .. m
    BY LenProperties
<1>2. /\ w \in Seq(S) /\ Len(w) = n + m
      /\ \A k \in 1 .. n + m : w[k] = IF k <= n THEN s[k] ELSE t[k - n]
    BY ConcatProperties
<1>3. DOMAIN w = 1 .. n + m
    BY <1>2, LenProperties
<1> HIDE DEF w, n, m
<1>4. \A k \in 1 .. n + m : \/ k \in 1 .. n /\ w[k] = s[k]
                            \/ k - n \in 1 .. m /\ ~ (k <= n) /\ w[k] = t[k - n]
    BY <1>1, <1>2
<1>5. Among(w) = Among(s) \cup Among(t)
    <2>1. ASSUME NEW x \in Among(w) PROVE x \in Among(s) \cup Among(t)
        <3>1. PICK k \in 1 .. n + m : x = w[k]
            BY <1>3, <2>1 DEF Among
        <3> QED BY <1>1, <1>4, <3>1 DEF Among
    <2>2. ASSUME NEW x \in Among(s) PROVE x \in Among(w)
        <3>1. PICK k \in 1 .. n : x = s[k]
            BY <1>1, <2>2 DEF Among
        <3>2. k \in 1 .. n + m /\ k <= n
            BY <1>1
        <3> QED BY <1>2, <1>3, <3>1, <3>2 DEF Among
    <2>3. ASSUME NEW x \in Among(t) PROVE x \in Among(w)
        <3>1. PICK k \in 1 .. m : x = t[k]
            BY <1>1, <2>3 DEF Among
        <3>2. k + n \in 1 .. n + m /\ ~ (k + n <= n) /\ (k + n) - n = k
            BY <1>1
        <3>3. w[k + n] = x
            BY <1>2, <3>1, <3>2
        <3> QED BY <1>3, <3>2, <3>3 DEF Among
    <2> QED BY <2>1, <2>2, <2>3
<1>6. Distinct(w)
    <2>1. ASSUME NEW k \in 1 .. n + m, NEW l \in 1 .. n + m, w[k] = w[l] PROVE k = l
        <3>1. CASE k \in 1 .. n /\ l \in 1 .. n /\ w[k] = s[k] /\ w[l] = s[l]
            BY <1>1, <2>1, <3>1 DEF Distinct
        <3>2. CASE k - n \in 1 .. m /\ l - n \in 1 .. m /\ w[k] = t[k - n] /\ w[l] = t[l - n]
            <4>1. k - n = l - n
                BY <1>1, <2>1, <3>2 DEF Distinct
            <4> QED BY <1>1, <4>1
        <3>3. ASSUME NEW p \in 1 .. n, NEW q \in 1 .. m PROVE s[p] # t[q]
            BY <1>1 DEF Among
        <3> QED BY <1>4, <2>1, <3>1, <3>2, <3>3
    <2> QED BY <1>3, <2>1 DEF Distinct
<1> QED BY <1>2, <1>5, <1>6 DEF w

\* The last n: all of s, or n of it.
LEMMA LastOfFacts ==
    ASSUME NEW S, NEW s \in Seq(S), NEW n \in Nat, Distinct(s)
    PROVE  /\ LastOf(n, s) \in Seq(S) /\ Len(LastOf(n, s)) <= n /\ Distinct(LastOf(n, s))
           /\ Among(LastOf(n, s)) \subseteq Among(s)
           /\ Len(LastOf(n, s)) = n \/ Among(LastOf(n, s)) = Among(s)
<1> DEFINE w == LastOf(n, s)
           m == Len(s)
<1>1. m \in Nat /\ DOMAIN s = 1 .. m /\ \A k \in 1 .. m : s[k] \in S
    BY LenProperties, ElementOfSeq
<1>2. PICK o \in Nat : o = (IF m > n THEN m - n ELSE 0)
    <2> HIDE DEF m
    <2>1. CASE m > n
        <3>1. m - n \in Nat
            BY <1>1, <2>1
        <3> QED BY <2>1, <3>1
    <2>2. CASE ~ (m > n)
        BY <2>2
    <2> QED BY <2>1, <2>2
<1>3. w = SubSeq(s, 1 + o, m)
    BY <1>2 DEF LastOf
<1> HIDE DEF w, m
<1>4. o <= m /\ m - o <= n /\ (m - o = n \/ o = 0)
    BY <1>1, <1>2
<1>5. w \in Seq(S) /\ Len(w) = m - o /\ \A k \in 1 .. m - o : w[k] = s[o + k]
    <2>1. \A k \in 1 + o .. m : s[k] \in S
        BY <1>1, <1>2
    <2>2. w \in Seq(S) /\ Len(w) = (IF 1 + o <= m THEN m - (1 + o) + 1 ELSE 0)
          /\ \A k \in 1 .. m - (1 + o) + 1 : w[k] = s[1 + o + k - 1]
        BY <1>1, <1>2, <1>3, <2>1, SubSeqProperties
    <2>3. m - (1 + o) + 1 = m - o /\ (IF 1 + o <= m THEN m - (1 + o) + 1 ELSE 0) = m - o
          /\ \A k \in 1 .. m - o : 1 + o + k - 1 = o + k
        BY <1>1, <1>2, <1>4
    <2> QED BY <2>2, <2>3
<1>6. DOMAIN w = 1 .. m - o
    BY <1>5, LenProperties
<1>7. \A k \in 1 .. m - o : o + k \in 1 .. m /\ w[k] = s[o + k]
    BY <1>1, <1>2, <1>4, <1>5
<1>8. Distinct(w)
    <2>1. ASSUME NEW k \in 1 .. m - o, NEW l \in 1 .. m - o, w[k] = w[l] PROVE k = l
        <3>1. o + k = o + l
            BY <1>1, <1>7, <2>1 DEF Distinct
        <3> QED BY <1>2, <3>1
    <2> QED BY <1>6, <2>1 DEF Distinct
<1>9. Among(w) \subseteq Among(s)
    BY <1>1, <1>6, <1>7 DEF Among
<1>10. ASSUME o = 0 PROVE Among(w) = Among(s)
    <2>1. \A k \in 1 .. m : w[k] = s[k] /\ m - o = m
        BY <1>1, <1>7, <1>10
    <2> QED BY <1>1, <1>6, <1>10, <2>1 DEF Among
<1>11. Len(w) <= n
    BY <1>4, <1>5
<1> QED BY <1>4, <1>5, <1>8, <1>9, <1>10, <1>11 DEF w

-----------------------------------------------------------------------------
(* Who else has ended. *)

LEMMA BesideGrows ==
    ASSUME NEW c \in Cts, ctStrays' \subseteq ctStrays,
           \A o \in Cts : ctProc[o] = "ended" => ctProc'[o] = "ended"
    PROVE  /\ EndedBeside(c) \subseteq EndedBeside(c)'
           /\ IsFiniteSet(EndedBeside(c)')
           /\ Cardinality(EndedBeside(c)) >= MaxKept => Cardinality(EndedBeside(c)') >= MaxKept
<1>1. EndedBeside(c) \subseteq EndedBeside(c)'
    BY DEF EndedBeside
<1>2. EndedBeside(c)' \subseteq Cts \cup Strays
    BY DEF EndedBeside
<1>3. IsFiniteSet(EndedBeside(c)')
    BY <1>2, ContainersAssumption, FS_Subset
<1>4. Cardinality(EndedBeside(c)) <= Cardinality(EndedBeside(c)') /\ Cardinality(EndedBeside(c)) \in Nat
      /\ Cardinality(EndedBeside(c)') \in Nat
    BY <1>1, <1>3, FS_Subset, FS_CardinalityType
<1> QED BY <1>1, <1>3, <1>4, ContainersAssumption

\* n distinct values of a set: it has as many.
LEMMA AsMany ==
    ASSUME NEW S, NEW s \in Seq(S), Distinct(s), NEW E, IsFiniteSet(E), Among(s) \subseteq E
    PROVE  Cardinality(E) >= Len(s)
<1> DEFINE n == Len(s)
<1>1. n \in Nat /\ DOMAIN s = 1 .. n /\ s \in [1 .. n -> S]
    BY LenProperties
<1>2. s \in Injection(1 .. n, E)
    <2>1. \A k \in 1 .. n : s[k] \in E
        BY <1>1 DEF Among
    <2>2. s \in [1 .. n -> E]
        BY <1>1, <2>1
    <2> QED BY <1>1, <2>2 DEF Injection, IsInjective, Distinct
<1>3. IsFiniteSet(1 .. n) /\ Cardinality(1 .. n) = n
    <2>1. IsFiniteSet(1 .. n) /\ Cardinality(1 .. n) = (IF 1 <= n THEN n - 1 + 1 ELSE 0)
        BY <1>1, FS_Interval
    <2> QED BY <1>1, <2>1
<1>4. Cardinality(1 .. n) <= Cardinality(E)
    BY <1>2, <1>3, FS_Injection
<1>5. Cardinality(E) \in Nat
    BY FS_CardinalityType
<1> QED BY <1>1, <1>3, <1>4, <1>5

\* What a step leaves to the rest that only reads exits or changes who has them.
LEMMA OnItsWayStays ==
    ASSUME NEW c \in Cts, OnItsWay(c), ctStrays' \subseteq ctStrays,
           \A o \in Cts : ctProc[o] = "ended" => ctProc'[o] = "ended",
           c \in ctExits => c \in ctExits' \/ \E d \in Callers : c \in ctJob'[d].batch,
           \A d \in Callers : c \in ctJob[d].batch => c \in ctJob'[d].batch
    PROVE  OnItsWay(c)'
<1>1. CASE c \in ctExits \/ \E d \in Callers : c \in ctJob[d].batch
    BY <1>1 DEF OnItsWay
<1>2. CASE Cardinality(EndedBeside(c)) >= MaxKept
    BY <1>2, BesideGrows DEF OnItsWay
<1> QED BY <1>1, <1>2 DEF OnItsWay

\* A process ends: its exit is there to be drained.
LEMMA EndStep == ASSUME CtInv, NEW c \in Cts, End(c) PROVE CtInv'
<1>1. /\ ctProc[c] \in {"running", "stopping"} /\ ctProc' = [ctProc EXCEPT ![c] = "ended"]
      /\ ctExits' = ctExits \cup {c}
      /\ UNCHANGED <<ctRec, ctHeld, ctKept, ctJob, ctDue, ctBox, ctStrays>>
    BY DEF End
<1>2. /\ ctProc'[c] = "ended" /\ \A o \in Cts \ {c} : ctProc'[o] = ctProc[o]
      /\ ctProc' \in [Cts -> ProcType]
    BY <1>1, CtTypes DEF ProcType
<1>3. CtTypeOK' /\ CtJobType' /\ CtStraysType'
    <2>1. ctExits' \subseteq Cts \cup Strays
        BY <1>1 DEF CtInv, CtTypeOK
    <2>2. /\ ctRec' \in [Cts -> RecType] /\ ctHeld' \in [Cts -> SUBSET Holdings] /\ ctJob' \in [Callers -> CtJobs]
          /\ ctKept' \in Seq(Cts \cup Strays) /\ Len(ctKept') <= MaxKept
          /\ ctDue' \subseteq Cts /\ ctBox' \in [Cts -> {"ready", "gone"}] /\ ctStrays' \subseteq Strays
        BY <1>1, CtTypes DEF CtInv, CtTypeOK, CtStraysType
    <2> QED BY <1>2, <2>1, <2>2, CtTypeFrom
<1>4. CtHeldInv'
    <2>1. \A o \in Cts : Leaving(o)' <=> Leaving(o)
        BY <1>1, <1>2 DEF Leaving, Known
    <2>2. ASSUME NEW o \in Cts PROVE OwnOf(ctRec[o], ctHeld[o], ctProc'[o], ctJob[o].at)
        <3>1. OwnOf(ctRec[o], ctHeld[o], ctProc[o], ctJob[o].at)
            BY CtOf
        <3> QED BY <1>1, <1>2, <3>1 DEF OwnOf, Making, Spawned
    <2>3. OwnCall'
        BY <1>1, <2>2 DEF OwnCall, OwnOf
    <2>4. Removals'
        <3>1. ASSUME NEW d \in Callers PROVE RemovalOf(d)'
            <4>1. RemovalOf(d) /\ ctJob[d].todo \subseteq Cts
                BY CtTypes DEF CtInv, CtHeldInv, Removals, CtJobs
            <4>2. PICK o : o = ctJob[d].c
                OBVIOUS
            <4>3. ctJob[d].at \in Letting => o \in Cts /\ Leaving(o)' /\ ListOf(ctJob[d], ctHeld[o])
                BY <2>1, <4>1, <4>2 DEF RemovalOf
            <4> QED BY <1>1, <2>1, <4>1, <4>2, <4>3 DEF RemovalOf, ListOf
        <3> QED BY <3>1 DEF Removals
    <2> QED BY <2>3, <2>4 DEF CtHeldInv
<1>5. ~ Noted(c)
    BY <1>1 DEF CtInv, CtExitInv, NotedEnded
<1>6. NotedOnce'
    BY <1>1, <1>5 DEF CtInv, CtExitInv, NotedOnce, Noted
<1>7. NotedEnded'
    <2>1. \A x : Noted(x)' => Noted(x) \/ x = c
        BY <1>1 DEF Noted
    <2>2. c \notin ctStrays
        BY ContainersAssumption DEF CtInv, CtStraysType
    <2> QED BY <1>1, <1>2, <2>1, <2>2 DEF CtInv, CtExitInv, NotedEnded
<1>8. ASSUME NEW o \in Cts, OnItsWay(o) \/ o = c PROVE OnItsWay(o)'
    <2>1. CASE o = c
        BY <1>1, <2>1 DEF OnItsWay
    <2>2. CASE OnItsWay(o)
        <3>1. \A p \in Cts : ctProc[p] = "ended" => ctProc'[p] = "ended"
            BY <1>2
        <3> QED BY <1>1, <2>2, <3>1, OnItsWayStays
    <2> QED BY <1>8, <2>1, <2>2
<1>9. ExitKept'
    <2>1. ASSUME NEW o \in Cts, ctJob[o].at = "record", ctProc'[o] = "ended"
          PROVE  OnItsWay(o)' \/ o \in Among(ctKept)
        BY <1>2, <1>8, <2>1 DEF CtInv, CtExitInv, ExitKept
    <2> QED BY <1>1, <2>1 DEF ExitKept
<1>10. ExitOnItsWay'
    <2>1. ASSUME NEW o \in Cts, ctRec[o].st = "running", ~ ctRec[o].removing, ctProc'[o] = "ended"
          PROVE  OnItsWay(o)'
        BY <1>2, <1>8, <2>1 DEF CtInv, CtExitInv, ExitOnItsWay, OnItsWay
    <2> QED BY <1>1, <2>1 DEF ExitOnItsWay, OnItsWay
<1> QED BY <1>3, <1>4, <1>6, <1>7, <1>9, <1>10 DEF CtInv, CtExitInv

\* Nothing that is recorded or held changes, and no call goes on.
Beside == UNCHANGED <<ctRec, ctHeld, ctProc, ctJob>>

LEMMA BesideStep == ASSUME CtInv, Beside PROVE CtHeldInv'
<1>1. \A c : Leaving(c)' <=> Leaving(c)
    BY DEF Beside, Leaving, Known
<1>2. OwnCall'
    BY DEF Beside, CtInv, CtHeldInv, OwnCall, OwnOf
<1>3. Removals'
    BY <1>1 DEF Beside, CtInv, CtHeldInv, Removals, RemovalOf, ListOf
<1> QED BY <1>2, <1>3 DEF CtHeldInv

LEMMA StrayStep == ASSUME CtInv, StrayEnds PROVE CtInv'
<1> USE DEF engineVars
<1>1. PICK x \in ctStrays : ctStrays' = ctStrays \ {x} /\ ctExits' = ctExits \cup {x}
    BY DEF StrayEnds
<1>2. UNCHANGED <<ctRec, ctHeld, ctProc, ctKept, ctJob, ctDue, ctBox>>
    BY DEF StrayEnds
<1>3. CtTypeOK' /\ CtJobType' /\ CtStraysType'
    BY <1>1, <1>2 DEF CtInv, CtTypeOK, CtJobType, CtStraysType
<1>4. CtHeldInv'
    BY <1>2, BesideStep DEF Beside
<1>5. ~ Noted(x)
    BY DEF CtInv, CtExitInv, NotedEnded
<1>6. NotedOnce'
    BY <1>1, <1>2, <1>5 DEF CtInv, CtExitInv, NotedOnce, Noted
<1>7. NotedEnded'
    <2>1. \A y : Noted(y)' => Noted(y) \/ y = x
        BY <1>1, <1>2 DEF Noted
    <2>2. x \notin Cts
        BY ContainersAssumption DEF CtInv, CtStraysType
    <2> QED BY <1>1, <1>2, <2>1, <2>2 DEF CtInv, CtExitInv, NotedEnded
<1>8. ASSUME NEW o \in Cts, OnItsWay(o) PROVE OnItsWay(o)'
    BY <1>1, <1>2, <1>8, OnItsWayStays
<1>9. ExitKept'
    BY <1>2, <1>8 DEF CtInv, CtExitInv, ExitKept
<1>10. ExitOnItsWay'
    BY <1>2, <1>8 DEF CtInv, CtExitInv, ExitOnItsWay, OnItsWay
<1> QED BY <1>3, <1>4, <1>6, <1>7, <1>9, <1>10 DEF CtInv, CtExitInv

\* Time, and the sandbox.
LEMMA AsideSteps ==
    ASSUME CtInv, \E c \in Cts : RetryDue(c) \/ RemoveBox(c)
    PROVE  CtInv'
<1> USE DEF engineVars, exitVars
<1>1. UNCHANGED <<ctRec, ctHeld, ctProc, ctJob, ctExits, ctKept, ctStrays>>
    BY DEF RetryDue, RemoveBox
<1>2. ctDue' \subseteq Cts /\ ctBox' \in [Cts -> {"ready", "gone"}]
    BY DEF RetryDue, RemoveBox, CtInv, CtTypeOK
<1>3. CtTypeOK' /\ CtJobType' /\ CtStraysType'
    BY <1>1, <1>2 DEF CtInv, CtTypeOK, CtJobType, CtStraysType
<1>4. CtHeldInv'
    BY <1>1, BesideStep DEF Beside
<1>5. CtExitInv'
    BY <1>1, ExitsAsideStep DEF ExitsAside
<1> QED BY <1>3, <1>4, <1>5 DEF CtInv

\* The handle recorded: an exit that was kept for it is taken.
LEMMA RecordStep == ASSUME CtInv, NEW c \in Cts, RecordStart(c) PROVE CtInv'
<1> USE DEF exitVars, engineVars
<1>1. /\ OwnOf(ctRec[c], ctHeld[c], ctProc[c], ctJob[c].at) /\ ctRec[c] \in RecType
      /\ ctHeld[c] \in SUBSET Holdings /\ ctProc[c] \in ProcType
      /\ ctHeld = [ctHeld EXCEPT ![c] = ctHeld[c]] /\ ctProc = [ctProc EXCEPT ![c] = ctProc[c]]
      /\ ctJob[c] \in CtJobs /\ c \in Callers
    BY CtOf
<1>2. /\ ctJob[c].at = "record" /\ ctJob' = [ctJob EXCEPT ![c].at = "idle"]
      /\ UNCHANGED <<ctHeld, ctProc, ctExits, ctStrays, ctDue, ctBox>>
    BY DEF RecordStart, Goto
<1>3. PICK a \in {"exited", "running"} : a = (IF c \in Among(ctKept) THEN "exited" ELSE "running")
    OBVIOUS
<1>4. PICK r : r = StartedOf(c)
    OBVIOUS
<1>5. /\ r \in RecType /\ r.st = a /\ r.has = ctRec[c].has \cup {"mounts", "work"} /\ ~ r.removing
      /\ ctRec' = [ctRec EXCEPT ![c] = r] /\ ctRec[c].st = "created" /\ ~ ctRec[c].removing
    <2>1. r = [ctRec[c] EXCEPT !.st = a, !.has = @ \cup {"mounts", "work"}]
        BY <1>3, <1>4 DEF StartedOf
    <2>2. ctRec[c].st = "created" /\ ~ ctRec[c].removing
        BY <1>1, <1>2 DEF OwnOf, Spawned
    <2>3. ctRec' = [ctRec EXCEPT ![c] = r]
        BY <1>4 DEF RecordStart
    <2> QED BY <1>1, <1>3, <2>1, <2>2, <2>3 DEF RecType, Holdings
<1>6. OwnOf(r, ctHeld[c], ctProc[c], "idle")
    BY <1>1, <1>2, <1>3, <1>5 DEF OwnOf, Making, Spawned
<1>7. Call(c, r, ctHeld[c], ctProc[c], "idle")
    BY <1>1, <1>2, <1>5, <1>6 DEF Call, CtAts, Letting, Leaving, Known, OwnOf
<1>8. CtHeldInv'
    BY <1>7, CallStep
<1>9. /\ ctRec'[c] = r /\ ctJob'[c].at = "idle"
      /\ \A o \in Cts \ {c} : ctRec'[o] = ctRec[o] /\ ctJob'[o] = ctJob[o]
      /\ \A d \in Callers : /\ ctJob'[d].batch = ctJob[d].batch
                            /\ ctJob'[d].at = "note" <=> ctJob[d].at = "note"
      /\ ctRec' \in [Cts -> RecType] /\ ctJob' \in [Callers -> CtJobs]
    <2>1. /\ ctRec'[c] = r /\ ctJob'[c] = [ctJob[c] EXCEPT !.at = "idle"]
          /\ \A o \in Cts \ {c} : ctRec'[o] = ctRec[o]
          /\ \A d \in Callers \ {c} : ctJob'[d] = ctJob[d]
          /\ ctRec' \in [Cts -> RecType] /\ ctJob' \in [Callers -> CtJobs]
        BY <1>7, CallEffect
    <2>2. ctJob'[c].at = "idle" /\ ctJob'[c].batch = ctJob[c].batch
        BY <1>1, <2>1 DEF CtJobs
    <2> QED BY <1>2, <2>1, <2>2 DEF Callers
\* Its exit is kept no more.
<1>10. ctKept \in Seq(Cts \cup Strays) /\ Len(ctKept) <= MaxKept /\ Distinct(ctKept)
    BY DEF CtInv, CtTypeOK, CtExitInv, NotedOnce, Distinct
<1>11. /\ ctKept' \in Seq(Cts \cup Strays) /\ Len(ctKept') <= MaxKept /\ Distinct(ctKept')
       /\ Among(ctKept') = Among(ctKept) \ {c}
    <2>1. CASE c \in Among(ctKept)
        <3>1. PICK i \in DOMAIN ctKept : ctKept[i] = c /\ ctKept' = WithoutAt(ctKept, i)
            BY <2>1 DEF RecordStart
        <3>2. /\ WithoutAt(ctKept, i) \in Seq(Cts \cup Strays) /\ Len(WithoutAt(ctKept, i)) <= Len(ctKept)
              /\ Distinct(WithoutAt(ctKept, i)) /\ Among(WithoutAt(ctKept, i)) = Among(ctKept) \ {ctKept[i]}
            BY <1>10, WithoutAtFacts
        <3>3. Len(ctKept) \in Nat /\ Len(ctKept') \in Nat /\ Len(ctKept') <= Len(ctKept)
            BY <1>10, <3>1, <3>2, LenProperties
        <3> QED BY <1>10, <3>1, <3>2, <3>3, ContainersAssumption
    <2>2. CASE c \notin Among(ctKept)
        BY <1>10, <2>2 DEF RecordStart
    <2> QED BY <2>1, <2>2
<1>12. CtTypeOK' /\ CtJobType' /\ CtStraysType'
    <2>1. /\ ctExits' \subseteq Cts \cup Strays /\ ctDue' \subseteq Cts
          /\ ctBox' \in [Cts -> {"ready", "gone"}] /\ ctStrays' \subseteq Strays
          /\ ctHeld' \in [Cts -> SUBSET Holdings] /\ ctProc' \in [Cts -> ProcType]
        BY <1>2, CtTypes DEF CtInv, CtTypeOK, CtStraysType
    <2> QED BY <1>9, <1>11, <2>1, CtTypeFrom
<1>13. NotedOnce'
    <2>1. /\ \A d \in Callers : ctJob'[d].at # "note" => ctJob'[d].batch = {}
          /\ \A d \in Callers : \A x \in ctJob'[d].batch :
               x \notin ctExits' /\ x \notin Among(ctKept') /\ \A e \in Callers \ {d} : x \notin ctJob'[e].batch
          /\ \A x \in ctExits' : x \notin Among(ctKept')
        BY <1>2, <1>9, <1>11 DEF CtInv, CtExitInv, NotedOnce
    <2> QED BY <1>11, <2>1 DEF NotedOnce, Distinct
<1>14. NotedEnded'
    <2>1. \A x : Noted(x)' => Noted(x)
        BY <1>2, <1>9, <1>11 DEF Noted
    <2> QED BY <1>2, <2>1 DEF CtInv, CtExitInv, NotedEnded
<1>15. \A o \in Cts : EndedBeside(o)' = EndedBeside(o)
    BY <1>2 DEF EndedBeside
<1>16. \A o \in Cts : OnItsWay(o)' <=> OnItsWay(o)
    BY <1>2, <1>9, <1>15 DEF OnItsWay
<1>17. ExitKept'
    <2>1. ASSUME NEW o \in Cts, ctJob'[o].at = "record", ctProc'[o] = "ended"
          PROVE  OnItsWay(o)' \/ o \in Among(ctKept')
        <3>1. o # c
            BY <1>9, <2>1
        <3> QED BY <1>2, <1>9, <1>11, <1>16, <2>1, <3>1 DEF CtInv, CtExitInv, ExitKept
    <2> QED BY <2>1 DEF ExitKept
<1>18. ExitOnItsWay'
    <2>1. ASSUME NEW o \in Cts, ctRec'[o].st = "running", ~ ctRec'[o].removing, ctProc'[o] = "ended"
          PROVE  OnItsWay(o)'
        <3>1. CASE o = c
            <4>1. c \notin Among(ctKept) /\ ctProc[c] = "ended"
                BY <1>2, <1>3, <1>5, <1>9, <2>1, <3>1
            <4> QED BY <1>2, <1>16, <3>1, <4>1 DEF CtInv, CtExitInv, ExitKept
        <3>2. CASE o # c
            <4>1. ctRec[o].st = "running" /\ ~ ctRec[o].removing /\ ctProc[o] = "ended"
                BY <1>2, <1>9, <2>1, <3>2
            <4>2. OnItsWay(o)
                BY <4>1 DEF CtInv, CtExitInv, ExitOnItsWay, OnItsWay
            <4> QED BY <1>16, <4>2
        <3> QED BY <3>1, <3>2
    <2> QED BY <2>1 DEF ExitOnItsWay, OnItsWay
<1> QED BY <1>8, <1>12, <1>13, <1>14, <1>17, <1>18 DEF CtInv, CtExitInv

\* A step of a caller that has a batch, or takes one.
LEMMA DrainStep == ASSUME CtInv, NEW d \in Callers, Drain(d) PROVE CtInv'
<1> USE DEF engineVars
<1> DEFINE j == [ctJob[d] EXCEPT !.at = "note", !.batch = ctExits]
<1>1. /\ ctJob[d].at = "idle" /\ ctExits' = {}
      /\ UNCHANGED <<ctRec, ctHeld, ctProc, ctKept, ctStrays, ctDue, ctBox>>
    BY DEF Drain, Idle
<1>2. ctJob[d] \in CtJobs /\ ctExits \subseteq Cts \cup Strays /\ ctJob[d].batch = {}
    BY <1>1, CtTypes DEF CtInv, CtTypeOK, CtExitInv, NotedOnce
<1>3. j \in CtJobs /\ j.at = "note" /\ j.batch = ctExits /\ j.todo = ctJob[d].todo
    BY <1>2 DEF CtJobs, CtAts
<1>4. /\ ctJob'[d] = j /\ \A e \in Callers \ {d} : ctJob'[e] = ctJob[e]
      /\ ctJob' \in [Callers -> CtJobs]
    BY <1>3, CtTypes DEF Drain
<1> HIDE DEF j
<1>5. CtTypeOK' /\ CtJobType' /\ CtStraysType'
    <2>1. ctJob' \in [Callers -> CtJobs]
        BY <1>4
    <2> QED BY <1>1, <2>1 DEF CtInv, CtTypeOK, CtJobType, CtStraysType, CtJobs, CtAts
<1>6. CtHeldInv'
    <2>1. \A o : Leaving(o)' <=> Leaving(o)
        BY <1>1 DEF Leaving, Known
    <2>2. ASSUME NEW o \in Cts PROVE OwnOf(ctRec[o], ctHeld[o], ctProc[o], ctJob'[o].at)
        <3>1. OwnOf(ctRec[o], ctHeld[o], ctProc[o], ctJob[o].at) /\ o \in Callers
            BY CtOf
        <3>2. CASE o = d
            BY <1>1, <1>3, <1>4, <3>1, <3>2 DEF OwnOf, Making, Spawned
        <3> QED BY <1>4, <3>1, <3>2
    <2>3. OwnCall'
        BY <1>1, <2>2 DEF OwnCall, OwnOf
    <2>4. ASSUME NEW e \in Callers PROVE RemovalOf(e)'
        <3>1. RemovalOf(e)
            BY DEF CtInv, CtHeldInv, Removals
        <3>2. CASE e = d
            BY <1>1, <1>3, <1>4, <2>1, <3>1, <3>2 DEF RemovalOf, Letting
        <3>3. CASE e # d
            BY <1>1, <1>4, <2>1, <3>1, <3>3 DEF RemovalOf, ListOf
        <3> QED BY <3>2, <3>3
    <2> QED BY <2>3, <2>4 DEF CtHeldInv, Removals
<1>7. NotedOnce'
    <2>1. /\ \A e \in Callers : ctJob'[e].at # "note" => ctJob'[e].batch = {}
          /\ \A x \in ctExits' : x \notin Among(ctKept')
          /\ \A i, k \in DOMAIN ctKept' : ctKept'[i] = ctKept'[k] => i = k
        BY <1>1, <1>3, <1>4 DEF CtInv, CtExitInv, NotedOnce
    <2>2. ASSUME NEW e \in Callers, NEW x \in ctJob'[e].batch
          PROVE  x \notin Among(ctKept) /\ \A f \in Callers \ {e} : x \notin ctJob'[f].batch
        <3>1. CASE e = d
            <4>1. x \in ctExits
                BY <1>3, <1>4, <2>2, <3>1
            <4> QED BY <1>4, <3>1, <4>1 DEF CtInv, CtExitInv, NotedOnce
        <3>2. CASE e # d
            <4>1. x \in ctJob[e].batch
                BY <1>4, <2>2, <3>2
            <4> QED BY <1>3, <1>4, <3>2, <4>1 DEF CtInv, CtExitInv, NotedOnce
        <3> QED BY <3>1, <3>2
    <2> QED BY <1>1, <2>1, <2>2 DEF NotedOnce
<1>8. NotedEnded'
    <2>1. \A x : Noted(x)' => Noted(x)
        BY <1>1, <1>3, <1>4 DEF Noted
    <2> QED BY <1>1, <2>1 DEF CtInv, CtExitInv, NotedEnded
<1>9. ASSUME NEW o \in Cts, OnItsWay(o) PROVE OnItsWay(o)'
    <2>1. \A e \in Callers : o \in ctJob[e].batch => o \in ctJob'[e].batch
        BY <1>2, <1>4
    <2>2. o \in ctExits => \E e \in Callers : o \in ctJob'[e].batch
        BY <1>3, <1>4
    <2> QED BY <1>1, <1>9, <2>1, <2>2, OnItsWayStays
<1>10. ExitKept'
    <2>1. ASSUME NEW o \in Cts, ctJob'[o].at = "record", ctProc[o] = "ended"
          PROVE  OnItsWay(o)' \/ o \in Among(ctKept)
        <3>1. ctJob[o].at = "record"
            BY <1>3, <1>4, <2>1 DEF Callers
        <3> QED BY <1>9, <2>1, <3>1 DEF CtInv, CtExitInv, ExitKept
    <2> QED BY <1>1, <2>1 DEF ExitKept
<1>11. ExitOnItsWay'
    BY <1>1, <1>9 DEF CtInv, CtExitInv, ExitOnItsWay, OnItsWay
<1> QED BY <1>5, <1>6, <1>7, <1>8, <1>10, <1>11 DEF CtInv, CtExitInv

\* The unclaimed of a batch, in any order: each once.
LEMMA OrdersFacts ==
    ASSUME NEW U, U \subseteq Cts \cup Strays, NEW s \in Orders(U)
    PROVE  s \in Seq(Cts \cup Strays) /\ Distinct(s) /\ Among(s) = U
<1> DEFINE n == Cardinality(U)
<1>1. IsFiniteSet(U)
    BY ContainersAssumption, FS_Subset
<1>2. n \in Nat
    BY <1>1, FS_CardinalityType
<1>3. s \in [1 .. n -> U] /\ Among(s) = U
    BY DEF Orders
<1> HIDE DEF n
<1>4. s \in Seq(Cts \cup Strays)
    <2>1. s \in [1 .. n -> Cts \cup Strays]
        BY <1>3
    <2> QED BY <1>2, <2>1, SeqDef
<1>5. s \in Surjection(1 .. n, U)
    <2>1. \A x \in U : \E i \in 1 .. n : s[i] = x
        BY <1>3 DEF Among
    <2> QED BY <1>3, <2>1 DEF Surjection
<1>6. IsFiniteSet(1 .. n) /\ Cardinality(1 .. n) = n
    <2>1. IsFiniteSet(1 .. n) /\ Cardinality(1 .. n) = (IF 1 > n THEN 0 ELSE n - 1 + 1)
        BY <1>2, FS_Interval
    <2> QED BY <1>2, <2>1
<1>7. s \in Injection(1 .. n, U)
    BY <1>5, <1>6, FS_Surjection DEF n
<1>8. Distinct(s)
    <2>1. \A i, j \in 1 .. n : s[i] = s[j] => i = j
        BY <1>3, <1>7 DEF Injection, IsInjective
    <2> QED BY <1>3, <2>1 DEF Distinct
<1> QED BY <1>3, <1>4, <1>8

LEMMA NoteStep == ASSUME CtInv, NEW d \in Callers, Note(d) PROVE CtInv'
<1> USE DEF engineVars
<1>1. PICK B : B = ctJob[d].batch
    OBVIOUS
<1>2. PICK due : due = RemovalsDue(B)
    OBVIOUS
<1> DEFINE U == {e \in B : ~ Claimed(e)}
<1>3. /\ ctJob[d].at = "note" /\ UNCHANGED <<ctHeld, ctProc, ctExits, ctStrays, ctDue, ctBox>>
      /\ ctRec' = [c \in Cts |-> IF c \in B /\ Claimed(c) THEN [ctRec[c] EXCEPT !.st = "exited"] ELSE ctRec[c]]
      /\ \E s \in Orders(U) : ctKept' = KeptWith(s)
      /\ ctJob' = [ctJob EXCEPT ![d].at = IF due = {} THEN "idle" ELSE "retry", ![d].batch = {}, ![d].todo = due]
    BY <1>1, <1>2 DEF Note
<1>4. ctJob[d] \in CtJobs /\ B \subseteq Cts \cup Strays /\ due \subseteq Cts
    <2>1. ctJob[d] \in CtJobs
        BY CtTypes
    <2> QED BY <1>1, <1>2, <2>1 DEF CtJobs, RemovalsDue
<1>5. PICK a \in {"idle", "retry"} : a = (IF due = {} THEN "idle" ELSE "retry")
    OBVIOUS
<1> DEFINE j == [ctJob[d] EXCEPT !.at = a, !.batch = {}, !.todo = due]
<1>6. j \in CtJobs /\ j.at = a /\ j.batch = {} /\ j.todo = due
    BY <1>4 DEF CtJobs, CtAts
<1>7. /\ ctJob'[d] = j /\ \A e \in Callers \ {d} : ctJob'[e] = ctJob[e]
      /\ ctJob' \in [Callers -> CtJobs]
    <2>1. ctJob' = [ctJob EXCEPT ![d] = j]
        BY <1>3, <1>5, CtTypes
    <2> HIDE DEF j
    <2> QED BY <1>6, <2>1, CtTypes
<1> HIDE DEF j
\* Who claims an exit in the batch has ended, and is past its start.
<1>8. ASSUME NEW c \in Cts
      PROVE  /\ ctRec[c] \in RecType /\ ctRec'[c] \in RecType
             /\ ctRec'[c].has = ctRec[c].has /\ ctRec'[c].removing = ctRec[c].removing
             /\ c \in B /\ Claimed(c) => ctRec'[c].st = "exited" /\ ctProc[c] = "ended" /\ ctRec[c].st # "none"
             /\ ~ (c \in B /\ Claimed(c)) => ctRec'[c] = ctRec[c]
    <2>1. ctRec[c] \in RecType /\ OwnOf(ctRec[c], ctHeld[c], ctProc[c], ctJob[c].at)
        BY CtOf
    <2>2. CASE c \in B /\ Claimed(c)
        <3>1. ctRec'[c] = [ctRec[c] EXCEPT !.st = "exited"]
            BY <1>3, <2>2
        <3>2. ctProc[c] = "ended"
            BY <1>1, <2>2 DEF CtInv, CtExitInv, NotedEnded, Noted
        <3>3. ctRec[c].st # "none"
            BY <2>1, <2>2 DEF OwnOf, Claimed, NoContainer
        <3> QED BY <2>1, <2>2, <3>1, <3>2, <3>3 DEF RecType
    <2>3. CASE ~ (c \in B /\ Claimed(c))
        BY <1>3, <2>1, <2>3
    <2> QED BY <2>2, <2>3
<1>9. CtHeldInv'
    <2>1. ASSUME NEW o \in Cts PROVE Leaving(o)' <=> Leaving(o)
        <3>1. ctProc'[o] = ctProc[o] /\ ctRec'[o].removing = ctRec[o].removing
              /\ (ctRec'[o].st = "none" <=> ctRec[o].st = "none")
            BY <1>3, <1>8
        <3> QED BY <3>1 DEF Leaving, Known
    <2>2. ASSUME NEW o \in Cts PROVE OwnOf(ctRec'[o], ctHeld[o], ctProc[o], ctJob'[o].at)
        <3>1. OwnOf(ctRec[o], ctHeld[o], ctProc[o], ctJob[o].at) /\ o \in Callers
            BY CtOf
        <3>2. OwnOf(ctRec[o], ctHeld[o], ctProc[o], ctJob'[o].at)
            <4>1. CASE o = d
                BY <1>3, <1>6, <1>7, <3>1, <4>1 DEF OwnOf, Making, Spawned
            <4> QED BY <1>7, <3>1, <4>1
        <3>3. CASE o \in B /\ Claimed(o)
            <4>1. "work" \in ctRec[o].has
                BY <3>3 DEF Claimed
            <4> QED BY <1>8, <3>2, <3>3, <4>1 DEF OwnOf, Making, Spawned
        <3>4. CASE ~ (o \in B /\ Claimed(o))
            BY <1>8, <3>2, <3>4
        <3> QED BY <3>3, <3>4
    <2>3. OwnCall'
        <3>1. \A o \in Cts : OwnOf(ctRec'[o], ctHeld'[o], ctProc'[o], ctJob'[o].at)
            BY <1>3, <2>2
        <3> QED BY <3>1 DEF OwnCall, OwnOf
    <2>4. ASSUME NEW e \in Callers PROVE RemovalOf(e)'
        <3>1. RemovalOf(e) /\ ctJob[e].todo \subseteq Cts
            BY CtTypes DEF CtInv, CtHeldInv, Removals, CtJobs
        <3>2. CASE e = d
            <4>1. \A c \in due : Leaving(c)
                <5>1. ASSUME NEW c \in due PROVE Leaving(c)
                    <6>1. c \in Cts /\ ctRec[c].removing
                        BY <1>2, <5>1 DEF RemovalsDue
                    <6>2. OwnOf(ctRec[c], ctHeld[c], ctProc[c], ctJob[c].at)
                        BY <6>1, CtOf
                    <6> QED BY <6>1, <6>2 DEF Leaving, OwnOf, NoContainer
                <5> QED BY <5>1
            <4> QED BY <1>4, <1>6, <1>7, <2>1, <3>2, <4>1 DEF RemovalOf, Letting
        <3>3. CASE e # d
            <4>1. PICK o : o = ctJob[e].c
                OBVIOUS
            <4>2. ctJob[e].at \in Letting => o \in Cts /\ Leaving(o)' /\ ListOf(ctJob[e], ctHeld[o])
                BY <2>1, <3>1, <4>1 DEF RemovalOf
            <4> QED BY <1>3, <1>7, <2>1, <3>1, <3>3, <4>1, <4>2 DEF RemovalOf, ListOf
        <3> QED BY <3>2, <3>3
    <2> QED BY <2>3, <2>4 DEF CtHeldInv, Removals
\* What is kept: the latest of what was kept and what nobody claims.
<1>10. PICK s \in Orders(U) : ctKept' = KeptWith(s)
    BY <1>3
<1> DEFINE t == ctKept \o s
<1>11. /\ ctKept \in Seq(Cts \cup Strays) /\ Distinct(ctKept)
       /\ \A x \in B : x \notin Among(ctKept) /\ x \notin ctExits /\ \A e \in Callers \ {d} : x \notin ctJob[e].batch
       /\ \A x \in ctExits : x \notin Among(ctKept)
    BY <1>1 DEF CtInv, CtTypeOK, CtExitInv, NotedOnce, Distinct
<1>12. s \in Seq(Cts \cup Strays) /\ Distinct(s) /\ Among(s) = U
    <2>1. U \subseteq Cts \cup Strays
        BY <1>4
    <2> HIDE DEF U
    <2> QED BY <2>1, OrdersFacts
<1>13. t \in Seq(Cts \cup Strays) /\ Distinct(t) /\ Among(t) = Among(ctKept) \cup U
    <2>1. Among(ctKept) \cap Among(s) = {}
        BY <1>11, <1>12
    <2> QED BY <1>11, <1>12, <2>1, ConcatFacts
<1>14. /\ ctKept' \in Seq(Cts \cup Strays) /\ Len(ctKept') <= MaxKept /\ Distinct(ctKept')
       /\ Among(ctKept') \subseteq Among(ctKept) \cup U
       /\ Len(ctKept') = MaxKept \/ Among(ctKept') = Among(ctKept) \cup U
    <2>1. ctKept' = LastOf(MaxKept, t)
        BY <1>10 DEF KeptWith
    <2> HIDE DEF t
    <2>2. MaxKept \in Nat
        BY ContainersAssumption
    <2> QED BY <1>13, <2>1, <2>2, LastOfFacts
<1>15. CtTypeOK' /\ CtJobType' /\ CtStraysType'
    <2>1. ctRec' \in [Cts -> RecType]
        <3>1. \A c \in Cts : ctRec'[c] \in RecType
            BY <1>8
        <3> QED BY <1>3, <3>1
    <2>2. /\ ctExits' \subseteq Cts \cup Strays /\ ctDue' \subseteq Cts
          /\ ctBox' \in [Cts -> {"ready", "gone"}] /\ ctStrays' \subseteq Strays
          /\ ctHeld' \in [Cts -> SUBSET Holdings] /\ ctProc' \in [Cts -> ProcType]
        BY <1>3, CtTypes DEF CtInv, CtTypeOK, CtStraysType
    <2> QED BY <1>7, <1>14, <2>1, <2>2, CtTypeFrom
<1>16. ctJob'[d].batch = {} /\ ctJob'[d].at \notin {"note", "record"}
    BY <1>6, <1>7
<1>17. NotedOnce'
    <2>1. \A e \in Callers : ctJob'[e].at # "note" => ctJob'[e].batch = {}
        BY <1>7, <1>16 DEF CtInv, CtExitInv, NotedOnce
    <2>2. ASSUME NEW e \in Callers, NEW x \in ctJob'[e].batch
          PROVE  x \notin ctExits /\ x \notin Among(ctKept') /\ \A f \in Callers \ {e} : x \notin ctJob'[f].batch
        <3>1. e # d /\ x \in ctJob[e].batch
            BY <1>7, <1>16, <2>2
        <3>2. x \notin ctExits /\ x \notin Among(ctKept) /\ \A f \in Callers \ {e} : x \notin ctJob[f].batch
            BY <3>1 DEF CtInv, CtExitInv, NotedOnce
        <3>3. x \notin B
            BY <1>1, <3>1, <3>2
        <3> QED BY <1>7, <1>14, <1>16, <3>2, <3>3
    <2>3. \A x \in ctExits : x \notin Among(ctKept')
        BY <1>11, <1>14
    <2> QED BY <1>3, <1>14, <2>1, <2>2, <2>3 DEF NotedOnce, Distinct
<1>18. \A x : Noted(x)' => Noted(x)
    BY <1>1, <1>3, <1>7, <1>14, <1>16 DEF Noted
<1>19. NotedEnded'
    BY <1>3, <1>18 DEF CtInv, CtExitInv, NotedEnded
\* Who drops out has as many beside it that ended.
<1>20. ASSUME NEW c \in Cts, c \in Among(ctKept) \cup U PROVE OnItsWay(c)' \/ c \in Among(ctKept')
    <2>1. CASE Among(ctKept') = Among(ctKept) \cup U
        BY <1>20, <2>1
    <2>2. CASE Len(ctKept') = MaxKept /\ c \notin Among(ctKept')
        <3>1. Among(ctKept') \subseteq EndedBeside(c)
            <4>1. ASSUME NEW x \in Among(ctKept') PROVE x \in EndedBeside(c)
                <5>1. Noted(x) /\ x # c /\ x \in Cts \cup Strays
                    <6>1. x \in Among(ctKept) \cup B
                        BY <1>14, <4>1
                    <6>2. Noted(x)
                        BY <1>1, <6>1 DEF Noted
                    <6>3. x \in Cts \cup Strays
                        BY <1>4, <1>11, <6>1, LenProperties DEF Among
                    <6> QED BY <2>2, <4>1, <6>2, <6>3
                <5> QED BY <5>1 DEF CtInv, CtExitInv, NotedEnded, EndedBeside
            <4> QED BY <4>1
        <3>2. IsFiniteSet(EndedBeside(c))
            <4>1. EndedBeside(c) \subseteq Cts \cup Strays
                BY DEF EndedBeside
            <4> QED BY <4>1, ContainersAssumption, FS_Subset
        <3>3. Cardinality(EndedBeside(c)) >= Len(ctKept')
            BY <1>14, <3>1, <3>2, AsMany
        <3>4. EndedBeside(c)' = EndedBeside(c)
            BY <1>3 DEF EndedBeside
        <3> QED BY <2>2, <3>3, <3>4 DEF OnItsWay
    <2> QED BY <1>14, <2>1, <2>2
<1>21. ASSUME NEW o \in Cts, OnItsWay(o), o \notin B PROVE OnItsWay(o)'
    <2>1. \A e \in Callers : o \in ctJob[e].batch => o \in ctJob'[e].batch
        BY <1>1, <1>7, <1>21
    <2> QED BY <1>3, <1>21, <2>1, OnItsWayStays
<1>22. ExitKept'
    <2>1. ASSUME NEW o \in Cts, ctJob'[o].at = "record", ctProc[o] = "ended"
          PROVE  OnItsWay(o)' \/ o \in Among(ctKept')
        <3>1. ctJob[o].at = "record" /\ o # d
            BY <1>7, <1>16, <2>1 DEF Callers
        <3>2. OnItsWay(o) \/ o \in Among(ctKept)
            BY <2>1, <3>1 DEF CtInv, CtExitInv, ExitKept
        <3>3. ~ Claimed(o)
            <4>1. OwnOf(ctRec[o], ctHeld[o], ctProc[o], ctJob[o].at)
                BY CtOf
            <4> QED BY <3>1, <4>1 DEF OwnOf, Claimed, Spawned
        <3>4. CASE o \in B
            BY <1>20, <3>3, <3>4
        <3>5. CASE o \notin B
            BY <1>20, <1>21, <3>2, <3>5
        <3> QED BY <3>4, <3>5
    <2> QED BY <1>3, <2>1 DEF ExitKept
<1>23. ExitOnItsWay'
    <2>1. ASSUME NEW o \in Cts, ctRec'[o].st = "running", ~ ctRec'[o].removing, ctProc[o] = "ended"
          PROVE  OnItsWay(o)'
        <3>1. ~ (o \in B /\ Claimed(o)) /\ ctRec'[o] = ctRec[o]
            BY <1>8, <2>1
        <3>2. OnItsWay(o)
            BY <2>1, <3>1 DEF CtInv, CtExitInv, ExitOnItsWay, OnItsWay
        <3>3. Claimed(o)
            <4>1. OwnOf(ctRec[o], ctHeld[o], ctProc[o], ctJob[o].at)
                BY CtOf
            <4> QED BY <2>1, <3>1, <4>1 DEF OwnOf, Claimed
        <3> QED BY <1>21, <3>1, <3>2, <3>3
    <2> QED BY <1>3, <2>1 DEF ExitOnItsWay, OnItsWay
<1> QED BY <1>9, <1>15, <1>17, <1>19, <1>22, <1>23 DEF CtInv, CtExitInv

-----------------------------------------------------------------------------
LEMMA CtStutter == ASSUME CtInv, UNCHANGED ctVars PROVE CtInv'
<1>1. CtTypeOK' /\ CtJobType' /\ CtStraysType'
    BY DEF ctVars, CtInv, CtTypeOK, CtJobType, CtStraysType
<1>2. CtHeldInv'
    BY BesideStep DEF ctVars, Beside
<1>3. CtExitInv'
    BY ExitsAsideStep DEF ctVars, ExitsAside
<1> QED BY <1>1, <1>2, <1>3 DEF CtInv

LEMMA CtInvStep == CtInv /\ [CtNext]_ctVars => CtInv'
<1> SUFFICES ASSUME CtInv, [CtNext]_ctVars PROVE CtInv'
    OBVIOUS
<1>1. ASSUME NEW c \in Cts, Calling(c) PROVE CtInv'
    BY <1>1, MakingSteps, SpawnSteps, RecordStep DEF Calling
<1>2. ASSUME NEW c \in Cts, Removing(c) PROVE CtInv'
    BY <1>2, BeginSteps, AsideSteps DEF Removing
<1>3. ASSUME NEW c \in Cts, End(c) \/ RetryDue(c) PROVE CtInv'
    BY <1>3, EndStep, AsideSteps
<1>4. ASSUME NEW d \in Callers, Drain(d) \/ Noting(d) PROVE CtInv'
    BY <1>4, DrainStep, NoteStep, BeginSteps, ReleaseSteps, LetGoSteps DEF Noting
<1>5. CASE StrayEnds
    BY <1>5, StrayStep
<1>6. CASE UNCHANGED ctVars
    BY <1>6, CtStutter
<1> QED BY <1>1, <1>2, <1>3, <1>4, <1>5, <1>6 DEF CtNext

LEMMA CtRecords == CtInv => CtTypeOK /\ RecordsKept
<1> SUFFICES ASSUME CtInv PROVE CtTypeOK /\ RecordsKept
    OBVIOUS
<1>1. ASSUME NEW c \in Cts, ctProc[c] # "unmade"
      PROVE  /\ ctHeld[c] \subseteq ctRec[c].has \/ ctJob[c].at \in {"record", "failed"}
             /\ "root" \in ctHeld[c] => "clone" \in ctHeld[c]
             /\ ctProc[c] \in {"running", "stopping"} => "root" \in ctHeld[c]
    <2>1. OwnOf(ctRec[c], ctHeld[c], ctProc[c], ctJob[c].at)
        BY CtOf
    <2> QED BY <1>1, <2>1 DEF OwnOf, Spawned
<1> QED BY <1>1 DEF RecordsKept, HeldIsRecorded, CtInv, CtExitInv

\* The runtime's account has its type: what a record says is held is of the four
\* things a container has, and no more than UNCLAIMED_EXITS exits are kept
\* (note_exits).
THEOREM ContainersTypeCorrect == CtSpec => []CtTypeOK
<1>1. CtSpec => []CtInv
    BY CtInvInit, CtInvStep, PTL DEF CtSpec
<1> QED BY <1>1, CtRecords, PTL

\* Whoever of several callers releases what a removed container had
\* (finish_removal), nothing is held that its record does not name, and an exit
\* read before the start recorded its handle reaches the record unless
\* UNCLAIMED_EXITS others came after it (note_exits, start_container).
THEOREM RecordsKeptHolds == CtSpec => []RecordsKept
<1>1. CtSpec => []CtInv
    BY CtInvInit, CtInvStep, PTL DEF CtSpec
<1> QED BY <1>1, CtRecords, PTL

-----------------------------------------------------------------------------
(* The four beside one another. *)

PartsInv == CtInv /\ NwInv /\ CrInv /\ PxInv

LEMMA PartsInvStep == PartsInv /\ [PartsNext]_PartsVars => PartsInv'
<1> SUFFICES ASSUME PartsInv, [PartsNext]_PartsVars PROVE PartsInv'
    OBVIOUS
<1>1. [CtNext]_ctVars /\ [NwNext]_nwVars /\ [CrNext]_crVars /\ [PxNext]_pxVars
    BY DEF PartsNext, PartsVars, Runtime, Cni, BackOff, KubeProxy
<1>2. CtInv'
    BY <1>1, CtInvStep DEF PartsInv
<1>3. NwInv'
    BY <1>1, NwInvStep DEF PartsInv
<1>4. CrInv'
    BY <1>1, CrInvStep DEF PartsInv
<1>5. PxInv'
    BY <1>1, PxInvStep DEF PartsInv
<1> QED BY <1>2, <1>3, <1>4, <1>5 DEF PartsInv

LEMMA PartsInvInit == PartsInit => PartsInv
BY CtInvInit, NwInvInit, CrInvInit, PxInvInit DEF PartsInit, PartsInv

\* The runtime's, the CNI's, the back-off's and the proxy's accounts keep their
\* types whichever of them runs (stormpump_runtime.rs, ipam.rs, crashloop.rs,
\* proxy.rs).
THEOREM PartsTypeCorrect == PartsSpec => []PartsTypeOK
<1>1. PartsInv => PartsTypeOK
    BY CtRecords DEF PartsInv, PartsTypeOK, NwInv, CrInv, CrType, PxInv, PxType
<1>2. PartsInit /\ [][PartsNext]_PartsVars => []PartsInv
    BY PartsInvInit, PartsInvStep, PTL
<1> QED BY <1>1, <1>2, PTL DEF PartsSpec
=============================================================================
