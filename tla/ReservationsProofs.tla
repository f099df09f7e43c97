------------------------- MODULE ReservationsProofs -------------------------
(***************************************************************************)
(* What Reservations.tla promises, for every set of keys, names and claims *)
(* and every sequence of calls.  The three safety invariants are inductive *)
(* together with the type invariant; each is proved action by action.      *)
(***************************************************************************)
EXTENDS Reservations, TLAPS

\* A request names resources of the table and asks an access on each.
LEMMA RequestedType ==
    ASSUME NEW k \in Keys, NEW req \in Requests
    PROVE  /\ DOMAIN Requested(k, req) \subseteq Resources
           /\ NameOf[k] \in DOMAIN Requested(k, req)
           /\ \A r \in DOMAIN Requested(k, req) : Requested(k, req)[r] \in Access
<1>1. PICK cs \in SUBSET Claims : req \in [cs -> Access]
    BY DEF Requests
<1>2. DOMAIN req = cs
    BY <1>1
<1>3. NameOf[k] \in Names
    BY NameOfAssumption
<1>4. DOMAIN Requested(k, req) = {NameOf[k]} \cup cs
    BY <1>2 DEF Requested
<1>5. \A r \in DOMAIN Requested(k, req) : Requested(k, req)[r] \in Access
    BY <1>1, <1>2, <1>4 DEF Requested, Access
<1> QED BY <1>1, <1>3, <1>4, <1>5 DEF Resources

\* Recording a request keeps both indexes well typed.
LEMMA RecordType ==
    ASSUME TableTypeOK, NEW k \in Keys, NEW req \in Requests, Record(k, req)
    PROVE  /\ holders' \in [Resources -> [Keys -> Mode]]
           /\ owned' \in [Keys -> SUBSET Resources]
<1> DEFINE W == Requested(k, req)
<1>1. /\ DOMAIN W \subseteq Resources
      /\ \A r \in DOMAIN W : W[r] \in Access
    BY RequestedType
<1>2. \A m \in Mode, a \in Access : Merged(m, a) \in Mode
    BY DEF Merged, Mode
<1>3. \A r \in DOMAIN W : [holders[r] EXCEPT ![k] = Merged(@, W[r])] \in [Keys -> Mode]
    BY <1>1, <1>2 DEF TableTypeOK
<1>4. holders' \in [Resources -> [Keys -> Mode]]
    BY <1>1, <1>3 DEF Record, TableTypeOK
<1>5. owned' \in [Keys -> SUBSET Resources]
    BY <1>1 DEF Record, TableTypeOK
<1> QED BY <1>4, <1>5

\* What a record changes: k gains a merged hold on what it asked for, and
\* nothing else moves.
LEMMA RecordEffect ==
    ASSUME TableTypeOK, NEW k \in Keys, NEW req \in Requests, Record(k, req),
           NEW r \in Resources, NEW o \in Keys
    PROVE  /\ holders'[r][o] =
                 IF o = k /\ r \in DOMAIN Requested(k, req)
                   THEN Merged(holders[r][o], Requested(k, req)[r])
                   ELSE holders[r][o]
           /\ r \in owned'[o] <=>
                 \/ r \in owned[o]
                 \/ o = k /\ r \in DOMAIN Requested(k, req)
<1>1. holders[r] \in [Keys -> Mode]
    BY DEF TableTypeOK
<1>2. holders'[r] = IF r \in DOMAIN Requested(k, req)
                      THEN [holders[r] EXCEPT ![k] = Merged(@, Requested(k, req)[r])]
                      ELSE holders[r]
    BY DEF Record
<1>3. owned' = [owned EXCEPT ![k] = @ \cup DOMAIN Requested(k, req)]
    BY DEF Record
<1>4. owned \in [Keys -> SUBSET Resources]
    BY DEF TableTypeOK
<1>5. r \in owned'[o] <=> \/ r \in owned[o]
                          \/ o = k /\ r \in DOMAIN Requested(k, req)
    BY <1>3, <1>4
<1> QED BY <1>1, <1>2, <1>5

\* What a release changes: k holds nothing, nobody else's hold moves.
LEMMA ReleaseEffect ==
    ASSUME TableTypeOK, IndexesAgree, NEW k \in Keys, Release(k),
           NEW r \in Resources, NEW o \in Keys
    PROVE  /\ holders'[r][o] = IF o = k THEN "none" ELSE holders[r][o]
           /\ owned'[o] = IF o = k THEN {} ELSE owned[o]
<1>1. holders[r] \in [Keys -> Mode]
    BY DEF TableTypeOK
<1>2. holders'[r] = IF r \in owned[k] THEN [holders[r] EXCEPT ![k] = "none"] ELSE holders[r]
    BY DEF Release, HoldersWithout
<1>3. r \notin owned[k] => holders[r][k] = "none"
    BY DEF IndexesAgree
<1>4. owned'[o] = IF o = k THEN {} ELSE owned[o]
    BY DEF Release, TableTypeOK
<1> QED BY <1>1, <1>2, <1>3, <1>4

-----------------------------------------------------------------------------
\* The type invariant.
LEMMA TypeStep == TableTypeOK /\ [TableNext]_tableVars => TableTypeOK'
<1> SUFFICES ASSUME TableTypeOK, [TableNext]_tableVars PROVE TableTypeOK'
    OBVIOUS
<1>1. ASSUME NEW k \in Keys, NEW req \in Requests, Granted(k, req) PROVE TableTypeOK'
    BY <1>1, RecordType DEF Granted, TableTypeOK
<1>2. ASSUME NEW k \in Keys, NEW req \in Requests, Refused(k, req) PROVE TableTypeOK'
    BY <1>2 DEF Refused, TableTypeOK
<1>3. ASSUME NEW k \in Keys, NEW req \in Requests, Seed(k, req) PROVE TableTypeOK'
    BY <1>3, RecordType DEF Seed, TableTypeOK
<1>4. ASSUME NEW k \in Keys, Release(k) PROVE TableTypeOK'
    <2>1. \A r \in Resources : [holders[r] EXCEPT ![k] = "none"] \in [Keys -> Mode]
        BY DEF TableTypeOK, Mode
    <2>2. holders' \in [Resources -> [Keys -> Mode]]
        BY <1>4, <2>1 DEF Release, HoldersWithout, TableTypeOK
    <2>3. waiting' \in [Resources -> SUBSET Keys]
        BY <1>4 DEF Release, WaitersWithout, TableTypeOK
    <2>4. ready' \in SUBSET Keys
        BY <1>4 DEF Release, Woken, TableTypeOK
    <2> QED BY <1>4, <2>2, <2>3, <2>4 DEF Release, TableTypeOK
<1>5. ASSUME NEW k \in Keys, NEW cs \in SUBSET Claims, TryOperations(k, cs) PROVE TableTypeOK'
    BY <1>5 DEF TryOperations, Locked, TableTypeOK
<1>6. ASSUME NEW k \in Keys, DropOperations(k) PROVE TableTypeOK'
    BY <1>6 DEF DropOperations, Unlocked, TableTypeOK
<1>7. ASSUME NEW k \in Keys, Take(k) PROVE TableTypeOK'
    BY <1>7 DEF Take, TableTypeOK
<1>8. CASE UNCHANGED tableVars
    BY <1>8 DEF tableVars, TableTypeOK
<1> QED BY <1>1, <1>2, <1>3, <1>4, <1>5, <1>6, <1>7, <1>8 DEF TableNext, Acquire

-----------------------------------------------------------------------------
\* The table invariant, inductive as it stands.
TableInv == TableTypeOK /\ IndexesAgree /\ WaitersHaveHolder /\ ConflictsAreSeeded

\* A step that leaves both indexes, the wait sets and the history alone.
LEMMA IdleStep ==
    ASSUME TableInv, TableTypeOK', UNCHANGED <<holders, owned, waiting, seeded>>
    PROVE  TableInv'
BY DEF TableInv, IndexesAgree, WaitersHaveHolder, ConflictsAreSeeded

\* The indexes agree after a record, whoever made it.
LEMMA RecordIndexes ==
    ASSUME TableInv, NEW k \in Keys, NEW req \in Requests, Record(k, req)
    PROVE  IndexesAgree'
<1> SUFFICES ASSUME NEW o \in Keys, NEW r \in Resources
             PROVE  r \in owned'[o] <=> holders'[r][o] # "none"
    BY DEF IndexesAgree
<1>1. r \in owned[o] <=> holders[r][o] # "none"
    BY DEF TableInv, IndexesAgree
<1>2. r \in DOMAIN Requested(k, req) => Requested(k, req)[r] \in Access
    BY RequestedType
<1> QED BY <1>1, <1>2, RecordEffect DEF TableInv, Merged, Access

\* A record takes no hold away, so a waiter keeps its holder.
LEMMA RecordWaiters ==
    ASSUME TableInv, NEW k \in Keys, NEW req \in Requests, Record(k, req),
           UNCHANGED waiting
    PROVE  WaitersHaveHolder'
<1> SUFFICES ASSUME NEW r \in Resources, NEW w \in waiting[r]
             PROVE  \E o \in Keys \ {w} : holders'[r][o] # "none"
    BY DEF WaitersHaveHolder
<1>1. PICK o \in Keys \ {w} : holders[r][o] # "none"
    BY DEF TableInv, WaitersHaveHolder
<1>2. r \in DOMAIN Requested(k, req) => Requested(k, req)[r] \in Access
    BY RequestedType
<1>3. holders'[r][o] # "none"
    BY <1>1, <1>2, RecordEffect DEF TableInv, Merged, Access
<1> QED BY <1>1, <1>3

LEMMA GrantedStep ==
    ASSUME TableInv, NEW k \in Keys, NEW req \in Requests, Granted(k, req)
    PROVE  ConflictsAreSeeded'
<1> SUFFICES ASSUME NEW r \in Resources, NEW a \in Keys, NEW b \in Keys, a # b,
                    holders'[r][a] = "exclusive", holders'[r][b] # "none"
             PROVE  a \in seeded \/ b \in seeded
    BY DEF ConflictsAreSeeded, Granted
<1> DEFINE W == Requested(k, req)
<1>0. TableTypeOK /\ Record(k, req)
    BY DEF TableInv, Granted
<1>1. \A o \in Keys : holders'[r][o] = IF o = k /\ r \in DOMAIN W
                                         THEN Merged(holders[r][o], W[r])
                                         ELSE holders[r][o]
    BY <1>0, RecordEffect
<1>2. r \in DOMAIN W => ~ Conflicts(k, r, W[r])
    BY DEF Granted, Blocked
<1>3. r \in DOMAIN W => \A o \in Keys \ {k} :
          /\ holders[r][o] # "exclusive"
          /\ W[r] = "exclusive" => holders[r][o] = "none"
    BY <1>2 DEF Conflicts
<1>4. CASE holders[r][a] = "exclusive" /\ holders[r][b] # "none"
    BY <1>4 DEF TableInv, ConflictsAreSeeded
<1>5. CASE r \notin DOMAIN W \/ (a # k /\ b # k)
    BY <1>1, <1>4, <1>5
<1>6. CASE r \in DOMAIN W /\ a = k
    <2>1. holders[r][b] # "none"
        BY <1>1, <1>6
    <2>2. W[r] # "exclusive"
        BY <1>3, <1>6, <2>1
    <2>3. holders[r][a] = "exclusive"
        BY <1>1, <1>6, <2>2 DEF Merged
    <2> QED BY <1>4, <2>1, <2>3
<1>7. CASE r \in DOMAIN W /\ b = k
    <2>1. holders[r][a] = "exclusive"
        BY <1>1, <1>7
    <2> QED BY <1>3, <1>7, <2>1
<1> QED BY <1>5, <1>6, <1>7

LEMMA SeedConflicts ==
    ASSUME TableInv, NEW k \in Keys, NEW req \in Requests, Seed(k, req)
    PROVE  ConflictsAreSeeded'
<1> SUFFICES ASSUME NEW r \in Resources, NEW a \in Keys, NEW b \in Keys, a # b,
                    holders'[r][a] = "exclusive", holders'[r][b] # "none"
             PROVE  a \in seeded' \/ b \in seeded'
    BY DEF ConflictsAreSeeded
<1>1. CASE a = k \/ b = k
    BY <1>1 DEF Seed
<1>2. CASE a # k /\ b # k
    <2>1. holders[r][a] = "exclusive" /\ holders[r][b] # "none"
        BY <1>2, RecordEffect DEF Seed, TableInv
    <2> QED BY <2>1 DEF Seed, TableInv, ConflictsAreSeeded
<1> QED BY <1>1, <1>2

LEMMA RefusedWaiters ==
    ASSUME TableInv, NEW k \in Keys, NEW req \in Requests, Refused(k, req)
    PROVE  WaitersHaveHolder'
<1> SUFFICES ASSUME NEW r \in Resources, NEW w \in waiting'[r]
             PROVE  \E o \in Keys \ {w} : holders[r][o] # "none"
    BY DEF WaitersHaveHolder, Refused
<1>1. CASE w \in waiting[r]
    BY <1>1 DEF TableInv, WaitersHaveHolder
<1>2. CASE w \notin waiting[r]
    <2>1. w = k /\ r \in Blocked(k, req)
        BY <1>2 DEF Refused
    <2> QED BY <2>1 DEF Blocked, Conflicts
<1> QED BY <1>1, <1>2

LEMMA ReleaseStep ==
    ASSUME TableInv, TableTypeOK', NEW k \in Keys, Release(k)
    PROVE  TableInv'
<1>0. TableTypeOK /\ IndexesAgree
    BY DEF TableInv
<1>1. \A r \in Resources, o \in Keys :
          /\ holders'[r][o] = IF o = k THEN "none" ELSE holders[r][o]
          /\ owned'[o] = IF o = k THEN {} ELSE owned[o]
    BY <1>0, ReleaseEffect
<1>2. IndexesAgree'
    BY <1>0, <1>1 DEF IndexesAgree
<1>3. WaitersHaveHolder'
    <2> SUFFICES ASSUME NEW r \in Resources, NEW w \in waiting'[r]
                 PROVE  \E o \in Keys \ {w} : holders'[r][o] # "none"
        BY DEF WaitersHaveHolder
    <2>1. r \notin owned[k] /\ w \in waiting[r] /\ w # k
        BY DEF Release, WaitersWithout
    <2>2. PICK o \in Keys \ {w} : holders[r][o] # "none"
        BY <2>1 DEF TableInv, WaitersHaveHolder
    <2>3. o # k
        BY <1>0, <2>1, <2>2 DEF IndexesAgree
    <2> QED BY <1>1, <2>2, <2>3
<1>4. ConflictsAreSeeded'
    BY <1>1 DEF ConflictsAreSeeded, TableInv, Release
<1> QED BY <1>2, <1>3, <1>4 DEF TableInv

LEMMA TableStep == TableInv /\ [TableNext]_tableVars => TableInv'
<1> SUFFICES ASSUME TableInv, [TableNext]_tableVars PROVE TableInv'
    OBVIOUS
<1>0. TableTypeOK'
    BY TypeStep DEF TableInv
<1>1. ASSUME NEW k \in Keys, NEW req \in Requests, Granted(k, req) PROVE TableInv'
    BY <1>0, <1>1, RecordIndexes, RecordWaiters, GrantedStep DEF Granted, TableInv
<1>2. ASSUME NEW k \in Keys, NEW req \in Requests, Refused(k, req) PROVE TableInv'
    <2>1. IndexesAgree' /\ ConflictsAreSeeded'
        BY <1>2 DEF Refused, TableInv, IndexesAgree, ConflictsAreSeeded
    <2> QED BY <1>0, <1>2, <2>1, RefusedWaiters DEF TableInv
<1>3. ASSUME NEW k \in Keys, NEW req \in Requests, Seed(k, req) PROVE TableInv'
    BY <1>0, <1>3, RecordIndexes, RecordWaiters, SeedConflicts DEF Seed, TableInv
<1>4. ASSUME NEW k \in Keys, Release(k) PROVE TableInv'
    BY <1>0, <1>4, ReleaseStep
<1>5. ASSUME NEW k \in Keys, NEW cs \in SUBSET Claims, TryOperations(k, cs) PROVE TableInv'
    BY <1>0, <1>5, IdleStep DEF TryOperations
<1>6. ASSUME NEW k \in Keys, DropOperations(k) PROVE TableInv'
    BY <1>0, <1>6, IdleStep DEF DropOperations
<1>7. ASSUME NEW k \in Keys, Take(k) PROVE TableInv'
    BY <1>0, <1>7, IdleStep DEF Take
<1>8. CASE UNCHANGED tableVars
    BY <1>0, <1>8, IdleStep DEF tableVars
<1> QED BY <1>1, <1>2, <1>3, <1>4, <1>5, <1>6, <1>7, <1>8 DEF TableNext, Acquire

LEMMA TableStart == TableInit => TableInv
BY DEF TableInit, TableInv, TableTypeOK, IndexesAgree, WaitersHaveHolder,
       ConflictsAreSeeded, Mode

\* Every reachable table is well typed (Reservations::state).
THEOREM TableTypeCorrect == TableSpec => []TableTypeOK
<1>1. TableInv => TableTypeOK
    BY DEF TableInv
<1> QED BY <1>1, TableStart, TableStep, PTL DEF TableSpec

\* A release that walks `owned` leaves no hold behind: the two indexes of the
\* table are one relation.
THEOREM TableIndexesAgree == TableSpec => []IndexesAgree
<1>1. TableInv => IndexesAgree
    BY DEF TableInv
<1> QED BY <1>1, TableStart, TableStep, PTL DEF TableSpec

\* A refused workload always has a release to come that wakes it, and
\* `acquire` never admits a conflicting holder; only recovery records one.
THEOREM TableKeepsHolds == TableSpec => []TableKept
<1>1. TableInv => TableKept
    BY DEF TableInv, TableKept
<1> QED BY <1>1, TableStart, TableStep, PTL DEF TableSpec

-----------------------------------------------------------------------------
\* What each step may do to a waiter and to an exclusive hold.
LEMMA StepPromises == TableInv /\ [TableNext]_tableVars => [WaiterLeavesAwake /\ ExclusiveUntilReleased]_tableVars
<1> SUFFICES ASSUME TableInv, TableNext
             PROVE  WaiterLeavesAwake /\ ExclusiveUntilReleased
    OBVIOUS
<1>0. TableTypeOK /\ IndexesAgree
    BY DEF TableInv
<1>1. ASSUME NEW k \in Keys, NEW req \in Requests, Record(k, req), UNCHANGED waiting
      PROVE  WaiterLeavesAwake /\ ExclusiveUntilReleased
    BY <1>0, <1>1, RecordEffect DEF WaiterLeavesAwake, ExclusiveUntilReleased, Merged
<1>2. ASSUME NEW k \in Keys, NEW req \in Requests, Refused(k, req)
      PROVE  WaiterLeavesAwake /\ ExclusiveUntilReleased
    BY <1>2 DEF Refused, WaiterLeavesAwake, ExclusiveUntilReleased
<1>3. ASSUME NEW k \in Keys, Release(k)
      PROVE  WaiterLeavesAwake /\ ExclusiveUntilReleased
    <2>1. ExclusiveUntilReleased
        BY <1>0, <1>3, ReleaseEffect DEF ExclusiveUntilReleased
    <2>2. /\ owned'[k] = {} /\ \A o \in Keys \ {k} : owned'[o] = owned[o]
          /\ \A r \in Resources : waiting'[r] = IF r \in owned[k] THEN {} ELSE waiting[r] \ {k}
        BY <1>0, <1>3 DEF Release, WaitersWithout, TableTypeOK
    <2>3. LetsGo(k)
        BY <2>2 DEF LetsGo
    <2>4. \A r \in owned[k] : waiting[r] \subseteq ready'
        BY <1>0, <1>3 DEF Release, Woken, TableTypeOK
    <2>5. WaiterLeavesAwake
        BY <2>2, <2>3, <2>4 DEF WaiterLeavesAwake
    <2> QED BY <2>1, <2>5
<1>4. ASSUME UNCHANGED <<holders, waiting, owned>>
      PROVE  WaiterLeavesAwake /\ ExclusiveUntilReleased
    BY <1>4 DEF WaiterLeavesAwake, ExclusiveUntilReleased
<1> QED BY <1>1, <1>2, <1>3, <1>4
        DEF TableNext, Acquire, Granted, Seed, TryOperations, DropOperations, Take

\* No refused workload is forgotten (workload.rs, release): whoever waits on
\* what a key gives up is queued, and leaves a wait set in no other way but by
\* being let go of itself.
THEOREM TableNoLostWake == TableSpec => NoLostWake
<1>1. [WaiterLeavesAwake /\ ExclusiveUntilReleased]_tableVars => [WaiterLeavesAwake]_tableVars
    OBVIOUS
<1> QED BY <1>1, TableStart, TableStep, StepPromises, PTL DEF TableSpec, NoLostWake

\* An exclusive reservation is never downgraded or taken over; it ends only
\* with the whole release of its key.
THEOREM TableNeverDowngraded == TableSpec => NeverDowngraded
<1>1. [WaiterLeavesAwake /\ ExclusiveUntilReleased]_tableVars => [ExclusiveUntilReleased]_tableVars
    OBVIOUS
<1> QED BY <1>1, TableStart, TableStep, StepPromises, PTL DEF TableSpec, NeverDowngraded
=============================================================================
