---------------------------- MODULE Reservations ----------------------------
(***************************************************************************)
(* The node's resource-admission table (pkg/kubelet/src/workload.rs,       *)
(* `Reservations`).  A workload (a Pod, a static Pod or a VMI, one key per *)
(* UID) reserves its name and its claims before anything of it is started, *)
(* and keeps them until its cleanup is confirmed.  A refused workload      *)
(* waits on what blocked it and is put on the ready queue when a holder    *)
(* lets go.  Every method runs under one mutex, so every method is one     *)
(* step here.                                                              *)
(***************************************************************************)
CONSTANTS Keys,      \* workload keys: (kind, namespace, name, UID)
          Names,     \* Resource::Name(kind, namespace, name)
          Claims,    \* Resource::Claim(namespace, name)
          NameOf,    \* the name each key reserves
          Nobody     \* the holder of a free operation lock

ASSUME NameOfAssumption == NameOf \in [Keys -> Names]
ASSUME DisjointAssumption == Names \cap Claims = {}
ASSUME NobodyAssumption == Nobody \notin Keys

Resources == Names \cup Claims

\* Access, and "none" for a key that is not in holders[r] at all.
Access == {"shared", "exclusive"}
Mode == Access \cup {"none"}

\* A request: the access asked for on each of a set of claims.
Requests == UNION {[cs -> Access] : cs \in SUBSET Claims}

VARIABLES holders,     \* holders[r][k]: how k holds r
          owned,       \* the same relation by key, as the code keeps it
          waiting,     \* waiting[r]: the keys refused over r
          operations,  \* the per-claim mutation locks: who has each
          ready,       \* the executor's queue, as far as this table fills it
          seeded       \* history: the keys whose reservation was recorded, not granted

tableVars == <<holders, owned, waiting, operations, ready, seeded>>

-----------------------------------------------------------------------------
\* What an acquire or a seed of k over req asks for: the name, exclusively,
\* and the claims.
Requested(k, req) ==
    [r \in {NameOf[k]} \cup DOMAIN req |-> IF r = NameOf[k] THEN "exclusive" ELSE req[r]]

\* Faulty: an exclusive holder does not refuse a shared request.
ConflictsIgnoringMode(k, r, a) ==
    \E o \in Keys \ {k} : holders[r][o] # "none" /\ a = "exclusive"

\* Another key holds r in a way that cannot coexist with access a.
Conflicts(k, r, a) ==
    \E o \in Keys \ {k} : /\ holders[r][o] # "none"
                          /\ a = "exclusive" \/ holders[r][o] = "exclusive"

\* The requested resources that refuse the request.
Blocked(k, req) ==
    {r \in DOMAIN Requested(k, req) : Conflicts(k, r, Requested(k, req)[r])}

\* Faulty: the last request decides.
MergedLast(old, access) == access

\* A key's hold after it asks again: an exclusive one is never downgraded, a
\* shared one is upgraded.
Merged(old, access) == IF access = "exclusive" \/ old = "none" THEN access ELSE old

\* Enter k as a holder of everything requested.
Record(k, req) ==
    /\ holders' = [r \in Resources |->
                     IF r \in DOMAIN Requested(k, req)
                       THEN [holders[r] EXCEPT ![k] = Merged(@, Requested(k, req)[r])]
                       ELSE holders[r]]
    /\ owned' = [owned EXCEPT ![k] = @ \cup DOMAIN Requested(k, req)]

Granted(k, req) ==
    /\ Blocked(k, req) = {}
    /\ Record(k, req)
    /\ UNCHANGED <<waiting, operations, ready, seeded>>

Refused(k, req) ==
    /\ Blocked(k, req) # {}
    /\ waiting' = [r \in Resources |->
                     IF r \in Blocked(k, req) THEN waiting[r] \cup {k} ELSE waiting[r]]
    /\ UNCHANGED <<holders, owned, operations, ready, seeded>>

\* Reservations::acquire: all of the request or none of it.
Acquire(k, req) == Granted(k, req) \/ Refused(k, req)

\* Reservations::seed: an observed holder is a fact, conflicting or not.
Seed(k, req) ==
    /\ Record(k, req)
    /\ seeded' = seeded \cup {k}
    /\ UNCHANGED <<waiting, operations, ready>>

WokenByName(k) == waiting[NameOf[k]]
WaitersLeft(k) == [r \in Resources |-> waiting[r] \ {k}]

\* The table without k, walked by what k owns; who that wakes; who waits on.
HoldersWithout(k) ==
    [r \in Resources |-> IF r \in owned[k] THEN [holders[r] EXCEPT ![k] = "none"] ELSE holders[r]]
Woken(k) == UNION {waiting[r] : r \in owned[k]}
WaitersWithout(k) ==
    [r \in Resources |-> IF r \in owned[k] THEN {} ELSE waiting[r] \ {k}]

\* Reservations::release: the key holds and awaits nothing; every key waiting
\* on something it held goes on the queue.
Release(k) ==
    /\ holders' = HoldersWithout(k)
    /\ owned' = [owned EXCEPT ![k] = {}]
    /\ waiting' = WaitersWithout(k)
    /\ ready' = ready \cup Woken(k)
    /\ seeded' = seeded \ {k}
    /\ UNCHANGED operations

\* Faulty: the locks of everybody else are forgotten.
LockedAlone(ops, k, cs) == [c \in cs |-> k]

\* Reservations::try_operations: every lock or none, never waiting.
Free(cs) == \A c \in cs : operations[c] = Nobody
Locked(ops, k, cs) == [c \in Claims |-> IF c \in cs THEN k ELSE ops[c]]
Unlocked(ops, k) == [c \in Claims |-> IF ops[c] = k THEN Nobody ELSE ops[c]]

TryOperations(k, cs) ==
    /\ Free(cs)
    /\ operations' = Locked(operations, k, cs)
    /\ UNCHANGED <<holders, owned, waiting, ready, seeded>>

\* The pass that took the guards drops them.
DropOperations(k) ==
    /\ \E c \in Claims : operations[c] = k
    /\ operations' = Unlocked(operations, k)
    /\ UNCHANGED <<holders, owned, waiting, ready, seeded>>

\* The executor takes a key off the queue (WorkQueue::next).
Take(k) ==
    /\ k \in ready
    /\ ready' = ready \ {k}
    /\ UNCHANGED <<holders, owned, waiting, operations, seeded>>

-----------------------------------------------------------------------------
TableInit ==
    /\ holders = [r \in Resources |-> [k \in Keys |-> "none"]]
    /\ owned = [k \in Keys |-> {}]
    /\ waiting = [r \in Resources |-> {}]
    /\ operations = [c \in Claims |-> Nobody]
    /\ ready = {}
    /\ seeded = {}

TableNext ==
    \E k \in Keys :
        \/ \E req \in Requests : Acquire(k, req) \/ Seed(k, req)
        \/ \E cs \in SUBSET Claims : TryOperations(k, cs)
        \/ Release(k)
        \/ DropOperations(k)
        \/ Take(k)

TableSpec == TableInit /\ [][TableNext]_tableVars

-----------------------------------------------------------------------------
TableTypeOK ==
    /\ holders \in [Resources -> [Keys -> Mode]]
    /\ owned \in [Keys -> SUBSET Resources]
    /\ waiting \in [Resources -> SUBSET Keys]
    /\ operations \in [Claims -> Keys \cup {Nobody}]
    /\ ready \in SUBSET Keys
    /\ seeded \in SUBSET Keys

\* The two indexes the table keeps, by resource and by key, are the same
\* relation: a release that walks `owned` leaves no hold behind.
IndexesAgree ==
    \A k \in Keys, r \in Resources : r \in owned[k] <=> holders[r][k] # "none"

\* A refused key never waits on something nobody else holds: there is always a
\* release still to come that will wake it.
WaitersHaveHolder ==
    \A r \in Resources : \A k \in waiting[r] :
        \E o \in Keys \ {k} : holders[r][o] # "none"

\* Two keys hold a resource against each other only when one of them was
\* recorded by recovery (`seed`): `acquire` never admits a conflict, neither
\* by a first request nor by upgrading a shared hold.
ConflictsAreSeeded ==
    \A r \in Resources : \A k, o \in Keys :
        /\ k # o
        /\ holders[r][k] = "exclusive"
        /\ holders[r][o] # "none"
        => k \in seeded \/ o \in seeded

\* What is held is rightly held, and what waits for it will be woken.
TableKept == WaitersHaveHolder /\ ConflictsAreSeeded

\* k lets go of all it holds and awaits, and nobody else of anything.
LetsGo(k) ==
    /\ owned'[k] = {} /\ \A o \in Keys \ {k} : owned'[o] = owned[o]
    /\ \A r \in Resources : waiting'[r] \subseteq waiting[r] \ {k}

\* What the table promises of every single step.  Whoever waits on what another
\* key gives up is on the queue, every waiter of it; and a waiter leaves a wait
\* set only onto the queue or because it is let go of itself (no lost wake-up).
\* An exclusive hold ends only when its key lets go of everything it holds
\* (nobody downgrades, steals or half-releases it).
WaiterLeavesAwake ==
    \A r \in Resources : \A k \in waiting[r] :
        /\ k \notin waiting'[r] => k \in ready' \/ LetsGo(k)
        /\ (\E o \in Keys \ {k} : r \in owned[o] \ owned'[o]) => k \in ready'
ExclusiveUntilReleased ==
    \A r \in Resources, k \in Keys :
        holders[r][k] = "exclusive" => holders'[r][k] = "exclusive" \/ owned'[k] = {}

NoLostWake == [][WaiterLeavesAwake]_tableVars
NeverDowngraded == [][ExclusiveUntilReleased]_tableVars
=============================================================================
