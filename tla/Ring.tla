-------------------------------- MODULE Ring --------------------------------
(***************************************************************************)
(* The kubelet's client of the stormpump engine                            *)
(* (pkg/kubelet/src/stormpump_ring.rs).  Callers hand requests to one      *)
(* thread, which owns a submission queue, a completion queue and an arena  *)
(* shared with the engine.  A request's payload has a region of the arena  *)
(* of its own until its completion is read; a request past its deadline is *)
(* answered and kept, because the engine may still act on it, and what it  *)
(* makes late is undone.                                                   *)
(*                                                                         *)
(* A caller makes one request, and what the engine makes for it goes by    *)
(* the caller's name, as its handle.  A deadline is a point the caller's   *)
(* age passes at any time.                                                 *)
(***************************************************************************)
EXTENDS Integers, FiniteSets, SequencesExt

CONSTANTS Callers,     \* requests, one caller each
          OpOf,        \* the operation of each
          SizeOf,      \* the bytes of its payload; 0 for a request without one
          ArenaLen,    \* Slots::len
          Align,       \* Slots::ALIGN
          SqLen,       \* entries of the submission queue
          RecentMax,   \* RECENT_EXITS
          Stuck,       \* callers who may find the thread stuck for longer than a deadline
          Nobody

\* Operations that leave something in the engine.
Creating == {"Spawn", "VolumeRegister", "SpecDefine", "SandboxAcquire"}
Ops == Creating \cup {"Query"}

ASSUME OpAssumption == OpOf \in [Callers -> Ops]
ASSUME SizeAssumption == SizeOf \in [Callers -> Nat]
ASSUME ArenaAssumption == ArenaLen \in Nat /\ Align \in Nat \ {0}
ASSUME RingAssumption == SqLen \in Nat \ {0} /\ RecentMax \in Nat \ {0} /\ Stuck \subseteq Callers
ASSUME NoCallerAssumption == Nobody \notin Callers

VARIABLES status,     \* idle, waiting, or the answer the caller got
          age,        \* fresh, late (past the deadline) or over (past twice that)
          waiter,     \* ExitWaiters::wanted: who waits for its workload's exit
          recent,     \* ExitWaiters::recent: unclaimed exits, oldest first
          later,      \* history: the unclaimed exits reported since a workload's own
          queue,      \* the channel to the thread
          parked,     \* requests waiting for room in the arena
          at, left,   \* where the thread is in its loop; parked requests still to try
          nextId,     \* the user_data of the next entry
          live,       \* Outstanding::live
          abandoned,  \* Outstanding::abandoned
          orphans,    \* Outstanding::orphans
          undo,       \* undo requests not yet on the ring
          used,       \* Slots::used
          arena,      \* the arena: whose bytes are where
          sq, work, cq,   \* submitted; taken by the engine; completed
          made        \* what the engine has of each handle

callerVars == <<status, age, waiter>>
threadVars == <<queue, parked, at, left, nextId, live, abandoned, orphans, undo, used, recent, later>>
engineVars == <<arena, sq, work, cq, made>>
vars == <<callerVars, threadVars, engineVars>>

Steps == {"undo", "parked", "recv", "completions", "expire", "retain"}
Ids == Nat \ {0}
Entries == [id : Ids, op : Ops \cup {"Stop", "Release"}, h : Callers]

-----------------------------------------------------------------------------
(* Slots: regions of the arena, ordered by offset, first fit. *)

\* The next offset at or after n that is aligned.
Up(n) == n + ((Align - (n % Align)) % Align)

\* Where a region would begin that goes before the i-th in use, and the room there.
Offset(i) == IF i = 1 THEN 0 ELSE Up(used[i - 1].at + used[i - 1].size)
\* Faulty: a region one byte longer than the gap goes in.
GapAndOne(i, n) == IF i > Len(used) THEN ArenaLen - n ELSE used[i].at - n + 1

Gap(i, n) == IF i > Len(used) THEN ArenaLen - n ELSE used[i].at - n

Fits(i, size) == Gap(i, Offset(i)) >= size
Places(size) == {i \in 1..(Len(used) + 1) : Fits(i, size)}
FirstFit(size) == CHOOSE i \in Places(size) : \A j \in Places(size) : i <= j

\* Slots::take and Slots::free.
Taken(size, id) ==
    LET i == FirstFit(size) IN InsertAt(used, i, [at |-> Offset(i), size |-> size, id |-> id])

HolderAt(id) == {i \in 1..Len(used) : used[i].id = id}
Freed(id) ==
    IF HolderAt(id) = {} THEN used ELSE RemoveAt(used, CHOOSE i \in HolderAt(id) : TRUE)

\* Mapping::write_arena.
Written(start, size, id) ==
    [b \in DOMAIN arena |-> IF b \in start..(start + size - 1) THEN id ELSE arena[b]]

-----------------------------------------------------------------------------
(* Callers. *)

Send(c) ==
    /\ status[c] = "idle"
    /\ status' = [status EXCEPT ![c] = "waiting"]
    /\ queue' = Append(queue, c)
    /\ UNCHANGED <<age, waiter, recent, later, parked, at, left, nextId, live, abandoned, orphans,
                   undo, used, engineVars>>

\* Time passes.  The caller's own limit, twice the deadline, is there for a
\* thread that is stuck.
Ageing(c) ==
    /\ status[c] = "waiting"
    /\ \/ age[c] = "fresh" /\ age' = [age EXCEPT ![c] = "late"]
       \/ age[c] = "late" /\ c \in Stuck /\ age' = [age EXCEPT ![c] = "over"]
    /\ UNCHANGED <<status, waiter, threadVars, engineVars>>

StopWaiting(c) ==
    /\ status[c] = "waiting" /\ age[c] = "over"
    /\ status' = [status EXCEPT ![c] = "timeout"]
    /\ UNCHANGED <<age, waiter, threadVars, engineVars>>

\* ExitWaiters::wait, by whom a spawn was answered (an exec).
WaitExit(c) ==
    /\ OpOf[c] = "Spawn" /\ status[c] = "ok" /\ waiter[c] = "none"
    /\ \/ /\ \E i \in 1..Len(recent) : recent[i] = c /\ recent' = RemoveAt(recent, i)
          /\ waiter' = [waiter EXCEPT ![c] = "heard"]
       \/ /\ \A i \in 1..Len(recent) : recent[i] # c
          /\ waiter' = [waiter EXCEPT ![c] = "waiting"]
          /\ UNCHANGED recent
    /\ UNCHANGED <<status, age, queue, parked, at, left, nextId, live, abandoned, orphans,
                   undo, used, later, engineVars>>

-----------------------------------------------------------------------------
(* The thread's loop: undo requests first, then the parked, then one new    *)
(* request, then every completion, then whatever is past its deadline.      *)

Late(c) == age[c] # "fresh"

\* An answer reaches a caller that still waits.
Reply(c, answer) ==
    status' = IF status[c] = "waiting" THEN [status EXCEPT ![c] = answer] ELSE status

\* Each that the ring has room for; the rest wait for the next turn.
SubmitUndo ==
    /\ at = "undo" /\ undo # <<>> /\ Len(sq) < SqLen
    /\ sq' = Append(sq, [id |-> nextId, op |-> Head(undo).op, h |-> Head(undo).h])
    /\ abandoned' = abandoned \cup {[id |-> nextId, op |-> Head(undo).op, signal |-> Head(undo).signal]}
    /\ nextId' = nextId + 1
    /\ undo' = Tail(undo)
    /\ UNCHANGED <<callerVars, queue, parked, at, left, live, orphans, used, recent, later,
                   arena, work, cq, made>>

\* (The id a full ring costs the code is not skipped here.)
UndoneForNow ==
    /\ at = "undo" /\ (undo = <<>> \/ Len(sq) = SqLen)
    /\ at' = "parked" /\ left' = Len(parked)
    /\ UNCHANGED <<callerVars, queue, parked, nextId, live, abandoned, orphans, undo, used,
                   recent, later, engineVars>>

\* place: put c on the ring, its payload in a region of its own, or answer why
\* not, or park it until there is room.  `rest` is what is parked besides.
NoRoom(c) == SizeOf[c] > 0 /\ Places(SizeOf[c]) = {}

Submitted(c) ==
    /\ Len(sq) < SqLen
    /\ used' = IF SizeOf[c] > 0 THEN Taken(SizeOf[c], nextId) ELSE used
    /\ sq' = Append(sq, [id |-> nextId, op |-> OpOf[c], h |-> c])
    /\ live' = live \cup {[id |-> nextId, who |-> c]}
    /\ UNCHANGED status

QueueFull(c) ==
    /\ Len(sq) = SqLen
    /\ Reply(c, "full")
    /\ UNCHANGED <<used, sq, live>>

Place(c, rest) ==
    \/ /\ SizeOf[c] > ArenaLen
       /\ Reply(c, "failed")
       /\ parked' = rest
       /\ UNCHANGED <<nextId, used, arena, sq, live>>
    \/ /\ SizeOf[c] <= ArenaLen /\ NoRoom(c)
       /\ parked' = Append(rest, c)
       /\ UNCHANGED <<status, nextId, used, arena, sq, live>>
    \/ /\ SizeOf[c] <= ArenaLen /\ ~ NoRoom(c)
       /\ arena' = IF SizeOf[c] > 0
                     THEN Written(Offset(FirstFit(SizeOf[c])), SizeOf[c], nextId) ELSE arena
       /\ Submitted(c) \/ QueueFull(c)
       /\ nextId' = nextId + 1
       /\ parked' = rest

PlaceOnly == UNCHANGED <<age, waiter, abandoned, orphans, undo, recent, later, work, cq, made>>

RetryParked ==
    /\ at = "parked" /\ left > 0
    /\ Place(Head(parked), Tail(parked))
    /\ left' = left - 1
    /\ UNCHANGED <<queue, at>> /\ PlaceOnly

RetriedAll ==
    /\ at = "parked" /\ left = 0
    /\ at' = "recv"
    /\ UNCHANGED <<callerVars, queue, parked, left, nextId, live, abandoned, orphans, undo,
                   used, recent, later, engineVars>>

\* A request is never submitted that its caller no longer waits for.
Receive ==
    /\ at = "recv" /\ queue # <<>>
    /\ \/ /\ Late(Head(queue))
          /\ Reply(Head(queue), "timeout")
          /\ UNCHANGED <<parked, nextId, used, arena, sq, live>>
       \/ ~ Late(Head(queue)) /\ Place(Head(queue), parked)
    /\ queue' = Tail(queue)
    /\ at' = "completions"
    /\ UNCHANGED left /\ PlaceOnly

NothingReceived ==
    /\ at = "recv" /\ queue = <<>>
    /\ at' = "completions"
    /\ UNCHANGED <<callerVars, queue, parked, left, nextId, live, abandoned, orphans, undo,
                   used, recent, later, engineVars>>

\* undo_late: the operation that takes back what op made.
UndoOf(op) == IF op = "Spawn" THEN "Stop" ELSE "Release"

\* Faulty: the signal goes with the request's own answer.
SettledAtAnswer(a, e) ==
    IF e.ok /\ a.op \in Creating
      THEN <<[op |-> UndoOf(a.op), h |-> e.h, signal |-> Nobody]>> ELSE <<>>
\* Faulty: a workload started late is left to run.
LeftRunning(a, e) ==
    IF e.ok /\ a.op \in Creating \ {"Spawn"}
      THEN <<[op |-> UndoOf(a.op), h |-> e.h, signal |-> a.signal]>> ELSE <<>>

\* A late success: what undoes it, and whose exit is now nobody else's.
LateUndo(a, e) ==
    IF e.ok /\ a.op \in Creating
      THEN <<[op |-> UndoOf(a.op), h |-> e.h, signal |-> a.signal]>> ELSE <<>>

\* Faulty: a workload stopped is not released.
NoOrphans(a, e) == orphans

OrphansWith(a, e) == IF e.ok /\ a.op = "Spawn" THEN orphans \cup {e.h} ELSE orphans

Answered(e) ==
    \E l \in live :
        /\ l.id = e.id
        /\ live' = live \ {l}
        /\ Reply(l.who, IF e.ok THEN "ok" ELSE "failed")
        /\ UNCHANGED <<abandoned, undo, orphans>>

AnsweredLate(e) ==
    \E a \in abandoned :
        /\ a.id = e.id
        /\ abandoned' = abandoned \ {a}
        /\ undo' = undo \o LateUndo(a, e)
        /\ orphans' = OrphansWith(a, e)
        /\ UNCHANGED <<status, live>>

Complete ==
    /\ at = "completions" /\ cq # <<>> /\ Head(cq).id # 0
    /\ Answered(Head(cq)) \/ AnsweredLate(Head(cq))
    /\ used' = Freed(Head(cq).id)
    /\ cq' = Tail(cq)
    /\ UNCHANGED <<age, waiter, queue, parked, at, left, nextId, recent, later, arena, sq, work, made>>

\* Faulty: an exit nobody waits for yet is dropped.
Unremembered(h) == recent

\* ExitWaiters::exited: an unclaimed exit is kept, the oldest making room.
Remember(h) ==
    Append(IF Len(recent) = RecentMax THEN Tail(recent) ELSE recent, h)

\* A workload ended: an orphan is released; an exit waited for is its
\* waiter's, any other is remembered.
ExitReported ==
    /\ at = "completions" /\ cq # <<>> /\ Head(cq).id = 0
    /\ LET h == Head(cq).h IN
         /\ undo' = IF h \in orphans
                      THEN Append(undo, [op |-> "Release", h |-> h, signal |-> Nobody]) ELSE undo
         /\ orphans' = orphans \ {h}
         /\ IF waiter[h] = "waiting"
               THEN waiter' = [waiter EXCEPT ![h] = "heard"] /\ UNCHANGED <<recent, later>>
               ELSE /\ recent' = Remember(h) /\ UNCHANGED waiter
                    /\ later' = [c \in Callers |-> IF c = h THEN 0 ELSE later[c] + 1]
    /\ cq' = Tail(cq)
    /\ UNCHANGED <<status, age, queue, parked, at, left, nextId, live, abandoned, used,
                   arena, sq, work, made>>

Drained ==
    /\ at = "completions" /\ cq = <<>>
    /\ at' = "expire"
    /\ UNCHANGED <<callerVars, queue, parked, left, nextId, live, abandoned, orphans, undo,
                   used, recent, later, engineVars>>

\* Outstanding::expire.
LateLive == {l \in live : Late(l.who)}
\* Faulty: a request on the ring is given up without a word.
NobodyTold == {}

LateCallers == {l.who : l \in LateLive}
\* A request given up on keeps its settled signal, for its undo to carry on.
GivenUp(l) == [id |-> l.id, op |-> OpOf[l.who], signal |-> l.who]

Expire ==
    /\ at = "expire"
    /\ status' = [c \in Callers |->
                     IF c \in LateCallers /\ status[c] = "waiting" THEN "timeout" ELSE status[c]]
    /\ live' = live \ LateLive
    /\ abandoned' = abandoned \cup {GivenUp(l) : l \in LateLive}
    /\ at' = "retain" /\ left' = Len(parked)
    /\ UNCHANGED <<age, waiter, queue, parked, nextId, orphans, undo, used, recent, later, engineVars>>

\* The parked requests past their deadline, one by one: each is answered, or
\* goes round to keep its place.  (The code reads the clock once for all of
\* them and the live; a deadline that passes meanwhile counts as passed before.)
\* Faulty: a request waiting for room has no deadline.
NoDeadline(c) == FALSE

Overdue(c) == Late(c)

Retain ==
    /\ at = "retain" /\ left > 0
    /\ LET c == Head(parked) IN
         \/ Overdue(c) /\ Reply(c, "timeout") /\ parked' = Tail(parked)
         \/ ~ Overdue(c) /\ parked' = Append(Tail(parked), c) /\ UNCHANGED status
    /\ left' = left - 1
    /\ UNCHANGED <<age, waiter, queue, at, nextId, live, abandoned, orphans, undo, used, recent, later,
                   engineVars>>

RetainedAll ==
    /\ at = "retain" /\ left = 0
    /\ at' = "undo"
    /\ UNCHANGED <<callerVars, queue, parked, left, nextId, live, abandoned, orphans, undo,
                   used, recent, later, engineVars>>

Thread ==
    \/ SubmitUndo \/ UndoneForNow \/ RetryParked \/ RetriedAll \/ Receive \/ NothingReceived
    \/ Complete \/ ExitReported \/ Drained \/ Expire \/ Retain \/ RetainedAll

-----------------------------------------------------------------------------
(* The engine: takes entries in order, answers them in any.  It reports a   *)
(* spawn before that workload's exit.                                       *)

Dispatch ==
    /\ sq # <<>>
    /\ work' = work \cup {Head(sq)}
    /\ sq' = Tail(sq)
    /\ UNCHANGED <<callerVars, threadVars, arena, cq, made>>

\* What becomes of the handle when the engine does what it was asked, or not.
\* Stopping what has exited is refused as stale; a release is refused while the
\* thing is in use.
Done(e) ==
    CASE e.op \in Creating                -> "up"
      [] e.op = "Stop" /\ made[e.h] = "up" -> "stopping"
      [] e.op = "Release"                 -> "gone"
      [] OTHER                            -> made[e.h]
Declined(e) == IF e.op = "Release" THEN "kept" ELSE made[e.h]
MayDecline(e) == e.op = "Stop" => made[e.h] # "up"

Answer(e) ==
    /\ \E ok \in BOOLEAN :
         /\ ok \/ MayDecline(e)
         /\ made' = [made EXCEPT ![e.h] = IF ok THEN Done(e) ELSE Declined(e)]
         /\ cq' = Append(cq, [id |-> e.id, ok |-> ok, h |-> e.h])
    /\ work' = work \ {e}
    /\ UNCHANGED <<callerVars, threadVars, arena, sq>>

Exit(h) ==
    /\ OpOf[h] = "Spawn" /\ made[h] \in {"up", "stopping"}
    /\ made' = [made EXCEPT ![h] = "exited"]
    /\ cq' = Append(cq, [id |-> 0, ok |-> TRUE, h |-> h])
    /\ UNCHANGED <<callerVars, threadVars, arena, sq, work>>

Engine == Dispatch \/ \E e \in work : Answer(e)

-----------------------------------------------------------------------------
Init ==
    /\ status = [c \in Callers |-> "idle"]
    /\ age = [c \in Callers |-> "fresh"]
    /\ waiter = [c \in Callers |-> "none"]
    /\ recent = <<>> /\ queue = <<>> /\ parked = <<>> /\ later = [c \in Callers |-> 0]
    /\ at = "undo" /\ left = 0 /\ nextId = 1
    /\ live = {} /\ abandoned = {} /\ orphans = {} /\ undo = <<>> /\ used = <<>>
    /\ arena = [b \in 0..(ArenaLen - 1) |-> 0]
    /\ sq = <<>> /\ work = {} /\ cq = <<>>
    /\ made = [c \in Callers |-> "none"]

Next ==
    \/ \E c \in Callers : Send(c) \/ Ageing(c) \/ StopWaiting(c) \/ WaitExit(c) \/ Exit(c)
    \/ Thread \/ Engine

Spec == Init /\ [][Next]_vars

\* The thread runs and time passes.  The engine owes nothing.
Fairness == WF_vars(Thread) /\ \A c \in Callers : WF_vars(Ageing(c))
FairSpec == Spec /\ Fairness

\* An engine that answers everything and ends what it stops.
EngineAnswers ==
    WF_vars(Engine) /\ \A h \in Callers : WF_vars(Exit(h) /\ made[h] = "stopping")

-----------------------------------------------------------------------------
Regions == [at : {n \in 0..(ArenaLen - 1) : n % Align = 0}, size : 1..ArenaLen, id : Ids]

TypeOK ==
    /\ status \in [Callers -> {"idle", "waiting", "ok", "failed", "full", "timeout"}]
    /\ age \in [Callers -> {"fresh", "late", "over"}]
    /\ waiter \in [Callers -> {"none", "waiting", "heard"}]
    /\ recent \in Seq(Callers) /\ queue \in Seq(Callers) /\ parked \in Seq(Callers)
    /\ later \in [Callers -> Nat]
    /\ at \in Steps /\ left \in Nat /\ nextId \in Ids
    /\ live \in SUBSET [id : Ids, who : Callers]
    /\ abandoned \in SUBSET [id : Ids, op : Ops \cup {"Stop", "Release"}, signal : Callers \cup {Nobody}]
    /\ orphans \in SUBSET Callers
    /\ undo \in Seq([op : {"Stop", "Release"}, h : Callers, signal : Callers \cup {Nobody}])
    /\ used \in Seq(Regions)
    /\ arena \in [0..(ArenaLen - 1) -> Nat]
    /\ sq \in Seq(Entries) /\ work \in SUBSET Entries
    /\ cq \in Seq([id : Nat, ok : BOOLEAN, h : Callers])
    /\ made \in [Callers -> {"none", "up", "stopping", "exited", "gone", "kept"}]

\* Whenever the engine reads a payload, or the thread an answer written over
\* it, the bytes are that request's: from its submission until its completion
\* is read no other payload touches them, whoever gave up meanwhile.
InFlight == ToSet(sq) \cup work
HasBytes(id, size) ==
    \E r \in ToSet(used) :
        r.id = id /\ r.size = size /\ \A b \in r.at..(r.at + r.size - 1) : arena[b] = id
PayloadIntact ==
    /\ \A e \in InFlight : e.op \in Ops /\ SizeOf[e.h] > 0 => HasBytes(e.id, SizeOf[e.h])
    /\ \A l \in live : SizeOf[l.who] > 0 => HasBytes(l.id, SizeOf[l.who])

\* A caller that stopped waiting for a stuck thread: an answer the thread still
\* sends it reaches nobody.
Left(c) == status[c] = "timeout" /\ age[c] = "over"

\* Whatever the engine holds belongs to a caller who was told of it, or
\* something still on its way will take it back: the answer to its request, an
\* undo, or the exit of an orphan.  Unless the caller left a stuck thread.
Accounted ==
    \A c \in Callers :
        made[c] \in {"up", "stopping", "exited"} =>
            \/ status[c] = "ok" \/ Left(c)
            \/ \E l \in live : l.who = c
            \/ \E a \in abandoned : a.signal = c /\ a.op \in Creating
            \/ \E i \in 1..Len(undo) : undo[i].h = c
            \/ \E e \in InFlight : e.h = c
            \/ c \in orphans

\* A mount given up on is settled (nothing carries its signal any more) only
\* once the engine has nothing of it left, or has refused to let go of it;
\* but for one whose caller left a stuck thread, whose signal goes with the
\* answer nobody hears.
SignalHeld(c) ==
    \/ c \in ToSet(queue) \cup ToSet(parked)
    \/ \E l \in live : l.who = c
    \/ \E a \in abandoned : a.signal = c
    \/ \E i \in 1..Len(undo) : undo[i].signal = c
SettledMeansGone ==
    \A c \in Callers :
        OpOf[c] = "VolumeRegister" /\ status[c] = "timeout" /\ ~ Left(c) /\ ~ SignalHeld(c)
            => made[c] \in {"none", "gone", "kept"}

\* So what a caller gave up on is neither lost while the engine has it nor
\* forgotten before it is undone.
GivenUpIsUndone == Accounted /\ SettledMeansGone

\* An exec waits for its exit only while that exit is still to be reported, or
\* when RECENT_EXITS others nobody waited for were reported after it.
ExitHeard ==
    \A c \in Callers :
        waiter[c] = "waiting" =>
            \/ made[c] \in {"up", "stopping"} \/ \E i \in 1..Len(cq) : cq[i].id = 0 /\ cq[i].h = c
            \/ later[c] >= RecentMax

\* The ring keeps what EngineCalls.tla promises a caller.
Thing == [c \in Callers |-> IF made[c] \in {"up", "stopping", "exited"} THEN "made" ELSE made[c]]
Calls == INSTANCE EngineCalls WITH Makers <- {c \in Callers : OpOf[c] \in Creating}, thing <- Thing
CallsKept == Calls!CallsSpec

\* Every call is answered, by the deadline if not by the engine: in the end
\* nobody waits.
EveryCallAnswered == <>[](\A c \in Callers : status[c] # "waiting")

\* By an engine that answers, what was made for a call given up is taken back.
Untaken(c) == status[c] = "timeout" /\ ~ Left(c) /\ made[c] \notin {"none", "gone", "kept"}
LateUndone == EngineAnswers => <>[](\A c \in Callers : ~ Untaken(c))
=============================================================================
