----------------------------- MODULE EngineCalls -----------------------------
(***************************************************************************)
(* What a caller of the engine's ring is promised, with no ring, no ids    *)
(* and no queues (stormpump_ring.rs, RingClient and its Outstanding).      *)
(* A call is answered once: it is done, and the caller owns what the       *)
(* engine made for it; it is refused, and nothing was made; or it is given *)
(* up, and what the engine may still make is taken back.                   *)
(***************************************************************************)
CONSTANTS Callers,   \* calls: one request each
          Makers     \* the calls that make something in the engine

VARIABLES status,    \* what the caller knows of its call
          thing      \* what the engine made for it: none, made, gone or kept

callVars == <<status, thing>>

Answers == {"ok", "failed", "full", "timeout"}

Move(c, from, to) == status[c] \in from /\ status' = [status EXCEPT ![c] = to]

Call(c) == Move(c, {"idle"}, "waiting") /\ UNCHANGED thing

\* The engine makes the thing at any time after the call, given up or not.
Make(c) ==
    /\ c \in Makers /\ status[c] \in {"waiting", "timeout"} /\ thing[c] = "none"
    /\ thing' = [thing EXCEPT ![c] = "made"]
    /\ UNCHANGED status

Succeed(c) ==
    /\ Move(c, {"waiting"}, "ok")
    /\ c \in Makers => thing[c] = "made"
    /\ UNCHANGED thing

Decline(c) ==
    /\ Move(c, {"waiting"}, "failed") \/ Move(c, {"waiting"}, "full")
    /\ thing[c] = "none"
    /\ UNCHANGED thing

\* Any number of calls may reach their deadline together.
GiveUp(late) ==
    /\ late # {} /\ \A c \in late : status[c] = "waiting"
    /\ status' = [c \in Callers |-> IF c \in late THEN "timeout" ELSE status[c]]
    /\ UNCHANGED thing

\* What was made for a call given up is taken back, unless the engine refuses
\* to let go of it.
Undo(c) ==
    /\ status[c] = "timeout" /\ thing[c] = "made"
    /\ \E t \in {"gone", "kept"} : thing' = [thing EXCEPT ![c] = t]
    /\ UNCHANGED status

CallsInit ==
    /\ status = [c \in Callers |-> "idle"]
    /\ thing = [c \in Callers |-> "none"]

CallsNext ==
    \/ \E c \in Callers : Call(c) \/ Make(c) \/ Succeed(c) \/ Decline(c) \/ Undo(c)
    \/ \E late \in SUBSET Callers : GiveUp(late)

CallsSpec == CallsInit /\ [][CallsNext]_callVars
=============================================================================
