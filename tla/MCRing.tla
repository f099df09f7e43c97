------------------------------- MODULE MCRing -------------------------------
(***************************************************************************)
(* The requests the runs give the ring, in three scenes explored one at a  *)
(* time: a device mount and two queries that cannot all have their         *)
(* payloads in the arena; with a thread that may be stuck, a spawn and a   *)
(* request too large for the arena; and two spawns, whose exits are one    *)
(* too many for what is remembered.                                        *)
(***************************************************************************)
EXTENDS Ring

CONSTANTS mount, query, look, spawn, other, big

AllCallers == {mount, query, look, spawn, other, big}
MountAndQueries == {mount, query, look}
SpawnAndBig == {spawn, big}
TwoSpawns == {spawn, other}

Op(c) ==
    CASE c = mount -> "VolumeRegister" [] c \in {spawn, other} -> "Spawn" [] OTHER -> "Query"
Size(c) == CASE c \in {mount, query} -> 2 [] c \in {look, spawn, other} -> 1 [] c = big -> 5

TheirOps == [c \in Callers |-> Op(c)]
TheirSizes == [c \in Callers |-> Size(c)]

VARIABLE scene  \* who calls

SceneInit == Init /\ scene \in {MountAndQueries, SpawnAndBig, TwoSpawns}
SceneNext ==
    /\ Next /\ (\A c \in Callers \ scene : status'[c] = status[c]) /\ UNCHANGED scene
    \* The two spawns are answered in time: deadlines are the other scenes'.
    /\ scene = TwoSpawns => UNCHANGED age
SceneSpec ==
    /\ SceneInit
    /\ [][SceneNext]_<<vars, scene>>
    /\ Fairness
=============================================================================
