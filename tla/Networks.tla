------------------------------ MODULE Networks ------------------------------
(***************************************************************************)
(* A Pod sandbox's network on stormpump: the namespace the engine holds    *)
(* for it, CNI ADD and DEL (run_pod_sandbox, stop_pod_sandbox and          *)
(* remove_pod_sandbox of stormpump_runtime.rs), the list of failed ADDs    *)
(* still to be undone, and the bridge plugin with its host-local address   *)
(* management (pkg/cni: bridge.rs, ipam.rs).  Every plugin command is a    *)
(* process of its own: it reads the allocations from their files, picks    *)
(* the lowest free address and writes its file, and several run at once.   *)
(***************************************************************************)
EXTENDS Naturals, FiniteSets

CONSTANTS Boxes,      \* sandboxes: each is started, stopped and removed once
          Addrs,      \* the addresses of the range, in order
          Reserved,   \* those of them that are never given: gateway, broadcast
          MaxUpsets   \* bound: calls that fail

ASSUME NetworksAssumption ==
    /\ "free" \notin Boxes
    /\ Addrs \subseteq Nat \ {0} /\ Reserved \subseteq Addrs /\ MaxUpsets \in Nat

VARIABLES nwNs,       \* the engine's namespace holder for each sandbox
          nwRec,      \* the runtime's record: its state, and whether it keeps the handle
          nwFailed,   \* failed_networks
          nwLock,     \* who holds its lock ("free" if nobody does)
          nwFile,     \* the allocation files: an address, or 0
          nwJob,      \* what each sandbox's caller is at
          nwMem,      \* the allocations each ADD read when it began
          nwUpsets,
          nwOverlap   \* history: the ADDs that read while the other was at it

nwVars == <<nwNs, nwRec, nwFailed, nwLock, nwFile, nwJob, nwMem, nwUpsets, nwOverlap>>
cniVars == <<nwFile, nwMem, nwOverlap>>

NoBox == [st |-> "none", handle |-> FALSE]
NwAt(s, a) == nwJob[s].at = a
NwGo(s, a) == nwJob' = [nwJob EXCEPT ![s].at = a]
Upset == nwUpsets < MaxUpsets /\ nwUpsets' = nwUpsets + 1
Calm == UNCHANGED nwUpsets

-----------------------------------------------------------------------------
(* The plugin. *)

Taken(mem) == {mem[t] : t \in Boxes} \ {0}
Assignable == Addrs \ Reserved
Lowest(S) == CHOOSE a \in S : \A b \in S : a <= b
\* Faulty: the gap before a taken address is looked for.
FreeGap(mem) == Assignable \ {a \in Addrs : \E b \in Taken(mem) : b = a + 1}
FreeAddrs(mem) == Assignable \ Taken(mem)

\* ADD begins: HostLocalIpam::new loads what the files say.
LoadFiles(s) ==
    /\ NwAt(s, "add")
    /\ nwMem' = [nwMem EXCEPT ![s] = nwFile]
    /\ nwOverlap' = nwOverlap \cup {{s, t} : t \in {t \in Boxes \ {s} : NwAt(t, "allocate")}}
    /\ NwGo(s, "allocate")
    /\ Calm /\ UNCHANGED <<nwNs, nwRec, nwFailed, nwLock, nwFile>>

\* allocate: the lowest free address, written to the sandbox's file.  A range
\* that is full, or a file that cannot be written, fails the ADD.
Allocate(s) ==
    /\ NwAt(s, "allocate")
    /\ \/ /\ FreeAddrs(nwMem[s]) # {} /\ Calm
          /\ nwFile' = [nwFile EXCEPT ![s] = Lowest(FreeAddrs(nwMem[s]))]
          /\ NwGo(s, "plumb")
       \/ /\ FreeAddrs(nwMem[s]) = {} /\ Calm /\ NwGo(s, "unwind") /\ UNCHANGED nwFile
       \/ Upset /\ NwGo(s, "unwind") /\ UNCHANGED nwFile
    /\ UNCHANGED <<nwNs, nwRec, nwFailed, nwLock, nwMem, nwOverlap>>

\* apply_plan; if it fails the address is released again, if that works.  A
\* plugin killed at its timeout leaves things as they are; and an extra network
\* may fail once this one is there.
Plumb(s) ==
    /\ NwAt(s, "plumb")
    /\ \/ NwGo(s, "record") /\ Calm /\ UNCHANGED nwFile
       \/ NwGo(s, "unwind") /\ Upset /\ nwFile' \in {nwFile, [nwFile EXCEPT ![s] = 0]}
    /\ UNCHANGED <<nwNs, nwRec, nwFailed, nwLock, nwMem, nwOverlap>>

\* DEL: the link, best effort, then the file; killed after it, it fails too.
DelDone(s) == nwFile' = [nwFile EXCEPT ![s] = 0] /\ UNCHANGED <<nwMem, nwOverlap>>
DelFails(s) == /\ Upset /\ nwFile' \in {nwFile, [nwFile EXCEPT ![s] = 0]}
               /\ UNCHANGED <<nwMem, nwOverlap>>

-----------------------------------------------------------------------------
(* run_pod_sandbox. *)

\* release_sandbox: the holder is given back, and a refusal is not looked at.
ReleaseSandbox(s) ==
    \/ nwNs' = [nwNs EXCEPT ![s] = "gone"] /\ Calm
    \/ Upset /\ UNCHANGED nwNs

\* retry_failed_networks: the DEL of every failed ADD, one caller at a time.
RunBox(s) ==
    /\ NwAt(s, "new") /\ nwLock = "free"
    /\ nwLock' = s
    /\ nwJob' = [nwJob EXCEPT ![s] = [at |-> "retry", todo |-> nwFailed]]
    /\ Calm /\ UNCHANGED <<nwNs, nwRec, nwFailed, cniVars>>

RetryFailed(s) ==
    /\ NwAt(s, "retry") /\ nwJob[s].todo # {}
    /\ \E f \in nwJob[s].todo :
         /\ nwJob' = [nwJob EXCEPT ![s].todo = @ \ {f}]
         /\ \/ DelDone(f) /\ nwFailed' = nwFailed \ {f} /\ ReleaseSandbox(f)
            \/ DelFails(f) /\ UNCHANGED <<nwFailed, nwNs>>
    /\ UNCHANGED <<nwRec, nwLock>>

AcquireNs(s) ==
    /\ NwAt(s, "retry") /\ nwJob[s].todo = {}
    /\ nwLock' = "free"
    /\ \/ nwNs' = [nwNs EXCEPT ![s] = "held"] /\ NwGo(s, "add") /\ Calm
       \/ Upset /\ NwGo(s, "over") /\ UNCHANGED nwNs
    /\ UNCHANGED <<nwRec, nwFailed, cniVars>>

\* Faulty: a DEL that fails is not listed.
UnwindForgets(s) ==
    /\ NwAt(s, "unwind")
    /\ \/ DelDone(s) /\ ReleaseSandbox(s) /\ NwGo(s, "over")
       \/ DelFails(s) /\ NwGo(s, "over") /\ UNCHANGED nwNs
    /\ UNCHANGED <<nwRec, nwFailed, nwLock>>

\* The ADD failed: DEL, and the namespace with it, or the list.
Unwind(s) ==
    /\ NwAt(s, "unwind")
    /\ \/ DelDone(s) /\ ReleaseSandbox(s) /\ NwGo(s, "over")
       \/ DelFails(s) /\ NwGo(s, "list") /\ UNCHANGED nwNs
    /\ UNCHANGED <<nwRec, nwFailed, nwLock>>

ListFailed(s) ==
    /\ NwAt(s, "list") /\ nwLock = "free"
    /\ nwFailed' = nwFailed \cup {s} /\ NwGo(s, "over")
    /\ Calm /\ UNCHANGED <<nwNs, nwRec, nwLock, cniVars>>

RecordBox(s) ==
    /\ NwAt(s, "record")
    /\ nwRec' = [nwRec EXCEPT ![s] = [st |-> "ready", handle |-> TRUE]]
    /\ NwGo(s, "idle")
    /\ Calm /\ UNCHANGED <<nwNs, nwFailed, nwLock, cniVars>>

-----------------------------------------------------------------------------
(* stop_pod_sandbox, and remove_pod_sandbox, which stops it first. *)

\* A DEL that fails leaves the sandbox as it was.
StopNetwork(s) ==
    /\ NwAt(s, "idle") /\ nwRec[s].st # "none"
    /\ \/ nwRec[s].st = "ready" /\ DelDone(s) /\ NwGo(s, "release") /\ Calm
       \/ nwRec[s].st = "ready" /\ DelFails(s) /\ UNCHANGED nwJob
       \/ nwRec[s].st = "notready" /\ NwGo(s, "release") /\ Calm /\ UNCHANGED cniVars
    /\ UNCHANGED <<nwNs, nwRec, nwFailed, nwLock>>

\* The release at a stop may be refused: the removal does it again.
ReleaseNs(s) ==
    /\ NwAt(s, "release") /\ NwGo(s, "stopped")
    /\ \/ /\ nwRec[s].handle
          /\ nwNs' = [nwNs EXCEPT ![s] = "gone"]
          /\ nwRec' = [nwRec EXCEPT ![s] = [st |-> "notready", handle |-> FALSE]] /\ Calm
       \/ /\ nwRec[s].handle /\ Upset
          /\ nwRec' = [nwRec EXCEPT ![s].st = "notready"] /\ UNCHANGED nwNs
       \/ ~ nwRec[s].handle /\ Calm /\ UNCHANGED <<nwNs, nwRec>>
    /\ UNCHANGED <<nwFailed, nwLock, cniVars>>

\* A stop is done here; a removal goes on: its own release, then the record.
AfterStop(s) ==
    /\ NwAt(s, "stopped")
    /\ \/ NwGo(s, "idle") /\ Calm /\ UNCHANGED <<nwNs, nwRec>>
       \/ /\ nwNs' = [nwNs EXCEPT ![s] = "gone"] /\ nwRec' = [nwRec EXCEPT ![s] = NoBox]
          /\ NwGo(s, "over") /\ Calm
       \/ nwRec[s].handle /\ Upset /\ NwGo(s, "idle") /\ UNCHANGED <<nwNs, nwRec>>
    /\ UNCHANGED <<nwFailed, nwLock, cniVars>>

-----------------------------------------------------------------------------
NwInit ==
    /\ nwNs = [s \in Boxes |-> "none"] /\ nwRec = [s \in Boxes |-> NoBox]
    /\ nwFailed = {} /\ nwLock = "free"
    /\ nwFile = [s \in Boxes |-> 0]
    /\ nwJob = [s \in Boxes |-> [at |-> "new", todo |-> {}]]
    /\ nwMem = [s \in Boxes |-> [t \in Boxes |-> 0]]
    /\ nwUpsets = 0 /\ nwOverlap = {}

NwNext == \E s \in Boxes :
    \/ RunBox(s) \/ RetryFailed(s) \/ AcquireNs(s) \/ LoadFiles(s) \/ Allocate(s) \/ Plumb(s)
    \/ Unwind(s) \/ ListFailed(s) \/ RecordBox(s)
    \/ StopNetwork(s) \/ ReleaseNs(s) \/ AfterStop(s)

NwSpec == NwInit /\ [][NwNext]_nwVars

-----------------------------------------------------------------------------
(* Properties. *)

NwTypeOK ==
    /\ nwNs \in [Boxes -> {"none", "held", "gone"}]
    /\ nwRec \in [Boxes -> [st : {"none", "ready", "notready"}, handle : BOOLEAN]]
    /\ nwFailed \subseteq Boxes /\ nwLock \in Boxes \cup {"free"}
    /\ nwFile \in [Boxes -> Addrs \cup {0}]

\* Two sandboxes have one address only if their ADDs ran at once (allocate
\* reads the files before it writes its own, under no lock of the store); an
\* address whose DEL failed is not given again, nor a reserved one ever.
AddressesDistinct ==
    \A s, t \in Boxes :
        /\ nwFile[s] \notin Reserved
        /\ s # t /\ nwFile[s] # 0 /\ nwFile[s] = nwFile[t] => {s, t} \in nwOverlap

\* An address taken is one somebody will give back: the sandbox's record, the
\* list of failed ADDs, or the call at work (#100, #137); and the namespace is
\* there for it: DEL finds the interface through it.
NetworkHasOwner ==
    \A s \in Boxes :
        nwFile[s] # 0 => /\ nwNs[s] # "gone"
                         /\ \/ nwRec[s].st = "ready" \/ s \in nwFailed
                            \/ nwJob[s].at \in {"plumb", "record", "unwind", "list"}

\* A sandbox's address is its own, and somebody's to give back.
NetworksKept == AddressesDistinct /\ NetworkHasOwner
=============================================================================
