---------------------------- MODULE CniNetworks ----------------------------
(***************************************************************************)
(* CNI networks of the containerd runtime (adapters/runtime/cni.rs): the   *)
(* SubnetAllocator, in memory, and the conflist files, on disk, that       *)
(* CniManager keeps next to each other.  ContainerdRuntime holds a mutex   *)
(* round every call, so calls do not overlap; a call can fail half-way and *)
(* the process can die, in a call or between two.                          *)
(*                                                                         *)
(* A subnet 172.20.<octet>.0/24 is its octet.                              *)
(***************************************************************************)
EXTENDS Naturals, FiniteSets

CONSTANTS
    Networks,    \* network names
    OctetCount,  \* values of next_octet (2^8: a u8 that wraps)
    None,        \* no allocation, no file
    Truncated    \* a conflist file whose write did not complete

Octets == 1 .. (OctetCount - 1)

ASSUME OctetAssumption == OctetCount \in Nat /\ OctetCount > 1

ASSUME NoneAssumption == None \notin Octets /\ Truncated \notin Octets /\ None # Truncated

VARIABLES
    allocations,  \* allocations[n]: the octet held by network n, or None
    next,         \* next_octet
    conflist,     \* conflist[n]: the octet in the file of network n, Truncated, or None
    \* history
    given,        \* octets this process has allocated so far
    mine          \* networks whose file this process has written

vars == <<allocations, next, conflist, given, mine>>

----------------------------------------------------------------------------
(* SubnetAllocator *)

\* Slip: an increment that skips 0 instead of stopping there.
WrapAroundZero(x) == IF x = OctetCount - 1 THEN 1 ELSE x + 1

\* wrapping_add(1) on the octet: it reaches 0 once, and stays there.
WrappingAdd(x) == (x + 1) % OctetCount

\* allocate succeeds: the name has an octet already, or the pool has one left.
CanAllocate(n) == allocations[n] # None \/ next # 0

\* What allocate returns.
OctetFor(n) == IF allocations[n] # None THEN allocations[n] ELSE next

\* What allocate leaves behind.
Allocate(n) ==
    IF allocations[n] # None THEN UNCHANGED <<allocations, next, given>>
    ELSE /\ allocations' = [allocations EXCEPT ![n] = next]
         /\ next'  = WrappingAdd(next)
         /\ given' = given \cup {next}

\* Slip: release hands the octet back to the pool.
ReleaseAndRewind(n) ==
    /\ allocations' = [allocations EXCEPT ![n] = None]
    /\ next' = IF allocations[n] # None THEN allocations[n] ELSE next

\* release: the name forgets its octet; next_octet does not go back.
Release(n) ==
    /\ allocations' = [allocations EXCEPT ![n] = None]
    /\ next' = next

----------------------------------------------------------------------------
(* CniManager *)

\* ensure_network: allocate, then write the file.  With a file of that name
\* there, whatever is in it, the call succeeds and nothing changes; with the
\* pool exhausted it fails and nothing changes.
EnsureNew(n) ==
    /\ conflist[n] = None /\ CanAllocate(n)
    /\ Allocate(n)
    /\ conflist' = [conflist EXCEPT ![n] = OctetFor(n)]
    /\ mine'     = mine \cup {n}

\* ensure_network: the write fails.  The octet stays allocated; the file was
\* not created, or was created and not completed.
EnsureWriteFails(n) ==
    /\ conflist[n] = None /\ CanAllocate(n)
    /\ Allocate(n)
    /\ conflist' \in {conflist, [conflist EXCEPT ![n] = Truncated]}
    /\ UNCHANGED mine

\* remove_network: the file, if any, then the octet.  When the file cannot be
\* removed the call fails and nothing changes.
RemoveNetwork(n) ==
    /\ conflist' = [conflist EXCEPT ![n] = None]
    /\ Release(n)
    /\ mine' = mine \ {n}
    /\ UNCHANGED given

\* CniManager::new in a new process: an empty allocator, the files still there.
\* The old process may have died in the middle of the write of a file.
Restart ==
    /\ \/ UNCHANGED conflist
       \/ \E n \in Networks : /\ conflist[n] = None /\ CanAllocate(n)
                              /\ conflist' = [conflist EXCEPT ![n] = Truncated]
    /\ allocations' = [n \in Networks |-> None]
    /\ next'  = 1
    /\ given' = {}
    /\ mine'  = {}

Init ==
    /\ allocations = [n \in Networks |-> None]
    /\ next = 1
    /\ conflist = [n \in Networks |-> None]
    /\ given = {} /\ mine = {}

Next ==
    \/ \E n \in Networks : EnsureNew(n) \/ EnsureWriteFails(n) \/ RemoveNetwork(n)
    \/ Restart

Spec == Init /\ [][Next]_vars

----------------------------------------------------------------------------
(* Properties *)

\* Every variable has its type; next_octet is a u8.
TypeOK ==
    /\ allocations \in [Networks -> Octets \cup {None}]
    /\ next \in 0 .. (OctetCount - 1)
    /\ conflist \in [Networks -> Octets \cup {None, Truncated}]
    /\ given \subseteq Octets
    /\ mine \subseteq Networks

\* One process never allocates an octet twice, not even after a release or when
\* next_octet has wrapped: a subnet a container may still use is not given to
\* another network.
NeverReissued ==
    [][\A n \in Networks :
          allocations[n] = None /\ allocations'[n] # None => allocations'[n] \notin given]_vars

\* The networks whose files one process has written are on different subnets,
\* across failed writes, removals and re-creations.
DistinctWithinProcess ==
    \A m, n \in mine : conflist[m] = conflist[n] => m = n

\* What test multiple_networks_get_different_subnets asserts (cni.rs:301), of
\* any state: two networks on disk are on different subnets.
DistinctSubnets ==
    \A m, n \in Networks :
        conflist[m] \in Octets /\ conflist[m] = conflist[n] => m = n

\* The inductive invariant: next_octet is past every octet given out, or has
\* come back to 0 with all of them given out; what this process has written is
\* what it still holds.
IInv ==
    /\ TypeOK
    /\ next # 0 => \A o \in given : o < next
    /\ \A n \in Networks : allocations[n] # None => allocations[n] \in given
    /\ \A m, n \in Networks : allocations[m] # None /\ allocations[m] = allocations[n] => m = n
    /\ \A n \in mine : conflist[n] = allocations[n] /\ allocations[n] # None

=============================================================================
