------------------------- MODULE CniNetworksProofs -------------------------
(***************************************************************************)
(* Proofs about CniNetworks, for any set of networks and any pool size.    *)
(***************************************************************************)
EXTENDS CniNetworks, TLAPS

\* The increment goes one up, or from the last octet to 0.
LEMMA WrappingAddStep ==
    ASSUME NEW x \in Octets
    PROVE  /\ WrappingAdd(x) \in 0 .. (OctetCount - 1)
           /\ WrappingAdd(x) = 0 \/ WrappingAdd(x) = x + 1
<1>1. CASE x + 1 < OctetCount
      BY <1>1, OctetAssumption DEF WrappingAdd, Octets
<1>2. CASE x + 1 = OctetCount
  <2>1. OctetCount % OctetCount = 0
        BY OctetAssumption
  <2> QED
      BY <1>2, <2>1, OctetAssumption DEF WrappingAdd
<1> QED
    BY <1>1, <1>2, OctetAssumption DEF Octets

\* allocate keeps the part of the invariant that is about the allocator.
LEMMA AllocateKeeps ==
    ASSUME IInv, NEW n \in Networks, CanAllocate(n), Allocate(n)
    PROVE  /\ allocations' \in [Networks -> Octets \cup {None}]
           /\ next' \in 0 .. (OctetCount - 1)
           /\ given' \subseteq Octets
           /\ next' # 0 => \A o \in given' : o < next'
           /\ \A m \in Networks : allocations'[m] # None => allocations'[m] \in given'
           /\ \A m, k \in Networks :
                 allocations'[m] # None /\ allocations'[m] = allocations'[k] => m = k
           /\ allocations'[n] = OctetFor(n) /\ OctetFor(n) \in Octets
           /\ \A m \in Networks : m # n => allocations'[m] = allocations[m]
<1> USE OctetAssumption, NoneAssumption
<1>1. CASE allocations[n] # None
      BY <1>1 DEF Allocate, IInv, TypeOK, OctetFor
<1>2. CASE allocations[n] = None
  <2>1. next \in Octets /\ next # 0
        BY <1>2 DEF CanAllocate, IInv, TypeOK, Octets
  <2>2. WrappingAdd(next) \in 0 .. (OctetCount - 1) /\ (WrappingAdd(next) = 0 \/ WrappingAdd(next) = next + 1)
        BY <2>1, WrappingAddStep
  <2>3. /\ allocations' = [allocations EXCEPT ![n] = next]
        /\ next' = WrappingAdd(next) /\ given' = given \cup {next}
        BY <1>2 DEF Allocate
  <2>4. next \notin given
        BY <2>1 DEF IInv, TypeOK, Octets
  <2>5. next' # 0 => \A o \in given' : o < next'
        BY <2>1, <2>2, <2>3 DEF IInv, TypeOK, Octets
  <2>6. \A m, k \in Networks :
           allocations'[m] # None /\ allocations'[m] = allocations'[k] => m = k
        BY <2>3, <2>4 DEF IInv, TypeOK
  <2> QED
      BY <1>2, <2>1, <2>2, <2>3, <2>5, <2>6 DEF IInv, TypeOK, OctetFor
<1> QED
    BY <1>1, <1>2

\* The inductive invariant holds when the first process starts.
LEMMA InitIInv == Init => IInv
BY OctetAssumption, NoneAssumption DEF Init, IInv, TypeOK, Octets

\* Every call, failed call and restart keeps the inductive invariant.
LEMMA NextIInv == IInv /\ [Next]_vars => IInv'
<1> SUFFICES ASSUME IInv, [Next]_vars PROVE IInv'
    OBVIOUS
<1> USE OctetAssumption, NoneAssumption
<1>1. ASSUME NEW n \in Networks, EnsureNew(n) PROVE IInv'
  <2>1. CanAllocate(n) /\ Allocate(n) /\ conflist[n] = None
        BY <1>1 DEF EnsureNew
  <2>2. conflist' = [conflist EXCEPT ![n] = OctetFor(n)] /\ mine' = mine \cup {n}
        BY <1>1 DEF EnsureNew
  <2>3. TypeOK'
        BY <2>1, <2>2, AllocateKeeps DEF IInv, TypeOK
  <2>4. \A m \in mine' : conflist'[m] = allocations'[m] /\ allocations'[m] # None
        BY <2>1, <2>2, AllocateKeeps DEF IInv, TypeOK
  <2> QED
      BY <2>1, <2>3, <2>4, AllocateKeeps DEF IInv
<1>2. ASSUME NEW n \in Networks, EnsureWriteFails(n) PROVE IInv'
  <2>1. CanAllocate(n) /\ Allocate(n) /\ conflist[n] = None /\ mine' = mine
        BY <1>2 DEF EnsureWriteFails
  <2>2. \A m \in Networks : m # n => conflist'[m] = conflist[m]
        BY <1>2 DEF EnsureWriteFails, IInv, TypeOK
  <2>3. n \notin mine
        BY <2>1 DEF IInv, TypeOK
  <2>4. TypeOK'
        BY <1>2, <2>1, AllocateKeeps DEF EnsureWriteFails, IInv, TypeOK
  <2>5. \A m \in mine' : conflist'[m] = allocations'[m] /\ allocations'[m] # None
        BY <2>1, <2>2, <2>3, AllocateKeeps DEF IInv, TypeOK
  <2> QED
      BY <2>1, <2>4, <2>5, AllocateKeeps DEF IInv
<1>3. ASSUME NEW n \in Networks, RemoveNetwork(n) PROVE IInv'
      BY <1>3 DEF RemoveNetwork, Release, IInv, TypeOK
<1>4. CASE Restart
  <2>1. conflist' \in [Networks -> Octets \cup {None, Truncated}]
        BY <1>4 DEF Restart, IInv, TypeOK
  <2> QED
      BY <1>4, <2>1 DEF Restart, IInv, TypeOK, Octets
<1>5. CASE UNCHANGED vars
      BY <1>5 DEF vars, IInv, TypeOK
<1> QED
    BY <1>1, <1>2, <1>3, <1>4, <1>5 DEF Next

\* The inductive invariant holds in every reachable state.
THEOREM InductiveInvariant == Spec => []IInv
<1>1. Init => IInv
      BY InitIInv
<1>2. IInv /\ [Next]_vars => IInv'
      BY NextIInv
<1> QED
    BY <1>1, <1>2, PTL DEF Spec

\* The files one process has written are on different subnets.
THEOREM DistinctWithinProcessCorrect == Spec => []DistinctWithinProcess
<1>1. IInv => DistinctWithinProcess
      BY DEF IInv, TypeOK, DistinctWithinProcess
<1> QED
    BY <1>1, InductiveInvariant, PTL

\* One process never allocates an octet twice.
THEOREM NeverReissuedCorrect == Spec => NeverReissued
<1>1. ASSUME IInv, [Next]_vars, NEW n \in Networks,
             allocations[n] = None, allocations'[n] # None
      PROVE  allocations'[n] \notin given
  <2>1. ASSUME NEW m \in Networks, EnsureNew(m) \/ EnsureWriteFails(m)
        PROVE  allocations'[n] \notin given
    <3>1. next # 0 /\ allocations'[n] = next
          BY <1>1, <2>1 DEF EnsureNew, EnsureWriteFails, CanAllocate, Allocate, IInv, TypeOK
    <3>2. next \notin given
          BY <1>1, <3>1, OctetAssumption DEF IInv, TypeOK
    <3> QED
        BY <3>1, <3>2
  <2> QED
      BY <1>1, <2>1 DEF Next, vars, RemoveNetwork, Release, Restart, IInv, TypeOK
<1>2. IInv /\ [Next]_vars =>
        [\A n \in Networks : allocations[n] = None /\ allocations'[n] # None
                             => allocations'[n] \notin given]_vars
      BY <1>1
<1> QED
    BY <1>2, InductiveInvariant, PTL DEF Spec, NeverReissued

=============================================================================
