----------------------- MODULE UdpPortAllocatorProofs -----------------------
(***************************************************************************)
(* Proofs about UdpPortAllocator for every port range.                     *)
(***************************************************************************)
EXTENDS UdpPortAllocator, FiniteSetTheorems, TLAPS

\* TypeOK and ScannedPortsAreUsed, with what keeps the loop from ending
\* without a free port: it was entered only because fewer ports than the
\* capacity were used, and it has not yet looked at all of them.
IInv ==
  /\ TypeOK
  /\ ScannedPortsAreUsed
  /\ scanning => ~PoolIsFull

\* The range, and each set of used ports, is finite, and the range has as many
\* ports as the capacity acquire() computes.
LEMMA PortsAreFinite ==
  /\ IsFiniteSet(Ports) /\ Cardinality(Ports) = Capacity
  /\ \A S \in SUBSET Ports : IsFiniteSet(S) /\ Cardinality(S) <= Capacity
<1>1. IsFiniteSet(Ports) /\ Cardinality(Ports) = Capacity
  BY FS_Interval, RangeAssumption DEF Ports, Capacity
<1>2. \A S \in SUBSET Ports : IsFiniteSet(S) /\ Cardinality(S) <= Cardinality(Ports)
  BY <1>1, FS_Subset
<1> QED
  BY <1>1, <1>2

\* The size test at the top of acquire() tells exactly whether a port is free.
LEMMA FullMeansAllUsed ==
  ASSUME used \in SUBSET Ports
  PROVE  PoolIsFull <=> used = Ports
<1>1. ASSUME used # Ports PROVE ~PoolIsFull
  <2>1. Cardinality(used) \in Nat
    BY PortsAreFinite, FS_CardinalityType
  <2>2. Cardinality(used) # Capacity /\ Cardinality(used) <= Capacity
    BY <1>1, PortsAreFinite, FS_Subset
  <2> QED
    BY <2>1, <2>2, PortsAreFinite, RangeAssumption DEF PoolIsFull, Capacity
<1>2. ASSUME used = Ports PROVE PoolIsFull
  BY <1>2, PortsAreFinite, RangeAssumption DEF PoolIsFull, Capacity
<1> QED
  BY <1>1, <1>2

\* Every port is within one turn of the scan, and each at its own distance.
LEMMA OffsetInRange ==
  ASSUME TypeOK
  PROVE  /\ \A p \in Ports : Offset(p) \in Int /\ 0 <= Offset(p) /\ Offset(p) < Capacity
         /\ \A p, q \in Ports : Offset(p) = Offset(q) => p = q
  BY RangeAssumption DEF TypeOK, Ports, Offset, Capacity

\* While the loop runs some port it has not looked at is free, so the pass that
\* would be the last one is not reached with the candidate taken.
LEMMA ScanIsNotOver ==
  ASSUME IInv, scanning, candidate \in used
  PROVE  attempt + 1 < Capacity
<1> SUFFICES ASSUME ~(attempt + 1 < Capacity) PROVE FALSE
  OBVIOUS
<1>1. /\ \A p \in Ports : Offset(p) \in Int /\ Offset(p) < Capacity
      /\ \A p \in Ports : Offset(p) = Offset(candidate) => p = candidate
  BY OffsetInRange DEF IInv, TypeOK
<1>2. Capacity \in Int /\ attempt \in Int
  BY RangeAssumption DEF IInv, TypeOK, Capacity
<1>3. \A p \in Ports : p \in used
  BY <1>1, <1>2 DEF IInv, ScannedPortsAreUsed
<1>4. used = Ports
  BY <1>3 DEF IInv, TypeOK
<1> QED
  BY <1>4, FullMeansAllUsed DEF IInv, TypeOK

LEMMA InitInvariant == Init => IInv
<1> SUFFICES ASSUME Init PROVE IInv
  OBVIOUS
<1>1. TypeOK
  <2>1. MinPort \in Ports /\ 0 \in 0 .. Capacity
    BY RangeAssumption DEF Ports, Capacity
  <2> QED
    BY <2>1, Zenon DEF Init, TypeOK
<1>2. ~scanning
  BY DEF Init
<1> QED
  BY <1>1, <1>2 DEF IInv, ScannedPortsAreUsed

LEMMA NextInvariant == IInv /\ [Next]_vars => IInv'
<1> SUFFICES ASSUME IInv, [Next]_vars PROVE IInv'
  OBVIOUS
<1>1. CASE AcquireRefused
  BY <1>1 DEF AcquireRefused, IInv, TypeOK, ScannedPortsAreUsed, PoolIsFull, Offset, vars
<1>2. CASE AcquireStart
  <2>1. TypeOK'
    <3>1. 0 \in 0 .. Capacity
      BY RangeAssumption DEF Capacity
    <3> QED
      BY <1>2, <3>1, Zenon DEF AcquireStart, IInv, TypeOK
  <2>2. ScannedPortsAreUsed'
    <3>1. nextPort' = nextPort /\ candidate' = nextPort /\ attempt' = 0
      BY <1>2 DEF AcquireStart
    <3>2. Offset(candidate)' = 0
      BY <3>1, RangeAssumption DEF IInv, TypeOK, Ports, Offset
    <3>3. \A p \in Ports : ~(Offset(p)' < 0)
      BY <3>1, OffsetInRange DEF IInv, Offset
    <3> QED
      BY <3>1, <3>2, <3>3 DEF ScannedPortsAreUsed
  <2>3. ~PoolIsFull'
    BY <1>2 DEF AcquireStart, PoolIsFull
  <2> QED
    BY <2>1, <2>2, <2>3 DEF IInv
<1>3. CASE TakeCandidate
  <2>1. TypeOK'
    <3>1. After(candidate) \in Ports
      BY RangeAssumption DEF IInv, TypeOK, Ports, After
    <3> QED
      BY <1>3, <3>1, Zenon DEF TakeCandidate, IInv, TypeOK
  <2> QED
    BY <2>1, <1>3 DEF TakeCandidate, IInv, ScannedPortsAreUsed
<1>4. CASE SkipCandidate
  <2>1. attempt + 1 < Capacity
    BY <1>4, ScanIsNotOver DEF SkipCandidate
  <2>2. TypeOK'
    <3>1. After(candidate) \in Ports
      BY RangeAssumption DEF IInv, TypeOK, Ports, After
    <3>2. attempt + 1 \in 0 .. Capacity
      BY <2>1, RangeAssumption DEF IInv, TypeOK, Capacity
    <3>3. scanning' = TRUE /\ result' = result
      BY <1>4, <2>1 DEF SkipCandidate
    <3> QED
      BY <1>4, <3>1, <3>2, <3>3, Zenon DEF SkipCandidate, IInv, TypeOK
  <2>3. Offset(candidate)' = attempt'
    <3>1. /\ nextPort' = nextPort /\ candidate' = After(candidate)
          /\ attempt' = attempt + 1 /\ Offset(candidate) = attempt
      BY <1>4 DEF SkipCandidate, IInv, ScannedPortsAreUsed
    <3> QED
      BY <3>1, <2>1, RangeAssumption DEF IInv, TypeOK, Ports, Offset, Capacity, After
  <2>4. ASSUME NEW p \in Ports, Offset(p)' < attempt' PROVE p \in used'
    <3>1. Offset(p)' = Offset(p) /\ used' = used /\ attempt' = attempt + 1
      BY <1>4 DEF SkipCandidate, Offset
    <3>2. CASE p = candidate
      BY <1>4, <3>1, <3>2 DEF SkipCandidate
    <3>3. CASE p # candidate
      <4>1. Offset(p) # attempt
        BY <1>4, <3>3, OffsetInRange DEF SkipCandidate, IInv, TypeOK, ScannedPortsAreUsed
      <4>2. Offset(p) \in Int /\ attempt \in Int
        BY OffsetInRange, RangeAssumption DEF IInv, TypeOK, Capacity
      <4>3. Offset(p) < attempt
        BY <4>1, <4>2, <3>1, <2>4
      <4> QED
        BY <1>4, <3>1, <4>3 DEF SkipCandidate, IInv, ScannedPortsAreUsed
    <3> QED
      BY <3>2, <3>3
  <2>5. ~PoolIsFull'
    BY <1>4 DEF SkipCandidate, IInv, PoolIsFull
  <2> QED
    BY <2>2, <2>3, <2>4, <2>5 DEF IInv, ScannedPortsAreUsed, Ports
<1>5. ASSUME NEW p \in Ports, Release(p) PROVE IInv'
  BY <1>5 DEF Release, IInv, TypeOK, ScannedPortsAreUsed
<1>6. CASE UNCHANGED vars
  BY <1>6 DEF vars, IInv, TypeOK, ScannedPortsAreUsed, PoolIsFull, Offset
<1> QED
  BY <1>1, <1>2, <1>3, <1>4, <1>5, <1>6 DEF Next

LEMMA InductiveInvariant == Spec => []IInv
  BY InitInvariant, NextInvariant, PTL DEF Spec

\* used_ports_, next_port_ and the loop's candidate stay within the port range,
\* whatever the range is and however acquire() and release() alternate.
THEOREM TypeCorrect == Spec => []TypeOK
<1>1. IInv => TypeOK
  BY DEF IInv
<1> QED
  BY <1>1, InductiveInvariant, PTL

\* acquire() never passes over a free port.
THEOREM ScanPassesOverNoFreePort == Spec => []ScannedPortsAreUsed
<1>1. IInv => ScannedPortsAreUsed
  BY DEF IInv
<1> QED
  BY <1>1, InductiveInvariant, PTL

\* udp_port_allocator implements the port pool: no port is reserved twice, and
\* std::nullopt is returned only when every port is reserved.
THEOREM AllocatorImplementsPool == Spec => ImplementsPool
<1>1. Init => Pool!PoolInit
  BY DEF Init, Pool!PoolInit
<1>2. IInv /\ [Next]_vars => [Pool!PoolNext]_Pool!poolVars
  <2> SUFFICES ASSUME IInv, [Next]_vars
               PROVE  Pool!PoolNext \/ UNCHANGED <<used, result>>
    BY DEF Pool!poolVars
  <2>1. CASE AcquireRefused
    <3>1. used = Ports
      BY <2>1, FullMeansAllUsed DEF AcquireRefused, IInv, TypeOK
    <3> QED
      BY <2>1, <3>1 DEF AcquireRefused, Pool!PoolNext, Pool!Refuse
  <2>2. CASE AcquireStart
    BY <2>2 DEF AcquireStart
  <2>3. CASE TakeCandidate
    BY <2>3 DEF TakeCandidate, IInv, TypeOK, Pool!PoolNext, Pool!Grant
  <2>4. CASE SkipCandidate
    BY <2>4, ScanIsNotOver DEF SkipCandidate
  <2>5. ASSUME NEW p \in Ports, Release(p) PROVE Pool!PoolNext
    BY <2>5 DEF Release, Pool!PoolNext, Pool!Return
  <2>6. CASE UNCHANGED vars
    BY <2>6 DEF vars
  <2> QED
    BY <2>1, <2>2, <2>3, <2>4, <2>5, <2>6 DEF Next
<1> QED
  BY <1>1, <1>2, InductiveInvariant, PTL DEF Spec, ImplementsPool, Pool!PoolSpec
=============================================================================
