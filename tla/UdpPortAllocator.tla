-------------------------- MODULE UdpPortAllocator --------------------------
(***************************************************************************)
(* udp_port_allocator, its acquire() loop step by step, and the lifetime   *)
(* of the reservations made from it.  acquire() runs to its end within one *)
(* handler, so no reservation is destroyed while it scans.                 *)
(***************************************************************************)
EXTENDS Integers, FiniteSets

CONSTANTS
  MinPort, MaxPort,  \* udp_port_range, checked by webrtc_config
  NoPort             \* std::nullopt

\* webrtc_config refuses a range udp_port_range_is_valid refuses.
ASSUME RangeAssumption ==
  /\ MinPort \in Nat /\ MaxPort \in Nat
  /\ 0 < MinPort /\ MinPort <= MaxPort
  /\ NoPort \notin Int

VARIABLES
  used,       \* used_ports_
  nextPort,   \* next_port_
  candidate,  \* the loop's candidate
  attempt,    \* the loop's counter
  scanning,   \* acquire() is in its loop
  result      \* what the latest acquire() returned

vars == <<used, nextPort, candidate, attempt, scanning, result>>

Ports == MinPort .. MaxPort

Capacity == MaxPort - MinPort + 1

TypeOK ==
  /\ used \in SUBSET Ports
  /\ nextPort \in Ports
  /\ candidate \in Ports
  /\ attempt \in 0 .. Capacity
  /\ scanning \in BOOLEAN
  /\ result \in Ports \cup {NoPort}

Init ==
  /\ used = {}
  /\ nextPort = MinPort
  /\ candidate = MinPort
  /\ attempt = 0
  /\ scanning = FALSE
  /\ result = NoPort

\* Faulty: the last port of the range is skipped.
AfterSkippingLast(p) == IF p + 1 >= MaxPort THEN MinPort ELSE p + 1

\* Faulty: no wrap-around.
AfterUnwrapped(p) == p + 1

\* The wrap-around at the end of the range.
After(p) == IF p = MaxPort THEN MinPort ELSE p + 1

\* used_ports_.size() >= capacity
PoolIsFull == Cardinality(used) >= Capacity

\* acquire() when the pool is full.
AcquireRefused ==
  /\ ~scanning
  /\ PoolIsFull
  /\ result' = NoPort
  /\ UNCHANGED <<used, nextPort, candidate, attempt, scanning>>

\* acquire() enters its loop.
AcquireStart ==
  /\ ~scanning
  /\ ~PoolIsFull
  /\ scanning' = TRUE
  /\ candidate' = nextPort
  /\ attempt' = 0
  /\ UNCHANGED <<used, nextPort, result>>

\* A pass of the loop that finds its candidate free.
TakeCandidate ==
  /\ scanning
  /\ candidate \notin used
  /\ used' = used \cup {candidate}
  /\ nextPort' = After(candidate)
  /\ result' = candidate
  /\ scanning' = FALSE
  /\ UNCHANGED <<candidate, attempt>>

\* Faulty: the loop makes one pass too few.
SkipCandidateShort ==
  /\ scanning
  /\ candidate \in used
  /\ candidate' = After(candidate)
  /\ attempt' = attempt + 1
  /\ scanning' = (attempt + 1 < Capacity - 1)
  /\ result' = IF attempt + 1 < Capacity - 1 THEN result ELSE NoPort
  /\ UNCHANGED <<used, nextPort>>

\* A pass of the loop that finds its candidate taken; after the last pass
\* acquire() returns std::nullopt.
SkipCandidate ==
  /\ scanning
  /\ candidate \in used
  /\ candidate' = After(candidate)
  /\ attempt' = attempt + 1
  /\ scanning' = (attempt + 1 < Capacity)
  /\ result' = IF attempt + 1 < Capacity THEN result ELSE NoPort
  /\ UNCHANGED <<used, nextPort>>

\* A reservation is destroyed: release().
Release(p) ==
  /\ ~scanning
  /\ p \in used
  /\ used' = used \ {p}
  /\ UNCHANGED <<nextPort, candidate, attempt, scanning, result>>

Next ==
  \/ AcquireRefused
  \/ AcquireStart
  \/ TakeCandidate
  \/ SkipCandidate
  \/ \E p \in Ports : Release(p)

Spec == Init /\ [][Next]_vars

-----------------------------------------------------------------------------

\* How far the scan has to go from next_port_ to reach p.
Offset(p) == IF p >= nextPort THEN p - nextPort ELSE p - nextPort + Capacity

\* The loop passes over no free port: when it looks at a candidate, every port
\* between next_port_ and the candidate, across the end of the range, is used.
\* So the port acquire() returns is the first free one after the one returned
\* last, and a port just released is the last to be handed out again.
ScannedPortsAreUsed ==
  scanning => /\ Offset(candidate) = attempt
              /\ \A p \in Ports : Offset(p) < attempt => p \in used

Pool == INSTANCE PortPool WITH held <- used, granted <- result

\* acquire() and release() implement the port pool: a port is never given to
\* two reservations, and acquire() returns std::nullopt, before its loop or
\* after it, only when every port of the range is reserved.
ImplementsPool == Pool!PoolSpec
=============================================================================
