------------------------ MODULE RetransmissionCache ------------------------
(***************************************************************************)
(* rtp_retransmission_cache, the packets a WHEP transport can send again,  *)
(* and handle_generic_nacks, which asks it for them; WhepSending composes  *)
(* them with the rest of what the transport sends.  Packets are keyed by   *)
(* target SSRC and sequence number; only their sizes matter here.  Entries *)
(* leave by age, by number and by bytes, oldest first, with the help of a  *)
(* queue of keys and serial numbers in which replaced entries stay as      *)
(* stale elements until they reach the front.                              *)
(***************************************************************************)
EXTENDS Integers, Sequences, FiniteSetsExt

CONSTANTS
  Keys,        \* target SSRC and sequence number
  Sizes,       \* packet sizes in bytes
  MaxAge, MaxPackets, MaxBytes,
  Interval,    \* minimum_retransmit_interval
  MaxHits,     \* k_max_retransmissions_per_rtcp_compound
  MaxTime,     \* bound: the clock
  MaxSerial,   \* bound: packets remembered
  None

VARIABLES
  now,         \* steady_clock
  entries,     \* entries_: None, or size, time stored, serial and time of the
               \* last retransmission
  order,       \* order_
  byteCount,   \* byte_count_
  nextSerial   \* next_serial_

cacheVars == <<now, entries, order, byteCount, nextSerial>>

Entry == [size: Sizes, storedAt: Nat, serial: Nat, sentAt: Nat \cup {None}]

Element == [key: Keys, serial: Nat]

ASSUME CacheAssumption ==
  /\ IsFiniteSet(Keys) /\ Sizes \subseteq 1..MaxBytes
  /\ {MaxAge, MaxPackets, MaxBytes, Interval, MaxHits, MaxTime, MaxSerial} \subseteq Nat
  /\ None \notin Nat \cup Entry

CacheInit ==
  /\ now = 0
  /\ entries = [k \in Keys |-> None]
  /\ order = <<>>
  /\ byteCount = 0
  /\ nextSerial = 1

-----------------------------------------------------------------------------

Present(E) == {k \in Keys : E[k] # None}

\* An element of the queue that still stands for its entry.
Live(E, x) == E[x.key] # None /\ E[x.key].serial = x.serial

Bytes(E, K) == MapThenSumSet(LAMBDA k : E[k].size, K)

\* Faulty: an element at the front is taken for its entry even when the entry
\* was replaced.
DroppedWithStale(c, n) ==
  LET gone == {c.order[i].key : i \in 1..n} \cap Present(c.entries)
  IN [entries |-> [k \in Keys |-> IF k \in gone THEN None ELSE c.entries[k]],
      order |-> SubSeq(c.order, n + 1, Len(c.order)),
      bytes |-> c.bytes - Bytes(c.entries, gone)]

\* The state of the cache after the first n elements of its queue are removed
\* together with the entries they stand for (erase_entry).
Dropped(c, n) ==
  LET gone == {c.order[i].key : i \in {j \in 1..n : Live(c.entries, c.order[j])}}
  IN [entries |-> [k \in Keys |-> IF k \in gone THEN None ELSE c.entries[k]],
      order |-> SubSeq(c.order, n + 1, Len(c.order)),
      bytes |-> c.bytes - Bytes(c.entries, gone)]

WithinLimits(c) ==
  Cardinality(Present(c.entries)) <= MaxPackets /\ c.bytes <= MaxBytes

\* prune: first everything in front of the first entry that is young enough,
\* then as little as brings the cache within its limits.
Pruned(c, time) ==
  LET kept == {i \in 1..Len(c.order) :
                 /\ Live(c.entries, c.order[i])
                 /\ time - c.entries[c.order[i].key].storedAt <= MaxAge}
      young == Dropped(c, IF kept = {} THEN Len(c.order) ELSE Min(kept) - 1)
      enough == {n \in 0..Len(young.order) : WithinLimits(Dropped(young, n))}
  IN Dropped(young, IF enough = {} THEN Len(young.order) ELSE Min(enough))

Cache == [entries |-> entries, order |-> order, bytes |-> byteCount]

Becomes(c) ==
  /\ entries' = c.entries
  /\ order' = c.order
  /\ byteCount' = c.bytes

-----------------------------------------------------------------------------

\* Faulty: a packet stored again keeps its place in the queue.
StoredInPlace(c, k, size) ==
  [entries |-> [c.entries EXCEPT ![k] = [size |-> size, storedAt |-> now,
                                         serial |-> nextSerial, sentAt |-> None]],
   order |-> IF c.entries[k] = None
             THEN Append(c.order, [key |-> k, serial |-> nextSerial])
             ELSE c.order,
   bytes |-> (IF c.entries[k] = None THEN c.bytes ELSE c.bytes - c.entries[k].size) + size]

\* Replacing an entry takes its bytes off and leaves its element in the queue.
Stored(c, k, size) ==
  [entries |-> [c.entries EXCEPT ![k] = [size |-> size, storedAt |-> now,
                                         serial |-> nextSerial, sentAt |-> None]],
   order |-> Append(c.order, [key |-> k, serial |-> nextSerial]),
   bytes |-> (IF c.entries[k] = None THEN c.bytes ELSE c.bytes - c.entries[k].size) + size]

\* remember
Remember(k, size) ==
  /\ nextSerial <= MaxSerial
  /\ Becomes(Pruned(Stored(Pruned(Cache, now), k, size), now))
  /\ nextSerial' = nextSerial + 1
  /\ UNCHANGED now

\* Faulty: a packet is sent again however recently it was.
SuppressedNever(e) == FALSE

\* lookup_for_retransmission: suppressed
Suppressed(e) == e.sentAt # None /\ now - e.sentAt < Interval

\* handle_generic_nacks for the distinct numbers K of a compound packet: those
\* found and not suppressed are sent, up to MaxHits, in the order of the packet.
Nack(K, hits) ==
  LET c == Pruned(Cache, now)
      found == {k \in K \cap Present(c.entries) : ~Suppressed(c.entries[k])}
  IN /\ K # {}
     /\ hits \subseteq found
     /\ Cardinality(hits) = Min({MaxHits, Cardinality(found)})
     /\ Becomes([c EXCEPT !.entries =
                   [k \in Keys |-> IF k \in hits THEN [c.entries[k] EXCEPT !.sentAt = now]
                                   ELSE c.entries[k]]])
     /\ UNCHANGED <<now, nextSerial>>

\* snapshot, for the statistics log
Snapshot ==
  /\ Becomes(Pruned(Cache, now))
  /\ UNCHANGED <<now, nextSerial>>

\* clear, when the transport gets its peer context.
Clear ==
  /\ entries' = [k \in Keys |-> None]
  /\ order' = <<>>
  /\ byteCount' = 0
  /\ nextSerial' = 1
  /\ UNCHANGED now

Tick ==
  /\ now < MaxTime
  /\ now' = now + 1
  /\ UNCHANGED <<entries, order, byteCount, nextSerial>>

-----------------------------------------------------------------------------

\* Entries and queue have their types; serial numbers are below the next one.
TypeOK ==
  /\ now \in 0..MaxTime
  /\ entries \in [Keys -> Entry \cup {None}]
  /\ order \in Seq(Element)
  /\ byteCount \in Nat
  /\ nextSerial \in 1..MaxSerial + 1
  /\ \A k \in Present(entries) : entries[k].serial < nextSerial

\* Every entry has its one element in the queue, and the queue is in the order
\* in which packets were stored: so every entry can be evicted, and the oldest
\* always goes first, however often keys are stored again.
QueueCoversEntries ==
  /\ \A k \in Present(entries) : \E i \in 1..Len(order) :
       order[i] = [key |-> k, serial |-> entries[k].serial]
  /\ \A i, j \in 1..Len(order) : i < j => order[i].serial < order[j].serial

\* The number of bytes, kept by additions and subtractions in four places, is
\* the sum of the sizes of the entries, and within the limit like their number.
BytesAreCounted ==
  /\ byteCount = Bytes(entries, Present(entries))
  /\ WithinLimits(Cache)

\* Map, queue and byte count agree.
AccountsAgree == TypeOK /\ QueueCoversEntries /\ BytesAreCounted

\* No packet leaves before its time: an entry that a step removes was too old,
\* or it and all packets stored after it exceed a limit; and what is left was
\* stored after it.
OldestLeaveFirst ==
  [][nextSerial' >= nextSerial =>
       \A k \in Present(entries) \ Present(entries') :
         LET size(j) == IF entries'[j] # None THEN entries'[j].size ELSE entries[j].size
             since == Present(entries') \cup
                        {j \in Present(entries) : entries[j].serial >= entries[k].serial}
         IN /\ \A j \in Present(entries') : entries'[j].serial > entries[k].serial
            /\ \/ now - entries[k].storedAt > MaxAge
               \/ Cardinality(since) > MaxPackets
               \/ MapThenSumSet(size, since) > MaxBytes]_cacheVars

\* A packet is sent again only after the minimum interval, however many
\* compound packets ask for it.
RetransmissionsAreSpaced ==
  [][\A k \in Present(entries) :
       LET e == entries[k]
       IN entries'[k] # None /\ entries'[k].serial = e.serial /\ entries'[k].sentAt # e.sentAt
          /\ e.sentAt # None =>
            entries'[k].sentAt - e.sentAt >= Interval]_cacheVars
=============================================================================
