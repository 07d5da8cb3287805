------------------------ MODULE WhipReceptionProofs ------------------------
(***************************************************************************)
(* Proofs about WhipReception: the receive statistics and the receiver     *)
(* reports made from them, and the arrivals that transport-cc feedback is  *)
(* made from.                                                              *)
(***************************************************************************)
EXTENDS WhipReception, FiniteSetTheorems, WellFoundedInduction, TLAPS

LEMMA Constants ==
  /\ SeqMod \in Nat \ {0} /\ Dropout \in Nat \ {0} /\ Misorder \in Nat \ {0}
  /\ MaxJump \in Nat \ {0} /\ StatusLimit \in Nat \ {0}
  /\ MaxSources \in Nat /\ HistoryLimit \in Nat /\ MaxDatagrams \in Nat
  /\ MaxNumber \in Nat /\ MaxPackets \in Nat
  /\ Dropout + Misorder <= SeqMod /\ 2 * MaxJump < SeqMod
  /\ None \notin Int /\ None \notin [first: Nat, top: Nat]
  BY ReceptionAssumption

-----------------------------------------------------------------------------
(* Numbers modulo m.                                                       *)

LEMMA Division ==
  ASSUME NEW a \in Int, NEW m \in Int, m > 0
  PROVE  a = (a \div m) * m + (a % m)
  BY Z3

LEMMA Rounds ==
  ASSUME NEW a \in Int, NEW m \in Nat \ {0}
  PROVE  /\ a % m \in 0..m - 1 /\ a \div m \in Int
         /\ a = (a \div m) * m + (a % m)
<1>1. a % m \in 0..m - 1
  OBVIOUS
<1>2. a \div m \in Int
  BY Z3
<1>3. m \in Int /\ m > 0
  OBVIOUS
<1> QED
  BY <1>1, <1>2, <1>3, Division, Zenon

\* A multiple of m that is less than m is none of it.
LEMMA SmallMultiple ==
  ASSUME NEW k \in Int, NEW m \in Nat \ {0}, k * m < m, k * m > -m
  PROVE  k = 0 /\ k * m = 0
<1>1. ~(k >= 1)
  <2>1. ASSUME k >= 1 PROVE k * m >= m
    BY <2>1
  <2> QED
    BY <2>1
<1>2. ~(k <= -1)
  <2>1. ASSUME k <= -1 PROVE k * m <= -m
    BY <2>1
  <2> QED
    BY <2>1
<1>3. k = 0
  BY <1>1, <1>2
<1> QED
  BY <1>3

\* How far n is ahead of t, from their numbers modulo m.
LEMMA AheadDistance ==
  ASSUME NEW n \in Nat, NEW t \in Nat, NEW m \in Nat \ {0}, NEW d \in Nat, NEW o \in Nat \ {0},
         d + o <= m, n - t \in (1 - o)..(m - o),
         ((n % m) - (t % m) + m) % m < d
  PROVE  /\ n >= t
         /\ n - t = (n % m) - (t % m) + (IF n % m < t % m THEN m ELSE 0)
<1> DEFINE q == n % m
           p == t % m
           a == n \div m
           b == t \div m
           k == a - b
<1>1. q \in 0..m - 1 /\ p \in 0..m - 1 /\ a \in Int /\ b \in Int /\ n = a * m + q /\ t = b * m + p
  BY Rounds
<1>2. (q - p + m) % m < d
  OBVIOUS
<1> HIDE DEF q, p, a, b
<1>3. k \in Int /\ k * m = a * m - b * m /\ a * m \in Int /\ b * m \in Int
  BY <1>1
<1>4. n - t = k * m + (q - p) /\ k * m \in Int
  BY <1>1, <1>3
<1> HIDE DEF k
<1>5. CASE q >= p
  <2>1. (q - p + m) % m = q - p
    BY <1>1, <1>5
  <2>2. k * m < m /\ k * m > -m
    BY <1>1, <1>2, <1>4, <1>5, <2>1
  <2>3. k * m = 0
    BY <1>3, <2>2, SmallMultiple
  <2> QED
    BY <1>1, <1>4, <1>5, <2>3 DEF q, p
<1>6. CASE q < p
  <2>1. (q - p + m) % m = q - p + m
    BY <1>1, <1>6
  <2>2. k * m - m < m /\ k * m - m > -m
    BY <1>1, <1>2, <1>4, <1>6, <2>1
  <2>3. (k - 1) * m = k * m - m /\ k - 1 \in Int
    BY <1>3
  <2>4. (k - 1) * m = 0
    <3> DEFINE l == k - 1
    <3>1. l \in Int /\ l * m < m /\ l * m > -m
      BY <2>2, <2>3
    <3> HIDE DEF l
    <3>2. l * m = 0
      BY <3>1, SmallMultiple
    <3> QED
      BY <3>2 DEF l
  <2>5. n - t = q - p + m
    BY <1>1, <1>4, <2>3, <2>4
  <2>6. n >= t
    BY <1>1, <2>5
  <2> QED
    BY <1>6, <2>5, <2>6, Zenon DEF q, p
<1> QED
  BY <1>1, <1>5, <1>6

-----------------------------------------------------------------------------
(* Receive statistics.                                                     *)

\* The statistics st of a source whose packets have the numbers of no, and the
\* sums rep of its reports.
StatsOK(st, no, rep) ==
  /\ st \in Statistics
  /\ no \in [first: Nat, top: Nat] /\ no.first <= no.top
  /\ st.max = no.top % SeqMod
  /\ Expected(st) = no.top - no.first + 1
  /\ rep.expected = st.expPrior /\ rep.lost = st.expPrior - st.recPrior

LEMMA InitializedOK ==
  ASSUME NEW n \in Nat
  PROVE  StatsOK(Initialized(n % SeqMod), [first |-> n, top |-> n], [expected |-> 0, lost |-> 0])
<1> DEFINE q == n % SeqMod
<1>1. SeqMod \in Nat \ {0}
  BY Constants
<1>2. q \in 0..SeqMod - 1
  BY <1>1
<1> HIDE DEF q
<1>3. Initialized(q) \in Statistics
  BY <1>1, <1>2 DEF Initialized, Statistics, NoSuspect
<1>4. Expected(Initialized(q)) = 1 /\ Initialized(q).max = q
  BY <1>2 DEF Initialized, Expected
<1>5. Initialized(q).expPrior = 0 /\ Initialized(q).recPrior = 0
  BY DEF Initialized
<1> QED
  BY <1>3, <1>4, <1>5 DEF StatsOK, q

\* A record of statistics whose other fields count on.
LEMMA StatsMove ==
  ASSUME NEW st, NEW no, NEW rep, StatsOK(st, no, rep), NEW u \in Statistics,
         NEW n \in Nat, NEW v, v = [no EXCEPT !.top = n], n >= no.top,
         u.max = n % SeqMod, u.base = st.base,
         u.cycles + u.max = st.cycles + st.max + (n - no.top),
         u.expPrior = st.expPrior, u.recPrior = st.recPrior
  PROVE  StatsOK(u, v, rep)
<1>1. no.first \in Nat /\ no.top \in Nat /\ no.first <= no.top
  BY DEF StatsOK
<1>2. v \in [first: Nat, top: Nat] /\ v.first = no.first /\ v.top = n
  BY DEF StatsOK
<1>3. /\ u.cycles \in Int /\ u.max \in Int /\ u.base \in Int
      /\ st.cycles \in Int /\ st.max \in Int /\ st.base \in Int
  BY Constants DEF StatsOK, Statistics
<1>4. Expected(u) = n - no.first + 1
  <2>1. st.cycles + st.max - st.base + 1 = no.top - no.first + 1
    BY DEF StatsOK, Expected
  <2> QED
    BY <1>1, <1>3, <2>1 DEF Expected
<1>5. v.first <= v.top
  BY <1>1, <1>2
<1> QED
  BY <1>2, <1>4, <1>5 DEF StatsOK

LEMMA AheadTyped ==
  ASSUME NEW st \in Statistics, NEW q \in 0..SeqMod - 1, NEW w \in Nat
  PROVE  [st EXCEPT !.max = q, !.cycles = w, !.received = @ + 1] \in Statistics
<1>1. st.received + 1 \in Nat
  BY DEF Statistics
<1> DEFINE a == [st EXCEPT !.max = q]
           b == [a EXCEPT !.cycles = w]
           r == st.received + 1
<1>2. a \in Statistics
  BY DEF Statistics
<1>3. b \in Statistics
  <2> HIDE DEF a
  <2> QED
    BY <1>2 DEF Statistics
<1>4. [b EXCEPT !.received = r] \in Statistics
  <2> HIDE DEF b, r
  <2> QED
    BY <1>1, <1>3 DEF Statistics, r
<1>5. [st EXCEPT !.max = q, !.cycles = w, !.received = @ + 1] = [b EXCEPT !.received = r]
  BY DEF Statistics
<1> QED
  BY <1>4, <1>5

\* update_sequence, for a number that the network may deliver.
LEMMA UpdatedOK ==
  ASSUME NEW st, NEW no, NEW rep, StatsOK(st, no, rep), st # None, NEW n \in Nat,
         n - no.top \in (1 - Misorder)..(SeqMod - Misorder),
         NEW q, q = n % SeqMod, NEW verdict, verdict = Verdict(st, q)
  PROVE  /\ verdict \in {"restart", "suspect", "late", "ahead"}
         /\ verdict = "restart" =>
              StatsOK(Updated(st, q), [first |-> n, top |-> n], [expected |-> 0, lost |-> 0])
         /\ verdict \in {"suspect", "late"} => StatsOK(Updated(st, q), no, rep)
         /\ verdict = "ahead" => StatsOK(Updated(st, q), [no EXCEPT !.top = n], rep)
<1>1. SeqMod \in Nat \ {0} /\ Dropout \in Nat /\ Misorder \in Nat \ {0} /\ Dropout + Misorder <= SeqMod
  BY Constants
<1>2. q \in 0..SeqMod - 1
  BY <1>1
<1>3. st \in Statistics /\ no.top \in Nat /\ st.max = no.top % SeqMod /\ no \in [first: Nat, top: Nat]
  BY DEF StatsOK
<1>4. st.max \in 0..SeqMod - 1 /\ st.cycles \in Nat /\ st.received \in Nat
  BY <1>3 DEF Statistics
<1>5. verdict \in {"restart", "suspect", "late", "ahead"}
  BY DEF Verdict
<1>6. CASE verdict = "restart"
  <2>1. Updated(st, q) = Initialized(q)
    BY <1>6 DEF Updated
  <2> QED
    BY <1>6, <2>1, InitializedOK
<1>7. CASE verdict = "suspect"
  <2>1. Updated(st, q) = [st EXCEPT !.bad = (q + 1) % SeqMod]
    BY <1>7 DEF Updated
  <2>2. (q + 1) % SeqMod \in 0..SeqMod + 1
    BY <1>1, <1>2
  <2> DEFINE b == (q + 1) % SeqMod
             u == [st EXCEPT !.bad = b]
  <2> HIDE DEF b
  <2>3. u \in Statistics
    BY <1>3, <2>2 DEF Statistics, b
  <2>4. /\ u.base = st.base /\ u.max = st.max /\ u.cycles = st.cycles
        /\ u.expPrior = st.expPrior /\ u.recPrior = st.recPrior
    BY <1>3 DEF Statistics
  <2> HIDE DEF u
  <2>5. StatsOK(u, no, rep)
    BY <2>3, <2>4 DEF StatsOK, Expected
  <2> QED
    BY <1>7, <2>1, <2>5 DEF u, b
<1>8. CASE verdict = "late"
  <2> DEFINE u == [st EXCEPT !.received = @ + 1]
  <2>1. Updated(st, q) = u
    BY <1>8 DEF Updated
  <2>2. u \in Statistics
    BY <1>3, <1>4 DEF Statistics
  <2>3. /\ u.base = st.base /\ u.max = st.max /\ u.cycles = st.cycles
        /\ u.expPrior = st.expPrior /\ u.recPrior = st.recPrior
    BY <1>3 DEF Statistics
  <2> HIDE DEF u
  <2>4. StatsOK(u, no, rep)
    BY <2>2, <2>3 DEF StatsOK, Expected
  <2> QED
    BY <1>8, <2>1, <2>4
<1>9. CASE verdict = "ahead"
  <2> DEFINE w == IF q < st.max THEN st.cycles + SeqMod ELSE st.cycles
             u == [st EXCEPT !.max = q, !.cycles = w, !.received = @ + 1]
  <2>1. Updated(st, q) = u
    BY <1>9 DEF Updated
  <2>2. (q - st.max + SeqMod) % SeqMod < Dropout
    <3>1. ~((q - st.max + SeqMod) % SeqMod < Dropout) => verdict # "ahead"
      BY DEF Verdict
    <3> QED
      BY <1>9, <3>1
  <2>3. n >= no.top /\ n - no.top = q - st.max + (IF q < st.max THEN SeqMod ELSE 0)
    <3>1. ((n % SeqMod) - (no.top % SeqMod) + SeqMod) % SeqMod < Dropout
      BY <1>3, <2>2
    <3>2. /\ n >= no.top
          /\ n - no.top = (n % SeqMod) - (no.top % SeqMod)
                          + (IF n % SeqMod < no.top % SeqMod THEN SeqMod ELSE 0)
      BY <1>1, <1>3, <3>1, AheadDistance, ZenonT(60)
    <3> QED
      BY <1>3, <3>2, Zenon
  <2>4. w \in Nat /\ w + q = st.cycles + st.max + (n - no.top)
    BY <1>1, <1>2, <1>4, <2>3
  <2> HIDE DEF w
  <2>5. u \in Statistics
    BY <1>2, <1>3, <1>4, <2>4, AheadTyped DEF Statistics
  <2>6. /\ u.base = st.base /\ u.max = q /\ u.cycles = w
        /\ u.expPrior = st.expPrior /\ u.recPrior = st.recPrior
    BY <1>3 DEF Statistics
  <2> HIDE DEF u
  <2>7. StatsOK(u, [no EXCEPT !.top = n], rep)
    BY <2>3, <2>4, <2>5, <2>6, StatsMove
  <2> QED
    BY <1>9, <2>1, <2>7
<1> QED
  BY <1>5, <1>6, <1>7, <1>8, <1>9

\* commit_report after preview_report.
LEMMA CommittedOK ==
  ASSUME NEW st, NEW no, NEW rep, StatsOK(st, no, rep), NEW r, r = Report(st),
         NEW sum, sum = [expected |-> rep.expected + r.expected, lost |-> rep.lost + r.lost]
  PROVE  StatsOK(Committed(st), no, sum)
<1> DEFINE u == Committed(st)
<1>1. st \in Statistics /\ no.first \in Nat /\ no.top \in Nat /\ no.first <= no.top
  BY DEF StatsOK
<1>2. Expected(st) \in Nat
  BY <1>1 DEF StatsOK
<1>3. st.received \in Nat /\ st.expPrior \in Nat /\ st.recPrior \in Nat
  BY <1>1 DEF Statistics
<1>4. /\ u \in Statistics
      /\ u.base = st.base /\ u.max = st.max /\ u.cycles = st.cycles
      /\ u.expPrior = Expected(st) /\ u.recPrior = st.received
  BY <1>1, <1>2, <1>3 DEF Committed, Statistics
<1>5. Expected(u) = Expected(st)
  BY <1>4 DEF Expected
<1>6. sum.expected = Expected(st) /\ sum.lost = Expected(st) - st.received
  BY <1>2, <1>3 DEF StatsOK, Report
<1> HIDE DEF u
<1> QED
  BY <1>4, <1>5, <1>6 DEF StatsOK, u

Kinds == {codec.kind : codec \in Codecs} \cup {None}

Receiver == [kind: Kinds, stats: Statistics \cup {None}]

NumberType == [first: Nat, top: Nat]

SumType == [expected: Int, lost: Int]

KnownOf(r) == {s \in Ssrcs : r[s] # None}

SourceOK(v, no, rep) == v # None /\ v.stats # None => StatsOK(v.stats, no, rep)

\* The inductive invariant of the receive statistics.
SourcesOK(r, nos, reps) ==
  /\ r \in [Ssrcs -> Receiver \cup {None}]
  /\ nos \in [Ssrcs -> NumberType \cup {None}]
  /\ reps \in [Ssrcs -> SumType]
  /\ Cardinality(KnownOf(r)) <= MaxSources
  /\ \A s \in Ssrcs : SourceOK(r[s], nos[s], reps[s])

SourcesInv == SourcesOK(receivers, numbers, reported)

LEMMA KnownFinite ==
  ASSUME NEW r
  PROVE  IsFiniteSet(KnownOf(r)) /\ Cardinality(KnownOf(r)) \in Nat
<1>1. KnownOf(r) \subseteq Ssrcs /\ IsFiniteSet(Ssrcs)
  BY ReceptionAssumption DEF KnownOf
<1> QED
  BY <1>1, FS_Subset, FS_CardinalityType

\* A step changes what is known of one source.
LEMMA OneSource ==
  ASSUME NEW r, NEW nos, NEW reps, SourcesOK(r, nos, reps), NEW s \in Ssrcs,
         NEW v \in Receiver \cup {None}, NEW no \in NumberType \cup {None}, NEW rep \in SumType,
         SourceOK(v, no, rep),
         v = None \/ r[s] # None \/ Cardinality(KnownOf(r)) < MaxSources
  PROVE  SourcesOK([r EXCEPT ![s] = v], [nos EXCEPT ![s] = no], [reps EXCEPT ![s] = rep])
<1> DEFINE u == [r EXCEPT ![s] = v]
           ns == [nos EXCEPT ![s] = no]
           ps == [reps EXCEPT ![s] = rep]
<1>1. /\ u \in [Ssrcs -> Receiver \cup {None}] /\ u[s] = v
      /\ \A t \in Ssrcs \ {s} : u[t] = r[t]
  BY DEF SourcesOK
<1>2. ns \in [Ssrcs -> NumberType \cup {None}] /\ ns[s] = no /\ \A t \in Ssrcs \ {s} : ns[t] = nos[t]
  BY DEF SourcesOK
<1>3. ps \in [Ssrcs -> SumType] /\ ps[s] = rep /\ \A t \in Ssrcs \ {s} : ps[t] = reps[t]
  BY DEF SourcesOK
<1> HIDE DEF u, ns, ps
<1>4. Cardinality(KnownOf(u)) <= MaxSources
  <2>1. /\ IsFiniteSet(KnownOf(r)) /\ Cardinality(KnownOf(r)) \in Nat
        /\ IsFiniteSet(KnownOf(u)) /\ Cardinality(KnownOf(u)) \in Nat
    BY KnownFinite
  <2>2. MaxSources \in Nat /\ Cardinality(KnownOf(r)) <= MaxSources
    BY Constants DEF SourcesOK
  <2>3. CASE v = None \/ r[s] # None
    <3>1. KnownOf(u) \subseteq KnownOf(r)
      BY <1>1, <2>3 DEF KnownOf
    <3>2. Cardinality(KnownOf(u)) <= Cardinality(KnownOf(r))
      BY <2>1, <3>1, FS_Subset
    <3> QED
      BY <2>1, <2>2, <3>2
  <2>4. CASE v # None /\ r[s] = None
    <3>1. KnownOf(u) \subseteq KnownOf(r) \cup {s} /\ s \notin KnownOf(r)
      BY <1>1, <2>4 DEF KnownOf
    <3>2. /\ IsFiniteSet(KnownOf(r) \cup {s})
          /\ Cardinality(KnownOf(r) \cup {s}) = Cardinality(KnownOf(r)) + 1
      BY <2>1, <3>1, FS_AddElement
    <3>3. Cardinality(KnownOf(u)) <= Cardinality(KnownOf(r) \cup {s})
      BY <3>1, <3>2, FS_Subset
    <3> QED
      BY <2>1, <2>2, <2>4, <3>2, <3>3
  <2> QED
    BY <2>3, <2>4
<1>5. \A t \in Ssrcs : SourceOK(u[t], ns[t], ps[t])
  <2>1. ASSUME NEW t \in Ssrcs PROVE SourceOK(u[t], ns[t], ps[t])
    <3>1. CASE t = s
      BY <1>1, <1>2, <1>3, <3>1
    <3>2. CASE t # s
      <4>1. u[t] = r[t] /\ ns[t] = nos[t] /\ ps[t] = reps[t]
        BY <1>1, <1>2, <1>3, <3>2
      <4>2. SourceOK(r[t], nos[t], reps[t])
        BY DEF SourcesOK
      <4> QED
        BY <4>1, <4>2
    <3> QED
      BY <3>1, <3>2
  <2> QED
    BY <2>1
<1>6. SourcesOK(u, ns, ps)
  BY <1>1, <1>2, <1>3, <1>4, <1>5 DEF SourcesOK
<1> QED
  BY <1>6 DEF u, ns, ps

LEMMA SameFunction ==
  ASSUME NEW S, NEW T, NEW f \in [S -> T], NEW x \in S
  PROVE  [f EXCEPT ![x] = f[x]] = f
  OBVIOUS

LEMMA ObserveSourceOK ==
  ASSUME SourcesInv, NEW s \in Ssrcs, NEW codec \in Codecs, NEW n \in Nat, Deliverable(s, n),
         ObserveSource(s, codec, n)
  PROVE  SourcesInv'
<1> DEFINE q == n % SeqMod
           st == IF s \in Known THEN receivers[s].stats ELSE None
           verdict == Verdict(st, q)
           v == [kind |-> codec.kind, stats |-> Updated(st, q)]
           no == CASE verdict \in {"first", "restart"} -> [first |-> n, top |-> n]
                   [] verdict = "ahead" -> [numbers[s] EXCEPT !.top = n]
                   [] OTHER -> numbers[s]
           rep == IF verdict \in {"first", "restart"} THEN [expected |-> 0, lost |-> 0]
                  ELSE reported[s]
<1>1. CASE UNCHANGED <<receivers, numbers, reported>>
  BY <1>1 DEF SourcesInv
<1>2. CASE ~UNCHANGED <<receivers, numbers, reported>>
  <2>1. ~(s \notin Known /\ Cardinality(Known) >= MaxSources)
    BY <1>2 DEF ObserveSource
  <2>2. /\ receivers' = [receivers EXCEPT ![s] = v]
        /\ numbers' = [numbers EXCEPT ![s] = no]
        /\ reported' = IF verdict \in {"first", "restart"}
                       THEN [reported EXCEPT ![s] = [expected |-> 0, lost |-> 0]] ELSE reported
    <3> HIDE DEF verdict, v
    <3>1. \/ UNCHANGED <<receivers, numbers, reported>>
          \/ /\ receivers' = [receivers EXCEPT ![s] = v]
             /\ numbers' = [numbers EXCEPT ![s] = no]
             /\ reported' = IF verdict \in {"first", "restart"}
                            THEN [reported EXCEPT ![s] = [expected |-> 0, lost |-> 0]] ELSE reported
      BY Zenon DEF ObserveSource, verdict, v
    <3> QED
      BY <1>2, <3>1
  <2> HIDE DEF no, v
  <2>3. /\ receivers \in [Ssrcs -> Receiver \cup {None}]
        /\ numbers \in [Ssrcs -> NumberType \cup {None}]
        /\ reported \in [Ssrcs -> SumType]
        /\ SourceOK(receivers[s], numbers[s], reported[s])
    BY DEF SourcesInv, SourcesOK
  <2>4. Known = KnownOf(receivers)
    BY DEF Known, KnownOf
  <2>5. receivers[s] # None \/ Cardinality(KnownOf(receivers)) < MaxSources
    <3>1. Cardinality(KnownOf(receivers)) \in Nat /\ MaxSources \in Nat
      BY KnownFinite, Constants
    <3>2. CASE s \in Known
      BY <3>2 DEF Known
    <3>3. CASE s \notin Known
      <4>1. ~(Cardinality(KnownOf(receivers)) >= MaxSources)
        BY <2>1, <2>4, <3>3, Zenon
      <4> QED
        BY <3>1, <4>1
    <3> QED
      BY <3>2, <3>3
  <2>6. reported' = [reported EXCEPT ![s] = rep]
    <3>1. [reported EXCEPT ![s] = reported[s]] = reported
      BY <2>3, SameFunction
    <3> HIDE DEF verdict
    <3> QED
      BY <2>2, <3>1
  <2> HIDE DEF rep, st
  <2>7. [first |-> n, top |-> n] \in NumberType /\ [expected |-> 0, lost |-> 0] \in SumType
    BY DEF NumberType, SumType
  <2>8. no \in NumberType /\ rep \in SumType /\ StatsOK(Updated(st, q), no, rep)
    <3>1. CASE st = None
      <4>1. verdict = "first"
        BY <3>1 DEF Verdict
      <4>2. Updated(st, q) = Initialized(q)
        BY <4>1 DEF Updated
      <4>3. no = [first |-> n, top |-> n] /\ rep = [expected |-> 0, lost |-> 0]
        BY <4>1 DEF no, rep
      <4> HIDE DEF verdict
      <4> QED
        BY <2>7, <4>2, <4>3, InitializedOK
    <3>2. CASE st # None
      <4>1. StatsOK(st, numbers[s], reported[s])
        BY <2>3, <3>2 DEF SourceOK, st, Known
      <4>2. numbers[s] \in NumberType /\ numbers[s] # None
        BY <4>1, Constants DEF StatsOK, NumberType
      <4>3. n - numbers[s].top \in (1 - Misorder)..(SeqMod - Misorder)
        BY <4>2 DEF Deliverable
      <4>4. /\ verdict \in {"restart", "suspect", "late", "ahead"}
            /\ verdict = "restart" =>
                 StatsOK(Updated(st, q), [first |-> n, top |-> n], [expected |-> 0, lost |-> 0])
            /\ verdict \in {"suspect", "late"} => StatsOK(Updated(st, q), numbers[s], reported[s])
            /\ verdict = "ahead" => StatsOK(Updated(st, q), [numbers[s] EXCEPT !.top = n], reported[s])
        BY <3>2, <4>1, <4>3, UpdatedOK, ZenonT(30)
      <4>5. [numbers[s] EXCEPT !.top = n] \in NumberType /\ reported[s] \in SumType
        BY <2>3, <4>2 DEF NumberType
      <4> HIDE DEF verdict, q
      <4>6. CASE verdict = "restart"
        BY <2>7, <4>4, <4>6 DEF no, rep
      <4>7. CASE verdict \in {"suspect", "late"}
        BY <4>2, <4>4, <4>5, <4>7 DEF no, rep
      <4>8. CASE verdict = "ahead"
        BY <4>4, <4>5, <4>8 DEF no, rep
      <4> QED
        BY <4>4, <4>6, <4>7, <4>8
    <3> QED
      BY <3>1, <3>2
  <2> HIDE DEF q
  <2>9. v \in Receiver /\ SourceOK(v, no, rep)
    <3>1. Updated(st, q) \in Statistics
      BY <2>8 DEF StatsOK
    <3>2. v.stats = Updated(st, q)
      BY DEF v
    <3>3. codec.kind \in Kinds
      BY DEF Kinds
    <3> QED
      BY <2>8, <3>1, <3>2, <3>3 DEF v, Receiver, SourceOK
  <2>10. SourcesOK([receivers EXCEPT ![s] = v], [numbers EXCEPT ![s] = no], [reported EXCEPT ![s] = rep])
    BY <2>5, <2>8, <2>9, OneSource DEF SourcesInv
  <2> QED
    BY <2>2, <2>6, <2>10, Zenon DEF SourcesInv
<1> QED
  BY <1>1, <1>2

LEMMA SenderReportOK ==
  ASSUME SourcesInv, NEW s \in Ssrcs, SenderReport(s)
  PROVE  SourcesInv'
<1> DEFINE v == [kind |-> None, stats |-> None]
<1>1. /\ receivers' = [receivers EXCEPT ![s] = v] /\ numbers' = numbers /\ reported' = reported
      /\ Cardinality(Known) < MaxSources
  BY DEF SenderReport
<1>2. v \in Receiver /\ v.stats = None
  BY DEF Receiver, Kinds
<1> HIDE DEF v
<1>3. /\ numbers \in [Ssrcs -> NumberType \cup {None}] /\ reported \in [Ssrcs -> SumType]
      /\ numbers[s] \in NumberType \cup {None} /\ reported[s] \in SumType
  BY DEF SourcesInv, SourcesOK
<1>4. [numbers EXCEPT ![s] = numbers[s]] = numbers /\ [reported EXCEPT ![s] = reported[s]] = reported
  BY <1>3, SameFunction
<1>5. Known = KnownOf(receivers)
  BY DEF Known, KnownOf
<1>6. SourceOK(v, numbers[s], reported[s])
  BY <1>2 DEF SourceOK
<1>7. SourcesOK([receivers EXCEPT ![s] = v], [numbers EXCEPT ![s] = numbers[s]],
                [reported EXCEPT ![s] = reported[s]])
  BY <1>1, <1>2, <1>3, <1>5, <1>6, OneSource DEF SourcesInv
<1> QED
  BY <1>1, <1>4, <1>7, Zenon DEF SourcesInv

LEMMA ByeOK ==
  ASSUME SourcesInv, NEW s \in Ssrcs, Bye(s)
  PROVE  SourcesInv'
<1>1. /\ receivers' = [receivers EXCEPT ![s] = None] /\ numbers' = [numbers EXCEPT ![s] = None]
      /\ reported' = reported
  BY DEF Bye
<1>2. reported \in [Ssrcs -> SumType] /\ reported[s] \in SumType
  BY DEF SourcesInv, SourcesOK
<1>3. [reported EXCEPT ![s] = reported[s]] = reported
  BY <1>2, SameFunction
<1>4. SourceOK(None, None, reported[s])
  BY DEF SourceOK
<1>5. SourcesOK([receivers EXCEPT ![s] = None], [numbers EXCEPT ![s] = None],
                [reported EXCEPT ![s] = reported[s]])
  BY <1>2, <1>4, OneSource DEF SourcesInv
<1> QED
  BY <1>1, <1>3, <1>5, Zenon DEF SourcesInv

LEMMA SendReceiverReportsOK ==
  ASSUME SourcesInv, NEW sent, SendReceiverReports(sent)
  PROVE  SourcesInv'
<1> DEFINE X == {s \in Active : BlockOf(s) \in sent}
           v(s) == [receivers[s] EXCEPT !.stats = Committed(@)]
           p(s) == LET r == Report(receivers[s].stats)
                   IN [expected |-> reported[s].expected + r.expected, lost |-> reported[s].lost + r.lost]
           u == [s \in Ssrcs |-> IF s \in X THEN v(s) ELSE receivers[s]]
           ps == [s \in Ssrcs |-> IF s \in X THEN p(s) ELSE reported[s]]
<1>1. receivers' = u /\ numbers' = numbers /\ reported' = ps
  BY DEF SendReceiverReports
<1>2. /\ receivers \in [Ssrcs -> Receiver \cup {None}]
      /\ numbers \in [Ssrcs -> NumberType \cup {None}]
      /\ reported \in [Ssrcs -> SumType]
      /\ Cardinality(KnownOf(receivers)) <= MaxSources
      /\ \A s \in Ssrcs : SourceOK(receivers[s], numbers[s], reported[s])
  BY DEF SourcesInv, SourcesOK
<1>3. \A s \in X : s \in Ssrcs /\ receivers[s] # None /\ receivers[s].stats # None
  BY DEF Active, Known
<1> HIDE DEF X
<1>4. ASSUME NEW s \in X
      PROVE  /\ v(s) \in Receiver /\ v(s).stats = Committed(receivers[s].stats)
             /\ p(s) \in SumType /\ StatsOK(v(s).stats, numbers[s], p(s))
  <2>1. StatsOK(receivers[s].stats, numbers[s], reported[s]) /\ receivers[s] \in Receiver
    BY <1>2, <1>3 DEF SourceOK
  <2>2. StatsOK(Committed(receivers[s].stats), numbers[s], p(s))
    BY <2>1, CommittedOK, Zenon
  <2>3. Committed(receivers[s].stats) \in Statistics
    BY <2>2 DEF StatsOK
  <2>4. v(s) \in Receiver /\ v(s).stats = Committed(receivers[s].stats)
    <3> DEFINE c == Committed(receivers[s].stats)
    <3> HIDE DEF c
    <3>1. v(s) = [receivers[s] EXCEPT !.stats = c]
      BY DEF c
    <3>2. c \in Statistics
      BY <2>3 DEF c
    <3>3. [receivers[s] EXCEPT !.stats = c] \in Receiver /\ [receivers[s] EXCEPT !.stats = c].stats = c
      BY <2>1, <3>2 DEF Receiver
    <3> QED
      BY <3>1, <3>3, Zenon DEF c
  <2>5. p(s) \in SumType
    <3> DEFINE st == receivers[s].stats
    <3>1. st \in Statistics /\ Expected(st) \in Int
      BY <2>1 DEF StatsOK
    <3>2. st.received \in Nat /\ st.expPrior \in Nat /\ st.recPrior \in Nat
      BY <3>1 DEF Statistics
    <3>3. reported[s].expected \in Int /\ reported[s].lost \in Int
      BY <1>2, <1>3 DEF SumType
    <3>4. Report(st).expected \in Int /\ Report(st).lost \in Int
      BY <3>1, <3>2 DEF Report
    <3> HIDE DEF st
    <3>5. /\ reported[s].expected + Report(st).expected \in Int
          /\ reported[s].lost + Report(st).lost \in Int
      BY <3>3, <3>4
    <3> QED
      BY <3>5 DEF SumType, st
  <2> QED
    BY <2>2, <2>4, <2>5, Zenon
<1>5. u \in [Ssrcs -> Receiver \cup {None}] /\ ps \in [Ssrcs -> SumType]
  <2> HIDE DEF v, p
  <2> QED
    BY <1>2, <1>4
<1>6. \A s \in Ssrcs : SourceOK(u[s], numbers[s], ps[s])
  <2>1. ASSUME NEW s \in Ssrcs PROVE SourceOK(u[s], numbers[s], ps[s])
    <3>1. CASE s \in X
      <4>1. u[s] = v(s) /\ ps[s] = p(s)
        BY <3>1, Zenon
      <4> HIDE DEF u, ps, v, p
      <4> QED
        BY <1>4, <3>1, <4>1 DEF SourceOK
    <3>2. CASE s \notin X
      <4>1. u[s] = receivers[s] /\ ps[s] = reported[s]
        BY <3>2, Zenon
      <4> QED
        BY <1>2, <4>1, Zenon
    <3> QED
      BY <3>1, <3>2
  <2> QED
    BY <2>1
<1>7. Cardinality(KnownOf(u)) <= MaxSources
  <2>1. KnownOf(u) \subseteq KnownOf(receivers)
    <3>1. ASSUME NEW s \in Ssrcs, u[s] # None PROVE receivers[s] # None
      <4>1. CASE s \in X
        BY <1>3, <4>1
      <4>2. CASE s \notin X
        BY <3>1, <4>2
      <4> QED
        BY <4>1, <4>2
    <3> HIDE DEF u
    <3> QED
      BY <3>1 DEF KnownOf
  <2> HIDE DEF u
  <2>2. Cardinality(KnownOf(u)) <= Cardinality(KnownOf(receivers))
    BY <2>1, KnownFinite, FS_Subset
  <2> QED
    BY <1>2, <2>2, KnownFinite, Constants
<1>8. SourcesOK(u, numbers, ps)
  <2> HIDE DEF u, ps
  <2> QED
    BY <1>2, <1>5, <1>6, <1>7 DEF SourcesOK
<1> QED
  BY <1>1, <1>8, Zenon DEF SourcesInv

LEMMA InitSources == Init => SourcesInv
<1> SUFFICES ASSUME Init PROVE SourcesInv
  OBVIOUS
<1>1. /\ receivers \in [Ssrcs -> Receiver \cup {None}]
      /\ numbers \in [Ssrcs -> NumberType \cup {None}]
      /\ \A s \in Ssrcs : receivers[s] = None
  BY DEF Init
<1>2. reported \in [Ssrcs -> SumType]
  BY DEF Init, SumType
<1>3. KnownOf(receivers) = {}
  BY <1>1 DEF KnownOf
<1>4. Cardinality(KnownOf(receivers)) <= MaxSources
  BY <1>3, FS_EmptySet, Constants
<1> QED
  BY <1>1, <1>2, <1>4 DEF SourcesInv, SourcesOK, SourceOK

LEMMA NextSources == SourcesInv /\ [Next]_vars => SourcesInv'
<1> SUFFICES ASSUME SourcesInv, [Next]_vars PROVE SourcesInv'
  OBVIOUS
<1>1. ASSUME NEW s \in Ssrcs, NEW codec \in Codecs, NEW n \in 0..MaxNumber, NEW has, NEW cutoff,
             Packet(s, codec, n, has, cutoff)
      PROVE  SourcesInv'
  <2>1. n \in Nat
    BY Constants
  <2> QED
    BY <1>1, <2>1, ObserveSourceOK DEF Packet
<1>2. ASSUME NEW s \in Ssrcs, SenderReport(s) \/ Bye(s) PROVE SourcesInv'
  BY <1>2, SenderReportOK, ByeOK
<1>3. ASSUME NEW sent, SendReceiverReports(sent) PROVE SourcesInv'
  BY <1>3, SendReceiverReportsOK
<1>4. CASE UNCHANGED <<receivers, numbers, reported>>
  BY <1>4 DEF SourcesInv
<1> QED
  BY <1>1, <1>2, <1>3, <1>4 DEF Next, SendTransportFeedback, vars

\* Receiver reports add up, whichever of them could not be sent: the intervals
\* of the reports of a source cover every packet expected of it and every packet
\* received exactly once.
THEOREM TheReportsAddUp == Spec => []ReportsAddUp
<1>1. SourcesInv => ReportsAddUp
  BY DEF SourcesInv, SourcesOK, SourceOK, StatsOK, ReportsAddUp, Active, Known
<1> QED
  BY <1>1, InitSources, NextSources, PTL DEF Spec

-----------------------------------------------------------------------------
(* Least members.                                                          *)

HasSmallest(bad) == \E T \in bad : \A U \in bad : U \subseteq T => U = T

\* Of any parts of a finite set one has no other of them as a part: what takes
\* the place of induction over finite sets.
LEMMA SmallestSubset ==
  ASSUME NEW K, IsFiniteSet(K), NEW bad \in SUBSET (SUBSET K), bad # {}
  PROVE  HasSmallest(bad)
<1>1. bad \subseteq FiniteSubsetsOf(K)
  BY FS_Subset DEF FiniteSubsetsOf
<1>2. PICK T \in bad : \A U \in bad : ~(<<U, T>> \in StrictSubsetOrdering(K))
  <2>1. IsWellFoundedOn(StrictSubsetOrdering(K), FiniteSubsetsOf(K))
    BY FS_StrictSubsetOrderingWellFounded
  <2> QED
    BY <1>1, <2>1, WFMin
<1>3. ASSUME NEW U \in bad, U \subseteq T, U # T
      PROVE  FALSE
  <2>1. <<U, T>> \in StrictSubsetOrdering(K)
    BY <1>3 DEF StrictSubsetOrdering
  <2> QED
    BY <1>2, <2>1
<1> QED
  BY <1>3 DEF HasSmallest

LEMMA LeastOf ==
  ASSUME NEW S \in SUBSET Int, IsFiniteSet(S), S # {}
  PROVE  Min(S) \in S /\ \A y \in S : Min(S) <= y
<1> DEFINE Least(T) == \E x \in T : \A y \in T : x <= y
           bad == {T \in SUBSET S : T # {} /\ ~Least(T)}
<1>1. ASSUME bad # {} PROVE FALSE
  <2>1. PICK T \in bad : \A U \in bad : U \subseteq T => U = T
    <3>1. bad \in SUBSET (SUBSET S)
      OBVIOUS
    <3> HIDE DEF bad
    <3>2. HasSmallest(bad)
      BY <1>1, <3>1, SmallestSubset
    <3> QED
      BY <3>2, Zenon DEF HasSmallest
  <2>2. T \in SUBSET S /\ T # {} /\ ~Least(T)
    OBVIOUS
  <2>3. PICK x \in T : TRUE
    BY <2>2
  <2> DEFINE U == T \ {x}
  <2>4. CASE U = {}
    <3>1. T = {x} /\ x \in Int
      BY <2>2, <2>4
    <3>2. Least(T)
      BY <3>1
    <3> QED
      BY <2>2, <3>2
  <2>5. CASE U # {}
    <3>1. U \in SUBSET S /\ U \subseteq T /\ U # T
      BY <2>2
    <3>2. U \notin bad
      BY <2>1, <3>1
    <3>3. PICK z \in U : \A y \in U : z <= y
      BY <2>5, <3>1, <3>2
    <3>4. x \in Int /\ z \in Int /\ \A y \in T : y \in Int /\ (y = x \/ y \in U)
      BY <2>2
    <3> HIDE DEF U
    <3>5. CASE x <= z
      <4>1. \A y \in T : x <= y
        BY <3>3, <3>4, <3>5
      <4> QED
        BY <2>2, <4>1
    <3>6. CASE ~(x <= z)
      <4>1. \A y \in T : z <= y
        BY <3>3, <3>4, <3>6
      <4> QED
        BY <2>2, <3>1, <4>1
    <3> QED
      BY <3>5, <3>6
  <2> QED
    BY <2>4, <2>5
<1>2. PICK x \in S : \A y \in S : x <= y
  BY <1>1
<1> QED
  BY <1>2 DEF Min

-----------------------------------------------------------------------------
(* Arrivals.                                                               *)

ArrivalType == [ext: Int, n: Nat, at: Nat]

GeneratorType == [newest: Int \cup {None}, start: Int \cup {None}, arrivals: SUBSET ArrivalType]

\* A multiple of the modulus.
Aligned(k) == \E j \in Int : k = j * SeqMod

\* The generator c, whose extended numbers are the sender's plus sh.
ArrivalsOK(c, sh) ==
  /\ c \in GeneratorType /\ IsFiniteSet(c.arrivals)
  /\ (c.newest = None) = (c.start = None)
  /\ c.newest = None => c.arrivals = {}
  /\ sh \in Int /\ Aligned(sh)
  /\ \A a \in c.arrivals : a.ext = a.n + sh /\ a.ext <= c.newest
  /\ \A a, b \in c.arrivals : a.ext = b.ext => a = b

\* What arrived is in the window, or feedback told of it.
Told(c, t) == \A a \in c.arrivals : a.ext >= c.start \/ a.n \in t

LEMMA AlignedSums ==
  ASSUME NEW a \in Int, NEW b \in Int, Aligned(a), Aligned(b)
  PROVE  Aligned(a + b) /\ Aligned(a - b)
<1>1. SeqMod \in Nat \ {0}
  BY Constants
<1>2. PICK i \in Int : a = i * SeqMod
  BY DEF Aligned
<1>3. PICK j \in Int : b = j * SeqMod
  BY DEF Aligned
<1>4. a + b = (i + j) * SeqMod /\ i + j \in Int
  BY <1>1, <1>2, <1>3
<1>5. a - b = (i - j) * SeqMod /\ i - j \in Int
  BY <1>1, <1>2, <1>3
<1> QED
  BY <1>4, <1>5 DEF Aligned

LEMMA AlignedRound ==
  ASSUME NEW a \in Int
  PROVE  /\ a % SeqMod \in 0..SeqMod - 1
         /\ a - (a % SeqMod) \in Int /\ Aligned(a - (a % SeqMod)) /\ Aligned(SeqMod)
<1>1. SeqMod \in Nat \ {0}
  BY Constants
<1> DEFINE d == a \div SeqMod
           m == a % SeqMod
<1>2. d \in Int /\ m \in 0..SeqMod - 1 /\ a = d * SeqMod + m
  BY <1>1, Rounds
<1> HIDE DEF d, m
<1>3. d * SeqMod \in Int /\ a - m = d * SeqMod
  BY <1>1, <1>2
<1>4. SeqMod = 1 * SeqMod
  BY <1>1
<1>5. Aligned(a - m) /\ Aligned(SeqMod)
  BY <1>2, <1>3, <1>4 DEF Aligned
<1> QED
  BY <1>1, <1>2, <1>5 DEF m

LEMMA AlignedSmall ==
  ASSUME NEW a \in Int, Aligned(a), a < SeqMod, a > -SeqMod
  PROVE  a = 0
<1>1. SeqMod \in Nat \ {0}
  BY Constants
<1>2. PICK j \in Int : a = j * SeqMod
  BY DEF Aligned
<1> QED
  BY <1>1, <1>2, SmallMultiple

\* unwrap_sequence: the extended number of the packet n.
LEMMA ExtendedOK ==
  ASSUME ArrivalsOK(feedback, shift), NEW s, NEW n \in Nat, Deliverable(s, n),
         NEW x, x = Extended(feedback, n % SeqMod)
  PROVE  /\ x \in Int /\ Aligned(x - n)
         /\ feedback.newest # None /\ ~Discontinuity(feedback, x) => x = n + shift
<1> DEFINE q == n % SeqMod
           w == feedback.newest
<1>1. SeqMod \in Nat \ {0} /\ MaxJump \in Nat
  BY Constants
<1>2. q \in 0..SeqMod - 1 /\ n - q \in Int /\ Aligned(n - q) /\ Aligned(SeqMod)
  BY AlignedRound
<1>3. x = Extended(feedback, q)
  OBVIOUS
<1> HIDE DEF q
<1>4. 0 - (n - q) = q - n /\ Aligned(0) /\ Aligned(q - n)
  <2>1. 0 = 0 * SeqMod
    BY <1>1
  <2>2. Aligned(0)
    BY <2>1 DEF Aligned
  <2>3. 0 - (n - q) = q - n
    BY <1>2
  <2>4. Aligned(0 - (n - q))
    BY <1>2, <2>2, AlignedSums
  <2> QED
    BY <2>2, <2>3, <2>4
<1>5. CASE w = None
  BY <1>2, <1>3, <1>4, <1>5 DEF Extended
<1>6. CASE w # None
  <2>1. w \in Int
    BY <1>6 DEF ArrivalsOK, GeneratorType
  <2> DEFINE c == w - (w % SeqMod) + q
  <2>2. w - (w % SeqMod) \in Int /\ Aligned(w - (w % SeqMod))
    BY <2>1, AlignedRound
  <2>3. c \in Int /\ Aligned(c - n)
    <3> DEFINE r == w - (w % SeqMod)
    <3>1. r \in Int /\ Aligned(r) /\ q - n \in Int
      BY <1>2, <2>2
    <3> HIDE DEF r
    <3>2. Aligned(r + (q - n))
      BY <1>4, <3>1, AlignedSums
    <3>3. (r + q) - n = r + (q - n) /\ r + q \in Int
      BY <1>2, <3>1
    <3>4. c = r + q
      BY DEF r
    <3> HIDE DEF c
    <3> QED
      BY <3>2, <3>3, <3>4, Zenon
  <2>4. x = c \/ x = c - SeqMod \/ x = c + SeqMod
    BY <1>3, <1>6 DEF Extended, Nearest
  <2> HIDE DEF c
  <2>5. x \in Int /\ Aligned(x - n)
    <3>1. c - n \in Int /\ Aligned((c - n) + SeqMod) /\ Aligned((c - n) - SeqMod)
      BY <1>1, <1>2, <2>3, AlignedSums
    <3>2. (c + SeqMod) - n = (c - n) + SeqMod /\ (c - SeqMod) - n = (c - n) - SeqMod
      BY <1>1, <2>3
    <3>3. x \in Int
      BY <1>1, <2>3, <2>4
    <3>4. Aligned(x - n)
      BY <2>3, <2>4, <3>1, <3>2, Zenon
    <3> QED
      BY <3>3, <3>4
  <2>6. ASSUME ~Discontinuity(feedback, x) PROVE x = n + shift
    <3>1. x - w <= MaxJump /\ w - x <= MaxJump
      BY <1>1, <1>6, <2>1, <2>5, <2>6 DEF Discontinuity
    <3>2. n + shift - w \in (MaxJump - SeqMod + 1)..(SeqMod - MaxJump - 1)
      BY <1>6 DEF Deliverable
    <3>3. shift \in Int /\ Aligned(shift)
      BY DEF ArrivalsOK
    <3> DEFINE e == (x - n) - shift
    <3>4. e \in Int /\ Aligned(e)
      <4>1. x - n \in Int
        BY <2>5
      <4>2. Aligned((x - n) - shift)
        BY <2>5, <3>3, <4>1, AlignedSums, Zenon
      <4> QED
        BY <3>3, <4>1, <4>2
    <3>5. e < SeqMod /\ e > -SeqMod
      <4>1. n + shift - w >= MaxJump - SeqMod + 1 /\ n + shift - w <= SeqMod - MaxJump - 1
        BY <1>1, <2>1, <3>2, <3>3
      <4> HIDE DEF w
      <4> QED
        BY <1>1, <2>1, <2>5, <3>1, <3>3, <4>1
    <3> HIDE DEF e
    <3>6. e = 0
      BY <3>4, <3>5, AlignedSmall
    <3> QED
      BY <2>5, <3>3, <3>6 DEF e
  <2> QED
    BY <2>5, <2>6
<1> QED
  BY <1>5, <1>6

\* A generator that knows of one arrival.
LEMMA FreshOK ==
  ASSUME NEW x \in Int, NEW n \in Nat, Aligned(x - n), NEW a \in ArrivalType, a.ext = x, a.n = n,
         NEW c, c = [newest |-> x, start |-> x, arrivals |-> {a}], NEW t
  PROVE  ArrivalsOK(c, x - n) /\ Told(c, t)
<1>1. c \in GeneratorType
  BY DEF GeneratorType
<1>2. c.newest = x /\ c.start = x /\ c.arrivals = {a} /\ x # None
  BY Constants
<1>3. IsFiniteSet(c.arrivals)
  BY <1>2, FS_Singleton
<1>4. x - n \in Int /\ x = n + (x - n) /\ x <= x /\ x >= x
  OBVIOUS
<1>5. \A b \in c.arrivals : b = a
  BY <1>2
<1> QED
  BY <1>1, <1>2, <1>3, <1>4, <1>5 DEF ArrivalsOK, Told

\* observe: the arrivals after it, before any are evicted.
LEMMA EnteredOK ==
  ASSUME ArrivalsOK(feedback, shift), NEW t, Told(feedback, t), packets \in Nat,
         NEW s, NEW n \in Nat, Deliverable(s, n), NEW x, x = Extended(feedback, n % SeqMod),
         NEW c, c = Entered(feedback, x, n),
         NEW sh, sh = IF feedback.newest = None \/ Discontinuity(feedback, x) THEN x - n ELSE shift
  PROVE  ArrivalsOK(c, sh) /\ Told(c, t)
<1> DEFINE a == [ext |-> x, n |-> n, at |-> packets]
           f == feedback
<1>1. x \in Int /\ Aligned(x - n) /\ (f.newest # None /\ ~Discontinuity(f, x) => x = n + shift)
  BY ExtendedOK
<1>2. a \in ArrivalType /\ a.ext = x /\ a.n = n
  BY <1>1 DEF ArrivalType
<1> HIDE DEF a
<1>3. /\ f \in GeneratorType /\ IsFiniteSet(f.arrivals)
      /\ (f.newest = None) = (f.start = None)
      /\ f.newest = None => f.arrivals = {}
      /\ shift \in Int /\ Aligned(shift)
      /\ \A b \in f.arrivals : b.ext = b.n + shift /\ b.ext <= f.newest
      /\ \A b, d \in f.arrivals : b.ext = d.ext => b = d
  BY DEF ArrivalsOK
<1>4. CASE Discontinuity(f, x)
  <2>1. c = [newest |-> x, start |-> x, arrivals |-> {a}]
    BY <1>4 DEF Entered, a
  <2>2. sh = x - n
    BY <1>4
  <2> QED
    BY <1>1, <1>2, <2>1, <2>2, FreshOK
<1>5. CASE ~Discontinuity(f, x) /\ \E b \in f.arrivals : b.ext = x
  <2>1. c = f
    BY <1>5 DEF Entered
  <2>2. f.newest # None
    BY <1>3, <1>5
  <2>3. sh = shift
    BY <1>5, <2>2
  <2> QED
    BY <2>1, <2>3
<1>6. CASE ~Discontinuity(f, x) /\ ~\E b \in f.arrivals : b.ext = x
  <2>1. c = [newest |-> IF f.newest = None \/ x > f.newest THEN x ELSE f.newest,
             start |-> IF f.start = None \/ x < f.start THEN x ELSE f.start,
             arrivals |-> f.arrivals \cup {a}]
    BY <1>6 DEF Entered, a
  <2>2. CASE f.newest = None
    <3>1. c = [newest |-> x, start |-> x, arrivals |-> {a}]
      BY <1>3, <2>1, <2>2
    <3>2. sh = x - n
      BY <2>2
    <3> QED
      BY <1>1, <1>2, <3>1, <3>2, FreshOK
  <2>3. CASE f.newest # None
    <3>1. f.newest \in Int /\ f.start \in Int /\ x = n + shift /\ sh = shift
      BY <1>1, <1>3, <1>6, <2>3 DEF GeneratorType
    <3>2. /\ c.newest \in Int /\ c.newest >= f.newest /\ c.newest >= x
          /\ c.start \in Int /\ c.start <= f.start /\ c.start <= x
          /\ c.arrivals = f.arrivals \cup {a}
      BY <1>1, <1>3, <2>1, <2>3, <3>1
    <3>3. \A b \in f.arrivals : b \in ArrivalType /\ b.ext \in Int
      BY <1>3 DEF GeneratorType, ArrivalType
    <3>4. c \in GeneratorType
      <4>1. c.arrivals \in SUBSET ArrivalType
        BY <1>2, <3>2, <3>3
      <4>2. c = [newest |-> c.newest, start |-> c.start, arrivals |-> c.arrivals]
        BY <2>1
      <4> QED
        BY <3>2, <4>1, <4>2 DEF GeneratorType
    <3>5. IsFiniteSet(c.arrivals)
      BY <1>3, <3>2, FS_AddElement
    <3>6. \A b \in c.arrivals : b.ext = b.n + shift /\ b.ext <= c.newest
      BY <1>1, <1>2, <1>3, <3>1, <3>2, <3>3
    <3>7. \A b, d \in c.arrivals : b.ext = d.ext => b = d
      BY <1>2, <1>3, <1>6, <3>2
    <3>8. c.newest # None /\ c.start # None
      BY <3>2, Constants
    <3>9. \A b \in c.arrivals : b.ext >= c.start \/ b.n \in t
      <4>1. ASSUME NEW b \in f.arrivals PROVE b.ext >= c.start \/ b.n \in t
        <5>1. b.ext >= f.start \/ b.n \in t
          BY DEF Told
        <5> QED
          BY <3>1, <3>2, <3>3, <5>1
      <4>2. a.ext >= c.start
        BY <1>1, <1>2, <3>2
      <4> QED
        BY <3>2, <4>1, <4>2
    <3> QED
      BY <1>3, <3>1, <3>4, <3>5, <3>6, <3>7, <3>8, <3>9 DEF ArrivalsOK, Told
  <2> QED
    BY <2>2, <2>3
<1> QED
  BY <1>4, <1>5, <1>6

\* A non-empty finite set of arrivals has an earliest one.
LEMMA EarliestOf ==
  ASSUME NEW A \in SUBSET ArrivalType, IsFiniteSet(A), A # {}
  PROVE  /\ Earliest(A) \in Int
         /\ \E m \in A : m.ext = Earliest(A)
         /\ \A b \in A : b.ext \in Int /\ Earliest(A) <= b.ext
<1> DEFINE E == {a.ext : a \in A}
           f == [a \in A |-> a.ext]
<1>1. f \in Surjection(A, E)
  BY DEF Surjection
<1>2. \A b \in A : b.ext \in Int /\ b.ext \in E
  BY DEF ArrivalType
<1>3. E \in SUBSET Int /\ E # {}
  BY <1>2
<1>4. IsFiniteSet(E)
  <2> HIDE DEF f, E
  <2> QED
    BY <1>1, FS_Surjection
<1>5. Min(E) \in E /\ \A y \in E : Min(E) <= y
  <2> HIDE DEF E
  <2> QED
    BY <1>3, <1>4, LeastOf
<1>6. Earliest(A) = Min(E)
  BY DEF Earliest
<1>7. PICK m \in A : m.ext = Min(E)
  BY <1>5
<1> HIDE DEF E
<1>8. Min(E) \in Int
  BY <1>3, <1>5
<1> QED
  BY <1>2, <1>5, <1>6, <1>7, <1>8

\* Of the members of A those behind which fewer than l others are number l at most.
LEMMA FewAreLast ==
  ASSUME NEW A \in SUBSET ArrivalType, IsFiniteSet(A), NEW l \in Nat,
         \A b, d \in A : b.ext = d.ext => b = d,
         NEW K, K = {b \in A : Cardinality({d \in A : d.ext > b.ext}) < l}
  PROVE  Cardinality(K) \in Nat /\ Cardinality(K) <= l
<1>1. K \subseteq A /\ IsFiniteSet(K)
  BY FS_Subset
<1>2. CASE K = {}
  <2>1. Cardinality(K) = 0
    BY <1>2, FS_EmptySet, Zenon
  <2> QED
    BY <2>1
<1>3. CASE K # {}
  <2>1. \A b \in A : b.ext \in Int
    BY DEF ArrivalType
  <2>2. K \in SUBSET ArrivalType
    BY <1>1
  <2>3. /\ \E m \in K : m.ext = Earliest(K)
        /\ \A b \in K : Earliest(K) <= b.ext
    BY <1>1, <1>3, <2>2, EarliestOf
  <2>4. PICK m \in K : \A b \in K : m.ext <= b.ext
    BY <2>3
  <2> DEFINE R == {d \in A : d.ext > m.ext}
  <2>5. R \subseteq A /\ IsFiniteSet(R) /\ Cardinality(R) \in Nat /\ Cardinality(R) < l
    <3>1. IsFiniteSet(R)
      BY FS_Subset
    <3>2. Cardinality(R) < l
      OBVIOUS
    <3> HIDE DEF R
    <3> QED
      BY <3>1, <3>2, FS_CardinalityType DEF R
  <2>6. K \subseteq R \cup {m} /\ m \notin R
    BY <1>1, <2>1, <2>4
  <2> HIDE DEF R
  <2>7. IsFiniteSet(R \cup {m}) /\ Cardinality(R \cup {m}) = Cardinality(R) + 1
    BY <2>5, <2>6, FS_AddElement
  <2>8. Cardinality(K) <= Cardinality(R \cup {m}) /\ Cardinality(K) \in Nat
    BY <1>1, <2>6, <2>7, FS_Subset, FS_CardinalityType
  <2> QED
    BY <2>5, <2>7, <2>8
<1> QED
  BY <1>2, <1>3

\* evict_old: what is left is few, and the window has not passed it over.
LEMMA EvictedOK ==
  ASSUME NEW c, NEW sh, NEW t, ArrivalsOK(c, sh), Told(c, t), NEW k, NEW e, e = Evicted(c, k)
  PROVE  ArrivalsOK(e, sh) /\ Told(e, t) /\ Cardinality(e.arrivals) <= HistoryLimit
<1> DEFINE young == {a \in c.arrivals : a.at >= k}
           kept == {a \in young : Cardinality({b \in young : b.ext > a.ext}) < HistoryLimit}
<1>1. /\ c \in GeneratorType /\ IsFiniteSet(c.arrivals)
      /\ (c.newest = None) = (c.start = None)
      /\ c.newest = None => c.arrivals = {}
      /\ sh \in Int /\ Aligned(sh)
      /\ \A a \in c.arrivals : a.ext = a.n + sh /\ a.ext <= c.newest
      /\ \A a, b \in c.arrivals : a.ext = b.ext => a = b
  BY DEF ArrivalsOK
<1>2. kept \subseteq young /\ young \subseteq c.arrivals
  OBVIOUS
<1>3. c.arrivals \in SUBSET ArrivalType
  BY <1>1 DEF GeneratorType
<1>4. IsFiniteSet(young) /\ IsFiniteSet(kept)
  <2>1. IsFiniteSet(young)
    BY <1>1, <1>2, FS_Subset
  <2> QED
    BY <1>2, <2>1, FS_Subset
<1>5. Cardinality(kept) <= HistoryLimit
  <2>1. young \in SUBSET ArrivalType /\ \A a, b \in young : a.ext = b.ext => a = b
    BY <1>1, <1>2, <1>3
  <2>2. HistoryLimit \in Nat
    BY Constants
  <2>3. kept = {a \in young : Cardinality({b \in young : b.ext > a.ext}) < HistoryLimit}
    OBVIOUS
  <2> HIDE DEF young, kept
  <2> QED
    BY <1>4, <2>1, <2>2, <2>3, FewAreLast
<1>6. e = [c EXCEPT !.arrivals = kept,
                    !.start = IF c.start = None THEN None
                              ELSE IF kept = {} THEN c.newest + 1
                              ELSE Max({c.start, Earliest(kept) - (StatusLimit - 1)})]
  BY DEF Evicted
<1> HIDE DEF young, kept
<1>7. /\ e = [newest |-> e.newest, start |-> e.start, arrivals |-> e.arrivals]
      /\ e.newest = c.newest /\ e.arrivals = kept
      /\ c.start = None => e.start = None
      /\ c.start # None /\ kept = {} => e.start = c.newest + 1
      /\ c.start # None /\ kept # {} => e.start = Max({c.start, Earliest(kept) - (StatusLimit - 1)})
  BY <1>1, <1>6 DEF GeneratorType
<1>8. kept \in SUBSET ArrivalType /\ kept \subseteq c.arrivals
  BY <1>2, <1>3
<1>9. CASE c.start = None
  <2>1. kept = {} /\ e.start = None /\ e.newest = None
    BY <1>1, <1>7, <1>8, <1>9
  <2> QED
    BY <1>1, <1>4, <1>5, <1>7, <2>1 DEF ArrivalsOK, Told, GeneratorType
<1>10. CASE c.start # None
  <2>1. c.start \in Int /\ c.newest \in Int /\ c.newest # None
    BY <1>1, <1>10 DEF GeneratorType
  <2>2. e.start \in Int /\ \A a \in kept : a.ext >= c.start => a.ext >= e.start
    <3>1. CASE kept = {}
      BY <1>7, <1>10, <2>1, <3>1
    <3>2. CASE kept # {}
      <4> DEFINE l == Earliest(kept) - (StatusLimit - 1)
      <4>1. Earliest(kept) \in Int /\ \A b \in kept : b.ext \in Int /\ Earliest(kept) <= b.ext
        BY <1>4, <1>8, <3>2, EarliestOf
      <4>2. l \in Int /\ \A b \in kept : l <= b.ext
        BY <4>1, Constants
      <4>3. e.start = Max({c.start, l})
        BY <1>7, <1>10, <3>2
      <4> HIDE DEF l
      <4>4. e.start = c.start \/ e.start = l
        <5>1. CASE c.start >= l
          BY <2>1, <4>2, <4>3, <5>1 DEF Max
        <5>2. CASE ~(c.start >= l)
          BY <2>1, <4>2, <4>3, <5>2 DEF Max
        <5> QED
          BY <5>1, <5>2
      <4> QED
        BY <2>1, <4>1, <4>2, <4>4
    <3> QED
      BY <3>1, <3>2
  <2>3. e.start # None
    BY <2>2, Constants
  <2>4. e \in GeneratorType
    BY <1>7, <1>8, <2>1, <2>2 DEF GeneratorType
  <2>5. Told(e, t)
    BY <1>7, <1>8, <2>2 DEF Told
  <2> QED
    BY <1>1, <1>4, <1>5, <1>7, <1>8, <2>1, <2>3, <2>4, <2>5 DEF ArrivalsOK
<1> QED
  BY <1>9, <1>10

-----------------------------------------------------------------------------
(* The datagrams of one feedback.                                          *)

\* A non-empty set of natural numbers has a least one.
LEMMA LeastNumber ==
  ASSUME NEW S \in SUBSET Nat, S # {}
  PROVE  \E x \in S : \A y \in S : x <= y
<1>1. PICK x \in S : \A y \in S : ~(<<y, x>> \in OpToRel(<, Nat))
  BY NatLessThanWellFounded, WFMin
<1>2. ASSUME NEW y \in S PROVE x <= y
  <2>1. <<y, x>> \in OpToRel(<, Nat) <=> <<y, x>> \in Nat \X Nat /\ <<y, x>>[1] < <<y, x>>[2]
    BY Zenon DEF OpToRel
  <2>2. ~(y < x)
    BY <1>1, <2>1
  <2> QED
    BY <2>2
<1> QED
  BY <1>2

\* What datagrams do to the generator c: they move the start of the window on.
Forward(c, x) ==
  /\ x = [c EXCEPT !.start = x.start]
  /\ x.start = c.start \/ (c.start \in Int /\ x.start \in Int /\ x.start >= c.start)

LEMMA DatagramForward ==
  ASSUME NEW c \in GeneratorType, (c.newest = None) = (c.start = None),
         NEW x, Forward(c, x), NEW y \in AfterDatagram(x)
  PROVE  Forward(c, y)
<1> DEFINE last == Min({x.newest, x.start + StatusLimit - 1})
<1>1. HasPending(x) /\ \E end \in x.start..last : y = [x EXCEPT !.start = end + 1]
  BY DEF AfterDatagram
<1>2. x = [newest |-> c.newest, start |-> x.start, arrivals |-> c.arrivals]
  BY DEF Forward, GeneratorType
<1>3. c.newest \in Int /\ c.start \in Int /\ x.start \in Int /\ x.start >= c.start
  BY <1>1 DEF Forward, GeneratorType, HasPending
<1>4. last \in Int
  <2>1. x.newest \in Int /\ x.start + StatusLimit - 1 \in Int
    BY <1>2, <1>3, Constants
  <2> QED
    BY <2>1 DEF Min
<1> HIDE DEF last
<1>5. PICK end \in x.start..last : y = [x EXCEPT !.start = end + 1]
  BY <1>1
<1>6. y = [newest |-> c.newest, start |-> end + 1, arrivals |-> c.arrivals]
  BY <1>2, <1>5
<1>7. end \in Int /\ end + 1 \in Int /\ end + 1 >= c.start
  BY <1>3, <1>4, <1>5
<1>8. y = [c EXCEPT !.start = y.start]
  BY <1>6 DEF GeneratorType
<1> QED
  BY <1>3, <1>6, <1>7, <1>8 DEF Forward

\* The states after up to d datagrams, as AfterLoop counts them.
Loop(f, c, m) ==
  f = [d \in 0..m |-> IF d = 0 THEN {c}
                      ELSE f[d - 1] \cup UNION {AfterDatagram(x) : x \in f[d - 1]}]

LEMMA LoopExists ==
  ASSUME NEW c, NEW m \in Nat
  PROVE  \E f : Loop(f, c, m)
<1> DEFINE bad == {d \in Nat : ~\E f : Loop(f, c, d)}
<1>1. ASSUME bad # {} PROVE FALSE
  <2>1. PICK d \in bad : \A e \in bad : d <= e
    BY <1>1, LeastNumber
  <2>2. CASE d = 0
    <3>1. Loop([i \in 0..0 |-> {c}], c, 0)
      BY DEF Loop
    <3> QED
      BY <2>2, <3>1
  <2>3. CASE d # 0
    <3>1. d - 1 \in Nat /\ d - 1 \notin bad
      BY <2>1, <2>3
    <3>2. PICK f : Loop(f, c, d - 1)
      BY <3>1
    <3> DEFINE last == f[d - 1] \cup UNION {AfterDatagram(x) : x \in f[d - 1]}
               g == [i \in 0..d |-> IF i = d THEN last ELSE f[i]]
    <3>3. \A i \in 0..d - 1 : f[i] = IF i = 0 THEN {c}
                                     ELSE f[i - 1] \cup UNION {AfterDatagram(x) : x \in f[i - 1]}
      BY <3>2, Zenon DEF Loop
    <3>4. \A i \in 0..d : i = d \/ i \in 0..d - 1
      BY <3>1
    <3>5. \A i \in 0..d : i # 0 => i - 1 \in 0..d /\ i - 1 # d
      BY <3>1
    <3>6. ASSUME NEW i \in 0..d
          PROVE  g[i] = IF i = 0 THEN {c}
                        ELSE g[i - 1] \cup UNION {AfterDatagram(x) : x \in g[i - 1]}
      <4>1. CASE i = d
        <5>1. i # 0 /\ g[i - 1] = f[d - 1] /\ g[i] = last
          BY <2>3, <3>5, <4>1
        <5> HIDE DEF g
        <5> QED
          BY <5>1
      <4>2. CASE i # d
        <5>1. i \in 0..d - 1 /\ g[i] = f[i]
          BY <3>4, <4>2
        <5>2. i # 0 => g[i - 1] = f[i - 1]
          BY <3>5
        <5> HIDE DEF g
        <5>3. CASE i = 0
          BY <3>3, <5>1, <5>3
        <5>4. CASE i # 0
          BY <3>3, <5>1, <5>2, <5>4
        <5> QED
          BY <5>3, <5>4
      <4> QED
        BY <4>1, <4>2
    <3>7. DOMAIN g = 0..d /\ g = [i \in 0..d |-> g[i]]
      OBVIOUS
    <3> HIDE DEF g
    <3>8. g = [i \in 0..d |-> IF i = 0 THEN {c}
                              ELSE g[i - 1] \cup UNION {AfterDatagram(x) : x \in g[i - 1]}]
      BY <3>6, <3>7
    <3>9. Loop(g, c, d)
      BY <3>8, Zenon DEF Loop
    <3> QED
      BY <3>9
  <2> QED
    BY <2>2, <2>3
<1> QED
  BY <1>1

\* send_transport_feedback: whatever it stops at, it has only moved on.
LEMMA LoopForward ==
  ASSUME NEW c \in GeneratorType, (c.newest = None) = (c.start = None),
         NEW y \in AfterLoop(c)
  PROVE  Forward(c, y)
<1>1. PICK f : Loop(f, c, MaxDatagrams) /\ AfterLoop(c) = f[MaxDatagrams]
  <2> DEFINE after == CHOOSE f : f = [d \in 0..MaxDatagrams |->
                        IF d = 0 THEN {c}
                        ELSE f[d - 1] \cup UNION {AfterDatagram(x) : x \in f[d - 1]}]
  <2>1. AfterLoop(c) = after[MaxDatagrams]
    BY DEF AfterLoop
  <2>2. \E f : Loop(f, c, MaxDatagrams)
    BY LoopExists, Constants
  <2>3. Loop(after, c, MaxDatagrams)
    BY <2>2, Zenon DEF Loop
  <2> HIDE DEF after
  <2> QED
    BY <2>1, <2>3
<1>2. MaxDatagrams \in Nat
  BY Constants
<1>3. \A i \in 0..MaxDatagrams : f[i] = IF i = 0 THEN {c}
                                        ELSE f[i - 1] \cup UNION {AfterDatagram(x) : x \in f[i - 1]}
  BY <1>1, Zenon DEF Loop
<1> DEFINE bad == {d \in 0..MaxDatagrams : \E x \in f[d] : ~Forward(c, x)}
<1>4. ASSUME bad # {} PROVE FALSE
  <2>1. PICK d \in bad : \A e \in bad : d <= e
    <3>1. bad \in SUBSET Nat
      OBVIOUS
    <3> HIDE DEF bad
    <3> QED
      BY <1>4, <3>1, LeastNumber
  <2>2. d \in 0..MaxDatagrams /\ \E x \in f[d] : ~Forward(c, x)
    OBVIOUS
  <2>3. CASE d = 0
    <3>1. f[d] = {c}
      BY <1>2, <1>3, <2>3
    <3>2. Forward(c, c)
      BY DEF Forward, GeneratorType
    <3> QED
      BY <2>2, <3>1, <3>2
  <2>4. CASE d # 0
    <3>1. d - 1 \in 0..MaxDatagrams /\ d - 1 \notin bad
      BY <1>2, <2>1, <2>2, <2>4
    <3>2. \A x \in f[d - 1] : Forward(c, x)
      BY <3>1
    <3>3. f[d] = f[d - 1] \cup UNION {AfterDatagram(x) : x \in f[d - 1]}
      BY <1>3, <2>2, <2>4
    <3>4. PICK x \in f[d] : ~Forward(c, x)
      BY <2>2
    <3>5. PICK z \in f[d - 1] : x \in AfterDatagram(z)
      BY <3>2, <3>3, <3>4
    <3> QED
      BY <3>2, <3>4, <3>5, DatagramForward
  <2> QED
    BY <2>3, <2>4
<1> QED
  BY <1>1, <1>2, <1>4

-----------------------------------------------------------------------------
(* The feedback.                                                           *)

\* The generator f, its shift, and the numbers it told of.
FeedbackOK(f, sh, t) ==
  ArrivalsOK(f, sh) /\ Told(f, t) /\ Cardinality(f.arrivals) <= HistoryLimit

FeedbackInv == packets \in Nat /\ FeedbackOK(feedback, shift, told)

LEMMA InitFeedback == Init => FeedbackInv
<1> SUFFICES ASSUME Init PROVE FeedbackInv
  OBVIOUS
<1>1. feedback = [newest |-> None, start |-> None, arrivals |-> {}] /\ shift = 0 /\ packets = 0
  BY DEF Init, NewFeedback
<1>2. IsFiniteSet({}) /\ Cardinality({}) = 0
  BY FS_EmptySet, Zenon
<1>3. SeqMod \in Nat /\ HistoryLimit \in Nat
  BY Constants
<1>4. Aligned(0)
  <2>1. 0 = 0 * SeqMod
    BY <1>3
  <2> QED
    BY <2>1 DEF Aligned
<1>5. feedback \in GeneratorType
  BY <1>1 DEF GeneratorType
<1>6. feedback.arrivals = {} /\ feedback.newest = None /\ feedback.start = None
  BY <1>1
<1>7. ArrivalsOK(feedback, shift) /\ Told(feedback, told)
  BY <1>1, <1>2, <1>4, <1>5, <1>6 DEF ArrivalsOK, Told
<1> QED
  BY <1>1, <1>2, <1>3, <1>6, <1>7 DEF FeedbackInv, FeedbackOK

\* record_inbound_rtp, the transport-cc part
LEMMA ObserveTransportOK ==
  ASSUME FeedbackInv, NEW s, NEW codec, NEW n \in Nat, NEW has, NEW cutoff,
         Deliverable(s, n), ObserveTransport(codec, n, has, cutoff), told' = told
  PROVE  FeedbackOK(feedback', shift', told')
<1>1. ArrivalsOK(feedback, shift) /\ Told(feedback, told) /\ packets \in Nat
  BY DEF FeedbackInv, FeedbackOK
<1>2. CASE codec.cc /\ has
  <2> DEFINE x == Extended(feedback, n % SeqMod)
             c == Entered(feedback, x, n)
             sh == IF feedback.newest = None \/ Discontinuity(feedback, x) THEN x - n ELSE shift
  <2>1. feedback' = Evicted(c, cutoff) /\ shift' = sh
    BY <1>2 DEF ObserveTransport
  <2>2. ArrivalsOK(c, sh) /\ Told(c, told)
    BY <1>1, EnteredOK
  <2> HIDE DEF x, c, sh
  <2>3. ArrivalsOK(feedback', sh) /\ Told(feedback', told) /\ Cardinality(feedback'.arrivals) <= HistoryLimit
    BY <2>1, <2>2, EvictedOK
  <2> QED
    BY <2>1, <2>3 DEF FeedbackOK
<1>3. CASE ~(codec.cc /\ has)
  <2>1. feedback' = feedback /\ shift' = shift
    BY <1>3 DEF ObserveTransport
  <2> QED
    BY <2>1 DEF FeedbackInv
<1> QED
  BY <1>2, <1>3

\* Once the start of the window of c has moved on, what it left behind was told.
LEMMA ForwardOK ==
  ASSUME NEW c, NEW sh, NEW t, ArrivalsOK(c, sh), Told(c, t), NEW y, Forward(c, y),
         NEW u, u = t \cup {a.n : a \in {b \in c.arrivals : b.ext >= c.start /\ b.ext < y.start}}
  PROVE  ArrivalsOK(y, sh) /\ Told(y, u) /\ y.arrivals = c.arrivals
<1>1. c = [newest |-> c.newest, start |-> c.start, arrivals |-> c.arrivals]
  BY DEF ArrivalsOK, GeneratorType
<1>2. y = [newest |-> c.newest, start |-> y.start, arrivals |-> c.arrivals]
  BY <1>1 DEF Forward
<1>3. y.newest = c.newest /\ y.arrivals = c.arrivals
  BY <1>2
<1>4. (y.start = None) = (c.start = None) /\ y.start \in Int \cup {None}
  BY Constants DEF Forward, ArrivalsOK, GeneratorType
<1>5. y \in GeneratorType
  BY <1>2, <1>4 DEF ArrivalsOK, GeneratorType
<1>6. ArrivalsOK(y, sh)
  BY <1>3, <1>4, <1>5 DEF ArrivalsOK
<1>7. ASSUME NEW a \in c.arrivals PROVE a.ext >= y.start \/ a.n \in u
  <2>1. a.ext \in Int /\ c.start \in Int
    BY DEF ArrivalsOK, GeneratorType, ArrivalType
  <2>2. y.start \in Int
    BY <2>1 DEF Forward
  <2>3. a.ext >= c.start \/ a.n \in t
    BY DEF Told
  <2>4. a.ext >= c.start /\ a.ext < y.start => a.n \in u
    OBVIOUS
  <2>5. a.n \in t => a.n \in u
    OBVIOUS
  <2> QED
    BY <2>1, <2>2, <2>3, <2>4, <2>5
<1> QED
  BY <1>3, <1>6, <1>7 DEF Told

\* handle_transport_feedback_timer
LEMMA SendTransportFeedbackOK ==
  ASSUME FeedbackInv, NEW cutoff, SendTransportFeedback(cutoff)
  PROVE  FeedbackInv'
<1> DEFINE c == Evicted(feedback, cutoff)
<1>1. PICK y \in AfterLoop(c) :
        /\ feedback' = y
        /\ told' = told \cup {a.n : a \in {b \in c.arrivals : b.ext >= c.start /\ b.ext < y.start}}
  BY DEF SendTransportFeedback
<1>2. packets' = packets /\ shift' = shift
  BY DEF SendTransportFeedback
<1>3. ArrivalsOK(c, shift) /\ Told(c, told) /\ Cardinality(c.arrivals) <= HistoryLimit
  BY EvictedOK DEF FeedbackInv, FeedbackOK
<1> HIDE DEF c
<1>4. Forward(c, y)
  <2>1. c \in GeneratorType /\ (c.newest = None) = (c.start = None)
    BY <1>3 DEF ArrivalsOK
  <2> QED
    BY <2>1, LoopForward
<1>5. ArrivalsOK(y, shift) /\ Told(y, told') /\ y.arrivals = c.arrivals
  BY <1>1, <1>3, <1>4, ForwardOK
<1> QED
  BY <1>1, <1>2, <1>3, <1>5 DEF FeedbackInv, FeedbackOK

LEMMA NextFeedback == FeedbackInv /\ [Next]_vars => FeedbackInv'
<1> SUFFICES ASSUME FeedbackInv, [Next]_vars PROVE FeedbackInv'
  OBVIOUS
<1>1. ASSUME NEW s \in Ssrcs, NEW codec \in Codecs, NEW n \in 0..MaxNumber, NEW has, NEW cutoff,
             Packet(s, codec, n, has, cutoff)
      PROVE  FeedbackInv'
  <2>1. n \in Nat
    BY Constants
  <2>2. packets' \in Nat
    BY <1>1 DEF Packet, FeedbackInv
  <2>3. FeedbackOK(feedback', shift', told')
    BY <1>1, <2>1, ObserveTransportOK DEF Packet
  <2> QED
    BY <2>2, <2>3 DEF FeedbackInv
<1>2. ASSUME NEW s \in Ssrcs, SenderReport(s) \/ Bye(s) PROVE FeedbackInv'
  BY <1>2 DEF SenderReport, Bye, FeedbackInv
<1>3. ASSUME NEW sent, SendReceiverReports(sent) PROVE FeedbackInv'
  BY <1>3 DEF SendReceiverReports, FeedbackInv
<1>4. ASSUME NEW cutoff, SendTransportFeedback(cutoff) PROVE FeedbackInv'
  BY <1>4, SendTransportFeedbackOK
<1>5. CASE UNCHANGED vars
  BY <1>5 DEF FeedbackInv, vars
<1> QED
  BY <1>1, <1>2, <1>3, <1>4, <1>5 DEF Next

\* No packet that arrived is passed over by transport feedback: while the
\* history has it, it is in the window or was reported as received, however the
\* window is moved by late packets, by expiry and by datagrams that fail.
THEOREM EveryArrivalIsReported == Spec => []ArrivalsAreReported
<1>1. FeedbackInv => ArrivalsAreReported
  BY DEF FeedbackInv, FeedbackOK, Told, ArrivalsAreReported
<1> QED
  BY <1>1, InitFeedback, NextFeedback, PTL DEF Spec

\* The extended numbers are the sender's, however its numbers wrap, repeat and
\* come late: what a source is expected to have sent lies between its first and
\* its newest packet, and all arrivals are shifted by one amount.
THEOREM TheNumbersAreTrue == Spec => []NumbersAreTrue
<1>1. SourcesInv /\ FeedbackInv => NumbersAreTrue
  <2> SUFFICES ASSUME SourcesInv, FeedbackInv PROVE NumbersAreTrue
    OBVIOUS
  <2>1. Known = KnownOf(receivers)
    BY DEF Known, KnownOf
  <2>2. Cardinality(Known) <= MaxSources
    BY <2>1 DEF SourcesInv, SourcesOK
  <2>3. \A s \in Known : receivers[s].stats # None => StatsOK(receivers[s].stats, numbers[s], reported[s])
    BY DEF SourcesInv, SourcesOK, SourceOK, Known
  <2>4. \A s \in Known : receivers[s].stats \in Statistics \cup {None}
    BY <2>3 DEF StatsOK
  <2>5. \A s \in Active : Expected(receivers[s].stats) = numbers[s].top - numbers[s].first + 1
    BY <2>3 DEF StatsOK, Active
  <2>6. /\ Cardinality(feedback.arrivals) <= HistoryLimit
        /\ (feedback.newest = None) = (feedback.start = None)
        /\ \A a \in feedback.arrivals : a.ext = a.n + shift /\ a.ext <= feedback.newest
    BY DEF FeedbackInv, FeedbackOK, ArrivalsOK
  <2> QED
    BY <2>2, <2>4, <2>5, <2>6 DEF NumbersAreTrue, TypeOK
<1> QED
  BY <1>1, InitSources, NextSources, InitFeedback, NextFeedback, PTL DEF Spec
=============================================================================
