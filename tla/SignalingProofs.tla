--------------------------- MODULE SignalingProofs ---------------------------
(***************************************************************************)
(* Proofs about Signaling, for any offers, requests, packets, credentials  *)
(* and limits.                                                             *)
(***************************************************************************)
EXTENDS Signaling, FiniteSetTheorems, FunctionTheorems, SequenceTheorems, NaturalsInduction, TLAPS

-----------------------------------------------------------------------------
(* Selecting elements of a sequence.                                       *)

\* order lists the n positions in P from the lowest to the highest.
IsOrder(order, n, P) ==
  /\ n \in Nat /\ n = Cardinality(P) /\ order \in [1..n -> P]
  /\ \A i \in P : \E k \in 1..n : order[k] = i
  /\ \A k, l \in 1..n : k < l => order[k] < order[l]

Upto(P, i) == {j \in P : j <= i}

LEMMA UptoGrows ==
  ASSUME NEW n \in Nat, NEW P \in SUBSET (1..n), NEW i \in P
  PROVE  /\ Cardinality(Upto(P, i)) \in 1..Cardinality(P)
         /\ \A j \in P : i < j => Cardinality(Upto(P, i)) < Cardinality(Upto(P, j))
<1>0. IsFiniteSet(1..n) /\ \A j \in P : j \in Int
  BY FS_Interval
<1>1. IsFiniteSet(P) /\ Cardinality(P) \in Nat
  BY <1>0, FS_Subset, FS_CardinalityType
<1>2. ASSUME NEW j \in P
      PROVE  IsFiniteSet(Upto(P, j)) /\ Cardinality(Upto(P, j)) \in Nat /\ Cardinality(Upto(P, j)) <= Cardinality(P)
  <2>1. Upto(P, j) \in SUBSET P
    BY DEF Upto
  <2> QED
    BY <1>1, <2>1, FS_Subset, FS_CardinalityType
<1>3. Cardinality(Upto(P, i)) # 0
  <2>1. i \in Upto(P, i)
    BY DEF Upto
  <2> QED
    BY <1>2, <2>1, FS_EmptySet
<1>4. ASSUME NEW j \in P, i < j PROVE Cardinality(Upto(P, i)) < Cardinality(Upto(P, j))
  <2>0. i \in Int /\ j \in Int /\ \A x \in P : x <= i => x <= j
    BY <1>0, <1>4
  <2>1. Upto(P, i) \in SUBSET Upto(P, j)
    BY <2>0 DEF Upto
  <2>2. j \in Upto(P, j) /\ j \notin Upto(P, i)
    BY <1>0, <1>4 DEF Upto
  <2> QED
    BY <1>2, <2>1, <2>2, FS_Subset
<1> QED
  BY <1>1, <1>2, <1>3, <1>4

LEMMA PickedOrder ==
  ASSUME NEW n \in Nat, NEW P \in SUBSET (1..n)
  PROVE  \E order : /\ IsOrder(order, Cardinality(P), P)
                    /\ \A s : Picked(s, P) = [k \in 1..Cardinality(P) |-> s[order[k]]]
<1> DEFINE m == Cardinality(P)
           rank == [i \in P |-> Cardinality(Upto(P, i))]
           at(k) == CHOOSE i \in P : Cardinality({j \in P : j <= i}) = k
           order == [k \in 1..m |-> at(k)]
<1>0. IsFiniteSet(1..n) /\ \A j \in P : j \in Int
  BY FS_Interval
<1>1. IsFiniteSet(P) /\ m \in Nat
  BY <1>0, FS_Subset, FS_CardinalityType
<1>2. rank \in [P -> 1..m]
  BY UptoGrows
<1>3. \A i, j \in P : rank[i] = rank[j] => i = j
  <2> SUFFICES ASSUME NEW i \in P, NEW j \in P, i # j PROVE rank[i] # rank[j]
    OBVIOUS
  <2>1. i < j \/ j < i
    OBVIOUS
  <2>2. rank[i] \in Int /\ rank[j] \in Int
    BY <1>2
  <2>3. (i < j => rank[i] < rank[j]) /\ (j < i => rank[j] < rank[i])
    BY UptoGrows
  <2> QED
    BY <2>1, <2>2, <2>3
<1>4. \A k \in 1..m : \E i \in P : rank[i] = k
  <2>1. rank \in Injection(P, 1..m)
    BY <1>2, <1>3, Fun_IsInj
  <2>2. IsFiniteSet(1..m) /\ Cardinality(1..m) = m
    BY <1>1, FS_Interval
  <2>3. rank \in Surjection(P, 1..m)
    BY <2>1, <2>2, FS_Injection
  <2> QED
    BY <2>3 DEF Surjection
<1>5. ASSUME NEW k \in 1..m PROVE order[k] \in P /\ rank[order[k]] = k
  <2>1. PICK i \in P : rank[i] = k
    BY <1>4
  <2>2. Cardinality({j \in P : j <= i}) = k
    BY <2>1 DEF Upto
  <2>3. at(k) \in P /\ Cardinality({j \in P : j <= at(k)}) = k
    BY <2>2
  <2>4. order[k] = at(k)
    OBVIOUS
  <2> HIDE DEF order, at
  <2> QED
    BY <2>3, <2>4 DEF Upto
<1>6. \A i \in P : \E k \in 1..m : order[k] = i
  <2> SUFFICES ASSUME NEW i \in P PROVE order[rank[i]] = i /\ rank[i] \in 1..m
    OBVIOUS
  <2> HIDE DEF order, rank
  <2>1. rank[i] \in 1..m
    BY <1>2
  <2> QED
    BY <1>3, <1>5, <2>1
<1>7. \A k, l \in 1..m : k < l => order[k] < order[l]
  <2> SUFFICES ASSUME NEW k \in 1..m, NEW l \in 1..m, k < l PROVE order[k] < order[l]
    OBVIOUS
  <2>1. order[k] \in P /\ order[l] \in P /\ rank[order[k]] = k /\ rank[order[l]] = l
    BY <1>5
  <2>2. order[l] < order[k] => rank[order[l]] < rank[order[k]]
    BY <2>1, UptoGrows
  <2> HIDE DEF order, rank
  <2>3. order[l] \in Int /\ order[k] \in Int /\ order[l] # order[k]
    <3>1. k # l
      OBVIOUS
    <3> QED
      BY <1>0, <2>1, <3>1
  <2> QED
    BY <2>1, <2>2, <2>3
<1>8. \A s : Picked(s, P) = [k \in 1..m |-> s[order[k]]]
  BY DEF Picked
<1>9. order \in [1..m -> P]
  BY <1>5
<1> HIDE DEF order, m
<1>10. IsOrder(order, m, P)
  BY <1>1, <1>6, <1>7, <1>9 DEF IsOrder, m
<1> QED
  BY <1>8, <1>10 DEF m

LEMMA FunctionIsSequence ==
  ASSUME NEW n \in Nat, NEW s, s = [i \in 1..n |-> s[i]]
  PROVE  IsSequence(s) /\ Len(s) = n /\ DOMAIN s = 1..n
<1>1. DOMAIN s = 1..n
  OBVIOUS
<1>2. s \in [1..n -> Elements(s)]
  BY <1>1 DEF Elements
<1>3. s \in Seq(Elements(s))
  BY <1>2, SeqDef
<1> QED
  BY <1>1, <1>3 DEF IsSequence

LEMMA SequenceIsFunction ==
  ASSUME NEW s, IsSequence(s)
  PROVE  Len(s) \in Nat /\ DOMAIN s = 1..Len(s) /\ s = [i \in 1..Len(s) |-> s[i]]
  BY DEF IsSequence

\* t has the elements of s at the positions P, in their order.
Sifted(t, s, P) ==
  /\ IsSequence(t)
  /\ \A k \in DOMAIN t : \E i \in P : t[k] = s[i]
  /\ \A i \in P : \E k \in DOMAIN t : t[k] = s[i]
  /\ \A k, l \in DOMAIN t : k # l => \E i, j \in P : i # j /\ t[k] = s[i] /\ t[l] = s[j]

LEMMA PickedSifts ==
  ASSUME NEW s, IsSequence(s), NEW P, P \subseteq DOMAIN s
  PROVE  Sifted(Picked(s, P), s, P)
<1> DEFINE t == Picked(s, P)
           m == Cardinality(P)
<1>1. Len(s) \in Nat /\ P \in SUBSET (1..Len(s))
  BY SequenceIsFunction
<1>2. PICK order : IsOrder(order, m, P) /\ \A x : Picked(x, P) = [k \in 1..m |-> x[order[k]]]
  BY <1>1, PickedOrder
<1>3. t = [k \in 1..m |-> s[order[k]]]
  BY <1>2
<1>4. m \in Nat /\ t = [k \in 1..m |-> t[k]]
  BY <1>2, <1>3 DEF IsOrder
<1> HIDE DEF t, m
<1>5. IsSequence(t) /\ DOMAIN t = 1..m
  BY <1>4, FunctionIsSequence
<1>6. \A k \in 1..m : order[k] \in P /\ t[k] = s[order[k]]
  BY <1>2, <1>3 DEF IsOrder
<1>7. \A i \in P : \E k \in 1..m : order[k] = i
  BY <1>2 DEF IsOrder
<1>8. ASSUME NEW k \in 1..m, NEW l \in 1..m, k # l PROVE order[k] # order[l]
  <2>1. \A i, j \in 1..m : i < j => order[i] < order[j]
    BY <1>2 DEF IsOrder
  <2>2. order[k] \in Int /\ order[l] \in Int
    BY <1>1, <1>6
  <2>3. k < l \/ l < k
    BY <1>4, <1>8
  <2> QED
    BY <2>1, <2>2, <2>3
<1> QED
  BY <1>5, <1>6, <1>7, <1>8 DEF Sifted, t

LEMMA SiftedSequence ==
  ASSUME NEW t, NEW s, NEW P, Sifted(t, s, P)
  PROVE  IsSequence(t) /\ (t = <<>> <=> P = {})
<1>1. IsSequence(t) /\ (DOMAIN t = {} <=> P = {})
  BY DEF Sifted
<1>2. t = <<>> <=> DOMAIN t = {}
  BY <1>1 DEF IsSequence
<1> QED
  BY <1>1, <1>2

\* A non-empty set of natural numbers has a least one.
LEMMA LeastNumber ==
  ASSUME NEW S \in SUBSET Nat, S # {}
  PROVE  \E x \in S : \A y \in S : x <= y
<1>1. PICK x \in S : \A y \in S : ~(<<y, x>> \in OpToRel(<, Nat))
  BY NatLessThanWellFounded, WFMin
<1>2. ASSUME NEW y \in S PROVE x <= y
  <2>1. <<y, x>> \in OpToRel(<, Nat) <=> <<y, x>> \in Nat \X Nat /\ <<y, x>>[1] < <<y, x>>[2]
    BY Zenon DEF OpToRel
  <2>2. ~(y < x)
    BY <1>1, <2>1
  <2> QED
    BY <2>2
<1> QED
  BY <1>2

LEMMA MinimumExists ==
  ASSUME NEW S \in SUBSET Nat, S # {}
  PROVE  Min(S) \in S /\ \A y \in S : Min(S) <= y
  BY LeastNumber DEF Min

LEMMA MaximumExists ==
  ASSUME NEW n \in Nat, NEW S \in SUBSET (1..n), S # {}
  PROVE  Max(S) \in S /\ \A y \in S : Max(S) >= y
<1> DEFINE T == {n - i : i \in S}
<1>0. \A i \in S : n - i \in Nat
  OBVIOUS
<1>1. T \in SUBSET Nat /\ T # {}
  BY <1>0
<1>2. PICK x \in T : \A y \in T : x <= y
  BY <1>1, LeastNumber
<1>3. PICK i \in S : x = n - i
  BY <1>2
<1>4. \A y \in S : n - y \in T /\ y \in Int
  OBVIOUS
<1> HIDE DEF T
<1>5. \A y \in S : i >= y
  BY <1>2, <1>3, <1>4
<1>6. \E j \in S : \A y \in S : j >= y
  BY <1>3, <1>5
<1> QED
  BY <1>6 DEF Max

\* The first element that satisfies a condition.
LEMMA FirstPosition ==
  ASSUME NEW s, IsSequence(s), NEW P, P \subseteq DOMAIN s, P # {}
  PROVE  Min(P) \in P /\ \A j \in P : Min(P) <= j
<1>1. P \in SUBSET Nat
  BY SequenceIsFunction
<1> QED
  BY <1>1, MinimumExists

-----------------------------------------------------------------------------
(* Folds over a sequence.                                                  *)

\* The operators the folds of the model apply to what they have so far, a,
\* and the next element x.
Step(op, m, p, a, x) ==
  CASE op = "candidate" -> ApplyCandidate(a, x)
    [] op = "line" -> ParseNext(a, x)
    [] op = "codec" -> WithCodec(m, p, a, x)
    [] OTHER -> a + AttributeSize(x)

\* What the fold computes for the sets of positions up to n.
FoldTable(f, op, m, p, start, xs, n) ==
  f = [S \in SUBSET (1..n) |-> IF S = {} THEN start ELSE Step(op, m, p, f[S \ {Max(S)}], xs[Max(S)])]

\* h has the results after 0, 1, 2, ... elements.
FoldSteps(h, op, m, p, start, xs) ==
  /\ h[0] = start
  /\ \A k \in 1..Len(xs) : h[k] = Step(op, m, p, h[k - 1], xs[k])

LEMMA LargestPosition ==
  ASSUME NEW n \in Nat, n # 0, NEW S \in SUBSET (1..n), n \in S
  PROVE  Max(S) = n /\ S \ {n} \in SUBSET (1..n - 1)
<1>1. Max(S) \in S /\ \A y \in S : Max(S) >= y
  BY MaximumExists
<1>2. Max(S) \in 1..n /\ Max(S) >= n
  BY <1>1
<1> QED
  BY <1>2

LEMMA SmallerPositions ==
  ASSUME NEW n \in Nat, n # 0, NEW S \in SUBSET (1..n), n \notin S
  PROVE  /\ S \in SUBSET (1..n - 1)
         /\ S # {} => S \ {Max(S)} \in SUBSET (1..n - 1) /\ n \notin S \ {Max(S)}
<1>1. \A x \in S : x \in 1..n - 1
  OBVIOUS
<1> QED
  BY <1>1

LEMMA FoldTableExists ==
  ASSUME NEW op, NEW m, NEW p, NEW start, NEW xs, NEW n \in Nat
  PROVE  \E f : FoldTable(f, op, m, p, start, xs, n)
<1> DEFINE bad == {d \in Nat : ~\E f : FoldTable(f, op, m, p, start, xs, d)}
<1>1. ASSUME bad # {} PROVE FALSE
  <2>1. PICK d \in bad : \A e \in bad : d <= e
    BY <1>1, LeastNumber
  <2>2. CASE d = 0
    <3> DEFINE f == [S \in SUBSET (1..0) |-> start]
    <3>1. \A S \in SUBSET (1..0) : S = {}
      OBVIOUS
    <3>2. FoldTable(f, op, m, p, start, xs, 0)
      BY <3>1 DEF FoldTable
    <3> QED
      BY <2>1, <2>2, <3>2
  <2>3. CASE d # 0
    <3>1. d - 1 \in Nat /\ d - 1 \notin bad
      BY <2>1, <2>3
    <3>2. PICK f : FoldTable(f, op, m, p, start, xs, d - 1)
      BY <3>1
    <3> DEFINE g == [S \in SUBSET (1..d) |->
                      IF d \in S THEN Step(op, m, p, f[S \ {d}], xs[d]) ELSE f[S]]
    <3>3. \A S \in SUBSET (1..d - 1) :
            f[S] = IF S = {} THEN start ELSE Step(op, m, p, f[S \ {Max(S)}], xs[Max(S)])
      BY <3>2, Zenon DEF FoldTable
    <3>4. ASSUME NEW S \in SUBSET (1..d)
          PROVE  g[S] = IF S = {} THEN start ELSE Step(op, m, p, g[S \ {Max(S)}], xs[Max(S)])
      <4>1. CASE d \in S
        <5>1. Max(S) = d /\ S \ {d} \in SUBSET (1..d - 1) /\ S \ {d} \in SUBSET (1..d)
          BY <2>3, <4>1, LargestPosition
        <5>2. g[S \ {d}] = f[S \ {d}]
          BY <5>1
        <5>3. g[S] = Step(op, m, p, f[S \ {d}], xs[d]) /\ S # {}
          BY <4>1
        <5> HIDE DEF g
        <5> QED
          BY <5>1, <5>2, <5>3
      <4>2. CASE d \notin S
        <5>1. S \in SUBSET (1..d - 1) /\ g[S] = f[S]
          BY <2>3, <4>2, SmallerPositions
        <5>2. S # {} => g[S \ {Max(S)}] = f[S \ {Max(S)}]
          <6> SUFFICES ASSUME S # {} PROVE g[S \ {Max(S)}] = f[S \ {Max(S)}]
            OBVIOUS
          <6>1. S \ {Max(S)} \in SUBSET (1..d) /\ d \notin S \ {Max(S)}
            BY <4>2
          <6> QED
            BY <6>1
        <5> HIDE DEF g
        <5> QED
          BY <3>3, <5>1, <5>2
      <4> QED
        BY <4>1, <4>2
    <3>5. g = [S \in SUBSET (1..d) |-> g[S]]
      OBVIOUS
    <3> HIDE DEF g
    <3>6. g = [S \in SUBSET (1..d) |->
                IF S = {} THEN start ELSE Step(op, m, p, g[S \ {Max(S)}], xs[Max(S)])]
      BY <3>4, <3>5
    <3>7. FoldTable(g, op, m, p, start, xs, d)
      BY <3>6, Zenon DEF FoldTable
    <3> QED
      BY <2>1, <3>7
  <2> QED
    BY <2>2, <2>3
<1> QED
  BY <1>1

LEMMA TableSteps ==
  ASSUME NEW op, NEW m, NEW p, NEW start, NEW xs, IsSequence(xs),
         NEW f, FoldTable(f, op, m, p, start, xs, Len(xs))
  PROVE  \E h : FoldSteps(h, op, m, p, start, xs) /\ h[Len(xs)] = f[1..Len(xs)]
<1> DEFINE n == Len(xs)
           h == [k \in 0..n |-> f[1..k]]
<1>1. n \in Nat
  BY SequenceIsFunction
<1>2. \A S \in SUBSET (1..n) :
        f[S] = IF S = {} THEN start ELSE Step(op, m, p, f[S \ {Max(S)}], xs[Max(S)])
  BY Zenon DEF FoldTable
<1>3. h[0] = start
  <2>1. 1..0 = {} /\ 0 \in 0..n /\ {} \in SUBSET (1..n)
    BY <1>1
  <2> QED
    BY <1>2, <2>1
<1>4. ASSUME NEW k \in 1..n PROVE h[k] = Step(op, m, p, h[k - 1], xs[k])
  <2>1. k \in Nat /\ k # 0 /\ 1..k \in SUBSET (1..k) /\ k \in 1..k
    BY <1>1
  <2>2. Max(1..k) = k
    BY <2>1, LargestPosition
  <2>3. (1..k) \ {k} = 1..k - 1 /\ 1..k # {} /\ 1..k \in SUBSET (1..n)
    BY <1>1
  <2>4. f[1..k] = Step(op, m, p, f[1..k - 1], xs[k])
    BY <1>2, <2>2, <2>3
  <2>5. h[k] = f[1..k] /\ h[k - 1] = f[1..k - 1]
    BY <1>1
  <2> HIDE DEF h
  <2> QED
    BY <2>4, <2>5
<1>5. h[n] = f[1..n]
  BY <1>1
<1> HIDE DEF h
<1>6. FoldSteps(h, op, m, p, start, xs)
  BY <1>3, <1>4 DEF FoldSteps
<1> QED
  BY <1>5, <1>6

LEMMA CandidateSteps ==
  ASSUME NEW start, NEW xs, IsSequence(xs)
  PROVE  \E h : /\ FoldSteps(h, "candidate", 0, 0, start, xs)
                /\ FoldLeft(ApplyCandidate, start, xs) = h[Len(xs)]
<1> DEFINE D == SUBSET (DOMAIN xs)
           f == CHOOSE f : f = [S \in D |->
                  IF S = {} THEN start ELSE ApplyCandidate(f[S \ {Max(S)}], xs[Max(S)])]
<1>1. FoldLeft(ApplyCandidate, start, xs) = f[DOMAIN xs]
  BY DEF FoldLeft, MapThenFoldSet
<1>2. Len(xs) \in Nat /\ DOMAIN xs = 1..Len(xs)
  BY SequenceIsFunction
<1>3. \A a, x : Step("candidate", 0, 0, a, x) = ApplyCandidate(a, x)
  BY DEF Step
<1>4. \A g : g = [S \in D |-> IF S = {} THEN start ELSE ApplyCandidate(g[S \ {Max(S)}], xs[Max(S)])]
               <=> FoldTable(g, "candidate", 0, 0, start, xs, Len(xs))
  BY <1>2, <1>3, Zenon DEF FoldTable
<1>5. \E g : FoldTable(g, "candidate", 0, 0, start, xs, Len(xs))
  BY <1>2, FoldTableExists
<1>6. FoldTable(f, "candidate", 0, 0, start, xs, Len(xs))
  BY <1>4, <1>5
<1> HIDE DEF f
<1> QED
  BY <1>1, <1>2, <1>6, TableSteps

LEMMA LineSteps ==
  ASSUME NEW start, NEW xs, IsSequence(xs)
  PROVE  \E h : /\ FoldSteps(h, "line", 0, 0, start, xs)
                /\ FoldLeft(ParseNext, start, xs) = h[Len(xs)]
<1> DEFINE D == SUBSET (DOMAIN xs)
           f == CHOOSE f : f = [S \in D |->
                  IF S = {} THEN start ELSE ParseNext(f[S \ {Max(S)}], xs[Max(S)])]
<1>1. FoldLeft(ParseNext, start, xs) = f[DOMAIN xs]
  BY DEF FoldLeft, MapThenFoldSet
<1>2. Len(xs) \in Nat /\ DOMAIN xs = 1..Len(xs)
  BY SequenceIsFunction
<1>3. \A a, x : Step("line", 0, 0, a, x) = ParseNext(a, x)
  BY DEF Step
<1>4. \A g : g = [S \in D |-> IF S = {} THEN start ELSE ParseNext(g[S \ {Max(S)}], xs[Max(S)])]
               <=> FoldTable(g, "line", 0, 0, start, xs, Len(xs))
  BY <1>2, <1>3, Zenon DEF FoldTable
<1>5. \E g : FoldTable(g, "line", 0, 0, start, xs, Len(xs))
  BY <1>2, FoldTableExists
<1>6. FoldTable(f, "line", 0, 0, start, xs, Len(xs))
  BY <1>4, <1>5
<1> HIDE DEF f
<1> QED
  BY <1>1, <1>2, <1>6, TableSteps

\* As WithRtx collects the codecs.
CodecFold(m, p, start, xs) == FoldLeft(LAMBDA selected, c : WithCodec(m, p, selected, c), start, xs)

LEMMA CodecSteps ==
  ASSUME NEW m, NEW p, NEW start, NEW xs, IsSequence(xs)
  PROVE  \E h : FoldSteps(h, "codec", m, p, start, xs) /\ CodecFold(m, p, start, xs) = h[Len(xs)]
<1> DEFINE D == SUBSET (DOMAIN xs)
           f == CHOOSE f : f = [S \in D |->
                  IF S = {} THEN start ELSE WithCodec(m, p, f[S \ {Max(S)}], xs[Max(S)])]
           result == CodecFold(m, p, start, xs)
<1>1. result = f[DOMAIN xs]
  BY DEF CodecFold, FoldLeft, MapThenFoldSet
<1>2. Len(xs) \in Nat /\ DOMAIN xs = 1..Len(xs)
  BY SequenceIsFunction
<1>3. \A a, x : Step("codec", m, p, a, x) = WithCodec(m, p, a, x)
  BY DEF Step
<1>4. \A g : g = [S \in D |-> IF S = {} THEN start ELSE WithCodec(m, p, g[S \ {Max(S)}], xs[Max(S)])]
               <=> FoldTable(g, "codec", m, p, start, xs, Len(xs))
  BY <1>2, <1>3, Zenon DEF FoldTable
<1>5. \E g : FoldTable(g, "codec", m, p, start, xs, Len(xs))
  BY <1>2, FoldTableExists
<1>6. FoldTable(f, "codec", m, p, start, xs, Len(xs))
  BY <1>4, <1>5
<1> HIDE DEF f, result
<1>7. \E h : FoldSteps(h, "codec", m, p, start, xs) /\ result = h[Len(xs)]
  BY <1>1, <1>2, <1>6, TableSteps
<1> QED
  BY <1>7, Zenon DEF result

-----------------------------------------------------------------------------
(* Reading a fragment.                                                     *)

LEMMA MemberIsSequence ==
  ASSUME NEW E, NEW t \in Seq(E)
  PROVE  IsSequence(t)
<1>1. Len(t) \in Nat /\ t = [i \in 1..Len(t) |-> t[i]]
  OBVIOUS
<1> QED
  BY <1>1, FunctionIsSequence

LEMMA AppendSequence ==
  ASSUME NEW s, IsSequence(s), NEW x
  PROVE  /\ IsSequence(Append(s, x)) /\ Len(Append(s, x)) = Len(s) + 1
         /\ Append(s, x)[Len(s) + 1] = x
         /\ \A i \in 1..Len(s) : Append(s, x)[i] = s[i]
<1> DEFINE E == Elements(s) \cup {x}
           t == Append(s, x)
<1>1. s \in Seq(E) /\ x \in E
  BY DEF IsSequence
<1>2. t \in Seq(E) /\ Len(t) = Len(s) + 1 /\ t[Len(s) + 1] = x /\ \A i \in 1..Len(s) : t[i] = s[i]
  BY <1>1, AppendProperties
<1> HIDE DEF t, E
<1>3. IsSequence(t)
  BY <1>2, MemberIsSequence
<1> QED
  BY <1>2, <1>3 DEF t

LEMMA AppendElements ==
  ASSUME NEW s, IsSequence(s), NEW x
  PROVE  /\ Elements(Append(s, x)) = Elements(s) \cup {x}
         /\ Distinct(s) /\ x \notin Elements(s) => Distinct(Append(s, x))
<1> DEFINE t == Append(s, x)
           n == Len(s)
<1>1. n \in Nat /\ DOMAIN s = 1..n
  BY SequenceIsFunction
<1>2. IsSequence(t) /\ Len(t) = n + 1 /\ t[n + 1] = x /\ \A i \in 1..n : t[i] = s[i]
  BY AppendSequence
<1>3. DOMAIN t = 1..(n + 1)
  BY <1>2, SequenceIsFunction
<1>4. DOMAIN t = DOMAIN s \cup {n + 1}
  BY <1>1, <1>3
<1> HIDE DEF t, n
<1>5. Elements(t) = Elements(s) \cup {x}
  BY <1>1, <1>2, <1>4 DEF Elements
<1>6. ASSUME Distinct(s), x \notin Elements(s) PROVE Distinct(t)
  <2> SUFFICES ASSUME NEW i \in DOMAIN t, NEW j \in DOMAIN t, t[i] = t[j] PROVE i = j
    BY DEF Distinct
  <2>1. (i \in DOMAIN s \/ i = n + 1) /\ (j \in DOMAIN s \/ j = n + 1)
    BY <1>4
  <2>2. \A l \in DOMAIN s : t[l] = s[l] /\ t[l] # x
    BY <1>1, <1>2, <1>6 DEF Elements
  <2> QED
    BY <1>2, <1>6, <2>1, <2>2 DEF Distinct
<1> QED
  BY <1>5, <1>6 DEF t

\* A candidate that was read names a section, by index and by mid.
NamesSection(c) == c.mid # None /\ c.mline \in Nat

ParserOK(p) ==
  /\ p = [mid |-> p.mid, mline |-> p.mline, next |-> p.next, ufrag |-> p.ufrag, pwd |-> p.pwd,
          candidates |-> p.candidates]
  /\ p.mline \in Nat /\ p.next \in Nat
  /\ p.mid = None \/ p.mid.name # None
  /\ IsSequence(p.candidates)
  /\ \A i \in DOMAIN p.candidates : NamesSection(p.candidates[i])

LEMMA ParserStarts == ParserOK(NewParser)
<1>1. IsSequence(<<>>) /\ DOMAIN <<>> = {}
  BY DEF IsSequence
<1> QED
  BY <1>1 DEF ParserOK, NewParser

LEMMA CandidateRead ==
  ASSUME NEW p, ParserOK(p), NEW text, ParsedCandidate(p, text) # Refused
  PROVE  ParserOK(ParsedCandidate(p, text))
<1> DEFINE c == RemoteCandidate(text, p.mid, p.mline)
           q == [p EXCEPT !.candidates = Append(@, c)]
<1>1. p.mid # None /\ c # Refused /\ ParsedCandidate(p, text) = q
  BY DEF ParsedCandidate
<1>2. c = [text |-> text, mid |-> p.mid.name, mline |-> p.mline]
  BY <1>1 DEF RemoteCandidate
<1>3. NamesSection(c)
  BY <1>1, <1>2 DEF ParserOK, NamesSection
<1> HIDE DEF c
<1>4. q = [mid |-> p.mid, mline |-> p.mline, next |-> p.next, ufrag |-> p.ufrag, pwd |-> p.pwd,
           candidates |-> Append(p.candidates, c)]
  <2>1. p = [mid |-> p.mid, mline |-> p.mline, next |-> p.next, ufrag |-> p.ufrag, pwd |-> p.pwd,
             candidates |-> p.candidates]
    BY DEF ParserOK
  <2> DEFINE all == Append(p.candidates, c)
  <2>2. q = [p EXCEPT !.candidates = all]
    OBVIOUS
  <2> HIDE DEF all
  <2>3. [p EXCEPT !.candidates = all] =
          [mid |-> p.mid, mline |-> p.mline, next |-> p.next, ufrag |-> p.ufrag, pwd |-> p.pwd, candidates |-> all]
    BY <2>1
  <2> QED
    BY <2>2, <2>3 DEF all
<1> HIDE DEF q
<1>5. /\ IsSequence(Append(p.candidates, c))
      /\ \A i \in DOMAIN Append(p.candidates, c) : NamesSection(Append(p.candidates, c)[i])
  <2>1. IsSequence(p.candidates) /\ \A i \in DOMAIN p.candidates : NamesSection(p.candidates[i])
    BY DEF ParserOK
  <2>2. DOMAIN p.candidates = 1..Len(p.candidates) /\ Len(p.candidates) \in Nat
    BY <2>1, SequenceIsFunction
  <2> QED
    BY <1>3, <2>1, <2>2, AppendSequence, SequenceIsFunction
<1>6. ParserOK(q)
  BY <1>1, <1>4, <1>5 DEF ParserOK
<1> QED
  BY <1>1, <1>6

LEMMA LineRead ==
  ASSUME NEW p, ParserOK(p), NEW line, ParseLine(p, line) # Refused
  PROVE  ParserOK(ParseLine(p, line))
<1>1. CASE line.type = "m"
  <2>1. ParseLine(p, line) = [mid |-> None, mline |-> p.next, next |-> p.next + 1, ufrag |-> p.ufrag, pwd |-> p.pwd,
                              candidates |-> p.candidates]
    BY <1>1 DEF ParseLine, ParserOK
  <2> QED
    BY <2>1 DEF ParserOK
<1>2. CASE line.type = "mid"
  <2>1. line.mid.name # None /\ ParseLine(p, line) = [p EXCEPT !.mid = line.mid]
    BY <1>2 DEF ParseLine
  <2>2. ParseLine(p, line) = [mid |-> line.mid, mline |-> p.mline, next |-> p.next, ufrag |-> p.ufrag, pwd |-> p.pwd,
                              candidates |-> p.candidates]
    BY <2>1 DEF ParserOK
  <2> QED
    BY <2>1, <2>2 DEF ParserOK
<1>3. CASE line.type = "ufrag"
  <2>1. ParseLine(p, line) = [p EXCEPT !.ufrag = line.value]
    BY <1>3 DEF ParseLine, SetAttributeOnce
  <2>2. ParseLine(p, line) = [mid |-> p.mid, mline |-> p.mline, next |-> p.next, ufrag |-> line.value, pwd |-> p.pwd,
                              candidates |-> p.candidates]
    BY <2>1 DEF ParserOK
  <2> QED
    BY <2>2 DEF ParserOK
<1>4. CASE line.type = "pwd"
  <2>1. ParseLine(p, line) = [p EXCEPT !.pwd = line.value]
    BY <1>4 DEF ParseLine, SetAttributeOnce
  <2>2. ParseLine(p, line) = [mid |-> p.mid, mline |-> p.mline, next |-> p.next, ufrag |-> p.ufrag, pwd |-> line.value,
                              candidates |-> p.candidates]
    BY <2>1 DEF ParserOK
  <2> QED
    BY <2>2 DEF ParserOK
<1>5. CASE line.type = "candidate"
  <2>1. ParseLine(p, line) = ParsedCandidate(p, line.text)
    BY <1>5 DEF ParseLine
  <2> QED
    BY <2>1, CandidateRead
<1>6. CASE line.type = "end"
  <2>1. ParseLine(p, line) = ParsedCandidate(p, None)
    BY <1>6 DEF ParseLine
  <2> QED
    BY <2>1, CandidateRead
<1>7. CASE line.type \notin {"m", "mid", "ufrag", "pwd", "candidate", "end"}
  BY <1>7 DEF ParseLine
<1> QED
  BY <1>1, <1>2, <1>3, <1>4, <1>5, <1>6, <1>7

\* Every fragment the parser accepts has candidates that name their sections.
LEMMA FragmentRead ==
  ASSUME NEW body, IsSequence(body), ParsedFragment(body) # Refused
  PROVE  ParserOK(ParsedFragment(body))
<1>1. PICK h : FoldSteps(h, "line", 0, 0, NewParser, body) /\ FoldLeft(ParseNext, NewParser, body) = h[Len(body)]
  BY LineSteps
<1>2. h[0] = NewParser /\ \A k \in 1..Len(body) : h[k] = ParseNext(h[k - 1], body[k])
  BY <1>1 DEF FoldSteps, Step
<1>3. Len(body) \in Nat
  BY SequenceIsFunction
<1> DEFINE bad == {k \in 0..Len(body) : ~(h[k] = Refused \/ ParserOK(h[k]))}
<1>4. bad = {}
  <2> SUFFICES ASSUME bad # {} PROVE FALSE
    OBVIOUS
  <2>0. bad \in SUBSET Nat
    BY <1>3
  <2>1. PICK k \in bad : \A l \in bad : k <= l
    <3> HIDE DEF bad
    <3> QED
      BY <2>0, LeastNumber
  <2>2. k # 0
    BY <1>2, <2>1, ParserStarts
  <2>3. k \in 1..Len(body) /\ k - 1 \in 0..Len(body) /\ k - 1 \notin bad
    BY <1>3, <2>1, <2>2
  <2>4. h[k - 1] = Refused \/ ParserOK(h[k - 1])
    BY <2>3
  <2>5. h[k] = IF h[k - 1] = Refused THEN Refused ELSE ParseLine(h[k - 1], body[k])
    BY <1>2, <2>3 DEF ParseNext
  <2>6. h[k] = Refused \/ ParserOK(h[k])
    BY <2>4, <2>5, LineRead
  <2> QED
    BY <2>1, <2>6
<1>5. ParsedFragment(body) = h[Len(body)] /\ h[Len(body)] # Refused
  BY <1>1 DEF ParsedFragment, AndThen
<1> QED
  BY <1>3, <1>4, <1>5

-----------------------------------------------------------------------------
(* The answer and the session that keeps it.                               *)

IsAnswer(a, media) ==
  /\ a.media = media /\ a.bundle = [i \in DOMAIN a.accepted |-> media[a.accepted[i] + 1].mid]
  /\ IsSequence(a.accepted) /\ Distinct(a.accepted) /\ a.accepted # <<>>
  /\ Elements(a.accepted) = {i - 1 : i \in {k \in DOMAIN media : media[k].port # 0}}

\* An answer accepts the sections with a port, each once.
LEMMA AnswerAccepts ==
  ASSUME NEW media, IsSequence(media), Answer(media) # Refused
  PROVE  IsAnswer(Answer(media), media)
<1> DEFINE numbers == [i \in DOMAIN media |-> i - 1]
           P == {i \in DOMAIN numbers : media[numbers[i] + 1].port # 0}
           accepted == Where(numbers, LAMBDA index : media[index + 1].port # 0)
           open == {k \in DOMAIN media : media[k].port # 0}
<1>1. accepted # <<>> /\ Answer(media) = [media |-> media, accepted |-> accepted,
                                          bundle |-> [i \in DOMAIN accepted |-> media[accepted[i] + 1].mid]]
  BY DEF Answer
<1>2. Len(media) \in Nat /\ DOMAIN media = 1..Len(media)
  BY SequenceIsFunction
<1>3. IsSequence(numbers) /\ DOMAIN numbers = DOMAIN media
  <2>1. numbers = [i \in 1..Len(media) |-> numbers[i]]
    BY <1>2
  <2> HIDE DEF numbers
  <2> QED
    BY <1>2, <2>1, FunctionIsSequence
<1>4. accepted = Picked(numbers, P)
  BY DEF Where
<1>5. \A i \in DOMAIN media : i \in Int /\ numbers[i] = i - 1 /\ numbers[i] + 1 = i
  BY <1>2
<1>6. P = open
  BY <1>3, <1>5
<1>7. P \subseteq DOMAIN numbers
  OBVIOUS
<1> HIDE DEF numbers, P, accepted
<1>8. Sifted(accepted, numbers, P)
  BY <1>3, <1>4, <1>7, PickedSifts
<1>9. IsSequence(accepted) /\ Distinct(accepted)
  BY <1>3, <1>5, <1>7, <1>8 DEF Sifted, Distinct
<1>10. Elements(accepted) = {i - 1 : i \in open}
  BY SMTT(40), <1>3, <1>5, <1>6, <1>7, <1>8 DEF Sifted, Elements
<1> QED
  BY <1>1, <1>9, <1>10 DEF IsAnswer

\* The runtime offer, the answer and the accepted indexes run parallel.
Parallel(s) ==
  /\ IsSequence(s.answer.media) /\ IsSequence(s.accepted) /\ Distinct(s.accepted)
  /\ DOMAIN s.offer.media = DOMAIN s.accepted
  /\ \A i \in DOMAIN s.accepted :
       /\ s.accepted[i] \in Nat /\ s.accepted[i] + 1 \in Accepted(s)
       /\ s.answer.media[s.accepted[i] + 1].mid = s.offer.media[i].mid
  /\ \A k \in Accepted(s) : \E i \in DOMAIN s.accepted : s.accepted[i] = k - 1

IsRuntime(runtime, offer, accepted) ==
  /\ runtime.media = [i \in DOMAIN accepted |-> offer.media[accepted[i] + 1]]
  /\ runtime.bundle = [i \in DOMAIN accepted |-> offer.media[accepted[i] + 1].mid]
  /\ runtime.ufrag = offer.ufrag /\ runtime.pwd = offer.pwd

\* Every section is answered by one with its mid and kind.
AnswersEach(media, offer) ==
  /\ IsSequence(media) /\ IsSequence(offer.media) /\ Len(media) = Len(offer.media)
  /\ \A i \in DOMAIN media : media[i].mid = offer.media[i].mid /\ media[i].kind = offer.media[i].kind

LEMMA SessionIsParallel ==
  ASSUME NEW s, NEW offer, NEW media, AnswersEach(media, offer), IsAnswer(s.answer, media),
         s.accepted = s.answer.accepted, IsRuntime(s.offer, offer, s.accepted)
  PROVE  Parallel(s)
<1>1. /\ IsSequence(media) /\ IsSequence(offer.media) /\ DOMAIN media = DOMAIN offer.media
      /\ DOMAIN media = 1..Len(media) /\ Len(media) \in Nat
  BY SequenceIsFunction DEF AnswersEach
<1>2. s.answer.media = media /\ IsSequence(s.accepted) /\ Distinct(s.accepted)
  BY DEF IsAnswer
<1>3. s.offer.media = [i \in DOMAIN s.accepted |-> offer.media[s.accepted[i] + 1]]
  BY DEF IsRuntime
<1>4. Accepted(s) = {k \in DOMAIN media : media[k].port # 0}
  BY <1>2 DEF Accepted
<1>5. Elements(s.accepted) = {i - 1 : i \in Accepted(s)}
  BY <1>4 DEF IsAnswer
<1>6. \A i \in DOMAIN s.accepted : s.accepted[i] \in Nat /\ s.accepted[i] + 1 \in Accepted(s)
  <2> TAKE i \in DOMAIN s.accepted
  <2>1. PICK k \in Accepted(s) : s.accepted[i] = k - 1
    BY <1>5 DEF Elements
  <2> QED
    BY <1>1, <1>4, <2>1
<1>7. \A k \in Accepted(s) : \E i \in DOMAIN s.accepted : s.accepted[i] = k - 1
  BY <1>5 DEF Elements
<1>8. \A i \in DOMAIN s.accepted : s.answer.media[s.accepted[i] + 1].mid = s.offer.media[i].mid
  BY <1>2, <1>3, <1>4, <1>6 DEF AnswersEach
<1> QED
  BY <1>1, <1>2, <1>3, <1>6, <1>7, <1>8 DEF Parallel

LEMMA AcceptedByName ==
  ASSUME NEW s, Parallel(s), NEW c, NamesSection(c)
  PROVE  MediaIsAccepted(s, c) <=> NamesAccepted(s, c)
<1>1. c.mid # None /\ c.mline \in Nat /\ c.mline >= 0
  BY DEF NamesSection
<1>2. MediaIsAccepted(s, c) <=> \E i \in DOMAIN s.accepted : s.offer.media[i].mid = c.mid /\ s.accepted[i] = c.mline
  BY <1>1 DEF MediaIsAccepted, Parallel
<1>3. Accepted(s) \subseteq Nat
  BY SequenceIsFunction DEF Accepted, Parallel
<1>4. ASSUME MediaIsAccepted(s, c) PROVE NamesAccepted(s, c)
  <2>1. PICK i \in DOMAIN s.accepted : s.offer.media[i].mid = c.mid /\ s.accepted[i] = c.mline
    BY <1>2, <1>4
  <2>2. c.mline + 1 \in Accepted(s) /\ s.answer.media[c.mline + 1].mid = c.mid /\ (c.mline + 1) - 1 = c.mline
    BY <1>1, <2>1 DEF Parallel
  <2> QED
    BY <2>2 DEF NamesAccepted
<1>5. ASSUME NamesAccepted(s, c) PROVE MediaIsAccepted(s, c)
  <2>1. PICK k \in Accepted(s) : k - 1 = c.mline /\ s.answer.media[k].mid = c.mid
    BY <1>5 DEF NamesAccepted
  <2>2. PICK i \in DOMAIN s.accepted : s.accepted[i] = k - 1
    BY <2>1 DEF Parallel
  <2>3. s.accepted[i] + 1 = k
    BY <1>3, <2>1, <2>2
  <2>4. s.offer.media[i].mid = c.mid
    BY <2>1, <2>2, <2>3 DEF Parallel
  <2> QED
    BY <1>2, <2>1, <2>2, <2>4
<1> QED
  BY <1>4, <1>5

-----------------------------------------------------------------------------
(* Adding candidates to a session.                                         *)

HasFields(s) == {"name", "offer", "answer", "accepted", "local", "remote", "selected"} \subseteq DOMAIN s

\* What a session keeps from its creation to its end.
SameSession(s, t) ==
  /\ HasFields(s) /\ HasFields(t)
  /\ t.name = s.name /\ t.offer = s.offer /\ t.answer = s.answer /\ t.accepted = s.accepted /\ t.local = s.local

\* A record, a sequence or another function.
IsData(f) == f = [x \in DOMAIN f |-> f[x]]

\* What requests and checks leave alone.
OthersKept(s, t) ==
  /\ DOMAIN t = DOMAIN s /\ \A key \in DOMAIN s \ {"remote", "selected"} : t[key] = s[key]
  /\ IsData(s) => IsData(t)

RemoteOK(s) ==
  /\ IsSequence(s.remote) /\ Distinct(s.remote)
  /\ \A i \in DOMAIN s.remote : NamesAccepted(s, s.remote[i]) /\ (IsEnd(s.remote[i]) => i = Len(s.remote))
  /\ Len(s.remote) <= MaxCandidates \/ (Completed(s) /\ Len(s.remote) = MaxCandidates + 1)

LEMMA SameSessionKeeps ==
  ASSUME NEW s, NEW t, SameSession(s, t)
  PROVE  /\ Parallel(t) <=> Parallel(s)
         /\ \A c : NamesAccepted(t, c) <=> NamesAccepted(s, c)
         /\ \A direction : AnswerFits(t, direction) <=> AnswerFits(s, direction)
<1>1. t.name = s.name /\ t.offer = s.offer /\ t.answer = s.answer /\ t.accepted = s.accepted
  BY DEF SameSession
<1>2. Accepted(t) = Accepted(s) /\ OfferedMedia(t) = OfferedMedia(s)
  BY <1>1 DEF Accepted, OfferedMedia
<1>3. Parallel(t) <=> Parallel(s)
  BY <1>1, <1>2 DEF Parallel
<1>4. \A c : NamesAccepted(t, c) <=> NamesAccepted(s, c)
  BY <1>1, <1>2 DEF NamesAccepted
<1>5. \A direction : AnswerFits(t, direction) <=> AnswerFits(s, direction)
  BY <1>1, <1>2 DEF AnswerFits
<1> QED
  BY <1>3, <1>4, <1>5

LEMMA CandidateAdded ==
  ASSUME NEW s, HasFields(s), RemoteOK(s), NEW c, NamesAccepted(s, c), ~AlreadyKnown(s, c),
         AddRemoteCandidate(s, c) # Refused, NEW t, t = AddRemoteCandidate(s, c)
  PROVE  SameSession(s, t) /\ OthersKept(s, t) /\ RemoteOK(t) /\ t.remote = Append(s.remote, c) /\ ~Completed(s)
<1>1. t = [s EXCEPT !.remote = Append(s.remote, c)] /\ (IsEnd(c) \/ (~Completed(s) /\ ~(Len(s.remote) >= MaxCandidates)))
  BY DEF AddRemoteCandidate
<1>2. ~Completed(s) /\ \A i \in DOMAIN s.remote : s.remote[i] # c
  BY <1>1 DEF AlreadyKnown
<1>3. t.remote = Append(s.remote, c)
  BY <1>1 DEF HasFields
<1>4. SameSession(s, t) /\ OthersKept(s, t)
  BY <1>1 DEF HasFields, SameSession, OthersKept, IsData
<1>5. /\ IsSequence(s.remote) /\ Distinct(s.remote) /\ Len(s.remote) <= MaxCandidates
      /\ \A i \in DOMAIN s.remote : NamesAccepted(s, s.remote[i]) /\ (IsEnd(s.remote[i]) => i = Len(s.remote))
  BY <1>2 DEF RemoteOK
<1>6. Len(s.remote) \in Nat /\ DOMAIN s.remote = 1..Len(s.remote) /\ MaxCandidates \in Nat
  BY <1>5, SequenceIsFunction, MaxCandidatesAssumption
<1>7. /\ IsSequence(t.remote) /\ Len(t.remote) = Len(s.remote) + 1 /\ DOMAIN t.remote = 1..Len(s.remote) + 1
      /\ t.remote[Len(s.remote) + 1] = c /\ \A i \in 1..Len(s.remote) : t.remote[i] = s.remote[i]
  <2>1. IsSequence(Append(s.remote, c)) /\ Len(Append(s.remote, c)) = Len(s.remote) + 1
    BY <1>5, AppendSequence
  <2>2. DOMAIN Append(s.remote, c) = 1..Len(s.remote) + 1
    BY <2>1, SequenceIsFunction
  <2> QED
    BY <1>3, <1>5, <2>1, <2>2, AppendSequence
<1>8. \A i \in 1..Len(s.remote) : ~IsEnd(s.remote[i])
  BY <1>2, <1>5, <1>6 DEF Completed
<1>9. Distinct(t.remote)
  BY <1>2, <1>3, <1>5, AppendElements DEF Elements
<1>10. \A i \in DOMAIN t.remote : NamesAccepted(t, t.remote[i]) /\ (IsEnd(t.remote[i]) => i = Len(t.remote))
  <2>1. \A x : NamesAccepted(s, x) => NamesAccepted(t, x)
    BY <1>4, SameSessionKeeps
  <2> TAKE i \in DOMAIN t.remote
  <2>2. CASE i \in 1..Len(s.remote)
    BY <1>5, <1>6, <1>7, <1>8, <2>1, <2>2
  <2>3. CASE i = Len(s.remote) + 1
    BY <1>7, <2>1, <2>3
  <2> QED
    BY <1>6, <1>7, <2>2, <2>3
<1>11. Len(t.remote) <= MaxCandidates \/ (Completed(t) /\ Len(t.remote) = MaxCandidates + 1)
  <2>1. CASE IsEnd(c)
    <3>1. t.remote # <<>> /\ Completed(t)
      BY <1>6, <1>7, <2>1 DEF Completed
    <3> QED
      BY <1>5, <1>6, <1>7, <3>1
  <2>2. CASE ~IsEnd(c)
    BY <1>1, <1>5, <1>6, <1>7, <2>2
  <2> QED
    BY <2>1, <2>2
<1>12. RemoteOK(t)
  BY <1>7, <1>9, <1>10, <1>11 DEF RemoteOK
<1> QED
  BY <1>2, <1>3, <1>4, <1>12

Grown(a, b) == Len(a) <= Len(b) /\ \A i \in 1..Len(a) : b[i] = a[i]

\* The first k candidates of a request have been applied to the session s.
Progress(r, s, cs, k) ==
  /\ r = [status |-> r.status, session |-> r.session] /\ r.status \in {204, 400}
  /\ SameSession(s, r.session) /\ OthersKept(s, r.session) /\ RemoteOK(r.session) /\ Grown(s.remote, r.session.remote)
  /\ Elements(r.session.remote) \subseteq Elements(s.remote) \cup {cs[i] : i \in 1..k}
  /\ r.status = 204 => \A i \in 1..k : NamesAccepted(s, cs[i]) => AlreadyKnown(r.session, cs[i])

LEMMA CandidateApplied ==
  ASSUME NEW s, Parallel(s), NEW cs, NEW k \in Nat, NEW r, Progress(r, s, cs, k), NamesSection(cs[k + 1])
  PROVE  Progress(ApplyCandidate(r, cs[k + 1]), s, cs, k + 1)
<1> DEFINE c == cs[k + 1]
           old == r.session
           added == AddRemoteCandidate(old, c)
           next == ApplyCandidate(r, c)
           sent(n) == {cs[i] : i \in 1..n}
<1>1. /\ r = [status |-> r.status, session |-> old] /\ r.status \in {204, 400}
      /\ SameSession(s, old) /\ OthersKept(s, old) /\ RemoteOK(old) /\ Grown(s.remote, old.remote)
      /\ Elements(old.remote) \subseteq Elements(s.remote) \cup sent(k)
      /\ r.status = 204 => \A i \in 1..k : NamesAccepted(s, cs[i]) => AlreadyKnown(old, cs[i])
  BY DEF Progress
<1>2. MediaIsAccepted(old, c) <=> NamesAccepted(s, c)
  BY <1>1, AcceptedByName, SameSessionKeeps
<1>3. sent(k) \subseteq sent(k + 1) /\ c \in sent(k + 1) /\ \A i \in 1..(k + 1) : i \in 1..k \/ i = k + 1
  OBVIOUS
<1>4. next = IF r.status # 204 \/ ~MediaIsAccepted(old, c) \/ AlreadyKnown(old, c) THEN r
             ELSE IF added = Refused THEN [r EXCEPT !.status = 400] ELSE [r EXCEPT !.session = added]
  BY DEF ApplyCandidate
<1> HIDE DEF sent, next, old, added
<1>5. CASE r.status # 204 \/ ~MediaIsAccepted(old, c) \/ AlreadyKnown(old, c)
  <2>1. next = r
    BY <1>4, <1>5
  <2>2. r.status = 204 => \A i \in 1..(k + 1) : NamesAccepted(s, cs[i]) => AlreadyKnown(old, cs[i])
    BY <1>1, <1>2, <1>3, <1>5
  <2> QED
    BY <1>1, <1>3, <2>1, <2>2 DEF Progress, sent, next, old
<1>6. CASE ~(r.status # 204 \/ ~MediaIsAccepted(old, c) \/ AlreadyKnown(old, c)) /\ added = Refused
  <2>1. next = [r EXCEPT !.status = 400]
    BY <1>4, <1>6
  <2>2. next = [status |-> 400, session |-> old]
    BY <1>1, <2>1
  <2> QED
    BY <1>1, <1>3, <2>2 DEF Progress, sent, next, old
<1>7. CASE ~(r.status # 204 \/ ~MediaIsAccepted(old, c) \/ AlreadyKnown(old, c)) /\ added # Refused
  <2>1. next = [r EXCEPT !.session = added]
    BY <1>4, <1>7
  <2>2. next = [status |-> 204, session |-> added]
    BY <1>1, <1>7, <2>1
  <2>3. NamesAccepted(old, c)
    BY <1>1, <1>2, <1>7, SameSessionKeeps
  <2>4. SameSession(old, added) /\ OthersKept(old, added) /\ RemoteOK(added) /\ added.remote = Append(old.remote, c) /\ ~Completed(old)
    BY <1>1, <1>7, <2>3, CandidateAdded DEF SameSession, added
  <2>5. SameSession(s, added) /\ OthersKept(s, added)
    BY <1>1, <2>4 DEF SameSession, OthersKept
  <2>6. /\ Len(old.remote) \in Nat /\ DOMAIN old.remote = 1..Len(old.remote)
        /\ Len(added.remote) = Len(old.remote) + 1 /\ DOMAIN added.remote = 1..Len(old.remote) + 1
        /\ added.remote[Len(old.remote) + 1] = c /\ \A i \in 1..Len(old.remote) : added.remote[i] = old.remote[i]
    <3>1. IsSequence(old.remote) /\ IsSequence(added.remote)
      BY <1>1, <2>4 DEF RemoteOK
    <3> QED
      BY <2>4, <3>1, AppendSequence, SequenceIsFunction
  <2>7. Elements(added.remote) = Elements(old.remote) \cup {c}
    BY <1>1, <2>4, AppendElements DEF RemoteOK
  <2>8. Grown(s.remote, added.remote)
    <3>1. Len(s.remote) \in Int
      BY LenProperties
    <3> QED
      BY <1>1, <2>6, <3>1 DEF Grown
  <2>9. ASSUME NEW x, AlreadyKnown(old, x) PROVE AlreadyKnown(added, x)
    BY <2>4, <2>6, <2>9 DEF AlreadyKnown
  <2>10. AlreadyKnown(added, c)
    BY <2>6 DEF AlreadyKnown
  <2>11. \A i \in 1..(k + 1) : NamesAccepted(s, cs[i]) => AlreadyKnown(added, cs[i])
    <3> SUFFICES ASSUME NEW i \in 1..(k + 1), NamesAccepted(s, cs[i]) PROVE AlreadyKnown(added, cs[i])
      OBVIOUS
    <3>1. CASE i = k + 1
      BY <2>10, <3>1
    <3>2. CASE i \in 1..k
      BY <1>1, <1>7, <2>9, <3>2
    <3> QED
      BY <1>3, <3>1, <3>2
  <2>12. Elements(added.remote) \subseteq Elements(s.remote) \cup sent(k + 1)
    BY <1>1, <1>3, <2>7
  <2>13. /\ next.status = 204 /\ next.session = added
         /\ next = [status |-> next.status, session |-> next.session]
    BY <2>2
  <2>14. Progress(next, s, cs, k + 1)
    <3>1. next.status \in {204, 400}
      BY <2>13
    <3> QED
      BY <2>4, <2>5, <2>8, <2>11, <2>12, <2>13, <3>1, Zenon DEF Progress, sent
  <2> QED
    BY <2>14 DEF next
<1> QED
  BY <1>5, <1>6, <1>7

SessionOK(s) == HasFields(s) /\ Parallel(s) /\ RemoteOK(s)

LEMMA SessionStaysOK ==
  ASSUME NEW s, NEW t, SessionOK(s), SameSession(s, t), RemoteOK(t)
  PROVE  SessionOK(t)
BY SameSessionKeeps DEF SessionOK, SameSession

LEMMA ProgressStarts ==
  ASSUME NEW s, SessionOK(s), NEW cs
  PROVE  Progress([status |-> 204, session |-> s], s, cs, 0)
<1>1. SameSession(s, s) /\ OthersKept(s, s) /\ Grown(s.remote, s.remote)
  <2>1. Len(s.remote) \in Int
    BY LenProperties
  <2> QED
    BY <2>1 DEF SessionOK, SameSession, OthersKept, Grown
<1> QED
  BY <1>1 DEF SessionOK, Progress

LEMMA CandidatesApplied ==
  ASSUME NEW s, SessionOK(s), NEW cs, IsSequence(cs), \A i \in DOMAIN cs : NamesSection(cs[i])
  PROVE  Progress(FoldLeft(ApplyCandidate, [status |-> 204, session |-> s], cs), s, cs, Len(cs))
<1> DEFINE start == [status |-> 204, session |-> s]
<1>1. PICK h : FoldSteps(h, "candidate", 0, 0, start, cs) /\ FoldLeft(ApplyCandidate, start, cs) = h[Len(cs)]
  BY CandidateSteps
<1>2. h[0] = start /\ \A k \in 1..Len(cs) : h[k] = ApplyCandidate(h[k - 1], cs[k])
  BY <1>1 DEF FoldSteps, Step
<1>3. Len(cs) \in Nat /\ DOMAIN cs = 1..Len(cs)
  BY SequenceIsFunction
<1> DEFINE bad == {k \in 0..Len(cs) : ~Progress(h[k], s, cs, k)}
<1>4. bad = {}
  <2> SUFFICES ASSUME bad # {} PROVE FALSE
    OBVIOUS
  <2>1. bad \in SUBSET Nat
    BY <1>3
  <2>2. PICK k \in bad : \A l \in bad : k <= l
    <3> HIDE DEF bad
    <3> QED
      BY <2>1, LeastNumber
  <2>3. k # 0
    BY <1>2, <2>2, ProgressStarts
  <2>4. k \in 1..Len(cs) /\ k - 1 \in 0..Len(cs) /\ k - 1 \in Nat /\ k - 1 \notin bad /\ (k - 1) + 1 = k
    BY <1>3, <2>2, <2>3
  <2>5. Progress(h[k - 1], s, cs, k - 1)
    BY <2>4
  <2>6. NamesSection(cs[k])
    BY <1>3, <2>4
  <2>7. Progress(ApplyCandidate(h[k - 1], cs[(k - 1) + 1]), s, cs, (k - 1) + 1)
    BY <2>4, <2>5, <2>6, CandidateApplied DEF SessionOK
  <2>8. Progress(h[k], s, cs, k)
    BY <1>2, <2>4, <2>7
  <2> QED
    BY <2>2, <2>8
<1> QED
  BY <1>1, <1>3, <1>4

\* What a request can do to the session s: r is its result.
Patched(s, r, cs) ==
  /\ r = [status |-> r.status, session |-> r.session]
  /\ SameSession(s, r.session) /\ OthersKept(s, r.session) /\ RemoteOK(r.session) /\ Grown(s.remote, r.session.remote)
  /\ Elements(r.session.remote) \subseteq Elements(s.remote) \cup Elements(cs)
  /\ r.status = 204 => \A i \in DOMAIN cs : NamesAccepted(s, cs[i]) => AlreadyKnown(r.session, cs[i])

LEMMA NothingPatched ==
  ASSUME NEW s, SessionOK(s), NEW status, status # 204, NEW cs
  PROVE  Patched(s, [status |-> status, session |-> s], cs)
<1>1. SameSession(s, s) /\ OthersKept(s, s) /\ Grown(s.remote, s.remote)
  <2>1. Len(s.remote) \in Int
    BY LenProperties
  <2> QED
    BY <2>1 DEF SessionOK, SameSession, OthersKept, Grown
<1> QED
  BY <1>1 DEF SessionOK, Patched

\* The candidates of a request, none when it cannot be read.
Sent(r) == IF ParsedFragment(r.body) = Refused THEN <<>> ELSE ParsedFragment(r.body).candidates

LEMMA SentRead ==
  ASSUME NEW r, IsSequence(r.body)
  PROVE  IsSequence(Sent(r)) /\ \A i \in DOMAIN Sent(r) : NamesSection(Sent(r)[i])
<1>1. IsSequence(<<>>) /\ DOMAIN <<>> = {}
  BY DEF IsSequence
<1>2. CASE ParsedFragment(r.body) = Refused
  BY <1>1, <1>2 DEF Sent
<1>3. CASE ParsedFragment(r.body) # Refused
  BY <1>3, FragmentRead DEF Sent, ParserOK
<1> QED
  BY <1>2, <1>3

\* The conditions under which the candidates of a body reach the session.
IsApplied(s, r) ==
  LET body == ParsedFragment(r.body)
  IN  /\ PreconditionStatus(TRUE, r) = 204 /\ body # Refused /\ ~(Len(body.candidates) > MaxPerPatch)
      /\ ~(body.ufrag # None /\ (body.ufrag # s.offer.ufrag \/ body.pwd # s.offer.pwd))

LEMMA PatchIsApplied ==
  ASSUME NEW s, NEW r
  PROVE  /\ IsApplied(s, r) =>
              PatchSession(s, r) = FoldLeft(ApplyCandidate, [status |-> 204, session |-> s], Sent(r))
         /\ ~IsApplied(s, r) =>
              \E status : status # 204 /\ PatchSession(s, r) = [status |-> status, session |-> s]
<1> DEFINE body == ParsedFragment(r.body)
           fold == FoldLeft(ApplyCandidate, [status |-> 204, session |-> s], body.candidates)
           status == PreconditionStatus(TRUE, r)
<1>1. PatchSession(s, r) = IF status = 204 THEN ApplyFragment(s, body) ELSE [status |-> status, session |-> s]
  BY DEF PatchSession
<1>2. CASE status # 204
  BY <1>1, <1>2 DEF IsApplied
<1> DEFINE guard1 == body = Refused
           guard2 == Len(body.candidates) > MaxPerPatch
           guard3 == body.ufrag # None /\ (body.ufrag # s.offer.ufrag \/ body.pwd # s.offer.pwd)
           refused(code) == [status |-> code, session |-> s]
<1>3. ApplyFragment(s, body) = CASE guard1 -> refused(400) [] guard2 -> refused(413) [] guard3 -> refused(422)
                                 [] OTHER -> fold
  BY DEF ApplyFragment
<1>4. IsApplied(s, r) <=> status = 204 /\ ~guard1 /\ ~guard2 /\ ~guard3
  BY DEF IsApplied
<1>5. ~guard1 => Sent(r) = body.candidates
  BY DEF Sent
<1> HIDE DEF guard1, guard2, guard3, fold
<1>6. CASE status = 204 /\ ~guard1 /\ ~guard2 /\ ~guard3
  <2>1. PatchSession(s, r) = fold
    BY <1>1, <1>3, <1>6
  <2> QED
    BY <1>4, <1>5, <1>6, <2>1 DEF fold
<1>7. CASE status = 204 /\ (guard1 \/ guard2 \/ guard3)
  <2>1. PatchSession(s, r) \in {refused(400), refused(413), refused(422)}
    BY <1>1, <1>3, <1>7
  <2>2. 400 # 204 /\ 413 # 204 /\ 422 # 204
    OBVIOUS
  <2>3. \E code : code # 204 /\ PatchSession(s, r) = [status |-> code, session |-> s]
    BY <2>1, <2>2
  <2> QED
    BY <1>4, <1>7, <2>3
<1> QED
  BY <1>2, <1>6, <1>7

LEMMA PatchKeeps ==
  ASSUME NEW s, SessionOK(s), NEW r, IsSequence(r.body)
  PROVE  Patched(s, PatchSession(s, r), Sent(r)) /\ SessionOK(PatchSession(s, r).session)
<1> DEFINE q == PatchSession(s, r)
           cs == Sent(r)
<1>1. Patched(s, q, cs)
  <2>1. CASE ~IsApplied(s, r)
    <3>1. PICK status : status # 204 /\ q = [status |-> status, session |-> s]
      BY ZenonT(60), <2>1, PatchIsApplied
    <3> QED
      BY <3>1, NothingPatched
  <2>2. CASE IsApplied(s, r)
    <3>1. q = FoldLeft(ApplyCandidate, [status |-> 204, session |-> s], cs)
      BY <2>2, PatchIsApplied
    <3>2. Progress(q, s, cs, Len(cs))
      BY <3>1, CandidatesApplied, SentRead
    <3>3. DOMAIN cs = 1..Len(cs)
      BY SentRead, SequenceIsFunction
    <3> HIDE DEF q, cs
    <3> QED
      BY <3>2, <3>3 DEF Progress, Patched, Elements
  <2> QED
    BY <2>1, <2>2
<1> HIDE DEF q, cs
<1>2. SessionOK(q.session)
  BY <1>1, SessionStaysOK DEF Patched
<1> QED
  BY <1>1, <1>2 DEF q, cs

-----------------------------------------------------------------------------
(* What an offer becomes: its summary, an answer, a session.               *)

Offered(d) == Where(d.media, LAMBDA m : m.kind \in {"audio", "video"})

\* One section of a description and its summary.
SectionRead(d, o, m) ==
  /\ m.mid = o.mid /\ m.mid # None /\ m.kind = o.kind /\ m.direction = MediaDirection(o) /\ m.direction # Refused
  /\ m.formats = o.formats /\ m.codecs = Codecs(o) /\ m.codecs # Refused /\ m.extensions = o.extensions
  /\ m.rids = o.rids /\ RidsAreValid(o) /\ m.simulcast = Simulcast(o) /\ m.simulcast # Refused
  /\ m.mixed = (o.mixed \/ d.mixed) /\ IdentityIsValid(m)

LEMMA SectionIsRead ==
  ASSUME NEW d, NEW o, MediaSummary(d, o) # Refused
  PROVE  SectionRead(d, o, MediaSummary(d, o))
<1> DEFINE m == [kind |-> o.kind, mid |-> o.mid, direction |-> MediaDirection(o), mux |-> o.mux, rsize |-> o.rsize,
                 mixed |-> o.mixed \/ d.mixed, ptime |-> o.ptime, maxptime |-> o.maxptime,
                 formats |-> o.formats, codecs |-> Codecs(o), extensions |-> o.extensions,
                 rids |-> o.rids, simulcast |-> Simulcast(o), msids |-> o.msids]
<1>1. /\ o.mid # None /\ RidsAreValid(o) /\ MediaDirection(o) # Refused /\ Codecs(o) # Refused /\ Simulcast(o) # Refused
      /\ MediaSummary(d, o) = WithValidIdentity(m)
  BY Zenon DEF MediaSummary, AndThen
<1>2. m.mid = o.mid /\ m.kind = o.kind /\ m.direction = MediaDirection(o) /\ m.formats = o.formats /\ m.codecs = Codecs(o)
      /\ m.extensions = o.extensions /\ m.rids = o.rids /\ m.simulcast = Simulcast(o) /\ m.mixed = (o.mixed \/ d.mixed)
  OBVIOUS
<1> HIDE DEF m
<1>3. MediaSummary(d, o) = m /\ IdentityIsValid(m)
  BY <1>1 DEF WithValidIdentity
<1> QED
  BY <1>1, <1>2, <1>3 DEF SectionRead

SummaryOf(offer, d) ==
  /\ offer = [ufrag |-> offer.ufrag, pwd |-> offer.pwd, fingerprint |-> offer.fingerprint, setup |-> offer.setup,
              bundle |-> BundleMids(d), media |-> offer.media]
  /\ IsSequence(Offered(d)) /\ IsSequence(offer.media) /\ Len(offer.media) = Len(Offered(d))
  /\ \A i \in DOMAIN offer.media :
       SectionRead(d, Offered(d)[i], offer.media[i]) /\ offer.media[i].mid \in Elements(BundleMids(d))

LEMMA OfferIsRead ==
  ASSUME NEW d, IsSequence(d.media), OfferSummary(d) # Refused
  PROVE  SummaryOf(OfferSummary(d), d)
<1> DEFINE offered == Offered(d)
           media == MapAll(offered, LAMBDA m : MediaSummary(d, m))
           offer == OfferSummary(d)
<1>1. /\ media # Refused /\ BundleCoversMedia(BundleMids(d), media)
      /\ offer = [ufrag |-> FirstValue(d, "ufrag"), pwd |-> FirstValue(d, "pwd"),
                  fingerprint |-> FirstValue(d, "fingerprint"), setup |-> FirstValue(d, "setup"),
                  bundle |-> BundleMids(d), media |-> media]
  BY Zenon DEF OfferSummary, AndThen, Offered
<1>2. /\ media = [i \in DOMAIN offered |-> MediaSummary(d, offered[i])]
      /\ \A i \in DOMAIN offered : MediaSummary(d, offered[i]) # Refused
  BY <1>1 DEF MapAll
<1>3. IsSequence(offered)
  <2>1. offered = Picked(d.media, {i \in DOMAIN d.media : d.media[i].kind \in {"audio", "video"}})
    BY DEF Offered, Where
  <2> QED
    BY <2>1, PickedSifts, SiftedSequence
<1> HIDE DEF offered, media, offer
<1>4. Len(offered) \in Nat /\ DOMAIN offered = 1..Len(offered)
  BY <1>3, SequenceIsFunction
<1>5. IsSequence(media) /\ Len(media) = Len(offered) /\ DOMAIN media = DOMAIN offered
  <2>1. media = [i \in 1..Len(offered) |-> media[i]]
    BY <1>2, <1>4
  <2> QED
    BY <1>4, <2>1, FunctionIsSequence
<1>6. \A i \in DOMAIN media : SectionRead(d, offered[i], media[i])
  BY <1>2, <1>5, SectionIsRead
<1>7. \A i \in DOMAIN media : media[i].mid \in Elements(BundleMids(d))
  BY <1>1 DEF BundleCoversMedia
<1>8. offer = [ufrag |-> offer.ufrag, pwd |-> offer.pwd, fingerprint |-> offer.fingerprint, setup |-> offer.setup,
               bundle |-> BundleMids(d), media |-> offer.media] /\ offer.media = media
  BY <1>1
<1> QED
  BY <1>3, <1>5, <1>6, <1>7, <1>8 DEF SummaryOf, offered, offer

LEMMA RuntimeIsMade ==
  ASSUME NEW offer, NEW d, SummaryOf(offer, d), NEW accepted, RuntimeOffer(offer, accepted) # Refused
  PROVE  IsRuntime(RuntimeOffer(offer, accepted), offer, accepted)
<1> DEFINE media == [i \in DOMAIN accepted |-> offer.media[accepted[i] + 1]]
           mids == [i \in DOMAIN media |-> media[i].mid]
           bundle == Where(offer.bundle, LAMBDA mid : mid \in Elements(mids))
<1>1. bundle = mids /\ RuntimeOffer(offer, accepted) = [offer EXCEPT !.bundle = bundle, !.media = media]
  BY DEF RuntimeOffer
<1>2. mids = [i \in DOMAIN accepted |-> offer.media[accepted[i] + 1].mid]
  OBVIOUS
<1> HIDE DEF media, mids, bundle
<1>3. offer = [ufrag |-> offer.ufrag, pwd |-> offer.pwd, fingerprint |-> offer.fingerprint, setup |-> offer.setup,
               bundle |-> offer.bundle, media |-> offer.media]
  BY DEF SummaryOf
<1> DEFINE half == [offer EXCEPT !.bundle = bundle]
<1>4. [offer EXCEPT !.bundle = bundle, !.media = media] = [half EXCEPT !.media = media]
  OBVIOUS
<1>5. half = [ufrag |-> offer.ufrag, pwd |-> offer.pwd, fingerprint |-> offer.fingerprint,
              setup |-> offer.setup, bundle |-> bundle, media |-> offer.media]
  BY <1>3
<1> HIDE DEF half
<1>6. [half EXCEPT !.media = media] = [ufrag |-> offer.ufrag, pwd |-> offer.pwd, fingerprint |-> offer.fingerprint,
                                       setup |-> offer.setup, bundle |-> bundle, media |-> media]
  BY <1>5
<1> QED
  BY <1>1, <1>2, <1>4, <1>6 DEF IsRuntime, media

\* A section of an answer has the mid and the kind of the one it answers.
LEMMA AnswersKeepTheirSection ==
  ASSUME NEW m
  PROVE  /\ WhipAnswerMedia(m).mid = m.mid /\ WhipAnswerMedia(m).kind = m.kind
         /\ \A offer, from, sources :
              WhepAnswerMedia(m, offer, from, sources).mid = m.mid /\ WhepAnswerMedia(m, offer, from, sources).kind = m.kind
<1>1. ASSUME NEW forwarded, NEW sources, NEW codecs
      PROVE  AcceptedMedia(m, forwarded, sources, codecs).mid = m.mid /\ AcceptedMedia(m, forwarded, sources, codecs).kind = m.kind
  BY DEF AcceptedMedia
<1>2. RejectedMedia(m).mid = m.mid /\ RejectedMedia(m).kind = m.kind
  BY DEF RejectedMedia
<1>3. ASSUME NEW a, a = Refused \/ \E forwarded, sources, codecs : a = AcceptedMedia(m, forwarded, sources, codecs)
      PROVE  OrRejected(a, m).mid = m.mid /\ OrRejected(a, m).kind = m.kind
  BY <1>1, <1>2, <1>3 DEF OrRejected
<1> DEFINE whip == IF m.direction = "inactive" THEN Refused
                   ELSE AndThen(NegotiatedForOffer(m),
                          LAMBDA codecs : AcceptedMedia(m, None, <<>>, Where(codecs, LAMBDA c : c.name # "rtx")))
<1>4. whip = Refused \/ \E forwarded, sources, codecs : whip = AcceptedMedia(m, forwarded, sources, codecs)
  BY Zenon DEF AndThen
<1>5. WhipAnswerMedia(m) = OrRejected(whip, m)
  BY Zenon DEF WhipAnswerMedia
<1>6. ASSUME NEW offer, NEW from, NEW sources
      PROVE  WhepAnswerMedia(m, offer, from, sources).mid = m.mid /\ WhepAnswerMedia(m, offer, from, sources).kind = m.kind
  <2> DEFINE whep == IF m.direction = "inactive" THEN Refused
                     ELSE AndThen(Required(ForwardedMedia(m, offer, from)), LAMBDA forwarded :
                            AndThen(NegotiatedForRelay(m, forwarded), LAMBDA codecs : AcceptedMedia(m, forwarded, sources, codecs)))
  <2>1. whep = Refused \/ \E forwarded, codecs : whep = AcceptedMedia(m, forwarded, sources, codecs)
    BY Zenon DEF AndThen
  <2>2. WhepAnswerMedia(m, offer, from, sources) = OrRejected(whep, m)
    BY Zenon DEF WhepAnswerMedia
  <2> HIDE DEF whep
  <2> QED
    BY <1>3, <2>1, <2>2
<1> HIDE DEF whip
<1> QED
  BY <1>3, <1>4, <1>5, <1>6

\* The session s was made for the offer with this name; media are the sections
\* of its answer.
Created(s, name, offer, media) ==
  /\ name \in DOMAIN Offers /\ SummaryOf(offer, Offers[name]) /\ CommonOfferIsValid(offer)
  /\ HasFields(s) /\ s.name = name /\ s.accepted = s.answer.accepted /\ s.remote = <<>>
  /\ AnswersEach(media, offer) /\ IsAnswer(s.answer, media) /\ IsRuntime(s.offer, offer, s.accepted)

LEMMA CreatedIsOK ==
  ASSUME NEW s, NEW name, NEW offer, NEW media, Created(s, name, offer, media)
  PROVE  SessionOK(s)
<1>1. Parallel(s)
  BY SessionIsParallel DEF Created
<1>2. RemoteOK(s)
  <2>1. IsSequence(<<>>) /\ DOMAIN <<>> = {} /\ Len(<<>>) = 0
    BY DEF IsSequence
  <2> QED
    BY <2>1, MaxCandidatesAssumption DEF Created, RemoteOK, Distinct
<1> QED
  BY <1>1, <1>2 DEF SessionOK, Created

LEMMA SummaryIsRead ==
  ASSUME NEW name \in DOMAIN Offers, Summaries[name] # Refused
  PROVE  SummaryOf(Summaries[name], Offers[name])
BY OfferIsRead, OffersAssumption DEF Summaries

\* The answer to an offer, section by section.
LEMMA WhipAnswersEach ==
  ASSUME NEW offer, IsSequence(offer.media)
  PROVE  AnswersEach([i \in DOMAIN offer.media |-> WhipAnswerMedia(offer.media[i])], offer)
<1> DEFINE media == [i \in DOMAIN offer.media |-> WhipAnswerMedia(offer.media[i])]
<1>1. Len(offer.media) \in Nat /\ DOMAIN offer.media = 1..Len(offer.media)
  BY SequenceIsFunction
<1>2. \A i \in DOMAIN offer.media : media[i].mid = offer.media[i].mid /\ media[i].kind = offer.media[i].kind
  BY AnswersKeepTheirSection
<1>3. media = [i \in 1..Len(offer.media) |-> media[i]]
  BY <1>1
<1> HIDE DEF media
<1>4. IsSequence(media) /\ Len(media) = Len(offer.media) /\ DOMAIN media = DOMAIN offer.media
  BY <1>1, <1>3, FunctionIsSequence
<1> QED
  BY <1>2, <1>4 DEF AnswersEach, media

LEMMA WhepAnswersEach ==
  ASSUME NEW offer, IsSequence(offer.media), NEW from, NEW sources
  PROVE  AnswersEach([i \in DOMAIN offer.media |-> WhepAnswerMedia(offer.media[i], offer, from, sources)], offer)
<1> DEFINE media == [i \in DOMAIN offer.media |-> WhepAnswerMedia(offer.media[i], offer, from, sources)]
<1>1. Len(offer.media) \in Nat /\ DOMAIN offer.media = 1..Len(offer.media)
  BY SequenceIsFunction
<1>2. \A i \in DOMAIN offer.media : media[i].mid = offer.media[i].mid /\ media[i].kind = offer.media[i].kind
  <2> TAKE i \in DOMAIN offer.media
  <2>1. media[i] = WhepAnswerMedia(offer.media[i], offer, from, sources)
    OBVIOUS
  <2>2. \A m : WhepAnswerMedia(m, offer, from, sources).mid = m.mid /\ WhepAnswerMedia(m, offer, from, sources).kind = m.kind
    BY AnswersKeepTheirSection
  <2> HIDE DEF media
  <2> QED
    BY <2>1, <2>2
<1>3. media = [i \in 1..Len(offer.media) |-> media[i]]
  BY <1>1
<1> HIDE DEF media
<1>4. IsSequence(media) /\ Len(media) = Len(offer.media) /\ DOMAIN media = DOMAIN offer.media
  BY <1>1, <1>3, FunctionIsSequence
<1> QED
  BY <1>2, <1>4 DEF AnswersEach, media

LEMMA PublisherIsCreated ==
  ASSUME NEW name \in DOMAIN Offers, NEW local, PublisherSession(name, local) # Refused
  PROVE  \E offer : /\ WhipOfferIsValid(offer)
                    /\ Created(PublisherSession(name, local), name, offer,
                               [i \in DOMAIN offer.media |-> WhipAnswerMedia(offer.media[i])])
<1> DEFINE offer == Summaries[name]
           media == [i \in DOMAIN offer.media |-> WhipAnswerMedia(offer.media[i])]
           answer == WhipAnswer(offer)
           runtime == RuntimeOffer(offer, answer.accepted)
           s == PublisherSession(name, local)
<1>1. /\ offer # Refused /\ WhipOfferIsValid(offer) /\ answer # Refused /\ runtime # Refused
      /\ s = [name |-> name, offer |-> runtime, answer |-> answer, accepted |-> answer.accepted,
              local |-> local, remote |-> <<>>, selected |-> None]
  BY Zenon DEF PublisherSession, AndThen
<1>2. SummaryOf(offer, Offers[name])
  BY <1>1, SummaryIsRead
<1>3. AnswersEach(media, offer)
  <2> HIDE DEF offer
  <2> QED
    BY <1>2, WhipAnswersEach DEF SummaryOf
<1>4. answer = Answer(media)
  BY Zenon DEF WhipAnswer
<1> HIDE DEF offer, media, answer, runtime, s
<1>5. IsAnswer(answer, media)
  BY <1>1, <1>3, <1>4, AnswerAccepts DEF AnswersEach
<1>6. IsRuntime(runtime, offer, answer.accepted)
  BY <1>1, <1>2, RuntimeIsMade DEF runtime
<1>7. CommonOfferIsValid(offer)
  BY <1>1 DEF WhipOfferIsValid
<1>8. /\ HasFields(s) /\ s.name = name /\ s.accepted = s.answer.accepted /\ s.remote = <<>> /\ s.answer = answer
      /\ s.offer = runtime
  BY <1>1 DEF HasFields
<1>9. Created(s, name, offer, media)
  BY <1>2, <1>3, <1>5, <1>6, <1>7, <1>8 DEF Created
<1> QED
  BY <1>1, <1>9 DEF media, s

LEMMA SubscriberIsCreated ==
  ASSUME NEW name \in DOMAIN Offers, NEW local, NEW from, SubscriberSession(name, local, from) # Refused
  PROVE  \E offer : /\ WhepOfferIsValid(offer)
                    /\ Created(SubscriberSession(name, local, from), name, offer,
                               [i \in DOMAIN offer.media |-> WhepAnswerMedia(offer.media[i], offer, from, OutboundSources(offer))])
<1> DEFINE offer == Summaries[name]
           sources == OutboundSources(offer)
           media == [i \in DOMAIN offer.media |-> WhepAnswerMedia(offer.media[i], offer, from, sources)]
           answer == WhepAnswer(offer, from, sources)
           runtime == RuntimeOffer(offer, answer.accepted)
           config == RewriterConfig(offer, answer.accepted, sources, from)
           s == SubscriberSession(name, local, from)
<1>1. /\ offer # Refused /\ WhepOfferIsValid(offer) /\ answer # Refused /\ runtime # Refused
      /\ s = [name |-> name, offer |-> runtime, answer |-> answer, accepted |-> answer.accepted,
              local |-> local, remote |-> <<>>, selected |-> None,
              target |-> offer, sources |-> sources, config |-> config, original |-> TRUE]
  BY Zenon DEF SubscriberSession, AndThen
<1>2. SummaryOf(offer, Offers[name])
  BY <1>1, SummaryIsRead
<1>3. AnswersEach(media, offer)
  <2> HIDE DEF offer, sources
  <2> QED
    BY <1>2, WhepAnswersEach DEF SummaryOf
<1>4. answer = Answer(media)
  BY Zenon DEF WhepAnswer
<1> HIDE DEF offer, media, answer, runtime, s, config
<1>5. IsAnswer(answer, media)
  BY <1>1, <1>3, <1>4, AnswerAccepts DEF AnswersEach
<1>6. IsRuntime(runtime, offer, answer.accepted)
  BY <1>1, <1>2, RuntimeIsMade DEF runtime
<1>7. CommonOfferIsValid(offer)
  BY <1>1 DEF WhepOfferIsValid
<1> HIDE DEF sources
<1>8. /\ HasFields(s) /\ s.name = name /\ s.accepted = s.answer.accepted /\ s.remote = <<>> /\ s.answer = answer
      /\ s.offer = runtime
  BY <1>1 DEF HasFields
<1>9. Created(s, name, offer, media)
  BY <1>2, <1>3, <1>5, <1>6, <1>7, <1>8 DEF Created
<1> QED
  BY <1>1, <1>9 DEF media, s, sources

-----------------------------------------------------------------------------
(* What a step does to the sessions.                                       *)

LEMMA RemoteStaysOK ==
  ASSUME NEW s, SessionOK(s), NEW t, SameSession(s, t), t.remote = s.remote
  PROVE  RemoteOK(t)
BY SameSessionKeeps DEF SessionOK, RemoteOK, Completed

LEMMA CheckKeeps ==
  ASSUME NEW s, SessionOK(s), NEW p, NEW endpoint, NEW rebound
  PROVE  LET t == AfterCheck(s, p, endpoint, rebound) IN SameSession(s, t) /\ OthersKept(s, t) /\ RemoteOK(t)
<1> DEFINE t == AfterCheck(s, p, endpoint, rebound)
<1>1. t \in {s, [s EXCEPT !.selected = endpoint]}
  BY DEF AfterCheck
<1>2. HasFields(s)
  BY DEF SessionOK
<1>3. SameSession(s, t) /\ OthersKept(s, t) /\ t.remote = s.remote
  <2> HIDE DEF t
  <2> QED
    BY <1>1, <1>2 DEF HasFields, SameSession, OthersKept, IsData
<1> QED
  BY <1>3, RemoteStaysOK

LEMMA ConfigKeeps ==
  ASSUME NEW s, SessionOK(s), NEW config
  PROVE  /\ SameSession(s, [s EXCEPT !.config = config]) /\ RemoteOK([s EXCEPT !.config = config])
         /\ WithNewConfig(s, config) # None =>
              SameSession(s, WithNewConfig(s, config)) /\ RemoteOK(WithNewConfig(s, config))
<1> DEFINE t == [s EXCEPT !.config = config]
           u == [s EXCEPT !.config = config, !.original = FALSE]
<1>1. HasFields(s)
  BY DEF SessionOK
<1>2. SameSession(s, t) /\ t.remote = s.remote /\ SameSession(s, u) /\ u.remote = s.remote
  BY <1>1 DEF HasFields, SameSession
<1> HIDE DEF t, u
<1>3. RemoteOK(t) /\ RemoteOK(u)
  BY <1>2, RemoteStaysOK
<1>4. WithNewConfig(s, config) \in {None, u}
  BY DEF WithNewConfig, u
<1> QED
  BY <1>2, <1>3, <1>4 DEF t

\* Every session that lives is sound.
SessionsOK == (publisher # None => SessionOK(publisher)) /\ (subscriber # None => SessionOK(subscriber))

Continues(s, t) == s # None /\ SameSession(s, t) /\ RemoteOK(t)

PublisherMade == publisher = None /\ \E name \in DOMAIN Offers, local \in Credentials :
  Fresh(local, subscriber) /\ publisher' = PublisherSession(name, local) /\ publisher' # Refused

SubscriberMade == publisher # None /\ subscriber = None /\ \E name \in DOMAIN Offers, local \in Credentials :
  Fresh(local, publisher) /\ subscriber' = SubscriberSession(name, local, publisher.offer) /\ subscriber' # Refused

LEMMA SessionContinues ==
  ASSUME NEW s, s # None, SessionOK(s)
  PROVE  Continues(s, s) /\ \A t : Continues(s, t) => SessionOK(t)
<1>1. SameSession(s, s)
  BY DEF SessionOK, SameSession
<1> QED
  BY <1>1, SessionStaysOK DEF Continues, SessionOK

LEMMA NextMakes ==
  ASSUME SessionsOK, [Next]_vars
  PROVE  /\ publisher' = None \/ Continues(publisher, publisher') \/ PublisherMade
         /\ subscriber' = None \/ Continues(subscriber, subscriber') \/ SubscriberMade
<1> DEFINE publisherOK == publisher' = None \/ Continues(publisher, publisher') \/ PublisherMade
           subscriberOK == subscriber' = None \/ Continues(subscriber, subscriber') \/ SubscriberMade
<1>1. publisher' = publisher => publisherOK
  BY SessionContinues DEF SessionsOK
<1>2. subscriber' = subscriber => subscriberOK
  BY SessionContinues DEF SessionsOK
<1>3. ASSUME NEW name \in DOMAIN Offers, NEW local \in Credentials, CreatePublisher(name, local)
      PROVE  publisherOK /\ subscriberOK
  <2>1. PublisherMade
    BY <1>3 DEF CreatePublisher, PublisherMade
  <2>2. subscriber' = None \/
          (subscriber # None /\ subscriber' = WithNewConfig(subscriber,
              RewriterConfig(subscriber.target, subscriber.accepted, subscriber.sources, (publisher').offer)))
    BY <1>3 DEF CreatePublisher, RebuildRtpRewriter
  <2>3. subscriberOK
    <3> DEFINE config == RewriterConfig(subscriber.target, subscriber.accepted, subscriber.sources, (publisher').offer)
    <3>1. subscriber' = None \/ (subscriber # None /\ SessionOK(subscriber) /\ subscriber' = WithNewConfig(subscriber, config))
      BY <2>2 DEF SessionsOK
    <3> HIDE DEF config
    <3>2. SessionOK(subscriber) /\ WithNewConfig(subscriber, config) # None =>
            SameSession(subscriber, WithNewConfig(subscriber, config)) /\ RemoteOK(WithNewConfig(subscriber, config))
      BY ConfigKeeps
    <3> QED
      BY <3>1, <3>2 DEF Continues
  <2> QED
    BY <2>1, <2>3
<1>4. ASSUME NEW name \in DOMAIN Offers, NEW local \in Credentials, CreateSubscriber(name, local)
      PROVE  publisherOK /\ subscriberOK
  BY <1>1, <1>4 DEF CreateSubscriber, SubscriberMade
<1>5. ASSUME DeletePublisher PROVE publisherOK /\ subscriberOK
  BY <1>5, ConfigKeeps DEF DeletePublisher, SessionsOK, Continues
<1>6. ASSUME DeleteSubscriber PROVE publisherOK /\ subscriberOK
  BY <1>1, <1>6 DEF DeleteSubscriber
<1>7. ASSUME NEW s, s # None => SessionOK(s), NEW r \in Requests
      PROVE  PatchResult(s, r).session = None \/ Continues(s, PatchResult(s, r).session)
  <2>1. CASE s = None
    BY <2>1 DEF PatchResult
  <2>2. CASE s # None
    <3>1. PatchResult(s, r) = PatchSession(s, r)
      BY <2>2 DEF PatchResult
    <3>2. Patched(s, PatchSession(s, r), Sent(r))
      BY <1>7, <2>2, PatchKeeps, RequestsAssumption
    <3> QED
      BY <2>2, <3>1, <3>2 DEF Patched, Continues
  <2> QED
    BY <2>1, <2>2
<1>8. ASSUME NEW r \in Requests, PatchPublisher(r) PROVE publisherOK /\ subscriberOK
  BY <1>2, <1>7, <1>8 DEF PatchPublisher, SessionsOK
<1>9. ASSUME NEW r \in Requests, PatchSubscriber(r) PROVE publisherOK /\ subscriberOK
  BY <1>1, <1>7, <1>9 DEF PatchSubscriber, SessionsOK
<1>10. ASSUME NEW p \in Packets, NEW endpoint \in Endpoints, NEW rebound \in BOOLEAN,
              CheckPublisher(p, endpoint, rebound)
       PROVE  publisherOK /\ subscriberOK
  <2>1. publisher # None /\ publisher' = AfterCheck(publisher, p, endpoint, rebound) /\ subscriber' = subscriber
    BY <1>10 DEF CheckPublisher, MayCheck
  <2> QED
    BY <1>2, <2>1, CheckKeeps DEF SessionsOK, Continues
<1>11. ASSUME NEW p \in Packets, NEW endpoint \in Endpoints, NEW rebound \in BOOLEAN,
              CheckSubscriber(p, endpoint, rebound)
       PROVE  publisherOK /\ subscriberOK
  <2>1. subscriber # None /\ subscriber' = AfterCheck(subscriber, p, endpoint, rebound) /\ publisher' = publisher
    BY <1>11 DEF CheckSubscriber, MayCheck
  <2> QED
    BY <1>1, <2>1, CheckKeeps DEF SessionsOK, Continues
<1>12. ASSUME UNCHANGED vars PROVE publisherOK /\ subscriberOK
  BY <1>1, <1>2, <1>12 DEF vars
<1> HIDE DEF publisherOK, subscriberOK
<1>13. publisherOK /\ subscriberOK
  BY <1>3, <1>4, <1>5, <1>6, <1>8, <1>9, <1>10, <1>11, <1>12 DEF Next
<1> QED
  BY <1>13 DEF publisherOK, subscriberOK

LEMMA SessionsAreOK == Spec => []SessionsOK
<1>1. Init => SessionsOK
  BY DEF Init, SessionsOK
<1>2. SessionsOK /\ [Next]_vars => SessionsOK'
  <2> SUFFICES ASSUME SessionsOK, [Next]_vars PROVE SessionsOK'
    OBVIOUS
  <2>1. publisher' # None => SessionOK(publisher')
    BY NextMakes, SessionContinues, PublisherIsCreated, CreatedIsOK DEF SessionsOK, PublisherMade, Continues
  <2>2. subscriber' # None => SessionOK(subscriber')
    BY NextMakes, SessionContinues, SubscriberIsCreated, CreatedIsOK DEF SessionsOK, SubscriberMade, Continues
  <2> QED
    BY <2>1, <2>2 DEF SessionsOK
<1> QED
  BY <1>1, <1>2, PTL DEF Spec

\* Of the candidates that are not the end of the list there are at most as many
\* as the limit.
LEMMA CandidatesAreBounded ==
  ASSUME NEW s, SessionOK(s)
  PROVE  Cardinality({i \in DOMAIN s.remote : ~IsEnd(s.remote[i])}) <= MaxCandidates
<1> DEFINE n == Len(s.remote)
           open == {i \in DOMAIN s.remote : ~IsEnd(s.remote[i])}
<1>1. n \in Nat /\ DOMAIN s.remote = 1..n /\ MaxCandidates \in Nat
  BY SequenceIsFunction, MaxCandidatesAssumption DEF SessionOK, RemoteOK
<1>2. n <= MaxCandidates \/ (n = MaxCandidates + 1 /\ n \notin open)
  BY DEF SessionOK, RemoteOK, Completed
<1>3. open \in SUBSET (1..MaxCandidates)
  <2> SUFFICES ASSUME NEW i \in open PROVE i \in 1..MaxCandidates
    OBVIOUS
  <2>1. i \in 1..n
    BY <1>1
  <2> QED
    BY <1>1, <1>2, <2>1
<1>4. IsFiniteSet(1..MaxCandidates) /\ Cardinality(1..MaxCandidates) = MaxCandidates
  BY SMTT(40), <1>1, FS_Interval
<1> HIDE DEF open
<1>5. Cardinality(open) <= MaxCandidates
  BY <1>3, <1>4, FS_Subset
<1> QED
  BY <1>5 DEF open

\* The candidates of a session are distinct, for sections its answer accepts,
\* the end comes last and the limit holds, for any offers, any requests and any
\* limit (add_remote_ice_candidate, handle_trickle_ice_patch_request).
THEOREM CandidatesStaySound == Spec => []CandidatesAreSound
<1>1. SessionsOK => CandidatesAreSound
  <2> SUFFICES ASSUME SessionsOK, NEW s \in {publisher, subscriber} \ {None}
               PROVE  /\ Distinct(s.remote)
                      /\ \A i \in DOMAIN s.remote : NamesAccepted(s, s.remote[i]) /\ (IsEnd(s.remote[i]) => i = Len(s.remote))
                      /\ Cardinality({i \in DOMAIN s.remote : ~IsEnd(s.remote[i])}) <= MaxCandidates
    BY DEF CandidatesAreSound
  <2>1. SessionOK(s)
    BY DEF SessionsOK
  <2> QED
    BY <2>1, CandidatesAreBounded DEF SessionOK, RemoteOK
<1> QED
  BY <1>1, SessionsAreOK, PTL

-----------------------------------------------------------------------------
(* What a client may conclude from the reply to a PATCH.                   *)

LEMMA GrownIsPrefix ==
  ASSUME NEW a, IsSequence(a), NEW b, IsSequence(b), Grown(a, b)
  PROVE  IsPrefix(a, b)
<1> DEFINE n == Len(a)
<1>1. n \in Nat /\ Len(b) \in Nat /\ n <= Len(b) /\ \A i \in 1..n : b[i] = a[i]
  BY SequenceIsFunction DEF Grown
<1>2. SubSeq(a, 1, n) = [i \in 1..n |-> a[i]] /\ SubSeq(b, 1, n) = [i \in 1..n |-> b[i]]
  BY <1>1
<1>3. SubSeq(a, 1, n) = SubSeq(b, 1, n)
  BY <1>1, <1>2
<1> QED
  BY <1>1, <1>3 DEF IsPrefix

\* Candidates that are known, or for other sections, change nothing.
LEMMA NothingIsRepeated ==
  ASSUME NEW t, NEW cs, IsSequence(cs), \A i \in DOMAIN cs : MediaIsAccepted(t, cs[i]) => AlreadyKnown(t, cs[i])
  PROVE  FoldLeft(ApplyCandidate, [status |-> 204, session |-> t], cs) = [status |-> 204, session |-> t]
<1> DEFINE start == [status |-> 204, session |-> t]
<1>1. PICK h : FoldSteps(h, "candidate", 0, 0, start, cs) /\ FoldLeft(ApplyCandidate, start, cs) = h[Len(cs)]
  BY CandidateSteps
<1>2. h[0] = start /\ \A k \in 1..Len(cs) : h[k] = ApplyCandidate(h[k - 1], cs[k])
  BY <1>1 DEF FoldSteps, Step
<1>3. Len(cs) \in Nat /\ DOMAIN cs = 1..Len(cs)
  BY SequenceIsFunction
<1>4. ASSUME NEW c, MediaIsAccepted(t, c) => AlreadyKnown(t, c) PROVE ApplyCandidate(start, c) = start
  BY <1>4 DEF ApplyCandidate
<1> DEFINE bad == {k \in 0..Len(cs) : h[k] # start}
<1> HIDE DEF start
<1>5. bad = {}
  <2> SUFFICES ASSUME bad # {} PROVE FALSE
    OBVIOUS
  <2>1. bad \in SUBSET Nat
    BY <1>3
  <2>2. PICK k \in bad : \A l \in bad : k <= l
    <3> HIDE DEF bad
    <3> QED
      BY <2>1, LeastNumber
  <2>3. k # 0
    BY <1>2, <2>2
  <2>4. k \in 1..Len(cs) /\ k - 1 \in 0..Len(cs) /\ k - 1 \notin bad
    BY <1>3, <2>2, <2>3
  <2>5. h[k] = ApplyCandidate(start, cs[k])
    BY <1>2, <2>4
  <2>6. h[k] = start
    BY <1>3, <1>4, <2>4, <2>5
  <2> QED
    BY <2>2, <2>6
<1>6. h[Len(cs)] = start
  BY <1>3, <1>5
<1> QED
  BY <1>1, <1>6 DEF start

LEMMA PatchIsRefused ==
  ASSUME NEW s, NEW r, ~IsApplied(s, r)
  PROVE  PatchSession(s, r).status # 204
<1>1. PICK status : status # 204 /\ PatchSession(s, r) = [status |-> status, session |-> s]
  BY PatchIsApplied
<1> QED
  BY <1>1

\* A request that was taken can be sent again.
LEMMA PatchIsRepeatable ==
  ASSUME NEW s, SessionOK(s), NEW r, IsSequence(r.body), PatchSession(s, r).status = 204
  PROVE  PatchSession(PatchSession(s, r).session, r) = PatchSession(s, r)
<1> DEFINE q == PatchSession(s, r)
           t == q.session
           cs == Sent(r)
<1>1. Patched(s, q, cs) /\ SessionOK(t)
  BY PatchKeeps
<1>2. IsApplied(s, r)
  BY PatchIsRefused
<1>3. q = [status |-> 204, session |-> t] /\ t.offer = s.offer
  BY <1>1 DEF Patched, SameSession
<1>4. IsApplied(t, r)
  BY <1>2, <1>3 DEF IsApplied
<1>5. PatchSession(t, r) = FoldLeft(ApplyCandidate, [status |-> 204, session |-> t], cs)
  BY <1>4, PatchIsApplied
<1> HIDE DEF q, t, cs
<1>6. IsSequence(cs) /\ \A i \in DOMAIN cs : NamesSection(cs[i])
  BY SentRead DEF cs
<1>7. \A i \in DOMAIN cs : MediaIsAccepted(t, cs[i]) => AlreadyKnown(t, cs[i])
  <2> SUFFICES ASSUME NEW i \in DOMAIN cs, MediaIsAccepted(t, cs[i]) PROVE AlreadyKnown(t, cs[i])
    OBVIOUS
  <2>1. NamesAccepted(t, cs[i])
    BY <1>1, <1>6, AcceptedByName DEF SessionOK
  <2>2. NamesAccepted(s, cs[i])
    BY <1>1, <2>1, SameSessionKeeps DEF Patched, t
  <2> QED
    BY <1>1, <1>3, <2>2 DEF Patched, t
<1> QED
  BY <1>3, <1>5, <1>6, <1>7, NothingIsRepeated DEF q, t

\* A 204 tells the client that its candidates for accepted sections are kept,
\* and that it may repeat the request; no reply means a candidate that neither
\* was there nor was sent, for any session and any request
\* (handle_trickle_ice_patch_request).
THEOREM PatchesStayKept == Spec => []PatchesAreKept
<1>1. SessionsOK => PatchesAreKept
  <2> SUFFICES ASSUME SessionsOK, NEW s \in {publisher, subscriber} \ {None}, NEW r \in Requests,
                      NEW result \in {PatchSession(s, r)}
               PROVE  LET sent == UNION {Elements(body.candidates) : body \in {ParsedFragment(r.body)} \ {Refused}}
                          kept == Elements(result.session.remote)
                      IN  /\ IsPrefix(s.remote, result.session.remote) /\ kept \subseteq Elements(s.remote) \cup sent
                          /\ result.status = 204 =>
                               /\ \A c \in sent : NamesAccepted(s, c) => c \in kept \/ (IsEnd(c) /\ Completed(result.session))
                               /\ PatchSession(result.session, r) = result
    BY Zenon DEF PatchesAreKept
  <2> DEFINE sent == UNION {Elements(body.candidates) : body \in {ParsedFragment(r.body)} \ {Refused}}
             kept == Elements(result.session.remote)
  <2>1. SessionOK(s) /\ IsSequence(r.body) /\ result = PatchSession(s, r)
    BY RequestsAssumption DEF SessionsOK
  <2>2. Patched(s, result, Sent(r))
    BY <2>1, PatchKeeps
  <2>3. sent = Elements(Sent(r))
    <3>1. CASE ParsedFragment(r.body) = Refused
      BY <3>1 DEF Sent, Elements
    <3>2. CASE ParsedFragment(r.body) # Refused
      BY <3>2 DEF Sent
    <3> QED
      BY <3>1, <3>2
  <2>4. IsPrefix(s.remote, result.session.remote)
    BY <2>1, <2>2, GrownIsPrefix DEF Patched, SessionOK, RemoteOK
  <2>5. kept \subseteq Elements(s.remote) \cup sent
    BY <2>2, <2>3 DEF Patched
  <2> HIDE DEF sent
  <2>6. ASSUME result.status = 204, NEW c \in sent, NamesAccepted(s, c)
        PROVE  c \in kept \/ (IsEnd(c) /\ Completed(result.session))
    <3>1. PICK i \in DOMAIN Sent(r) : c = Sent(r)[i]
      <4>1. c \in Elements(Sent(r))
        BY <2>3, <2>6
      <4> QED
        BY <4>1 DEF Elements
    <3>2. AlreadyKnown(result.session, c)
      BY <2>2, <2>6, <3>1 DEF Patched
    <3> QED
      BY <3>2 DEF AlreadyKnown, Elements
  <2>7. result.status = 204 => PatchSession(result.session, r) = result
    BY <2>1, PatchIsRepeatable
  <2> QED
    BY <2>4, <2>5, <2>6, <2>7 DEF sent
<1> QED
  BY <1>1, SessionsAreOK, PTL

-----------------------------------------------------------------------------
(* Joining sequences.                                                      *)

LEMMA JoinedSequence ==
  ASSUME NEW s, IsSequence(s), NEW t, IsSequence(t)
  PROVE  /\ IsSequence(s \o t) /\ Len(s \o t) = Len(s) + Len(t)
         /\ \A i \in 1..Len(s) : (s \o t)[i] = s[i]
         /\ \A i \in 1..Len(t) : (s \o t)[Len(s) + i] = t[i]
         /\ Elements(s \o t) = Elements(s) \cup Elements(t)
<1> DEFINE E == Elements(s) \cup Elements(t)
           u == s \o t
           m == Len(s)
           n == Len(t)
<1>1. m \in Nat /\ n \in Nat /\ DOMAIN s = 1..m /\ DOMAIN t = 1..n
  BY SequenceIsFunction
<1>2. s \in Seq(E) /\ t \in Seq(E)
  BY SeqMonotonic DEF IsSequence
<1>3. u \in Seq(E) /\ Len(u) = m + n /\ \A i \in 1..(m + n) : u[i] = IF i <= m THEN s[i] ELSE t[i - m]
  <2> HIDE DEF E
  <2> QED
    BY <1>2, ConcatProperties
<1> HIDE DEF E, u, m, n
<1>4. IsSequence(u) /\ DOMAIN u = 1..(m + n)
  BY <1>3, MemberIsSequence, SequenceIsFunction
<1>5. \A i \in 1..m : i \in DOMAIN u /\ u[i] = s[i]
  BY <1>1, <1>3, <1>4
<1>6. \A i \in 1..n : m + i \in DOMAIN u /\ u[m + i] = t[i]
  <2> TAKE i \in 1..n
  <2>1. m + i \in 1..(m + n) /\ ~(m + i <= m) /\ (m + i) - m = i
    BY <1>1
  <2> QED
    BY <1>3, <1>4, <2>1
<1>7. \A i \in DOMAIN u : (i \in 1..m /\ u[i] = s[i]) \/ (i - m \in 1..n /\ u[i] = t[i - m])
  BY <1>1, <1>3, <1>4
<1>8. Elements(u) \subseteq Elements(s) \cup Elements(t)
  BY <1>1, <1>7 DEF Elements
<1>9. Elements(s) \cup Elements(t) \subseteq Elements(u)
  BY <1>1, <1>5, <1>6 DEF Elements
<1> QED
  BY <1>3, <1>4, <1>5, <1>6, <1>8, <1>9 DEF u, m, n

FlatTable(f, seqs, n) == f = [i \in 1..n |-> IF i = 1 THEN seqs[i] ELSE f[i - 1] \o seqs[i]]

LEMMA FlatTableExists ==
  ASSUME NEW seqs, NEW n \in Nat
  PROVE  \E f : FlatTable(f, seqs, n)
<1> DEFINE bad == {d \in Nat : ~\E f : FlatTable(f, seqs, d)}
<1>1. ASSUME bad # {} PROVE FALSE
  <2>1. PICK d \in bad : \A e \in bad : d <= e
    BY <1>1, LeastNumber
  <2>2. CASE d = 0
    <3> DEFINE f == [i \in 1..0 |-> 0]
    <3>1. FlatTable(f, seqs, 0)
      BY DEF FlatTable
    <3> QED
      BY <2>1, <2>2, <3>1
  <2>3. CASE d # 0
    <3>1. d - 1 \in Nat /\ d - 1 \notin bad
      BY <2>1, <2>3
    <3>2. PICK f : FlatTable(f, seqs, d - 1)
      BY <3>1
    <3> DEFINE last == IF d = 1 THEN seqs[d] ELSE f[d - 1] \o seqs[d]
               g == [i \in 1..d |-> IF i = d THEN last ELSE f[i]]
    <3>3. \A i \in 1..(d - 1) : f[i] = IF i = 1 THEN seqs[i] ELSE f[i - 1] \o seqs[i]
      BY <3>2, Zenon DEF FlatTable
    <3>4. \A i \in 1..d : g[i] = IF i = 1 THEN seqs[i] ELSE g[i - 1] \o seqs[i]
      <4> TAKE i \in 1..d
      <4>1. CASE i = d
        <5>1. d # 1 => d - 1 \in 1..d /\ d - 1 # d
          BY <2>1, <2>3
        <5>2. g[d] = last /\ (d # 1 => g[d - 1] = f[d - 1])
          BY <2>1, <4>1, <5>1
        <5> HIDE DEF g
        <5> QED
          BY <4>1, <5>2
      <4>2. CASE i # d
        <5>1. i \in 1..(d - 1) /\ (i # 1 => i - 1 \in 1..d /\ i - 1 # d)
          BY <2>1, <4>2
        <5>2. g[i] = f[i] /\ (i # 1 => g[i - 1] = f[i - 1])
          BY <4>2, <5>1
        <5> HIDE DEF g
        <5> QED
          BY <3>3, <5>1, <5>2
      <4> QED
        BY <4>1, <4>2
    <3>5. g = [i \in 1..d |-> g[i]]
      OBVIOUS
    <3> HIDE DEF g
    <3>6. g = [i \in 1..d |-> IF i = 1 THEN seqs[i] ELSE g[i - 1] \o seqs[i]]
      BY <3>4, <3>5
    <3>7. FlatTable(g, seqs, d)
      BY <3>6, Zenon DEF FlatTable
    <3> QED
      BY <2>1, <3>7
  <2> QED
    BY <2>2, <2>3
<1> QED
  BY <1>1

\* A flattened sequence of sequences has their elements.
LEMMA FlattenedSequence ==
  ASSUME NEW seqs, IsSequence(seqs), \A i \in DOMAIN seqs : IsSequence(seqs[i])
  PROVE  /\ IsSequence(FlattenSeq(seqs))
         /\ \A x \in Elements(FlattenSeq(seqs)) : \E i \in DOMAIN seqs : x \in Elements(seqs[i])
         /\ \A i \in DOMAIN seqs : Elements(seqs[i]) \subseteq Elements(FlattenSeq(seqs))
<1> DEFINE n == Len(seqs)
           f == CHOOSE f : f = [i \in 1..n |-> IF i = 1 THEN seqs[i] ELSE f[i - 1] \o seqs[i]]
<1>1. n \in Nat /\ DOMAIN seqs = 1..n
  BY SequenceIsFunction
<1>2. FlattenSeq(seqs) = IF n = 0 THEN seqs ELSE f[n]
  BY DEF FlattenSeq
<1>3. \A g : g = [i \in 1..n |-> IF i = 1 THEN seqs[i] ELSE g[i - 1] \o seqs[i]] <=> FlatTable(g, seqs, n)
  BY Zenon DEF FlatTable
<1>4. \E g : FlatTable(g, seqs, n)
  BY <1>1, FlatTableExists
<1>5. FlatTable(f, seqs, n)
  BY <1>3, <1>4
<1> HIDE DEF f, n
<1>6. \A i \in 1..n : f[i] = IF i = 1 THEN seqs[i] ELSE f[i - 1] \o seqs[i]
  BY <1>5, Zenon DEF FlatTable
<1> DEFINE Joins(s, k) == /\ IsSequence(s) /\ \A x \in Elements(s) : \E i \in DOMAIN seqs : x \in Elements(seqs[i])
                          /\ \A i \in 1..k : Elements(seqs[i]) \subseteq Elements(s)
           bad == {i \in 1..n : ~Joins(f[i], i)}
<1>7. bad = {}
  <2> SUFFICES ASSUME bad # {} PROVE FALSE
    OBVIOUS
  <2>1. bad \in SUBSET Nat
    BY <1>1
  <2>2. PICK k \in bad : \A l \in bad : k <= l
    <3> HIDE DEF bad
    <3> QED
      BY <2>1, LeastNumber
  <2>3. k \in 1..n /\ ~Joins(f[k], k)
    BY <2>2
  <2>4. IsSequence(seqs[k]) /\ \A x \in Elements(seqs[k]) : \E i \in DOMAIN seqs : x \in Elements(seqs[i])
    BY <1>1, <2>3
  <2>5. CASE k = 1
    <3>1. f[k] = seqs[k] /\ \A i \in 1..k : i = k
      BY <1>6, <2>3, <2>5
    <3> QED
      BY <2>3, <2>4, <3>1
  <2>6. CASE k # 1
    <3>1. k - 1 \in 1..n /\ k - 1 \notin bad /\ f[k] = f[k - 1] \o seqs[k]
      <4>1. k \in 1..n
        BY <2>3
      <4>2. k - 1 \in 1..n /\ ~(k <= k - 1)
        BY <1>1, <2>6, <4>1
      <4> HIDE DEF bad
      <4> QED
        BY <1>6, <2>2, <2>6, <4>1, <4>2
    <3>2. Joins(f[k - 1], k - 1)
      BY <3>1
    <3>3. IsSequence(f[k]) /\ Elements(f[k]) = Elements(f[k - 1]) \cup Elements(seqs[k])
      BY <2>4, <3>1, <3>2, JoinedSequence
    <3>4. \A i \in 1..k : i \in 1..(k - 1) \/ i = k
      BY <1>1, <2>3
    <3>5. Joins(f[k], k)
      BY <2>4, <3>2, <3>3, <3>4
    <3> QED
      BY <2>3, <3>5
  <2> QED
    BY <2>5, <2>6
<1>8. CASE n = 0
  <2>1. FlattenSeq(seqs) = seqs /\ DOMAIN seqs = {}
    BY <1>1, <1>2, <1>8
  <2> QED
    BY <2>1 DEF Elements
<1>9. CASE n # 0
  <2>1. FlattenSeq(seqs) = f[n] /\ n \in 1..n
    BY <1>1, <1>2, <1>9
  <2>2. Joins(f[n], n)
    BY <1>7, <2>1
  <2> QED
    BY <1>1, <2>1, <2>2
<1> QED
  BY <1>8, <1>9

-----------------------------------------------------------------------------
(* The codecs of a section, as they are read and as they are answered.     *)

\* The lists of a section are sequences (OffersAssumption).
SectionLists(o) ==
  /\ IsSequence(o.formats) /\ IsSequence(o.rtpmaps) /\ IsSequence(o.fmtps) /\ IsSequence(o.feedbacks)
  /\ IsSequence(o.extensions) /\ None \notin Elements(o.extensions) /\ IsSequence(o.rids) /\ IsSequence(o.simulcast)
  /\ \A k \in DOMAIN o.fmtps : IsSequence(o.fmtps[k].fmtp)
  /\ \A k \in DOMAIN o.simulcast : IsSequence(o.simulcast[k]) /\
       \A l \in DOMAIN o.simulcast[k] : IsSequence(o.simulcast[k][l].rids)

PtsDistinct(codecs) == \A i, j \in DOMAIN codecs : codecs[i].pt = codecs[j].pt => i = j

\* Format parameters and feedback that the section o gives a payload type.
OwnFmtp(fmtp, pt, o) ==
  IsSequence(fmtp) /\ \A k \in DOMAIN fmtp :
    \E i \in DOMAIN o.fmtps : o.fmtps[i].pt = pt /\ fmtp[k] \in Elements(o.fmtps[i].fmtp)

OwnFeedback(values, pt, o) ==
  IsSequence(values) /\ \A f \in Elements(values) :
    \E i \in DOMAIN o.feedbacks : o.feedbacks[i].value = f /\ (o.feedbacks[i].all \/ o.feedbacks[i].pt = pt)

\* The codec c is described by the section o.
CodecRead(c, o) ==
  /\ c = [pt |-> c.pt, name |-> c.name, clock |-> c.clock, params |-> c.params, fmtp |-> c.fmtp, feedback |-> c.feedback]
  /\ c.name \in NamesOf(o, c.pt) /\ c.pt \in Elements(o.formats)
  /\ OwnFmtp(c.fmtp, c.pt, o) /\ OwnFeedback(c.feedback, c.pt, o)

\* An rtpmap that was read.
IsRtpMap(c, a) ==
  c = [pt |-> a.pt, name |-> a.name, clock |-> a.clock, params |-> a.params, fmtp |-> <<>>, feedback |-> <<>>]

LEMMA FmtpIsRead ==
  ASSUME NEW o, SectionLists(o), NEW pt, NEW first
  PROVE  LET own == Picked(o.fmtps, {i \in DOMAIN o.fmtps : o.fmtps[i].pt = pt})
         IN  OwnFmtp(IF first /\ own # <<>> THEN own[Len(own)].fmtp ELSE <<>>, pt, o)
<1> DEFINE P == {i \in DOMAIN o.fmtps : o.fmtps[i].pt = pt}
           own == Picked(o.fmtps, P)
<1>1. P \subseteq DOMAIN o.fmtps /\ \A i \in P : o.fmtps[i].pt = pt
  OBVIOUS
<1> HIDE DEF P
<1>2. Sifted(own, o.fmtps, P)
  BY <1>1, PickedSifts DEF SectionLists
<1> HIDE DEF own
<1>3. CASE first /\ own # <<>>
  <2>1. Len(own) \in DOMAIN own
    BY <1>2, <1>3, SequenceIsFunction DEF Sifted, IsSequence
  <2>2. PICK i \in P : own[Len(own)] = o.fmtps[i]
    BY <1>2, <2>1 DEF Sifted
  <2>3. OwnFmtp(o.fmtps[i].fmtp, pt, o)
    BY <1>1, <2>2 DEF SectionLists, OwnFmtp, Elements
  <2> QED
    BY <1>3, <2>2, <2>3 DEF own, P
<1>4. CASE ~(first /\ own # <<>>)
  <2>1. IsSequence(<<>>) /\ DOMAIN <<>> = {}
    BY DEF IsSequence
  <2>2. OwnFmtp(<<>>, pt, o)
    BY <2>1 DEF OwnFmtp
  <2> QED
    BY <1>4, <2>2 DEF own, P
<1> QED
  BY <1>3, <1>4

LEMMA FeedbackIsRead ==
  ASSUME NEW o, SectionLists(o), NEW pt, NEW first
  PROVE  LET own == Picked(o.feedbacks, {i \in DOMAIN o.feedbacks :
                                           o.feedbacks[i].all \/ (o.feedbacks[i].pt = pt /\ first)})
         IN  OwnFeedback([k \in DOMAIN own |-> own[k].value], pt, o)
<1> DEFINE P == {i \in DOMAIN o.feedbacks : o.feedbacks[i].all \/ (o.feedbacks[i].pt = pt /\ first)}
           own == Picked(o.feedbacks, P)
           values == [k \in DOMAIN own |-> own[k].value]
<1>1. P \subseteq DOMAIN o.feedbacks /\ \A i \in P : o.feedbacks[i].all \/ o.feedbacks[i].pt = pt
  OBVIOUS
<1> HIDE DEF P
<1>2. Sifted(own, o.feedbacks, P)
  BY <1>1, PickedSifts DEF SectionLists
<1> HIDE DEF own
<1>3. Len(own) \in Nat /\ DOMAIN own = 1..Len(own)
  BY <1>2, SequenceIsFunction DEF Sifted
<1>4. values = [k \in 1..Len(own) |-> values[k]] /\ \A k \in DOMAIN own : values[k] = own[k].value
  BY <1>3
<1> HIDE DEF values
<1>5. IsSequence(values) /\ DOMAIN values = DOMAIN own
  BY <1>3, <1>4, FunctionIsSequence
<1>6. ASSUME NEW f \in Elements(values)
      PROVE  \E i \in DOMAIN o.feedbacks : o.feedbacks[i].value = f /\ (o.feedbacks[i].all \/ o.feedbacks[i].pt = pt)
  <2>1. PICK k \in DOMAIN own : f = own[k].value
    BY <1>4, <1>5, <1>6 DEF Elements
  <2>2. PICK i \in P : own[k] = o.feedbacks[i]
    BY <1>2, <2>1 DEF Sifted
  <2> QED
    BY <1>1, <2>1, <2>2
<1>7. OwnFeedback(values, pt, o)
  BY <1>5, <1>6 DEF OwnFeedback
<1> QED
  BY <1>7 DEF values, own, P

LEMMA CodecIsRead ==
  ASSUME NEW o, NEW c, NEW a \in Elements(o.rtpmaps), IsRtpMap(c, a), c.pt \in Elements(o.formats),
         NEW fmtp, OwnFmtp(fmtp, c.pt, o), NEW values, OwnFeedback(values, c.pt, o)
  PROVE  CodecRead([c EXCEPT !.fmtp = fmtp, !.feedback = values], o)
<1> DEFINE half == [c EXCEPT !.fmtp = fmtp]
           q == [c EXCEPT !.fmtp = fmtp, !.feedback = values]
<1>1. q = [half EXCEPT !.feedback = values]
  OBVIOUS
<1>2. half = [pt |-> c.pt, name |-> c.name, clock |-> c.clock, params |-> c.params, fmtp |-> fmtp, feedback |-> c.feedback]
  BY DEF IsRtpMap
<1> HIDE DEF half, q
<1>3. q = [pt |-> c.pt, name |-> c.name, clock |-> c.clock, params |-> c.params, fmtp |-> fmtp, feedback |-> values]
  BY <1>1, <1>2
<1>4. c.pt = a.pt /\ c.name = a.name
  BY DEF IsRtpMap
<1>5. c.name \in NamesOf(o, c.pt)
  BY <1>4 DEF NamesOf, Elements
<1>6. q.pt = c.pt /\ q.name = c.name /\ q.clock = c.clock /\ q.params = c.params /\ q.fmtp = fmtp /\ q.feedback = values
  BY <1>3
<1>7. CodecRead(q, o)
  BY <1>3, <1>5, <1>6 DEF CodecRead
<1> QED
  BY <1>7 DEF q

LEMMA CodecsAreRead ==
  ASSUME NEW o, SectionLists(o), Codecs(o) # Refused
  PROVE  /\ IsSequence(Codecs(o)) /\ \A i \in DOMAIN Codecs(o) : CodecRead(Codecs(o)[i], o)
         /\ DescribedOnce(o) => PtsDistinct(Codecs(o))
<1> DEFINE maps == MapAll(o.rtpmaps, RtpMap)
           P == {i \in DOMAIN maps : maps[i].pt \in Elements(o.formats)}
           listed == Where(maps, LAMBDA c : c.pt \in Elements(o.formats))
           codecs == WithAttributes(listed, o)
<1>1. maps # Refused /\ Codecs(o) = codecs /\ codecs # Refused
  BY Zenon DEF Codecs, AndThen
<1>2. /\ maps = [i \in DOMAIN o.rtpmaps |-> RtpMap(o.rtpmaps[i])]
      /\ \A i \in DOMAIN o.rtpmaps : RtpMap(o.rtpmaps[i]) # Refused
  BY <1>1 DEF MapAll
<1>3. listed = Picked(maps, P)
  BY DEF Where
<1> DEFINE isFirst(i) == \A j \in 1..(i - 1) : listed[j].pt # listed[i].pt
           own(i) == Picked(o.fmtps, {k \in DOMAIN o.fmtps : o.fmtps[k].pt = listed[i].pt})
           fmtp(i) == IF isFirst(i) /\ own(i) # <<>> THEN own(i)[Len(own(i))].fmtp ELSE <<>>
           feedback(i) == Picked(o.feedbacks, {k \in DOMAIN o.feedbacks :
                                                 o.feedbacks[k].all \/ (o.feedbacks[k].pt = listed[i].pt /\ isFirst(i))})
           codec(i) == [listed[i] EXCEPT !.fmtp = fmtp(i), !.feedback = [k \in DOMAIN feedback(i) |-> feedback(i)[k].value]]
<1>4. codecs = [i \in DOMAIN listed |-> codec(i)]
  <2>1. codecs = IF listed = <<>> THEN Refused ELSE [i \in DOMAIN listed |-> codec(i)]
    BY Zenon DEF WithAttributes, Where
  <2> HIDE DEF listed, codecs, codec
  <2> QED
    BY <1>1, <2>1
<1> HIDE DEF maps, listed, codecs
<1>5. \A i \in DOMAIN o.rtpmaps : IsRtpMap(maps[i], o.rtpmaps[i])
  BY <1>2 DEF RtpMap, IsRtpMap
<1>6. Len(o.rtpmaps) \in Nat /\ DOMAIN o.rtpmaps = 1..Len(o.rtpmaps)
  BY SequenceIsFunction DEF SectionLists
<1>7. IsSequence(maps) /\ DOMAIN maps = DOMAIN o.rtpmaps
  <2>1. maps = [i \in 1..Len(o.rtpmaps) |-> maps[i]]
    BY <1>2, <1>6
  <2> QED
    BY <1>6, <2>1, FunctionIsSequence
<1>8. Sifted(listed, maps, P)
  BY <1>3, <1>7, PickedSifts
<1>9. IsSequence(listed) /\ Len(listed) \in Nat /\ DOMAIN listed = 1..Len(listed)
  BY <1>8, SequenceIsFunction DEF Sifted
<1>10. \A i \in DOMAIN listed : \E a \in Elements(o.rtpmaps) : IsRtpMap(listed[i], a) /\ listed[i].pt \in Elements(o.formats)
  BY <1>5, <1>7, <1>8 DEF Sifted, Elements
<1>11. \A i \in DOMAIN listed : CodecRead(codec(i), o)
  <2> TAKE i \in DOMAIN listed
  <2>1. PICK a \in Elements(o.rtpmaps) : IsRtpMap(listed[i], a) /\ listed[i].pt \in Elements(o.formats)
    BY <1>10
  <2> DEFINE values == [k \in DOMAIN feedback(i) |-> feedback(i)[k].value]
  <2> HIDE DEF isFirst
  <2>2. OwnFmtp(fmtp(i), listed[i].pt, o)
    BY FmtpIsRead
  <2>3. OwnFeedback(values, listed[i].pt, o)
    BY FeedbackIsRead
  <2> HIDE DEF values, fmtp
  <2>4. CodecRead([listed[i] EXCEPT !.fmtp = fmtp(i), !.feedback = values], o)
    BY <2>1, <2>2, <2>3, CodecIsRead
  <2> QED
    BY SMTT(40), <2>4 DEF values
<1> HIDE DEF codec
<1>12. IsSequence(codecs) /\ DOMAIN codecs = DOMAIN listed
  <2>1. codecs = [i \in 1..Len(listed) |-> codecs[i]]
    BY <1>4, <1>9
  <2> QED
    BY <1>9, <2>1, FunctionIsSequence
<1>13. \A i \in DOMAIN codecs : CodecRead(codecs[i], o)
  BY <1>4, <1>11
<1>14. ASSUME DescribedOnce(o) PROVE PtsDistinct(codecs)
  <2> SUFFICES ASSUME NEW i \in DOMAIN listed, NEW j \in DOMAIN listed, codecs[i].pt = codecs[j].pt, i # j PROVE FALSE
    BY SMTT(40), <1>12 DEF PtsDistinct
  <2>1. \A k \in DOMAIN listed : codecs[k].pt = listed[k].pt
    <3> TAKE k \in DOMAIN listed
    <3>1. PICK a \in Elements(o.rtpmaps) : IsRtpMap(listed[k], a)
      BY <1>10
    <3>2. codecs[k] = codec(k)
      BY <1>4
    <3> QED
      BY <3>1, <3>2 DEF IsRtpMap, codec
  <2>2. PICK u \in P, v \in P : u # v /\ listed[i] = maps[u] /\ listed[j] = maps[v]
    BY <1>8 DEF Sifted
  <2>3. maps[u].pt = o.rtpmaps[u].pt /\ maps[v].pt = o.rtpmaps[v].pt /\ u \in DOMAIN o.rtpmaps /\ v \in DOMAIN o.rtpmaps
    <3>1. \A k \in DOMAIN o.rtpmaps : maps[k].pt = o.rtpmaps[k].pt
      <4> TAKE k \in DOMAIN o.rtpmaps
      <4>1. IsRtpMap(maps[k], o.rtpmaps[k])
        BY <1>5
      <4> QED
        BY <4>1 DEF IsRtpMap
    <3>2. u \in DOMAIN maps /\ v \in DOMAIN maps
      BY <2>2
    <3> QED
      BY <1>7, <3>1, <3>2
  <2>4. \A k, l \in DOMAIN o.rtpmaps : o.rtpmaps[k].pt = o.rtpmaps[l].pt => k = l
    BY <1>14 DEF DescribedOnce, Distinct
  <2> QED
    BY <2>1, <2>2, <2>3, <2>4
<1> QED
  BY <1>1, <1>12, <1>13, <1>14

\* A codec of the answer that stands for a primary codec of the section.
PrimaryOf(q, m) ==
  /\ q.name \in {"opus", "vp8", "h264"} /\ q.pt \in Elements(m.formats)
  /\ \E i \in DOMAIN m.codecs : /\ q.pt = m.codecs[i].pt /\ q.name = m.codecs[i].name /\ m.codecs[i].clock # 0
                               /\ q.feedback = m.codecs[i].feedback

\* One of the first n codecs of the section that repairs a codec of the answer.
RepairOf(q, m, codecs, n) ==
  /\ m.kind = "video" /\ IsRtx(q) /\ q.pt \in Elements(m.formats) /\ Apt(q) # None
  /\ \E j \in DOMAIN codecs : codecs[j].pt = Apt(q)
  /\ \E i \in DOMAIN m.codecs : i <= n /\ q = m.codecs[i]

Primaries(codecs, m) ==
  /\ IsSequence(codecs) /\ \A k \in DOMAIN codecs : PrimaryOf(codecs[k], m)
  /\ PtsDistinct(m.codecs) => PtsDistinct(codecs)

LEMMA NormalizedIsPrimary ==
  ASSUME NEW c, NEW o, CodecRead(c, o), NEW kind, NormalizedCodec(kind, c) # Refused
  PROVE  LET q == NormalizedCodec(kind, c)
         IN  /\ q.name = c.name /\ q.pt = c.pt /\ q.feedback = c.feedback
             /\ q.name \in {"opus", "vp8", "h264"} /\ c.clock # 0
<1> DEFINE fmtp == NormalizedFmtp(kind, c)
           q == [c EXCEPT !.fmtp = fmtp]
<1>1. IsSupported(kind, c) /\ NormalizedCodec(kind, c) = q
  <2>1. NormalizedCodec(kind, c) = IF IsSupported(kind, c) THEN IF fmtp = Refused THEN Refused ELSE q ELSE Refused
    BY DEF NormalizedCodec, AndThen
  <2> HIDE DEF fmtp, q
  <2> QED
    BY <2>1
<1>2. c.name \in {"opus", "vp8", "h264"} /\ c.clock # 0
  <2>1. IsOpus(c) \/ IsVp8(c) \/ IsH264(c)
    BY <1>1, Zenon DEF IsSupported
  <2> QED
    BY <2>1, SMT DEF IsOpus, IsVp8, IsH264
<1> HIDE DEF fmtp
<1>3. q.name = c.name /\ q.pt = c.pt /\ q.feedback = c.feedback
  BY DEF CodecRead
<1> QED
  BY <1>1, <1>2, <1>3

LEMMA AnswerableIsPrimary ==
  ASSUME NEW m, IsSequence(m.codecs), NEW o, \A i \in DOMAIN m.codecs : CodecRead(m.codecs[i], o)
  PROVE  Primaries(Answerable(m), m)
<1> DEFINE all == [i \in DOMAIN m.codecs |-> NormalizedCodec(m.kind, m.codecs[i])]
           P == {i \in DOMAIN all : all[i] # Refused /\ all[i].pt \in Elements(m.formats)}
           t == Answerable(m)
<1>1. t = Picked(all, P)
  BY DEF Answerable, Where
<1>2. IsSequence(all) /\ DOMAIN all = DOMAIN m.codecs
  <2>1. Len(m.codecs) \in Nat /\ DOMAIN m.codecs = 1..Len(m.codecs)
    BY SequenceIsFunction
  <2>2. all = [i \in 1..Len(m.codecs) |-> all[i]]
    BY <2>1
  <2> HIDE DEF all
  <2> QED
    BY <2>1, <2>2, FunctionIsSequence
<1>3. \A i \in DOMAIN m.codecs : all[i] = NormalizedCodec(m.kind, m.codecs[i])
  OBVIOUS
<1>4. P \subseteq DOMAIN all /\ \A i \in P : all[i] # Refused /\ all[i].pt \in Elements(m.formats)
  OBVIOUS
<1> HIDE DEF all, P, t
<1>5. Sifted(t, all, P)
  BY <1>1, <1>2, <1>4, PickedSifts
<1>6. ASSUME NEW i \in P
      PROVE  PrimaryOf(all[i], m) /\ all[i].pt = m.codecs[i].pt /\ i \in DOMAIN m.codecs
  <2>1. i \in DOMAIN m.codecs /\ CodecRead(m.codecs[i], o) /\ all[i] = NormalizedCodec(m.kind, m.codecs[i]) /\ all[i] # Refused
    BY <1>2, <1>3, <1>4, <1>6
  <2>2. /\ all[i].name = m.codecs[i].name /\ all[i].pt = m.codecs[i].pt /\ all[i].feedback = m.codecs[i].feedback
        /\ all[i].name \in {"opus", "vp8", "h264"} /\ m.codecs[i].clock # 0
    BY <2>1, NormalizedIsPrimary
  <2> QED
    BY <1>4, <1>6, <2>1, <2>2 DEF PrimaryOf
<1>7. IsSequence(t) /\ \A k \in DOMAIN t : PrimaryOf(t[k], m)
  BY <1>5, <1>6 DEF Sifted
<1>8. ASSUME PtsDistinct(m.codecs) PROVE PtsDistinct(t)
  <2> SUFFICES ASSUME NEW k \in DOMAIN t, NEW l \in DOMAIN t, t[k].pt = t[l].pt, k # l PROVE FALSE
    BY DEF PtsDistinct
  <2>1. PICK i \in P, j \in P : i # j /\ t[k] = all[i] /\ t[l] = all[j]
    BY <1>5 DEF Sifted
  <2> QED
    BY <1>6, <1>8, <2>1 DEF PtsDistinct
<1> QED
  BY <1>7, <1>8 DEF Primaries, t

LEMMA PrimariesStay ==
  ASSUME NEW m, NEW s, Primaries(s, m), NEW P, P \subseteq DOMAIN s, NEW t, Sifted(t, s, P)
  PROVE  Primaries(t, m)
<1>1. IsSequence(t) /\ \A k \in DOMAIN t : PrimaryOf(t[k], m)
  BY DEF Sifted, Primaries
<1>2. ASSUME PtsDistinct(m.codecs) PROVE PtsDistinct(t)
  <2> SUFFICES ASSUME NEW k \in DOMAIN t, NEW l \in DOMAIN t, t[k].pt = t[l].pt, k # l PROVE FALSE
    BY DEF PtsDistinct
  <2>1. PICK i \in P, j \in P : i # j /\ t[k] = s[i] /\ t[l] = s[j]
    BY DEF Sifted
  <2> QED
    BY <1>2, <2>1 DEF PtsDistinct, Primaries
<1> QED
  BY <1>1, <1>2 DEF Primaries

LEMMA SortedPrimaries ==
  ASSUME NEW m, NEW s, Primaries(s, m)
  PROVE  Primaries(SortedByPreference(s), m)
<1> DEFINE P == {i \in DOMAIN s : PreferenceRank(s[i]) = 0}
           Q == {i \in DOMAIN s : PreferenceRank(s[i]) = 10}
           a == Picked(s, P)
           b == Picked(s, Q)
           t == a \o b
<1>1. SortedByPreference(s) = t
  BY DEF SortedByPreference, Where
<1>2. P \subseteq DOMAIN s /\ Q \subseteq DOMAIN s /\ \A i \in P, j \in Q : i # j
  OBVIOUS
<1> HIDE DEF P, Q
<1>3. Sifted(a, s, P) /\ Sifted(b, s, Q)
  BY <1>2, PickedSifts DEF Primaries
<1> HIDE DEF a, b, t
<1>4. Primaries(a, m) /\ Primaries(b, m)
  BY <1>2, <1>3, PrimariesStay
<1>5. IsSequence(a) /\ IsSequence(b)
  BY <1>4 DEF Primaries
<1>6. /\ Len(a) \in Nat /\ Len(b) \in Nat /\ DOMAIN a = 1..Len(a) /\ DOMAIN b = 1..Len(b)
      /\ IsSequence(t) /\ DOMAIN t = 1..Len(a) + Len(b)
      /\ \A i \in 1..Len(a) : t[i] = a[i]
      /\ \A i \in 1..Len(b) : t[Len(a) + i] = b[i]
  <2>1. Len(a) \in Nat /\ Len(b) \in Nat /\ DOMAIN a = 1..Len(a) /\ DOMAIN b = 1..Len(b)
    BY <1>5, SequenceIsFunction
  <2>2. /\ IsSequence(t) /\ Len(t) = Len(a) + Len(b)
        /\ \A i \in 1..Len(a) : t[i] = a[i]
        /\ \A i \in 1..Len(b) : t[Len(a) + i] = b[i]
    BY <1>5, JoinedSequence DEF t
  <2> QED
    BY <2>1, <2>2, SequenceIsFunction
<1>7. \A k \in DOMAIN t : (k \in DOMAIN a /\ t[k] = a[k]) \/ (k - Len(a) \in DOMAIN b /\ t[k] = b[k - Len(a)])
  <2> TAKE k \in DOMAIN t
  <2>1. k \in 1..Len(a) \/ (k - Len(a) \in 1..Len(b) /\ Len(a) + (k - Len(a)) = k)
    BY <1>6
  <2> QED
    BY <1>6, <2>1
<1>8. IsSequence(t) /\ \A k \in DOMAIN t : PrimaryOf(t[k], m)
  BY <1>4, <1>6, <1>7 DEF Primaries
<1>9. ASSUME PtsDistinct(m.codecs) PROVE PtsDistinct(t)
  <2>1. PtsDistinct(s) /\ PtsDistinct(a) /\ PtsDistinct(b)
    BY <1>4, <1>9 DEF Primaries
  <2>2. \A i \in DOMAIN a, j \in DOMAIN b : a[i].pt # b[j].pt
    <3> SUFFICES ASSUME NEW i \in DOMAIN a, NEW j \in DOMAIN b, a[i].pt = b[j].pt PROVE FALSE
      OBVIOUS
    <3>1. PICK u \in P : a[i] = s[u]
      BY <1>3 DEF Sifted
    <3>2. PICK v \in Q : b[j] = s[v]
      BY <1>3 DEF Sifted
    <3> QED
      BY <1>2, <2>1, <3>1, <3>2 DEF PtsDistinct
  <2> SUFFICES ASSUME NEW k \in DOMAIN t, NEW l \in DOMAIN t, t[k].pt = t[l].pt PROVE k = l
    BY DEF PtsDistinct
  <2>3. k \in Int /\ l \in Int /\ Len(a) \in Int
    BY <1>6
  <2>4. CASE k \in DOMAIN a /\ t[k] = a[k] /\ l \in DOMAIN a /\ t[l] = a[l]
    BY <2>1, <2>4 DEF PtsDistinct
  <2>5. CASE k - Len(a) \in DOMAIN b /\ t[k] = b[k - Len(a)] /\ l - Len(a) \in DOMAIN b /\ t[l] = b[l - Len(a)]
    <3>1. k - Len(a) = l - Len(a)
      BY <2>1, <2>5 DEF PtsDistinct
    <3> QED
      BY <2>3, <3>1
  <2> QED
    BY <1>7, <2>2, <2>4, <2>5
<1> QED
  BY <1>1, <1>8, <1>9 DEF Primaries

\* The codecs of an answer while the first n codecs of the section have been
\* looked at for repairs.
Chosen(codecs, m, n) ==
  /\ IsSequence(codecs) /\ \E k \in DOMAIN codecs : PrimaryOf(codecs[k], m)
  /\ \A k \in DOMAIN codecs : PrimaryOf(codecs[k], m) \/ RepairOf(codecs[k], m, codecs, n)
  /\ PtsDistinct(m.codecs) => PtsDistinct(codecs)

LEMMA RepairFits ==
  ASSUME NEW m, NEW p, NEW c, NEW codecs, RtxFits(m, p, c, codecs)
  PROVE  /\ m.kind = "video" /\ IsRtx(c) /\ c.name = "rtx" /\ c.pt \in Elements(m.formats) /\ Apt(c) # None
         /\ \E j \in DOMAIN codecs : codecs[j].pt = Apt(c)
<1>1. ASSUME ByPayloadType(codecs, Apt(c)) # None PROVE \E j \in DOMAIN codecs : codecs[j].pt = Apt(c)
  BY <1>1, Zenon DEF ByPayloadType, First
<1>2. m.kind = "video" /\ IsRtx(c) /\ c.pt \in Elements(m.formats) /\ Apt(c) # None /\ ByPayloadType(codecs, Apt(c)) # None
  <2>1. CASE p = None
    BY <2>1, SMT DEF RtxFits, RtxIsAnswerableForOffer
  <2>2. CASE p # None
    BY <2>2, SMT DEF RtxFits, RtxIsAnswerable
  <2> QED
    BY <2>1, <2>2
<1>3. c.name = "rtx"
  BY <1>2, SMT DEF IsRtx
<1> QED
  BY <1>1, <1>2, <1>3

LEMMA RepairChosen ==
  ASSUME NEW m, IsSequence(m.codecs), NEW n \in Nat, n + 1 \in DOMAIN m.codecs, NEW codecs, Chosen(codecs, m, n), NEW p
  PROVE  Chosen(WithCodec(m, p, codecs, m.codecs[n + 1]), m, n + 1)
<1> DEFINE c == m.codecs[n + 1]
           next == WithCodec(m, p, codecs, c)
<1>1. /\ IsSequence(codecs) /\ \E k \in DOMAIN codecs : PrimaryOf(codecs[k], m)
      /\ \A k \in DOMAIN codecs : PrimaryOf(codecs[k], m) \/ RepairOf(codecs[k], m, codecs, n)
      /\ PtsDistinct(m.codecs) => PtsDistinct(codecs)
  BY DEF Chosen
<1>2. \A i \in DOMAIN m.codecs : i \in Int /\ (i <= n => i <= n + 1) /\ (i <= n => i # n + 1)
  BY SequenceIsFunction
<1>3. CASE ~RtxFits(m, p, c, codecs)
  <2>1. next = codecs
    BY <1>3 DEF WithCodec
  <2>2. ASSUME NEW q, RepairOf(q, m, codecs, n) PROVE RepairOf(q, m, codecs, n + 1)
    BY <1>2, <2>2 DEF RepairOf
  <2>3. Chosen(codecs, m, n + 1)
    BY <1>1, <2>2 DEF Chosen
  <2> QED
    BY <2>1, <2>3
<1>4. CASE RtxFits(m, p, c, codecs)
  <2>1. next = Append(codecs, c)
    BY <1>4 DEF WithCodec
  <2>2. /\ m.kind = "video" /\ IsRtx(c) /\ c.name = "rtx" /\ c.pt \in Elements(m.formats) /\ Apt(c) # None
        /\ \E j \in DOMAIN codecs : codecs[j].pt = Apt(c)
    BY <1>4, RepairFits
  <2> HIDE DEF next, c
  <2>3. /\ Len(codecs) \in Nat /\ DOMAIN codecs = 1..Len(codecs)
        /\ IsSequence(next) /\ DOMAIN next = 1..(Len(codecs) + 1) /\ next[Len(codecs) + 1] = c
        /\ \A k \in 1..Len(codecs) : next[k] = codecs[k]
    BY <1>1, <2>1, AppendSequence, SequenceIsFunction
  <2>4. /\ DOMAIN codecs \subseteq DOMAIN next /\ \A k \in DOMAIN codecs : next[k] = codecs[k]
        /\ \A k \in DOMAIN next : k \in DOMAIN codecs \/ next[k] = c
    BY <2>3
  <2>5. ASSUME NEW q, RepairOf(q, m, codecs, n) PROVE RepairOf(q, m, next, n + 1)
    BY <1>2, <2>4, <2>5 DEF RepairOf
  <2>6. RepairOf(c, m, next, n + 1)
    BY <1>2, <2>2, <2>4 DEF RepairOf, c
  <2>7. \E k \in DOMAIN next : PrimaryOf(next[k], m)
    BY <1>1, <2>4
  <2>8. \A k \in DOMAIN next : PrimaryOf(next[k], m) \/ RepairOf(next[k], m, next, n + 1)
    BY <1>1, <2>4, <2>5, <2>6
  <2>9. ASSUME PtsDistinct(m.codecs) PROVE PtsDistinct(next)
    <3>1. ASSUME NEW k \in DOMAIN codecs, codecs[k].pt = c.pt PROVE FALSE
      <4>1. CASE PrimaryOf(codecs[k], m)
        <5>1. PICK i \in DOMAIN m.codecs : codecs[k].pt = m.codecs[i].pt /\ codecs[k].name = m.codecs[i].name
          BY <4>1 DEF PrimaryOf
        <5>2. i = n + 1
          BY <2>9, <3>1, <5>1 DEF PtsDistinct, c
        <5>3. codecs[k].name = "rtx"
          BY <2>2, <5>1, <5>2 DEF c
        <5> QED
          BY <4>1, <5>3 DEF PrimaryOf
      <4>2. CASE RepairOf(codecs[k], m, codecs, n)
        <5>1. PICK i \in DOMAIN m.codecs : i <= n /\ codecs[k] = m.codecs[i]
          BY <4>2 DEF RepairOf
        <5>2. i = n + 1
          BY <2>9, <3>1, <5>1 DEF PtsDistinct, c
        <5> QED
          BY <1>2, <5>1, <5>2
      <4> QED
        BY <1>1, <3>1, <4>1, <4>2
    <3> SUFFICES ASSUME NEW k \in DOMAIN next, NEW l \in DOMAIN next, next[k].pt = next[l].pt PROVE k = l
      BY DEF PtsDistinct
    <3>2. (k \in DOMAIN codecs \/ k = Len(codecs) + 1) /\ (l \in DOMAIN codecs \/ l = Len(codecs) + 1)
      BY <2>3
    <3>3. CASE k \in DOMAIN codecs /\ l \in DOMAIN codecs
      BY <1>1, <2>4, <2>9, <3>3 DEF PtsDistinct
    <3>4. CASE k \in DOMAIN codecs /\ l = Len(codecs) + 1
      BY <2>3, <2>4, <3>1, <3>4
    <3>5. CASE l \in DOMAIN codecs /\ k = Len(codecs) + 1
      BY <2>3, <2>4, <3>1, <3>5
    <3> QED
      BY <3>2, <3>3, <3>4, <3>5
  <2>10. Chosen(next, m, n + 1)
    BY <2>3, <2>7, <2>8, <2>9 DEF Chosen
  <2> QED
    BY <2>10 DEF next, c
<1> QED
  BY <1>3, <1>4

\* The codecs of an answer: primary codecs of the section and repairs of them.
LEMMA CodecsAreChosen ==
  ASSUME NEW m, IsSequence(m.codecs), NEW p, NEW primaries, Primaries(primaries, m),
         WithRtx(m, p, primaries) # Refused
  PROVE  Chosen(WithRtx(m, p, primaries), m, Len(m.codecs))
<1> DEFINE n == Len(m.codecs)
<1>1. primaries # <<>> /\ WithRtx(m, p, primaries) = CodecFold(m, p, primaries, m.codecs)
  BY Zenon DEF WithRtx, CodecFold
<1>2. PICK h : FoldSteps(h, "codec", m, p, primaries, m.codecs) /\ CodecFold(m, p, primaries, m.codecs) = h[n]
  BY CodecSteps
<1>3. n \in Nat /\ DOMAIN m.codecs = 1..n
  BY SequenceIsFunction
<1>4. h[0] = primaries /\ \A k \in 1..n : h[k] = WithCodec(m, p, h[k - 1], m.codecs[k])
  BY <1>2 DEF FoldSteps, Step
<1>5. Chosen(primaries, m, 0)
  <2>1. Len(primaries) \in Nat /\ DOMAIN primaries = 1..Len(primaries) /\ primaries = [i \in 1..Len(primaries) |-> primaries[i]]
    BY SequenceIsFunction DEF Primaries
  <2>2. Len(primaries) # 0
    BY <1>1, <2>1
  <2>3. 1 \in DOMAIN primaries
    BY <2>1, <2>2
  <2> QED
    BY <2>3 DEF Primaries, Chosen
<1> DEFINE bad == {k \in 0..n : ~Chosen(h[k], m, k)}
<1>6. bad = {}
  <2> SUFFICES ASSUME bad # {} PROVE FALSE
    OBVIOUS
  <2>1. bad \in SUBSET Nat
    BY <1>3
  <2>2. PICK k \in bad : \A l \in bad : k <= l
    <3> HIDE DEF bad
    <3> QED
      BY <2>1, LeastNumber
  <2>3. k # 0
    BY <1>4, <1>5, <2>2
  <2>4. k \in 1..n /\ k - 1 \in 0..n /\ k - 1 \in Nat /\ k - 1 \notin bad /\ (k - 1) + 1 = k
    BY <1>3, <2>2, <2>3
  <2>5. Chosen(h[k - 1], m, k - 1)
    BY <2>4
  <2>6. Chosen(WithCodec(m, p, h[k - 1], m.codecs[(k - 1) + 1]), m, (k - 1) + 1)
    BY <1>3, <2>4, <2>5, RepairChosen
  <2>7. Chosen(h[k], m, k)
    BY <1>4, <2>4, <2>6
  <2> QED
    BY <2>2, <2>7
<1>7. Chosen(h[n], m, n)
  BY <1>3, <1>6
<1> QED
  BY <1>1, <1>2, <1>7

LEMMA OfferedLists ==
  ASSUME NEW name \in DOMAIN Offers
  PROVE  LET offered == Offered(Offers[name])
         IN  IsSequence(offered) /\ \A i \in DOMAIN offered : SectionLists(offered[i])
<1> DEFINE d == Offers[name]
           P == {i \in DOMAIN d.media : d.media[i].kind \in {"audio", "video"}}
<1>1. IsSequence(d.media) /\ \A i \in DOMAIN d.media : SectionLists(d.media[i])
  BY OffersAssumption DEF SectionLists
<1>2. Offered(d) = Picked(d.media, P) /\ P \subseteq DOMAIN d.media
  BY DEF Offered, Where
<1> HIDE DEF d, P
<1>3. Sifted(Offered(d), d.media, P)
  BY <1>1, <1>2, PickedSifts
<1>4. IsSequence(Offered(d)) /\ \A i \in DOMAIN Offered(d) : SectionLists(Offered(d)[i])
  BY <1>1, <1>2, <1>3 DEF Sifted
<1> QED
  BY <1>4 DEF d

\* m is the summary of the section o of a description d.
Summarized(d, o, m) ==
  /\ SectionLists(o) /\ SectionRead(d, o, m)
  /\ IsSequence(m.codecs) /\ \A i \in DOMAIN m.codecs : CodecRead(m.codecs[i], o)
  /\ DescribedOnce(o) => PtsDistinct(m.codecs)

LEMMA SectionIsSummarized ==
  ASSUME NEW name \in DOMAIN Offers, NEW offer, SummaryOf(offer, Offers[name]), NEW i \in DOMAIN offer.media
  PROVE  /\ i \in DOMAIN Offered(Offers[name])
         /\ Summarized(Offers[name], Offered(Offers[name])[i], offer.media[i])
<1> DEFINE d == Offers[name]
           o == Offered(d)[i]
           m == offer.media[i]
<1>1. i \in DOMAIN Offered(d)
  BY SequenceIsFunction DEF SummaryOf
<1>2. SectionLists(o) /\ SectionRead(d, o, m)
  BY <1>1, OfferedLists DEF SummaryOf
<1>3. m.codecs = Codecs(o) /\ Codecs(o) # Refused
  BY <1>2 DEF SectionRead
<1> HIDE DEF d, o, m
<1>4. IsSequence(m.codecs) /\ (\A k \in DOMAIN m.codecs : CodecRead(m.codecs[k], o)) /\ (DescribedOnce(o) => PtsDistinct(m.codecs))
  BY <1>2, <1>3, CodecsAreRead
<1>5. i \in DOMAIN Offered(d) /\ Summarized(d, o, m)
  BY <1>1, <1>2, <1>4 DEF Summarized
<1> QED
  BY <1>5 DEF d, o, m

\* What WHIP and WHEP negotiate for a section.
LEMMA OfferIsNegotiated ==
  ASSUME NEW m, IsSequence(m.codecs), NEW o, \A i \in DOMAIN m.codecs : CodecRead(m.codecs[i], o),
         NegotiatedForOffer(m) # Refused
  PROVE  Chosen(NegotiatedForOffer(m), m, Len(m.codecs))
<1>1. Primaries(SortedByPreference(Answerable(m)), m)
  BY AnswerableIsPrimary, SortedPrimaries
<1> QED
  BY <1>1, CodecsAreChosen DEF NegotiatedForOffer

LEMMA RelayIsNegotiated ==
  ASSUME NEW m, IsSequence(m.codecs), NEW o, \A i \in DOMAIN m.codecs : CodecRead(m.codecs[i], o),
         NEW p, NegotiatedForRelay(m, p) # Refused
  PROVE  Chosen(NegotiatedForRelay(m, p), m, Len(m.codecs))
<1> DEFINE s == Answerable(m)
           P == {i \in DOMAIN s : CompatiblePublisherCodec(p, s[i]) # None}
           t == Picked(s, P)
<1>1. NegotiatedForRelay(m, p) = WithRtx(m, p, SortedByPreference(t))
  <2>1. NegotiatedForRelay(m, p) = IF m.kind # p.kind \/ ~CanSend(p) THEN Refused ELSE WithRtx(m, p, SortedByPreference(t))
    BY DEF NegotiatedForRelay, Where
  <2> HIDE DEF t
  <2> QED
    BY <2>1
<1>2. Primaries(s, m) /\ P \subseteq DOMAIN s
  BY AnswerableIsPrimary
<1> HIDE DEF s, P
<1>3. Sifted(t, s, P)
  BY <1>2, PickedSifts DEF Primaries
<1> HIDE DEF t
<1>4. Primaries(SortedByPreference(t), m)
  BY <1>2, <1>3, PrimariesStay, SortedPrimaries
<1> QED
  BY <1>1, <1>4, CodecsAreChosen

\* Without its RTX codecs an answer has the primary ones.
LEMMA PrimariesRemain ==
  ASSUME NEW m, NEW codecs, NEW n, Chosen(codecs, m, n)
  PROVE  Chosen(Where(codecs, LAMBDA c : c.name # "rtx"), m, n)
<1> DEFINE P == {k \in DOMAIN codecs : codecs[k].name # "rtx"}
           t == Where(codecs, LAMBDA c : c.name # "rtx")
<1>1. t = Picked(codecs, P) /\ P \subseteq DOMAIN codecs
  BY DEF Where
<1>2. \A k \in P : PrimaryOf(codecs[k], m)
  BY DEF Chosen, RepairOf, IsRtx
<1>3. \A k \in DOMAIN codecs : PrimaryOf(codecs[k], m) => k \in P
  BY DEF PrimaryOf
<1> HIDE DEF P, t
<1>4. Sifted(t, codecs, P)
  BY <1>1, PickedSifts DEF Chosen
<1>5. IsSequence(t) /\ \A k \in DOMAIN t : PrimaryOf(t[k], m)
  BY <1>2, <1>4 DEF Sifted
<1>6. \E k \in DOMAIN t : PrimaryOf(t[k], m)
  <2>1. PICK k \in DOMAIN codecs : PrimaryOf(codecs[k], m)
    BY DEF Chosen
  <2> QED
    BY <1>3, <1>4, <1>5, <2>1 DEF Sifted
<1>7. ASSUME PtsDistinct(m.codecs) PROVE PtsDistinct(t)
  <2> SUFFICES ASSUME NEW k \in DOMAIN t, NEW l \in DOMAIN t, t[k].pt = t[l].pt, k # l PROVE FALSE
    BY DEF PtsDistinct
  <2>1. PICK i \in P, j \in P : i # j /\ t[k] = codecs[i] /\ t[l] = codecs[j]
    BY <1>4 DEF Sifted
  <2> QED
    BY <1>1, <1>7, <2>1 DEF PtsDistinct, Chosen
<1>8. Chosen(t, m, n)
  BY <1>5, <1>6, <1>7 DEF Chosen
<1> QED
  BY <1>8 DEF t

-----------------------------------------------------------------------------
(* The accepted sections of an answer.                                     *)

LEMMA FirstIsElement ==
  ASSUME NEW s, IsSequence(s), NEW P, P \subseteq DOMAIN s, NEW x,
         x = IF P = {} THEN None ELSE s[Min(P)], x # None
  PROVE  \E i \in P : x = s[i]
  BY FirstPosition

LEMMA AptIsGiven ==
  ASSUME NEW c, IsSequence(c.fmtp), Apt(c) # None
  PROVE  \E k \in DOMAIN c.fmtp : c.fmtp[k].key = "apt" /\ c.fmtp[k].value = Apt(c)
<1> DEFINE P == {k \in DOMAIN c.fmtp : c.fmtp[k].key = "apt"}
           x == IF P = {} THEN None ELSE c.fmtp[Min(P)]
<1>1. Apt(c) = IF x = None THEN None ELSE IF PayloadTypeIsValid(x.value) THEN x.value ELSE None
  BY DEF Apt, First
<1>2. P \subseteq DOMAIN c.fmtp /\ \A k \in P : c.fmtp[k].key = "apt"
  OBVIOUS
<1> HIDE DEF P
<1>3. x # None => \E k \in P : x = c.fmtp[k]
  BY <1>2, FirstIsElement
<1> HIDE DEF x
<1>4. x # None /\ Apt(c) = x.value
  BY <1>1
<1> QED
  BY <1>2, <1>3, <1>4

FormatsOf(codecs) == [i \in DOMAIN codecs |-> codecs[i].pt]

\* The codecs of an answer against the section o of the description.
CodecsFit(codecs, o) ==
  LET formats == FormatsOf(codecs)
  IN  /\ IsSequence(codecs) /\ Elements(formats) \subseteq Elements(o.formats)
      /\ DescribedOnce(o) => Distinct(formats)
      /\ \A pt \in Elements(formats) : IsPrimary(o, pt) \/ IsRepair(o, pt, formats)
      /\ \E pt \in Elements(formats) : IsPrimary(o, pt)
      /\ \A k \in DOMAIN codecs : OwnFeedback(codecs[k].feedback, codecs[k].pt, o)

LEMMA PrimaryFits ==
  ASSUME NEW d, NEW o, NEW m, Summarized(d, o, m), NEW q, PrimaryOf(q, m)
  PROVE  IsPrimary(o, q.pt) /\ OwnFeedback(q.feedback, q.pt, o)
<1>1. PICK i \in DOMAIN m.codecs : q.pt = m.codecs[i].pt /\ q.name = m.codecs[i].name /\ q.feedback = m.codecs[i].feedback
  BY DEF PrimaryOf
<1>2. CodecRead(m.codecs[i], o)
  BY DEF Summarized
<1>3. q.name \in NamesOf(o, q.pt) /\ OwnFeedback(q.feedback, q.pt, o)
  BY <1>1, <1>2 DEF CodecRead
<1> QED
  BY <1>3 DEF PrimaryOf, IsPrimary

LEMMA RepairIsDescribed ==
  ASSUME NEW d, NEW o, NEW m, Summarized(d, o, m), NEW codecs, NEW q, RepairOf(q, m, codecs, Len(m.codecs))
  PROVE  IsRepair(o, q.pt, FormatsOf(codecs)) /\ OwnFeedback(q.feedback, q.pt, o)
<1>1. CodecRead(q, o)
  BY DEF RepairOf, Summarized
<1>2. OwnFmtp(q.fmtp, q.pt, o) /\ OwnFeedback(q.feedback, q.pt, o) /\ "rtx" \in NamesOf(o, q.pt)
  BY <1>1 DEF CodecRead, RepairOf, IsRtx
<1>3. Apt(q) # None /\ Apt(q) \in Elements(FormatsOf(codecs))
  BY DEF RepairOf, FormatsOf, Elements
<1>4. PICK k \in DOMAIN q.fmtp : q.fmtp[k].key = "apt" /\ q.fmtp[k].value = Apt(q)
  BY <1>2, <1>3, AptIsGiven DEF OwnFmtp
<1>5. PICK i \in DOMAIN o.fmtps : o.fmtps[i].pt = q.pt /\ q.fmtp[k] \in Elements(o.fmtps[i].fmtp)
  BY <1>2 DEF OwnFmtp
<1>6. PICK l \in DOMAIN o.fmtps[i].fmtp : q.fmtp[k] = o.fmtps[i].fmtp[l]
  BY <1>5 DEF Elements
<1> QED
  BY <1>2, <1>3, <1>4, <1>5, <1>6 DEF IsRepair

LEMMA ChosenFit ==
  ASSUME NEW d, NEW o, NEW m, Summarized(d, o, m), NEW codecs, Chosen(codecs, m, Len(m.codecs))
  PROVE  CodecsFit(codecs, o)
<1> DEFINE formats == FormatsOf(codecs)
<1>1. \A k \in DOMAIN codecs : PrimaryOf(codecs[k], m) \/ RepairOf(codecs[k], m, codecs, Len(m.codecs))
  BY DEF Chosen
<1>2. DOMAIN formats = DOMAIN codecs /\ \A k \in DOMAIN codecs : formats[k] = codecs[k].pt
  BY DEF FormatsOf
<1>3. Elements(formats) \subseteq Elements(o.formats)
  BY <1>1, <1>2 DEF Elements, PrimaryOf, RepairOf, Summarized, SectionRead
<1>4. ASSUME DescribedOnce(o) PROVE Distinct(formats)
  BY <1>2, <1>4 DEF Summarized, Chosen, PtsDistinct, Distinct
<1>5. \A k \in DOMAIN codecs :
        (IsPrimary(o, codecs[k].pt) \/ IsRepair(o, codecs[k].pt, formats)) /\ OwnFeedback(codecs[k].feedback, codecs[k].pt, o)
  BY <1>1, PrimaryFits, RepairIsDescribed
<1>6. PICK k \in DOMAIN codecs : IsPrimary(o, codecs[k].pt)
  BY PrimaryFits DEF Chosen
<1> HIDE DEF formats
<1>7. \A pt \in Elements(formats) : IsPrimary(o, pt) \/ IsRepair(o, pt, formats)
  BY <1>2, <1>5 DEF Elements
<1>8. \E pt \in Elements(formats) : IsPrimary(o, pt)
  BY <1>2, <1>6 DEF Elements
<1> QED
  BY <1>3, <1>4, <1>5, <1>7, <1>8 DEF CodecsFit, Chosen, formats

LEMMA PickedIsSubset ==
  ASSUME NEW s, IsSequence(s), NEW P, P \subseteq DOMAIN s
  PROVE  IsSequence(Picked(s, P)) /\ Elements(Picked(s, P)) \subseteq Elements(s)
<1>1. Sifted(Picked(s, P), s, P)
  BY PickedSifts
<1> QED
  BY <1>1 DEF Sifted, Elements

LEMMA RepeatsAreLeftOut ==
  ASSUME NEW s, IsSequence(s)
  PROVE  IsSequence(WithoutRepeats(s)) /\ Elements(WithoutRepeats(s)) = Elements(s)
<1> DEFINE P == {i \in DOMAIN s : s[i] \notin {s[j] : j \in 1..(i - 1)}}
<1>1. WithoutRepeats(s) = Picked(s, P) /\ P \subseteq DOMAIN s
  BY DEF WithoutRepeats
<1>2. \A i \in DOMAIN s : \E j \in P : s[j] = s[i]
  <2> TAKE i \in DOMAIN s
  <2> DEFINE same == {j \in DOMAIN s : s[j] = s[i]}
  <2>1. DOMAIN s \subseteq Nat /\ \A k \in DOMAIN s : \A j \in 1..(k - 1) : j \in DOMAIN s /\ j < k
    BY SequenceIsFunction
  <2>2. PICK j \in same : \A k \in same : j <= k
    <3>1. same \in SUBSET Nat /\ same # {}
      BY <2>1
    <3> HIDE DEF same
    <3> QED
      BY <3>1, LeastNumber
  <2>3. j \in P
    BY <2>1, <2>2
  <2> QED
    BY <2>2, <2>3
<1> HIDE DEF P
<1>3. Sifted(WithoutRepeats(s), s, P)
  BY <1>1, PickedSifts
<1>4. \A i \in DOMAIN s : s[i] \in Elements(WithoutRepeats(s))
  <2> TAKE i \in DOMAIN s
  <2>1. PICK j \in P : s[j] = s[i]
    BY <1>2
  <2> QED
    BY <1>3, <2>1 DEF Sifted, Elements
<1>5. IsSequence(WithoutRepeats(s)) /\ Elements(WithoutRepeats(s)) \subseteq Elements(s)
  BY <1>1, PickedIsSubset
<1> QED
  BY <1>4, <1>5 DEF Elements

\* An answer keeps offered extensions, among them the one for RIDs.
LEMMA ExtensionsFit ==
  ASSUME NEW m, IsSequence(m.extensions), NEW forwarded, NEW cc
  PROVE  LET kept == AnswerExtensions(m, forwarded, cc)
         IN  /\ IsSequence(kept) /\ Elements(kept) \subseteq Elements(m.extensions)
             /\ \A x \in Elements(m.extensions) :
                  /\ x.uri = "rid" /\ m.kind = "video" /\ x.id \in 1..255 /\ (NeedsTwoBytes(x.id) => m.mixed)
                  /\ forwarded # None => HasExtension(forwarded, "rid")
                  => x \in Elements(kept)
<1> DEFINE s == m.extensions
           Keeps(x) == /\ x.id \in 1..255 /\ ExtensionIsSupported(m.kind, x.uri, cc)
                       /\ forwarded # None /\ x.uri # "transport-cc" => HasExtension(forwarded, x.uri)
                       /\ NeedsTwoBytes(x.id) => m.mixed
           P == {i \in DOMAIN s : Keeps(s[i])}
           kept == AnswerExtensions(m, forwarded, cc)
<1>1. kept = Picked(s, P)
  BY DEF AnswerExtensions, Where
<1>2. P \subseteq DOMAIN s /\ \A i \in DOMAIN s : Keeps(s[i]) => i \in P
  OBVIOUS
<1>3. \A x : /\ x.uri = "rid" /\ m.kind = "video" /\ x.id \in 1..255 /\ (NeedsTwoBytes(x.id) => m.mixed)
             /\ forwarded # None => HasExtension(forwarded, "rid")
             => Keeps(x)
  BY DEF ExtensionIsSupported
<1> HIDE DEF P, Keeps, kept
<1>4. Sifted(kept, s, P)
  BY <1>1, <1>2, PickedSifts
<1>5. IsSequence(kept) /\ Elements(kept) \subseteq Elements(s)
  BY <1>1, <1>2, PickedIsSubset
<1>6. \A x \in Elements(s) : Keeps(x) => x \in Elements(kept)
  <2> TAKE x \in Elements(s)
  <2> HAVE Keeps(x)
  <2>1. PICK i \in DOMAIN s : x = s[i]
    BY DEF Elements
  <2>2. i \in P
    BY <1>2, <2>1
  <2> QED
    BY <1>4, <2>1, <2>2 DEF Sifted, Elements
<1> QED
  BY <1>3, <1>5, <1>6 DEF kept

LEMMA RidIsGiven ==
  ASSUME NEW m, IsSequence(m.rids), NEW rid, NEW direction, RidCan(m, rid, direction)
  PROVE  \E i \in DOMAIN m.rids : m.rids[i].id = rid /\ m.rids[i].direction = direction
<1> DEFINE P == {i \in DOMAIN m.rids : m.rids[i].id = rid}
           x == IF P = {} THEN None ELSE m.rids[Min(P)]
<1>1. x = First(m.rids, LAMBDA y : y.id = rid)
  BY DEF First
<1>2. x # None /\ x.direction = direction
  BY <1>1, Zenon DEF RidCan
<1>3. P \subseteq DOMAIN m.rids /\ \A i \in P : m.rids[i].id = rid
  OBVIOUS
<1> HIDE DEF P
<1>4. \E i \in P : x = m.rids[i]
  BY <1>2, <1>3, FirstIsElement
<1> HIDE DEF x
<1> QED
  BY <1>2, <1>3, <1>4

LEMMA SimulcastIsRead ==
  ASSUME NEW o, SectionLists(o), Simulcast(o) # None, Simulcast(o) # Refused
  PROVE  IsSequence(Simulcast(o).send) /\ IsSequence(Simulcast(o).recv)
<1> DEFINE pairs == o.simulcast[1]
           Lists(dir) == [i \in DOMAIN pairs |-> IF pairs[i].direction = dir THEN pairs[i].rids ELSE <<>>]
<1>1. o.simulcast # <<>> /\ Simulcast(o) = [send |-> FlattenSeq(Lists("send")), recv |-> FlattenSeq(Lists("recv"))]
  BY DEF Simulcast
<1>2. 1 \in DOMAIN o.simulcast
  <2>1. Len(o.simulcast) \in Nat /\ DOMAIN o.simulcast = 1..Len(o.simulcast) /\ o.simulcast = [i \in 1..Len(o.simulcast) |-> o.simulcast[i]]
    BY SequenceIsFunction DEF SectionLists
  <2>2. Len(o.simulcast) # 0
    BY <1>1, <2>1
  <2> QED
    BY <2>1, <2>2
<1>3. IsSequence(pairs) /\ \A i \in DOMAIN pairs : IsSequence(pairs[i].rids)
  BY <1>2 DEF SectionLists
<1> HIDE DEF pairs
<1>4. ASSUME NEW dir PROVE IsSequence(FlattenSeq(Lists(dir)))
  <2> DEFINE lists == Lists(dir)
  <2>1. Len(pairs) \in Nat /\ DOMAIN pairs = 1..Len(pairs)
    BY <1>3, SequenceIsFunction
  <2>2. lists = [i \in 1..Len(pairs) |-> lists[i]]
    BY <2>1
  <2>3. \A i \in DOMAIN pairs : lists[i] = pairs[i].rids \/ lists[i] = <<>>
    OBVIOUS
  <2>4. IsSequence(<<>>)
    BY DEF IsSequence
  <2> HIDE DEF lists
  <2>5. IsSequence(lists) /\ DOMAIN lists = DOMAIN pairs
    BY <2>1, <2>2, FunctionIsSequence
  <2>6. \A i \in DOMAIN lists : IsSequence(lists[i])
    BY <1>3, <2>3, <2>4, <2>5
  <2> QED
    BY <2>5, <2>6, FlattenedSequence DEF lists
<1> HIDE DEF Lists
<1> QED
  BY <1>1, <1>4

LEMMA SelectedIsGiven ==
  ASSUME NEW s, IsSequence(s), NEW P, P \subseteq DOMAIN s, NEW x \in Elements(WithoutRepeats(Picked(s, P)))
  PROVE  \E i \in P : x = s[i]
<1>1. Sifted(Picked(s, P), s, P)
  BY PickedSifts
<1>2. x \in Elements(Picked(s, P))
  BY <1>1, RepeatsAreLeftOut DEF Sifted
<1> QED
  BY <1>1, <1>2 DEF Sifted, Elements

RidsOf(o, direction) == {o.rids[i].id : i \in {j \in DOMAIN o.rids : o.rids[j].direction = direction}}

LEMMA GivenRid ==
  ASSUME NEW d, NEW o, NEW m, Summarized(d, o, m), NEW rid, NEW direction, RidCan(m, rid, direction)
  PROVE  rid \in RidsOf(o, direction)
<1>1. IsSequence(m.rids) /\ m.rids = o.rids
  BY DEF Summarized, SectionLists, SectionRead
<1> QED
  BY <1>1, RidIsGiven DEF RidsOf

LEMMA ReadSimulcast ==
  ASSUME NEW d, NEW o, NEW m, Summarized(d, o, m), m.simulcast # None
  PROVE  IsSequence(m.simulcast.send) /\ IsSequence(m.simulcast.recv)
  BY SimulcastIsRead DEF Summarized, SectionRead

\* An answer names RIDs of the direction it takes, and only in sections whose
\* packets can name them.
LEMMA WhipRidsFit ==
  ASSUME NEW d, NEW o, NEW m, Summarized(d, o, m)
  PROVE  LET rids == WhipSimulcastRids(m)
         IN  Elements(rids) \subseteq RidsOf(o, "send") /\ (rids # <<>> => m.kind = "video" /\ HasExtension(m, "rid"))
<1> DEFINE s == m.simulcast.send
           P == {i \in DOMAIN s : RidCan(m, s[i], "send")}
           named == m.kind = "video" /\ m.simulcast # None /\ HasExtension(m, "rid")
           rids == WhipSimulcastRids(m)
<1>1. rids = IF named THEN WithoutRepeats(Picked(s, P)) ELSE <<>>
  BY DEF WhipSimulcastRids, Where
<1>2. P \subseteq DOMAIN s /\ \A i \in P : RidCan(m, s[i], "send")
  OBVIOUS
<1>3. named => IsSequence(s)
  BY ReadSimulcast
<1> HIDE DEF s, P, rids
<1>4. CASE named
  <2>1. \A x \in Elements(rids) : \E i \in P : x = s[i]
    BY <1>1, <1>2, <1>3, <1>4, SelectedIsGiven
  <2>2. \A i \in P : s[i] \in RidsOf(o, "send")
    BY <1>2, GivenRid
  <2> QED
    BY <1>4, <2>1, <2>2 DEF rids
<1>5. CASE ~named
  <2>1. rids = <<>>
    BY <1>1, <1>5
  <2>2. Elements(<<>>) = {}
    BY DEF Elements
  <2> QED
    BY <2>1, <2>2 DEF rids
<1> QED
  BY <1>4, <1>5

LEMMA WhepRidsFit ==
  ASSUME NEW d, NEW o, NEW m, Summarized(d, o, m), NEW from
  PROVE  LET rids == WhepSimulcastRids(m, from)
         IN  /\ Elements(rids) \subseteq RidsOf(o, "recv")
             /\ rids # <<>> => m.kind = "video" /\ HasExtension(m, "rid") /\ HasExtension(from, "rid")
<1> DEFINE s == m.simulcast.recv
           P == {i \in DOMAIN s : /\ RidCan(m, s[i], "recv") /\ RidCan(from, s[i], "send")
                                  /\ s[i] \in Elements(from.simulcast.send)}
           named == /\ m.kind = "video" /\ m.simulcast # None /\ from.simulcast # None
                    /\ HasExtension(m, "rid") /\ HasExtension(from, "rid")
           rids == WhepSimulcastRids(m, from)
<1>1. rids = IF named THEN WithoutRepeats(Picked(s, P)) ELSE <<>>
  BY DEF WhepSimulcastRids, Where
<1>2. P \subseteq DOMAIN s /\ \A i \in P : RidCan(m, s[i], "recv")
  OBVIOUS
<1>3. named => IsSequence(s)
  BY ReadSimulcast
<1> HIDE DEF s, P, rids
<1>4. CASE named
  <2>1. \A x \in Elements(rids) : \E i \in P : x = s[i]
    BY <1>1, <1>2, <1>3, <1>4, SelectedIsGiven
  <2>2. \A i \in P : s[i] \in RidsOf(o, "recv")
    BY <1>2, GivenRid
  <2> QED
    BY <1>4, <2>1, <2>2 DEF rids
<1>5. CASE ~named
  <2>1. rids = <<>>
    BY <1>1, <1>5
  <2>2. Elements(<<>>) = {}
    BY DEF Elements
  <2> QED
    BY <2>1, <2>2 DEF rids
<1> QED
  BY <1>4, <1>5

\* The feedback of an answer is the supported feedback of its codecs.
LEMMA FeedbackIsKept ==
  ASSUME NEW codecs, IsSequence(codecs), \A k \in DOMAIN codecs : IsSequence(codecs[k].feedback),
         NEW kind, NEW nack, NEW cc
  PROVE  LET feedback == AnswerFeedback(kind, codecs, nack, cc)
         IN  /\ \A f \in Elements(feedback) : \E k \in DOMAIN codecs : \E v \in Elements(codecs[k].feedback) :
                  f = <<codecs[k].pt, v>>
             /\ \A k \in DOMAIN codecs : \A v \in Elements(codecs[k].feedback) :
                  FeedbackIsSupported(kind, v, nack, cc) => <<codecs[k].pt, v>> \in Elements(feedback)
<1> DEFINE P(c) == {i \in DOMAIN c.feedback : FeedbackIsSupported(kind, c.feedback[i], nack, cc)}
           Supported(c) == WithoutRepeats(Picked(c.feedback, P(c)))
           lists == [i \in DOMAIN codecs |->
                      [k \in DOMAIN Supported(codecs[i]) |-> <<codecs[i].pt, Supported(codecs[i])[k]>>]]
           feedback == AnswerFeedback(kind, codecs, nack, cc)
<1>1. feedback = FlattenSeq(lists)
  BY Zenon DEF AnswerFeedback, Where
<1>2. \A c : P(c) \subseteq DOMAIN c.feedback
  OBVIOUS
<1>3. \A c : \A i \in DOMAIN c.feedback : i \in P(c) <=> FeedbackIsSupported(kind, c.feedback[i], nack, cc)
  OBVIOUS
<1> HIDE DEF P
<1>4. ASSUME NEW k \in DOMAIN codecs
      PROVE  /\ IsSequence(Supported(codecs[k])) /\ Elements(Supported(codecs[k])) \subseteq Elements(codecs[k].feedback)
             /\ \A v \in Elements(codecs[k].feedback) :
                  FeedbackIsSupported(kind, v, nack, cc) => v \in Elements(Supported(codecs[k]))
  <2> DEFINE s == codecs[k].feedback
             t == Picked(s, P(codecs[k]))
  <2>1. Sifted(t, s, P(codecs[k]))
    BY <1>2, <1>4, PickedSifts
  <2>2. Supported(codecs[k]) = WithoutRepeats(t)
    OBVIOUS
  <2>3. P(codecs[k]) \subseteq DOMAIN s /\ \A i \in DOMAIN s : i \in P(codecs[k]) <=> FeedbackIsSupported(kind, s[i], nack, cc)
    BY <1>2, <1>3
  <2> HIDE DEF t, s, Supported
  <2>4. IsSequence(t) /\ Elements(t) \subseteq Elements(s)
    BY <2>1, <2>3 DEF Sifted, Elements
  <2>5. \A v \in Elements(s) : FeedbackIsSupported(kind, v, nack, cc) => v \in Elements(t)
    BY <2>1, <2>3 DEF Sifted, Elements
  <2> QED
    BY <2>2, <2>4, <2>5, RepeatsAreLeftOut DEF s
<1>5. DOMAIN lists = DOMAIN codecs /\ \A i \in DOMAIN codecs :
        lists[i] = [k \in DOMAIN Supported(codecs[i]) |-> <<codecs[i].pt, Supported(codecs[i])[k]>>]
  OBVIOUS
<1>6. IsSequence(lists)
  <2>1. Len(codecs) \in Nat /\ DOMAIN codecs = 1..Len(codecs)
    BY SequenceIsFunction
  <2>2. lists = [i \in 1..Len(codecs) |-> lists[i]]
    BY <2>1
  <2> HIDE DEF lists
  <2> QED
    BY <2>1, <2>2, FunctionIsSequence
<1> HIDE DEF lists, Supported, feedback
<1>7. \A i \in DOMAIN codecs :
        /\ IsSequence(lists[i]) /\ DOMAIN lists[i] = DOMAIN Supported(codecs[i])
        /\ \A k \in DOMAIN Supported(codecs[i]) : lists[i][k] = <<codecs[i].pt, Supported(codecs[i])[k]>>
  <2> TAKE i \in DOMAIN codecs
  <2> DEFINE t == Supported(codecs[i])
             l == lists[i]
  <2>1. Len(t) \in Nat /\ DOMAIN t = 1..Len(t)
    BY <1>4, SequenceIsFunction
  <2>2. l = [k \in DOMAIN t |-> <<codecs[i].pt, t[k]>>]
    BY <1>5
  <2> HIDE DEF t, l
  <2>3. l = [k \in 1..Len(t) |-> l[k]]
    BY <2>1, <2>2
  <2>4. IsSequence(l)
    BY <2>1, <2>3, FunctionIsSequence
  <2>5. DOMAIN l = DOMAIN t /\ \A k \in DOMAIN t : l[k] = <<codecs[i].pt, t[k]>>
    BY <2>2
  <2> QED
    BY <2>4, <2>5 DEF l, t
<1>8. /\ \A f \in Elements(feedback) : \E i \in DOMAIN codecs : f \in Elements(lists[i])
      /\ \A i \in DOMAIN codecs : Elements(lists[i]) \subseteq Elements(feedback)
  BY <1>1, <1>5, <1>6, <1>7, FlattenedSequence
<1>9. ASSUME NEW f \in Elements(feedback)
      PROVE  \E k \in DOMAIN codecs : \E v \in Elements(codecs[k].feedback) : f = <<codecs[k].pt, v>>
  <2>1. PICK i \in DOMAIN codecs : f \in Elements(lists[i])
    BY <1>8
  <2>2. PICK k \in DOMAIN Supported(codecs[i]) : f = <<codecs[i].pt, Supported(codecs[i])[k]>>
    BY <1>7, <2>1 DEF Elements
  <2>3. Supported(codecs[i])[k] \in Elements(codecs[i].feedback)
    BY <1>4 DEF Elements
  <2> QED
    BY <2>2, <2>3
<1>10. ASSUME NEW i \in DOMAIN codecs, NEW v \in Elements(codecs[i].feedback), FeedbackIsSupported(kind, v, nack, cc)
       PROVE  <<codecs[i].pt, v>> \in Elements(feedback)
  <2>1. v \in Elements(Supported(codecs[i]))
    BY <1>4, <1>10
  <2>2. PICK k \in DOMAIN Supported(codecs[i]) : v = Supported(codecs[i])[k]
    BY <2>1 DEF Elements
  <2>3. <<codecs[i].pt, v>> \in Elements(lists[i])
    BY <1>7, <2>2 DEF Elements
  <2> QED
    BY <1>8, <2>3
<1> QED
  BY <1>9, <1>10 DEF feedback

\* An answer gives its payload types feedback that the offer gives them.
LEMMA FeedbackFits ==
  ASSUME NEW o, NEW codecs, CodecsFit(codecs, o), NEW kind, NEW nack, NEW cc
  PROVE  \A f \in Elements(AnswerFeedback(kind, codecs, nack, cc)) :
           f[1] \in Elements(FormatsOf(codecs)) /\
             \E i \in DOMAIN o.feedbacks : o.feedbacks[i].value = f[2] /\ (o.feedbacks[i].all \/ o.feedbacks[i].pt = f[1])
<1> DEFINE feedback == AnswerFeedback(kind, codecs, nack, cc)
<1>1. IsSequence(codecs) /\ \A k \in DOMAIN codecs :
        OwnFeedback(codecs[k].feedback, codecs[k].pt, o) /\ IsSequence(codecs[k].feedback)
  BY DEF CodecsFit, OwnFeedback
<1>2. \A f \in Elements(feedback) : \E k \in DOMAIN codecs : \E v \in Elements(codecs[k].feedback) : f = <<codecs[k].pt, v>>
  BY <1>1, FeedbackIsKept
<1> HIDE DEF feedback
<1> SUFFICES ASSUME NEW f \in Elements(feedback)
             PROVE  f[1] \in Elements(FormatsOf(codecs)) /\
                      \E i \in DOMAIN o.feedbacks :
                        o.feedbacks[i].value = f[2] /\ (o.feedbacks[i].all \/ o.feedbacks[i].pt = f[1])
  BY DEF feedback
<1>3. PICK k \in DOMAIN codecs : \E v \in Elements(codecs[k].feedback) : f = <<codecs[k].pt, v>>
  BY <1>2
<1>4. f[1] = codecs[k].pt /\ f[2] \in Elements(codecs[k].feedback)
  BY <1>3
<1>5. f[1] \in Elements(FormatsOf(codecs))
  BY <1>4 DEF Elements, FormatsOf
<1> QED
  BY <1>1, <1>4, <1>5 DEF OwnFeedback

LEMMA SectionIsNotInactive ==
  ASSUME NEW o, MediaDirection(o) # Refused, MediaDirection(o) # "inactive"
  PROVE  "inactive" \notin o.directions
<1> SUFFICES ASSUME "inactive" \in o.directions PROVE FALSE
  OBVIOUS
<1>1. \A x, y \in o.directions : x = y
  BY DEF MediaDirection
<1>2. MediaDirection(o) = CHOOSE x \in o.directions : TRUE
  BY <1>1 DEF MediaDirection
<1>3. (CHOOSE x \in o.directions : TRUE) \in o.directions
  OBVIOUS
<1> QED
  BY <1>1, <1>2, <1>3

\* The peer of the session for which a section is accepted.
Direction(forwarded) == IF forwarded # None THEN "sendonly" ELSE "recvonly"

AnswerRids(m, forwarded) == IF forwarded # None THEN WhepSimulcastRids(m, forwarded) ELSE WhipSimulcastRids(m)

LEMMA RidsFit ==
  ASSUME NEW d, NEW o, NEW m, Summarized(d, o, m), NEW forwarded,
         NEW rids, rids = AnswerRids(m, forwarded), NEW cc, NEW kept, kept = AnswerExtensions(m, forwarded, cc)
  PROVE  /\ Elements(rids) \subseteq RidsOf(o, IF Direction(forwarded) = "recvonly" THEN "send" ELSE "recv")
         /\ IsSequence(kept) /\ Elements(kept) \subseteq Elements(o.extensions)
         /\ RidIsCarried(d, o) /\ rids # <<>> => \E x \in Elements(kept) : x.uri = "rid"
<1>1. Elements(rids) \subseteq RidsOf(o, IF Direction(forwarded) = "recvonly" THEN "send" ELSE "recv")
  BY WhipRidsFit, WhepRidsFit DEF Direction, AnswerRids
<1>2. rids # <<>> => /\ m.kind = "video" /\ HasExtension(m, "rid")
                     /\ forwarded # None => HasExtension(forwarded, "rid")
  BY WhipRidsFit, WhepRidsFit DEF AnswerRids
<1>3. /\ IsSequence(m.extensions) /\ m.extensions = o.extensions /\ m.mixed = (o.mixed \/ d.mixed)
      /\ \A i \in DOMAIN m.extensions : m.extensions[i].id \in 1..255
  BY Zenon DEF Summarized, SectionLists, SectionRead, IdentityIsValid
<1>4. /\ IsSequence(kept) /\ Elements(kept) \subseteq Elements(m.extensions)
      /\ \A x \in Elements(m.extensions) :
           /\ x.uri = "rid" /\ m.kind = "video" /\ x.id \in 1..255 /\ (NeedsTwoBytes(x.id) => m.mixed)
           /\ forwarded # None => HasExtension(forwarded, "rid")
           => x \in Elements(kept)
  BY <1>3, ExtensionsFit
<1>5. ASSUME RidIsCarried(d, o), rids # <<>>
      PROVE  \E x \in Elements(kept) : x.uri = "rid"
  <2>1. PICK i \in DOMAIN m.extensions : m.extensions[i].uri = "rid"
    BY <1>2, <1>5 DEF HasExtension
  <2> DEFINE x == m.extensions[i]
  <2>2. x \in Elements(m.extensions) /\ x \in Elements(o.extensions) /\ x.uri = "rid" /\ x.id \in 1..255
    BY <1>3, <2>1 DEF Elements
  <2> HIDE DEF x
  <2>3. NeedsTwoBytes(x.id) => m.mixed
    BY <1>3, <1>5, <2>2, Zenon DEF RidIsCarried
  <2> QED
    BY <1>2, <1>4, <1>5, <2>2, <2>3
<1> QED
  BY <1>1, <1>3, <1>4, <1>5

\* An accepted section fits the section of the description it answers.
LEMMA AcceptedFits ==
  ASSUME NEW d, NEW o, NEW m, Summarized(d, o, m), m.direction # "inactive",
         NEW codecs, CodecsFit(codecs, o), NEW forwarded, NEW sources
  PROVE  LET a == AcceptedMedia(m, forwarded, sources, codecs)
         IN  SectionFits(d, o, a, Direction(forwarded)) /\ Elements(a.formats) \subseteq Elements(o.formats)
<1> DEFINE a == AcceptedMedia(m, forwarded, sources, codecs)
           isWhep == forwarded # None
           cc == OffersTransportCc(m, codecs, ~isWhep)
<1>1. /\ a.direction = AnswerDirection(isWhep, m) /\ a.formats = FormatsOf(codecs)
      /\ a.extensions = AnswerExtensions(m, forwarded, cc)
      /\ a.rids = AnswerRids(m, forwarded)
      /\ a.feedback = AnswerFeedback(m.kind, codecs, isWhep, cc)
  BY DEF AcceptedMedia, FormatsOf, AnswerRids
<1> HIDE DEF a, cc
<1>2. a.direction = Direction(forwarded)
  BY <1>1 DEF AnswerDirection, Direction
<1>3. "inactive" \notin o.directions
  BY SectionIsNotInactive DEF Summarized, SectionRead
<1>4. /\ DescribedOnce(o) => Distinct(a.formats)
      /\ \A pt \in Elements(a.formats) : IsPrimary(o, pt) \/ IsRepair(o, pt, a.formats)
      /\ \E pt \in Elements(a.formats) : IsPrimary(o, pt)
      /\ Elements(a.formats) \subseteq Elements(o.formats)
  BY <1>1 DEF CodecsFit
<1>5. \A f \in Elements(a.feedback) : f[1] \in Elements(a.formats) /\
        \E i \in DOMAIN o.feedbacks : o.feedbacks[i].value = f[2] /\ (o.feedbacks[i].all \/ o.feedbacks[i].pt = f[1])
  BY <1>1, FeedbackFits
<1>6. /\ Elements(a.rids) \subseteq RidsOf(o, IF Direction(forwarded) = "recvonly" THEN "send" ELSE "recv")
      /\ Elements(a.extensions) \subseteq Elements(o.extensions)
      /\ RidIsCarried(d, o) /\ a.rids # <<>> => \E x \in Elements(a.extensions) : x.uri = "rid"
  <2> DEFINE rids == a.rids
             kept == a.extensions
  <2>1. /\ rids = AnswerRids(m, forwarded)
        /\ kept = AnswerExtensions(m, forwarded, cc)
    BY <1>1
  <2> HIDE DEF rids, kept
  <2>2. /\ Elements(rids) \subseteq RidsOf(o, IF Direction(forwarded) = "recvonly" THEN "send" ELSE "recv")
        /\ IsSequence(kept) /\ Elements(kept) \subseteq Elements(o.extensions)
        /\ RidIsCarried(d, o) /\ rids # <<>> => \E x \in Elements(kept) : x.uri = "rid"
    BY <2>1, RidsFit
  <2> QED
    BY <2>2 DEF rids, kept
<1>7. SectionFits(d, o, a, Direction(forwarded))
  BY <1>2, <1>3, <1>4, <1>5, <1>6, Zenon DEF SectionFits, RidsOf
<1> QED
  BY <1>4, <1>7 DEF a

\* The section a of an answer stands for the section o of the description d.
Answers(d, o, a, direction) ==
  /\ a.mid = o.mid /\ a.kind = o.kind /\ Elements(a.formats) \subseteq Elements(o.formats)
  /\ a.port # 0 => SectionFits(d, o, a, direction)

LEMMA RejectedAnswers ==
  ASSUME NEW d, NEW o, NEW m, Summarized(d, o, m), NEW direction
  PROVE  Answers(d, o, RejectedMedia(m), direction)
<1>1. LET a == RejectedMedia(m) IN a.mid = m.mid /\ a.kind = m.kind /\ a.formats = m.formats /\ a.port = 0
  BY DEF RejectedMedia
<1>2. m.mid = o.mid /\ m.kind = o.kind /\ m.formats = o.formats
  BY DEF Summarized, SectionRead
<1> QED
  BY <1>1, <1>2 DEF Answers

LEMMA AcceptedAnswers ==
  ASSUME NEW d, NEW o, NEW m, Summarized(d, o, m), m.direction # "inactive",
         NEW codecs, Chosen(codecs, m, Len(m.codecs)), NEW forwarded, NEW sources
  PROVE  Answers(d, o, AcceptedMedia(m, forwarded, sources, codecs), Direction(forwarded))
<1>1. LET a == AcceptedMedia(m, forwarded, sources, codecs) IN a.mid = m.mid /\ a.kind = m.kind
  BY DEF AcceptedMedia
<1>2. m.mid = o.mid /\ m.kind = o.kind
  BY DEF Summarized, SectionRead
<1>3. CodecsFit(codecs, o)
  BY ChosenFit
<1> QED
  BY <1>1, <1>2, <1>3, AcceptedFits DEF Answers

\* Every section of an answer fits the section it answers.
LEMMA WhipSectionAnswers ==
  ASSUME NEW d, NEW o, NEW m, Summarized(d, o, m)
  PROVE  Answers(d, o, WhipAnswerMedia(m), "recvonly")
<1> DEFINE codecs == NegotiatedForOffer(m)
           primary == Where(codecs, LAMBDA c : c.name # "rtx")
           accepted == AcceptedMedia(m, None, <<>>, primary)
           answered == IF m.direction = "inactive" THEN Refused ELSE IF codecs = Refused THEN Refused ELSE accepted
<1>1. WhipAnswerMedia(m) = IF answered = Refused THEN RejectedMedia(m) ELSE answered
  BY Zenon DEF WhipAnswerMedia, AndThen, OrRejected
<1>2. answered # Refused => m.direction # "inactive" /\ codecs # Refused /\ answered = accepted
  OBVIOUS
<1> HIDE DEF answered
<1>3. ASSUME m.direction # "inactive", codecs # Refused
      PROVE  Answers(d, o, accepted, "recvonly")
  <2>1. Chosen(codecs, m, Len(m.codecs))
    BY <1>3, OfferIsNegotiated DEF Summarized
  <2> HIDE DEF codecs
  <2>2. Chosen(primary, m, Len(m.codecs))
    BY <2>1, PrimariesRemain
  <2>3. Direction(None) = "recvonly"
    BY DEF Direction
  <2> HIDE DEF primary
  <2>4. Answers(d, o, accepted, Direction(None))
    BY <1>3, <2>2, AcceptedAnswers
  <2> QED
    BY <2>3, <2>4
<1> HIDE DEF codecs, accepted
<1> QED
  BY <1>1, <1>2, <1>3, RejectedAnswers

LEMMA WhepSectionAnswers ==
  ASSUME NEW d, NEW o, NEW m, Summarized(d, o, m), NEW offer, NEW from, NEW sources
  PROVE  Answers(d, o, WhepAnswerMedia(m, offer, from, sources), "sendonly")
<1> DEFINE forwarded == ForwardedMedia(m, offer, from)
           codecs == NegotiatedForRelay(m, forwarded)
           accepted == AcceptedMedia(m, forwarded, sources, codecs)
           relayed == IF codecs = Refused THEN Refused ELSE accepted
           answered == IF m.direction = "inactive" \/ forwarded = None \/ forwarded = Refused THEN Refused ELSE relayed
<1>1. WhepAnswerMedia(m, offer, from, sources) = IF answered = Refused THEN RejectedMedia(m) ELSE answered
  BY Zenon DEF WhepAnswerMedia, AndThen, OrRejected, Required
<1>2. answered # Refused => m.direction # "inactive" /\ forwarded # None /\ codecs # Refused /\ answered = accepted
  OBVIOUS
<1> HIDE DEF answered
<1>3. ASSUME m.direction # "inactive", forwarded # None, codecs # Refused
      PROVE  Answers(d, o, accepted, "sendonly")
  <2> HIDE DEF forwarded
  <2>1. Chosen(codecs, m, Len(m.codecs))
    BY <1>3, RelayIsNegotiated DEF Summarized
  <2>2. Direction(forwarded) = "sendonly"
    BY <1>3 DEF Direction
  <2> HIDE DEF codecs
  <2>3. Answers(d, o, accepted, Direction(forwarded))
    BY <1>3, <2>1, AcceptedAnswers
  <2> QED
    BY <2>2, <2>3
<1> HIDE DEF codecs, accepted, forwarded
<1> QED
  BY <1>1, <1>2, <1>3, RejectedAnswers

\* A session is created with an answer that fits its offer.
LEMMA CreatedFits ==
  ASSUME NEW s, NEW name, NEW offer, NEW media, Created(s, name, offer, media), NEW direction,
         \A i \in DOMAIN media : Answers(Offers[name], Offered(Offers[name])[i], media[i], direction)
  PROVE  AnswerFits(s, direction)
<1> DEFINE d == Offers[name]
           offered == Offered(d)
           accepted == s.accepted
           mids == [i \in DOMAIN accepted |-> media[accepted[i] + 1].mid]
<1>1. OfferedMedia(s) = offered /\ Offers[s.name] = d /\ s.answer.media = media
  BY Zenon DEF Created, OfferedMedia, Offered, IsAnswer
<1>2. /\ IsSequence(media) /\ IsSequence(offer.media) /\ DOMAIN media = DOMAIN offer.media
      /\ \A i \in DOMAIN media : media[i].mid = offer.media[i].mid
      /\ Len(media) = Len(offered) /\ IsSequence(offered)
  BY SequenceIsFunction DEF Created, AnswersEach, SummaryOf
<1>3. /\ Accepted(s) = {i \in DOMAIN media : media[i].port # 0}
      /\ Distinct(accepted) /\ Elements(accepted) = {i - 1 : i \in Accepted(s)} /\ s.answer.bundle = mids
  BY <1>1 DEF Created, IsAnswer, Accepted
<1>4. Accepted(s) \subseteq DOMAIN media /\ DOMAIN media \subseteq Nat
  BY <1>2, <1>3, SequenceIsFunction
<1>5. \A i \in DOMAIN accepted : accepted[i] \in Nat /\ accepted[i] + 1 \in DOMAIN media
  <2> TAKE i \in DOMAIN accepted
  <2>1. accepted[i] \in Elements(accepted)
    BY DEF Elements
  <2>2. PICK k \in Accepted(s) : accepted[i] = k - 1
    BY <1>3, <2>1
  <2>3. k \in DOMAIN media /\ k \in 1..Len(media)
    BY <1>2, <1>4, <2>2, SequenceIsFunction
  <2> QED
    BY <2>2, <2>3
<1>6. Distinct([i \in DOMAIN offer.media |-> offer.media[i].mid])
  BY DEF Created, CommonOfferIsValid, MidsAreUnique
<1>7. Distinct(mids)
  <2> SUFFICES ASSUME NEW i \in DOMAIN accepted, NEW j \in DOMAIN accepted, mids[i] = mids[j] PROVE i = j
    BY DEF Distinct
  <2>1. media[accepted[i] + 1].mid = media[accepted[j] + 1].mid
    OBVIOUS
  <2>2. offer.media[accepted[i] + 1].mid = offer.media[accepted[j] + 1].mid
    BY <1>2, <1>5, <2>1
  <2>3. accepted[i] + 1 = accepted[j] + 1
    BY <1>2, <1>5, <1>6, <2>2 DEF Distinct
  <2>4. accepted[i] = accepted[j]
    BY <1>5, <2>3
  <2> QED
    BY <1>3, <2>4 DEF Distinct
<1>8. Elements(mids) \subseteq Elements(BundleMids(d))
  <2> SUFFICES ASSUME NEW i \in DOMAIN accepted PROVE mids[i] \in Elements(BundleMids(d))
    BY DEF Elements
  <2>1. mids[i] = offer.media[accepted[i] + 1].mid /\ accepted[i] + 1 \in DOMAIN offer.media
    BY <1>2, <1>5
  <2> QED
    BY <2>1 DEF Created, SummaryOf
<1>9. [i \in DOMAIN s.offer.media |-> s.offer.media[i].mid] = mids
  <2>1. s.offer.media = [i \in DOMAIN accepted |-> offer.media[accepted[i] + 1]]
    BY DEF Created, IsRuntime
  <2>2. DOMAIN s.offer.media = DOMAIN accepted /\ \A i \in DOMAIN accepted : s.offer.media[i].mid = mids[i]
    BY <1>2, <1>5, <2>1
  <2> QED
    BY <2>2
<1>10. \A i \in DOMAIN media :
         /\ media[i].mid = offered[i].mid /\ media[i].kind = offered[i].kind
         /\ Elements(media[i].formats) \subseteq Elements(offered[i].formats)
         /\ i \in Accepted(s) => SectionFits(d, offered[i], media[i], direction)
  BY <1>3 DEF Answers
<1> HIDE DEF d, offered
<1>11. [i \in DOMAIN s.accepted |-> s.answer.media[s.accepted[i] + 1].mid] = mids
  BY <1>1
<1> HIDE DEF mids, accepted
<1> QED
  BY <1>1, <1>2, <1>3, <1>7, <1>8, <1>9, <1>10, <1>11 DEF AnswerFits, accepted

LEMMA CreatedSectionAnswers ==
  ASSUME NEW name \in DOMAIN Offers, NEW offer, SummaryOf(offer, Offers[name])
  PROVE  \A i \in DOMAIN offer.media :
           /\ Answers(Offers[name], Offered(Offers[name])[i], WhipAnswerMedia(offer.media[i]), "recvonly")
           /\ \A from, sources :
                Answers(Offers[name], Offered(Offers[name])[i], WhepAnswerMedia(offer.media[i], offer, from, sources), "sendonly")
  BY SectionIsSummarized, WhipSectionAnswers, WhepSectionAnswers

LEMMA PublisherFits ==
  ASSUME NEW name \in DOMAIN Offers, NEW local, PublisherSession(name, local) # Refused
  PROVE  AnswerFits(PublisherSession(name, local), "recvonly")
<1> DEFINE s == PublisherSession(name, local)
<1>1. PICK offer : Created(s, name, offer, [i \in DOMAIN offer.media |-> WhipAnswerMedia(offer.media[i])])
  BY PublisherIsCreated
<1> DEFINE media == [i \in DOMAIN offer.media |-> WhipAnswerMedia(offer.media[i])]
<1>2. \A i \in DOMAIN media : Answers(Offers[name], Offered(Offers[name])[i], media[i], "recvonly")
  BY <1>1, CreatedSectionAnswers DEF Created
<1> HIDE DEF s, media
<1>3. Created(s, name, offer, media)
  BY <1>1 DEF media
<1>4. AnswerFits(s, "recvonly")
  BY <1>2, <1>3, CreatedFits
<1> QED
  BY <1>4 DEF s

LEMMA SubscriberFits ==
  ASSUME NEW name \in DOMAIN Offers, NEW local, NEW from, SubscriberSession(name, local, from) # Refused
  PROVE  AnswerFits(SubscriberSession(name, local, from), "sendonly")
<1> DEFINE s == SubscriberSession(name, local, from)
<1>1. PICK offer : Created(s, name, offer, [i \in DOMAIN offer.media |-> WhepAnswerMedia(offer.media[i], offer, from, OutboundSources(offer))])
  BY SubscriberIsCreated
<1> DEFINE media == [i \in DOMAIN offer.media |-> WhepAnswerMedia(offer.media[i], offer, from, OutboundSources(offer))]
<1>2. \A i \in DOMAIN media : Answers(Offers[name], Offered(Offers[name])[i], media[i], "sendonly")
  BY <1>1, CreatedSectionAnswers DEF Created
<1> HIDE DEF s, media
<1>3. Created(s, name, offer, media)
  BY <1>1 DEF media
<1>4. AnswerFits(s, "sendonly")
  BY <1>2, <1>3, CreatedFits
<1> QED
  BY <1>4 DEF s

\* The answer of every session fits what its client offered, for any offers
\* (build_whip_answer_sdp, build_whep_answer_sdp, make_offer_summary).
THEOREM AnswersStayFitting == Spec => []AnswerFitsOffer
<1>1. Init => AnswerFitsOffer
  BY DEF Init, AnswerFitsOffer
<1>2. SessionsOK /\ AnswerFitsOffer /\ [Next]_vars => AnswerFitsOffer'
  <2> SUFFICES ASSUME SessionsOK, AnswerFitsOffer, [Next]_vars PROVE AnswerFitsOffer'
    OBVIOUS
  <2>1. publisher' # None => AnswerFits(publisher', "recvonly")
    <3>1. CASE Continues(publisher, publisher')
      BY <3>1, SameSessionKeeps DEF Continues, AnswerFitsOffer
    <3>2. CASE PublisherMade
      BY <3>2, PublisherFits DEF PublisherMade
    <3> QED
      BY <3>1, <3>2, NextMakes
  <2>2. subscriber' # None => AnswerFits(subscriber', "sendonly")
    <3>1. CASE Continues(subscriber, subscriber')
      BY <3>1, SameSessionKeeps DEF Continues, AnswerFitsOffer
    <3>2. CASE SubscriberMade
      BY <3>2, SubscriberFits DEF SubscriberMade
    <3> QED
      BY <3>1, <3>2, NextMakes
  <2> QED
    BY <2>1, <2>2 DEF AnswerFitsOffer
<1> QED
  BY <1>1, <1>2, SessionsAreOK, PTL DEF Spec

-----------------------------------------------------------------------------
(* The mapping of a subscriber and the publisher it was made for.          *)

\* An absent value or an error is none of the data it could be taken for.
IsNoData(x) == x \notin Int /\ \A f : IsData(f) => f # x

\* The session s was made for the offer, and media answer it.
Born(s, offer, media) ==
  /\ s.name \in DOMAIN Offers /\ SummaryOf(offer, Offers[s.name]) /\ CommonOfferIsValid(offer)
  /\ s.accepted = s.answer.accepted /\ AnswersEach(media, offer)
  /\ IsAnswer(s.answer, media) /\ IsRuntime(s.offer, offer, s.accepted)

WhipMedia(offer) == [i \in DOMAIN offer.media |-> WhipAnswerMedia(offer.media[i])]

WhepMedia(offer, from) == [i \in DOMAIN offer.media |-> WhepAnswerMedia(offer.media[i], offer, from, OutboundSources(offer))]

PublisherBorn(s) == IsData(s) /\ \E offer : Born(s, offer, WhipMedia(offer))

\* The mapping of s is the one for its answer, made from the publisher's offer.
SubscriberFed(s, from) ==
  \E offer : /\ Born(s, offer, WhepMedia(offer, from))
             /\ s.config = RewriterConfig(offer, s.accepted, OutboundSources(offer), from) /\ s.config # Refused

\* Every session was made for its offer, and an original mapping is the one made with
\* the answer from the offer that the publisher keeps.
FedOK ==
  /\ publisher # None => PublisherBorn(publisher)
  /\ subscriber # None =>
       /\ {"config", "original"} \subseteq DOMAIN subscriber
       /\ IF publisher = None THEN subscriber.config = None
          ELSE subscriber.original => SubscriberFed(subscriber, publisher.offer)

LEMMA BornStays ==
  ASSUME NEW s, NEW t, SameSession(s, t), OthersKept(s, t)
  PROVE  /\ PublisherBorn(s) => PublisherBorn(t)
         /\ \A from : SubscriberFed(s, from) /\ t.config = s.config => SubscriberFed(t, from)
<1>1. t.name = s.name /\ t.offer = s.offer /\ t.answer = s.answer /\ t.accepted = s.accepted
  BY DEF SameSession
<1>2. \A offer, media : Born(s, offer, media) => Born(t, offer, media)
  BY <1>1 DEF Born
<1> QED
  BY <1>1, <1>2 DEF PublisherBorn, SubscriberFed, OthersKept

LEMMA CreatedIsBorn ==
  ASSUME NEW s, NEW name, NEW offer, NEW media, Created(s, name, offer, media)
  PROVE  Born(s, offer, media)
  BY DEF Created, Born

LEMMA PublisherIsBorn ==
  ASSUME NEW name \in DOMAIN Offers, NEW local, PublisherSession(name, local) # Refused
  PROVE  PublisherBorn(PublisherSession(name, local))
<1> DEFINE s == PublisherSession(name, local)
<1>1. PICK offer : Created(s, name, offer, [i \in DOMAIN offer.media |-> WhipAnswerMedia(offer.media[i])])
  BY PublisherIsCreated
<1>2. IsData(s)
  <2> DEFINE summary == Summaries[name]
             answer == WhipAnswer(summary)
             runtime == RuntimeOffer(summary, answer.accepted)
             made == [name |-> name, offer |-> runtime, answer |-> answer, accepted |-> answer.accepted,
                      local |-> local, remote |-> <<>>, selected |-> None]
  <2>1. s = made
    BY Zenon DEF PublisherSession, AndThen
  <2> HIDE DEF summary, answer, runtime, s
  <2> QED
    BY <2>1 DEF IsData
<1> HIDE DEF s
<1>3. Created(s, name, offer, WhipMedia(offer))
  BY <1>1 DEF WhipMedia
<1>4. PublisherBorn(s)
  BY <1>2, <1>3, CreatedIsBorn DEF PublisherBorn
<1> QED
  BY <1>4 DEF s

LEMMA SubscriberIsFed ==
  ASSUME NEW name \in DOMAIN Offers, NEW local, NEW from, SubscriberSession(name, local, from) # Refused
  PROVE  LET s == SubscriberSession(name, local, from)
         IN  SubscriberFed(s, from) /\ {"config", "original"} \subseteq DOMAIN s
<1> DEFINE offer == Summaries[name]
           sources == OutboundSources(offer)
           answer == WhepAnswer(offer, from, sources)
           runtime == RuntimeOffer(offer, answer.accepted)
           config == RewriterConfig(offer, answer.accepted, sources, from)
           s == SubscriberSession(name, local, from)
<1>1. /\ offer # Refused /\ WhepOfferIsValid(offer) /\ answer # Refused /\ runtime # Refused /\ config # Refused
      /\ s = [name |-> name, offer |-> runtime, answer |-> answer, accepted |-> answer.accepted,
              local |-> local, remote |-> <<>>, selected |-> None,
              target |-> offer, sources |-> sources, config |-> config, original |-> TRUE]
  BY Zenon DEF SubscriberSession, AndThen
<1>2. SummaryOf(offer, Offers[name])
  BY <1>1, SummaryIsRead
<1>3. answer = Answer(WhepMedia(offer, from))
  BY Zenon DEF WhepAnswer, WhepMedia
<1> HIDE DEF offer, answer, runtime, s, config
<1>4. AnswersEach(WhepMedia(offer, from), offer)
  <2> HIDE DEF sources
  <2> QED
    BY <1>2, WhepAnswersEach DEF SummaryOf, WhepMedia, sources
<1>5. IsAnswer(answer, WhepMedia(offer, from))
  BY <1>1, <1>3, <1>4, AnswerAccepts DEF AnswersEach
<1>6. IsRuntime(runtime, offer, answer.accepted)
  BY <1>1, <1>2, RuntimeIsMade DEF runtime
<1>7. CommonOfferIsValid(offer)
  BY <1>1 DEF WhepOfferIsValid
<1>8. /\ {"config", "original"} \subseteq DOMAIN s /\ s.name = name /\ s.accepted = s.answer.accepted
      /\ s.answer = answer /\ s.offer = runtime /\ s.config = config
  BY <1>1
<1>9. Born(s, offer, WhepMedia(offer, from))
  BY <1>2, <1>4, <1>5, <1>6, <1>7, <1>8 DEF Born
<1>10. s.config = RewriterConfig(offer, s.accepted, OutboundSources(offer), from) /\ s.config # Refused
  BY <1>1, <1>8 DEF config
<1> HIDE DEF sources
<1> QED
  BY <1>8, <1>9, <1>10 DEF SubscriberFed, s

\* A subscriber that the step neither creates nor feeds anew.
LEMMA FedSubscriberStays ==
  ASSUME FedOK, subscriber # None, NEW t, SameSession(subscriber, t), OthersKept(subscriber, t)
  PROVE  /\ {"config", "original"} \subseteq DOMAIN t
         /\ IF publisher = None THEN t.config = None
            ELSE t.original => SubscriberFed(t, publisher.offer)
<1>1. {"config", "original"} \subseteq DOMAIN subscriber
  BY DEF FedOK
<1>2. DOMAIN t = DOMAIN subscriber /\ t.config = subscriber.config /\ t.original = subscriber.original
  BY <1>1 DEF OthersKept
<1> QED
  BY <1>1, <1>2, BornStays DEF FedOK

\* The session s stays, at most with other candidates or another endpoint.
Stays(s, t) == IF s = None THEN t = None ELSE SameSession(s, t) /\ OthersKept(s, t)

LEMMA SessionStays ==
  ASSUME NEW s, s # None => SessionOK(s)
  PROVE  Stays(s, s) /\ \A r \in Requests : Stays(s, PatchResult(s, r).session)
<1>1. Stays(s, s)
  BY DEF Stays, SessionOK, SameSession, OthersKept
<1>2. ASSUME NEW r \in Requests PROVE Stays(s, PatchResult(s, r).session)
  <2>1. CASE s = None
    BY <2>1 DEF PatchResult, Stays
  <2>2. CASE s # None
    <3>1. PatchResult(s, r) = PatchSession(s, r)
      BY <2>2 DEF PatchResult
    <3>2. Patched(s, PatchSession(s, r), Sent(r))
      BY <2>2, PatchKeeps, RequestsAssumption
    <3> QED
      BY <2>2, <3>1, <3>2 DEF Patched, Stays
  <2> QED
    BY <2>1, <2>2
<1> QED
  BY <1>1, <1>2

LEMMA BothStay ==
  ASSUME IsNoData(None), FedOK, Stays(publisher, publisher'), subscriber' = None \/ Stays(subscriber, subscriber')
  PROVE  FedOK'
<1>1. publisher # None => PublisherBorn(publisher) /\ PublisherBorn(publisher') /\ publisher' # None /\ publisher'.offer = publisher.offer
  BY BornStays DEF Stays, FedOK, PublisherBorn, SameSession, IsNoData
<1>2. publisher = None => publisher' = None
  BY DEF Stays
<1>3. ASSUME subscriber' # None
      PROVE  /\ {"config", "original"} \subseteq DOMAIN subscriber'
             /\ IF publisher = None THEN subscriber'.config = None
                ELSE subscriber'.original => SubscriberFed(subscriber', publisher.offer)
  <2>1. subscriber # None /\ SameSession(subscriber, subscriber') /\ OthersKept(subscriber, subscriber')
    BY <1>3 DEF Stays
  <2> QED
    BY <2>1, FedSubscriberStays
<1> QED
  BY <1>1, <1>2, <1>3 DEF FedOK

LEMMA FedStays ==
  ASSUME IsNoData(None), SessionsOK, FedOK, [Next]_vars
  PROVE  FedOK'
<1>1. Stays(publisher, publisher) /\ Stays(subscriber, subscriber)
  BY SessionStays DEF SessionsOK
<1>2. ASSUME NEW name \in DOMAIN Offers, NEW local \in Credentials, CreatePublisher(name, local) PROVE FedOK'
  <2>1. PublisherBorn(publisher')
    BY <1>2, PublisherIsBorn DEF CreatePublisher
  <2> DEFINE config == RewriterConfig(subscriber.target, subscriber.accepted, subscriber.sources, (publisher').offer)
             s == [subscriber EXCEPT !.config = config, !.original = FALSE]
  <2>2. subscriber' = None \/ (subscriber # None /\ subscriber' = s)
    BY <1>2 DEF CreatePublisher, RebuildRtpRewriter, WithNewConfig
  <2>3. publisher' # None
    BY <2>1 DEF PublisherBorn, IsNoData
  <2>4. subscriber # None => {"config", "original"} \subseteq DOMAIN s /\ s.original = FALSE
    BY DEF FedOK
  <2> HIDE DEF s
  <2> QED
    BY <2>1, <2>2, <2>3, <2>4 DEF FedOK
<1>3. ASSUME NEW name \in DOMAIN Offers, NEW local \in Credentials, CreateSubscriber(name, local) PROVE FedOK'
  <2>1. publisher # None /\ publisher' = publisher /\ PublisherBorn(publisher)
    BY <1>3 DEF CreateSubscriber, FedOK
  <2>2. SubscriberFed(subscriber', publisher.offer) /\ {"config", "original"} \subseteq DOMAIN subscriber'
    BY <1>3, SubscriberIsFed DEF CreateSubscriber
  <2> QED
    BY <2>1, <2>2 DEF FedOK
<1>4. ASSUME DeletePublisher PROVE FedOK'
  <2>1. publisher' = None /\ subscriber' \in {None, [subscriber EXCEPT !.config = None]}
    BY <1>4 DEF DeletePublisher
  <2>2. subscriber' # None => subscriber # None /\ subscriber' = [subscriber EXCEPT !.config = None]
    BY <1>4 DEF DeletePublisher
  <2>3. subscriber' # None => {"config", "original"} \subseteq DOMAIN subscriber' /\ subscriber'.config = None
    BY <2>2 DEF FedOK
  <2> QED
    BY <2>1, <2>3 DEF FedOK
<1>5. ASSUME DeleteSubscriber PROVE FedOK'
  BY <1>1, <1>5, BothStay DEF DeleteSubscriber
<1>6. ASSUME NEW r \in Requests, PatchPublisher(r) \/ PatchSubscriber(r) PROVE FedOK'
  <2>1. Stays(publisher, publisher') /\ Stays(subscriber, subscriber')
    BY <1>1, <1>6, SessionStays DEF SessionsOK, PatchPublisher, PatchSubscriber
  <2> QED
    BY <2>1, BothStay
<1>7. ASSUME NEW p \in Packets, NEW endpoint \in Endpoints, NEW rebound \in BOOLEAN,
             CheckPublisher(p, endpoint, rebound) \/ CheckSubscriber(p, endpoint, rebound)
      PROVE  FedOK'
  <2>1. ASSUME NEW s, s # None, SessionOK(s) PROVE Stays(s, AfterCheck(s, p, endpoint, rebound))
    BY <2>1, CheckKeeps DEF Stays
  <2>2. Stays(publisher, publisher') /\ Stays(subscriber, subscriber')
    BY <1>1, <1>7, <2>1 DEF SessionsOK, CheckPublisher, CheckSubscriber, MayCheck
  <2> QED
    BY <2>2, BothStay
<1>8. ASSUME UNCHANGED vars PROVE FedOK'
  BY <1>1, <1>8, BothStay DEF vars
<1> QED
  BY <1>2, <1>3, <1>4, <1>5, <1>6, <1>7, <1>8 DEF Next

\* While the publisher stays, a subscriber is fed as its answer was negotiated.
LEMMA SubscribersAreFed ==
  ASSUME IsNoData(None)
  PROVE  Spec => []FedOK
<1>1. Init => FedOK
  BY DEF Init, FedOK
<1>2. SessionsOK /\ FedOK /\ [Next]_vars => FedOK'
  BY FedStays
<1> QED
  BY <1>1, <1>2, SessionsAreOK, PTL DEF Spec

-----------------------------------------------------------------------------
(* The codecs of an answer and those of the publisher that feed them.      *)

\* Every codec has its source among the codecs of the publisher's section f.
Relayed(codecs, f) ==
  \A k \in DOMAIN codecs :
    /\ ~IsRtx(codecs[k]) => CompatiblePublisherCodec(f, codecs[k]) # None
    /\ IsRtx(codecs[k]) =>
         \E j \in DOMAIN codecs : LET source == CompatiblePublisherCodec(f, codecs[j])
                                  IN  codecs[j].pt = Apt(codecs[k]) /\ source # None /\ RtxForApt(f, source.pt) # None

LEMMA WithCodecGrows ==
  ASSUME NEW m, NEW p, NEW codecs, IsSequence(codecs), NEW c
  PROVE  LET next == WithCodec(m, p, codecs, c)
         IN  IsSequence(next) /\ Grown(codecs, next) /\ (p # None /\ Relayed(codecs, p) => Relayed(next, p))
<1> DEFINE next == WithCodec(m, p, codecs, c)
<1>1. Len(codecs) \in Nat /\ DOMAIN codecs = 1..Len(codecs)
  BY SequenceIsFunction
<1>2. CASE ~RtxFits(m, p, c, codecs)
  <2>1. next = codecs
    BY <1>2 DEF WithCodec
  <2>2. Grown(codecs, codecs)
    BY <1>1 DEF Grown
  <2> HIDE DEF next
  <2>3. IsSequence(next) /\ Grown(codecs, next) /\ (p # None /\ Relayed(codecs, p) => Relayed(next, p))
    BY <2>1, <2>2
  <2> QED
    BY <2>3 DEF next
<1>3. CASE RtxFits(m, p, c, codecs)
  <2>1. next = Append(codecs, c)
    BY <1>3 DEF WithCodec
  <2> HIDE DEF next
  <2>2. /\ IsSequence(next) /\ DOMAIN next = 1..(Len(codecs) + 1) /\ Len(next) = Len(codecs) + 1
        /\ next[Len(codecs) + 1] = c /\ \A k \in 1..Len(codecs) : next[k] = codecs[k]
    BY <1>1, <2>1, AppendSequence, SequenceIsFunction
  <2>3. Grown(codecs, next)
    BY <1>1, <2>2 DEF Grown
  <2>4. /\ DOMAIN codecs \subseteq DOMAIN next /\ \A k \in DOMAIN codecs : next[k] = codecs[k]
        /\ \A k \in DOMAIN next : k \in DOMAIN codecs \/ next[k] = c
    BY <1>1, <2>2
  <2>5. ASSUME p # None, Relayed(codecs, p) PROVE Relayed(next, p)
    <3> DEFINE P == {i \in DOMAIN codecs : codecs[i].pt = Apt(c)}
               primary == ByPayloadType(codecs, Apt(c))
               Source(q) == CompatiblePublisherCodec(p, q)
    <3>1. /\ IsRtx(c) /\ primary # None /\ Source(primary) # None /\ RtxForApt(p, Source(primary).pt) # None
      BY <1>3, <2>5, SMT DEF RtxFits, RtxIsAnswerable
    <3>2. primary = IF P = {} THEN None ELSE codecs[Min(P)]
      BY Zenon DEF ByPayloadType, First
    <3>3. P \subseteq DOMAIN codecs /\ \A i \in P : codecs[i].pt = Apt(c)
      OBVIOUS
    <3> HIDE DEF P, primary, Source
    <3>4. PICK j \in P : primary = codecs[j]
      BY <3>1, <3>2, <3>3, FirstIsElement
    <3>5. \E i \in DOMAIN next : next[i].pt = Apt(c) /\ Source(next[i]) # None /\ RtxForApt(p, Source(next[i]).pt) # None
      BY <2>4, <3>1, <3>3, <3>4
    <3>6. \A k \in DOMAIN codecs :
            /\ ~IsRtx(codecs[k]) => Source(codecs[k]) # None
            /\ IsRtx(codecs[k]) =>
                 \E i \in DOMAIN codecs :
                   codecs[i].pt = Apt(codecs[k]) /\ Source(codecs[i]) # None /\ RtxForApt(p, Source(codecs[i]).pt) # None
      BY <2>5, Zenon DEF Relayed, Source
    <3>7. \A k \in DOMAIN next :
            /\ ~IsRtx(next[k]) => Source(next[k]) # None
            /\ IsRtx(next[k]) =>
                 \E i \in DOMAIN next :
                   next[i].pt = Apt(next[k]) /\ Source(next[i]) # None /\ RtxForApt(p, Source(next[i]).pt) # None
      <4> TAKE k \in DOMAIN next
      <4>1. CASE k \in DOMAIN codecs
        BY <2>4, <3>6, <4>1
      <4>2. CASE next[k] = c
        BY <3>1, <3>5, <4>2
      <4> QED
        BY <2>4, <4>1, <4>2
    <3> QED
      BY <3>7, Zenon DEF Relayed, Source
  <2> QED
    BY <2>2, <2>3, <2>5 DEF next
<1> QED
  BY <1>2, <1>3

LEMMA WithRtxGrows ==
  ASSUME NEW m, IsSequence(m.codecs), NEW p, NEW primaries, IsSequence(primaries), WithRtx(m, p, primaries) # Refused
  PROVE  LET codecs == WithRtx(m, p, primaries)
         IN  IsSequence(codecs) /\ Grown(primaries, codecs) /\ (p # None /\ Relayed(primaries, p) => Relayed(codecs, p))
<1> DEFINE n == Len(m.codecs)
           Good(codecs) ==
             IsSequence(codecs) /\ Grown(primaries, codecs) /\ (p # None /\ Relayed(primaries, p) => Relayed(codecs, p))
<1>1. WithRtx(m, p, primaries) = CodecFold(m, p, primaries, m.codecs)
  BY Zenon DEF WithRtx, CodecFold
<1>2. PICK h : FoldSteps(h, "codec", m, p, primaries, m.codecs) /\ CodecFold(m, p, primaries, m.codecs) = h[n]
  BY CodecSteps
<1>3. n \in Nat
  BY SequenceIsFunction
<1>4. h[0] = primaries /\ \A k \in 1..n : h[k] = WithCodec(m, p, h[k - 1], m.codecs[k])
  BY <1>2 DEF FoldSteps, Step
<1>5. Good(primaries)
  <2>1. Len(primaries) \in Nat
    BY SequenceIsFunction
  <2> QED
    BY <2>1 DEF Grown
<1>6. ASSUME NEW codecs, Good(codecs), NEW c PROVE Good(WithCodec(m, p, codecs, c))
  <2> DEFINE next == WithCodec(m, p, codecs, c)
  <2>1. IsSequence(next) /\ Grown(codecs, next) /\ (p # None /\ Relayed(codecs, p) => Relayed(next, p))
    BY <1>6, WithCodecGrows
  <2> HIDE DEF next
  <2>2. Len(primaries) \in Nat /\ Len(codecs) \in Nat /\ Len(next) \in Nat
    BY <1>6, <2>1, SequenceIsFunction
  <2>3. Grown(primaries, next)
    BY <1>6, <2>1, <2>2 DEF Grown
  <2> QED
    BY <1>6, <2>1, <2>3 DEF next
<1> DEFINE bad == {k \in 0..n : ~Good(h[k])}
<1>7. bad = {}
  <2> SUFFICES ASSUME bad # {} PROVE FALSE
    OBVIOUS
  <2>1. bad \in SUBSET Nat
    BY <1>3
  <2>2. PICK k \in bad : \A l \in bad : k <= l
    <3> HIDE DEF bad
    <3> QED
      BY <2>1, LeastNumber
  <2> HIDE DEF Good
  <2>3. k # 0
    BY <1>4, <1>5, <2>2
  <2>4. k \in 1..n /\ k - 1 \in 0..n /\ k - 1 \notin bad
    BY <1>3, <2>2, <2>3
  <2>5. Good(h[k - 1])
    BY <2>4
  <2>6. Good(h[k])
    BY <1>4, <1>6, <2>4, <2>5
  <2> QED
    BY <2>2, <2>6
<1> HIDE DEF Good
<1>8. Good(h[n])
  BY <1>3, <1>7
<1> QED
  BY <1>1, <1>2, <1>8 DEF Good

\* p is a primary codec of the publisher's section f that can feed codec.
Feeds(p, f, codec) ==
  /\ p \in Elements(f.codecs) /\ p.pt \in Elements(f.formats) /\ p.name = codec.name
  /\ NormalizedCodec(f.kind, p) # Refused

LEMMA CompatibleFeeds ==
  ASSUME NEW d, NEW o, NEW f, Summarized(d, o, f), NEW codec, CompatiblePublisherCodec(f, codec) # None
  PROVE  Feeds(CompatiblePublisherCodec(f, codec), f, codec)
<1> DEFINE Fits(p) ==
             /\ p.pt \in Elements(f.formats) /\ ~IsRtx(p)
             /\ \E normalized \in {NormalizedCodec(f.kind, p)} \ {Refused} : CodecsAreCompatible(normalized, codec)
           P == {i \in DOMAIN f.codecs : Fits(f.codecs[i])}
           source == CompatiblePublisherCodec(f, codec)
<1>1. source = IF P = {} THEN None ELSE f.codecs[Min(P)]
  BY Zenon DEF CompatiblePublisherCodec, First
<1>2. P \subseteq DOMAIN f.codecs /\ \A i \in P : Fits(f.codecs[i])
  OBVIOUS
<1> HIDE DEF P, source
<1>3. IsSequence(f.codecs) /\ \A i \in DOMAIN f.codecs : CodecRead(f.codecs[i], o)
  BY DEF Summarized
<1>4. source # None
  BY DEF source
<1>5. P # {} /\ source = f.codecs[Min(P)]
  BY <1>1, <1>4
<1>6. Min(P) \in P
  BY <1>2, <1>3, <1>5, FirstPosition
<1>7. Fits(source) /\ source \in Elements(f.codecs) /\ CodecRead(source, o)
  BY <1>2, <1>3, <1>5, <1>6 DEF Elements
<1>8. NormalizedCodec(f.kind, source) # Refused /\ CodecsAreCompatible(NormalizedCodec(f.kind, source), codec)
  BY <1>7
<1>9. NormalizedCodec(f.kind, source).name = source.name
  BY <1>7, <1>8, NormalizedIsPrimary
<1>10. NormalizedCodec(f.kind, source).name = codec.name
  BY <1>8, Zenon DEF CodecsAreCompatible
<1> QED
  BY <1>7, <1>8, <1>9, <1>10 DEF Feeds, source

\* Every supported codec of an offered section is among those negotiated.
LEMMA SortingKeeps ==
  ASSUME NEW s, IsSequence(s)
  PROVE  IsSequence(SortedByPreference(s)) /\ Elements(SortedByPreference(s)) = Elements(s)
<1> DEFINE P == {i \in DOMAIN s : PreferenceRank(s[i]) = 0}
           Q == {i \in DOMAIN s : PreferenceRank(s[i]) = 10}
           a == Picked(s, P)
           b == Picked(s, Q)
           t == a \o b
<1>1. SortedByPreference(s) = t
  BY DEF SortedByPreference, Where
<1>2. P \subseteq DOMAIN s /\ Q \subseteq DOMAIN s /\ DOMAIN s = P \cup Q
  BY DEF PreferenceRank
<1> HIDE DEF P, Q
<1>3. Sifted(a, s, P) /\ Sifted(b, s, Q)
  BY <1>2, PickedSifts
<1> HIDE DEF a, b, t
<1>4. IsSequence(a) /\ IsSequence(b)
  BY <1>3 DEF Sifted
<1>5. IsSequence(t) /\ Elements(t) = Elements(a) \cup Elements(b)
  BY <1>4, JoinedSequence DEF t
<1>6. Elements(a) \cup Elements(b) = Elements(s)
  BY <1>2, <1>3 DEF Sifted, Elements
<1> QED
  BY <1>1, <1>5, <1>6

LEMMA GrownElements ==
  ASSUME NEW a, IsSequence(a), NEW b, IsSequence(b), Grown(a, b)
  PROVE  Elements(a) \subseteq Elements(b)
<1>1. Len(a) \in Nat /\ Len(b) \in Nat /\ DOMAIN a = 1..Len(a) /\ DOMAIN b = 1..Len(b)
  BY SequenceIsFunction
<1>2. \A i \in DOMAIN a : i \in DOMAIN b /\ b[i] = a[i]
  BY <1>1 DEF Grown
<1> QED
  BY <1>2 DEF Elements

LEMMA NormalizedIsAnswerable ==
  ASSUME NEW m, IsSequence(m.codecs), NEW c \in Elements(m.codecs), NormalizedCodec(m.kind, c) # Refused,
         NormalizedCodec(m.kind, c).pt \in Elements(m.formats)
  PROVE  IsSequence(Answerable(m)) /\ NormalizedCodec(m.kind, c) \in Elements(Answerable(m))
<1> DEFINE all == [i \in DOMAIN m.codecs |-> NormalizedCodec(m.kind, m.codecs[i])]
           P == {i \in DOMAIN all : all[i] # Refused /\ all[i].pt \in Elements(m.formats)}
<1>1. Answerable(m) = Picked(all, P)
  BY DEF Answerable, Where
<1>2. PICK j \in DOMAIN m.codecs : c = m.codecs[j]
  BY DEF Elements
<1>3. j \in P /\ all[j] = NormalizedCodec(m.kind, c) /\ P \subseteq DOMAIN all
  BY <1>2
<1>4. IsSequence(all)
  <2>1. Len(m.codecs) \in Nat /\ DOMAIN m.codecs = 1..Len(m.codecs)
    BY SequenceIsFunction
  <2>2. all = [i \in 1..Len(m.codecs) |-> all[i]]
    BY <2>1
  <2> HIDE DEF all
  <2> QED
    BY <2>1, <2>2, FunctionIsSequence
<1> HIDE DEF all, P
<1>5. Sifted(Picked(all, P), all, P)
  BY <1>3, <1>4, PickedSifts
<1> QED
  BY <1>1, <1>3, <1>5 DEF Sifted, Elements

\* The publisher was told to use every codec that can feed another.
LEMMA SourceIsAnswered ==
  ASSUME NEW d, NEW o, NEW f, Summarized(d, o, f), WhipAnswerMedia(f).port # 0,
         NEW codec, NEW p, Feeds(p, f, codec)
  PROVE  p.pt \in Elements(WhipAnswerMedia(f).formats)
<1> DEFINE codecs == NegotiatedForOffer(f)
           P == {k \in DOMAIN codecs : codecs[k].name # "rtx"}
           primary == Where(codecs, LAMBDA c : c.name # "rtx")
           accepted == AcceptedMedia(f, None, <<>>, primary)
           answered == IF f.direction = "inactive" THEN Refused ELSE IF codecs = Refused THEN Refused ELSE accepted
           q == NormalizedCodec(f.kind, p)
<1>1. WhipAnswerMedia(f) = IF answered = Refused THEN RejectedMedia(f) ELSE answered
  BY Zenon DEF WhipAnswerMedia, AndThen, OrRejected
<1>2. RejectedMedia(f).port = 0
  BY DEF RejectedMedia
<1>3. codecs # Refused /\ WhipAnswerMedia(f) = accepted
  <2> HIDE DEF codecs, accepted
  <2> QED
    BY <1>1, <1>2
<1>4. accepted.formats = FormatsOf(primary)
  BY DEF AcceptedMedia, FormatsOf
<1>5. primary = Picked(codecs, P) /\ P \subseteq DOMAIN codecs
  BY DEF Where
<1>6. IsSequence(f.codecs) /\ p \in Elements(f.codecs) /\ q # Refused /\ p.pt \in Elements(f.formats) /\ CodecRead(p, o)
  BY DEF Summarized, Feeds, Elements
<1> HIDE DEF accepted, answered, primary, P
<1>7. q.pt = p.pt /\ q.name # "rtx"
  BY <1>6, NormalizedIsPrimary
<1> HIDE DEF q
<1>8. IsSequence(Answerable(f)) /\ q \in Elements(Answerable(f))
  BY <1>6, <1>7, NormalizedIsAnswerable DEF q
<1>9. IsSequence(SortedByPreference(Answerable(f))) /\ q \in Elements(SortedByPreference(Answerable(f)))
  BY <1>8, SortingKeeps
<1>10. IsSequence(codecs) /\ Grown(SortedByPreference(Answerable(f)), codecs)
  BY <1>3, <1>6, <1>9, WithRtxGrows DEF NegotiatedForOffer
<1> HIDE DEF codecs
<1>11. PICK k \in DOMAIN codecs : codecs[k] = q
  BY <1>9, <1>10, GrownElements DEF Elements
<1>12. k \in P
  BY <1>7, <1>11 DEF P
<1>13. Sifted(primary, codecs, P)
  BY <1>5, <1>10, PickedSifts
<1>14. PICK l \in DOMAIN primary : primary[l] = q
  BY <1>11, <1>12, <1>13 DEF Sifted
<1> QED
  BY <1>3, <1>4, <1>7, <1>14 DEF FormatsOf, Elements

-----------------------------------------------------------------------------
(* The publisher's section that a section is fed from.                     *)

MidsDiffer(media) == \A i, j \in DOMAIN media : media[i].mid = media[j].mid => i = j

\* f is the runtime summary of the n-th section of the publisher p.
IsSection(p, f, n) ==
  /\ n \in Accepted(p) /\ p.answer.media[n] = WhipAnswerMedia(f) /\ Summarized(Offers[p.name], OfferedMedia(p)[n], f)
  /\ \A k \in DOMAIN p.answer.media : p.answer.media[k].mid = f.mid => k = n

LEMMA PublisherSections ==
  ASSUME NEW p, PublisherBorn(p)
  PROVE  /\ IsSequence(p.offer.media) /\ MidsDiffer(p.offer.media)
         /\ \A k \in DOMAIN p.offer.media : \E n : IsSection(p, p.offer.media[k], n)
<1>1. PICK offer : Born(p, offer, WhipMedia(offer))
  BY DEF PublisherBorn
<1> DEFINE d == Offers[p.name]
           accepted == p.accepted
           media == p.offer.media
           answered == p.answer.media
<1>2. /\ p.name \in DOMAIN Offers /\ SummaryOf(offer, d) /\ IsAnswer(p.answer, WhipMedia(offer))
      /\ accepted = p.answer.accepted /\ media = [i \in DOMAIN accepted |-> offer.media[accepted[i] + 1]]
      /\ MidsDiffer(offer.media) /\ IsSequence(offer.media) /\ OfferedMedia(p) = Offered(d)
  BY <1>1, Zenon DEF Born, IsRuntime, CommonOfferIsValid, MidsAreUnique, Distinct, MidsDiffer, AnswersEach, OfferedMedia, Offered
<1>3. /\ IsSequence(accepted) /\ Distinct(accepted) /\ answered = WhipMedia(offer)
      /\ Elements(accepted) = {i - 1 : i \in Accepted(p)}
  BY <1>2 DEF IsAnswer, Accepted
<1>4. DOMAIN answered = DOMAIN offer.media /\ \A i \in DOMAIN answered : answered[i] = WhipAnswerMedia(offer.media[i])
  BY <1>3 DEF WhipMedia
<1>5. \A i \in DOMAIN answered : answered[i].mid = offer.media[i].mid
  BY <1>4, AnswersKeepTheirSection
<1>6. Accepted(p) \subseteq DOMAIN offer.media /\ DOMAIN offer.media \subseteq Nat
  BY <1>2, <1>4, SequenceIsFunction DEF Accepted
<1>7. \A i \in DOMAIN accepted : accepted[i] \in Int /\ accepted[i] + 1 \in Accepted(p)
  <2> TAKE i \in DOMAIN accepted
  <2>1. accepted[i] \in Elements(accepted)
    BY DEF Elements
  <2>2. PICK k \in Accepted(p) : accepted[i] = k - 1
    BY <1>3, <2>1
  <2>3. k \in Nat
    BY <1>6
  <2> QED
    BY <2>2, <2>3
<1> HIDE DEF d, accepted, media, answered
<1>8. IsSequence(media) /\ DOMAIN media = DOMAIN accepted
  <2>1. Len(accepted) \in Nat /\ DOMAIN accepted = 1..Len(accepted)
    BY <1>3, SequenceIsFunction
  <2>2. media = [i \in 1..Len(accepted) |-> media[i]]
    BY <1>2, <2>1
  <2> QED
    BY <2>1, <2>2, FunctionIsSequence
<1>9. \A k \in DOMAIN media : media[k] = offer.media[accepted[k] + 1] /\ accepted[k] + 1 \in DOMAIN offer.media
  BY <1>2, <1>6, <1>7, <1>8
<1>10. MidsDiffer(media)
  <2> SUFFICES ASSUME NEW k \in DOMAIN media, NEW l \in DOMAIN media, media[k].mid = media[l].mid PROVE k = l
    BY SMTT(40) DEF MidsDiffer
  <2> DEFINE x == accepted[k] + 1
             y == accepted[l] + 1
  <2>1. x = y
    <3>1. /\ media[k] = offer.media[x] /\ x \in DOMAIN offer.media
          /\ media[l] = offer.media[y] /\ y \in DOMAIN offer.media
      BY <1>9
    <3> HIDE DEF x, y
    <3>2. offer.media[x].mid = offer.media[y].mid
      BY <3>1
    <3> QED
      BY <1>2, <3>1, <3>2 DEF MidsDiffer
  <2>2. accepted[k] = accepted[l]
    BY <1>7, <1>8, <2>1
  <2> QED
    BY <1>3, <1>8, <2>2 DEF Distinct
<1>11. ASSUME NEW k \in DOMAIN media PROVE IsSection(p, media[k], accepted[k] + 1)
  <2> DEFINE n == accepted[k] + 1
  <2>1. n \in Accepted(p) /\ n \in DOMAIN offer.media /\ media[k] = offer.media[n]
    BY <1>7, <1>8, <1>9, <1>11
  <2> HIDE DEF n
  <2>2. answered[n] = WhipAnswerMedia(media[k])
    BY <1>4, <2>1
  <2>3. Summarized(d, OfferedMedia(p)[n], media[k])
    <3>1. Summarized(Offers[p.name], Offered(Offers[p.name])[n], offer.media[n])
      BY <1>2, <2>1, SectionIsSummarized DEF d
    <3> QED
      BY <1>2, <2>1, <3>1 DEF d
  <2>4. \A l \in DOMAIN answered : answered[l].mid = media[k].mid => l = n
    BY <1>2, <1>4, <1>5, <2>1 DEF MidsDiffer
  <2> QED
    BY <2>1, <2>2, <2>3, <2>4 DEF IsSection, n, d, answered
<1> QED
  BY <1>8, <1>10, <1>11 DEF media

\* The position of the section at the publisher that feeds the section m.
FedFrom(m, offer, from, k) == ForwardedMedia(m, offer, from) = from.media[k] /\ from.media[k].kind = m.kind

LEMMA ForwardedIsFound ==
  ASSUME NEW offer, IsSequence(offer.media), MidsDiffer(offer.media), NEW from, IsSequence(from.media),
         NEW i \in DOMAIN offer.media, ForwardedMedia(offer.media[i], offer, from) # None
  PROVE  LET m == offer.media[i]
             own == ReceiveCapable(offer, m.kind)
             sources == SendCapable(from, m.kind)
             at == ReceiveOrdinal(offer, m)
         IN  /\ IsSequence(own) /\ at \in DOMAIN own /\ own[at].mid = m.mid
             /\ ForwardedMedia(m, offer, from) = sources[at] /\ at \in DOMAIN sources
             /\ \E P : /\ P \subseteq DOMAIN from.media /\ Sifted(sources, from.media, P)
                       /\ \A k \in P : from.media[k].kind = m.kind
<1> DEFINE m == offer.media[i]
           R == {j \in DOMAIN offer.media : offer.media[j].kind = m.kind /\ CanReceive(offer.media[j])}
           S == {j \in DOMAIN from.media : from.media[j].kind = m.kind /\ CanSend(from.media[j])}
           own == ReceiveCapable(offer, m.kind)
           sources == SendCapable(from, m.kind)
           at == ReceiveOrdinal(offer, m)
<1>1. own = Picked(offer.media, R) /\ sources = Picked(from.media, S)
  BY DEF ReceiveCapable, SendCapable, Where
<1>2. CanReceive(m) /\ Len(own) = Len(sources) /\ ForwardedMedia(m, offer, from) = sources[at]
  BY DEF ForwardedMedia
<1>3. at = CHOOSE x \in DOMAIN own : own[x].mid = m.mid
  BY DEF ReceiveOrdinal
<1>4. i \in R /\ R \subseteq DOMAIN offer.media /\ S \subseteq DOMAIN from.media /\ \A k \in S : from.media[k].kind = m.kind
  BY <1>2
<1> HIDE DEF R, S, own, sources, at
<1>5. Sifted(own, offer.media, R) /\ Sifted(sources, from.media, S)
  BY <1>1, <1>4, PickedSifts
<1>6. at \in DOMAIN own /\ own[at].mid = m.mid
  <2>1. \E x \in DOMAIN own : own[x] = m
    BY <1>4, <1>5 DEF Sifted
  <2> HIDE DEF m
  <2>2. \E x \in DOMAIN own : own[x].mid = m.mid
    BY <2>1
  <2> QED
    BY <1>3, <2>2
<1>7. IsSequence(own) /\ at \in DOMAIN sources
  BY <1>2, <1>5, <1>6, SequenceIsFunction DEF Sifted
<1> HIDE DEF m
<1>8. /\ IsSequence(own) /\ at \in DOMAIN own /\ own[at].mid = m.mid
      /\ ForwardedMedia(m, offer, from) = sources[at] /\ at \in DOMAIN sources
      /\ \E P : /\ P \subseteq DOMAIN from.media /\ Sifted(sources, from.media, P)
                /\ \A k \in P : from.media[k].kind = m.kind
  BY <1>2, <1>4, <1>5, <1>6, <1>7
<1> QED
  BY <1>8 DEF m, own, sources, at

\* Different sections are fed from different ones.
LEMMA ForwardedDiffer ==
  ASSUME NEW offer, IsSequence(offer.media), MidsDiffer(offer.media),
         NEW from, IsSequence(from.media), MidsDiffer(from.media)
  PROVE  /\ \A i \in DOMAIN offer.media : ForwardedMedia(offer.media[i], offer, from) # None =>
              \E k \in DOMAIN from.media : FedFrom(offer.media[i], offer, from, k)
         /\ \A i, j \in DOMAIN offer.media :
              LET a == ForwardedMedia(offer.media[i], offer, from)
                  b == ForwardedMedia(offer.media[j], offer, from)
              IN  a # None /\ b # None /\ a.mid = b.mid => i = j
<1>1. ASSUME NEW i \in DOMAIN offer.media, ForwardedMedia(offer.media[i], offer, from) # None
      PROVE  \E k \in DOMAIN from.media : FedFrom(offer.media[i], offer, from, k)
  <2> DEFINE m == offer.media[i]
             sources == SendCapable(from, m.kind)
             at == ReceiveOrdinal(offer, m)
  <2>1. PICK P : /\ P \subseteq DOMAIN from.media /\ Sifted(sources, from.media, P)
                 /\ \A k \in P : from.media[k].kind = m.kind
    BY <1>1, ForwardedIsFound
  <2>2. ForwardedMedia(m, offer, from) = sources[at] /\ at \in DOMAIN sources
    BY <1>1, ForwardedIsFound
  <2> HIDE DEF m, sources, at
  <2>3. PICK k \in P : sources[at] = from.media[k]
    BY <2>1, <2>2 DEF Sifted
  <2>4. FedFrom(m, offer, from, k) /\ k \in DOMAIN from.media
    BY <2>1, <2>2, <2>3 DEF FedFrom
  <2> QED
    BY <2>4 DEF m
<1>2. ASSUME NEW i \in DOMAIN offer.media, NEW j \in DOMAIN offer.media,
             ForwardedMedia(offer.media[i], offer, from) # None, ForwardedMedia(offer.media[j], offer, from) # None,
             ForwardedMedia(offer.media[i], offer, from).mid = ForwardedMedia(offer.media[j], offer, from).mid
      PROVE  i = j
  <2> DEFINE m == offer.media[i]
             l == offer.media[j]
  <2>1. PICK u \in DOMAIN from.media : FedFrom(m, offer, from, u)
    BY <1>1, <1>2
  <2>2. PICK v \in DOMAIN from.media : FedFrom(l, offer, from, v)
    BY <1>1, <1>2
  <2>3. u = v
    BY <1>2, <2>1, <2>2 DEF FedFrom, MidsDiffer
  <2>4. m.kind = l.kind
    BY <2>1, <2>2, <2>3 DEF FedFrom
  <2> DEFINE own == ReceiveCapable(offer, m.kind)
             sources == SendCapable(from, m.kind)
             at == ReceiveOrdinal(offer, m)
             other == ReceiveOrdinal(offer, l)
  <2>5. /\ own[at].mid = m.mid /\ ForwardedMedia(m, offer, from) = sources[at] /\ at \in DOMAIN sources
        /\ \E P : P \subseteq DOMAIN from.media /\ Sifted(sources, from.media, P)
    BY <1>2, ForwardedIsFound
  <2>6. /\ ReceiveCapable(offer, l.kind)[other].mid = l.mid
        /\ ForwardedMedia(l, offer, from) = SendCapable(from, l.kind)[other] /\ other \in DOMAIN SendCapable(from, l.kind)
    BY <1>2, ForwardedIsFound
  <2>7. own[other].mid = l.mid /\ ForwardedMedia(l, offer, from) = sources[other] /\ other \in DOMAIN sources
    BY <2>4, <2>6
  <2>8. PICK P : P \subseteq DOMAIN from.media /\ Sifted(sources, from.media, P)
    BY <2>5
  <2> HIDE DEF own, sources, at, other, m, l
  <2>9. at = other
    <3> SUFFICES ASSUME at # other PROVE FALSE
      OBVIOUS
    <3>1. PICK x \in P, y \in P : x # y /\ sources[at] = from.media[x] /\ sources[other] = from.media[y]
      BY <2>5, <2>7, <2>8 DEF Sifted
    <3>2. from.media[x].mid = from.media[y].mid
      BY <1>2, <2>5, <2>7, <3>1 DEF m, l
    <3> QED
      BY <2>8, <3>1, <3>2 DEF MidsDiffer
  <2>10. m.mid = l.mid
    BY <2>5, <2>7, <2>9
  <2> QED
    BY <2>10 DEF MidsDiffer, m, l
<1> QED
  BY <1>1, <1>2

-----------------------------------------------------------------------------
(* The payload types of an answer and those of the publisher.              *)

NoneRefused(s) == \A i \in DOMAIN s : s[i] # Refused

PrimaryCodecs(codecs) == Where(codecs, LAMBDA c : ~IsRtx(c))

RepairCodecs(codecs) == Where(codecs, IsRtx)

PrimaryMaps(codecs, f) ==
  [i \in DOMAIN PrimaryCodecs(codecs) |->
    PrimaryMapping(PrimaryCodecs(codecs)[i], CompatiblePublisherCodec(f, PrimaryCodecs(codecs)[i]))]

RepairMaps(codecs, f) ==
  [i \in DOMAIN RepairCodecs(codecs) |-> RtxMapping(RepairCodecs(codecs)[i], PrimaryMaps(codecs, f), f)]

LEMMA TypesAreTwoLists ==
  ASSUME NEW codecs, NEW f
  PROVE  LET primaries == PrimaryMaps(codecs, f)
             repairs == RepairMaps(codecs, f)
             types == PayloadTypeMappings(codecs, f)
         IN  /\ types # Refused => NoneRefused(primaries) /\ NoneRefused(repairs) /\ types = primaries \o repairs
             /\ IsNoData(Refused) /\ NoneRefused(primaries) /\ NoneRefused(repairs) => types = primaries \o repairs
<1> DEFINE primaries == PrimaryMaps(codecs, f)
           repairs == RepairMaps(codecs, f)
           types == PayloadTypeMappings(codecs, f)
           OneRefused(s) == \E i \in DOMAIN s : s[i] = Refused
           A == IF \E i \in DOMAIN PrimaryCodecs(codecs) : primaries[i] = Refused THEN Refused ELSE primaries
           mapped(mappings) == [i \in DOMAIN RepairCodecs(codecs) |-> RtxMapping(RepairCodecs(codecs)[i], mappings, f)]
           B(mappings) == IF \E i \in DOMAIN RepairCodecs(codecs) : mapped(mappings)[i] = Refused
                          THEN Refused ELSE mapped(mappings)
<1>1. types = IF A = Refused THEN Refused ELSE IF B(A) = Refused THEN Refused ELSE A \o B(A)
  BY Zenon DEF PayloadTypeMappings, AndThen, MapAll, PrimaryCodecs, RepairCodecs, PrimaryMaps
<1>2. mapped(primaries) = repairs
  BY DEF RepairMaps
<1>3. DOMAIN primaries = DOMAIN PrimaryCodecs(codecs) /\ DOMAIN repairs = DOMAIN RepairCodecs(codecs)
  BY DEF PrimaryMaps, RepairMaps
<1>4. IsData(primaries) /\ IsData(repairs)
  BY DEF IsData, PrimaryMaps, RepairMaps
<1> HIDE DEF types, primaries, repairs, mapped
<1>5. A = IF NoneRefused(primaries) THEN primaries ELSE Refused
  BY <1>3 DEF NoneRefused
<1>6. B(primaries) = IF NoneRefused(repairs) THEN repairs ELSE Refused
  BY <1>2, <1>3 DEF NoneRefused
<1> HIDE DEF A, B
<1>7. types # Refused => NoneRefused(primaries) /\ NoneRefused(repairs) /\ types = primaries \o repairs
  BY <1>1, <1>5, <1>6
<1>8. IsNoData(Refused) /\ NoneRefused(primaries) /\ NoneRefused(repairs) => types = primaries \o repairs
  BY <1>1, <1>4, <1>5, <1>6 DEF IsNoData
<1> QED
  BY <1>7, <1>8 DEF types, primaries, repairs

\* x is how the primary codec c is fed, and how the repairs of what y feeds are.
PrimaryMapped(x, c, f) ==
  LET p == CompatiblePublisherCodec(f, c)
  IN  ~IsRtx(c) /\ p # None /\ x = [source |-> p.pt, target |-> c.pt, apt |-> None, sourceApt |-> None]

RepairMapped(x, c, y, f) ==
  LET p == RtxForApt(f, y.source)
  IN  /\ IsRtx(c) /\ y.apt = None /\ y.target = Apt(c) /\ p # None
      /\ x = [source |-> p.pt, target |-> c.pt, apt |-> y.target, sourceApt |-> y.source]

LEMMA MappedSequence ==
  ASSUME NEW s, IsSequence(s), NEW t, IsData(t), DOMAIN t = DOMAIN s
  PROVE  IsSequence(t) /\ Len(t) = Len(s)
<1>1. Len(s) \in Nat /\ DOMAIN s = 1..Len(s)
  BY SequenceIsFunction
<1>2. t = [i \in 1..Len(s) |-> t[i]]
  BY <1>1 DEF IsData
<1> QED
  BY <1>1, <1>2, FunctionIsSequence

LEMMA CodecsAreSplit ==
  ASSUME NEW codecs, IsSequence(codecs)
  PROVE  /\ IsSequence(PrimaryCodecs(codecs)) /\ IsSequence(RepairCodecs(codecs))
         /\ Elements(PrimaryCodecs(codecs)) = {c \in Elements(codecs) : ~IsRtx(c)}
         /\ Elements(RepairCodecs(codecs)) = {c \in Elements(codecs) : IsRtx(c)}
<1> DEFINE P == {i \in DOMAIN codecs : ~IsRtx(codecs[i])}
           Q == {i \in DOMAIN codecs : IsRtx(codecs[i])}
           a == PrimaryCodecs(codecs)
           b == RepairCodecs(codecs)
<1>1. a = Picked(codecs, P) /\ b = Picked(codecs, Q)
  BY DEF PrimaryCodecs, RepairCodecs, Where
<1>2. P \subseteq DOMAIN codecs /\ Q \subseteq DOMAIN codecs
  OBVIOUS
<1> HIDE DEF a, b
<1>3. Sifted(a, codecs, P) /\ Sifted(b, codecs, Q)
  BY <1>1, <1>2, PickedSifts
<1>4. IsSequence(a) /\ IsSequence(b)
  BY <1>3 DEF Sifted
<1>5. Elements(a) = {codecs[i] : i \in P} /\ Elements(b) = {codecs[i] : i \in Q}
  BY <1>3 DEF Sifted, Elements
<1>6. Elements(a) = {c \in Elements(codecs) : ~IsRtx(c)} /\ Elements(b) = {c \in Elements(codecs) : IsRtx(c)}
  BY <1>5 DEF Elements
<1> QED
  BY <1>4, <1>6 DEF a, b

LEMMA PrimariesAreMapped ==
  ASSUME NEW codecs, IsSequence(codecs), NEW f, NoneRefused(PrimaryMaps(codecs, f))
  PROVE  LET maps == PrimaryMaps(codecs, f)
         IN  /\ IsSequence(maps)
             /\ \A x \in Elements(maps) : \E c \in Elements(codecs) : PrimaryMapped(x, c, f)
             /\ \A c \in Elements(codecs) : ~IsRtx(c) => \E x \in Elements(maps) : PrimaryMapped(x, c, f)
<1> DEFINE s == PrimaryCodecs(codecs)
           maps == PrimaryMaps(codecs, f)
<1>1. IsData(maps) /\ DOMAIN maps = DOMAIN s
      /\ \A i \in DOMAIN s : maps[i] = PrimaryMapping(s[i], CompatiblePublisherCodec(f, s[i]))
  BY DEF PrimaryMaps, IsData
<1>2. IsSequence(s) /\ Elements(s) = {c \in Elements(codecs) : ~IsRtx(c)}
  BY CodecsAreSplit
<1> HIDE DEF s, maps
<1>3. IsSequence(maps)
  BY <1>1, <1>2, MappedSequence
<1>4. \A i \in DOMAIN s : s[i] \in Elements(codecs) /\ ~IsRtx(s[i])
  BY <1>2 DEF Elements
<1>5. ASSUME NEW i \in DOMAIN s PROVE PrimaryMapped(maps[i], s[i], f)
  <2>1. maps[i] # Refused /\ maps[i] = PrimaryMapping(s[i], CompatiblePublisherCodec(f, s[i]))
    BY <1>1 DEF NoneRefused, maps
  <2> QED
    BY <1>4, <2>1 DEF PrimaryMapped, PrimaryMapping
<1>6. \A x \in Elements(maps) : \E c \in Elements(codecs) : PrimaryMapped(x, c, f)
  BY <1>1, <1>4, <1>5 DEF Elements
<1>7. \A c \in Elements(codecs) : ~IsRtx(c) => \E x \in Elements(maps) : PrimaryMapped(x, c, f)
  <2> SUFFICES ASSUME NEW c \in Elements(codecs), ~IsRtx(c) PROVE \E x \in Elements(maps) : PrimaryMapped(x, c, f)
    OBVIOUS
  <2>1. PICK i \in DOMAIN s : c = s[i]
    BY <1>2 DEF Elements
  <2> QED
    BY <1>1, <1>5, <2>1 DEF Elements
<1> QED
  BY <1>3, <1>6, <1>7 DEF maps

\* What RtxMapping looks for.
LEMMA RepairIsMapped ==
  ASSUME NEW c, IsRtx(c), NEW f, NEW codecs, IsSequence(codecs), NoneRefused(PrimaryMaps(codecs, f)),
         RtxMapping(c, PrimaryMaps(codecs, f), f) # Refused
  PROVE  \E y \in Elements(PrimaryMaps(codecs, f)) : RepairMapped(RtxMapping(c, PrimaryMaps(codecs, f), f), c, y, f)
<1> DEFINE maps == PrimaryMaps(codecs, f)
           P == {i \in DOMAIN maps : maps[i].target = Apt(c)}
           y == IF P = {} THEN None ELSE maps[Min(P)]
           p == IF y = None THEN None ELSE RtxForApt(f, y.source)
           x == RtxMapping(c, maps, f)
<1>1. x = IF p = None THEN Refused ELSE [source |-> p.pt, target |-> c.pt, apt |-> y.target, sourceApt |-> y.source]
  BY DEF RtxMapping, First
<1>2. P \subseteq DOMAIN maps /\ \A i \in P : maps[i].target = Apt(c)
  OBVIOUS
<1>3. P # {} => y = maps[Min(P)]
  OBVIOUS
<1>4. P = {} => y = None
  OBVIOUS
<1> HIDE DEF maps, P, x
<1>5. IsSequence(maps) /\ \A z \in Elements(maps) : \E q \in Elements(codecs) : PrimaryMapped(z, q, f)
  BY PrimariesAreMapped DEF maps
<1> HIDE DEF p
<1>6. x # Refused
  BY DEF x, maps
<1>7. p # None /\ x = [source |-> p.pt, target |-> c.pt, apt |-> y.target, sourceApt |-> y.source]
  <2> HIDE DEF y
  <2> QED
    BY <1>1, <1>6
<1>8. y # None /\ p = RtxForApt(f, y.source)
  <2> HIDE DEF y
  <2> QED
    BY <1>7 DEF p
<1>9. P # {} /\ y = maps[Min(P)] /\ Min(P) \in P
  BY <1>2, <1>3, <1>4, <1>5, <1>8, FirstPosition
<1> HIDE DEF y
<1>10. y \in Elements(maps) /\ y.target = Apt(c)
  BY <1>2, <1>9 DEF Elements
<1>11. y.apt = None
  <2>1. PICK q : PrimaryMapped(y, q, f)
    BY <1>5, <1>10
  <2> QED
    BY <2>1 DEF PrimaryMapped
<1>12. RepairMapped(x, c, y, f)
  BY <1>7, <1>8, <1>10, <1>11 DEF RepairMapped
<1> QED
  BY <1>10, <1>12 DEF x, maps

\* all tells how every one of the codecs is fed, and nothing else.
TypesMapped(all, codecs, f) ==
  /\ IsSequence(all)
  /\ \A x \in Elements(all) : \E c \in Elements(codecs) :
       PrimaryMapped(x, c, f) \/ \E y \in Elements(all) : RepairMapped(x, c, y, f)
  /\ \A c \in Elements(codecs) : \E x \in Elements(all) :
       PrimaryMapped(x, c, f) \/ \E y \in Elements(all) : RepairMapped(x, c, y, f)

LEMMA TypesAreMapped ==
  ASSUME NEW codecs, IsSequence(codecs), NEW f, NoneRefused(PrimaryMaps(codecs, f)), NoneRefused(RepairMaps(codecs, f))
  PROVE  TypesMapped(PrimaryMaps(codecs, f) \o RepairMaps(codecs, f), codecs, f)
<1> DEFINE maps == PrimaryMaps(codecs, f)
           s == RepairCodecs(codecs)
           repairs == RepairMaps(codecs, f)
           all == maps \o repairs
<1>1. IsData(repairs) /\ DOMAIN repairs = DOMAIN s /\ \A i \in DOMAIN s : repairs[i] = RtxMapping(s[i], maps, f)
  BY DEF RepairMaps, IsData
<1>2. IsSequence(s) /\ Elements(s) = {c \in Elements(codecs) : IsRtx(c)}
  BY CodecsAreSplit
<1>3. /\ IsSequence(maps)
      /\ \A x \in Elements(maps) : \E c \in Elements(codecs) : PrimaryMapped(x, c, f)
      /\ \A c \in Elements(codecs) : ~IsRtx(c) => \E x \in Elements(maps) : PrimaryMapped(x, c, f)
  BY PrimariesAreMapped
<1>4. \A c : IsRtx(c) /\ RtxMapping(c, maps, f) # Refused => \E y \in Elements(maps) : RepairMapped(RtxMapping(c, maps, f), c, y, f)
  BY RepairIsMapped
<1>5. \A i \in DOMAIN repairs : repairs[i] # Refused
  BY DEF NoneRefused
<1> HIDE DEF maps, s, repairs, all
<1>6. IsSequence(repairs)
  BY <1>1, <1>2, MappedSequence
<1>7. IsSequence(all) /\ Elements(all) = Elements(maps) \cup Elements(repairs)
  BY <1>3, <1>6, JoinedSequence DEF all
<1>8. ASSUME NEW i \in DOMAIN s
      PROVE  /\ s[i] \in Elements(codecs) /\ IsRtx(s[i])
             /\ \E y \in Elements(all) : RepairMapped(repairs[i], s[i], y, f)
  <2>1. s[i] \in Elements(codecs) /\ IsRtx(s[i])
    BY <1>2, <1>8 DEF Elements
  <2>2. repairs[i] = RtxMapping(s[i], maps, f) /\ repairs[i] # Refused
    BY <1>1, <1>5, <1>8
  <2>3. PICK y \in Elements(maps) : RepairMapped(repairs[i], s[i], y, f)
    BY <1>4, <2>1, <2>2
  <2> QED
    BY <1>7, <2>1, <2>3
<1>9. \A x \in Elements(all) : \E c \in Elements(codecs) :
        PrimaryMapped(x, c, f) \/ \E y \in Elements(all) : RepairMapped(x, c, y, f)
  <2> SUFFICES ASSUME NEW x \in Elements(all)
               PROVE  \E c \in Elements(codecs) : PrimaryMapped(x, c, f) \/ \E y \in Elements(all) : RepairMapped(x, c, y, f)
    OBVIOUS
  <2>1. CASE x \in Elements(maps)
    BY <1>3, <2>1
  <2>2. CASE x \in Elements(repairs)
    <3>1. PICK i \in DOMAIN s : x = repairs[i]
      BY <1>1, <2>2 DEF Elements
    <3> QED
      BY <1>8, <3>1
  <2> QED
    BY <1>7, <2>1, <2>2
<1>10. \A c \in Elements(codecs) : \E x \in Elements(all) :
         PrimaryMapped(x, c, f) \/ \E y \in Elements(all) : RepairMapped(x, c, y, f)
  <2> SUFFICES ASSUME NEW c \in Elements(codecs)
               PROVE  \E x \in Elements(all) : PrimaryMapped(x, c, f) \/ \E y \in Elements(all) : RepairMapped(x, c, y, f)
    OBVIOUS
  <2>1. CASE ~IsRtx(c)
    BY <1>3, <1>7, <2>1
  <2>2. CASE IsRtx(c)
    <3>1. PICK i \in DOMAIN s : c = s[i]
      BY <1>2, <2>2 DEF Elements
    <3>2. repairs[i] \in Elements(all)
      BY <1>1, <1>7, <3>1 DEF Elements
    <3> QED
      BY <1>8, <3>1, <3>2
  <2> QED
    BY <2>1, <2>2
<1>11. TypesMapped(all, codecs, f)
  BY <1>7, <1>9, <1>10, Zenon DEF TypesMapped
<1> QED
  BY <1>11 DEF all, maps, repairs

\* The mapping of a payload type, made of x.
PayloadOf(x, m) ==
  LET codec == ByPayloadType(m.codecs, IF x.apt = None THEN x.target ELSE x.apt)
  IN  IF codec = None \/ codec.clock = 0 THEN Refused
      ELSE [source |-> x.source, target |-> x.target, rtx |-> x.apt # None,
            sourceApt |-> x.sourceApt, apt |-> x.apt, clock |-> codec.clock,
            nack |-> x.apt = None /\ SupportsNack(codec)]

KeptTypes(types, source) == Where(types, LAMBDA x : x.apt = None \/ source.rtx # None)

PayloadMaps(types, m, source) ==
  [i \in DOMAIN KeptTypes(types, source) |-> PayloadOf(KeptTypes(types, source)[i], m)]

LEMMA PayloadsAreMade ==
  ASSUME NEW m, NEW codecs, NEW f, NEW source
  PROVE  LET types == PayloadTypeMappings(codecs, f)
             maps == PayloadMaps(types, m, source)
             payloads == PayloadMappings(m, codecs, f, source)
         IN  /\ payloads # Refused => types # Refused /\ NoneRefused(maps) /\ payloads = maps
             /\ IsNoData(Refused) /\ types # Refused /\ NoneRefused(maps) => payloads = maps /\ payloads # Refused
<1> DEFINE types == PayloadTypeMappings(codecs, f)
           kept == KeptTypes(types, source)
           maps == PayloadMaps(types, m, source)
           payloads == PayloadMappings(m, codecs, f, source)
           mapped == [i \in DOMAIN kept |-> PayloadOf(kept[i], m)]
           A == IF \E i \in DOMAIN kept : mapped[i] = Refused THEN Refused ELSE mapped
<1>1. payloads = IF types = Refused THEN Refused ELSE A
  BY Zenon DEF PayloadMappings, AndThen, MapAll, KeptTypes, PayloadOf
<1>2. maps = mapped /\ DOMAIN maps = DOMAIN kept /\ IsData(maps)
  BY DEF PayloadMaps, IsData
<1> HIDE DEF payloads, types, kept, maps, mapped
<1>3. A = IF NoneRefused(maps) THEN maps ELSE Refused
  BY <1>2 DEF NoneRefused
<1> HIDE DEF A
<1>4. payloads # Refused => types # Refused /\ NoneRefused(maps) /\ payloads = maps
  BY <1>1, <1>3
<1>5. IsNoData(Refused) /\ types # Refused /\ NoneRefused(maps) => payloads = maps /\ payloads # Refused
  BY <1>1, <1>2, <1>3 DEF IsNoData
<1> QED
  BY <1>4, <1>5 DEF payloads, types, maps

\* How the mapping p of a payload type feeds the codec c of the answer: from a
\* codec of the publisher's section f, or, when c is a repair, from a repair of
\* what q is fed from.
PrimaryFed(p, c, m, f) ==
  LET source == CompatiblePublisherCodec(f, c)
  IN  /\ ~p.rtx /\ ~IsRtx(c) /\ p.target = c.pt /\ Feeds(source, f, c) /\ p.source = source.pt
      /\ p.nack <=> SupportsNack(ByPayloadType(m.codecs, c.pt))

RepairFed(p, c, q, f) ==
  /\ p.rtx /\ ~p.nack /\ IsRtx(c) /\ p.target = c.pt
  /\ ~q.rtx /\ q.target = p.apt /\ q.source = p.sourceApt
  /\ \E s \in Elements(f.codecs) : s.name = "rtx" /\ p.source = s.pt

PayloadsFed(maps, m, codecs, f) ==
  /\ IsSequence(maps)
  /\ \A p \in Elements(maps) : \E c \in Elements(codecs) :
       PrimaryFed(p, c, m, f) \/ \E q \in Elements(maps) : RepairFed(p, c, q, f)
  /\ \A c \in Elements(codecs) : \E p \in Elements(maps) : p.target = c.pt

LEMMA RepairIsGiven ==
  ASSUME NEW f, IsSequence(f.codecs), NEW pt, RtxForApt(f, pt) # None
  PROVE  RtxForApt(f, pt) \in Elements(f.codecs) /\ RtxForApt(f, pt).name = "rtx"
<1> DEFINE s == RtxForApt(f, pt)
           P == {i \in DOMAIN f.codecs : /\ f.codecs[i].pt \in Elements(f.formats) /\ IsRtx(f.codecs[i])
                                         /\ Apt(f.codecs[i]) = pt}
<1>1. s = IF P = {} THEN None ELSE f.codecs[Min(P)]
  BY Zenon DEF RtxForApt, First
<1>2. P \subseteq DOMAIN f.codecs /\ \A i \in P : IsRtx(f.codecs[i])
  OBVIOUS
<1> HIDE DEF P
<1>3. P # {} /\ s = f.codecs[Min(P)]
  <2> HIDE DEF s
  <2> QED
    BY <1>1 DEF s
<1> HIDE DEF s
<1>4. Min(P) \in P
  BY <1>2, <1>3, FirstPosition
<1>5. s \in Elements(f.codecs) /\ IsRtx(s)
  BY <1>2, <1>3, <1>4 DEF Elements
<1>6. s.name = "rtx"
  BY <1>5, SMT DEF IsRtx
<1> QED
  BY <1>5, <1>6 DEF s

LEMMA TypesAreKept ==
  ASSUME NEW m, NEW codecs, Chosen(codecs, m, Len(m.codecs)), NEW source, m.kind = "video" => source.rtx # None,
         NEW f, NEW types, TypesMapped(types, codecs, f)
  PROVE  IsSequence(KeptTypes(types, source)) /\ Elements(KeptTypes(types, source)) = Elements(types)
<1> DEFINE P == {i \in DOMAIN types : types[i].apt = None \/ source.rtx # None}
           kept == KeptTypes(types, source)
<1>1. kept = Picked(types, P)
  BY DEF KeptTypes, Where
<1>2. IsSequence(types)
  BY DEF TypesMapped
<1>3. ASSUME m.kind # "video", NEW x \in Elements(types) PROVE x.apt = None
  <2>1. \A c \in Elements(codecs) : ~IsRtx(c)
    <3> SUFFICES ASSUME NEW k \in DOMAIN codecs, IsRtx(codecs[k]) PROVE FALSE
      BY DEF Elements
    <3>1. codecs[k].name = "rtx"
      BY SMT DEF IsRtx
    <3> QED
      BY <1>3, <3>1 DEF Chosen, PrimaryOf, RepairOf
  <2>2. PICK c \in Elements(codecs) : PrimaryMapped(x, c, f) \/ \E y \in Elements(types) : RepairMapped(x, c, y, f)
    BY <1>3 DEF TypesMapped
  <2>3. PrimaryMapped(x, c, f)
    BY <2>1, <2>2 DEF RepairMapped
  <2> QED
    BY <2>3 DEF PrimaryMapped
<1>4. P = DOMAIN types
  BY <1>3 DEF Elements
<1> HIDE DEF P, kept
<1>5. Sifted(kept, types, P)
  BY <1>1, <1>2, <1>4, PickedSifts
<1>6. IsSequence(kept) /\ Elements(kept) = Elements(types)
  BY <1>4, <1>5 DEF Sifted, Elements
<1> QED
  BY <1>6 DEF kept

LEMMA PayloadsAreFed ==
  ASSUME NEW d, NEW o, NEW f, Summarized(d, o, f), NEW m, NEW codecs, Chosen(codecs, m, Len(m.codecs)),
         NEW source, m.kind = "video" => source.rtx # None, NEW types, TypesMapped(types, codecs, f),
         NoneRefused(PayloadMaps(types, m, source))
  PROVE  PayloadsFed(PayloadMaps(types, m, source), m, codecs, f)
<1> DEFINE kept == KeptTypes(types, source)
           maps == PayloadMaps(types, m, source)
<1>1. IsData(maps) /\ DOMAIN maps = DOMAIN kept /\ \A i \in DOMAIN kept : maps[i] = PayloadOf(kept[i], m)
  BY DEF PayloadMaps, IsData
<1>2. IsSequence(kept) /\ Elements(kept) = Elements(types)
  BY TypesAreKept
<1>3. \A i \in DOMAIN maps : maps[i] # Refused
  BY DEF NoneRefused
<1> HIDE DEF kept, maps
<1>4. IsSequence(maps)
  BY <1>1, <1>2, MappedSequence
<1>5. Elements(maps) = {PayloadOf(x, m) : x \in Elements(types)} /\ \A x \in Elements(types) : PayloadOf(x, m) # Refused
  <2>1. Elements(maps) = {PayloadOf(x, m) : x \in Elements(kept)}
    BY <1>1 DEF Elements
  <2>2. \A x \in Elements(kept) : PayloadOf(x, m) # Refused
    BY <1>1, <1>3 DEF Elements
  <2> QED
    BY <1>2, <2>1, <2>2
<1>6. ASSUME NEW x \in Elements(types)
      PROVE  LET codec == ByPayloadType(m.codecs, IF x.apt = None THEN x.target ELSE x.apt)
                 p == PayloadOf(x, m)
             IN  /\ p \in Elements(maps) /\ p.source = x.source /\ p.target = x.target /\ p.rtx = (x.apt # None)
                 /\ p.sourceApt = x.sourceApt /\ p.apt = x.apt /\ p.nack = (x.apt = None /\ SupportsNack(codec))
  <2>1. PayloadOf(x, m) \in Elements(maps) /\ PayloadOf(x, m) # Refused
    BY <1>5, <1>6
  <2> QED
    BY <2>1 DEF PayloadOf
<1>7. ASSUME NEW x \in Elements(types), x.apt = None
      PROVE  LET p == PayloadOf(x, m)
             IN  ~p.rtx /\ (p.nack <=> SupportsNack(ByPayloadType(m.codecs, x.target)))
  <2> DEFINE p == PayloadOf(x, m)
             pt == IF x.apt = None THEN x.target ELSE x.apt
  <2>1. p.rtx = (x.apt # None) /\ p.nack = (x.apt = None /\ SupportsNack(ByPayloadType(m.codecs, pt)))
    BY <1>6
  <2>2. pt = x.target
    BY <1>7
  <2> HIDE DEF p, pt
  <2>3. ~p.rtx
    BY <1>7, <2>1, Zenon
  <2>4. p.nack <=> SupportsNack(ByPayloadType(m.codecs, x.target))
    BY <1>7, <2>1, <2>2, Zenon
  <2> QED
    BY <2>3, <2>4 DEF p
<1>8. ASSUME NEW x \in Elements(types), NEW c, PrimaryMapped(x, c, f)
      PROVE  PrimaryFed(PayloadOf(x, m), c, m, f) /\ PayloadOf(x, m) \in Elements(maps)
  <2> DEFINE p == PayloadOf(x, m)
             s == CompatiblePublisherCodec(f, c)
  <2>1. ~IsRtx(c) /\ s # None /\ x.apt = None /\ x.target = c.pt /\ x.source = s.pt
    BY <1>8 DEF PrimaryMapped
  <2>2. Feeds(s, f, c)
    BY <2>1, CompatibleFeeds
  <2>3. p \in Elements(maps) /\ p.source = x.source /\ p.target = x.target
    BY <1>6
  <2>4. ~p.rtx /\ (p.nack <=> SupportsNack(ByPayloadType(m.codecs, x.target)))
    BY <1>7, <2>1
  <2> HIDE DEF p, s
  <2>5. p.nack <=> SupportsNack(ByPayloadType(m.codecs, c.pt))
    BY <2>1, <2>4, Zenon
  <2>6. PrimaryFed(p, c, m, f)
    BY <2>1, <2>2, <2>3, <2>4, <2>5, Zenon DEF PrimaryFed, s
  <2> QED
    BY <2>3, <2>6 DEF p
<1>9. ASSUME NEW x \in Elements(types), NEW y \in Elements(types), NEW c \in Elements(codecs), RepairMapped(x, c, y, f)
      PROVE  RepairFed(PayloadOf(x, m), c, PayloadOf(y, m), f) /\ {PayloadOf(x, m), PayloadOf(y, m)} \subseteq Elements(maps)
  <2> DEFINE p == PayloadOf(x, m)
             q == PayloadOf(y, m)
             s == RtxForApt(f, y.source)
  <2>1. /\ IsRtx(c) /\ y.apt = None /\ y.target = Apt(c) /\ s # None
        /\ x.source = s.pt /\ x.target = c.pt /\ x.apt = y.target /\ x.sourceApt = y.source
    BY <1>9 DEF RepairMapped
  <2>2. Apt(c) # None
    <3>1. PICK k \in DOMAIN codecs : c = codecs[k]
      BY DEF Elements
    <3>2. c.name = "rtx"
      BY <2>1, SMT DEF IsRtx
    <3> QED
      BY <3>1, <3>2 DEF Chosen, PrimaryOf, RepairOf
  <2>3. s \in Elements(f.codecs) /\ s.name = "rtx"
    <3>1. IsSequence(f.codecs)
      BY DEF Summarized
    <3> QED
      BY <2>1, <3>1, RepairIsGiven
  <2>4. /\ p \in Elements(maps) /\ p.source = x.source /\ p.target = x.target /\ p.rtx = (x.apt # None)
        /\ p.sourceApt = x.sourceApt /\ p.apt = x.apt
    BY <1>6
  <2>5. \E codec : p.nack = (x.apt = None /\ SupportsNack(codec))
    BY <1>6
  <2>6. q \in Elements(maps) /\ q.source = y.source /\ q.target = y.target /\ ~q.rtx
    BY <1>6, <1>7, <2>1
  <2> HIDE DEF p, q, s
  <2>7. x.apt # None
    BY <2>1, <2>2
  <2>8. p.rtx /\ ~p.nack
    BY <2>4, <2>5, <2>7, Zenon
  <2>9. RepairFed(p, c, q, f)
    BY <2>1, <2>3, <2>4, <2>6, <2>8, Zenon DEF RepairFed
  <2> QED
    BY <2>4, <2>6, <2>9 DEF p, q
<1>10. ASSUME NEW p \in Elements(maps)
       PROVE  \E c \in Elements(codecs) : PrimaryFed(p, c, m, f) \/ \E q \in Elements(maps) : RepairFed(p, c, q, f)
  <2>1. PICK x \in Elements(types) : p = PayloadOf(x, m)
    BY <1>5
  <2>2. PICK c \in Elements(codecs) : PrimaryMapped(x, c, f) \/ \E y \in Elements(types) : RepairMapped(x, c, y, f)
    BY DEF TypesMapped
  <2> QED
    BY <1>8, <1>9, <2>1, <2>2
<1>11. ASSUME NEW c \in Elements(codecs) PROVE \E p \in Elements(maps) : p.target = c.pt
  <2>1. PICK x \in Elements(types) : PrimaryMapped(x, c, f) \/ \E y \in Elements(types) : RepairMapped(x, c, y, f)
    BY DEF TypesMapped
  <2>2. x.target = c.pt
    BY <2>1 DEF PrimaryMapped, RepairMapped
  <2> QED
    BY <1>6, <2>2
<1>12. PayloadsFed(maps, m, codecs, f)
  BY <1>4, <1>10, <1>11, Zenon DEF PayloadsFed
<1> QED
  BY <1>12 DEF maps

-----------------------------------------------------------------------------
(* One section of the answer and its mapping.                              *)

LEMMA SectionIsAccepted ==
  ASSUME NEW m, NEW offer, NEW from, NEW sources, WhepAnswerMedia(m, offer, from, sources).port # 0
  PROVE  LET f == ForwardedMedia(m, offer, from)
             codecs == NegotiatedForRelay(m, f)
         IN  /\ m.direction # "inactive" /\ f # None /\ f # Refused /\ codecs # Refused
             /\ WhepAnswerMedia(m, offer, from, sources) = AcceptedMedia(m, f, sources, codecs)
<1> DEFINE forwarded == ForwardedMedia(m, offer, from)
           codecs == NegotiatedForRelay(m, forwarded)
           accepted == AcceptedMedia(m, forwarded, sources, codecs)
           relayed == IF codecs = Refused THEN Refused ELSE accepted
           answered == IF m.direction = "inactive" \/ forwarded = None \/ forwarded = Refused THEN Refused ELSE relayed
<1>1. WhepAnswerMedia(m, offer, from, sources) = IF answered = Refused THEN RejectedMedia(m) ELSE answered
  BY Zenon DEF WhepAnswerMedia, AndThen, OrRejected, Required
<1>2. answered # Refused =>
        m.direction # "inactive" /\ forwarded # None /\ forwarded # Refused /\ codecs # Refused /\ answered = accepted
  OBVIOUS
<1> HIDE DEF answered, codecs, accepted, forwarded
<1>3. RejectedMedia(m).port = 0
  BY DEF RejectedMedia
<1>4. answered # Refused
  BY <1>1, <1>3
<1> QED
  BY <1>1, <1>2, <1>4 DEF forwarded, codecs, accepted

\* The mapping of the section m, fed from f, with the codecs of the answer.
MappingOf(m, f, codecs, source) ==
  [sourceMid |-> f.mid, targetMid |-> m.mid, ssrc |-> source.ssrc,
   payloads |-> PayloadMappings(m, codecs, f, source), extensions |-> ExtensionMappings(m, codecs, f)]

LEMMA MappingIsMade ==
  ASSUME NEW m, NEW offer, NEW from, NEW source,
         ForwardedMedia(m, offer, from) # None, ForwardedMedia(m, offer, from) # Refused,
         NegotiatedForRelay(m, ForwardedMedia(m, offer, from)) # Refused
  PROVE  LET f == ForwardedMedia(m, offer, from)
             codecs == NegotiatedForRelay(m, f)
             payloads == PayloadMappings(m, codecs, f, source)
             extensions == ExtensionMappings(m, codecs, f)
             mapping == MediaMapping(m, offer, from, source)
         IN  /\ mapping # Refused =>
                  payloads # Refused /\ extensions # Refused /\ mapping = MappingOf(m, f, codecs, source)
             /\ /\ IsNoData(Refused) /\ source.mid = m.mid /\ source.kind = m.kind
                /\ payloads # Refused /\ extensions # Refused /\ \E i \in DOMAIN payloads : ~payloads[i].rtx
                => mapping # Refused
<1> DEFINE f == ForwardedMedia(m, offer, from)
           codecs == NegotiatedForRelay(m, f)
           payloads == PayloadMappings(m, codecs, f, source)
           extensions == ExtensionMappings(m, codecs, f)
           result == [sourceMid |-> f.mid, targetMid |-> m.mid, ssrc |-> source.ssrc,
                      payloads |-> payloads, extensions |-> extensions]
           last == IF ~\E i \in DOMAIN payloads : ~payloads[i].rtx THEN Refused ELSE result
           made == IF payloads = Refused THEN Refused ELSE IF extensions = Refused THEN Refused ELSE last
           mapping == MediaMapping(m, offer, from, source)
<1>1. mapping = IF source.mid # m.mid \/ source.kind # m.kind THEN Refused
                ELSE IF (IF f = None THEN Refused ELSE f) = Refused THEN Refused
                ELSE IF codecs = Refused THEN Refused ELSE made
  BY Zenon DEF MediaMapping, AndThen, Required
<1>2. result = MappingOf(m, f, codecs, source) /\ IsData(result)
  BY DEF MappingOf, IsData
<1>3. f # None /\ f # Refused /\ codecs # Refused
  OBVIOUS
<1>4. last = IF \E i \in DOMAIN payloads : ~payloads[i].rtx THEN result ELSE Refused
  OBVIOUS
<1> HIDE DEF mapping, f, codecs, payloads, extensions, result, last
<1>5. mapping # Refused => payloads # Refused /\ extensions # Refused /\ mapping = result
  BY <1>1, <1>3, <1>4
<1>6. /\ IsNoData(Refused) /\ source.mid = m.mid /\ source.kind = m.kind
      /\ payloads # Refused /\ extensions # Refused /\ \E i \in DOMAIN payloads : ~payloads[i].rtx
      => mapping # Refused
  BY <1>1, <1>2, <1>3, <1>4 DEF IsNoData
<1> QED
  BY <1>2, <1>5, <1>6 DEF mapping, f, codecs, payloads, extensions

\* The sources of a subscriber are found by the mids of its sections.
LEMMA SourceIsOwn ==
  ASSUME IsNoData(None), NEW offer, IsSequence(offer.media), MidsDiffer(offer.media), NEW i \in DOMAIN offer.media, NEW f
  PROVE  LET sources == OutboundSources(offer)
         IN  /\ AnswerSource(sources, offer.media[i], f) = sources[i] /\ sources[i] # None
             /\ sources[i].mid = offer.media[i].mid /\ sources[i].kind = offer.media[i].kind
             /\ offer.media[i].kind = "video" => sources[i].rtx # None
<1> DEFINE sources == OutboundSources(offer)
           m == offer.media[i]
           P == {k \in DOMAIN sources : sources[k].mid = m.mid /\ sources[k].kind = m.kind}
           own == IF P = {} THEN None ELSE sources[Min(P)]
           same == Where(sources, LAMBDA s : s.kind = m.kind)
           of(x) == First(sources, LAMBDA s : s.mid = x.mid /\ s.kind = x.kind)
<1>1. DOMAIN sources = DOMAIN offer.media /\ IsData(sources)
      /\ \A k \in DOMAIN offer.media : sources[k] = [mid |-> offer.media[k].mid, kind |-> offer.media[k].kind, ssrc |-> 2 * k,
                                                     rtx |-> IF offer.media[k].kind = "video" THEN 2 * k + 1 ELSE None]
  BY DEF OutboundSources, IsData
<1>2. \E rest : AnswerSource(sources, m, f) = IF own # None THEN own ELSE rest
  <2> DEFINE rest == IF f # None /\ of(f) # None THEN of(f) ELSE IF Len(same) = 1 THEN same[1] ELSE None
  <2>1. of(m) = own
    BY Zenon DEF First
  <2>2. AnswerSource(sources, m, f) = IF of(m) # None THEN of(m) ELSE rest
    BY Zenon DEF AnswerSource
  <2> HIDE DEF of, own, rest
  <2> QED
    BY <2>1, <2>2
<1>3. P = {i}
  <2> HIDE DEF sources
  <2>1. \A k \in DOMAIN offer.media : sources[k].mid = offer.media[k].mid /\ sources[k].kind = offer.media[k].kind
    <3> TAKE k \in DOMAIN offer.media
    <3> DEFINE rtx == IF offer.media[k].kind = "video" THEN 2 * k + 1 ELSE None
    <3>1. sources[k] = [mid |-> offer.media[k].mid, kind |-> offer.media[k].kind, ssrc |-> 2 * k, rtx |-> rtx]
      BY <1>1
    <3> HIDE DEF rtx
    <3> QED
      BY <3>1
  <2>2. \A k : k \in P <=> k \in DOMAIN offer.media /\ offer.media[k].mid = m.mid /\ offer.media[k].kind = m.kind
    <3>1. DOMAIN sources = DOMAIN offer.media
      BY <1>1
    <3> HIDE DEF m
    <3> QED
      BY <2>1, <3>1, Zenon
  <2>3. \A k : k \in P <=> k = i
    BY <2>2, Zenon DEF MidsDiffer
  <2> HIDE DEF P
  <2> QED
    BY <2>3
<1>4. own = sources[Min(P)]
  BY <1>3
<1> HIDE DEF P, own
<1>5. i \in Nat /\ DOMAIN offer.media \subseteq Nat
  BY SequenceIsFunction
<1>6. Min(P) = i
  BY <1>3, <1>5, MinimumExists
<1> HIDE DEF sources
<1>7. sources[i] = [mid |-> m.mid, kind |-> m.kind, ssrc |-> 2 * i, rtx |-> IF m.kind = "video" THEN 2 * i + 1 ELSE None]
  BY <1>1
<1> HIDE DEF m
<1>8. IsData(sources[i])
  BY <1>7 DEF IsData
<1>9. sources[i] # None /\ 2 * i + 1 # None
  BY <1>5, <1>8 DEF IsNoData
<1>10. sources[i].mid = m.mid /\ sources[i].kind = m.kind /\ (m.kind = "video" => sources[i].rtx # None)
  BY <1>7, <1>9
<1> QED
  BY <1>2, <1>4, <1>6, <1>9, <1>10 DEF sources, m

-----------------------------------------------------------------------------
(* The header extensions of an answer and those of the publisher.          *)

\* The mapping of the extension x of an answer.
ExtensionOf(x, f) ==
  LET s == First(f.extensions, LAMBDA y : y.id \in 1..255 /\ y.uri = x.uri)
  IN  IF s = None THEN Refused ELSE [source |-> s.id, target |-> x.id, uri |-> x.uri]

RelayExtensions(m, codecs, f) == AnswerExtensions(m, f, OffersTransportCc(m, codecs, FALSE))

MappedExtensions(m, codecs, f) == Where(RelayExtensions(m, codecs, f), LAMBDA x : x.uri # "transport-cc")

ExtensionMaps(m, codecs, f) ==
  [i \in DOMAIN MappedExtensions(m, codecs, f) |-> ExtensionOf(MappedExtensions(m, codecs, f)[i], f)]

LEMMA ExtensionsAreMade ==
  ASSUME NEW m, NEW codecs, NEW f
  PROVE  ExtensionMappings(m, codecs, f) =
           IF NoneRefused(ExtensionMaps(m, codecs, f)) THEN ExtensionMaps(m, codecs, f) ELSE Refused
<1> DEFINE kept == MappedExtensions(m, codecs, f)
           maps == ExtensionMaps(m, codecs, f)
           mapped == [i \in DOMAIN kept |-> ExtensionOf(kept[i], f)]
<1>1. ExtensionMappings(m, codecs, f) = IF \E i \in DOMAIN kept : mapped[i] = Refused THEN Refused ELSE mapped
  BY Zenon DEF ExtensionMappings, MapAll, MappedExtensions, RelayExtensions, ExtensionOf
<1>2. maps = mapped /\ DOMAIN maps = DOMAIN kept
  BY DEF ExtensionMaps
<1> HIDE DEF kept, maps, mapped
<1>3. ExtensionMappings(m, codecs, f) = IF NoneRefused(maps) THEN maps ELSE Refused
  BY <1>1, <1>2 DEF NoneRefused
<1> QED
  BY <1>3 DEF maps

\* Where an extension of the answer comes from.
LEMMA ExtensionIsFed ==
  ASSUME NEW x, NEW f, IsSequence(f.extensions)
  PROVE  /\ ExtensionOf(x, f) # Refused =>
              /\ ExtensionOf(x, f).uri = x.uri /\ ExtensionOf(x, f).target = x.id
              /\ \E k \in DOMAIN f.extensions :
                   f.extensions[k].id = ExtensionOf(x, f).source /\ f.extensions[k].uri = x.uri
         /\ /\ IsNoData(Refused) /\ None \notin Elements(f.extensions) /\ HasExtension(f, x.uri)
            /\ \A k \in DOMAIN f.extensions : f.extensions[k].id \in 1..255
            => ExtensionOf(x, f) # Refused
<1> DEFINE P == {k \in DOMAIN f.extensions : f.extensions[k].id \in 1..255 /\ f.extensions[k].uri = x.uri}
           s == IF P = {} THEN None ELSE f.extensions[Min(P)]
           result == [source |-> s.id, target |-> x.id, uri |-> x.uri]
<1>1. ExtensionOf(x, f) = IF s = None THEN Refused ELSE result
  BY Zenon DEF ExtensionOf, First
<1>2. P \subseteq DOMAIN f.extensions /\ \A k \in P : f.extensions[k].uri = x.uri
  OBVIOUS
<1> DEFINE t == f.extensions[Min(P)]
<1>3. ASSUME HasExtension(f, x.uri), \A k \in DOMAIN f.extensions : f.extensions[k].id \in 1..255
      PROVE  P # {}
  <2>1. PICK k \in DOMAIN f.extensions : f.extensions[k].uri = x.uri
    BY <1>3 DEF HasExtension
  <2>2. k \in P
    BY <1>3, <2>1
  <2> HIDE DEF P
  <2> QED
    BY <2>2
<1> HIDE DEF P, t
<1>4. P = {} => s = None
  OBVIOUS
<1>5. P # {} => s = f.extensions[Min(P)]
  BY DEF t
<1> HIDE DEF s
<1>6. P # {} => Min(P) \in P
  BY <1>2, FirstPosition
<1>7. result.uri = x.uri /\ result.target = x.id /\ result.source = s.id /\ IsData(result)
  BY DEF IsData
<1> HIDE DEF result
<1>8. ASSUME ExtensionOf(x, f) # Refused
      PROVE  /\ ExtensionOf(x, f).uri = x.uri /\ ExtensionOf(x, f).target = x.id
             /\ \E k \in DOMAIN f.extensions :
                  f.extensions[k].id = ExtensionOf(x, f).source /\ f.extensions[k].uri = x.uri
  <2>1. s # None /\ ExtensionOf(x, f) = result
    BY <1>1, <1>8
  <2>2. Min(P) \in P /\ s = f.extensions[Min(P)]
    BY <1>4, <1>5, <1>6, <2>1
  <2> QED
    BY <1>2, <1>7, <2>1, <2>2
<1>9. ASSUME IsNoData(Refused), None \notin Elements(f.extensions), HasExtension(f, x.uri),
             \A k \in DOMAIN f.extensions : f.extensions[k].id \in 1..255
      PROVE  ExtensionOf(x, f) # Refused
  <2>1. Min(P) \in DOMAIN f.extensions /\ s = f.extensions[Min(P)]
    BY <1>2, <1>3, <1>5, <1>6, <1>9
  <2>2. s # None
    BY <1>9, <2>1 DEF Elements
  <2> QED
    BY <1>1, <1>7, <1>9, <2>2 DEF IsNoData
<1> QED
  BY <1>8, <1>9

\* All the extensions of an answer are mapped, but the transport's own.
ExtensionsFed(maps, answered, f) ==
  LET uris == {x.uri : x \in Elements(answered)} \ {"transport-cc"}
  IN  /\ {<<x.uri, x.target>> : x \in Elements(maps)} = {<<x.uri, x.id>> : x \in {y \in Elements(answered) : y.uri \in uris}}
      /\ \A x \in Elements(maps) : \E k \in DOMAIN f.extensions :
           f.extensions[k].id = x.source /\ f.extensions[k].uri = x.uri

LEMMA ExtensionsAreFed ==
  ASSUME NEW m, IsSequence(m.extensions), NEW codecs, NEW f, IsSequence(f.extensions),
         ExtensionMappings(m, codecs, f) # Refused
  PROVE  ExtensionsFed(ExtensionMappings(m, codecs, f), RelayExtensions(m, codecs, f), f)
<1> DEFINE answered == RelayExtensions(m, codecs, f)
           kept == MappedExtensions(m, codecs, f)
           maps == ExtensionMaps(m, codecs, f)
           P == {i \in DOMAIN answered : answered[i].uri # "transport-cc"}
<1>1. NoneRefused(maps) /\ ExtensionMappings(m, codecs, f) = maps
  <2> HIDE DEF maps
  <2> QED
    BY ExtensionsAreMade DEF maps
<1>2. IsSequence(answered)
  BY ExtensionsFit DEF RelayExtensions
<1>3. kept = Picked(answered, P) /\ P \subseteq DOMAIN answered
  BY DEF MappedExtensions, Where
<1>4. DOMAIN maps = DOMAIN kept /\ \A i \in DOMAIN kept : maps[i] = ExtensionOf(kept[i], f)
  BY DEF ExtensionMaps
<1> HIDE DEF answered, kept, maps
<1>5. Elements(kept) = {x \in Elements(answered) : x.uri # "transport-cc"}
  <2>1. Sifted(kept, answered, P)
    BY <1>2, <1>3, PickedSifts
  <2> QED
    BY <2>1 DEF Sifted, Elements
<1>6. Elements(maps) = {ExtensionOf(x, f) : x \in Elements(kept)}
      /\ \A x \in Elements(kept) : ExtensionOf(x, f) # Refused
  BY <1>1, <1>4 DEF NoneRefused, Elements
<1>7. \A x \in Elements(kept) :
        /\ ExtensionOf(x, f).uri = x.uri /\ ExtensionOf(x, f).target = x.id
        /\ \E k \in DOMAIN f.extensions :
             f.extensions[k].id = ExtensionOf(x, f).source /\ f.extensions[k].uri = x.uri
  BY <1>6, ExtensionIsFed
<1>8. {<<x.uri, x.target>> : x \in Elements(maps)} = {<<x.uri, x.id>> : x \in Elements(kept)}
  <2>1. {<<x.uri, x.target>> : x \in Elements(maps)} =
          {<<ExtensionOf(x, f).uri, ExtensionOf(x, f).target>> : x \in Elements(kept)}
    BY <1>6
  <2> QED
    BY <1>7, <2>1
<1>9. {y \in Elements(answered) : y.uri \in {x.uri : x \in Elements(answered)} \ {"transport-cc"}} = Elements(kept)
  BY <1>5
<1>10. \A x \in Elements(maps) : \E k \in DOMAIN f.extensions :
         f.extensions[k].id = x.source /\ f.extensions[k].uri = x.uri
  BY <1>6, <1>7
<1>11. ExtensionsFed(maps, answered, f)
  BY <1>8, <1>9, <1>10 DEF ExtensionsFed
<1> QED
  BY <1>1, <1>11 DEF answered, maps

-----------------------------------------------------------------------------
(* The NACK support of an answer and that of its mapping.                  *)

\* The codec c of an answer is looked up by its payload type.
LEMMA PayloadTypeIsFound ==
  ASSUME NEW codecs, IsSequence(codecs), PtsDistinct(codecs), NEW i \in DOMAIN codecs
  PROVE  ByPayloadType(codecs, codecs[i].pt) = codecs[i]
<1> DEFINE P == {j \in DOMAIN codecs : codecs[j].pt = codecs[i].pt}
<1>1. ByPayloadType(codecs, codecs[i].pt) = IF P = {} THEN None ELSE codecs[Min(P)]
  BY Zenon DEF ByPayloadType, First
<1>2. P = {i}
  BY Zenon DEF PtsDistinct
<1> HIDE DEF P
<1>3. i \in Nat
  BY SequenceIsFunction
<1>4. Min(P) = i
  BY <1>2, <1>3, MinimumExists
<1> QED
  BY <1>1, <1>2, <1>4

LEMMA NackIsAnswered ==
  ASSUME NEW d, NEW o, NEW m, Summarized(d, o, m), DescribedOnce(o), m.kind = "video",
         NEW codecs, Chosen(codecs, m, Len(m.codecs)), NEW c \in Elements(codecs), ~IsRtx(c), NEW cc
  PROVE  SupportsNack(ByPayloadType(m.codecs, c.pt)) <=> <<c.pt, "nack">> \in Elements(AnswerFeedback(m.kind, codecs, TRUE, cc))
<1> DEFINE feedback == AnswerFeedback(m.kind, codecs, TRUE, cc)
<1>1. IsSequence(m.codecs) /\ PtsDistinct(m.codecs) /\ IsSequence(codecs) /\ PtsDistinct(codecs)
  BY DEF Summarized, Chosen
<1>2. \A k \in DOMAIN codecs : IsSequence(codecs[k].feedback)
  <2>1. CodecsFit(codecs, o)
    BY ChosenFit
  <2> QED
    BY <2>1 DEF CodecsFit, OwnFeedback
<1>3. FeedbackIsSupported(m.kind, "nack", TRUE, cc)
  BY DEF FeedbackIsSupported
<1>4. PICK k \in DOMAIN codecs : c = codecs[k]
  BY DEF Elements
<1>5. PrimaryOf(c, m)
  BY <1>4 DEF Chosen, RepairOf
<1>6. PICK i \in DOMAIN m.codecs : c.pt = m.codecs[i].pt /\ c.feedback = m.codecs[i].feedback
  BY <1>5 DEF PrimaryOf
<1>7. ByPayloadType(m.codecs, c.pt) = m.codecs[i]
  BY <1>1, <1>6, PayloadTypeIsFound
<1>8. SupportsNack(m.codecs[i]) <=> "nack" \in Elements(c.feedback)
  BY <1>6 DEF SupportsNack
<1>9. /\ \A f \in Elements(feedback) : \E l \in DOMAIN codecs : \E v \in Elements(codecs[l].feedback) : f = <<codecs[l].pt, v>>
      /\ \A l \in DOMAIN codecs : \A v \in Elements(codecs[l].feedback) :
           FeedbackIsSupported(m.kind, v, TRUE, cc) => <<codecs[l].pt, v>> \in Elements(feedback)
  BY <1>1, <1>2, FeedbackIsKept
<1> HIDE DEF feedback
<1>10. "nack" \in Elements(c.feedback) => <<c.pt, "nack">> \in Elements(feedback)
  BY <1>3, <1>4, <1>9
<1>11. ASSUME <<c.pt, "nack">> \in Elements(feedback) PROVE "nack" \in Elements(c.feedback)
  <2>1. PICK l \in DOMAIN codecs : \E v \in Elements(codecs[l].feedback) : <<c.pt, "nack">> = <<codecs[l].pt, v>>
    BY <1>9, <1>11
  <2>2. codecs[l].pt = c.pt /\ "nack" \in Elements(codecs[l].feedback)
    BY <2>1
  <2>3. l = k
    BY <1>1, <1>4, <2>2 DEF PtsDistinct
  <2> QED
    BY <1>4, <2>2, <2>3
<1>12. SupportsNack(m.codecs[i]) <=> <<c.pt, "nack">> \in Elements(feedback)
  BY <1>8, <1>10, <1>11
<1> QED
  BY <1>7, <1>12 DEF feedback

-----------------------------------------------------------------------------
(* An accepted section, its mapping and the section that feeds it.         *)

LEMMA CodecIsNamed ==
  ASSUME NEW d, NEW o, NEW m, Summarized(d, o, m), NEW codecs, Chosen(codecs, m, Len(m.codecs)), NEW c \in Elements(codecs)
  PROVE  c.name \in NamesOf(o, c.pt)
<1>1. PICK k \in DOMAIN codecs : c = codecs[k]
  BY DEF Elements
<1>2. PICK i \in DOMAIN m.codecs : c.pt = m.codecs[i].pt /\ c.name = m.codecs[i].name
  BY <1>1 DEF Chosen, PrimaryOf, RepairOf
<1>3. m.codecs[i].name \in NamesOf(o, m.codecs[i].pt)
  BY DEF Summarized, CodecRead
<1> QED
  BY <1>2, <1>3

\* The mapping of one payload type, as SectionIsFed has it.
PayloadFits(p, maps, m, o, f, source, feedback) ==
  /\ NamesOf(source, p.source) \cap NamesOf(o, p.target) # {}
  /\ IF p.rtx
     THEN ~p.nack /\ \E j \in DOMAIN maps : ~maps[j].rtx /\ maps[j].target = p.apt /\ maps[j].source = p.sourceApt
     ELSE DescribedOnce(o) /\ m.kind = "video" => (p.nack <=> <<p.target, "nack">> \in Elements(feedback))
  /\ ~p.rtx => p.source \in Elements(WhipAnswerMedia(f).formats)

LEMMA PayloadsFit ==
  ASSUME NEW d, NEW o, NEW m, Summarized(d, o, m), NEW e, NEW source, NEW f, Summarized(e, source, f),
         WhipAnswerMedia(f).port # 0, NEW codecs, Chosen(codecs, m, Len(m.codecs)),
         NEW maps, PayloadsFed(maps, m, codecs, f), NEW cc
  PROVE  /\ {maps[k].target : k \in DOMAIN maps} = Elements(FormatsOf(codecs))
         /\ \A k \in DOMAIN maps : PayloadFits(maps[k], maps, m, o, f, source, AnswerFeedback(m.kind, codecs, TRUE, cc))
<1> DEFINE feedback == AnswerFeedback(m.kind, codecs, TRUE, cc)
<1>1. /\ \A p \in Elements(maps) : \E c \in Elements(codecs) :
           PrimaryFed(p, c, m, f) \/ \E q \in Elements(maps) : RepairFed(p, c, q, f)
      /\ \A c \in Elements(codecs) : \E p \in Elements(maps) : p.target = c.pt
  BY DEF PayloadsFed
<1>2. \A s \in Elements(f.codecs) : s.name \in NamesOf(source, s.pt)
  BY DEF Summarized, CodecRead, Elements
<1>3. {maps[k].target : k \in DOMAIN maps} = Elements(FormatsOf(codecs))
  <2>1. \A p \in Elements(maps) : \E c \in Elements(codecs) : p.target = c.pt
    BY <1>1 DEF PrimaryFed, RepairFed
  <2>2. {maps[k].target : k \in DOMAIN maps} = {p.target : p \in Elements(maps)}
    BY DEF Elements
  <2>3. Elements(FormatsOf(codecs)) = {c.pt : c \in Elements(codecs)}
    BY DEF Elements, FormatsOf
  <2>4. {p.target : p \in Elements(maps)} = {c.pt : c \in Elements(codecs)}
    BY <1>1, <2>1
  <2> QED
    BY <2>2, <2>3, <2>4
<1>4. ASSUME NEW p \in Elements(maps), NEW c \in Elements(codecs), PrimaryFed(p, c, m, f)
      PROVE  PayloadFits(p, maps, m, o, f, source, feedback)
  <2> DEFINE s == CompatiblePublisherCodec(f, c)
  <2>1. /\ ~p.rtx /\ ~IsRtx(c) /\ p.target = c.pt /\ Feeds(s, f, c) /\ p.source = s.pt
        /\ p.nack <=> SupportsNack(ByPayloadType(m.codecs, c.pt))
    BY <1>4, Zenon DEF PrimaryFed
  <2> HIDE DEF s, feedback
  <2>2. s \in Elements(f.codecs) /\ s.name = c.name
    BY <2>1 DEF Feeds
  <2>3. c.name \in NamesOf(source, p.source) /\ c.name \in NamesOf(o, p.target)
    BY <1>2, <2>1, <2>2, CodecIsNamed
  <2>4. p.source \in Elements(WhipAnswerMedia(f).formats)
    BY <2>1, SourceIsAnswered
  <2>5. DescribedOnce(o) /\ m.kind = "video" => (p.nack <=> <<p.target, "nack">> \in Elements(feedback))
    <3> SUFFICES ASSUME DescribedOnce(o), m.kind = "video"
                 PROVE  p.nack <=> <<p.target, "nack">> \in Elements(feedback)
      OBVIOUS
    <3>1. SupportsNack(ByPayloadType(m.codecs, c.pt)) <=> <<c.pt, "nack">> \in Elements(feedback)
      BY <2>1, NackIsAnswered DEF feedback
    <3>2. <<c.pt, "nack">> = <<p.target, "nack">>
      BY <2>1
    <3> QED
      BY <2>1, <3>1, <3>2, Zenon
  <2>6. NamesOf(source, p.source) \cap NamesOf(o, p.target) # {}
    BY <2>3
  <2> QED
    BY <2>1, <2>4, <2>5, <2>6, Zenon DEF PayloadFits
<1>5. ASSUME NEW p \in Elements(maps), NEW c \in Elements(codecs), NEW q \in Elements(maps), RepairFed(p, c, q, f)
      PROVE  PayloadFits(p, maps, m, o, f, source, feedback)
  <2>1. /\ p.rtx /\ ~p.nack /\ IsRtx(c) /\ p.target = c.pt
        /\ ~q.rtx /\ q.target = p.apt /\ q.source = p.sourceApt
    BY <1>5, Zenon DEF RepairFed
  <2>2. PICK s \in Elements(f.codecs) : s.name = "rtx" /\ p.source = s.pt
    BY <1>5, Zenon DEF RepairFed
  <2>3. c.name = "rtx"
    BY <2>1, SMT DEF IsRtx
  <2>4. "rtx" \in NamesOf(source, p.source) /\ "rtx" \in NamesOf(o, p.target)
    BY <1>2, <2>1, <2>2, <2>3, CodecIsNamed
  <2>5. NamesOf(source, p.source) \cap NamesOf(o, p.target) # {}
    BY <2>4
  <2>6. \E j \in DOMAIN maps : ~maps[j].rtx /\ maps[j].target = p.apt /\ maps[j].source = p.sourceApt
    <3>1. PICK j \in DOMAIN maps : q = maps[j]
      BY DEF Elements
    <3> QED
      BY <2>1, <3>1, Zenon
  <2> QED
    BY <2>1, <2>5, <2>6, Zenon DEF PayloadFits
<1>6. \A p \in Elements(maps) : PayloadFits(p, maps, m, o, f, source, feedback)
  BY <1>1, <1>4, <1>5
<1>7. \A k \in DOMAIN maps : maps[k] \in Elements(maps)
  BY DEF Elements
<1> QED
  BY <1>3, <1>6, <1>7

\* SectionIsFed for the section offered, what answers it and its mapping.
IsMapped(mapping, answered, offered) ==
  LET from == CHOOSE k \in DOMAIN publisher.answer.media : publisher.answer.media[k].mid = mapping.sourceMid
      source == OfferedMedia(publisher)[from]
      primaries == {k \in DOMAIN mapping.payloads : ~mapping.payloads[k].rtx}
      uris == {x.uri : x \in Elements(answered.extensions)} \ {"transport-cc"}
  IN  /\ mapping.targetMid = answered.mid /\ mapping.ssrc = answered.source
      /\ from \in Accepted(publisher) /\ source.kind = answered.kind
      /\ {mapping.payloads[k].target : k \in DOMAIN mapping.payloads} = Elements(answered.formats)
      /\ \A k \in DOMAIN mapping.payloads : LET p == mapping.payloads[k] IN
           /\ NamesOf(source, p.source) \cap NamesOf(offered, p.target) # {}
           /\ IF p.rtx
              THEN ~p.nack /\ \E j \in primaries : mapping.payloads[j].target = p.apt /\ mapping.payloads[j].source = p.sourceApt
              ELSE DescribedOnce(offered) /\ answered.kind = "video" =>
                     (p.nack <=> <<p.target, "nack">> \in Elements(answered.feedback))
      /\ \A k \in primaries : mapping.payloads[k].source \in Elements(publisher.answer.media[from].formats)
      /\ {<<x.uri, x.target>> : x \in Elements(mapping.extensions)} =
           {<<x.uri, x.id>> : x \in {y \in Elements(answered.extensions) : y.uri \in uris}}
      /\ \A x \in Elements(mapping.extensions) : \E k \in DOMAIN source.extensions :
           source.extensions[k].id = x.source /\ source.extensions[k].uri = x.uri

\* The accepted section m of an answer, fed from f and sent from the source own.
IsAccepted(a, m, f, own, codecs) ==
  /\ a.mid = m.mid /\ a.kind = m.kind /\ a.formats = FormatsOf(codecs)
  /\ a.extensions = RelayExtensions(m, codecs, f) /\ a.source = own.ssrc
  /\ a.feedback = AnswerFeedback(m.kind, codecs, TRUE, OffersTransportCc(m, codecs, FALSE))

LEMMA AcceptedFields ==
  ASSUME NEW m, NEW f, NEW sources, NEW codecs, f # None, AnswerSource(sources, m, f) # None
  PROVE  IsAccepted(AcceptedMedia(m, f, sources, codecs), m, f, AnswerSource(sources, m, f), codecs)
<1> DEFINE a == AcceptedMedia(m, f, sources, codecs)
           isWhep == f # None
           cc == OffersTransportCc(m, codecs, ~isWhep)
           source == IF isWhep THEN AnswerSource(sources, m, f) ELSE None
<1>1. /\ a.mid = m.mid /\ a.kind = m.kind /\ a.formats = FormatsOf(codecs)
      /\ a.extensions = AnswerExtensions(m, f, cc)
      /\ a.source = IF source = None THEN None ELSE source.ssrc
      /\ a.feedback = AnswerFeedback(m.kind, codecs, isWhep, cc)
  BY DEF AcceptedMedia, FormatsOf
<1>2. isWhep = TRUE /\ (~isWhep) = FALSE
  OBVIOUS
<1>3. source = AnswerSource(sources, m, f)
  OBVIOUS
<1>4. cc = OffersTransportCc(m, codecs, FALSE)
  BY <1>2, Zenon
<1> HIDE DEF a, cc, source, isWhep
<1>5. a.source = AnswerSource(sources, m, f).ssrc
  BY <1>1, <1>3
<1>6. a.extensions = RelayExtensions(m, codecs, f)
  BY <1>1, <1>4 DEF RelayExtensions
<1>7. a.feedback = AnswerFeedback(m.kind, codecs, TRUE, OffersTransportCc(m, codecs, FALSE))
  BY <1>1, <1>2, <1>4, Zenon
<1> QED
  BY <1>1, <1>5, <1>6, <1>7 DEF a, IsAccepted

\* The publisher's section that feeds the n-th section of the offer.
LEMMA SectionIsForwarded ==
  ASSUME NEW p, PublisherBorn(p), NEW offer, IsSequence(offer.media), MidsDiffer(offer.media), NEW n \in DOMAIN offer.media,
         ForwardedMedia(offer.media[n], offer, p.offer) # None
  PROVE  LET f == ForwardedMedia(offer.media[n], offer, p.offer)
             from == CHOOSE k \in DOMAIN p.answer.media : p.answer.media[k].mid = f.mid
         IN  IsSection(p, f, from) /\ f.kind = offer.media[n].kind
<1> DEFINE f == ForwardedMedia(offer.media[n], offer, p.offer)
           from == CHOOSE k \in DOMAIN p.answer.media : p.answer.media[k].mid = f.mid
<1>1. /\ IsSequence(p.offer.media) /\ MidsDiffer(p.offer.media)
      /\ \A k \in DOMAIN p.offer.media : \E j : IsSection(p, p.offer.media[k], j)
  BY PublisherSections
<1>2. PICK k \in DOMAIN p.offer.media : FedFrom(offer.media[n], offer, p.offer, k)
  BY <1>1, ForwardedDiffer
<1>3. f = p.offer.media[k] /\ f.kind = offer.media[n].kind
  BY <1>2 DEF FedFrom
<1> HIDE DEF f
<1>4. PICK j : IsSection(p, f, j)
  BY <1>1, <1>3
<1>5. j \in DOMAIN p.answer.media /\ p.answer.media[j] = WhipAnswerMedia(f)
      /\ \A l \in DOMAIN p.answer.media : p.answer.media[l].mid = f.mid => l = j
  BY <1>4 DEF IsSection, Accepted
<1>6. p.answer.media[j].mid = f.mid
  BY <1>5, AnswersKeepTheirSection
<1>7. from = j
  BY <1>5, <1>6
<1> QED
  BY <1>3, <1>4, <1>7 DEF f

\* How the payload types of a mapping are made, and fed.
LEMMA MappingIsFed ==
  ASSUME NEW d, NEW o, NEW m, Summarized(d, o, m), NEW e, NEW source, NEW f, Summarized(e, source, f),
         NEW codecs, Chosen(codecs, m, Len(m.codecs)), NEW own, m.kind = "video" => own.rtx # None,
         PayloadMappings(m, codecs, f, own) # Refused
  PROVE  PayloadsFed(PayloadMappings(m, codecs, f, own), m, codecs, f)
<1> DEFINE types == PayloadTypeMappings(codecs, f)
           maps == PayloadMaps(types, m, own)
<1>1. types # Refused /\ NoneRefused(maps) /\ PayloadMappings(m, codecs, f, own) = maps
  BY PayloadsAreMade
<1>2. IsSequence(codecs)
  BY DEF Chosen
<1>3. /\ NoneRefused(PrimaryMaps(codecs, f)) /\ NoneRefused(RepairMaps(codecs, f))
      /\ types = PrimaryMaps(codecs, f) \o RepairMaps(codecs, f)
  BY <1>1, TypesAreTwoLists
<1>4. TypesMapped(types, codecs, f)
  BY <1>2, <1>3, TypesAreMapped
<1> HIDE DEF types
<1>5. PayloadsFed(maps, m, codecs, f)
  BY <1>1, <1>4, PayloadsAreFed
<1> QED
  BY <1>1, <1>5

LEMMA SectionIsMapped ==
  ASSUME IsNoData(None), PublisherBorn(publisher),
         NEW offer, IsSequence(offer.media), MidsDiffer(offer.media), NEW n \in DOMAIN offer.media,
         NEW d, NEW o, Summarized(d, o, offer.media[n]),
         WhepAnswerMedia(offer.media[n], offer, publisher.offer, OutboundSources(offer)).port # 0,
         MediaMapping(offer.media[n], offer, publisher.offer, OutboundSources(offer)[n]) # Refused
  PROVE  LET a == WhepAnswerMedia(offer.media[n], offer, publisher.offer, OutboundSources(offer))
             mapping == MediaMapping(offer.media[n], offer, publisher.offer, OutboundSources(offer)[n])
             f == ForwardedMedia(offer.media[n], offer, publisher.offer)
         IN  f # None /\ mapping.sourceMid = f.mid /\ IsMapped(mapping, a, o)
<1> DEFINE m == offer.media[n]
           sources == OutboundSources(offer)
           own == sources[n]
           a == WhepAnswerMedia(m, offer, publisher.offer, sources)
           mapping == MediaMapping(m, offer, publisher.offer, own)
           f == ForwardedMedia(m, offer, publisher.offer)
           codecs == NegotiatedForRelay(m, f)
           payloads == PayloadMappings(m, codecs, f, own)
           extensions == ExtensionMappings(m, codecs, f)
           cc == OffersTransportCc(m, codecs, FALSE)
<1>1. f # None /\ f # Refused /\ codecs # Refused /\ a = AcceptedMedia(m, f, sources, codecs)
  BY SectionIsAccepted
<1>2. payloads # Refused /\ extensions # Refused /\ mapping = MappingOf(m, f, codecs, own)
  BY <1>1, MappingIsMade
<1>3. /\ AnswerSource(sources, m, f) = own /\ own # None
      /\ own.mid = m.mid /\ own.kind = m.kind /\ (m.kind = "video" => own.rtx # None)
  BY SourceIsOwn
<1> DEFINE from == CHOOSE k \in DOMAIN publisher.answer.media : publisher.answer.media[k].mid = f.mid
           source == OfferedMedia(publisher)[from]
<1>4. IsSection(publisher, f, from) /\ f.kind = m.kind
  BY <1>1, SectionIsForwarded
<1>5. /\ mapping.sourceMid = f.mid /\ mapping.targetMid = m.mid /\ mapping.ssrc = own.ssrc
      /\ mapping.payloads = payloads /\ mapping.extensions = extensions
  BY <1>2 DEF MappingOf
<1>6. Summarized(d, o, m)
  OBVIOUS
<1> HIDE DEF m, sources, own, a, mapping, f, codecs, payloads, extensions, cc, from, source
<1>7. /\ a.mid = m.mid /\ a.kind = m.kind /\ a.formats = FormatsOf(codecs) /\ a.source = own.ssrc
      /\ a.extensions = RelayExtensions(m, codecs, f) /\ a.feedback = AnswerFeedback(m.kind, codecs, TRUE, cc)
  <2>1. AnswerSource(sources, m, f) # None
    BY <1>3
  <2>2. IsAccepted(a, m, f, own, codecs)
    BY <1>1, <1>3, <2>1, AcceptedFields
  <2> QED
    BY <2>2 DEF IsAccepted, cc
<1>8. Chosen(codecs, m, Len(m.codecs))
  <2>1. IsSequence(m.codecs) /\ \A i \in DOMAIN m.codecs : CodecRead(m.codecs[i], o)
    BY <1>6 DEF Summarized
  <2> QED
    BY <1>1, <2>1, RelayIsNegotiated DEF codecs
<1>9. /\ from \in Accepted(publisher) /\ publisher.answer.media[from] = WhipAnswerMedia(f)
      /\ Summarized(Offers[publisher.name], source, f)
  BY <1>4 DEF IsSection, source
<1>10. WhipAnswerMedia(f).port # 0 /\ source.kind = f.kind /\ f.extensions = source.extensions
       /\ IsSequence(f.extensions) /\ IsSequence(m.extensions)
  BY <1>6, <1>9 DEF Accepted, Summarized, SectionRead, SectionLists
<1>11. PayloadsFed(payloads, m, codecs, f)
  BY <1>2, <1>3, <1>6, <1>8, <1>9, MappingIsFed DEF payloads
<1>12. /\ {payloads[k].target : k \in DOMAIN payloads} = Elements(FormatsOf(codecs))
       /\ \A k \in DOMAIN payloads : PayloadFits(payloads[k], payloads, m, o, f, source, AnswerFeedback(m.kind, codecs, TRUE, cc))
  BY <1>6, <1>8, <1>9, <1>10, <1>11, PayloadsFit
<1>13. ExtensionsFed(extensions, a.extensions, source)
  <2>1. ExtensionsFed(extensions, RelayExtensions(m, codecs, f), f)
    BY <1>2, <1>10, ExtensionsAreFed DEF extensions
  <2> QED
    BY <1>7, <1>10, <2>1 DEF ExtensionsFed
<1>14. from = CHOOSE k \in DOMAIN publisher.answer.media : publisher.answer.media[k].mid = mapping.sourceMid
  BY <1>5 DEF from
<1> DEFINE primaries == {k \in DOMAIN payloads : ~payloads[k].rtx}
<1>15. \A k \in DOMAIN payloads :
         /\ NamesOf(source, payloads[k].source) \cap NamesOf(o, payloads[k].target) # {}
         /\ IF payloads[k].rtx
            THEN ~payloads[k].nack /\
                   \E j \in primaries : payloads[j].target = payloads[k].apt /\ payloads[j].source = payloads[k].sourceApt
            ELSE DescribedOnce(o) /\ a.kind = "video" =>
                   (payloads[k].nack <=> <<payloads[k].target, "nack">> \in Elements(a.feedback))
  <2> TAKE k \in DOMAIN payloads
  <2> DEFINE p == payloads[k]
  <2>1. PayloadFits(p, payloads, m, o, f, source, a.feedback)
    BY <1>7, <1>12
  <2>2. \A j \in DOMAIN payloads : ~payloads[j].rtx <=> j \in primaries
    OBVIOUS
  <2> HIDE DEF p, primaries
  <2>3. NamesOf(source, p.source) \cap NamesOf(o, p.target) # {}
    BY <2>1, Zenon DEF PayloadFits
  <2>4. p.rtx => ~p.nack /\ \E j \in DOMAIN payloads :
                              ~payloads[j].rtx /\ payloads[j].target = p.apt /\ payloads[j].source = p.sourceApt
    BY <2>1, Zenon DEF PayloadFits
  <2>5. ~p.rtx => (DescribedOnce(o) /\ m.kind = "video" => (p.nack <=> <<p.target, "nack">> \in Elements(a.feedback)))
    BY <2>1, Zenon DEF PayloadFits
  <2>6. p.rtx => ~p.nack /\ \E j \in primaries : payloads[j].target = p.apt /\ payloads[j].source = p.sourceApt
    BY <2>2, <2>4, Zenon
  <2>7. ~p.rtx => (DescribedOnce(o) /\ a.kind = "video" => (p.nack <=> <<p.target, "nack">> \in Elements(a.feedback)))
    BY <1>7, <2>5
  <2> QED
    BY <2>3, <2>6, <2>7, Zenon DEF p
<1>16. \A k \in primaries : payloads[k].source \in Elements(publisher.answer.media[from].formats)
  <2> TAKE k \in primaries
  <2>1. k \in DOMAIN payloads /\ ~payloads[k].rtx
    OBVIOUS
  <2>2. PayloadFits(payloads[k], payloads, m, o, f, source, a.feedback)
    BY <1>7, <1>12, <2>1
  <2>3. payloads[k].source \in Elements(WhipAnswerMedia(f).formats)
    BY <2>1, <2>2, Zenon DEF PayloadFits
  <2> QED
    BY <1>9, <2>3
<1>17. mapping.targetMid = a.mid /\ mapping.ssrc = a.source /\ source.kind = a.kind
       /\ {payloads[k].target : k \in DOMAIN payloads} = Elements(a.formats)
  BY <1>4, <1>5, <1>7, <1>10, <1>12
<1> HIDE DEF primaries
<1>18. IsMapped(mapping, a, o)
  <2> DEFINE Whole(from_, pl, ext) ==
        LET source_ == OfferedMedia(publisher)[from_]
            primaries_ == {k \in DOMAIN pl : ~pl[k].rtx}
            uris == {x.uri : x \in Elements(a.extensions)} \ {"transport-cc"}
        IN  /\ mapping.targetMid = a.mid /\ mapping.ssrc = a.source
            /\ from_ \in Accepted(publisher) /\ source_.kind = a.kind
            /\ {pl[k].target : k \in DOMAIN pl} = Elements(a.formats)
            /\ \A k \in DOMAIN pl : LET p == pl[k] IN
                 /\ NamesOf(source_, p.source) \cap NamesOf(o, p.target) # {}
                 /\ IF p.rtx
                    THEN ~p.nack /\ \E j \in primaries_ : pl[j].target = p.apt /\ pl[j].source = p.sourceApt
                    ELSE DescribedOnce(o) /\ a.kind = "video" =>
                           (p.nack <=> <<p.target, "nack">> \in Elements(a.feedback))
            /\ \A k \in primaries_ : pl[k].source \in Elements(publisher.answer.media[from_].formats)
            /\ ExtensionsFed(ext, a.extensions, source_)
  <2>1. Whole(from, payloads, extensions)
    BY <1>9, <1>13, <1>15, <1>16, <1>17, Zenon DEF primaries, source
  <2>2. Whole(CHOOSE k \in DOMAIN publisher.answer.media : publisher.answer.media[k].mid = mapping.sourceMid,
              mapping.payloads, mapping.extensions) => IsMapped(mapping, a, o)
    BY Zenon DEF IsMapped, ExtensionsFed
  <2> HIDE DEF Whole
  <2> QED
    BY <1>5, <1>14, <2>1, <2>2
<1> QED
  BY <1>1, <1>5, <1>18 DEF m, sources, own, a, mapping, f

\* A mapping made for an answer agrees with it.
LEMMA FedAgrees ==
  ASSUME IsNoData(None), PublisherBorn(publisher), NEW s, SubscriberFed(s, publisher.offer)
  PROVE  MappingAgrees(s)
<1>1. PICK offer : /\ Born(s, offer, WhepMedia(offer, publisher.offer))
                   /\ s.config = RewriterConfig(offer, s.accepted, OutboundSources(offer), publisher.offer)
                   /\ s.config # Refused
  BY DEF SubscriberFed
<1> DEFINE d == Offers[s.name]
           from == publisher.offer
           sources == OutboundSources(offer)
           accepted == s.accepted
           answered == s.answer.media
           config == s.config
           Made(i) == MediaMapping(offer.media[accepted[i] + 1], offer, from, sources[accepted[i] + 1])
<1>2. /\ s.name \in DOMAIN Offers /\ SummaryOf(offer, d) /\ IsAnswer(s.answer, WhepMedia(offer, from))
      /\ accepted = s.answer.accepted
      /\ MidsDiffer(offer.media) /\ IsSequence(offer.media) /\ OfferedMedia(s) = Offered(d)
  BY <1>1, Zenon DEF Born, CommonOfferIsValid, MidsAreUnique, Distinct, MidsDiffer, AnswersEach, OfferedMedia, Offered
<1>3. /\ IsSequence(accepted) /\ Distinct(accepted) /\ answered = WhepMedia(offer, from)
      /\ Elements(accepted) = {i - 1 : i \in {k \in DOMAIN answered : answered[k].port # 0}}
  BY <1>2 DEF IsAnswer
<1>4. DOMAIN answered = DOMAIN offer.media
      /\ \A i \in DOMAIN answered : answered[i] = WhepAnswerMedia(offer.media[i], offer, from, sources)
  BY <1>3 DEF WhepMedia
<1>5. config # Refused /\ config = [i \in DOMAIN accepted |-> Made(i)] /\ \A i \in DOMAIN accepted : Made(i) # Refused
  <2> DEFINE mapped == [i \in DOMAIN accepted |-> Made(i)]
  <2>1. config # Refused /\ config = IF \E i \in DOMAIN accepted : mapped[i] = Refused THEN Refused ELSE mapped
    BY <1>1, Zenon DEF RewriterConfig, MapAll
  <2> HIDE DEF config
  <2>2. \A i \in DOMAIN accepted : mapped[i] = Made(i)
    BY Zenon
  <2> HIDE DEF mapped, Made
  <2>3. config = mapped /\ \A i \in DOMAIN accepted : mapped[i] # Refused
    BY <2>1
  <2>4. \A i \in DOMAIN accepted : Made(i) # Refused
    BY <2>2, <2>3
  <2> QED
    BY <2>1, <2>3, <2>4 DEF mapped
<1> HIDE DEF d, from, sources, accepted, answered, config, Made
<1>6. DOMAIN config = DOMAIN accepted /\ (\A i \in DOMAIN accepted : config[i] = Made(i) /\ config[i] # Refused)
      /\ IsData(config)
  BY <1>5 DEF IsData
<1>7. Len(config) = Len(accepted)
  BY <1>3, <1>6, MappedSequence
<1>8. \A i \in DOMAIN accepted : accepted[i] \in Int /\ accepted[i] + 1 \in DOMAIN answered /\ answered[accepted[i] + 1].port # 0
  <2> TAKE i \in DOMAIN accepted
  <2>1. accepted[i] \in Elements(accepted)
    BY DEF Elements
  <2>2. PICK k \in DOMAIN answered : answered[k].port # 0 /\ accepted[i] = k - 1
    BY <1>3, <2>1
  <2>3. k \in Nat
    BY <1>2, <1>4, SequenceIsFunction
  <2>4. accepted[i] + 1 = k /\ accepted[i] \in Int
    BY <2>2, <2>3
  <2> QED
    BY <2>2, <2>4
<1>9. ASSUME NEW i \in DOMAIN accepted
      PROVE  LET n == accepted[i] + 1
                 f == ForwardedMedia(offer.media[n], offer, from)
             IN  /\ n \in DOMAIN offer.media /\ f # None /\ config[i].sourceMid = f.mid
                 /\ IsMapped(config[i], answered[n], OfferedMedia(s)[n])
  <2> DEFINE n == accepted[i] + 1
  <2>1. n \in DOMAIN offer.media /\ answered[n].port # 0 /\ answered[n] = WhepAnswerMedia(offer.media[n], offer, from, sources)
    BY <1>4, <1>8
  <2>2. config[i] = MediaMapping(offer.media[n], offer, from, sources[n]) /\ config[i] # Refused
    BY <1>6 DEF Made
  <2> HIDE DEF n
  <2>3. Summarized(d, OfferedMedia(s)[n], offer.media[n])
    BY <1>2, <2>1, SectionIsSummarized DEF d
  <2>4. LET a == WhepAnswerMedia(offer.media[n], offer, from, sources)
            mapping == MediaMapping(offer.media[n], offer, from, sources[n])
            f == ForwardedMedia(offer.media[n], offer, from)
        IN  f # None /\ mapping.sourceMid = f.mid /\ IsMapped(mapping, a, OfferedMedia(s)[n])
    BY <1>2, <2>1, <2>2, <2>3, SectionIsMapped DEF from, sources
  <2> QED
    BY <2>1, <2>2, <2>4 DEF n
<1>10. \A i \in DOMAIN accepted : SectionIsFed(s, i)
  <2> TAKE i \in DOMAIN accepted
  <2>1. IsMapped(config[i], answered[accepted[i] + 1], OfferedMedia(s)[accepted[i] + 1])
    BY <1>9
  <2> QED
    BY <2>1, Zenon DEF IsMapped, SectionIsFed, config, answered, accepted
<1>11. SourcesDiffer(s)
  <2>1. IsSequence(from.media) /\ MidsDiffer(from.media)
    BY PublisherSections DEF from
  <2> SUFFICES ASSUME NEW i \in DOMAIN config, NEW j \in DOMAIN config, config[i].sourceMid = config[j].sourceMid
               PROVE  i = j
    BY DEF SourcesDiffer, Distinct, config
  <2> DEFINE k == accepted[i] + 1
             l == accepted[j] + 1
             a == ForwardedMedia(offer.media[k], offer, from)
             b == ForwardedMedia(offer.media[l], offer, from)
  <2>2. k \in DOMAIN offer.media /\ l \in DOMAIN offer.media
        /\ a # None /\ b # None /\ config[i].sourceMid = a.mid /\ config[j].sourceMid = b.mid
    BY <1>6, <1>9
  <2>3. a.mid = b.mid
    BY <2>2
  <2> HIDE DEF k, l
  <2>4. k = l
    BY <1>2, <2>1, <2>2, <2>3, ForwardedDiffer
  <2>5. accepted[i] \in Int /\ accepted[j] \in Int
    BY <1>6, <1>8
  <2>6. accepted[i] = accepted[j]
    BY <2>4, <2>5 DEF k, l
  <2> QED
    BY <1>3, <1>6, <2>6 DEF Distinct
<1> QED
  BY <1>7, <1>10, <1>11, Zenon DEF MappingAgrees, config, accepted

LEMMA AnswerStaysMapped ==
  ASSUME IsNoData(None)
  PROVE  Spec => []AnswerIsMapped
<1>1. FedOK => AnswerIsMapped
  <2> SUFFICES ASSUME FedOK, subscriber # None, publisher # None, subscriber.original PROVE MappingAgrees(subscriber)
    BY DEF FedOK, AnswerIsMapped
  <2>1. PublisherBorn(publisher) /\ SubscriberFed(subscriber, publisher.offer)
    BY DEF FedOK
  <2> QED
    BY <2>1, FedAgrees
<1> QED
  BY <1>1, SubscribersAreFed, PTL

-----------------------------------------------------------------------------
(* An offer that can be answered has its mapping.                          *)

LEMMA SequenceIsData ==
  ASSUME NEW s, IsSequence(s)
  PROVE  IsData(s)
BY SequenceIsFunction DEF IsData

\* What a negotiated section is relayed from.
LEMMA NegotiatedIsRelayed ==
  ASSUME NEW d, NEW o, NEW m, Summarized(d, o, m), NEW f, f # None, NegotiatedForRelay(m, f) # Refused
  PROVE  Relayed(NegotiatedForRelay(m, f), f)
<1> DEFINE s == Answerable(m)
           P == {i \in DOMAIN s : CompatiblePublisherCodec(f, s[i]) # None}
           t == Picked(s, P)
           primaries == SortedByPreference(t)
<1>1. NegotiatedForRelay(m, f) = IF m.kind # f.kind \/ ~CanSend(f) THEN Refused ELSE WithRtx(m, f, primaries)
  BY DEF NegotiatedForRelay, Where
<1>2. IsSequence(m.codecs) /\ \A i \in DOMAIN m.codecs : CodecRead(m.codecs[i], o)
  BY DEF Summarized
<1>3. P \subseteq DOMAIN s /\ \A i \in P : CompatiblePublisherCodec(f, s[i]) # None
  OBVIOUS
<1> HIDE DEF P, s
<1>4. IsSequence(s) /\ Primaries(s, m)
  BY <1>2, AnswerableIsPrimary DEF Primaries, s
<1>5. Sifted(t, s, P)
  BY <1>3, <1>4, PickedSifts
<1> HIDE DEF t
<1>6. IsSequence(t) /\ \A c \in Elements(t) : CompatiblePublisherCodec(f, c) # None
  BY <1>3, <1>5 DEF Sifted, Elements
<1>7. Primaries(t, m)
  BY <1>3, <1>4, <1>5, PrimariesStay
<1>8. Primaries(primaries, m)
  BY <1>7, SortedPrimaries
<1>9. IsSequence(primaries) /\ Elements(primaries) = Elements(t)
  BY <1>6, SortingKeeps
<1> HIDE DEF primaries
<1>10. Relayed(primaries, f)
  <2> SUFFICES ASSUME NEW k \in DOMAIN primaries
               PROVE  ~IsRtx(primaries[k]) /\ CompatiblePublisherCodec(f, primaries[k]) # None
    BY Zenon DEF Relayed
  <2>1. primaries[k].name \in {"opus", "vp8", "h264"}
    BY <1>8 DEF Primaries, PrimaryOf
  <2>2. ~IsRtx(primaries[k])
    BY <2>1, SMT DEF IsRtx
  <2>3. primaries[k] \in Elements(t)
    BY <1>9 DEF Elements
  <2> QED
    BY <1>6, <2>2, <2>3
<1>11. NegotiatedForRelay(m, f) = WithRtx(m, f, primaries) /\ WithRtx(m, f, primaries) # Refused
  BY <1>1
<1>12. Relayed(WithRtx(m, f, primaries), f)
  BY <1>2, <1>9, <1>10, <1>11, WithRtxGrows
<1> QED
  BY <1>11, <1>12

\* The source of a codec is no repair, and neither is the codec.
LEMMA SourceIsPrimary ==
  ASSUME NEW e, NEW source, NEW f, Summarized(e, source, f), NEW c, CompatiblePublisherCodec(f, c) # None
  PROVE  ~IsRtx(c)
<1> DEFINE s == CompatiblePublisherCodec(f, c)
<1>1. Feeds(s, f, c)
  BY CompatibleFeeds
<1> HIDE DEF s
<1>2. s \in Elements(f.codecs) /\ s.name = c.name /\ NormalizedCodec(f.kind, s) # Refused
  BY <1>1 DEF Feeds
<1>3. CodecRead(s, source)
  BY <1>2 DEF Summarized, Elements
<1>4. s.name \in {"opus", "vp8", "h264"}
  BY <1>2, <1>3, NormalizedIsPrimary
<1>5. c.name # "rtx"
  BY <1>2, <1>4
<1> QED
  BY <1>5, SMT DEF IsRtx

LEMMA TypesCanBeMapped ==
  ASSUME IsNoData(None), IsNoData(Refused), NEW e, NEW source, NEW f, Summarized(e, source, f),
         NEW codecs, IsSequence(codecs), PtsDistinct(codecs), Relayed(codecs, f)
  PROVE  /\ NoneRefused(PrimaryMaps(codecs, f)) /\ NoneRefused(RepairMaps(codecs, f))
         /\ PayloadTypeMappings(codecs, f) # Refused
         /\ PayloadTypeMappings(codecs, f) = PrimaryMaps(codecs, f) \o RepairMaps(codecs, f)
<1> DEFINE maps == PrimaryMaps(codecs, f)
           repairs == RepairMaps(codecs, f)
           types == PayloadTypeMappings(codecs, f)
           Source(c) == CompatiblePublisherCodec(f, c)
<1>1. \A k \in DOMAIN codecs :
        /\ ~IsRtx(codecs[k]) => Source(codecs[k]) # None
        /\ IsRtx(codecs[k]) =>
             \E j \in DOMAIN codecs : codecs[j].pt = Apt(codecs[k]) /\ Source(codecs[j]) # None
                                      /\ RtxForApt(f, Source(codecs[j]).pt) # None
  BY Zenon DEF Relayed
<1>2. NoneRefused(maps)
  <2> SUFFICES ASSUME NEW i \in DOMAIN PrimaryCodecs(codecs)
               PROVE  PrimaryMapping(PrimaryCodecs(codecs)[i], Source(PrimaryCodecs(codecs)[i])) # Refused
    BY DEF NoneRefused, PrimaryMaps
  <2> DEFINE c == PrimaryCodecs(codecs)[i]
             p == Source(c)
             x == [source |-> p.pt, target |-> c.pt, apt |-> None, sourceApt |-> None]
  <2>1. c \in Elements(codecs) /\ ~IsRtx(c)
    BY CodecsAreSplit DEF Elements
  <2> HIDE DEF c
  <2>2. p # None
    BY <1>1, <2>1 DEF Elements
  <2> HIDE DEF p
  <2>3. PrimaryMapping(c, p) = x
    BY <2>2 DEF PrimaryMapping
  <2>4. IsData(x)
    BY DEF IsData
  <2> HIDE DEF x
  <2>5. PrimaryMapping(c, p) # Refused
    BY <2>3, <2>4 DEF IsNoData
  <2> QED
    BY <2>5 DEF c, p
<1>3. /\ IsSequence(maps)
      /\ \A x \in Elements(maps) : \E c \in Elements(codecs) : PrimaryMapped(x, c, f)
      /\ \A c \in Elements(codecs) : ~IsRtx(c) => \E x \in Elements(maps) : PrimaryMapped(x, c, f)
  BY <1>2, PrimariesAreMapped
<1> HIDE DEF maps
<1>4. ASSUME NEW c \in Elements(codecs), IsRtx(c) PROVE RtxMapping(c, maps, f) # Refused
  <2> DEFINE P == {i \in DOMAIN maps : maps[i].target = Apt(c)}
             y == IF P = {} THEN None ELSE maps[Min(P)]
             p == IF y = None THEN None ELSE RtxForApt(f, y.source)
             x == [source |-> p.pt, target |-> c.pt, apt |-> y.target, sourceApt |-> y.source]
  <2>1. RtxMapping(c, maps, f) = IF p = None THEN Refused ELSE x
    BY DEF RtxMapping, First
  <2>2. P \subseteq DOMAIN maps /\ \A i \in DOMAIN maps : i \in P <=> maps[i].target = Apt(c)
    BY SMTT(40)
  <2>3. IsData(x)
    BY DEF IsData
  <2> HIDE DEF P, x, p
  <2>4. P # {} => y = maps[Min(P)]
    OBVIOUS
  <2>5. PICK j \in DOMAIN codecs : codecs[j].pt = Apt(c) /\ Source(codecs[j]) # None
                                   /\ RtxForApt(f, Source(codecs[j]).pt) # None
    BY <1>1, <1>4 DEF Elements
  <2>6. ~IsRtx(codecs[j]) /\ codecs[j] \in Elements(codecs)
    BY <2>5, SourceIsPrimary DEF Elements
  <2>7. PICK z \in Elements(maps) : PrimaryMapped(z, codecs[j], f)
    BY <1>3, <2>6
  <2>8. z.target = Apt(c)
    BY <2>5, <2>7 DEF PrimaryMapped
  <2>9. P # {}
    BY <2>2, <2>7, <2>8 DEF Elements
  <2>10. Min(P) \in P /\ y = maps[Min(P)]
    BY <1>3, <2>2, <2>4, <2>9, FirstPosition
  <2> HIDE DEF y
  <2>11. y \in Elements(maps) /\ y.target = Apt(c)
    BY <2>2, <2>10 DEF Elements
  <2>12. PICK q \in Elements(codecs) : PrimaryMapped(y, q, f)
    BY <1>3, <2>11
  <2>13. q = codecs[j]
    <3>1. q.pt = codecs[j].pt
      BY <2>5, <2>11, <2>12 DEF PrimaryMapped
    <3> QED
      BY <3>1 DEF PtsDistinct, Elements
  <2>14. y.source = Source(codecs[j]).pt /\ IsData(y)
    BY <2>12, <2>13 DEF PrimaryMapped, IsData
  <2>15. y # None
    BY <2>14 DEF IsNoData
  <2>16. p # None
    BY <2>5, <2>14, <2>15 DEF p
  <2> QED
    BY <2>1, <2>3, <2>16 DEF IsNoData
<1>5. NoneRefused(repairs)
  <2> SUFFICES ASSUME NEW i \in DOMAIN RepairCodecs(codecs) PROVE RtxMapping(RepairCodecs(codecs)[i], maps, f) # Refused
    BY DEF NoneRefused, RepairMaps, maps
  <2>1. RepairCodecs(codecs)[i] \in Elements(codecs) /\ IsRtx(RepairCodecs(codecs)[i])
    BY CodecsAreSplit DEF Elements
  <2> QED
    BY <1>4, <2>1
<1>6. types = maps \o repairs
  BY <1>2, <1>5, TypesAreTwoLists DEF maps
<1>7. TypesMapped(maps \o repairs, codecs, f)
  BY <1>2, <1>5, TypesAreMapped DEF maps
<1> HIDE DEF types, repairs
<1>8. IsData(types)
  BY <1>6, <1>7, SequenceIsData DEF TypesMapped
<1>9. types # Refused
  BY <1>8 DEF IsNoData
<1> QED
  BY <1>2, <1>5, <1>6, <1>9 DEF maps, types, repairs

\* The codec of the section that a primary codec of the answer stands for.
LEMMA PrimaryIsDescribed ==
  ASSUME IsNoData(None), NEW d, NEW o, NEW m, Summarized(d, o, m), PtsDistinct(m.codecs), NEW c, PrimaryOf(c, m)
  PROVE  ByPayloadType(m.codecs, c.pt) # None /\ ByPayloadType(m.codecs, c.pt).clock # 0
<1>1. PICK i \in DOMAIN m.codecs : c.pt = m.codecs[i].pt /\ m.codecs[i].clock # 0
  BY DEF PrimaryOf
<1>2. IsSequence(m.codecs) /\ CodecRead(m.codecs[i], o)
  BY DEF Summarized
<1>3. ByPayloadType(m.codecs, c.pt) = m.codecs[i]
  BY <1>1, <1>2, PayloadTypeIsFound
<1>4. IsData(m.codecs[i])
  BY <1>2 DEF CodecRead, IsData
<1>5. m.codecs[i] # None
  BY <1>4 DEF IsNoData
<1> QED
  BY <1>1, <1>3, <1>5

LEMMA PayloadIsMade ==
  ASSUME IsNoData(Refused), NEW x, NEW m,
         LET c == ByPayloadType(m.codecs, IF x.apt = None THEN x.target ELSE x.apt) IN c # None /\ c.clock # 0
  PROVE  PayloadOf(x, m) # Refused
<1> DEFINE c == ByPayloadType(m.codecs, IF x.apt = None THEN x.target ELSE x.apt)
           made == [source |-> x.source, target |-> x.target, rtx |-> x.apt # None,
                    sourceApt |-> x.sourceApt, apt |-> x.apt, clock |-> c.clock,
                    nack |-> x.apt = None /\ SupportsNack(c)]
<1>1. PayloadOf(x, m) = IF c = None \/ c.clock = 0 THEN Refused ELSE made
  BY Zenon DEF PayloadOf
<1>2. IsData(made)
  BY DEF IsData
<1>3. c # None /\ c.clock # 0
  OBVIOUS
<1> HIDE DEF c, made
<1> QED
  BY <1>1, <1>2, <1>3 DEF IsNoData

LEMMA PayloadsCanBeMapped ==
  ASSUME IsNoData(None), IsNoData(Refused), NEW d, NEW o, NEW m, Summarized(d, o, m), PtsDistinct(m.codecs),
         NEW codecs, Chosen(codecs, m, Len(m.codecs)), NEW f, NEW types, TypesMapped(types, codecs, f),
         NEW own, m.kind = "video" => own.rtx # None
  PROVE  NoneRefused(PayloadMaps(types, m, own))
<1> DEFINE kept == KeptTypes(types, own)
<1>1. IsSequence(kept) /\ Elements(kept) = Elements(types)
  BY TypesAreKept
<1>2. ASSUME NEW x \in Elements(types)
      PROVE  \E c \in Elements(codecs) : ~IsRtx(c) /\ c.pt = IF x.apt = None THEN x.target ELSE x.apt
  <2>1. PICK c \in Elements(codecs) : PrimaryMapped(x, c, f) \/ \E y \in Elements(types) : RepairMapped(x, c, y, f)
    BY <1>2 DEF TypesMapped
  <2>2. CASE PrimaryMapped(x, c, f)
    BY <2>1, <2>2 DEF PrimaryMapped
  <2>3. ASSUME NEW y \in Elements(types), RepairMapped(x, c, y, f)
        PROVE  \E q \in Elements(codecs) : ~IsRtx(q) /\ q.pt = IF x.apt = None THEN x.target ELSE x.apt
    <3>1. IsRtx(c) /\ y.apt = None /\ y.target = Apt(c) /\ x.apt = Apt(c)
      BY <2>3 DEF RepairMapped
    <3>2. PICK q \in Elements(codecs) : PrimaryMapped(y, q, f) \/ \E z \in Elements(types) : RepairMapped(y, q, z, f)
      BY <2>3 DEF TypesMapped
    <3>3. ASSUME NEW e \in Elements(codecs), IsRtx(e) PROVE Apt(e) # None
      <4>1. e.name = "rtx"
        BY <3>3, SMT DEF IsRtx
      <4>2. ~PrimaryOf(e, m)
        BY <4>1 DEF PrimaryOf
      <4> QED
        BY <4>2 DEF Chosen, RepairOf, Elements
    <3>4. ASSUME NEW z \in Elements(types), RepairMapped(y, q, z, f) PROVE FALSE
      <4>1. IsRtx(q) /\ y.apt = Apt(q)
        BY <3>4 DEF RepairMapped
      <4> QED
        BY <3>1, <3>3, <4>1
    <3>5. PrimaryMapped(y, q, f)
      BY <3>2, <3>4
    <3>6. ~IsRtx(q) /\ q.pt = y.target
      BY <3>5 DEF PrimaryMapped
    <3>7. x.apt # None
      BY <2>1, <3>1, <3>3
    <3>8. q.pt = x.apt
      BY <3>1, <3>6
    <3> QED
      BY <3>6, <3>7, <3>8
  <2> QED
    BY <2>1, <2>2, <2>3
<1>3. ASSUME NEW x \in Elements(types) PROVE PayloadOf(x, m) # Refused
  <2>1. PICK c \in Elements(codecs) : ~IsRtx(c) /\ c.pt = IF x.apt = None THEN x.target ELSE x.apt
    BY <1>2, <1>3
  <2>2. PrimaryOf(c, m)
    BY <2>1 DEF Chosen, RepairOf, Elements
  <2>3. ByPayloadType(m.codecs, c.pt) # None /\ ByPayloadType(m.codecs, c.pt).clock # 0
    BY <2>2, PrimaryIsDescribed
  <2> QED
    BY <2>1, <2>3, PayloadIsMade
<1>4. DOMAIN PayloadMaps(types, m, own) = DOMAIN kept /\ \A i \in DOMAIN kept : PayloadMaps(types, m, own)[i] = PayloadOf(kept[i], m)
  BY DEF PayloadMaps
<1> HIDE DEF kept
<1> QED
  BY <1>1, <1>3, <1>4 DEF NoneRefused, Elements

\* Every extension of an answer but the transport's own is one of the publisher.
LEMMA ExtensionsCanBeMapped ==
  ASSUME IsNoData(Refused), NEW m, IsSequence(m.extensions), NEW codecs, NEW e, NEW source, NEW f, Summarized(e, source, f),
         f # None
  PROVE  ExtensionMappings(m, codecs, f) # Refused
<1> DEFINE cc == OffersTransportCc(m, codecs, FALSE)
           P == {i \in DOMAIN m.extensions :
                   /\ m.extensions[i].id \in 1..255 /\ ExtensionIsSupported(m.kind, m.extensions[i].uri, cc)
                   /\ f # None /\ m.extensions[i].uri # "transport-cc" => HasExtension(f, m.extensions[i].uri)
                   /\ NeedsTwoBytes(m.extensions[i].id) => m.mixed}
           answered == RelayExtensions(m, codecs, f)
           Q == {i \in DOMAIN answered : answered[i].uri # "transport-cc"}
           kept == MappedExtensions(m, codecs, f)
           maps == ExtensionMaps(m, codecs, f)
<1>1. answered = Picked(m.extensions, P)
  BY DEF RelayExtensions, AnswerExtensions, Where
<1>2. P \subseteq DOMAIN m.extensions
      /\ \A i \in P : m.extensions[i].uri # "transport-cc" => HasExtension(f, m.extensions[i].uri)
  OBVIOUS
<1>3. kept = Picked(answered, Q)
  BY DEF MappedExtensions, Where
<1>4. Q \subseteq DOMAIN answered /\ \A i \in Q : answered[i].uri # "transport-cc"
  OBVIOUS
<1>5. DOMAIN maps = DOMAIN kept /\ IsData(maps) /\ \A i \in DOMAIN kept : maps[i] = ExtensionOf(kept[i], f)
  BY DEF ExtensionMaps, IsData
<1>6. ExtensionMappings(m, codecs, f) = IF NoneRefused(maps) THEN maps ELSE Refused
  BY ExtensionsAreMade
<1> HIDE DEF P, Q, answered, kept, maps
<1>7. Sifted(answered, m.extensions, P)
  BY <1>1, <1>2, PickedSifts
<1>8. IsSequence(answered) /\ \A i \in DOMAIN answered : answered[i].uri # "transport-cc" => HasExtension(f, answered[i].uri)
  BY <1>2, <1>7 DEF Sifted
<1>9. Sifted(kept, answered, Q)
  BY <1>3, <1>4, <1>8, PickedSifts
<1>10. \A i \in DOMAIN kept : HasExtension(f, kept[i].uri)
  BY SMTT(40), <1>4, <1>8, <1>9 DEF Sifted
<1>11. /\ IsSequence(f.extensions) /\ None \notin Elements(f.extensions)
       /\ \A k \in DOMAIN f.extensions : f.extensions[k].id \in 1..255
  BY DEF Summarized, SectionLists, SectionRead, IdentityIsValid
<1>12. \A i \in DOMAIN kept : ExtensionOf(kept[i], f) # Refused
  BY <1>10, <1>11, ExtensionIsFed
<1>13. NoneRefused(maps)
  BY <1>5, <1>12 DEF NoneRefused
<1> QED
  BY <1>5, <1>6, <1>13 DEF IsNoData

\* A section that is accepted has its mapping.
LEMMA SectionCanBeMapped ==
  ASSUME IsNoData(None), IsNoData(Refused), PublisherBorn(publisher),
         NEW offer, IsSequence(offer.media), MidsDiffer(offer.media), NEW n \in DOMAIN offer.media,
         NEW d, NEW o, Summarized(d, o, offer.media[n]), DescribedOnce(o),
         WhepAnswerMedia(offer.media[n], offer, publisher.offer, OutboundSources(offer)).port # 0
  PROVE  MediaMapping(offer.media[n], offer, publisher.offer, OutboundSources(offer)[n]) # Refused
<1> DEFINE m == offer.media[n]
           sources == OutboundSources(offer)
           own == sources[n]
           mapping == MediaMapping(m, offer, publisher.offer, own)
           f == ForwardedMedia(m, offer, publisher.offer)
           codecs == NegotiatedForRelay(m, f)
           types == PayloadTypeMappings(codecs, f)
           maps == PayloadMaps(types, m, own)
           payloads == PayloadMappings(m, codecs, f, own)
           extensions == ExtensionMappings(m, codecs, f)
<1>1. f # None /\ f # Refused /\ codecs # Refused
  BY SectionIsAccepted
<1>2. own.mid = m.mid /\ own.kind = m.kind /\ (m.kind = "video" => own.rtx # None)
  BY SourceIsOwn
<1>3. payloads # Refused /\ extensions # Refused /\ (\E i \in DOMAIN payloads : ~payloads[i].rtx) => mapping # Refused
  BY <1>1, <1>2, MappingIsMade
<1> DEFINE from == CHOOSE k \in DOMAIN publisher.answer.media : publisher.answer.media[k].mid = f.mid
           source == OfferedMedia(publisher)[from]
           e == Offers[publisher.name]
<1>4. Summarized(e, source, f)
  BY <1>1, SectionIsForwarded DEF IsSection
<1>5. Summarized(d, o, m) /\ PtsDistinct(m.codecs)
  BY DEF Summarized
<1>6. (IsNoData(Refused) /\ types # Refused /\ NoneRefused(maps)) => payloads = maps /\ payloads # Refused
  BY PayloadsAreMade
<1>7. codecs = NegotiatedForRelay(m, f) /\ types = PayloadTypeMappings(codecs, f) /\ maps = PayloadMaps(types, m, own)
      /\ payloads = PayloadMappings(m, codecs, f, own) /\ extensions = ExtensionMappings(m, codecs, f)
  OBVIOUS
<1> HIDE DEF m, sources, own, mapping, f, codecs, types, maps, payloads, extensions, from, source, e
<1>8. Chosen(codecs, m, Len(m.codecs))
  <2>1. IsSequence(m.codecs) /\ \A i \in DOMAIN m.codecs : CodecRead(m.codecs[i], o)
    BY <1>5 DEF Summarized
  <2> QED
    BY <1>1, <1>7, <2>1, RelayIsNegotiated
<1>9. Relayed(codecs, f)
  BY <1>1, <1>5, <1>7, NegotiatedIsRelayed
<1>10. IsSequence(codecs) /\ PtsDistinct(codecs)
  BY <1>5, <1>8 DEF Chosen
<1>11. /\ NoneRefused(PrimaryMaps(codecs, f)) /\ NoneRefused(RepairMaps(codecs, f))
       /\ types # Refused /\ types = PrimaryMaps(codecs, f) \o RepairMaps(codecs, f)
  BY <1>4, <1>7, <1>9, <1>10, TypesCanBeMapped
<1>12. TypesMapped(types, codecs, f)
  BY <1>10, <1>11, TypesAreMapped
<1>13. NoneRefused(maps)
  BY <1>2, <1>5, <1>7, <1>8, <1>12, PayloadsCanBeMapped
<1>14. payloads # Refused
  BY <1>6, <1>11, <1>13
<1>15. extensions # Refused
  <2>1. IsSequence(m.extensions)
    BY <1>5 DEF Summarized, SectionRead, SectionLists
  <2> QED
    BY <1>1, <1>4, <1>7, <2>1, ExtensionsCanBeMapped
<1>16. PayloadsFed(payloads, m, codecs, f)
  BY <1>2, <1>4, <1>5, <1>7, <1>8, <1>14, MappingIsFed
<1>17. \E i \in DOMAIN payloads : ~payloads[i].rtx
  <2>1. PICK c \in Elements(codecs) : TRUE
    BY <1>8 DEF Chosen, Elements
  <2>2. PICK p \in Elements(payloads) : p.target = c.pt
    BY <1>16, <2>1 DEF PayloadsFed
  <2>3. \E q \in Elements(payloads) : ~q.rtx
    BY <1>16, <2>2 DEF PayloadsFed, PrimaryFed, RepairFed
  <2> QED
    BY <2>3 DEF Elements
<1> QED
  BY <1>3, <1>14, <1>15, <1>17 DEF mapping, m, own, sources

\* What describes its payload types once, and is answered, has its mapping.
LEMMA AnswerHasMapping ==
  ASSUME IsNoData(None), IsNoData(Refused), PublisherBorn(publisher),
         NEW name \in DOMAIN Offers, \A o \in Elements(Offers[name].media) : DescribedOnce(o),
         Summaries[name] # Refused, WhepOfferIsValid(Summaries[name]),
         NEW answer, answer = WhepAnswer(Summaries[name], publisher.offer, OutboundSources(Summaries[name])), answer # Refused
  PROVE  RewriterConfig(Summaries[name], answer.accepted, OutboundSources(Summaries[name]), publisher.offer) # Refused
<1> DEFINE d == Offers[name]
           offer == Summaries[name]
           from == publisher.offer
           sources == OutboundSources(offer)
           accepted == answer.accepted
           media == WhepMedia(offer, from)
           Made(i) == MediaMapping(offer.media[accepted[i] + 1], offer, from, sources[accepted[i] + 1])
           made == [i \in DOMAIN accepted |-> Made(i)]
           config == RewriterConfig(offer, accepted, sources, from)
<1>1. SummaryOf(offer, d) /\ IsSequence(offer.media)
  BY SummaryIsRead DEF SummaryOf
<1>2. MidsDiffer(offer.media)
  <2> HIDE DEF offer
  <2> QED
    BY Zenon DEF offer, WhepOfferIsValid, CommonOfferIsValid, MidsAreUnique, Distinct, MidsDiffer
<1>3. answer = Answer(media) /\ answer # Refused
  BY Zenon DEF WhepAnswer, WhepMedia
<1>4. config = IF \E i \in DOMAIN accepted : made[i] = Refused THEN Refused ELSE made
  BY Zenon DEF RewriterConfig, MapAll
<1>5. IsData(made) /\ \A i \in DOMAIN accepted : made[i] = Made(i)
  BY DEF IsData
<1>6. \A o \in Elements(d.media) : DescribedOnce(o)
  OBVIOUS
<1>7. \A i \in DOMAIN offer.media : media[i] = WhepAnswerMedia(offer.media[i], offer, from, sources)
  BY DEF WhepMedia
<1>8. DOMAIN media = DOMAIN offer.media
  BY DEF WhepMedia
<1>9. AnswersEach(media, offer)
  <2> HIDE DEF offer, from
  <2> QED
    BY <1>1, WhepAnswersEach DEF WhepMedia
<1> HIDE DEF offer, from, sources, media, Made, made, config, accepted
<1>10. IsAnswer(answer, media)
  BY <1>3, <1>9, AnswerAccepts DEF AnswersEach
<1>11. Elements(accepted) = {i - 1 : i \in {k \in DOMAIN media : media[k].port # 0}}
  BY <1>10 DEF IsAnswer, accepted
<1>12. \A i \in DOMAIN offer.media : DescribedOnce(Offered(d)[i]) /\ Summarized(d, Offered(d)[i], offer.media[i])
  <2> TAKE i \in DOMAIN offer.media
  <2>1. i \in DOMAIN Offered(d) /\ Summarized(d, Offered(d)[i], offer.media[i])
    BY <1>1, SectionIsSummarized
  <2> DEFINE P == {k \in DOMAIN d.media : d.media[k].kind \in {"audio", "video"}}
  <2>2. IsSequence(d.media) /\ Offered(d) = Picked(d.media, P) /\ P \subseteq DOMAIN d.media
    BY OffersAssumption DEF Offered, Where
  <2> HIDE DEF P
  <2>3. Sifted(Offered(d), d.media, P)
    BY <2>2, PickedSifts
  <2>4. Offered(d)[i] \in Elements(d.media)
    BY <2>1, <2>2, <2>3 DEF Sifted, Elements
  <2> QED
    BY <1>6, <2>1, <2>4
<1>13. ASSUME NEW i \in DOMAIN accepted PROVE Made(i) # Refused
  <2>1. accepted[i] \in Elements(accepted)
    BY DEF Elements
  <2>2. PICK n \in DOMAIN media : media[n].port # 0 /\ accepted[i] = n - 1
    BY <1>11, <2>1
  <2>3. n \in Nat
    BY <1>9, SequenceIsFunction DEF AnswersEach
  <2>4. accepted[i] + 1 = n
    BY <2>2, <2>3
  <2>5. Made(i) = MediaMapping(offer.media[n], offer, from, sources[n])
    BY <2>4 DEF Made
  <2>6. n \in DOMAIN offer.media /\ WhepAnswerMedia(offer.media[n], offer, from, sources).port # 0
    BY <1>7, <1>8, <2>2
  <2> QED
    BY <1>1, <1>2, <1>12, <2>5, <2>6, SectionCanBeMapped DEF from, sources
<1>14. config # Refused
  BY <1>4, <1>5, <1>13 DEF IsNoData
<1> QED
  BY <1>14 DEF config, offer, accepted, sources, from

\* The mapping of a subscriber and its answer are two computations of one
\* negotiation, and agree, whatever is offered (sdp_answer_builder.cpp,
\* whep_rtp_rewriter.cpp): every section of the answer is fed by the section of
\* the publisher that its mapping names, payload type by payload type, with its
\* repairs and its extensions; and an offer that can be answered is not refused
\* for its mapping.  An absent value and an error are none of the data.
THEOREM MappingStaysFitting ==
  ASSUME IsNoData(None), IsNoData(Refused)
  PROVE  Spec => []MappingFitsAnswer
<1>1. FedOK => AnswerCanBeMapped
  <2> SUFFICES ASSUME FedOK, publisher # None, NEW name \in DOMAIN Offers,
                      \A o \in Elements(Offers[name].media) : DescribedOnce(o),
                      Summaries[name] # Refused, WhepOfferIsValid(Summaries[name]),
                      NEW answer, answer = WhepAnswer(Summaries[name], publisher.offer, OutboundSources(Summaries[name])),
                      answer # Refused
               PROVE  RewriterConfig(Summaries[name], answer.accepted, OutboundSources(Summaries[name]), publisher.offer)
                        # Refused
    BY Zenon DEF AnswerCanBeMapped
  <2>1. PublisherBorn(publisher)
    BY DEF FedOK
  <2> QED
    BY <2>1, AnswerHasMapping
<1>2. Spec => []AnswerCanBeMapped
  BY <1>1, SubscribersAreFed, PTL
<1>3. Spec => []AnswerIsMapped
  BY AnswerStaysMapped
<1>4. AnswerIsMapped /\ AnswerCanBeMapped => MappingFitsAnswer
  BY DEF MappingFitsAnswer
<1> QED
  BY <1>2, <1>3, <1>4, PTL

-----------------------------------------------------------------------------
(* The size of the attributes of a STUN packet, and where one stands.      *)

LEMMA SizeSteps ==
  ASSUME NEW xs, IsSequence(xs)
  PROVE  \E h : FoldSteps(h, "size", 0, 0, 0, xs) /\ TotalSize(xs) = h[Len(xs)]
<1> DEFINE D == SUBSET (DOMAIN xs)
           f == CHOOSE f : f = [S \in D |->
                  IF S = {} THEN 0 ELSE f[S \ {Max(S)}] + AttributeSize(xs[Max(S)])]
           result == TotalSize(xs)
<1>1. result = f[DOMAIN xs]
  BY DEF TotalSize, FoldLeft, MapThenFoldSet
<1>2. Len(xs) \in Nat /\ DOMAIN xs = 1..Len(xs)
  BY SequenceIsFunction
<1>3. \A a, x : Step("size", 0, 0, a, x) = a + AttributeSize(x)
  BY DEF Step
<1>4. \A g : g = [S \in D |-> IF S = {} THEN 0 ELSE g[S \ {Max(S)}] + AttributeSize(xs[Max(S)])]
               <=> FoldTable(g, "size", 0, 0, 0, xs, Len(xs))
  BY <1>2, <1>3, Zenon DEF FoldTable
<1>5. \E g : FoldTable(g, "size", 0, 0, 0, xs, Len(xs))
  BY <1>2, FoldTableExists
<1>6. FoldTable(f, "size", 0, 0, 0, xs, Len(xs))
  BY <1>4, <1>5
<1> HIDE DEF f, result
<1>7. \E h : FoldSteps(h, "size", 0, 0, 0, xs) /\ result = h[Len(xs)]
  BY <1>1, <1>2, <1>6, TableSteps
<1> QED
  BY <1>7, Zenon DEF result

\* One attribute more adds its size.
LEMMA SizeGrows ==
  ASSUME NEW s, IsSequence(s), NEW a
  PROVE  TotalSize(Append(s, a)) = TotalSize(s) + AttributeSize(a)
<1> DEFINE t == Append(s, a)
           n == Len(s)
<1>1. n \in Nat /\ IsSequence(t) /\ Len(t) = n + 1 /\ t[n + 1] = a /\ \A i \in 1..n : t[i] = s[i]
  BY AppendSequence, SequenceIsFunction
<1>2. PICK g : FoldSteps(g, "size", 0, 0, 0, s) /\ TotalSize(s) = g[n]
  BY SizeSteps
<1> HIDE DEF t, n
<1>3. PICK h : FoldSteps(h, "size", 0, 0, 0, t) /\ TotalSize(t) = h[n + 1]
  BY <1>1, SizeSteps
<1>4. \A b, x : Step("size", 0, 0, b, x) = b + AttributeSize(x)
  BY DEF Step
<1>5. /\ g[0] = 0 /\ \A k \in 1..n : g[k] = g[k - 1] + AttributeSize(s[k])
      /\ h[0] = 0 /\ \A k \in 1..(n + 1) : h[k] = h[k - 1] + AttributeSize(t[k])
  BY <1>1, <1>2, <1>3, <1>4 DEF FoldSteps, n
<1> DEFINE bad == {k \in 0..n : g[k] # h[k]}
<1>6. bad = {}
  <2> SUFFICES ASSUME bad # {} PROVE FALSE
    OBVIOUS
  <2>0. bad \in SUBSET Nat
    BY <1>1
  <2>1. PICK k \in bad : \A l \in bad : k <= l
    <3> HIDE DEF bad
    <3> QED
      BY <2>0, LeastNumber
  <2>2. k # 0 /\ k \in 0..n /\ g[k] # h[k]
    BY <1>5, <2>1
  <2>3. k \in 1..n /\ k \in 1..(n + 1) /\ k - 1 \in 0..n /\ k - 1 \notin bad
    BY <1>1, <2>1, <2>2
  <2>4. g[k - 1] = h[k - 1]
    BY <2>3
  <2> QED
    BY <1>1, <1>5, <2>2, <2>3, <2>4
<1>7. g[n] = h[n]
  BY <1>1, <1>6
<1>8. h[n + 1] = h[n] + AttributeSize(t[n + 1])
  BY <1>1, <1>5
<1>9. TotalSize(t) = TotalSize(s) + AttributeSize(a)
  BY <1>1, <1>2, <1>3, <1>7, <1>8
<1> QED
  BY <1>9 DEF t

LEMMA SizeOfNone == IsSequence(<<>>) /\ TotalSize(<<>>) = 0
<1>1. IsSequence(<<>>) /\ Len(<<>>) = 0
  BY DEF IsSequence
<1>2. PICK h : FoldSteps(h, "size", 0, 0, 0, <<>>) /\ TotalSize(<<>>) = h[0]
  BY <1>1, SizeSteps
<1> QED
  BY <1>1, <1>2 DEF FoldSteps

\* What stands in front of a position.
LEMMA FrontIsSame ==
  ASSUME NEW s, IsSequence(s), NEW t, IsSequence(t), NEW n \in Nat, n <= Len(s), n <= Len(t), \A i \in 1..n : s[i] = t[i]
  PROVE  SubSeq(s, 1, n) = SubSeq(t, 1, n)
<1>1. ASSUME NEW x, IsSequence(x), n <= Len(x) PROVE SubSeq(x, 1, n) = [i \in 1..n |-> x[i]]
  <2> DEFINE u == SubSeq(x, 1, n)
             E == Elements(x)
  <2>1. \A i \in 1..n : x[i] \in E
    BY <1>1, SequenceIsFunction DEF Elements
  <2>2. 1 \in Int /\ n \in Int
    OBVIOUS
  <2> HIDE DEF E
  <2>3. u \in Seq(E) /\ Len(u) = (IF 1 <= n THEN n - 1 + 1 ELSE 0) /\ \A i \in 1..(n - 1 + 1) : u[i] = x[1 + i - 1]
    BY <2>1, <2>2, SubSeqProperties
  <2> HIDE DEF u
  <2>4. IsSequence(u) /\ Len(u) = n /\ \A i \in 1..n : u[i] = x[i]
    BY <2>3, MemberIsSequence
  <2>5. u = [i \in 1..n |-> u[i]]
    BY <2>4, SequenceIsFunction
  <2>6. u = [i \in 1..n |-> x[i]]
    BY <2>4, <2>5
  <2> QED
    BY <2>6 DEF u
<1> QED
  BY <1>1

LEMMA FrontOfAppended ==
  ASSUME NEW s, IsSequence(s), NEW x
  PROVE  /\ SubSeq(s, 1, Len(s)) = s /\ SubSeq(Append(s, x), 1, Len(s)) = s
         /\ SubSeq(Append(s, x), 1, Len(s) + 1) = Append(s, x)
<1> DEFINE t == Append(s, x)
           n == Len(s)
<1>1. n \in Nat /\ IsSequence(t) /\ Len(t) = n + 1 /\ \A i \in 1..n : t[i] = s[i]
  BY AppendSequence, SequenceIsFunction
<1>2. SubSeq(s, 1, n) = s /\ SubSeq(t, 1, n + 1) = t
  <2>1. s \in Seq(Elements(s)) /\ t \in Seq(Elements(t))
    BY <1>1 DEF IsSequence
  <2> HIDE DEF t
  <2> QED
    BY <1>1, <2>1, SubSeqFull
<1> HIDE DEF t
<1>3. SubSeq(t, 1, n) = SubSeq(s, 1, n)
  <2> HIDE DEF n
  <2> QED
    BY <1>1, FrontIsSame DEF n
<1> QED
  BY <1>2, <1>3 DEF t

LEMMA PositionIsFirst ==
  ASSUME NEW p, IsSequence(p.attributes), NEW k \in DOMAIN p.attributes, NEW type, p.attributes[k].type = type,
         \A j \in DOMAIN p.attributes : j < k => p.attributes[j].type # type
  PROVE  Position(p, type) = k /\ Has(p, type)
<1> DEFINE s == p.attributes
           OK(i) == s[i].type = type /\ \A j \in 1..(i - 1) : s[j].type # type
<1>1. Len(s) \in Nat /\ DOMAIN s = 1..Len(s)
  BY SequenceIsFunction
<1>2. OK(k)
  BY <1>1
<1>3. ASSUME NEW i \in DOMAIN s, OK(i) PROVE i = k
  <2>1. ~(i < k)
    BY <1>3
  <2>2. ~(k < i)
    <3> SUFFICES ASSUME k < i PROVE FALSE
      OBVIOUS
    <3>1. k \in 1..(i - 1)
      BY <1>1
    <3> QED
      BY <1>3, <3>1
  <2> QED
    BY <1>1, <2>1, <2>2
<1>4. Position(p, type) = CHOOSE i \in DOMAIN s : OK(i)
  BY DEF Position
<1> HIDE DEF OK
<1>5. Position(p, type) = k
  BY <1>2, <1>3, <1>4
<1> QED
  BY <1>5 DEF Has

\* The only attribute of a type gives its value.
LEMMA ValueIsFound ==
  ASSUME NEW p, IsSequence(p.attributes), NEW k \in DOMAIN p.attributes, NEW type, p.attributes[k].type = type,
         \A j \in DOMAIN p.attributes : p.attributes[j].type = type => j = k
  PROVE  ValueOf(p, type) = p.attributes[k].value
<1> DEFINE s == p.attributes
           P == {j \in DOMAIN s : s[j].type = type}
           own == Picked(s, P)
<1>1. ValueOf(p, type) = IF own = <<>> THEN None ELSE own[Len(own)].value
  BY Zenon DEF ValueOf, Where
<1>2. P = {k}
  OBVIOUS
<1> HIDE DEF P, own
<1>3. Sifted(own, s, P)
  BY <1>2, PickedSifts DEF own
<1>4. IsSequence(own) /\ DOMAIN own # {} /\ \A j \in DOMAIN own : own[j] = s[k]
  BY <1>2, <1>3 DEF Sifted
<1>5. own # <<>> /\ Len(own) \in DOMAIN own
  BY <1>4, SequenceIsFunction
<1> QED
  BY <1>1, <1>4, <1>5

-----------------------------------------------------------------------------
(* The digests of a STUN packet.                                           *)

Unsigned(s) == \A i \in DOMAIN s : s[i].type \notin {"message-integrity", "fingerprint"}

\* The digest of the attributes in front covers a header with this length.
CoveredBy(p, length, front) ==
  [method |-> p.method, class |-> p.class, transaction |-> p.transaction, length |-> length, attributes |-> front]

LEMMA IntegrityIsSigned ==
  ASSUME NEW front, IsSequence(front), Unsigned(front), NEW mi, mi.type = "message-integrity",
         NEW p, HeaderIsValid(p), AttributesFit(p), NEW key, key # None,
         mi.value = [key |-> key, of |-> CoveredBy(p, TotalSize(Append(front, mi)), front)],
         NEW fp, p.attributes = Append(front, mi) \/ p.attributes = Append(Append(front, mi), fp)
  PROVE  IntegrityIsRight(p, key)
<1> DEFINE s == p.attributes
           t == Append(front, mi)
           n == Len(front)
<1>1. n \in Nat /\ IsSequence(t) /\ Len(t) = n + 1 /\ t[n + 1] = mi /\ \A i \in 1..n : t[i] = front[i]
  BY AppendSequence, SequenceIsFunction
<1>2. DOMAIN front = 1..n
  BY SequenceIsFunction
<1>3. SubSeq(t, 1, n) = front /\ SubSeq(t, 1, n + 1) = t
  BY FrontOfAppended
<1>4. mi.value = [key |-> key, of |-> CoveredBy(p, TotalSize(t), front)]
  OBVIOUS
<1>5. s = t \/ s = Append(t, fp)
  OBVIOUS
<1> HIDE DEF s, t, n
<1>6. IsSequence(s) /\ n + 1 <= Len(s) /\ \A i \in 1..(n + 1) : s[i] = t[i]
  <2>1. CASE s = t
    BY <1>1, <2>1
  <2>2. CASE s = Append(t, fp)
    <3>1. IsSequence(s) /\ Len(s) = Len(t) + 1 /\ \A i \in 1..Len(t) : s[i] = t[i]
      BY <1>1, <2>2, AppendSequence
    <3> QED
      BY <1>1, <3>1
  <2> QED
    BY <1>5, <2>1, <2>2
<1>7. SubSeq(s, 1, n) = front /\ SubSeq(s, 1, n + 1) = t
  <2>1. n + 1 \in Nat /\ n + 1 <= Len(t) /\ n <= Len(s) /\ n <= Len(t) /\ \A i \in 1..n : s[i] = t[i]
    BY <1>1, <1>6, SequenceIsFunction
  <2> QED
    BY <1>1, <1>3, <1>6, <2>1, FrontIsSame
<1>8. n + 1 \in DOMAIN s /\ s[n + 1] = mi
  BY <1>1, <1>6, SequenceIsFunction
<1>9. ASSUME NEW j \in DOMAIN s, j < n + 1 PROVE s[j].type # "message-integrity"
  <2>1. j \in 1..n /\ j \in 1..(n + 1)
    BY <1>1, <1>6, <1>9, SequenceIsFunction
  <2>2. s[j] = front[j]
    BY <1>1, <1>6, <2>1
  <2> QED
    BY <1>2, <2>1, <2>2 DEF Unsigned
<1>10. Position(p, "message-integrity") = n + 1 /\ Has(p, "message-integrity")
  BY <1>6, <1>8, <1>9, PositionIsFirst DEF s
<1>11. Covered(p, n + 1, TotalSize(SubSeq(s, 1, n + 1))) = CoveredBy(p, TotalSize(t), front)
  <2>1. SubSeq(s, 1, (n + 1) - 1) = front
    <3>1. (n + 1) - 1 = n
      BY <1>1
    <3> QED
      BY <1>7, <3>1, Zenon
  <2>2. \A length : Covered(p, n + 1, length) = CoveredBy(p, length, SubSeq(s, 1, (n + 1) - 1))
    BY Zenon DEF Covered, CoveredBy, s
  <2> QED
    BY <1>7, <2>1, <2>2
<1>12. s[n + 1].value = [key |-> key, of |-> Covered(p, n + 1, TotalSize(SubSeq(s, 1, n + 1)))]
  BY <1>4, <1>8, <1>11
<1> QED
  BY <1>10, <1>12 DEF IntegrityIsRight, s

LEMMA FingerprintIsSigned ==
  ASSUME NEW front, IsSequence(front), \A i \in DOMAIN front : front[i].type # "fingerprint",
         NEW fp, fp.type = "fingerprint", NEW p, HeaderIsValid(p), AttributesFit(p), p.attributes = Append(front, fp),
         fp.value = [of |-> CoveredBy(p, p.length, front)]
  PROVE  FingerprintIsRight(p)
<1> DEFINE s == p.attributes
           n == Len(front)
<1>1. n \in Nat /\ IsSequence(s) /\ Len(s) = n + 1 /\ s[n + 1] = fp /\ \A i \in 1..n : s[i] = front[i]
  BY AppendSequence, SequenceIsFunction
<1>2. DOMAIN front = 1..n /\ SubSeq(s, 1, n) = front
  BY SequenceIsFunction, FrontOfAppended
<1> HIDE DEF s, n
<1>3. n + 1 \in DOMAIN s
  BY <1>1, SequenceIsFunction
<1>4. ASSUME NEW j \in DOMAIN s, j < n + 1 PROVE s[j].type # "fingerprint"
  <2>1. j \in 1..n
    BY <1>1, <1>4, SequenceIsFunction
  <2> QED
    BY <1>1, <1>2, <2>1
<1>5. Position(p, "fingerprint") = n + 1 /\ Has(p, "fingerprint")
  BY <1>1, <1>3, <1>4, PositionIsFirst DEF s
<1>6. Covered(p, n + 1, p.length) = CoveredBy(p, p.length, front)
  <2>1. SubSeq(s, 1, (n + 1) - 1) = front
    <3>1. (n + 1) - 1 = n
      BY <1>1
    <3> QED
      BY <1>2, <3>1, Zenon
  <2>2. Covered(p, n + 1, p.length) = CoveredBy(p, p.length, SubSeq(s, 1, (n + 1) - 1))
    BY Zenon DEF Covered, CoveredBy, s
  <2> QED
    BY <2>1, <2>2
<1> QED
  BY <1>1, <1>5, <1>6 DEF FingerprintIsRight, s

-----------------------------------------------------------------------------
(* A check as a client writes it.                                          *)

UsernameOf(context) ==
  [type |-> "username", size |-> 3, value |-> <<[size |-> 1, text |-> context.localUfrag],
                                                [size |-> 1, text |-> context.remoteUfrag]>>]

CheckPriority == [type |-> "priority", size |-> 4, value |-> 7]

Controlling == [type |-> "ice-controlling", size |-> 8, value |-> 0]

UseCandidate == [type |-> "use-candidate", size |-> 0, value |-> 0]

\* The attributes of a check in front of its digests.
CheckFront(context, nominate) ==
  <<UsernameOf(context), CheckPriority, Controlling>> \o IF nominate THEN <<UseCandidate>> ELSE <<>>

LEMMA AttributeSizes ==
  /\ \A a : a.size = 0 => AttributeSize(a) = 4
  /\ \A a : a.size = 3 => AttributeSize(a) = 8
  /\ \A a : a.size = 4 => AttributeSize(a) = 8
  /\ \A a : a.size = 8 => AttributeSize(a) = 12
  /\ \A a : a.size = 20 => AttributeSize(a) = 24
BY DEF AttributeSize

LEMMA SizeOfThree ==
  ASSUME NEW a, NEW b, NEW c, AttributeSize(a) \in Int, AttributeSize(b) \in Int, AttributeSize(c) \in Int
  PROVE  /\ IsSequence(<<a, b, c>>) /\ Len(<<a, b, c>>) = 3
         /\ TotalSize(<<a, b, c>>) = AttributeSize(a) + AttributeSize(b) + AttributeSize(c)
<1> DEFINE s == <<a, b, c>>
<1>1. IsSequence(s) /\ Len(s) = 3 /\ s[1] = a /\ s[2] = b /\ s[3] = c
  BY DEF IsSequence, Elements
<1> HIDE DEF s
<1>2. PICK h : FoldSteps(h, "size", 0, 0, 0, s) /\ TotalSize(s) = h[3]
  BY <1>1, SizeSteps
<1>3. \A d, x : Step("size", 0, 0, d, x) = d + AttributeSize(x)
  BY DEF Step
<1>4. h[0] = 0 /\ \A k \in 1..3 : h[k] = h[k - 1] + AttributeSize(s[k])
  BY <1>1, <1>2, <1>3 DEF FoldSteps
<1>5. h[1] = 0 + AttributeSize(s[1]) /\ h[2] = h[1] + AttributeSize(s[2]) /\ h[3] = h[2] + AttributeSize(s[3])
  BY <1>4
<1>6. TotalSize(s) = AttributeSize(a) + AttributeSize(b) + AttributeSize(c)
  BY <1>1, <1>2, <1>5
<1> QED
  BY <1>1, <1>6 DEF s

LEMMA FrontOfCheck ==
  ASSUME NEW context, NEW nominate \in BOOLEAN
  PROVE  LET s == CheckFront(context, nominate)
         IN  /\ IsSequence(s) /\ Len(s) = (IF nominate THEN 4 ELSE 3)
             /\ TotalSize(s) = (IF nominate THEN 32 ELSE 28)
             /\ s[1] = UsernameOf(context) /\ s[2] = CheckPriority /\ s[3] = Controlling
             /\ nominate => s[4] = UseCandidate
<1> DEFINE a == UsernameOf(context)
           t == <<a, CheckPriority, Controlling>>
           s == CheckFront(context, nominate)
<1>1. AttributeSize(a) = 8 /\ AttributeSize(CheckPriority) = 8 /\ AttributeSize(Controlling) = 12 /\ AttributeSize(UseCandidate) = 4
  BY AttributeSizes DEF UsernameOf, CheckPriority, Controlling, UseCandidate
<1> HIDE DEF a
<1>2. IsSequence(t) /\ Len(t) = 3 /\ TotalSize(t) = 28
  BY <1>1, SizeOfThree
<1>3. t[1] = a /\ t[2] = CheckPriority /\ t[3] = Controlling
  OBVIOUS
<1>4. CASE nominate
  <2>1. s = t \o <<UseCandidate>>
    BY <1>4, Zenon DEF CheckFront, a
  <2> HIDE DEF t, s
  <2>2. s = Append(t, UseCandidate)
    BY <1>2, <2>1 DEF IsSequence
  <2>3. IsSequence(s) /\ Len(s) = Len(t) + 1 /\ s[Len(t) + 1] = UseCandidate /\ \A i \in 1..Len(t) : s[i] = t[i]
    <3>1. IsSequence(t)
      BY <1>2
    <3>2. \A x : IsSequence(Append(t, x)) /\ Len(Append(t, x)) = Len(t) + 1 /\ Append(t, x)[Len(t) + 1] = x
                /\ \A i \in 1..Len(t) : Append(t, x)[i] = t[i]
      BY <3>1, AppendSequence
    <3> QED
      BY <2>2, <3>2
  <2>4. TotalSize(s) = TotalSize(t) + AttributeSize(UseCandidate)
    BY <1>2, <2>2, SizeGrows
  <2>5. IsSequence(s) /\ Len(s) = 4 /\ TotalSize(s) = 32 /\ s[1] = a /\ s[2] = CheckPriority /\ s[3] = Controlling
        /\ s[4] = UseCandidate
    BY <1>1, <1>2, <1>3, <2>3, <2>4
  <2> QED
    BY <1>4, <2>5 DEF s, a
<1>5. CASE ~nominate
  <2>1. s = t \o <<>>
    BY <1>5, Zenon DEF CheckFront, a
  <2> HIDE DEF t, s
  <2>2. s = t
    BY <1>2, <2>1 DEF IsSequence
  <2> QED
    BY <1>2, <1>3, <1>5, <2>2 DEF s, a
<1> QED
  BY <1>4, <1>5

\* What a check of a client is made of: its front and its digests.
LEMMA CheckIsSigned ==
  ASSUME NEW context, context.localPwd # None, NEW nominate \in BOOLEAN, NEW fingerprint \in BOOLEAN
  PROVE  LET p == ClientCheck(context, nominate, fingerprint)
             front == CheckFront(context, nominate)
             n == Len(front)
         IN  /\ p.method = "binding" /\ p.class = "request" /\ p.transaction = "t"
             /\ HeaderIsValid(p) /\ AttributesFit(p) /\ IsSequence(p.attributes)
             /\ Len(p.attributes) = n + (IF fingerprint THEN 2 ELSE 1) /\ \A i \in 1..n : p.attributes[i] = front[i]
             /\ p.attributes[n + 1].type = "message-integrity" /\ p.attributes[n + 1].size = 20
             /\ fingerprint => p.attributes[n + 2].type = "fingerprint" /\ p.attributes[n + 2].size = 4
             /\ IntegrityIsRight(p, context.localPwd) /\ (fingerprint => FingerprintIsRight(p))
<1> DEFINE p == ClientCheck(context, nominate, fingerprint)
           key == context.localPwd
           front == CheckFront(context, nominate)
           n == Len(front)
           CheckHead(length, attributes) == [method |-> "binding", class |-> "request", transaction |-> "t",
                                             length |-> length, attributes |-> attributes]
           size == TotalSize(front) + 24
           mi == [type |-> "message-integrity", size |-> 20, value |-> [key |-> key, of |-> CheckHead(size, front)]]
           signed == Append(front, mi)
           total == IF fingerprint THEN size + 8 ELSE size
           fp == [type |-> "fingerprint", size |-> 4, value |-> [of |-> CheckHead(total, signed)]]
           attributes == IF fingerprint THEN Append(signed, fp) ELSE signed
<1>1. p = [header |-> TRUE, bits |-> 0, cookie |-> TRUE, method |-> "binding", class |-> "request", transaction |-> "t",
           length |-> total, bytes |-> total, attributes |-> attributes]
  BY Zenon DEF ClientCheck, CheckFront, UsernameOf, CheckPriority, Controlling, UseCandidate
<1>2. /\ p.header /\ p.bits = 0 /\ p.cookie /\ p.method = "binding" /\ p.class = "request" /\ p.transaction = "t"
      /\ p.length = total /\ p.bytes = total /\ p.attributes = attributes
  <2> HIDE DEF total, attributes, p
  <2> QED
    BY <1>1
<1>3. mi.type = "message-integrity" /\ mi.size = 20 /\ mi.value = [key |-> key, of |-> CheckHead(size, front)]
  <2> HIDE DEF key, size, front, CheckHead
  <2> QED
    OBVIOUS
<1>4. fp.type = "fingerprint" /\ fp.size = 4 /\ fp.value = [of |-> CheckHead(total, signed)]
  <2> HIDE DEF total, signed, CheckHead
  <2> QED
    OBVIOUS
<1>5. \A length, s : CheckHead(length, s) = CoveredBy(p, length, s)
  <2> HIDE DEF p
  <2> QED
    BY <1>2 DEF CoveredBy
<1>6. IsSequence(front) /\ TotalSize(front) \in {28, 32} /\ Unsigned(front) /\ n \in {3, 4}
  <2>1. /\ IsSequence(front) /\ Len(front) = (IF nominate THEN 4 ELSE 3)
        /\ TotalSize(front) = (IF nominate THEN 32 ELSE 28)
        /\ front[1] = UsernameOf(context) /\ front[2] = CheckPriority /\ front[3] = Controlling
        /\ nominate => front[4] = UseCandidate
    BY FrontOfCheck
  <2> HIDE DEF front
  <2>2. DOMAIN front = 1..(IF nominate THEN 4 ELSE 3)
    BY <2>1, SequenceIsFunction
  <2>3. /\ UsernameOf(context).type = "username" /\ CheckPriority.type = "priority"
        /\ Controlling.type = "ice-controlling" /\ UseCandidate.type = "use-candidate"
    BY DEF UsernameOf, CheckPriority, Controlling, UseCandidate
  <2>4. \A i \in DOMAIN front : i = 1 \/ i = 2 \/ i = 3 \/ (nominate /\ i = 4)
    BY <2>2
  <2>5. Unsigned(front)
    BY <2>1, <2>3, <2>4 DEF Unsigned
  <2> QED
    BY <2>1, <2>5
<1> HIDE DEF p, key, front, CheckHead, mi, fp
<1>7. /\ IsSequence(signed) /\ Len(signed) = n + 1 /\ signed[n + 1] = mi /\ \A i \in 1..n : signed[i] = front[i]
  BY <1>6, AppendSequence
<1>8. TotalSize(signed) = size
  <2>1. AttributeSize(mi) = 24
    BY <1>3, AttributeSizes
  <2>2. TotalSize(signed) = TotalSize(front) + AttributeSize(mi)
    BY <1>6, SizeGrows
  <2> QED
    BY <2>1, <2>2
<1>9. signed = Append(front, mi) /\ attributes = (IF fingerprint THEN Append(signed, fp) ELSE signed)
  OBVIOUS
<1>10. size \in {52, 56} /\ total = (IF fingerprint THEN size + 8 ELSE size)
  BY <1>6
<1> HIDE DEF signed, n, size, total, attributes
<1>11. /\ IsSequence(attributes) /\ TotalSize(attributes) = total
       /\ Len(attributes) = n + (IF fingerprint THEN 2 ELSE 1) /\ \A i \in 1..(n + 1) : attributes[i] = signed[i]
       /\ fingerprint => attributes[n + 2] = fp
  <2>1. CASE fingerprint
    <3>1. /\ IsSequence(attributes) /\ Len(attributes) = (n + 1) + 1 /\ attributes[(n + 1) + 1] = fp
          /\ \A i \in 1..(n + 1) : attributes[i] = signed[i]
      <4>1. attributes = Append(signed, fp)
        BY <1>9, <2>1
      <4>2. \A x : IsSequence(Append(signed, x)) /\ Len(Append(signed, x)) = Len(signed) + 1
                  /\ Append(signed, x)[Len(signed) + 1] = x /\ \A i \in 1..Len(signed) : Append(signed, x)[i] = signed[i]
        BY <1>7, AppendSequence
      <4> QED
        BY <1>7, <4>1, <4>2
    <3>2. TotalSize(attributes) = TotalSize(signed) + AttributeSize(fp)
      BY <1>7, <1>9, <2>1, SizeGrows
    <3>3. AttributeSize(fp) = 8
      BY <1>4, AttributeSizes
    <3> QED
      BY <1>6, <1>8, <1>10, <2>1, <3>1, <3>2, <3>3
  <2>2. CASE ~fingerprint
    BY <1>6, <1>7, <1>8, <1>9, <1>10, <2>2
  <2> QED
    BY <2>1, <2>2
<1>12. HeaderIsValid(p) /\ AttributesFit(p)
  <2>1. total % 4 = 0 /\ total >= total
    BY <1>10
  <2> QED
    BY <1>2, <1>11, <2>1 DEF HeaderIsValid, IsStunPacket, AttributesFit
<1>13. IntegrityIsRight(p, key)
  <2>1. mi.value = [key |-> key, of |-> CoveredBy(p, TotalSize(Append(front, mi)), front)]
    BY <1>3, <1>5, <1>8, <1>9
  <2>2. p.attributes = Append(front, mi) \/ p.attributes = Append(Append(front, mi), fp)
    BY <1>2, <1>9
  <2>3. key # None
    BY DEF key
  <2> QED
    BY <1>3, <1>6, <1>12, <2>1, <2>2, <2>3, IntegrityIsSigned
<1>14. fingerprint => FingerprintIsRight(p)
  <2> SUFFICES ASSUME fingerprint PROVE FingerprintIsRight(p)
    OBVIOUS
  <2>1. p.attributes = Append(signed, fp) /\ fp.value = [of |-> CoveredBy(p, p.length, signed)]
    BY <1>2, <1>4, <1>5, <1>9
  <2>2. \A i \in DOMAIN signed : signed[i].type # "fingerprint"
    <3>1. \A i \in DOMAIN signed : i = n + 1 \/ i \in 1..n
      BY <1>6, <1>7, SequenceIsFunction
    <3>2. DOMAIN front = 1..n
      BY <1>6, SequenceIsFunction DEF n
    <3>3. \A i \in 1..n : front[i].type # "fingerprint"
      BY <1>6, <3>2 DEF Unsigned
    <3>4. mi.type # "fingerprint"
      BY <1>3
    <3> QED
      BY <1>7, <3>1, <3>3, <3>4
  <2> QED
    BY <1>4, <1>7, <1>12, <2>1, <2>2, FingerprintIsSigned
<1>15. \A i \in 1..n : p.attributes[i] = front[i]
  BY <1>2, <1>6, <1>7, <1>11
<1>16. p.attributes[n + 1] = mi /\ (fingerprint => p.attributes[n + 2] = fp)
  BY <1>2, <1>6, <1>7, <1>11
<1>17. IsSequence(p.attributes) /\ Len(p.attributes) = n + (IF fingerprint THEN 2 ELSE 1)
  BY <1>2, <1>11
<1> QED
  BY <1>2, <1>3, <1>4, <1>12, <1>13, <1>14, <1>15, <1>16, <1>17 DEF p, front, n, key

\* How the server reads the check of a client.
LEMMA CheckIsRead ==
  ASSUME IsNoData(None), IsNoData(Refused),
         NEW context, context.localPwd # None, NEW nominate \in BOOLEAN, NEW fingerprint \in BOOLEAN
  PROVE  LET p == ClientCheck(context, nominate, fingerprint)
             m == ParsedMessage(p)
         IN  /\ m # Refused /\ m.method = "binding" /\ m.class = "request" /\ m.transaction = "t"
             /\ m.username = UsernameOf(context).value /\ m.priority = 7 /\ m.controlling /\ ~m.controlled
             /\ m.integrity /\ (m.fingerprint <=> fingerprint) /\ (Has(p, "use-candidate") <=> nominate)
<1> DEFINE p == ClientCheck(context, nominate, fingerprint)
           s == p.attributes
           front == CheckFront(context, nominate)
           n == Len(front)
           m == ParsedMessage(p)
<1>1. /\ p.method = "binding" /\ p.class = "request" /\ p.transaction = "t"
      /\ HeaderIsValid(p) /\ AttributesFit(p) /\ IsSequence(s)
      /\ Len(s) = n + (IF fingerprint THEN 2 ELSE 1) /\ \A i \in 1..n : s[i] = front[i]
      /\ s[n + 1].type = "message-integrity" /\ s[n + 1].size = 20
      /\ fingerprint => s[n + 2].type = "fingerprint" /\ s[n + 2].size = 4
  BY CheckIsSigned
<1>2. /\ IsSequence(front) /\ n = (IF nominate THEN 4 ELSE 3)
      /\ front[1] = UsernameOf(context) /\ front[2] = CheckPriority /\ front[3] = Controlling
      /\ nominate => front[4] = UseCandidate
  BY FrontOfCheck
<1> HIDE DEF p, s, front, n, m
<1>3. DOMAIN s = 1..Len(s)
  BY <1>1, SequenceIsFunction
<1>4. /\ s[1] = UsernameOf(context) /\ s[2] = CheckPriority /\ s[3] = Controlling /\ (nominate => s[4] = UseCandidate)
      /\ {1, 2, 3, n + 1} \subseteq DOMAIN s
      /\ nominate => 4 \in DOMAIN s
      /\ fingerprint => n + 2 \in DOMAIN s
      /\ \A i \in DOMAIN s : i = 1 \/ i = 2 \/ i = 3 \/ (nominate /\ i = 4) \/ i = n + 1 \/ (fingerprint /\ i = n + 2)
  BY <1>1, <1>2, <1>3
<1>5. /\ s[1].type = "username" /\ s[2].type = "priority" /\ s[2].size = 4 /\ s[2].value = 7
      /\ s[3].type = "ice-controlling" /\ s[3].size = 8
      /\ nominate => s[4].type = "use-candidate" /\ s[4].size = 0
  BY <1>4 DEF UsernameOf, CheckPriority, Controlling, UseCandidate
<1>6. \A i \in DOMAIN s : AttributeIsWellFormed(s[i])
  BY <1>1, <1>4, <1>5 DEF AttributeIsWellFormed, IntegritySize, FingerprintSize
<1>7. m = [method |-> p.method, class |-> p.class, transaction |-> p.transaction,
           username |-> ValueOf(p, "username"), priority |-> ValueOf(p, "priority"),
           useCandidate |-> Has(p, "use-candidate"), controlling |-> Has(p, "ice-controlling"),
           controlled |-> Has(p, "ice-controlled"), integrity |-> Has(p, "message-integrity"),
           fingerprint |-> Has(p, "fingerprint")]
  BY <1>1, <1>6, Zenon DEF ParsedMessage, m, s
<1>8. /\ Has(p, "ice-controlling") /\ ~Has(p, "ice-controlled") /\ Has(p, "message-integrity")
      /\ (Has(p, "fingerprint") <=> fingerprint) /\ (Has(p, "use-candidate") <=> nominate)
  BY <1>1, <1>4, <1>5 DEF Has, s
<1>9. ValueOf(p, "username") = s[1].value
  <2>1. \A j \in DOMAIN s : s[j].type = "username" => j = 1
    BY <1>1, <1>4, <1>5
  <2> QED
    BY <1>1, <1>4, <1>5, <2>1, ValueIsFound DEF s
<1>10. ValueOf(p, "priority") = 7
  <2>1. \A j \in DOMAIN s : s[j].type = "priority" => j = 2
    BY <1>1, <1>4, <1>5
  <2> QED
    BY <1>1, <1>4, <1>5, <2>1, ValueIsFound DEF s
<1>11. m # Refused
  BY <1>7 DEF IsNoData, IsData
<1>12. /\ m.method = "binding" /\ m.class = "request" /\ m.transaction = "t"
       /\ m.username = UsernameOf(context).value /\ m.priority = 7 /\ m.controlling /\ ~m.controlled
       /\ m.integrity /\ (m.fingerprint <=> fingerprint)
  <2>1. /\ m.method = p.method /\ m.class = p.class /\ m.transaction = p.transaction
        /\ m.username = ValueOf(p, "username") /\ m.priority = ValueOf(p, "priority")
        /\ m.controlling = Has(p, "ice-controlling") /\ m.controlled = Has(p, "ice-controlled")
        /\ m.integrity = Has(p, "message-integrity") /\ m.fingerprint = Has(p, "fingerprint")
    BY <1>7
  <2> QED
    BY <1>1, <1>4, <1>8, <1>9, <1>10, <2>1, Zenon
<1> QED
  BY <1>8, <1>11, <1>12 DEF m, p

-----------------------------------------------------------------------------
(* The reply to a check.                                                   *)

\* A success response with these attributes, and the header a digest covers.
Reply(transaction, length, attributes) ==
  [header |-> TRUE, bits |-> 0, cookie |-> TRUE, method |-> "binding", class |-> "success",
   transaction |-> transaction, length |-> length, bytes |-> length, attributes |-> attributes]

ReplyHead(transaction, length, attributes) ==
  [method |-> "binding", class |-> "success", transaction |-> transaction, length |-> length, attributes |-> attributes]

ReplyIntegrity(transaction, length, attributes, key) ==
  [type |-> "message-integrity", size |-> 20, value |-> [key |-> key, of |-> ReplyHead(transaction, length, attributes)]]

ReplyFingerprint(transaction, length, attributes) ==
  [type |-> "fingerprint", size |-> 4, value |-> [of |-> ReplyHead(transaction, length, attributes)]]

LEMMA ReplyFields ==
  ASSUME NEW t, NEW length, NEW s
  PROVE  LET r == Reply(t, length, s)
         IN  /\ r.header /\ r.bits = 0 /\ r.cookie /\ r.method = "binding" /\ r.class = "success" /\ r.transaction = t
             /\ r.length = length /\ r.bytes = length /\ r.attributes = s
             /\ \A l, front : CoveredBy(r, l, front) = ReplyHead(t, l, front)
BY DEF Reply, ReplyHead, CoveredBy

\* What a digest appended to the reply covers.
LEMMA ReplyIsCovered ==
  ASSUME NEW t, NEW length, NEW s, IsSequence(s), NEW l
  PROVE  Covered(Reply(t, length, s), Len(s) + 1, l) = ReplyHead(t, l, s)
<1> DEFINE r == Reply(t, length, s)
           n == Len(s)
<1>1. r.attributes = s /\ \A k, front : CoveredBy(r, k, front) = ReplyHead(t, k, front)
  BY ReplyFields
<1>2. n \in Nat /\ SubSeq(s, 1, n) = s
  BY SequenceIsFunction, FrontOfAppended
<1> HIDE DEF r, n
<1>3. SubSeq(r.attributes, 1, (n + 1) - 1) = s
  <2>1. (n + 1) - 1 = n
    BY <1>2
  <2> QED
    BY <1>1, <1>2, <2>1, Zenon
<1>4. Covered(r, n + 1, l) = CoveredBy(r, l, SubSeq(r.attributes, 1, (n + 1) - 1))
  BY Zenon DEF Covered, CoveredBy
<1>5. Covered(r, n + 1, l) = ReplyHead(t, l, s)
  BY <1>1, <1>3, <1>4
<1> QED
  BY <1>5 DEF r, n

LEMMA ReplyGrows ==
  ASSUME NEW t, NEW length, NEW s, NEW a, NEW l
  PROVE  WithLength(AppendAttribute(Reply(t, length, s), a), l) = Reply(t, l, Append(s, a))
<1> DEFINE u == Append(s, a)
           r == Reply(t, length, s)
           q == Reply(t, l, u)
           r1 == [r EXCEPT !.attributes = u]
           r2 == [r1 EXCEPT !.length = l]
           r3 == [r2 EXCEPT !.bytes = l]
           K == {"header", "bits", "cookie", "method", "class", "transaction", "length", "bytes", "attributes"}
<1>1. WithLength(AppendAttribute(r, a), l) = r3
  <2>1. AppendAttribute(r, a) = r1
    <3>1. r.attributes = s
      BY ReplyFields
    <3> HIDE DEF r
    <3>2. AppendAttribute(r, a) = [r EXCEPT !.attributes = Append(r.attributes, a)]
      BY DEF AppendAttribute
    <3> QED
      BY <3>1, <3>2
  <2> HIDE DEF r1
  <2> QED
    BY <2>1, Zenon DEF WithLength
<1>2. DOMAIN r = K /\ DOMAIN q = K /\ IsData(q)
  BY DEF Reply, IsData
<1>3. /\ r.header = q.header /\ r.bits = q.bits /\ r.cookie = q.cookie /\ r.method = q.method /\ r.class = q.class
      /\ r.transaction = q.transaction /\ q.length = l /\ q.bytes = l /\ q.attributes = u
  <2> HIDE DEF u
  <2> QED
    BY DEF Reply
<1> HIDE DEF r, q, u
<1>4. r3 = [x \in K |-> IF x = "bytes" THEN l ELSE IF x = "length" THEN l ELSE IF x = "attributes" THEN u ELSE r[x]]
  BY <1>2
<1> HIDE DEF r3
<1>5. r3 = q
  BY <1>2, <1>3, <1>4 DEF IsData
<1> QED
  BY <1>1, <1>5 DEF r, q, u

LEMMA ReplyIsSigned ==
  ASSUME NEW t, NEW length, NEW s, IsSequence(s), NEW key
  PROVE  /\ \A l : l = TotalSize(s) + 4 + 20 =>
              AppendIntegrity(Reply(t, length, s), key) = Reply(t, l, Append(s, ReplyIntegrity(t, l, s, key)))
         /\ \A l : l = TotalSize(s) + 4 + 4 =>
              AppendFingerprint(Reply(t, length, s)) = Reply(t, l, Append(s, ReplyFingerprint(t, l, s)))
<1> DEFINE r == Reply(t, length, s)
<1>1. r.attributes = s
  BY ReplyFields
<1>2. \A l : Covered(r, Len(s) + 1, l) = ReplyHead(t, l, s)
  BY ReplyIsCovered
<1>3. \A a, l : WithLength(AppendAttribute(r, a), l) = Reply(t, l, Append(s, a))
  BY ReplyGrows
<1> HIDE DEF r
<1>4. ASSUME NEW l, l = TotalSize(s) + 4 + 20
      PROVE  AppendIntegrity(r, key) = Reply(t, l, Append(s, ReplyIntegrity(t, l, s, key)))
  <2> DEFINE mi == [type |-> "message-integrity", size |-> 20, value |-> [key |-> key, of |-> Covered(r, Len(s) + 1, l)]]
  <2>1. AppendIntegrity(r, key) = WithLength(AppendAttribute(r, mi), l)
    BY <1>1, <1>4, Zenon DEF AppendIntegrity, IntegritySize
  <2>2. mi = ReplyIntegrity(t, l, s, key)
    BY <1>2, Zenon DEF ReplyIntegrity
  <2> HIDE DEF mi
  <2> QED
    BY <1>3, <2>1, <2>2
<1>5. ASSUME NEW l, l = TotalSize(s) + 4 + 4
      PROVE  AppendFingerprint(r) = Reply(t, l, Append(s, ReplyFingerprint(t, l, s)))
  <2> DEFINE fp == [type |-> "fingerprint", size |-> 4, value |-> [of |-> Covered(r, Len(s) + 1, l)]]
  <2>1. AppendFingerprint(r) = WithLength(AppendAttribute(r, fp), l)
    BY <1>1, <1>5, Zenon DEF AppendFingerprint, FingerprintSize
  <2>2. fp = ReplyFingerprint(t, l, s)
    BY <1>2, Zenon DEF ReplyFingerprint
  <2> HIDE DEF fp
  <2> QED
    BY <1>3, <2>1, <2>2
<1> QED
  BY <1>4, <1>5 DEF r

\* An attribute more is found behind the others.
LEMMA AppendedIsLast ==
  ASSUME NEW s, IsSequence(s)
  PROVE  \A x : /\ IsSequence(Append(s, x)) /\ Len(Append(s, x)) = Len(s) + 1 /\ Append(s, x)[Len(s) + 1] = x
                /\ \A i \in 1..Len(s) : Append(s, x)[i] = s[i]
BY AppendSequence

\* The reply as it is sent: an address and two digests.
MadeReply(t, key, a, size) ==
  LET mi == ReplyIntegrity(t, size + 24, <<a>>, key)
      signed == Append(<<a>>, mi)
      fp == ReplyFingerprint(t, size + 32, signed)
      attributes == Append(signed, fp)
  IN  /\ AppendFingerprint(AppendIntegrity(Reply(t, size, <<a>>), key)) = Reply(t, size + 32, attributes)
      /\ IsSequence(<<a>>) /\ IsSequence(signed) /\ IsSequence(attributes) /\ Len(attributes) = 3
      /\ attributes[1] = a /\ attributes[2] = mi /\ attributes[3] = fp /\ signed[1] = a /\ signed[2] = mi
      /\ Len(signed) = 2 /\ TotalSize(signed) = size + 24 /\ TotalSize(attributes) = size + 32

LEMMA ReplyIsMade ==
  ASSUME NEW t, NEW key, NEW a, NEW size \in {12, 24}, AttributeSize(a) = size
  PROVE  MadeReply(t, key, a, size)
<1> DEFINE one == <<a>>
           mi == ReplyIntegrity(t, size + 24, one, key)
           signed == Append(one, mi)
           fp == ReplyFingerprint(t, size + 32, signed)
           attributes == Append(signed, fp)
<1>1. IsSequence(one) /\ Len(one) = 1 /\ one[1] = a /\ TotalSize(one) = size
  <2>1. one = Append(<<>>, a)
    OBVIOUS
  <2>2. TotalSize(Append(<<>>, a)) = 0 + AttributeSize(a)
    BY SizeOfNone, SizeGrows
  <2>3. IsSequence(one) /\ Len(one) = 1 /\ one[1] = a
    BY DEF IsSequence, Elements
  <2> HIDE DEF one
  <2> QED
    BY <2>1, <2>2, <2>3
<1> HIDE DEF one
<1>2. AttributeSize(mi) = 24 /\ AttributeSize(fp) = 8
  <2>1. mi.size = 20 /\ fp.size = 4
    <3> HIDE DEF signed
    <3> QED
      BY DEF ReplyIntegrity, ReplyFingerprint
  <2> HIDE DEF mi, fp
  <2> QED
    BY <2>1, AttributeSizes
<1> HIDE DEF mi
<1>3. /\ IsSequence(signed) /\ Len(signed) = 2 /\ signed[2] = mi /\ signed[1] = a /\ TotalSize(signed) = size + 24
  <2>1. IsSequence(signed) /\ Len(signed) = Len(one) + 1 /\ signed[Len(one) + 1] = mi /\ \A i \in 1..Len(one) : signed[i] = one[i]
    <3>1. \A x : /\ IsSequence(Append(one, x)) /\ Len(Append(one, x)) = Len(one) + 1
                /\ Append(one, x)[Len(one) + 1] = x /\ \A i \in 1..Len(one) : Append(one, x)[i] = one[i]
      BY <1>1, AppendedIsLast
    <3> QED
      BY <3>1
  <2>2. TotalSize(signed) = TotalSize(one) + AttributeSize(mi)
    BY <1>1, SizeGrows
  <2> HIDE DEF signed
  <2> QED
    BY <1>1, <1>2, <2>1, <2>2
<1>4. AppendIntegrity(Reply(t, size, one), key) = Reply(t, size + 24, signed)
  <2>1. size + 24 = TotalSize(one) + 4 + 20
    BY <1>1
  <2> QED
    BY <1>1, <2>1, ReplyIsSigned DEF mi
<1> HIDE DEF signed
<1>5. AppendFingerprint(Reply(t, size + 24, signed)) = Reply(t, size + 32, attributes)
  <2>1. size + 32 = TotalSize(signed) + 4 + 4
    BY <1>3
  <2> QED
    BY <1>3, <2>1, ReplyIsSigned
<1> HIDE DEF fp
<1>6. /\ IsSequence(attributes) /\ Len(attributes) = 3 /\ attributes[3] = fp /\ attributes[1] = signed[1]
      /\ attributes[2] = signed[2] /\ TotalSize(attributes) = size + 32
  <2>1. /\ IsSequence(attributes) /\ Len(attributes) = Len(signed) + 1 /\ attributes[Len(signed) + 1] = fp
        /\ \A i \in 1..Len(signed) : attributes[i] = signed[i]
    <3>1. \A x : /\ IsSequence(Append(signed, x)) /\ Len(Append(signed, x)) = Len(signed) + 1
                /\ Append(signed, x)[Len(signed) + 1] = x /\ \A i \in 1..Len(signed) : Append(signed, x)[i] = signed[i]
      BY <1>3, AppendedIsLast
    <3> QED
      BY <3>1
  <2>2. TotalSize(attributes) = TotalSize(signed) + AttributeSize(fp)
    BY <1>3, SizeGrows
  <2> HIDE DEF attributes
  <2> QED
    BY <1>2, <1>3, <2>1, <2>2
<1>7. AppendFingerprint(AppendIntegrity(Reply(t, size, one), key)) = Reply(t, size + 32, attributes)
  BY <1>4, <1>5
<1> HIDE DEF attributes
<1>8. /\ AppendFingerprint(AppendIntegrity(Reply(t, size, one), key)) = Reply(t, size + 32, attributes)
      /\ IsSequence(one) /\ IsSequence(signed) /\ IsSequence(attributes) /\ Len(attributes) = 3
      /\ attributes[1] = a /\ attributes[2] = mi /\ attributes[3] = fp /\ signed[1] = a /\ signed[2] = mi
      /\ Len(signed) = 2 /\ TotalSize(signed) = size + 24 /\ TotalSize(attributes) = size + 32
  BY <1>1, <1>3, <1>6, <1>7
<1> QED
  BY <1>8, Zenon DEF attributes, fp, signed, mi, one, MadeReply

\* A client takes the reply.
SignedReply(endpoint, t, key) ==
  LET a == XorMappedAddress(endpoint, t)
  IN  AppendFingerprint(AppendIntegrity(Reply(t, AttributeSize(a), <<a>>), key))

LEMMA ReplyIsTaken ==
  ASSUME IsNoData(None), IsNoData(Refused), NEW t, NEW key, key # None,
         NEW endpoint, endpoint.family \in {"ipv4", "ipv6"}
  PROVE  SignedReply(endpoint, t, key) # Refused /\ ClientTakes(SignedReply(endpoint, t, key), t, endpoint, key)
<1> DEFINE a == XorMappedAddress(endpoint, t)
           size == AttributeSize(a)
           r == AppendFingerprint(AppendIntegrity(Reply(t, size, <<a>>), key))
           one == <<a>>
           mi == ReplyIntegrity(t, size + 24, one, key)
           signed == Append(one, mi)
           fp == ReplyFingerprint(t, size + 32, signed)
           s == Append(signed, fp)
<1>1. /\ a.type = "xor-mapped-address" /\ a.size = (IF endpoint.family = "ipv4" THEN 8 ELSE 20)
      /\ a.value.family = endpoint.family /\ a.value.of = endpoint
      /\ a.value.mask = (IF endpoint.family = "ipv4" THEN <<"cookie">> ELSE <<"cookie", t>>)
  BY Zenon DEF XorMappedAddress
<1> HIDE DEF a
<1>2. size \in {12, 24} /\ AddressIsWellFormed(a)
  BY <1>1, AttributeSizes DEF AddressIsWellFormed
<1> HIDE DEF size
<1>3. /\ r = Reply(t, size + 32, s) /\ IsSequence(one) /\ IsSequence(signed) /\ IsSequence(s) /\ Len(s) = 3
      /\ s[1] = a /\ s[2] = mi /\ s[3] = fp /\ signed[1] = a /\ signed[2] = mi
      /\ Len(signed) = 2 /\ TotalSize(signed) = size + 24 /\ TotalSize(s) = size + 32
  <2>1. AttributeSize(a) = size
    BY DEF size
  <2>2. MadeReply(t, key, a, size)
    BY <1>2, <2>1, ReplyIsMade
  <2>3. r = AppendFingerprint(AppendIntegrity(Reply(t, size, <<a>>), key))
    OBVIOUS
  <2> QED
    BY <2>2, <2>3, Zenon DEF MadeReply
<1>4. /\ mi.type = "message-integrity" /\ mi.size = 20 /\ mi.value = [key |-> key, of |-> ReplyHead(t, size + 24, one)]
      /\ fp.type = "fingerprint" /\ fp.size = 4 /\ fp.value = [of |-> ReplyHead(t, size + 32, signed)]
  <2> HIDE DEF one, signed
  <2> QED
    BY Zenon DEF ReplyIntegrity, ReplyFingerprint
<1>5. signed = Append(one, mi) /\ s = Append(signed, fp)
  OBVIOUS
<1> HIDE DEF r, one, mi, fp, signed, s
<1>6. /\ r.header /\ r.bits = 0 /\ r.cookie /\ r.class = "success" /\ r.transaction = t
      /\ r.length = size + 32 /\ r.bytes = size + 32 /\ r.attributes = s
      /\ \A l, front : CoveredBy(r, l, front) = ReplyHead(t, l, front)
  BY <1>3, ReplyFields
<1>7. HeaderIsValid(r) /\ AttributesFit(r)
  <2>1. (size + 32) % 4 = 0 /\ size + 32 >= size + 32
    BY <1>2
  <2> QED
    BY <1>3, <1>6, <2>1 DEF HeaderIsValid, IsStunPacket, AttributesFit
<1>8. DOMAIN s = 1..3 /\ DOMAIN one = 1..1 /\ DOMAIN signed = 1..2 /\ one[1] = a
  BY <1>3, SequenceIsFunction DEF one
<1>9. ParsedMessage(r) # Refused
  <2>1. \A i \in DOMAIN r.attributes : AttributeIsWellFormed(r.attributes[i])
    BY <1>1, <1>2, <1>3, <1>4, <1>6, <1>8 DEF AttributeIsWellFormed, IntegritySize, FingerprintSize
  <2>2. IsData(ParsedMessage(r))
    <3>1. ParsedMessage(r) = [method |-> r.method, class |-> r.class, transaction |-> r.transaction,
           username |-> ValueOf(r, "username"), priority |-> ValueOf(r, "priority"),
           useCandidate |-> Has(r, "use-candidate"), controlling |-> Has(r, "ice-controlling"),
           controlled |-> Has(r, "ice-controlled"), integrity |-> Has(r, "message-integrity"),
           fingerprint |-> Has(r, "fingerprint")]
      BY <1>7, <2>1, Zenon DEF ParsedMessage
    <3> QED
      BY <3>1 DEF IsData
  <2> QED
    BY <2>2 DEF IsNoData
<1>10. IntegrityIsRight(r, key)
  <2>1. Unsigned(one)
    BY <1>1, <1>8 DEF Unsigned
  <2>2. mi.value = [key |-> key, of |-> CoveredBy(r, TotalSize(Append(one, mi)), one)]
    BY <1>3, <1>4, <1>5, <1>6
  <2>3. r.attributes = Append(one, mi) \/ r.attributes = Append(Append(one, mi), fp)
    BY <1>5, <1>6
  <2>4. HeaderIsValid(r) /\ AttributesFit(r) /\ mi.type = "message-integrity" /\ IsSequence(one)
    BY <1>3, <1>4, <1>7
  <2> QED
    BY <2>1, <2>2, <2>3, <2>4, IntegrityIsSigned
<1>11. FingerprintIsRight(r)
  <2>1. \A i \in DOMAIN signed : signed[i].type # "fingerprint"
    BY <1>1, <1>3, <1>4, <1>8
  <2>2. fp.value = [of |-> CoveredBy(r, r.length, signed)]
    BY <1>4, <1>6
  <2>3. r.attributes = Append(signed, fp)
    BY <1>5, <1>6
  <2>4. HeaderIsValid(r) /\ AttributesFit(r) /\ fp.type = "fingerprint" /\ IsSequence(signed)
    BY <1>3, <1>4, <1>7
  <2> QED
    BY <2>1, <2>2, <2>3, <2>4, FingerprintIsSigned
<1>12. ValueOf(r, "xor-mapped-address") = a.value
  <2>1. 1 \in DOMAIN s /\ s[1].type = "xor-mapped-address" /\ \A j \in DOMAIN s : s[j].type = "xor-mapped-address" => j = 1
    BY <1>1, <1>3, <1>4, <1>8
  <2> QED
    BY <1>3, <1>6, <2>1, ValueIsFound
<1>13. a.value.mask = IF endpoint.family = "ipv6" THEN <<"cookie", t>> ELSE <<"cookie">>
  BY <1>1
<1>14. ClientTakes(r, t, endpoint, key)
  BY <1>1, <1>6, <1>9, <1>10, <1>11, <1>12, <1>13, Zenon DEF ClientTakes
<1>15. r # Refused
  BY <1>3 DEF IsNoData, IsData, Reply
<1>16. r = SignedReply(endpoint, t, key)
  BY Zenon DEF r, size, a, SignedReply
<1> QED
  BY <1>14, <1>15, <1>16

\* A proper check is answered, whatever the credentials and the endpoint.
LEMMA CheckIsAnswered ==
  ASSUME IsNoData(None), IsNoData(Refused),
         NEW context, context.localPwd # None, NEW nominate \in BOOLEAN, NEW fingerprint \in BOOLEAN,
         NEW endpoint, endpoint.family \in {"ipv4", "ipv6"}, endpoint.port # 0
  PROVE  LET result == StunBindingResult(ClientCheck(context, nominate, fingerprint), endpoint, context)
         IN  /\ result.response # Refused /\ result.nominated = nominate
             /\ ClientTakes(result.response, "t", endpoint, context.localPwd)
<1> DEFINE p == ClientCheck(context, nominate, fingerprint)
           m == ParsedMessage(p)
           key == context.localPwd
           reply == SignedReply(endpoint, "t", key)
           result == StunBindingResult(p, endpoint, context)
<1>1. HeaderIsValid(p) /\ IntegrityIsRight(p, key) /\ (fingerprint => FingerprintIsRight(p))
  BY CheckIsSigned
<1>2. /\ m # Refused /\ m.method = "binding" /\ m.class = "request" /\ m.transaction = "t"
      /\ m.username = UsernameOf(context).value /\ m.priority = 7 /\ m.controlling /\ ~m.controlled
      /\ m.integrity /\ (m.fingerprint <=> fingerprint) /\ (Has(p, "use-candidate") <=> nominate)
  BY CheckIsRead
<1>3. reply # Refused /\ ClientTakes(reply, "t", endpoint, key)
  <2> HIDE DEF key, reply
  <2>1. key # None
    BY DEF key
  <2> QED
    BY <2>1, ReplyIsTaken DEF reply
<1> HIDE DEF p, m, reply
<1>4. /\ m.username # None /\ Len(m.username) = 2 /\ UsernameIsValid(m.username) /\ UsernameMatches(m.username, context)
      /\ CheckIsValid(m)
  <2> DEFINE local == context.localUfrag
             remote == context.remoteUfrag
             u == <<[size |-> 1, text |-> local], [size |-> 1, text |-> remote]>>
  <2>1. m.username = u
    BY <1>2 DEF UsernameOf
  <2> HIDE DEF local, remote
  <2>2. Len(u) = 2 /\ u[1].size = 1 /\ u[1].text = local /\ u[2].size = 1 /\ u[2].text = remote /\ IsData(u)
    BY DEF IsData
  <2> HIDE DEF u
  <2>3. UsernameIsValid(u)
    BY <2>2 DEF UsernameIsValid, FragmentIsValid, MaxUsername, MaxFragment
  <2>4. UsernameMatches(u, context) /\ u # None
    BY <2>2 DEF UsernameMatches, IsNoData, local, remote
  <2>5. CheckIsValid(m)
    BY <1>2 DEF CheckIsValid, IsNoData
  <2> QED
    BY <2>1, <2>2, <2>3, <2>4, <2>5
<1>5. BindingResponse(m, endpoint, key) = reply
  <2> HIDE DEF key
  <2>1. key # None
    BY DEF key
  <2>2. ~(m.method # "binding" \/ m.class # "request" \/ endpoint.port = 0 \/ key = None)
    BY <1>2, <2>1
  <2>3. BindingResponse(m, endpoint, key)
          = AppendFingerprint(AppendIntegrity(Reply(m.transaction, AttributeSize(XorMappedAddress(endpoint, m.transaction)),
                                                    <<XorMappedAddress(endpoint, m.transaction)>>), key))
    BY <2>2, Zenon DEF BindingResponse, Reply
  <2> QED
    BY <1>2, <2>3, Zenon DEF reply, SignedReply
<1>6. result.response = reply /\ result.nominated = (reply # Refused /\ Has(p, "use-candidate"))
  <2> DEFINE ok == /\ m # Refused
                   /\ m.method = "binding" /\ m.class = "request" /\ m.username # None
                   /\ CheckIsValid(m) /\ UsernameIsValid(m.username) /\ UsernameMatches(m.username, context)
                   /\ context.localPwd # None /\ m.integrity /\ IntegrityIsRight(p, context.localPwd)
                   /\ m.fingerprint => FingerprintIsRight(p)
             response == IF ok THEN BindingResponse(m, endpoint, context.localPwd) ELSE Refused
  <2>1. ok
    BY <1>1, <1>2, <1>4
  <2>2. result = [handled |-> IsStunPacket(p), response |-> response, nominated |-> response # Refused /\ Has(p, "use-candidate")]
    BY Zenon DEF StunBindingResult, m
  <2> HIDE DEF ok, result
  <2>3. response = reply
    BY <1>5, <2>1
  <2> HIDE DEF response
  <2> QED
    BY <2>2, <2>3
<1>7. result.nominated = nominate
  BY <1>2, <1>3, <1>6
<1> QED
  BY <1>3, <1>6, <1>7 DEF p

-----------------------------------------------------------------------------
(* The credentials of the sessions, and whose checks they answer.          *)

\* A session has generated credentials, and no other session has them.
LocalsOK ==
  /\ \A s \in {publisher, subscriber} \ {None} : s.local \in Credentials
  /\ publisher # None /\ subscriber # None => publisher.local # subscriber.local

LEMMA LocalIsKept ==
  ASSUME NEW name, NEW local
  PROVE  /\ PublisherSession(name, local) # Refused => PublisherSession(name, local).local = local
         /\ \A from : SubscriberSession(name, local, from) # Refused => SubscriberSession(name, local, from).local = local
<1>1. ASSUME NEW a, NEW b, NEW c, NEW d, NEW e, NEW f, NEW g, NEW h
      PROVE  /\ [name |-> a, offer |-> b, answer |-> c, accepted |-> d, local |-> local, remote |-> e, selected |-> None].local = local
             /\ [name |-> a, offer |-> b, answer |-> c, accepted |-> d, local |-> local, remote |-> e, selected |-> None,
                 target |-> f, sources |-> g, config |-> h, original |-> TRUE].local = local
  OBVIOUS
<1>2. ASSUME PublisherSession(name, local) # Refused
      PROVE  \E a, b, c, d, e : PublisherSession(name, local)
               = [name |-> a, offer |-> b, answer |-> c, accepted |-> d, local |-> local, remote |-> e, selected |-> None]
  BY <1>2, Zenon DEF PublisherSession, AndThen
<1>3. ASSUME NEW from, SubscriberSession(name, local, from) # Refused
      PROVE  \E a, b, c, d, e, f, g, h : SubscriberSession(name, local, from)
               = [name |-> a, offer |-> b, answer |-> c, accepted |-> d, local |-> local, remote |-> e, selected |-> None,
                  target |-> f, sources |-> g, config |-> h, original |-> TRUE]
  BY <1>3, Zenon DEF SubscriberSession, AndThen
<1>4. ASSUME PublisherSession(name, local) # Refused PROVE PublisherSession(name, local).local = local
  BY <1>1, <1>2, <1>4
<1>5. ASSUME NEW from, SubscriberSession(name, local, from) # Refused
      PROVE  SubscriberSession(name, local, from).local = local
  BY <1>1, <1>3, <1>5
<1> QED
  BY <1>4, <1>5

LEMMA LocalsStayOK == Spec => []LocalsOK
<1>1. Init => LocalsOK
  BY DEF Init, LocalsOK
<1>2. SessionsOK /\ LocalsOK /\ [Next]_vars => LocalsOK'
  <2> SUFFICES ASSUME SessionsOK, LocalsOK, [Next]_vars PROVE LocalsOK'
    OBVIOUS
  <2>1. PublisherMade => publisher = None /\ publisher'.local \in Credentials
                         /\ (subscriber # None => subscriber.local # publisher'.local)
    <3> SUFFICES ASSUME publisher = None, NEW name \in DOMAIN Offers, NEW local \in Credentials, Fresh(local, subscriber),
                        publisher' = PublisherSession(name, local), publisher' # Refused
                 PROVE  publisher'.local \in Credentials /\ (subscriber # None => subscriber.local # publisher'.local)
      BY DEF PublisherMade
    <3>1. publisher'.local = local
      BY LocalIsKept
    <3> QED
      BY <3>1 DEF Fresh
  <2>2. SubscriberMade => /\ publisher # None /\ subscriber = None /\ subscriber'.local \in Credentials
                          /\ subscriber'.local # publisher.local
    <3> SUFFICES ASSUME publisher # None, NEW name \in DOMAIN Offers, NEW local \in Credentials, Fresh(local, publisher),
                        subscriber' = SubscriberSession(name, local, publisher.offer), subscriber' # Refused
                 PROVE  subscriber'.local \in Credentials /\ subscriber'.local # publisher.local
      BY DEF SubscriberMade
    <3>1. subscriber'.local = local
      BY LocalIsKept
    <3> QED
      BY <3>1 DEF Fresh
  <2>3. \A s, t : Continues(s, t) => s # None /\ t.local = s.local
    BY DEF Continues, SameSession
  <2>4. /\ publisher' = None \/ Continues(publisher, publisher') \/ PublisherMade
        /\ subscriber' = None \/ Continues(subscriber, subscriber') \/ SubscriberMade
    BY NextMakes
  <2>5. \/ publisher' = None
        \/ publisher # None /\ publisher'.local = publisher.local
        \/ publisher = None /\ publisher'.local \in Credentials /\ (subscriber # None => subscriber.local # publisher'.local)
    BY <2>1, <2>3, <2>4
  <2>6. \/ subscriber' = None
        \/ subscriber # None /\ subscriber'.local = subscriber.local
        \/ publisher # None /\ subscriber = None /\ subscriber'.local \in Credentials /\ subscriber'.local # publisher.local
    BY <2>2, <2>3, <2>4
  <2>7. publisher' # None => publisher'.local \in Credentials
    BY <2>5 DEF LocalsOK
  <2>8. subscriber' # None => subscriber'.local \in Credentials
    BY <2>6 DEF LocalsOK
  <2>9. publisher' # None /\ subscriber' # None => publisher'.local # subscriber'.local
    BY <2>5, <2>6 DEF LocalsOK
  <2> QED
    BY <2>7, <2>8, <2>9 DEF LocalsOK
<1> QED
  BY <1>1, <1>2, SessionsAreOK, PTL DEF Spec

\* Every proper check for a session is answered with a reply that its client
\* takes, for any credentials, offers and endpoints
\* (handle_session_stun_binding, write_stun_binding_success_response).
THEOREM ClientChecksStayAnswered ==
  ASSUME IsNoData(None), IsNoData(Refused)
  PROVE  Spec => []ClientChecksAreAnswered
<1>1. LocalsOK => ClientChecksAreAnswered
  <2> SUFFICES ASSUME LocalsOK, NEW s \in {publisher, subscriber} \ {None}, NEW endpoint \in {e \in Endpoints : e.port # 0},
                      NEW nominate \in BOOLEAN, NEW fingerprint \in BOOLEAN,
                      NEW result \in {StunBindingResult(ClientCheck(Context(s), nominate, fingerprint), endpoint, Context(s))}
               PROVE  /\ result.response # Refused /\ result.nominated = nominate
                      /\ ClientTakes(result.response, "t", endpoint, s.local.pwd)
    BY DEF ClientChecksAreAnswered
  <2> DEFINE context == Context(s)
  <2>1. context.localPwd = s.local.pwd
    BY DEF Context
  <2> HIDE DEF context
  <2>2. context.localPwd # None
    BY <2>1, CredentialsAssumption DEF LocalsOK
  <2>3. endpoint.family \in {"ipv4", "ipv6"} /\ endpoint.port # 0
    BY EndpointsAssumption
  <2>4. result = StunBindingResult(ClientCheck(context, nominate, fingerprint), endpoint, context)
    BY DEF context
  <2>5. /\ result.response # Refused /\ result.nominated = nominate
        /\ ClientTakes(result.response, "t", endpoint, context.localPwd)
    BY <2>2, <2>3, <2>4, CheckIsAnswered
  <2> QED
    BY <2>1, <2>5
<1> QED
  BY <1>1, LocalsStayOK, PTL

\* The session s answers the packet p.
AnswersPacket(s, p, endpoint) == StunBindingResult(p, endpoint, Context(s)).response # Refused

\* A packet that is answered names the fragment of the session and is signed
\* with its password.
LEMMA AnsweredIsSigned ==
  ASSUME NEW s, NEW p, NEW endpoint, AnswersPacket(s, p, endpoint)
  PROVE  /\ ParsedMessage(p).username[1].text = s.local.ufrag
         /\ \E of : p.attributes[Position(p, "message-integrity")].value = [key |-> s.local.pwd, of |-> of]
<1> DEFINE m == ParsedMessage(p)
           context == Context(s)
           ok == /\ m # Refused
                 /\ m.method = "binding" /\ m.class = "request" /\ m.username # None
                 /\ CheckIsValid(m) /\ UsernameIsValid(m.username) /\ UsernameMatches(m.username, context)
                 /\ context.localPwd # None /\ m.integrity /\ IntegrityIsRight(p, context.localPwd)
                 /\ m.fingerprint => FingerprintIsRight(p)
           response == IF ok THEN BindingResponse(m, endpoint, context.localPwd) ELSE Refused
           result == StunBindingResult(p, endpoint, context)
<1>1. result = [handled |-> IsStunPacket(p), response |-> response, nominated |-> response # Refused /\ Has(p, "use-candidate")]
  BY Zenon DEF StunBindingResult
<1>2. result.response # Refused
  BY Zenon DEF AnswersPacket
<1> HIDE DEF result, ok
<1>3. ok
  <2>1. response # Refused
    <3> HIDE DEF response
    <3> QED
      BY <1>1, <1>2
  <2> QED
    BY <2>1
<1>4. context.localUfrag = s.local.ufrag /\ context.localPwd = s.local.pwd
  BY DEF Context
<1> HIDE DEF m, context
<1>5. m.username[1].text = s.local.ufrag
  BY <1>3, <1>4 DEF ok, UsernameMatches
<1>6. IntegrityIsRight(p, s.local.pwd)
  BY <1>3, <1>4 DEF ok
<1>7. \E of : p.attributes[Position(p, "message-integrity")].value = [key |-> s.local.pwd, of |-> of]
  BY <1>6, Zenon DEF IntegrityIsRight
<1> QED
  BY <1>5, <1>7 DEF m

\* No packet is answered by both sessions of the stream.
OneSessionAnswers ==
  publisher # None /\ subscriber # None =>
    \A p, from, to : ~(AnswersPacket(publisher, p, from) /\ AnswersPacket(subscriber, p, to))

\* A check is answered by at most one session: the random credentials tell
\* whose it is, for any packet at all, even one that comes from another
\* endpoint the second time (handle_session_stun_binding).
THEOREM OneSessionStaysTheAnswerer == Spec => []OneSessionAnswers
<1>1. LocalsOK => OneSessionAnswers
  <2> SUFFICES ASSUME LocalsOK, publisher # None, subscriber # None, NEW p, NEW from, NEW to,
                      AnswersPacket(publisher, p, from), AnswersPacket(subscriber, p, to)
               PROVE  FALSE
    BY DEF OneSessionAnswers
  <2> DEFINE value == p.attributes[Position(p, "message-integrity")].value
  <2>1. /\ ParsedMessage(p).username[1].text = publisher.local.ufrag
        /\ \E of : value = [key |-> publisher.local.pwd, of |-> of]
    BY AnsweredIsSigned
  <2>2. /\ ParsedMessage(p).username[1].text = subscriber.local.ufrag
        /\ \E of : value = [key |-> subscriber.local.pwd, of |-> of]
    BY AnsweredIsSigned
  <2> HIDE DEF value
  <2>3. value.key = publisher.local.pwd /\ value.key = subscriber.local.pwd
    BY <2>1, <2>2
  <2>4. publisher.local \in Credentials /\ subscriber.local \in Credentials /\ publisher.local # subscriber.local
    BY DEF LocalsOK
  <2> QED
    BY <2>1, <2>2, <2>3, <2>4, CredentialsAssumption
<1> QED
  BY <1>1, LocalsStayOK, PTL
=============================================================================
