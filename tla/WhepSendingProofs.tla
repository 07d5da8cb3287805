------------------------- MODULE WhepSendingProofs -------------------------
(***************************************************************************)
(* Proofs about WhepSending and the RetransmissionCache it extends: the    *)
(* history that transport feedback is looked up in, the sender reports,    *)
(* and the cache of packets that can be sent again.                        *)
(***************************************************************************)
EXTENDS WhepSending, FiniteSetTheorems, SequenceTheorems, TLAPS

-----------------------------------------------------------------------------
(* The smallest of a set of numbers.                                       *)

LEMMA MinOf ==
  ASSUME NEW S \in SUBSET Nat, S # {}
  PROVE  Min(S) \in S /\ \A y \in S : Min(S) <= y
<1>1. PICK x \in S : \A y \in S : ~(<<y, x>> \in OpToRel(<, Nat))
  BY NatLessThanWellFounded, WFMin
<1>2. ASSUME NEW y \in S PROVE x <= y
  <2>1. <<y, x>> \in OpToRel(<, Nat) <=> <<y, x>> \in Nat \X Nat /\ <<y, x>>[1] < <<y, x>>[2]
    BY Zenon DEF OpToRel
  <2>2. ~(y < x)
    BY <1>1, <2>1
  <2> QED
    BY <2>2
<1> QED
  BY <1>2 DEF Min

-----------------------------------------------------------------------------
(* Transport-wide sequence numbers.                                        *)

LEMMA Division ==
  ASSUME NEW a \in Int, NEW m \in Int, m > 0
  PROVE  a = (a \div m) * m + (a % m)
  BY Z3

LEMMA DivMod ==
  ASSUME NEW a \in Nat, NEW m \in Nat \ {0}
  PROVE  /\ a \div m \in Nat /\ a % m \in 0..m - 1
         /\ a = (a \div m) * m + (a % m)
<1>1. a % m \in 0..m - 1
  OBVIOUS
<1>2. a \div m \in Nat
  BY Z3
<1>3. a = (a \div m) * m + (a % m)
  <2>1. a \in Int /\ m \in Int /\ m > 0
    OBVIOUS
  <2> QED
    BY <2>1, Division, Zenon
<1> QED
  BY <1>1, <1>2, <1>3

\* Two numbers less than m apart are in the same round or in neighbouring ones.
LEMMA NearRounds ==
  ASSUME NEW a \in Nat, NEW b \in Nat, NEW m \in Nat \ {0}, a <= b, b - a < m
  PROVE  /\ b \div m \in {a \div m, a \div m + 1}
         /\ (b \div m) * m \in {(a \div m) * m, (a \div m) * m + m}
<1> DEFINE x == a \div m
           y == b \div m
           r == a % m
           s == b % m
<1>1. x \in Nat /\ y \in Nat /\ r \in 0..m - 1 /\ s \in 0..m - 1 /\ a = x * m + r /\ b = y * m + s
  BY DivMod
<1> HIDE DEF x, y, r, s
<1>2. x * m \in Nat /\ y * m \in Nat
  BY <1>1
<1>3. y * m < x * m + 2 * m /\ y * m > x * m - m
  BY <1>1, <1>2
<1>4. y >= x
  <2>1. ASSUME y + 1 <= x PROVE FALSE
    <3>1. (y + 1) * m <= x * m
      BY <1>1, <2>1
    <3>2. (y + 1) * m = y * m + m
      BY <1>1
    <3> QED
      BY <1>1, <1>2, <1>3, <3>1, <3>2
  <2> QED
    BY <1>1, <2>1
<1>5. y <= x + 1
  <2>1. ASSUME y >= x + 2 PROVE FALSE
    <3>1. y * m >= (x + 2) * m
      BY <1>1, <2>1
    <3>2. (x + 2) * m = x * m + 2 * m
      BY <1>1
    <3> QED
      BY <1>1, <1>2, <1>3, <3>1, <3>2
  <2> QED
    BY <1>1, <2>1
<1>6. y = x \/ y = x + 1
  BY <1>1, <1>4, <1>5
<1>7. (x + 1) * m = x * m + m
  BY <1>1
<1> QED
  BY <1>6, <1>7 DEF x, y

SentType == [number: Nat, at: Nat]

\* The packets of a history have the numbers up to the next one, without gaps.
Numbered(h, next) ==
  /\ h \in Seq(SentType) /\ next \in Nat
  /\ \A i \in 1..Len(h) : h[i].number = next - Len(h) + i - 1

LEMMA EvictedNumbered ==
  ASSUME NEW h, NEW next, Numbered(h, next)
  PROVE  Numbered(Evicted(h), next) /\ Len(Evicted(h)) <= HistoryLimit
<1> DEFINE kept == {i \in 1..Len(h) : now - h[i].at <= HistoryAge /\ Len(h) - i < HistoryLimit}
           k == Min(kept)
           n == Len(h)
<1>1. /\ h \in Seq(SentType) /\ next \in Nat /\ n \in Nat
      /\ \A i \in 1..n : h[i].number = next - n + i - 1
      /\ HistoryLimit \in Nat
  BY SendingAssumption DEF Numbered
<1>2. CASE kept = {}
  <2>1. Evicted(h) = <<>>
    BY <1>2 DEF Evicted
  <2> QED
    BY <1>1, <2>1 DEF Numbered
<1>3. CASE kept # {}
  <2>1. k \in kept
    <3>1. kept \in SUBSET Nat
      BY <1>1
    <3> HIDE DEF kept
    <3> QED
      BY <1>3, <3>1, MinOf
  <2>2. k \in 1..n /\ n - k < HistoryLimit
    BY <2>1
  <2>3. Evicted(h) = SubSeq(h, k, n)
    BY <1>3 DEF Evicted
  <2> HIDE DEF k, n
  <2>4. /\ SubSeq(h, k, n) \in Seq(SentType) /\ Len(SubSeq(h, k, n)) = n - k + 1
        /\ \A i \in 1..n - k + 1 : SubSeq(h, k, n)[i] = h[k + i - 1]
    BY <1>1, <2>2, SubSeqProperties DEF n
  <2>5. \A i \in 1..n - k + 1 : SubSeq(h, k, n)[i].number = next - (n - k + 1) + i - 1
    <3>1. ASSUME NEW i \in 1..n - k + 1
          PROVE  SubSeq(h, k, n)[i].number = next - (n - k + 1) + i - 1
      <4>1. k + i - 1 \in 1..n
        BY <1>1, <2>2
      <4>2. h[k + i - 1].number = next - n + (k + i - 1) - 1
        BY <1>1, <4>1
      <4> QED
        BY <1>1, <2>2, <2>4, <4>2
    <3> QED
      BY <3>1
  <2> QED
    BY <1>1, <2>2, <2>3, <2>4, <2>5 DEF Numbered
<1> QED
  BY <1>2, <1>3

LEMMA SentNumbered ==
  ASSUME NEW h, NEW next, Numbered(h, next), NEW n \in Nat, now \in Nat
  PROVE  Numbered(h \o [i \in 1..n |-> [number |-> next + i - 1, at |-> now]], next + n)
<1> DEFINE more == [i \in 1..n |-> [number |-> next + i - 1, at |-> now]]
           all == h \o more
<1>1. h \in Seq(SentType) /\ next \in Nat /\ Len(h) \in Nat
  BY DEF Numbered
<1>2. \A i \in 1..n : more[i] \in SentType /\ more[i].number = next + i - 1
  BY <1>1 DEF SentType
<1>3. more \in Seq(SentType) /\ Len(more) = n
  BY <1>2
<1> HIDE DEF more
<1>4. /\ all \in Seq(SentType) /\ Len(all) = Len(h) + n
      /\ \A i \in 1..Len(h) + n : all[i] = IF i <= Len(h) THEN h[i] ELSE more[i - Len(h)]
  BY <1>1, <1>3, ConcatProperties
<1> HIDE DEF all
<1>5. ASSUME NEW i \in 1..Len(all)
      PROVE  all[i].number = next + n - Len(all) + i - 1
  <2>1. CASE i <= Len(h)
    <3>1. all[i] = h[i] /\ i \in 1..Len(h)
      BY <1>1, <1>4, <2>1
    <3>2. h[i].number = next - Len(h) + i - 1
      BY <3>1 DEF Numbered
    <3> QED
      BY <1>1, <1>4, <3>1, <3>2
  <2>2. CASE ~(i <= Len(h))
    <3>1. all[i] = more[i - Len(h)] /\ i - Len(h) \in 1..n
      BY <1>1, <1>4, <2>2
    <3> QED
      BY <1>1, <1>2, <1>4, <3>1
  <2> QED
    BY <2>1, <2>2
<1>6. Numbered(all, next + n)
  <2>1. next + n \in Nat
    BY <1>1
  <2> QED
    BY <1>4, <1>5, <2>1 DEF Numbered
<1> QED
  BY <1>6 DEF all, more

\* The inductive invariant of FeedbackFindsPackets.
FeedbackInv ==
  /\ now \in Nat
  /\ Numbered(history, nextNumber)
  /\ Len(history) <= HistoryLimit

LEMMA EvictedFeedback ==
  ASSUME FeedbackInv, now' = now, nextNumber' = nextNumber, history' = Evicted(history)
  PROVE  FeedbackInv'
<1>1. Numbered(Evicted(history), nextNumber) /\ Len(Evicted(history)) <= HistoryLimit
  BY EvictedNumbered DEF FeedbackInv
<1> QED
  BY <1>1 DEF FeedbackInv, Numbered, SentType

LEMMA RememberSentFeedback ==
  ASSUME FeedbackInv, now' = now, NEW n \in Nat, RememberSent(n)
  PROVE  FeedbackInv'
<1> DEFINE all == history \o [i \in 1..n |-> [number |-> nextNumber + i - 1, at |-> now]]
<1>1. CASE setting.transportCc
  <2>1. Numbered(all, nextNumber + n)
    BY SentNumbered DEF FeedbackInv
  <2> HIDE DEF all
  <2>2. Numbered(Evicted(all), nextNumber + n) /\ Len(Evicted(all)) <= HistoryLimit
    BY <2>1, EvictedNumbered
  <2>3. history' = Evicted(all) /\ nextNumber' = nextNumber + n
    BY <1>1 DEF RememberSent, all
  <2> QED
    BY <2>2, <2>3 DEF FeedbackInv, Numbered, SentType
<1>2. CASE ~setting.transportCc
  BY <1>2 DEF RememberSent, FeedbackInv, Numbered, SentType
<1> QED
  BY <1>1, <1>2

LEMMA SameFeedback ==
  ASSUME FeedbackInv, now' \in Nat, UNCHANGED <<history, nextNumber>>
  PROVE  FeedbackInv'
  BY DEF FeedbackInv, Numbered, SentType

Nearest(near, newest, m, half) ==
  IF near - newest > half THEN near - m
  ELSE IF newest - near > half THEN near + m ELSE near

IsHalf(half, m) == half \in Nat /\ m \in Nat \ {0} /\ 2 * half = m

\* find_extended_sequence, of a number less than half a round back.
LEMMA NearestNumber ==
  ASSUME NEW n \in Nat, NEW newest \in Nat, NEW m, NEW half, IsHalf(half, m), n <= newest,
         newest - n < half
  PROVE  Nearest((newest \div m) * m + (n % m), newest, m, half) = n
<1> USE DEF IsHalf
<1> DEFINE a == (n \div m) * m
           b == (newest \div m) * m
           r == n % m
<1>1. b \in {a, a + m}
  BY NearRounds
<1>2. n \div m \in Nat /\ r \in Nat /\ n = a + r
  BY DivMod
<1>3. a \in Nat
  BY <1>2
<1> HIDE DEF a, b, r
<1>4. b + r = n \/ b + r = n + m
  BY <1>1, <1>2, <1>3
<1>5. Nearest(b + r, newest, m, half) = n
  BY <1>4 DEF Nearest
<1> QED
  BY <1>5 DEF b, r

\* The lookup by distance finds every packet of the history.
LEMMA NumberFound ==
  ASSUME FeedbackInv, NEW i \in 1..Len(history)
  PROVE  /\ history[i].number = history[1].number + i - 1
         /\ Found(history[i].number % SeqMod) = history[i].number
<1> DEFINE n == history[i].number
           first == history[1].number
           newest == history[Len(history)].number
           half == SeqMod \div 2
           x == Nearest((newest \div SeqMod) * SeqMod + (n % SeqMod), newest, SeqMod, half)
<1>1. /\ Len(history) \in Nat \ {0} /\ 1 \in 1..Len(history) /\ Len(history) \in 1..Len(history)
      /\ history \in Seq(SentType)
      /\ \A j \in 1..Len(history) : history[j].number = nextNumber - Len(history) + j - 1
      /\ nextNumber \in Nat /\ Len(history) <= HistoryLimit
  BY DEF FeedbackInv, Numbered
<1>2. SeqMod \in Nat \ {0} /\ half \in Nat /\ 2 * half = SeqMod /\ HistoryLimit \in 1..half
  <2>1. SeqMod \in Nat \ {0} /\ SeqMod % 2 = 0 /\ HistoryLimit \in 1..half
    BY SendingAssumption
  <2> QED
    BY <2>1
<1>3. Found(n % SeqMod) = IF x < first \/ x > newest THEN None ELSE x
  BY DEF Found, Nearest
<1>4. n \in Nat /\ first \in Nat /\ newest \in Nat
  <2>1. \A j \in 1..Len(history) : history[j] \in SentType
    BY <1>1
  <2> QED
    BY <1>1, <2>1 DEF SentType
<1>5. /\ n = nextNumber - Len(history) + i - 1 /\ first = nextNumber - Len(history) + 1 - 1
      /\ newest = nextNumber - Len(history) + Len(history) - 1
  BY <1>1
<1> HIDE DEF n, first, newest, half
<1>6. n = first + i - 1 /\ n <= newest /\ newest - n < half /\ first <= n
  BY <1>1, <1>2, <1>4, <1>5
<1>7. n = x
  <2> SUFFICES n = Nearest((newest \div SeqMod) * SeqMod + (n % SeqMod), newest, SeqMod, half)
    OBVIOUS
  <2>1. IsHalf(half, SeqMod) /\ n \in Nat /\ newest \in Nat
    BY <1>2, <1>4 DEF IsHalf
  <2>2. n <= newest /\ newest - n < half
    BY <1>6
  <2> QED
    BY <2>1, <2>2, NearestNumber, Zenon
<1> HIDE DEF x
<1>8. Found(n % SeqMod) = n
  BY <1>3, <1>4, <1>6, <1>7
<1> QED
  BY <1>6, <1>8 DEF n, first

LEMMA NextFeedback == FeedbackInv /\ [Next]_vars => FeedbackInv'
<1> SUFFICES ASSUME FeedbackInv, [Next]_vars
             PROVE  FeedbackInv'
  OBVIOUS
<1>1. now \in Nat
  BY DEF FeedbackInv
<1>2. CASE UNCHANGED <<history, nextNumber, now>>
  BY <1>1, <1>2, SameFeedback
<1>3. ASSUME NEW m \in Media, NEW s \in Sources, NEW restarts \in BOOLEAN, Forward(m, s, restarts)
      PROVE  FeedbackInv'
  <2>1. CASE RememberSent(1) /\ now' = now
    BY <2>1, RememberSentFeedback
  <2>2. CASE UNCHANGED <<nextNumber, history, now>>
    BY <1>2, <2>2
  <2> QED
    BY <1>3, <2>1, <2>2 DEF Forward, Remember, cacheVars
<1>4. ASSUME NEW m \in Media, ForwardRtx(m)
      PROVE  FeedbackInv'
  BY <1>4, RememberSentFeedback DEF ForwardRtx, cacheVars
<1>5. ASSUME NEW K \in SUBSET Keys, NEW m \in Media, NackArrives(K, m)
      PROVE  FeedbackInv'
  <2>1. PICK hits \in SUBSET K : Nack(K, hits) /\ \E n \in 0..Cardinality(hits) : RememberSent(n)
    BY <1>5 DEF NackArrives
  <2>2. Cardinality(hits) \in Nat
    <3>1. IsFiniteSet(hits)
      BY CacheAssumption, FS_Subset
    <3> QED
      BY <3>1, FS_CardinalityType
  <2>3. PICK n \in 0..Cardinality(hits) : RememberSent(n)
    BY <2>1
  <2>4. n \in Nat /\ now' = now
    BY <2>1, <2>2 DEF Nack
  <2> QED
    BY <2>3, <2>4, RememberSentFeedback
<1>6. CASE Feedback
  BY <1>6, EvictedFeedback DEF Feedback, cacheVars
<1>7. CASE LogSummary
  BY <1>7, EvictedFeedback DEF LogSummary, Snapshot
<1>8. CASE SetPeerContext
  <2>1. history' = <<>> /\ nextNumber' = 0 /\ now' = now
    BY <1>8 DEF SetPeerContext, Clear
  <2>2. HistoryLimit \in Nat
    BY SendingAssumption
  <2> QED
    BY <1>1, <2>1, <2>2 DEF FeedbackInv, Numbered
<1>9. CASE TimePasses
  BY <1>1, <1>9, SameFeedback DEF TimePasses, Tick, sendingVars
<1>10. CASE \/ \E g \in 1..generation, s \in Sources : PublisherReport(g, s)
            \/ \E s \in Sources : SourceBye(s)
            \/ \E p \in Sessions \cup {None} : AdoptSource(p)
            \/ \E X \in SUBSET Senders : Close(X) \/ SendReports(X)
            \/ UNCHANGED vars
  BY <1>2, <1>10
     DEF PublisherReport, SourceBye, AdoptSource, Close, SendReports, vars, sendingVars, cacheVars
<1> QED
  BY <1>3, <1>4, <1>5, <1>6, <1>7, <1>8, <1>9, <1>10 DEF Next, Open

\* Every packet that the subscriber's transport feedback can still name is found
\* under the 16 bits of its number, for every size of the history that is no
\* more than half a round: over any number of rounds, whatever was evicted.
THEOREM FeedbackFinds == Spec => []FeedbackFindsPackets
<1>1. Init => FeedbackInv
  <2>1. HistoryLimit \in Nat
    BY SendingAssumption
  <2> QED
    BY <2>1 DEF Init, CacheInit, FeedbackInv, Numbered
<1>2. FeedbackInv /\ [Next]_vars => FeedbackInv'
  BY NextFeedback
<1>3. FeedbackInv => FeedbackFindsPackets
  BY NumberFound DEF FeedbackFindsPackets
<1> QED
  BY <1>1, <1>2, <1>3, PTL DEF Spec

-----------------------------------------------------------------------------
(* The clocks behind the sender reports.                                   *)

\* s2 continues s1.
Continues(s1, s2) ==
  /\ Len(s1) \in Nat /\ Len(s2) \in Nat /\ Len(s1) <= Len(s2)
  /\ \A i \in 1..Len(s1) : s2[i] = s1[i]

LEMMA ContinuesSame ==
  ASSUME NEW S, NEW s \in Seq(S)
  PROVE  Continues(s, s)
  BY DEF Continues

LEMMA ContinuesAppend ==
  ASSUME NEW S, NEW s \in Seq(S), NEW e \in S
  PROVE  /\ Continues(s, Append(s, e)) /\ Append(s, e) \in Seq(S)
         /\ Len(Append(s, e)) = Len(s) + 1 /\ Append(s, e)[Len(s) + 1] = e
<1>1. /\ Append(s, e) \in Seq(S) /\ Len(Append(s, e)) = Len(s) + 1 /\ Len(s) \in Nat
      /\ \A i \in 1..Len(s) : Append(s, e)[i] = s[i]
      /\ Append(s, e)[Len(s) + 1] = e
  BY AppendProperties, LenProperties
<1> QED
  BY <1>1 DEF Continues

\* A timing that is known of source s is a report of it in the present publication.
KnownHolds(s) ==
  timings[s] # None =>
    /\ publisher # None /\ timings[s].generation = generation
    /\ timings[s].time \in 1..Len(reported)
    /\ reported[timings[s].time] = [generation |-> generation, source |-> s]

\* The line of media m was begun for the source it has, in the present session.
LineHolds(m) ==
  line[m] # None =>
    /\ publisher # None /\ line[m].source \in Sources
    /\ line[m].index \in 1..Len(lines)
    /\ lines[line[m].index] = [media |-> m, source |-> line[m].source, session |-> publisher]

ReportType == [generation: Nat, source: Sources]

BeginType == [media: Media, source: Sources, session: Sessions \cup {None}]

ClockInv ==
  /\ generation \in Nat /\ publisher \in Sessions \cup {None}
  /\ timings = [s \in Sources |-> timings[s]] /\ line = [m \in Media |-> line[m]]
  /\ reported \in Seq(ReportType) /\ lines \in Seq(BeginType)
  /\ \A s \in Sources : KnownHolds(s)
  /\ \A m \in Media : LineHolds(m)

\* What any step does to the clocks.
ClockStep ==
  /\ Continues(reported, reported') /\ Continues(lines, lines')
  /\ \A s \in Sources : \/ timings'[s] = None \/ timings'[s] = timings[s]
                        \/ timings'[s].time = Len(reported) + 1
  /\ \A m \in Media : \/ line'[m] = None \/ line'[m] = line[m]
                      \/ line'[m].index = Len(lines) + 1

LEMMA SameClocks ==
  ASSUME ClockInv, UNCHANGED <<generation, publisher, timings, line, reported, lines>>
  PROVE  ClockInv' /\ ClockStep
<1>1. ClockInv'
  BY DEF ClockInv, KnownHolds, LineHolds
<1> QED
  BY <1>1, ContinuesSame DEF ClockInv, ClockStep

LEMMA PublisherReportClocks ==
  ASSUME ClockInv, NEW g \in 1..generation, NEW s \in Sources, PublisherReport(g, s)
  PROVE  ClockInv' /\ ClockStep
<1> DEFINE e == [generation |-> g, source |-> s]
<1>1. g \in Nat /\ e \in ReportType
  BY DEF ClockInv, ReportType
<1>2. reported' = Append(reported, e) /\ UNCHANGED <<generation, publisher, line, lines>>
  BY DEF PublisherReport
<1>3. /\ Continues(reported, reported') /\ reported' \in Seq(ReportType)
      /\ Len(reported') = Len(reported) + 1 /\ reported'[Len(reported) + 1] = e
      /\ Len(reported) \in Nat
  BY <1>1, <1>2, ContinuesAppend, LenProperties DEF ClockInv
<1>4. /\ timings' = [x \in Sources |-> timings'[x]]
      /\ \A x \in Sources : \/ timings'[x] = timings[x]
                            \/ /\ x = s /\ Accepted(g)
                               /\ timings'[x] = [generation |-> g, time |-> Len(reported) + 1]
  BY DEF PublisherReport, ClockInv
<1>5. ASSUME NEW x \in Sources PROVE KnownHolds(x)'
  <2>1. CASE timings'[x] = timings[x]
    BY <1>2, <1>3, <2>1 DEF KnownHolds, ClockInv, Continues
  <2>2. CASE /\ x = s /\ Accepted(g)
             /\ timings'[x] = [generation |-> g, time |-> Len(reported) + 1]
    <3>1. timings'[x].time \in 1..Len(reported')
      BY <1>3, <2>2
    <3> QED
      BY <1>2, <1>3, <2>2, <3>1 DEF KnownHolds, Accepted
  <2> QED
    BY <1>4, <2>1, <2>2
<1>6. \A m \in Media : LineHolds(m)'
  BY <1>2 DEF LineHolds, ClockInv
<1>7. ClockInv'
  BY <1>2, <1>3, <1>4, <1>5, <1>6 DEF ClockInv
<1>8. Continues(lines, lines')
  BY <1>2, ContinuesSame DEF ClockInv
<1> QED
  BY <1>2, <1>3, <1>4, <1>7, <1>8 DEF ClockStep

\* The publisher, a source or the peer context goes: timings and lines go with
\* it, or stay in the same session.
LEMMA ForgottenClocks ==
  ASSUME ClockInv, UNCHANGED <<reported, lines>>, generation' \in Nat,
         publisher' \in Sessions \cup {None},
         timings' = [s \in Sources |-> timings'[s]], line' = [m \in Media |-> line'[m]],
         \A s \in Sources : \/ timings'[s] = None
                            \/ timings'[s] = timings[s] /\ UNCHANGED <<generation, publisher>>,
         \A m \in Media : line'[m] = None \/ (line'[m] = line[m] /\ publisher' = publisher)
  PROVE  ClockInv' /\ ClockStep
<1>1. \A s \in Sources : KnownHolds(s)'
  BY DEF KnownHolds, ClockInv
<1>2. \A m \in Media : LineHolds(m)'
  BY DEF LineHolds, ClockInv
<1>3. ClockInv'
  BY <1>1, <1>2 DEF ClockInv
<1> QED
  BY <1>3, ContinuesSame DEF ClockInv, ClockStep

LEMMA ForwardClocks ==
  ASSUME ClockInv, NEW m \in Media, NEW s \in Sources, NEW restarts, LineFor(m, s, restarts),
         publisher # None, UNCHANGED <<generation, publisher, timings, reported>>
  PROVE  /\ ClockInv' /\ ClockStep
<1>1. CASE UNCHANGED <<line, lines>>
  BY <1>1, SameClocks
<1>2. CASE /\ lines' = Append(lines, [media |-> m, source |-> s, session |-> publisher])
           /\ line' = [line EXCEPT ![m] = [source |-> s, index |-> Len(lines) + 1]]
  <2> DEFINE e == [media |-> m, source |-> s, session |-> publisher]
  <2>1. e \in BeginType
    BY DEF BeginType, ClockInv
  <2>2. /\ Continues(lines, lines') /\ lines' \in Seq(BeginType)
        /\ Len(lines') = Len(lines) + 1 /\ lines'[Len(lines) + 1] = e
        /\ Len(lines) \in Nat
    BY <1>2, <2>1, ContinuesAppend, LenProperties DEF ClockInv
  <2>3. /\ line' = [x \in Media |-> line'[x]]
        /\ line'[m] = [source |-> s, index |-> Len(lines) + 1]
        /\ \A x \in Media : x # m => line'[x] = line[x]
    BY <1>2 DEF ClockInv
  <2>4. ASSUME NEW x \in Media PROVE LineHolds(x)'
    <3>1. CASE x # m
      BY <2>2, <2>3, <3>1 DEF LineHolds, ClockInv, Continues
    <3>2. CASE x = m
      <4>1. line'[x].index \in 1..Len(lines')
        BY <2>2, <2>3, <3>2
      <4> QED
        BY <2>2, <2>3, <3>2, <4>1 DEF LineHolds
    <3> QED
      BY <3>1, <3>2
  <2>5. \A x \in Sources : KnownHolds(x)'
    BY DEF KnownHolds, ClockInv
  <2>6. ClockInv'
    BY <2>2, <2>3, <2>4, <2>5 DEF ClockInv
  <2>7. Continues(reported, reported')
    BY ContinuesSame DEF ClockInv
  <2> QED
    BY <2>2, <2>3, <2>6, <2>7 DEF ClockStep
<1> QED
  BY <1>1, <1>2 DEF LineFor

-----------------------------------------------------------------------------
(* Sender reports.                                                         *)

TimingType == [generation: Nat, source: Sources, time: Nat, line: Nat]

Pairs == Nat \X Nat

SenderType ==
  [sent: BOOLEAN, timing: TimingType \cup {None}, last: Pairs \cup {None}, reports: Seq(Pairs)]

\* Pair r was mapped no later than q: on an earlier line, or on the same line
\* from an earlier report.
Before(r, q) == r[2] < q[2] \/ (r[2] = q[2] /\ r[1] < q[1])

\* Pair r, mapped for media m, is not ahead of what the clocks would map now.
Behind(r, m, ln, tm, rep, lns) ==
  /\ r[1] <= Len(rep) /\ r[2] <= Len(lns)
  /\ ln[m] # None =>
       /\ r[2] <= ln[m].index
       /\ r[2] = ln[m].index /\ tm[ln[m].source] # None => r[1] <= tm[ln[m].source].time

\* What TimingsAreWhole says of one timing.
TimingFits(t, m, g, pub, rep, lns) ==
  /\ t.generation = g /\ pub # None
  /\ t.time \in 1..Len(rep) /\ t.line \in 1..Len(lns)
  /\ rep[t.time] = [generation |-> g, source |-> t.source]
  /\ lns[t.line] = [media |-> m, source |-> t.source, session |-> pub]

PairOf(t) == <<t.time, t.line>>

\* The reports sent are in order and behind the clocks.
Past(r, m, ln, tm, rep, lns) ==
  /\ \A i \in 1..Len(r) : Behind(r[i], m, ln, tm, rep, lns)
  /\ \A i, j \in 1..Len(r) : i < j => Before(r[i], r[j])

NotBefore(t, r) == \A i \in 1..Len(r) : r[i] = PairOf(t) \/ Before(r[i], PairOf(t))

SenderHolds(x) ==
  /\ senders[x] \in SenderType
  /\ Past(senders[x].reports, x[1], line, timings, reported, lines)
  /\ senders[x].timing # None =>
       /\ TimingFits(senders[x].timing, x[1], generation, publisher, reported, lines)
       /\ Behind(PairOf(senders[x].timing), x[1], line, timings, reported, lines)
       /\ NotBefore(senders[x].timing, senders[x].reports)
  /\ ~closed /\ senders[x].reports # <<>> =>
       senders[x].last = senders[x].reports[Len(senders[x].reports)]

\* The inductive invariant of ReportsAreTrue.
ReportsInv ==
  /\ ClockInv
  /\ senders = [x \in Senders |-> senders[x]]
  /\ \A x \in Senders : SenderHolds(x)

LEMMA SendersOfMedia == \A x \in Senders : x[1] \in Media
  BY DEF Senders

LEMMA BehindLater ==
  ASSUME ClockInv, ClockStep, NEW m \in Media, NEW r \in Pairs,
         Behind(r, m, line, timings, reported, lines)
  PROVE  Behind(r, m, line', timings', reported', lines')
<1>1. r[1] \in Nat /\ r[2] \in Nat /\ r[1] <= Len(reported) /\ r[2] <= Len(lines)
  BY DEF Pairs, Behind
<1>2. /\ Len(reported) \in Nat /\ Len(reported') \in Nat /\ Len(reported) <= Len(reported')
      /\ Len(lines) \in Nat /\ Len(lines') \in Nat /\ Len(lines) <= Len(lines')
  BY DEF ClockStep, Continues
<1>3. CASE line'[m] = None
  BY <1>1, <1>2, <1>3 DEF Behind
<1>4. CASE line'[m] = line[m] /\ line[m] # None
  <2>1. line[m].source \in Sources
    BY <1>4 DEF ClockInv, LineHolds
  <2>2. r[2] <= line[m].index
    BY <1>4 DEF Behind
  <2>3. ASSUME r[2] = line[m].index, timings'[line[m].source] # None
        PROVE  r[1] <= timings'[line[m].source].time
    <3>1. CASE timings'[line[m].source] = timings[line[m].source]
      BY <1>4, <2>3, <3>1 DEF Behind
    <3>2. CASE timings'[line[m].source].time = Len(reported) + 1
      BY <1>1, <1>2, <3>2
    <3> QED
      BY <2>1, <2>3, <3>1, <3>2 DEF ClockStep
  <2> QED
    BY <1>1, <1>2, <1>4, <2>2, <2>3 DEF Behind
<1>5. CASE line'[m].index = Len(lines) + 1
  BY <1>1, <1>2, <1>5 DEF Behind
<1> QED
  BY <1>3, <1>4, <1>5 DEF ClockStep

LEMMA PastLater ==
  ASSUME ClockInv, ClockStep, NEW m \in Media, NEW r \in Seq(Pairs),
         Past(r, m, line, timings, reported, lines)
  PROVE  Past(r, m, line', timings', reported', lines')
<1>1. \A i \in 1..Len(r) : r[i] \in Pairs
  BY ElementOfSeq
<1> QED
  BY <1>1, BehindLater DEF Past

LEMMA TimingLater ==
  ASSUME ClockStep, UNCHANGED <<generation, publisher>>, NEW t, NEW m,
         TimingFits(t, m, generation, publisher, reported, lines)
  PROVE  TimingFits(t, m, generation', publisher', reported', lines')
  BY DEF ClockStep, Continues, TimingFits

\* A sender keeps its timing, or loses it.
LEMMA SameReports ==
  ASSUME ReportsInv, ClockStep, NEW x \in Senders, senders'[x] \in SenderType,
         senders'[x].reports = senders[x].reports,
         closed' \/ (closed' = closed /\ senders'[x].last = senders[x].last),
         \/ senders'[x].timing = None
         \/ senders'[x].timing = senders[x].timing /\ UNCHANGED <<generation, publisher>>
  PROVE  SenderHolds(x)'
<1>1. SenderHolds(x) /\ ClockInv /\ x[1] \in Media
  BY SendersOfMedia DEF ReportsInv
<1>2. senders[x].reports \in Seq(Pairs)
  BY <1>1 DEF SenderHolds, SenderType
<1>3. Past(senders'[x].reports, x[1], line', timings', reported', lines')
  BY <1>1, <1>2, PastLater DEF SenderHolds
<1>4. ASSUME senders'[x].timing # None
      PROVE  /\ TimingFits(senders'[x].timing, x[1], generation', publisher', reported', lines')
             /\ Behind(PairOf(senders'[x].timing), x[1], line', timings', reported', lines')
             /\ NotBefore(senders'[x].timing, senders'[x].reports)
  <2>1. senders'[x].timing = senders[x].timing /\ UNCHANGED <<generation, publisher>>
    BY <1>4
  <2>2. PairOf(senders[x].timing) \in Pairs
    BY <1>1, <1>4, <2>1 DEF SenderHolds, SenderType, TimingType, PairOf, Pairs
  <2> QED
    BY <1>1, <1>4, <2>1, <2>2, TimingLater, BehindLater DEF SenderHolds
<1> QED
  BY <1>1, <1>3, <1>4 DEF SenderHolds

\* The timing that refresh_sender_timing maps on the line of media m.
Mapped(m, known, ln) ==
  [generation |-> known[ln[m].source].generation, source |-> ln[m].source,
   time |-> known[ln[m].source].time, line |-> ln[m].index]

CanMap(m, known, ln) == ln[m] # None /\ known[ln[m].source] # None

LEMMA RefreshedSenders ==
  ASSUME NEW all, all = [x \in Senders |-> all[x]], NEW s, NEW known, NEW ln
  PROVE  /\ Refreshed(all, s, known, ln) = [x \in Senders |-> Refreshed(all, s, known, ln)[x]]
         /\ \A x \in Senders :
              \/ Refreshed(all, s, known, ln)[x] = all[x]
              \/ /\ CanMap(x[1], known, ln)
                 /\ Refreshed(all, s, known, ln)[x] =
                      [all[x] EXCEPT !.timing = Mapped(x[1], known, ln)]
<1>1. CASE known[s] = None \/ SentFrom(s, ln) = {}
  <2>1. Refreshed(all, s, known, ln) = all
    BY <1>1 DEF Refreshed
  <2> QED
    BY <2>1
<1>2. CASE ~(known[s] = None \/ SentFrom(s, ln) = {})
  <2> DEFINE m == Min(SentFrom(s, ln))
             timing == [generation |-> known[s].generation, source |-> s,
                        time |-> known[s].time, line |-> ln[m].index]
  <2>1. SentFrom(s, ln) \in SUBSET Nat
    BY SendingAssumption DEF SentFrom
  <2>2. m \in SentFrom(s, ln)
    BY <1>2, <2>1, MinOf
  <2>3. ln[m] # None /\ ln[m].source = s
    BY <2>2 DEF SentFrom
  <2>4. timing = Mapped(m, known, ln) /\ CanMap(m, known, ln)
    BY <1>2, <2>3 DEF Mapped, CanMap
  <2>5. Refreshed(all, s, known, ln) =
          [x \in Senders |-> IF x[1] = m THEN [all[x] EXCEPT !.timing = timing] ELSE all[x]]
    BY <1>2 DEF Refreshed
  <2> HIDE DEF m, timing
  <2> QED
    BY <2>4, <2>5
<1> QED
  BY <1>1, <1>2

LEMMA RefreshedReports ==
  ASSUME ReportsInv, ClockStep, ClockInv', NEW x \in Senders, senders'[x] \in SenderType,
         senders'[x].reports = senders[x].reports, senders'[x].last = senders[x].last,
         closed' = closed, CanMap(x[1], timings', line'),
         senders'[x].timing = Mapped(x[1], timings', line')
  PROVE  SenderHolds(x)'
<1> DEFINE m == x[1]
           s == line'[m].source
           r == senders[x].reports
           t == senders'[x].timing
<1>1. SenderHolds(x) /\ ClockInv /\ m \in Media
  BY SendersOfMedia DEF ReportsInv
<1>2. r \in Seq(Pairs)
  BY <1>1 DEF SenderHolds, SenderType
<1>3. Past(r, m, line', timings', reported', lines')
  BY <1>1, <1>2, PastLater DEF SenderHolds
<1>4. line'[m] # None /\ timings'[s] # None
  BY DEF CanMap
<1>5. LineHolds(m)'
  BY <1>1 DEF ClockInv
<1>6. /\ publisher' # None /\ s \in Sources
      /\ line'[m].index \in 1..Len(lines')
      /\ lines'[line'[m].index] = [media |-> m, source |-> s, session |-> publisher']
  BY <1>4, <1>5 DEF LineHolds
<1>7. \A z \in Sources : KnownHolds(z)'
  BY DEF ClockInv
<1>8. /\ timings'[s].generation = generation'
      /\ timings'[s].time \in 1..Len(reported')
      /\ reported'[timings'[s].time] = [generation |-> generation', source |-> s]
  BY <1>4, <1>6, <1>7 DEF KnownHolds
<1>9. /\ t.generation = timings'[s].generation /\ t.source = s /\ t.time = timings'[s].time
      /\ t.line = line'[m].index
  BY DEF Mapped
<1> HIDE DEF t, s, r, m
<1>10. TimingFits(t, m, generation', publisher', reported', lines')
  BY <1>6, <1>8, <1>9 DEF TimingFits
<1>11. Len(reported') \in Nat /\ Len(lines') \in Nat
  BY DEF ClockStep, Continues
<1>12. t.time \in Nat /\ t.line \in Nat /\ t.time <= Len(reported') /\ t.line <= Len(lines')
  BY <1>6, <1>8, <1>9, <1>11
<1>13. Behind(PairOf(t), m, line', timings', reported', lines')
  <2>1. PairOf(t)[1] = t.time /\ PairOf(t)[2] = t.line
    BY DEF PairOf
  <2> QED
    BY <1>9, <1>12, <2>1 DEF Behind, s
<1>14. NotBefore(t, r)
  <2>1. ASSUME NEW i \in 1..Len(r) PROVE r[i] = PairOf(t) \/ Before(r[i], PairOf(t))
    <3>1. Behind(r[i], m, line', timings', reported', lines')
      BY <1>3 DEF Past
    <3>2. r[i] \in Nat \X Nat
      BY <1>2, ElementOfSeq DEF Pairs
    <3>3. r[i][2] <= t.line /\ (r[i][2] = t.line => r[i][1] <= t.time)
      BY <1>4, <1>9, <3>1 DEF Behind, s
    <3> QED
      BY <1>12, <3>2, <3>3 DEF PairOf, Before
  <2> QED
    BY <2>1 DEF NotBefore
<1> QED
  BY <1>1, <1>3, <1>10, <1>13, <1>14 DEF SenderHolds, t, r, m

\* A report is sent: the pair is another one than the last, so it is a new one.
LEMMA ReportSent ==
  ASSUME ReportsInv, UNCHANGED <<closed, generation, publisher, timings, line, reported, lines>>,
         NEW x \in Senders, ~closed, Due(x),
         senders'[x] = [senders[x] EXCEPT !.last = Mapping(x), !.reports = Latest(Append(@, Mapping(x)))]
  PROVE  SenderHolds(x)'
<1> DEFINE r == senders[x].reports
           p == Mapping(x)
           a == Append(r, p)
           k == IF Len(a) > ReportLimit THEN Len(a) - ReportLimit + 1 ELSE 1
           new == SubSeq(a, k, Len(a))
           t == senders[x].timing
           m == x[1]
<1>1. SenderHolds(x) /\ ClockInv /\ senders[x] \in SenderType
  BY DEF ReportsInv, SenderHolds
<1>2. t # None /\ p = PairOf(t) /\ p # senders[x].last
  BY DEF Due, HasTiming, Mapping, PairOf
<1>3. r \in Seq(Pairs) /\ p \in Pairs /\ Len(r) \in Nat
  BY <1>1, <1>2 DEF SenderType, TimingType, PairOf, Pairs
<1>4. /\ senders'[x] \in [sent: BOOLEAN, timing: TimingType \cup {None}, last: Pairs \cup {None},
                          reports: {Latest(Append(r, p))}]
      /\ senders'[x].timing = t /\ senders'[x].last = p /\ senders'[x].reports = new
  BY <1>1, <1>3 DEF SenderType, Latest
<1>5. /\ Past(r, m, line, timings, reported, lines) /\ NotBefore(t, r)
      /\ TimingFits(t, m, generation, publisher, reported, lines)
      /\ Behind(p, m, line, timings, reported, lines)
      /\ r # <<>> => senders[x].last = r[Len(r)]
  BY <1>1, <1>2 DEF SenderHolds
<1> HIDE DEF r, p, t, m
<1>6. ASSUME NEW i \in 1..Len(r) PROVE Before(r[i], p)
  <2>1. r[i] = p \/ Before(r[i], p)
    BY <1>2, <1>5 DEF NotBefore
  <2>2. Len(r) \in 1..Len(r) /\ r # <<>>
    BY <1>3
  <2>3. Before(r[Len(r)], p)
    BY <1>2, <1>5, <2>2 DEF NotBefore
  <2>4. ASSUME r[i] = p PROVE FALSE
    <3>1. i # Len(r)
      BY <1>2, <1>5, <2>2, <2>4
    <3>2. i < Len(r)
      BY <1>3, <3>1
    <3>3. Before(p, r[Len(r)])
      BY <1>5, <2>2, <2>4, <3>2 DEF Past
    <3>4. r[Len(r)] \in Nat \X Nat /\ p \in Nat \X Nat
      BY <1>3, <2>2, ElementOfSeq DEF Pairs
    <3> QED
      BY <2>3, <3>3, <3>4 DEF Before
  <2> QED
    BY <2>1, <2>4
<1>7. /\ a \in Seq(Pairs) /\ Len(a) = Len(r) + 1 /\ a[Len(r) + 1] = p
      /\ \A i \in 1..Len(r) : a[i] = r[i]
  BY <1>3, AppendProperties
<1> HIDE DEF a
<1>8. ASSUME NEW i \in 1..Len(a)
      PROVE  /\ Behind(a[i], m, line, timings, reported, lines)
             /\ a[i] = p \/ Before(a[i], p)
             /\ \A j \in 1..Len(a) : i < j => Before(a[i], a[j])
  <2>1. CASE i \in 1..Len(r)
    <3>1. ASSUME NEW j \in 1..Len(a), i < j PROVE Before(a[i], a[j])
      <4>1. j \in 1..Len(r) \/ j = Len(r) + 1
        BY <1>3, <1>7
      <4> QED
        BY <1>5, <1>6, <1>7, <2>1, <3>1, <4>1 DEF Past
    <3> QED
      BY <1>5, <1>6, <1>7, <2>1, <3>1 DEF Past
  <2>2. CASE i = Len(r) + 1
    BY <1>3, <1>5, <1>7, <2>2
  <2> QED
    BY <1>3, <1>7, <2>1, <2>2
<1>9. /\ new \in Seq(Pairs) /\ Len(new) \in Nat
      /\ \A i \in 1..Len(new) : k + i - 1 \in 1..Len(a) /\ new[i] = a[k + i - 1]
      /\ Len(new) > 0 => new[Len(new)] = p
  <2>1. ReportLimit \in Nat /\ Len(a) \in Nat \ {0} /\ k \in 1..Len(a) + 1
    <3>1. ReportLimit \in Nat
      BY SendingAssumption
    <3> QED
      BY <1>3, <1>7, <3>1
  <2> HIDE DEF k
  <2>2. \A i \in k..Len(a) : a[i] \in Pairs
    BY <1>7, <2>1, ElementOfSeq
  <2>3. /\ new \in Seq(Pairs) /\ Len(new) = IF k <= Len(a) THEN Len(a) - k + 1 ELSE 0
        /\ \A i \in 1..Len(a) - k + 1 : new[i] = a[k + i - 1]
    BY <2>1, <2>2, SubSeqProperties
  <2> HIDE DEF new
  <2>4. ASSUME NEW i \in 1..Len(new)
        PROVE  /\ k <= Len(a) /\ i \in 1..Len(a) - k + 1 /\ k + i - 1 \in 1..Len(a)
               /\ new[i] = a[k + i - 1]
    BY <2>1, <2>3
  <2>5. ASSUME Len(new) > 0 PROVE new[Len(new)] = p
    <3>1. Len(new) \in 1..Len(new) /\ Len(new) = Len(a) - k + 1
      BY <2>1, <2>3, <2>5
    <3>2. k + Len(new) - 1 = Len(r) + 1
      BY <1>3, <1>7, <2>1, <3>1
    <3> QED
      BY <1>7, <2>4, <3>1, <3>2
  <2>6. Len(new) \in Nat
    BY <2>1, <2>3
  <2> QED
    BY <2>3, <2>4, <2>5, <2>6
<1> HIDE DEF new, k
<1>10. k \in Int
  BY <1>3, <1>7, SendingAssumption DEF k
<1>11. Past(new, m, line, timings, reported, lines)
  <2>1. ASSUME NEW i \in 1..Len(new), NEW j \in 1..Len(new), i < j PROVE Before(new[i], new[j])
    <3>1. k + i - 1 < k + j - 1
      BY <1>9, <1>10, <2>1
    <3> QED
      BY <1>8, <1>9, <3>1
  <2> QED
    BY <1>8, <1>9, <2>1 DEF Past
<1>12. NotBefore(t, new)
  BY <1>2, <1>8, <1>9 DEF NotBefore
<1>13. senders'[x] \in SenderType
  BY <1>4, <1>9 DEF SenderType
<1>14. new # <<>> => Len(new) > 0
  BY <1>9
<1> QED
  BY <1>2, <1>4, <1>5, <1>9, <1>11, <1>12, <1>13, <1>14 DEF SenderHolds, m

LEMMA ReportsNext ==
  ASSUME setting' = setting, ClockInv', senders' = [x \in Senders |-> senders'[x]],
         \A x \in Senders : SenderHolds(x)'
  PROVE  ReportsInv'
<1>1. Senders' = Senders
  BY DEF Senders
<1> QED
  BY <1>1 DEF ReportsInv

\* The senders after packets were counted, and perhaps refreshed.
LEMMA CountedSenders ==
  ASSUME ReportsInv, NEW X
  PROVE  /\ Counted(X) = [x \in Senders |-> Counted(X)[x]]
         /\ \A x \in Senders : /\ Counted(X)[x] \in SenderType
                               /\ Counted(X)[x].timing = senders[x].timing
                               /\ Counted(X)[x].last = senders[x].last
                               /\ Counted(X)[x].reports = senders[x].reports
<1>1. \A x \in Senders : senders[x] \in SenderType
  BY DEF ReportsInv, SenderHolds
<1>2. \A x \in Senders : Counted(X)[x] = [senders[x] EXCEPT !.sent = @ \/ x \in X]
  BY DEF Counted
<1>3. Counted(X) = [x \in Senders |-> Counted(X)[x]]
  BY DEF Counted
<1>4. ASSUME NEW x \in Senders
      PROVE  /\ Counted(X)[x] \in SenderType
             /\ Counted(X)[x].timing = senders[x].timing
             /\ Counted(X)[x].last = senders[x].last
             /\ Counted(X)[x].reports = senders[x].reports
  <2> DEFINE b == senders[x].sent \/ x \in X
  <2>1. b \in BOOLEAN
    BY Zenon
  <2>2. Counted(X)[x] = [senders[x] EXCEPT !.sent = b]
    BY <1>2, Zenon
  <2> HIDE DEF b
  <2> QED
    BY <1>1, <2>1, <2>2 DEF SenderType
<1> QED
  BY <1>3, <1>4

LEMMA CountedReports ==
  ASSUME ReportsInv, ClockInv', ClockStep, UNCHANGED <<setting, closed, generation, publisher>>,
         NEW X, senders' = Counted(X)
  PROVE  ReportsInv'
<1>1. \A x \in Senders : SenderHolds(x)'
  BY CountedSenders, SameReports
<1> QED
  BY <1>1, CountedSenders, ReportsNext

LEMMA SameSenders ==
  ASSUME ReportsInv, ClockInv', ClockStep, UNCHANGED <<setting, closed, generation, publisher>>,
         senders' = senders
  PROVE  ReportsInv'
<1>1. \A x \in Senders : senders'[x] \in SenderType
  BY DEF ReportsInv, SenderHolds
<1>2. \A x \in Senders : SenderHolds(x)'
  BY <1>1, SameReports
<1>3. senders' = [x \in Senders |-> senders'[x]]
  BY DEF ReportsInv
<1> QED
  BY <1>2, <1>3, ReportsNext

\* Refreshed from clocks that are those after the step.
LEMMA RefreshedNext ==
  ASSUME ReportsInv, ClockInv', ClockStep, UNCHANGED <<setting, closed, generation, publisher>>,
         NEW all, all = [x \in Senders |-> all[x]],
         \A x \in Senders : /\ all[x] \in SenderType /\ all[x].timing = senders[x].timing
                            /\ all[x].last = senders[x].last /\ all[x].reports = senders[x].reports,
         NEW s, senders' = Refreshed(all, s, timings', line')
  PROVE  ReportsInv'
<1>1. /\ senders' = [x \in Senders |-> senders'[x]]
      /\ \A x \in Senders :
           \/ senders'[x] = all[x]
           \/ /\ CanMap(x[1], timings', line')
              /\ senders'[x] = [all[x] EXCEPT !.timing = Mapped(x[1], timings', line')]
  BY RefreshedSenders
<1>2. ASSUME NEW x \in Senders PROVE SenderHolds(x)'
  <2>1. CASE senders'[x] = all[x]
    BY <2>1, SameReports
  <2>2. CASE /\ CanMap(x[1], timings', line')
             /\ senders'[x] = [all[x] EXCEPT !.timing = Mapped(x[1], timings', line')]
    <3> DEFINE m == x[1]
               z == line'[m].source
    <3>1. m \in Media /\ line'[m] # None /\ timings'[z] # None
      BY <2>2, SendersOfMedia DEF CanMap
    <3>2. z \in Sources /\ line'[m].index \in 1..Len(lines') /\ lines' \in Seq(BeginType)
      BY <3>1 DEF ClockInv, LineHolds
    <3>3. /\ timings'[z].generation = generation' /\ timings'[z].time \in 1..Len(reported')
          /\ generation' \in Nat /\ reported' \in Seq(ReportType)
      BY <3>1, <3>2 DEF ClockInv, KnownHolds
    <3>4. Mapped(m, timings', line') \in TimingType
      <4>1. line'[m].index \in Nat /\ timings'[z].time \in Nat
        BY <3>2, <3>3
      <4> QED
        BY <3>2, <3>3, <4>1 DEF Mapped, TimingType
    <3> HIDE DEF m, z
    <3>5. all[x] \in SenderType
      OBVIOUS
    <3>6. /\ senders'[x] \in SenderType /\ senders'[x].timing = Mapped(m, timings', line')
          /\ senders'[x].last = all[x].last /\ senders'[x].reports = all[x].reports
      BY <2>2, <3>4, <3>5 DEF SenderType, m
    <3> QED
      BY <2>2, <3>6, RefreshedReports DEF m
  <2> QED
    BY <1>1, <2>1, <2>2
<1> QED
  BY <1>1, <1>2, ReportsNext

\* Some senders lose their timing, all of them if the publication changes.
LEMMA UntimedNext ==
  ASSUME ReportsInv, ClockInv', ClockStep, UNCHANGED <<setting, closed>>,
         NEW X, senders' = Untimed(X), X = Senders \/ UNCHANGED <<generation, publisher>>
  PROVE  ReportsInv'
<1>1. \A x \in Senders : senders[x] \in SenderType
  BY DEF ReportsInv, SenderHolds
<1>2. \A x \in Senders : senders'[x] = IF x \in X THEN [senders[x] EXCEPT !.timing = None]
                                       ELSE senders[x]
  BY DEF Untimed
<1>3. ASSUME NEW x \in Senders
      PROVE  /\ senders'[x] \in SenderType
             /\ senders'[x].last = senders[x].last /\ senders'[x].reports = senders[x].reports
             /\ senders'[x].timing = IF x \in X THEN None ELSE senders[x].timing
  BY <1>1, <1>2 DEF SenderType
<1>4. \A x \in Senders : SenderHolds(x)'
  BY <1>3, SameReports
<1>5. senders' = [x \in Senders |-> senders'[x]]
  BY DEF Untimed
<1> QED
  BY <1>4, <1>5, ReportsNext

LEMMA PublisherReportReports ==
  ASSUME ReportsInv, NEW g \in 1..generation, NEW s \in Sources, PublisherReport(g, s)
  PROVE  ReportsInv'
<1>1. ClockInv' /\ ClockStep
  BY PublisherReportClocks DEF ReportsInv
<1>2. UNCHANGED <<setting, closed, generation, publisher, line>>
  BY DEF PublisherReport
<1>3. CASE senders' = senders
  BY <1>1, <1>2, <1>3, SameSenders
<1>4. CASE senders' = Refreshed(senders, s, timings', line)
  <2>1. \A x \in Senders : senders[x] \in SenderType
    BY DEF ReportsInv, SenderHolds
  <2>2. senders = [x \in Senders |-> senders[x]]
    BY DEF ReportsInv
  <2> QED
    BY <1>1, <1>2, <1>4, <2>1, <2>2, RefreshedNext
<1> QED
  BY <1>3, <1>4 DEF PublisherReport

LEMMA ForwardReports ==
  ASSUME ReportsInv, NEW m \in Media, NEW s \in Sources, NEW restarts, Forward(m, s, restarts)
  PROVE  ReportsInv'
<1>1. /\ publisher # None /\ LineFor(m, s, restarts)
      /\ UNCHANGED <<setting, closed, generation, publisher, timings, reported>>
  BY DEF Forward
<1>2. ClockInv' /\ ClockStep
  BY <1>1, ForwardClocks DEF ReportsInv
<1>3. CASE senders' = senders
  BY <1>1, <1>2, <1>3, SameSenders
<1>4. CASE senders' = Counted({<<m, FALSE>>})
  BY <1>1, <1>2, <1>4, CountedReports
<1>5. CASE senders' = Refreshed(Counted({<<m, FALSE>>}), s, timings, line')
  <2> DEFINE all == Counted({<<m, FALSE>>})
  <2>1. /\ all = [x \in Senders |-> all[x]]
        /\ \A x \in Senders : /\ all[x] \in SenderType /\ all[x].timing = senders[x].timing
                              /\ all[x].last = senders[x].last /\ all[x].reports = senders[x].reports
    BY CountedSenders
  <2>2. senders' = Refreshed(all, s, timings', line')
    BY <1>1, <1>5
  <2> HIDE DEF all
  <2> QED
    BY <1>1, <1>2, <2>1, <2>2, RefreshedNext
<1> QED
  BY <1>3, <1>4, <1>5 DEF Forward

LEMMA SourceByeReports ==
  ASSUME ReportsInv, NEW s \in Sources, SourceBye(s)
  PROVE  ReportsInv'
<1>1. ClockInv /\ UNCHANGED <<setting, closed, generation, publisher, line, reported, lines>>
  BY DEF SourceBye, ReportsInv
<1>2. /\ timings' = [z \in Sources |-> timings'[z]]
      /\ \A z \in Sources : timings'[z] = None \/ timings'[z] = timings[z]
  BY <1>1 DEF SourceBye, ClockInv
<1>3. ClockInv' /\ ClockStep
  <2>1. /\ generation' \in Nat /\ publisher' \in Sessions \cup {None}
        /\ line' = [m \in Media |-> line'[m]]
    BY <1>1 DEF ClockInv
  <2> QED
    BY <1>1, <1>2, <2>1, ForgottenClocks
<1> QED
  BY <1>1, <1>3, UntimedNext DEF SourceBye

LEMMA AdoptSourceReports ==
  ASSUME ReportsInv, NEW p \in Sessions \cup {None}, AdoptSource(p)
  PROVE  ReportsInv'
<1>1. ClockInv /\ UNCHANGED <<setting, closed, reported, lines>>
  BY DEF AdoptSource, ReportsInv
<1>2. /\ timings' = [z \in Sources |-> timings'[z]]
      /\ \A z \in Sources : timings'[z] = None
  BY DEF AdoptSource, NoTimings
<1>3. /\ generation' \in Nat /\ publisher' \in Sessions \cup {None}
      /\ line' = [m \in Media |-> line'[m]]
  BY <1>1 DEF AdoptSource, ClockInv
<1>4. \A m \in Media : line'[m] = None \/ (line'[m] = line[m] /\ publisher' = publisher)
  BY DEF AdoptSource
<1>5. ClockInv' /\ ClockStep
  BY <1>1, <1>2, <1>3, <1>4, ForgottenClocks
<1> QED
  BY <1>1, <1>5, UntimedNext DEF AdoptSource

LEMMA SendReportsReports ==
  ASSUME ReportsInv, NEW X \in SUBSET Senders, SendReports(X)
  PROVE  ReportsInv'
<1>1. UNCHANGED <<setting, closed, generation, publisher, timings, line, reported, lines>>
  BY DEF SendReports
<1>2. ClockInv' /\ ClockStep
  BY <1>1, SameClocks DEF ReportsInv
<1>3. ASSUME NEW x \in Senders PROVE SenderHolds(x)'
  <2>1. CASE x \in X
    <3>1. /\ ~closed /\ Due(x)
          /\ senders'[x] = [senders[x] EXCEPT !.last = Mapping(x),
                                              !.reports = Latest(Append(@, Mapping(x)))]
      BY <2>1 DEF SendReports
    <3> QED
      BY <1>1, <3>1, ReportSent
  <2>2. CASE x \notin X
    <3>1. senders'[x] = senders[x] /\ senders[x] \in SenderType
      BY <2>2 DEF SendReports, ReportsInv, SenderHolds
    <3> QED
      BY <1>1, <1>2, <3>1, SameReports
  <2> QED
    BY <2>1, <2>2
<1>4. senders' = [x \in Senders |-> senders'[x]]
  BY DEF SendReports
<1> QED
  BY <1>1, <1>2, <1>3, <1>4, ReportsNext

LEMMA CloseReports ==
  ASSUME ReportsInv, NEW X \in SUBSET Senders, Close(X)
  PROVE  ReportsInv'
<1>1. closed' /\ UNCHANGED <<setting, generation, publisher, timings, line, reported, lines>>
  BY DEF Close
<1>2. ClockInv' /\ ClockStep
  BY <1>1, SameClocks DEF ReportsInv
<1>3. ASSUME NEW x \in Senders PROVE SenderHolds(x)'
  <2>1. senders[x] \in SenderType
    BY DEF ReportsInv, SenderHolds
  <2>2. senders'[x] = IF x \in X THEN [senders[x] EXCEPT !.last = Mapping(x)] ELSE senders[x]
    BY DEF Close
  <2>3. x \in X => Mapping(x) \in Pairs
    <3>1. x \in X => senders[x].timing # None
      BY DEF Close, HasTiming
    <3> QED
      BY <2>1, <3>1 DEF SenderType, TimingType, Mapping, Pairs
  <2>4. /\ senders'[x] \in SenderType /\ senders'[x].timing = senders[x].timing
        /\ senders'[x].reports = senders[x].reports
    BY <2>1, <2>2, <2>3 DEF SenderType
  <2> QED
    BY <1>1, <1>2, <2>4, SameReports
<1>4. senders' = [x \in Senders |-> senders'[x]]
  BY DEF Close
<1> QED
  BY <1>1, <1>2, <1>3, <1>4, ReportsNext

LEMMA NewSendersHold ==
  ASSUME NEW x \in Senders, senders = NewSenders
  PROVE  SenderHolds(x)
<1>1. senders[x] = [sent |-> FALSE, timing |-> None, last |-> None, reports |-> <<>>]
  BY DEF NewSenders
<1>2. senders[x] \in SenderType /\ senders[x].timing = None /\ senders[x].reports = <<>>
  BY <1>1 DEF SenderType
<1>3. 1..Len(senders[x].reports) = {}
  BY <1>2
<1> QED
  BY <1>2, <1>3 DEF SenderHolds, Past

LEMMA SetPeerContextReports ==
  ASSUME ReportsInv, SetPeerContext
  PROVE  ReportsInv'
<1>1. /\ ClockInv /\ UNCHANGED <<setting, closed, generation, publisher, timings, reported, lines>>
      /\ line' = [m \in Media |-> None] /\ senders' = NewSenders
  BY DEF SetPeerContext, ReportsInv
<1>2. ClockInv'
  <2>1. /\ generation' \in Nat /\ publisher' \in Sessions \cup {None}
        /\ timings' = [z \in Sources |-> timings'[z]] /\ line' = [m \in Media |-> line'[m]]
        /\ \A m \in Media : line'[m] = None
    BY <1>1 DEF ClockInv
  <2> QED
    BY <1>1, <2>1, ForgottenClocks
<1>3. Senders' = Senders /\ (NewSenders)' = NewSenders
  BY <1>1 DEF Senders, NewSenders
<1>4. \A x \in Senders : SenderHolds(x)'
  <2>1. ASSUME NEW x \in Senders PROVE SenderHolds(x)'
    <3>1. senders'[x] = [sent |-> FALSE, timing |-> None, last |-> None, reports |-> <<>>]
      BY <1>1 DEF NewSenders
    <3>2. senders'[x] \in SenderType /\ senders'[x].timing = None /\ senders'[x].reports = <<>>
      BY <3>1 DEF SenderType
    <3>3. 1..Len(senders'[x].reports) = {}
      BY <3>2
    <3> QED
      BY <3>2, <3>3 DEF SenderHolds, Past
  <2> QED
    BY <2>1
<1>5. senders' = [x \in Senders |-> senders'[x]]
  BY <1>1 DEF NewSenders
<1> QED
  BY <1>1, <1>2, <1>4, <1>5, ReportsNext

LEMMA NextReports == ReportsInv /\ [Next]_vars => ReportsInv'
<1> SUFFICES ASSUME ReportsInv, [Next]_vars
             PROVE  ReportsInv'
  OBVIOUS
<1>1. ASSUME UNCHANGED <<setting, closed, generation, publisher, timings, line, reported, lines>>
      PROVE  ClockInv' /\ ClockStep
  BY <1>1, SameClocks DEF ReportsInv
<1>2. CASE \/ \E g \in 1..generation, s \in Sources : PublisherReport(g, s)
           \/ \E s \in Sources : SourceBye(s)
           \/ \E p \in Sessions \cup {None} : AdoptSource(p)
           \/ \E m \in Media, s \in Sources, restarts \in BOOLEAN : Forward(m, s, restarts)
           \/ \E X \in SUBSET Senders : Close(X) \/ SendReports(X)
           \/ SetPeerContext
  BY <1>2, PublisherReportReports, SourceByeReports, AdoptSourceReports, ForwardReports,
     CloseReports, SendReportsReports, SetPeerContextReports
<1>3. CASE \E m \in Media : ForwardRtx(m)
  BY <1>1, <1>3, CountedReports DEF ForwardRtx
<1>4. CASE \E K \in SUBSET Keys, m \in Media : NackArrives(K, m)
  <2>1. UNCHANGED <<setting, closed, generation, publisher, timings, line, reported, lines>>
    BY <1>4 DEF NackArrives
  <2>2. \E X : senders' = Counted(X)
    BY <1>4 DEF NackArrives
  <2> QED
    BY <1>1, <2>1, <2>2, CountedReports
<1>5. CASE Feedback \/ LogSummary \/ TimePasses \/ UNCHANGED vars
  <2>1. UNCHANGED <<setting, closed, generation, publisher, timings, line, reported, lines, senders>>
    BY <1>5 DEF Feedback, LogSummary, TimePasses, vars, sendingVars
  <2> QED
    BY <1>1, <2>1, SameSenders
<1> QED
  BY <1>2, <1>3, <1>4, <1>5 DEF Next, Open

\* No sender report combines the clocks of two publishers or of two sources, and
\* none is sent twice: comparing with the last pair is enough, because a pair
\* that was replaced is never mapped again.
THEOREM SenderReportsAreTrue == Spec => []ReportsAreTrue
<1>1. Init => ReportsInv
  <2> SUFFICES ASSUME Init PROVE ReportsInv
    OBVIOUS
  <2>1. ClockInv
    BY DEF Init, ClockInv, NoTimings, KnownHolds, LineHolds
  <2>2. senders = [x \in Senders |-> senders[x]] /\ senders = NewSenders
    BY DEF Init, NewSenders
  <2> QED
    BY <2>1, <2>2, NewSendersHold DEF ReportsInv
<1>2. ReportsInv /\ [Next]_vars => ReportsInv'
  BY NextReports
<1>3. ReportsInv => ReportsAreTrue
  <2> SUFFICES ASSUME ReportsInv PROVE ReportsAreTrue
    OBVIOUS
  <2>1. TimingsAreWhole
    BY DEF ReportsInv, SenderHolds, TimingFits, TimingsAreWhole
  <2>2. MappingsSentOnce
    <3> SUFFICES ASSUME NEW x \in Senders, NEW i \in 1..Len(senders[x].reports),
                        NEW j \in 1..Len(senders[x].reports), i # j
                 PROVE  senders[x].reports[i] # senders[x].reports[j]
      BY DEF MappingsSentOnce
    <3> DEFINE r == senders[x].reports
    <3>1. r \in Seq(Pairs) /\ Past(r, x[1], line, timings, reported, lines)
      BY DEF ReportsInv, SenderHolds, SenderType
    <3> HIDE DEF r
    <3>2. Before(r[i], r[j]) \/ Before(r[j], r[i])
      BY <3>1 DEF Past, r
    <3>3. r[i] \in Nat \X Nat
      BY <3>1, ElementOfSeq DEF Pairs, r
    <3> QED
      BY <3>2, <3>3 DEF Before, r
  <2> QED
    BY <2>1, <2>2 DEF ReportsAreTrue
<1> QED
  BY <1>1, <1>2, <1>3, PTL DEF Spec

-----------------------------------------------------------------------------
(* Sums over finite sets, for the bytes of the cache.                      *)

\* Of any sets of members of K one has no other of them as a part: what takes
\* the place of induction over finite sets.
LEMMA SmallestSubset ==
  ASSUME NEW K, IsFiniteSet(K), NEW bad \in SUBSET (SUBSET K), bad # {}
  PROVE  \E T \in bad : \A U \in bad : U \subseteq T => U = T
<1>1. bad \subseteq FiniteSubsetsOf(K)
  BY FS_Subset DEF FiniteSubsetsOf
<1>2. PICK T \in bad : \A U \in bad : ~(<<U, T>> \in StrictSubsetOrdering(K))
  <2>1. IsWellFoundedOn(StrictSubsetOrdering(K), FiniteSubsetsOf(K))
    BY FS_StrictSubsetOrderingWellFounded
  <2> QED
    BY <1>1, <2>1, WFMin
<1>3. ASSUME NEW U \in bad, U \subseteq T, U # T
      PROVE  FALSE
  <2>1. <<U, T>> \in StrictSubsetOrdering(K)
    BY <1>3 DEF StrictSubsetOrdering
  <2> QED
    BY <1>2, <2>1
<1> QED
  BY <1>3

Pick(s) == CHOOSE x \in s : TRUE

LEMMA PickOf ==
  ASSUME NEW s, s # {}
  PROVE  Pick(s) \in s /\ s \ {Pick(s)} \subseteq s /\ s \ {Pick(s)} # s
<1>1. Pick(s) \in s
  BY DEF Pick
<1> HIDE DEF Pick
<1> QED
  BY <1>1

\* How MapThenSumSet sums the weights w.
SumStep(f, w, s) == IF s = {} THEN 0 ELSE w[Pick(s)] + f[s \ {Pick(s)}]

IsSum(f, w, K) == f = [s \in SUBSET K |-> SumStep(f, w, s)]

LEMMA SumsAgree ==
  ASSUME NEW s, IsFiniteSet(s), NEW A, NEW f, NEW w, IsSum(f, w, A), s \subseteq A,
         NEW C, NEW g, NEW v, IsSum(g, v, C), s \subseteq C, \A x \in s : w[x] = v[x]
  PROVE  f[s] = g[s]
<1> DEFINE bad == {u \in SUBSET s : f[u] # g[u]}
<1>1. ASSUME bad # {} PROVE FALSE
  <2>1. PICK u \in bad : \A t \in bad : t \subseteq u => t = u
    <3>1. bad \in SUBSET (SUBSET s)
      OBVIOUS
    <3> HIDE DEF bad
    <3> QED
      BY <1>1, <3>1, SmallestSubset
  <2>2. u \in SUBSET A /\ u \in SUBSET C /\ u \in SUBSET s
    OBVIOUS
  <2>3. f[u] = SumStep(f, w, u) /\ g[u] = SumStep(g, v, u)
    BY <2>2 DEF IsSum
  <2>4. CASE u = {}
    BY <2>3, <2>4 DEF SumStep
  <2>5. CASE u # {}
    <3> DEFINE r == u \ {Pick(u)}
    <3>1. Pick(u) \in u /\ r \subseteq u /\ r # u
      BY <2>5, PickOf
    <3>2. r \notin bad
      BY <2>1, <3>1
    <3>3. f[r] = g[r]
      BY <2>2, <3>1, <3>2
    <3>4. w[Pick(u)] = v[Pick(u)]
      BY <2>2, <3>1
    <3> QED
      BY <2>3, <2>5, <3>3, <3>4 DEF SumStep
  <2> QED
    BY <2>4, <2>5
<1> QED
  BY <1>1

LEMMA SumExists ==
  ASSUME NEW K, IsFiniteSet(K), NEW w
  PROVE  \E f : IsSum(f, w, K)
<1> DEFINE bad == {T \in SUBSET K : ~\E f : IsSum(f, w, T)}
<1>1. ASSUME bad # {} PROVE FALSE
  <2>1. PICK T \in bad : \A U \in bad : U \subseteq T => U = T
    <3>1. bad \in SUBSET (SUBSET K)
      OBVIOUS
    <3> HIDE DEF bad
    <3> QED
      BY <1>1, <3>1, SmallestSubset
  <2> DEFINE F(U) == CHOOSE f : IsSum(f, w, U)
             g == [s \in SUBSET T |->
                     IF s = {} THEN 0 ELSE w[Pick(s)] + F(s \ {Pick(s)})[s \ {Pick(s)}]]
  <2>2. ASSUME NEW U \in SUBSET T, U # T PROVE IsSum(F(U), w, U)
    <3>1. U \notin bad /\ U \in SUBSET K
      BY <2>1, <2>2
    <3>2. PICK f : IsSum(f, w, U)
      BY <3>1
    <3> QED
      BY <3>2
  <2> HIDE DEF F
  <2>3. ASSUME NEW U \in SUBSET T, U # T PROVE g[U] = F(U)[U]
    <3>1. F(U)[U] = SumStep(F(U), w, U)
      BY <2>2, <2>3 DEF IsSum
    <3>2. CASE U = {}
      BY <3>1, <3>2 DEF SumStep
    <3>3. CASE U # {}
      <4> DEFINE r == U \ {Pick(U)}
      <4>1. r \subseteq U /\ r # U /\ r \in SUBSET T
        BY <2>3, <3>3, PickOf
      <4>2. r # T
        BY <2>3, <4>1
      <4>3. IsSum(F(r), w, r) /\ IsSum(F(U), w, U)
        BY <2>2, <2>3, <4>1, <4>2
      <4>4. IsFiniteSet(r)
        BY <2>1, <4>1, FS_Subset
      <4>5. F(r)[r] = F(U)[r]
        BY <4>1, <4>3, <4>4, SumsAgree
      <4>6. g[U] = w[Pick(U)] + F(r)[r]
        BY <2>3, <3>3
      <4> QED
        BY <3>1, <3>3, <4>5, <4>6 DEF SumStep
    <3> QED
      BY <3>2, <3>3
  <2>4. ASSUME NEW s \in SUBSET T PROVE g[s] = SumStep(g, w, s)
    <3>1. CASE s = {}
      BY <3>1 DEF SumStep
    <3>2. CASE s # {}
      <4> DEFINE r == s \ {Pick(s)}
      <4>1. r \subseteq s /\ r # s /\ r \in SUBSET T
        BY <3>2, PickOf
      <4>2. r # T
        BY <2>4, <4>1
      <4>3. g[r] = F(r)[r]
        BY <2>3, <4>1, <4>2
      <4>4. g[s] = w[Pick(s)] + F(r)[r]
        BY <3>2
      <4> QED
        BY <3>2, <4>3, <4>4 DEF SumStep
    <3> QED
      BY <3>1, <3>2
  <2>5. IsSum(g, w, T)
    <3>1. g = [s \in SUBSET T |-> g[s]]
      OBVIOUS
    <3> HIDE DEF g
    <3> QED
      BY <2>4, <3>1 DEF IsSum
  <2> QED
    BY <2>1, <2>5
<1> QED
  BY <1>1

\* A sum is the same in whatever order its terms are taken.
SumFacts(f, w, K) ==
  /\ f[{}] = 0
  /\ \A s \in SUBSET K : f[s] \in Nat
  /\ \A s \in SUBSET K : \A x \in s : f[s] = w[x] + f[s \ {x}]

LEMMA SumRemove ==
  ASSUME NEW K, IsFiniteSet(K), NEW w \in [K -> Nat], NEW f, IsSum(f, w, K)
  PROVE  SumFacts(f, w, K)
<1>1. \A s \in SUBSET K : f[s] = SumStep(f, w, s)
  BY DEF IsSum
<1>2. f[{}] = 0
  BY <1>1 DEF SumStep
<1> DEFINE Good(s) == f[s] \in Nat /\ \A x \in s : f[s] = w[x] + f[s \ {x}]
           bad == {s \in SUBSET K : ~Good(s)}
<1>3. ASSUME bad # {} PROVE FALSE
  <2>1. PICK s \in bad : \A u \in bad : u \subseteq s => u = s
    <3>1. bad \in SUBSET (SUBSET K)
      OBVIOUS
    <3> HIDE DEF bad
    <3> QED
      BY <1>3, <3>1, SmallestSubset
  <2>2. \A u \in SUBSET s : u # s => Good(u)
    BY <2>1
  <2>3. s # {}
    <3>1. ASSUME s = {} PROVE FALSE
      <4>1. f[s] \in Nat
        BY <1>2, <3>1
      <4>2. Good(s)
        BY <3>1, <4>1
      <4> HIDE DEF Good
      <4> QED
        BY <2>1, <4>2
    <3> QED
      BY <3>1
  <2> DEFINE p == Pick(s)
  <2>4. p \in s /\ s \ {p} \in SUBSET s /\ s \ {p} # s /\ s \in SUBSET K
    BY <2>1, <2>3, PickOf
  <2>5. f[s] = w[p] + f[s \ {p}]
    BY <1>1, <2>3, <2>4 DEF SumStep
  <2> HIDE DEF p
  <2>6. w[p] \in Nat /\ f[s \ {p}] \in Nat
    BY <2>2, <2>4
  <2>7. ASSUME NEW x \in s PROVE f[s] = w[x] + f[s \ {x}]
    <3>1. CASE x = p
      BY <2>5, <3>1
    <3>2. CASE x # p
      <4>1. x \in s \ {p} /\ p \in s \ {x} /\ s \ {x} \in SUBSET s /\ s \ {x} # s
        BY <2>4, <2>7, <3>2
      <4>2. f[s \ {p}] = w[x] + f[(s \ {p}) \ {x}]
        BY <2>2, <2>4, <4>1
      <4>3. f[s \ {x}] = w[p] + f[(s \ {x}) \ {p}]
        BY <2>2, <4>1
      <4>4. (s \ {p}) \ {x} = (s \ {x}) \ {p}
        OBVIOUS
      <4>5. (s \ {p}) \ {x} \in SUBSET s /\ (s \ {p}) \ {x} # s
        BY <2>4
      <4>6. f[(s \ {p}) \ {x}] \in Nat /\ w[x] \in Nat
        BY <2>2, <2>4, <2>7, <4>5
      <4> QED
        BY <2>5, <2>6, <4>2, <4>3, <4>4, <4>6
    <3> QED
      BY <3>1, <3>2
  <2>8. Good(s)
    <3>1. f[s] \in Nat
      BY <2>5, <2>6
    <3> QED
      BY <2>7, <3>1
  <2> QED
    BY <2>1, <2>8
<1> QED
  BY <1>2, <1>3 DEF SumFacts

LEMMA SumMinus ==
  ASSUME NEW K, IsFiniteSet(K), NEW w \in [K -> Nat], NEW f, IsSum(f, w, K),
         NEW S \in SUBSET K, NEW T \in SUBSET S
  PROVE  f[S] = f[T] + f[S \ T]
<1>1. /\ f[{}] = 0
      /\ \A s \in SUBSET K : f[s] \in Nat
      /\ \A s \in SUBSET K : \A x \in s : f[s] = w[x] + f[s \ {x}]
  <2>1. SumFacts(f, w, K)
    BY SumRemove
  <2> QED
    BY <2>1 DEF SumFacts
<1> DEFINE bad == {U \in SUBSET S : f[S] # f[U] + f[S \ U]}
<1>2. ASSUME bad # {} PROVE FALSE
  <2>1. PICK U \in bad : \A V \in bad : V \subseteq U => V = U
    <3>1. bad \in SUBSET (SUBSET S) /\ IsFiniteSet(S)
      BY FS_Subset
    <3> HIDE DEF bad
    <3> QED
      BY <1>2, <3>1, SmallestSubset
  <2>2. U \in SUBSET S /\ f[S] # f[U] + f[S \ U]
    OBVIOUS
  <2>3. CASE U = {}
    <3>1. f[U] = 0 /\ f[S \ U] = f[S] /\ f[S] \in Nat
      BY <1>1, <2>3
    <3> QED
      BY <2>2, <3>1
  <2>4. CASE U # {}
    <3>1. PICK x \in U : TRUE
      BY <2>4
    <3> DEFINE V == U \ {x}
    <3>2. V \in SUBSET S /\ V \subseteq U /\ V # U
      BY <2>2, <3>1
    <3>3. f[S] = f[V] + f[S \ V]
      <4>1. V \notin bad
        BY <2>1, <3>2
      <4> HIDE DEF V
      <4> QED
        BY <3>2, <4>1
    <3>4. f[U] = w[x] + f[V]
      BY <1>1, <2>2, <3>1
    <3>5. f[S \ V] = w[x] + f[S \ U]
      <4>1. S \ V \in SUBSET K /\ x \in S \ V /\ (S \ V) \ {x} = S \ U
        BY <2>2, <3>1
      <4> HIDE DEF V
      <4> QED
        BY <1>1, <4>1
    <3>6. f[V] \in Nat /\ f[S \ U] \in Nat /\ w[x] \in Nat
      BY <1>1, <2>2, <3>1, <3>2
    <3> HIDE DEF V
    <3> QED
      BY <2>2, <3>3, <3>4, <3>5, <3>6
  <2> QED
    BY <2>3, <2>4
<1> QED
  BY <1>2

\* MapThenSumSet is such a sum.
LEMMA BytesSum ==
  ASSUME NEW E, NEW K, NEW w, \E f : IsSum(f, w, K), \A x \in K : w[x] = E[x].size
  PROVE  \E f : IsSum(f, w, K) /\ Bytes(E, K) = f[K]
<1> DEFINE Q(f) == f = [s \in SUBSET K |-> IF s = {} THEN 0
                                           ELSE E[Pick(s)].size + f[s \ {Pick(s)}]]
           c == CHOOSE f : Q(f)
<1>1. Bytes(E, K) = c[K]
  BY DEF Bytes, MapThenSumSet, MapThenFoldSet, Pick
<1>2. ASSUME NEW f PROVE Q(f) <=> IsSum(f, w, K)
  <2>1. ASSUME NEW s \in SUBSET K
        PROVE  SumStep(f, w, s) = IF s = {} THEN 0 ELSE E[Pick(s)].size + f[s \ {Pick(s)}]
    BY DEF SumStep, Pick
  <2> QED
    BY <2>1 DEF IsSum
<1>3. Q(c)
  <2>1. PICK g : Q(g)
    BY <1>2
  <2> HIDE DEF Q
  <2> QED
    BY <2>1
<1> HIDE DEF c
<1> QED
  BY <1>1, <1>2, <1>3

\* f sums the bytes of the parts of the keys S of E.
SumsBytes(E, S, w, f) ==
  /\ IsSum(f, w, S) /\ \A x \in S : w[x] = E[x].size
  /\ \A T \in SUBSET S : Bytes(E, T) = f[T]

LEMMA BytesOf ==
  ASSUME NEW E, NEW S, IsFiniteSet(S), \A x \in S : E[x].size \in Nat
  PROVE  \E w \in [S -> Nat] : \E f : SumsBytes(E, S, w, f)
<1> DEFINE w == [x \in S |-> E[x].size]
<1>1. w \in [S -> Nat] /\ \A x \in S : w[x] = E[x].size
  OBVIOUS
<1> HIDE DEF w
<1>2. PICK f : IsSum(f, w, S)
  BY SumExists
<1>3. ASSUME NEW T \in SUBSET S PROVE Bytes(E, T) = f[T]
  <2>1. IsFiniteSet(T) /\ \A x \in T : w[x] = E[x].size
    BY <1>1, FS_Subset
  <2>2. PICK g : IsSum(g, w, T) /\ Bytes(E, T) = g[T]
    BY <2>1, SumExists, BytesSum
  <2>3. g[T] = f[T]
    BY <1>2, <2>1, <2>2, SumsAgree
  <2> QED
    BY <2>2, <2>3
<1> QED
  BY <1>1, <1>2, <1>3 DEF SumsBytes

Sized(E, S) == \A x \in S : E[x].size \in Nat

Adds(E, S, T) ==
  /\ Bytes(E, T) \in Nat /\ Bytes(E, S \ T) \in Nat
  /\ Bytes(E, S) = Bytes(E, T) + Bytes(E, S \ T)

LEMMA BytesFacts ==
  ASSUME NEW E, NEW S, IsFiniteSet(S), Sized(E, S)
  PROVE  /\ Bytes(E, {}) = 0 /\ Bytes(E, S) \in Nat
         /\ \A T \in SUBSET S : Adds(E, S, T)
         /\ \A x \in S : Bytes(E, S) = E[x].size + Bytes(E, S \ {x})
<1> USE DEF Sized
<1>1. PICK w \in [S -> Nat] : \E f : SumsBytes(E, S, w, f)
  BY BytesOf
<1>2. PICK f : SumsBytes(E, S, w, f)
  BY <1>1
<1> USE DEF SumsBytes
<1>3. /\ f[{}] = 0
      /\ \A s \in SUBSET S : f[s] \in Nat
      /\ \A s \in SUBSET S : \A x \in s : f[s] = w[x] + f[s \ {x}]
  <2>1. SumFacts(f, w, S)
    BY <1>2, SumRemove
  <2> QED
    BY <2>1 DEF SumFacts
<1>4. ASSUME NEW T \in SUBSET S
      PROVE  Adds(E, S, T)
  <2>1. f[S] = f[T] + f[S \ T]
    BY <1>2, SumMinus
  <2>2. S \in SUBSET S /\ S \ T \in SUBSET S
    OBVIOUS
  <2> QED
    BY <1>2, <1>3, <2>1, <2>2 DEF Adds
<1>5. ASSUME NEW x \in S PROVE Bytes(E, S) = E[x].size + Bytes(E, S \ {x})
  <2>1. S \in SUBSET S /\ S \ {x} \in SUBSET S
    OBVIOUS
  <2> QED
    BY <1>2, <1>3, <2>1
<1>6. Bytes(E, {}) = 0 /\ Bytes(E, S) \in Nat
  <2>1. {} \in SUBSET S /\ S \in SUBSET S
    OBVIOUS
  <2> QED
    BY <1>2, <1>3, <2>1
<1> QED
  BY <1>4, <1>5, <1>6

LEMMA BytesLess ==
  ASSUME NEW E, NEW S, IsFiniteSet(S), Sized(E, S), NEW x, x \in S
  PROVE  Bytes(E, S) = E[x].size + Bytes(E, S \ {x})
  BY BytesFacts

\* Only the sizes matter.
LEMMA BytesSame ==
  ASSUME NEW E, NEW D, NEW S, IsFiniteSet(S), Sized(E, S), \A x \in S : D[x].size = E[x].size
  PROVE  Bytes(D, S) = Bytes(E, S)
<1> USE DEF Sized
<1>1. PICK w \in [S -> Nat] : \E f : SumsBytes(E, S, w, f)
  BY BytesOf
<1>2. PICK f : SumsBytes(E, S, w, f)
  BY <1>1
<1> USE DEF SumsBytes
<1>3. PICK g : IsSum(g, w, S) /\ Bytes(D, S) = g[S]
  BY <1>2, BytesSum
<1>4. g[S] = f[S]
  BY <1>2, <1>3, SumsAgree
<1> QED
  BY <1>2, <1>3, <1>4

-----------------------------------------------------------------------------
(* The cache of packets.                                                   *)

Entries == [Keys -> Entry \cup {None}]

\* i is the place of the entry k in the queue of the cache c.
Place(c, k, i) ==
  i \in 1..Len(c.order) /\ c.order[i] = [key |-> k, serial |-> c.entries[k].serial]

CacheTyped(c, next) ==
  /\ c.entries \in Entries
  /\ c.order \in Seq(Element)
  /\ \A k \in Present(c.entries) : c.entries[k].serial \in 1..next - 1
  /\ \A i \in 1..Len(c.order) : c.order[i].serial \in 1..next - 1

Queued(c) ==
  /\ \A k \in Present(c.entries) : \E i \in 1..Len(c.order) : Place(c, k, i)
  /\ \A i, j \in 1..Len(c.order) : i < j => c.order[i].serial < c.order[j].serial

\* The inductive invariant, of the cache c with the next serial number.
CacheOK(c, next) ==
  /\ CacheTyped(c, next)
  /\ Queued(c)
  /\ c.bytes = Bytes(c.entries, Present(c.entries))

\* The entries E, some of them removed.
Shrinks(E, D) == \A k \in Keys : D[k] = None \/ D[k] = E[k]

Exceeds(E, S) == Cardinality(S) > MaxPackets \/ Bytes(E, S) > MaxBytes

LEMMA EntryFacts ==
  ASSUME NEW E \in Entries
  PROVE  /\ IsFiniteSet(Present(E)) /\ Present(E) \subseteq Keys /\ Sized(E, Present(E))
         /\ \A k \in Present(E) : /\ E[k] \in Entry /\ E[k].size \in Nat /\ E[k].storedAt \in Nat
                                  /\ E[k].serial \in Nat
<1>1. Present(E) \subseteq Keys
  BY DEF Present
<1>2. IsFiniteSet(Present(E))
  BY <1>1, FS_Subset, CacheAssumption
<1>3. ASSUME NEW k \in Present(E) PROVE E[k] \in Entry
  BY DEF Present, Entries
<1>4. ASSUME NEW e \in Entry PROVE e.size \in Nat /\ e.storedAt \in Nat /\ e.serial \in Nat
  <2>1. Sizes \subseteq Nat
    BY CacheAssumption
  <2>2. e.size \in Sizes /\ e.storedAt \in Nat /\ e.serial \in Nat
    BY DEF Entry
  <2> QED
    BY <2>1, <2>2
<1> QED
  BY <1>1, <1>2, <1>3, <1>4 DEF Sized

\* A larger set of entries exceeds the limits as well.
LEMMA ExceedsMore ==
  ASSUME NEW E, NEW T, IsFiniteSet(T), Sized(E, T), NEW S \in SUBSET T, Exceeds(E, S)
  PROVE  Exceeds(E, T)
<1>1. /\ IsFiniteSet(S) /\ Cardinality(S) <= Cardinality(T)
      /\ Cardinality(S) \in Nat /\ Cardinality(T) \in Nat
  BY FS_Subset, FS_CardinalityType
<1>2. Adds(E, T, S)
  BY BytesFacts
<1>3. MaxPackets \in Nat /\ MaxBytes \in Nat
  BY CacheAssumption
<1> QED
  BY <1>1, <1>2, <1>3 DEF Exceeds, Adds

\* The entries of a cache without those of G.
LEMMA Removing ==
  ASSUME NEW E \in Entries, NEW G \in SUBSET Present(E), NEW D,
         D = [k \in Keys |-> IF k \in G THEN None ELSE E[k]]
  PROVE  /\ D \in Entries /\ Shrinks(E, D) /\ Present(D) = Present(E) \ G
         /\ Bytes(D, Present(D)) = Bytes(E, Present(E)) - Bytes(E, G)
<1>1. D \in Entries /\ Shrinks(E, D) /\ Present(D) = Present(E) \ G
  BY DEF Entries, Shrinks, Present
<1>2. \A k \in Present(D) : D[k].size = E[k].size
  BY DEF Present
<1>3. IsFiniteSet(Present(E)) /\ Sized(E, Present(E))
  BY EntryFacts
<1>4. IsFiniteSet(Present(D)) /\ Sized(E, Present(D))
  BY <1>1, <1>3, FS_Subset DEF Sized
<1>5. Bytes(D, Present(D)) = Bytes(E, Present(D))
  BY <1>2, <1>4, BytesSame
<1>6. Adds(E, Present(E), G)
  BY <1>3, BytesFacts
<1>7. Bytes(D, Present(D)) = Bytes(E, Present(E)) - Bytes(E, G)
  <2>1. Bytes(D, Present(D)) = Bytes(E, Present(E) \ G)
    BY <1>1, <1>5, Zenon
  <2>2. \A a, b, x \in Nat : x = a + b => b = x - a
    OBVIOUS
  <2>3. Bytes(E, Present(E)) \in Nat
    BY <1>3, BytesFacts
  <2> QED
    BY <1>6, <2>1, <2>2, <2>3 DEF Adds
<1> QED
  BY <1>1, <1>7

\* Dropping the first n elements of the queue drops the entries whose place is
\* among them.
LEMMA DroppedOK ==
  ASSUME NEW c, NEW next, CacheOK(c, next), NEW n \in 0..Len(c.order), NEW d, d = Dropped(c, n)
  PROVE  /\ CacheOK(d, next) /\ Shrinks(c.entries, d.entries)
         /\ \A k \in Present(c.entries), i \in 1..Len(c.order) :
              Place(c, k, i) => (k \in Present(d.entries) <=> i > n)
<1> DEFINE E == c.entries
           D == d.entries
           gone == {c.order[i].key : i \in {j \in 1..n : Live(c.entries, c.order[j])}}
<1>1. /\ E \in Entries /\ c.order \in Seq(Element) /\ Len(c.order) \in Nat
      /\ \A i \in 1..Len(c.order) : c.order[i] \in Element
  BY DEF CacheOK, CacheTyped
<1>2. /\ d.entries = [k \in Keys |-> IF k \in gone THEN None ELSE c.entries[k]]
      /\ d.order = SubSeq(c.order, n + 1, Len(c.order))
      /\ d.bytes = c.bytes - Bytes(c.entries, gone)
  BY DEF Dropped
<1>3. \A x \in Element : x.key \in Keys /\ x.serial \in Nat /\ x = [key |-> x.key, serial |-> x.serial]
  BY DEF Element
<1>4. gone \in SUBSET Present(E)
  BY <1>1, <1>3 DEF Live, Present
<1>5. /\ D \in Entries /\ Shrinks(E, D) /\ Present(D) = Present(E) \ gone
      /\ Bytes(D, Present(D)) = Bytes(E, Present(E)) - Bytes(E, gone)
  <2> HIDE DEF gone
  <2> QED
    BY <1>1, <1>2, <1>4, Removing
<1>6. \A i, j \in 1..Len(c.order) : c.order[i].serial = c.order[j].serial => i = j
  <2>1. ASSUME NEW i \in 1..Len(c.order), NEW j \in 1..Len(c.order), i < j
        PROVE  c.order[i].serial # c.order[j].serial
    BY <1>1, <1>3, <2>1 DEF CacheOK, Queued
  <2> QED
    BY <1>1, <2>1
<1>7. ASSUME NEW k \in Present(E), NEW i \in 1..Len(c.order), Place(c, k, i)
      PROVE  k \in gone <=> i <= n
  <2>1. c.order[i].key = k /\ c.order[i].serial = E[k].serial /\ E[k] # None
    BY <1>7 DEF Place, Present
  <2>2. ASSUME i <= n PROVE k \in gone
    BY <2>1, <2>2 DEF Live
  <2>3. ASSUME k \in gone PROVE i <= n
    <3>1. PICK j \in 1..n : Live(E, c.order[j]) /\ c.order[j].key = k
      BY <2>3
    <3>2. c.order[j].serial = E[k].serial /\ j \in 1..Len(c.order)
      BY <3>1 DEF Live
    <3> QED
      BY <1>6, <2>1, <3>2
  <2> QED
    BY <2>2, <2>3
<1> HIDE DEF gone
<1>8. /\ d.order \in Seq(Element) /\ Len(d.order) = Len(c.order) - n
      /\ \A i \in 1..Len(d.order) : d.order[i] = c.order[i + n] /\ i + n \in 1..Len(c.order)
  BY <1>1, <1>2
<1>9. CacheTyped(d, next)
  <2>1. \A k \in Present(D) : k \in Present(E) /\ D[k] = E[k]
    BY <1>2, <1>5 DEF Present
  <2>2. \A k \in Present(D) : D[k].serial \in 1..next - 1
    BY <2>1 DEF CacheOK, CacheTyped
  <2>3. \A i \in 1..Len(d.order) : d.order[i].serial \in 1..next - 1
    BY <1>8 DEF CacheOK, CacheTyped
  <2> QED
    BY <1>5, <1>8, <2>2, <2>3 DEF CacheTyped
<1>10. Queued(d)
  <2>1. ASSUME NEW k \in Present(D) PROVE \E i \in 1..Len(d.order) : Place(d, k, i)
    <3>1. k \in Present(E) /\ k \notin gone /\ D[k] = E[k]
      BY <1>2, <1>5 DEF Present
    <3>2. PICK j \in 1..Len(c.order) : Place(c, k, j)
      BY <3>1 DEF CacheOK, Queued
    <3>3. j > n
      BY <1>7, <3>1, <3>2
    <3>4. j - n \in 1..Len(d.order) /\ d.order[j - n] = c.order[j]
      BY <1>1, <1>8, <3>3
    <3>5. Place(d, k, j - n)
      BY <3>1, <3>2, <3>4 DEF Place
    <3> QED
      BY <3>4, <3>5
  <2>2. ASSUME NEW i \in 1..Len(d.order), NEW j \in 1..Len(d.order), i < j
        PROVE  d.order[i].serial < d.order[j].serial
    <3>1. i + n \in 1..Len(c.order) /\ j + n \in 1..Len(c.order) /\ i + n < j + n
      BY <1>8, <2>2
    <3>2. c.order[i + n].serial < c.order[j + n].serial
      BY <3>1 DEF CacheOK, Queued
    <3> QED
      BY <1>8, <3>2
  <2> QED
    BY <2>1, <2>2 DEF Queued
<1>11. d.bytes = Bytes(d.entries, Present(d.entries))
  BY <1>2, <1>5 DEF CacheOK
<1>12. CacheOK(d, next)
  BY <1>9, <1>10, <1>11 DEF CacheOK
<1>13. ASSUME NEW k \in Present(E), NEW i \in 1..Len(c.order), Place(c, k, i)
       PROVE  k \in Present(D) <=> i > n
  BY <1>5, <1>7, <1>13
<1> QED
  BY <1>5, <1>12, <1>13

\* What pruning the cache c at a time leaves: entries go because they are too
\* old, or exceed a limit with those stored after them, and the oldest go first.
After(E, k) == {j \in Present(E) : E[j].serial >= E[k].serial}

PruneRel(E, D, time) ==
  /\ Shrinks(E, D)
  /\ \A k \in Present(E) \ Present(D) :
       /\ \A j \in Present(D) : D[j].serial > E[k].serial
       /\ time - E[k].storedAt > MaxAge \/ Exceeds(E, After(E, k))

LEMMA DropsOldest ==
  ASSUME NEW c, NEW next, CacheOK(c, next), NEW n \in 0..Len(c.order), NEW d, d = Dropped(c, n),
         NEW k \in Present(c.entries) \ Present(d.entries), NEW j \in Present(d.entries)
  PROVE  d.entries[j] = c.entries[j] /\ c.entries[j].serial > c.entries[k].serial
<1>1. /\ CacheOK(d, next) /\ Shrinks(c.entries, d.entries)
      /\ \A x \in Present(c.entries), i \in 1..Len(c.order) :
           Place(c, x, i) => (x \in Present(d.entries) <=> i > n)
  BY DroppedOK
<1>2. d.entries[j] = c.entries[j] /\ j \in Present(c.entries)
  BY <1>1 DEF Shrinks, Present
<1>3. PICK a \in 1..Len(c.order) : Place(c, k, a)
  BY DEF CacheOK, Queued
<1>4. PICK b \in 1..Len(c.order) : Place(c, j, b)
  BY <1>2 DEF CacheOK, Queued
<1>5. Len(c.order) \in Nat
  BY DEF CacheOK, CacheTyped
<1>6. a < b
  <2>1. ~(a > n) /\ b > n
    BY <1>1, <1>2, <1>3, <1>4
  <2> QED
    BY <1>5, <2>1
<1>7. c.order[a].serial < c.order[b].serial
  BY <1>6 DEF CacheOK, Queued
<1>8. c.order[a].serial = c.entries[k].serial /\ c.order[b].serial = c.entries[j].serial
  BY <1>3, <1>4 DEF Place
<1>9. c.entries[j].serial \in Nat /\ c.entries[k].serial \in Nat
  <2>1. c.entries \in Entries
    BY DEF CacheOK, CacheTyped
  <2> QED
    BY <1>2, <2>1, EntryFacts, Zenon
<1> QED
  BY <1>2, <1>7, <1>8, <1>9

\* The first half of prune.
LEMMA AgedOK ==
  ASSUME NEW c, NEW next, CacheOK(c, next), NEW time, NEW kept,
         kept = {i \in 1..Len(c.order) :
                   /\ Live(c.entries, c.order[i])
                   /\ time - c.entries[c.order[i].key].storedAt <= MaxAge},
         time \in Nat
  PROVE  LET n == IF kept = {} THEN Len(c.order) ELSE Min(kept) - 1
         IN /\ n \in 0..Len(c.order)
            /\ \A k \in Present(c.entries) \ Present(Dropped(c, n).entries) :
                 time - c.entries[k].storedAt > MaxAge
<1> DEFINE n == IF kept = {} THEN Len(c.order) ELSE Min(kept) - 1
           d == Dropped(c, n)
<1>1. c.entries \in Entries /\ Len(c.order) \in Nat
  BY DEF CacheOK, CacheTyped
<1>2. kept \subseteq 1..Len(c.order) /\ kept \in SUBSET Nat
  <2>1. kept \subseteq 1..Len(c.order)
    OBVIOUS
  <2> QED
    BY <1>1, <2>1
<1>3. n \in 0..Len(c.order) /\ \A i \in 1..n : i \notin kept
  <2>1. CASE kept = {}
    BY <1>1, <2>1
  <2>2. CASE kept # {}
    <3> DEFINE m == Min(kept)
    <3>1. m \in kept /\ \A y \in kept : m <= y
      BY <1>2, <2>2, MinOf, Zenon
    <3>2. n = m - 1
      BY <2>2, Zenon
    <3>3. m \in 1..Len(c.order)
      BY <1>2, <3>1, Zenon
    <3> HIDE DEF m, n
    <3>4. \A i \in 1..m - 1 : i \notin kept
      <4>1. ASSUME NEW i \in 1..m - 1, i \in kept PROVE FALSE
        <5>1. m <= i /\ ~(m <= i)
          BY <1>1, <3>1, <3>3, <4>1
        <5> QED
          BY <5>1
      <4> QED
        BY <4>1, Zenon
    <3>5. m - 1 \in 0..Len(c.order)
      BY <1>1, <3>3
    <3> QED
      BY <3>2, <3>4, <3>5, Zenon
  <2> QED
    BY <2>1, <2>2
<1> HIDE DEF n
<1>4. ASSUME NEW k \in Present(c.entries) \ Present(d.entries)
      PROVE  time - c.entries[k].storedAt > MaxAge
  <2>1. PICK i \in 1..Len(c.order) : Place(c, k, i)
    BY DEF CacheOK, Queued
  <2>2. i <= n
    <3>1. ~(i > n)
      BY <1>3, <2>1, DroppedOK
    <3> QED
      BY <1>1, <1>3, <3>1
  <2>3. i \notin kept
    BY <1>1, <1>3, <2>2
  <2>4. c.order[i].key = k /\ Live(c.entries, c.order[i])
    BY <2>1 DEF Place, Live, Present
  <2>5. ~(time - c.entries[k].storedAt <= MaxAge)
    BY <2>3, <2>4
  <2>6. c.entries[k].storedAt \in Nat /\ MaxAge \in Nat
    BY <1>1, EntryFacts, CacheAssumption
  <2> QED
    BY <2>5, <2>6
<1> QED
  BY <1>3, <1>4 DEF n

\* Entries of a cache that is left with some of those of E.
LEMMA ExceedsBefore ==
  ASSUME NEW E \in Entries, NEW D \in Entries, Shrinks(E, D), NEW S \in SUBSET Present(D),
         NEW T \in SUBSET Present(E), S \subseteq T, Exceeds(D, S)
  PROVE  Exceeds(E, T)
<1>1. /\ IsFiniteSet(Present(E)) /\ Sized(E, Present(E))
      /\ IsFiniteSet(Present(D)) /\ Sized(D, Present(D))
  BY EntryFacts
<1>2. IsFiniteSet(S) /\ IsFiniteSet(T) /\ Sized(D, S) /\ Sized(E, T)
  BY <1>1, FS_Subset DEF Sized
<1>3. \A k \in S : E[k].size = D[k].size
  BY DEF Shrinks, Present
<1>4. Bytes(E, S) = Bytes(D, S)
  BY <1>2, <1>3, BytesSame
<1>5. Exceeds(E, S)
  BY <1>4 DEF Exceeds
<1> QED
  BY <1>2, <1>5, ExceedsMore, ZenonT(40)

\* Dropping one element less would not do.
LEMMA LimitReason ==
  ASSUME NEW c, NEW next, CacheOK(c, next), NEW n \in 1..Len(c.order),
         ~WithinLimits(Dropped(c, n - 1)),
         NEW k \in Present(c.entries) \ Present(Dropped(c, n).entries)
  PROVE  Exceeds(c.entries, After(c.entries, k))
<1> DEFINE e == Dropped(c, n - 1)
           d == Dropped(c, n)
<1>1. Len(c.order) \in Nat /\ n \in 0..Len(c.order) /\ n - 1 \in 0..Len(c.order) /\ n \in Nat
  BY DEF CacheOK, CacheTyped
<1>2. /\ CacheOK(e, next) /\ Shrinks(c.entries, e.entries)
      /\ \A x \in Present(c.entries), i \in 1..Len(c.order) :
           Place(c, x, i) => (x \in Present(e.entries) <=> i > n - 1)
  BY <1>1, DroppedOK, Zenon
<1>3. \A x \in Present(c.entries), i \in 1..Len(c.order) :
        Place(c, x, i) => (x \in Present(d.entries) <=> i > n)
  BY <1>1, DroppedOK, Zenon
<1> HIDE DEF d, e
<1>4. c.entries \in Entries /\ e.entries \in Entries
  BY <1>2 DEF CacheOK, CacheTyped
<1>5. Exceeds(e.entries, Present(e.entries))
  <2>1. e.bytes = Bytes(e.entries, Present(e.entries))
    BY <1>2 DEF CacheOK
  <2>2. /\ IsFiniteSet(Present(e.entries)) /\ Sized(e.entries, Present(e.entries))
    BY <1>4, EntryFacts
  <2>3. Cardinality(Present(e.entries)) \in Nat /\ Bytes(e.entries, Present(e.entries)) \in Nat
    BY <2>2, BytesFacts, FS_CardinalityType
  <2>4. MaxPackets \in Nat /\ MaxBytes \in Nat
    BY CacheAssumption
  <2>5. ~WithinLimits(e)
    BY DEF e
  <2> QED
    BY <2>1, <2>3, <2>4, <2>5 DEF WithinLimits, Exceeds
<1>6. PICK a \in 1..Len(c.order) : Place(c, k, a)
  BY DEF CacheOK, Queued
<1>7. a <= n
  <2>1. ~(a > n)
    BY <1>3, <1>6 DEF d
  <2> QED
    BY <1>1, <2>1
<1>8. ASSUME NEW j \in Present(e.entries) PROVE j \in After(c.entries, k)
  <2>1. j \in Present(c.entries)
    BY <1>2 DEF Shrinks, Present
  <2>2. PICK b \in 1..Len(c.order) : Place(c, j, b)
    BY <2>1 DEF CacheOK, Queued
  <2>3. b > n - 1
    BY <1>2, <2>1, <2>2
  <2>4. a = b \/ a < b
    BY <1>1, <1>7, <2>3
  <2>5. c.order[a].serial = c.order[b].serial \/ c.order[a].serial < c.order[b].serial
    BY <2>4 DEF CacheOK, Queued
  <2>6. c.order[a].serial = c.entries[k].serial /\ c.order[b].serial = c.entries[j].serial
    BY <1>6, <2>2 DEF Place
  <2>7. c.entries[k].serial \in Nat /\ c.entries[j].serial \in Nat
    BY <1>4, <2>1, EntryFacts, Zenon
  <2>8. c.entries[j].serial >= c.entries[k].serial
    BY <2>5, <2>6, <2>7
  <2> QED
    BY <2>1, <2>8 DEF After
<1>9. After(c.entries, k) \in SUBSET Present(c.entries) /\ Present(e.entries) \subseteq After(c.entries, k)
  BY <1>8 DEF After
<1> QED
  BY <1>2, <1>4, <1>5, <1>9, ExceedsBefore

LEMMA PruneRelTwice ==
  ASSUME NEW E \in Entries, NEW D \in Entries, NEW F \in Entries, NEW time,
         PruneRel(E, D, time), PruneRel(D, F, time)
  PROVE  PruneRel(E, F, time)
<1>1. Shrinks(E, D) /\ Shrinks(D, F) /\ Shrinks(E, F)
  BY DEF PruneRel, Shrinks
<1>2. \A j \in Present(F) : j \in Present(D) /\ F[j] = D[j]
  BY <1>1 DEF Shrinks, Present
<1>3. \A j \in Present(D) : j \in Present(E) /\ D[j] = E[j]
  BY <1>1 DEF Shrinks, Present
<1>4. ASSUME NEW k \in Present(E) \ Present(F)
      PROVE  /\ \A j \in Present(F) : F[j].serial > E[k].serial
             /\ time - E[k].storedAt > MaxAge \/ Exceeds(E, After(E, k))
  <2>1. CASE k \notin Present(D)
    BY <1>2, <2>1 DEF PruneRel
  <2>2. CASE k \in Present(D)
    <3>1. D[k] = E[k] /\ k \in Present(D) \ Present(F)
      BY <1>3, <2>2
    <3>2. /\ \A j \in Present(F) : F[j].serial > E[k].serial
          /\ time - E[k].storedAt > MaxAge \/ Exceeds(D, After(D, k))
      BY <3>1 DEF PruneRel
    <3>3. /\ After(D, k) \in SUBSET Present(D) /\ After(E, k) \in SUBSET Present(E)
          /\ After(D, k) \subseteq After(E, k)
      BY <1>3, <3>1 DEF After
    <3>4. Exceeds(D, After(D, k)) => Exceeds(E, After(E, k))
      BY <1>1, <3>3, ExceedsBefore
    <3> QED
      BY <3>2, <3>4
  <2> QED
    BY <2>1, <2>2
<1> QED
  BY <1>1, <1>4 DEF PruneRel

\* Pruning keeps the books in order, brings the cache within its limits, and
\* takes only what has to go.
LEMMA PrunedOK ==
  ASSUME NEW c, NEW next, CacheOK(c, next), NEW time \in Nat, NEW d, d = Pruned(c, time)
  PROVE  CacheOK(d, next) /\ WithinLimits(d) /\ PruneRel(c.entries, d.entries, time)
<1> DEFINE kept == {i \in 1..Len(c.order) :
                      /\ Live(c.entries, c.order[i])
                      /\ time - c.entries[c.order[i].key].storedAt <= MaxAge}
           m == IF kept = {} THEN Len(c.order) ELSE Min(kept) - 1
           y == Dropped(c, m)
           enough == {n \in 0..Len(y.order) : WithinLimits(Dropped(y, n))}
           l == IF enough = {} THEN Len(y.order) ELSE Min(enough)
<1>1. d = Dropped(y, l)
  BY DEF Pruned
<1>2. /\ m \in 0..Len(c.order)
      /\ \A k \in Present(c.entries) \ Present(y.entries) : time - c.entries[k].storedAt > MaxAge
  <2> HIDE DEF kept
  <2>1. kept = {i \in 1..Len(c.order) :
                  /\ Live(c.entries, c.order[i])
                  /\ time - c.entries[c.order[i].key].storedAt <= MaxAge}
    BY DEF kept
  <2> QED
    BY <2>1, AgedOK, Zenon
<1> HIDE DEF kept, m
<1>3. CacheOK(y, next) /\ Shrinks(c.entries, y.entries)
  BY <1>2, DroppedOK, Zenon
<1>4. c.entries \in Entries /\ y.entries \in Entries /\ Len(y.order) \in Nat
  BY <1>3 DEF CacheOK, CacheTyped
<1>5. PruneRel(c.entries, y.entries, time)
  <2>1. ASSUME NEW k \in Present(c.entries) \ Present(y.entries), NEW j \in Present(y.entries)
        PROVE  y.entries[j].serial > c.entries[k].serial
    <3>1. y.entries[j] = c.entries[j] /\ c.entries[j].serial > c.entries[k].serial
      BY <1>2, DropsOldest, Zenon
    <3> HIDE DEF y
    <3> QED
      BY <3>1
  <2> HIDE DEF y
  <2> QED
    BY <1>2, <1>3, <2>1 DEF PruneRel
<1> HIDE DEF y
<1>6. WithinLimits(Dropped(y, Len(y.order)))
  <2> DEFINE e == Dropped(y, Len(y.order))
  <2>1. Len(y.order) \in 0..Len(y.order)
    BY <1>4
  <2>2. /\ CacheOK(e, next) /\ Shrinks(y.entries, e.entries)
        /\ \A x \in Present(y.entries), i \in 1..Len(y.order) :
             Place(y, x, i) => (x \in Present(e.entries) <=> i > Len(y.order))
    BY <1>3, <2>1, DroppedOK, Zenon
  <2> HIDE DEF e
  <2>3. ASSUME NEW x \in Present(e.entries) PROVE FALSE
    <3>1. x \in Present(y.entries)
      BY <2>2 DEF Shrinks, Present
    <3>2. PICK i \in 1..Len(y.order) : Place(y, x, i)
      BY <1>3, <3>1 DEF CacheOK, Queued
    <3>3. i > Len(y.order)
      BY <2>2, <3>1, <3>2
    <3> QED
      BY <1>4, <3>3
  <2>4. Present(e.entries) = {}
    BY <2>3
  <2>5. e.bytes = Bytes(e.entries, {})
    BY <2>2, <2>4 DEF CacheOK
  <2>6. Bytes(e.entries, {}) = 0 /\ Cardinality({}) = 0
    <3>1. IsFiniteSet({}) /\ Sized(e.entries, {})
      BY FS_EmptySet DEF Sized
    <3> QED
      BY <3>1, BytesFacts, FS_EmptySet
  <2>7. MaxPackets \in Nat /\ MaxBytes \in Nat
    BY CacheAssumption
  <2>8. WithinLimits(e)
    BY <2>4, <2>5, <2>6, <2>7 DEF WithinLimits
  <2> QED
    BY <2>8 DEF e
<1>7. /\ l \in enough /\ \A n \in enough : l <= n
  <2>1. Len(y.order) \in enough
    BY <1>4, <1>6
  <2>2. enough \in SUBSET Nat /\ enough # {}
    BY <1>4, <2>1
  <2> HIDE DEF enough
  <2> QED
    BY <2>2, MinOf, Zenon
<1>8. l \in 0..Len(y.order) /\ WithinLimits(d)
  <2> HIDE DEF l
  <2> QED
    BY <1>1, <1>7
<1> HIDE DEF l
<1>9. CacheOK(d, next) /\ Shrinks(y.entries, d.entries) 
  BY <1>1, <1>3, <1>8, DroppedOK, Zenon
<1>10. ASSUME NEW k \in Present(y.entries) \ Present(d.entries)
       PROVE  /\ \A j \in Present(d.entries) : d.entries[j].serial > y.entries[k].serial
              /\ Exceeds(y.entries, After(y.entries, k))
  <2>1. ASSUME NEW j \in Present(d.entries) PROVE d.entries[j].serial > y.entries[k].serial
    <3>1. d.entries[j] = y.entries[j] /\ y.entries[j].serial > y.entries[k].serial
      BY <1>1, <1>3, <1>8, DropsOldest, Zenon
    <3> QED
      BY <3>1
  <2>2. l \in 1..Len(y.order)
    <3>1. PICK i \in 1..Len(y.order) : Place(y, k, i)
      BY <1>3 DEF CacheOK, Queued
    <3>2. ~(i > l)
      BY <1>1, <1>3, <1>8, <3>1, DroppedOK, Zenon
    <3> QED
      BY <1>4, <1>8, <3>2
  <2>3. ~WithinLimits(Dropped(y, l - 1))
    <3>1. l - 1 \in 0..Len(y.order) /\ ~(l <= l - 1)
      BY <1>4, <2>2
    <3>2. l - 1 \notin enough
      BY <1>7, <3>1
    <3> QED
      BY <3>1, <3>2
  <2>4. k \in Present(y.entries) \ Present(Dropped(y, l).entries)
    BY <1>1
  <2>5. Exceeds(y.entries, After(y.entries, k))
    BY <1>3, <2>2, <2>3, <2>4, LimitReason, Zenon
  <2> QED
    BY <2>1, <2>5
<1>11. PruneRel(y.entries, d.entries, time)
  BY <1>9, <1>10 DEF PruneRel
<1>12. d.entries \in Entries
  BY <1>9 DEF CacheOK, CacheTyped
<1> QED
  BY <1>4, <1>5, <1>8, <1>9, <1>11, <1>12, PruneRelTwice, ZenonT(40)

\* Storing a packet.
LEMMA StoredOK ==
  ASSUME NEW c, now \in Nat, nextSerial \in Nat \ {0}, CacheOK(c, nextSerial),
         NEW k \in Keys, NEW size \in Sizes, NEW d, d = Stored(c, k, size)
  PROVE  /\ CacheOK(d, nextSerial + 1)
         /\ \A j \in Keys \ {k} : d.entries[j] = c.entries[j]
         /\ k \in Present(d.entries) /\ d.entries[k].serial = nextSerial
         /\ d.entries[k].size = size /\ d.entries[k].storedAt = now /\ d.entries[k].sentAt = None
<1> DEFINE e == [size |-> size, storedAt |-> now, serial |-> nextSerial, sentAt |-> None]
           x == [key |-> k, serial |-> nextSerial]
           E == c.entries
           D == d.entries
<1>1. /\ E \in Entries /\ c.order \in Seq(Element) /\ Len(c.order) \in Nat
      /\ \A i \in 1..Len(c.order) : c.order[i] \in Element /\ c.order[i].serial \in 1..nextSerial - 1
  BY DEF CacheOK, CacheTyped
<1>2. /\ d.entries = [c.entries EXCEPT ![k] = e]
      /\ d.order = Append(c.order, x)
      /\ d.bytes = (IF c.entries[k] = None THEN c.bytes ELSE c.bytes - c.entries[k].size) + size
  BY DEF Stored
<1>3. e \in Entry /\ x \in Element /\ e # None /\ size \in Nat
  <2>1. e \in Entry
    BY DEF Entry
  <2>2. x \in Element
    BY DEF Element
  <2>3. None \notin Entry /\ Sizes \subseteq Nat
    BY CacheAssumption
  <2> QED
    BY <2>1, <2>2, <2>3
<1>4. /\ e.size = size /\ e.storedAt = now /\ e.serial = nextSerial /\ e.sentAt = None
      /\ x.key = k /\ x.serial = nextSerial
  OBVIOUS
<1> HIDE DEF e, x
<1>5. D \in Entries /\ D[k] = e /\ \A j \in Keys \ {k} : D[j] = E[j]
  BY <1>1, <1>2, <1>3 DEF Entries
<1>6. Present(D) = Present(E) \cup {k}
  BY <1>3, <1>5 DEF Present
<1>7. /\ d.order \in Seq(Element) /\ Len(d.order) = Len(c.order) + 1
      /\ d.order[Len(c.order) + 1] = x
      /\ \A i \in 1..Len(c.order) : d.order[i] = c.order[i]
  BY <1>1, <1>2, <1>3
<1>8. CacheTyped(d, nextSerial + 1)
  <2>1. \A j \in Present(D) : D[j].serial \in 1..(nextSerial + 1) - 1
    <3>1. ASSUME NEW j \in Present(D) PROVE D[j].serial \in 1..(nextSerial + 1) - 1
      <4>1. CASE j = k
        BY <1>4, <1>5, <4>1
      <4>2. CASE j # k
        <5>1. j \in Present(E) /\ D[j] = E[j]
          BY <1>5, <1>6, <4>2 DEF Present
        <5>2. E[j].serial \in 1..nextSerial - 1
          BY <5>1 DEF CacheOK, CacheTyped
        <5> QED
          BY <5>1, <5>2
      <4> QED
        BY <4>1, <4>2
    <3> QED
      BY <3>1
  <2>2. \A i \in 1..Len(d.order) : d.order[i].serial \in 1..(nextSerial + 1) - 1
    <3>1. ASSUME NEW i \in 1..Len(d.order) PROVE d.order[i].serial \in 1..(nextSerial + 1) - 1
      <4>1. i \in 1..Len(c.order) \/ i = Len(c.order) + 1
        BY <1>1, <1>7
      <4>2. CASE i \in 1..Len(c.order)
        <5>1. d.order[i] = c.order[i] /\ c.order[i].serial \in 1..nextSerial - 1
          BY <1>1, <1>7, <4>2
        <5> QED
          BY <5>1
      <4>3. CASE i = Len(c.order) + 1
        BY <1>4, <1>7, <4>3
      <4> QED
        BY <4>1, <4>2, <4>3
    <3> QED
      BY <3>1
  <2> QED
    BY <1>5, <1>7, <2>1, <2>2 DEF CacheTyped
<1>9. Queued(d)
  <2>1. ASSUME NEW j \in Present(D) PROVE \E i \in 1..Len(d.order) : Place(d, j, i)
    <3>1. CASE j = k
      <4>1. Len(c.order) + 1 \in 1..Len(d.order)
        BY <1>1, <1>7
      <4>2. x = [key |-> k, serial |-> D[k].serial]
        BY <1>4, <1>5 DEF x
      <4>3. Place(d, k, Len(c.order) + 1)
        BY <1>7, <4>1, <4>2 DEF Place
      <4> QED
        BY <3>1, <4>1, <4>3
    <3>2. CASE j # k
      <4>1. j \in Present(E) /\ D[j] = E[j]
        BY <1>5, <1>6, <3>2 DEF Present
      <4>2. PICK i \in 1..Len(c.order) : Place(c, j, i)
        BY <4>1 DEF CacheOK, Queued
      <4>3. i \in 1..Len(d.order) /\ d.order[i] = c.order[i]
        BY <1>1, <1>7
      <4>4. Place(d, j, i)
        BY <4>1, <4>2, <4>3 DEF Place
      <4> QED
        BY <4>3, <4>4
    <3> QED
      BY <3>1, <3>2
  <2>2. ASSUME NEW i \in 1..Len(d.order), NEW j \in 1..Len(d.order), i < j
        PROVE  d.order[i].serial < d.order[j].serial
    <3>1. CASE j \in 1..Len(c.order)
      <4>1. i \in 1..Len(c.order)
        BY <1>1, <1>7, <2>2, <3>1
      <4>2. c.order[i].serial < c.order[j].serial
        BY <2>2, <3>1, <4>1 DEF CacheOK, Queued
      <4> QED
        BY <1>7, <3>1, <4>1, <4>2
    <3>2. CASE j \notin 1..Len(c.order)
      <4>1. j = Len(c.order) + 1 /\ i \in 1..Len(c.order)
        BY <1>1, <1>7, <2>2, <3>2
      <4>2. d.order[j].serial = nextSerial /\ d.order[i].serial \in 1..nextSerial - 1
        BY <1>1, <1>4, <1>7, <4>1
      <4> QED
        BY <4>2
    <3> QED
      BY <3>1, <3>2
  <2> QED
    BY <2>1, <2>2 DEF Queued
<1>10. d.bytes = Bytes(D, Present(D))
  <2> DEFINE P == Present(E)
             R == Present(E) \ {k}
  <2>1. IsFiniteSet(P) /\ Sized(E, P) /\ IsFiniteSet(Present(D)) /\ Sized(D, Present(D))
    BY <1>1, <1>5, EntryFacts
  <2>2. IsFiniteSet(R) /\ Sized(E, R) /\ \A j \in R : D[j].size = E[j].size
    <3>1. IsFiniteSet(R)
      BY <2>1, FS_Subset
    <3> QED
      BY <1>5, <2>1, <3>1 DEF Sized, Present
  <2>3. Bytes(D, R) = Bytes(E, R) /\ Bytes(E, R) \in Nat
    BY <2>2, BytesSame, BytesFacts
  <2>4. Bytes(D, Present(D)) = size + Bytes(D, R)
    <3>1. Bytes(D, Present(D)) = D[k].size + Bytes(D, Present(D) \ {k})
      <4>1. k \in Present(D)
        BY <1>6
      <4> QED
        BY <2>1, <4>1, BytesLess
    <3>2. Present(D) \ {k} = R
      BY <1>6
    <3>3. D[k].size = size
      BY <1>4, <1>5
    <3> QED
      BY <3>1, <3>2, <3>3, Zenon
  <2>5. c.bytes = Bytes(E, P)
    BY DEF CacheOK
  <2>6. CASE k \in P
    <3>1. Bytes(E, P) = E[k].size + Bytes(E, R)
      BY <2>1, <2>6, BytesLess
    <3>2. E[k] # None /\ E[k].size \in Nat
      BY <2>1, <2>6 DEF Present, Sized
    <3> QED
      BY <1>2, <1>3, <2>3, <2>4, <2>5, <3>1, <3>2
  <2>7. CASE k \notin P
    <3>1. R = P /\ E[k] = None
      BY <2>7 DEF Present
    <3>2. Bytes(E, R) = Bytes(E, P)
      BY <3>1, Zenon
    <3> HIDE DEF R, P
    <3> QED
      BY <1>2, <1>3, <2>3, <2>4, <2>5, <3>1, <3>2
  <2> QED
    BY <2>6, <2>7
<1>11. CacheOK(d, nextSerial + 1)
  BY <1>8, <1>9, <1>10 DEF CacheOK
<1> QED
  BY <1>4, <1>5, <1>6, <1>11

-----------------------------------------------------------------------------
(* What the steps of the transport do to the cache.                        *)

CacheInv ==
  /\ now \in 0..MaxTime
  /\ nextSerial \in 1..MaxSerial + 1
  /\ CacheOK(Cache, nextSerial)
  /\ WithinLimits(Cache)

\* The packet of key k is stored, with the next serial number.
StoredRel(E, D, k) ==
  /\ \A j \in Keys \ {k} : D[j] = E[j]
  /\ k \in Present(D) /\ D[k].serial = nextSerial
  /\ D[k].storedAt = now /\ D[k].sentAt = None /\ D[k].size \in Sizes

\* Some packets are sent again.
HitRel(E, D) ==
  \A k \in Keys : \/ D[k] = E[k]
                  \/ /\ E[k] # None /\ ~Suppressed(E[k]) /\ D[k] # None
                     /\ D[k].size = E[k].size /\ D[k].serial = E[k].serial
                     /\ D[k].storedAt = E[k].storedAt /\ D[k].sentAt = now

CacheStep ==
  \/ \E k \in Keys, size \in Sizes : Remember(k, size)
  \/ \E K \in SUBSET Keys : \E hits \in SUBSET K : Nack(K, hits)
  \/ Snapshot
  \/ Clear
  \/ Tick
  \/ UNCHANGED cacheVars

LEMMA NextCacheStep == [Next]_vars => CacheStep
<1> SUFFICES ASSUME [Next]_vars PROVE CacheStep
  OBVIOUS
<1>1. ASSUME NEW m \in Media, NEW s \in Sources, NEW restarts \in BOOLEAN, Forward(m, s, restarts)
      PROVE  CacheStep
  BY <1>1 DEF Forward, CacheStep
<1>2. ASSUME NEW K \in SUBSET Keys, NEW m \in Media, NackArrives(K, m)
      PROVE  CacheStep
  BY <1>2 DEF NackArrives, CacheStep
<1>3. ASSUME NEW m \in Media, ForwardRtx(m) PROVE CacheStep
  BY <1>3 DEF ForwardRtx, CacheStep
<1>4. CASE SetPeerContext
  BY <1>4 DEF SetPeerContext, CacheStep
<1>5. CASE LogSummary
  BY <1>5 DEF LogSummary, CacheStep
<1>6. CASE TimePasses
  BY <1>6 DEF TimePasses, CacheStep
<1>7. CASE UNCHANGED cacheVars
  BY <1>7 DEF CacheStep
<1> QED
  BY <1>1, <1>2, <1>3, <1>4, <1>5, <1>6, <1>7
  DEF Next, Open, PublisherReport, SourceBye, AdoptSource, Close, Feedback, SendReports, vars

LEMMA SameCache ==
  ASSUME NEW c, NEW d, d.entries = c.entries, d.order = c.order, d.bytes = c.bytes,
         NEW next, CacheOK(c, next)
  PROVE  CacheOK(d, next) /\ (WithinLimits(c) => WithinLimits(d))
<1>1. CacheTyped(d, next)
  BY DEF CacheOK, CacheTyped
<1>2. Queued(d)
  BY DEF CacheOK, Queued, Place
<1> QED
  BY <1>1, <1>2 DEF CacheOK, WithinLimits

\* A step that leaves the cache as c.
LEMMA CacheNext ==
  ASSUME NEW c, Becomes(c), now' \in 0..MaxTime, nextSerial' \in 1..MaxSerial + 1,
         CacheOK(c, nextSerial'), WithinLimits(c)
  PROVE  CacheInv' /\ entries' = c.entries
<1> DEFINE d == [entries |-> entries', order |-> order', bytes |-> byteCount']
<1>1. d.entries = c.entries /\ d.order = c.order /\ d.bytes = c.bytes
  BY DEF Becomes
<1>2. Cache' = d
  BY DEF Cache
<1> HIDE DEF d
<1>3. CacheOK(d, nextSerial') /\ WithinLimits(d)
  BY <1>1, SameCache
<1>4. CacheOK(Cache', nextSerial') /\ WithinLimits(Cache')
  BY <1>2, <1>3, Zenon
<1> QED
  BY <1>4 DEF CacheInv, Becomes

\* The cache pruned, which is what every operation on it starts with.
LEMMA PrunedCache ==
  ASSUME CacheInv, NEW c, c = Pruned(Cache, now)
  PROVE  /\ now \in Nat /\ nextSerial \in Nat \ {0} /\ entries \in Entries /\ c.entries \in Entries
         /\ CacheOK(c, nextSerial) /\ WithinLimits(c) /\ PruneRel(entries, c.entries, now)
<1>1. now \in Nat /\ nextSerial \in Nat \ {0}
  BY CacheAssumption DEF CacheInv
<1>2. CacheOK(Cache, nextSerial) /\ Cache.entries = entries
  BY DEF CacheInv, Cache
<1>3. CacheOK(c, nextSerial) /\ WithinLimits(c) /\ PruneRel(Cache.entries, c.entries, now)
  BY <1>1, <1>2, PrunedOK, Zenon
<1>4. entries \in Entries /\ c.entries \in Entries
  BY <1>2, <1>3 DEF CacheOK, CacheTyped
<1> QED
  BY <1>1, <1>2, <1>3, <1>4, Zenon

LEMMA RememberEffect ==
  ASSUME CacheInv, NEW k \in Keys, NEW size \in Sizes, Remember(k, size)
  PROVE  /\ CacheInv'
         /\ \E E, D \in Entries : /\ PruneRel(entries, E, now) /\ StoredRel(E, D, k)
                                  /\ PruneRel(D, entries', now)
<1> DEFINE c == Pruned(Cache, now)
           s == Stored(c, k, size)
           d == Pruned(s, now)
<1>1. /\ now \in Nat /\ nextSerial \in Nat \ {0} /\ c.entries \in Entries
      /\ CacheOK(c, nextSerial) /\ PruneRel(entries, c.entries, now)
  BY PrunedCache, Zenon
<1>2. /\ Becomes(d) /\ nextSerial' = nextSerial + 1 /\ now' = now
      /\ nextSerial <= MaxSerial
  BY DEF Remember
<1> HIDE DEF c
<1>3. /\ CacheOK(s, nextSerial + 1)
      /\ \A j \in Keys \ {k} : s.entries[j] = c.entries[j]
      /\ k \in Present(s.entries) /\ s.entries[k].serial = nextSerial
      /\ s.entries[k].size = size /\ s.entries[k].storedAt = now /\ s.entries[k].sentAt = None
  <2>1. s = Stored(c, k, size)
    OBVIOUS
  <2> HIDE DEF s
  <2> QED
    BY <1>1, <2>1, StoredOK
<1> HIDE DEF s
<1>4. StoredRel(c.entries, s.entries, k)
  BY <1>3 DEF StoredRel
<1>5. CacheOK(d, nextSerial + 1) /\ WithinLimits(d) /\ PruneRel(s.entries, d.entries, now)
  BY <1>1, <1>3, PrunedOK, Zenon
<1> HIDE DEF d
<1>6. s.entries \in Entries
  BY <1>3 DEF CacheOK, CacheTyped
<1>7. now' \in 0..MaxTime /\ nextSerial' \in 1..MaxSerial + 1 /\ CacheOK(d, nextSerial')
  <2>1. MaxSerial \in Nat /\ now' \in 0..MaxTime
    BY <1>2, CacheAssumption DEF CacheInv
  <2>2. nextSerial + 1 \in 1..MaxSerial + 1
    BY <1>1, <1>2, <2>1
  <2> QED
    BY <1>2, <1>5, <2>1, <2>2, Zenon
<1>8. CacheInv' /\ entries' = d.entries
  BY <1>2, <1>5, <1>7, CacheNext
<1> QED
  BY <1>1, <1>4, <1>5, <1>6, <1>8, Zenon

LEMMA SnapshotEffect ==
  ASSUME CacheInv, Snapshot
  PROVE  CacheInv' /\ PruneRel(entries, entries', now)
<1> DEFINE c == Pruned(Cache, now)
<1>1. CacheOK(c, nextSerial) /\ WithinLimits(c) /\ PruneRel(entries, c.entries, now)
  BY PrunedCache, Zenon
<1>2. Becomes(c) /\ nextSerial' = nextSerial /\ now' = now
  BY DEF Snapshot
<1> HIDE DEF c
<1>3. now' \in 0..MaxTime /\ nextSerial' \in 1..MaxSerial + 1 /\ CacheOK(c, nextSerial')
  BY <1>1, <1>2 DEF CacheInv
<1>4. CacheInv' /\ entries' = c.entries
  BY <1>1, <1>2, <1>3, CacheNext
<1> QED
  BY <1>1, <1>4, Zenon

LEMMA PrunedFields ==
  ASSUME NEW c, NEW time, NEW E, NEW d, d = [Pruned(c, time) EXCEPT !.entries = E]
  PROVE  d.entries = E /\ d.order = Pruned(c, time).order /\ d.bytes = Pruned(c, time).bytes
<1>1. \E y, n : Pruned(c, time) = Dropped(y, n)
  BY Zenon DEF Pruned
<1>2. PICK y, n : Pruned(c, time) = Dropped(y, n)
  BY <1>1
<1>3. PICK A, B, C : Dropped(y, n) = [entries |-> A, order |-> B, bytes |-> C]
  BY Zenon DEF Dropped
<1> QED
  BY <1>2, <1>3

LEMMA NackEffect ==
  ASSUME CacheInv, NEW K \in SUBSET Keys, NEW hits \in SUBSET K, Nack(K, hits)
  PROVE  /\ CacheInv'
         /\ \E E \in Entries : PruneRel(entries, E, now) /\ HitRel(E, entries')
<1> DEFINE c == Pruned(Cache, now)
           E == c.entries
           D == [k \in Keys |-> IF k \in hits THEN [E[k] EXCEPT !.sentAt = now] ELSE E[k]]
           d == [c EXCEPT !.entries = D]
<1>1. /\ now \in Nat /\ E \in Entries /\ CacheOK(c, nextSerial) /\ WithinLimits(c)
      /\ PruneRel(entries, E, now)
  BY PrunedCache, Zenon
<1>2. /\ hits \subseteq {k \in K \cap Present(E) : ~Suppressed(E[k])}
      /\ Becomes(d) /\ nextSerial' = nextSerial /\ now' = now
  BY Zenon DEF Nack
<1>3. d.entries = D /\ d.order = c.order /\ d.bytes = c.bytes
  <2>1. d = [Pruned(Cache, now) EXCEPT !.entries = D]
    OBVIOUS
  <2> HIDE DEF D, d
  <2> QED
    BY <2>1, PrunedFields
<1> HIDE DEF c, d
<1>4. ASSUME NEW e \in Entry
      PROVE  LET x == [e EXCEPT !.sentAt = now]
             IN /\ x \in Entry /\ x # None /\ x.size = e.size /\ x.serial = e.serial
                /\ x.storedAt = e.storedAt /\ x.sentAt = now
  <2> DEFINE x == [e EXCEPT !.sentAt = now]
  <2>1. x \in Entry /\ x.size = e.size /\ x.serial = e.serial /\ x.storedAt = e.storedAt /\ x.sentAt = now
    BY <1>1 DEF Entry
  <2>2. x # None
    BY <2>1, CacheAssumption
  <2> QED
    BY <2>1, <2>2
<1>5. \A k \in hits : k \in Keys /\ k \in Present(E) /\ E[k] \in Entry /\ ~Suppressed(E[k])
  BY <1>1, <1>2, EntryFacts, Zenon
<1>6. ASSUME NEW k \in Keys
      PROVE  \/ D[k] = E[k]
             \/ /\ E[k] # None /\ ~Suppressed(E[k]) /\ D[k] # None /\ D[k] \in Entry
                /\ D[k].size = E[k].size /\ D[k].serial = E[k].serial
                /\ D[k].storedAt = E[k].storedAt /\ D[k].sentAt = now
  <2>1. CASE k \in hits
    <3>1. D[k] = [E[k] EXCEPT !.sentAt = now]
      BY <2>1, Zenon
    <3>2. E[k] \in Entry /\ ~Suppressed(E[k]) /\ E[k] # None
      BY <1>5, <2>1 DEF Present
    <3> HIDE DEF D, E
    <3> QED
      BY <1>4, <3>1, <3>2, Zenon
  <2>2. CASE k \notin hits
    BY <2>2, Zenon
  <2> QED
    BY <2>1, <2>2
<1>7. D \in Entries
  <2>1. \A k \in Keys : D[k] \in Entry \cup {None}
    <3>1. \A k \in Keys : E[k] \in Entry \cup {None}
      BY <1>1 DEF Entries
    <3> HIDE DEF D, E
    <3> QED
      BY <1>6, <3>1
  <2>2. D = [k \in Keys |-> D[k]]
    OBVIOUS
  <2> HIDE DEF D
  <2> QED
    BY <2>1, <2>2 DEF Entries
<1> HIDE DEF D, E
<1>8. HitRel(E, D)
  BY <1>6 DEF HitRel
<1>9. Present(D) = Present(E) /\ \A k \in Present(E) : D[k].size = E[k].size /\ D[k].serial = E[k].serial
  BY <1>6 DEF Present
<1>10. CacheOK(d, nextSerial)
  <2>1. CacheTyped(d, nextSerial)
    <3>1. c.order \in Seq(Element) /\ \A i \in 1..Len(c.order) : c.order[i].serial \in 1..nextSerial - 1
      BY <1>1 DEF CacheOK, CacheTyped
    <3>2. \A k \in Present(D) : D[k].serial \in 1..nextSerial - 1
      <4>1. \A k \in Present(E) : E[k].serial \in 1..nextSerial - 1
        BY <1>1 DEF CacheOK, CacheTyped, E
      <4> QED
        BY <1>9, <4>1, Zenon
    <3> QED
      BY <1>3, <1>7, <3>1, <3>2 DEF CacheTyped
  <2>2. Queued(d)
    <3>1. ASSUME NEW k \in Present(D) PROVE \E i \in 1..Len(d.order) : Place(d, k, i)
      <4>1. k \in Present(E) /\ D[k].serial = E[k].serial
        BY <1>9
      <4>2. PICK i \in 1..Len(c.order) : Place(c, k, i)
        BY <1>1, <4>1 DEF CacheOK, Queued, E
      <4>3. Place(d, k, i)
        BY <1>3, <4>1, <4>2 DEF Place, E
      <4> QED
        BY <1>3, <4>3
    <3>2. \A i, j \in 1..Len(d.order) : i < j => d.order[i].serial < d.order[j].serial
      BY <1>1, <1>3 DEF CacheOK, Queued
    <3> QED
      BY <1>3, <3>1, <3>2 DEF Queued
  <2>3. c.bytes = Bytes(E, Present(E))
    BY <1>1 DEF CacheOK, E
  <2>4. Bytes(D, Present(E)) = Bytes(E, Present(E))
    BY <1>1, <1>9, EntryFacts, BytesSame
  <2>5. Bytes(D, Present(D)) = Bytes(D, Present(E))
    BY <1>9, Zenon
  <2>6. d.bytes = Bytes(d.entries, Present(d.entries))
    BY <1>3, <2>3, <2>4, <2>5, Zenon
  <2> QED
    BY <2>1, <2>2, <2>6 DEF CacheOK
<1>11. WithinLimits(d)
  <2>1. Cardinality(Present(d.entries)) = Cardinality(Present(c.entries)) /\ d.bytes = c.bytes
    BY <1>3, <1>9, Zenon DEF E
  <2> QED
    BY <1>1, <2>1 DEF WithinLimits
<1>12. now' \in 0..MaxTime /\ nextSerial' \in 1..MaxSerial + 1 /\ CacheOK(d, nextSerial')
  BY <1>2, <1>10 DEF CacheInv
<1>13. CacheInv' /\ entries' = d.entries
  BY <1>2, <1>11, <1>12, CacheNext
<1> QED
  BY <1>1, <1>3, <1>8, <1>13, Zenon

LEMMA EmptyOK ==
  ASSUME NEW c, c.entries = [k \in Keys |-> None], c.order = <<>>, c.bytes = 0, NEW next
  PROVE  CacheOK(c, next) /\ WithinLimits(c)
<1>1. c.entries \in Entries /\ Present(c.entries) = {} /\ c.order \in Seq(Element) /\ Len(c.order) = 0
  BY DEF Entries, Present
<1>2. Bytes(c.entries, {}) = 0 /\ Cardinality({}) = 0
  <2>1. IsFiniteSet({}) /\ Sized(c.entries, {})
    BY FS_EmptySet DEF Sized
  <2> QED
    BY <2>1, BytesFacts, FS_EmptySet
<1>3. c.bytes = Bytes(c.entries, Present(c.entries)) /\ Cardinality(Present(c.entries)) = 0
  BY <1>1, <1>2, Zenon
<1>4. CacheTyped(c, next) /\ Queued(c)
  BY <1>1 DEF CacheTyped, Queued
<1>5. MaxPackets \in Nat /\ MaxBytes \in Nat
  BY CacheAssumption
<1> QED
  BY <1>3, <1>4, <1>5 DEF CacheOK, WithinLimits

LEMMA InitCache == Init => CacheInv
<1> SUFFICES ASSUME Init PROVE CacheInv
  OBVIOUS
<1>1. /\ now = 0 /\ nextSerial = 1
      /\ Cache.entries = [k \in Keys |-> None] /\ Cache.order = <<>> /\ Cache.bytes = 0
  BY DEF Init, CacheInit, Cache
<1>2. CacheOK(Cache, nextSerial) /\ WithinLimits(Cache)
  BY <1>1, EmptyOK
<1>3. now \in 0..MaxTime /\ nextSerial \in 1..MaxSerial + 1
  BY <1>1, CacheAssumption
<1> QED
  BY <1>2, <1>3 DEF CacheInv

LEMMA ClearEffect ==
  ASSUME CacheInv, Clear
  PROVE  CacheInv'
<1> DEFINE c == [entries |-> [k \in Keys |-> None], order |-> <<>>, bytes |-> 0]
<1>1. c.entries = [k \in Keys |-> None] /\ c.order = <<>> /\ c.bytes = 0
  OBVIOUS
<1> HIDE DEF c
<1>2. Becomes(c) /\ now' = now /\ nextSerial' = 1
  BY <1>1 DEF Clear, Becomes
<1>3. CacheOK(c, nextSerial') /\ WithinLimits(c)
  BY <1>1, EmptyOK
<1>4. now' \in 0..MaxTime /\ nextSerial' \in 1..MaxSerial + 1
  BY <1>2, CacheAssumption DEF CacheInv
<1> QED
  BY <1>2, <1>3, <1>4, CacheNext

LEMMA QuietEffect ==
  ASSUME CacheInv, UNCHANGED <<entries, order, byteCount, nextSerial>>, now' \in 0..MaxTime
  PROVE  CacheInv'
<1>1. Cache' = Cache
  BY DEF Cache
<1>2. CacheOK(Cache', nextSerial') /\ WithinLimits(Cache')
  BY <1>1, Zenon DEF CacheInv
<1> QED
  BY <1>2 DEF CacheInv

LEMMA StepCache ==
  ASSUME CacheInv, CacheStep
  PROVE  CacheInv'
<1>1. ASSUME NEW k \in Keys, NEW size \in Sizes, Remember(k, size) PROVE CacheInv'
  BY <1>1, RememberEffect, Zenon
<1>2. ASSUME NEW K \in SUBSET Keys, NEW hits \in SUBSET K, Nack(K, hits) PROVE CacheInv'
  BY <1>2, NackEffect, Zenon
<1>3. CASE Snapshot
  BY <1>3, SnapshotEffect
<1>4. CASE Clear
  BY <1>4, ClearEffect
<1>5. CASE Tick
  <2>1. now' \in 0..MaxTime
    BY <1>5, CacheAssumption DEF Tick, CacheInv
  <2> QED
    BY <1>5, <2>1, QuietEffect DEF Tick
<1>6. CASE UNCHANGED cacheVars
  <2>1. now' \in 0..MaxTime
    BY <1>6 DEF cacheVars, CacheInv
  <2> QED
    BY <1>6, <2>1, QuietEffect DEF cacheVars
<1> QED
  BY <1>1, <1>2, <1>3, <1>4, <1>5, <1>6 DEF CacheStep

LEMMA NextCache == CacheInv /\ [Next]_vars => CacheInv'
  BY NextCacheStep, StepCache

\* The map of packets, the queue of rtp_retransmission_cache and the byte count
\* agree, however packets are stored, replaced, asked for and pruned, and the
\* cache is within its limits between any two operations.
THEOREM CacheAccountsAgree == Spec => []AccountsAgree
<1>1. Init => CacheInv
  BY InitCache
<1>2. CacheInv /\ [Next]_vars => CacheInv'
  BY NextCache
<1>3. CacheInv => AccountsAgree
  <2> SUFFICES ASSUME CacheInv PROVE AccountsAgree
    OBVIOUS
  <2>1. /\ now \in 0..MaxTime /\ nextSerial \in 1..MaxSerial + 1
        /\ CacheOK(Cache, nextSerial) /\ WithinLimits(Cache)
    BY DEF CacheInv
  <2>2. Cache.entries = entries /\ Cache.order = order /\ Cache.bytes = byteCount
    BY DEF Cache
  <2>3. /\ entries \in Entries /\ order \in Seq(Element)
        /\ \A k \in Present(entries) : entries[k].serial \in 1..nextSerial - 1
    BY <2>1, <2>2 DEF CacheOK, CacheTyped
  <2>4. byteCount = Bytes(entries, Present(entries))
    BY <2>1, <2>2 DEF CacheOK
  <2>5. byteCount \in Nat
    <3>1. Bytes(entries, Present(entries)) \in Nat
      BY <2>3, EntryFacts, BytesFacts
    <3> QED
      BY <2>4, <3>1
  <2>6. \A k \in Present(entries) : entries[k].serial < nextSerial
    BY <2>1, <2>3
  <2>7. TypeOK
    BY <2>1, <2>3, <2>5, <2>6 DEF TypeOK, Entries
  <2>8. QueueCoversEntries
    <3>1. Queued(Cache)
      BY <2>1 DEF CacheOK
    <3> QED
      BY <2>2, <3>1 DEF Queued, Place, QueueCoversEntries
  <2> QED
    BY <2>1, <2>4, <2>7, <2>8 DEF AccountsAgree, BytesAreCounted
<1> QED
  BY <1>1, <1>2, <1>3, PTL DEF Spec

Spacing(k) ==
  LET e == entries[k]
  IN entries'[k] # None /\ entries'[k].serial = e.serial /\ entries'[k].sentAt # e.sentAt
     /\ e.sentAt # None => entries'[k].sentAt - e.sentAt >= Interval

LEMMA SpacingStep ==
  ASSUME CacheInv, CacheStep, NEW k \in Present(entries)
  PROVE  Spacing(k)
<1>1. /\ entries \in Entries /\ k \in Keys /\ entries[k].serial \in 1..nextSerial - 1
      /\ now \in Nat /\ nextSerial \in Nat
  BY CacheAssumption DEF CacheInv, CacheOK, CacheTyped, Cache, Present
<1>2. CASE entries'[k] = None \/ entries'[k] = entries[k]
  BY <1>2 DEF Spacing
<1>3. ASSUME NEW j \in Keys, NEW size \in Sizes, Remember(j, size) PROVE Spacing(k)
  <2>1. PICK E, D \in Entries : /\ PruneRel(entries, E, now) /\ StoredRel(E, D, j)
                                /\ PruneRel(D, entries', now)
    BY <1>3, RememberEffect, Zenon
  <2>2. entries'[k] = None \/ entries'[k] = D[k]
    BY <1>1, <2>1 DEF PruneRel, Shrinks
  <2>3. CASE k = j
    <3>1. D[k].serial = nextSerial
      BY <2>1, <2>3 DEF StoredRel
    <3>2. D[k].serial # entries[k].serial
      BY <1>1, <3>1
    <3> QED
      BY <2>2, <3>2 DEF Spacing
  <2>4. CASE k # j
    <3>1. D[k] = E[k] /\ (E[k] = None \/ E[k] = entries[k])
      BY <1>1, <2>1, <2>4 DEF PruneRel, Shrinks, StoredRel
    <3> QED
      BY <1>2, <2>2, <3>1, Zenon
  <2> QED
    BY <2>3, <2>4
<1>4. ASSUME NEW K \in SUBSET Keys, NEW hits \in SUBSET K, Nack(K, hits) PROVE Spacing(k)
  <2>1. PICK E \in Entries : PruneRel(entries, E, now) /\ HitRel(E, entries')
    BY <1>4, NackEffect, Zenon
  <2>2. E[k] = None \/ E[k] = entries[k]
    BY <1>1, <2>1 DEF PruneRel, Shrinks
  <2>3. CASE entries'[k] = E[k]
    BY <1>2, <2>2, <2>3, Zenon
  <2>4. CASE entries'[k] # E[k]
    <3>1. E[k] = entries[k] /\ ~Suppressed(E[k]) /\ entries'[k].sentAt = now
      BY <1>1, <2>1, <2>2, <2>4 DEF HitRel
    <3>2. entries[k].sentAt \in Nat \cup {None}
      BY <1>1 DEF Entries, Entry, Present
    <3>3. Interval \in Nat
      BY CacheAssumption
    <3> QED
      BY <1>1, <3>1, <3>2, <3>3 DEF Spacing, Suppressed
  <2> QED
    BY <2>3, <2>4
<1>5. CASE Snapshot
  <2>1. PruneRel(entries, entries', now)
    BY <1>5, SnapshotEffect
  <2> QED
    BY <1>1, <1>2, <2>1 DEF PruneRel, Shrinks
<1>6. CASE Clear
  BY <1>1, <1>2, <1>6 DEF Clear
<1>7. CASE Tick \/ UNCHANGED cacheVars
  BY <1>2, <1>7 DEF Tick, cacheVars
<1> QED
  BY <1>3, <1>4, <1>5, <1>6, <1>7 DEF CacheStep

\* lookup_for_retransmission suppresses: between two retransmissions of a packet
\* there is the minimum interval, however many compound packets ask for it and
\* whatever else happens to the cache in between.
THEOREM RetransmissionsKeepTheirDistance == Spec => RetransmissionsAreSpaced
<1>1. Init => CacheInv
  BY InitCache
<1>2. CacheInv /\ [Next]_vars => CacheInv'
  BY NextCache
<1>3. ASSUME CacheInv, [Next]_vars
      PROVE  \A k \in Present(entries) :
               LET e == entries[k]
               IN entries'[k] # None /\ entries'[k].serial = e.serial /\ entries'[k].sentAt # e.sentAt
                  /\ e.sentAt # None => entries'[k].sentAt - e.sentAt >= Interval
  BY <1>3, NextCacheStep, SpacingStep DEF Spacing
<1> QED
  BY <1>1, <1>2, <1>3, PTL DEF Spec, RetransmissionsAreSpaced

-----------------------------------------------------------------------------
(* The oldest packets leave first.                                         *)

\* The entries E, or D where there is one; Since are those that count when k goes.
Merged(E, D) == [j \in Keys |-> IF D[j] # None THEN D[j] ELSE E[j]]

Since(E, D, k) == Present(D) \cup After(E, k)

LEMMA SinceFacts ==
  ASSUME NEW E \in Entries, NEW D \in Entries, NEW k \in Present(E), E[k].serial \in Nat
  PROVE  /\ IsFiniteSet(Since(E, D, k)) /\ Sized(Merged(E, D), Since(E, D, k))
         /\ k \in Since(E, D, k) /\ Since(E, D, k) \subseteq Keys
<1>1. /\ IsFiniteSet(Present(E)) /\ Sized(E, Present(E)) /\ Present(E) \subseteq Keys
      /\ IsFiniteSet(Present(D)) /\ Sized(D, Present(D)) /\ Present(D) \subseteq Keys
  BY EntryFacts
<1>2. After(E, k) \subseteq Present(E) /\ k \in After(E, k)
  BY DEF After
<1>3. IsFiniteSet(Since(E, D, k))
  BY <1>1, <1>2, FS_Subset, FS_Union DEF Since
<1>4. ASSUME NEW j \in Since(E, D, k) PROVE Merged(E, D)[j].size \in Nat
  <2>1. j \in Keys
    BY <1>1, <1>2 DEF Since
  <2>2. CASE D[j] # None
    <3>1. Merged(E, D)[j] = D[j] /\ j \in Present(D)
      BY <2>1, <2>2 DEF Merged, Present
    <3> QED
      BY <1>1, <3>1 DEF Sized
  <2>3. CASE D[j] = None
    <3>1. Merged(E, D)[j] = E[j] /\ j \in Present(E)
      BY <1>2, <2>1, <2>3 DEF Merged, Present, Since
    <3> QED
      BY <1>1, <3>1 DEF Sized
  <2> QED
    BY <2>2, <2>3
<1> QED
  BY <1>1, <1>2, <1>3, <1>4 DEF Sized, Since

\* The sum in OldestLeaveFirst.
LEMMA MergedSum ==
  ASSUME NEW E, NEW D, NEW S \in SUBSET Keys, IsFiniteSet(S), Sized(Merged(E, D), S)
  PROVE  LET size(j) == IF D[j] # None THEN D[j].size ELSE E[j].size
         IN MapThenSumSet(size, S) = Bytes(Merged(E, D), S)
<1> DEFINE size(j) == IF D[j] # None THEN D[j].size ELSE E[j].size
           F == Merged(E, D)
           Q(f) == f = [s \in SUBSET S |-> IF s = {} THEN 0
                                           ELSE size(Pick(s)) + f[s \ {Pick(s)}]]
           c == CHOOSE f : Q(f)
<1>1. MapThenSumSet(size, S) = c[S]
  BY DEF MapThenSumSet, MapThenFoldSet, Pick
<1>2. PICK w \in [S -> Nat] : \E f : SumsBytes(F, S, w, f)
  BY BytesOf DEF Sized
<1>3. PICK g : SumsBytes(F, S, w, g)
  BY <1>2
<1>4. \A x \in S : w[x] = size(x)
  <2>1. \A x \in S : w[x] = F[x].size
    BY <1>3 DEF SumsBytes
  <2>2. \A x \in S : F[x] = IF D[x] # None THEN D[x] ELSE E[x]
    BY DEF Merged
  <2> HIDE DEF F
  <2> QED
    BY <2>1, <2>2
<1>5. ASSUME NEW f PROVE Q(f) <=> IsSum(f, w, S)
  <2>1. ASSUME NEW s \in SUBSET S
        PROVE  SumStep(f, w, s) = IF s = {} THEN 0 ELSE size(Pick(s)) + f[s \ {Pick(s)}]
    <3>1. CASE s = {}
      BY <3>1 DEF SumStep
    <3>2. CASE s # {}
      <4>1. Pick(s) \in S
        BY <3>2, PickOf
      <4>2. w[Pick(s)] = size(Pick(s))
        BY <1>4, <4>1
      <4> HIDE DEF size
      <4> QED
        BY <3>2, <4>2 DEF SumStep
    <3> QED
      BY <3>1, <3>2
  <2> HIDE DEF size
  <2> QED
    BY <2>1 DEF IsSum
<1>6. Q(c)
  <2>1. Q(g)
    BY <1>3, <1>5 DEF SumsBytes
  <2> HIDE DEF Q
  <2> QED
    BY <2>1
<1> HIDE DEF c, size
<1>7. IsSum(c, w, S)
  BY <1>5, <1>6
<1>8. c[S] = g[S]
  <2>1. IsSum(g, w, S)
    BY <1>3 DEF SumsBytes
  <2> QED
    BY <1>7, <2>1, SumsAgree
<1>9. Bytes(F, S) = g[S]
  BY <1>3 DEF SumsBytes
<1> QED
  BY <1>1, <1>8, <1>9 DEF size

\* The cache is within its limits before the step, so no part of it exceeds one.
LEMMA NotExceeding ==
  ASSUME CacheInv, NEW S \in SUBSET Present(entries)
  PROVE  ~Exceeds(entries, S)
<1>1. /\ entries \in Entries /\ byteCount = Bytes(entries, Present(entries))
      /\ Cardinality(Present(entries)) <= MaxPackets /\ byteCount <= MaxBytes
  BY DEF CacheInv, CacheOK, CacheTyped, Cache, WithinLimits
<1>2. IsFiniteSet(Present(entries)) /\ Sized(entries, Present(entries))
  BY <1>1, EntryFacts
<1>3. Cardinality(Present(entries)) \in Nat /\ Bytes(entries, Present(entries)) \in Nat
  BY <1>2, BytesFacts, FS_CardinalityType
<1>4. ~Exceeds(entries, Present(entries))
  BY <1>1, <1>3, CacheAssumption DEF Exceeds
<1> QED
  BY <1>2, <1>4, ExceedsMore, ZenonT(40)

Leaves(E, D, k) ==
  /\ \A j \in Present(D) : D[j].serial > E[k].serial
  /\ now - E[k].storedAt > MaxAge \/ Exceeds(Merged(E, D), Since(E, D, k))

\* Operations that store nothing remove only what is too old.
LEMMA OnlyByAge ==
  ASSUME CacheInv, NEW E \in Entries, PruneRel(entries, E, now),
         NEW k \in Present(entries) \ Present(E)
  PROVE  /\ \A j \in Present(E) : E[j].serial > entries[k].serial
         /\ now - entries[k].storedAt > MaxAge
<1>1. After(entries, k) \in SUBSET Present(entries)
  BY DEF After
<1>2. ~Exceeds(entries, After(entries, k))
  BY <1>1, NotExceeding
<1> QED
  BY <1>2 DEF PruneRel

\* The packet that is stored stays, unless the cache holds none.
LEMMA StoredStays ==
  ASSUME now \in Nat, nextSerial \in Nat, NEW E \in Entries, NEW D \in Entries, NEW F \in Entries,
         NEW q \in Keys, StoredRel(E, D, q), PruneRel(D, F, now),
         \A j \in Present(E) : E[j].serial \in 1..nextSerial - 1, q \notin Present(F)
  PROVE  MaxPackets = 0
<1>1. /\ D[q].serial = nextSerial /\ D[q].storedAt = now /\ D[q].size \in Sizes /\ q \in Present(D)
  BY DEF StoredRel
<1>2. After(D, q) = {q}
  <2>1. ASSUME NEW j \in After(D, q), j # q PROVE FALSE
    <3>1. j \in Present(D) /\ D[j].serial >= nextSerial
      BY <1>1 DEF After
    <3>2. j \in Present(E) /\ D[j] = E[j]
      BY <2>1, <3>1 DEF StoredRel, Present
    <3>3. D[j].serial \in 1..nextSerial - 1
      BY <3>2
    <3> QED
      BY <3>1, <3>3
  <2>2. q \in After(D, q)
    BY <1>1 DEF After
  <2> QED
    BY <2>1, <2>2
<1>3. now - now > MaxAge \/ Exceeds(D, {q})
  <2>1. now - D[q].storedAt > MaxAge \/ Exceeds(D, After(D, q))
    BY <1>1 DEF PruneRel
  <2> QED
    BY <1>1, <1>2, <2>1, Zenon
<1>4. ~(now - now > MaxAge) /\ MaxPackets \in Nat /\ MaxBytes \in Nat /\ D[q].size \in 1..MaxBytes
  <2>1. MaxAge \in Nat /\ MaxPackets \in Nat /\ MaxBytes \in Nat /\ Sizes \subseteq 1..MaxBytes
    BY CacheAssumption
  <2>2. ~(now - now > MaxAge)
    BY <2>1
  <2> QED
    BY <1>1, <2>1, <2>2
<1>5. Cardinality({q}) = 1
  BY FS_Singleton
<1>6. Bytes(D, {q}) = D[q].size
  <2>1. IsFiniteSet({q}) /\ Sized(D, {q}) /\ q \in {q} /\ {q} \ {q} = {}
    <3>1. D[q].size \in Nat
      BY <1>4
    <3>2. Sized(D, {q})
      BY <3>1 DEF Sized
    <3>3. IsFiniteSet({q})
      BY FS_Singleton
    <3> QED
      BY <3>2, <3>3
  <2>2. Bytes(D, {q}) = D[q].size + Bytes(D, {q} \ {q})
    BY <2>1, BytesLess
  <2>3. Bytes(D, {q} \ {q}) = Bytes(D, {})
    BY <2>1, Zenon
  <2>4. Bytes(D, {}) = 0
    BY <2>1, BytesFacts
  <2> QED
    BY <1>4, <2>2, <2>3, <2>4
<1> QED
  BY <1>3, <1>4, <1>5, <1>6 DEF Exceeds

LEMMA RememberLeaves ==
  ASSUME CacheInv, NEW q \in Keys, NEW size \in Sizes, Remember(q, size), NEW F, F = entries',
         NEW k \in Present(entries) \ Present(F)
  PROVE  F \in Entries /\ Leaves(entries, F, k)
<1>1. PICK E, D \in Entries : /\ PruneRel(entries, E, now) /\ StoredRel(E, D, q)
                              /\ PruneRel(D, F, now)
  BY RememberEffect, Zenon
<1>2. /\ entries \in Entries /\ now \in Nat /\ nextSerial \in Nat
      /\ \A j \in Present(entries) : entries[j].serial \in 1..nextSerial - 1
  BY CacheAssumption DEF CacheInv, CacheOK, CacheTyped, Cache
<1>3. F \in Entries
  <2>1. CacheInv'
    BY RememberEffect, Zenon
  <2> QED
    BY <2>1 DEF CacheInv, CacheOK, CacheTyped, Cache
<1>4. /\ \A j \in Present(E) : j \in Present(entries) /\ E[j] = entries[j]
      /\ \A j \in Present(F) : j \in Present(D) /\ F[j] = D[j]
  BY <1>1 DEF PruneRel, Shrinks, Present
<1>5. \A j \in Present(D) : j = q \/ (j \in Present(E) /\ D[j] = E[j])
  BY <1>1 DEF StoredRel, Present
<1>6. D[q].serial = nextSerial /\ q \in Present(D)
  BY <1>1 DEF StoredRel
<1>7. \A j \in Present(E) : E[j].serial \in 1..nextSerial - 1
  BY <1>2, <1>4
<1>8. /\ IsFiniteSet(Since(entries, F, k)) /\ Sized(Merged(entries, F), Since(entries, F, k))
      /\ k \in Since(entries, F, k)
  <2>1. entries[k].serial \in Nat
    BY <1>2, EntryFacts
  <2> QED
    BY <1>2, <1>3, <2>1, SinceFacts
<1>9. CASE k \notin Present(E)
  <2>1. /\ \A j \in Present(E) : E[j].serial > entries[k].serial
        /\ now - entries[k].storedAt > MaxAge
    BY <1>1, <1>9, OnlyByAge
  <2>2. ASSUME NEW j \in Present(F) PROVE F[j].serial > entries[k].serial
    <3>1. F[j] = D[j] /\ j \in Present(D)
      BY <1>4
    <3>2. CASE j = q
      BY <1>2, <1>6, <3>1, <3>2
    <3>3. CASE j # q
      BY <1>5, <2>1, <3>1, <3>3
    <3> QED
      BY <3>2, <3>3
  <2> QED
    BY <1>3, <2>1, <2>2 DEF Leaves
<1>10. CASE k \in Present(E)
  <2>1. E[k] = entries[k] /\ k \in Present(D) \ Present(F)
    BY <1>1, <1>4, <1>6, <1>10 DEF StoredRel, Present
  <2>2. /\ \A j \in Present(F) : F[j].serial > D[k].serial
        /\ now - D[k].storedAt > MaxAge \/ Exceeds(D, After(D, k))
    BY <1>1, <2>1 DEF PruneRel
  <2>3. \A j \in Present(F) : F[j].serial > entries[k].serial
    <3>1. CASE k = q
      <4>1. \A j \in Present(F) : F[j].serial \in Nat
        BY <1>3, EntryFacts, Zenon
      <4>2. entries[k].serial < D[k].serial /\ entries[k].serial \in Nat /\ D[k].serial \in Nat
        BY <1>2, <1>6, <3>1
      <4> QED
        BY <2>2, <4>1, <4>2
    <3>2. CASE k # q
      BY <1>5, <2>1, <2>2, <3>2
    <3> QED
      BY <3>1, <3>2
  <2>4. CASE q \notin Present(F)
    <3>1. MaxPackets = 0
      BY <1>1, <1>2, <1>3, <1>7, <2>4, StoredStays
    <3>2. Cardinality(Since(entries, F, k)) > 0
      <4>1. Cardinality(Since(entries, F, k)) \in Nat /\ Cardinality(Since(entries, F, k)) # 0
        BY <1>8, FS_CardinalityType, FS_EmptySet
      <4> QED
        BY <4>1
    <3> QED
      BY <1>3, <2>3, <3>1, <3>2 DEF Leaves, Exceeds
  <2>5. CASE q \in Present(F)
    <3>1. k # q /\ D[k] = entries[k]
      BY <1>5, <2>1, <2>5
    <3>2. ASSUME NEW j \in After(D, k)
          PROVE  j \in Since(entries, F, k) /\ Merged(entries, F)[j].size = D[j].size
      <4>1. j \in Present(D) /\ D[j].serial >= entries[k].serial /\ j \in Keys
        BY <3>1 DEF After, Present
      <4>2. CASE F[j] # None
        <5>1. j \in Present(F) /\ F[j] = D[j]
          BY <1>4, <4>1, <4>2 DEF Present
        <5> QED
          BY <4>1, <4>2, <5>1 DEF Since, Merged
      <4>3. CASE F[j] = None
        <5>1. j # q /\ j \in Present(entries) /\ D[j] = entries[j]
          BY <1>4, <1>5, <2>5, <4>1, <4>3 DEF Present
        <5>2. j \in After(entries, k)
          BY <4>1, <5>1 DEF After
        <5> QED
          BY <4>1, <4>3, <5>1, <5>2 DEF Since, Merged
      <4> QED
        BY <4>2, <4>3
    <3>3. ASSUME Exceeds(D, After(D, k)) PROVE Exceeds(Merged(entries, F), Since(entries, F, k))
      <4>1. After(D, k) \in SUBSET Since(entries, F, k)
        BY <3>2
      <4>2. IsFiniteSet(After(D, k)) /\ Sized(D, After(D, k))
        <5>1. IsFiniteSet(Present(D)) /\ Sized(D, Present(D)) /\ After(D, k) \subseteq Present(D)
          BY EntryFacts DEF After
        <5> QED
          BY <5>1, FS_Subset DEF Sized
      <4>3. Bytes(Merged(entries, F), After(D, k)) = Bytes(D, After(D, k))
        BY <3>2, <4>2, BytesSame
      <4>4. Exceeds(Merged(entries, F), After(D, k))
        BY <3>3, <4>3 DEF Exceeds
      <4> QED
        BY <1>8, <4>1, <4>4, ExceedsMore, ZenonT(40)
    <3> QED
      BY <1>3, <2>2, <2>3, <3>1, <3>3 DEF Leaves
  <2> QED
    BY <2>4, <2>5
<1> QED
  BY <1>9, <1>10

LEMMA LeavingStep ==
  ASSUME CacheInv, CacheStep, nextSerial' >= nextSerial, NEW F, F = entries',
         NEW k \in Present(entries) \ Present(F)
  PROVE  F \in Entries /\ Leaves(entries, F, k)
<1>1. entries[k].serial \in 1..nextSerial - 1 /\ k \in Keys /\ nextSerial \in Nat
  BY CacheAssumption DEF CacheInv, CacheOK, CacheTyped, Cache, Present
<1>2. F \in Entries
  <2>1. CacheInv'
    BY StepCache
  <2> QED
    BY <2>1 DEF CacheInv, CacheOK, CacheTyped, Cache
<1>3. ASSUME NEW q \in Keys, NEW size \in Sizes, Remember(q, size) PROVE Leaves(entries, F, k)
  BY <1>3, RememberLeaves, Zenon
<1>4. ASSUME NEW K \in SUBSET Keys, NEW hits \in SUBSET K, Nack(K, hits) PROVE Leaves(entries, F, k)
  <2>1. PICK E \in Entries : PruneRel(entries, E, now) /\ HitRel(E, F)
    BY <1>4, NackEffect, Zenon
  <2>2. \A j \in Keys : (j \in Present(E) <=> j \in Present(F)) /\ F[j].serial = E[j].serial
    BY <2>1 DEF HitRel, Present
  <2>3. k \in Present(entries) \ Present(E)
    BY <1>1, <2>2
  <2>4. /\ \A j \in Present(E) : E[j].serial > entries[k].serial
        /\ now - entries[k].storedAt > MaxAge
    BY <2>1, <2>3, OnlyByAge
  <2>5. \A j \in Present(F) : j \in Keys
    BY DEF Present
  <2> QED
    BY <2>2, <2>4, <2>5 DEF Leaves
<1>5. CASE Snapshot
  <2>1. PruneRel(entries, F, now)
    BY <1>5, SnapshotEffect
  <2>2. /\ \A j \in Present(F) : F[j].serial > entries[k].serial
        /\ now - entries[k].storedAt > MaxAge
    BY <1>2, <2>1, OnlyByAge
  <2> QED
    BY <1>2, <2>2 DEF Leaves
<1>6. CASE Clear
  BY <1>1, <1>6 DEF Clear
<1>7. CASE Tick \/ UNCHANGED cacheVars
  BY <1>7 DEF Tick, cacheVars
<1> QED
  BY <1>2, <1>3, <1>4, <1>5, <1>6, <1>7 DEF CacheStep

\* prune takes the oldest packets, and none that it need not take: what a step
\* removes was too old, or exceeds a limit together with all that was stored
\* after it, and what is left was stored after it.
THEOREM TheOldestLeaveFirst == Spec => OldestLeaveFirst
<1>1. Init => CacheInv
  BY InitCache
<1>2. CacheInv /\ [Next]_vars => CacheInv'
  BY NextCache
<1>3. ASSUME CacheInv, [Next]_vars
      PROVE  nextSerial' >= nextSerial =>
               \A k \in Present(entries) \ Present(entries') :
                 LET size(j) == IF entries'[j] # None THEN entries'[j].size ELSE entries[j].size
                     since == Present(entries') \cup
                                {j \in Present(entries) : entries[j].serial >= entries[k].serial}
                 IN /\ \A j \in Present(entries') : entries'[j].serial > entries[k].serial
                    /\ \/ now - entries[k].storedAt > MaxAge
                       \/ Cardinality(since) > MaxPackets
                       \/ MapThenSumSet(size, since) > MaxBytes
  <2> HAVE nextSerial' >= nextSerial
  <2> TAKE k \in Present(entries) \ Present(entries')
  <2> DEFINE F == entries'
             size(j) == IF F[j] # None THEN F[j].size ELSE entries[j].size
             since == Since(entries, F, k)
  <2>1. F \in Entries /\ Leaves(entries, F, k)
    BY <1>3, NextCacheStep, LeavingStep
  <2>2. entries \in Entries /\ entries[k].serial \in Nat
    <3>1. entries \in Entries
      BY <1>3 DEF CacheInv, CacheOK, CacheTyped, Cache
    <3> QED
      BY <3>1, EntryFacts
  <2>3. IsFiniteSet(since) /\ Sized(Merged(entries, F), since) /\ since \in SUBSET Keys
    BY <2>1, <2>2, SinceFacts
  <2>4. MapThenSumSet(size, since) = Bytes(Merged(entries, F), since)
    <3> HIDE DEF since, F
    <3> QED
      BY <2>3, MergedSum
  <2>5. since = Present(entries') \cup
                  {j \in Present(entries) : entries[j].serial >= entries[k].serial}
    BY DEF Since, After
  <2> QED
    BY <2>1, <2>4, <2>5 DEF Leaves, Exceeds
<1> QED
  BY <1>1, <1>2, <1>3, PTL DEF Spec, OldestLeaveFirst
=============================================================================
