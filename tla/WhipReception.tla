--------------------------- MODULE WhipReception ---------------------------
(***************************************************************************)
(* What a WHIP transport keeps about the packets of its publisher: the     *)
(* receive statistics of every source (rtp_receive_statistics), which      *)
(* receiver reports are made from, and the arrivals by transport-wide      *)
(* sequence number (transport_feedback_generator), which transport-cc      *)
(* feedback is made from.  Both see numbers modulo SeqMod and count in     *)
(* extended numbers.                                                       *)
(*                                                                         *)
(* The sender numbers its packets with integers; the network may lose,     *)
(* repeat, delay and reorder them.  A packet with number n carries n       *)
(* modulo SeqMod, as RTP and as transport-wide number.                     *)
(***************************************************************************)
EXTENDS Integers, FiniteSetsExt

CONSTANTS
  Ssrcs,          \* natural numbers
  Codecs,         \* inbound_payload_types_: kind, and transport-cc enabled
  MaxSources,     \* k_maximum_rtp_sources
  MaxBlocks,      \* k_maximum_rtcp_report_blocks
  SeqMod,         \* k_sequence_number_modulus, k_sequence_modulus
  Dropout, Misorder,
  MaxJump,        \* k_maximum_sequence_jump
  StatusLimit,    \* k_maximum_statuses_per_feedback
  HistoryLimit,   \* maximum_history_packets
  MaxDatagrams,   \* k_maximum_transport_feedback_datagrams_per_interval
  FirstNumbers,   \* numbers of the first packet
  MaxNumber,      \* bound: numbers the sender uses
  MaxPackets,     \* bound: packets that arrive
  None

VARIABLES
  receivers,      \* inbound_rtcp_receivers_: None, or kind and statistics
  feedback,       \* transport_feedback_generator_
  numbers,        \* auxiliary: per source the numbers of the packets that
                  \* base and maximum stand for
  shift,          \* auxiliary: extended number minus number
  reported,       \* auxiliary: per source the sums of what reports said
  told,           \* auxiliary: numbers that feedback said were received
  packets         \* packets that arrived, which is also the clock of arrivals

vars == <<receivers, feedback, numbers, shift, reported, told, packets>>

ASSUME ReceptionAssumption ==
  /\ Ssrcs \subseteq Nat /\ IsFiniteSet(Ssrcs)
  /\ {SeqMod, Dropout, Misorder, MaxJump, StatusLimit} \subseteq Nat \ {0}
  /\ {MaxSources, HistoryLimit, MaxDatagrams, MaxNumber, MaxPackets} \subseteq Nat
  /\ Dropout + Misorder <= SeqMod
  /\ 2 * MaxJump < SeqMod
  /\ None \notin Int \cup [first: Nat, top: Nat]

-----------------------------------------------------------------------------
(* rtp_receive_statistics *)

\* bad_sequence_number_ when no number is suspect: k_sequence_number_modulus + 1
NoSuspect == SeqMod + 1

\* initialize_sequence, and the packet is counted.
Initialized(q) ==
  [base |-> q, max |-> q, bad |-> NoSuspect, cycles |-> 0,
   received |-> 1, expPrior |-> 0, recPrior |-> 0]

\* What update_sequence takes a number for: the first, in order (or a little
\* ahead), suspect, the second in a row of a sender that restarted, or late.
Verdict(st, q) ==
  IF st = None THEN "first"
  ELSE LET delta == (q - st.max + SeqMod) % SeqMod
       IN IF delta < Dropout THEN "ahead"
          ELSE IF delta > SeqMod - Misorder THEN "late"
          ELSE IF q = st.bad THEN "restart" ELSE "suspect"

\* Faulty: a number equal to the maximum counts as a wrap.
UpdatedEagerWrap(st, q) ==
  CASE Verdict(st, q) \in {"first", "restart"} -> Initialized(q)
    [] Verdict(st, q) = "suspect" -> [st EXCEPT !.bad = (q + 1) % SeqMod]
    [] Verdict(st, q) = "late" -> [st EXCEPT !.received = @ + 1]
    [] Verdict(st, q) = "ahead" ->
         [st EXCEPT !.max = q,
                    !.cycles = IF q <= st.max THEN @ + SeqMod ELSE @,
                    !.received = @ + 1]

\* update_sequence
Updated(st, q) ==
  CASE Verdict(st, q) \in {"first", "restart"} -> Initialized(q)
    [] Verdict(st, q) = "suspect" -> [st EXCEPT !.bad = (q + 1) % SeqMod]
    [] Verdict(st, q) = "late" -> [st EXCEPT !.received = @ + 1]
    [] Verdict(st, q) = "ahead" ->
         [st EXCEPT !.max = q,
                    !.cycles = IF q < st.max THEN @ + SeqMod ELSE @,
                    !.received = @ + 1]

\* expected_packet_count
Expected(st) == st.cycles + st.max - st.base + 1

\* preview_report: packets expected and lost since the last report, lost in all
Report(st) ==
  [expected |-> Expected(st) - st.expPrior,
   lost |-> Expected(st) - st.expPrior - (st.received - st.recPrior),
   cumulative |-> Expected(st) - st.received]

\* commit_report
Committed(st) == [st EXCEPT !.expPrior = Expected(st), !.recPrior = st.received]

-----------------------------------------------------------------------------
(* transport_feedback_generator *)

\* arrivals: extended number and time of arrival, with the sender's number.
NewFeedback == [newest |-> None, start |-> None, arrivals |-> {}]

\* unwrap_sequence: the extended number nearest to the newest one.
Nearest(newest, q) ==
  LET c == newest - (newest % SeqMod) + q
  IN IF 2 * (c - newest) > SeqMod THEN c - SeqMod
     ELSE IF 2 * (newest - c) > SeqMod THEN c + SeqMod
     ELSE c

Extended(c, q) == IF c.newest = None THEN q ELSE Nearest(c.newest, q)

Discontinuity(c, x) ==
  c.newest # None /\ (x - c.newest > MaxJump \/ c.newest - x > MaxJump)

\* Faulty: the window never moves back.
EnteredAhead(c, x, n) ==
  LET arrival == [ext |-> x, n |-> n, at |-> packets]
  IN IF Discontinuity(c, x)
     THEN [newest |-> x, start |-> x, arrivals |-> {arrival}]
     ELSE IF \E a \in c.arrivals : a.ext = x THEN c
     ELSE [newest |-> IF c.newest = None \/ x > c.newest THEN x ELSE c.newest,
           start |-> IF c.start = None THEN x ELSE c.start,
           arrivals |-> c.arrivals \cup {arrival}]

\* The generator after unwrap_sequence and try_emplace of extended number x;
\* n is the sender's number for it.
Entered(c, x, n) ==
  LET arrival == [ext |-> x, n |-> n, at |-> packets]
  IN IF Discontinuity(c, x)
     THEN [newest |-> x, start |-> x, arrivals |-> {arrival}]
     ELSE IF \E a \in c.arrivals : a.ext = x THEN c
     ELSE [newest |-> IF c.newest = None \/ x > c.newest THEN x ELSE c.newest,
           start |-> IF c.start = None \/ x < c.start THEN x ELSE c.start,
           arrivals |-> c.arrivals \cup {arrival}]

Earliest(A) == Min({a.ext : a \in A})

\* evict_old, what arrived before the time cutoff being too old.
Evicted(c, cutoff) ==
  LET young == {a \in c.arrivals : a.at >= cutoff}
      kept == {a \in young : Cardinality({b \in young : b.ext > a.ext}) < HistoryLimit}
  IN [c EXCEPT
        !.arrivals = kept,
        !.start = IF c.start = None THEN None
                  ELSE IF kept = {} THEN c.newest + 1
                  ELSE Max({c.start, Earliest(kept) - (StatusLimit - 1)})]

\* has_pending_feedback
HasPending(c) == c.start # None /\ c.start <= c.newest

\* preview_feedback and commit_feedback: the states after one datagram.  How
\* many statuses fit depends on their encoding.  None if nothing is pending or
\* no packet of the range is known (the "no received packet" error).
AfterDatagram(c) ==
  LET last == Min({c.newest, c.start + StatusLimit - 1})
  IN IF HasPending(c) /\ \E a \in c.arrivals : a.ext \in c.start..last
     THEN {[c EXCEPT !.start = end + 1] : end \in c.start..last}
     ELSE {}

\* The states the loop of send_transport_feedback can stop in.
AfterLoop(c) ==
  LET after[d \in 0..MaxDatagrams] ==
        IF d = 0 THEN {c}
        ELSE after[d - 1] \cup UNION {AfterDatagram(x) : x \in after[d - 1]}
  IN after[MaxDatagrams]

-----------------------------------------------------------------------------
(* whip_session_transport *)

Known == {s \in Ssrcs : receivers[s] # None}

Active == {s \in Known : receivers[s].stats # None}

Init ==
  /\ receivers = [s \in Ssrcs |-> None]
  /\ feedback = NewFeedback
  /\ numbers = [s \in Ssrcs |-> None]
  /\ shift = 0
  /\ reported = [s \in Ssrcs |-> [expected |-> 0, lost |-> 0]]
  /\ told = {}
  /\ packets = 0

\* The numbers the network may deliver next for source s: displaced by less
\* than what makes a number ambiguous modulo SeqMod.
Deliverable(s, n) ==
  /\ IF numbers[s] = None THEN n \in FirstNumbers
     ELSE n - numbers[s].top \in (1 - Misorder)..(SeqMod - Misorder)
  /\ feedback.newest # None =>
       n + shift - feedback.newest \in (MaxJump - SeqMod + 1)..(SeqMod - MaxJump - 1)

\* record_inbound_rtp, the transport-cc part: has says that the packet has a
\* valid extension.
ObserveTransport(codec, n, has, cutoff) ==
  IF codec.cc /\ has
  THEN LET x == Extended(feedback, n % SeqMod)
           c == Entered(feedback, x, n)
       IN /\ feedback' = Evicted(c, cutoff)
          /\ shift' = IF feedback.newest = None \/ Discontinuity(feedback, x)
                      THEN x - n ELSE shift
  ELSE cutoff = 0 /\ UNCHANGED <<feedback, shift>>

\* record_inbound_rtp, the receive statistics
ObserveSource(s, codec, n) ==
  IF \/ s \notin Known /\ Cardinality(Known) >= MaxSources
     \/ s \in Known /\ receivers[s].kind \notin {None, codec.kind}
  THEN UNCHANGED <<receivers, numbers, reported>>
  ELSE LET st == IF s \in Known THEN receivers[s].stats ELSE None
           verdict == Verdict(st, n % SeqMod)
       IN /\ receivers' = [receivers EXCEPT
                ![s] = [kind |-> codec.kind, stats |-> Updated(st, n % SeqMod)]]
          /\ numbers' = [numbers EXCEPT
                ![s] = CASE verdict \in {"first", "restart"} -> [first |-> n, top |-> n]
                         [] verdict = "ahead" -> [@ EXCEPT !.top = n]
                         [] OTHER -> @]
          /\ reported' = IF verdict \in {"first", "restart"}
                         THEN [reported EXCEPT ![s] = [expected |-> 0, lost |-> 0]]
                         ELSE reported

\* record_inbound_rtp
Packet(s, codec, n, has, cutoff) ==
  /\ packets < MaxPackets
  /\ Deliverable(s, n)
  /\ ObserveTransport(codec, n, has, cutoff)
  /\ ObserveSource(s, codec, n)
  /\ packets' = packets + 1
  /\ UNCHANGED told

\* update_receiver_sender_report: a sender report makes its source known.
SenderReport(s) ==
  /\ s \notin Known
  /\ Cardinality(Known) < MaxSources
  /\ receivers' = [receivers EXCEPT ![s] = [kind |-> None, stats |-> None]]
  /\ UNCHANGED <<feedback, numbers, shift, reported, told, packets>>

\* handle_inbound_byes
Bye(s) ==
  /\ s \in Known
  /\ receivers' = [receivers EXCEPT ![s] = None]
  /\ numbers' = [numbers EXCEPT ![s] = None]
  /\ UNCHANGED <<feedback, shift, reported, told, packets>>

\* The packet of a round of reports that has the block of s; sources are sorted.
BlockOf(s) == (Cardinality({t \in Active : t < s})) \div MaxBlocks

\* Faulty: what was reported is committed although the packet was not sent.
SendReceiverReportsUnsent(sent) ==
  /\ Active # {}
  /\ receivers' = [s \in Ssrcs |->
                     IF s \in Active THEN [receivers[s] EXCEPT !.stats = Committed(@)]
                     ELSE receivers[s]]
  /\ reported' = [s \in Ssrcs |->
                    IF s \in Active /\ BlockOf(s) \in sent
                    THEN LET r == Report(receivers[s].stats)
                         IN [expected |-> reported[s].expected + r.expected,
                             lost |-> reported[s].lost + r.lost]
                    ELSE reported[s]]
  /\ UNCHANGED <<feedback, numbers, shift, told, packets>>

\* handle_rtcp_receiver_reports: one round of reports; the packets of sent are
\* built, protected and sent, those of the others fail.
SendReceiverReports(sent) ==
  /\ Active # {}
  /\ receivers' = [s \in Ssrcs |->
                     IF s \in Active /\ BlockOf(s) \in sent
                     THEN [receivers[s] EXCEPT !.stats = Committed(@)]
                     ELSE receivers[s]]
  /\ reported' = [s \in Ssrcs |->
                    IF s \in Active /\ BlockOf(s) \in sent
                    THEN LET r == Report(receivers[s].stats)
                         IN [expected |-> reported[s].expected + r.expected,
                             lost |-> reported[s].lost + r.lost]
                    ELSE reported[s]]
  /\ UNCHANGED <<feedback, numbers, shift, told, packets>>

\* handle_transport_feedback_timer: expire, then up to MaxDatagrams datagrams,
\* fewer when one cannot be built or protected.
SendTransportFeedback(cutoff) ==
  /\ LET c == Evicted(feedback, cutoff)
     IN \E next \in AfterLoop(c) :
          /\ feedback' = next
          /\ told' = told \cup {a.n : a \in {b \in c.arrivals :
                                             b.ext >= c.start /\ b.ext < next.start}}
  /\ UNCHANGED <<receivers, numbers, shift, reported, packets>>

Next ==
  \/ \E s \in Ssrcs, codec \in Codecs, n \in 0..MaxNumber, has \in BOOLEAN,
        cutoff \in 0..packets :
       Packet(s, codec, n, has, cutoff)
  \/ \E s \in Ssrcs : SenderReport(s) \/ Bye(s)
  \/ \E sent \in SUBSET (0..Cardinality(Ssrcs) - 1) : SendReceiverReports(sent)
  \/ \E cutoff \in 0..packets : SendTransportFeedback(cutoff)

Spec == Init /\ [][Next]_vars

-----------------------------------------------------------------------------

Statistics ==
  [base: 0..SeqMod - 1, max: 0..SeqMod - 1, bad: 0..SeqMod + 1, cycles: Nat,
   received: Nat, expPrior: Nat, recPrior: Nat]

\* Receivers and generator have their types and stay within their limits, for
\* sources known from RTP and from sender reports together.
TypeOK ==
  /\ \A s \in Known : receivers[s].stats \in Statistics \cup {None}
  /\ Cardinality(Known) <= MaxSources
  /\ Cardinality(feedback.arrivals) <= HistoryLimit
  /\ (feedback.newest = None) = (feedback.start = None)

\* The extended numbers count what the sender sent, however the numbers wrap,
\* repeat and come late, across restarts: the packets expected of a source are
\* those from its first to its newest, and the numbers of all arrivals are the
\* sender's, up to one common shift, within the limits of sources and arrivals.
NumbersAreTrue ==
  /\ TypeOK
  /\ \A s \in Active :
       Expected(receivers[s].stats) = numbers[s].top - numbers[s].first + 1
  /\ \A a \in feedback.arrivals :
       /\ a.ext = a.n + shift
       /\ a.ext <= feedback.newest

\* Receiver reports add up: every packet expected or received of a source is in
\* the interval of exactly one report that was sent, whatever reports failed,
\* so the intervals' losses sum up to the cumulative loss last reported.
ReportsAddUp ==
  \A s \in Active :
    LET st == receivers[s].stats
    IN /\ reported[s].expected = st.expPrior
       /\ reported[s].lost = st.expPrior - st.recPrior

\* No packet that arrived is passed over: as long as the history has it, it is
\* in the window of the next feedback or was reported as received, however the
\* window is moved by late packets, expiry and failed datagrams.
ArrivalsAreReported ==
  \A a \in feedback.arrivals : a.ext >= feedback.start \/ a.n \in told
=============================================================================
