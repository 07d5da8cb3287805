---------------------------- MODULE WhepSending ----------------------------
(***************************************************************************)
(* What a WHEP transport sends to its subscriber and what it keeps about   *)
(* it: the packets of the publisher and the retransmissions asked for by   *)
(* NACK (RetransmissionCache), the sender reports that tie the RTP clock   *)
(* of a target SSRC to the wall clock of the publisher, and the history of *)
(* transport-wide sequence numbers that transport feedback is looked up    *)
(* in.                                                                     *)
(*                                                                         *)
(* The times of a publisher's sender reports are only compared for         *)
(* equality: they are numbered as they arrive.  A target RTP timestamp is  *)
(* named by the line of the rewriter (RtpRewriter) it was mapped on.       *)
(* Packet and octet counts matter only as zero or not; the statistics of   *)
(* receiver reports and feedback, and the length of the RTCP interval, are *)
(* left out: the report timer fires at any time.                           *)
(***************************************************************************)
EXTENDS RetransmissionCache

CONSTANTS
  Settings,      \* what subscribers negotiated, see SettingType
  Media,         \* accepted media, in the order of the answer
  Sources,       \* SSRCs of a publisher
  Sessions,      \* publisher sessions
  ReportLimit,   \* k_sender_report_history_size
  SeqMod,        \* 2^16
  HistoryLimit,  \* maximum_history_packets_
  HistoryAge     \* maximum_history_age_

VARIABLES
  setting,     \* chosen at the start and never changed
  closed,      \* closed_
  generation,  \* publisher_source_generation_
  publisher,   \* the session of publisher_source_, or None
  timings,     \* publisher_sender_timings_: per source None or generation and time
  line,        \* of the rewriter, per media: None or source and index in lines
  senders,     \* outbound_rtcp_senders_
  history,     \* history_ of transport_feedback_send_history
  nextNumber,  \* next_extended_sequence_
  reported,    \* history: generation and source of each publisher report
  lines        \* history: media, source and session of each line

sendingVars == <<setting, closed, generation, publisher, timings, line, senders, history,
                 nextNumber, reported, lines>>

vars == <<sendingVars, cacheVars>>

\* nack, rtx, transportCc: negotiated or not; the others are bounds: publications,
\* publisher reports, lines and packets with a transport-wide number; timed says
\* whether the clock moves.
SettingType ==
  [nack: BOOLEAN, rtx: BOOLEAN, transportCc: BOOLEAN, timed: BOOLEAN,
   maxGeneration: Nat, maxReports: Nat, maxLines: Nat, maxNumber: Nat]

ASSUME SendingAssumption ==
  /\ Settings \subseteq SettingType
  /\ Media \subseteq Nat
  /\ SeqMod \in Nat \ {0} /\ SeqMod % 2 = 0
  /\ HistoryLimit \in 1..SeqMod \div 2
  /\ {ReportLimit, HistoryAge} \subseteq Nat
  /\ None \notin Nat \cup Sources \cup Sessions

\* A target SSRC: the media, and whether it is its RTX SSRC.
Senders == Media \X (IF setting.rtx THEN BOOLEAN ELSE {FALSE})

\* configure_outbound_rtcp_senders.  last names the mapping of the last sender
\* report (0 in the code), reports those of sent_sender_reports.
NewSenders == [x \in Senders |-> [sent |-> FALSE, timing |-> None, last |-> None, reports |-> <<>>]]

NoTimings == [s \in Sources |-> None]

Init ==
  /\ CacheInit
  /\ setting \in Settings
  /\ closed = FALSE
  /\ generation = 0
  /\ publisher = None
  /\ timings = NoTimings
  /\ line = [m \in Media |-> None]
  /\ senders = NewSenders
  /\ history = <<>>
  /\ nextNumber = 0
  /\ reported = <<>>
  /\ lines = <<>>

-----------------------------------------------------------------------------
(* The publisher's clock *)

\* The media whose present source is s.
SentFrom(s, ln) == {m \in Media : ln[m] # None /\ ln[m].source = s}

\* refresh_sender_timing: the last report of source s, mapped on the line of
\* its media, becomes the timing of the media's primary and RTX SSRC.
Refreshed(all, s, known, ln) ==
  IF known[s] = None \/ SentFrom(s, ln) = {} THEN all
  ELSE LET m == Min(SentFrom(s, ln))
           timing == [generation |-> known[s].generation, source |-> s,
                      time |-> known[s].time, line |-> ln[m].index]
       IN [x \in Senders |-> IF x[1] = m THEN [all[x] EXCEPT !.timing = timing] ELSE all[x]]

\* Faulty: any report is accepted while there is a publisher.
AcceptedOfAny(g) == publisher # None

\* handle_publisher_sender_timing drops what does not come from the present
\* publication.
Accepted(g) == publisher # None /\ g = generation

\* A sender report of source s, of generation g or delayed from an earlier one.
PublisherReport(g, s) ==
  /\ Len(reported) < setting.maxReports
  /\ reported' = Append(reported, [generation |-> g, source |-> s])
  /\ IF Accepted(g)
     THEN /\ timings' = [timings EXCEPT ![s] = [generation |-> g, time |-> Len(reported) + 1]]
          /\ senders' = Refreshed(senders, s, timings', line)
     ELSE UNCHANGED <<timings, senders>>
  /\ UNCHANGED <<setting, closed, generation, publisher, line, history, nextNumber, lines, cacheVars>>

\* Senders without the timing of those in X.
Untimed(X) ==
  [x \in Senders |-> IF x \in X THEN [senders[x] EXCEPT !.timing = None] ELSE senders[x]]

\* handle_publisher_source_bye
SourceBye(s) ==
  /\ publisher # None
  /\ timings' = [timings EXCEPT ![s] = None]
  /\ senders' = Untimed({x \in Senders : x[1] \in SentFrom(s, line)})
  /\ UNCHANGED <<setting, closed, generation, publisher, line, history, nextNumber, reported, lines,
                 cacheVars>>

\* handle_publisher_source: timings are cleared (clear_publisher_sender_timings)
\* and the rewriter is rebuilt.  It keeps the line of a media only for a new
\* offer of the same session that leaves the mapping of the media as it was.
AdoptSource(p) ==
  /\ generation < setting.maxGeneration
  /\ {p, publisher} # {None}
  /\ generation' = generation + 1
  /\ publisher' = p
  /\ timings' = NoTimings
  /\ senders' = Untimed(Senders)
  /\ \E kept \in SUBSET Media :
       /\ p # publisher => kept = {}
       /\ line' = [m \in Media |-> IF m \in kept THEN line[m] ELSE None]
  /\ UNCHANGED <<setting, closed, history, nextNumber, reported, lines, cacheVars>>

-----------------------------------------------------------------------------
(* Transport-wide sequence numbers *)

\* evict_old
Evicted(h) ==
  LET kept == {i \in 1..Len(h) : now - h[i].at <= HistoryAge /\ Len(h) - i < HistoryLimit}
  IN IF kept = {} THEN <<>> ELSE SubSeq(h, Min(kept), Len(h))

\* remember_sent of n packets, if the extension was negotiated.
RememberSent(n) ==
  IF setting.transportCc
  THEN /\ nextNumber + n <= setting.maxNumber
       /\ nextNumber' = nextNumber + n
       /\ history' = Evicted(history \o [i \in 1..n |-> [number |-> nextNumber + i - 1, at |-> now]])
  ELSE UNCHANGED <<nextNumber, history>>

\* Faulty: the number is taken to be of the round of the newest packet.
FoundInRound(q) ==
  LET newest == history[Len(history)].number
      n == (newest \div SeqMod) * SeqMod + q
  IN IF n < history[1].number \/ n > newest THEN None ELSE n

\* find_extended_sequence for the 16-bit number q, of a history that is not empty.
Found(q) ==
  LET newest == history[Len(history)].number
      near == (newest \div SeqMod) * SeqMod + q
      n == IF near - newest > SeqMod \div 2 THEN near - SeqMod
           ELSE IF newest - near > SeqMod \div 2 THEN near + SeqMod ELSE near
  IN IF n < history[1].number \/ n > newest THEN None ELSE n

\* observe and expire: what is looked up is only counted.
Feedback ==
  /\ history' = Evicted(history)
  /\ UNCHANGED <<setting, closed, generation, publisher, timings, line, senders, nextNumber, reported,
                 lines, cacheVars>>

-----------------------------------------------------------------------------
(* Packets *)

\* The line of media m for a packet of source s: a new one for another source
\* or payload type.
LineFor(m, s, restarts) ==
  IF line[m] = None \/ line[m].source # s \/ restarts
  THEN /\ Len(lines) < setting.maxLines
       /\ lines' = Append(lines, [media |-> m, source |-> s, session |-> publisher])
       /\ line' = [line EXCEPT ![m] = [source |-> s, index |-> Len(lines) + 1]]
  ELSE UNCHANGED <<line, lines>>

\* record_outbound_rtp_sent for a target SSRC.
Counted(X) == [x \in Senders |-> [senders[x] EXCEPT !.sent = @ \/ x \in X]]

\* handle_publisher_rtp of a packet of source s that goes out as a packet of
\* media m, or is lost between the rewriter and the socket.
Forward(m, s, restarts) ==
  /\ publisher # None
  /\ LineFor(m, s, restarts)
  /\ \/ /\ senders' = LET all == Counted({<<m, FALSE>>})
                      IN IF senders[<<m, FALSE>>].timing = None THEN Refreshed(all, s, timings, line')
                         ELSE all
        /\ RememberSent(1)
        /\ IF setting.nack THEN \E k \in Keys, size \in Sizes : Remember(k, size)
           ELSE UNCHANGED cacheVars
     \/ UNCHANGED <<senders, nextNumber, history, cacheVars>>
  /\ UNCHANGED <<setting, closed, generation, publisher, timings, reported>>

\* An RTX packet of the publisher: counted, not cached.
ForwardRtx(m) ==
  /\ setting.rtx /\ publisher # None /\ line[m] # None
  /\ senders' = Counted({<<m, TRUE>>})
  /\ RememberSent(1)
  /\ UNCHANGED <<setting, closed, generation, publisher, timings, line, reported, lines, cacheVars>>

\* handle_generic_nacks, each hit being sent (send_retransmission) on the RTX
\* SSRC of its media or, without one, as it was; n of them reach the socket.
NackArrives(K, m) ==
  /\ setting.nack
  /\ \E hits \in SUBSET K :
       /\ Nack(K, hits)
       /\ \E n \in 0..Cardinality(hits) :
            /\ RememberSent(n)
            /\ senders' = Counted(IF n = 0 THEN {} ELSE {<<m, setting.rtx>>})
  /\ UNCHANGED <<setting, closed, generation, publisher, timings, line, reported, lines>>

-----------------------------------------------------------------------------
(* Sender reports *)

Mapping(x) == <<senders[x].timing.time, senders[x].timing.line>>

HasTiming(x) ==
  senders[x].sent /\ senders[x].timing # None /\ senders[x].timing.generation = generation

\* Faulty: a report goes out every time the timer fires.
DueAlways(x) == HasTiming(x)

Due(x) == HasTiming(x) /\ Mapping(x) # senders[x].last

Latest(r) == SubSeq(r, IF Len(r) > ReportLimit THEN Len(r) - ReportLimit + 1 ELSE 1, Len(r))

\* handle_rtcp_sender_reports, a completion of the report timer; X are the
\* target SSRCs whose report could be protected, none before SRTP is ready or
\* after close.  The timer is armed again.
SendReports(X) ==
  /\ \A x \in X : ~closed /\ Due(x)
  /\ senders' = [x \in Senders |->
       IF x \in X THEN [senders[x] EXCEPT !.last = Mapping(x), !.reports = Latest(Append(@, Mapping(x)))]
       ELSE senders[x]]
  /\ UNCHANGED <<setting, closed, generation, publisher, timings, line, history, nextNumber, reported,
                 lines, cacheVars>>

\* close and send_rtcp_bye: with a last sender report for each SSRC of X, the
\* others of those that sent anything saying goodbye with a receiver report.
Close(X) ==
  /\ closed' = TRUE
  /\ \A x \in X : HasTiming(x)
  /\ senders' = [x \in Senders |->
       IF x \in X THEN [senders[x] EXCEPT !.last = Mapping(x)] ELSE senders[x]]
  /\ UNCHANGED <<setting, generation, publisher, timings, line, history, nextNumber, reported, lines,
                 cacheVars>>

\* set_peer_context: everything starts afresh; the subscription it ends with
\* delivers the present source and the timings of its SSRCs again.
SetPeerContext ==
  /\ Clear
  /\ senders' = NewSenders
  /\ line' = [m \in Media |-> None]
  /\ history' = <<>>
  /\ nextNumber' = 0
  /\ UNCHANGED <<setting, closed, generation, publisher, timings, reported, lines>>

\* The statistics log looks at the cache and at the feedback history.
LogSummary ==
  /\ Snapshot
  /\ history' = Evicted(history)
  /\ UNCHANGED <<setting, closed, generation, publisher, timings, line, senders, nextNumber, reported, lines>>

TimePasses == setting.timed /\ Tick /\ UNCHANGED sendingVars

Open ==
  /\ ~closed
  /\ \/ \E g \in 1..generation, s \in Sources : PublisherReport(g, s)
     \/ \E s \in Sources : SourceBye(s)
     \/ \E p \in Sessions \cup {None} : AdoptSource(p)
     \/ \E m \in Media, s \in Sources, restarts \in BOOLEAN : Forward(m, s, restarts)
     \/ \E m \in Media : ForwardRtx(m)
     \/ \E K \in SUBSET Keys, m \in Media : NackArrives(K, m)
     \/ \E X \in SUBSET Senders : Close(X)
     \/ Feedback
     \/ SetPeerContext
     \/ LogSummary
     \/ TimePasses

Next == Open \/ \E X \in SUBSET Senders : SendReports(X)

Spec == Init /\ [][Next]_vars

-----------------------------------------------------------------------------

\* The timing of a sender is one report of the present publication, of the
\* source it names, mapped on a line of the sender's own media that was begun
\* for packets of that source and of the present session: no sender report
\* combines the wall clock of one publisher with the RTP clock of another, or
\* of one source with that of another, in whatever order reports, packets, BYE
\* and sources come.
TimingsAreWhole ==
  \A x \in Senders : LET t == senders[x].timing IN
    t # None =>
      /\ t.generation = generation /\ publisher # None
      /\ reported[t.time] = [generation |-> generation, source |-> t.source]
      /\ lines[t.line] = [media |-> x[1], source |-> t.source, session |-> publisher]

\* What the comment in send_rtcp_sender_reports says: one pair of wall clock
\* and RTP timestamp is sent only once, so that the report a receiver report
\* answers can be told.  The code compares with the last pair only.
MappingsSentOnce ==
  \A x \in Senders : \A i, j \in 1..Len(senders[x].reports) :
    i # j => senders[x].reports[i] # senders[x].reports[j]

\* Sender reports are whole and distinct.
ReportsAreTrue == TimingsAreWhole /\ MappingsSentOnce

\* The history has no gaps, as the lookup by distance assumes, and every packet
\* in it is found under the 16 bits of its number, also when they wrapped and
\* when the history is as long as it can be.
FeedbackFindsPackets ==
  \A i \in 1..Len(history) :
    /\ history[i].number = history[1].number + i - 1
    /\ Found(history[i].number % SeqMod) = history[i].number
=============================================================================
