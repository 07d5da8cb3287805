# Verification of the WHIP/WHEP server

The program is a WebRTC selective forwarding server: a publisher sends one
stream over WHIP (HTTP POST of an SDP offer, then RTP over DTLS-SRTP), any
number of viewers fetch it over WHEP. This directory holds TLA+ models of its
core, the TLC configurations that check them on small instances, and TLAPS
proofs of the main properties for every value of the constants.

## 1. Inventory

Everything runs on one `io_context` on one thread (`main.cpp`). A *handler* (an
HTTP request, a UDP datagram, a timer completion) runs to its end without
interruption, together with every callback it calls. Two things interleave: the
order of handlers, and the moment an asio timer expires against the moment its
completion runs. `cancel()` or `expires_after()` abort a wait that is pending;
they do not withdraw a completion that is already queued, which then runs with
no error.

| component | state | operations | interacts with |
|---|---|---|---|
| `media_fanout_router` | publisher source and generation per stream, subscriptions, sender timings, key frame requests with retry timers | subscribe, unsubscribe, set/clear source, publish RTP / BYE / sender timing, request / complete / cancel key frame, retry | calls back into every WHEP transport of a stream; calls the publisher's key frame handler |
| `whep_session_transport` | copy of the source and its timings, rewriter mapping, waiting and ready SSRCs, recovery timer, inactivity timer, selected endpoint, retransmission cache, feedback history | handle source, timing, BYE, send RTP, inbound RTCP, UDP packet, timers, close | fan-out, DTLS, SRTP, UDP server |
| `whip_session_transport` | receive statistics, feedback state, inactivity timer, selected endpoint | UDP packet, inbound RTP/RTCP, report and feedback timers, key frame request, close | fan-out, DTLS, SRTP, UDP server |
| `stream_registry` | publishers by stream and by session, subscribers by session | create, find, remove, remove by stream, snapshots | handlers, admin API, timeout handlers |
| `whip_handler`, `whep_handler`, `router` | none of their own | POST, PATCH, DELETE, admin GET/DELETE | registry, port allocator, fan-out, transports |
| `udp_port_allocator` | used ports, cursor | acquire, release (by the reservation's destructor) | handlers |
| `dtls_transport`, `srtp_transport`, `session_transport_peer_rebind`, `session_stun_binding`, `session_ice_udp_server` | per remote address: handshake, keys, nomination; receive loop | datagram dispatch, handshake, rebind, protect / unprotect | transports |
| `whep_rtp_rewriter` | SSRC, sequence number and timestamp mapping per target | configure, clear, rewrite | WHEP transport |
| `rtp/*` | receive statistics, retransmission cache, transport feedback windows, RTCP interval | update, query, expire | transports |
| `signaling/sdp/*`, `webrtc_answer_factory` | none (pure) | parse, validate, negotiate, build the answer | handlers |
| trickle ICE | remote candidates of a session, its ETag, counters | PATCH | handlers, sessions |
| `net/*`, `log`, `util`, `webrtc_config`, `main` | connections | I/O and start-up | |

What is hard here, and hardly reached by a test:

* completions of timers that were cancelled or re-armed after they expired
  (publisher recovery, inactivity, key frame retry);
* state kept twice: the publisher source, its sender timings and the key frame
  waits, in the router and in every subscriber; publishers in two registry
  maps; sessions in the registry, the fan-out and the port allocator;
* re-entrancy: a source notification may remove and close every subscriber of
  the stream while the loop that delivers it is running;
* generations and tokens as the only defence against late events;
* circular arithmetic (ports, sequence numbers, timestamps) across wraps, restarts
  and changes of source;
* work in several steps of which one fails (rebind of SRTP and DTLS, a round of
  reports, a packet that cannot be built after a number was allocated, a PATCH
  whose third candidate is refused);
* one negotiation computed twice: the answer a subscriber gets and the mapping
  its rewriter works with, each from both offers, and the mapping again for every
  later publisher, while the answer stays;
* three numberings of the sections of an offer (all, audio and video, accepted)
  that meet in PATCH requests, and digests taken over a packet that is not yet
  complete.

`PROJECT.json` lists the hazards line by line with the properties for each.

## 2. Modules

| module | models | extended / composed by |
|---|---|---|
| `MediaFanout` | `media_fanout_router` and the part of every `whep_session_transport` that mirrors it | `MCMediaFanout`, `MediaFanoutProofs`, `SessionLifecycle` |
| `SessionLifecycle` | registry, handlers, port leases and inactivity monitors, over `MediaFanout` | `SessionLifecycleProofs` |
| `UdpPortAllocator` | `acquire()` pass by pass, `release()` | `UdpPortAllocatorProofs` |
| `PortPool` | abstract: what the handlers expect of the allocator | instantiated by `UdpPortAllocator` |
| `PeerAssociation` | nomination, DTLS and SRTP peers, their joint rebind | `PeerAssociationProofs` |
| `RtpRewriter` | `whep_rtp_rewriter` | `MCRtpRewriter`, `RtpRewriterProofs` |
| `RetransmissionCache` | `rtp_retransmission_cache`, `handle_generic_nacks` | `WhepSending` |
| `WhepSending` | what a `whep_session_transport` sends: packets and their numbers, retransmissions, sender reports, BYE; `transport_feedback_send_history` | `MCWhepSending`, `WhepSendingProofs` |
| `WhipReception` | `rtp_receive_statistics`, `transport_feedback_generator` and their use by the WHIP transport | `MCWhipReception`, `WhipReceptionProofs` |
| `SdpOffer` | `sdp_summary`, `sdp_offer_validator`: what is read out of an offer, and when it is refused (operators) | `CodecNegotiation`, `TrickleIce`, `StunBinding` |
| `CodecNegotiation` | `h264_fmtp_compat`, `sdp_codec_negotiator` (operators) | `SdpAnswer` |
| `SdpAnswer` | `sdp_answer_builder`, `make_whep_rtp_rewriter_config` (operators) | `Signaling` |
| `TrickleIce` | `ice_candidate`, `trickle_ice_sdpfrag`, `handle_trickle_ice_patch_request` (operators) | `Signaling` |
| `StunBinding` | `stun_message`, `ice_username`, `session_stun_binding` (operators) | `Signaling` |
| `Signaling` | a stream's publisher and one of its subscribers from POST to DELETE, their PATCHes and connectivity checks | `MCSignaling`, `SignalingProofs` |

`PROJECT.json` maps every definition to its source lines. An operator whose
comment starts with "Faulty" is not part of a specification: it is a plausible
mistake in the definition that follows it, used to confirm that the properties
notice it.

### 2.1 MediaFanout

State: the router's maps (`subscriptions`, `source`, `generations`,
`nextGeneration`, `timings`, `requests`), the queue of retry completions in the
order of the `io_context`, and per subscriber the copies kept by its transport
(`view`, `heard`, `mapped`, `waiting`, `ready`, `accepts`) with its recovery
timer (`recovery`: a wait is pending; `expired`: a completion is queued).

A publisher is a session, an offer and a generation. A packet is a source SSRC,
what it did to the rewriter's mapping (`restart`) and the verdict of the key
frame tracker. Whether a subscriber can follow an offer is fixed per subscriber
(`accepts`), as its negotiated media are. Each action is a handler with all its
callbacks: `SetPublisherSource` notifies every subscriber, and includes the
removal of all subscribers when one of them cannot be configured. A timer is two
actions, its expiry and its completion, so that a completion may run after the
timer was cancelled or armed again.

* `fanout_streams` (2 streams, 2 publishers, 2 subscribers, 2 offers, 1 SSRC;
  84,894 states). `GenerationsAgree`, `ViewIsCurrent`, `TimingsAgree`,
  `OrphansAreTimed`, `RecoverySparesPublished`, `ViewMovesForward`. Two streams
  and publishers that move between them make events of one stream meet state of
  the other; four generations allow publish, loss, publish by someone else, loss.
* `fanout_keyframes` (1 stream, 2 subscribers, 2 SSRCs, 2 retries; 127,466 states).
  `WaitersAgree`, `BurstIsBounded` (which includes that a request which is not
  exhausted has a timer or a queued completion). Two waiters per request is
  what join, leave and completion of one of them need, two SSRCs what a remap
  needs. The number of retries (four in the code) is the constant
  `RetryDelays`; `MaxToken = 3` lets a complete burst be followed by another, `MaxQueued = 2` lets a completion of an erased request be queued
  behind or before the one of its successor.
* `fanout_liveness` (1 SSRC, 12,547 states). `OrphansAreResolved`,
  `WaitsAreRetried`.
* `fanout_republish` is expected to be violated; see section 2.9.

Subscribers, SSRCs, streams and offers are interchangeable, so the safety runs
use them as symmetry sets; the liveness runs use no symmetry. `CHECK_DEADLOCK
FALSE`: with the bounds on generations and tokens a run may have nothing left to
do.

Fairness (`TimerFairness`): an armed timer expires unless it is cancelled or armed
again first, and a queued completion runs. That is what `io_context::run`
guarantees. Nothing is assumed of clients: no publisher need return, no key frame
need come. `WaitsAreRetried` excepts a publisher that changes its SSRC or
payload type for ever, which restarts the burst for ever.

### 2.2 SessionLifecycle

Adds to `MediaFanout` the registry's three maps, the sessions that hold a port,
and per session whether its inactivity deadline has passed (`silent`), its timer
is pending (`armed`) or a completion is queued (`due`). Actions: WHIP and WHEP
POST, every DELETE, the inactivity completions of both transports (deferred or
final), the recovery timeout. A refused request leaves no trace.

* `session_lifecycle` (2 streams, 2 + 2 sessions, 3 ports; 94,713 states).
  `RegistryAgrees` (both publisher maps, the fan-out's sources and subscriptions
  say the same, and every session has an inactivity timer or completion),
  `LeasesMatchSessions`, and under `MonitorFairness` (time passes, timers expire, completions run)
  `SilentSessionsEnd`. Three ports for four sessions make the range run out.
  There are no SSRCs: packets change nothing here.

### 2.3 UdpPortAllocator and PortPool

`acquire()` is atomic in the program; the model makes each pass of its loop a
step so that the scan can be reasoned about, and releases happen between calls.
`port_allocator` runs it on 65532..65535, the end of the 16-bit range, and checks
`ScannedPortsAreUsed` and that it implements `PortPool` (the pool's `held` is
`used`; `granted` is `result`).

### 2.4 PeerAssociation

State: the nominated endpoint, the DTLS and the SRTP peers by endpoint, a counter
that names SSL objects, and as history the objects SRTP sessions were made from.
Actions: `Nominate` (with the rebind of SRTP, then DTLS, and its rollback),
`DtlsPacket` with every outcome OpenSSL may have, `SrtpPacket`, `Close`.

* `peer_association` (3 endpoints, one of them IPv6, 4 SSL objects; 447 states).
  Three endpoints allow a move away, a move on and a move back.
  `PeersFollowSelection`, `KeysAgree`, `AssociationSurvives`,
  `FailedNominationChangesNothing`, `SessionsMadeOnce`. A closed transport does
  nothing more, hence `CHECK_DEADLOCK FALSE`.

### 2.5 RtpRewriter

State: the configuration, per media the source SSRCs, number and timestamp
translation and the cache of numbers, and the SSRC bindings; as history what was
sent with each number. `SeqMod` and `TsMod` stand for 2^16 and 2^32.

`rtp_rewriter` is one run over three settings, chosen in the initial state, each
with the media, packets and failures that make its questions interesting:

* sources (2 media with equal payload types, 3 SSRCs): `SourceIsWhole`,
  `BindingsAgree`;
* timeline (timestamps modulo 8, two clocks): `OnOneLine`, `TimelineContinues`.
  The timestamps used are far enough apart that each of the three is newer than
  one of the others and older than another;
* repair (three source numbers, numbers modulo 4, cache of 2):
  `RepairNamesItsPacket`, `NumbersGoOn`. The cache is smaller than the number
  space, and both wrap. As many packets that cannot be built as the number space
  exceeds the cache (61,440 in the code) would let a cached number come round
  again; `MaxFailures = 1` stays below that.

### 2.6 RetransmissionCache and WhepSending

`RetransmissionCache` has the entries, the eviction queue with stale elements,
the byte count, the serial number and a clock, and an operator per function.
`WhepSending` extends it with the rest of what a transport keeps of its sending:
`outbound_rtcp_senders_`, `publisher_sender_timings_`, the present line of the
rewriter per media, and the history of transport-wide numbers. A packet that is
forwarded is counted, numbered, cached and, for a sender that has no timing yet,
the occasion to map the publisher's last report (`Forward`); a NACK looks packets
up, and those that reach the socket are numbered and counted on their RTX SSRC
(`NackArrives`).

A publisher's report times are numbered in order of arrival, as the code compares
them for equality only; that two reports have different times is an assumption
(the clock of a report has a resolution of 16 microseconds after it is shortened
to 32 bits). A target timestamp is named by the line it was mapped on. `sent` stands
for a packet count above zero. The report timer fires at any moment.

`whep_sending` (570,322 states) starts in one of three settings:

* a subscriber with NACK (3 keys, 2 sizes, limits of 2 packets, 4 bytes and an
  age of 2, so that each of the three can be the one that evicts):
  `AccountsAgree`, `OldestLeaveFirst`, `RetransmissionsAreSpaced`;
* a publisher that sends 3 reports from 2 SSRCs, in 2 publications with 3 lines:
  `ReportsAreTrue`: a sender's timing is one report of the present publication, mapped on a
  line of its own media, source and session, and one mapping is sent once;
* a subscriber with transport feedback (10 numbers modulo 4, a history of 2, half of the
  modulus as in the code): `FeedbackFindsPackets`.

Two things the code does not promise, and TLC shows when asked. A timing is mapped
when a report arrives: if the source or its codec changes afterwards, the next
sender report still extends the old line, until the publisher reports again. And
the comment before the comparison with the last pair gives as its aim that no LSR
(the middle bits of the wall clock) is repeated; what holds is that no *pair* is.
If the publisher changes from one SSRC to another, ends the second one with BYE
and continues with the first, the first one's last report is mapped again on a new
line, and its LSR goes out a second time; a receiver report for the first is then
measured from the second.

### 2.7 WhipReception

State: receivers by SSRC with their statistics, the generator (newest extended
number, window start, and arrivals with number and time); as history the sender's
own numbers, what reports said in all and what feedback said was received. The
publisher numbers its packets with integers, the network loses, repeats and
displaces them by less than what makes a number ambiguous. The clock of arrivals
counts the packets, and an eviction chooses the time before which an arrival is
too old. One number serves as
RTP and as transport-wide number. Jitter and the clamping of the cumulative loss
are left out.

* `whip_reception` (3 sources of which 2 fit, numbers modulo 8 that start at 7,
  history of 2; 284,609 states): `NumbersAreTrue` (with the types), `ReportsAddUp`,
  `ArrivalsAreReported`. Three packets from number 7 on reach a wrap, a
  late packet across it, a restart and a discontinuity, with reports and
  feedback between any two of them.

### 2.8 Signaling

The SDP, trickle ICE and STUN code is pure: it is modelled by operators, from a
parsed description (attributes already split at their separators, numbers read
or `Malformed`) to the summary the server keeps, the answer and the rewriter
mapping. A function that returns `std::expected` is an operator that returns a
value or `Refused`, and `AndThen` is its early return. Texts that only get
formatted are left out; a digest is represented by exactly what it is computed
from, the XOR of an address by address and mask, so that a digest over the wrong
length or a wrong mask is a different value.

`Signaling` puts them in order. State: the publisher's and the subscriber's
session, each with the offer it keeps (accepted sections only), its answer, the
accepted indexes, the credentials, the remote candidates and the nominated
endpoint; the subscriber also with its whole offer and its rewriter mapping.
Actions: the two POSTs, the two deletions, PATCH and connectivity check for
each. A new publisher gives the subscriber a new mapping or removes it, as
`rebuild_rtp_rewriter` and the publisher failure handler do.

`signaling` (32 offers of which 21 are refused, 38 PATCH requests, 20 packets
from 2 endpoints; 2,349 states, each of which tries every offer, request and
packet) checks:

* `AnswerFitsOffer`: an answer against the description as the client wrote it,
  not against the summary the server made of it: order and mids of sections,
  payload types, repair of accepted codecs only, extensions, feedback, RIDs,
  BUNDLE, and the offer that the session keeps;
* `MappingFitsAnswer`: answer and mapping, computed separately, are the same
  negotiation (`AnswerIsMapped`), and no offer that can be answered is refused for
  its mapping (`AnswerCanBeMapped`);
* `CandidatesAreSound`, `PatchesAreKept`: over any sequence of PATCHes, refused
  halfway, repeated or late;
* `ChecksAreAnswered`: every proper check is answered with a reply that a client
  written from the RFC takes (`ClientChecksAreAnswered`), nothing else is answered
  (`OthersAreDropped`).

Proving the first two for every offer showed where the code keeps them only for
the offers that clients make, and the properties say so:

* An offer may describe a payload type twice (two `rtpmap` lines). Each description
  that is supported becomes a codec, so the answer may list the payload type twice;
  and the mapping is made from the first description of it while the answer was made from
  any, so an offer whose first one has the clock rate 0 and whose second one is VP8
  is answered and then refused for its mapping (`whep_rtp_rewriter.cpp:894-898`).
  Hence `DescribedOnce`.
* An offer may give the RID extension an id that needs two-byte headers without
  `extmap-allow-mixed`. The extension is left out (`sdp_answer_builder.cpp:558`),
  the RIDs and the simulcast are answered all the same (`594-684`, `686-759`).
  Hence `RidIsCarried`.
* An audio section may be offered with `nack`. The answer confirms feedback for
  video only (`sdp_answer_builder.cpp:439-471`), the mapping takes it from the offer
  (`whep_rtp_rewriter.cpp:87-97`, `905`), so it has NACK support that no answer
  confirms. Hence the restriction to video in `SectionIsFed`; the offers of the run include
  such a section.

The offers differ in what the code tells apart: order of sections, rejected
sections before accepted ones, a data channel in front, payload types that
collide between publisher and subscriber, H.264 profiles and levels, RTX,
simulcast, one and two byte extension ids, sections that outnumber the
other side's. The refused ones have one defect each. Bounds: PATCHes and checks
go to the sessions of the `Trickling` offers, which have a rejected section in
front of an accepted one, to one session at a time, and a session that received
candidates receives no checks, as no code relates the two.

### 2.9 Two disagreements between comments and code

`fanout_republish` checks `KeptOnRepublish`, what the comment on
`remove_publisher_session` says: subscribers outlive the publisher and wait for
the stream to be published again. TLC finds that one subscriber which cannot
follow the new offer costs every subscriber of the stream its session.

`sdp_republish` checks `MappingStaysAnswered`: what a subscriber is sent after
a new publication has to be in the answer it has. The mapping is negotiated again
with the new publisher's offer, the answer is not, so a codec of the subscriber's
offer that the first publisher did not have is forwarded under a payload type
that the answer never listed. The findings in `PROJECT.json` quote the lines.

### 2.10 What is proved

Every safety property that a passing run checks is proved, except for one half of
`ChecksAreAnswered`. In the table, a module name stands for the module with `Proofs`
appended to it.

| module | theorems | properties |
|---|---|---|
| `MediaFanout` | `TypeCorrect`, `GenerationsIdentifySources`, `SubscribersSeeTheCurrentSource`, `TimingsAreOfTheSource`, `EveryOrphanIsTimed` | `[]TypeOK`, `[]GenerationsAgree`, `[]ViewIsCurrent`, `[]TimingsAgree`, `[]OrphansAreTimed` |
| | `ViewsMoveForward`, `RecoveryTimeoutIsHarmless` | `ViewMovesForward`, `RecoverySparesPublished` |
| | `WaitersAreTheRouters`, `BurstsEnd` | `[]WaitersAgree`, `[]BurstIsBounded` |
| `SessionLifecycle` | `TheRegistryAgrees`, `LeasesAreOfSessions` | `[]RegistryAgrees`, `[]LeasesMatchSessions` |
| | `SessionsImplementTheFanout`, `SessionsSeeTheCurrentSource` | the `Spec` of `MediaFanout`; with it `[]ViewIsCurrent`, `[]TimingsAgree`, `[]OrphansAreTimed` |
| `UdpPortAllocator` | `TypeCorrect`, `ScanPassesOverNoFreePort`, `AllocatorImplementsPool` | `[]TypeOK`, `[]ScannedPortsAreUsed`, `ImplementsPool` |
| `PeerAssociation` | `PeerTypeCorrect`, `NoPeerLeftBehind`, `KeysFollowAssociation` | `[]TypeOK`, `[]PeersFollowSelection`, `[]KeysAgree` |
| | `EstablishedPeerSurvives`, `FailedRebindIsUndone`, `NoKeyReuse` | `AssociationSurvives`, `FailedNominationChangesNothing`, `SessionsMadeOnce` |
| `RtpRewriter` | `SourcesAreWhole`, `BindingsAreOfTheSource`, `PacketsAreOnOneLine`, `RepairsNameTheirPackets` | `[]SourceIsWhole`, `[]BindingsAgree`, `[]OnOneLine`, `[]RepairNamesItsPacket` |
| | `SentNumbersGoOn`, `TimelinesContinue` | `NumbersGoOn`, `TimelineContinues` |
| `WhepSending` | `CacheAccountsAgree`, `SenderReportsAreTrue`, `FeedbackFinds` | `[]AccountsAgree`, `[]ReportsAreTrue`, `[]FeedbackFindsPackets` |
| | `RetransmissionsKeepTheirDistance`, `TheOldestLeaveFirst` | `RetransmissionsAreSpaced`, `OldestLeaveFirst` |
| `WhipReception` | `TheNumbersAreTrue`, `TheReportsAddUp`, `EveryArrivalIsReported` | `[]NumbersAreTrue`, `[]ReportsAddUp`, `[]ArrivalsAreReported` |
| `Signaling` | `CandidatesStaySound`, `PatchesStayKept`, `AnswersStayFitting`, `MappingStaysFitting` | `[]CandidatesAreSound`, `[]PatchesAreKept`, `[]AnswerFitsOffer`, `[]MappingFitsAnswer` |
| | `ClientChecksStayAnswered`, `OneSessionStaysTheAnswerer` | `[]ClientChecksAreAnswered`, `[]OneSessionAnswers` |

The inductive invariants, and why each is more than its property:

* `MediaFanout`. `SourceInv` joins `TypeOK`, `GenerationsAgree` and `ViewIsCurrent`,
  which are inductive only together: a subscriber takes an update only if its
  generation is not older, so one needs to know that a new generation is newer
  than all in use (`EveryoneIsNotified`). `TimingsInv` and `OrphansInv` add their
  property to it, and from `SourceInv` alone every step has the two action
  properties. The key frame proofs sharpen `WaitersAgree` to `WaitsAreExact`: the
  request a transport waits for is the one under the key of its present view.
  A request under some key of that SSRC would not do, as a remap or a burst that
  completes removes the request of one key. `BurstInv` adds
  `BurstIsBounded`; a completion is recognized by key and token, and the proof has to
  admit that a completion left by an erased request is taken for one of its
  successor.
* `SessionLifecycle`. `LifecycleInv` has both properties and `SourceInv`: handlers decide
  by the registry and act on the fan-out. It gives what `MediaFanout` asks of its
  callers (`MaySubscribe`, `MayPublish`), so every step is a step of the fan-out (`FanoutStep`), and
  what was proved of the fan-out carries over.
* `UdpPortAllocator`. `IInv` adds that a scan is entered only when fewer ports than the
  capacity are used; as every port passed over is used, a scan that came round
  would have seen a full pool (`ScanIsNotOver`), and the cardinality test refuses
  only when all ports are used (`FullMeansAllUsed`).
* `PeerAssociation`. `PeerInv` adds `SessionInv` (where the keys that were used can still
  be). `RebindOutcome`: a rebind changes nothing, forgets everything, or moves the
  association. The three action properties are step lemmas from `PeerInv`.
* `RtpRewriter`. `SourceInv` has types, whole sources and bindings. `NumbersInv` relates
  the last number sent to the next one through the number of failures
  (`Follows`), modulo `SeqMod`. `RepairInv` says more than that cached numbers name
  their packets: the cached numbers lie behind the next one at distances that grow
  towards the front of the queue (`Spaced`), so that none comes round while it is
  cached. Like the property it is conditional on
  `NumbersOutliveCache`, that the cache and the packets that may fail are fewer
  than the number space. Lines begin ahead of the newest timestamp
  as long as one step of the clock is less than half of the modulus
  (`StepsAreVisible`, as in the property).
* `WhepSending`. `CacheInv`: the queue is sorted by serial number, every packet has its
  element in it, and the byte count is the sum of the sizes. Eviction is a loop that
  drops the front while a limit is exceeded; the proof shows that it ends with the
  limits kept, and that what it dropped was each time the oldest packet left.
  `ReportsInv`: sender reports sent once rest on a lexicographic order. The
  pairs (line, publisher report) that a sender is given only go forward, hence
  comparing with the last pair sent is enough; a line is never taken up again,
  and on one line reports are mapped in order. `FeedbackInv` (the history is an
  unbroken run of numbers that ends before the next one, of at most half a round)
  makes the extended number unique.
* `WhipReception`. `SourcesInv`: the maximum is the newest number modulo `SeqMod`, and
  maximum and cycles together give the distance to the first. `FeedbackInv`: every
  arrival's extended number is its number plus a shift that is a multiple of
  `SeqMod` (so that a number nearer than the limit on jumps is unwrapped to its own
  round), and each arrival before the start of the window was told. The
  number of arrivals is bounded because those with fewer than the limit behind
  them are that many at most (`FewAreLast`).
* `Signaling`, for any table of descriptions and any fragments. `SessionsOK` has the candidates
  with what they rest on: mids and indexes of a session's accepted sections run in
  parallel (`Parallel`), and every candidate the parser lets through has a mid
  and an index. A PATCH is a fold over the candidates of a fragment that was itself read
  by a fold over its lines; `Patched` is what any prefix of it keeps, and shows as well that
  the same request changes nothing the second time. `AnswerFitsOffer` follows
  from the way an answer is made: what a section of it lists is traced through the
  summary to the lines of the description, and at a PATCH, a check or a new mapping the answer
  stays. `FedOK` says of the present mapping that it is the one made for the
  subscriber's answer from the offer the publisher's session keeps now, or that the subscriber
  has lived through a publication; with it `MappingFitsAnswer` is a statement on two
  pure computations: that the publisher's section found for a section is the same one
  in both (by its ordinal among those of its kind), and that codecs are looked up
  alike, once in the whole offer and once in the runtime offer. `LocalsOK` (each session has
  generated credentials, and not those of the other) is what checks rest on: a
  digest names the password it was made with, so no packet whatever is answered
  by both sessions.

Maxima, sums, counted loops and the folds over sequences are defined by recursion, where one would argue by
induction. The proofs take a least counterexample instead: a smallest subset for
which the claim fails (the relation of finite subsets is well founded), or the
least number of rounds of the datagram loop (`LoopForward`). The recursive
function of that loop is shown to exist first (`LoopExists`), and so is the table
behind a fold (`FoldTableExists`), from which a fold is known to be a run of its steps
(`TableSteps`). Filters are written with `Picked`, the elements of a sequence at a set of positions,
as the prover knows nothing of `SelectSeq`; `PickedSifts` says what they
are.

The theorems hold for every value of the constants that satisfies the assumptions in the
modules: null values are none of the values, bounds are naturals, moduli are
positive, there is at least one retry, the port range is valid (which `webrtc_config`
checks), IPv6 endpoints are endpoints, a cached packet has at least one byte
(`remember()` ignores an empty one) and fits the byte limit (8 MiB; a packet is a
datagram), the lists of a description or a fragment are sequences and its
extensions are there, a session takes at least no candidate (`MaxCandidates` is a natural),
generated credentials have a password and differ in ufrag or password, an
endpoint is an IPv4 or IPv6 one, the history of transport-wide numbers is at most half of an even
modulus, twice the jump that is a discontinuity is less than the modulus, and the
limits on dropout and misorder are together no more than the modulus. The bounds
`MaxGeneration`, `MaxQueued`, `MaxToken`, `MaxSsl`, `MaxTime`, `MaxSerial`, `MaxFailures`,
`MaxNumber` and `MaxPackets` are arbitrary naturals in the proofs, and sets of
streams, sessions and packet keys have any size.

The two `TypeOK` of `UdpPortAllocator` and `PeerAssociation` are proved, and no run
repeats them.

`MappingStaysFitting` and `ClientChecksStayAnswered` have hypotheses on the two
values that stand for an absent `optional` and for an error, `IsNoData(None)` and
`IsNoData(Refused)`: they are neither numbers nor functions (records, sequences), which is what
the C++ types say. As model values they are so in the runs.

Only model-checked: liveness (the prover treats neither fairness nor `ENABLED`),
that is `OrphansAreResolved`, `WaitsAreRetried` and `SilentSessionsEnd`; and
`OthersAreDropped`, the half of `ChecksAreAnswered` that speaks of the table of
packets the run is given (checks with one defect each). What holds of
any packet is that it is not answered twice (`OneSessionAnswers`). What a recursive
definition computes for every input is out of the prover's reach.

### 2.11 Bounds

| bound | where | caps |
|---|---|---|
| `MaxGeneration` | MediaFanout | publications |
| `MaxQueued`, `MaxToken` | MediaFanout | queued retry completions; restarts of a burst |
| one queued recovery completion per subscriber | MediaFanout | completions of one timer; a second one finds the subscriber as the first left it |
| `PortCount` | SessionLifecycle | the port range (a real limit of the program) |
| `MaxSsl` | PeerAssociation | handshakes of one transport |
| `MaxFailures` | RtpRewriter | numbers lost to packets that cannot be built |
| `MaxTime`, `MaxSerial` | RetransmissionCache | clock; packets remembered |
| `maxGeneration`, `maxReports`, `maxLines`, `maxNumber` of a setting | WhepSending | publications; publisher reports; lines of the rewriter; packets with a transport-wide number |
| `MaxNumber`, `MaxPackets` | WhipReception | sender's numbers; packets that arrive |
| `Offers`, `Requests`, `Packets`, `Endpoints`, `Trickling` | Signaling | what clients send, and to which sessions |
| `MaxCandidates`, `MaxPerPatch`, `MaxBody`, `MaxText`, `MaxMline` | TrickleIce | limits of the program, small enough to be met |

### 2.12 What is not modelled

* Bytes: splitting SDP, STUN, RTP and RTCP into their parts and putting them
  together; log and metric counters; HTTP connections and TLS. They keep no state
  the properties speak of.
* OpenSSL, libsrtp and the network: their outcomes are chosen.
* The life time of C++ objects (completions that hold `this`).
* Real time: a timer expires at some moment. A property such as "no earlier than
  the timeout" needs a clock that only `RetransmissionCache` and `WhepSending` have.
* The length of RTCP intervals, and what is measured from receiver reports (round
  trip time, loss): nothing is decided from the measurements.
* Of signaling: candidates of the server itself and the `session_id` of an answer
  (always written, never read back), the HTTP headers around SDP.

## 3. Plan

Done: `MediaFanout`, `SessionLifecycle`, `UdpPortAllocator` with `PortPool`,
`PeerAssociation`, `RtpRewriter`, `RetransmissionCache`, `WhepSending`, `WhipReception` and the
proofs of section 2.10; `SdpOffer`, `CodecNegotiation`, `SdpAnswer`, `TrickleIce`,
`StunBinding`, their composition `Signaling` and its proofs. Next, in this order:

1. `RtcpSchedule`: `rtcp_interval_scheduler` (averages, reconsideration, BYE)
   and the report timers of both transports, also after `close()`.
2. The FIR tracker, and the receiver reports of the WHEP side in `WhepSending`.
3. Operators: key frame detection over NAL unit and VP8 payload descriptors,
   header extension rewriting, RTCP compound and padding arithmetic.
