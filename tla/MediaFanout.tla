---------------------------- MODULE MediaFanout ----------------------------
(***************************************************************************)
(* The media fan-out of the server: media_fanout_router (who publishes on  *)
(* a stream, who subscribes, which key frames are being waited for)        *)
(* together with the part of every whep_session_transport that mirrors the *)
(* router's state for one subscriber (the current publisher source, its    *)
(* sender timings, the source SSRCs waiting for a key frame) and the       *)
(* subscriber's publisher recovery timer.                                  *)
(*                                                                         *)
(* The server runs one io_context on one thread: an action is one complete *)
(* handler (an HTTP request, a UDP datagram, a timer completion) with all  *)
(* the callbacks it invokes.  What interleaves is the order of handlers,   *)
(* and the moment a timer expires against the moment its completion runs:  *)
(* cancelling or re-arming an asio timer does not withdraw a completion    *)
(* that has already been queued.                                           *)
(***************************************************************************)
EXTENDS Naturals, Sequences

CONSTANTS
  Streams,       \* stream ids
  Publishers,    \* publisher session ids
  Subscribers,   \* subscriber session ids
  Offers,        \* publisher SDP offers, up to what a subscriber can accept
  Ssrcs,         \* video source SSRCs of a publisher
  RetryDelays,   \* how many retries k_keyframe_retry_delays allows
  NoStream, NoSource, NoSsrc,
  MaxGeneration, \* bound: no new publisher once this generation is reached
  MaxQueued,     \* bound: retry completions queued in the io_context
  MaxToken       \* bound: timer token up to which a retry burst may restart

ASSUME FanoutAssumption ==
  /\ NoStream \notin Streams
  /\ NoSsrc \notin Ssrcs
  /\ NoSource \notin [session: Publishers, generation: Nat, offer: Offers]
  /\ RetryDelays \in Nat \ {0}
  /\ MaxGeneration \in Nat
  /\ MaxQueued \in Nat
  /\ MaxToken \in Nat

VARIABLES
  \* media_fanout_router
  subscriptions,  \* subscriptions_by_session_id_: the stream, or NoStream
  source,         \* publisher_sources_by_stream_id_
  generations,    \* publisher_source_generations_by_stream_id_, 0 for none
  nextGeneration, \* next_source_generation_
  timings,        \* publisher_sender_timings_by_stream_id_: the generation
                  \* of the timing kept for an SSRC, 0 for none
  requests,       \* keyframe_requests_
  retryQueue,     \* queued completions of retry timers, in io_context order
  \* whep_session_transport, one per subscriber
  view,           \* publisher_source_generation_ and publisher_source_
  heard,          \* publisher_sender_timings_
  mapped,         \* source SSRC the rewriter maps to the video target SSRC
  waiting,        \* keyframe_waiting_source_ssrcs_
  ready,          \* keyframe_ready_source_ssrcs_
  accepts,        \* offers rtp_rewriter_target_ can be configured for
  recovery,       \* publisher_recovery_timer_ has a pending wait
  expired         \* a completion of publisher_recovery_timer_ is queued

routerVars == <<subscriptions, source, generations, nextGeneration, timings>>
requestVars == <<requests, retryQueue>>
keyframeVars == <<mapped, waiting, ready>>
subscriberVars == <<view, heard, accepts, recovery, expired>>
vars == <<routerVars, requestVars, keyframeVars, subscriberVars>>

Source == [session: Publishers, generation: Nat, offer: Offers]

\* media_publisher_source_update
Update(g, src) == [generation |-> g, source |-> src]

NoUpdate == Update(0, NoSource)

\* keyframe_request_key
Keys == [stream: Streams, session: Publishers, generation: Nat, ssrc: Ssrcs]

\* keyframe_request_state; armed says that retry_timer has a pending wait.
RequestState ==
  [waiters: SUBSET Subscribers, next: Nat, sent: Nat, token: Nat,
   active: BOOLEAN, armed: BOOLEAN]

NewRequest ==
  [waiters |-> {}, next |-> 0, sent |-> 0, token |-> 0,
   active |-> FALSE, armed |-> FALSE]

NoTimings == [r \in Ssrcs |-> 0]

\* keyframe_requests_, a map from keys to request states
IsRequestMap(R) ==
  DOMAIN R \subseteq Keys /\ R \in [DOMAIN R -> RequestState]

SubscribersOf(st) == {s \in Subscribers : subscriptions[s] = st}

RouterTypeOK ==
  /\ source \in [Streams -> Source \cup {NoSource}]
  /\ generations \in [Streams -> Nat]
  /\ nextGeneration \in Nat \ {0}
  /\ timings \in [Streams -> [Ssrcs -> Nat]]
  /\ IsRequestMap(requests)
  /\ retryQueue \in Seq(Keys \X Nat)

TransportTypeOK ==
  /\ subscriptions \in [Subscribers -> Streams \cup {NoStream}]
  /\ view \in [Subscribers -> [generation: Nat, source: Source \cup {NoSource}]]
  /\ heard \in [Subscribers -> [Ssrcs -> Nat]]
  /\ mapped \in [Subscribers -> Ssrcs \cup {NoSsrc}]
  /\ waiting \in [Subscribers -> SUBSET Ssrcs]
  /\ ready \in [Subscribers -> SUBSET Ssrcs]
  /\ accepts \in [Subscribers -> SUBSET Offers]
  /\ recovery \in [Subscribers -> BOOLEAN]
  /\ expired \in [Subscribers -> BOOLEAN]

TypeOK == RouterTypeOK /\ TransportTypeOK

Init ==
  /\ subscriptions = [s \in Subscribers |-> NoStream]
  /\ source = [st \in Streams |-> NoSource]
  /\ generations = [st \in Streams |-> 0]
  /\ nextGeneration = 1
  /\ timings = [st \in Streams |-> NoTimings]
  /\ requests = [k \in {} |-> NewRequest]
  /\ retryQueue = <<>>
  /\ view = [s \in Subscribers |-> NoUpdate]
  /\ heard = [s \in Subscribers |-> NoTimings]
  /\ mapped = [s \in Subscribers |-> NoSsrc]
  /\ waiting = [s \in Subscribers |-> {}]
  /\ ready = [s \in Subscribers |-> {}]
  /\ accepts = [s \in Subscribers |-> {}]
  /\ recovery = [s \in Subscribers |-> FALSE]
  /\ expired = [s \in Subscribers |-> FALSE]

-----------------------------------------------------------------------------
(* The key frame requests of the router, as functions of keyframe_requests_. *)

\* Faulty: one delay too many.
ScheduleKeyframeRetryOffByOne(e) ==
  IF e.next > RetryDelays
  THEN [e EXCEPT !.active = FALSE]
  ELSE [e EXCEPT !.next = @ + 1, !.token = @ + 1, !.armed = TRUE]

\* schedule_keyframe_retry: the burst ends, leaving the timer alone, when
\* every delay has been used; otherwise the timer is re-armed, which aborts
\* a wait that is still pending.
ScheduleKeyframeRetry(e) ==
  IF e.next >= RetryDelays
  THEN [e EXCEPT !.active = FALSE]
  ELSE [e EXCEPT !.next = @ + 1, !.token = @ + 1, !.armed = TRUE]

\* request_keyframe once its checks have passed: the subscriber joins the
\* waiters, and a burst is started unless one is running.
RequestKeyframe(R, k, s) ==
  LET e == [(IF k \in DOMAIN R THEN R[k] ELSE NewRequest)
              EXCEPT !.waiters = @ \cup {s}]
  IN [j \in DOMAIN R \cup {k} |->
        IF j # k THEN R[j]
        ELSE IF e.active THEN e
        ELSE ScheduleKeyframeRetry([e EXCEPT !.active = TRUE, !.next = 0, !.sent = 1])]

\* complete_keyframe_request: the subscriber leaves one request, which is
\* erased with its timer when nobody is left.
CompleteKeyframeRequest(R, k, s) ==
  IF k \notin DOMAIN R THEN R
  ELSE [j \in {i \in DOMAIN R : i # k \/ R[i].waiters \ {s} # {}} |->
          IF j = k THEN [R[k] EXCEPT !.waiters = @ \ {s}] ELSE R[j]]

\* Faulty: a request is erased with the first waiter that leaves.
CancelKeyframeRequestsOfAll(R, S) ==
  [j \in {i \in DOMAIN R : R[i].waiters \cap S = {}} |-> R[j]]

\* cancel_keyframe_requests_for_subscriber, for each subscriber of S.
CancelKeyframeRequests(R, S) ==
  [j \in {i \in DOMAIN R : R[i].waiters \ S # {}} |->
     [R[j] EXCEPT !.waiters = @ \ S]]

\* cancel_stream_keyframe_requests
CancelStreamKeyframeRequests(R, st) == [j \in {i \in DOMAIN R : i.stream # st} |-> R[j]]

\* The erased request of publish_source_bye.
CancelKey(R, k) == [j \in DOMAIN R \ {k} |-> R[j]]

\* Model bound: a finished burst restarts only below MaxToken.
MayRestart(R, k) ==
  (k \in DOMAIN R /\ ~R[k].active) => R[k].token < MaxToken

-----------------------------------------------------------------------------
(* Subscribers come and go. *)

\* whep_session_transport::close and the destruction of the transport: the
\* transports of S are unsubscribed and their state is gone; completions
\* still queued for them find an expired weak_ptr.
Forget(S) ==
  /\ subscriptions' = [s \in Subscribers |->
                         IF s \in S THEN NoStream ELSE subscriptions[s]]
  /\ view' = [s \in Subscribers |-> IF s \in S THEN NoUpdate ELSE view[s]]
  /\ heard' = [s \in Subscribers |-> IF s \in S THEN NoTimings ELSE heard[s]]
  /\ mapped' = [s \in Subscribers |-> IF s \in S THEN NoSsrc ELSE mapped[s]]
  /\ waiting' = [s \in Subscribers |-> IF s \in S THEN {} ELSE waiting[s]]
  /\ ready' = [s \in Subscribers |-> IF s \in S THEN {} ELSE ready[s]]
  /\ accepts' = [s \in Subscribers |-> IF s \in S THEN {} ELSE accepts[s]]
  /\ recovery' = [s \in Subscribers |-> IF s \in S THEN FALSE ELSE recovery[s]]
  /\ expired' = [s \in Subscribers |-> IF s \in S THEN FALSE ELSE expired[s]]

\* set_peer_context ends in subscribe(), which delivers the current source
\* and the current sender timings to a transport that has seen none yet.
Subscribe(s, st, A) ==
  /\ subscriptions[s] = NoStream
  /\ subscriptions' = [subscriptions EXCEPT ![s] = st]
  /\ view' = [view EXCEPT ![s] = Update(generations[st], source[st])]
  /\ heard' = [heard EXCEPT ![s] =
                 [r \in Ssrcs |->
                    IF timings[st][r] = generations[st] THEN timings[st][r] ELSE 0]]
  /\ accepts' = [accepts EXCEPT ![s] = A]
  /\ mapped' = [mapped EXCEPT ![s] = NoSsrc]
  /\ waiting' = [waiting EXCEPT ![s] = {}]
  /\ ready' = [ready EXCEPT ![s] = {}]
  /\ recovery' = [recovery EXCEPT ![s] = source[st] = NoSource]
  /\ UNCHANGED <<source, generations, nextGeneration, timings, requests,
                 retryQueue, expired>>

\* close() of one subscriber: WHEP DELETE, admin delete, inactivity timeout.
Unsubscribe(s) ==
  /\ subscriptions[s] # NoStream
  /\ requests' = CancelKeyframeRequests(requests, {s})
  /\ Forget({s})
  /\ UNCHANGED <<source, generations, nextGeneration, timings, retryQueue>>

-----------------------------------------------------------------------------
(* Publishers come and go. *)

\* Faulty: the first generation is 0.
AllocatedGenerationFromZero == nextGeneration - 1

\* allocate_source_generation (nextGeneration' is set where it is called)
AllocatedGeneration == nextGeneration

\* Faulty: a subscriber that lost its source is not told of a new one.
NotifiedUnlessOrphaned(st, g) ==
  {s \in SubscribersOf(st) : view[s].source # NoSource}

\* The subscribers handle_publisher_source does not ignore as stale.
Notified(st, g) == {s \in SubscribersOf(st) : ~(g < view[s].generation)}

\* rebuild_rtp_rewriter fails for a subscriber of the stream.
Incompatible(st, o) == \E s \in SubscribersOf(st) : o \notin accepts[s]

\* Faulty: the timings of the previous source are kept.
TimingsAfterKept(s, u) == heard[s]

\* clear_publisher_sender_timings on a new generation
TimingsAfter(s, u) ==
  IF view[s].generation # u.generation THEN NoTimings ELSE heard[s]

\* Faulty: the timer is not cancelled when the source is back.
RecoveryAfterUncancelled(s, u) == recovery[s] \/ u.source = NoSource

\* Faulty: the timer is not armed when the source is lost.
RecoveryAfterUnarmed(s, u) == FALSE

\* start_publisher_recovery_timer without a source, cancel() with one
RecoveryAfter(s, u) == u.source = NoSource

\* handle_publisher_source in every notified subscriber: key frame recovery
\* is cancelled, the rewriter forgets the old source, and the recovery timer
\* is armed (source lost) or cancelled (source back).
AdoptSource(N, u) ==
  /\ view' = [s \in Subscribers |-> IF s \in N THEN u ELSE view[s]]
  /\ heard' = [s \in Subscribers |->
                 IF s \in N THEN TimingsAfter(s, u) ELSE heard[s]]
  /\ mapped' = [s \in Subscribers |-> IF s \in N THEN NoSsrc ELSE mapped[s]]
  /\ waiting' = [s \in Subscribers |-> IF s \in N THEN {} ELSE waiting[s]]
  /\ ready' = [s \in Subscribers |-> IF s \in N THEN {} ELSE ready[s]]
  /\ recovery' = [s \in Subscribers |->
                    IF s \in N THEN RecoveryAfter(s, u) ELSE recovery[s]]
  /\ UNCHANGED <<subscriptions, accepts, expired>>

\* set_publisher_source.  The first subscriber whose rewriter cannot be
\* configured reports a publisher failure, and the failure handler removes
\* and closes every subscriber of the stream; the callbacks left in the loop
\* find expired transports.
SetPublisherSource(st, p, o) ==
  /\ nextGeneration < MaxGeneration
  /\ LET g == AllocatedGeneration
         src == [session |-> p, generation |-> g, offer |-> o]
     IN /\ source' = [source EXCEPT ![st] = src]
        /\ generations' = [generations EXCEPT ![st] = g]
        /\ nextGeneration' = g + 1
        /\ timings' = [timings EXCEPT ![st] = NoTimings]
        /\ requests' = CancelStreamKeyframeRequests(requests, st)
        /\ \/ /\ Incompatible(st, o)
              /\ Forget(SubscribersOf(st))
           \/ /\ ~Incompatible(st, o)
              /\ AdoptSource(Notified(st, g), Update(g, src))
  /\ UNCHANGED retryQueue

\* Faulty: unpublishing allocates no generation.
ClearPublisherSourceSameGeneration(st) ==
  /\ source[st] # NoSource
  /\ source' = [source EXCEPT ![st] = NoSource]
  /\ timings' = [timings EXCEPT ![st] = NoTimings]
  /\ requests' = CancelStreamKeyframeRequests(requests, st)
  /\ AdoptSource(SubscribersOf(st), Update(generations[st], NoSource))
  /\ UNCHANGED <<generations, nextGeneration, retryQueue>>

\* clear_publisher_source with the session of the current source.
ClearPublisherSource(st) ==
  /\ source[st] # NoSource
  /\ LET g == AllocatedGeneration
     IN /\ source' = [source EXCEPT ![st] = NoSource]
        /\ generations' = [generations EXCEPT ![st] = g]
        /\ nextGeneration' = g + 1
        /\ timings' = [timings EXCEPT ![st] = NoTimings]
        /\ requests' = CancelStreamKeyframeRequests(requests, st)
        /\ AdoptSource(Notified(st, g), Update(g, NoSource))
  /\ UNCHANGED retryQueue

\* publisher_recovery_timer_ expires: its completion is queued.  (Bound: one
\* queued completion per transport.)
RecoveryTimerExpires(s) ==
  /\ recovery[s] /\ ~expired[s]
  /\ recovery' = [recovery EXCEPT ![s] = FALSE]
  /\ expired' = [expired EXCEPT ![s] = TRUE]
  /\ UNCHANGED <<routerVars, requestVars, keyframeVars, view, heard, accepts>>

\* Faulty: the completion does not look for a source that is back.
HandleRecoveryTimeoutUnchecked(s) ==
  /\ expired[s]
  /\ requests' = CancelKeyframeRequests(requests, SubscribersOf(subscriptions[s]))
  /\ Forget(SubscribersOf(subscriptions[s]))
  /\ UNCHANGED <<source, generations, nextGeneration, timings, retryQueue>>

\* handle_publisher_recovery_timeout: nothing if a source is present,
\* otherwise every subscriber of the stream is removed and closed.
HandleRecoveryTimeout(s) ==
  /\ expired[s]
  /\ \/ /\ view[s].source # NoSource
        /\ expired' = [expired EXCEPT ![s] = FALSE]
        /\ UNCHANGED <<routerVars, requestVars, keyframeVars, view, heard,
                       accepts, recovery>>
     \/ /\ view[s].source = NoSource
        /\ requests' = CancelKeyframeRequests(requests, SubscribersOf(subscriptions[s]))
        /\ Forget(SubscribersOf(subscriptions[s]))
        /\ UNCHANGED <<source, generations, nextGeneration, timings, retryQueue>>

-----------------------------------------------------------------------------
(* Media and feedback. *)

\* The request a subscriber makes, from its own view of the source.
ViewKey(s, r) ==
  [stream |-> subscriptions[s], session |-> view[s].source.session,
   generation |-> view[s].generation, ssrc |-> r]

\* request_keyframe compares the subscriber's view with the current source.
RequestAccepted(s) ==
  LET src == source[subscriptions[s]]
  IN /\ src # NoSource
     /\ src.session = view[s].source.session
     /\ src.generation = view[s].generation

\* dispatch_keyframe_request for source SSRC r, after the preceding part of
\* the handler left the requests R, the waiting set W and the ready set D.
DispatchKeyframeRequest(R, W, D, s, r) ==
  /\ MayRestart(R, ViewKey(s, r))
  /\ requests' = IF RequestAccepted(s) THEN RequestKeyframe(R, ViewKey(s, r), s) ELSE R
  /\ waiting' = [waiting EXCEPT ![s] =
                   IF RequestAccepted(s) THEN W \cup {r} ELSE W \ {r}]
  /\ ready' = [ready EXCEPT ![s] = D]

\* The part of send_rtp after the packet went out: the key frame tracker saw
\* the end of a key frame, an abandoned key frame, or neither.  A subscriber
\* that is not ready for r asks for a key frame unless it already waits.
TrackKeyframe(R, W, D, s, r, seen) ==
  \/ /\ seen = "completed"
     /\ requests' = IF r \in D THEN R ELSE CompleteKeyframeRequest(R, ViewKey(s, r), s)
     /\ waiting' = [waiting EXCEPT ![s] = W \ {r}]
     /\ ready' = [ready EXCEPT ![s] = D \cup {r}]
  \/ /\ seen = "aborted"
     /\ DispatchKeyframeRequest(R, W, D \ {r}, s, r)
  \/ /\ seen = "other" /\ r \notin D \cup W
     /\ DispatchKeyframeRequest(R, W, D, s, r)
  \/ /\ seen = "other" /\ r \in D \cup W
     /\ requests' = R
     /\ waiting' = [waiting EXCEPT ![s] = W]
     /\ ready' = [ready EXCEPT ![s] = D]

\* publish_rtp delivers a video packet of source SSRC r to subscriber s, the
\* other subscribers dropping it (no endpoint, SRTP not ready, unmapped).  A
\* packet of another SSRC (or, restart, of another payload type) than the one
\* mapped so far makes the subscriber abandon what it was waiting for.
DeliverRtp(s, r, restart, seen) ==
  /\ subscriptions[s] # NoStream
  /\ source[subscriptions[s]] # NoSource
  /\ source[subscriptions[s]].generation = view[s].generation
  /\ mapped' = [mapped EXCEPT ![s] = r]
  /\ \/ /\ mapped[s] = r /\ ~restart
        /\ TrackKeyframe(requests, waiting[s], ready[s], s, r, seen)
     \/ /\ mapped[s] # r \/ restart
        /\ seen # "aborted"
        /\ TrackKeyframe(CancelKeyframeRequests(requests, {s}), {}, {}, s, r, seen)
  /\ UNCHANGED <<routerVars, retryQueue, subscriberVars>>

\* The packet was rewritten and then lost to an error, in the header extension
\* rewriting or the SRTP protection: the new mapping stays, and nothing of
\* the key frame part of send_rtp runs, now or for the next packet of r.
FailRtp(s, r) ==
  /\ subscriptions[s] # NoStream
  /\ source[subscriptions[s]] # NoSource
  /\ source[subscriptions[s]].generation = view[s].generation
  /\ mapped' = [mapped EXCEPT ![s] = r]
  /\ UNCHANGED <<routerVars, requestVars, waiting, ready, subscriberVars>>

\* Faulty: feedback for a target SSRC no source SSRC is mapped to.
KeyframeFeedbackUnmapped(s) ==
  /\ subscriptions[s] # NoStream
  /\ view[s].source # NoSource
  /\ mapped[s] \notin waiting[s]
  /\ DispatchKeyframeRequest(requests, waiting[s], ready[s] \ {mapped[s]}, s, mapped[s])
  /\ UNCHANGED <<routerVars, retryQueue, mapped, subscriberVars>>

\* handle_inbound_rtcp with a PLI or an accepted FIR for the video target
\* SSRC: coalesced while the subscriber already waits.
KeyframeFeedback(s) ==
  /\ subscriptions[s] # NoStream
  /\ mapped[s] # NoSsrc
  /\ view[s].source # NoSource
  /\ mapped[s] \notin waiting[s]
  /\ DispatchKeyframeRequest(requests, waiting[s], ready[s] \ {mapped[s]}, s, mapped[s])
  /\ UNCHANGED <<routerVars, retryQueue, mapped, subscriberVars>>

\* handle_udp_packet nominated another remote endpoint: the waits of this
\* subscriber are cancelled.
Renominate(s) ==
  /\ subscriptions[s] # NoStream
  /\ requests' = CancelKeyframeRequests(requests, {s})
  /\ waiting' = [waiting EXCEPT ![s] = {}]
  /\ ready' = [ready EXCEPT ![s] = {}]
  /\ UNCHANGED <<routerVars, retryQueue, mapped, subscriberVars>>

\* A sender report of the publisher: publish_sender_timing and
\* handle_publisher_sender_timing.
PublishSenderTiming(st, r) ==
  /\ source[st] # NoSource
  /\ LET g == source[st].generation
     IN /\ timings' = [timings EXCEPT ![st][r] = g]
        /\ heard' = [s \in Subscribers |->
                       IF s \in SubscribersOf(st) /\ view[s].source # NoSource
                          /\ view[s].generation = g
                          /\ view[s].source.session = source[st].session
                       THEN [heard[s] EXCEPT ![r] = g] ELSE heard[s]]
  /\ UNCHANGED <<subscriptions, source, generations, nextGeneration,
                 requestVars, keyframeVars, view, accepts, recovery, expired>>

\* An RTCP BYE of the publisher for r: publish_source_bye and
\* handle_publisher_source_bye.
PublishSourceBye(st, r) ==
  /\ source[st] # NoSource
  /\ LET src == source[st]
         k == [stream |-> st, session |-> src.session,
               generation |-> src.generation, ssrc |-> r]
         applies(s) == /\ s \in SubscribersOf(st)
                       /\ view[s].source # NoSource
                       /\ view[s].source.session = src.session
                       /\ view[s].generation = src.generation
     IN /\ timings' = [timings EXCEPT ![st][r] = 0]
        /\ requests' = CancelKey(requests, k)
        /\ heard' = [s \in Subscribers |->
                       IF applies(s) THEN [heard[s] EXCEPT ![r] = 0] ELSE heard[s]]
        /\ waiting' = [s \in Subscribers |->
                         IF applies(s) THEN waiting[s] \ {r} ELSE waiting[s]]
        /\ ready' = [s \in Subscribers |->
                       IF applies(s) THEN ready[s] \ {r} ELSE ready[s]]
  /\ UNCHANGED <<subscriptions, source, generations, nextGeneration,
                 retryQueue, mapped, view, accepts, recovery, expired>>

\* The wait of a retry timer ends: its completion is queued.
RetryTimerExpires(k) ==
  /\ k \in DOMAIN requests
  /\ requests[k].armed
  /\ Len(retryQueue) < MaxQueued
  /\ requests' = [requests EXCEPT ![k].armed = FALSE]
  /\ retryQueue' = Append(retryQueue, <<k, requests[k].token>>)
  /\ UNCHANGED <<routerVars, keyframeVars, subscriberVars>>

\* Faulty: the token of the next wait is expected.
RetryAcceptedNext(k, token) ==
  /\ k \in DOMAIN requests
  /\ requests[k].token = token + 1
  /\ requests[k].waiters # {}

\* handle_keyframe_retry accepts a completion by key and token, not by the
\* request object that armed the timer.
RetryAccepted(k, token) ==
  /\ k \in DOMAIN requests
  /\ requests[k].token = token
  /\ requests[k].waiters # {}

RetrySourceCurrent(k) ==
  /\ source[k.stream] # NoSource
  /\ source[k.stream].session = k.session
  /\ source[k.stream].generation = k.generation

\* One more request goes out, and the next retry is scheduled.
SendAgain(e) == ScheduleKeyframeRetry([e EXCEPT !.sent = @ + 1])

\* handle_keyframe_retry
HandleKeyframeRetry ==
  /\ retryQueue # <<>>
  /\ retryQueue' = Tail(retryQueue)
  /\ LET k == Head(retryQueue)[1]
         token == Head(retryQueue)[2]
     IN requests' =
          IF ~RetryAccepted(k, token) THEN requests
          ELSE IF ~RetrySourceCurrent(k) THEN CancelKey(requests, k)
          ELSE [requests EXCEPT ![k] = SendAgain(@)]
  /\ UNCHANGED <<routerVars, keyframeVars, subscriberVars>>

-----------------------------------------------------------------------------

\* A WHEP session is created only while the stream has a publisher, for whose
\* offer the subscriber's rewriter can be configured.
MaySubscribe(st, A) == source[st] # NoSource /\ source[st].offer \in A

\* A WHIP session has an id of its own, and is refused for a stream that has a
\* publisher.
MayPublish(st, p) ==
  /\ source[st] = NoSource
  /\ \A t \in Streams : source[t] # NoSource => source[t].session # p

SubscriberStep(s) ==
  \/ \E st \in Streams, A \in SUBSET Offers :
        MaySubscribe(st, A) /\ Subscribe(s, st, A)
  \/ Unsubscribe(s)
  \/ RecoveryTimerExpires(s)
  \/ HandleRecoveryTimeout(s)
  \/ \E r \in Ssrcs, restart \in BOOLEAN, seen \in {"completed", "aborted", "other"} :
        DeliverRtp(s, r, restart, seen)
  \/ \E r \in Ssrcs : FailRtp(s, r)
  \/ KeyframeFeedback(s)
  \/ Renominate(s)

PublisherStep(st) ==
  \/ \E p \in Publishers, o \in Offers :
        MayPublish(st, p) /\ SetPublisherSource(st, p, o)
  \/ ClearPublisherSource(st)
  \/ \E r \in Ssrcs : PublishSenderTiming(st, r)
  \/ \E r \in Ssrcs : PublishSourceBye(st, r)

Next ==
  \/ \E s \in Subscribers : SubscriberStep(s)
  \/ \E st \in Streams : PublisherStep(st)
  \/ \E k \in DOMAIN requests : RetryTimerExpires(k)
  \/ HandleKeyframeRetry

Spec == Init /\ [][Next]_vars

\* Every timer that is armed expires, unless it is cancelled or re-armed
\* first, and io_context::run executes every queued completion.  Nothing
\* makes a publisher return, a key frame arrive or a client ask for anything.
TimerFairness ==
  /\ \A s \in Subscribers : /\ WF_vars(RecoveryTimerExpires(s))
                            /\ WF_vars(HandleRecoveryTimeout(s))
  /\ \A st \in Streams, r \in Ssrcs :
       WF_vars(\E k \in DOMAIN requests : /\ k.stream = st /\ k.ssrc = r
                                        /\ RetryTimerExpires(k))
  /\ WF_vars(HandleKeyframeRetry)

FairSpec == Spec /\ TimerFairness

-----------------------------------------------------------------------------
(* Safety. *)

\* The generation of the source a stream has is the generation recorded for
\* the stream, and no two streams were ever given the same generation, so a
\* generation identifies one publication (allocate_source_generation).
GenerationsAgree ==
  /\ \A st \in Streams :
       /\ generations[st] < nextGeneration
       /\ source[st] # NoSource => source[st].generation = generations[st]
       /\ source[st] # NoSource => generations[st] # 0
  /\ \A st, u \in Streams :
       st # u => generations[st] # generations[u] \/ generations[st] = 0

\* Every subscriber's copy of the publisher source (publisher_source_ and
\* publisher_source_generation_) is the router's current source of the stream
\* it subscribes to: no source change is missed, none is applied to a
\* subscriber of another stream, whatever the order of publishing,
\* unpublishing, subscribing and recovery timeouts.
ViewIsCurrent ==
  \A s \in Subscribers :
    subscriptions[s] # NoStream =>
      view[s] = Update(generations[subscriptions[s]], source[subscriptions[s]])

\* The key frame waits are kept twice, as keyframe_waiting_source_ssrcs_ of
\* each subscriber and as the waiters of the router's keyframe_requests_, and
\* the two agree: a subscriber waits for an SSRC exactly when the request for
\* that SSRC of its current source counts it among its waiters, every request
\* is for the current source of its stream, and none is left with no waiter
\* (its timer would keep asking the publisher for key frames nobody needs).
\* And no subscriber is both ready for an SSRC and waiting for its key frame.
WaitersAgree ==
  /\ \A s \in Subscribers, r \in Ssrcs :
       r \in waiting[s] <=>
         \E k \in DOMAIN requests : k.ssrc = r /\ s \in requests[k].waiters
  /\ \A k \in DOMAIN requests :
       /\ RetrySourceCurrent(k)
       /\ requests[k].waiters # {}
       /\ \A s \in requests[k].waiters : subscriptions[s] = k.stream
  /\ \A s \in Subscribers : ready[s] \cap waiting[s] = {}

\* A sender timing the router keeps is one of the current source of its
\* stream, and every subscriber has exactly the timings the router has: the
\* sender reports sent to a viewer never combine the clock of one publisher
\* with the packets of another, also across BYE and re-publishing.
TimingsAgree ==
  /\ \A st \in Streams, r \in Ssrcs :
       timings[st][r] # 0 =>
         source[st] # NoSource /\ timings[st][r] = source[st].generation
  /\ \A s \in Subscribers :
       subscriptions[s] # NoStream => heard[s] = timings[subscriptions[s]]

\* A request with an active retry burst always has a timer running or the
\* completion carrying its current token queued; otherwise the burst would
\* stay active for ever with nobody to continue it, and request_keyframe,
\* finding it active, would never send anything again.
NoLostRetry ==
  \A k \in DOMAIN requests :
    requests[k].active =>
      \/ requests[k].armed
      \/ \E i \in DOMAIN retryQueue : retryQueue[i] = <<k, requests[k].token>>

\* A burst ends, and only ends, when every retry delay has been used: while it
\* is active it has sent the first request and one for each delay used up, and
\* once it is inactive the first request and all the retries went out.  Join
\* and leave of waiters, restarts and completions of erased requests (which a
\* new request with the same key accepts, its tokens starting again from one)
\* neither cut a burst short, nor keep it active, nor lose its timer.
BurstIsBounded ==
  /\ NoLostRetry
  /\ \A k \in DOMAIN requests :
       LET e == requests[k]
       IN IF e.active THEN e.sent = e.next /\ e.next <= RetryDelays
                      ELSE e.sent > RetryDelays /\ e.next = RetryDelays

\* A subscriber of a stream without publisher is on the recovery timer, as a
\* running wait or as a queued completion, and no recovery timer runs while
\* the publisher is there (handle_publisher_source arms and cancels it).
OrphansAreTimed ==
  \A s \in Subscribers :
    /\ recovery[s] => subscriptions[s] # NoStream /\ view[s].source = NoSource
    /\ subscriptions[s] # NoStream /\ view[s].source = NoSource
         => recovery[s] \/ expired[s]

-----------------------------------------------------------------------------
(* Action properties. *)

\* A completion of the recovery timer that was queued before the publisher
\* came back closes nobody: handle_publisher_recovery_timeout, whoever's it
\* is, never takes a subscriber away from a stream that has a publisher.
RecoverySparesPublished ==
  [][(\E s \in Subscribers : HandleRecoveryTimeout(s)) =>
       \A s \in Subscribers :
         subscriptions[s] # NoStream /\ source[subscriptions[s]] # NoSource
           => subscriptions'[s] = subscriptions[s]]_vars

\* While a subscriber stays subscribed its source generation never goes back,
\* and the source itself changes only together with the generation: the
\* stale-update check of handle_publisher_source never has to drop an update.
ViewMovesForward ==
  [][\A s \in Subscribers :
       subscriptions[s] # NoStream /\ subscriptions'[s] = subscriptions[s] =>
         /\ view'[s].generation >= view[s].generation
         /\ view'[s].source # view[s].source =>
              view'[s].generation > view[s].generation]_vars

\* What the comment on stream_registry::remove_publisher promises: the
\* subscribers of a stream outlive its publisher, so that they can go on when
\* the stream is published again.  A subscriber whose target accepts the new
\* publisher's offer is still subscribed after set_publisher_source.
KeptOnRepublish ==
  [][\A st \in Streams, s \in Subscribers :
       /\ source[st] = NoSource /\ source'[st] # NoSource
       /\ subscriptions[s] = st
       /\ source'[st].offer \in accepts[s]
       => subscriptions'[s] = st]_vars

-----------------------------------------------------------------------------
(* Liveness. *)

Orphaned(s) == subscriptions[s] # NoStream /\ view[s].source = NoSource

\* No subscriber stays for ever on a stream without publisher: the stream is
\* published again or the recovery timer closes the subscriber.
OrphansAreResolved == \A s \in Subscribers : Orphaned(s) ~> ~Orphaned(s)

\* The packet makes the subscriber abandon what it was waiting for.
Remap ==
  \E s \in Subscribers, r \in Ssrcs, restart \in BOOLEAN,
     seen \in {"completed", "aborted", "other"} :
    /\ mapped[s] # r \/ restart
    /\ DeliverRtp(s, r, restart, seen)

\* A subscriber goes on waiting for a key frame only if the publisher has been
\* asked as often as the retry delays allow: the retries of a wait are never
\* forgotten, whichever subscribers join, leave or complete meanwhile.  (A
\* publisher that keeps changing its SSRC or payload type restarts the burst
\* each time.)
WaitsAreRetried ==
  \A s \in Subscribers, r \in Ssrcs :
    \/ []<><<Remap>>_vars
    \/ (r \in waiting[s]) ~>
         \/ r \notin waiting[s]
         \/ \E k \in DOMAIN requests :
              /\ k.ssrc = r /\ s \in requests[k].waiters
              /\ requests[k].sent > RetryDelays
============================================================================
