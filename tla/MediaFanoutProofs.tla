-------------------------- MODULE MediaFanoutProofs --------------------------
(***************************************************************************)
(* Proofs about MediaFanout, for any number of streams, publishers,        *)
(* subscribers, offers and SSRCs.                                          *)
(***************************************************************************)
EXTENDS MediaFanout, TLAPS

-----------------------------------------------------------------------------
(* What the functions on keyframe_requests_ return. *)

LEMMA NewRequestType == NewRequest \in RequestState
  BY DEF NewRequest, RequestState

LEMMA ScheduleKeyframeRetryType ==
  ASSUME NEW e \in RequestState
  PROVE  ScheduleKeyframeRetry(e) \in RequestState
<1>1. [e EXCEPT !.active = FALSE] \in RequestState
  BY DEF RequestState
<1>2. [e EXCEPT !.next = @ + 1, !.token = @ + 1, !.armed = TRUE] \in RequestState
  <2>1. e.next + 1 \in Nat /\ e.token + 1 \in Nat
    BY DEF RequestState
  <2> QED
    BY <2>1, Zenon DEF RequestState
<1> QED
  BY <1>1, <1>2 DEF ScheduleKeyframeRetry

LEMMA SendAgainType ==
  ASSUME NEW e \in RequestState
  PROVE  SendAgain(e) \in RequestState
<1>1. [e EXCEPT !.sent = @ + 1] \in RequestState
  <2>1. e.sent + 1 \in Nat
    BY DEF RequestState
  <2> QED
    BY <2>1, Zenon DEF RequestState
<1> QED
  BY <1>1, ScheduleKeyframeRetryType DEF SendAgain

LEMMA RequestKeyframeType ==
  ASSUME NEW R, IsRequestMap(R), NEW k \in Keys, NEW s \in Subscribers
  PROVE  IsRequestMap(RequestKeyframe(R, k, s))
<1> DEFINE e == [(IF k \in DOMAIN R THEN R[k] ELSE NewRequest)
                   EXCEPT !.waiters = @ \cup {s}]
           f == [e EXCEPT !.active = TRUE, !.next = 0, !.sent = 1]
           g == IF e.active THEN e ELSE ScheduleKeyframeRetry(f)
<1>1. e \in RequestState
  BY NewRequestType DEF IsRequestMap, RequestState
<1>2. f \in RequestState
  BY <1>1 DEF RequestState
<1>3. g \in RequestState
  BY <1>1, <1>2, ScheduleKeyframeRetryType
<1>4. RequestKeyframe(R, k, s) =
        [j \in DOMAIN R \cup {k} |-> IF j # k THEN R[j] ELSE g]
  BY DEF RequestKeyframe
<1> HIDE DEF g
<1> QED
  BY <1>3, <1>4 DEF IsRequestMap

LEMMA CompleteKeyframeRequestType ==
  ASSUME NEW R, IsRequestMap(R), NEW k, NEW s
  PROVE  IsRequestMap(CompleteKeyframeRequest(R, k, s))
  BY DEF CompleteKeyframeRequest, IsRequestMap, RequestState

LEMMA CancelKeyframeRequestsType ==
  ASSUME NEW R, IsRequestMap(R), NEW S
  PROVE  IsRequestMap(CancelKeyframeRequests(R, S))
  BY DEF CancelKeyframeRequests, IsRequestMap, RequestState

LEMMA CancelStreamKeyframeRequestsType ==
  ASSUME NEW R, IsRequestMap(R), NEW st
  PROVE  IsRequestMap(CancelStreamKeyframeRequests(R, st))
  BY DEF CancelStreamKeyframeRequests, IsRequestMap

LEMMA CancelKeyType ==
  ASSUME NEW R, IsRequestMap(R), NEW k
  PROVE  IsRequestMap(CancelKey(R, k))
  BY DEF CancelKey, IsRequestMap

-----------------------------------------------------------------------------
(* Type correctness. *)

LEMMA NoUpdateType == NoUpdate \in [generation: Nat, source: Source \cup {NoSource}]
  BY DEF NoUpdate, Update

LEMMA NoTimingsType == NoTimings \in [Ssrcs -> Nat]
  BY DEF NoTimings

LEMMA InitType == Init => TypeOK
  BY NoUpdateType, NoTimingsType, FanoutAssumption
  DEF Init, TypeOK, RouterTypeOK, TransportTypeOK, IsRequestMap

\* The transports of any set of subscribers may go.
LEMMA ForgetType ==
  ASSUME TypeOK, NEW S, Forget(S)
  PROVE  TransportTypeOK'
  BY NoUpdateType, NoTimingsType DEF TypeOK, TransportTypeOK, Forget

\* Any set of subscribers may be told of a source.
LEMMA AdoptSourceType ==
  ASSUME TypeOK, NEW N, NEW g \in Nat, NEW src \in Source \cup {NoSource},
         AdoptSource(N, Update(g, src))
  PROVE  TransportTypeOK'
  BY NoTimingsType
  DEF TypeOK, TransportTypeOK, AdoptSource, Update, TimingsAfter, RecoveryAfter

\* A subscriber's request is made under a well-formed key.
LEMMA RequestType ==
  ASSUME TypeOK, NEW s \in Subscribers, NEW r \in Ssrcs,
         subscriptions[s] # NoStream, RequestAccepted(s)
  PROVE  ViewKey(s, r) \in Keys
<1>1. subscriptions[s] \in Streams
  BY DEF TypeOK, TransportTypeOK
<1>2. source[subscriptions[s]] \in Source
  BY <1>1 DEF TypeOK, RouterTypeOK, RequestAccepted
<1> QED
  BY <1>1, <1>2
  DEF TypeOK, TransportTypeOK, RequestAccepted, ViewKey, Keys, Source

LEMMA DispatchKeyframeRequestType ==
  ASSUME TypeOK, NEW R, IsRequestMap(R), NEW W \in SUBSET Ssrcs,
         NEW D \in SUBSET Ssrcs, NEW s \in Subscribers, NEW r \in Ssrcs,
         subscriptions[s] # NoStream,
         DispatchKeyframeRequest(R, W, D, s, r)
  PROVE  /\ IsRequestMap(requests')
         /\ waiting' \in [Subscribers -> SUBSET Ssrcs]
         /\ ready' \in [Subscribers -> SUBSET Ssrcs]
<1>1. IsRequestMap(requests')
  <2>1. CASE RequestAccepted(s)
    BY <2>1, RequestType, RequestKeyframeType DEF DispatchKeyframeRequest
  <2>2. CASE ~RequestAccepted(s)
    BY <2>2 DEF DispatchKeyframeRequest
  <2> QED
    BY <2>1, <2>2
<1>2. /\ waiting' \in [Subscribers -> SUBSET Ssrcs]
      /\ ready' \in [Subscribers -> SUBSET Ssrcs]
  BY DEF DispatchKeyframeRequest, TypeOK, TransportTypeOK
<1> QED
  BY <1>1, <1>2

LEMMA TrackKeyframeType ==
  ASSUME TypeOK, NEW R, IsRequestMap(R), NEW W \in SUBSET Ssrcs,
         NEW D \in SUBSET Ssrcs, NEW s \in Subscribers, NEW r \in Ssrcs,
         NEW seen, subscriptions[s] # NoStream,
         TrackKeyframe(R, W, D, s, r, seen)
  PROVE  /\ IsRequestMap(requests')
         /\ waiting' \in [Subscribers -> SUBSET Ssrcs]
         /\ ready' \in [Subscribers -> SUBSET Ssrcs]
<1>1. CASE DispatchKeyframeRequest(R, W, D \ {r}, s, r)
  BY <1>1, DispatchKeyframeRequestType
<1>2. CASE DispatchKeyframeRequest(R, W, D, s, r)
  BY <1>2, DispatchKeyframeRequestType
<1>3. ASSUME requests' = R \/ requests' = CompleteKeyframeRequest(R, ViewKey(s, r), s)
      PROVE  IsRequestMap(requests')
  BY <1>3, CompleteKeyframeRequestType
<1>4. ASSUME NEW V \in SUBSET Ssrcs, NEW E \in SUBSET Ssrcs,
             waiting' = [waiting EXCEPT ![s] = V], ready' = [ready EXCEPT ![s] = E]
      PROVE  /\ waiting' \in [Subscribers -> SUBSET Ssrcs]
             /\ ready' \in [Subscribers -> SUBSET Ssrcs]
  BY <1>4 DEF TypeOK, TransportTypeOK
<1>5. CASE /\ requests' = IF r \in D THEN R ELSE CompleteKeyframeRequest(R, ViewKey(s, r), s)
           /\ waiting' = [waiting EXCEPT ![s] = W \ {r}]
           /\ ready' = [ready EXCEPT ![s] = D \cup {r}]
  <2>1. W \ {r} \in SUBSET Ssrcs /\ D \cup {r} \in SUBSET Ssrcs
    OBVIOUS
  <2> QED
    BY <1>3, <1>4, <1>5, <2>1
<1>6. CASE /\ requests' = R
           /\ waiting' = [waiting EXCEPT ![s] = W]
           /\ ready' = [ready EXCEPT ![s] = D]
  BY <1>3, <1>4, <1>6
<1> QED
  BY <1>1, <1>2, <1>5, <1>6, Zenon DEF TrackKeyframe

LEMMA DeliverRtpType ==
  ASSUME TypeOK, NEW s \in Subscribers, NEW r \in Ssrcs, NEW restart, NEW seen,
         DeliverRtp(s, r, restart, seen)
  PROVE  TypeOK'
<1>1. /\ IsRequestMap(requests')
      /\ waiting' \in [Subscribers -> SUBSET Ssrcs]
      /\ ready' \in [Subscribers -> SUBSET Ssrcs]
  <2>1. CASE TrackKeyframe(requests, waiting[s], ready[s], s, r, seen)
    BY <2>1, TrackKeyframeType DEF DeliverRtp, TypeOK, RouterTypeOK, TransportTypeOK
  <2>2. CASE TrackKeyframe(CancelKeyframeRequests(requests, {s}), {}, {}, s, r, seen)
    BY <2>2, TrackKeyframeType, CancelKeyframeRequestsType
    DEF DeliverRtp, TypeOK, RouterTypeOK
  <2> QED
    BY <2>1, <2>2 DEF DeliverRtp
<1>2. mapped' \in [Subscribers -> Ssrcs \cup {NoSsrc}]
  BY DEF DeliverRtp, TypeOK, TransportTypeOK
<1> QED
  BY <1>1, <1>2
  DEF DeliverRtp, TypeOK, RouterTypeOK, TransportTypeOK, routerVars, subscriberVars

\* A step of one subscriber's transport.
LEMMA SubscriberStepType ==
  ASSUME TypeOK, NEW s \in Subscribers, SubscriberStep(s)
  PROVE  TypeOK'
<1> USE DEF TypeOK
<1>1. ASSUME NEW st \in Streams, NEW A \in SUBSET Offers, Subscribe(s, st, A)
      PROVE  TypeOK'
  <2>1. Update(generations[st], source[st])
          \in [generation: Nat, source: Source \cup {NoSource}]
    BY DEF RouterTypeOK, Update
  <2>2. [r \in Ssrcs |-> IF timings[st][r] = generations[st] THEN timings[st][r] ELSE 0]
          \in [Ssrcs -> Nat]
    BY DEF RouterTypeOK
  <2>3. TransportTypeOK'
    BY <1>1, <2>1, <2>2 DEF Subscribe, TransportTypeOK
  <2> QED
    BY <1>1, <2>3 DEF Subscribe, RouterTypeOK
<1>2. CASE Unsubscribe(s)
  BY <1>2, ForgetType, CancelKeyframeRequestsType DEF Unsubscribe, RouterTypeOK
<1>3. CASE RecoveryTimerExpires(s)
  BY <1>3 DEF RecoveryTimerExpires, RouterTypeOK, TransportTypeOK,
              routerVars, requestVars, keyframeVars
<1>4. CASE HandleRecoveryTimeout(s)
  <2>1. CASE view[s].source # NoSource
    BY <1>4, <2>1 DEF HandleRecoveryTimeout, RouterTypeOK, TransportTypeOK,
                      routerVars, requestVars, keyframeVars
  <2>2. CASE view[s].source = NoSource
    BY <1>4, <2>2, ForgetType, CancelKeyframeRequestsType
    DEF HandleRecoveryTimeout, RouterTypeOK
  <2> QED
    BY <2>1, <2>2
<1>5. ASSUME NEW r \in Ssrcs, NEW restart, NEW seen, DeliverRtp(s, r, restart, seen)
      PROVE  TypeOK'
  BY <1>5, DeliverRtpType
<1>6. ASSUME NEW r \in Ssrcs, FailRtp(s, r)
      PROVE  TypeOK'
  BY <1>6 DEF FailRtp, RouterTypeOK, TransportTypeOK, routerVars, requestVars, subscriberVars
<1>7. CASE KeyframeFeedback(s)
  <2>1. mapped[s] \in Ssrcs
    BY <1>7 DEF KeyframeFeedback, TransportTypeOK
  <2>2. waiting[s] \in SUBSET Ssrcs /\ ready[s] \ {mapped[s]} \in SUBSET Ssrcs
    BY DEF TransportTypeOK
  <2>3. /\ IsRequestMap(requests')
        /\ waiting' \in [Subscribers -> SUBSET Ssrcs]
        /\ ready' \in [Subscribers -> SUBSET Ssrcs]
    BY <1>7, <2>1, <2>2, DispatchKeyframeRequestType DEF KeyframeFeedback, RouterTypeOK
  <2> QED
    BY <1>7, <2>3
    DEF KeyframeFeedback, RouterTypeOK, TransportTypeOK, routerVars, subscriberVars
<1>8. CASE Renominate(s)
  BY <1>8, CancelKeyframeRequestsType
  DEF Renominate, RouterTypeOK, TransportTypeOK, routerVars, subscriberVars
<1> QED
  BY <1>1, <1>2, <1>3, <1>4, <1>5, <1>6, <1>7, <1>8 DEF SubscriberStep

\* A step of a stream's publisher.
LEMMA PublisherStepType ==
  ASSUME TypeOK, NEW st \in Streams, PublisherStep(st)
  PROVE  TypeOK'
<1> USE DEF TypeOK
<1>1. ASSUME NEW p \in Publishers, NEW o \in Offers, SetPublisherSource(st, p, o)
      PROVE  TypeOK'
  <2> DEFINE g == nextGeneration
             src == [session |-> p, generation |-> g, offer |-> o]
  <2>1. g \in Nat /\ src \in Source
    BY DEF RouterTypeOK, Source
  <2>2. RouterTypeOK'
    BY <1>1, <2>1, NoTimingsType, CancelStreamKeyframeRequestsType
    DEF SetPublisherSource, AllocatedGeneration, RouterTypeOK
  <2>3. CASE Forget(SubscribersOf(st))
    BY <2>2, <2>3, ForgetType
  <2>4. CASE AdoptSource(Notified(st, g), Update(g, src))
    BY <2>1, <2>2, <2>4, AdoptSourceType
  <2> QED
    BY <1>1, <2>3, <2>4 DEF SetPublisherSource, AllocatedGeneration
<1>2. CASE ClearPublisherSource(st)
  <2>1. nextGeneration \in Nat
    BY DEF RouterTypeOK
  <2>2. RouterTypeOK'
    BY <1>2, NoTimingsType, CancelStreamKeyframeRequestsType
    DEF ClearPublisherSource, AllocatedGeneration, RouterTypeOK
  <2>3. TransportTypeOK'
    BY <1>2, <2>1, AdoptSourceType DEF ClearPublisherSource, AllocatedGeneration
  <2> QED
    BY <2>2, <2>3
<1>3. ASSUME NEW r \in Ssrcs, PublishSenderTiming(st, r)
      PROVE  TypeOK'
  <2>1. source[st].generation \in Nat
    BY <1>3 DEF PublishSenderTiming, RouterTypeOK, Source
  <2> QED
    BY <1>3, <2>1
    DEF PublishSenderTiming, RouterTypeOK, TransportTypeOK, requestVars, keyframeVars
<1>4. ASSUME NEW r \in Ssrcs, PublishSourceBye(st, r)
      PROVE  TypeOK'
  BY <1>4, CancelKeyType DEF PublishSourceBye, RouterTypeOK, TransportTypeOK
<1> QED
  BY <1>1, <1>2, <1>3, <1>4 DEF PublisherStep

\* The completion of a retry timer.
LEMMA KeyframeRetryType ==
  ASSUME TypeOK, HandleKeyframeRetry
  PROVE  TypeOK'
<1> DEFINE k == Head(retryQueue)[1]
           token == Head(retryQueue)[2]
<1>1. IsRequestMap(requests')
  <2>1. CASE ~RetryAccepted(k, token)
    BY <2>1 DEF HandleKeyframeRetry, TypeOK, RouterTypeOK
  <2>2. CASE RetryAccepted(k, token) /\ ~RetrySourceCurrent(k)
    BY <2>2, CancelKeyType DEF HandleKeyframeRetry, TypeOK, RouterTypeOK
  <2>3. CASE RetryAccepted(k, token) /\ RetrySourceCurrent(k)
    <3>1. k \in DOMAIN requests /\ requests[k] \in RequestState
      BY <2>3 DEF RetryAccepted, TypeOK, RouterTypeOK, IsRequestMap
    <3>2. requests' = [requests EXCEPT ![k] = SendAgain(requests[k])]
      BY <2>3, Zenon DEF HandleKeyframeRetry
    <3> QED
      BY <3>1, <3>2, SendAgainType DEF TypeOK, RouterTypeOK, IsRequestMap
  <2> QED
    BY <2>1, <2>2, <2>3
<1>2. retryQueue' \in Seq(Keys \X Nat)
  BY DEF HandleKeyframeRetry, TypeOK, RouterTypeOK
<1> QED
  BY <1>1, <1>2 DEF HandleKeyframeRetry, TypeOK, RouterTypeOK, TransportTypeOK,
                    routerVars, keyframeVars, subscriberVars

LEMMA NextType == TypeOK /\ [Next]_vars => TypeOK'
<1> SUFFICES ASSUME TypeOK, [Next]_vars PROVE TypeOK'
  OBVIOUS
<1>1. ASSUME NEW s \in Subscribers, SubscriberStep(s) PROVE TypeOK'
  BY <1>1, SubscriberStepType
<1>2. ASSUME NEW st \in Streams, PublisherStep(st) PROVE TypeOK'
  BY <1>2, PublisherStepType
<1>3. ASSUME NEW k \in DOMAIN requests, RetryTimerExpires(k) PROVE TypeOK'
  <2>1. k \in Keys /\ requests[k] \in RequestState
    BY DEF TypeOK, RouterTypeOK, IsRequestMap
  <2>2. <<k, requests[k].token>> \in Keys \X Nat
    BY <2>1 DEF RequestState
  <2>3. retryQueue' \in Seq(Keys \X Nat)
    BY <1>3, <2>2 DEF RetryTimerExpires, TypeOK, RouterTypeOK
  <2>4. [requests[k] EXCEPT !.armed = FALSE] \in RequestState
    BY <2>1 DEF RequestState
  <2>5. IsRequestMap(requests')
    BY <1>3, <2>4 DEF RetryTimerExpires, TypeOK, RouterTypeOK, IsRequestMap
  <2> QED
    BY <1>3, <2>3, <2>5
    DEF RetryTimerExpires, TypeOK, RouterTypeOK, TransportTypeOK,
        routerVars, keyframeVars, subscriberVars
<1>4. CASE HandleKeyframeRetry
  BY <1>4, KeyframeRetryType
<1>5. CASE UNCHANGED vars
  BY <1>5 DEF vars, routerVars, requestVars, keyframeVars, subscriberVars,
              TypeOK, RouterTypeOK, TransportTypeOK
<1> QED
  BY <1>1, <1>2, <1>3, <1>4, <1>5 DEF Next

\* Whatever order the handlers run in, the router's maps and every transport's
\* copies hold values of their types: in particular no key frame request is
\* made under a key without publisher, or for an SSRC that is not mapped.
THEOREM TypeCorrect == Spec => []TypeOK
  BY InitType, NextType, PTL DEF Spec

-----------------------------------------------------------------------------
(* The subscribers' copies of the source.  ViewIsCurrent is inductive once it  *)
(* is known that a new generation is newer than every generation given out:    *)
(* otherwise handle_publisher_source could drop an update as stale.            *)

SourceInv == TypeOK /\ GenerationsAgree /\ ViewIsCurrent

\* No subscriber takes the update of a new generation for a stale one.
LEMMA EveryoneIsNotified ==
  ASSUME SourceInv, NEW st \in Streams
  PROVE  Notified(st, nextGeneration) = SubscribersOf(st)
<1>1. ASSUME NEW s \in SubscribersOf(st) PROVE ~(nextGeneration < view[s].generation)
  <2>1. s \in Subscribers /\ subscriptions[s] = st /\ st # NoStream
    BY FanoutAssumption DEF SubscribersOf
  <2>2. view[s] = Update(generations[st], source[st])
    BY <2>1, Zenon DEF SourceInv, ViewIsCurrent
  <2>3. generations[st] < nextGeneration /\ generations[st] \in Nat /\ nextGeneration \in Nat
    BY DEF SourceInv, GenerationsAgree, TypeOK, RouterTypeOK
  <2> QED
    BY <2>2, <2>3 DEF Update
<1> QED
  BY <1>1 DEF Notified

\* A step that leaves the sources alone, and does not subscribe anyone.
LEMMA SourceInvKept ==
  ASSUME SourceInv, TypeOK', UNCHANGED <<source, generations, nextGeneration>>,
         \A s \in Subscribers :
           \/ subscriptions'[s] = NoStream
           \/ subscriptions'[s] = subscriptions[s] /\ view'[s] = view[s]
  PROVE  SourceInv'
  BY DEF SourceInv, GenerationsAgree, ViewIsCurrent

LEMMA ForgetSpares ==
  ASSUME NEW S, Forget(S)
  PROVE  \A s \in Subscribers :
           \/ subscriptions'[s] = NoStream
           \/ s \notin S /\ subscriptions'[s] = subscriptions[s] /\ view'[s] = view[s]
  BY DEF Forget

LEMMA SubscriberStepSource ==
  ASSUME SourceInv, TypeOK', NEW s \in Subscribers, SubscriberStep(s)
  PROVE  SourceInv'
<1>1. ASSUME NEW st \in Streams, NEW A \in SUBSET Offers, Subscribe(s, st, A)
      PROVE  SourceInv'
  <2>1. GenerationsAgree'
    BY <1>1 DEF SourceInv, GenerationsAgree, Subscribe
  <2>2. ASSUME NEW t \in Subscribers, subscriptions'[t] # NoStream
        PROVE  view'[t] = Update(generations'[subscriptions'[t]], source'[subscriptions'[t]])
    <3>1. CASE t = s
      BY <1>1, <3>1 DEF Subscribe, SourceInv, TypeOK, TransportTypeOK
    <3>2. CASE t # s
      BY <1>1, <2>2, <3>2 DEF Subscribe, SourceInv, TypeOK, TransportTypeOK, ViewIsCurrent
    <3> QED
      BY <3>1, <3>2
  <2> QED
    BY <2>1, <2>2 DEF SourceInv, ViewIsCurrent, Update
<1>2. CASE Unsubscribe(s)
  BY <1>2, ForgetSpares, SourceInvKept DEF Unsubscribe
<1>3. CASE RecoveryTimerExpires(s)
  BY <1>3, SourceInvKept DEF RecoveryTimerExpires, routerVars
<1>4. CASE HandleRecoveryTimeout(s)
  <2>1. CASE view[s].source # NoSource
    BY <1>4, <2>1, SourceInvKept DEF HandleRecoveryTimeout, routerVars
  <2>2. CASE view[s].source = NoSource
    BY <1>4, <2>2, ForgetSpares, SourceInvKept DEF HandleRecoveryTimeout
  <2> QED
    BY <2>1, <2>2
<1>5. ASSUME NEW r \in Ssrcs, NEW restart, NEW seen, DeliverRtp(s, r, restart, seen)
      PROVE  SourceInv'
  BY <1>5, SourceInvKept DEF DeliverRtp, routerVars, subscriberVars
<1>6. ASSUME NEW r \in Ssrcs, FailRtp(s, r)
      PROVE  SourceInv'
  BY <1>6, SourceInvKept DEF FailRtp, routerVars, subscriberVars
<1>7. CASE KeyframeFeedback(s)
  BY <1>7, SourceInvKept DEF KeyframeFeedback, routerVars, subscriberVars
<1>8. CASE Renominate(s)
  BY <1>8, SourceInvKept DEF Renominate, routerVars, subscriberVars
<1> QED
  BY <1>1, <1>2, <1>3, <1>4, <1>5, <1>6, <1>7, <1>8 DEF SubscriberStep

\* The stream st gets the next generation, with or without a source.
LEMMA NewGeneration ==
  ASSUME SourceInv, NEW st \in Streams, NEW src \in Source \cup {NoSource},
         src # NoSource => src.generation = nextGeneration,
         source' = [source EXCEPT ![st] = src],
         generations' = [generations EXCEPT ![st] = nextGeneration],
         nextGeneration' = nextGeneration + 1
  PROVE  GenerationsAgree'
<1>1. nextGeneration \in Nat \ {0} /\ \A t \in Streams : generations[t] \in Nat
  BY DEF SourceInv, TypeOK, RouterTypeOK
<1>2. \A t \in Streams : generations'[t] = IF t = st THEN nextGeneration ELSE generations[t]
  BY DEF SourceInv, TypeOK, RouterTypeOK
<1>3. \A t \in Streams : source'[t] = IF t = st THEN src ELSE source[t]
  BY DEF SourceInv, TypeOK, RouterTypeOK
<1> QED
  BY <1>1, <1>2, <1>3 DEF SourceInv, GenerationsAgree

LEMMA PublisherStepSource ==
  ASSUME SourceInv, TypeOK', NEW st \in Streams, PublisherStep(st)
  PROVE  SourceInv'
<1>1. ASSUME NEW src \in Source \cup {NoSource},
             source' = [source EXCEPT ![st] = src],
             generations' = [generations EXCEPT ![st] = nextGeneration],
             AdoptSource(Notified(st, nextGeneration), Update(nextGeneration, src))
      PROVE  ViewIsCurrent'
  <2>1. Notified(st, nextGeneration) = SubscribersOf(st)
    BY EveryoneIsNotified
  <2>2. ASSUME NEW s \in Subscribers, subscriptions'[s] # NoStream
        PROVE  view'[s] = Update(generations'[subscriptions'[s]], source'[subscriptions'[s]])
    <3>1. subscriptions'[s] = subscriptions[s] /\ subscriptions[s] \in Streams
      BY <1>1, <2>2 DEF AdoptSource, SourceInv, TypeOK, TransportTypeOK
    <3>2. CASE subscriptions[s] = st
      BY <1>1, <2>1, <3>1, <3>2
      DEF AdoptSource, SubscribersOf, SourceInv, TypeOK, RouterTypeOK
    <3>3. CASE subscriptions[s] # st
      BY <1>1, <2>1, <2>2, <3>1, <3>3
      DEF AdoptSource, SubscribersOf, SourceInv, TypeOK, RouterTypeOK, ViewIsCurrent
    <3> QED
      BY <3>2, <3>3
  <2> QED
    BY <2>2 DEF ViewIsCurrent, Update
<1>2. ASSUME NEW p \in Publishers, NEW o \in Offers, SetPublisherSource(st, p, o)
      PROVE  SourceInv'
  <2> DEFINE src == [session |-> p, generation |-> nextGeneration, offer |-> o]
  <2>1. src \in Source
    BY DEF Source, SourceInv, TypeOK, RouterTypeOK
  <2>2. /\ source' = [source EXCEPT ![st] = src]
        /\ generations' = [generations EXCEPT ![st] = nextGeneration]
        /\ nextGeneration' = nextGeneration + 1
        /\ \/ Forget(SubscribersOf(st))
           \/ AdoptSource(Notified(st, nextGeneration), Update(nextGeneration, src))
    BY <1>2 DEF SetPublisherSource, AllocatedGeneration
  <2>3. GenerationsAgree'
    BY <2>1, <2>2, NewGeneration
  <2>4. CASE Forget(SubscribersOf(st))
    <3>1. ASSUME NEW s \in Subscribers, subscriptions'[s] # NoStream
          PROVE  /\ subscriptions'[s] = subscriptions[s] /\ view'[s] = view[s]
                 /\ subscriptions[s] \in Streams \ {st}
      BY <2>4, <3>1, ForgetSpares
      DEF SubscribersOf, SourceInv, TypeOK, TransportTypeOK
    <3> QED
      BY <2>2, <2>3, <3>1
      DEF SourceInv, ViewIsCurrent, Update, TypeOK, RouterTypeOK
  <2>5. CASE AdoptSource(Notified(st, nextGeneration), Update(nextGeneration, src))
    BY <1>1, <2>1, <2>2, <2>3, <2>5 DEF SourceInv
  <2> QED
    BY <2>2, <2>4, <2>5
<1>3. CASE ClearPublisherSource(st)
  <2>1. /\ source' = [source EXCEPT ![st] = NoSource]
        /\ generations' = [generations EXCEPT ![st] = nextGeneration]
        /\ nextGeneration' = nextGeneration + 1
        /\ AdoptSource(Notified(st, nextGeneration), Update(nextGeneration, NoSource))
    BY <1>3 DEF ClearPublisherSource, AllocatedGeneration
  <2>2. GenerationsAgree'
    BY <2>1, NewGeneration
  <2> QED
    BY <1>1, <2>1, <2>2 DEF SourceInv
<1>4. ASSUME NEW r \in Ssrcs, PublishSenderTiming(st, r)
      PROVE  SourceInv'
  BY <1>4, SourceInvKept DEF PublishSenderTiming
<1>5. ASSUME NEW r \in Ssrcs, PublishSourceBye(st, r)
      PROVE  SourceInv'
  BY <1>5, SourceInvKept DEF PublishSourceBye
<1> QED
  BY <1>2, <1>3, <1>4, <1>5 DEF PublisherStep

LEMMA NextSource == SourceInv /\ [Next]_vars => SourceInv'
<1> SUFFICES ASSUME SourceInv, [Next]_vars PROVE SourceInv'
  OBVIOUS
<1>1. TypeOK'
  BY NextType DEF SourceInv
<1>2. ASSUME NEW s \in Subscribers, SubscriberStep(s) PROVE SourceInv'
  BY <1>1, <1>2, SubscriberStepSource
<1>3. ASSUME NEW st \in Streams, PublisherStep(st) PROVE SourceInv'
  BY <1>1, <1>3, PublisherStepSource
<1>4. ASSUME NEW k \in DOMAIN requests, RetryTimerExpires(k) PROVE SourceInv'
  BY <1>1, <1>4, SourceInvKept DEF RetryTimerExpires, routerVars, subscriberVars
<1>5. CASE HandleKeyframeRetry
  BY <1>1, <1>5, SourceInvKept DEF HandleKeyframeRetry, routerVars, subscriberVars
<1>6. CASE UNCHANGED vars
  BY <1>1, <1>6, SourceInvKept DEF vars, routerVars, subscriberVars
<1> QED
  BY <1>2, <1>3, <1>4, <1>5, <1>6 DEF Next

LEMMA InitSource == Init => SourceInv
<1> SUFFICES ASSUME Init PROVE SourceInv
  OBVIOUS
<1>1. GenerationsAgree
  BY DEF Init, GenerationsAgree
<1>2. ViewIsCurrent
  BY DEF Init, ViewIsCurrent
<1> QED
  BY <1>1, <1>2, InitType DEF SourceInv

LEMMA SourceInvariant == Spec => []SourceInv
  BY InitSource, NextSource, PTL DEF Spec

\* A generation identifies one publication of one stream.
THEOREM GenerationsIdentifySources == Spec => []GenerationsAgree
<1>1. SourceInv => GenerationsAgree
  BY DEF SourceInv
<1> QED
  BY <1>1, SourceInvariant, PTL

\* Every subscriber's source is the router's, in every reachable state and for
\* any number of streams and subscribers.
THEOREM SubscribersSeeTheCurrentSource == Spec => []ViewIsCurrent
<1>1. SourceInv => ViewIsCurrent
  BY DEF SourceInv
<1> QED
  BY <1>1, SourceInvariant, PTL

-----------------------------------------------------------------------------
(* The subscribers' copies of the sender timings.  TimingsAgree is inductive   *)
(* relative to SourceInv: that a subscriber sees the current source decides    *)
(* which timings it takes over and which it drops.                             *)

TimingsInv == SourceInv /\ TimingsAgree

\* A step that leaves the timings alone, and does not subscribe anyone.
LEMMA TimingsKept ==
  ASSUME TimingsInv, UNCHANGED <<source, timings>>,
         \A s \in Subscribers :
           \/ subscriptions'[s] = NoStream
           \/ subscriptions'[s] = subscriptions[s] /\ heard'[s] = heard[s]
  PROVE  TimingsAgree'
  BY DEF TimingsInv, TimingsAgree

LEMMA ForgetSparesTimings ==
  ASSUME NEW S, Forget(S)
  PROVE  \A s \in Subscribers :
           \/ subscriptions'[s] = NoStream
           \/ s \notin S /\ subscriptions'[s] = subscriptions[s] /\ heard'[s] = heard[s]
  BY DEF Forget

\* subscribe() delivers all the timings the router has for the stream.
LEMMA SubscribeTimings ==
  ASSUME TimingsInv, NEW s \in Subscribers, NEW st \in Streams, NEW A, Subscribe(s, st, A)
  PROVE  TimingsAgree'
<1>1. timings[st] \in [Ssrcs -> Nat]
  BY DEF TimingsInv, SourceInv, TypeOK, RouterTypeOK
<1>2. \A r \in Ssrcs : timings[st][r] # 0 => timings[st][r] = generations[st]
  BY DEF TimingsInv, TimingsAgree, SourceInv, GenerationsAgree
<1>3. [r \in Ssrcs |-> IF timings[st][r] = generations[st] THEN timings[st][r] ELSE 0] = timings[st]
  BY <1>1, <1>2
<1>4. heard' = [heard EXCEPT ![s] = timings[st]]
  BY <1>3 DEF Subscribe
<1>5. ASSUME NEW t \in Subscribers, subscriptions'[t] # NoStream
      PROVE  heard'[t] = timings'[subscriptions'[t]]
  <2>1. CASE t = s
    BY <1>4, <2>1 DEF Subscribe, TimingsInv, SourceInv, TypeOK, TransportTypeOK
  <2>2. CASE t # s
    BY <1>4, <1>5, <2>2
    DEF Subscribe, TimingsInv, TimingsAgree, SourceInv, TypeOK, TransportTypeOK
  <2> QED
    BY <2>1, <2>2
<1> QED
  BY <1>5 DEF TimingsInv, TimingsAgree, Subscribe

LEMMA SubscriberStepTimings ==
  ASSUME TimingsInv, NEW s \in Subscribers, SubscriberStep(s)
  PROVE  TimingsAgree'
<1>1. ASSUME NEW st \in Streams, NEW A \in SUBSET Offers, Subscribe(s, st, A)
      PROVE  TimingsAgree'
  BY <1>1, SubscribeTimings
<1>2. CASE Unsubscribe(s)
  BY <1>2, ForgetSparesTimings, TimingsKept DEF Unsubscribe
<1>3. CASE RecoveryTimerExpires(s)
  BY <1>3, TimingsKept DEF RecoveryTimerExpires, routerVars
<1>4. CASE HandleRecoveryTimeout(s)
  <2>1. CASE view[s].source # NoSource
    BY <1>4, <2>1, TimingsKept DEF HandleRecoveryTimeout, routerVars
  <2>2. CASE view[s].source = NoSource
    BY <1>4, <2>2, ForgetSparesTimings, TimingsKept DEF HandleRecoveryTimeout
  <2> QED
    BY <2>1, <2>2
<1>5. ASSUME NEW r \in Ssrcs, NEW restart, NEW seen, DeliverRtp(s, r, restart, seen)
      PROVE  TimingsAgree'
  BY <1>5, TimingsKept DEF DeliverRtp, routerVars, subscriberVars
<1>6. ASSUME NEW r \in Ssrcs, FailRtp(s, r)
      PROVE  TimingsAgree'
  BY <1>6, TimingsKept DEF FailRtp, routerVars, subscriberVars
<1>7. CASE KeyframeFeedback(s)
  BY <1>7, TimingsKept DEF KeyframeFeedback, routerVars, subscriberVars
<1>8. CASE Renominate(s)
  BY <1>8, TimingsKept DEF Renominate, routerVars, subscriberVars
<1> QED
  BY <1>1, <1>2, <1>3, <1>4, <1>5, <1>6, <1>7, <1>8 DEF SubscriberStep

\* Every subscriber of the stream drops the timings of the source before.
LEMMA AdoptSourceTimings ==
  ASSUME TimingsInv, NEW st \in Streams, NEW src \in Source \cup {NoSource},
         source' = [source EXCEPT ![st] = src],
         timings' = [timings EXCEPT ![st] = NoTimings],
         AdoptSource(Notified(st, nextGeneration), Update(nextGeneration, src))
  PROVE  TimingsAgree'
<1>1. Notified(st, nextGeneration) = SubscribersOf(st)
  BY EveryoneIsNotified DEF TimingsInv
<1>2. ASSUME NEW s \in Subscribers, subscriptions[s] = st
      PROVE  TimingsAfter(s, Update(nextGeneration, src)) = NoTimings
  <2>1. st # NoStream
    BY FanoutAssumption
  <2>2. view[s] = Update(generations[st], source[st])
    BY <1>2, <2>1, Zenon DEF TimingsInv, SourceInv, ViewIsCurrent
  <2>3. view[s].generation # nextGeneration
    BY <2>2 DEF TimingsInv, SourceInv, GenerationsAgree, Update, TypeOK, RouterTypeOK
  <2> QED
    BY <2>3 DEF TimingsAfter, Update
<1>3. \A t \in Streams : timings'[t] = IF t = st THEN NoTimings ELSE timings[t]
  BY DEF TimingsInv, SourceInv, TypeOK, RouterTypeOK
<1>4. \A t \in Streams : t # st => source'[t] = source[t]
  BY DEF TimingsInv, SourceInv, TypeOK, RouterTypeOK
<1>5. ASSUME NEW t \in Streams, NEW r \in Ssrcs, timings'[t][r] # 0
      PROVE  source'[t] # NoSource /\ timings'[t][r] = source'[t].generation
  <2>1. t # st
    BY <1>3, <1>5 DEF NoTimings
  <2> QED
    BY <1>3, <1>4, <1>5, <2>1 DEF TimingsInv, TimingsAgree
<1>6. ASSUME NEW s \in Subscribers, subscriptions'[s] # NoStream
      PROVE  heard'[s] = timings'[subscriptions'[s]]
  <2>1. subscriptions'[s] = subscriptions[s] /\ subscriptions[s] \in Streams
    BY <1>6 DEF AdoptSource, TimingsInv, SourceInv, TypeOK, TransportTypeOK
  <2>2. CASE subscriptions[s] = st
    BY <1>1, <1>2, <1>3, <2>1, <2>2 DEF AdoptSource, SubscribersOf
  <2>3. CASE subscriptions[s] # st
    BY <1>1, <1>3, <1>6, <2>1, <2>3 DEF AdoptSource, SubscribersOf, TimingsInv, TimingsAgree
  <2> QED
    BY <2>2, <2>3
<1> QED
  BY <1>5, <1>6 DEF TimingsAgree

\* A sender report or a BYE of the publisher reaches exactly its subscribers.
LEMMA OneTimingChanges ==
  ASSUME TimingsInv, NEW st \in Streams, source[st] # NoSource, NEW r \in Ssrcs,
         NEW g \in {0, source[st].generation},
         UNCHANGED <<source, subscriptions>>,
         timings' = [timings EXCEPT ![st][r] = g],
         heard' = [s \in Subscribers |->
                     IF s \in SubscribersOf(st) /\ view[s].source # NoSource
                        /\ view[s].generation = source[st].generation
                        /\ view[s].source.session = source[st].session
                     THEN [heard[s] EXCEPT ![r] = g] ELSE heard[s]]
  PROVE  TimingsAgree'
<1>1. timings \in [Streams -> [Ssrcs -> Nat]]
  BY DEF TimingsInv, SourceInv, TypeOK, RouterTypeOK
<1>2. \A t \in Streams : timings'[t] = IF t = st THEN [timings[st] EXCEPT ![r] = g] ELSE timings[t]
  BY <1>1
<1>3. ASSUME NEW t \in Streams, NEW q \in Ssrcs, timings'[t][q] # 0
      PROVE  source'[t] # NoSource /\ timings'[t][q] = source'[t].generation
  <2>1. CASE t = st /\ q = r
    BY <1>1, <1>2, <1>3, <2>1
  <2>2. CASE ~(t = st /\ q = r)
    <3>1. timings'[t][q] = timings[t][q]
      BY <1>1, <1>2, <2>2
    <3> QED
      BY <1>3, <3>1 DEF TimingsInv, TimingsAgree
  <2> QED
    BY <2>1, <2>2
<1>4. ASSUME NEW s \in Subscribers, subscriptions'[s] # NoStream
      PROVE  heard'[s] = timings'[subscriptions'[s]]
  <2>1. subscriptions[s] \in Streams /\ heard[s] = timings[subscriptions[s]]
    BY <1>4 DEF TimingsInv, TimingsAgree, SourceInv, TypeOK, TransportTypeOK
  <2>2. CASE subscriptions[s] = st
    <3>1. view[s] = Update(generations[st], source[st])
      BY <1>4, <2>2, Zenon DEF TimingsInv, SourceInv, ViewIsCurrent
    <3>2. source[st].generation = generations[st]
      BY DEF TimingsInv, SourceInv, GenerationsAgree
    <3>3. heard'[s] = [heard[s] EXCEPT ![r] = g]
      BY <2>2, <3>1, <3>2 DEF SubscribersOf, Update
    <3> QED
      BY <1>2, <2>1, <2>2, <3>3
  <2>3. CASE subscriptions[s] # st
    BY <1>2, <2>1, <2>3 DEF SubscribersOf
  <2> QED
    BY <2>2, <2>3
<1> QED
  BY <1>3, <1>4 DEF TimingsAgree

LEMMA PublisherStepTimings ==
  ASSUME TimingsInv, NEW st \in Streams, PublisherStep(st)
  PROVE  TimingsAgree'
<1>1. ASSUME NEW p \in Publishers, NEW o \in Offers, SetPublisherSource(st, p, o)
      PROVE  TimingsAgree'
  <2> DEFINE src == [session |-> p, generation |-> nextGeneration, offer |-> o]
  <2>1. src \in Source
    BY DEF Source, TimingsInv, SourceInv, TypeOK, RouterTypeOK
  <2>2. /\ source' = [source EXCEPT ![st] = src]
        /\ timings' = [timings EXCEPT ![st] = NoTimings]
        /\ \/ Forget(SubscribersOf(st))
           \/ AdoptSource(Notified(st, nextGeneration), Update(nextGeneration, src))
    BY <1>1 DEF SetPublisherSource, AllocatedGeneration
  <2>3. CASE Forget(SubscribersOf(st))
    <3>1. \A t \in Streams : timings'[t] = IF t = st THEN NoTimings ELSE timings[t]
      BY <2>2 DEF TimingsInv, SourceInv, TypeOK, RouterTypeOK
    <3>2. \A t \in Streams : t # st => source'[t] = source[t]
      BY <2>2 DEF TimingsInv, SourceInv, TypeOK, RouterTypeOK
    <3>3. ASSUME NEW t \in Streams, NEW r \in Ssrcs, timings'[t][r] # 0
          PROVE  source'[t] # NoSource /\ timings'[t][r] = source'[t].generation
      <4>1. t # st
        BY <3>1, <3>3 DEF NoTimings
      <4> QED
        BY <3>1, <3>2, <3>3, <4>1 DEF TimingsInv, TimingsAgree
    <3>4. ASSUME NEW s \in Subscribers, subscriptions'[s] # NoStream
          PROVE  heard'[s] = timings'[subscriptions'[s]]
      <4>1. /\ subscriptions'[s] = subscriptions[s] /\ heard'[s] = heard[s]
            /\ subscriptions[s] \in Streams \ {st}
        BY <2>3, <3>4, ForgetSparesTimings
        DEF SubscribersOf, TimingsInv, SourceInv, TypeOK, TransportTypeOK
      <4> QED
        BY <3>1, <3>4, <4>1 DEF TimingsInv, TimingsAgree
    <3> QED
      BY <3>3, <3>4 DEF TimingsAgree
  <2>4. CASE AdoptSource(Notified(st, nextGeneration), Update(nextGeneration, src))
    BY <2>1, <2>2, <2>4, AdoptSourceTimings
  <2> QED
    BY <2>2, <2>3, <2>4
<1>2. CASE ClearPublisherSource(st)
  BY <1>2, AdoptSourceTimings DEF ClearPublisherSource, AllocatedGeneration
<1>3. ASSUME NEW r \in Ssrcs, PublishSenderTiming(st, r)
      PROVE  TimingsAgree'
  BY <1>3, OneTimingChanges DEF PublishSenderTiming
<1>4. ASSUME NEW r \in Ssrcs, PublishSourceBye(st, r)
      PROVE  TimingsAgree'
  <2>1. heard' = [s \in Subscribers |->
                    IF s \in SubscribersOf(st) /\ view[s].source # NoSource
                       /\ view[s].generation = source[st].generation
                       /\ view[s].source.session = source[st].session
                    THEN [heard[s] EXCEPT ![r] = 0] ELSE heard[s]]
    BY <1>4 DEF PublishSourceBye
  <2> QED
    BY <1>4, <2>1, OneTimingChanges DEF PublishSourceBye
<1> QED
  BY <1>1, <1>2, <1>3, <1>4 DEF PublisherStep

LEMMA NextTimings == TimingsInv /\ [Next]_vars => TimingsInv'
<1> SUFFICES ASSUME TimingsInv, [Next]_vars PROVE TimingsAgree'
  BY NextSource DEF TimingsInv
<1>1. ASSUME NEW s \in Subscribers, SubscriberStep(s) PROVE TimingsAgree'
  BY <1>1, SubscriberStepTimings
<1>2. ASSUME NEW st \in Streams, PublisherStep(st) PROVE TimingsAgree'
  BY <1>2, PublisherStepTimings
<1>3. ASSUME NEW k \in DOMAIN requests, RetryTimerExpires(k) PROVE TimingsAgree'
  BY <1>3, TimingsKept DEF RetryTimerExpires, routerVars, subscriberVars
<1>4. CASE HandleKeyframeRetry
  BY <1>4, TimingsKept DEF HandleKeyframeRetry, routerVars, subscriberVars
<1>5. CASE UNCHANGED vars
  BY <1>5, TimingsKept DEF vars, routerVars, subscriberVars
<1> QED
  BY <1>1, <1>2, <1>3, <1>4, <1>5 DEF Next

\* The sender timings of the router and of every subscriber are those of the
\* current source of the stream.
THEOREM TimingsAreOfTheSource == Spec => []TimingsAgree
<1>1. Init => TimingsAgree
  BY DEF Init, TimingsAgree, NoTimings
<1>2. TimingsInv => TimingsAgree
  BY DEF TimingsInv
<1>3. TimingsInv <=> SourceInv /\ TimingsAgree
  BY DEF TimingsInv
<1> QED
  BY <1>1, <1>2, <1>3, SourceInvariant, NextTimings, PTL DEF Spec

-----------------------------------------------------------------------------
(* The recovery timers of the subscribers.                                     *)

OrphansInv == SourceInv /\ OrphansAreTimed

\* A subscriber whose copy of the source stays as it is, and who is new to no
\* stream, is timed as before; its timer may have turned into a completion.
LEMMA OrphansKept ==
  ASSUME OrphansInv,
         \A s \in Subscribers :
           \/ subscriptions'[s] = NoStream /\ ~recovery'[s]
           \/ /\ subscriptions'[s] = subscriptions[s] /\ view'[s] = view[s]
              /\ recovery'[s] => recovery[s]
              /\ view[s].source = NoSource /\ (recovery[s] \/ expired[s])
                   => recovery'[s] \/ expired'[s]
           \/ recovery'[s] <=> subscriptions'[s] # NoStream /\ view'[s].source = NoSource
  PROVE  OrphansAreTimed'
  BY DEF OrphansInv, OrphansAreTimed

LEMMA ForgetOrphans ==
  ASSUME OrphansInv, NEW S, Forget(S)
  PROVE  OrphansAreTimed'
  BY OrphansKept DEF Forget, OrphansInv, SourceInv, TypeOK, TransportTypeOK

LEMMA AdoptSourceOrphans ==
  ASSUME OrphansInv, NEW st \in Streams, NEW u,
         AdoptSource(Notified(st, nextGeneration), u)
  PROVE  OrphansAreTimed'
<1>1. Notified(st, nextGeneration) = SubscribersOf(st) /\ st # NoStream
  BY EveryoneIsNotified, FanoutAssumption DEF OrphansInv
<1>2. ASSUME NEW s \in Subscribers, subscriptions[s] = st
      PROVE  recovery'[s] <=> subscriptions'[s] # NoStream /\ view'[s].source = NoSource
  BY <1>1, <1>2 DEF AdoptSource, RecoveryAfter, SubscribersOf
<1>3. ASSUME NEW s \in Subscribers, subscriptions[s] # st
      PROVE  UNCHANGED <<subscriptions[s], view[s], recovery[s], expired[s]>>
  BY <1>1, <1>3 DEF AdoptSource, SubscribersOf
<1> QED
  BY <1>2, <1>3, OrphansKept

LEMMA SubscriberStepOrphans ==
  ASSUME OrphansInv, NEW s \in Subscribers, SubscriberStep(s)
  PROVE  OrphansAreTimed'
<1> USE DEF OrphansInv, SourceInv, TypeOK, TransportTypeOK
<1>1. ASSUME NEW st \in Streams, NEW A \in SUBSET Offers, Subscribe(s, st, A)
      PROVE  OrphansAreTimed'
  <2>1. recovery'[s] <=> subscriptions'[s] # NoStream /\ view'[s].source = NoSource
    BY <1>1, FanoutAssumption DEF Subscribe, Update
  <2>2. ASSUME NEW t \in Subscribers, t # s
        PROVE  UNCHANGED <<subscriptions[t], view[t], recovery[t], expired[t]>>
    BY <1>1, <2>2 DEF Subscribe
  <2> QED
    BY <2>1, <2>2, OrphansKept
<1>2. CASE Unsubscribe(s)
  BY <1>2, ForgetOrphans DEF Unsubscribe
<1>3. CASE RecoveryTimerExpires(s)
  BY <1>3, OrphansKept DEF RecoveryTimerExpires, routerVars
<1>4. CASE HandleRecoveryTimeout(s)
  <2>1. CASE view[s].source # NoSource
    BY <1>4, <2>1, OrphansKept DEF HandleRecoveryTimeout, routerVars
  <2>2. CASE view[s].source = NoSource
    BY <1>4, <2>2, ForgetOrphans DEF HandleRecoveryTimeout
  <2> QED
    BY <2>1, <2>2
<1>5. ASSUME NEW r \in Ssrcs, NEW restart, NEW seen, DeliverRtp(s, r, restart, seen)
      PROVE  OrphansAreTimed'
  BY <1>5, OrphansKept DEF DeliverRtp, routerVars, subscriberVars
<1>6. ASSUME NEW r \in Ssrcs, FailRtp(s, r)
      PROVE  OrphansAreTimed'
  BY <1>6, OrphansKept DEF FailRtp, routerVars, subscriberVars
<1>7. CASE KeyframeFeedback(s)
  BY <1>7, OrphansKept DEF KeyframeFeedback, routerVars, subscriberVars
<1>8. CASE Renominate(s)
  BY <1>8, OrphansKept DEF Renominate, routerVars, subscriberVars
<1> QED
  BY <1>1, <1>2, <1>3, <1>4, <1>5, <1>6, <1>7, <1>8 DEF SubscriberStep

LEMMA PublisherStepOrphans ==
  ASSUME OrphansInv, NEW st \in Streams, PublisherStep(st)
  PROVE  OrphansAreTimed'
<1>1. ASSUME NEW p \in Publishers, NEW o \in Offers, SetPublisherSource(st, p, o)
      PROVE  OrphansAreTimed'
  BY <1>1, ForgetOrphans, AdoptSourceOrphans DEF SetPublisherSource, AllocatedGeneration
<1>2. CASE ClearPublisherSource(st)
  BY <1>2, AdoptSourceOrphans DEF ClearPublisherSource, AllocatedGeneration
<1>3. ASSUME NEW r \in Ssrcs, PublishSenderTiming(st, r)
      PROVE  OrphansAreTimed'
  BY <1>3, OrphansKept DEF PublishSenderTiming
<1>4. ASSUME NEW r \in Ssrcs, PublishSourceBye(st, r)
      PROVE  OrphansAreTimed'
  BY <1>4, OrphansKept DEF PublishSourceBye
<1> QED
  BY <1>1, <1>2, <1>3, <1>4 DEF PublisherStep

LEMMA NextOrphans == OrphansInv /\ [Next]_vars => OrphansInv'
<1> SUFFICES ASSUME OrphansInv, [Next]_vars PROVE OrphansAreTimed'
  BY NextSource DEF OrphansInv
<1>1. ASSUME NEW s \in Subscribers, SubscriberStep(s) PROVE OrphansAreTimed'
  BY <1>1, SubscriberStepOrphans
<1>2. ASSUME NEW st \in Streams, PublisherStep(st) PROVE OrphansAreTimed'
  BY <1>2, PublisherStepOrphans
<1>3. ASSUME NEW k \in DOMAIN requests, RetryTimerExpires(k) PROVE OrphansAreTimed'
  BY <1>3, OrphansKept DEF RetryTimerExpires, subscriberVars, routerVars
<1>4. CASE HandleKeyframeRetry
  BY <1>4, OrphansKept DEF HandleKeyframeRetry, subscriberVars, routerVars
<1>5. CASE UNCHANGED vars
  BY <1>5, OrphansKept DEF vars, subscriberVars, routerVars
<1> QED
  BY <1>1, <1>2, <1>3, <1>4, <1>5 DEF Next

\* A recovery timer runs for every subscriber without publisher and for no
\* other: whether the publisher left before or after the subscriber came.
THEOREM EveryOrphanIsTimed == Spec => []OrphansAreTimed
<1>1. Init => OrphansAreTimed
  BY DEF Init, OrphansAreTimed
<1>2. OrphansInv => OrphansAreTimed
  BY DEF OrphansInv
<1>3. OrphansInv <=> SourceInv /\ OrphansAreTimed
  BY DEF OrphansInv
<1> QED
  BY <1>1, <1>2, <1>3, SourceInvariant, NextOrphans, PTL DEF Spec

-----------------------------------------------------------------------------
(* What a step may never do. *)

\* The source of a stream changes only together with its generation, which
\* then is newer than any that was given out.
LEMMA GenerationsGrow ==
  ASSUME SourceInv, [Next]_vars, NEW st \in Streams
  PROVE  \/ generations'[st] = generations[st] /\ source'[st] = source[st]
         \/ generations'[st] > generations[st]
<1>1. CASE UNCHANGED <<source, generations>>
  BY <1>1
<1>2. ASSUME NEW t \in Streams, NEW src,
             source' = [source EXCEPT ![t] = src],
             generations' = [generations EXCEPT ![t] = nextGeneration]
      PROVE  \/ generations'[st] = generations[st] /\ source'[st] = source[st]
             \/ generations'[st] > generations[st]
  <2>1. generations[st] < nextGeneration /\ generations[st] \in Nat /\ nextGeneration \in Nat
    BY DEF SourceInv, GenerationsAgree, TypeOK, RouterTypeOK
  <2>2. generations \in [Streams -> Nat] /\ DOMAIN source = Streams
    BY DEF SourceInv, TypeOK, RouterTypeOK
  <2>3. CASE st = t
    <3>1. generations'[st] = nextGeneration
      BY <1>2, <2>2, <2>3
    <3> QED
      BY <2>1, <3>1
  <2>4. CASE st # t
    BY <1>2, <2>2, <2>4
  <2> QED
    BY <2>3, <2>4
<1>3. ASSUME NEW s \in Subscribers, SubscriberStep(s) PROVE UNCHANGED <<source, generations>>
  BY <1>3 DEF SubscriberStep, Subscribe, Unsubscribe, RecoveryTimerExpires, HandleRecoveryTimeout,
              DeliverRtp, FailRtp, KeyframeFeedback, Renominate, routerVars
<1>4. ASSUME NEW t \in Streams, PublisherStep(t)
      PROVE  \/ UNCHANGED <<source, generations>>
             \/ \E src : /\ source' = [source EXCEPT ![t] = src]
                         /\ generations' = [generations EXCEPT ![t] = nextGeneration]
  BY <1>4 DEF PublisherStep, SetPublisherSource, ClearPublisherSource, AllocatedGeneration,
              PublishSenderTiming, PublishSourceBye
<1>5. ASSUME NEW k \in DOMAIN requests, RetryTimerExpires(k) PROVE UNCHANGED <<source, generations>>
  BY <1>5 DEF RetryTimerExpires, routerVars
<1>6. CASE HandleKeyframeRetry
  BY <1>1, <1>6 DEF HandleKeyframeRetry, routerVars
<1>7. CASE UNCHANGED vars
  BY <1>1, <1>7 DEF vars, routerVars
<1> QED
  BY <1>1, <1>2, <1>3, <1>4, <1>5, <1>6, <1>7 DEF Next

\* A subscriber sees the generations of its stream in the order they were
\* given out, so no update of the source is ever dropped as stale.
THEOREM ViewsMoveForward == Spec => ViewMovesForward
<1>1. ASSUME SourceInv, SourceInv', [Next]_vars, NEW s \in Subscribers,
             subscriptions[s] # NoStream, subscriptions'[s] = subscriptions[s]
      PROVE  /\ view'[s].generation >= view[s].generation
             /\ view'[s].source # view[s].source => view'[s].generation > view[s].generation
  <2> DEFINE st == subscriptions[s]
  <2>1. st \in Streams /\ generations[st] \in Nat /\ generations'[st] \in Nat
    BY <1>1 DEF SourceInv, TypeOK, RouterTypeOK, TransportTypeOK
  <2>2. view[s] = Update(generations[st], source[st])
    BY <1>1, Zenon DEF SourceInv, ViewIsCurrent
  <2>3. view'[s] = Update(generations'[st], source'[st])
    BY <1>1 DEF SourceInv, ViewIsCurrent, Update
  <2>4. \/ generations'[st] = generations[st] /\ source'[st] = source[st]
        \/ generations'[st] > generations[st]
    BY <1>1, <2>1, GenerationsGrow
  <2> QED
    BY <2>1, <2>2, <2>3, <2>4 DEF Update
<1>2. SourceInv /\ SourceInv' /\ [Next]_vars =>
        [\A s \in Subscribers :
           subscriptions[s] # NoStream /\ subscriptions'[s] = subscriptions[s] =>
             /\ view'[s].generation >= view[s].generation
             /\ view'[s].source # view[s].source =>
                  view'[s].generation > view[s].generation]_vars
  BY <1>1
<1> QED
  BY <1>2, SourceInvariant, PTL DEF Spec, ViewMovesForward

\* A recovery timeout that was queued before the publisher came back removes
\* nobody: whoever's it is, it looks at a source that is current.
THEOREM RecoveryTimeoutIsHarmless == Spec => RecoverySparesPublished
<1>1. ASSUME SourceInv, NEW t \in Subscribers, HandleRecoveryTimeout(t),
             NEW s \in Subscribers, subscriptions[s] # NoStream,
             source[subscriptions[s]] # NoSource
      PROVE  subscriptions'[s] = subscriptions[s]
  <2>1. CASE view[t].source # NoSource
    BY <1>1, <2>1 DEF HandleRecoveryTimeout, routerVars
  <2>2. CASE view[t].source = NoSource
    <3>1. Forget(SubscribersOf(subscriptions[t]))
      BY <1>1, <2>2 DEF HandleRecoveryTimeout
    <3>2. ASSUME subscriptions[t] # NoStream
          PROVE  source[subscriptions[t]] = NoSource
      <4>1. view[t] = Update(generations[subscriptions[t]], source[subscriptions[t]])
        BY <1>1, <3>2, Zenon DEF SourceInv, ViewIsCurrent
      <4> QED
        BY <2>2, <4>1 DEF Update
    <3>3. s \notin SubscribersOf(subscriptions[t])
      BY <1>1, <3>2 DEF SubscribersOf
    <3> QED
      BY <3>1, <3>3 DEF Forget
  <2> QED
    BY <2>1, <2>2
<1>2. SourceInv =>
        [(\E s \in Subscribers : HandleRecoveryTimeout(s)) =>
           \A s \in Subscribers :
             subscriptions[s] # NoStream /\ source[subscriptions[s]] # NoSource
               => subscriptions'[s] = subscriptions[s]]_vars
  BY <1>1
<1> QED
  BY <1>2, SourceInvariant, PTL DEF Spec, RecoverySparesPublished

-----------------------------------------------------------------------------
(* Who waits.                                                              *)

\* Subscriber s is counted among the waiters of the request with key k.
Waits(R, k, s) == k \in DOMAIN R /\ s \in R[k].waiters

\* Every request has waiters, is for the current source, and only counts
\* subscribers of its stream.
RequestsAreFounded(R) ==
  \A k \in DOMAIN R :
    /\ RetrySourceCurrent(k)
    /\ R[k].waiters # {}
    /\ \A s \in R[k].waiters : subscriptions[s] = k.stream

\* WaitersAgree with the request of a wait named: the one the subscriber would
\* make now.
WaitsAreExact(R, wait, rdy) ==
  /\ \A s \in Subscribers, r \in Ssrcs : r \in wait[s] <=> Waits(R, ViewKey(s, r), s)
  /\ RequestsAreFounded(R)
  /\ \A s \in Subscribers : rdy[s] \cap wait[s] = {}

WaitsInv == SourceInv /\ WaitsAreExact(requests, waiting, ready)

\* The key of a request is the one each of its waiters would use now.
LEMMA KeyOfWaiter ==
  ASSUME SourceInv, NEW R, IsRequestMap(R), RequestsAreFounded(R),
         NEW k, NEW s \in Subscribers, Waits(R, k, s)
  PROVE  k.ssrc \in Ssrcs /\ k = ViewKey(s, k.ssrc)
<1>1. /\ k \in Keys /\ subscriptions[s] = k.stream
      /\ source[k.stream].session = k.session
      /\ source[k.stream].generation = k.generation
      /\ source[k.stream] # NoSource
  BY DEF Waits, IsRequestMap, RequestsAreFounded, RetrySourceCurrent
<1>2. k.stream \in Streams /\ subscriptions[s] # NoStream
  BY <1>1, FanoutAssumption DEF Keys
<1>3. view[s] = Update(generations[k.stream], source[k.stream])
  BY <1>1, <1>2, Zenon DEF SourceInv, ViewIsCurrent
<1>4. source[k.stream].generation = generations[k.stream]
  BY <1>1, <1>2 DEF SourceInv, GenerationsAgree
<1>5. view[s].source.session = k.session /\ view[s].generation = k.generation
  BY <1>1, <1>3, <1>4 DEF Update
<1>6. ViewKey(s, k.ssrc) = [stream |-> k.stream, session |-> k.session,
                            generation |-> k.generation, ssrc |-> k.ssrc]
  BY <1>1, <1>5 DEF ViewKey
<1> QED
  BY <1>1, <1>6 DEF Keys

LEMMA ExactWaitsAgree == WaitsInv => WaitersAgree
<1> SUFFICES ASSUME WaitsInv PROVE WaitersAgree
  OBVIOUS
<1>1. IsRequestMap(requests) /\ RequestsAreFounded(requests)
  BY DEF WaitsInv, WaitsAreExact, SourceInv, TypeOK, RouterTypeOK
<1>2. ASSUME NEW s \in Subscribers, NEW r \in Ssrcs
      PROVE  r \in waiting[s] <=>
               \E k \in DOMAIN requests : k.ssrc = r /\ s \in requests[k].waiters
  <2>1. ASSUME NEW k \in DOMAIN requests, k.ssrc = r, s \in requests[k].waiters
        PROVE  r \in waiting[s]
    <3>1. Waits(requests, k, s)
      BY <2>1 DEF Waits
    <3>2. k = ViewKey(s, r)
      BY <1>1, <2>1, <3>1, KeyOfWaiter DEF WaitsInv
    <3> QED
      BY <3>1, <3>2 DEF WaitsInv, WaitsAreExact
  <2>2. ASSUME r \in waiting[s]
        PROVE  \E k \in DOMAIN requests : k.ssrc = r /\ s \in requests[k].waiters
    <3>1. Waits(requests, ViewKey(s, r), s) /\ ViewKey(s, r).ssrc = r
      BY <2>2 DEF WaitsInv, WaitsAreExact, ViewKey
    <3> QED
      BY <3>1 DEF Waits
  <2> QED
    BY <2>1, <2>2
<1> QED
  BY <1>1, <1>2 DEF WaitersAgree, WaitsInv, WaitsAreExact, RequestsAreFounded

-----------------------------------------------------------------------------
(* What the functions on keyframe_requests_ do to the waiters.             *)

\* From R to Q, the subscribers of S left all their requests.
AllLeft(R, Q, S) ==
  /\ \A k, s : Waits(Q, k, s) <=> Waits(R, k, s) /\ s \notin S
  /\ \A k \in DOMAIN Q : k \in DOMAIN R /\ Q[k].waiters # {}

\* From R to Q, subscriber s left the request with key k.
OneLeft(R, Q, k, s) ==
  /\ \A j, t : Waits(Q, j, t) <=> Waits(R, j, t) /\ ~(j = k /\ t = s)
  /\ \A j \in DOMAIN Q : j \in DOMAIN R /\ Q[j].waiters # {}

\* From R to Q, subscriber s joined the request with key k.
OneJoined(R, Q, k, s) ==
  /\ \A j, t : Waits(Q, j, t) <=> Waits(R, j, t) \/ (j = k /\ t = s)
  /\ DOMAIN Q = DOMAIN R \cup {k}
  /\ \A j \in DOMAIN R : j # k => Q[j] = R[j]

LEMMA CancelKeyframeRequestsWaits ==
  ASSUME NEW R, IsRequestMap(R), NEW S
  PROVE  AllLeft(R, CancelKeyframeRequests(R, S), S)
  BY DEF AllLeft, CancelKeyframeRequests, Waits, IsRequestMap, RequestState

LEMMA CompleteKeyframeRequestWaits ==
  ASSUME NEW R, IsRequestMap(R), RequestsAreFounded(R), NEW k, NEW s
  PROVE  OneLeft(R, CompleteKeyframeRequest(R, k, s), k, s)
<1> SUFFICES ASSUME NEW Q, Q = CompleteKeyframeRequest(R, k, s)
             PROVE  OneLeft(R, Q, k, s)
  OBVIOUS
<1>1. CASE k \notin DOMAIN R
  BY <1>1 DEF OneLeft, CompleteKeyframeRequest, Waits, RequestsAreFounded
<1>2. CASE k \in DOMAIN R
  <2> DEFINE D == {i \in DOMAIN R : i # k \/ R[i].waiters \ {s} # {}}
  <2>1. Q = [j \in D |-> IF j = k THEN [R[k] EXCEPT !.waiters = @ \ {s}] ELSE R[j]]
    BY <1>2 DEF CompleteKeyframeRequest
  <2>2. [R[k] EXCEPT !.waiters = @ \ {s}].waiters = R[k].waiters \ {s}
    BY <1>2 DEF IsRequestMap, RequestState
  <2>3. DOMAIN Q = D /\ \A j \in D : Q[j].waiters = IF j = k THEN R[k].waiters \ {s} ELSE R[j].waiters
    BY <2>1, <2>2
  <2>4. ASSUME NEW j, NEW t
        PROVE  Waits(Q, j, t) <=> Waits(R, j, t) /\ ~(j = k /\ t = s)
    <3>1. CASE j = k
      BY <1>2, <2>3, <3>1 DEF Waits
    <3>2. CASE j # k
      BY <2>3, <3>2 DEF Waits
    <3> QED
      BY <3>1, <3>2
  <2>5. ASSUME NEW j \in DOMAIN Q
        PROVE  j \in DOMAIN R /\ Q[j].waiters # {}
    BY <2>3 DEF RequestsAreFounded
  <2> QED
    BY <2>4, <2>5 DEF OneLeft
<1> QED
  BY <1>1, <1>2

LEMMA ScheduleKeyframeRetryWaiters ==
  ASSUME NEW e \in RequestState
  PROVE  ScheduleKeyframeRetry(e).waiters = e.waiters
  BY DEF ScheduleKeyframeRetry, RequestState

LEMMA RequestKeyframeWaits ==
  ASSUME NEW R, IsRequestMap(R), NEW k \in Keys, NEW s \in Subscribers
  PROVE  OneJoined(R, RequestKeyframe(R, k, s), k, s)
<1> SUFFICES ASSUME NEW Q, Q = RequestKeyframe(R, k, s)
             PROVE  OneJoined(R, Q, k, s)
  OBVIOUS
<1> DEFINE e == [(IF k \in DOMAIN R THEN R[k] ELSE NewRequest) EXCEPT !.waiters = @ \cup {s}]
           f == [e EXCEPT !.active = TRUE, !.next = 0, !.sent = 1]
           g == IF e.active THEN e ELSE ScheduleKeyframeRetry(f)
<1>1. /\ e \in RequestState
      /\ e.waiters = (IF k \in DOMAIN R THEN R[k].waiters ELSE {}) \cup {s}
  BY NewRequestType DEF IsRequestMap, RequestState, NewRequest
<1>2. f \in RequestState /\ f.waiters = e.waiters
  BY <1>1 DEF RequestState
<1>3. g.waiters = e.waiters
  BY <1>2, ScheduleKeyframeRetryWaiters
<1>4. Q = [j \in DOMAIN R \cup {k} |-> IF j # k THEN R[j] ELSE g]
  BY DEF RequestKeyframe
<1>5. /\ DOMAIN Q = DOMAIN R \cup {k}
      /\ \A j \in DOMAIN R : j # k => Q[j] = R[j]
      /\ Q[k].waiters = e.waiters
  <2> HIDE DEF e, g
  <2> QED
    BY <1>3, <1>4
<1>6. ASSUME NEW j, NEW t
      PROVE  Waits(Q, j, t) <=> Waits(R, j, t) \/ (j = k /\ t = s)
  <2> HIDE DEF e, g
  <2>1. CASE j = k
    BY <1>1, <1>5, <2>1 DEF Waits
  <2>2. CASE j # k
    BY <1>5, <2>2 DEF Waits
  <2> QED
    BY <2>1, <2>2
<1> QED
  BY <1>5, <1>6 DEF OneJoined

-----------------------------------------------------------------------------
(* The waits stay exact.                                                   *)

\* A handler that leaves the sources and the subscriptions alone.
LEMMA ExactKept ==
  ASSUME UNCHANGED <<source, subscriptions, view>>,
         WaitsAreExact(requests', waiting', ready')
  PROVE  WaitsAreExact(requests, waiting, ready)'
  BY DEF WaitsAreExact, RequestsAreFounded, RetrySourceCurrent, ViewKey, Waits

\* The subscribers of S stop waiting, and are ready for nothing.
LEMMA SubscribersReset ==
  ASSUME WaitsInv, NEW S,
         \A s \in Subscribers : s \in S => waiting'[s] = {} /\ ready'[s] = {},
         \A s \in Subscribers : s \notin S =>
           UNCHANGED <<subscriptions[s], view[s], waiting[s], ready[s]>>,
         \A k \in DOMAIN requests' :
           /\ k \in DOMAIN requests /\ requests'[k].waiters # {}
           /\ source'[k.stream] = source[k.stream],
         \A k, s : Waits(requests', k, s) <=> Waits(requests, k, s) /\ s \notin S
  PROVE  WaitsAreExact(requests, waiting, ready)'
<1>1. RequestsAreFounded(requests)'
  <2> SUFFICES ASSUME NEW k \in DOMAIN requests'
               PROVE  /\ RetrySourceCurrent(k)'
                      /\ requests'[k].waiters # {}
                      /\ \A s \in requests'[k].waiters : subscriptions'[s] = k.stream
    BY DEF RequestsAreFounded
  <2>1. RetrySourceCurrent(k)'
    BY DEF RetrySourceCurrent, WaitsInv, WaitsAreExact, RequestsAreFounded
  <2>2. ASSUME NEW s \in requests'[k].waiters
        PROVE  subscriptions'[s] = k.stream
    <3>1. Waits(requests, k, s) /\ s \notin S
      BY <2>2 DEF Waits
    <3>2. subscriptions[s] = k.stream /\ s \in Subscribers
      BY <3>1 DEF Waits, WaitsInv, WaitsAreExact, RequestsAreFounded, SourceInv, TypeOK, RouterTypeOK,
                  IsRequestMap, RequestState
    <3> QED
      BY <3>1, <3>2
  <2> QED
    BY <2>1, <2>2
<1>2. ASSUME NEW s \in Subscribers, NEW r \in Ssrcs
      PROVE  r \in waiting'[s] <=> Waits(requests', ViewKey(s, r)', s)
  <2>1. CASE s \in S
    BY <2>1
  <2>2. CASE s \notin S
    <3>1. ViewKey(s, r)' = ViewKey(s, r)
      BY <2>2 DEF ViewKey
    <3> QED
      BY <2>2, <3>1 DEF WaitsInv, WaitsAreExact
  <2> QED
    BY <2>1, <2>2
<1>3. \A s \in Subscribers : ready'[s] \cap waiting'[s] = {}
  BY DEF WaitsInv, WaitsAreExact
<1> QED
  BY <1>1, <1>2, <1>3 DEF WaitsAreExact, Waits

\* close() of the subscribers of S, with their requests cancelled.
LEMMA ForgetWaits ==
  ASSUME WaitsInv, NEW S, Forget(S), UNCHANGED source,
         requests' = CancelKeyframeRequests(requests, S)
  PROVE  WaitsAreExact(requests, waiting, ready)'
<1>1. IsRequestMap(requests)
  BY DEF WaitsInv, SourceInv, TypeOK, RouterTypeOK
<1>2. AllLeft(requests, requests', S)
  BY <1>1, CancelKeyframeRequestsWaits
<1> QED
  BY <1>2, SubscribersReset DEF AllLeft, Forget

\* The requests for a stream go, and with them all the waits of its subscribers.
LEMMA StreamReset ==
  ASSUME WaitsInv, NEW st \in Streams, NEW src,
         requests' = CancelStreamKeyframeRequests(requests, st),
         source' = [source EXCEPT ![st] = src],
         \A s \in SubscribersOf(st) : waiting'[s] = {} /\ ready'[s] = {},
         \A s \in Subscribers : s \notin SubscribersOf(st) =>
           UNCHANGED <<subscriptions[s], view[s], waiting[s], ready[s]>>
  PROVE  WaitsAreExact(requests, waiting, ready)'
<1>1. ASSUME NEW k, NEW s
      PROVE  Waits(requests', k, s) <=> Waits(requests, k, s) /\ s \notin SubscribersOf(st)
  <2>1. Waits(requests', k, s) <=> Waits(requests, k, s) /\ k.stream # st
    BY DEF Waits, CancelStreamKeyframeRequests
  <2>2. Waits(requests, k, s) => s \in Subscribers /\ subscriptions[s] = k.stream
    BY DEF Waits, WaitsInv, WaitsAreExact, RequestsAreFounded, SourceInv, TypeOK, RouterTypeOK,
           IsRequestMap, RequestState
  <2> QED
    BY <2>1, <2>2 DEF SubscribersOf
<1>2. ASSUME NEW k \in DOMAIN requests'
      PROVE  /\ k \in DOMAIN requests /\ requests'[k].waiters # {}
             /\ source'[k.stream] = source[k.stream]
  <2>1. k \in DOMAIN requests /\ k.stream # st /\ requests'[k] = requests[k]
    BY DEF CancelStreamKeyframeRequests
  <2>2. k.stream \in Streams
    BY <2>1 DEF WaitsInv, SourceInv, TypeOK, RouterTypeOK, IsRequestMap, Keys
  <2> QED
    BY <2>1, <2>2 DEF WaitsInv, WaitsAreExact, RequestsAreFounded, SourceInv, TypeOK, RouterTypeOK
<1> QED
  BY <1>1, <1>2, SubscribersReset

\* A subscriber that is not ready for r asks for its key frame, after the
\* handler left the requests R and the subscriber's sets W and D.
LEMMA DispatchWaits ==
  ASSUME SourceInv, NEW R, IsRequestMap(R), NEW s \in Subscribers, NEW r \in Ssrcs,
         NEW W \in SUBSET Ssrcs, NEW D \in SUBSET Ssrcs,
         subscriptions[s] # NoStream, r \notin D,
         WaitsAreExact(R, [waiting EXCEPT ![s] = W], [ready EXCEPT ![s] = D]),
         DispatchKeyframeRequest(R, W, D, s, r)
  PROVE  WaitsAreExact(requests', waiting', ready')
<1> DEFINE wait == [waiting EXCEPT ![s] = W]
           rdy == [ready EXCEPT ![s] = D]
<1>1. ready' = rdy
  BY DEF DispatchKeyframeRequest
<1>2. DOMAIN waiting = Subscribers /\ DOMAIN ready = Subscribers
  BY DEF SourceInv, TypeOK, TransportTypeOK
<1>3. CASE RequestAccepted(s)
  <2> DEFINE k == ViewKey(s, r)
  <2>1. k \in Keys
    BY <1>3, RequestType DEF SourceInv
  <2>2. /\ requests' = RequestKeyframe(R, k, s)
        /\ waiting' = [waiting EXCEPT ![s] = W \cup {r}]
    BY <1>3 DEF DispatchKeyframeRequest
  <2>3. /\ \A j, t : Waits(requests', j, t) <=> Waits(R, j, t) \/ (j = k /\ t = s)
        /\ DOMAIN requests' = DOMAIN R \cup {k}
        /\ \A j \in DOMAIN R : j # k => requests'[j] = R[j]
    <3>1. OneJoined(R, requests', k, s)
      BY <2>1, <2>2, RequestKeyframeWaits
    <3> QED
      BY <3>1 DEF OneJoined
  <2>4. RetrySourceCurrent(k) /\ subscriptions[s] = k.stream
    BY <1>3 DEF RequestAccepted, RetrySourceCurrent, ViewKey
  <2>5. RequestsAreFounded(requests')
    <3> SUFFICES ASSUME NEW j \in DOMAIN requests'
                 PROVE  /\ RetrySourceCurrent(j)
                        /\ requests'[j].waiters # {}
                        /\ \A t \in requests'[j].waiters : subscriptions[t] = j.stream
      BY DEF RequestsAreFounded
    <3>1. CASE j = k
      <4>1. s \in requests'[k].waiters
        BY <2>3 DEF Waits
      <4>2. ASSUME NEW t \in requests'[k].waiters PROVE subscriptions[t] = k.stream
        BY <2>3, <2>4 DEF Waits, WaitsAreExact, RequestsAreFounded
      <4> QED
        BY <2>4, <3>1, <4>1, <4>2
    <3>2. CASE j # k
      BY <2>3, <3>2 DEF WaitsAreExact, RequestsAreFounded
    <3> QED
      BY <3>1, <3>2
  <2>6. ASSUME NEW t \in Subscribers, NEW q \in Ssrcs
        PROVE  q \in waiting'[t] <=> Waits(requests', ViewKey(t, q), t)
    <3>1. q \in wait[t] <=> Waits(R, ViewKey(t, q), t)
      BY DEF WaitsAreExact
    <3>2. q \in waiting'[t] <=> q \in wait[t] \/ (t = s /\ q = r)
      BY <1>2, <2>2
    <3>3. ViewKey(t, q) = k /\ t = s <=> t = s /\ q = r
      BY DEF ViewKey
    <3> QED
      BY <2>3, <3>1, <3>2, <3>3
  <2>7. ASSUME NEW t \in Subscribers
        PROVE  ready'[t] \cap waiting'[t] = {}
    <3>1. rdy[t] \cap wait[t] = {}
      BY DEF WaitsAreExact
    <3> QED
      BY <1>1, <1>2, <2>2, <3>1
  <2> QED
    BY <2>5, <2>6, <2>7 DEF WaitsAreExact
<1>4. CASE ~RequestAccepted(s)
  <2>1. source[subscriptions[s]] = NoSource
    <3>1. view[s] = Update(generations[subscriptions[s]], source[subscriptions[s]])
      BY Zenon DEF SourceInv, ViewIsCurrent
    <3>2. subscriptions[s] \in Streams
      BY DEF SourceInv, TypeOK, TransportTypeOK
    <3>3. source[subscriptions[s]] # NoSource =>
            source[subscriptions[s]].generation = generations[subscriptions[s]]
      BY <3>2 DEF SourceInv, GenerationsAgree
    <3> QED
      BY <1>4, <3>1, <3>3 DEF RequestAccepted, Update
  <2>2. ~Waits(R, ViewKey(s, r), s)
    BY <2>1 DEF WaitsAreExact, RequestsAreFounded, RetrySourceCurrent, Waits
  <2>3. r \notin W
    <3>1. r \in wait[s] <=> Waits(R, ViewKey(s, r), s)
      BY DEF WaitsAreExact
    <3> QED
      BY <1>2, <2>2, <3>1
  <2>4. requests' = R /\ waiting' = wait
    BY <1>4, <2>3 DEF DispatchKeyframeRequest
  <2> QED
    BY <1>1, <2>4
<1> QED
  BY <1>3, <1>4

LEMMA FewerAreFounded ==
  ASSUME NEW R, RequestsAreFounded(R), NEW Q,
         \A k, s : Waits(Q, k, s) => Waits(R, k, s),
         \A k \in DOMAIN Q : k \in DOMAIN R /\ Q[k].waiters # {}
  PROVE  RequestsAreFounded(Q)
  BY DEF RequestsAreFounded, Waits

\* The end of a key frame reached subscriber s.
LEMMA CompletedWaits ==
  ASSUME SourceInv, NEW R, IsRequestMap(R), NEW s \in Subscribers, NEW r \in Ssrcs,
         NEW W \in SUBSET Ssrcs, NEW D \in SUBSET Ssrcs,
         WaitsAreExact(R, [waiting EXCEPT ![s] = W], [ready EXCEPT ![s] = D]),
         requests' = IF r \in D THEN R ELSE CompleteKeyframeRequest(R, ViewKey(s, r), s),
         waiting' = [waiting EXCEPT ![s] = W \ {r}],
         ready' = [ready EXCEPT ![s] = D \cup {r}]
  PROVE  WaitsAreExact(requests', waiting', ready')
<1> DEFINE wait == [waiting EXCEPT ![s] = W]
           rdy == [ready EXCEPT ![s] = D]
<1>1. DOMAIN waiting = Subscribers /\ DOMAIN ready = Subscribers
  BY DEF SourceInv, TypeOK, TransportTypeOK
<1>2. \A t \in Subscribers : rdy[t] \cap wait[t] = {}
  BY DEF WaitsAreExact
<1>3. \A t \in Subscribers : ready'[t] \cap waiting'[t] = {}
  <2>1. D \cap W = {}
    BY <1>1, <1>2
  <2> QED
    BY <1>1, <1>2, <2>1
<1>4. CASE r \in D
  <2>1. r \notin W
    BY <1>1, <1>2, <1>4
  <2>2. requests' = R /\ waiting' = wait /\ ready' = rdy
    BY <1>4, <2>1
  <2> QED
    BY <2>2
<1>5. CASE r \notin D
  <2> DEFINE k == ViewKey(s, r)
  <2>1. RequestsAreFounded(R)
    BY DEF WaitsAreExact
  <2>2. OneLeft(R, requests', k, s)
    BY <1>5, <2>1, CompleteKeyframeRequestWaits
  <2>3. RequestsAreFounded(requests')
    BY <2>1, <2>2, FewerAreFounded DEF OneLeft
  <2>4. ASSUME NEW t \in Subscribers, NEW q \in Ssrcs
        PROVE  q \in waiting'[t] <=> Waits(requests', ViewKey(t, q), t)
    <3>1. q \in wait[t] <=> Waits(R, ViewKey(t, q), t)
      BY DEF WaitsAreExact
    <3>2. q \in waiting'[t] <=> q \in wait[t] /\ ~(t = s /\ q = r)
      BY <1>1
    <3>3. ViewKey(t, q) = k /\ t = s <=> t = s /\ q = r
      BY DEF ViewKey
    <3>4. Waits(requests', ViewKey(t, q), t) <=>
            Waits(R, ViewKey(t, q), t) /\ ~(ViewKey(t, q) = k /\ t = s)
      BY <2>2 DEF OneLeft
    <3> QED
      BY <3>1, <3>2, <3>3, <3>4
  <2> QED
    BY <1>3, <2>3, <2>4 DEF WaitsAreExact
<1> QED
  BY <1>4, <1>5

LEMMA TrackWaits ==
  ASSUME SourceInv, NEW R, IsRequestMap(R), NEW s \in Subscribers, NEW r \in Ssrcs,
         NEW W \in SUBSET Ssrcs, NEW D \in SUBSET Ssrcs, NEW seen,
         subscriptions[s] # NoStream,
         WaitsAreExact(R, [waiting EXCEPT ![s] = W], [ready EXCEPT ![s] = D]),
         TrackKeyframe(R, W, D, s, r, seen)
  PROVE  WaitsAreExact(requests', waiting', ready')
<1>1. CASE /\ requests' = IF r \in D THEN R ELSE CompleteKeyframeRequest(R, ViewKey(s, r), s)
           /\ waiting' = [waiting EXCEPT ![s] = W \ {r}]
           /\ ready' = [ready EXCEPT ![s] = D \cup {r}]
  BY <1>1, CompletedWaits
<1>2. CASE DispatchKeyframeRequest(R, W, D \ {r}, s, r)
  <2>1. WaitsAreExact(R, [waiting EXCEPT ![s] = W], [ready EXCEPT ![s] = D \ {r}])
    BY DEF WaitsAreExact, SourceInv, TypeOK, TransportTypeOK
  <2>2. D \ {r} \in SUBSET Ssrcs /\ r \notin D \ {r}
    OBVIOUS
  <2> QED
    BY <1>2, <2>1, <2>2, DispatchWaits
<1>3. CASE r \notin D /\ DispatchKeyframeRequest(R, W, D, s, r)
  BY <1>3, DispatchWaits
<1>4. CASE /\ requests' = R
           /\ waiting' = [waiting EXCEPT ![s] = W]
           /\ ready' = [ready EXCEPT ![s] = D]
  BY <1>4
<1> QED
  BY <1>1, <1>2, <1>3, <1>4, Zenon DEF TrackKeyframe

\* What cancel_keyframe_requests_for_subscriber leaves for the rest of a handler.
LEMMA CancelledWaits ==
  ASSUME WaitsInv, NEW s \in Subscribers
  PROVE  /\ IsRequestMap(CancelKeyframeRequests(requests, {s}))
         /\ WaitsAreExact(CancelKeyframeRequests(requests, {s}),
                          [waiting EXCEPT ![s] = {}], [ready EXCEPT ![s] = {}])
<1> DEFINE Q == CancelKeyframeRequests(requests, {s})
           wait == [waiting EXCEPT ![s] = {}]
           rdy == [ready EXCEPT ![s] = {}]
<1> HIDE DEF Q
<1>1. IsRequestMap(requests) /\ DOMAIN waiting = Subscribers /\ DOMAIN ready = Subscribers
  BY DEF WaitsInv, SourceInv, TypeOK, RouterTypeOK, TransportTypeOK
<1>2. IsRequestMap(Q) /\ AllLeft(requests, Q, {s})
  BY <1>1, CancelKeyframeRequestsType, CancelKeyframeRequestsWaits DEF Q
<1>3. RequestsAreFounded(Q)
  BY <1>2, FewerAreFounded DEF AllLeft, WaitsInv, WaitsAreExact
<1>4. ASSUME NEW t \in Subscribers, NEW q \in Ssrcs
      PROVE  q \in wait[t] <=> Waits(Q, ViewKey(t, q), t)
  <2>1. Waits(Q, ViewKey(t, q), t) <=> Waits(requests, ViewKey(t, q), t) /\ t \notin {s}
    BY <1>2 DEF AllLeft
  <2>2. q \in waiting[t] <=> Waits(requests, ViewKey(t, q), t)
    BY DEF WaitsInv, WaitsAreExact
  <2> QED
    BY <1>1, <2>1, <2>2
<1>5. \A t \in Subscribers : rdy[t] \cap wait[t] = {}
  BY <1>1 DEF WaitsInv, WaitsAreExact
<1> QED
  BY <1>2, <1>3, <1>4, <1>5 DEF Q, WaitsAreExact

\* A packet that reaches subscriber s.
LEMMA DeliverRtpWaits ==
  ASSUME WaitsInv, NEW s \in Subscribers, NEW r \in Ssrcs, NEW restart, NEW seen,
         DeliverRtp(s, r, restart, seen)
  PROVE  WaitsAreExact(requests, waiting, ready)'
<1>1. /\ UNCHANGED <<source, subscriptions, view>>
      /\ subscriptions[s] # NoStream
      /\ \/ TrackKeyframe(requests, waiting[s], ready[s], s, r, seen)
         \/ TrackKeyframe(CancelKeyframeRequests(requests, {s}), {}, {}, s, r, seen)
  BY DEF DeliverRtp, routerVars, subscriberVars
<1>2. CASE TrackKeyframe(requests, waiting[s], ready[s], s, r, seen)
  <2>1. [waiting EXCEPT ![s] = waiting[s]] = waiting /\ [ready EXCEPT ![s] = ready[s]] = ready
    BY DEF WaitsInv, SourceInv, TypeOK, TransportTypeOK
  <2>2. waiting[s] \in SUBSET Ssrcs /\ ready[s] \in SUBSET Ssrcs /\ IsRequestMap(requests)
    BY DEF WaitsInv, SourceInv, TypeOK, TransportTypeOK, RouterTypeOK
  <2>3. WaitsAreExact(requests, [waiting EXCEPT ![s] = waiting[s]], [ready EXCEPT ![s] = ready[s]])
    BY <2>1 DEF WaitsInv
  <2> QED
    BY <1>1, <1>2, <2>2, <2>3, TrackWaits, ExactKept DEF WaitsInv
<1>3. CASE TrackKeyframe(CancelKeyframeRequests(requests, {s}), {}, {}, s, r, seen)
  <2>1. {} \in SUBSET Ssrcs
    OBVIOUS
  <2> QED
    BY <1>1, <1>3, <2>1, CancelledWaits, TrackWaits, ExactKept DEF WaitsInv
<1> QED
  BY <1>1, <1>2, <1>3

LEMMA SubscriberStepWaits ==
  ASSUME WaitsInv, NEW s \in Subscribers, SubscriberStep(s)
  PROVE  WaitsAreExact(requests, waiting, ready)'
<1> DEFINE Exact == WaitsAreExact(requests, waiting, ready)
<1>1. ASSUME NEW st \in Streams, NEW A \in SUBSET Offers, Subscribe(s, st, A)
      PROVE  Exact'
  <2>1. ASSUME NEW k PROVE ~Waits(requests, k, s)
    <3>1. Waits(requests, k, s) => subscriptions[s] = k.stream /\ k \in Keys
      BY DEF WaitsInv, WaitsAreExact, RequestsAreFounded, Waits, SourceInv, TypeOK, RouterTypeOK,
             IsRequestMap
    <3> QED
      BY <1>1, <3>1, FanoutAssumption DEF Subscribe, Keys
  <2>2. waiting'[s] = {} /\ ready'[s] = {}
    BY <1>1 DEF Subscribe, WaitsInv, SourceInv, TypeOK, TransportTypeOK
  <2>3. \A t \in Subscribers : t \notin {s} =>
          UNCHANGED <<subscriptions[t], view[t], waiting[t], ready[t]>>
    BY <1>1 DEF Subscribe
  <2>4. UNCHANGED <<requests, source>>
    BY <1>1 DEF Subscribe
  <2>5. \A k \in DOMAIN requests : requests[k].waiters # {}
    BY DEF WaitsInv, WaitsAreExact, RequestsAreFounded
  <2> QED
    BY <2>1, <2>2, <2>3, <2>4, <2>5, SubscribersReset
<1>2. CASE Unsubscribe(s)
  BY <1>2, ForgetWaits DEF Unsubscribe
<1>3. CASE RecoveryTimerExpires(s)
  BY <1>3, ExactKept DEF RecoveryTimerExpires, routerVars, requestVars, keyframeVars, WaitsInv
<1>4. CASE HandleRecoveryTimeout(s)
  <2>1. CASE view[s].source # NoSource
    BY <1>4, <2>1, ExactKept DEF HandleRecoveryTimeout, routerVars, requestVars, keyframeVars, WaitsInv
  <2>2. CASE view[s].source = NoSource
    BY <1>4, <2>2, ForgetWaits DEF HandleRecoveryTimeout
  <2> QED
    BY <2>1, <2>2
<1>5. ASSUME NEW r \in Ssrcs, NEW restart, NEW seen, DeliverRtp(s, r, restart, seen)
      PROVE  Exact'
  BY <1>5, DeliverRtpWaits
<1>6. ASSUME NEW r \in Ssrcs, FailRtp(s, r)
      PROVE  Exact'
  BY <1>6, ExactKept DEF FailRtp, routerVars, requestVars, subscriberVars, WaitsInv
<1>7. CASE KeyframeFeedback(s)
  <2>1. /\ UNCHANGED <<source, subscriptions, view>>
        /\ subscriptions[s] # NoStream /\ mapped[s] \in Ssrcs
        /\ DispatchKeyframeRequest(requests, waiting[s], ready[s] \ {mapped[s]}, s, mapped[s])
    BY <1>7 DEF KeyframeFeedback, routerVars, subscriberVars, WaitsInv, SourceInv, TypeOK, TransportTypeOK
  <2>2. /\ waiting[s] \in SUBSET Ssrcs /\ ready[s] \ {mapped[s]} \in SUBSET Ssrcs
        /\ IsRequestMap(requests)
    BY DEF WaitsInv, SourceInv, TypeOK, TransportTypeOK, RouterTypeOK
  <2>3. WaitsAreExact(requests, [waiting EXCEPT ![s] = waiting[s]],
                      [ready EXCEPT ![s] = ready[s] \ {mapped[s]}])
    BY DEF WaitsInv, WaitsAreExact, SourceInv, TypeOK, TransportTypeOK
  <2>4. mapped[s] \notin ready[s] \ {mapped[s]}
    OBVIOUS
  <2> QED
    BY <2>1, <2>2, <2>3, <2>4, DispatchWaits, ExactKept DEF WaitsInv
<1>8. CASE Renominate(s)
  BY <1>8, CancelledWaits, ExactKept DEF Renominate, routerVars, subscriberVars
<1> QED
  BY <1>1, <1>2, <1>3, <1>4, <1>5, <1>6, <1>7, <1>8 DEF SubscriberStep

\* A BYE for r ends the waits for r of every subscriber of the stream.
LEMMA PublishSourceByeWaits ==
  ASSUME WaitsInv, NEW st \in Streams, NEW r \in Ssrcs, PublishSourceBye(st, r)
  PROVE  WaitsAreExact(requests, waiting, ready)'
<1> DEFINE src == source[st]
           k == [stream |-> st, session |-> src.session, generation |-> src.generation, ssrc |-> r]
           applies(s) == /\ s \in SubscribersOf(st)
                         /\ view[s].source # NoSource
                         /\ view[s].source.session = src.session
                         /\ view[s].generation = src.generation
<1>1. /\ UNCHANGED <<source, subscriptions, view>>
      /\ source[st] # NoSource
      /\ requests' = CancelKey(requests, k)
      /\ waiting' = [s \in Subscribers |-> IF applies(s) THEN waiting[s] \ {r} ELSE waiting[s]]
      /\ ready' = [s \in Subscribers |-> IF applies(s) THEN ready[s] \ {r} ELSE ready[s]]
  BY DEF PublishSourceBye
<1>2. DOMAIN requests' = DOMAIN requests \ {k} /\ \A j \in DOMAIN requests' : requests'[j] = requests[j]
  <2> HIDE DEF k
  <2> QED
    BY <1>1 DEF CancelKey
<1>3. ASSUME NEW j, NEW s
      PROVE  Waits(requests', j, s) <=> Waits(requests, j, s) /\ j # k
  BY <1>2 DEF Waits
<1>4. RequestsAreFounded(requests')
  <2>1. RequestsAreFounded(requests)
    BY DEF WaitsInv, WaitsAreExact
  <2>2. \A j \in DOMAIN requests' : j \in DOMAIN requests /\ requests'[j].waiters # {}
    BY <1>2, <2>1 DEF RequestsAreFounded
  <2> QED
    BY <1>3, <2>1, <2>2, FewerAreFounded
<1>5. ASSUME NEW s \in Subscribers, NEW q \in Ssrcs
      PROVE  q \in waiting'[s] <=> Waits(requests', ViewKey(s, q), s)
  <2>1. q \in waiting[s] <=> Waits(requests, ViewKey(s, q), s)
    BY DEF WaitsInv, WaitsAreExact
  <2>2. CASE applies(s)
    <3>1. ViewKey(s, q) = k <=> q = r
      BY <2>2 DEF ViewKey, SubscribersOf
    <3>2. q \in waiting'[s] <=> q \in waiting[s] /\ q # r
      BY <1>1, <2>2
    <3> QED
      BY <1>3, <2>1, <3>1, <3>2
  <2>3. CASE ~applies(s)
    <3>1. subscriptions[s] # st
      <4>1. st # NoStream /\ source[st].generation = generations[st]
        BY <1>1, FanoutAssumption DEF WaitsInv, SourceInv, GenerationsAgree
      <4>2. subscriptions[s] = st => view[s] = Update(generations[st], source[st])
        BY <4>1, Zenon DEF WaitsInv, SourceInv, ViewIsCurrent
      <4> QED
        BY <1>1, <2>3, <4>1, <4>2 DEF Update, SubscribersOf
    <3>2. ViewKey(s, q) # k
      BY <3>1 DEF ViewKey
    <3>3. waiting'[s] = waiting[s]
      BY <1>1, <2>3
    <3> QED
      BY <1>3, <2>1, <3>2, <3>3
  <2> QED
    BY <2>2, <2>3
<1>6. \A s \in Subscribers : ready'[s] \cap waiting'[s] = {}
  BY <1>1 DEF WaitsInv, WaitsAreExact
<1>7. WaitsAreExact(requests', waiting', ready')
  BY <1>4, <1>5, <1>6 DEF WaitsAreExact
<1> QED
  BY <1>1, <1>7, ExactKept

LEMMA PublisherStepWaits ==
  ASSUME WaitsInv, NEW st \in Streams, PublisherStep(st)
  PROVE  WaitsAreExact(requests, waiting, ready)'
<1> DEFINE Exact == WaitsAreExact(requests, waiting, ready)
<1>1. ASSUME Forget(SubscribersOf(st))
      PROVE  /\ \A s \in SubscribersOf(st) : waiting'[s] = {} /\ ready'[s] = {}
             /\ \A s \in Subscribers : s \notin SubscribersOf(st) =>
                  UNCHANGED <<subscriptions[s], view[s], waiting[s], ready[s]>>
  BY <1>1 DEF Forget, SubscribersOf
<1>2. ASSUME NEW u, AdoptSource(Notified(st, nextGeneration), u)
      PROVE  /\ \A s \in SubscribersOf(st) : waiting'[s] = {} /\ ready'[s] = {}
             /\ \A s \in Subscribers : s \notin SubscribersOf(st) =>
                  UNCHANGED <<subscriptions[s], view[s], waiting[s], ready[s]>>
  <2>1. Notified(st, nextGeneration) = SubscribersOf(st)
    BY EveryoneIsNotified DEF WaitsInv
  <2> QED
    BY <1>2, <2>1 DEF AdoptSource, SubscribersOf
<1>3. ASSUME NEW p \in Publishers, NEW o \in Offers, SetPublisherSource(st, p, o)
      PROVE  Exact'
  <2> DEFINE src == [session |-> p, generation |-> nextGeneration, offer |-> o]
  <2>1. /\ source' = [source EXCEPT ![st] = src]
        /\ requests' = CancelStreamKeyframeRequests(requests, st)
        /\ \/ Forget(SubscribersOf(st))
           \/ AdoptSource(Notified(st, nextGeneration), Update(nextGeneration, src))
    BY <1>3 DEF SetPublisherSource, AllocatedGeneration
  <2>2. /\ \A s \in SubscribersOf(st) : waiting'[s] = {} /\ ready'[s] = {}
        /\ \A s \in Subscribers : s \notin SubscribersOf(st) =>
             UNCHANGED <<subscriptions[s], view[s], waiting[s], ready[s]>>
    BY <1>1, <1>2, <2>1
  <2> QED
    BY <2>1, <2>2, StreamReset
<1>4. CASE ClearPublisherSource(st)
  <2>1. /\ source' = [source EXCEPT ![st] = NoSource]
        /\ requests' = CancelStreamKeyframeRequests(requests, st)
        /\ AdoptSource(Notified(st, nextGeneration), Update(nextGeneration, NoSource))
    BY <1>4 DEF ClearPublisherSource, AllocatedGeneration
  <2>2. /\ \A s \in SubscribersOf(st) : waiting'[s] = {} /\ ready'[s] = {}
        /\ \A s \in Subscribers : s \notin SubscribersOf(st) =>
             UNCHANGED <<subscriptions[s], view[s], waiting[s], ready[s]>>
    BY <1>2, <2>1
  <2> QED
    BY <2>1, <2>2, StreamReset
<1>5. ASSUME NEW r \in Ssrcs, PublishSenderTiming(st, r)
      PROVE  Exact'
  BY <1>5, ExactKept DEF PublishSenderTiming, requestVars, keyframeVars, WaitsInv
<1>6. ASSUME NEW r \in Ssrcs, PublishSourceBye(st, r)
      PROVE  Exact'
  BY <1>6, PublishSourceByeWaits
<1> QED
  BY <1>3, <1>4, <1>5, <1>6 DEF PublisherStep

\* A request that changes only in how often it was made is as exact as before.
LEMMA OneRequestChanges ==
  ASSUME WaitsInv, UNCHANGED <<source, subscriptions, view, waiting, ready>>,
         NEW k \in DOMAIN requests, NEW e, e.waiters = requests[k].waiters,
         requests' = [requests EXCEPT ![k] = e]
  PROVE  WaitsAreExact(requests, waiting, ready)'
<1>1. requests = [j \in DOMAIN requests |-> requests[j]]
  BY DEF WaitsInv, SourceInv, TypeOK, RouterTypeOK, IsRequestMap
<1>2. /\ DOMAIN requests' = DOMAIN requests
      /\ \A j \in DOMAIN requests : requests'[j].waiters = requests[j].waiters
  BY <1>1
<1>3. WaitsAreExact(requests', waiting', ready')
  BY <1>2 DEF WaitsInv, WaitsAreExact, RequestsAreFounded, Waits
<1> QED
  BY <1>3, ExactKept

LEMMA NextWaits == WaitsInv /\ [Next]_vars => WaitsInv'
<1> DEFINE Exact == WaitsAreExact(requests, waiting, ready)
<1> SUFFICES ASSUME WaitsInv, [Next]_vars PROVE Exact'
  BY NextSource DEF WaitsInv
<1>1. ASSUME NEW s \in Subscribers, SubscriberStep(s) PROVE Exact'
  BY <1>1, SubscriberStepWaits
<1>2. ASSUME NEW st \in Streams, PublisherStep(st) PROVE Exact'
  BY <1>2, PublisherStepWaits
<1>3. ASSUME NEW k \in DOMAIN requests, RetryTimerExpires(k) PROVE Exact'
  <2>1. [requests[k] EXCEPT !.armed = FALSE].waiters = requests[k].waiters
    BY DEF WaitsInv, SourceInv, TypeOK, RouterTypeOK, IsRequestMap, RequestState
  <2>2. requests' = [requests EXCEPT ![k] = [requests[k] EXCEPT !.armed = FALSE]]
    BY <1>3 DEF RetryTimerExpires
  <2> QED
    BY <1>3, <2>1, <2>2, OneRequestChanges
    DEF RetryTimerExpires, routerVars, keyframeVars, subscriberVars
<1>4. CASE HandleKeyframeRetry
  <2> DEFINE k == Head(retryQueue)[1]
             token == Head(retryQueue)[2]
  <2>1. UNCHANGED <<source, subscriptions, view, waiting, ready>>
    BY <1>4 DEF HandleKeyframeRetry, routerVars, keyframeVars, subscriberVars
  <2>2. CASE ~RetryAccepted(k, token)
    BY <1>4, <2>1, <2>2, ExactKept DEF HandleKeyframeRetry, WaitsInv
  <2>3. CASE RetryAccepted(k, token)
    <3>1. k \in DOMAIN requests /\ requests[k] \in RequestState
      BY <2>3 DEF RetryAccepted, WaitsInv, SourceInv, TypeOK, RouterTypeOK, IsRequestMap
    <3>2. RetrySourceCurrent(k)
      BY <3>1 DEF WaitsInv, WaitsAreExact, RequestsAreFounded
    <3>3. requests' = [requests EXCEPT ![k] = SendAgain(requests[k])]
      BY <1>4, <2>3, <3>2, Zenon DEF HandleKeyframeRetry
    <3>4. SendAgain(requests[k]).waiters = requests[k].waiters
      BY <3>1 DEF SendAgain, ScheduleKeyframeRetry, RequestState
    <3> HIDE DEF k
    <3> QED
      BY <2>1, <3>1, <3>3, <3>4, OneRequestChanges
  <2> QED
    BY <2>2, <2>3
<1>5. CASE UNCHANGED vars
  BY <1>5, ExactKept
  DEF vars, routerVars, requestVars, keyframeVars, subscriberVars, WaitsInv
<1> QED
  BY <1>1, <1>2, <1>3, <1>4, <1>5 DEF Next

LEMMA WaitsInvariant == Spec => []WaitsInv
<1>1. ASSUME Init PROVE WaitsAreExact(requests, waiting, ready)
  BY <1>1 DEF Init, WaitsAreExact, RequestsAreFounded, Waits
<1>2. Init => WaitsInv
  BY <1>1, InitSource DEF WaitsInv
<1> QED
  BY <1>2, NextWaits, PTL DEF Spec

\* The transports and the router never disagree on who waits for a key frame,
\* and no request outlives its source or its last waiter.
THEOREM WaitersAreTheRouters == Spec => []WaitersAgree
  BY WaitsInvariant, ExactWaitsAgree, PTL

-----------------------------------------------------------------------------
(* How often the publisher is asked.                                       *)

\* What BurstIsBounded says of the counters of one request.
CountsAreRight(e) ==
  IF e.active THEN e.sent = e.next /\ e.next <= RetryDelays
              ELSE e.sent > RetryDelays /\ e.next = RetryDelays

\* The two requests differ only in their waiters.
SameBurst(e, f) ==
  /\ e.active = f.active /\ e.armed = f.armed
  /\ e.next = f.next /\ e.sent = f.sent /\ e.token = f.token

\* From R to Q, bursts go on as they were, or are begun with a running timer.
BurstsGoOn(R, Q) ==
  \A k \in DOMAIN Q :
    \/ k \in DOMAIN R /\ SameBurst(Q[k], R[k])
    \/ CountsAreRight(Q[k]) /\ Q[k].armed

LEMMA BurstsGoOnTwice ==
  ASSUME NEW R, NEW Q, NEW P, BurstsGoOn(R, Q), BurstsGoOn(Q, P)
  PROVE  BurstsGoOn(R, P)
  BY DEF BurstsGoOn, SameBurst, CountsAreRight

LEMMA CancelBursts ==
  ASSUME NEW R, IsRequestMap(R)
  PROVE  /\ BurstsGoOn(R, R)
         /\ \A S : BurstsGoOn(R, CancelKeyframeRequests(R, S))
         /\ \A st : BurstsGoOn(R, CancelStreamKeyframeRequests(R, st))
         /\ \A k : BurstsGoOn(R, CancelKey(R, k))
<1>1. BurstsGoOn(R, R)
  BY DEF BurstsGoOn, SameBurst
<1>2. ASSUME NEW S PROVE BurstsGoOn(R, CancelKeyframeRequests(R, S))
  BY DEF BurstsGoOn, SameBurst, CancelKeyframeRequests, IsRequestMap, RequestState
<1>3. ASSUME NEW st PROVE BurstsGoOn(R, CancelStreamKeyframeRequests(R, st))
  BY DEF BurstsGoOn, SameBurst, CancelStreamKeyframeRequests
<1>4. ASSUME NEW k PROVE BurstsGoOn(R, CancelKey(R, k))
  BY DEF BurstsGoOn, SameBurst, CancelKey
<1> QED
  BY <1>1, <1>2, <1>3, <1>4

LEMMA CompleteBursts ==
  ASSUME NEW R, IsRequestMap(R), NEW k, NEW s
  PROVE  BurstsGoOn(R, CompleteKeyframeRequest(R, k, s))
<1>1. CASE k \notin DOMAIN R
  BY <1>1, CancelBursts DEF CompleteKeyframeRequest
<1>2. CASE k \in DOMAIN R
  BY <1>2 DEF BurstsGoOn, SameBurst, CompleteKeyframeRequest, IsRequestMap, RequestState
<1> QED
  BY <1>1, <1>2

\* A burst that is begun has sent one request and used up one delay.
LEMMA BurstBegins ==
  ASSUME NEW e \in RequestState
  PROVE  LET f == ScheduleKeyframeRetry([e EXCEPT !.active = TRUE, !.next = 0, !.sent = 1])
         IN CountsAreRight(f) /\ f.armed
<1> DEFINE b == [e EXCEPT !.active = TRUE, !.next = 0, !.sent = 1]
           f == ScheduleKeyframeRetry(b)
<1>1. b.active /\ b.next = 0 /\ b.sent = 1 /\ b \in RequestState
  BY DEF RequestState
<1>2. RetryDelays \in Nat \ {0}
  BY FanoutAssumption
<1>3. f = [b EXCEPT !.next = @ + 1, !.token = @ + 1, !.armed = TRUE]
  BY <1>1, <1>2 DEF ScheduleKeyframeRetry
<1>4. f.active /\ f.next = 1 /\ f.sent = 1 /\ f.armed
  <2> HIDE DEF b
  <2> QED
    BY <1>1, <1>3 DEF RequestState
<1> QED
  BY <1>2, <1>4 DEF CountsAreRight

LEMMA RequestBursts ==
  ASSUME NEW R, IsRequestMap(R), NEW k, NEW s \in Subscribers
  PROVE  BurstsGoOn(R, RequestKeyframe(R, k, s))
<1> DEFINE e == [(IF k \in DOMAIN R THEN R[k] ELSE NewRequest) EXCEPT !.waiters = @ \cup {s}]
           f == ScheduleKeyframeRetry([e EXCEPT !.active = TRUE, !.next = 0, !.sent = 1])
           Q == RequestKeyframe(R, k, s)
<1>1. e \in RequestState
  BY NewRequestType DEF IsRequestMap, RequestState
<1>2. CountsAreRight(f) /\ f.armed
  BY <1>1, BurstBegins
<1>3. k \in DOMAIN R => SameBurst(e, R[k])
  BY DEF SameBurst, IsRequestMap, RequestState
<1>4. k \notin DOMAIN R => ~e.active
  BY DEF NewRequest
<1>5. /\ DOMAIN Q = DOMAIN R \cup {k}
      /\ \A j \in DOMAIN R : j # k => Q[j] = R[j]
      /\ Q[k] = IF e.active THEN e ELSE f
  <2>1. Q = [j \in DOMAIN R \cup {k} |-> IF j # k THEN R[j] ELSE IF e.active THEN e ELSE f]
    BY DEF RequestKeyframe
  <2> HIDE DEF e, f, Q
  <2> QED
    BY <2>1
<1> HIDE DEF e, f, Q
<1>6. ASSUME NEW j \in DOMAIN Q
      PROVE  \/ j \in DOMAIN R /\ SameBurst(Q[j], R[j])
             \/ CountsAreRight(Q[j]) /\ Q[j].armed
  <2>1. CASE j # k
    BY <1>5, <2>1 DEF SameBurst
  <2>2. CASE j = k
    BY <1>2, <1>3, <1>4, <1>5, <2>2
  <2> QED
    BY <2>1, <2>2
<1> QED
  BY <1>6 DEF BurstsGoOn, Q

-----------------------------------------------------------------------------
(* Bursts stay bounded.                                                    *)

LEMMA BurstsKept ==
  ASSUME BurstIsBounded, BurstsGoOn(requests, requests'), UNCHANGED retryQueue
  PROVE  BurstIsBounded'
<1>1. ASSUME NEW k \in DOMAIN requests'
      PROVE  CountsAreRight(requests'[k])
  BY DEF BurstIsBounded, BurstsGoOn, CountsAreRight, SameBurst
<1>2. ASSUME NEW k \in DOMAIN requests', requests'[k].active
      PROVE  \/ requests'[k].armed
             \/ \E i \in DOMAIN retryQueue : retryQueue[i] = <<k, requests'[k].token>>
  BY <1>2 DEF BurstIsBounded, NoLostRetry, BurstsGoOn, SameBurst
<1> QED
  BY <1>1, <1>2 DEF BurstIsBounded, NoLostRetry, CountsAreRight

BurstInv == WaitsInv /\ BurstIsBounded

LEMMA DispatchBursts ==
  ASSUME NEW R, IsRequestMap(R), NEW W, NEW D, NEW s \in Subscribers, NEW r,
         DispatchKeyframeRequest(R, W, D, s, r)
  PROVE  BurstsGoOn(R, requests')
  BY CancelBursts, RequestBursts DEF DispatchKeyframeRequest

LEMMA TrackBursts ==
  ASSUME NEW R, IsRequestMap(R), NEW W, NEW D, NEW s \in Subscribers, NEW r, NEW seen,
         TrackKeyframe(R, W, D, s, r, seen)
  PROVE  BurstsGoOn(R, requests')
<1>1. CASE requests' = R \/ requests' = CompleteKeyframeRequest(R, ViewKey(s, r), s)
  BY <1>1, CancelBursts, CompleteBursts
<1>2. CASE \E E : DispatchKeyframeRequest(R, W, E, s, r)
  BY <1>2, DispatchBursts
<1> QED
  BY <1>1, <1>2, Zenon DEF TrackKeyframe

LEMMA SubscriberStepBursts ==
  ASSUME BurstInv, NEW s \in Subscribers, SubscriberStep(s)
  PROVE  BurstIsBounded'
<1>1. IsRequestMap(requests)
  BY DEF BurstInv, WaitsInv, SourceInv, TypeOK, RouterTypeOK
<1> DEFINE Cancelled == CancelKeyframeRequests(requests, {s})
<1>2. IsRequestMap(Cancelled) /\ BurstsGoOn(requests, Cancelled)
  BY <1>1, CancelBursts, CancelKeyframeRequestsType
<1> HIDE DEF Cancelled
<1>3. ASSUME NEW st \in Streams, NEW A \in SUBSET Offers, Subscribe(s, st, A)
      PROVE  BurstsGoOn(requests, requests') /\ UNCHANGED retryQueue
  BY <1>1, <1>3, CancelBursts DEF Subscribe
<1>4. CASE Unsubscribe(s)
  BY <1>1, <1>4, CancelBursts, BurstsKept DEF BurstInv, Unsubscribe
<1>5. CASE RecoveryTimerExpires(s)
  BY <1>1, <1>5, CancelBursts, BurstsKept DEF BurstInv, RecoveryTimerExpires, requestVars
<1>6. CASE HandleRecoveryTimeout(s)
  BY <1>1, <1>6, CancelBursts, BurstsKept DEF BurstInv, HandleRecoveryTimeout, requestVars
<1>7. ASSUME NEW r \in Ssrcs, NEW restart, NEW seen, DeliverRtp(s, r, restart, seen)
      PROVE  BurstsGoOn(requests, requests') /\ UNCHANGED retryQueue
  <2>1. CASE TrackKeyframe(requests, waiting[s], ready[s], s, r, seen)
    BY <1>1, <1>7, <2>1, TrackBursts DEF DeliverRtp
  <2>2. CASE TrackKeyframe(Cancelled, {}, {}, s, r, seen)
    <3>1. BurstsGoOn(Cancelled, requests')
      BY <1>2, <2>2, TrackBursts
    <3> QED
      BY <1>2, <1>7, <3>1, BurstsGoOnTwice DEF DeliverRtp
  <2> QED
    BY <1>7, <2>1, <2>2 DEF DeliverRtp, Cancelled
<1>8. ASSUME NEW r \in Ssrcs, FailRtp(s, r)
      PROVE  BurstsGoOn(requests, requests') /\ UNCHANGED retryQueue
  BY <1>1, <1>8, CancelBursts DEF FailRtp, requestVars
<1>9. CASE KeyframeFeedback(s)
  BY <1>1, <1>9, DispatchBursts, BurstsKept DEF BurstInv, KeyframeFeedback
<1>10. CASE Renominate(s)
  BY <1>2, <1>10, BurstsKept DEF BurstInv, Renominate, Cancelled
<1> QED
  BY <1>3, <1>4, <1>5, <1>6, <1>7, <1>8, <1>9, <1>10, BurstsKept DEF BurstInv, SubscriberStep

LEMMA PublisherStepBursts ==
  ASSUME BurstInv, NEW st \in Streams, PublisherStep(st)
  PROVE  BurstIsBounded'
<1>1. IsRequestMap(requests)
  BY DEF BurstInv, WaitsInv, SourceInv, TypeOK, RouterTypeOK
<1>2. /\ UNCHANGED retryQueue
      /\ \/ UNCHANGED requests
         \/ requests' = CancelStreamKeyframeRequests(requests, st)
         \/ \E k : requests' = CancelKey(requests, k)
  BY DEF PublisherStep, SetPublisherSource, ClearPublisherSource, PublishSenderTiming,
         PublishSourceBye, requestVars
<1> QED
  BY <1>1, <1>2, CancelBursts, BurstsKept DEF BurstInv

\* The timer of a request expires: its completion carries the current token.
LEMMA RetryTimerExpiresBursts ==
  ASSUME BurstInv, NEW k \in DOMAIN requests, RetryTimerExpires(k)
  PROVE  BurstIsBounded'
<1>1. IsRequestMap(requests) /\ retryQueue \in Seq(Keys \X Nat)
  BY DEF BurstInv, WaitsInv, SourceInv, TypeOK, RouterTypeOK
<1>2. /\ DOMAIN requests' = DOMAIN requests
      /\ \A j \in DOMAIN requests : j # k => requests'[j] = requests[j]
      /\ requests'[k] = [requests[k] EXCEPT !.armed = FALSE]
  BY <1>1 DEF RetryTimerExpires, IsRequestMap
<1>3. /\ SameBurst([requests[k] EXCEPT !.armed = requests[k].armed], requests[k])
      /\ requests'[k].active = requests[k].active /\ requests'[k].next = requests[k].next
      /\ requests'[k].sent = requests[k].sent /\ requests'[k].token = requests[k].token
  BY <1>1, <1>2 DEF IsRequestMap, RequestState, SameBurst
<1>4. /\ DOMAIN retryQueue' = DOMAIN retryQueue \cup {Len(retryQueue) + 1}
      /\ \A i \in DOMAIN retryQueue : retryQueue'[i] = retryQueue[i]
      /\ retryQueue'[Len(retryQueue) + 1] = <<k, requests[k].token>>
  BY <1>1 DEF RetryTimerExpires
<1>5. ASSUME NEW j \in DOMAIN requests' PROVE CountsAreRight(requests'[j])
  BY <1>2, <1>3 DEF BurstInv, BurstIsBounded, CountsAreRight
<1>6. ASSUME NEW j \in DOMAIN requests', requests'[j].active
      PROVE  \/ requests'[j].armed
             \/ \E i \in DOMAIN retryQueue' : retryQueue'[i] = <<j, requests'[j].token>>
  <2>1. CASE j = k
    BY <1>3, <1>4, <2>1
  <2>2. CASE j # k
    BY <1>2, <1>4, <1>6, <2>2 DEF BurstInv, BurstIsBounded, NoLostRetry
  <2> QED
    BY <2>1, <2>2
<1> QED
  BY <1>5, <1>6 DEF BurstIsBounded, NoLostRetry, CountsAreRight

\* A retry that is not the last leaves the timer running, the last one ends
\* the burst.
LEMMA SendAgainCounts ==
  ASSUME NEW e \in RequestState, CountsAreRight(e)
  PROVE  CountsAreRight(SendAgain(e)) /\ (SendAgain(e).active => SendAgain(e).armed)
<1> DEFINE b == [e EXCEPT !.sent = @ + 1]
<1>1. RetryDelays \in Nat
  BY FanoutAssumption
<1>2. /\ b.active = e.active /\ b.next = e.next /\ b.sent = e.sent + 1
      /\ b \in RequestState
  BY DEF RequestState
<1>3. CASE b.next >= RetryDelays
  <2>1. SendAgain(e) = [b EXCEPT !.active = FALSE]
    BY <1>3 DEF SendAgain, ScheduleKeyframeRetry
  <2> HIDE DEF b
  <2>2. ~SendAgain(e).active /\ SendAgain(e).next = b.next /\ SendAgain(e).sent = b.sent
    BY <1>2, <2>1 DEF RequestState
  <2> QED
    BY <1>1, <1>2, <1>3, <2>2 DEF CountsAreRight, RequestState
<1>4. CASE ~(b.next >= RetryDelays)
  <2>1. SendAgain(e) = [b EXCEPT !.next = @ + 1, !.token = @ + 1, !.armed = TRUE]
    BY <1>4 DEF SendAgain, ScheduleKeyframeRetry
  <2> HIDE DEF b
  <2>2. /\ SendAgain(e).active = b.active /\ SendAgain(e).next = b.next + 1
        /\ SendAgain(e).sent = b.sent /\ SendAgain(e).armed
    BY <1>2, <2>1 DEF RequestState
  <2> QED
    BY <1>1, <1>2, <1>4, <2>2 DEF CountsAreRight, RequestState
<1> QED
  BY <1>3, <1>4

\* The completion of a retry timer: taken for the current wait of a request by
\* key and token, and otherwise dropped.
LEMMA KeyframeRetryBursts ==
  ASSUME BurstInv, HandleKeyframeRetry
  PROVE  BurstIsBounded'
<1> DEFINE k == Head(retryQueue)[1]
           token == Head(retryQueue)[2]
<1>1. IsRequestMap(requests) /\ retryQueue \in Seq(Keys \X Nat) /\ retryQueue # <<>>
  BY DEF HandleKeyframeRetry, BurstInv, WaitsInv, SourceInv, TypeOK, RouterTypeOK
<1>2. Head(retryQueue) = <<k, token>> /\ token \in Nat
  BY <1>1
\* Only the completion at the front is gone from the queue.
<1>3. ASSUME NEW x, \E i \in DOMAIN retryQueue : retryQueue[i] = x, x # Head(retryQueue)
      PROVE  \E i \in DOMAIN retryQueue' : retryQueue'[i] = x
  <2>1. PICK i \in DOMAIN retryQueue : retryQueue[i] = x
    BY <1>3
  <2>2. i # 1
    BY <1>1, <1>3, <2>1
  <2>3. retryQueue' = Tail(retryQueue)
    BY DEF HandleKeyframeRetry
  <2>4. i - 1 \in DOMAIN retryQueue' /\ retryQueue'[i - 1] = retryQueue[i]
    BY <1>1, <2>1, <2>2, <2>3
  <2> QED
    BY <2>1, <2>4
<1>4. CASE ~RetryAccepted(k, token)
  <2>1. requests' = requests
    BY <1>4 DEF HandleKeyframeRetry
  <2>2. ASSUME NEW j \in DOMAIN requests
        PROVE  <<j, requests[j].token>> # Head(retryQueue)
    <3>1. requests[j].waiters # {}
      BY DEF BurstInv, WaitsInv, WaitsAreExact, RequestsAreFounded
    <3> QED
      BY <1>2, <1>4, <3>1 DEF RetryAccepted
  <2> HIDE DEF k, token
  <2> QED
    BY <1>3, <2>1, <2>2 DEF BurstInv, BurstIsBounded, NoLostRetry
<1>5. CASE RetryAccepted(k, token)
  <2>1. k \in DOMAIN requests /\ requests[k] \in RequestState
    BY <1>1, <1>5 DEF RetryAccepted, IsRequestMap
  <2>2. RetrySourceCurrent(k)
    BY <2>1 DEF BurstInv, WaitsInv, WaitsAreExact, RequestsAreFounded
  <2>3. requests' = [requests EXCEPT ![k] = SendAgain(requests[k])]
    BY <1>5, <2>2, Zenon DEF HandleKeyframeRetry
  <2> HIDE DEF k, token
  <2>4. /\ DOMAIN requests' = DOMAIN requests
        /\ requests'[k] = SendAgain(requests[k])
        /\ \A j \in DOMAIN requests : j # k => requests'[j] = requests[j]
    BY <1>1, <2>1, <2>3 DEF IsRequestMap
  <2>5. CountsAreRight(requests[k])
    BY <2>1 DEF BurstInv, BurstIsBounded, CountsAreRight
  <2>6. CountsAreRight(requests'[k]) /\ (requests'[k].active => requests'[k].armed)
    BY <2>1, <2>4, <2>5, SendAgainCounts
  <2>7. ASSUME NEW j \in DOMAIN requests'
        PROVE  CountsAreRight(requests'[j])
    BY <2>4, <2>6 DEF BurstInv, BurstIsBounded, CountsAreRight
  <2>8. ASSUME NEW j \in DOMAIN requests', requests'[j].active
        PROVE  \/ requests'[j].armed
               \/ \E i \in DOMAIN retryQueue' : retryQueue'[i] = <<j, requests'[j].token>>
    <3>1. CASE j = k
      BY <2>6, <2>8, <3>1
    <3>2. CASE j # k
      <4>1. <<j, requests[j].token>> # Head(retryQueue)
        BY <1>2, <3>2
      <4> QED
        BY <1>3, <2>4, <2>8, <3>2, <4>1 DEF BurstInv, BurstIsBounded, NoLostRetry
    <3> QED
      BY <3>1, <3>2
  <2> QED
    BY <2>7, <2>8 DEF BurstIsBounded, NoLostRetry, CountsAreRight
<1> QED
  BY <1>4, <1>5

LEMMA NextBursts == BurstInv /\ [Next]_vars => BurstInv'
<1> SUFFICES ASSUME BurstInv, [Next]_vars PROVE BurstIsBounded'
  BY NextWaits DEF BurstInv
<1>1. ASSUME NEW s \in Subscribers, SubscriberStep(s) PROVE BurstIsBounded'
  BY <1>1, SubscriberStepBursts
<1>2. ASSUME NEW st \in Streams, PublisherStep(st) PROVE BurstIsBounded'
  BY <1>2, PublisherStepBursts
<1>3. ASSUME NEW k \in DOMAIN requests, RetryTimerExpires(k) PROVE BurstIsBounded'
  BY <1>3, RetryTimerExpiresBursts
<1>4. CASE HandleKeyframeRetry
  BY <1>4, KeyframeRetryBursts
<1>5. CASE UNCHANGED vars
  BY <1>5 DEF vars, requestVars, BurstInv, BurstIsBounded, NoLostRetry
<1> QED
  BY <1>1, <1>2, <1>3, <1>4, <1>5 DEF Next

\* The retries of a key frame request are neither lost nor endless, although a
\* completion is recognized by key and token alone: a new request may take the
\* completion of an erased one with the same key for its own.
THEOREM BurstsEnd == Spec => []BurstIsBounded
<1>1. Init => BurstIsBounded
  BY DEF Init, BurstIsBounded, NoLostRetry
<1>2. BurstInv <=> WaitsInv /\ BurstIsBounded
  BY DEF BurstInv
<1> QED
  BY <1>1, <1>2, WaitsInvariant, NextBursts, PTL DEF Spec
=============================================================================
