------------------------ MODULE SessionLifecycleProofs ------------------------
(***************************************************************************)
(* Proofs about SessionLifecycle: its steps are steps of the media fan-out,*)
(* whose theorems therefore hold for whole sessions, and the registry, the *)
(* fan-out, the ports and the inactivity monitors agree on which sessions  *)
(* there are.                                                              *)
(***************************************************************************)
EXTENDS SessionLifecycle, MediaFanoutProofs, FiniteSetTheorems

\* What RegistryAgrees says apart from types.
MapsInv ==
  LifecycleTypeOK /\ RegistryMapsAgree /\ SourceMatchesRegistry /\ SubscriptionsMatchRegistry

-----------------------------------------------------------------------------
(* Every step of a session is a step of the media fan-out.                 *)

\* A publisher that may be created has no source, and its stream has none.
LEMMA NewPublisherMayPublish ==
  ASSUME MapsInv, NEW p \in Publishers, NEW st \in Streams,
         byStream[st] = NoSession, p \notin Registered
  PROVE  MayPublish(st, p)
<1>1. source[st] = NoSource
  BY DEF MapsInv, SourceMatchesRegistry
<1>2. ASSUME NEW t \in Streams, source[t] # NoSource
      PROVE  source[t].session # p
  <2>1. byStream[t] # NoSession /\ source[t].session = byStream[t]
    BY <1>2 DEF MapsInv, SourceMatchesRegistry
  <2>2. publishers[p] = NoSession
    BY DEF Registered
  <2> QED
    BY <2>1, <2>2 DEF MapsInv, RegistryMapsAgree
<1> QED
  BY <1>1, <1>2 DEF MayPublish

\* A subscriber that may be created finds a source it can be configured for.
LEMMA NewSubscriberMaySubscribe ==
  ASSUME MapsInv, NEW st \in Streams, NEW A,
         byStream[st] # NoSession, publishers[byStream[st]].offer \in A
  PROVE  MaySubscribe(st, A)
  BY DEF MapsInv, SourceMatchesRegistry, MaySubscribe

\* The source that goes with a publisher is its own.
LEMMA SourceGoesAlong ==
  ASSUME MapsInv, NEW p \in Publishers, publishers[p] # NoSession, RemovePublisher(p)
  PROVE  /\ publishers[p].stream \in Streams
         /\ byStream[publishers[p].stream] = p
         /\ ClearPublisherSource(publishers[p].stream)
<1> DEFINE st == publishers[p].stream
<1>1. st \in Streams
  BY DEF MapsInv, LifecycleTypeOK
<1>2. byStream[st] = p
  BY <1>1 DEF MapsInv, RegistryMapsAgree
<1>3. source[st] # NoSource /\ source[st].session = p
  BY <1>1, <1>2, LifecycleAssumption DEF MapsInv, SourceMatchesRegistry
<1> QED
  BY <1>1, <1>2, <1>3 DEF RemovePublisher, ClearPublisherSourceOf

\* The ways a publisher may end are one: remove_publisher_session.
LEMMA PublisherEnds ==
  ASSUME MapsInv,
         \/ \E p \in Publishers : DeletePublisher(p) \/ PublisherInactivityTimeout(p)
         \/ \E st \in Streams : DeleteStream(st)
  PROVE  \E p \in Publishers : publishers[p] # NoSession /\ RemovePublisher(p)
<1>1. ASSUME NEW p \in Publishers, DeletePublisher(p)
      PROVE  publishers[p] # NoSession /\ RemovePublisher(p)
  BY <1>1 DEF DeletePublisher
<1>2. ASSUME NEW p \in Publishers, PublisherInactivityTimeout(p)
      PROVE  publishers[p] # NoSession /\ RemovePublisher(p)
  BY <1>2, LifecycleAssumption DEF PublisherInactivityTimeout, Registered, MapsInv, LifecycleTypeOK
<1>3. ASSUME NEW st \in Streams, DeleteStream(st)
      PROVE  \E p \in Publishers : publishers[p] # NoSession /\ RemovePublisher(p)
  <2>1. byStream[st] \in Publishers /\ RemovePublisher(byStream[st])
    BY <1>3 DEF DeleteStream, MapsInv, LifecycleTypeOK
  <2>2. publishers[byStream[st]] # NoSession
    BY <2>1 DEF MapsInv, RegistryMapsAgree
  <2> QED
    BY <2>1, <2>2
<1> QED
  BY <1>1, <1>2, <1>3

\* And so are those of a subscriber, apart from the recovery timeout.
LEMMA SubscriberEnds ==
  ASSUME MapsInv, NEW s \in Subscribers,
         DeleteSubscriber(s) \/ SubscriberInactivityTimeout(s)
  PROVE  subscribers[s] # NoStream /\ RemoveSubscriber(s)
<1>1. CASE DeleteSubscriber(s)
  BY <1>1 DEF DeleteSubscriber
<1>2. CASE SubscriberInactivityTimeout(s)
  BY <1>2, LifecycleAssumption DEF SubscriberInactivityTimeout, Registered, MapsInv, LifecycleTypeOK
<1> QED
  BY <1>1, <1>2

\* The inactivity monitor of session x does something that ends no session.
MonitorStep(x) ==
  Activity(x) \/ DeadlinePasses(x) \/ InactivityTimerExpires(x) \/ InactivityDeferred(x)

LEMMA LifecycleCases ==
  ASSUME MapsInv, LifecycleNext
  PROVE  \/ \E p \in Publishers, st \in Streams, o \in Offers : CreatePublisher(p, st, o)
         \/ \E p \in Publishers : publishers[p] # NoSession /\ RemovePublisher(p)
         \/ \E s \in Subscribers, st \in Streams, A \in SUBSET Offers : CreateSubscriber(s, st, A)
         \/ \E s \in Subscribers : subscribers[s] # NoStream /\ RemoveSubscriber(s)
         \/ \E s \in Subscribers : RecoveryExpires(s)
         \/ \E s \in Subscribers : RecoveryTimeout(s)
         \/ \E x \in Sessions : MonitorStep(x)
<1>1. CASE \/ \E p \in Publishers : DeletePublisher(p) \/ PublisherInactivityTimeout(p)
           \/ \E st \in Streams : DeleteStream(st)
  BY <1>1, PublisherEnds
<1>2. ASSUME NEW s \in Subscribers, DeleteSubscriber(s) \/ SubscriberInactivityTimeout(s)
      PROVE  subscribers[s] # NoStream /\ RemoveSubscriber(s)
  BY <1>2, SubscriberEnds
<1> QED
  BY <1>1, <1>2 DEF LifecycleNext, MonitorStep

LEMMA FanoutStep == MapsInv /\ [LifecycleNext]_allVars => [Next]_vars
<1> SUFFICES ASSUME MapsInv, [LifecycleNext]_allVars, ~UNCHANGED vars PROVE Next
  OBVIOUS
<1>1. ASSUME NEW p \in Publishers, NEW st \in Streams, NEW o \in Offers,
             CreatePublisher(p, st, o)
      PROVE  Next
  <2>1. MayPublish(st, p) /\ SetPublisherSource(st, p, o)
    BY <1>1, NewPublisherMayPublish DEF CreatePublisher
  <2> QED
    BY <2>1 DEF Next, PublisherStep
<1>2. ASSUME NEW p \in Publishers, publishers[p] # NoSession, RemovePublisher(p)
      PROVE  Next
  BY <1>2, SourceGoesAlong DEF Next, PublisherStep
<1>3. ASSUME NEW s \in Subscribers, NEW st \in Streams, NEW A \in SUBSET Offers,
             CreateSubscriber(s, st, A)
      PROVE  Next
  <2>1. MaySubscribe(st, A) /\ Subscribe(s, st, A)
    BY <1>3, NewSubscriberMaySubscribe DEF CreateSubscriber
  <2> QED
    BY <2>1 DEF Next, SubscriberStep
<1>4. ASSUME NEW s \in Subscribers, RemoveSubscriber(s)
      PROVE  Next
  BY <1>4 DEF RemoveSubscriber, Next, SubscriberStep
<1>5. ASSUME NEW s \in Subscribers, RecoveryExpires(s)
      PROVE  Next
  BY <1>5 DEF RecoveryExpires, Next, SubscriberStep
<1>6. ASSUME NEW s \in Subscribers, RecoveryTimeout(s)
      PROVE  Next
  BY <1>6 DEF RecoveryTimeout, Next, SubscriberStep
<1>7. ASSUME NEW x \in Sessions, MonitorStep(x)
      PROVE  UNCHANGED vars
  BY <1>7 DEF MonitorStep, Activity, DeadlinePasses, InactivityTimerExpires, InactivityDeferred
<1>8. LifecycleNext
  BY DEF allVars
<1> QED
  BY <1>1, <1>2, <1>3, <1>4, <1>5, <1>6, <1>7, <1>8, LifecycleCases

-----------------------------------------------------------------------------
(* The registry.                                                           *)

\* RegistryAgrees, with what the fan-out keeps to itself and a finite number of
\* ports in use.
LifecycleInv ==
  /\ SourceInv
  /\ RegistryAgrees
  /\ LeasesMatchSessions
  /\ IsFiniteSet(leases)

\* The sessions of gone end and those of new begin, with their ports and their
\* inactivity monitors.
SessionsChange(gone, new) ==
  /\ Registered' = (Registered \ gone) \cup new
  /\ leases' = (leases \ gone) \cup new
  /\ silent' = silent \ (gone \cup new)
  /\ armed' = (armed \ gone) \cup new
  /\ due' = due \ (gone \cup new)

LEMMA ChangedSessions ==
  ASSUME LifecycleInv, NEW gone, NEW new \in SUBSET Sessions, SessionsChange(gone, new)
  PROVE  /\ leases' = Registered' /\ leases' \subseteq Sessions
         /\ silent' \subseteq Registered' /\ armed' \subseteq Sessions /\ due' \subseteq Sessions
         /\ SessionsAreWatched'
  BY DEF LifecycleInv, RegistryAgrees, LifecycleTypeOK, LeasesMatchSessions, SessionsAreWatched,
         SessionsChange

\* The range is not overbooked: a session begins only with a port of its own.
LEMMA PortsSuffice ==
  ASSUME LifecycleInv, NEW gone, NEW new, SessionsChange(gone, new),
         new = {} \/ (PortAvailable /\ \E x : new = {x})
  PROVE  IsFiniteSet(leases') /\ Cardinality(leases') <= PortCount
<1>1. /\ IsFiniteSet(leases) /\ Cardinality(leases) <= PortCount
      /\ Cardinality(leases) \in Nat /\ PortCount \in Nat
  BY FS_CardinalityType, LifecycleAssumption DEF LifecycleInv, LeasesMatchSessions
<1>2. /\ IsFiniteSet(leases \ gone) /\ Cardinality(leases \ gone) \in Nat
      /\ Cardinality(leases \ gone) <= Cardinality(leases)
  <2>1. leases \ gone \subseteq leases
    OBVIOUS
  <2> QED
    BY <1>1, <2>1, FS_Subset, FS_CardinalityType
<1>3. CASE new = {}
  BY <1>1, <1>2, <1>3 DEF SessionsChange
<1>4. ASSUME NEW x, new = {x}, PortAvailable
      PROVE  IsFiniteSet(leases') /\ Cardinality(leases') <= PortCount
  <2>1. leases' = (leases \ gone) \cup {x}
    BY <1>4 DEF SessionsChange
  <2>2. /\ IsFiniteSet((leases \ gone) \cup {x})
        /\ \/ Cardinality((leases \ gone) \cup {x}) = Cardinality(leases \ gone)
           \/ Cardinality((leases \ gone) \cup {x}) = Cardinality(leases \ gone) + 1
    BY <1>2, FS_AddElement
  <2> QED
    BY <1>1, <1>2, <1>4, <2>1, <2>2 DEF PortAvailable
<1> QED
  BY <1>3, <1>4

\* What every step has to show.
LEMMA LifecycleInvFrom ==
  ASSUME LifecycleInv, SourceInv', NEW gone, NEW new \in SUBSET Sessions,
         new = {} \/ (PortAvailable /\ \E x : new = {x}),
         SessionsChange(gone, new),
         byStream' \in [Streams -> Publishers \cup {NoSession}],
         publishers' \in [Publishers -> [stream: Streams, offer: Offers] \cup {NoSession}],
         RegistryMapsAgree', SourceMatchesRegistry', SubscriptionsMatchRegistry'
  PROVE  LifecycleInv'
<1>1. /\ leases' = Registered' /\ leases' \subseteq Sessions
      /\ silent' \subseteq Registered' /\ armed' \subseteq Sessions /\ due' \subseteq Sessions
      /\ SessionsAreWatched'
  BY ChangedSessions
<1>2. IsFiniteSet(leases') /\ Cardinality(leases') <= PortCount
  BY PortsSuffice
<1>3. TypeOK' /\ subscribers' \in [Subscribers -> Streams \cup {NoStream}]
  BY DEF SourceInv, TypeOK, TransportTypeOK, SubscriptionsMatchRegistry
<1>4. LifecycleTypeOK'
  BY <1>1, <1>3 DEF LifecycleTypeOK
<1> QED
  BY <1>1, <1>2, <1>4 DEF LifecycleInv, RegistryAgrees, LeasesMatchSessions

LEMMA CreatePublisherRegistry ==
  ASSUME LifecycleInv, SourceInv', NEW p \in Publishers, NEW st \in Streams, NEW o \in Offers,
         CreatePublisher(p, st, o)
  PROVE  LifecycleInv'
<1> DEFINE gone == Dropped(st, o)
           src == [session |-> p, generation |-> nextGeneration, offer |-> o]
           entry == [stream |-> st, offer |-> o]
<1>1. /\ byStream[st] = NoSession /\ publishers[p] = NoSession /\ PortAvailable
      /\ byStream' = [byStream EXCEPT ![st] = p]
      /\ publishers' = [publishers EXCEPT ![p] = entry]
      /\ subscribers' = [s \in Subscribers |-> IF s \in gone THEN NoStream ELSE subscribers[s]]
      /\ leases' = (leases \ gone) \cup {p}
      /\ Monitor(p, gone)
      /\ SetPublisherSource(st, p, o)
  BY DEF CreatePublisher, Registered
<1>2. /\ byStream \in [Streams -> Publishers \cup {NoSession}]
      /\ publishers \in [Publishers -> [stream: Streams, offer: Offers] \cup {NoSession}]
      /\ subscribers \in [Subscribers -> Streams \cup {NoStream}]
      /\ source \in [Streams -> Source \cup {NoSource}]
      /\ subscriptions = subscribers
      /\ RegistryMapsAgree /\ SourceMatchesRegistry
  BY DEF LifecycleInv, RegistryAgrees, LifecycleTypeOK, TypeOK, RouterTypeOK,
         SubscriptionsMatchRegistry
<1>3. gone \subseteq Subscribers /\ p \notin gone /\ entry # NoSession
      /\ entry \in [stream: Streams, offer: Offers]
  BY LifecycleAssumption DEF Dropped, RegisteredOn
<1>4. SessionsChange(gone, {p})
  <2>1. Registered' = (Registered \ gone) \cup {p}
    <3>1. \A q \in Publishers : publishers'[q] # NoSession <=> q = p \/ publishers[q] # NoSession
      BY <1>1, <1>2, <1>3
    <3>2. \A s \in Subscribers : subscribers'[s] # NoStream <=> s \notin gone /\ subscribers[s] # NoStream
      BY <1>1
    <3>3. \A q \in Publishers : q \notin gone
      BY <1>3, LifecycleAssumption
    <3>4. \A s \in Subscribers : s # p
      BY LifecycleAssumption
    <3> HIDE DEF gone
    <3> QED
      BY <3>1, <3>2, <3>3, <3>4 DEF Registered
  <2> QED
    BY <1>1, <2>1 DEF SessionsChange, Monitor
<1>5. /\ byStream' \in [Streams -> Publishers \cup {NoSession}]
      /\ publishers' \in [Publishers -> [stream: Streams, offer: Offers] \cup {NoSession}]
  BY <1>1, <1>2, <1>3
<1>6. RegistryMapsAgree'
  <2> SUFFICES ASSUME NEW q \in Publishers, NEW t \in Streams
               PROVE  byStream'[t] = q <=> publishers'[q] # NoSession /\ publishers'[q].stream = t
    BY DEF RegistryMapsAgree
  <2>1. byStream[t] = q <=> publishers[q] # NoSession /\ publishers[q].stream = t
    BY <1>2 DEF RegistryMapsAgree
  <2>2. byStream'[t] = IF t = st THEN p ELSE byStream[t]
    BY <1>1, <1>2
  <2>3. publishers'[q] = IF q = p THEN entry ELSE publishers[q]
    BY <1>1, <1>2
  <2>4. entry.stream = st /\ p # NoSession
    BY LifecycleAssumption
  <2>5. q # NoSession
    BY LifecycleAssumption
  <2> HIDE DEF entry
  <2> QED
    BY <1>1, <1>3, <2>1, <2>2, <2>3, <2>4, <2>5
<1>7. SourceMatchesRegistry'
  <2> SUFFICES ASSUME NEW t \in Streams
               PROVE  IF byStream'[t] = NoSession THEN source'[t] = NoSource
                      ELSE /\ source'[t] # NoSource
                           /\ source'[t].session = byStream'[t]
                           /\ source'[t].offer = publishers'[byStream'[t]].offer
    BY DEF SourceMatchesRegistry
  <2>1. source' = [source EXCEPT ![st] = src]
    BY <1>1 DEF SetPublisherSource, AllocatedGeneration
  <2>2. src # NoSource
    BY FanoutAssumption DEF LifecycleInv, SourceInv, TypeOK, RouterTypeOK
  <2>3. CASE t = st
    BY <1>1, <1>2, <2>1, <2>2, <2>3, LifecycleAssumption
  <2>4. CASE t # st
    <3>1. byStream'[t] = byStream[t] /\ source'[t] = source[t]
      BY <1>1, <1>2, <2>1, <2>4
    <3>2. byStream[t] # p
      BY <1>1, <1>2 DEF RegistryMapsAgree
    <3>3. byStream[t] # NoSession => publishers'[byStream[t]] = publishers[byStream[t]]
      BY <1>1, <1>2, <3>2
    <3> QED
      BY <1>2, <3>1, <3>3 DEF SourceMatchesRegistry
  <2> QED
    BY <2>3, <2>4
<1>8. SubscriptionsMatchRegistry'
  <2>1. CASE Incompatible(st, o)
    <3>1. CASE Forget(SubscribersOf(st))
      BY <1>1, <1>2, <2>1, <3>1
      DEF Forget, SubscribersOf, Dropped, RegisteredOn, SubscriptionsMatchRegistry
    <3> QED
      BY <1>1, <2>1, <3>1 DEF SetPublisherSource
  <2>2. CASE ~Incompatible(st, o)
    <3>1. subscriptions' = subscriptions
      BY <1>1, <2>2 DEF SetPublisherSource, AdoptSource
    <3>2. subscribers' = subscribers
      BY <1>1, <1>2, <2>2 DEF Dropped
    <3> QED
      BY <1>2, <3>1, <3>2 DEF SubscriptionsMatchRegistry
  <2> QED
    BY <2>1, <2>2
<1>9. {p} \in SUBSET Sessions
  BY DEF Sessions
<1> HIDE DEF gone
<1> QED
  BY <1>1, <1>4, <1>5, <1>6, <1>7, <1>8, <1>9, LifecycleInvFrom

LEMMA RemovePublisherRegistry ==
  ASSUME LifecycleInv, SourceInv', NEW p \in Publishers, publishers[p] # NoSession,
         RemovePublisher(p)
  PROVE  LifecycleInv'
<1> DEFINE st == publishers[p].stream
<1>1. /\ byStream \in [Streams -> Publishers \cup {NoSession}]
      /\ publishers \in [Publishers -> [stream: Streams, offer: Offers] \cup {NoSession}]
      /\ source \in [Streams -> Source \cup {NoSource}]
      /\ subscriptions = subscribers
      /\ RegistryMapsAgree /\ SourceMatchesRegistry
      /\ MapsInv
  BY DEF LifecycleInv, RegistryAgrees, LifecycleTypeOK, TypeOK, RouterTypeOK,
         SubscriptionsMatchRegistry, MapsInv
<1>2. st \in Streams /\ byStream[st] = p /\ ClearPublisherSource(st)
  BY <1>1, SourceGoesAlong
<1>3. /\ byStream' = [byStream EXCEPT ![st] = NoSession]
      /\ publishers' = [publishers EXCEPT ![p] = NoSession]
      /\ leases' = leases \ {p}
      /\ Destroy({p})
      /\ subscribers' = subscribers
      /\ subscriptions' = subscriptions
      /\ source' = [source EXCEPT ![st] = NoSource]
  BY <1>2 DEF RemovePublisher, ClearPublisherSource, AdoptSource
<1> HIDE DEF st
<1>4. SessionsChange({p}, {})
  <2>1. \A q \in Publishers : publishers'[q] # NoSession <=> q # p /\ publishers[q] # NoSession
    BY <1>1, <1>3
  <2>2. \A s \in Subscribers : s # p
    BY LifecycleAssumption
  <2>3. Registered' = Registered \ {p}
    BY <1>3, <2>1, <2>2 DEF Registered
  <2> QED
    BY <1>3, <2>3 DEF SessionsChange, Destroy
<1>5. /\ byStream' \in [Streams -> Publishers \cup {NoSession}]
      /\ publishers' \in [Publishers -> [stream: Streams, offer: Offers] \cup {NoSession}]
  BY <1>1, <1>3
<1>6. RegistryMapsAgree'
  <2> SUFFICES ASSUME NEW q \in Publishers, NEW t \in Streams
               PROVE  byStream'[t] = q <=> publishers'[q] # NoSession /\ publishers'[q].stream = t
    BY DEF RegistryMapsAgree
  <2>1. byStream[t] = q <=> publishers[q] # NoSession /\ publishers[q].stream = t
    BY <1>1 DEF RegistryMapsAgree
  <2>2. byStream'[t] = IF t = st THEN NoSession ELSE byStream[t]
    BY <1>1, <1>3
  <2>3. publishers'[q] = IF q = p THEN NoSession ELSE publishers[q]
    BY <1>1, <1>3
  <2>4. q # NoSession
    BY LifecycleAssumption
  <2>5. byStream[t] = p <=> t = st
    BY <1>1, <1>2 DEF RegistryMapsAgree, st
  <2> QED
    BY <2>1, <2>2, <2>3, <2>4, <2>5
<1>7. SourceMatchesRegistry'
  <2> SUFFICES ASSUME NEW t \in Streams
               PROVE  IF byStream'[t] = NoSession THEN source'[t] = NoSource
                      ELSE /\ source'[t] # NoSource
                           /\ source'[t].session = byStream'[t]
                           /\ source'[t].offer = publishers'[byStream'[t]].offer
    BY DEF SourceMatchesRegistry
  <2>1. CASE t = st
    BY <1>1, <1>2, <1>3, <2>1
  <2>2. CASE t # st
    <3>1. byStream'[t] = byStream[t] /\ source'[t] = source[t]
      BY <1>1, <1>3, <2>2
    <3>2. byStream[t] # p
      BY <1>1, <1>2, <2>2 DEF RegistryMapsAgree, st
    <3>3. byStream[t] # NoSession => publishers'[byStream[t]] = publishers[byStream[t]]
      BY <1>1, <1>3, <3>2
    <3> QED
      BY <1>1, <3>1, <3>3 DEF SourceMatchesRegistry
  <2> QED
    BY <2>1, <2>2
<1>8. SubscriptionsMatchRegistry'
  BY <1>1, <1>3 DEF SubscriptionsMatchRegistry
<1>9. {} \in SUBSET Sessions
  OBVIOUS
<1> QED
  BY <1>4, <1>5, <1>6, <1>7, <1>8, <1>9, LifecycleInvFrom

\* The publishers are left alone.
LEMMA PublishersKept ==
  ASSUME LifecycleInv, UNCHANGED <<byStream, publishers, source>>
  PROVE  /\ byStream' \in [Streams -> Publishers \cup {NoSession}]
         /\ publishers' \in [Publishers -> [stream: Streams, offer: Offers] \cup {NoSession}]
         /\ RegistryMapsAgree' /\ SourceMatchesRegistry'
  BY DEF LifecycleInv, RegistryAgrees, LifecycleTypeOK, RegistryMapsAgree, SourceMatchesRegistry

LEMMA CreateSubscriberRegistry ==
  ASSUME LifecycleInv, SourceInv', NEW s \in Subscribers, NEW st \in Streams, NEW A,
         CreateSubscriber(s, st, A)
  PROVE  LifecycleInv'
<1>1. /\ subscribers[s] = NoStream /\ PortAvailable
      /\ subscribers' = [subscribers EXCEPT ![s] = st]
      /\ subscriptions' = [subscriptions EXCEPT ![s] = st]
      /\ leases' = leases \cup {s}
      /\ Monitor(s, {})
      /\ UNCHANGED <<byStream, publishers, source>>
  BY DEF CreateSubscriber, Subscribe, Registered
<1>2. /\ subscribers \in [Subscribers -> Streams \cup {NoStream}]
      /\ subscriptions = subscribers
  BY DEF LifecycleInv, RegistryAgrees, LifecycleTypeOK, SubscriptionsMatchRegistry
<1>3. SessionsChange({}, {s})
  <2>1. \A t \in Subscribers : subscribers'[t] # NoStream <=> t = s \/ subscribers[t] # NoStream
    BY <1>1, <1>2, FanoutAssumption
  <2>2. Registered' = Registered \cup {s}
    BY <1>1, <2>1 DEF Registered
  <2> QED
    BY <1>1, <2>2 DEF SessionsChange, Monitor
<1>4. SubscriptionsMatchRegistry'
  BY <1>1, <1>2 DEF SubscriptionsMatchRegistry
<1>5. {s} \in SUBSET Sessions
  BY DEF Sessions
<1> QED
  BY <1>1, <1>3, <1>4, <1>5, PublishersKept, LifecycleInvFrom

\* Subscribers leave: those of S, the ones the fan-out forgets.
LEMMA SubscribersLeave ==
  ASSUME LifecycleInv, SourceInv', NEW S \in SUBSET Subscribers,
         subscribers' = [t \in Subscribers |-> IF t \in S THEN NoStream ELSE subscribers[t]],
         subscriptions' = subscribers',
         leases' = leases \ S,
         Destroy(S),
         UNCHANGED <<byStream, publishers, source>>
  PROVE  LifecycleInv'
<1>1. SessionsChange(S, {})
  <2>1. \A t \in Subscribers : subscribers'[t] # NoStream <=> t \notin S /\ subscribers[t] # NoStream
    OBVIOUS
  <2>2. \A p \in Publishers : p \notin S
    BY LifecycleAssumption
  <2>3. Registered' = Registered \ S
    BY <2>1, <2>2 DEF Registered
  <2> QED
    BY <2>3 DEF SessionsChange, Destroy
<1>2. SubscriptionsMatchRegistry'
  BY DEF SubscriptionsMatchRegistry
<1>3. {} \in SUBSET Sessions
  OBVIOUS
<1> QED
  BY <1>1, <1>2, <1>3, PublishersKept, LifecycleInvFrom

LEMMA RemoveSubscriberRegistry ==
  ASSUME LifecycleInv, SourceInv', NEW s \in Subscribers, RemoveSubscriber(s)
  PROVE  LifecycleInv'
<1>1. subscriptions = subscribers /\ subscribers \in [Subscribers -> Streams \cup {NoStream}]
  BY DEF LifecycleInv, RegistryAgrees, LifecycleTypeOK, SubscriptionsMatchRegistry
<1>2. subscribers' = [t \in Subscribers |-> IF t \in {s} THEN NoStream ELSE subscribers[t]]
  BY <1>1 DEF RemoveSubscriber
<1>3. subscriptions' = [t \in Subscribers |-> IF t \in {s} THEN NoStream ELSE subscribers[t]]
  BY <1>1 DEF RemoveSubscriber, Unsubscribe, Forget
<1>4. leases' = leases \ {s} /\ Destroy({s}) /\ UNCHANGED <<byStream, publishers, source>>
  BY DEF RemoveSubscriber, Unsubscribe
<1>5. {s} \in SUBSET Subscribers
  OBVIOUS
<1> QED
  BY <1>2, <1>3, <1>4, <1>5, SubscribersLeave

\* The failure handler removes from the registry just those whom
\* handle_publisher_recovery_timeout closes.
LEMMA RecoveryTimeoutRegistry ==
  ASSUME LifecycleInv, SourceInv', NEW s \in Subscribers, RecoveryTimeout(s)
  PROVE  LifecycleInv'
<1> DEFINE S == IF view[s].source = NoSource THEN RegisteredOn(subscribers[s]) ELSE {}
<1>1. subscriptions = subscribers /\ subscribers \in [Subscribers -> Streams \cup {NoStream}]
  BY DEF LifecycleInv, RegistryAgrees, LifecycleTypeOK, SubscriptionsMatchRegistry
<1>2. /\ subscribers' = [t \in Subscribers |-> IF t \in S THEN NoStream ELSE subscribers[t]]
      /\ leases' = leases \ S
      /\ Destroy(S)
      /\ UNCHANGED <<byStream, publishers>>
      /\ HandleRecoveryTimeout(s)
  BY DEF RecoveryTimeout
<1>3. subscriptions' = subscribers' /\ source' = source
  <2>1. CASE view[s].source = NoSource
    <3>1. Forget(SubscribersOf(subscriptions[s])) /\ source' = source
      BY <1>2, <2>1 DEF HandleRecoveryTimeout
    <3>2. SubscribersOf(subscriptions[s]) = S
      BY <1>1, <2>1 DEF SubscribersOf, RegisteredOn
    <3> QED
      BY <1>1, <1>2, <3>1, <3>2 DEF Forget
  <2>2. CASE view[s].source # NoSource
    <3>1. subscriptions' = subscriptions /\ source' = source
      BY <1>2, <2>2 DEF HandleRecoveryTimeout, routerVars
    <3> QED
      BY <1>1, <1>2, <2>2, <3>1
  <2> QED
    BY <2>1, <2>2
<1>4. S \in SUBSET Subscribers
  BY DEF RegisteredOn
<1> HIDE DEF S
<1> QED
  BY <1>2, <1>3, <1>4, SubscribersLeave

\* A step of the inactivity monitor leaves every session watched.
LEMMA MonitorStepRegistry ==
  ASSUME LifecycleInv, NEW x \in Sessions, MonitorStep(x)
  PROVE  LifecycleInv'
<1>1. UNCHANGED <<vars, registryVars>>
  BY DEF MonitorStep, Activity, DeadlinePasses, InactivityTimerExpires, InactivityDeferred
<1>2. SourceInv'
  BY <1>1, NextSource DEF LifecycleInv
<1>3. Registered' = Registered
  BY <1>1 DEF registryVars, Registered
<1>4. /\ silent' \subseteq Registered /\ armed' \subseteq Sessions /\ due' \subseteq Sessions
      /\ armed' \cup due' = armed \cup due
  BY DEF LifecycleInv, RegistryAgrees, LifecycleTypeOK, MonitorStep, Activity, DeadlinePasses,
         InactivityTimerExpires, InactivityDeferred
<1>5. TypeOK'
  BY <1>2 DEF SourceInv
<1>6. LifecycleTypeOK'
  BY <1>1, <1>3, <1>4, <1>5 DEF LifecycleInv, RegistryAgrees, LifecycleTypeOK, registryVars
<1>7. SourceMatchesRegistry' /\ RegistryMapsAgree' /\ SubscriptionsMatchRegistry'
  BY <1>1 DEF LifecycleInv, RegistryAgrees, SourceMatchesRegistry, RegistryMapsAgree,
              SubscriptionsMatchRegistry, registryVars, vars, routerVars
<1>8. SessionsAreWatched'
  BY <1>3, <1>4 DEF LifecycleInv, RegistryAgrees, SessionsAreWatched
<1> QED
  BY <1>1, <1>2, <1>3, <1>6, <1>7, <1>8
  DEF LifecycleInv, RegistryAgrees, LeasesMatchSessions, registryVars

\* Nothing of the registry, the sources or the monitors changes.
LEMMA LifecycleInvKept ==
  ASSUME LifecycleInv, SourceInv', UNCHANGED <<lifecycleVars, source, subscriptions>>
  PROVE  LifecycleInv'
<1>1. Registered' = Registered
  BY DEF Registered, lifecycleVars, registryVars
<1>2. TypeOK'
  BY DEF SourceInv
<1>3. LifecycleTypeOK'
  BY <1>1, <1>2 DEF LifecycleInv, RegistryAgrees, LifecycleTypeOK, lifecycleVars, registryVars,
                    monitorVars
<1>4. SourceMatchesRegistry' /\ RegistryMapsAgree' /\ SubscriptionsMatchRegistry'
  BY DEF LifecycleInv, RegistryAgrees, SourceMatchesRegistry, RegistryMapsAgree,
         SubscriptionsMatchRegistry, lifecycleVars, registryVars
<1>5. SessionsAreWatched'
  BY <1>1 DEF LifecycleInv, RegistryAgrees, SessionsAreWatched, lifecycleVars, monitorVars
<1> QED
  BY <1>1, <1>3, <1>4, <1>5
  DEF LifecycleInv, RegistryAgrees, LeasesMatchSessions, lifecycleVars, registryVars

LEMMA NextLifecycle == LifecycleInv /\ [LifecycleNext]_allVars => LifecycleInv'
<1> SUFFICES ASSUME LifecycleInv, [LifecycleNext]_allVars PROVE LifecycleInv'
  OBVIOUS
<1>1. MapsInv
  BY DEF MapsInv, LifecycleInv, RegistryAgrees
<1>2. SourceInv'
  BY <1>1, FanoutStep, NextSource DEF LifecycleInv
<1>3. CASE UNCHANGED allVars
  BY <1>2, <1>3, LifecycleInvKept DEF allVars, vars, routerVars
<1>4. CASE LifecycleNext
  <2>1. ASSUME NEW s \in Subscribers, RecoveryExpires(s)
        PROVE  LifecycleInv'
    BY <1>2, <2>1, LifecycleInvKept DEF RecoveryExpires, RecoveryTimerExpires, routerVars
  <2> QED
    BY <1>1, <1>2, <1>4, <2>1, LifecycleCases, CreatePublisherRegistry, RemovePublisherRegistry,
       CreateSubscriberRegistry, RemoveSubscriberRegistry, RecoveryTimeoutRegistry,
       MonitorStepRegistry
<1> QED
  BY <1>3, <1>4

LEMMA InitLifecycle == LifecycleInit => LifecycleInv
<1> SUFFICES ASSUME LifecycleInit PROVE LifecycleInv
  OBVIOUS
<1>1. SourceInv /\ TypeOK
  BY InitSource DEF LifecycleInit, SourceInv
<1>2. Registered = {}
  BY DEF LifecycleInit, Registered
<1>3. LifecycleTypeOK
  BY <1>1, <1>2 DEF LifecycleInit, LifecycleTypeOK
<1>4. RegistryMapsAgree /\ SourceMatchesRegistry /\ SubscriptionsMatchRegistry /\ SessionsAreWatched
  BY <1>2, LifecycleAssumption
  DEF LifecycleInit, Init, RegistryMapsAgree, SourceMatchesRegistry, SubscriptionsMatchRegistry,
      SessionsAreWatched
<1>5. IsFiniteSet(leases) /\ leases = Registered /\ Cardinality(leases) <= PortCount
  BY <1>2, FS_EmptySet, LifecycleAssumption DEF LifecycleInit
<1> QED
  BY <1>1, <1>3, <1>4, <1>5 DEF LifecycleInv, RegistryAgrees, LeasesMatchSessions

LEMMA LifecycleInvariant == LifecycleSpec => []LifecycleInv
  BY InitLifecycle, NextLifecycle, PTL DEF LifecycleSpec

\* The registry's maps of publishers agree with each other, with the sources
\* and the subscriptions of the fan-out, and every registered session is
\* watched by its inactivity timer, however sessions begin and end.
THEOREM TheRegistryAgrees == LifecycleSpec => []RegistryAgrees
<1>1. LifecycleInv => RegistryAgrees
  BY DEF LifecycleInv
<1> QED
  BY <1>1, LifecycleInvariant, PTL

\* A port is leased to exactly the registered sessions, never more than the
\* range has.
THEOREM LeasesAreOfSessions == LifecycleSpec => []LeasesMatchSessions
<1>1. LifecycleInv => LeasesMatchSessions
  BY DEF LifecycleInv
<1> QED
  BY <1>1, LifecycleInvariant, PTL

\* Whatever the sessions do is something the media fan-out may do: the WHIP and
\* WHEP handlers subscribe and publish only when MediaFanout says they may.
THEOREM SessionsImplementTheFanout == LifecycleSpec => Spec
<1>1. LifecycleInit => Init
  BY DEF LifecycleInit
<1>2. LifecycleInv => MapsInv
  BY DEF MapsInv, LifecycleInv, RegistryAgrees
<1> QED
  BY <1>1, <1>2, FanoutStep, LifecycleInvariant, PTL DEF LifecycleSpec, Spec

\* So what holds of the fan-out holds of the sessions, for instance that every
\* viewer has the source of its stream.
THEOREM SessionsSeeTheCurrentSource ==
  LifecycleSpec => [](ViewIsCurrent /\ TimingsAgree /\ OrphansAreTimed)
  BY SessionsImplementTheFanout, SubscribersSeeTheCurrentSource, TimingsAreOfTheSource,
     EveryOrphanIsTimed, PTL
=============================================================================
