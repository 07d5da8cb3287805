-------------------------- MODULE SessionLifecycle --------------------------
(***************************************************************************)
(* The life of the WHIP and WHEP sessions: the stream_registry's maps, the *)
(* UDP port each session holds, the inactivity monitor of each transport   *)
(* and, through MediaFanout, the publisher sources and subscriptions of    *)
(* the media fan-out.  Every way a session can be created or end is one    *)
(* action, the whole handler: WHIP and WHEP POST and DELETE, the admin     *)
(* DELETE of a session or a stream, the inactivity timeout, the publisher  *)
(* recovery timeout and a re-publication some subscriber cannot follow.    *)
(*                                                                         *)
(* A request that is refused (400, 404, 409, 503) leaves all of this as it *)
(* was: what it had built so far is destroyed before the handler returns.  *)
(* Media and RTCP packets change nothing here and are left to MediaFanout. *)
(***************************************************************************)
EXTENDS MediaFanout, FiniteSets

CONSTANTS
  NoSession,
  PortCount   \* ports of the session UDP port range

ASSUME LifecycleAssumption ==
  /\ NoSession \notin Publishers \cup Subscribers
  /\ NoSession \notin [stream: Streams, offer: Offers]
  /\ Publishers \cap Subscribers = {}
  /\ PortCount \in Nat

VARIABLES
  byStream,     \* publishers_by_stream_id_: the session id, or NoSession
  publishers,   \* publishers_by_session_id_: stream and offer, or NoSession
  subscribers,  \* subscribers_by_session_id_: the stream, or NoStream
  leases,       \* sessions holding a udp_port_reservation
  silent,       \* sessions whose inactivity deadline has passed
  armed,        \* sessions whose inactivity_timer_ has a pending wait
  due           \* sessions with a queued completion of inactivity_timer_

registryVars == <<byStream, publishers, subscribers, leases>>
monitorVars == <<silent, armed, due>>
lifecycleVars == <<registryVars, monitorVars>>
allVars == <<vars, lifecycleVars>>

Sessions == Publishers \cup Subscribers

Registered == {p \in Publishers : publishers[p] # NoSession}
                \cup {s \in Subscribers : subscribers[s] # NoStream}

RegisteredOn(st) == {s \in Subscribers : subscribers[s] = st}

\* Every map and set has its type; in particular only a session that exists
\* has an activity deadline that has passed.
LifecycleTypeOK ==
  /\ TypeOK
  /\ byStream \in [Streams -> Publishers \cup {NoSession}]
  /\ publishers \in [Publishers -> [stream: Streams, offer: Offers] \cup {NoSession}]
  /\ subscribers \in [Subscribers -> Streams \cup {NoStream}]
  /\ leases \subseteq Sessions
  /\ silent \subseteq Registered
  /\ armed \subseteq Sessions
  /\ due \subseteq Sessions

LifecycleInit ==
  /\ Init
  /\ byStream = [st \in Streams |-> NoSession]
  /\ publishers = [p \in Publishers |-> NoSession]
  /\ subscribers = [s \in Subscribers |-> NoStream]
  /\ leases = {} /\ silent = {} /\ armed = {} /\ due = {}

\* Faulty: one port more than the range has.
PortAvailableOffByOne == Cardinality(leases) <= PortCount

\* reserve_udp_port succeeds.
PortAvailable == Cardinality(leases) < PortCount

\* The sessions of S are destroyed, with their port reservations and their
\* transports: timers are cancelled, queued completions find nothing.
Destroy(S) ==
  /\ silent' = silent \ S
  /\ armed' = armed \ S
  /\ due' = due \ S

\* start_inactivity_monitor of a new session x, the sessions of S ending.
Monitor(x, S) ==
  /\ silent' = silent \ (S \cup {x})
  /\ armed' = (armed \ S) \cup {x}
  /\ due' = due \ (S \cup {x})

-----------------------------------------------------------------------------
(* Publishers *)

\* The subscribers a new publisher with offer o costs the stream.
Dropped(st, o) == IF Incompatible(st, o) THEN RegisteredOn(st) ELSE {}

\* WHIP POST
CreatePublisher(p, st, o) ==
  /\ byStream[st] = NoSession
  /\ p \notin Registered
  /\ PortAvailable
  /\ byStream' = [byStream EXCEPT ![st] = p]
  /\ publishers' = [publishers EXCEPT ![p] = [stream |-> st, offer |-> o]]
  /\ subscribers' = [s \in Subscribers |->
                       IF s \in Dropped(st, o) THEN NoStream ELSE subscribers[s]]
  /\ leases' = (leases \ Dropped(st, o)) \cup {p}
  /\ Monitor(p, Dropped(st, o))
  /\ SetPublisherSource(st, p, o)

\* clear_publisher_source leaves the source of another session alone.
ClearPublisherSourceOf(st, p) ==
  IF source[st] # NoSource /\ source[st].session = p
  THEN ClearPublisherSource(st)
  ELSE UNCHANGED vars

\* remove_publisher_session, close() and clear_publisher_source
RemovePublisher(p) ==
  LET st == publishers[p].stream
  IN /\ byStream' = [byStream EXCEPT ![st] = NoSession]
     /\ publishers' = [publishers EXCEPT ![p] = NoSession]
     /\ leases' = leases \ {p}
     /\ Destroy({p})
     /\ ClearPublisherSourceOf(st, p)
     /\ UNCHANGED subscribers

\* WHIP DELETE, and the admin DELETE of a publisher session
DeletePublisher(p) ==
  /\ publishers[p] # NoSession
  /\ RemovePublisher(p)

\* The admin DELETE of a stream
DeleteStream(st) ==
  /\ byStream[st] # NoSession
  /\ RemovePublisher(byStream[st])

-----------------------------------------------------------------------------
(* Subscribers *)

\* WHEP POST
CreateSubscriber(s, st, A) ==
  /\ byStream[st] # NoSession
  /\ s \notin Registered
  /\ PortAvailable
  /\ publishers[byStream[st]].offer \in A
  /\ subscribers' = [subscribers EXCEPT ![s] = st]
  /\ leases' = leases \cup {s}
  /\ Monitor(s, {})
  /\ Subscribe(s, st, A)
  /\ UNCHANGED <<byStream, publishers>>

\* remove_subscriber_session and close()
RemoveSubscriber(s) ==
  /\ subscribers' = [subscribers EXCEPT ![s] = NoStream]
  /\ leases' = leases \ {s}
  /\ Destroy({s})
  /\ Unsubscribe(s)
  /\ UNCHANGED <<byStream, publishers>>

\* WHEP DELETE, and the admin DELETE of a subscriber session
DeleteSubscriber(s) ==
  /\ subscribers[s] # NoStream
  /\ RemoveSubscriber(s)

\* The recovery timer of s, which runs only without publisher.
RecoveryExpires(s) ==
  /\ RecoveryTimerExpires(s)
  /\ UNCHANGED lifecycleVars

\* Faulty: only the subscriber whose timer fired leaves the registry.
RecoveryTimeoutOne(s) ==
  /\ LET S == IF view[s].source = NoSource THEN {s} ELSE {}
     IN /\ subscribers' = [t \in Subscribers |->
                             IF t \in S THEN NoStream ELSE subscribers[t]]
        /\ leases' = leases \ S
        /\ Destroy(S)
  /\ HandleRecoveryTimeout(s)
  /\ UNCHANGED <<byStream, publishers>>

\* handle_publisher_recovery_timeout with the registry's part of the failure
\* handler, remove_subscriber_sessions_by_stream_id.
RecoveryTimeout(s) ==
  /\ LET S == IF view[s].source = NoSource THEN RegisteredOn(subscribers[s]) ELSE {}
     IN /\ subscribers' = [t \in Subscribers |->
                             IF t \in S THEN NoStream ELSE subscribers[t]]
        /\ leases' = leases \ S
        /\ Destroy(S)
  /\ HandleRecoveryTimeout(s)
  /\ UNCHANGED <<byStream, publishers>>

-----------------------------------------------------------------------------
(* The inactivity monitor *)

\* record_valid_inbound_activity, after the deadline had passed
Activity(x) ==
  /\ x \in Registered \cap silent
  /\ silent' = silent \ {x}
  /\ UNCHANGED <<vars, registryVars, armed, due>>

\* last_valid_inbound_activity_ + inactivity_timeout_ passes.
DeadlinePasses(x) ==
  /\ x \in Registered \ silent
  /\ silent' = silent \cup {x}
  /\ UNCHANGED <<vars, registryVars, armed, due>>

\* inactivity_timer_ expires, at the deadline as it was when it was armed.
InactivityTimerExpires(x) ==
  /\ x \in armed
  /\ armed' = armed \ {x}
  /\ due' = due \cup {x}
  /\ UNCHANGED <<vars, registryVars, silent>>

\* Faulty: the timer is not armed again.
InactivityDeferredForGood(x) ==
  /\ x \in due \ silent
  /\ due' = due \ {x}
  /\ UNCHANGED <<vars, registryVars, silent, armed>>

\* handle_inactivity_timeout before the deadline: schedule_inactivity_timeout
InactivityDeferred(x) ==
  /\ x \in due \ silent
  /\ due' = due \ {x}
  /\ armed' = armed \cup {x}
  /\ UNCHANGED <<vars, registryVars, silent>>

\* handle_inactivity_timeout past the deadline
PublisherInactivityTimeout(p) ==
  /\ p \in due \cap silent
  /\ RemovePublisher(p)

SubscriberInactivityTimeout(s) ==
  /\ s \in due \cap silent
  /\ RemoveSubscriber(s)

-----------------------------------------------------------------------------

LifecycleNext ==
  \/ \E p \in Publishers, st \in Streams, o \in Offers : CreatePublisher(p, st, o)
  \/ \E p \in Publishers : DeletePublisher(p) \/ PublisherInactivityTimeout(p)
  \/ \E st \in Streams : DeleteStream(st)
  \/ \E s \in Subscribers, st \in Streams, A \in SUBSET Offers :
        CreateSubscriber(s, st, A)
  \/ \E s \in Subscribers : \/ DeleteSubscriber(s)
                            \/ SubscriberInactivityTimeout(s)
                            \/ RecoveryExpires(s)
                            \/ RecoveryTimeout(s)
  \/ \E x \in Sessions : \/ Activity(x)
                         \/ DeadlinePasses(x)
                         \/ InactivityTimerExpires(x)
                         \/ InactivityDeferred(x)

LifecycleSpec == LifecycleInit /\ [][LifecycleNext]_allVars

\* Time passes, timers expire and io_context::run executes what is queued.
MonitorFairness ==
  /\ \A x \in Sessions : /\ WF_allVars(DeadlinePasses(x))
                         /\ WF_allVars(InactivityTimerExpires(x))
                         /\ WF_allVars(InactivityDeferred(x))
  /\ \A p \in Publishers : WF_allVars(PublisherInactivityTimeout(p))
  /\ \A s \in Subscribers : WF_allVars(SubscriberInactivityTimeout(s))

LifecycleFairSpec == LifecycleSpec /\ MonitorFairness

-----------------------------------------------------------------------------

\* The registry's two maps of publishers, by stream and by session, name the
\* same sessions: no stream is refused (409) for a publisher that is gone, and
\* no publisher is registered that its stream does not lead to.
RegistryMapsAgree ==
  \A p \in Publishers, st \in Streams :
    byStream[st] = p <=> publishers[p] # NoSession /\ publishers[p].stream = st

\* The media fan-out has a source for a stream exactly while the registry has a
\* publisher, and it is that publisher's session and offer: however a session
\* ends, it takes its own source along and never that of a later publisher.
SourceMatchesRegistry ==
  \A st \in Streams :
    IF byStream[st] = NoSession THEN source[st] = NoSource
    ELSE /\ source[st] # NoSource
         /\ source[st].session = byStream[st]
         /\ source[st].offer = publishers[byStream[st]].offer

\* The media fan-out forwards to exactly the registered subscribers, whichever
\* timeout, request or incompatible re-publication removed the others.
SubscriptionsMatchRegistry == subscriptions = subscribers

\* Every registered session is watched: its inactivity timer is pending or its
\* completion is queued, never neither, also right after a completion that
\* found the session active again.
SessionsAreWatched == Registered = armed \cup due

\* What the registry, the media fan-out and the handlers know of the sessions
\* is one and the same thing, after every way in which a session may begin or
\* end, and every session is watched.
RegistryAgrees ==
  LifecycleTypeOK /\ RegistryMapsAgree /\ SourceMatchesRegistry /\ SubscriptionsMatchRegistry /\ SessionsAreWatched

\* A port is reserved for exactly the registered sessions: none is lost with a
\* session that ended, and the range is never overbooked.
LeasesMatchSessions ==
  leases = Registered /\ Cardinality(leases) <= PortCount

\* A session that hears nothing from its peer any more is removed in the end,
\* and its port with it.
SilentSessionsEnd ==
  \A x \in Sessions :
    []<><<Activity(x)>>_allVars \/ []<>(x \notin Registered)
=============================================================================
