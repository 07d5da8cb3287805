------------------------------ MODULE Signaling ------------------------------
(***************************************************************************)
(* The signaling of one stream: the WHIP session that publishes it, a WHEP *)
(* session that plays it, the PATCH requests and connectivity checks of    *)
(* both.  Offers come from a fixed table.  A session keeps its runtime     *)
(* offer (only accepted sections), the answer it was given, the accepted   *)
(* indexes, its ICE credentials, the remote candidates and the nominated   *)
(* endpoint; a subscriber also the whole offer and its sources, from which *)
(* the rewriter configuration is made again for every publisher.           *)
(* When ports, transports and the registry act is the subject of           *)
(* SessionLifecycle and MediaFanout; here a new publisher reaches the      *)
(* subscriber within the step.                                             *)
(***************************************************************************)
EXTENDS SdpAnswer, TrickleIce, StunBinding

CONSTANTS
  Offers,      \* a name to a session description
  Requests,    \* the PATCH requests
  Trickling,   \* bound: the offers whose sessions receive PATCH requests and checks
  Credentials, \* the ICE credentials the server may generate
  Packets,     \* the STUN packets that arrive
  Endpoints    \* where they come from

\* The lists of a description are sequences, of extensions that are there.
ASSUME OffersAssumption ==
  \A name \in DOMAIN Offers :
    /\ IsSequence(Offers[name].media)
    /\ \A i \in DOMAIN Offers[name].media :
         LET m == Offers[name].media[i]
         IN  /\ IsSequence(m.formats) /\ IsSequence(m.rtpmaps) /\ IsSequence(m.fmtps) /\ IsSequence(m.feedbacks)
             /\ IsSequence(m.extensions) /\ None \notin Elements(m.extensions) /\ IsSequence(m.rids) /\ IsSequence(m.simulcast)
             /\ \A k \in DOMAIN m.fmtps : IsSequence(m.fmtps[k].fmtp)
             /\ \A k \in DOMAIN m.simulcast : IsSequence(m.simulcast[k]) /\
                  \A l \in DOMAIN m.simulcast[k] : IsSequence(m.simulcast[k][l].rids)

ASSUME RequestsAssumption == \A r \in Requests : IsSequence(r.body)

\* A password is generated for every session; credentials are a ufrag and it.
ASSUME CredentialsAssumption ==
  /\ \A local \in Credentials : local.pwd # None
  /\ \A a, b \in Credentials : a.ufrag = b.ufrag /\ a.pwd = b.pwd => a = b

ASSUME EndpointsAssumption == \A e \in Endpoints : e.family \in {"ipv4", "ipv6"}

VARIABLES
  publisher,   \* None or the WHIP session
  subscriber   \* None or the WHEP session

vars == <<publisher, subscriber>>

Init == publisher = None /\ subscriber = None

Summaries == [name \in DOMAIN Offers |-> OfferSummary(Offers[name])]

-----------------------------------------------------------------------------

\* The WHIP session made for an offer, Refused where the handler replies 400.
PublisherSession(name, local) ==
  AndThen(Summaries[name], LAMBDA offer :
    IF ~WhipOfferIsValid(offer) THEN Refused
    ELSE AndThen(WhipAnswer(offer), LAMBDA answer :
      AndThen(RuntimeOffer(offer, answer.accepted), LAMBDA runtime :
        [name |-> name, offer |-> runtime, answer |-> answer, accepted |-> answer.accepted,
         local |-> local, remote |-> <<>>, selected |-> None])))

\* The WHEP session made for an offer while publisherOffer is the offer the
\* publisher's session keeps.  original tells whether config is still the one
\* that was made together with the answer.
SubscriberSession(name, local, publisherOffer) ==
  AndThen(Summaries[name], LAMBDA offer :
    IF ~WhepOfferIsValid(offer) THEN Refused
    ELSE AndThen(WhepAnswer(offer, publisherOffer, OutboundSources(offer)), LAMBDA answer :
      AndThen(RuntimeOffer(offer, answer.accepted), LAMBDA runtime :
        AndThen(RewriterConfig(offer, answer.accepted, OutboundSources(offer), publisherOffer), LAMBDA config :
          [name |-> name, offer |-> runtime, answer |-> answer, accepted |-> answer.accepted,
           local |-> local, remote |-> <<>>, selected |-> None,
           target |-> offer, sources |-> OutboundSources(offer), config |-> config, original |-> TRUE]))))

\* A subscriber that the new publisher cannot feed is removed.
WithNewConfig(s, config) == IF config = Refused THEN None ELSE [s EXCEPT !.config = config, !.original = FALSE]

RebuildRtpRewriter(s, publisherOffer) ==
  IF s = None THEN None ELSE WithNewConfig(s, RewriterConfig(s.target, s.accepted, s.sources, publisherOffer))

\* Random credentials: no two live sessions have the same.
Fresh(local, other) == other # None => other.local # local

CreatePublisher(name, local) ==
  /\ publisher = None /\ Fresh(local, subscriber)
  /\ publisher' \in {PublisherSession(name, local)} \ {Refused}
  /\ subscriber' = RebuildRtpRewriter(subscriber, publisher'.offer)

\* Subscribers stay, without a mapping.
DeletePublisher ==
  /\ publisher # None
  /\ publisher' = None
  /\ subscriber' = IF subscriber = None THEN None ELSE [subscriber EXCEPT !.config = None]

CreateSubscriber(name, local) ==
  /\ subscriber = None /\ publisher # None /\ Fresh(local, publisher)
  /\ subscriber' \in {SubscriberSession(name, local, publisher.offer)} \ {Refused}
  /\ UNCHANGED publisher

\* DELETE, the inactivity timeout or the recovery timeout.
DeleteSubscriber ==
  /\ subscriber # None
  /\ subscriber' = None
  /\ UNCHANGED publisher

\* Bounds: the sessions under test, one at a time, and candidates or checks
\* but not both, for nothing in the code relates them.
Idle(s) == s # None => s.remote = <<>> /\ s.selected = None

MayTrickle(s, other) == Idle(other) /\ (s # None => s.name \in Trickling /\ s.selected = None)

MayCheck(s, other) == Idle(other) /\ s # None /\ s.name \in Trickling /\ s.remote = <<>>

PatchPublisher(r) ==
  /\ MayTrickle(publisher, subscriber)
  /\ publisher' = PatchResult(publisher, r).session
  /\ UNCHANGED subscriber

PatchSubscriber(r) ==
  /\ MayTrickle(subscriber, publisher)
  /\ subscriber' = PatchResult(subscriber, r).session
  /\ UNCHANGED publisher

Context(s) == [localUfrag |-> s.local.ufrag, localPwd |-> s.local.pwd, remoteUfrag |-> s.offer.ufrag]

\* A nominated endpoint replaces another only if the peer can be rebound.
AfterCheck(s, p, endpoint, rebound) ==
  IF StunBindingResult(p, endpoint, Context(s)).nominated /\ (rebound \/ s.selected \in {None, endpoint})
  THEN [s EXCEPT !.selected = endpoint] ELSE s

CheckPublisher(p, endpoint, rebound) ==
  /\ MayCheck(publisher, subscriber)
  /\ publisher' = AfterCheck(publisher, p, endpoint, rebound)
  /\ UNCHANGED subscriber

CheckSubscriber(p, endpoint, rebound) ==
  /\ MayCheck(subscriber, publisher)
  /\ subscriber' = AfterCheck(subscriber, p, endpoint, rebound)
  /\ UNCHANGED publisher

Next ==
  \/ \E name \in DOMAIN Offers, local \in Credentials : CreatePublisher(name, local) \/ CreateSubscriber(name, local)
  \/ DeletePublisher \/ DeleteSubscriber
  \/ \E r \in Requests : PatchPublisher(r) \/ PatchSubscriber(r)
  \/ \E p \in Packets, endpoint \in Endpoints, rebound \in BOOLEAN :
       CheckPublisher(p, endpoint, rebound) \/ CheckSubscriber(p, endpoint, rebound)

Spec == Init /\ [][Next]_vars

-----------------------------------------------------------------------------

\* The sections of a client's description that the server answers.
OfferedMedia(s) == Where(Offers[s.name].media, LAMBDA m : m.kind \in {"audio", "video"})

Accepted(s) == {i \in DOMAIN s.answer.media : s.answer.media[i].port # 0}

\* The names the client gave a payload type of a section.
NamesOf(o, pt) == {o.rtpmaps[i].name : i \in {j \in DOMAIN o.rtpmaps : o.rtpmaps[j].pt = pt}}

IsPrimary(o, pt) == NamesOf(o, pt) \cap {"opus", "vp8", "h264"} # {}

\* An RTX payload type whose parameters name an accepted one.
IsRepair(o, pt, formats) ==
  /\ "rtx" \in NamesOf(o, pt)
  /\ \E i \in DOMAIN o.fmtps : o.fmtps[i].pt = pt /\
       \E k \in DOMAIN o.fmtps[i].fmtp : o.fmtps[i].fmtp[k].key = "apt" /\ o.fmtps[i].fmtp[k].value \in Elements(formats)

\* The client describes a payload type once.
DescribedOnce(o) == Distinct([i \in DOMAIN o.rtpmaps |-> o.rtpmaps[i].pt])

\* The extension that carries RIDs can be answered: its id fits in one byte,
\* or mixed headers are offered (o of d, or all of d).
RidIsCarried(d, o) ==
  \A x \in {y \in Elements(o.extensions) : y.uri = "rid"} : NeedsTwoBytes(x.id) => d.mixed \/ o.mixed

\* One accepted section of an answer against the section o of the client's
\* description d.
SectionFits(d, o, a, direction) ==
  /\ a.direction = direction /\ "inactive" \notin o.directions
  /\ DescribedOnce(o) => Distinct(a.formats)
  /\ \A pt \in Elements(a.formats) : IsPrimary(o, pt) \/ IsRepair(o, pt, a.formats)
  /\ \E pt \in Elements(a.formats) : IsPrimary(o, pt)
  /\ Elements(a.extensions) \subseteq Elements(o.extensions)
  /\ \A f \in Elements(a.feedback) : f[1] \in Elements(a.formats) /\
       \E i \in DOMAIN o.feedbacks : o.feedbacks[i].value = f[2] /\ (o.feedbacks[i].all \/ o.feedbacks[i].pt = f[1])
  /\ Elements(a.rids) \subseteq {o.rids[i].id : i \in {j \in DOMAIN o.rids :
                                    o.rids[j].direction = IF direction = "recvonly" THEN "send" ELSE "recv"}}
  /\ RidIsCarried(d, o) /\ a.rids # <<>> => \E x \in Elements(a.extensions) : x.uri = "rid"

AnswerFits(s, direction) ==
  LET offered == OfferedMedia(s)
      answered == s.answer.media
      mids == [i \in DOMAIN s.accepted |-> answered[s.accepted[i] + 1].mid]
  IN  /\ Len(answered) = Len(offered)
      /\ \A i \in DOMAIN answered :
           /\ answered[i].mid = offered[i].mid /\ answered[i].kind = offered[i].kind
           /\ Elements(answered[i].formats) \subseteq Elements(offered[i].formats)
           /\ i \in Accepted(s) => SectionFits(Offers[s.name], offered[i], answered[i], direction)
      /\ Elements(s.accepted) = {i - 1 : i \in Accepted(s)}
      /\ s.answer.bundle = mids /\ Distinct(mids)
      /\ Elements(mids) \subseteq Elements(BundleMids(Offers[s.name]))
      /\ [i \in DOMAIN s.offer.media |-> s.offer.media[i].mid] = mids

\* Every answer is one the client can apply to what it sent: the sections are
\* those of the offer in their order, a rejected one keeps the offered formats,
\* an accepted one uses only offered payload types, extensions, feedback and
\* RIDs, repairs only what it also accepts, and the BUNDLE group and the offer
\* that the session keeps name exactly the accepted sections
\* (build_whip_answer_sdp, build_whep_answer_sdp, make_offer_summary).
AnswerFitsOffer ==
  /\ publisher # None => AnswerFits(publisher, "recvonly")
  /\ subscriber # None => AnswerFits(subscriber, "sendonly")

\* The i-th accepted section of a subscriber against its rewriter mapping and
\* the publisher's section it is fed from.
SectionIsFed(s, i) ==
  LET answered == s.answer.media[s.accepted[i] + 1]
      offered == OfferedMedia(s)[s.accepted[i] + 1]
      mapping == s.config[i]
      from == CHOOSE k \in DOMAIN publisher.answer.media : publisher.answer.media[k].mid = mapping.sourceMid
      source == OfferedMedia(publisher)[from]
      primaries == {k \in DOMAIN mapping.payloads : ~mapping.payloads[k].rtx}
      uris == {x.uri : x \in Elements(answered.extensions)} \ {"transport-cc"}
  IN  /\ mapping.targetMid = answered.mid /\ mapping.ssrc = answered.source
      /\ from \in Accepted(publisher) /\ source.kind = answered.kind
      /\ {mapping.payloads[k].target : k \in DOMAIN mapping.payloads} = Elements(answered.formats)
      /\ \A k \in DOMAIN mapping.payloads : LET p == mapping.payloads[k] IN
           /\ NamesOf(source, p.source) \cap NamesOf(offered, p.target) # {}
           /\ IF p.rtx
              THEN ~p.nack /\ \E j \in primaries : mapping.payloads[j].target = p.apt /\ mapping.payloads[j].source = p.sourceApt
              ELSE DescribedOnce(offered) /\ answered.kind = "video" =>
                     (p.nack <=> <<p.target, "nack">> \in Elements(answered.feedback))
      /\ \A k \in primaries : mapping.payloads[k].source \in Elements(publisher.answer.media[from].formats)
      /\ {<<x.uri, x.target>> : x \in Elements(mapping.extensions)} =
           {<<x.uri, x.id>> : x \in {y \in Elements(answered.extensions) : y.uri \in uris}}
      /\ \A x \in Elements(mapping.extensions) : \E k \in DOMAIN source.extensions :
           source.extensions[k].id = x.source /\ source.extensions[k].uri = x.uri

\* No two sections of a subscriber are fed from one section of the publisher.
SourcesDiffer(s) == Distinct([i \in DOMAIN s.config |-> s.config[i].sourceMid])

\* The mapping agrees with the answer, section by section.
MappingAgrees(s) ==
  /\ Len(s.config) = Len(s.accepted) /\ SourcesDiffer(s)
  /\ \A i \in DOMAIN s.accepted : SectionIsFed(s, i)

\* While the publisher stays, the mapping is the one made with the answer.
AnswerIsMapped ==
  subscriber # None =>
    IF publisher = None THEN subscriber.config = None ELSE subscriber.original => MappingAgrees(subscriber)

\* An offer that describes its payload types once and can be answered is not
\* refused for its mapping.
AnswerCanBeMapped ==
  publisher # None /\ subscriber = None =>
    \A name \in {x \in DOMAIN Offers : \A o \in Elements(Offers[x].media) : DescribedOnce(o)} :
      \A offer \in {Summaries[name]} \ {Refused} : WhepOfferIsValid(offer) =>
        \A answer \in {WhepAnswer(offer, publisher.offer, OutboundSources(offer))} \ {Refused} :
          RewriterConfig(offer, answer.accepted, OutboundSources(offer), publisher.offer) # Refused

\* Answer and RTP mapping are two computations of one negotiation: while the
\* publisher stays, every payload type of the answer and none besides is fed
\* from a payload type of the same codec that the publisher was told to use;
\* extension ids and repairs are those of the answer, and so is NACK support of
\* a video section (in an audio section the mapping takes the NACK the client
\* offered, which no answer confirms).  And an offer that describes its
\* payload types once and can be answered is never refused for its mapping
\* (build_whep_answer_sdp, make_whep_rtp_rewriter_config).
MappingFitsAnswer == AnswerIsMapped /\ AnswerCanBeMapped

\* A subscriber outlives its publisher "so that it can go on being used after
\* the stream is published again": what the mapping for the new publisher sends
\* has to be in the answer that the client still has (rebuild_rtp_rewriter).
MappingStaysAnswered ==
  publisher # None /\ subscriber # None =>
    \A i \in DOMAIN subscriber.accepted : \A p \in Elements(subscriber.config[i].payloads) :
      p.rtx \/ p.target \in Elements(subscriber.answer.media[subscriber.accepted[i] + 1].formats)

\* The client's answer names the section of the candidate as accepted.
NamesAccepted(s, c) == \E i \in Accepted(s) : i - 1 = c.mline /\ s.answer.media[i].mid = c.mid

\* The candidates a session holds are distinct, belong to accepted sections of
\* its answer, at most one end of candidates comes last, and the limit is kept,
\* whatever the order of PATCH requests, partly refused ones and repeated ones
\* included (add_remote_ice_candidate, handle_trickle_ice_patch_request).
CandidatesAreSound ==
  \A s \in {publisher, subscriber} \ {None} :
    /\ Distinct(s.remote)
    /\ \A i \in DOMAIN s.remote : NamesAccepted(s, s.remote[i]) /\ (IsEnd(s.remote[i]) => i = Len(s.remote))
    /\ Cardinality({i \in DOMAIN s.remote : ~IsEnd(s.remote[i])}) <= MaxCandidates

\* A client that gets 204 knows that all its candidates for accepted sections
\* are kept, and may repeat the request when the reply was lost; a refused one
\* leaves what was there and adds at most candidates of the request
\* (handle_trickle_ice_patch_request).
PatchesAreKept ==
  \A s \in {publisher, subscriber} \ {None} : \A r \in Requests :
    \A result \in {PatchSession(s, r)} :
      LET sent == UNION {Elements(body.candidates) : body \in {ParsedFragment(r.body)} \ {Refused}}
          kept == Elements(result.session.remote)
      IN  /\ IsPrefix(s.remote, result.session.remote) /\ kept \subseteq Elements(s.remote) \cup sent
          /\ result.status = 204 =>
               /\ \A c \in sent : NamesAccepted(s, c) => c \in kept \/ (IsEnd(c) /\ Completed(result.session))
               /\ PatchSession(result.session, r) = result

\* A check as a client writes it, from the RFC: all digests over their prefix.
ClientCheck(context, nominate, fingerprint) ==
  LET own == <<[type |-> "username", size |-> 3, value |-> <<[size |-> 1, text |-> context.localUfrag],
                                                             [size |-> 1, text |-> context.remoteUfrag]>>],
               [type |-> "priority", size |-> 4, value |-> 7], [type |-> "ice-controlling", size |-> 8, value |-> 0]>>
             \o IF nominate THEN <<[type |-> "use-candidate", size |-> 0, value |-> 0]>> ELSE <<>>
      head(length, attributes) == [method |-> "binding", class |-> "request", transaction |-> "t", length |-> length,
                                   attributes |-> attributes]
      size == TotalSize(own) + 24
      signed == Append(own, [type |-> "message-integrity", size |-> 20,
                             value |-> [key |-> context.localPwd, of |-> head(size, own)]])
      total == IF fingerprint THEN size + 8 ELSE size
  IN  [header |-> TRUE, bits |-> 0, cookie |-> TRUE, method |-> "binding", class |-> "request", transaction |-> "t",
       length |-> total, bytes |-> total,
       attributes |-> IF fingerprint
                      THEN Append(signed, [type |-> "fingerprint", size |-> 4, value |-> [of |-> head(total, signed)]])
                      ELSE signed]

\* The client takes a reply that has its transaction, both digests right, and
\* its own address under the mask of the transaction.
ClientTakes(reply, transaction, endpoint, key) ==
  LET address == ValueOf(reply, "xor-mapped-address")
  IN  /\ ParsedMessage(reply) # Refused /\ reply.class = "success" /\ reply.transaction = transaction
      /\ IntegrityIsRight(reply, key) /\ FingerprintIsRight(reply)
      /\ address.of = endpoint
      /\ address.mask = IF endpoint.family = "ipv6" THEN <<"cookie", transaction>> ELSE <<"cookie">>

\* Every proper check for a session that comes from a port is answered, with a
\* reply the client takes, and nominates when it says so
\* (handle_session_stun_binding, write_stun_binding_success_response).
ClientChecksAreAnswered ==
  \A s \in {publisher, subscriber} \ {None} : \A endpoint \in {e \in Endpoints : e.port # 0} :
    \A nominate, fingerprint \in BOOLEAN :
      \A result \in {StunBindingResult(ClientCheck(Context(s), nominate, fingerprint), endpoint, Context(s))} :
        /\ result.response # Refused /\ result.nominated = nominate
        /\ ClientTakes(result.response, "t", endpoint, s.local.pwd)

\* And a packet that is none, or names other credentials (another session of
\* the stream, or one that is gone), neither gets a reply nor nominates.
OthersAreDropped ==
  \A s \in {publisher, subscriber} \ {None} : \A endpoint \in Endpoints : \A p \in Packets :
    StunBindingResult(p, endpoint, Context(s)).response # Refused =>
      \E nominate, fingerprint \in BOOLEAN : p = ClientCheck(Context(s), nominate, fingerprint)

\* Proper checks are answered, and no other packets
\* (handle_session_stun_binding, write_stun_binding_success_response).
ChecksAreAnswered == ClientChecksAreAnswered /\ OthersAreDropped
=============================================================================
