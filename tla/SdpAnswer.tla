----------------------------- MODULE SdpAnswer -----------------------------
(***************************************************************************)
(* The SDP answer (sdp_answer_builder.cpp) and the RTP rewriter            *)
(* configuration that belongs to it (make_whep_rtp_rewriter_config).  Both *)
(* pair a subscriber's section with the publisher's section of the same    *)
(* kind and ordinal.  Section indexes count from 0 as in the code.         *)
(***************************************************************************)
EXTENDS CodecNegotiation

AnswerDirection(isWhep, m) ==
  IF m.direction = "inactive" THEN "inactive" ELSE IF isWhep THEN "sendonly" ELSE "recvonly"

SendCapable(offer, kind) == Where(offer.media, LAMBDA m : m.kind = kind /\ CanSend(m))

ReceiveCapable(offer, kind) == Where(offer.media, LAMBDA m : m.kind = kind /\ CanReceive(m))

\* Position of m among the sections the subscriber can receive; mids are unique.
ReceiveOrdinal(offer, m) ==
  LET own == ReceiveCapable(offer, m.kind) IN CHOOSE i \in DOMAIN own : own[i].mid = m.mid

\* Publisher and subscriber name their sections independently: sections are
\* matched by kind and ordinal, and only when both have as many.
ForwardedMedia(m, offer, publisher) ==
  LET sources == SendCapable(publisher, m.kind)
  IN  IF CanReceive(m) /\ Len(ReceiveCapable(offer, m.kind)) = Len(sources)
      THEN sources[ReceiveOrdinal(offer, m)] ELSE None

-----------------------------------------------------------------------------

\* The direction of the first RID of that name decides.
RidCan(m, rid, direction) ==
  LET own == First(m.rids, LAMBDA x : x.id = rid) IN rid # "" /\ own # None /\ own.direction = direction

FeedbackIsSupported(kind, feedback, nack, transportCc) ==
  \/ transportCc /\ feedback = "transport-cc"
  \/ kind = "video" /\ (feedback \in {"nack pli", "ccm fir"} \/ (nack /\ feedback = "nack"))

ExtensionIsSupported(kind, uri, transportCc) ==
  \/ transportCc /\ uri = "transport-cc"
  \/ uri = "mid"
  \/ uri = "rid" /\ kind = "video"
  \/ uri = "audio-level" /\ kind = "audio"

NeedsTwoBytes(id) == id \in 15..255

\* The offered extensions the answer keeps, with the ids of the offer.
AnswerExtensions(m, forwarded, transportCc) ==
  Where(m.extensions,
        LAMBDA x : /\ x.id \in 1..255 /\ ExtensionIsSupported(m.kind, x.uri, transportCc)
                   /\ forwarded # None /\ x.uri # "transport-cc" => HasExtension(forwarded, x.uri)
                   /\ NeedsTwoBytes(x.id) => m.mixed)

WithoutRepeats(s) == Picked(s, {i \in DOMAIN s : s[i] \notin {s[j] : j \in 1..(i - 1)}})

WhepSimulcastRids(m, publisher) ==
  IF /\ m.kind = "video" /\ m.simulcast # None /\ publisher.simulcast # None
     /\ HasExtension(m, "rid") /\ HasExtension(publisher, "rid")
  THEN WithoutRepeats(Where(m.simulcast.recv,
                            LAMBDA rid : /\ RidCan(m, rid, "recv") /\ RidCan(publisher, rid, "send")
                                         /\ rid \in Elements(publisher.simulcast.send)))
  ELSE <<>>

WhipSimulcastRids(m) ==
  IF m.kind = "video" /\ m.simulcast # None /\ HasExtension(m, "rid")
  THEN WithoutRepeats(Where(m.simulcast.send, LAMBDA rid : RidCan(m, rid, "send")))
  ELSE <<>>

\* An extension the peer uses in the direction of the media, and feedback on
\* some codec of the answer.
OffersTransportCc(m, codecs, remoteSends) ==
  /\ \E i \in DOMAIN m.extensions :
       /\ m.extensions[i].uri = "transport-cc"
       /\ m.extensions[i].direction \in {None, "sendrecv", IF remoteSends THEN "sendonly" ELSE "recvonly"}
  /\ \E i \in DOMAIN codecs : "transport-cc" \in Elements(codecs[i].feedback)

UsableRtx(codecs) ==
  \E i, j \in DOMAIN codecs :
    codecs[i].name = "rtx" /\ codecs[i].clock = 90000 /\ codecs[j].name # "rtx" /\ Apt(codecs[i]) = codecs[j].pt

\* Supported feedback of every codec, each once per payload type.
AnswerFeedback(kind, codecs, nack, transportCc) ==
  LET supported(c) == WithoutRepeats(Where(c.feedback, LAMBDA f : FeedbackIsSupported(kind, f, nack, transportCc)))
  IN  FlattenSeq([i \in DOMAIN codecs |->
                   [k \in DOMAIN supported(codecs[i]) |-> <<codecs[i].pt, supported(codecs[i])[k]>>]])

RejectedMedia(m) ==
  [kind |-> m.kind, mid |-> m.mid, port |-> 0, direction |-> "inactive", formats |-> m.formats,
   extensions |-> <<>>, mixed |-> FALSE, rids |-> <<>>, codecs |-> <<>>, feedback |-> <<>>,
   ptime |-> <<>>, msid |-> None, source |-> None, repair |-> None]

\* The source announced for a section: its own, else the forwarded section's,
\* else the only one of its kind.
AnswerSource(sources, m, forwarded) ==
  LET of(x) == First(sources, LAMBDA s : s.mid = x.mid /\ s.kind = x.kind)
      same == Where(sources, LAMBDA s : s.kind = m.kind)
  IN  IF of(m) # None THEN of(m)
      ELSE IF forwarded # None /\ of(forwarded) # None THEN of(forwarded)
      ELSE IF Len(same) = 1 THEN same[1] ELSE None

\* forwarded is None for WHIP, whose answer has no generic NACK.
AcceptedMedia(m, forwarded, sources, codecs) ==
  LET isWhep == forwarded # None
      transportCc == OffersTransportCc(m, codecs, ~isWhep)
      extensions == AnswerExtensions(m, forwarded, transportCc)
      source == IF isWhep THEN AnswerSource(sources, m, forwarded) ELSE None
  IN  [kind |-> m.kind, mid |-> m.mid, port |-> 9, direction |-> AnswerDirection(isWhep, m),
       formats |-> [i \in DOMAIN codecs |-> codecs[i].pt],
       extensions |-> extensions,
       mixed |-> \E i \in DOMAIN extensions : NeedsTwoBytes(extensions[i].id),
       rids |-> IF isWhep THEN WhepSimulcastRids(m, forwarded) ELSE WhipSimulcastRids(m),
       codecs |-> codecs,
       feedback |-> AnswerFeedback(m.kind, codecs, isWhep, transportCc),
       ptime |-> IF m.kind = "audio" THEN m.ptime \o m.maxptime ELSE <<>>,
       msid |-> IF isWhep THEN forwarded.mid ELSE None,
       source |-> IF source = None THEN None ELSE source.ssrc,
       repair |-> IF source # None /\ UsableRtx(codecs) THEN source.rtx ELSE None]

OrRejected(answered, m) == IF answered = Refused THEN RejectedMedia(m) ELSE answered

\* An answer to WHIP has no RTX.
WhipAnswerMedia(m) ==
  OrRejected(IF m.direction = "inactive" THEN Refused
             ELSE AndThen(NegotiatedForOffer(m),
                          LAMBDA codecs : AcceptedMedia(m, None, <<>>, Where(codecs, LAMBDA c : c.name # "rtx"))), m)

WhepAnswerMedia(m, offer, publisher, sources) ==
  OrRejected(IF m.direction = "inactive" THEN Refused
             ELSE AndThen(Required(ForwardedMedia(m, offer, publisher)), LAMBDA forwarded :
                    AndThen(NegotiatedForRelay(m, forwarded), LAMBDA codecs : AcceptedMedia(m, forwarded, sources, codecs))), m)

\* Refused when no section is accepted; the BUNDLE group of the answer names
\* the accepted ones.
Answer(media) ==
  LET accepted == Where([i \in DOMAIN media |-> i - 1], LAMBDA index : media[index + 1].port # 0)
  IN  IF accepted = <<>> THEN Refused
      ELSE [media |-> media, accepted |-> accepted, bundle |-> [i \in DOMAIN accepted |-> media[accepted[i] + 1].mid]]

WhipAnswer(offer) == Answer([i \in DOMAIN offer.media |-> WhipAnswerMedia(offer.media[i])])

WhepAnswer(offer, publisher, sources) ==
  Answer([i \in DOMAIN offer.media |-> WhepAnswerMedia(offer.media[i], offer, publisher, sources)])

-----------------------------------------------------------------------------

\* One SSRC for every section and one more for the repairs of a video section.
OutboundSources(offer) ==
  [i \in DOMAIN offer.media |->
    [mid |-> offer.media[i].mid, kind |-> offer.media[i].kind, ssrc |-> 2 * i,
     rtx |-> IF offer.media[i].kind = "video" THEN 2 * i + 1 ELSE None]]

SupportsNack(c) == "nack" \in Elements(c.feedback)

\* RTX mappings are left out of a section without a repair SSRC.
PayloadMappings(m, codecs, forwarded, source) ==
  LET codec(x) == ByPayloadType(m.codecs, IF x.apt = None THEN x.target ELSE x.apt)
      mapping(x) == IF codec(x) = None \/ codec(x).clock = 0 THEN Refused
                    ELSE [source |-> x.source, target |-> x.target, rtx |-> x.apt # None,
                          sourceApt |-> x.sourceApt, apt |-> x.apt, clock |-> codec(x).clock,
                          nack |-> x.apt = None /\ SupportsNack(codec(x))]
  IN  AndThen(PayloadTypeMappings(codecs, forwarded),
              LAMBDA mappings : MapAll(Where(mappings, LAMBDA x : x.apt = None \/ source.rtx # None), mapping))

\* Each extension of the answer with the id it has at the publisher; the
\* transport-wide sequence number is the transport's own.
ExtensionMappings(m, codecs, forwarded) ==
  LET selected == AnswerExtensions(m, forwarded, OffersTransportCc(m, codecs, FALSE))
      sourceOf(x) == First(forwarded.extensions, LAMBDA y : y.id \in 1..255 /\ y.uri = x.uri)
  IN  MapAll(Where(selected, LAMBDA x : x.uri # "transport-cc"),
             LAMBDA x : IF sourceOf(x) = None THEN Refused
                        ELSE [source |-> sourceOf(x).id, target |-> x.id, uri |-> x.uri])

MediaMapping(m, offer, publisher, source) ==
  IF source.mid # m.mid \/ source.kind # m.kind THEN Refused
  ELSE AndThen(Required(ForwardedMedia(m, offer, publisher)), LAMBDA forwarded :
         AndThen(NegotiatedForRelay(m, forwarded), LAMBDA codecs :
           AndThen(PayloadMappings(m, codecs, forwarded, source), LAMBDA payloads :
             AndThen(ExtensionMappings(m, codecs, forwarded), LAMBDA extensions :
               IF ~\E i \in DOMAIN payloads : ~payloads[i].rtx THEN Refused
               ELSE [sourceMid |-> forwarded.mid, targetMid |-> m.mid, ssrc |-> source.ssrc,
                     payloads |-> payloads, extensions |-> extensions]))))

RewriterConfig(offer, accepted, sources, publisher) ==
  MapAll(accepted, LAMBDA index : MediaMapping(offer.media[index + 1], offer, publisher, sources[index + 1]))
=============================================================================
