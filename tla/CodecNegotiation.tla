-------------------------- MODULE CodecNegotiation --------------------------
(***************************************************************************)
(* Codec negotiation: which codecs of an offered section the server can    *)
(* answer, alone (WHIP) or relayed from a publisher (WHEP), with the H.264 *)
(* and Opus format parameters, and the payload type mappings that the RTP  *)
(* rewriter later uses.  An fmtp is the sequence of its key and value      *)
(* pairs; a profile-level-id is the triple of its bytes.                   *)
(***************************************************************************)
EXTENDS SdpOffer

Bit(n, b) == (n \div b) % 2 = 1

\* Value of the last parameter with this key, None without one.
LastParameter(fmtp, key) ==
  LET own == Where(fmtp, LAMBDA p : p.key = key)
  IN  IF own = <<>> THEN None ELSE own[Len(own)].value

-----------------------------------------------------------------------------
(* h264_fmtp_compat.cpp *)

ProfileKind(id) ==
  CASE id[1] = 66 -> IF Bit(id[2], 64) THEN "constrained_baseline" ELSE "baseline"
    [] id[1] = 77 -> IF Bit(id[2], 128) THEN "constrained_baseline" ELSE "main"
    [] id[1] = 88 /\ Bit(id[2], 128) /\ Bit(id[2], 64) -> "constrained_baseline"
    [] id[1] = 100 -> IF Bit(id[2], 8) /\ Bit(id[2], 4) THEN "constrained_high" ELSE "high"
    [] OTHER -> "unknown"

ProfileIsValid(id) == \A i \in 1..3 : id[i] \in 0..255 /\ ProfileKind(id) # "unknown"

BaselineFamily == {"baseline", "constrained_baseline"}

HighFamily == {"high", "constrained_high"}

ProfilesAreAnswerCompatible(offer, local) ==
  offer = local \/ {offer, local} \subseteq BaselineFamily \/ {offer, local} \subseteq HighFamily

PublisherProfileIsDecodable(publisher, subscriber) ==
  \/ publisher = subscriber
  \/ publisher = "constrained_baseline" /\ subscriber \in BaselineFamily
  \/ publisher = "constrained_high" /\ subscriber \in HighFamily

\* Level 1b is level 11 with constraint bit 0x10, and ranks below it.
LevelRank(id) == IF id[3] = 11 /\ Bit(id[2], 16) THEN 9 ELSE id[3]

DefaultProfile == <<66, 224, 31>>

\* The local profile, constrained when either side is, with the offered level
\* where levels must be equal and it is the lower.
SelectedProfile(offer, local, asymmetric) ==
  LET kinds == {offer.kind, local.kind}
      level == IF ~asymmetric /\ LevelRank(offer.profile) < LevelRank(local.profile) THEN offer.profile[3] ELSE local.profile[3]
  IN  IF kinds \subseteq BaselineFamily /\ "constrained_baseline" \in kinds THEN <<66, 224, level>>
      ELSE IF kinds \subseteq HighFamily /\ "constrained_high" \in kinds THEN <<100, 12, level>>
      ELSE [local.profile EXCEPT ![3] = level]

\* No packetization-mode counts as mode 1, the only one supported.
PacketizationModeIsSupported(h264) == h264.mode \in {None, 1}

H264ParameterIsValid(p) ==
  CASE p.key = "packetization-mode" -> p.value \in 0..255
    [] p.key = "level-asymmetry-allowed" -> p.value \in 0..1
    [] p.key = "profile-level-id" -> ProfileIsValid(p.value)
    [] OTHER -> TRUE

ProfileKindOrNone(profile) == IF profile = None THEN None ELSE ProfileKind(profile)

H264Fmtp(fmtp) ==
  IF \A i \in DOMAIN fmtp : H264ParameterIsValid(fmtp[i])
  THEN [mode |-> LastParameter(fmtp, "packetization-mode"),
        asymmetric |-> LastParameter(fmtp, "level-asymmetry-allowed") = 1,
        profile |-> LastParameter(fmtp, "profile-level-id"),
        kind |-> ProfileKindOrNone(LastParameter(fmtp, "profile-level-id"))]
  ELSE Refused

WithDefaultProfile(h264) ==
  IF h264.profile = None THEN [h264 EXCEPT !.profile = DefaultProfile, !.kind = "constrained_baseline"] ELSE h264

AnswerFmtp(profile, asymmetric) ==
  <<[key |-> "level-asymmetry-allowed", value |-> IF asymmetric THEN 1 ELSE 0],
    [key |-> "packetization-mode", value |-> 1],
    [key |-> "profile-level-id", value |-> profile]>>

\* As H264Fmtp reads it.
LocalH264Fmtp == [mode |-> 1, asymmetric |-> TRUE, profile |-> DefaultProfile, kind |-> "constrained_baseline"]

\* offer and local are parsed, and have a profile.
NegotiatedH264(offer, local) ==
  LET asymmetric == offer.asymmetric /\ local.asymmetric
  IN  IF PacketizationModeIsSupported(offer) /\ ProfilesAreAnswerCompatible(offer.kind, local.kind)
      THEN AnswerFmtp(SelectedProfile(offer, local, asymmetric), asymmetric) ELSE Refused

NegotiatedH264Fmtp(fmtp) ==
  AndThen(H264Fmtp(fmtp), LAMBDA offer : NegotiatedH264(WithDefaultProfile(offer), LocalH264Fmtp))

\* p and s are the parsed parameters of publisher and subscriber.
H264IsDecodable(p, s) ==
  /\ p # Refused /\ s # Refused
  /\ PacketizationModeIsSupported(p) /\ PacketizationModeIsSupported(s)
  /\ p.profile # None /\ s.profile # None =>
       /\ PublisherProfileIsDecodable(p.kind, s.kind)
       /\ LevelRank(p.profile) <= LevelRank(s.profile)

H264RelayIsCompatible(publisher, subscriber) == H264IsDecodable(H264Fmtp(publisher), H264Fmtp(subscriber))

-----------------------------------------------------------------------------
(* sdp_codec_negotiator.cpp *)

ChannelsAreOpus(c) == c.params \in {"", "2"}

IsOpus(c) == c.name = "opus" /\ c.clock = 48000 /\ ChannelsAreOpus(c)

IsVp8(c) == c.name = "vp8" /\ c.clock = 90000

IsRtx(c) == c.name = "rtx" /\ c.clock = 90000

\* The payload type an RTX codec repairs: the first apt parameter, if valid.
Apt(c) ==
  LET p == First(c.fmtp, LAMBDA q : q.key = "apt")
  IN  IF p = None THEN None ELSE IF PayloadTypeIsValid(p.value) THEN p.value ELSE None

\* And its parameters can be negotiated, which NormalizedFmtp finds out.
IsH264(c) == c.name = "h264" /\ c.clock = 90000

IsSupported(kind, c) == IF kind = "audio" THEN IsOpus(c) ELSE IsVp8(c) \/ IsH264(c)

OpusBooleans == {"useinbandfec", "usedtx", "stereo", "sprop-stereo", "cbr"}

OpusRange(key) ==
  CASE key \in OpusBooleans -> 0..1
    [] key = "minptime" -> 3..120
    [] key \in {"maxplaybackrate", "sprop-maxcapturerate"} -> 8000..48000
    [] key = "maxaveragebitrate" -> 6000..510000

OpusKeys == <<"minptime", "useinbandfec", "usedtx", "stereo", "sprop-stereo",
              "maxplaybackrate", "sprop-maxcapturerate", "maxaveragebitrate", "cbr">>

\* Unknown parameters are dropped; a known one twice or out of range refuses
\* the codec.
NormalizedOpusFmtp(fmtp) ==
  LET known == Where(OpusKeys, LAMBDA key : \E i \in DOMAIN fmtp : fmtp[i].key = key)
  IN  IF \/ \E i, j \in DOMAIN fmtp : i # j /\ fmtp[i].key = fmtp[j].key /\ fmtp[i].key \in Elements(OpusKeys)
         \/ \E i \in DOMAIN fmtp : fmtp[i].value = None
         \/ \E key \in Elements(known) : LastParameter(fmtp, key) \notin OpusRange(key)
      THEN Refused
      ELSE [i \in DOMAIN known |-> [key |-> known[i], value |-> LastParameter(fmtp, known[i])]]

NormalizedFmtp(kind, c) ==
  IF kind = "audio" THEN NormalizedOpusFmtp(c.fmtp) ELSE IF IsVp8(c) THEN c.fmtp ELSE NegotiatedH264Fmtp(c.fmtp)

NormalizedCodec(kind, c) ==
  IF IsSupported(kind, c) THEN AndThen(NormalizedFmtp(kind, c), LAMBDA fmtp : [c EXCEPT !.fmtp = fmtp]) ELSE Refused

\* The rank of a supported codec.
PreferenceRank(c) == IF IsOpus(c) \/ IsVp8(c) THEN 0 ELSE 10

\* A stable sort.
SortedByPreference(codecs) ==
  Where(codecs, LAMBDA c : PreferenceRank(c) = 0) \o Where(codecs, LAMBDA c : PreferenceRank(c) = 10)

\* publisher is a supported codec.
CodecsAreCompatible(publisher, subscriber) ==
  /\ publisher.name = subscriber.name /\ publisher.clock = subscriber.clock
  /\ publisher.params = "" \/ subscriber.params = "" \/ publisher.params = subscriber.params
  /\ IsH264(publisher) => H264RelayIsCompatible(publisher.fmtp, subscriber.fmtp)

\* Faulty: the payload type of the subscriber is looked up at the publisher.
CompatiblePublisherCodecByNumber(publisher, codec) ==
  First(publisher.codecs, LAMBDA p : p.pt = codec.pt)

\* The first codec of the publisher that this subscriber codec can be fed from.
CompatiblePublisherCodec(publisher, codec) ==
  First(publisher.codecs,
        LAMBDA p : /\ p.pt \in Elements(publisher.formats) /\ ~IsRtx(p)
                   /\ \E normalized \in {NormalizedCodec(publisher.kind, p)} \ {Refused} : CodecsAreCompatible(normalized, codec))

RtxForApt(media, pt) ==
  First(media.codecs, LAMBDA c : c.pt \in Elements(media.formats) /\ IsRtx(c) /\ Apt(c) = pt)

ByPayloadType(codecs, pt) == First(codecs, LAMBDA c : c.pt = pt)

\* Selected is the list so far: an RTX codec can follow one it repairs.
RtxIsAnswerable(subscriber, publisher, rtx, selected) ==
  /\ subscriber.kind = "video" /\ IsRtx(rtx) /\ rtx.pt \in Elements(subscriber.formats)
  /\ Apt(rtx) # None
  /\ \E primary \in {ByPayloadType(selected, Apt(rtx))} \ {None} :
       \E source \in {CompatiblePublisherCodec(publisher, primary)} \ {None} : RtxForApt(publisher, source.pt) # None

RtxIsAnswerableForOffer(media, rtx, selected) ==
  /\ media.kind = "video" /\ IsRtx(rtx) /\ rtx.pt \in Elements(media.formats)
  /\ Apt(rtx) # None
  /\ LET primary == ByPayloadType(selected, Apt(rtx)) IN primary # None /\ ~IsRtx(primary)

Answerable(media) ==
  Where([i \in DOMAIN media.codecs |-> NormalizedCodec(media.kind, media.codecs[i])],
        LAMBDA c : c # Refused /\ c.pt \in Elements(media.formats))

\* publisher is None for WHIP.
RtxFits(media, publisher, rtx, selected) ==
  IF publisher = None THEN RtxIsAnswerableForOffer(media, rtx, selected)
  ELSE RtxIsAnswerable(media, publisher, rtx, selected)

WithCodec(media, publisher, selected, c) ==
  IF RtxFits(media, publisher, c, selected) THEN Append(selected, c) ELSE selected

\* The primary codecs, and after them the RTX codecs that fit those before.
WithRtx(media, publisher, primaries) ==
  IF primaries = <<>> THEN Refused
  ELSE FoldLeft(LAMBDA selected, c : WithCodec(media, publisher, selected, c), primaries, media.codecs)

NegotiatedForOffer(media) == WithRtx(media, None, SortedByPreference(Answerable(media)))

NegotiatedForRelay(subscriber, publisher) ==
  IF subscriber.kind # publisher.kind \/ ~CanSend(publisher) THEN Refused
  ELSE WithRtx(subscriber, publisher,
               SortedByPreference(Where(Answerable(subscriber), LAMBDA c : CompatiblePublisherCodec(publisher, c) # None)))

\* codecs are the negotiated ones: primary codecs first, then the RTX codecs
\* with the mapping they repair.
PrimaryMapping(c, p) ==
  IF p = None THEN Refused ELSE [source |-> p.pt, target |-> c.pt, apt |-> None, sourceApt |-> None]

RtxMapping(c, mappings, publisher) ==
  LET m == First(mappings, LAMBDA x : x.target = Apt(c))
      p == IF m = None THEN None ELSE RtxForApt(publisher, m.source)
  IN  IF p = None THEN Refused ELSE [source |-> p.pt, target |-> c.pt, apt |-> m.target, sourceApt |-> m.source]

PayloadTypeMappings(codecs, publisher) ==
  AndThen(MapAll(Where(codecs, LAMBDA c : ~IsRtx(c)), LAMBDA c : PrimaryMapping(c, CompatiblePublisherCodec(publisher, c))),
          LAMBDA mappings : AndThen(MapAll(Where(codecs, IsRtx), LAMBDA c : RtxMapping(c, mappings, publisher)),
                                    LAMBDA repairs : mappings \o repairs))
=============================================================================
