------------------------------ MODULE SdpOffer ------------------------------
(***************************************************************************)
(* What the server reads out of an SDP offer: extract_webrtc_offer_summary *)
(* and the WHIP and WHEP validation of the summary.  A description is the  *)
(* list of attributes the SDP parser hands over; attribute texts are       *)
(* already split at their separators, a number that cannot be read is      *)
(* Malformed, names compare without case.  A result is a value or Refused, *)
(* the std::expected of the code.                                          *)
(***************************************************************************)
EXTENDS Integers, FiniteSets, Sequences, SequencesExt

CONSTANTS
  None,      \* an attribute or value that is absent
  Refused    \* an error

Malformed == -1

Elements(s) == {s[i] : i \in DOMAIN s}

Distinct(s) == \A i, j \in DOMAIN s : s[i] = s[j] => i = j

IsSequence(s) == s \in Seq(Elements(s))

\* The elements of s at these positions, in their order.
Picked(s, positions) ==
  [k \in 1..Cardinality(positions) |-> s[CHOOSE i \in positions : Cardinality({j \in positions : j <= i}) = k]]

\* Those elements of s that satisfy P, in their order.
Where(s, P(_)) == Picked(s, {i \in DOMAIN s : P(s[i])})

First(s, P(_)) == LET found == {i \in DOMAIN s : P(s[i])} IN IF found = {} THEN None ELSE s[Min(found)]

\* Goes on with a value, unless it is an error.
AndThen(value, F(_)) == IF value = Refused THEN Refused ELSE F(value)

\* An absent value is an error.
Required(value) == IF value = None THEN Refused ELSE value

\* Maps every element, and refuses the whole when one is refused.
MapAll(s, F(_)) ==
  LET mapped == [i \in DOMAIN s |-> F(s[i])]
  IN  IF \E i \in DOMAIN s : mapped[i] = Refused THEN Refused ELSE mapped

-----------------------------------------------------------------------------

PayloadTypeIsValid(n) == n \in 0..127

\* An attribute of a media section stands for itself, of the session for
\* every section without it.
EffectiveValue(d, m, key) == IF m.attrs[key] # None THEN m.attrs[key] ELSE d.attrs[key]

FirstValue(d, key) ==
  IF d.attrs[key] # None THEN d.attrs[key]
  ELSE LET m == First(d.media, LAMBDA x : x.attrs[key] # None)
       IN  IF m = None THEN None ELSE m.attrs[key]

BundleMids(d) ==
  FlattenSeq([i \in DOMAIN d.groups |-> IF d.groups[i].semantics = "BUNDLE" THEN d.groups[i].mids ELSE <<>>])

Roles == {"active", "passive", "actpass", "holdconn"}

\* Several direction attributes are an error, none is sendrecv.
MediaDirection(m) ==
  IF \E x, y \in m.directions : x # y THEN Refused
  ELSE IF m.directions = {} THEN "sendrecv" ELSE CHOOSE x \in m.directions : TRUE

\* An rtpmap of a payload type that the m-line does not list is skipped, one
\* that cannot be read refuses the offer.
RtpMap(a) ==
  IF PayloadTypeIsValid(a.pt) /\ a.name # "" /\ a.clock # Malformed
  THEN [pt |-> a.pt, name |-> a.name, clock |-> a.clock, params |-> a.params, fmtp |-> <<>>, feedback |-> <<>>]
  ELSE Refused

PayloadTypes(m) ==
  IF m.formats = <<>> \/ \E i \in DOMAIN m.formats : ~PayloadTypeIsValid(m.formats[i])
  THEN Refused ELSE m.formats

\* The last fmtp of a payload type wins; feedback is collected, "*" is for
\* every codec; both only reach the first codec of their payload type.
WithAttributes(listed, m) ==
  LET isFirst(i) == \A j \in 1..(i - 1) : listed[j].pt # listed[i].pt
      fmtp(i) == LET own == Where(m.fmtps, LAMBDA a : a.pt = listed[i].pt)
                 IN  IF isFirst(i) /\ own # <<>> THEN own[Len(own)].fmtp ELSE <<>>
      feedback(i) == Where(m.feedbacks, LAMBDA a : a.all \/ (a.pt = listed[i].pt /\ isFirst(i)))
  IN  IF listed = <<>> THEN Refused
      ELSE [i \in DOMAIN listed |->
              [listed[i] EXCEPT !.fmtp = fmtp(i),
                                !.feedback = [k \in DOMAIN feedback(i) |-> feedback(i)[k].value]]]

Codecs(m) ==
  IF \/ \E i \in DOMAIN m.fmtps : ~PayloadTypeIsValid(m.fmtps[i].pt) \/ m.fmtps[i].fmtp = <<>>
     \/ \E i \in DOMAIN m.feedbacks : ~(m.feedbacks[i].all \/ PayloadTypeIsValid(m.feedbacks[i].pt))
  THEN Refused
  ELSE AndThen(MapAll(m.rtpmaps, RtpMap),
               LAMBDA maps : WithAttributes(Where(maps, LAMBDA c : c.pt \in Elements(m.formats)), m))

\* A group without sources is skipped, one with a source 0 refused.
SsrcGroupsAreValid(m) ==
  \A i \in DOMAIN m.ssrcGroups : \A s \in Elements(m.ssrcGroups[i]) : s > 0

TimingIsValid(m) ==
  /\ Len(m.ptime) <= 1 /\ Len(m.maxptime) <= 1
  /\ Elements(m.ptime) \cup Elements(m.maxptime) \subseteq 1..1000
  /\ m.ptime # <<>> /\ m.maxptime # <<>> => m.ptime[1] <= m.maxptime[1]

RidsAreValid(m) ==
  /\ \A i \in DOMAIN m.rids : m.rids[i].direction \in {"send", "recv"}
  /\ Distinct([i \in DOMAIN m.rids |-> m.rids[i].id])

\* At most one simulcast attribute, of any number of direction and list pairs.
Simulcast(m) ==
  LET all(dir) == FlattenSeq([i \in DOMAIN m.simulcast[1] |->
                                IF m.simulcast[1][i].direction = dir THEN m.simulcast[1][i].rids ELSE <<>>])
  IN  IF m.simulcast = <<>> THEN None
      ELSE IF \/ Len(m.simulcast) > 1 \/ m.simulcast[1] = <<>>
              \/ \E i \in DOMAIN m.simulcast[1] : m.simulcast[1][i].direction \notin {"send", "recv"}
           THEN Refused
           ELSE [send |-> all("send"), recv |-> all("recv")]

MsidsAreValid(m) == Distinct(m.msids) /\ \A i \in DOMAIN m.msids : m.msids[i].stream \notin {"", "-"}

HasExtension(m, uri) == \E i \in DOMAIN m.extensions : m.extensions[i].uri = uri

HasRid(m, rid) == rid # "" /\ \E i \in DOMAIN m.rids : m.rids[i].id = rid

\* Header extensions have one id and one URI each; a repaired RID needs a RID
\* and RTX; a simulcast names declared RIDs.
IdentityIsValid(m) ==
  /\ \A i \in DOMAIN m.extensions : m.extensions[i].id \in 1..255
  /\ Distinct([i \in DOMAIN m.extensions |-> m.extensions[i].id])
  /\ Distinct([i \in DOMAIN m.extensions |-> m.extensions[i].uri])
  /\ HasExtension(m, "rrid") => HasExtension(m, "rid") /\ \E i \in DOMAIN m.codecs : m.codecs[i].name = "rtx"
  /\ m.simulcast # None => \A rid \in Elements(m.simulcast.send) \cup Elements(m.simulcast.recv) : HasRid(m, rid)
  /\ MsidsAreValid(m)

WithValidIdentity(m) == IF IdentityIsValid(m) THEN m ELSE Refused

\* The summary of one section; only audio and video sections get here.
MediaSummary(d, m) ==
  IF /\ m.mid # None /\ m.mux /\ PayloadTypes(m) # Refused
     /\ \A key \in {"ufrag", "pwd", "fingerprint", "setup"} : EffectiveValue(d, m, key) # None
     /\ TimingIsValid(m) /\ SsrcGroupsAreValid(m) /\ RidsAreValid(m)
  THEN AndThen(MediaDirection(m), LAMBDA direction : AndThen(Codecs(m), LAMBDA codecs : AndThen(Simulcast(m), LAMBDA simulcast :
         WithValidIdentity([kind |-> m.kind, mid |-> m.mid, direction |-> direction, mux |-> m.mux, rsize |-> m.rsize,
                            mixed |-> m.mixed \/ d.mixed, ptime |-> m.ptime, maxptime |-> m.maxptime,
                            formats |-> m.formats, codecs |-> codecs, extensions |-> m.extensions,
                            rids |-> m.rids, simulcast |-> simulcast, msids |-> m.msids]))))
  ELSE Refused

BundleCoversMedia(bundle, media) ==
  bundle # <<>> /\ \A i \in DOMAIN media : media[i].mid \in Elements(bundle)

\* Sections that are neither audio nor video are left out of the summary, so
\* an index into summary.media counts only the others.
OfferSummary(d) ==
  LET value(key) == FirstValue(d, key)
      summary(media) ==
        IF media = <<>> \/ ~BundleCoversMedia(BundleMids(d), media) THEN Refused
        ELSE [ufrag |-> value("ufrag"), pwd |-> value("pwd"), fingerprint |-> value("fingerprint"),
              setup |-> value("setup"), bundle |-> BundleMids(d), media |-> media]
  IN  IF None \in {value(key) : key \in {"ufrag", "pwd", "fingerprint", "setup"}} \/ value("setup") \notin Roles
      THEN Refused
      ELSE AndThen(MapAll(Where(d.media, LAMBDA m : m.kind \in {"audio", "video"}), LAMBDA m : MediaSummary(d, m)), summary)

-----------------------------------------------------------------------------

\* sha-256, sha-384 and sha-512 with as many bytes as the algorithm has.
FingerprintIsValid(f) ==
  \/ f.algorithm = "sha-256" /\ f.bytes = 32
  \/ f.algorithm = "sha-384" /\ f.bytes = 48
  \/ f.algorithm = "sha-512" /\ f.bytes = 64

MidsAreUnique(offer) == Distinct([i \in DOMAIN offer.media |-> offer.media[i].mid]) /\ Distinct(offer.bundle)

CommonOfferIsValid(offer) ==
  /\ FingerprintIsValid(offer.fingerprint) /\ offer.setup = "actpass"
  /\ offer.bundle # <<>> /\ offer.media # <<>> /\ MidsAreUnique(offer)
  /\ BundleCoversMedia(offer.bundle, offer.media)
  /\ \A i \in DOMAIN offer.media :
       offer.media[i].mux /\ offer.media[i].formats # <<>> /\ offer.media[i].codecs # <<>>

CanSend(m) == m.direction \in {"sendonly", "sendrecv"}

CanReceive(m) == m.direction \in {"recvonly", "sendrecv"}

WhipOfferIsValid(offer) ==
  /\ CommonOfferIsValid(offer)
  /\ \A i \in DOMAIN offer.media : offer.media[i].direction # "recvonly"
  /\ \E i \in DOMAIN offer.media : CanSend(offer.media[i])

WhepOfferIsValid(offer) ==
  /\ CommonOfferIsValid(offer)
  /\ \A i \in DOMAIN offer.media : offer.media[i].direction # "sendonly"
  /\ \E i \in DOMAIN offer.media : CanReceive(offer.media[i])

\* Faulty: the sections that were not accepted stay in the runtime offer.
RuntimeOfferOfAll(offer, accepted) == offer

\* The summary a session keeps: the accepted sections, and of the BUNDLE group
\* their mids, which must be in the order of the sections.
RuntimeOffer(offer, accepted) ==
  LET media == [i \in DOMAIN accepted |-> offer.media[accepted[i] + 1]]
      mids == [i \in DOMAIN media |-> media[i].mid]
      bundle == Where(offer.bundle, LAMBDA mid : mid \in Elements(mids))
  IN  IF bundle # mids THEN Refused ELSE [offer EXCEPT !.bundle = bundle, !.media = media]
=============================================================================
