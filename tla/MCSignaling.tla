----------------------------- MODULE MCSignaling -----------------------------
(***************************************************************************)
(* Offers and PATCH requests for Signaling.  Names of offers tell what is  *)
(* particular about them; the ones of MCBad are refused.                   *)
(***************************************************************************)
EXTENDS Signaling, TLC

Parameter(key, value) == [key |-> key, value |-> value]

\* A codec: payload type, name and parameters.
Vp8(pt) == [pt |-> pt, name |-> "vp8", fmtp |-> <<>>]

Opus(pt) == [pt |-> pt, name |-> "opus", fmtp |-> <<Parameter("minptime", 10), Parameter("useinbandfec", 1)>>]

Rtx(pt, apt) == [pt |-> pt, name |-> "rtx", fmtp |-> <<Parameter("apt", apt)>>]

H264(pt, profile, mode, asymmetry) ==
  [pt |-> pt, name |-> "h264",
   fmtp |-> <<Parameter("profile-level-id", profile), Parameter("packetization-mode", mode),
              Parameter("level-asymmetry-allowed", asymmetry)>>]

Other(pt) == [pt |-> pt, name |-> "pcmu", fmtp |-> <<>>]

Baseline31 == <<66, 224, 31>>   \* 42e01f
High31 == <<100, 0, 31>>        \* 64001f
Level1b == <<66, 240, 11>>      \* 42f00b
Main31 == <<77, 0, 31>>         \* 4d001f

NoAttributes == [ufrag |-> None, pwd |-> None, fingerprint |-> None, setup |-> None]

SessionAttributes == [ufrag |-> "u", pwd |-> "p", fingerprint |-> [algorithm |-> "sha-256", bytes |-> 32], setup |-> "actpass"]

Extension(id, uri) == [id |-> id, uri |-> uri, direction |-> None]

Feedback(pt, value) == [all |-> FALSE, pt |-> pt, value |-> value]

FeedbackOnAll(value) == [all |-> TRUE, pt |-> 0, value |-> value]

Section(kind, mid, direction, codecs) ==
  [kind |-> kind, mid |-> mid, attrs |-> NoAttributes, directions |-> {direction}, mux |-> TRUE, rsize |-> TRUE,
   mixed |-> FALSE, formats |-> [i \in DOMAIN codecs |-> codecs[i].pt],
   rtpmaps |-> [i \in DOMAIN codecs |->
     [pt |-> codecs[i].pt, name |-> codecs[i].name,
      clock |-> IF codecs[i].name = "opus" THEN 48000 ELSE IF codecs[i].name = "pcmu" THEN 8000 ELSE 90000,
      params |-> IF codecs[i].name = "opus" THEN "2" ELSE ""]],
   fmtps |-> Where([i \in DOMAIN codecs |-> [pt |-> codecs[i].pt, fmtp |-> codecs[i].fmtp]], LAMBDA a : a.fmtp # <<>>),
   feedbacks |-> <<>>, extensions |-> <<Extension(4, "mid")>>, ssrcGroups |-> <<>>, ptime |-> <<>>, maxptime |-> <<>>,
   rids |-> <<>>, simulcast |-> <<>>, msids |-> <<>>]

Audio(mid, direction, codecs) == Section("audio", mid, direction, codecs)

Video(mid, direction, codecs) == Section("video", mid, direction, codecs)

Description(media) ==
  [attrs |-> SessionAttributes, groups |-> <<[semantics |-> "BUNDLE", mids |-> [i \in DOMAIN media |-> media[i].mid]]>>,
   mixed |-> FALSE, media |-> media]

-----------------------------------------------------------------------------

\* A browser that publishes VP8 or H.264 with sound.
CallPublisher == Description(
  <<[Audio("0", "sendonly", <<Opus(111)>>) EXCEPT
       !.extensions = <<Extension(1, "audio-level"), Extension(4, "mid")>>, !.ptime = <<20>>, !.maxptime = <<60>>],
    [Video("1", "sendonly", <<Vp8(96), Rtx(97, 96), H264(102, Baseline31, 1, 1), H264(104, High31, 1, 1)>>) EXCEPT
       !.extensions = <<Extension(4, "mid"), Extension(3, "transport-cc")>>,
       !.ssrcGroups = <<<<1, 2>>, <<>>>>, !.msids = <<[stream |-> "s", track |-> "v"]>>,
       !.feedbacks = <<Feedback(96, "nack"), FeedbackOnAll("transport-cc"), Feedback(102, "nack pli")>>]>>)

\* Sound is rejected for its codec, so accepted index and position differ.
PcmuPublisher == Description(
  <<Audio("0", "sendonly", <<Other(0)>>), [Video("1", "sendonly", <<Vp8(96)>>) EXCEPT
      !.attrs = [NoAttributes EXCEPT !.setup = "actpass"]]>>)

\* H.264 under the number others give VP8, and other extension ids.
H264Publisher == Description(
  <<[Video("1", "sendonly", <<H264(96, Baseline31, 1, 0)>>) EXCEPT !.extensions = <<Extension(16, "mid")>>, !.mixed = TRUE]>>)

TwoVideosPublisher == Description(
  <<Audio("a", "inactive", <<Opus(111)>>), Video("b", "sendonly", <<Vp8(96)>>), Video("c", "sendonly", <<H264(96, Level1b, 1, 0)>>)>>)

SimulcastPublisher == Description(
  <<[Video("1", "sendonly", <<Vp8(96), Rtx(97, 96)>>) EXCEPT
       !.extensions = <<Extension(4, "mid"), Extension(10, "rid"), Extension(11, "rrid")>>,
       !.rids = <<[id |-> "h", direction |-> "send"], [id |-> "l", direction |-> "send"]>>,
       !.simulcast = <<<<[direction |-> "send", rids |-> <<"h", "l">>]>>>>]>>)

\* A data channel comes first and is not part of the summary.
DataPublisher == Description(<<Section("application", "d", "sendonly", <<Other(0)>>), Video("v", "sendonly", <<Vp8(100)>>)>>)

\* Sections in the other order, numbers that collide with the publisher's.
CallSubscriber == Description(
  <<[Video("a", "recvonly", <<H264(96, Baseline31, 1, 1), Vp8(102), Rtx(103, 102), Rtx(98, 96), Rtx(99, 0)>>) EXCEPT
       !.extensions = <<Extension(1, "mid"), Extension(17, "rid"), [Extension(5, "transport-cc") EXCEPT !.direction = "recvonly"]>>,
       !.feedbacks = <<FeedbackOnAll("nack"), FeedbackOnAll("nack pli"), FeedbackOnAll("nack"), Feedback(102, "transport-cc")>>],
    [Audio("b", "recvonly", <<Other(0), Opus(63)>>) EXCEPT !.extensions = <<Extension(2, "mid"), Extension(6, "audio-level")>>,
       !.feedbacks = <<Feedback(63, "nack")>>]>>)

\* Sound is rejected for its codec.
PcmuSubscriber == Description(
  <<Audio("x", "recvonly", <<Other(0)>>), [Video("y", "recvonly", <<Vp8(100)>>) EXCEPT !.feedbacks = <<FeedbackOnAll("nack")>>]>>)

VideoSubscriber == Description(
  <<[Video("v", "recvonly", <<H264(96, Main31, 1, 1), H264(97, Baseline31, 0, 1), H264(98, Baseline31, 1, 0), Vp8(100), Rtx(101, 100)>>)
      EXCEPT !.extensions = <<Extension(20, "mid"), Extension(9, "rid")>>, !.mixed = TRUE,
             !.rids = <<[id |-> "l", direction |-> "recv"], [id |-> "x", direction |-> "send"]>>,
             !.simulcast = <<<<[direction |-> "recv", rids |-> <<"l", "x", "l">>]>>>>]>>)

TwoVideosSubscriber == Description(
  <<Video("0", "recvonly", <<Vp8(100)>>), Audio("1", "recvonly", <<Opus(63)>>), Video("2", "sendrecv", <<Vp8(100), H264(96, Level1b, 1, 1)>>)>>)

\* Neither side; also the offer of a client that does both.
BothWays == Description(<<Video("0", "sendrecv", <<Vp8(100), Rtx(101, 100)>>), Audio("1", "sendrecv", <<Opus(111)>>)>>)

-----------------------------------------------------------------------------
(* Offers that must not become sessions. *)

One(m) == Description(<<m>>)

Plain == Video("0", "sendrecv", <<Vp8(96)>>)

MCBad ==
  ("no mux" :> One([Plain EXCEPT !.mux = FALSE])) @@
  ("no mid" :> [One([Plain EXCEPT !.mid = None]) EXCEPT !.groups = <<[semantics |-> "BUNDLE", mids |-> <<"0">>]>>]) @@
  ("not bundled" :> [One(Plain) EXCEPT !.groups = <<[semantics |-> "LS", mids |-> <<"0">>]>>]) @@
  ("mid twice" :> Description(<<Plain, Plain>>)) @@
  ("bundle reversed" :> [BothWays EXCEPT !.groups = <<[semantics |-> "BUNDLE", mids |-> <<"1", "0">>]>>]) @@
  ("setup active" :> [One(Plain) EXCEPT !.attrs = [SessionAttributes EXCEPT !.setup = "active"]]) @@
  ("fingerprint short" :> [One(Plain) EXCEPT !.attrs = [SessionAttributes EXCEPT !.fingerprint = [algorithm |-> "sha-256", bytes |-> 20]]]) @@
  ("no password" :> [One(Plain) EXCEPT !.attrs = [SessionAttributes EXCEPT !.pwd = None]]) @@
  ("two directions" :> One([Plain EXCEPT !.directions = {"sendonly", "recvonly"}])) @@
  ("rtpmap broken" :> One([Plain EXCEPT !.rtpmaps[1].clock = Malformed])) @@
  ("formats broken" :> One([Plain EXCEPT !.formats = <<96, 128>>])) @@
  ("ptime over maxptime" :> One([Plain EXCEPT !.ptime = <<60>>, !.maxptime = <<20>>])) @@
  ("ssrc zero" :> One([Plain EXCEPT !.ssrcGroups = <<<<1, 0>>>>])) @@
  ("rid twice" :> One([Plain EXCEPT !.rids = <<[id |-> "h", direction |-> "send"], [id |-> "h", direction |-> "recv"]>>])) @@
  ("rid unknown" :> One([Plain EXCEPT !.simulcast = <<<<[direction |-> "send", rids |-> <<"h">>]>>>>])) @@
  ("two simulcasts" :> One([Plain EXCEPT !.simulcast = <<<<>>, <<>>>>])) @@
  ("extension twice" :> One([Plain EXCEPT !.extensions = <<Extension(4, "mid"), Extension(4, "rid")>>])) @@
  ("rrid alone" :> One([Plain EXCEPT !.extensions = <<Extension(4, "rrid")>>])) @@
  ("msid empty" :> One([Plain EXCEPT !.msids = <<[stream |-> "-", track |-> "t"]>>])) @@
  ("no codec" :> One(Video("0", "sendrecv", <<Other(0)>>))) @@
  ("opus out of range" :> One(Audio("0", "sendrecv", <<[Opus(111) EXCEPT !.fmtp = <<Parameter("minptime", 2)>>]>>)))

MCOffers ==
  ("call publisher" :> CallPublisher) @@ ("pcmu publisher" :> PcmuPublisher) @@ ("h264 publisher" :> H264Publisher) @@
  ("two videos publisher" :> TwoVideosPublisher) @@ ("simulcast publisher" :> SimulcastPublisher) @@
  ("data publisher" :> DataPublisher) @@ ("call subscriber" :> CallSubscriber) @@ ("pcmu subscriber" :> PcmuSubscriber) @@
  ("video subscriber" :> VideoSubscriber) @@ ("two videos subscriber" :> TwoVideosSubscriber) @@
  ("both ways" :> BothWays) @@ MCBad

-----------------------------------------------------------------------------
(* PATCH requests. *)

Text(port) ==
  [size |-> 60, foundation |-> 1, component |-> 1, transport |-> "udp", priority |-> 1, address |-> "ip", port |-> port,
   typ |-> "host", extensions |-> <<>>]

Line(type) == [type |-> type]

Mid(name) == [type |-> "mid", mid |-> [name |-> name, size |-> 1]]

Candidate(text) == [type |-> "candidate", text |-> text]

\* A candidate for the first, rejected section and one for the second.
Fragment(first, second, lines) == <<Line("m"), Mid(first), Candidate(Text(1)), Line("m"), Mid(second)>> \o lines

Request(body) == [sdpfrag |-> TRUE, size |-> Len(body), ifMatch |-> "etag", body |-> body]

Bodies(first, second) ==
  {Fragment(first, second, lines) : lines \in
     {<<Candidate(Text(1))>>, <<Candidate(Text(2))>>, <<Candidate(Text(2)), Candidate(Text(3))>>,
      <<Candidate(Text(1)), Line("end"), Candidate(Text(4))>>, <<Line("end"), Line("end")>>,
      <<Candidate(Text(1)), Candidate(Text(2)), Candidate(Text(3)), Candidate(Text(4))>>,
      <<Candidate([Text(5) EXCEPT !.transport = "tcp"])>>, <<Candidate([Text(5) EXCEPT !.port = 0])>>,
      <<Candidate([Text(5) EXCEPT !.size = MaxText + 1])>>,
      <<Candidate([Text(5) EXCEPT !.foundation = Malformed])>>,
      <<Candidate([Text(5) EXCEPT !.extensions = <<[name |-> "raddr", value |-> "ip"], [name |-> "rport", value |-> 9],
                                                   [name |-> "generation", value |-> 0]>>]), Candidate(Text(1))>>,
      <<[type |-> "ufrag", value |-> "u"], Candidate(Text(1))>>,
      <<[type |-> "ufrag", value |-> "u"], [type |-> "pwd", value |-> "p"], Candidate(Text(1)), Line("end")>>,
      <<[type |-> "ufrag", value |-> "w"], [type |-> "pwd", value |-> "p"], Candidate(Text(1))>>}}
  \cup {<<Line("m"), Mid(second), Candidate(Text(1))>>, <<Mid(second), Candidate(Text(1))>>, <<Line("m"), Candidate(Text(1))>>, <<>>}

MCRequests ==
  {Request(body) : body \in Bodies("0", "1") \cup Bodies("x", "y")} \cup
  {[Request(<<>>) EXCEPT !.sdpfrag = FALSE], [Request(<<>>) EXCEPT !.size = MaxBody + 1],
   [Request(<<>>) EXCEPT !.ifMatch = None], [Request(<<>>) EXCEPT !.ifMatch = "*"]}

-----------------------------------------------------------------------------
(* Connectivity checks. *)

MCCredentials == {[ufrag |-> "k", pwd |-> "kp"], [ufrag |-> "l", pwd |-> "lp"]}

MCEndpoints == {[family |-> "ipv4", port |-> 5], [family |-> "ipv6", port |-> 6]}

Check(local, nominate, fingerprint) ==
  ClientCheck([localUfrag |-> local.ufrag, localPwd |-> local.pwd, remoteUfrag |-> "u"], nominate, fingerprint)

\* Proper checks for every credential, and what is not one.
MCPackets ==
  {Check(local, nominate, fingerprint) : local \in MCCredentials, nominate \in BOOLEAN, fingerprint \in BOOLEAN} \cup
  {[p EXCEPT !.bytes = @ + 4] : p \in {Check(local, TRUE, TRUE) : local \in MCCredentials}} \cup
  {[p EXCEPT !.class = "indication"] : p \in {Check(local, TRUE, TRUE) : local \in MCCredentials}} \cup
  {[p EXCEPT !.transaction = "other"] : p \in {Check(local, TRUE, TRUE) : local \in MCCredentials}} \cup
  {[p EXCEPT !.attributes[2].value = 0] : p \in {Check(local, TRUE, FALSE) : local \in MCCredentials}} \cup
  {[p EXCEPT !.attributes[3].type = "ice-controlled"] : p \in {Check(local, TRUE, FALSE) : local \in MCCredentials}} \cup
  {[p EXCEPT !.attributes[1].value[2].text = "other"] : p \in {Check(local, TRUE, FALSE) : local \in MCCredentials}}
=============================================================================
