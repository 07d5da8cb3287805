----------------------------- MODULE TrickleIce -----------------------------
(***************************************************************************)
(* Trickle ICE: the SDP fragment of a PATCH, the candidates in it and what *)
(* handle_trickle_ice_patch_request does to the session.  A fragment is    *)
(* the sequence of its lines, a candidate text the record of its tokens;   *)
(* numbers that cannot be read are Malformed.  The counters for monitoring *)
(* are left out, nothing reads them back.                                  *)
(***************************************************************************)
EXTENDS SdpOffer

CONSTANTS
  MaxCandidates,    \* k_max_remote_ice_candidates
  MaxPerPatch,      \* k_trickle_ice_max_candidates_per_patch
  MaxBody,          \* k_trickle_ice_max_patch_body_bytes
  MaxText,          \* k_max_candidate_size
  MaxMline          \* k_max_sdp_mline_index

ASSUME MaxCandidatesAssumption == MaxCandidates \in Nat

-----------------------------------------------------------------------------
(* ice_candidate.cpp *)

TransportIsValid(t) == t.transport \in {"udp", "tcp"}

TypeIsValid(t) == t.typ \in {"host", "srflx", "prflx", "relay"}

\* An IP literal or a host name that does not look like a broken IPv4 literal.
AddressIsValid(a) == a \in {"ip", "hostname", "mdns"}

UnsignedIsValid(n, low, high) == low <= n /\ n <= high

ExtensionValueIsValid(x) ==
  CASE x.name = "raddr" -> AddressIsValid(x.value)
    [] x.name = "rport" -> UnsignedIsValid(x.value, 1, 65535)
    [] x.name = "tcptype" -> x.value \in {"active", "passive", "so"}
    [] x.name \in {"generation", "network-id", "network-cost"} -> x.value >= 0
    [] OTHER -> TRUE

\* Names come at most once, raddr with rport, tcptype exactly with TCP; unknown
\* extensions pass.
ExtensionsAreValid(t) ==
  LET known == {"raddr", "rport", "tcptype", "generation", "network-id", "network-cost"}
      has(name) == \E i \in DOMAIN t.extensions : t.extensions[i].name = name
  IN  /\ \A i \in DOMAIN t.extensions : ExtensionValueIsValid(t.extensions[i])
      /\ Distinct(Where([i \in DOMAIN t.extensions |-> t.extensions[i].name], LAMBDA name : name \in known))
      /\ has("raddr") = has("rport")
      /\ has("tcptype") = (t.transport = "tcp")

\* 1 to 32 letters and digits; Malformed with any other character.
FoundationIsValid(t) == UnsignedIsValid(t.foundation, 1, 32)

CandidateIsValid(t) ==
  /\ FoundationIsValid(t) /\ UnsignedIsValid(t.component, 1, 256) /\ TransportIsValid(t)
  /\ t.priority >= 1 /\ AddressIsValid(t.address) /\ UnsignedIsValid(t.port, 1, 65535) /\ TypeIsValid(t)
  /\ ExtensionsAreValid(t)

\* normalize_sdp_mid: Malformed with white space or a control character.
MidIsValid(mid) == UnsignedIsValid(mid.size, 0, 128)

MlineIsValid(mline) == -1 <= mline /\ mline <= MaxMline

\* normalize_candidate_text
TextIsValid(text) == text = None \/ text.size <= MaxText

\* The end of candidates is the candidate without a text.
RemoteCandidate(text, mid, mline) ==
  IF \/ ~MidIsValid(mid) \/ ~MlineIsValid(mline) \/ (mid.name = None /\ mline < 0)
     \/ ~TextIsValid(text) \/ (text # None /\ ~CandidateIsValid(text))
  THEN Refused
  ELSE [text |-> text, mid |-> mid.name, mline |-> mline]

IsEnd(c) == c.text = None

-----------------------------------------------------------------------------
(* trickle_ice_sdpfrag.cpp *)

NewParser == [mid |-> None, mline |-> 0, next |-> 0, ufrag |-> None, pwd |-> None, candidates |-> <<>>]

\* ice-ufrag and ice-pwd may be repeated, with the same value.
SetAttributeOnce(p, key, value) ==
  IF value = None \/ p[key] \notin {None, value} THEN Refused ELSE [p EXCEPT ![key] = value]

ParsedCandidate(p, text) ==
  LET c == IF p.mid = None THEN Refused ELSE RemoteCandidate(text, p.mid, p.mline)
  IN  IF c = Refused THEN Refused ELSE [p EXCEPT !.candidates = Append(@, c)]

\* m-lines are counted within the fragment, whatever section they stand for.
ParseLine(p, line) ==
  CASE line.type = "m" -> [p EXCEPT !.mline = p.next, !.next = @ + 1, !.mid = None]
    [] line.type = "mid" -> IF line.mid.name = None THEN Refused ELSE [p EXCEPT !.mid = line.mid]
    [] line.type \in {"ufrag", "pwd"} -> SetAttributeOnce(p, line.type, line.value)
    [] line.type = "candidate" -> ParsedCandidate(p, line.text)
    [] line.type = "end" -> ParsedCandidate(p, None)
    [] OTHER -> p

\* The first line that is refused ends the fragment.
ParseNext(p, line) == IF p = Refused THEN Refused ELSE ParseLine(p, line)

ParsedFragment(body) ==
  AndThen(FoldLeft(ParseNext, NewParser, body),
          LAMBDA p : IF p.candidates = <<>> \/ (p.ufrag = None) # (p.pwd = None) THEN Refused ELSE p)

-----------------------------------------------------------------------------
(* The session and the PATCH. *)

Completed(s) == s.remote # <<>> /\ IsEnd(s.remote[Len(s.remote)])

\* Faulty: nothing tells that the list was closed.
AddRemoteCandidateAlways(s, c) == [s EXCEPT !.remote = Append(@, c)]

AddRemoteCandidate(s, c) ==
  IF ~IsEnd(c) /\ (Completed(s) \/ Len(s.remote) >= MaxCandidates) THEN Refused
  ELSE [s EXCEPT !.remote = Append(@, c)]

\* Faulty: the section is looked up in the offer the client sent.
MediaIsAcceptedByIndex(s, c) == \E i \in DOMAIN s.offer.media : i - 1 = c.mline /\ s.offer.media[i].mid = c.mid

\* The sections of the session's offer and its accepted indexes run parallel.
MediaIsAccepted(s, c) ==
  \E i \in DOMAIN s.offer.media :
    (c.mid # None => s.offer.media[i].mid = c.mid) /\ (c.mline >= 0 => s.accepted[i] = c.mline)

AlreadyKnown(s, c) == (IsEnd(c) /\ Completed(s)) \/ \E i \in DOMAIN s.remote : s.remote[i] = c

\* One candidate of the batch; the first that is refused ends the request, and
\* those before it stay.
ApplyCandidate(result, c) ==
  LET added == AddRemoteCandidate(result.session, c)
  IN  IF result.status # 204 \/ ~MediaIsAccepted(result.session, c) \/ AlreadyKnown(result.session, c) THEN result
      ELSE IF added = Refused THEN [result EXCEPT !.status = 400]
      ELSE [result EXCEPT !.session = added]

\* The body is read once the media type, its size and the ETag are right.
PreconditionStatus(found, r) ==
  CASE ~r.sdpfrag -> 415
    [] r.size > MaxBody -> 413
    [] ~found -> 404
    [] r.ifMatch = None -> 428
    [] r.ifMatch # "etag" -> 412
    [] OTHER -> 204

ApplyFragment(s, body) ==
  LET refused(status) == [status |-> status, session |-> s]
  IN  CASE body = Refused -> refused(400)
        [] Len(body.candidates) > MaxPerPatch -> refused(413)
        [] body.ufrag # None /\ (body.ufrag # s.offer.ufrag \/ body.pwd # s.offer.pwd) -> refused(422)
        [] OTHER -> FoldLeft(ApplyCandidate, [status |-> 204, session |-> s], body.candidates)

PatchSession(s, r) ==
  IF PreconditionStatus(TRUE, r) = 204 THEN ApplyFragment(s, ParsedFragment(r.body))
  ELSE [status |-> PreconditionStatus(TRUE, r), session |-> s]

\* s is None when the stream or the session does not exist.
PatchResult(s, r) ==
  IF s = None THEN [status |-> PreconditionStatus(FALSE, r), session |-> None] ELSE PatchSession(s, r)
=============================================================================
