----------------------------- MODULE StunBinding -----------------------------
(***************************************************************************)
(* The connectivity checks of ICE: reading a STUN packet, the checks of    *)
(* handle_session_stun_binding and the reply.  A packet is its header, the *)
(* declared length and the bytes that follow the header, given as          *)
(* attributes with their value sizes.  A digest is represented by what it  *)
(* is computed from, the XOR of an address by the address and the mask, a  *)
(* fragment of a user name by its size and its text.                       *)
(***************************************************************************)
EXTENDS SdpOffer

IntegritySize == 20

FingerprintSize == 4

MaxFragment == 256

MaxUsername == 513

\* Bytes of an attribute in the packet: a header of 4 and the padded value.
AttributeSize(a) == 4 + 4 * ((a.size + 3) \div 4)

TotalSize(attributes) == FoldLeft(LAMBDA sum, a : sum + AttributeSize(a), 0, attributes)

-----------------------------------------------------------------------------
(* stun_message.cpp: reading *)

IsStunPacket(p) == p.header /\ p.bits = 0 /\ p.length % 4 = 0 /\ p.cookie /\ p.bytes >= p.length

HeaderIsValid(p) == IsStunPacket(p) /\ p.bytes = p.length

\* The attributes have to end where the packet does.
AttributesFit(p) == TotalSize(p.attributes) = p.length

AddressIsWellFormed(a) ==
  \/ a.value.family = "ipv4" /\ a.size = 8
  \/ a.value.family = "ipv6" /\ a.size = 20

AttributeIsWellFormed(a) ==
  CASE a.type \in {"mapped-address", "xor-mapped-address"} -> AddressIsWellFormed(a)
    [] a.type = "priority" -> a.size = 4
    [] a.type = "use-candidate" -> a.size = 0
    [] a.type \in {"ice-controlling", "ice-controlled"} -> a.size = 8
    [] a.type = "message-integrity" -> a.size = IntegritySize
    [] a.type = "fingerprint" -> a.size = FingerprintSize
    [] OTHER -> TRUE

Has(p, type) == \E i \in DOMAIN p.attributes : p.attributes[i].type = type

\* The last attribute of a type decides its value.
ValueOf(p, type) ==
  LET own == Where(p.attributes, LAMBDA a : a.type = type) IN IF own = <<>> THEN None ELSE own[Len(own)].value

\* parse_stun_message
ParsedMessage(p) ==
  IF HeaderIsValid(p) /\ AttributesFit(p) /\ \A i \in DOMAIN p.attributes : AttributeIsWellFormed(p.attributes[i])
  THEN [method |-> p.method, class |-> p.class, transaction |-> p.transaction,
        username |-> ValueOf(p, "username"), priority |-> ValueOf(p, "priority"),
        useCandidate |-> Has(p, "use-candidate"), controlling |-> Has(p, "ice-controlling"),
        controlled |-> Has(p, "ice-controlled"), integrity |-> Has(p, "message-integrity"),
        fingerprint |-> Has(p, "fingerprint")]
  ELSE Refused

Position(p, type) ==
  CHOOSE i \in DOMAIN p.attributes :
    p.attributes[i].type = type /\ \A j \in 1..(i - 1) : p.attributes[j].type # type

\* What the digests cover: the header with some length and the attributes in
\* front of theirs.
Covered(p, i, length) ==
  [method |-> p.method, class |-> p.class, transaction |-> p.transaction, length |-> length,
   attributes |-> SubSeq(p.attributes, 1, i - 1)]

\* The length is the one the message had when its integrity was appended.
IntegrityIsRight(p, key) ==
  /\ HeaderIsValid(p) /\ key # None /\ AttributesFit(p) /\ Has(p, "message-integrity")
  /\ LET right(i) == p.attributes[i].value = [key |-> key, of |-> Covered(p, i, TotalSize(SubSeq(p.attributes, 1, i)))]
     IN  right(Position(p, "message-integrity"))

\* The fingerprint comes last and covers the packet as it is.
FingerprintIsRight(p) ==
  /\ HeaderIsValid(p) /\ AttributesFit(p) /\ Has(p, "fingerprint")
  /\ LET right(i) == i = Len(p.attributes) /\ p.attributes[i].value = [of |-> Covered(p, i, p.length)]
     IN  right(Position(p, "fingerprint"))

-----------------------------------------------------------------------------
(* stun_message.cpp: writing *)

\* The address of the peer, hidden by the magic cookie and for IPv6 by the
\* transaction id as well.
XorMappedAddress(endpoint, transaction) ==
  [type |-> "xor-mapped-address", size |-> IF endpoint.family = "ipv4" THEN 8 ELSE 20,
   value |-> [family |-> endpoint.family, port |-> endpoint.port, of |-> endpoint,
              mask |-> IF endpoint.family = "ipv4" THEN <<"cookie">> ELSE <<"cookie", transaction>>]]

WithLength(p, length) == [p EXCEPT !.length = length, !.bytes = length]

AppendAttribute(p, a) == [p EXCEPT !.attributes = Append(@, a)]

\* Faulty: the digest is taken before the length includes it.
AppendIntegrityTooEarly(p, key) ==
  LET value == [key |-> key, of |-> Covered(p, Len(p.attributes) + 1, p.length)]
      q == AppendAttribute(p, [type |-> "message-integrity", size |-> IntegritySize, value |-> value])
  IN  WithLength(q, TotalSize(q.attributes))

AppendIntegrity(p, key) ==
  LET digest(n, length) == [type |-> "message-integrity", size |-> IntegritySize,
                            value |-> [key |-> key, of |-> Covered(p, n, length)]]
      signed(length) == WithLength(AppendAttribute(p, digest(Len(p.attributes) + 1, length)), length)
  IN  signed(TotalSize(p.attributes) + 4 + IntegritySize)

AppendFingerprint(p) ==
  LET digest(n, length) == [type |-> "fingerprint", size |-> FingerprintSize, value |-> [of |-> Covered(p, n, length)]]
      signed(length) == WithLength(AppendAttribute(p, digest(Len(p.attributes) + 1, length)), length)
  IN  signed(TotalSize(p.attributes) + 4 + FingerprintSize)

\* An endpoint with port 0 cannot be written.
BindingResponse(m, endpoint, key) ==
  LET start(address) == [header |-> TRUE, bits |-> 0, cookie |-> TRUE, method |-> "binding", class |-> "success",
                         transaction |-> m.transaction, length |-> AttributeSize(address), bytes |-> AttributeSize(address),
                         attributes |-> <<address>>]
  IN  IF m.method # "binding" \/ m.class # "request" \/ endpoint.port = 0 \/ key = None THEN Refused
      ELSE AppendFingerprint(AppendIntegrity(start(XorMappedAddress(endpoint, m.transaction)), key))

-----------------------------------------------------------------------------
(* ice_username.cpp and session_stun_binding.cpp *)

FragmentIsValid(f) == 1 <= f.size /\ f.size <= MaxFragment

\* Recipient and sender, with exactly one colon between them.
UsernameIsValid(u) ==
  Len(u) = 2 /\ u[1].size + u[2].size + 1 <= MaxUsername /\ FragmentIsValid(u[1]) /\ FragmentIsValid(u[2])

\* This end is ICE-lite: the peer has to be in control.
CheckIsValid(m) == m.priority \notin {None, 0} /\ m.controlling /\ ~m.controlled

\* context holds the local credentials and the remote ufrag of the session.
UsernameMatches(u, context) == u[1].text = context.localUfrag /\ u[2].text = context.remoteUfrag

\* handled: the packet goes nowhere else.  response: Refused when it is dropped.
StunBindingResult(p, endpoint, context) ==
  LET response(m) ==
        IF /\ m # Refused
           /\ m.method = "binding" /\ m.class = "request" /\ m.username # None
           /\ CheckIsValid(m) /\ UsernameIsValid(m.username) /\ UsernameMatches(m.username, context)
           /\ context.localPwd # None /\ m.integrity /\ IntegrityIsRight(p, context.localPwd)
           /\ m.fingerprint => FingerprintIsRight(p)
        THEN BindingResponse(m, endpoint, context.localPwd) ELSE Refused
      result(reply) == [handled |-> IsStunPacket(p), response |-> reply,
                        nominated |-> reply # Refused /\ Has(p, "use-candidate")]
  IN  result(response(ParsedMessage(p)))
=============================================================================
