-------------------------- MODULE PeerAssociation --------------------------
(***************************************************************************)
(* How a WHIP or WHEP session transport ties its peer to a UDP endpoint:   *)
(* the endpoint nominated by ICE (selected_remote_endpoint_), the DTLS     *)
(* peers and the SRTP peers, both maps keyed by endpoint, and the rebind   *)
(* of an established association when ICE nominates another endpoint.      *)
(*                                                                         *)
(* A transport has a DTLS and an SRTP transport of its own and gets its    *)
(* identity once, in set_peer_context (an ICE restart is refused), so all  *)
(* identity comparisons hold and are left out.  OpenSSL and libsrtp are    *)
(* external: what a record does to a handshake, and whether a context can  *)
(* be made, is chosen.  The STUN checks decide which requests count; a     *)
(* request that fails them, one without USE-CANDIDATE and a packet from an *)
(* endpoint that is not selected change nothing here.                      *)
(***************************************************************************)
EXTENDS Naturals

CONSTANTS
  Endpoints,     \* remote UDP endpoints
  Ipv6,          \* those with an IPv6 address
  NoEndpoint, NoPeer,
  MaxSsl         \* bound: SSL objects made by one transport

VARIABLES
  selected,  \* selected_remote_endpoint_
  dtls,      \* dtls_transport: peers_by_endpoint_, NoPeer for no entry
  srtp,      \* srtp_transport: peers_by_endpoint_, the SSL object whose keys
             \* the sessions use, 0 for an entry without sessions, or NoPeer
  nextSsl,   \* names the next SSL object
  closed,    \* closed_
  created    \* history: SSL objects SRTP sessions have been made from

vars == <<selected, dtls, srtp, nextSsl, closed, created>>

Phases == {"idle", "handshaking", "complete", "failed"}

Families == {"unknown", "ipv4", "ipv6"}

Family(e) == IF e \in Ipv6 THEN "ipv6" ELSE "ipv4"

\* dtls_peer_state: ssl is 0 for a null pointer, the keying material is there
\* in the phase "complete", handshake_error in the phase "failed".
DtlsPeer == [phase: Phases, ssl: Nat, family: Families]

ASSUME PeerAssumption ==
  /\ Ipv6 \subseteq Endpoints
  /\ NoEndpoint \notin Endpoints
  /\ NoPeer \notin Nat \cup DtlsPeer
  /\ MaxSsl \in Nat

NewPeer == [phase |-> "idle", ssl |-> 0, family |-> "unknown"]

\* A peer owns an SSL object exactly while it can use it: from its first record
\* until its handshake fails.
OwnsSsl(p) == p.ssl # 0 <=> p.phase \in {"handshaking", "complete"}

\* Every entry has its type; an SSL object is never left behind by a failure,
\* nor missing where records are processed.
TypeOK ==
  /\ selected \in Endpoints \cup {NoEndpoint}
  /\ dtls \in [Endpoints -> DtlsPeer \cup {NoPeer}]
  /\ \A e \in Endpoints : dtls[e] # NoPeer => OwnsSsl(dtls[e])
  /\ srtp \in [Endpoints -> Nat \cup {NoPeer}]
  /\ nextSsl \in Nat \ {0}
  /\ closed \in BOOLEAN
  /\ created \in SUBSET Nat

Init ==
  /\ selected = NoEndpoint
  /\ dtls = [e \in Endpoints |-> NoPeer]
  /\ srtp = [e \in Endpoints |-> NoPeer]
  /\ nextSsl = 1
  /\ closed = FALSE
  /\ created = {}

-----------------------------------------------------------------------------
(* DTLS and SRTP peers *)

\* Faulty: the SSL object of a failed handshake is kept.
FailedKeepSsl(p) == [p EXCEPT !.phase = "failed"]

\* mark_handshake_failed, which nothing undoes: the peer keeps its error until
\* its entry is erased.
Failed(p) == [p EXCEPT !.phase = "failed", !.ssl = 0]

\* The first record gives the peer its network family and its SSL object.
Started(p, e) ==
  IF p.phase = "idle"
  THEN [phase |-> "handshaking", ssl |-> nextSsl, family |-> Family(e)]
  ELSE p

\* dtls_transport::handle_udp_packet for a peer p at endpoint e.  The record is
\* not parsed, makes some step fail, is processed, or is processed and ends
\* the handshake with a verified certificate and exported keys.
Processed(p, e, event) ==
  IF event = "unparsed" \/ p.phase = "failed" THEN p
  ELSE IF p.family \notin {"unknown", Family(e)} THEN Failed(p)
  ELSE IF event = "error" THEN Failed(Started(p, e))
  ELSE IF event = "finished" /\ p.phase = "handshaking" THEN [p EXCEPT !.phase = "complete"]
  ELSE Started(p, e)

\* find_ready_peer: the entry of e after it was asked for; ok says that SRTP
\* sessions can be made from the keys.  Existing sessions are used whatever
\* became of the DTLS peer, as long as it has an entry.
ReadyPeer(e, ok) ==
  IF dtls[e] = NoPeer THEN NoPeer
  ELSE IF srtp[e] \notin {NoPeer, 0} THEN srtp[e]
  ELSE IF dtls[e].phase = "complete" /\ ok THEN dtls[e].ssl ELSE 0

-----------------------------------------------------------------------------
(* Rebinding, as functions of the maps *)

\* Faulty: the SRTP sessions are dropped instead of moved.
SrtpRebindDropped(S, a, b) ==
  IF S[a] = NoPeer THEN [result |-> "absent", peers |-> S]
  ELSE IF a # b /\ S[b] # NoPeer THEN [result |-> "error", peers |-> S]
  ELSE [result |-> "moved", peers |-> [S EXCEPT ![a] = NoPeer]]

\* srtp_transport::rebind_peer
SrtpRebind(S, a, b) ==
  IF S[a] = NoPeer THEN [result |-> "absent", peers |-> S]
  ELSE IF a # b /\ S[b] # NoPeer THEN [result |-> "error", peers |-> S]
  ELSE [result |-> "moved", peers |-> [S EXCEPT ![a] = NoPeer, ![b] = S[a]]]

\* dtls_transport::rebind_peer; mtu says that OpenSSL takes the MTU of the new
\* endpoint's network.
DtlsRebind(D, a, b, mtu) ==
  IF D[a] = NoPeer \/ (D[a] # NoPeer /\ D[a].phase # "complete")
  THEN [result |-> "absent", peers |-> D]
  ELSE IF (a # b /\ D[b] # NoPeer) \/ ~mtu THEN [result |-> "error", peers |-> D]
  ELSE [result |-> "moved",
        peers |-> [D EXCEPT ![a] = NoPeer, ![b] = [D[a] EXCEPT !.family = Family(b)]]]

\* Faulty: the moved SRTP peer stays where it is.
RollbackSkipped(S, a, b) == S

\* The SRTP peer is moved back, or both entries are forgotten.
Rollback(S, a, b) ==
  LET r == SrtpRebind(S, b, a)
  IN IF r.result = "moved" THEN r.peers
     ELSE [S EXCEPT ![a] = NoPeer, ![b] = NoPeer]

\* Faulty: without a complete handshake the DTLS peer is forgotten, the SRTP
\* peer is not.
RebindPeerKeepSrtp(a, b, mtu) ==
  LET s == SrtpRebind(srtp, a, b)
      d == DtlsRebind(dtls, a, b, mtu)
      undone == IF s.result = "moved" THEN Rollback(s.peers, a, b) ELSE s.peers
  IN IF s.result = "error" \/ d.result = "error"
     THEN [result |-> "error", srtp |-> undone, dtls |-> d.peers]
     ELSE IF d.result = "absent"
     THEN [result |-> "fresh", srtp |-> undone, dtls |-> [dtls EXCEPT ![a] = NoPeer]]
     ELSE [result |-> "rebound", srtp |-> s.peers, dtls |-> d.peers]

\* Faulty: without a complete handshake nothing is forgotten.
RebindPeerKeepOld(a, b, mtu) ==
  LET s == SrtpRebind(srtp, a, b)
      d == DtlsRebind(dtls, a, b, mtu)
      undone == IF s.result = "moved" THEN Rollback(s.peers, a, b) ELSE s.peers
  IN IF s.result = "error" \/ d.result = "error"
     THEN [result |-> "error", srtp |-> undone, dtls |-> d.peers]
     ELSE IF d.result = "absent"
     THEN [result |-> "fresh", srtp |-> undone, dtls |-> dtls]
     ELSE [result |-> "rebound", srtp |-> s.peers, dtls |-> d.peers]

\* rebind_session_transport_peer: SRTP first, then DTLS.  If DTLS fails, SRTP is
\* moved back; if there is no complete handshake to move, both are forgotten
\* and the new endpoint starts afresh.
RebindPeer(a, b, mtu) ==
  LET s == SrtpRebind(srtp, a, b)
      d == DtlsRebind(dtls, a, b, mtu)
      undone == IF s.result = "moved" THEN Rollback(s.peers, a, b) ELSE s.peers
  IN IF s.result = "error"
     THEN [result |-> "error", srtp |-> srtp, dtls |-> dtls]
     ELSE IF d.result = "error"
     THEN [result |-> "error", srtp |-> undone, dtls |-> dtls]
     ELSE IF d.result = "absent"
     THEN [result |-> "fresh", srtp |-> [undone EXCEPT ![a] = NoPeer],
           dtls |-> [dtls EXCEPT ![a] = NoPeer]]
     ELSE [result |-> "rebound", srtp |-> s.peers, dtls |-> d.peers]

-----------------------------------------------------------------------------
(* Handlers *)

\* A STUN request with USE-CANDIDATE from e passes handle_session_stun_binding:
\* nominate_remote_endpoint.
Nominate(e, mtu) ==
  /\ ~closed
  /\ selected # e
  /\ \/ /\ selected = NoEndpoint
        /\ selected' = e
        /\ UNCHANGED <<dtls, srtp>>
     \/ /\ selected # NoEndpoint
        /\ LET r == RebindPeer(selected, e, mtu)
           IN /\ dtls' = r.dtls
              /\ srtp' = r.srtp
              /\ selected' = IF r.result = "error" THEN selected ELSE e
  /\ UNCHANGED <<nextSsl, closed, created>>

\* handle_udp_packet with a DTLS record from the selected endpoint:
\* remember_peer, then handle_udp_packet of the DTLS transport.
DtlsPacket(event) ==
  /\ ~closed
  /\ selected # NoEndpoint
  /\ nextSsl <= MaxSsl
  /\ LET p == IF dtls[selected] = NoPeer THEN NewPeer ELSE dtls[selected]
         q == Processed(p, selected, event)
     IN /\ dtls' = [dtls EXCEPT ![selected] = q]
        /\ nextSsl' = IF q.ssl = nextSsl THEN nextSsl + 1 ELSE nextSsl
  /\ UNCHANGED <<selected, srtp, closed, created>>

\* A packet from the selected endpoint is unprotected, or one for it is
\* protected: handle_inbound_packet, peer_ready, protect_outbound_packet.
SrtpPacket(ok) ==
  /\ ~closed
  /\ selected # NoEndpoint
  /\ LET keys == ReadyPeer(selected, ok)
     IN /\ srtp' = [srtp EXCEPT ![selected] = keys]
        /\ created' = created \cup ({keys} \ {NoPeer, 0})
  /\ UNCHANGED <<selected, dtls, nextSsl, closed>>

\* close(): an RTCP BYE may be protected and sent, then clear_peer_state.
Close(ok) ==
  /\ ~closed
  /\ closed' = TRUE
  /\ selected' = NoEndpoint
  /\ \/ /\ selected = NoEndpoint
        /\ UNCHANGED <<dtls, srtp, created>>
     \/ /\ selected # NoEndpoint
        /\ dtls' = [dtls EXCEPT ![selected] = NoPeer]
        /\ srtp' = [srtp EXCEPT ![selected] = NoPeer]
        /\ created' = created \cup ({ReadyPeer(selected, ok)} \ {NoPeer, 0})
  /\ UNCHANGED nextSsl

Next ==
  \/ \E e \in Endpoints, mtu \in BOOLEAN : Nominate(e, mtu)
  \/ \E event \in {"unparsed", "error", "processed", "finished"} : DtlsPacket(event)
  \/ \E ok \in BOOLEAN : SrtpPacket(ok) \/ Close(ok)

Spec == Init /\ [][Next]_vars

-----------------------------------------------------------------------------

\* Peer state exists for the selected endpoint and for no other, whatever
\* endpoints were nominated before and in which phase: so a rebind never finds
\* its destination taken, nothing of an abandoned endpoint is ever used again,
\* and a closed transport has forgotten everything.
OnlySelectedPeer ==
  \A e \in Endpoints : dtls[e] # NoPeer \/ srtp[e] # NoPeer => e = selected

\* The SRTP sessions of an endpoint use the keys of the DTLS association of
\* that endpoint: never those of an association that was replaced, and no
\* sessions outlive the entry of the DTLS peer they were made from.
KeysAgree ==
  \A e \in Endpoints :
    srtp[e] \notin {NoPeer, 0} =>
      /\ dtls[e] # NoPeer
      /\ dtls[e].phase \in {"complete", "failed"}
      /\ dtls[e].phase = "complete" => srtp[e] = dtls[e].ssl

\* The network family recorded for a peer is that of its endpoint, also after a
\* move between IPv4 and IPv6: the next record is never taken for one that
\* changed its network, which would end the association for good.
FamilyFollowsEndpoint ==
  \A e \in Endpoints :
    dtls[e] # NoPeer => dtls[e].family \in {"unknown", Family(e)}

\* Both of these: what the two peer maps hold follows the nominated endpoint.
PeersFollowSelection == OnlySelectedPeer /\ FamilyFollowsEndpoint

\* A nomination that succeeds takes an established association along: DTLS peer
\* and SRTP sessions (their packet indexes and replay windows) are those of
\* the old endpoint.
AssociationSurvives ==
  [][\A e \in Endpoints :
       /\ selected = e /\ selected' \in Endpoints \ {e}
       /\ dtls[e] # NoPeer /\ dtls[e].phase = "complete"
       => /\ dtls'[selected'] # NoPeer
          /\ dtls'[selected'].phase = "complete"
          /\ dtls'[selected'].ssl = dtls[e].ssl
          /\ srtp'[selected'] = srtp[e]]_vars

\* A nomination that fails leaves the association where it was, the SRTP peer
\* that had already been moved included.
FailedNominationChangesNothing ==
  [][\A e \in Endpoints, mtu \in BOOLEAN :
       Nominate(e, mtu) /\ selected' = selected => UNCHANGED <<dtls, srtp>>]_vars

\* SRTP sessions are made once from the keys of an association.  Making them
\* again would start their packet indexes again under the same keys.
SessionsMadeOnce ==
  [][\A e \in Endpoints :
       srtp'[e] \notin {NoPeer, 0} /\ srtp'[e] \in created =>
         \E f \in Endpoints : srtp[f] = srtp'[e]]_vars
=============================================================================
