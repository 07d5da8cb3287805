----------------------- MODULE PeerAssociationProofs -----------------------
(***************************************************************************)
(* Proofs for PeerAssociation, for every set of endpoints.                 *)
(*                                                                         *)
(* The four state properties are proved together with SessionInv, which    *)
(* says where the keys of SRTP sessions made so far can still be: that is  *)
(* what the action property SessionsMadeOnce needs.  Everything about a    *)
(* renomination follows from RebindOutcome: with peer state only at the    *)
(* selected endpoint, a rebind either changes nothing, or forgets          *)
(* everything, or moves the complete association as it is.                 *)
(***************************************************************************)
EXTENDS PeerAssociation, TLAPS

\* SRTP sessions were made only from SSL objects that exist or existed, the
\* sessions there are have been made, and an association whose keys have been
\* used still has these sessions.
SessionInv ==
  /\ \A k \in created : k < nextSsl
  /\ \A e \in Endpoints : srtp[e] \notin {NoPeer, 0} => srtp[e] \in created
  /\ \A e \in Endpoints :
       dtls[e] # NoPeer /\ dtls[e].ssl # 0 =>
         /\ dtls[e].ssl < nextSsl
         /\ dtls[e].ssl \in created => srtp[e] = dtls[e].ssl

PeerInv ==
  TypeOK /\ OnlySelectedPeer /\ KeysAgree /\ FamilyFollowsEndpoint /\ SessionInv

Complete(p) == p # NoPeer /\ p.phase = "complete"

LEMMA InitInv == ASSUME Init PROVE PeerInv
<1>1. \A e \in Endpoints : dtls[e] = NoPeer /\ srtp[e] = NoPeer
  BY DEF Init
<1>2. TypeOK
  <2>1. closed \in BOOLEAN /\ created \in SUBSET Nat /\ selected \in Endpoints \cup {NoEndpoint}
    BY Zenon DEF Init
  <2> QED
    BY <1>1, <2>1 DEF Init, TypeOK
<1>3. OnlySelectedPeer /\ KeysAgree /\ FamilyFollowsEndpoint
  BY <1>1 DEF OnlySelectedPeer, KeysAgree, FamilyFollowsEndpoint
<1>4. SessionInv
  BY <1>1 DEF Init, SessionInv
<1> QED
  BY <1>2, <1>3, <1>4 DEF PeerInv

-----------------------------------------------------------------------------
(* Renomination *)

LEMMA SrtpMoved ==
  ASSUME PeerInv, NEW a \in Endpoints, NEW b \in Endpoints, a = selected, a # b,
         srtp[a] # NoPeer
  PROVE  SrtpRebind(srtp, a, b) =
           [result |-> "moved", peers |-> [srtp EXCEPT ![a] = NoPeer, ![b] = srtp[a]]]
<1>1. srtp[b] = NoPeer
  BY DEF PeerInv, OnlySelectedPeer
<1> QED
  BY <1>1 DEF SrtpRebind

LEMMA SrtpUndone ==
  ASSUME PeerInv, NEW a \in Endpoints, NEW b \in Endpoints, a = selected, a # b,
         srtp[a] # NoPeer
  PROVE  Rollback([srtp EXCEPT ![a] = NoPeer, ![b] = srtp[a]], a, b) = srtp
<1> DEFINE S == [srtp EXCEPT ![a] = NoPeer, ![b] = srtp[a]]
<1>1. srtp \in [Endpoints -> Nat \cup {NoPeer}] /\ srtp[b] = NoPeer
  BY DEF PeerInv, TypeOK, OnlySelectedPeer
<1>2. S[a] = NoPeer /\ S[b] = srtp[a]
  BY <1>1
<1>3. SrtpRebind(S, b, a) = [result |-> "moved", peers |-> [S EXCEPT ![b] = NoPeer, ![a] = S[b]]]
  BY <1>2 DEF SrtpRebind
<1>4. [S EXCEPT ![b] = NoPeer, ![a] = S[b]] = srtp
  BY <1>1, <1>2
<1> QED
  BY <1>3, <1>4 DEF Rollback

\* Everything as before, everything at a forgotten, or moved from a to b.
RebindResult(r, a, b) ==
  \/ /\ r.result = "error"
     /\ r.srtp = srtp /\ r.dtls = dtls
  \/ /\ r.result = "fresh" /\ ~Complete(dtls[a])
     /\ r.srtp = [srtp EXCEPT ![a] = NoPeer]
     /\ r.dtls = [dtls EXCEPT ![a] = NoPeer]
  \/ /\ r.result = "rebound" /\ Complete(dtls[a])
     /\ r.srtp = [srtp EXCEPT ![a] = NoPeer, ![b] = srtp[a]]
     /\ r.dtls = [dtls EXCEPT ![a] = NoPeer, ![b] = [dtls[a] EXCEPT !.family = Family(b)]]

LEMMA RebindOutcome ==
  ASSUME PeerInv, NEW a \in Endpoints, NEW b \in Endpoints, a = selected, a # b,
         NEW mtu \in BOOLEAN
  PROVE  RebindResult(RebindPeer(a, b, mtu), a, b)
<1> DEFINE s == SrtpRebind(srtp, a, b)
           d == DtlsRebind(dtls, a, b, mtu)
           undone == IF s.result = "moved" THEN Rollback(s.peers, a, b) ELSE s.peers
<1>1. srtp \in [Endpoints -> Nat \cup {NoPeer}] /\ srtp[b] = NoPeer /\ dtls[b] = NoPeer
  BY DEF PeerInv, TypeOK, OnlySelectedPeer
<1>2. /\ s.result # "error"
      /\ undone = srtp
      /\ s.peers = [srtp EXCEPT ![a] = NoPeer, ![b] = srtp[a]]
  <2>1. CASE srtp[a] = NoPeer
    <3>1. s = [result |-> "absent", peers |-> srtp]
      BY <2>1 DEF SrtpRebind
    <3>2. srtp = [srtp EXCEPT ![a] = NoPeer, ![b] = srtp[a]]
      BY <1>1, <2>1
    <3> QED
      BY <3>1, <3>2
  <2>2. CASE srtp[a] # NoPeer
    BY <2>2, SrtpMoved, SrtpUndone
  <2> QED
    BY <2>1, <2>2
<1>3. \/ /\ ~Complete(dtls[a]) /\ d.result = "absent"
      \/ /\ Complete(dtls[a]) /\ d.result = "error"
      \/ /\ Complete(dtls[a]) /\ d.result = "moved"
         /\ d.peers = [dtls EXCEPT ![a] = NoPeer,
                                   ![b] = [dtls[a] EXCEPT !.family = Family(b)]]
  BY <1>1 DEF DtlsRebind, Complete
<1> QED
  BY <1>2, <1>3 DEF RebindPeer, RebindResult

\* The complete association a peer has at endpoint a goes on at endpoint e.
LEMMA ReboundInv ==
  ASSUME PeerInv, NEW a \in Endpoints, NEW e \in Endpoints, a = selected, a # e,
         NEW q, q = [dtls[a] EXCEPT !.family = Family(e)], Complete(dtls[a]),
         selected' = e,
         dtls' = [dtls EXCEPT ![a] = NoPeer, ![e] = q],
         srtp' = [srtp EXCEPT ![a] = NoPeer, ![e] = srtp[a]],
         UNCHANGED <<nextSsl, closed, created>>
  PROVE  PeerInv'
<1>1. TypeOK /\ OnlySelectedPeer /\ KeysAgree /\ SessionInv
  BY DEF PeerInv
<1>2. dtls[a] \in DtlsPeer /\ dtls[a].phase = "complete" /\ OwnsSsl(dtls[a])
  BY <1>1 DEF TypeOK, Complete
<1>3. /\ q \in DtlsPeer /\ q # NoPeer /\ q.phase = "complete" /\ q.ssl = dtls[a].ssl
      /\ q.family = Family(e) /\ OwnsSsl(q)
  BY <1>2, PeerAssumption DEF DtlsPeer, OwnsSsl, Family, Families
<1>4. /\ dtls'[e] = q /\ srtp'[e] = srtp[a]
      /\ \A f \in Endpoints : f # e => dtls'[f] = NoPeer /\ srtp'[f] = NoPeer
  BY <1>1 DEF TypeOK, OnlySelectedPeer
<1>5. TypeOK'
  BY <1>1, <1>3, <1>4 DEF TypeOK
<1>6. OnlySelectedPeer'
  BY <1>4 DEF OnlySelectedPeer
<1>7. srtp[a] \notin {NoPeer, 0} => srtp[a] = dtls[a].ssl /\ srtp[a] \in created
  BY <1>1, <1>2 DEF KeysAgree, SessionInv
<1>8. KeysAgree'
  BY <1>3, <1>4, <1>7 DEF KeysAgree
<1>9. FamilyFollowsEndpoint'
  BY <1>3, <1>4 DEF FamilyFollowsEndpoint
<1>10. dtls[a].ssl # 0 => /\ dtls[a].ssl < nextSsl
                          /\ dtls[a].ssl \in created => srtp[a] = dtls[a].ssl
  BY <1>1 DEF SessionInv, Complete
<1>11. SessionInv'
  <2>1. nextSsl' = nextSsl /\ created' = created /\ \A k \in created : k < nextSsl
    BY <1>1 DEF SessionInv
  <2>2. ASSUME NEW f \in Endpoints, srtp'[f] \notin {NoPeer, 0}
        PROVE  srtp'[f] \in created
    BY <1>4, <1>7, <2>2
  <2>3. ASSUME NEW f \in Endpoints, dtls'[f] # NoPeer, dtls'[f].ssl # 0
        PROVE  /\ dtls'[f].ssl < nextSsl
               /\ dtls'[f].ssl \in created => srtp'[f] = dtls'[f].ssl
    <3>1. f = e
      BY <1>4, <2>3
    <3> QED
      BY <1>3, <1>4, <1>10, <2>3, <3>1
  <2> QED
    BY <2>1, <2>2, <2>3 DEF SessionInv
<1> QED
  BY <1>5, <1>6, <1>8, <1>9, <1>11 DEF PeerInv

LEMMA NominateInv ==
  ASSUME PeerInv, NEW e \in Endpoints, NEW mtu \in BOOLEAN, Nominate(e, mtu)
  PROVE  PeerInv'
<1>1. CASE selected = NoEndpoint
  BY <1>1, PeerAssumption
  DEF PeerInv, Nominate, TypeOK, OnlySelectedPeer, KeysAgree, FamilyFollowsEndpoint,
      SessionInv
<1>2. CASE selected # NoEndpoint
  <2>1. selected \in Endpoints /\ selected # e
    BY <1>2 DEF PeerInv, TypeOK, Nominate
  <2>2. PICK r : /\ r = RebindPeer(selected, e, mtu)
                 /\ dtls' = r.dtls /\ srtp' = r.srtp
                 /\ selected' = IF r.result = "error" THEN selected ELSE e
                 /\ UNCHANGED <<nextSsl, closed, created>>
    BY <1>2 DEF Nominate
  <2>3. CASE r.result = "error" /\ r.srtp = srtp /\ r.dtls = dtls
    BY <2>2, <2>3
    DEF PeerInv, TypeOK, OnlySelectedPeer, KeysAgree, FamilyFollowsEndpoint, SessionInv
  <2>4. CASE /\ r.result = "fresh" /\ ~Complete(dtls[selected])
             /\ r.srtp = [srtp EXCEPT ![selected] = NoPeer]
             /\ r.dtls = [dtls EXCEPT ![selected] = NoPeer]
    BY <2>1, <2>2, <2>4
    DEF PeerInv, TypeOK, OnlySelectedPeer, KeysAgree, FamilyFollowsEndpoint, SessionInv
  <2>5. CASE /\ r.result = "rebound" /\ Complete(dtls[selected])
             /\ r.srtp = [srtp EXCEPT ![selected] = NoPeer, ![e] = srtp[selected]]
             /\ r.dtls = [dtls EXCEPT ![selected] = NoPeer,
                                      ![e] = [dtls[selected] EXCEPT !.family = Family(e)]]
    BY <2>1, <2>2, <2>5, ReboundInv
  <2>6. RebindResult(r, selected, e)
    BY <2>1, <2>2, RebindOutcome
  <2> QED
    BY <2>2, <2>3, <2>4, <2>5, <2>6 DEF RebindResult
<1> QED
  BY <1>1, <1>2

-----------------------------------------------------------------------------
(* The other handlers, which only touch the entries of the selected endpoint *)

\* What a record does to a peer.
LEMMA ProcessedPeer ==
  ASSUME PeerInv, NEW e \in Endpoints, NEW event,
         NEW p \in DtlsPeer, OwnsSsl(p), p.family \in {"unknown", Family(e)}
  PROVE  LET q == Processed(p, e, event)
         IN /\ q \in DtlsPeer /\ OwnsSsl(q)
            /\ q.family \in {"unknown", Family(e)}
            /\ \/ q.ssl = p.ssl /\ q.phase = p.phase
               \/ q.ssl = p.ssl /\ p.phase = "handshaking" /\ q.phase = "complete"
               \/ q.phase = "failed" /\ q.ssl = 0
               \/ p.phase = "idle" /\ q.phase = "handshaking" /\ q.ssl = nextSsl
  BY DEF PeerInv, TypeOK, Processed, Failed, Started, DtlsPeer, OwnsSsl, Family,
         Families, Phases

LEMMA DtlsPacketInv ==
  ASSUME PeerInv, NEW event, DtlsPacket(event)
  PROVE  PeerInv'
<1>1. /\ selected \in Endpoints
      /\ TypeOK /\ OnlySelectedPeer /\ KeysAgree /\ FamilyFollowsEndpoint /\ SessionInv
  BY DEF DtlsPacket, PeerInv, TypeOK
<1>2. PICK p, q :
        /\ p = IF dtls[selected] = NoPeer THEN NewPeer ELSE dtls[selected]
        /\ q = Processed(p, selected, event)
        /\ dtls' = [dtls EXCEPT ![selected] = q]
        /\ nextSsl' = IF q.ssl = nextSsl THEN nextSsl + 1 ELSE nextSsl
        /\ UNCHANGED <<selected, srtp, closed, created>>
  BY DEF DtlsPacket
<1>3. p \in DtlsPeer /\ OwnsSsl(p) /\ p.family \in {"unknown", Family(selected)}
  BY <1>1, <1>2
  DEF TypeOK, NewPeer, DtlsPeer, Phases, Families, OwnsSsl, FamilyFollowsEndpoint
<1>4. /\ q \in DtlsPeer /\ OwnsSsl(q)
      /\ q.family \in {"unknown", Family(selected)}
      /\ \/ q.ssl = p.ssl /\ q.phase = p.phase
         \/ q.ssl = p.ssl /\ p.phase = "handshaking" /\ q.phase = "complete"
         \/ q.phase = "failed" /\ q.ssl = 0
         \/ p.phase = "idle" /\ q.phase = "handshaking" /\ q.ssl = nextSsl
  BY <1>1, <1>2, <1>3, ProcessedPeer
<1>5. /\ q # NoPeer /\ dtls'[selected] = q
      /\ \A f \in Endpoints : f # selected => dtls'[f] = dtls[f]
  BY <1>1, <1>2, <1>4, PeerAssumption DEF TypeOK
<1>6. TypeOK'
  BY <1>1, <1>2, <1>4, <1>5 DEF TypeOK
<1>7. OnlySelectedPeer' /\ FamilyFollowsEndpoint'
  BY <1>1, <1>2, <1>4, <1>5 DEF OnlySelectedPeer, FamilyFollowsEndpoint
<1>8. KeysAgree'
  <2>1. srtp[selected] \notin {NoPeer, 0} =>
          /\ q.phase \in {"complete", "failed"}
          /\ q.phase = "complete" => srtp[selected] = q.ssl
    BY <1>1, <1>2, <1>4 DEF KeysAgree
  <2> QED
    BY <1>1, <1>2, <1>5, <2>1 DEF KeysAgree
<1>9. nextSsl \in Nat /\ nextSsl' \in Nat /\ nextSsl <= nextSsl'
  BY <1>1, <1>2 DEF TypeOK
<1>10. \A k \in created : k \in Nat /\ k < nextSsl
  BY <1>1 DEF TypeOK, SessionInv
<1>11. q.ssl # 0 => /\ q.ssl < nextSsl'
                    /\ q.ssl \in created => srtp[selected] = q.ssl
  <2>1. CASE q.ssl = p.ssl
    BY <1>1, <1>2, <1>3, <1>9, <2>1 DEF SessionInv, NewPeer, DtlsPeer
  <2>2. CASE q.ssl = nextSsl
    BY <1>2, <1>9, <1>10, <2>2
  <2> QED
    BY <1>4, <2>1, <2>2
<1>12. SessionInv'
  <2>1. ASSUME NEW f \in Endpoints, dtls[f] # NoPeer, dtls[f].ssl # 0
        PROVE  dtls[f].ssl \in Nat /\ dtls[f].ssl < nextSsl
    BY <1>1, <2>1 DEF SessionInv, TypeOK, DtlsPeer
  <2> QED
    BY <1>1, <1>2, <1>5, <1>9, <1>10, <1>11, <2>1 DEF SessionInv
<1> QED
  BY <1>6, <1>7, <1>8, <1>12 DEF PeerInv

\* The entry find_ready_peer leaves.
LEMMA ReadyPeerKeys ==
  ASSUME PeerInv, NEW e \in Endpoints, NEW ok \in BOOLEAN,
         ReadyPeer(e, ok) \notin {NoPeer, 0}
  PROVE  /\ ReadyPeer(e, ok) \in Nat
         /\ dtls[e] # NoPeer
         /\ \/ ReadyPeer(e, ok) = srtp[e]
            \/ /\ srtp[e] \in {NoPeer, 0}
               /\ dtls[e].phase = "complete" /\ ReadyPeer(e, ok) = dtls[e].ssl
  BY DEF PeerInv, TypeOK, ReadyPeer, DtlsPeer

\* The keys found are those of the peer, and older than the next SSL object.
LEMMA ReadyPeerInv ==
  ASSUME PeerInv, NEW e \in Endpoints, NEW ok \in BOOLEAN
  PROVE  LET keys == ReadyPeer(e, ok)
         IN /\ keys \in Nat \cup {NoPeer}
            /\ keys # NoPeer => dtls[e] # NoPeer
            /\ srtp[e] \notin {NoPeer, 0} => keys = srtp[e]
            /\ keys \notin {NoPeer, 0} =>
                 /\ dtls[e].phase \in {"complete", "failed"}
                 /\ dtls[e].phase = "complete" => keys = dtls[e].ssl
                 /\ keys \in created \/ keys < nextSsl
  BY PeerAssumption, ReadyPeerKeys
  DEF PeerInv, ReadyPeer, TypeOK, KeysAgree, SessionInv, DtlsPeer, OwnsSsl

LEMMA SrtpPacketInv ==
  ASSUME PeerInv, NEW ok \in BOOLEAN, SrtpPacket(ok)
  PROVE  PeerInv'
<1>1. /\ selected \in Endpoints
      /\ TypeOK /\ OnlySelectedPeer /\ KeysAgree /\ FamilyFollowsEndpoint /\ SessionInv
  BY DEF SrtpPacket, PeerInv, TypeOK
<1>2. PICK keys :
        /\ keys = ReadyPeer(selected, ok)
        /\ srtp' = [srtp EXCEPT ![selected] = keys]
        /\ created' = created \cup ({keys} \ {NoPeer, 0})
        /\ UNCHANGED <<selected, dtls, nextSsl, closed>>
  BY DEF SrtpPacket
<1>3. /\ keys \in Nat \cup {NoPeer}
      /\ keys # NoPeer => dtls[selected] # NoPeer
      /\ srtp[selected] \notin {NoPeer, 0} /\ keys # NoPeer => keys = srtp[selected]
      /\ keys \notin {NoPeer, 0} =>
           /\ dtls[selected].phase \in {"complete", "failed"}
           /\ dtls[selected].phase = "complete" => keys = dtls[selected].ssl
           /\ keys \in created \/ keys < nextSsl
  BY <1>1, <1>2, ReadyPeerInv
<1>4. /\ srtp'[selected] = keys
      /\ \A f \in Endpoints : f # selected => srtp'[f] = srtp[f]
  BY <1>1, <1>2 DEF TypeOK
<1>5. TypeOK'
  BY <1>1, <1>2, <1>3 DEF TypeOK
<1>6. OnlySelectedPeer' /\ FamilyFollowsEndpoint'
  BY <1>1, <1>2, <1>4 DEF OnlySelectedPeer, FamilyFollowsEndpoint
<1>7. KeysAgree'
  BY <1>1, <1>2, <1>3, <1>4 DEF KeysAgree
<1>8. \A k \in created' : k < nextSsl
  BY <1>1, <1>2, <1>3 DEF SessionInv
<1>9. \A f \in Endpoints : srtp'[f] \notin {NoPeer, 0} => srtp'[f] \in created'
  BY <1>1, <1>2, <1>4 DEF SessionInv
<1>10. ASSUME NEW f \in Endpoints, dtls[f] # NoPeer, dtls[f].ssl # 0
       PROVE  /\ dtls[f].ssl < nextSsl
              /\ dtls[f].ssl \in created' => srtp'[f] = dtls[f].ssl
  <2>1. f = selected
    BY <1>1, <1>10 DEF OnlySelectedPeer
  <2>2. /\ dtls[f].ssl < nextSsl /\ dtls[f].ssl \in Nat
        /\ dtls[f].ssl \in created => srtp[f] = dtls[f].ssl
        /\ dtls[f].phase # "failed"
    BY <1>1, <1>10 DEF SessionInv, TypeOK, DtlsPeer, OwnsSsl
  <2>3. CASE dtls[f].ssl \in created
    <3>1. srtp[f] \notin {NoPeer, 0}
      BY <1>10, <2>2, <2>3, PeerAssumption
    <3>2. keys = srtp[f]
      BY <1>2, <1>10, <2>1, <3>1 DEF ReadyPeer
    <3> QED
      BY <1>4, <2>1, <2>2, <2>3, <3>2
  <2>4. CASE dtls[f].ssl \notin created
    BY <1>2, <1>3, <1>4, <2>1, <2>2, <2>4
  <2> QED
    BY <2>3, <2>4
<1>11. SessionInv'
  BY <1>2, <1>8, <1>9, <1>10 DEF SessionInv
<1> QED
  BY <1>5, <1>6, <1>7, <1>11 DEF PeerInv

LEMMA CloseInv ==
  ASSUME PeerInv, NEW ok \in BOOLEAN, Close(ok)
  PROVE  PeerInv'
<1>1. TypeOK /\ OnlySelectedPeer /\ SessionInv
  BY DEF PeerInv
<1>2. /\ dtls' \in [Endpoints -> DtlsPeer \cup {NoPeer}]
      /\ srtp' \in [Endpoints -> Nat \cup {NoPeer}]
      /\ \A f \in Endpoints : dtls'[f] = NoPeer /\ srtp'[f] = NoPeer
  <2>1. CASE selected = NoEndpoint
    BY <1>1, <2>1, PeerAssumption DEF Close, TypeOK, OnlySelectedPeer
  <2>2. CASE selected # NoEndpoint
    BY <1>1, <2>2 DEF Close, TypeOK, OnlySelectedPeer
  <2> QED
    BY <2>1, <2>2
<1>3. closed' \in BOOLEAN
  BY Zenon DEF Close
<1>4. created' \in SUBSET Nat /\ \A k \in created' : k < nextSsl
  <2>1. CASE selected = NoEndpoint
    BY <1>1, <2>1 DEF Close, TypeOK, SessionInv
  <2>2. CASE selected # NoEndpoint
    <3>1. selected \in Endpoints
      BY <1>1, <2>2 DEF TypeOK
    <3>2. PICK keys : /\ keys = ReadyPeer(selected, ok)
                      /\ created' = created \cup ({keys} \ {NoPeer, 0})
      BY <2>2 DEF Close
    <3>3. /\ keys \in Nat \cup {NoPeer}
          /\ keys \notin {NoPeer, 0} => keys \in created \/ keys < nextSsl
      BY <3>1, <3>2, ReadyPeerInv
    <3> QED
      BY <1>1, <3>2, <3>3 DEF TypeOK, SessionInv
  <2> QED
    BY <2>1, <2>2
<1>5. selected' = NoEndpoint /\ nextSsl' = nextSsl
  BY DEF Close
<1>6. TypeOK'
  BY <1>1, <1>2, <1>3, <1>4, <1>5 DEF TypeOK
<1>7. OnlySelectedPeer' /\ KeysAgree' /\ FamilyFollowsEndpoint'
  BY <1>2 DEF OnlySelectedPeer, KeysAgree, FamilyFollowsEndpoint
<1>8. SessionInv'
  BY <1>2, <1>4, <1>5 DEF SessionInv
<1> QED
  BY <1>6, <1>7, <1>8 DEF PeerInv

LEMMA NextInv == ASSUME PeerInv, [Next]_vars PROVE PeerInv'
<1>1. CASE UNCHANGED vars
  BY <1>1 DEF vars, PeerInv, TypeOK, OnlySelectedPeer, KeysAgree,
              FamilyFollowsEndpoint, SessionInv
<1> QED
  BY <1>1, NominateInv, DtlsPacketInv, SrtpPacketInv, CloseInv DEF Next

\* In every state peer state exists at the selected endpoint only, sessions use
\* the keys of its association, and keys once used are still in use or gone.
THEOREM PeerInvariant == Spec => []PeerInv
  BY InitInv, NextInv, PTL DEF Spec

-----------------------------------------------------------------------------
(* The state properties *)

\* The maps of both transports stay well formed: an SSL object belongs to a
\* peer exactly from its first record to the failure of its handshake.
THEOREM PeerTypeCorrect == Spec => []TypeOK
<1>1. PeerInv => TypeOK
  BY DEF PeerInv
<1> QED
  BY <1>1, PeerInvariant, PTL

\* However endpoints are nominated and renominated, rebind_peer never finds its
\* destination taken, no entry is left at an abandoned endpoint, and the family
\* check of dtls_transport::handle_udp_packet never fails a peer because ICE
\* moved it to another network.
THEOREM NoPeerLeftBehind == Spec => []PeersFollowSelection
<1>1. PeerInv => PeersFollowSelection
  BY DEF PeerInv, PeersFollowSelection
<1> QED
  BY <1>1, PeerInvariant, PTL

\* Packets are protected with keys of the association at their endpoint.
THEOREM KeysFollowAssociation == Spec => []KeysAgree
<1>1. PeerInv => KeysAgree
  BY DEF PeerInv
<1> QED
  BY <1>1, PeerInvariant, PTL

-----------------------------------------------------------------------------
(* The action properties *)

\* What a renomination does to the variables.
LEMMA RenominateStep ==
  ASSUME PeerInv, NEW e \in Endpoints, NEW mtu \in BOOLEAN, Nominate(e, mtu),
         selected # NoEndpoint
  PROVE  /\ selected \in Endpoints /\ selected # e
         /\ \E r : /\ RebindResult(r, selected, e)
                   /\ dtls' = r.dtls /\ srtp' = r.srtp
                   /\ selected' = IF r.result = "error" THEN selected ELSE e
<1>1. selected \in Endpoints /\ selected # e
  BY DEF PeerInv, TypeOK, Nominate
<1>2. RebindResult(RebindPeer(selected, e, mtu), selected, e)
  BY <1>1, RebindOutcome
<1> QED
  BY <1>1, <1>2 DEF Nominate

LEMMA SurvivesStep ==
  ASSUME PeerInv, [Next]_vars, NEW e \in Endpoints,
         selected = e, selected' \in Endpoints \ {e}, Complete(dtls[e])
  PROVE  /\ Complete(dtls'[selected'])
         /\ dtls'[selected'].ssl = dtls[e].ssl
         /\ srtp'[selected'] = srtp[e]
<1>1. PICK f \in Endpoints, mtu \in BOOLEAN : Nominate(f, mtu)
  BY PeerAssumption DEF Next, vars, DtlsPacket, SrtpPacket, Close
<1>2. selected # NoEndpoint
  BY PeerAssumption
<1>3. PICK r : /\ RebindResult(r, selected, f)
               /\ dtls' = r.dtls /\ srtp' = r.srtp
               /\ selected' = IF r.result = "error" THEN selected ELSE f
  BY <1>1, <1>2, RenominateStep
<1>4. /\ selected' = f
      /\ srtp' = [srtp EXCEPT ![e] = NoPeer, ![f] = srtp[e]]
      /\ dtls' = [dtls EXCEPT ![e] = NoPeer, ![f] = [dtls[e] EXCEPT !.family = Family(f)]]
  BY <1>3 DEF RebindResult
<1>5. /\ dtls \in [Endpoints -> DtlsPeer \cup {NoPeer}]
      /\ srtp \in [Endpoints -> Nat \cup {NoPeer}]
      /\ dtls[e] \in DtlsPeer
  BY DEF PeerInv, TypeOK, Complete
<1>6. PICK q : q = [dtls[e] EXCEPT !.family = Family(f)]
  OBVIOUS
<1>7. q \in DtlsPeer /\ q # NoPeer /\ q.phase = "complete" /\ q.ssl = dtls[e].ssl
  BY <1>5, <1>6, PeerAssumption DEF DtlsPeer, Family, Families, Complete
<1>8. dtls'[f] = q /\ srtp'[f] = srtp[e]
  BY <1>4, <1>5, <1>6
<1> QED
  BY <1>4, <1>7, <1>8 DEF Complete

\* rebind_session_transport_peer takes an established association along: a
\* viewer or publisher that changes its network needs no second handshake.
THEOREM EstablishedPeerSurvives == Spec => AssociationSurvives
<1>1. PeerInv /\ [Next]_vars =>
        [\A e \in Endpoints :
           /\ selected = e /\ selected' \in Endpoints \ {e}
           /\ dtls[e] # NoPeer /\ dtls[e].phase = "complete"
           => /\ dtls'[selected'] # NoPeer
              /\ dtls'[selected'].phase = "complete"
              /\ dtls'[selected'].ssl = dtls[e].ssl
              /\ srtp'[selected'] = srtp[e]]_vars
  BY SurvivesStep DEF Complete
<1> QED
  BY <1>1, PeerInvariant, PTL DEF Spec, AssociationSurvives

LEMMA FailedStep ==
  ASSUME PeerInv, NEW e \in Endpoints, NEW mtu \in BOOLEAN, Nominate(e, mtu),
         selected' = selected
  PROVE  UNCHANGED <<dtls, srtp>>
<1>1. selected # NoEndpoint
  BY DEF Nominate
<1>2. PICK r : /\ RebindResult(r, selected, e)
               /\ dtls' = r.dtls /\ srtp' = r.srtp
               /\ selected' = IF r.result = "error" THEN selected ELSE e
  BY <1>1, RenominateStep
<1>3. selected # e
  BY DEF Nominate
<1> QED
  BY <1>2, <1>3 DEF RebindResult

\* When the DTLS part of a rebind fails, the SRTP peer is back where it was.
THEOREM FailedRebindIsUndone == Spec => FailedNominationChangesNothing
<1>1. PeerInv /\ [Next]_vars =>
        [\A e \in Endpoints, mtu \in BOOLEAN :
           Nominate(e, mtu) /\ selected' = selected => UNCHANGED <<dtls, srtp>>]_vars
  BY FailedStep
<1> QED
  BY <1>1, PeerInvariant, PTL DEF Spec, FailedNominationChangesNothing

LEMMA MadeOnceStep ==
  ASSUME PeerInv, [Next]_vars, NEW e \in Endpoints,
         srtp'[e] \notin {NoPeer, 0}, srtp'[e] \in created
  PROVE  \E f \in Endpoints : srtp[f] = srtp'[e]
<1>1. srtp \in [Endpoints -> Nat \cup {NoPeer}]
  BY DEF PeerInv, TypeOK
<1>2. CASE srtp' = srtp
  BY <1>2
<1>3. ASSUME NEW f \in Endpoints, NEW mtu \in BOOLEAN, Nominate(f, mtu)
      PROVE  \E g \in Endpoints : srtp[g] = srtp'[e]
  <2>1. CASE selected = NoEndpoint
    BY <1>2, <1>3, <2>1 DEF Nominate
  <2>2. CASE selected # NoEndpoint
    <3>1. /\ selected \in Endpoints
          /\ \/ srtp' = srtp
             \/ srtp' = [srtp EXCEPT ![selected] = NoPeer]
             \/ srtp' = [srtp EXCEPT ![selected] = NoPeer, ![f] = srtp[selected]]
      BY <1>3, <2>2, RenominateStep DEF RebindResult
    <3> QED
      BY <1>1, <3>1
  <2> QED
    BY <2>1, <2>2
<1>4. ASSUME NEW ok \in BOOLEAN, SrtpPacket(ok)
      PROVE  \E g \in Endpoints : srtp[g] = srtp'[e]
  <2>1. selected \in Endpoints /\ srtp' = [srtp EXCEPT ![selected] = ReadyPeer(selected, ok)]
    BY <1>4 DEF SrtpPacket, PeerInv, TypeOK
  <2>2. CASE e # selected
    BY <1>1, <2>1, <2>2
  <2>3. CASE e = selected
    <3>1. srtp'[e] = ReadyPeer(e, ok)
      BY <1>1, <2>1, <2>3
    <3>2. CASE ReadyPeer(e, ok) = srtp[e]
      BY <3>1, <3>2
    <3>3. CASE ReadyPeer(e, ok) # srtp[e]
      <4>1. dtls[e] # NoPeer /\ ReadyPeer(e, ok) = dtls[e].ssl
        BY <3>1, <3>3, ReadyPeerKeys
      <4> QED
        BY <3>1, <4>1 DEF PeerInv, SessionInv
    <3> QED
      BY <3>2, <3>3
  <2> QED
    BY <2>2, <2>3
<1>5. ASSUME NEW ok \in BOOLEAN, Close(ok)
      PROVE  \E g \in Endpoints : srtp[g] = srtp'[e]
  BY <1>1, <1>5 DEF Close
<1>6. CASE UNCHANGED vars
  BY <1>2, <1>6 DEF vars
<1>7. ASSUME NEW event, DtlsPacket(event)
      PROVE  srtp' = srtp
  BY <1>7 DEF DtlsPacket
<1> QED
  BY <1>2, <1>3, <1>4, <1>5, <1>6, <1>7 DEF Next

\* ensure_sessions_ready makes SRTP contexts from the keys of an association at
\* most once: packet indexes and replay windows never start again under them.
THEOREM NoKeyReuse == Spec => SessionsMadeOnce
<1>1. PeerInv /\ [Next]_vars =>
        [\A e \in Endpoints :
           srtp'[e] \notin {NoPeer, 0} /\ srtp'[e] \in created =>
             \E f \in Endpoints : srtp[f] = srtp'[e]]_vars
  BY MadeOnceStep
<1> QED
  BY <1>1, PeerInvariant, PTL DEF Spec, SessionsMadeOnce
=============================================================================
