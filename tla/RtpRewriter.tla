---------------------------- MODULE RtpRewriter ----------------------------
(***************************************************************************)
(* whep_rtp_rewriter: how the packets of a publisher become packets of one *)
(* WHEP subscriber.  A packet is assigned to an accepted media of the      *)
(* subscriber, gets the SSRC and payload type negotiated there, the next   *)
(* sequence number, and a timestamp on a line that goes on when the        *)
(* publisher, its SSRC or its codec changes.  RTX packets of the publisher *)
(* are forwarded with the original sequence number translated, and the     *)
(* transport's own retransmissions share the numbers of the RTX SSRC.      *)
(*                                                                         *)
(* The target SSRCs of a media are fixed by the SDP answer for the life    *)
(* of the session: they are named by the media, and the branch of          *)
(* set_config for a changed RTX SSRC is left out.  A packet carries the    *)
(* fields the rewriter looks at; ok says that its header extensions can be *)
(* written, which the code finds out after it has allocated a number.      *)
(* Packets that are dropped before any state changes are left out.         *)
(***************************************************************************)
EXTENDS Integers, Sequences, FiniteSets

CONSTANTS
  Settings,  \* the surroundings to look at, each one a record of the parameters below
  AllSsrcs,  \* SSRCs, of which a setting uses some
  InitialNumber, InitialOffset,  \* derived from the target SSRCs
  None

VARIABLE setting  \* chosen at the start and never changed

MediaCount == setting.mediaCount  \* accepted media of the subscriber
Ssrcs == setting.ssrcs            \* SSRCs a publisher uses
Configs == setting.configs        \* what make_whep_rtp_rewriter_config can return
SourceNumbers == setting.numbers  \* sequence numbers a publisher uses
SourceTimestamps == setting.timestamps  \* timestamps a publisher uses
SeqMod == setting.seqMod          \* 2^16
TsMod == setting.tsMod            \* 2^32
CacheLimit == setting.cacheLimit  \* k_sequence_cache_limit
MaxFailures == setting.maxFailures  \* bound: numbers lost to packets that cannot be built

VARIABLES
  available,  \* source_available
  config,     \* source_session_id and the media mappings, or None
  media,      \* media_runtime_state
  bindings,   \* source SSRC to media and kind, None for no entry
  failures,   \* history: numbers lost so far
  origin,     \* history: per cached target number of a media, the packet last
              \* sent with it
  line,       \* history: source and target timestamp of the last packet sent
              \* of the present source
  lastSent    \* history: the last number sent on the primary and RTX SSRC

vars == <<setting, available, config, media, bindings, failures, origin, line, lastSent>>

Media == 1..MediaCount

Numbers == 0..SeqMod - 1

Timestamps == 0..TsMod - 1

ASSUME RewriterAssumption ==
  \A x \in Settings :
    /\ x.mediaCount \in Nat \ {0} /\ x.ssrcCount \in 1..Cardinality(AllSsrcs)
    /\ x.seqMod \in Nat \ {0} /\ x.tsMod \in Nat \ {0}
    /\ x.cacheLimit \in 1..x.seqMod /\ x.maxFailures \in Nat
    /\ x.numbers \subseteq 0..x.seqMod - 1 /\ x.timestamps \subseteq 0..x.tsMod - 1
    /\ InitialNumber \in 0..x.seqMod - 1 /\ InitialOffset \in 0..x.tsMod - 1
    /\ None \notin (0..x.seqMod) \cup (0..x.tsMod) \cup AllSsrcs /\ None \notin x.configs
    /\ \A c \in x.configs, i \in 1..x.mediaCount : \A q \in DOMAIN c.maps[i].pts :
         q # None /\ c.maps[i].pts[q].clock \in Nat

\* Any of the SSRCs, as many as the setting has.
InitSetting ==
  \E x \in Settings, used \in SUBSET AllSsrcs :
    /\ Cardinality(used) = x.ssrcCount
    /\ setting = [mediaCount |-> x.mediaCount, ssrcs |-> used, configs |-> x.configs, numbers |-> x.numbers,
                  timestamps |-> x.timestamps, seqMod |-> x.seqMod, tsMod |-> x.tsMod, cacheLimit |-> x.cacheLimit,
                  maxFailures |-> x.maxFailures]

\* sequence_number_cache: the order of insertion and the map.
EmptyCache == [order |-> <<>>, values |-> [s \in Numbers |-> None]]

\* primary and rtx: source SSRCs.  next, nextRtx and last are None until they
\* are initialized, anchor until a source has begun.
NewMedia ==
  [primary |-> None, rtx |-> None, pt |-> None, clock |-> 0,
   next |-> None, nextRtx |-> None,
   last |-> None, anchor |-> None, target |-> 0,
   cache |-> EmptyCache]

Init ==
  /\ InitSetting
  /\ available = FALSE
  /\ config = None
  /\ media = [i \in Media |-> NewMedia]
  /\ bindings = [s \in Ssrcs |-> None]
  /\ failures = 0
  /\ origin = [i \in Media |-> [n \in Numbers |-> None]]
  /\ line = [i \in Media |-> None]
  /\ lastSent = [i \in Media |-> [primary |-> None, rtx |-> None]]

-----------------------------------------------------------------------------
(* Timestamps and sequence numbers *)

\* timestamp_is_newer
Newer(t, u) == LET d == (t - u + TsMod) % TsMod IN d > 0 /\ 2 * d < TsMod

\* The step from the line of one source to that of the next: 10 ms.
Step(clock) == IF clock \div 100 = 0 THEN 1 ELSE clock \div 100

\* translate_timestamp
OnLine(ms, ts) == (ms.target + (ts - ms.anchor + TsMod)) % TsMod

\* Faulty: the distance is added to the newest timestamp.
TranslatedFromNewest(ms, ts) == (ms.last + (ts - ms.anchor + TsMod)) % TsMod

Translated(ms, ts) == OnLine(ms, ts)

Newest(ms, t) == IF Newer(t, ms.last) THEN t ELSE ms.last

\* allocate_sequence_number
Allocated(next) == IF next = None THEN InitialNumber ELSE next

After(n) == (n + 1) % SeqMod

\* sequence_number_cache::remember
Remembered(c, s, t) ==
  LET order == Append(c.order, <<s, t>>)
      values == [c.values EXCEPT ![s] = t]
      oldest == Head(order)
  IN IF Len(order) <= CacheLimit
     THEN [order |-> order, values |-> values]
     ELSE [order |-> Tail(order),
           values |-> IF values[oldest[1]] = oldest[2]
                      THEN [values EXCEPT ![oldest[1]] = None] ELSE values]

-----------------------------------------------------------------------------
(* The source of a media *)

\* Faulty: the output starts afresh with the next source.
ClearedAll(ms) == NewMedia

\* Faulty: the RTX SSRC of the old source is kept.
ClearedKeepRtx(ms) ==
  [ms EXCEPT !.primary = None, !.pt = None, !.clock = 0, !.anchor = None,
             !.target = 0, !.cache = EmptyCache]

\* clear_source_state: next, nextRtx and last stay.
Cleared(ms) ==
  [ms EXCEPT !.primary = None, !.rtx = None, !.pt = None, !.clock = 0,
             !.anchor = None, !.target = 0, !.cache = EmptyCache]

\* Faulty: the numbers of the old source are kept.
BegunKeepCache(ms, p, clock) ==
  LET t == IF ms.last = None THEN (p.ts + InitialOffset) % TsMod
           ELSE (ms.last + Step(clock)) % TsMod
  IN [ms EXCEPT !.primary = p.ssrc, !.rtx = None, !.pt = p.pt, !.clock = clock,
                !.anchor = p.ts, !.target = t, !.last = t]

\* Faulty: the new line starts where the old one ended.
BegunWithoutStep(ms, p, clock) ==
  LET t == IF ms.last = None THEN (p.ts + InitialOffset) % TsMod ELSE ms.last
  IN [ms EXCEPT !.primary = p.ssrc, !.rtx = None, !.pt = p.pt, !.clock = clock,
                !.cache = EmptyCache, !.anchor = p.ts, !.target = t, !.last = t]

\* begin_primary_source
Begun(ms, p, clock) ==
  LET t == IF ms.last = None THEN (p.ts + InitialOffset) % TsMod
           ELSE (ms.last + Step(clock)) % TsMod
  IN [ms EXCEPT !.primary = p.ssrc, !.rtx = None, !.pt = p.pt, !.clock = clock,
                !.cache = EmptyCache, !.anchor = p.ts, !.target = t, !.last = t]

\* rebuild_bindings: in the order of the media, RTX after primary, the last
\* one wins.
RebuiltBindings(m) ==
  [s \in Ssrcs |->
     LET users == {i \in Media : s \in {m[i].primary, m[i].rtx}}
         i == CHOOSE j \in users : \A k \in users : k <= j
     IN IF users = {} THEN None ELSE [media |-> i, rtx |-> m[i].rtx = s]]

\* set_config: numbers and newest timestamps go on; what belongs to the source
\* is kept only for the same media of the same publisher session.
SetConfig(c) ==
  /\ LET kept(i) == /\ available
                    /\ config.session = c.session
                    /\ config.maps[i].mid = c.maps[i].mid
     IN /\ media' = [i \in Media |-> IF kept(i) THEN media[i] ELSE Cleared(media[i])]
        /\ line' = [i \in Media |-> IF kept(i) THEN line[i] ELSE None]
  /\ bindings' = RebuiltBindings(media')
  /\ available' = TRUE
  /\ config' = c
  /\ UNCHANGED <<setting, failures, origin, lastSent>>

\* clear_source
ClearSource ==
  /\ available
  /\ available' = FALSE
  /\ bindings' = [s \in Ssrcs |-> None]
  /\ media' = [i \in Media |-> Cleared(media[i])]
  /\ line' = [i \in Media |-> None]
  /\ UNCHANGED <<setting, config, failures, origin, lastSent>>

-----------------------------------------------------------------------------
(* Rewriting *)

\* find_payload_type_mapping: Maps says there is one, Pt is it.
Maps(i, pt) == pt \in DOMAIN config.maps[i].pts

Pt(i, pt) == config.maps[i].pts[pt]

\* The member of a set with one member, None for any other set: the resolve
\* functions give up when a second media matches.
TheOnly(S) == IF Cardinality(S) = 1 THEN CHOOSE i \in S : TRUE ELSE None

\* The media of a packet: by its SSRC, else by its MID, else by its payload
\* type.
Resolved(p) ==
  LET b == bindings[p.ssrc]
      byMid == TheOnly({i \in Media : Maps(i, p.pt) /\ config.maps[i].mid = p.mid})
  IN IF b # None /\ Maps(b.media, p.pt) /\ Pt(b.media, p.pt).rtx = b.rtx THEN b.media
     ELSE IF byMid # None THEN byMid
     ELSE TheOnly({i \in Media : Maps(i, p.pt)})

SourceChanged(i, p) ==
  \/ media[i].primary # p.ssrc
  \/ media[i].pt # p.pt
  \/ media[i].clock # Pt(i, p.pt).clock

\* Faulty: the bindings of the old source are kept.
BoundPrimaryKeepOld(i, p) == [bindings EXCEPT ![p.ssrc] = [media |-> i, rtx |-> FALSE]]

\* erase_bindings_for_media, then the binding of the new source.
BoundPrimary(i, p) ==
  [s \in Ssrcs |->
     IF s = p.ssrc THEN [media |-> i, rtx |-> FALSE]
     ELSE IF bindings[s] # None /\ bindings[s].media = i THEN None
     ELSE bindings[s]]

BoundRtx(i, p) ==
  [s \in Ssrcs |->
     IF s = p.ssrc THEN [media |-> i, rtx |-> TRUE]
     ELSE IF s = media[i].rtx THEN None
     ELSE bindings[s]]

\* History: packet p is the last sent with number n.  Of the other numbers only
\* those in the cache matter.
SentWith(sent, cache, n, p) ==
  [m \in Numbers |->
     IF m = n THEN [ssrc |-> p.ssrc, seq |-> p.seq]
     ELSE IF \E s \in Numbers : cache.values[s] = m THEN sent[m]
     ELSE None]

\* rewrite() of a packet with a primary payload type.
RewritePrimary(i, p) ==
  LET changed == SourceChanged(i, p)
      begins == changed \/ media[i].anchor = None
      ms == IF begins THEN Begun(media[i], p, Pt(i, p.pt).clock) ELSE media[i]
      n == Allocated(ms.next)
      t == Translated(ms, p.ts)
  IN /\ ~Pt(i, p.pt).rtx /\ p.seq # None
     /\ bindings' = IF changed THEN BoundPrimary(i, p) ELSE bindings
     /\ media' = [media EXCEPT ![i] =
                    [ms EXCEPT !.next = After(n), !.last = Newest(ms, t),
                               !.cache = IF p.ok THEN Remembered(ms.cache, p.seq, n)
                                         ELSE ms.cache]]
     /\ \/ /\ p.ok
           /\ origin' = [origin EXCEPT ![i] = SentWith(@, ms.cache, n, p)]
           /\ line' = [line EXCEPT ![i] = [source |-> p.ts, target |-> t]]
           /\ lastSent' = [lastSent EXCEPT ![i].primary = n]
           /\ UNCHANGED failures
        \/ /\ ~p.ok
           /\ failures' = failures + 1
           /\ line' = IF begins THEN [line EXCEPT ![i] = None] ELSE line
           /\ UNCHANGED <<origin, lastSent>>

\* rewrite() of an RTX packet.  Its SSRC is bound even if the packet is then
\* dropped, because it is too short or the number it repairs is not cached.
RewriteRtx(i, p) ==
  LET ms == [media[i] EXCEPT !.rtx = p.ssrc]
      n == Allocated(ms.nextRtx)
      known == p.seq # None /\ ms.cache.values[p.seq] # None
      t == Translated(ms, p.ts)
  IN /\ Pt(i, p.pt).rtx
     /\ media[i].primary # None
     /\ bindings' = IF media[i].rtx = p.ssrc THEN bindings ELSE BoundRtx(i, p)
     /\ \/ /\ ~known
           /\ media' = [media EXCEPT ![i] = ms]
           /\ UNCHANGED <<failures, lastSent>>
        \/ /\ known
           /\ media' = [media EXCEPT ![i] = [ms EXCEPT !.nextRtx = After(n),
                                                       !.last = Newest(ms, t)]]
           /\ \/ /\ p.ok
                 /\ lastSent' = [lastSent EXCEPT ![i].rtx = n]
                 /\ UNCHANGED failures
              \/ /\ ~p.ok
                 /\ failures' = failures + 1
                 /\ UNCHANGED lastSent
     /\ UNCHANGED <<origin, line>>

Rewrite(p) ==
  /\ p.ok \/ failures < MaxFailures
  /\ available
  /\ LET i == Resolved(p)
     IN /\ i # None
        /\ RewritePrimary(i, p) \/ RewriteRtx(i, p)
  /\ UNCHANGED <<setting, available, config>>

\* build_retransmission of a packet sent earlier with target payload type pt.
\* It works without a publisher too.  Without an RTX mapping the packet is sent
\* again as it is, which changes nothing here.
BuildRetransmission(i, pt, ok) ==
  LET n == Allocated(media[i].nextRtx)
  IN /\ config # None
     /\ \E q \in DOMAIN config.maps[i].pts :
          /\ ~Pt(i, q).rtx /\ Pt(i, q).target = pt /\ Pt(i, q).nack
     /\ \E q \in DOMAIN config.maps[i].pts : Pt(i, q).rtx /\ Pt(i, q).apt = pt
     /\ media' = [media EXCEPT ![i].nextRtx = After(n)]
     /\ \/ /\ ok
           /\ lastSent' = [lastSent EXCEPT ![i].rtx = n]
           /\ UNCHANGED failures
        \/ /\ ~ok
           /\ failures < MaxFailures
           /\ failures' = failures + 1
           /\ UNCHANGED lastSent
     /\ UNCHANGED <<setting, available, config, bindings, origin, line>>

-----------------------------------------------------------------------------

SourcePts == UNION {DOMAIN c.maps[i].pts : c \in Configs, i \in Media}

TargetPts == UNION {{c.maps[i].pts[q].target : q \in DOMAIN c.maps[i].pts} :
                      c \in Configs, i \in Media}

Mids == {c.maps[i].mid : c \in Configs, i \in Media}

\* seq is the sequence number of a primary packet and the original sequence
\* number in the payload of an RTX packet, None if the payload is too short.
Packets ==
  [ssrc: Ssrcs, pt: SourcePts, mid: Mids \cup {None}, seq: SourceNumbers \cup {None},
   ts: SourceTimestamps, ok: BOOLEAN]

Next ==
  \/ \E c \in Configs : SetConfig(c)
  \/ ClearSource
  \/ \E p \in Packets : Rewrite(p)
  \/ \E i \in Media, pt \in TargetPts, ok \in BOOLEAN : BuildRetransmission(i, pt, ok)

Spec == Init /\ [][Next]_vars

-----------------------------------------------------------------------------

CacheType ==
  [order: Seq(Numbers \X Numbers), values: [Numbers -> Numbers \cup {None}]]

MediaType ==
  [primary: Ssrcs \cup {None}, rtx: Ssrcs \cup {None}, pt: SourcePts \cup {None},
   clock: Nat, next: Numbers \cup {None}, nextRtx: Numbers \cup {None},
   last: Timestamps \cup {None}, anchor: Timestamps \cup {None},
   target: Timestamps, cache: CacheType]

\* The state has its type, the cache never more entries than its limit.
TypeOK ==
  /\ available \in BOOLEAN
  /\ config \in Configs \cup {None}
  /\ available => config # None
  /\ media \in [Media -> MediaType]
  /\ \A i \in Media : Len(media[i].cache.order) <= CacheLimit

\* A media has either a complete source or none: SSRC, payload type and anchor
\* come and go together, an RTX SSRC and cached numbers exist only with them,
\* and nothing of a source is left when there is no publisher.  The code's
\* fallbacks for a missing anchor are never taken.
SourceIsWhole ==
  /\ TypeOK
  /\ \A i \in Media :
       LET ms == media[i]
       IN /\ (ms.primary = None) = (ms.anchor = None)
          /\ (ms.primary = None) = (ms.pt = None)
          /\ ms.primary = None => ms.rtx = None /\ ms.cache = EmptyCache
          /\ ms.primary # None => available /\ ms.last # None

\* A binding names a media that uses the SSRC now, in the way it says: packets
\* of a replaced source are not taken for the present one.
BindingsAgree ==
  \A s \in Ssrcs :
    bindings[s] # None =>
      LET ms == media[bindings[s].media]
      IN IF bindings[s].rtx THEN ms.rtx = s ELSE ms.primary = s

\* The map of the cache and its order of insertion describe the same numbers,
\* also when a publisher repeats a number: every number in the order is found,
\* with the target number it got last, and nothing else is.
CacheAgrees ==
  \A i \in Media : LET c == media[i].cache IN
    \A s \in Numbers :
      LET places == {k \in 1..Len(c.order) : c.order[k][1] = s}
      IN IF places = {} THEN c.values[s] = None
         ELSE \E k \in places : (\A j \in places : j <= k) /\ c.values[s] = c.order[k][2]

\* Numbers do not come round while they are cached; 61440 packets that cannot be
\* built would be needed with the code's numbers.
NumbersOutliveCache == CacheLimit + MaxFailures < SeqMod

\* A step of the line is seen as one, with the code's numbers at any clock rate.
StepsAreVisible == \A c \in Configs, i \in Media : \A q \in DOMAIN c.maps[i].pts : 2 * Step(c.maps[i].pts[q].clock) < TsMod

\* The number an RTX packet is translated to was sent, and sent last, with the
\* packet of the present source that the RTX packet repairs: not with a packet
\* of an earlier source, nor one that reused the number.
RepairNamesItsPacket ==
  NumbersOutliveCache =>
    /\ CacheAgrees
    /\ \A i \in Media, s \in Numbers :
         LET n == media[i].cache.values[s]
         IN n # None => origin[i][n] = [ssrc |-> media[i].primary, seq |-> s]

\* The packets of one source, and the sender reports mapped with the same
\* anchors, are on one line: target timestamps differ as source timestamps do.
OnOneLine ==
  \A i \in Media :
    line[i] # None =>
      /\ media[i].anchor # None
      /\ line[i].target = OnLine(media[i], line[i].source)

\* The timestamps of a media go on when its source changes, whatever clears or
\* replaces it: a new line begins after the newest timestamp of the old one.
TimelineContinues ==
  [][\A i \in Media :
       StepsAreVisible /\ media[i].last # None =>
         /\ media'[i].last # None
         /\ \/ media'[i].last = media[i].last
            \/ Newer(media'[i].last, media[i].last)
         /\ media[i].anchor = None /\ media'[i].anchor # None =>
              Newer(media'[i].target, media[i].last)]_vars

\* The numbers sent on a target SSRC go up by one, whoever sends the packet and
\* whichever publisher it is from, except for numbers lost to packets that
\* could not be built.
NumbersGoOn ==
  [][\A i \in Media : \A k \in {"primary", "rtx"} :
       lastSent[i][k] # None /\ lastSent'[i][k] # lastSent[i][k] =>
         (lastSent'[i][k] - lastSent[i][k] + SeqMod) % SeqMod \in 1..failures' + 1]_vars
=============================================================================
