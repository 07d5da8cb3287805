------------------------- MODULE RtpRewriterProofs -------------------------
(***************************************************************************)
(* Proofs about RtpRewriter, for any setting: any number of accepted media,*)
(* SSRCs, codecs and configurations, and any size of sequence numbers,     *)
(* timestamps and cache.                                                   *)
(***************************************************************************)
EXTENDS RtpRewriter, TLAPS, FiniteSetTheorems, SequenceTheorems, WellFoundedInduction

-----------------------------------------------------------------------------
(* Numbers modulo M.                                                       *)

LEMMA ModRange ==
  ASSUME NEW M \in Nat \ {0}, NEW a \in Int
  PROVE  a % M \in 0..M - 1
  OBVIOUS

\* The distance from b forward to a.
LEMMA ModDistance ==
  ASSUME NEW M \in Nat \ {0}, NEW a \in 0..M - 1, NEW b \in 0..M - 1
  PROVE  (a - b + M) % M = IF a >= b THEN a - b ELSE a - b + M
  OBVIOUS

LEMMA ModSuccessor ==
  ASSUME NEW M \in Nat \ {0}, NEW a \in 0..M - 1
  PROVE  (a + 1) % M = IF a + 1 = M THEN 0 ELSE a + 1
  OBVIOUS

-----------------------------------------------------------------------------
(* The setting.                                                            *)

\* What RewriterAssumption says of the setting that was chosen.
SettingOK ==
  /\ MediaCount \in Nat \ {0} /\ SeqMod \in Nat \ {0} /\ TsMod \in Nat \ {0}
  /\ CacheLimit \in 1..SeqMod /\ MaxFailures \in Nat
  /\ SourceNumbers \subseteq Numbers /\ SourceTimestamps \subseteq Timestamps
  /\ InitialNumber \in Numbers /\ InitialOffset \in Timestamps
  /\ None \notin Numbers /\ None \notin Timestamps /\ None \notin Ssrcs
  /\ None \notin Configs /\ None \notin SourcePts
  /\ \A c \in Configs, i \in Media : \A q \in DOMAIN c.maps[i].pts :
       c.maps[i].pts[q].clock \in Nat

LEMMA InitSettingOK == InitSetting => SettingOK
<1> SUFFICES ASSUME NEW x \in Settings, NEW used \in SUBSET AllSsrcs,
                    setting = [mediaCount |-> x.mediaCount, ssrcs |-> used, configs |-> x.configs,
                               numbers |-> x.numbers, timestamps |-> x.timestamps,
                               seqMod |-> x.seqMod, tsMod |-> x.tsMod,
                               cacheLimit |-> x.cacheLimit, maxFailures |-> x.maxFailures]
             PROVE  SettingOK
  BY DEF InitSetting
<1>1. /\ MediaCount = x.mediaCount /\ Ssrcs = used /\ Configs = x.configs
      /\ SourceNumbers = x.numbers /\ SourceTimestamps = x.timestamps
      /\ SeqMod = x.seqMod /\ TsMod = x.tsMod /\ CacheLimit = x.cacheLimit
      /\ MaxFailures = x.maxFailures
  BY DEF MediaCount, Ssrcs, Configs, SourceNumbers, SourceTimestamps, SeqMod, TsMod, CacheLimit,
         MaxFailures
<1>2. None \notin SourcePts
  BY <1>1, RewriterAssumption DEF SourcePts, Media
<1> QED
  BY <1>1, <1>2, RewriterAssumption DEF SettingOK, Numbers, Timestamps, Media

LEMMA SettingKept ==
  ASSUME setting' = setting
  PROVE  /\ MediaCount' = MediaCount /\ Ssrcs' = Ssrcs /\ Configs' = Configs
         /\ SeqMod' = SeqMod /\ TsMod' = TsMod /\ CacheLimit' = CacheLimit
         /\ MaxFailures' = MaxFailures /\ Media' = Media /\ Numbers' = Numbers
         /\ Timestamps' = Timestamps /\ SourcePts' = SourcePts /\ CacheType' = CacheType
         /\ MediaType' = MediaType /\ EmptyCache' = EmptyCache /\ SettingOK' = SettingOK
  BY DEF MediaCount, Ssrcs, Configs, SeqMod, TsMod, CacheLimit, MaxFailures, Media, Numbers,
         Timestamps, SourcePts, CacheType, MediaType, EmptyCache, SettingOK, SourceNumbers,
         SourceTimestamps

-----------------------------------------------------------------------------
(* The media, one at a time.                                               *)

\* What SourceIsWhole says of one media.
WholeMedia(ms) ==
  /\ ms \in MediaType
  /\ Len(ms.cache.order) <= CacheLimit
  /\ (ms.primary = None) = (ms.anchor = None)
  /\ (ms.primary = None) = (ms.pt = None)
  /\ ms.primary = None => ms.rtx = None /\ ms.cache = EmptyCache
  /\ ms.primary # None => ms.last # None

LEMMA EmptyCacheType == EmptyCache \in CacheType /\ EmptyCache.order = <<>>
  BY DEF EmptyCache, CacheType

LEMMA NewMediaWhole ==
  ASSUME SettingOK
  PROVE  WholeMedia(NewMedia) /\ NewMedia.primary = None
<1>1. NewMedia \in MediaType
  BY EmptyCacheType DEF NewMedia, MediaType, SettingOK, Timestamps
<1> QED
  BY <1>1, EmptyCacheType DEF WholeMedia, NewMedia, SettingOK

LEMMA ClearedWhole ==
  ASSUME SettingOK, NEW ms, WholeMedia(ms)
  PROVE  WholeMedia(Cleared(ms)) /\ Cleared(ms).primary = None
<1>1. Cleared(ms) \in MediaType
  <2>1. 0 \in Timestamps /\ ms \in MediaType
    BY DEF WholeMedia, SettingOK, Timestamps
  <2> QED
    BY <2>1, EmptyCacheType DEF Cleared, MediaType
<1>2. ms \in MediaType
  BY DEF WholeMedia
<1>3. /\ Cleared(ms).primary = None /\ Cleared(ms).rtx = None /\ Cleared(ms).pt = None
      /\ Cleared(ms).anchor = None /\ Cleared(ms).cache = EmptyCache
  BY <1>2 DEF Cleared, MediaType
<1> QED
  BY <1>1, <1>3, EmptyCacheType DEF WholeMedia, SettingOK

LEMMA BegunWhole ==
  ASSUME SettingOK, NEW ms, WholeMedia(ms), NEW p \in Packets, NEW clock \in Nat
  PROVE  /\ WholeMedia(Begun(ms, p, clock))
         /\ Begun(ms, p, clock).primary = p.ssrc
<1> DEFINE t == IF ms.last = None THEN (p.ts + InitialOffset) % TsMod
                ELSE (ms.last + Step(clock)) % TsMod
           b == Begun(ms, p, clock)
<1>1. ms \in MediaType
  BY DEF WholeMedia
<1>2. p.ssrc \in Ssrcs /\ p.pt \in SourcePts /\ p.ts \in Timestamps
  BY DEF Packets, SettingOK
<1>3. t \in Timestamps
  <2>1. ms.last \in Timestamps \cup {None} /\ Step(clock) \in Nat
    BY <1>1 DEF MediaType, Step
  <2> QED
    BY <1>2, <2>1 DEF Timestamps, SettingOK
<1>4. b = [ms EXCEPT !.primary = p.ssrc, !.rtx = None, !.pt = p.pt, !.clock = clock,
                     !.cache = EmptyCache, !.anchor = p.ts, !.target = t, !.last = t]
  BY DEF Begun
<1> HIDE DEF t, b
<1>5. b \in MediaType
  BY <1>1, <1>2, <1>3, <1>4, EmptyCacheType DEF MediaType
<1>6. /\ b.primary = p.ssrc /\ b.pt = p.pt /\ b.anchor = p.ts /\ b.cache = EmptyCache /\ b.last = t
  BY <1>1, <1>4 DEF MediaType
<1> QED
  BY <1>2, <1>3, <1>5, <1>6, EmptyCacheType DEF WholeMedia, SettingOK, b

LEMMA RememberedType ==
  ASSUME SettingOK, NEW c \in CacheType, Len(c.order) <= CacheLimit,
         NEW s \in Numbers, NEW t \in Numbers
  PROVE  /\ Remembered(c, s, t) \in CacheType
         /\ Len(Remembered(c, s, t).order) <= CacheLimit
<1> DEFINE order == Append(c.order, <<s, t>>)
           values == [c.values EXCEPT ![s] = t]
           oldest == Head(order)
<1>1. /\ order \in Seq(Numbers \X Numbers) /\ Len(order) = Len(c.order) + 1
      /\ order # <<>>
  BY DEF CacheType
<1>2. /\ oldest \in Numbers \X Numbers /\ Tail(order) \in Seq(Numbers \X Numbers)
      /\ Len(Tail(order)) = Len(c.order)
  BY <1>1
<1>3. values \in [Numbers -> Numbers \cup {None}]
  BY DEF CacheType
<1>4. [values EXCEPT ![oldest[1]] = None] \in [Numbers -> Numbers \cup {None}]
  BY <1>3
<1>5. Len(c.order) \in Nat /\ CacheLimit \in Nat
  BY DEF CacheType, SettingOK
<1> HIDE DEF order, values, oldest
<1>6. CASE Len(order) <= CacheLimit
  <2>1. Remembered(c, s, t) = [order |-> order, values |-> values]
    BY <1>6 DEF Remembered, order, values
  <2> QED
    BY <1>1, <1>3, <1>6, <2>1 DEF CacheType
<1>7. CASE ~(Len(order) <= CacheLimit)
  <2>1. Remembered(c, s, t) =
          [order |-> Tail(order),
           values |-> IF values[oldest[1]] = oldest[2]
                      THEN [values EXCEPT ![oldest[1]] = None] ELSE values]
    BY <1>7 DEF Remembered, order, values, oldest
  <2> QED
    BY <1>2, <1>3, <1>4, <1>5, <1>7, <2>1 DEF CacheType
<1> QED
  BY <1>6, <1>7

LEMMA AllocatedType ==
  ASSUME SettingOK, NEW next \in Numbers \cup {None}
  PROVE  /\ Allocated(next) \in Numbers
         /\ After(Allocated(next)) \in Numbers
<1>1. Allocated(next) \in Numbers
  BY DEF Allocated, SettingOK
<1>2. SeqMod \in Nat \ {0} /\ Allocated(next) + 1 \in Int
  BY <1>1 DEF SettingOK, Numbers
<1> HIDE DEF Allocated
<1> QED
  BY <1>1, <1>2, ModRange DEF After, Numbers

LEMMA TimestampTypes ==
  ASSUME SettingOK, NEW ms, WholeMedia(ms), ms.primary # None, NEW ts \in Timestamps
  PROVE  /\ Translated(ms, ts) \in Timestamps
         /\ Newest(ms, Translated(ms, ts)) \in Timestamps
<1>1. ms.target \in Timestamps /\ ms.anchor \in Timestamps /\ ms.last \in Timestamps
  BY DEF WholeMedia, MediaType
<1>2. TsMod \in Nat \ {0}
  BY DEF SettingOK
<1>3. Translated(ms, ts) \in Timestamps
  BY <1>1, <1>2 DEF Translated, OnLine, Timestamps
<1> QED
  BY <1>1, <1>3 DEF Newest

\* The numbers, the newest timestamp and the cache go on.
LEMMA PrimaryNumbersWhole ==
  ASSUME SettingOK, NEW ms, WholeMedia(ms), ms.primary # None, NEW n \in Numbers,
         NEW t \in Timestamps, NEW c \in CacheType, Len(c.order) <= CacheLimit
  PROVE  WholeMedia([ms EXCEPT !.next = n, !.last = t, !.cache = c])
<1> DEFINE new == [ms EXCEPT !.next = n, !.last = t, !.cache = c]
<1>1. ms \in MediaType
  BY DEF WholeMedia
<1>2. new \in MediaType
  BY <1>1 DEF MediaType
<1>3. /\ new.primary = ms.primary /\ new.anchor = ms.anchor /\ new.pt = ms.pt
      /\ new.last = t /\ new.cache = c
  BY <1>1 DEF MediaType
<1>4. t # None
  BY DEF SettingOK
<1> HIDE DEF new
<1> QED
  BY <1>2, <1>3, <1>4 DEF WholeMedia, new

LEMMA NextRtxWhole ==
  ASSUME SettingOK, NEW ms, WholeMedia(ms), NEW n \in Numbers
  PROVE  WholeMedia([ms EXCEPT !.nextRtx = n])
<1> DEFINE new == [ms EXCEPT !.nextRtx = n]
<1>1. ms \in MediaType
  BY DEF WholeMedia
<1>2. new \in MediaType
  BY <1>1 DEF MediaType
<1>3. /\ new.primary = ms.primary /\ new.anchor = ms.anchor /\ new.pt = ms.pt
      /\ new.rtx = ms.rtx /\ new.last = ms.last /\ new.cache = ms.cache
  BY <1>1 DEF MediaType
<1> HIDE DEF new
<1> QED
  BY <1>2, <1>3 DEF WholeMedia, new

LEMMA RtxNumbersWhole ==
  ASSUME SettingOK, NEW ms, WholeMedia(ms), ms.primary # None, NEW n \in Numbers,
         NEW s \in Ssrcs, NEW t \in Timestamps
  PROVE  /\ WholeMedia([ms EXCEPT !.rtx = s])
         /\ WholeMedia([[ms EXCEPT !.rtx = s] EXCEPT !.nextRtx = n, !.last = t])
<1> DEFINE new == [ms EXCEPT !.rtx = s]
           newer == [new EXCEPT !.nextRtx = n, !.last = t]
<1>1. ms \in MediaType
  BY DEF WholeMedia
<1>2. new \in MediaType /\ t # None
  BY <1>1 DEF MediaType, SettingOK
<1>3. newer \in MediaType
  BY <1>2 DEF MediaType
<1>4. /\ new.primary = ms.primary /\ new.anchor = ms.anchor /\ new.pt = ms.pt
      /\ new.last = ms.last /\ new.cache = ms.cache
  BY <1>1 DEF MediaType
<1>5. /\ newer.primary = new.primary /\ newer.anchor = new.anchor /\ newer.pt = new.pt
      /\ newer.last = t /\ newer.cache = new.cache
  BY <1>2 DEF MediaType
<1> HIDE DEF new, newer
<1> QED
  BY <1>2, <1>3, <1>4, <1>5 DEF WholeMedia, new, newer

-----------------------------------------------------------------------------
(* The source of every media is whole.                                     *)

BindingType == [media: Media, rtx: BOOLEAN]

\* SourceIsWhole, with the setting and the bindings a packet is resolved by.
SourceInv ==
  /\ SettingOK
  /\ SourceIsWhole
  /\ bindings \in [Ssrcs -> BindingType \cup {None}]

\* SourceIsWhole, one media at a time.
LEMMA WholeSource ==
  SourceIsWhole <=>
    /\ available \in BOOLEAN
    /\ config \in Configs \cup {None}
    /\ available => config # None
    /\ media = [i \in Media |-> media[i]]
    /\ \A i \in Media : WholeMedia(media[i]) /\ (media[i].primary # None => available)
<1>1. media \in [Media -> MediaType] <=>
        media = [i \in Media |-> media[i]] /\ \A i \in Media : media[i] \in MediaType
  OBVIOUS
<1>2. SourceIsWhole =>
        /\ available \in BOOLEAN
        /\ config \in Configs \cup {None}
        /\ available => config # None
        /\ media = [i \in Media |-> media[i]]
        /\ \A i \in Media : WholeMedia(media[i]) /\ (media[i].primary # None => available)
  BY <1>1 DEF SourceIsWhole, TypeOK, WholeMedia
<1>3. ASSUME available \in BOOLEAN, config \in Configs \cup {None}, available => config # None,
             media = [i \in Media |-> media[i]],
             \A i \in Media : WholeMedia(media[i]) /\ (media[i].primary # None => available)
      PROVE  SourceIsWhole
  <2>1. media \in [Media -> MediaType]
    BY <1>1, <1>3 DEF WholeMedia
  <2>2. TypeOK
    BY <1>3, <2>1 DEF TypeOK, WholeMedia
  <2> QED
    BY <1>3, <2>2 DEF SourceIsWhole, WholeMedia
<1> QED
  BY <1>2, <1>3

LEMMA TheOnlyIn ==
  ASSUME NEW S, TheOnly(S) # None
  PROVE  TheOnly(S) \in S
<1>1. Cardinality(S) = 1
  BY DEF TheOnly
<1>2. S # {}
  BY <1>1, FS_EmptySet
<1> QED
  BY <1>1, <1>2 DEF TheOnly

\* A packet is taken for a media that has a mapping for its payload type.
LEMMA ResolvedMedia ==
  ASSUME SourceInv, available, NEW p \in Packets, Resolved(p) # None
  PROVE  /\ Resolved(p) \in Media
         /\ Maps(Resolved(p), p.pt)
         /\ Pt(Resolved(p), p.pt).clock \in Nat
<1> DEFINE b == bindings[p.ssrc]
           byMid == {i \in Media : Maps(i, p.pt) /\ config.maps[i].mid = p.mid}
           byPt == {i \in Media : Maps(i, p.pt)}
<1>1. Resolved(p) \in Media /\ Maps(Resolved(p), p.pt)
  <2>1. CASE b # None /\ Maps(b.media, p.pt) /\ Pt(b.media, p.pt).rtx = b.rtx
    <3>1. Resolved(p) = b.media
      BY <2>1 DEF Resolved
    <3>2. p.ssrc \in Ssrcs
      BY DEF Packets
    <3>3. b.media \in Media
      BY <2>1, <3>2 DEF SourceInv, BindingType
    <3> QED
      BY <2>1, <3>1, <3>3
  <2>2. CASE ~(b # None /\ Maps(b.media, p.pt) /\ Pt(b.media, p.pt).rtx = b.rtx)
    <3>1. Resolved(p) = IF TheOnly(byMid) # None THEN TheOnly(byMid) ELSE TheOnly(byPt)
      BY <2>2 DEF Resolved
    <3>2. Resolved(p) \in byMid \/ Resolved(p) \in byPt
      BY <3>1, TheOnlyIn
    <3> QED
      BY <3>2
  <2> QED
    BY <2>1, <2>2
<1>2. config \in Configs
  BY WholeSource DEF SourceInv
<1> QED
  BY <1>1, <1>2 DEF Maps, Pt, SourceInv, SettingOK

\* What a primary packet is rewritten with: the source of its media, begun if
\* need be, the number it gets and its timestamp.
PrimarySource(i, p) ==
  IF SourceChanged(i, p) \/ media[i].anchor = None
  THEN Begun(media[i], p, Pt(i, p.pt).clock) ELSE media[i]

PrimaryNumber(i, p) == Allocated(PrimarySource(i, p).next)

PrimaryTime(i, p) == Translated(PrimarySource(i, p), p.ts)

\* The media after the packet.
PrimarySent(i, p) ==
  [PrimarySource(i, p) EXCEPT
     !.next = After(PrimaryNumber(i, p)),
     !.last = Newest(PrimarySource(i, p), PrimaryTime(i, p)),
     !.cache = IF p.ok THEN Remembered(PrimarySource(i, p).cache, p.seq, PrimaryNumber(i, p))
               ELSE PrimarySource(i, p).cache]

LEMMA PrimaryPacket ==
  ASSUME SourceInv, NEW i \in Media, NEW p \in Packets, Pt(i, p.pt).clock \in Nat,
         RewritePrimary(i, p)
  PROVE  /\ WholeMedia(PrimarySource(i, p))
         /\ PrimarySource(i, p).primary = p.ssrc /\ p.ssrc \in Ssrcs
         /\ p.ts \in Timestamps /\ p.seq \in Numbers
         /\ PrimaryNumber(i, p) \in Numbers
         /\ PrimaryTime(i, p) \in Timestamps
         /\ media' = [media EXCEPT ![i] = PrimarySent(i, p)]
         /\ WholeMedia(PrimarySent(i, p))
         /\ PrimarySent(i, p).primary = p.ssrc
<1> DEFINE ms == PrimarySource(i, p)
           n == PrimaryNumber(i, p)
           t == PrimaryTime(i, p)
<1>1. p.ssrc \in Ssrcs /\ p.ts \in Timestamps /\ p.seq \in Numbers /\ p.ssrc # None
  BY DEF Packets, SourceInv, SettingOK, RewritePrimary
<1>2. WholeMedia(media[i])
  BY WholeSource DEF SourceInv
<1>3. SettingOK
  BY DEF SourceInv
<1>4. WholeMedia(ms) /\ ms.primary = p.ssrc
  BY <1>2, <1>3, BegunWhole DEF PrimarySource, SourceChanged
<1>5. ms.next \in Numbers \cup {None} /\ ms.cache \in CacheType /\ Len(ms.cache.order) <= CacheLimit
  BY <1>4 DEF WholeMedia, MediaType
<1>6. n \in Numbers /\ After(n) \in Numbers
  BY <1>3, <1>5, AllocatedType DEF PrimaryNumber
<1>7. t \in Timestamps /\ Newest(ms, t) \in Timestamps
  BY <1>1, <1>3, <1>4, TimestampTypes DEF PrimaryTime
<1>8. media' = [media EXCEPT ![i] = PrimarySent(i, p)]
  BY DEF RewritePrimary, PrimarySent, PrimaryNumber, PrimaryTime, PrimarySource
<1> DEFINE c == IF p.ok THEN Remembered(ms.cache, p.seq, n) ELSE ms.cache
<1>9. c \in CacheType /\ Len(c.order) <= CacheLimit
  BY <1>1, <1>3, <1>5, <1>6, RememberedType
<1>10. PrimarySent(i, p) = [ms EXCEPT !.next = After(n), !.last = Newest(ms, t), !.cache = c]
  BY DEF PrimarySent
<1>11. ms \in MediaType
  BY <1>4 DEF WholeMedia
<1> HIDE DEF ms, n, t, c
<1>12. WholeMedia(PrimarySent(i, p))
  <2>1. ms.primary # None
    BY <1>1, <1>4
  <2>2. WholeMedia([ms EXCEPT !.next = After(n), !.last = Newest(ms, t), !.cache = c])
    BY <1>3, <1>4, <1>6, <1>7, <1>9, <2>1, PrimaryNumbersWhole
  <2> QED
    BY <1>10, <2>2
<1>13. PrimarySent(i, p).primary = p.ssrc
  BY <1>4, <1>10, <1>11 DEF MediaType
<1> QED
  BY <1>1, <1>4, <1>6, <1>7, <1>8, <1>12, <1>13 DEF ms, n, t

\* The same for an RTX packet.
RtxSource(i, p) == [media[i] EXCEPT !.rtx = p.ssrc]

RtxNumber(i, p) == Allocated(RtxSource(i, p).nextRtx)

RepairKnown(i, p) == p.seq # None /\ RtxSource(i, p).cache.values[p.seq] # None

RtxSent(i, p) ==
  IF RepairKnown(i, p)
  THEN [RtxSource(i, p) EXCEPT
          !.nextRtx = After(RtxNumber(i, p)),
          !.last = Newest(RtxSource(i, p), Translated(RtxSource(i, p), p.ts))]
  ELSE RtxSource(i, p)

\* The fields an RTX packet or a retransmission leaves alone.
SameSource(old, new) ==
  /\ new.primary = old.primary /\ new.pt = old.pt /\ new.anchor = old.anchor
  /\ new.target = old.target /\ new.cache = old.cache /\ new.next = old.next

LEMMA RtxPacket ==
  ASSUME SourceInv, NEW i \in Media, NEW p \in Packets, RewriteRtx(i, p)
  PROVE  /\ p.ssrc \in Ssrcs /\ p.ts \in Timestamps
         /\ media[i].primary # None
         /\ media' = [media EXCEPT ![i] = RtxSent(i, p)]
         /\ WholeMedia(RtxSent(i, p))
         /\ SameSource(media[i], RtxSent(i, p))
         /\ RtxSent(i, p).rtx = p.ssrc
         /\ RtxNumber(i, p) = Allocated(media[i].nextRtx)
         /\ RtxSent(i, p).nextRtx = IF RepairKnown(i, p) THEN After(RtxNumber(i, p))
                                    ELSE media[i].nextRtx
         /\ RtxSent(i, p).last = IF RepairKnown(i, p)
                                 THEN Newest(media[i], Translated(media[i], p.ts))
                                 ELSE media[i].last
<1> DEFINE ms == RtxSource(i, p)
           n == RtxNumber(i, p)
           t == Newest(ms, Translated(ms, p.ts))
<1>1. p.ssrc \in Ssrcs /\ p.ts \in Timestamps /\ SettingOK
  BY DEF Packets, SourceInv, SettingOK
<1>2. WholeMedia(media[i]) /\ media[i] \in MediaType /\ media[i].primary # None
  BY WholeSource DEF SourceInv, RewriteRtx, WholeMedia
<1>3. /\ ms \in MediaType /\ SameSource(media[i], ms) /\ ms.rtx = p.ssrc
      /\ ms.nextRtx = media[i].nextRtx /\ ms.last = media[i].last
  BY <1>1, <1>2 DEF RtxSource, MediaType, SameSource
<1>4. media' = [media EXCEPT ![i] = RtxSent(i, p)]
  BY DEF RewriteRtx, RtxSent, RepairKnown, RtxNumber, RtxSource
<1>5. n = Allocated(media[i].nextRtx) /\ After(n) \in Numbers
  <2>1. media[i].nextRtx \in Numbers \cup {None}
    BY <1>2 DEF MediaType
  <2> QED
    BY <1>1, <1>3, <2>1, AllocatedType DEF RtxNumber
<1>6. Newest(media[i], Translated(media[i], p.ts)) \in Timestamps
  BY <1>1, <1>2, TimestampTypes
<1>7. t = Newest(media[i], Translated(media[i], p.ts))
  BY <1>3 DEF Translated, OnLine, Newest, SameSource
<1>8. CASE ~RepairKnown(i, p)
  <2>1. RtxSent(i, p) = ms
    BY <1>8 DEF RtxSent
  <2>2. WholeMedia(ms)
    BY <1>1, <1>2, <1>5, <1>6, RtxNumbersWhole DEF RtxSource
  <2> HIDE DEF ms, n, t
  <2> QED
    BY <1>1, <1>2, <1>3, <1>4, <1>5, <1>8, <2>1, <2>2 DEF n
<1>9. CASE RepairKnown(i, p)
  <2> DEFINE new == [ms EXCEPT !.nextRtx = After(n), !.last = t]
  <2>1. RtxSent(i, p) = new
    BY <1>9 DEF RtxSent
  <2>2. WholeMedia(new)
    <3>1. t \in Timestamps
      BY <1>6, <1>7
    <3> HIDE DEF t, n
    <3> QED
      BY <1>1, <1>2, <1>5, <3>1, RtxNumbersWhole DEF RtxSource
  <2>3. /\ new.primary = ms.primary /\ new.pt = ms.pt /\ new.anchor = ms.anchor
        /\ new.target = ms.target /\ new.cache = ms.cache /\ new.next = ms.next
        /\ new.rtx = ms.rtx /\ new.nextRtx = After(n) /\ new.last = t
    BY <1>3 DEF MediaType
  <2>4. SameSource(media[i], new)
    BY <1>3, <2>3 DEF SameSource
  <2> HIDE DEF ms, n, t, new
  <2> QED
    BY <1>1, <1>2, <1>3, <1>4, <1>5, <1>7, <1>9, <2>1, <2>2, <2>3, <2>4 DEF n
<1> QED
  BY <1>8, <1>9

\* The media after a retransmission.
Retransmitted(i) == [media[i] EXCEPT !.nextRtx = After(Allocated(media[i].nextRtx))]

LEMMA RetransmissionMedia ==
  ASSUME SourceInv, NEW i \in Media
  PROVE  /\ [media EXCEPT ![i].nextRtx = After(Allocated(media[i].nextRtx))] =
              [media EXCEPT ![i] = Retransmitted(i)]
         /\ WholeMedia(Retransmitted(i))
         /\ SameSource(media[i], Retransmitted(i))
         /\ Retransmitted(i).rtx = media[i].rtx
         /\ Retransmitted(i).last = media[i].last
         /\ Retransmitted(i).nextRtx = After(Allocated(media[i].nextRtx))
<1>1. WholeMedia(media[i]) /\ media[i] \in MediaType /\ SettingOK
  BY WholeSource DEF SourceInv, WholeMedia
<1>2. After(Allocated(media[i].nextRtx)) \in Numbers
  <2>1. media[i].nextRtx \in Numbers \cup {None}
    BY <1>1 DEF MediaType
  <2> QED
    BY <1>1, <2>1, AllocatedType
<1>3. WholeMedia(Retransmitted(i))
  BY <1>1, <1>2, NextRtxWhole DEF Retransmitted
<1> QED
  BY <1>1, <1>3 DEF Retransmitted, MediaType, SameSource

\* What a step has to show.
LEMMA SourceInvNext ==
  ASSUME SourceInv, setting' = setting,
         available' \in BOOLEAN, config' \in Configs \cup {None}, available' => config' # None,
         media' = [i \in Media |-> media'[i]],
         \A i \in Media : WholeMedia(media'[i]) /\ (media'[i].primary # None => available'),
         bindings' \in [Ssrcs -> BindingType \cup {None}]
  PROVE  SourceInv'
<1>1. media' \in [Media -> MediaType]
  BY DEF WholeMedia
<1>2. TypeOK'
  BY <1>1, SettingKept DEF TypeOK, WholeMedia
<1>3. SourceIsWhole'
  BY <1>2, SettingKept DEF SourceIsWhole, WholeMedia
<1> QED
  BY <1>3, SettingKept DEF SourceInv, BindingType

\* One media changes, and with it perhaps its bindings.
LEMMA OneMediaNext ==
  ASSUME SourceInv, UNCHANGED <<setting, available, config>>,
         NEW i \in Media, NEW new, WholeMedia(new), new.primary # None => available,
         media' = [media EXCEPT ![i] = new],
         bindings' \in [Ssrcs -> BindingType \cup {None}]
  PROVE  SourceInv'
<1>1. \A j \in Media : media'[j] = IF j = i THEN new ELSE media[j]
  BY WholeSource DEF SourceInv
<1>2. media' = [j \in Media |-> media'[j]]
  BY WholeSource DEF SourceInv
<1> QED
  BY <1>1, <1>2, WholeSource, SourceInvNext DEF SourceInv

\* The largest of a set of media.
LEMMA LastMedia ==
  ASSUME SettingOK, NEW users \in SUBSET Media, users # {}
  PROVE  \E j \in users : \A k \in users : k <= j
<1> DEFINE Above(k) == {m \in users : k <= m}
           chain == {Above(k) : k \in users}
<1>1. users \subseteq Nat /\ IsFiniteSet(users)
  <2>1. IsFiniteSet(Media) /\ Media \subseteq Nat
    BY FS_Interval DEF Media, SettingOK
  <2> QED
    BY <2>1, FS_Subset
<1>2. chain \subseteq FiniteSubsetsOf(users) /\ chain # {}
  <2>1. ASSUME NEW k \in users
        PROVE  Above(k) \in FiniteSubsetsOf(users)
    <3>1. Above(k) \in SUBSET users
      OBVIOUS
    <3> HIDE DEF Above
    <3> QED
      BY <1>1, <3>1, FS_Subset DEF FiniteSubsetsOf
  <2> HIDE DEF Above
  <2> QED
    BY <2>1
<1>3. PICK U \in chain : \A V \in chain : ~(<<V, U>> \in StrictSubsetOrdering(users))
  <2>1. IsWellFoundedOn(StrictSubsetOrdering(users), FiniteSubsetsOf(users))
    BY FS_StrictSubsetOrderingWellFounded
  <2> HIDE DEF chain
  <2> QED
    BY <1>2, <2>1, WFMin
<1>4. PICK j \in users : U = Above(j)
  OBVIOUS
<1>5. ASSUME NEW k \in users, ~(k <= j)
      PROVE  FALSE
  <2>1. Above(k) \subseteq U /\ j \in U /\ j \notin Above(k)
    <3>1. j \in Nat /\ k \in Nat /\ j < k
      BY <1>1, <1>5
    <3>2. \A m \in users : k <= m => j <= m
      BY <1>1, <3>1
    <3>3. Above(k) \subseteq Above(j)
      BY <3>2
    <3>4. j \in Above(j) /\ j \notin Above(k)
      BY <3>1
    <3> QED
      BY <1>4, <3>3, <3>4
  <2>2. <<Above(k), U>> \in StrictSubsetOrdering(users)
    <3>1. U \subseteq users /\ Above(k) \subseteq users /\ Above(k) # U
      BY <2>1, <1>4
    <3> HIDE DEF Above
    <3> QED
      BY <2>1, <3>1 DEF StrictSubsetOrdering
  <2> QED
    BY <1>3, <2>2
<1> QED
  BY <1>5

\* rebuild_bindings: a binding names a media that uses the SSRC.
LEMMA RebuiltBindingsFit ==
  ASSUME SettingOK, NEW m, NEW s \in Ssrcs, RebuiltBindings(m)[s] # None
  PROVE  /\ RebuiltBindings(m)[s] \in BindingType
         /\ IF RebuiltBindings(m)[s].rtx THEN m[RebuiltBindings(m)[s].media].rtx = s
            ELSE m[RebuiltBindings(m)[s].media].primary = s
<1> DEFINE users == {i \in Media : s \in {m[i].primary, m[i].rtx}}
           i == CHOOSE j \in users : \A k \in users : k <= j
           b == [media |-> i, rtx |-> m[i].rtx = s]
<1>1. users # {} /\ RebuiltBindings(m)[s] = b
  BY DEF RebuiltBindings
<1>2. i \in users
  <2>1. users \in SUBSET Media
    OBVIOUS
  <2>2. \E j \in users : \A k \in users : k <= j
    <3> HIDE DEF users
    <3> QED
      BY <1>1, <2>1, LastMedia
  <2> HIDE DEF users
  <2> QED
    BY <2>2
<1>3. i \in Media /\ (m[i].rtx = s \/ m[i].primary = s)
  BY <1>2
<1>4. b.media = i /\ b.rtx = (m[i].rtx = s) /\ b \in BindingType
  BY <1>3 DEF BindingType
<1> HIDE DEF i, b
<1> QED
  BY <1>1, <1>3, <1>4

\* set_config leaves every media as it is or clears it, and clear_source
\* clears them all.
MediaCleared(i) == media'[i] = Cleared(media[i]) /\ line'[i] = None

MediaKept(i) == media'[i] = media[i] /\ line'[i] = line[i]

LEMMA SetConfigMedia ==
  ASSUME SourceInv, NEW c \in Configs, SetConfig(c)
  PROVE  /\ media' = [i \in Media |-> media'[i]]
         /\ \A i \in Media : (available /\ MediaKept(i)) \/ MediaCleared(i)
         /\ bindings' = RebuiltBindings(media')
         /\ available' = TRUE /\ config' = c
         /\ UNCHANGED <<setting, failures, origin, lastSent>>
<1> DEFINE kept(i) == /\ available
                      /\ config.session = c.session
                      /\ config.maps[i].mid = c.maps[i].mid
<1>1. /\ media' = [i \in Media |-> IF kept(i) THEN media[i] ELSE Cleared(media[i])]
      /\ line' = [i \in Media |-> IF kept(i) THEN line[i] ELSE None]
  BY DEF SetConfig
<1>2. \A i \in Media : (available /\ MediaKept(i)) \/ MediaCleared(i)
  BY <1>1 DEF MediaKept, MediaCleared
<1>3. media' = [i \in Media |-> media'[i]]
  BY <1>1
<1> QED
  BY <1>2, <1>3 DEF SetConfig

LEMMA ClearSourceMedia ==
  ASSUME SourceInv, ClearSource
  PROVE  /\ media' = [i \in Media |-> media'[i]]
         /\ \A i \in Media : MediaCleared(i)
         /\ bindings' = [s \in Ssrcs |-> None]
         /\ available' = FALSE
         /\ UNCHANGED <<setting, config, failures, origin, lastSent>>
  BY DEF ClearSource, MediaCleared

LEMMA SetConfigSource ==
  ASSUME SourceInv, NEW c \in Configs, SetConfig(c)
  PROVE  SourceInv'
<1>1. /\ media' = [i \in Media |-> media'[i]]
      /\ \A i \in Media : MediaKept(i) \/ MediaCleared(i)
      /\ bindings' = RebuiltBindings(media')
      /\ available' = TRUE /\ config' = c /\ setting' = setting
  BY SetConfigMedia
<1>2. \A i \in Media : WholeMedia(media'[i])
  BY <1>1, WholeSource, ClearedWhole DEF SourceInv, MediaKept, MediaCleared
<1>3. bindings' \in [Ssrcs -> BindingType \cup {None}]
  <2>1. \A s \in Ssrcs : RebuiltBindings(media')[s] \in BindingType \cup {None}
    BY RebuiltBindingsFit DEF SourceInv
  <2>2. RebuiltBindings(media') = [s \in Ssrcs |-> RebuiltBindings(media')[s]]
    BY DEF RebuiltBindings
  <2> QED
    BY <1>1, <2>1, <2>2
<1>4. c # None
  BY DEF SourceInv, SettingOK
<1> QED
  BY <1>1, <1>2, <1>3, <1>4, SourceInvNext

LEMMA ClearSourceSource ==
  ASSUME SourceInv, ClearSource
  PROVE  SourceInv'
<1>1. /\ media' = [i \in Media |-> media'[i]]
      /\ \A i \in Media : MediaCleared(i)
      /\ bindings' = [s \in Ssrcs |-> None]
      /\ available' = FALSE /\ config' = config /\ setting' = setting
  BY ClearSourceMedia
<1>2. \A i \in Media : WholeMedia(media'[i]) /\ media'[i].primary = None
  BY <1>1, WholeSource, ClearedWhole DEF SourceInv, MediaCleared
<1> QED
  BY <1>1, <1>2, WholeSource, SourceInvNext DEF SourceInv

\* What Rewrite does to the media its packet belongs to.
LEMMA RewriteMedia ==
  ASSUME SourceInv, NEW p \in Packets, Rewrite(p)
  PROVE  /\ available
         /\ UNCHANGED <<setting, available, config>>
         /\ \E i \in Media : /\ Maps(i, p.pt) /\ Pt(i, p.pt).clock \in Nat
                             /\ RewritePrimary(i, p) \/ RewriteRtx(i, p)
<1>1. Resolved(p) # None /\ available
  BY DEF Rewrite
<1> QED
  BY <1>1, ResolvedMedia DEF Rewrite

LEMMA RewriteSource ==
  ASSUME SourceInv, NEW p \in Packets, Rewrite(p)
  PROVE  SourceInv'
<1>1. PICK i \in Media : /\ Pt(i, p.pt).clock \in Nat
                         /\ RewritePrimary(i, p) \/ RewriteRtx(i, p)
  BY RewriteMedia
<1>2. available /\ UNCHANGED <<setting, available, config>>
  BY RewriteMedia
<1>3. bindings \in [Ssrcs -> BindingType \cup {None}]
  BY DEF SourceInv
<1>4. /\ [media |-> i, rtx |-> FALSE] \in BindingType
      /\ [media |-> i, rtx |-> TRUE] \in BindingType
  BY DEF BindingType
<1>5. CASE RewritePrimary(i, p)
  <2>1. BoundPrimary(i, p) \in [Ssrcs -> BindingType \cup {None}]
    BY <1>3, <1>4 DEF BoundPrimary
  <2>2. bindings' \in [Ssrcs -> BindingType \cup {None}]
    BY <1>3, <1>5, <2>1 DEF RewritePrimary
  <2>3. media' = [media EXCEPT ![i] = PrimarySent(i, p)] /\ WholeMedia(PrimarySent(i, p))
    BY <1>1, <1>5, PrimaryPacket
  <2> QED
    BY <1>2, <2>2, <2>3, OneMediaNext
<1>6. CASE RewriteRtx(i, p)
  <2>1. BoundRtx(i, p) \in [Ssrcs -> BindingType \cup {None}]
    BY <1>3, <1>4 DEF BoundRtx
  <2>2. bindings' \in [Ssrcs -> BindingType \cup {None}]
    BY <1>3, <1>6, <2>1 DEF RewriteRtx
  <2>3. media' = [media EXCEPT ![i] = RtxSent(i, p)] /\ WholeMedia(RtxSent(i, p))
    BY <1>6, RtxPacket
  <2> QED
    BY <1>2, <2>2, <2>3, OneMediaNext
<1> QED
  BY <1>1, <1>5, <1>6

LEMMA RetransmissionSource ==
  ASSUME SourceInv, NEW i \in Media, NEW pt, NEW ok, BuildRetransmission(i, pt, ok)
  PROVE  SourceInv'
<1>1. media' = [media EXCEPT ![i] = Retransmitted(i)]
  BY RetransmissionMedia DEF BuildRetransmission
<1>2. WholeMedia(Retransmitted(i)) /\ Retransmitted(i).primary = media[i].primary
  BY RetransmissionMedia DEF SameSource
<1>3. media[i].primary # None => available
  BY WholeSource DEF SourceInv
<1> QED
  BY <1>1, <1>2, <1>3, OneMediaNext DEF BuildRetransmission, SourceInv

LEMMA NextSource == SourceInv /\ [Next]_vars => SourceInv'
<1> SUFFICES ASSUME SourceInv, [Next]_vars PROVE SourceInv'
  OBVIOUS
<1>1. CASE UNCHANGED vars
  BY <1>1, WholeSource, SourceInvNext DEF vars, SourceInv
<1>2. CASE Next
  BY <1>2, SetConfigSource, ClearSourceSource, RewriteSource, RetransmissionSource DEF Next
<1> QED
  BY <1>1, <1>2

LEMMA InitSource == Init => SourceInv
<1> SUFFICES ASSUME Init PROVE SourceInv
  OBVIOUS
<1>1. SettingOK
  BY InitSettingOK DEF Init
<1>2. \A i \in Media : media[i] = NewMedia
  BY DEF Init
<1>3. media = [i \in Media |-> media[i]]
  BY DEF Init
<1>4. SourceIsWhole
  BY <1>1, <1>2, <1>3, NewMediaWhole, WholeSource DEF Init
<1> QED
  BY <1>1, <1>4 DEF SourceInv, Init

LEMMA SourceInvariant == Spec => []SourceInv
  BY InitSource, NextSource, PTL DEF Spec

\* A media has a complete source or none, and nothing of it without publisher.
THEOREM SourcesAreWhole == Spec => []SourceIsWhole
<1>1. SourceInv => SourceIsWhole
  BY DEF SourceInv
<1> QED
  BY <1>1, SourceInvariant, PTL

-----------------------------------------------------------------------------
(* Bindings and lines.                                                     *)

\* Media m has the SSRC s in the part that binding b gives it.
Fits(b, m, s) == IF b.rtx THEN m[b.media].rtx = s ELSE m[b.media].primary = s

\* Media j has, after the step, the SSRCs it had.
SameSsrcs(j) == media'[j].primary = media[j].primary /\ media'[j].rtx = media[j].rtx

LEMMA BindingsNext ==
  ASSUME setting' = setting,
         \A s \in Ssrcs : bindings'[s] # None => Fits(bindings'[s], media', s)
  PROVE  BindingsAgree'
  BY SettingKept DEF BindingsAgree, Fits

\* The bindings of other media are not touched.
LEMMA OtherBindings ==
  ASSUME SourceInv, BindingsAgree, NEW s \in Ssrcs, bindings[s] # None,
         SameSsrcs(bindings[s].media)
  PROVE  Fits(bindings[s], media', s)
  BY DEF BindingsAgree, Fits, SameSsrcs

LEMMA OneMediaSsrcs ==
  ASSUME SourceInv, NEW i \in Media, NEW new, media' = [media EXCEPT ![i] = new]
  PROVE  /\ media'[i] = new
         /\ \A j \in Media : j # i => media'[j] = media[j] /\ SameSsrcs(j)
  BY WholeSource DEF SourceInv, SameSsrcs

LEMMA RewritePrimaryBindings ==
  ASSUME SourceInv, BindingsAgree, setting' = setting, NEW i \in Media, NEW p \in Packets,
         Pt(i, p.pt).clock \in Nat, RewritePrimary(i, p)
  PROVE  BindingsAgree'
<1>1. /\ media' = [media EXCEPT ![i] = PrimarySent(i, p)]
      /\ PrimarySent(i, p).primary = p.ssrc /\ p.ssrc \in Ssrcs
  BY PrimaryPacket
<1>2. media'[i].primary = p.ssrc /\ \A j \in Media : j # i => SameSsrcs(j)
  BY <1>1, OneMediaSsrcs
<1>3. bindings \in [Ssrcs -> BindingType \cup {None}]
  BY DEF SourceInv
<1> SUFFICES ASSUME NEW s \in Ssrcs, bindings'[s] # None
             PROVE  Fits(bindings'[s], media', s)
  BY BindingsNext
<1>4. CASE SourceChanged(i, p)
  <2>1. bindings' = BoundPrimary(i, p)
    BY <1>4 DEF RewritePrimary
  <2>2. CASE s = p.ssrc
    BY <1>2, <2>1, <2>2 DEF BoundPrimary, Fits
  <2>3. CASE s # p.ssrc
    <3>1. bindings'[s] = bindings[s] /\ bindings[s].media # i
      BY <2>1, <2>3 DEF BoundPrimary
    <3>2. bindings[s].media \in Media
      BY <1>3, <3>1 DEF BindingType
    <3> QED
      BY <1>2, <3>1, <3>2, OtherBindings
  <2> QED
    BY <2>2, <2>3
<1>5. CASE ~SourceChanged(i, p)
  <2>1. bindings' = bindings
    BY <1>5 DEF RewritePrimary
  <2>2. media[i].primary = p.ssrc /\ WholeMedia(media[i]) /\ p.ssrc # None
    BY <1>1, <1>5, WholeSource DEF SourceChanged, SourceInv, SettingOK
  <2>3. PrimarySource(i, p) = media[i]
    BY <1>5, <2>2 DEF PrimarySource, WholeMedia
  <2>4. media[i] \in MediaType
    BY <2>2 DEF WholeMedia
  <2>5. PrimarySent(i, p).rtx = media[i].rtx
    BY <2>3, <2>4 DEF PrimarySent, MediaType
  <2>6. SameSsrcs(i)
    BY <1>1, <1>2, <2>2, <2>5, OneMediaSsrcs DEF SameSsrcs
  <2>7. bindings[s].media \in Media
    BY <1>3, <2>1 DEF BindingType
  <2> QED
    BY <1>2, <2>1, <2>6, <2>7, OtherBindings
<1> QED
  BY <1>4, <1>5

LEMMA RewriteRtxBindings ==
  ASSUME SourceInv, BindingsAgree, setting' = setting, NEW i \in Media, NEW p \in Packets,
         RewriteRtx(i, p)
  PROVE  BindingsAgree'
<1>1. /\ media' = [media EXCEPT ![i] = RtxSent(i, p)] /\ p.ssrc \in Ssrcs
      /\ RtxSent(i, p).primary = media[i].primary /\ RtxSent(i, p).rtx = p.ssrc
  BY RtxPacket DEF SameSource
<1>2. /\ media'[i].primary = media[i].primary /\ media'[i].rtx = p.ssrc
      /\ \A j \in Media : j # i => SameSsrcs(j)
  BY <1>1, OneMediaSsrcs
<1>3. bindings \in [Ssrcs -> BindingType \cup {None}]
  BY DEF SourceInv
<1> SUFFICES ASSUME NEW s \in Ssrcs, bindings'[s] # None
             PROVE  Fits(bindings'[s], media', s)
  BY BindingsNext
<1>4. CASE media[i].rtx = p.ssrc
  <2>1. bindings' = bindings /\ SameSsrcs(i)
    BY <1>2, <1>4 DEF RewriteRtx, SameSsrcs
  <2>2. bindings[s].media \in Media
    BY <1>3, <2>1 DEF BindingType
  <2> QED
    BY <1>2, <2>1, <2>2, OtherBindings
<1>5. CASE media[i].rtx # p.ssrc
  <2>1. bindings' = BoundRtx(i, p)
    BY <1>5 DEF RewriteRtx
  <2>2. CASE s = p.ssrc
    BY <1>2, <2>1, <2>2 DEF BoundRtx, Fits
  <2>3. CASE s # p.ssrc
    <3>1. bindings'[s] = bindings[s] /\ s # media[i].rtx
      BY <2>1, <2>3 DEF BoundRtx
    <3>2. bindings[s].media \in Media
      BY <1>3, <3>1 DEF BindingType
    <3>3. CASE bindings[s].media # i
      BY <1>2, <3>1, <3>2, <3>3, OtherBindings
    <3>4. CASE bindings[s].media = i
      BY <1>2, <3>1, <3>4 DEF BindingsAgree, Fits
    <3> QED
      BY <3>3, <3>4
  <2> QED
    BY <2>2, <2>3
<1> QED
  BY <1>4, <1>5

LEMMA RetransmissionBindings ==
  ASSUME SourceInv, BindingsAgree, NEW i \in Media, NEW pt, NEW ok,
         BuildRetransmission(i, pt, ok)
  PROVE  BindingsAgree'
<1>1. media' = [media EXCEPT ![i] = Retransmitted(i)]
  BY RetransmissionMedia DEF BuildRetransmission
<1>2. \A j \in Media : SameSsrcs(j)
  <2>1. media'[i] = Retransmitted(i) /\ \A j \in Media : j # i => SameSsrcs(j)
    BY <1>1, OneMediaSsrcs
  <2>2. SameSsrcs(i)
    BY <2>1, RetransmissionMedia DEF SameSource, SameSsrcs
  <2> QED
    BY <2>1, <2>2
<1>3. setting' = setting /\ bindings' = bindings
  BY DEF BuildRetransmission
<1>4. \A s \in Ssrcs : bindings[s] # None => bindings[s].media \in Media
  BY DEF SourceInv, BindingType
<1> QED
  BY <1>2, <1>3, <1>4, OtherBindings, BindingsNext

LEMMA NextBindings == SourceInv /\ BindingsAgree /\ [Next]_vars => BindingsAgree'
<1> SUFFICES ASSUME SourceInv, BindingsAgree, [Next]_vars PROVE BindingsAgree'
  OBVIOUS
<1>1. ASSUME NEW c \in Configs, SetConfig(c)
      PROVE  BindingsAgree'
  <2>1. setting' = setting /\ bindings' = RebuiltBindings(media')
    BY <1>1, SetConfigMedia
  <2> QED
    BY <2>1, RebuiltBindingsFit, BindingsNext DEF Fits, SourceInv
<1>2. CASE ClearSource
  <2>1. setting' = setting /\ bindings' = [s \in Ssrcs |-> None]
    BY <1>2, ClearSourceMedia
  <2> QED
    BY <2>1, BindingsNext
<1>3. ASSUME NEW p \in Packets, Rewrite(p)
      PROVE  BindingsAgree'
  BY <1>3, RewriteMedia, RewritePrimaryBindings, RewriteRtxBindings
<1>4. CASE UNCHANGED vars
  BY <1>4, BindingsNext DEF vars, BindingsAgree, Fits
<1>5. CASE \E i \in Media, pt \in TargetPts, ok \in BOOLEAN : BuildRetransmission(i, pt, ok)
  BY <1>5, RetransmissionBindings
<1> QED
  BY <1>1, <1>2, <1>3, <1>4, <1>5 DEF Next

\* A binding names a media that uses the SSRC now: no packet of a replaced
\* source is taken for the present one.
THEOREM BindingsAreOfTheSource == Spec => []BindingsAgree
<1>1. Init => BindingsAgree
  BY DEF Init, BindingsAgree
<1> QED
  BY <1>1, NextBindings, SourceInvariant, PTL DEF Spec

\* What OnOneLine says of one media and its history.
LineHolds(ms, l) ==
  l # None => ms.anchor # None /\ l.target = OnLine(ms, l.source)

LEMMA LineNext ==
  ASSUME setting' = setting, \A j \in Media : LineHolds(media'[j], line'[j])
  PROVE  OnOneLine'
  BY SettingKept DEF OnOneLine, LineHolds, OnLine

\* The line goes on where it was: anchor and target stay.
LEMMA LineKept ==
  ASSUME NEW old, NEW new, NEW l, LineHolds(old, l), new.anchor = old.anchor,
         new.target = old.target
  PROVE  LineHolds(new, l)
  BY DEF LineHolds, OnLine

LineType == line = [j \in Media |-> line[j]]

LEMMA RewritePrimaryLine ==
  ASSUME SourceInv, LineType, OnOneLine, setting' = setting, NEW i \in Media, NEW p \in Packets,
         Pt(i, p.pt).clock \in Nat, RewritePrimary(i, p)
  PROVE  OnOneLine' /\ LineType'
<1> DEFINE ms == PrimarySource(i, p)
<1>1. /\ media' = [media EXCEPT ![i] = PrimarySent(i, p)]
      /\ WholeMedia(ms) /\ ms.primary = p.ssrc /\ p.ssrc # None
  BY PrimaryPacket DEF SourceInv, SettingOK
<1>2. media'[i] = PrimarySent(i, p) /\ \A j \in Media : j # i => media'[j] = media[j]
  BY <1>1, OneMediaSsrcs
<1>3. PrimarySent(i, p).anchor = ms.anchor /\ PrimarySent(i, p).target = ms.target
      /\ ms.anchor # None
  BY <1>1 DEF PrimarySent, WholeMedia, MediaType
<1>4. \A j \in Media : LineHolds(media[j], line[j])
  BY DEF OnOneLine, LineHolds
<1>5. LineType'
  BY SettingKept DEF LineType, RewritePrimary
<1>6. ASSUME NEW j \in Media, j # i
      PROVE  LineHolds(media'[j], line'[j])
  <2>1. line'[j] = line[j]
    BY <1>6 DEF RewritePrimary, LineType
  <2> QED
    BY <1>2, <1>4, <1>6, <2>1
<1>7. LineHolds(media'[i], line'[i])
  <2>1. CASE p.ok
    <3>1. line'[i] = [source |-> p.ts, target |-> PrimaryTime(i, p)]
      BY <2>1 DEF RewritePrimary, LineType, PrimaryTime, PrimarySource
    <3>2. PrimaryTime(i, p) = OnLine(media'[i], p.ts)
      BY <1>2, <1>3 DEF PrimaryTime, Translated, OnLine
    <3> QED
      BY <1>2, <1>3, <3>1, <3>2 DEF LineHolds
  <2>2. CASE ~p.ok /\ (SourceChanged(i, p) \/ media[i].anchor = None)
    <3>1. line'[i] = None
      BY <2>2 DEF RewritePrimary, LineType
    <3> QED
      BY <3>1 DEF LineHolds
  <2>3. CASE ~p.ok /\ ~(SourceChanged(i, p) \/ media[i].anchor = None)
    <3>1. line'[i] = line[i]
      BY <2>3 DEF RewritePrimary, LineType
    <3>2. ms = media[i]
      BY <2>3 DEF PrimarySource
    <3> QED
      BY <1>2, <1>3, <1>4, <3>1, <3>2, LineKept
  <2> QED
    BY <2>1, <2>2, <2>3
<1> QED
  BY <1>5, <1>6, <1>7, LineNext

\* An RTX packet or a retransmission leaves the line alone.
LEMMA SameSourceLine ==
  ASSUME SourceInv, LineType, OnOneLine, NEW i \in Media, NEW new, SameSource(media[i], new),
         media' = [media EXCEPT ![i] = new], UNCHANGED <<setting, line>>
  PROVE  OnOneLine' /\ LineType'
<1>1. media'[i] = new /\ \A j \in Media : j # i => media'[j] = media[j]
  BY OneMediaSsrcs
<1>2. \A j \in Media : LineHolds(media[j], line[j])
  BY DEF OnOneLine, LineHolds
<1>3. LineHolds(media'[i], line[i])
  BY <1>1, <1>2, LineKept DEF SameSource
<1>4. LineType'
  BY SettingKept DEF LineType
<1> QED
  BY <1>1, <1>2, <1>3, <1>4, LineNext

LEMMA NextLine == SourceInv /\ LineType /\ OnOneLine /\ [Next]_vars => OnOneLine' /\ LineType'
<1> SUFFICES ASSUME SourceInv, LineType, OnOneLine, [Next]_vars PROVE OnOneLine' /\ LineType'
  OBVIOUS
<1>1. \A j \in Media : LineHolds(media[j], line[j])
  BY DEF OnOneLine, LineHolds
<1>2. ASSUME NEW c \in Configs, SetConfig(c)
      PROVE  OnOneLine' /\ LineType'
  <2>1. setting' = setting /\ \A j \in Media : MediaKept(j) \/ MediaCleared(j)
    BY <1>2, SetConfigMedia
  <2>2. LineType'
    BY <1>2, <2>1, SettingKept DEF LineType, SetConfig
  <2> QED
    BY <1>1, <2>1, <2>2, LineNext DEF MediaKept, MediaCleared, LineHolds
<1>3. CASE ClearSource
  <2>1. setting' = setting /\ \A j \in Media : MediaCleared(j)
    BY <1>3, ClearSourceMedia
  <2>2. LineType'
    BY <1>3, <2>1, SettingKept DEF LineType, ClearSource
  <2> QED
    BY <2>1, <2>2, LineNext DEF MediaCleared, LineHolds
<1>4. ASSUME NEW p \in Packets, Rewrite(p)
      PROVE  OnOneLine' /\ LineType'
  <2>1. PICK i \in Media : /\ Pt(i, p.pt).clock \in Nat
                           /\ RewritePrimary(i, p) \/ RewriteRtx(i, p)
    BY <1>4, RewriteMedia
  <2>2. setting' = setting
    BY <1>4, RewriteMedia
  <2>3. CASE RewriteRtx(i, p)
    <3>1. /\ media' = [media EXCEPT ![i] = RtxSent(i, p)]
          /\ SameSource(media[i], RtxSent(i, p))
      BY <2>3, RtxPacket
    <3>2. line' = line
      BY <2>3 DEF RewriteRtx
    <3> QED
      BY <2>2, <3>1, <3>2, SameSourceLine
  <2> QED
    BY <2>1, <2>2, <2>3, RewritePrimaryLine
<1>5. ASSUME NEW i \in Media, NEW pt, NEW ok, BuildRetransmission(i, pt, ok)
      PROVE  OnOneLine' /\ LineType'
  <2>1. /\ media' = [media EXCEPT ![i] = Retransmitted(i)]
        /\ SameSource(media[i], Retransmitted(i))
    BY <1>5, RetransmissionMedia DEF BuildRetransmission
  <2>2. UNCHANGED <<setting, line>>
    BY <1>5 DEF BuildRetransmission
  <2> QED
    BY <2>1, <2>2, SameSourceLine
<1>6. CASE UNCHANGED vars
  <2>1. LineType'
    BY <1>6, SettingKept DEF LineType, vars
  <2> QED
    BY <1>1, <1>6, <2>1, LineNext DEF vars
<1> QED
  BY <1>2, <1>3, <1>4, <1>5, <1>6 DEF Next

\* The packets sent of one source are on one line.
THEOREM PacketsAreOnOneLine == Spec => []OnOneLine
<1>1. Init => LineType /\ OnOneLine
  BY DEF Init, LineType, OnOneLine
<1> QED
  BY <1>1, NextLine, SourceInvariant, PTL DEF Spec

-----------------------------------------------------------------------------
(* Sequence numbers.                                                       *)

\* The next number is at most the numbers lost so far ahead of the one after
\* the last number sent.
Follows(sent, next, lost) ==
  sent # None => next # None /\ (next - sent + SeqMod) % SeqMod <= lost + 1

SentType == [Media -> [primary: Numbers \cup {None}, rtx: Numbers \cup {None}]]

NumbersInv ==
  /\ failures \in Nat
  /\ lastSent \in SentType
  /\ \A i \in Media : /\ Follows(lastSent[i].primary, media[i].next, failures)
                      /\ Follows(lastSent[i].rtx, media[i].nextRtx, failures)

\* What a step does to the numbers of one target SSRC: nothing, or the next
\* number is sent, or it is lost.
NumberStep(sent, next, sent2, next2) ==
  \/ sent2 = sent /\ next2 = next /\ failures' \in {failures, failures + 1}
  \/ /\ next2 = After(Allocated(next))
     /\ sent2 = Allocated(next) /\ failures' = failures
  \/ /\ next2 = After(Allocated(next))
     /\ sent2 = sent /\ failures' = failures + 1

LEMMA NumberStepFollows ==
  ASSUME SettingOK, failures \in Nat, NEW sent \in Numbers \cup {None},
         NEW next \in Numbers \cup {None}, NEW sent2, NEW next2,
         Follows(sent, next, failures), NumberStep(sent, next, sent2, next2)
  PROVE  /\ failures' \in Nat
         /\ sent2 \in Numbers \cup {None}
         /\ Follows(sent2, next2, failures')
         /\ sent # None /\ sent2 # sent =>
              (sent2 - sent + SeqMod) % SeqMod \in 1..failures' + 1
<1> DEFINE n == Allocated(next)
<1>1. n \in Numbers /\ After(n) \in Numbers
  BY AllocatedType
<1>2. failures' \in Nat
  BY DEF NumberStep
<1>3. SeqMod \in Nat \ {0} /\ Numbers = 0..SeqMod - 1 /\ None \notin Numbers
  BY DEF SettingOK, Numbers
<1>4. After(n) = IF n + 1 = SeqMod THEN 0 ELSE n + 1
  BY <1>1, <1>3, ModSuccessor DEF After
<1>5. \A a, b \in Numbers : (a - b + SeqMod) % SeqMod = IF a >= b THEN a - b ELSE a - b + SeqMod
  BY <1>3, ModDistance
<1>6. sent # None => next # None /\ next \in Numbers /\ n = next /\ sent \in Numbers
  BY DEF Follows, Allocated
<1> HIDE DEF n
<1>7. CASE sent2 = sent /\ next2 = next /\ failures' \in {failures, failures + 1}
  <2>1. (sent # None) => (next - sent + SeqMod) % SeqMod \in Int
    BY <1>3, <1>5, <1>6
  <2> QED
    BY <1>2, <1>7, <2>1 DEF Follows
<1>8. CASE next2 = After(n) /\ sent2 = n /\ failures' = failures
  <2>1. (After(n) - n + SeqMod) % SeqMod <= 1
    BY <1>1, <1>3, <1>4, <1>5
  <2>2. After(n) # None /\ (After(n) - n + SeqMod) % SeqMod \in Int
    BY <1>1, <1>3, <1>5
  <2>3. Follows(n, After(n), failures)
    BY <2>1, <2>2 DEF Follows
  <2>4. ASSUME sent # None, n # sent
        PROVE  (n - sent + SeqMod) % SeqMod \in 1..failures + 1
    <3>1. (n - sent + SeqMod) % SeqMod <= failures + 1
      BY <1>6, <2>4 DEF Follows
    <3>2. (n - sent + SeqMod) % SeqMod = IF n >= sent THEN n - sent ELSE n - sent + SeqMod
      BY <1>1, <1>5, <1>6, <2>4
    <3>3. (n - sent + SeqMod) % SeqMod \in Nat \ {0}
      BY <1>1, <1>3, <1>6, <2>4, <3>2
    <3> QED
      BY <3>1, <3>3
  <2> QED
    BY <1>1, <1>8, <2>3, <2>4
<1>9. CASE next2 = After(n) /\ sent2 = sent /\ failures' = failures + 1
  <2>1. ASSUME sent # None
        PROVE  (After(n) - sent + SeqMod) % SeqMod <= failures + 2
    <3>1. (n - sent + SeqMod) % SeqMod <= failures + 1
      BY <1>6, <2>1 DEF Follows
    <3>2. (n - sent + SeqMod) % SeqMod = IF n >= sent THEN n - sent ELSE n - sent + SeqMod
      BY <1>1, <1>5, <1>6, <2>1
    <3>3. (After(n) - sent + SeqMod) % SeqMod =
            IF After(n) >= sent THEN After(n) - sent ELSE After(n) - sent + SeqMod
      BY <1>1, <1>5, <1>6, <2>1
    <3> QED
      BY <1>1, <1>3, <1>4, <1>6, <2>1, <3>1, <3>2, <3>3, SMTT(30)
  <2> QED
    BY <1>1, <1>3, <1>9, <2>1 DEF Follows
<1> QED
  BY <1>2, <1>7, <1>8, <1>9 DEF NumberStep, n

\* The step of both target SSRCs of media i.
MediaNumberStep(i) ==
  /\ NumberStep(lastSent[i].primary, media[i].next, lastSent'[i].primary, media'[i].next)
  /\ NumberStep(lastSent[i].rtx, media[i].nextRtx, lastSent'[i].rtx, media'[i].nextRtx)

LEMMA NumbersOfOthers ==
  ASSUME NEW j \in Media, lastSent'[j] = lastSent[j], media'[j].next = media[j].next,
         media'[j].nextRtx = media[j].nextRtx, failures' \in {failures, failures + 1}
  PROVE  MediaNumberStep(j)
  BY DEF MediaNumberStep, NumberStep

LEMMA RewritePrimaryNumbers ==
  ASSUME SourceInv, NumbersInv, NEW i \in Media, NEW p \in Packets, Pt(i, p.pt).clock \in Nat,
         RewritePrimary(i, p)
  PROVE  lastSent' \in SentType /\ \A j \in Media : MediaNumberStep(j)
<1> DEFINE ms == PrimarySource(i, p)
           n == PrimaryNumber(i, p)
<1>1. media' = [media EXCEPT ![i] = PrimarySent(i, p)] /\ WholeMedia(ms)
  BY PrimaryPacket
<1>2. media'[i] = PrimarySent(i, p) /\ \A j \in Media : j # i => media'[j] = media[j]
  BY <1>1, OneMediaSsrcs
<1>3. WholeMedia(media[i]) /\ media[i] \in MediaType /\ ms \in MediaType
  BY <1>1, WholeSource DEF SourceInv, WholeMedia
<1>4. ms.next = media[i].next /\ ms.nextRtx = media[i].nextRtx
  BY <1>3 DEF PrimarySource, Begun, MediaType
<1>5. PrimarySent(i, p).next = After(n) /\ PrimarySent(i, p).nextRtx = ms.nextRtx
  BY <1>3 DEF PrimarySent, MediaType
<1>6. n = Allocated(media[i].next) /\ n \in Numbers
  BY <1>4, PrimaryPacket DEF PrimaryNumber
<1>7. \/ /\ p.ok
         /\ lastSent' = [lastSent EXCEPT ![i].primary = n] /\ failures' = failures
      \/ /\ ~p.ok
         /\ lastSent' = lastSent /\ failures' = failures + 1
  BY DEF RewritePrimary, PrimaryNumber, PrimarySource
<1> HIDE DEF n, ms
<1>8. ASSUME NEW j \in Media, j # i PROVE MediaNumberStep(j)
  <2>1. lastSent'[j] = lastSent[j] /\ failures' \in {failures, failures + 1}
    BY <1>7, <1>8 DEF NumbersInv, SentType
  <2> QED
    BY <1>2, <1>8, <2>1, NumbersOfOthers
<1>9. MediaNumberStep(i)
  <2>1. lastSent'[i].rtx = lastSent[i].rtx
    BY <1>7 DEF NumbersInv, SentType
  <2>2. p.ok => lastSent'[i].primary = n
    BY <1>7 DEF NumbersInv, SentType
  <2> QED
    BY <1>2, <1>4, <1>5, <1>6, <1>7, <2>1, <2>2 DEF MediaNumberStep, NumberStep
<1>10. lastSent' \in SentType
  BY <1>6, <1>7 DEF NumbersInv, SentType
<1> QED
  BY <1>8, <1>9, <1>10

LEMMA RewriteRtxNumbers ==
  ASSUME SourceInv, NumbersInv, NEW i \in Media, NEW p \in Packets, RewriteRtx(i, p)
  PROVE  lastSent' \in SentType /\ \A j \in Media : MediaNumberStep(j)
<1> DEFINE n == RtxNumber(i, p)
           new == RtxSent(i, p)
<1>1. /\ media' = [media EXCEPT ![i] = new]
      /\ new.next = media[i].next
      /\ n = Allocated(media[i].nextRtx) /\ SettingOK
      /\ new.nextRtx = IF RepairKnown(i, p) THEN After(n) ELSE media[i].nextRtx
  BY RtxPacket DEF SameSource, SourceInv
<1>2. media'[i] = new /\ \A j \in Media : j # i => media'[j] = media[j]
  BY <1>1, OneMediaSsrcs
<1>3. \/ ~RepairKnown(i, p) /\ lastSent' = lastSent /\ failures' = failures
      \/ /\ RepairKnown(i, p)
         /\ \/ lastSent' = [lastSent EXCEPT ![i].rtx = n] /\ failures' = failures
            \/ lastSent' = lastSent /\ failures' = failures + 1
  BY DEF RewriteRtx, RepairKnown, RtxNumber, RtxSource
<1> HIDE DEF n, new
<1>4. ASSUME NEW j \in Media, j # i PROVE MediaNumberStep(j)
  <2>1. lastSent'[j] = lastSent[j] /\ failures' \in {failures, failures + 1}
    BY <1>3, <1>4 DEF NumbersInv, SentType
  <2> QED
    BY <1>2, <1>4, <2>1, NumbersOfOthers
<1>5. MediaNumberStep(i)
  <2>1. lastSent'[i].primary = lastSent[i].primary
    BY <1>3 DEF NumbersInv, SentType
  <2>2. lastSent' = [lastSent EXCEPT ![i].rtx = n] => lastSent'[i].rtx = n
    BY DEF NumbersInv, SentType
  <2> QED
    BY <1>1, <1>2, <1>3, <2>1, <2>2 DEF MediaNumberStep, NumberStep
<1>6. n \in Numbers
  BY <1>1, WholeSource, AllocatedType DEF SourceInv, WholeMedia, MediaType
<1>7. lastSent' \in SentType
  BY <1>3, <1>6 DEF NumbersInv, SentType
<1> QED
  BY <1>4, <1>5, <1>7

LEMMA RetransmissionNumbers ==
  ASSUME SourceInv, NumbersInv, NEW i \in Media, NEW pt, NEW ok, BuildRetransmission(i, pt, ok)
  PROVE  lastSent' \in SentType /\ \A j \in Media : MediaNumberStep(j)
<1> DEFINE n == Allocated(media[i].nextRtx)
           new == Retransmitted(i)
<1>1. /\ media' = [media EXCEPT ![i] = new]
      /\ new.next = media[i].next
      /\ new.nextRtx = After(n)
  BY RetransmissionMedia DEF SameSource, BuildRetransmission
<1>2. media'[i] = new /\ \A j \in Media : j # i => media'[j] = media[j]
  BY <1>1, OneMediaSsrcs
<1>3. \/ lastSent' = [lastSent EXCEPT ![i].rtx = n] /\ failures' = failures
      \/ lastSent' = lastSent /\ failures' = failures + 1
  BY DEF BuildRetransmission
<1> HIDE DEF n, new
<1>4. ASSUME NEW j \in Media, j # i PROVE MediaNumberStep(j)
  <2>1. lastSent'[j] = lastSent[j] /\ failures' \in {failures, failures + 1}
    BY <1>3, <1>4 DEF NumbersInv, SentType
  <2> QED
    BY <1>2, <1>4, <2>1, NumbersOfOthers
<1>5. MediaNumberStep(i)
  <2>1. lastSent'[i].primary = lastSent[i].primary
    BY <1>3 DEF NumbersInv, SentType
  <2>2. lastSent' = [lastSent EXCEPT ![i].rtx = n] => lastSent'[i].rtx = n
    BY DEF NumbersInv, SentType
  <2> QED
    BY <1>1, <1>2, <1>3, <2>1, <2>2 DEF MediaNumberStep, NumberStep, n
<1>6. n \in Numbers
  BY WholeSource, AllocatedType DEF SourceInv, WholeMedia, MediaType, n
<1>7. lastSent' \in SentType
  BY <1>3, <1>6 DEF NumbersInv, SentType
<1> QED
  BY <1>4, <1>5, <1>7

LEMMA NextMediaNumbers ==
  ASSUME SourceInv, NumbersInv, [Next]_vars
  PROVE  /\ setting' = setting
         /\ lastSent' \in SentType
         /\ \A j \in Media : MediaNumberStep(j)
<1>1. ASSUME NEW j \in Media, MediaKept(j) \/ MediaCleared(j),
             UNCHANGED <<failures, lastSent>>
      PROVE  MediaNumberStep(j)
  <2>1. media[j] \in MediaType
    BY WholeSource DEF SourceInv, WholeMedia
  <2>2. media'[j].next = media[j].next /\ media'[j].nextRtx = media[j].nextRtx
    BY <1>1, <2>1 DEF MediaKept, MediaCleared, Cleared, MediaType
  <2> QED
    BY <1>1, <2>2, NumbersOfOthers
<1>2. ASSUME NEW c \in Configs, SetConfig(c)
      PROVE  setting' = setting /\ lastSent' \in SentType /\ \A j \in Media : MediaNumberStep(j)
  BY <1>1, <1>2, SetConfigMedia DEF NumbersInv
<1>3. CASE ClearSource
  BY <1>1, <1>3, ClearSourceMedia DEF NumbersInv
<1>4. ASSUME NEW p \in Packets, Rewrite(p)
      PROVE  setting' = setting /\ lastSent' \in SentType /\ \A j \in Media : MediaNumberStep(j)
  BY <1>4, RewriteMedia, RewritePrimaryNumbers, RewriteRtxNumbers
<1>5. ASSUME NEW i \in Media, NEW pt, NEW ok, BuildRetransmission(i, pt, ok)
      PROVE  setting' = setting /\ lastSent' \in SentType /\ \A j \in Media : MediaNumberStep(j)
  BY <1>5, RetransmissionNumbers DEF BuildRetransmission
<1>6. CASE UNCHANGED vars
  BY <1>6, NumbersOfOthers DEF vars, NumbersInv
<1> QED
  BY <1>2, <1>3, <1>4, <1>5, <1>6 DEF Next

LEMMA NextNumbers ==
  ASSUME SourceInv, NumbersInv, [Next]_vars
  PROVE  /\ NumbersInv'
         /\ \A i \in Media : \A k \in {"primary", "rtx"} :
              lastSent[i][k] # None /\ lastSent'[i][k] # lastSent[i][k] =>
                (lastSent'[i][k] - lastSent[i][k] + SeqMod) % SeqMod \in 1..failures' + 1
<1>1. setting' = setting /\ lastSent' \in SentType /\ \A j \in Media : MediaNumberStep(j)
  BY NextMediaNumbers
<1>2. ASSUME NEW i \in Media
      PROVE  /\ failures' \in Nat
             /\ Follows(lastSent'[i].primary, media'[i].next, failures')
             /\ Follows(lastSent'[i].rtx, media'[i].nextRtx, failures')
             /\ lastSent[i].primary # None /\ lastSent'[i].primary # lastSent[i].primary =>
                  (lastSent'[i].primary - lastSent[i].primary + SeqMod) % SeqMod
                     \in 1..failures' + 1
             /\ lastSent[i].rtx # None /\ lastSent'[i].rtx # lastSent[i].rtx =>
                  (lastSent'[i].rtx - lastSent[i].rtx + SeqMod) % SeqMod \in 1..failures' + 1
  <2>1. /\ lastSent[i].primary \in Numbers \cup {None} /\ lastSent[i].rtx \in Numbers \cup {None}
        /\ media[i].next \in Numbers \cup {None} /\ media[i].nextRtx \in Numbers \cup {None}
    BY WholeSource DEF SourceInv, NumbersInv, SentType, WholeMedia, MediaType
  <2>2. /\ SettingOK /\ failures \in Nat
        /\ Follows(lastSent[i].primary, media[i].next, failures)
        /\ Follows(lastSent[i].rtx, media[i].nextRtx, failures)
    BY DEF SourceInv, NumbersInv
  <2> QED
    BY <1>1, <2>1, <2>2, NumberStepFollows, SMTT(30) DEF MediaNumberStep
<1>3. failures' \in Nat
  <2>1. 1 \in Media
    BY DEF SourceInv, SettingOK, Media
  <2> QED
    BY <1>2, <2>1
<1>4. NumbersInv'
  <2>1. SentType' = SentType
    BY <1>1, SettingKept DEF SentType
  <2>2. \A i \in Media : /\ Follows(lastSent[i].primary, media[i].next, failures)'
                         /\ Follows(lastSent[i].rtx, media[i].nextRtx, failures)'
    BY <1>1, <1>2, SettingKept DEF Follows
  <2> QED
    BY <1>1, <1>3, <2>1, <2>2, SettingKept DEF NumbersInv
<1> QED
  BY <1>2, <1>4

LEMMA NumbersInvariant == Spec => []NumbersInv
<1>1. Init => NumbersInv
  BY DEF Init, NumbersInv, SentType, Follows
<1>2. SourceInv /\ NumbersInv /\ [Next]_vars => NumbersInv'
  BY NextNumbers
<1> QED
  BY <1>1, <1>2, SourceInvariant, PTL DEF Spec

\* The numbers sent on a target SSRC go up by one, plus the numbers lost.
THEOREM SentNumbersGoOn == Spec => NumbersGoOn
<1>1. SourceInv /\ NumbersInv /\ [Next]_vars =>
        [\A i \in Media : \A k \in {"primary", "rtx"} :
           lastSent[i][k] # None /\ lastSent'[i][k] # lastSent[i][k] =>
             (lastSent'[i][k] - lastSent[i][k] + SeqMod) % SeqMod \in 1..failures' + 1]_vars
  BY NextNumbers
<1> QED
  BY <1>1, SourceInvariant, NumbersInvariant, PTL DEF Spec, NumbersGoOn

-----------------------------------------------------------------------------
(* Timestamps.                                                             *)

\* A step of less than half the range is seen as one.
LEMMA StepIsNewer ==
  ASSUME SettingOK, NEW t \in Timestamps, NEW d \in Nat \ {0}, 2 * d < TsMod
  PROVE  Newer((t + d) % TsMod, t)
<1>1. TsMod \in Nat \ {0} /\ Timestamps = 0..TsMod - 1
  BY DEF SettingOK, Timestamps
<1>2. (t + d) % TsMod = IF t + d < TsMod THEN t + d ELSE t + d - TsMod
  <2>1. CASE t + d < TsMod
    <3>1. t + d \in 0..TsMod - 1
      BY <1>1, <2>1
    <3> QED
      BY <1>1, <2>1, <3>1
  <2>2. CASE ~(t + d < TsMod)
    <3>1. t + d - TsMod \in 0..TsMod - 1 /\ t + d - TsMod + TsMod = t + d
      BY <1>1, <2>2
    <3>2. (t + d - TsMod + TsMod) % TsMod = t + d - TsMod
      BY <1>1, <3>1
    <3> QED
      BY <2>2, <3>1, <3>2
  <2> QED
    BY <2>1, <2>2
<1>3. (((t + d) % TsMod) - t + TsMod) % TsMod = d
  <2>1. (t + d) % TsMod \in 0..TsMod - 1
    <3>1. t + d \in Int
      BY <1>1
    <3> QED
      BY <1>1, <3>1, ModRange
  <2>2. (((t + d) % TsMod) - t + TsMod) % TsMod =
          IF (t + d) % TsMod >= t THEN ((t + d) % TsMod) - t ELSE ((t + d) % TsMod) - t + TsMod
    BY <1>1, <2>1, ModDistance
  <2>3. CASE t + d < TsMod
    BY <1>1, <1>2, <2>2, <2>3
  <2>4. CASE ~(t + d < TsMod)
    <3>1. ~((t + d) % TsMod >= t)
      BY <1>1, <1>2, <2>4
    <3> QED
      BY <1>1, <1>2, <2>2, <2>4, <3>1
  <2> QED
    BY <2>3, <2>4
<1> QED
  BY <1>3 DEF Newer

\* The first packet of a source has the timestamp its line begins with.
LEMMA AnchorIsTarget ==
  ASSUME SettingOK, NEW ms, ms.anchor \in Timestamps, ms.target \in Timestamps
  PROVE  Translated(ms, ms.anchor) = ms.target
<1>1. TsMod \in Nat \ {0} /\ Timestamps = 0..TsMod - 1
  BY DEF SettingOK, Timestamps
<1>2. ms.anchor - ms.anchor + TsMod = TsMod
  BY <1>1
<1>3. (ms.target + TsMod) % TsMod = ms.target
  BY <1>1
<1> QED
  BY <1>2, <1>3 DEF Translated, OnLine

\* What TimelineContinues says of one media.
TimelineStep(old, new) ==
  old.last # None =>
    /\ new.last # None
    /\ new.last = old.last \/ Newer(new.last, old.last)
    /\ old.anchor = None /\ new.anchor # None => Newer(new.target, old.last)

\* The newest timestamp goes on along the line of the source.
LEMMA NewestIsNewer ==
  ASSUME NEW old, NEW new, NEW t, new.last = Newest(old, t), t # None, new.anchor = old.anchor
  PROVE  TimelineStep(old, new)
  BY DEF Newest, TimelineStep

LEMMA BegunIsNewer ==
  ASSUME SettingOK, NEW ms, WholeMedia(ms), ms.last # None, NEW p \in Packets,
         NEW clock \in Nat, 2 * Step(clock) < TsMod
  PROVE  LET b == Begun(ms, p, clock)
         IN /\ b.last = b.target /\ b.anchor = p.ts
            /\ Newer(b.target, ms.last)
<1> DEFINE t == (ms.last + Step(clock)) % TsMod
<1>1. ms \in MediaType
  BY DEF WholeMedia
<1>2. Begun(ms, p, clock) =
        [ms EXCEPT !.primary = p.ssrc, !.rtx = None, !.pt = p.pt, !.clock = clock,
                   !.cache = EmptyCache, !.anchor = p.ts, !.target = t, !.last = t]
  BY DEF Begun
<1>3. Newer(t, ms.last)
  <2>1. ms.last \in Timestamps
    BY <1>1 DEF MediaType
  <2>2. Step(clock) \in Nat \ {0}
    BY DEF Step
  <2> HIDE DEF t
  <2> QED
    BY <2>1, <2>2, StepIsNewer DEF t
<1> HIDE DEF t
<1> QED
  BY <1>1, <1>2, <1>3 DEF MediaType

LEMMA RewritePrimaryTimeline ==
  ASSUME SourceInv, StepsAreVisible, available, NEW i \in Media, NEW p \in Packets,
         Maps(i, p.pt), Pt(i, p.pt).clock \in Nat, RewritePrimary(i, p)
  PROVE  TimelineStep(media[i], PrimarySent(i, p))
<1> DEFINE ms == PrimarySource(i, p)
           new == PrimarySent(i, p)
           clock == Pt(i, p.pt).clock
<1>1. /\ WholeMedia(ms) /\ ms \in MediaType /\ p.ts \in Timestamps /\ PrimaryTime(i, p) \in Timestamps
      /\ SettingOK /\ WholeMedia(media[i])
  BY PrimaryPacket, WholeSource DEF WholeMedia, SourceInv
<1>2. new.last = Newest(ms, PrimaryTime(i, p)) /\ new.anchor = ms.anchor /\ new.target = ms.target
  BY <1>1 DEF PrimarySent, MediaType
<1>3. PrimaryTime(i, p) # None
  BY <1>1 DEF SettingOK
<1>4. CASE ~(SourceChanged(i, p) \/ media[i].anchor = None)
  <2>1. ms = media[i]
    BY <1>4 DEF PrimarySource
  <2> HIDE DEF new
  <2> QED
    BY <1>2, <1>3, <2>1, NewestIsNewer DEF new
<1>5. CASE (SourceChanged(i, p) \/ media[i].anchor = None) /\ media[i].last # None
  <2>1. ms = Begun(media[i], p, clock)
    BY <1>5 DEF PrimarySource
  <2>2. 2 * Step(clock) < TsMod
    <3>1. config \in Configs
      BY WholeSource DEF SourceInv
    <3> QED
      BY <3>1 DEF StepsAreVisible, Maps, Pt
  <2>3. ms.last = ms.target /\ ms.anchor = p.ts /\ Newer(ms.target, media[i].last)
    <3> HIDE DEF clock
    <3> QED
      BY <1>1, <1>5, <2>1, <2>2, BegunIsNewer DEF clock
  <2>4. ms.target \in Timestamps /\ ms.target # None
    BY <1>1 DEF MediaType, SettingOK
  <2>5. PrimaryTime(i, p) = ms.target
    BY <1>1, <2>3, <2>4, AnchorIsTarget DEF PrimaryTime
  <2>6. new.last = ms.target
    BY <1>2, <2>3, <2>5 DEF Newest
  <2> HIDE DEF new, ms
  <2> QED
    BY <1>2, <2>3, <2>4, <2>6 DEF TimelineStep, new
<1> QED
  BY <1>4, <1>5 DEF TimelineStep

LEMMA NextTimeline ==
  ASSUME SourceInv, StepsAreVisible, [Next]_vars, NEW i \in Media
  PROVE  TimelineStep(media[i], media'[i])
<1>1. media[i] \in MediaType
  BY WholeSource DEF SourceInv, WholeMedia
<1>2. ASSUME media'[i] = media[i]
      PROVE  TimelineStep(media[i], media'[i])
  BY <1>2 DEF TimelineStep
<1>3. ASSUME MediaKept(i) \/ MediaCleared(i)
      PROVE  TimelineStep(media[i], media'[i])
  BY <1>1, <1>2, <1>3 DEF MediaKept, MediaCleared, Cleared, MediaType, TimelineStep
<1>4. ASSUME NEW j \in Media, NEW new, media' = [media EXCEPT ![j] = new],
             TimelineStep(media[j], new)
      PROVE  TimelineStep(media[i], media'[i])
  <2>1. media'[j] = new /\ (i # j => media'[i] = media[i])
    BY <1>4, OneMediaSsrcs
  <2> QED
    BY <1>2, <1>4, <2>1
<1>5. ASSUME NEW c \in Configs, SetConfig(c)
      PROVE  TimelineStep(media[i], media'[i])
  BY <1>3, <1>5, SetConfigMedia
<1>6. CASE ClearSource
  BY <1>3, <1>6, ClearSourceMedia
<1>7. ASSUME NEW p \in Packets, Rewrite(p)
      PROVE  TimelineStep(media[i], media'[i])
  <2>1. PICK j \in Media : /\ Maps(j, p.pt) /\ Pt(j, p.pt).clock \in Nat
                           /\ RewritePrimary(j, p) \/ RewriteRtx(j, p)
    BY <1>7, RewriteMedia
  <2>2. available
    BY <1>7, RewriteMedia
  <2>3. CASE RewritePrimary(j, p)
    <3>1. media' = [media EXCEPT ![j] = PrimarySent(j, p)]
      BY <2>1, <2>3, PrimaryPacket
    <3>2. TimelineStep(media[j], PrimarySent(j, p))
      BY <2>1, <2>2, <2>3, RewritePrimaryTimeline
    <3> QED
      BY <1>4, <3>1, <3>2
  <2>4. CASE RewriteRtx(j, p)
    <3> DEFINE new == RtxSent(j, p)
               t == Translated(media[j], p.ts)
    <3>1. /\ media' = [media EXCEPT ![j] = new] /\ new.anchor = media[j].anchor
          /\ new.last = IF RepairKnown(j, p) THEN Newest(media[j], t) ELSE media[j].last
          /\ p.ts \in Timestamps /\ media[j].primary # None
      BY <2>4, RtxPacket DEF SameSource
    <3>2. t # None
      BY <3>1, TimestampTypes, WholeSource DEF SourceInv, SettingOK
    <3> HIDE DEF new, t
    <3>3. TimelineStep(media[j], new)
      <4>1. CASE RepairKnown(j, p)
        BY <3>1, <3>2, <4>1, NewestIsNewer
      <4>2. CASE ~RepairKnown(j, p)
        BY <3>1, <4>2 DEF TimelineStep
      <4> QED
        BY <4>1, <4>2
    <3> QED
      BY <1>4, <3>1, <3>3
  <2> QED
    BY <2>1, <2>3, <2>4
<1>8. ASSUME NEW j \in Media, NEW pt, NEW ok, BuildRetransmission(j, pt, ok)
      PROVE  TimelineStep(media[i], media'[i])
  <2>1. media' = [media EXCEPT ![j] = Retransmitted(j)]
    BY <1>8, RetransmissionMedia DEF BuildRetransmission
  <2>2. TimelineStep(media[j], Retransmitted(j))
    BY RetransmissionMedia DEF SameSource, TimelineStep
  <2> QED
    BY <1>4, <2>1, <2>2
<1>9. CASE UNCHANGED vars
  BY <1>2, <1>9 DEF vars
<1> QED
  BY <1>5, <1>6, <1>7, <1>8, <1>9 DEF Next

\* The timestamps of a media go on across sources: what comes next is newer,
\* and a new line begins after the newest timestamp of the old one.
THEOREM TimelinesContinue == Spec => TimelineContinues
<1>1. SourceInv /\ [Next]_vars =>
        [\A i \in Media :
           StepsAreVisible /\ media[i].last # None =>
             /\ media'[i].last # None
             /\ \/ media'[i].last = media[i].last
                \/ Newer(media'[i].last, media[i].last)
             /\ media[i].anchor = None /\ media'[i].anchor # None =>
                  Newer(media'[i].target, media[i].last)]_vars
  BY NextTimeline DEF TimelineStep
<1> QED
  BY <1>1, SourceInvariant, PTL DEF Spec, TimelineContinues

-----------------------------------------------------------------------------
(* The cache of sequence numbers.                                          *)

Entries == Seq(Numbers \X Numbers)

\* Entry k of the order of insertion o is the last one for number s.
LastPlace(o, k, s) ==
  /\ k \in 1..Len(o) /\ o[k][1] = s
  /\ \A j \in 1..Len(o) : o[j][1] = s => j <= k

\* What CacheAgrees says of the order o and the map v.
Agree(o, v) ==
  \A s \in Numbers :
    \/ v[s] = None /\ \A k \in 1..Len(o) : o[k][1] # s
    \/ \E k \in 1..Len(o) : LastPlace(o, k, s) /\ v[s] = o[k][2]

\* The target numbers of the entries differ.
AllDiffer(o) == \A j, k \in 1..Len(o) : j < k => o[j][2] # o[k][2]

LEMMA AppendAgrees ==
  ASSUME NEW o \in Entries, NEW v \in [Numbers -> Numbers \cup {None}], Agree(o, v),
         NEW s \in Numbers, NEW t \in Numbers
  PROVE  Agree(Append(o, <<s, t>>), [v EXCEPT ![s] = t])
<1> DEFINE a == Append(o, <<s, t>>)
           w == [v EXCEPT ![s] = t]
           n == Len(o)
<1>1. /\ n \in Nat /\ Len(a) = n + 1 /\ a[n + 1] = <<s, t>>
      /\ \A k \in 1..n : a[k] = o[k]
  BY DEF Entries
<1> HIDE DEF a, n
<1> SUFFICES ASSUME NEW x \in Numbers
             PROVE  \/ w[x] = None /\ \A k \in 1..Len(a) : a[k][1] # x
                    \/ \E k \in 1..Len(a) : LastPlace(a, k, x) /\ w[x] = a[k][2]
  BY DEF Agree, a
<1>2. CASE x = s
  <2>1. n + 1 \in 1..Len(a) /\ LastPlace(a, n + 1, x)
    BY <1>1, <1>2 DEF LastPlace
  <2> QED
    BY <1>1, <1>2, <2>1
<1>3. CASE x # s /\ v[x] = None /\ \A k \in 1..n : o[k][1] # x
  <2>1. \A k \in 1..Len(a) : a[k][1] # x
    BY <1>1, <1>3
  <2> QED
    BY <1>3, <2>1
<1>4. ASSUME x # s, NEW k \in 1..n, LastPlace(o, k, x), v[x] = o[k][2]
      PROVE  \E j \in 1..Len(a) : LastPlace(a, j, x) /\ w[x] = a[j][2]
  <2>1. k \in 1..Len(a) /\ a[k] = o[k] /\ o[k][1] = x
    BY <1>1, <1>4 DEF LastPlace
  <2>2. ASSUME NEW j \in 1..Len(a), a[j][1] = x
        PROVE  j <= k
    <3>1. j # n + 1
      BY <1>1, <1>4, <2>2
    <3>2. j \in 1..n
      BY <1>1, <3>1
    <3> QED
      BY <1>1, <1>4, <2>2, <3>2 DEF LastPlace, n
  <2> QED
    BY <1>4, <2>1, <2>2 DEF LastPlace
<1> QED
  BY <1>2, <1>3, <1>4 DEF Agree, n

\* The oldest entry goes, and its number with it unless it was cached again.
LEMMA DropOldestAgrees ==
  ASSUME NEW o \in Entries, o # <<>>, AllDiffer(o),
         NEW v \in [Numbers -> Numbers \cup {None}], Agree(o, v)
  PROVE  Agree(Tail(o), IF v[Head(o)[1]] = Head(o)[2] THEN [v EXCEPT ![Head(o)[1]] = None] ELSE v)
<1> DEFINE old == Head(o)[1]
           w == IF v[old] = Head(o)[2] THEN [v EXCEPT ![old] = None] ELSE v
           b == Tail(o)
           n == Len(o)
<1>1. /\ n \in Nat \ {0} /\ Len(b) = n - 1 /\ Head(o) = o[1]
      /\ \A k \in 1..n - 1 : b[k] = o[k + 1]
  BY DEF Entries
<1> HIDE DEF b, n
<1>2. ASSUME NEW x, NEW k \in 1..n, k # 1, LastPlace(o, k, x)
      PROVE  k - 1 \in 1..Len(b) /\ LastPlace(b, k - 1, x) /\ b[k - 1] = o[k]
  <2>1. k - 1 \in 1..n - 1 /\ k - 1 + 1 = k
    BY <1>1, <1>2
  <2>2. b[k - 1] = o[k] /\ o[k][1] = x
    BY <1>1, <1>2, <2>1 DEF LastPlace
  <2>3. ASSUME NEW j \in 1..Len(b), b[j][1] = x
        PROVE  j <= k - 1
    <3>1. j + 1 \in 1..n /\ o[j + 1][1] = x
      BY <1>1, <2>3
    <3>2. j + 1 <= k
      BY <1>2, <3>1 DEF LastPlace, n
    <3> QED
      BY <1>1, <3>1, <3>2
  <2> QED
    BY <1>1, <2>1, <2>2, <2>3 DEF LastPlace
<1> SUFFICES ASSUME NEW x \in Numbers
             PROVE  \/ w[x] = None /\ \A k \in 1..Len(b) : b[k][1] # x
                    \/ \E k \in 1..Len(b) : LastPlace(b, k, x) /\ w[x] = b[k][2]
  BY DEF Agree, b
<1>3. old \in Numbers /\ o[1][1] = old
  BY <1>1 DEF Entries
<1>4. CASE v[x] = None /\ \A k \in 1..n : o[k][1] # x
  <2>1. w[x] = None
    BY <1>4
  <2>2. \A k \in 1..Len(b) : b[k][1] # x
    BY <1>1, <1>4
  <2> QED
    BY <2>1, <2>2
<1>5. ASSUME NEW k \in 1..n, k # 1, LastPlace(o, k, x), v[x] = o[k][2]
      PROVE  \E j \in 1..Len(b) : LastPlace(b, j, x) /\ w[x] = b[j][2]
  <2>1. o[1][2] # o[k][2]
    BY <1>1, <1>5 DEF AllDiffer, n
  <2>2. w[x] = v[x]
    BY <1>1, <1>3, <1>5, <2>1
  <2> QED
    BY <1>2, <1>5, <2>2
<1>6. ASSUME LastPlace(o, 1, x), v[x] = o[1][2]
      PROVE  w[x] = None /\ \A k \in 1..Len(b) : b[k][1] # x
  <2>1. x = old /\ w[x] = None
    BY <1>1, <1>3, <1>6 DEF LastPlace
  <2>2. ASSUME NEW k \in 1..Len(b), b[k][1] = x
        PROVE  FALSE
    <3>1. k + 1 \in 1..n /\ o[k + 1][1] = x /\ ~(k + 1 <= 1)
      BY <1>1, <2>2
    <3> QED
      BY <1>6, <3>1 DEF LastPlace, n
  <2> QED
    BY <2>1, <2>2
<1> QED
  BY <1>4, <1>5, <1>6 DEF Agree, n

\* How far the number n is ahead of the number a.
Ahead(n, a) == (n - a + SeqMod) % SeqMod

\* The entries of o have the numbers before n, in the order of insertion, apart
\* from those that were lost.
Spaced(o, n, lost) ==
  /\ \A k \in 1..Len(o) : Ahead(n, o[k][2]) \in 1..(Len(o) - k + 1 + lost)
  /\ \A j, k \in 1..Len(o) : j < k => Ahead(n, o[j][2]) > Ahead(n, o[k][2])

LEMMA AheadAfter ==
  ASSUME SettingOK, NEW n \in Numbers, NEW a \in Numbers
  PROVE  /\ Ahead(n, a) \in Nat
         /\ Ahead(n, a) + 1 < SeqMod => Ahead(After(n), a) = Ahead(n, a) + 1
         /\ Ahead(n, n) = 0
         /\ 1 < SeqMod => Ahead(After(n), n) = 1
<1>1. SeqMod \in Nat \ {0} /\ Numbers = 0..SeqMod - 1 /\ After(n) \in Numbers
  <2>1. SeqMod \in Nat \ {0} /\ Numbers = 0..SeqMod - 1
    BY DEF SettingOK, Numbers
  <2>2. n + 1 \in Int
    BY <2>1
  <2> QED
    BY <2>1, <2>2, ModRange DEF After
<1>2. After(n) = IF n + 1 = SeqMod THEN 0 ELSE n + 1
  BY <1>1, ModSuccessor DEF After
<1>3. \A x, y \in Numbers : Ahead(x, y) = IF x >= y THEN x - y ELSE x - y + SeqMod
  BY <1>1, ModDistance DEF Ahead
<1>4. Ahead(n, a) = IF n >= a THEN n - a ELSE n - a + SeqMod
  BY <1>3
<1>5. Ahead(After(n), a) = IF After(n) >= a THEN After(n) - a ELSE After(n) - a + SeqMod
  BY <1>1, <1>3
<1>6. Ahead(n, n) = 0
  BY <1>1, <1>3
<1>7. Ahead(After(n), n) = IF After(n) >= n THEN After(n) - n ELSE After(n) - n + SeqMod
  BY <1>1, <1>3
<1>8. Ahead(n, a) \in Nat
  BY <1>1, <1>4
<1>9. ASSUME Ahead(n, a) + 1 < SeqMod
      PROVE  Ahead(After(n), a) = Ahead(n, a) + 1
  <2>1. CASE n + 1 = SeqMod
    BY <1>1, <1>2, <1>4, <1>5, <1>9, <2>1
  <2>2. CASE n + 1 # SeqMod
    BY <1>1, <1>2, <1>4, <1>5, <1>9, <2>2
  <2> QED
    BY <2>1, <2>2
<1>10. 1 < SeqMod => Ahead(After(n), n) = 1
  BY <1>1, <1>2, <1>7
<1> QED
  BY <1>6, <1>8, <1>9, <1>10

\* Entries that are spaced have different numbers, none of them the next one.
LEMMA SpacedDiffer ==
  ASSUME SettingOK, NEW o \in Entries, NEW n \in Numbers, NEW lost, Spaced(o, n, lost)
  PROVE  AllDiffer(o) /\ \A k \in 1..Len(o) : o[k][2] # n
<1>1. \A k \in 1..Len(o) : o[k][2] \in Numbers
  BY DEF Entries
<1>2. \A k \in 1..Len(o) : o[k][2] # n
  <2>1. Ahead(n, n) = 0
    BY AheadAfter
  <2> QED
    BY <2>1 DEF Spaced
<1>3. ASSUME NEW j \in 1..Len(o), NEW k \in 1..Len(o), j < k, o[j][2] = o[k][2]
      PROVE  FALSE
  <2>1. Ahead(n, o[k][2]) \in Nat
    BY <1>1, AheadAfter
  <2>2. Ahead(n, o[j][2]) > Ahead(n, o[k][2])
    BY <1>3 DEF Spaced
  <2> QED
    BY <1>3, <2>1, <2>2
<1> QED
  BY <1>2, <1>3 DEF AllDiffer

\* The next number is used, by a packet that is cached or by one that is lost.
LEMMA AfterSpaced ==
  ASSUME SettingOK, NEW o \in Entries, NEW n \in Numbers, NEW lost \in Nat, Spaced(o, n, lost),
         Len(o) + lost + 1 < SeqMod
  PROVE  /\ Spaced(o, After(n), lost + 1)
         /\ \A k \in 1..Len(o) : Ahead(After(n), o[k][2]) = Ahead(n, o[k][2]) + 1
         /\ \A k \in 1..Len(o) : Ahead(n, o[k][2]) \in Nat
<1>1. Len(o) \in Nat /\ SeqMod \in Nat
  BY DEF Entries, SettingOK
<1>2. ASSUME NEW k \in 1..Len(o)
      PROVE  Ahead(n, o[k][2]) \in Nat /\ Ahead(After(n), o[k][2]) = Ahead(n, o[k][2]) + 1
  <2>1. o[k][2] \in Numbers
    BY DEF Entries
  <2>2. Ahead(n, o[k][2]) \in Nat
    BY <2>1, AheadAfter
  <2>3. Ahead(n, o[k][2]) + 1 < SeqMod
    BY <1>1, <2>2 DEF Spaced
  <2> QED
    BY <2>1, <2>2, <2>3, AheadAfter
<1>3. ASSUME NEW k \in 1..Len(o)
      PROVE  Ahead(After(n), o[k][2]) \in 1..(Len(o) - k + 1 + (lost + 1))
  <2>1. Ahead(n, o[k][2]) \in 1..(Len(o) - k + 1 + lost)
    BY DEF Spaced
  <2> HIDE DEF Ahead
  <2> QED
    BY <1>1, <1>2, <2>1
<1>4. ASSUME NEW j \in 1..Len(o), NEW k \in 1..Len(o), j < k
      PROVE  Ahead(After(n), o[j][2]) > Ahead(After(n), o[k][2])
  <2>1. Ahead(n, o[j][2]) > Ahead(n, o[k][2])
    BY <1>4 DEF Spaced
  <2> QED
    BY <1>2, <2>1
<1> QED
  BY <1>2, <1>3, <1>4 DEF Spaced

LEMMA AppendSpaced ==
  ASSUME SettingOK, NEW o \in Entries, NEW n \in Numbers, NEW lost \in Nat, Spaced(o, n, lost),
         Len(o) + lost + 1 < SeqMod, NEW s \in Numbers
  PROVE  Spaced(Append(o, <<s, n>>), After(n), lost)
<1> DEFINE a == Append(o, <<s, n>>)
           m == Len(o)
<1>1. /\ m \in Nat /\ Len(a) = m + 1 /\ a[m + 1] = <<s, n>>
      /\ \A k \in 1..m : a[k] = o[k]
  BY DEF Entries
<1>2. \A k \in 1..m : /\ Ahead(After(n), o[k][2]) = Ahead(n, o[k][2]) + 1
                      /\ Ahead(n, o[k][2]) \in Nat
  BY AfterSpaced
<1>3. /\ \A k \in 1..m : Ahead(n, o[k][2]) \in 1..(m - k + 1 + lost)
      /\ \A j, k \in 1..m : j < k => Ahead(n, o[j][2]) > Ahead(n, o[k][2])
  BY DEF Spaced
<1>4. Ahead(After(n), n) = 1
  <2>1. SeqMod \in Nat /\ 1 < SeqMod
    BY <1>1 DEF SettingOK
  <2> QED
    BY <2>1, AheadAfter
<1> HIDE DEF a, m
<1>5. ASSUME NEW k \in 1..Len(a)
      PROVE  Ahead(After(n), a[k][2]) \in 1..(Len(a) - k + 1 + lost)
  <2>1. CASE k = m + 1
    BY <1>1, <1>4, <2>1
  <2>2. CASE k # m + 1
    <3>1. k \in 1..m
      BY <1>1, <2>2
    <3>2. Ahead(n, o[k][2]) \in 1..(m - k + 1 + lost)
      BY <1>3, <3>1
    <3>3. Ahead(After(n), a[k][2]) = Ahead(n, o[k][2]) + 1
      BY <1>1, <1>2, <3>1
    <3> QED
      BY <1>1, <3>1, <3>2, <3>3
  <2> QED
    BY <2>1, <2>2
<1>6. ASSUME NEW j \in 1..m + 1, NEW k \in 1..m + 1, j < k
      PROVE  Ahead(After(n), a[j][2]) > Ahead(After(n), a[k][2])
  <2>1. j \in 1..m
    BY <1>1, <1>6
  <2>2. CASE k = m + 1
    <3>1. Ahead(n, o[j][2]) >= 1
      BY <1>1, <1>3, <2>1
    <3> QED
      BY <1>1, <1>2, <1>4, <2>1, <2>2, <3>1
  <2>3. CASE k # m + 1
    <3>1. k \in 1..m
      BY <1>1, <2>3
    <3>2. Ahead(n, o[j][2]) > Ahead(n, o[k][2])
      BY <1>3, <1>6, <2>1, <3>1
    <3> QED
      BY <1>1, <1>2, <2>1, <3>1, <3>2
  <2> QED
    BY <2>2, <2>3
<1>7. Spaced(a, After(n), lost)
  <2>1. \A k \in 1..Len(a) : Ahead(After(n), a[k][2]) \in 1..(Len(a) - k + 1 + lost)
    BY <1>5
  <2>2. \A j, k \in 1..Len(a) : j < k => Ahead(After(n), a[j][2]) > Ahead(After(n), a[k][2])
    BY <1>1, <1>6, Zenon
  <2> QED
    BY <2>1, <2>2, Zenon DEF Spaced
<1> QED
  BY <1>7 DEF a

LEMMA TailSpaced ==
  ASSUME NEW o \in Entries, o # <<>>, NEW n \in Numbers, NEW lost \in Nat, Spaced(o, n, lost)
  PROVE  Spaced(Tail(o), n, lost)
<1>1. /\ Len(o) \in Nat \ {0} /\ Len(Tail(o)) = Len(o) - 1
      /\ \A k \in 1..Len(o) - 1 : Tail(o)[k] = o[k + 1] /\ k + 1 \in 1..Len(o)
  BY DEF Entries
<1>2. ASSUME NEW k \in 1..Len(o) - 1
      PROVE  Ahead(n, Tail(o)[k][2]) \in 1..(Len(o) - 1 - k + 1 + lost)
  <2>1. Ahead(n, o[k + 1][2]) \in 1..(Len(o) - (k + 1) + 1 + lost)
    BY <1>1 DEF Spaced
  <2>2. Len(o) - (k + 1) + 1 + lost = Len(o) - 1 - k + 1 + lost
    BY <1>1
  <2> QED
    BY <1>1, <2>1, <2>2
<1>3. ASSUME NEW j \in 1..Len(o) - 1, NEW k \in 1..Len(o) - 1, j < k
      PROVE  Ahead(n, Tail(o)[j][2]) > Ahead(n, Tail(o)[k][2])
  <2>1. j + 1 < k + 1
    BY <1>1, <1>3
  <2> QED
    BY <1>1, <2>1 DEF Spaced
<1> QED
  BY <1>1, <1>2, <1>3 DEF Spaced

\* More numbers are lost elsewhere.
LEMMA LostSpaced ==
  ASSUME NEW o \in Entries, NEW n, NEW lost \in Nat, NEW more \in Nat, more >= lost,
         Spaced(o, n, lost)
  PROVE  Spaced(o, n, more)
<1>1. Len(o) \in Nat
  BY DEF Entries
<1> QED
  BY <1>1 DEF Spaced

\* sequence_number_cache::remember, of a packet sent with the next number.
LEMMA RememberedHolds ==
  ASSUME SettingOK, NEW c \in CacheType, Len(c.order) <= CacheLimit,
         NEW s \in Numbers, NEW n \in Numbers, NEW lost \in Nat, CacheLimit + lost < SeqMod,
         Agree(c.order, c.values), Spaced(c.order, n, lost)
  PROVE  LET r == Remembered(c, s, n)
         IN /\ Agree(r.order, r.values)
            /\ Spaced(r.order, After(n), lost)
            /\ \A x \in Numbers : r.values[x] # None =>
                 IF x = s THEN r.values[x] = n ELSE r.values[x] = c.values[x]
<1> DEFINE o == c.order
           a == Append(o, <<s, n>>)
           v == [c.values EXCEPT ![s] = n]
           old == Head(a)
           w == IF v[old[1]] = old[2] THEN [v EXCEPT ![old[1]] = None] ELSE v
<1>1. o \in Entries /\ c.values \in [Numbers -> Numbers \cup {None}] /\ <<s, n>> \in Numbers \X Numbers
  BY DEF CacheType, Entries
<1>2. /\ a \in Entries /\ a # <<>> /\ Len(a) = Len(o) + 1 /\ Len(o) \in Nat
      /\ CacheLimit \in Nat \ {0} /\ SeqMod \in Nat
      /\ \A k \in 1..Len(o) : a[k] = o[k]
      /\ a[Len(o) + 1] = <<s, n>>
  <2>1. Len(o) \in Nat /\ o \in Seq(Numbers \X Numbers)
    BY <1>1 DEF Entries
  <2>2. CacheLimit \in Nat \ {0} /\ SeqMod \in Nat
    BY DEF SettingOK
  <2> HIDE DEF o
  <2>3. /\ a \in Entries /\ a # <<>> /\ Len(a) = Len(o) + 1
        /\ \A k \in 1..Len(o) : a[k] = o[k]
        /\ a[Len(o) + 1] = <<s, n>>
    <3> DEFINE e == <<s, n>>
    <3>1. e \in Numbers \X Numbers
      BY <1>1
    <3> HIDE DEF e
    <3>2. /\ Append(o, e) \in Seq(Numbers \X Numbers) /\ Append(o, e) # <<>>
          /\ Len(Append(o, e)) = Len(o) + 1
          /\ \A k \in 1..Len(o) : Append(o, e)[k] = o[k]
          /\ Append(o, e)[Len(o) + 1] = e
      BY <2>1, <3>1, AppendProperties
    <3> QED
      BY <3>2 DEF Entries, e
  <2> QED
    BY <2>1, <2>2, <2>3
<1>3. v \in [Numbers -> Numbers \cup {None}] /\ \A x \in Numbers : v[x] = IF x = s THEN n ELSE c.values[x]
  BY <1>1
<1>4. Agree(a, v)
  BY <1>1, AppendAgrees
<1>5. AllDiffer(o) /\ \A k \in 1..Len(o) : o[k][2] # n
  BY <1>1, SpacedDiffer
<1>6. AllDiffer(a)
  <2> HIDE DEF a, o
  <2>1. ASSUME NEW j \in 1..Len(a), NEW k \in 1..Len(a), j < k
        PROVE  a[j][2] # a[k][2]
    <3>1. j \in 1..Len(o) /\ a[j] = o[j]
      BY <1>2, <2>1
    <3>2. CASE k = Len(o) + 1
      BY <1>2, <1>5, <3>1, <3>2
    <3>3. CASE k # Len(o) + 1
      <4>1. k \in 1..Len(o) /\ a[k] = o[k]
        BY <1>2, <3>3
      <4> QED
        BY <1>5, <2>1, <3>1, <4>1 DEF AllDiffer
    <3> QED
      BY <3>2, <3>3
  <2> QED
    BY <2>1 DEF AllDiffer
<1>7. CASE Len(a) <= CacheLimit
  <2>1. Remembered(c, s, n) = [order |-> a, values |-> v]
    BY <1>7 DEF Remembered
  <2>2. Len(o) + lost + 1 < SeqMod
    BY <1>2, <1>7
  <2>3. Spaced(a, After(n), lost)
    BY <1>1, <2>2, AppendSpaced
  <2> HIDE DEF a, v
  <2> QED
    BY <1>3, <1>4, <2>1, <2>3
<1>8. CASE ~(Len(a) <= CacheLimit)
  <2>1. Remembered(c, s, n) = [order |-> Tail(a), values |-> w]
    BY <1>8 DEF Remembered
  <2>2. Agree(Tail(a), w)
    <3> HIDE DEF a, v
    <3> QED
      BY <1>2, <1>3, <1>4, <1>6, DropOldestAgrees
  <2>3. o # <<>>
    BY <1>2, <1>8
  <2>4. Tail(a) = Append(Tail(o), <<s, n>>)
    BY <1>1, <2>3, HeadTailAppend DEF Entries
  <2>5. Tail(o) \in Entries /\ Len(Tail(o)) = Len(o) - 1
    BY <1>1, <2>3 DEF Entries
  <2>6. Spaced(Tail(o), n, lost)
    BY <1>1, <2>3, TailSpaced
  <2>7. Len(Tail(o)) + lost + 1 < SeqMod
    BY <1>2, <2>5
  <2>8. Spaced(Tail(a), After(n), lost)
    <3> HIDE DEF a, o
    <3> QED
      BY <2>4, <2>5, <2>6, <2>7, AppendSpaced
  <2>9. \A x \in Numbers : w[x] # None => IF x = s THEN w[x] = n ELSE w[x] = c.values[x]
    <3>1. old[1] \in Numbers
      BY <1>2 DEF Entries
    <3> HIDE DEF a, v, old
    <3> QED
      BY <1>3, <3>1
  <2> HIDE DEF a, w
  <2> QED
    BY <2>1, <2>2, <2>8, <2>9
<1> QED
  BY <1>7, <1>8

\* What RepairNamesItsPacket says of one media, and how its numbers lie.
CacheHolds(ms, sent, lost) ==
  /\ Agree(ms.cache.order, ms.cache.values)
  /\ Spaced(ms.cache.order, Allocated(ms.next), lost)
  /\ \A s \in Numbers :
       ms.cache.values[s] # None =>
         sent[ms.cache.values[s]] = [ssrc |-> ms.primary, seq |-> s]

LEMMA EmptyCacheHolds ==
  ASSUME NEW ms, ms.cache = EmptyCache, NEW sent, NEW lost
  PROVE  CacheHolds(ms, sent, lost)
<1>1. ms.cache.order = <<>> /\ \A s \in Numbers : ms.cache.values[s] = None
  BY DEF EmptyCache
<1>2. 1..Len(ms.cache.order) = {}
  BY <1>1
<1> QED
  BY <1>1, <1>2 DEF CacheHolds, Agree, Spaced

LEMMA SameCacheHolds ==
  ASSUME NEW old \in MediaType, NEW new, new.cache = old.cache, new.next = old.next,
         new.primary = old.primary, NEW sent, NEW lost \in Nat, NEW more \in Nat, more >= lost,
         CacheHolds(old, sent, lost)
  PROVE  CacheHolds(new, sent, more)
<1>1. old.cache.order \in Entries
  BY DEF MediaType, CacheType, Entries
<1>2. Spaced(old.cache.order, Allocated(old.next), more)
  BY <1>1, LostSpaced DEF CacheHolds
<1> QED
  BY <1>2 DEF CacheHolds

\* A packet of the present source is sent and remembered.
LEMMA SentCacheHolds ==
  ASSUME SettingOK, NumbersOutliveCache, NEW ms, WholeMedia(ms), NEW p, p.seq \in Numbers,
         ms.primary = p.ssrc, NEW sent, NEW lost \in Nat, lost <= MaxFailures,
         CacheHolds(ms, sent, lost), NEW new, new.primary = ms.primary,
         new.next = After(Allocated(ms.next)),
         new.cache = Remembered(ms.cache, p.seq, Allocated(ms.next))
  PROVE  CacheHolds(new, SentWith(sent, ms.cache, Allocated(ms.next), p), lost)
<1> DEFINE n == Allocated(ms.next)
           c == ms.cache
           r == Remembered(c, p.seq, n)
<1>1. c \in CacheType /\ Len(c.order) <= CacheLimit /\ ms.next \in Numbers \cup {None}
  BY DEF WholeMedia, MediaType
<1>2. n \in Numbers /\ After(n) \in Numbers /\ None \notin Numbers
  BY <1>1, AllocatedType DEF SettingOK
<1>3. CacheLimit + lost < SeqMod
  BY DEF NumbersOutliveCache, SettingOK
<1>4. /\ Agree(c.order, c.values) /\ Spaced(c.order, n, lost)
      /\ \A s \in Numbers : c.values[s] # None => sent[c.values[s]] = [ssrc |-> ms.primary, seq |-> s]
  BY DEF CacheHolds
<1> HIDE DEF n, c
<1>5. /\ Agree(r.order, r.values) /\ Spaced(r.order, After(n), lost)
      /\ \A x \in Numbers : r.values[x] # None =>
           IF x = p.seq THEN r.values[x] = n ELSE r.values[x] = c.values[x]
  BY <1>1, <1>2, <1>3, <1>4, RememberedHolds
<1> HIDE DEF r
<1>6. ASSUME NEW x \in Numbers, r.values[x] # None
      PROVE  SentWith(sent, c, n, p)[r.values[x]] = [ssrc |-> p.ssrc, seq |-> x]
  <2>1. CASE x = p.seq
    <3>1. r.values[x] = n
      BY <1>5, <1>6, <2>1
    <3> QED
      BY <1>2, <2>1, <3>1 DEF SentWith
  <2>2. CASE x # p.seq
    <3> DEFINE m == c.values[x]
    <3>1. r.values[x] = m /\ m # None
      BY <1>5, <1>6, <2>2
    <3>2. c.order \in Entries /\ m \in Numbers
      BY <1>1, <3>1 DEF CacheType, Entries
    <3>3. \E k \in 1..Len(c.order) : m = c.order[k][2]
      BY <1>4, <3>1 DEF Agree
    <3>4. m # n
      BY <1>2, <1>4, <3>2, <3>3, SpacedDiffer
    <3>5. sent[m] = [ssrc |-> p.ssrc, seq |-> x]
      BY <1>4, <3>1
    <3>6. SentWith(sent, c, n, p)[m] = sent[m]
      BY <3>2, <3>4 DEF SentWith
    <3> QED
      BY <3>1, <3>5, <3>6
  <2> QED
    BY <2>1, <2>2
<1>7. new.cache = r /\ Allocated(new.next) = After(n) /\ new.primary = p.ssrc
  BY <1>2 DEF Allocated, n, r, c
<1> QED
  BY <1>5, <1>6, <1>7 DEF CacheHolds, n, c

\* The number of a packet that cannot be built is lost.
LEMMA LostCacheHolds ==
  ASSUME SettingOK, NumbersOutliveCache, NEW ms, WholeMedia(ms), NEW sent, NEW lost \in Nat,
         lost < MaxFailures, CacheHolds(ms, sent, lost), NEW new, new.primary = ms.primary,
         new.next = After(Allocated(ms.next)), new.cache = ms.cache
  PROVE  CacheHolds(new, sent, lost + 1)
<1> DEFINE n == Allocated(ms.next)
           o == ms.cache.order
<1>1. o \in Entries /\ Len(o) <= CacheLimit /\ ms.next \in Numbers \cup {None}
  BY DEF WholeMedia, MediaType, CacheType, Entries
<1>2. n \in Numbers /\ After(n) \in Numbers /\ None \notin Numbers
  BY <1>1, AllocatedType DEF SettingOK
<1>3. Len(o) + lost + 1 < SeqMod
  <2>1. Len(o) \in Nat
    BY <1>1 DEF Entries
  <2> HIDE DEF o
  <2> QED
    BY <1>1, <2>1 DEF NumbersOutliveCache, SettingOK
<1>4. Spaced(o, n, lost)
  BY DEF CacheHolds
<1>5. Spaced(o, After(n), lost + 1)
  BY <1>1, <1>2, <1>3, <1>4, AfterSpaced
<1>6. Allocated(new.next) = After(n)
  BY <1>2 DEF Allocated
<1> QED
  BY <1>5, <1>6 DEF CacheHolds

\* The inductive invariant of RepairNamesItsPacket.
RepairInv ==
  /\ failures \in 0..MaxFailures
  /\ origin = [i \in Media |-> origin[i]]
  /\ NumbersOutliveCache => \A i \in Media : CacheHolds(media[i], origin[i], failures)

LEMMA RepairNext ==
  ASSUME setting' = setting, failures' \in 0..MaxFailures,
         origin' = [i \in Media |-> origin'[i]],
         NumbersOutliveCache => \A i \in Media : CacheHolds(media'[i], origin'[i], failures')
  PROVE  RepairInv'
<1>1. (NumbersOutliveCache)' = NumbersOutliveCache
  <2>1. CacheLimit' = CacheLimit /\ MaxFailures' = MaxFailures /\ SeqMod' = SeqMod
    BY SettingKept
  <2> QED
    BY <2>1, Zenon DEF NumbersOutliveCache
<1>2. ASSUME NEW i, CacheHolds(media'[i], origin'[i], failures')
      PROVE  CacheHolds(media[i], origin[i], failures)'
  BY <1>2, SettingKept
     DEF CacheHolds, Agree, Spaced, LastPlace, Ahead, Allocated
<1> QED
  BY <1>1, <1>2, SettingKept DEF RepairInv

\* A media whose source, numbers and origins are untouched.
LEMMA CacheKept ==
  ASSUME SourceInv, RepairInv, NumbersOutliveCache, NEW j \in Media, origin'[j] = origin[j],
         media'[j].cache = media[j].cache, media'[j].next = media[j].next,
         media'[j].primary = media[j].primary, failures' \in {failures, failures + 1}
  PROVE  CacheHolds(media'[j], origin'[j], failures')
<1>1. media[j] \in MediaType
  BY WholeSource DEF SourceInv, WholeMedia
<1>2. /\ failures \in Nat /\ failures' \in Nat /\ failures' >= failures
      /\ CacheHolds(media[j], origin[j], failures)
  BY DEF RepairInv, SourceInv, SettingOK
<1> QED
  BY <1>1, <1>2, SameCacheHolds

LEMMA RewritePrimaryRepair ==
  ASSUME SourceInv, RepairInv, NEW i \in Media, NEW p \in Packets, Pt(i, p.pt).clock \in Nat,
         p.ok \/ failures < MaxFailures, setting' = setting, RewritePrimary(i, p)
  PROVE  RepairInv'
<1> DEFINE ms == PrimarySource(i, p)
           n == PrimaryNumber(i, p)
           new == PrimarySent(i, p)
<1>1. /\ media' = [media EXCEPT ![i] = new] /\ WholeMedia(ms) /\ ms.primary = p.ssrc
      /\ p.seq \in Numbers /\ n = Allocated(ms.next) /\ SettingOK
  BY PrimaryPacket DEF PrimaryNumber, SourceInv
<1>2. media'[i] = new /\ \A j \in Media : j # i => media'[j] = media[j]
  BY <1>1, OneMediaSsrcs
<1>3. failures \in Nat /\ failures <= MaxFailures /\ MaxFailures \in Nat
  BY <1>1 DEF RepairInv, SettingOK
<1>4. /\ new.primary = ms.primary /\ new.next = After(n)
      /\ new.cache = IF p.ok THEN Remembered(ms.cache, p.seq, n) ELSE ms.cache
  <2>1. ms \in MediaType
    BY <1>1 DEF WholeMedia
  <2> QED
    BY <2>1 DEF PrimarySent, MediaType
<1>5. \/ /\ p.ok /\ failures' = failures
         /\ origin' = [origin EXCEPT ![i] = SentWith(@, ms.cache, n, p)]
      \/ ~p.ok /\ failures' = failures + 1 /\ origin' = origin
  BY DEF RewritePrimary, PrimaryNumber, PrimarySource
<1> HIDE DEF n, new
<1>6. /\ failures' \in 0..MaxFailures /\ failures' \in {failures, failures + 1}
      /\ origin' = [j \in Media |-> origin'[j]]
      /\ \A j \in Media : j # i => origin'[j] = origin[j]
      /\ p.ok => origin'[i] = SentWith(origin[i], ms.cache, n, p)
  BY <1>3, <1>5 DEF RepairInv
<1>7. ASSUME NumbersOutliveCache, NEW j \in Media
      PROVE  CacheHolds(media'[j], origin'[j], failures')
  <2>1. CASE j # i
    BY <1>2, <1>6, <1>7, <2>1, CacheKept
  <2>2. CASE j = i
    <3>1. CacheHolds(ms, origin[i], failures)
      <4>1. CASE SourceChanged(i, p) \/ media[i].anchor = None
        <5>1. media[i] \in MediaType
          BY WholeSource DEF SourceInv, WholeMedia
        <5>2. ms.cache = EmptyCache
          BY <4>1, <5>1 DEF PrimarySource, Begun, MediaType
        <5> QED
          BY <5>2, EmptyCacheHolds
      <4>2. CASE ~(SourceChanged(i, p) \/ media[i].anchor = None)
        BY <1>7, <4>2 DEF PrimarySource, RepairInv
      <4> QED
        BY <4>1, <4>2
    <3> HIDE DEF ms
    <3>2. CASE p.ok
      <4>1. CacheHolds(new, SentWith(origin[i], ms.cache, n, p), failures)
        BY <1>1, <1>3, <1>4, <1>7, <3>1, <3>2, SentCacheHolds
      <4> QED
        BY <1>2, <1>5, <1>6, <2>2, <3>2, <4>1
    <3>3. CASE ~p.ok
      <4>1. CacheHolds(new, origin[i], failures + 1)
        BY <1>1, <1>3, <1>4, <1>7, <3>1, <3>3, LostCacheHolds
      <4> QED
        BY <1>2, <1>5, <2>2, <3>3, <4>1
    <3> QED
      BY <3>2, <3>3
  <2> QED
    BY <2>1, <2>2
<1> QED
  BY <1>6, <1>7, RepairNext

LEMMA SameSourceRepair ==
  ASSUME SourceInv, RepairInv, NEW i \in Media, NEW new, SameSource(media[i], new),
         media' = [media EXCEPT ![i] = new], setting' = setting, origin' = origin,
         failures' \in 0..MaxFailures, failures' \in {failures, failures + 1}
  PROVE  RepairInv'
<1>1. media'[i] = new /\ \A j \in Media : j # i => media'[j] = media[j]
  BY OneMediaSsrcs
<1>2. \A j \in Media : SameSource(media[j], media'[j])
  BY <1>1 DEF SameSource
<1>3. ASSUME NumbersOutliveCache, NEW j \in Media
      PROVE  CacheHolds(media'[j], origin'[j], failures')
  BY <1>2, <1>3, CacheKept DEF SameSource
<1>4. origin' = [j \in Media |-> origin'[j]]
  BY DEF RepairInv
<1> QED
  BY <1>3, <1>4, RepairNext

\* A media is kept as it is, or its source is cleared.
LEMMA ClearedRepair ==
  ASSUME SourceInv, RepairInv, \A j \in Media : MediaKept(j) \/ MediaCleared(j),
         UNCHANGED <<setting, failures, origin>>
  PROVE  RepairInv'
<1>1. ASSUME NumbersOutliveCache, NEW j \in Media
      PROVE  CacheHolds(media'[j], origin'[j], failures')
  <2>1. CASE MediaKept(j)
    BY <1>1, <2>1, CacheKept DEF MediaKept
  <2>2. CASE MediaCleared(j)
    <3>1. media[j] \in MediaType
      BY WholeSource DEF SourceInv, WholeMedia
    <3>2. media'[j].cache = EmptyCache
      BY <2>2, <3>1 DEF MediaCleared, Cleared, MediaType
    <3> QED
      BY <3>2, EmptyCacheHolds
  <2> QED
    BY <2>1, <2>2
<1>2. failures' \in 0..MaxFailures /\ origin' = [j \in Media |-> origin'[j]]
  BY DEF RepairInv
<1> QED
  BY <1>1, <1>2, RepairNext

LEMMA NextRepair == SourceInv /\ RepairInv /\ [Next]_vars => RepairInv'
<1> SUFFICES ASSUME SourceInv, RepairInv, [Next]_vars
             PROVE  RepairInv'
  OBVIOUS
<1>1. failures \in Nat /\ failures <= MaxFailures /\ MaxFailures \in Nat
  BY DEF RepairInv, SourceInv, SettingOK
<1>2. ASSUME NEW c \in Configs, SetConfig(c)
      PROVE  RepairInv'
  BY <1>2, SetConfigMedia, ClearedRepair
<1>3. CASE ClearSource
  BY <1>3, ClearSourceMedia, ClearedRepair
<1>4. ASSUME NEW p \in Packets, Rewrite(p)
      PROVE  RepairInv'
  <2>1. PICK i \in Media : /\ Pt(i, p.pt).clock \in Nat
                           /\ RewritePrimary(i, p) \/ RewriteRtx(i, p)
    BY <1>4, RewriteMedia
  <2>2. setting' = setting /\ (p.ok \/ failures < MaxFailures)
    BY <1>4 DEF Rewrite
  <2>3. CASE RewritePrimary(i, p)
    BY <2>1, <2>2, <2>3, RewritePrimaryRepair
  <2>4. CASE RewriteRtx(i, p)
    <3>1. media' = [media EXCEPT ![i] = RtxSent(i, p)] /\ SameSource(media[i], RtxSent(i, p))
      BY <2>4, RtxPacket
    <3>2. origin' = origin /\ (failures' = failures \/ (~p.ok /\ failures' = failures + 1))
      BY <2>4 DEF RewriteRtx
    <3>3. failures' \in 0..MaxFailures /\ failures' \in {failures, failures + 1}
      BY <1>1, <2>2, <3>2
    <3> QED
      BY <2>2, <3>1, <3>2, <3>3, SameSourceRepair
  <2> QED
    BY <2>1, <2>3, <2>4
<1>5. ASSUME NEW i \in Media, NEW pt, NEW ok, BuildRetransmission(i, pt, ok)
      PROVE  RepairInv'
  <2>1. media' = [media EXCEPT ![i] = Retransmitted(i)] /\ SameSource(media[i], Retransmitted(i))
    BY <1>5, RetransmissionMedia DEF BuildRetransmission
  <2>2. /\ setting' = setting /\ origin' = origin
        /\ failures' = failures \/ (failures < MaxFailures /\ failures' = failures + 1)
    BY <1>5 DEF BuildRetransmission
  <2>3. failures' \in 0..MaxFailures /\ failures' \in {failures, failures + 1}
    BY <1>1, <2>2
  <2> QED
    BY <2>1, <2>2, <2>3, SameSourceRepair
<1>6. CASE UNCHANGED vars
  <2>1. \A j \in Media : MediaKept(j)
    BY <1>6 DEF vars, MediaKept
  <2> QED
    BY <1>6, <2>1, ClearedRepair DEF vars
<1> QED
  BY <1>2, <1>3, <1>4, <1>5, <1>6 DEF Next

\* CacheAgrees is Agree, media by media.
LEMMA CachesAgree ==
  ASSUME \A i \in Media : Agree(media[i].cache.order, media[i].cache.values)
  PROVE  CacheAgrees
<1> SUFFICES ASSUME NEW i \in Media, NEW s \in Numbers
             PROVE  LET c == media[i].cache
                        places == {k \in 1..Len(c.order) : c.order[k][1] = s}
                    IN IF places = {} THEN c.values[s] = None
                       ELSE \E k \in places :
                              (\A j \in places : j <= k) /\ c.values[s] = c.order[k][2]
  BY DEF CacheAgrees
<1> DEFINE c == media[i].cache
<1>1. \/ c.values[s] = None /\ \A k \in 1..Len(c.order) : c.order[k][1] # s
      \/ \E k \in 1..Len(c.order) : LastPlace(c.order, k, s) /\ c.values[s] = c.order[k][2]
  BY DEF Agree
<1> HIDE DEF c
<1>2. LET places == {k \in 1..Len(c.order) : c.order[k][1] = s}
      IN IF places = {} THEN c.values[s] = None
         ELSE \E k \in places : (\A j \in places : j <= k) /\ c.values[s] = c.order[k][2]
  BY <1>1 DEF LastPlace
<1> QED
  BY <1>2 DEF c

\* An RTX packet of the publisher is forwarded under the number that its packet,
\* of the present source, was sent with last: however the media, their sources
\* and the numbers that packets repeat come and go.
THEOREM RepairsNameTheirPackets == Spec => []RepairNamesItsPacket
<1>1. Init => RepairInv
  <2> SUFFICES ASSUME Init PROVE RepairInv
    OBVIOUS
  <2>1. SettingOK
    BY InitSettingOK DEF Init
  <2>2. ASSUME NEW i \in Media PROVE CacheHolds(media[i], origin[i], failures)
    <3>1. media[i].cache = EmptyCache
      BY DEF Init, NewMedia
    <3> QED
      BY <3>1, EmptyCacheHolds
  <2> QED
    BY <2>1, <2>2 DEF Init, RepairInv, SettingOK
<1>2. SourceInv /\ RepairInv /\ [Next]_vars => RepairInv'
  BY NextRepair
<1>3. RepairInv => RepairNamesItsPacket
  BY CachesAgree DEF RepairInv, RepairNamesItsPacket, CacheHolds
<1> QED
  BY <1>1, <1>2, <1>3, SourceInvariant, PTL DEF Spec
=============================================================================
