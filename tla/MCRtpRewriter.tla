--------------------------- MODULE MCRtpRewriter ---------------------------
(***************************************************************************)
(* Model values for RtpRewriter.  Publisher sessions "a" and "b"; payload  *)
(* types "p" and "q" are codecs with clocks that give steps of 1 and 2,    *)
(* "r" is RTX for "p".                                                     *)
(***************************************************************************)
EXTENDS RtpRewriter, TLC

Primary(clock) == [target |-> clock, rtx |-> FALSE, nack |-> TRUE, apt |-> 0, clock |-> clock]

Rtx(clock) == [target |-> 0, rtx |-> TRUE, nack |-> FALSE, apt |-> clock, clock |-> clock]

Mapping(mid, pts) ==
  [mid |-> mid,
   pts |-> [q \in pts |-> CASE q = "p" -> Primary(50)
                            [] q = "q" -> Primary(200)
                            [] q = "r" -> Rtx(50)]]

\* One media; a later publisher uses other payload types.
OneMedia ==
  {[session |-> "a", maps |-> <<Mapping("m", {"p", "q", "r"})>>],
   [session |-> "b", maps |-> <<Mapping("m", {"q"})>>]}

\* The same with one codec.
OneCodec ==
  {[session |-> "a", maps |-> <<Mapping("m", {"p", "r"})>>],
   [session |-> "b", maps |-> <<Mapping("m", {"q"})>>]}

\* Two media with the same payload types, so that only SSRC or MID tell them
\* apart, and a publisher that changes which of its media is forwarded where.
TwoMedia ==
  {[session |-> "a", maps |-> <<Mapping("m", {"p", "r"}), Mapping("n", {"p", "r"})>>],
   [session |-> "a", maps |-> <<Mapping("m", {"p", "r"}), Mapping("o", {"q"})>>]}

\* Which media a packet belongs to: three SSRCs, numbers and time play no part.
Sources ==
  [mediaCount |-> 2, ssrcCount |-> 3, configs |-> TwoMedia, numbers |-> {0}, timestamps |-> {0},
   seqMod |-> 1, tsMod |-> 1, cacheLimit |-> 1, maxFailures |-> 0]

\* Timestamps, which wrap, over two SSRCs and two codecs.
Timeline ==
  [mediaCount |-> 1, ssrcCount |-> 2, configs |-> OneMedia, numbers |-> {0}, timestamps |-> {0, 3, 6},
   seqMod |-> 1, tsMod |-> 8, cacheLimit |-> 1, maxFailures |-> 1]

\* Sequence numbers, which wrap and outlive the cache.
Repair ==
  [mediaCount |-> 1, ssrcCount |-> 2, configs |-> OneCodec, numbers |-> {0, 1, 3}, timestamps |-> {0},
   seqMod |-> 4, tsMod |-> 1, cacheLimit |-> 2, maxFailures |-> 1]

MCSettings == {Sources, Timeline, Repair}

SsrcSymmetry == Permutations(AllSsrcs)
=============================================================================
