--------------------------- MODULE MCMediaFanout ---------------------------
(***************************************************************************)
(* MediaFanout for TLC.  Subscribers, SSRCs, streams and offers are each   *)
(* interchangeable in the specification, which mentions none of them by    *)
(* name; only runs that check no liveness property use the symmetry set.   *)
(***************************************************************************)
EXTENDS MediaFanout, TLC

Symmetry == Permutations(Subscribers) \cup Permutations(Ssrcs)
            \cup Permutations(Streams) \cup Permutations(Offers)
============================================================================
