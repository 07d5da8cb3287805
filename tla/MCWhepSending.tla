--------------------------- MODULE MCWhepSending ---------------------------
(***************************************************************************)
(* WhepSending for TLC: a subscriber that negotiated NACK, one without     *)
(* feedback of either kind whose publisher sends reports, and one that     *)
(* negotiated transport feedback.                                          *)
(***************************************************************************)
EXTENDS WhepSending, TLC

Retransmits ==
  [nack |-> TRUE, rtx |-> FALSE, transportCc |-> FALSE, timed |-> TRUE,
   maxGeneration |-> 1, maxReports |-> 0, maxLines |-> 1, maxNumber |-> 0]

Reports ==
  [nack |-> FALSE, rtx |-> TRUE, transportCc |-> FALSE, timed |-> FALSE,
   maxGeneration |-> 2, maxReports |-> 3, maxLines |-> 3, maxNumber |-> 0]

Feedbacks ==
  [nack |-> FALSE, rtx |-> TRUE, transportCc |-> TRUE, timed |-> TRUE,
   maxGeneration |-> 1, maxReports |-> 0, maxLines |-> 1, maxNumber |-> 9]

MCSettings == {Retransmits, Reports, Feedbacks}

Symmetry == Permutations(Keys) \cup Permutations(Sources) \cup Permutations(Sessions)
============================================================================
