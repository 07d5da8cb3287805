-------------------------- MODULE MCWhipReception --------------------------
(***************************************************************************)
(* Payload types for WhipReception: video with and audio without           *)
(* transport-cc.                                                           *)
(***************************************************************************)
EXTENDS WhipReception

AudioVideo == {[kind |-> "video", cc |-> TRUE], [kind |-> "audio", cc |-> FALSE]}
=============================================================================
