---------------------------- MODULE MCHlsEncoder ----------------------------
(* A title of three segments, two ffmpegs, two lives of the daemon. *)
EXTENDS HlsEncoder
=============================================================================
