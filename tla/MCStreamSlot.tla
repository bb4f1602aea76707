---------------------------- MODULE MCStreamSlot ----------------------------
(* A player session and a stream goroutine on one task, a disk stream on
   another. *)
EXTENDS StreamSlot, TLC

CONSTANTS s1, g1, d1, t1, t2

MCTaskOf == s1 :> t1 @@ g1 :> t1 @@ d1 :> t2
=============================================================================
