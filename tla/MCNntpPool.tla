---------------------------- MODULE MCNntpPool ----------------------------
(* Three calls contend for a pool of two connections. *)
EXTENDS NntpPool, TLC

Sym == Permutations(Conns)
=============================================================================
