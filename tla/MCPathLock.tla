---------------------------- MODULE MCPathLock ----------------------------
(* Three callers, two paths, one of them under two spellings. *)
EXTENDS PathLock

CONSTANTS p1, p2, p3, e1, e2, e3, e4

MCProcs == {p1, p2, p3}
MCEntries == {e1, e2, e3, e4}
MCSpellings == {"rel/a", "/abs/a", "/abs/b"}
MCKeys == {"/abs/a", "/abs/b"}
MCAbs == [s \in MCSpellings |-> IF s = "rel/a" THEN "/abs/a" ELSE s]
===========================================================================
