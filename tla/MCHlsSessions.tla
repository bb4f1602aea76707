---------------------------- MODULE MCHlsSessions ----------------------------
(* Two sessions, each a viewer or a prewarm, on one title and one account. *)
EXTENDS HlsSessions, TLC
CONSTANTS a, b
Both == {a, b}
Symmetry == Permutations(Both)

\* Once a bounded wait has run out, nothing depends on where the download is.
View == <<tables, start, web, registry, session, cache, sem, newest, holds, gaveWay,
          IF gaveWay THEN "any" ELSE dl>>
=============================================================================
