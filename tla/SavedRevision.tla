--------------------------- MODULE SavedRevision ---------------------------
(***************************************************************************)
(* What a resume record promises, whatever is recorded: the revision on    *)
(* disk is one the memory really went through, and it never gives way to   *)
(* an older one, except that the record is deleted as a whole.             *)
(***************************************************************************)
EXTENDS Naturals

VARIABLES current,   \* the revision of the state in memory
          stored     \* the one the record on disk has, 0 for none

Init == current = 0 /\ stored = 0

Change == current' = current + 1 /\ UNCHANGED stored

Save == stored' \in stored..current /\ UNCHANGED current

\* A new run, from what was stored or afresh, has no change yet that is not stored,
\* and counts from there.
Reload == stored' = (IF stored = 0 THEN 0 ELSE 1) /\ current' = stored'

Forget == stored' = 0 /\ UNCHANGED current

Next == Change \/ Save \/ Reload \/ Forget

Spec == Init /\ [][Next]_<<current, stored>>
=============================================================================
