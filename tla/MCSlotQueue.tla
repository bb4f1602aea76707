---------------------------- MODULE MCSlotQueue ----------------------------
(* Three tasks on one slot: one that runs, or gave its slot back, and a line. *)
EXTENDS SlotQueue

CONSTANTS t1, t2, t3

MCTasks == {t1, t2, t3}
=============================================================================
