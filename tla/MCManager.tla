----------------------------- MODULE MCManager -----------------------------
(* The manager with two task IDs and one slot. *)
EXTENDS Manager, TLC

CONSTANTS a, b, a1, a2, b1, c1, c2, none, noid

OneID == {a}
TwoIDs == {a, b}
TasksA == {a1, a2}
TasksTwo == {a1, b1}
OneB == {b}
MCIdOf == [t \in Tasks |-> IF t \in {a1, a2} THEN a ELSE b]
OneCaller == {c1}
TwoCallers == {c1, c2}
Nobody == {}

\* The sync loop and the local control server make every call, one caller at a
\* time; or the sync loop and the SSE downlink submit and stop side by side.
AllCalls == [c \in Callers |-> {"submit", "force", "cancel", "pause", "drop"}]
StopAndSubmit == [c \in Callers |-> {"submit", "cancel", "pause"}]
SubmitCancel == [c \in Callers |-> {"submit", "cancel"}]

DaemonFaults == {"shutdown", "restart", "run", "storage"}
TunnelLost == {"vpn"}
Failing == {"run"}
Symmetry == Permutations(TasksA) \cup Permutations(TwoCallers)
=============================================================================
