---------------------------- MODULE MCAgentSync ----------------------------
(* The calls of the two users and the losses of the network, for TLC. *)
EXTENDS AgentSync

AllWeb == {"pause", "resume", "cancel", "retry", "remove"}
AllLocal == {"pause", "cancel", "purge", "resume", "retry"}
AllLosses == {"final", "sync", "command", "hiccup", "report", "note", "control"}
=============================================================================
