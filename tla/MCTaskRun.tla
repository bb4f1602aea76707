----------------------------- MODULE MCTaskRun -----------------------------
(***************************************************************************)
(* TaskRun for TLC: an agent with all three transports, every preference,  *)
(* an ordered pair, a debrid-only and an empty configured list.            *)
(***************************************************************************)
EXTENDS TaskRun

MCPreferred == {"auto", "debrid", "iptv"}
MCConfigMethods == {<<>>, <<"debrid", "usenet">>, <<"torrent">>}
MCRegistered == Methods
=============================================================================
