-------------------------- MODULE MCUsenetDownload --------------------------
(* Two files, of two segments and of one, fetched by two workers. *)
EXTENDS UsenetDownload

CONSTANTS w1, w2

MCFiles == {1, 2}
MCSegCount == <<2, 1>>
MCFlushers == {w1, w2, Main}
=============================================================================
