---------------------------- MODULE MCGerritSpam ----------------------------
(* Threads of up to four comments, before and while the script runs.       *)
EXTENDS GerritSpam
=============================================================================
