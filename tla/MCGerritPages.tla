---------------------------- MODULE MCGerritPages ----------------------------
(* Five changes of three accounts, two to a page: pages that are full, not *)
(* full and empty.                                                         *)
EXTENDS GerritPages, TLC

CONSTANTS c1, c2, c3, c4, c5, a, b, n

MCChanges == {c1, c2, c3, c4, c5}
MCAccounts == {a, b, n}
MCOwner == (c1 :> a) @@ (c2 :> b) @@ (c3 :> n) @@ (c4 :> n) @@ (c5 :> a)
MCPeriod == {c1, c3, c5}
MCNameless == {n}
MCTools == {"owners", "email_stats"}
=============================================================================
