---------------------------- MODULE MCPuppetRun -----------------------------
(* Two git servers or two AFS servers, where an order or a number matters;  *)
(* one host of each other kind.                                            *)
EXTENDS PuppetRun

CONSTANTS g1, g2, a1, a2, b1, o1

MCGit == {g1, g2}
MCAfs == {a1, a2}
OneAfs == {a1}
MCBaremetal == {b1}
MCNone == {}

\* The hosts that matter to the order of versions; a git server may be
\* disabled.
GitHosts == {Master, Review} \cup MCGit
OneGit == {g1}

\* Those that matter to the two scripts and to the travel of groups.txt.
OtherHosts == {Master, Review, a1, b1, o1}
SomeHosts == {b1, o1}

\* Those that matter to the number of AFS servers.
AfsHosts == {Master, Review} \cup MCAfs

\* The hosts for what is not true of the code.
FewHosts == {Master, Review, o1, b1}
OfFew == FewHosts \ {Master}

Both == {"all", "infracloud"}
RunAll == {"all"}
=============================================================================
