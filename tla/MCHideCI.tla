------------------------------ MODULE MCHideCI ------------------------------
(* Jenkins with two pipelines, OpenStack CI, which is trusted but not first *)
(* party, and a CI of a third party; the owner comments as well.            *)
EXTENDS HideCI

CONSTANTS Jenkins, OpenStackCI, ThirdCI

MCCIs == {Jenkins, OpenStackCI, ThirdCI}
MCTrusted == {Jenkins, OpenStackCI}
MCFirstParty == {Jenkins}

Says(author, pipeline, tests, conflict) ==
    [author |-> author, pipeline |-> pipeline, tests |-> tests, conflict |-> conflict]

MCRemarks == {
    Says(Owner, "", FALSE, FALSE),
    Says(Jenkins, "check", TRUE, FALSE),
    Says(Jenkins, "gate", TRUE, FALSE),
    Says(Jenkins, "check", FALSE, TRUE),
    Says(OpenStackCI, "", TRUE, FALSE),
    Says(ThirdCI, "", TRUE, FALSE),
    Says(ThirdCI, "", FALSE, TRUE)}

\* The third party's name comes before that of Jenkins.
MCNames == <<<<ThirdCI, "">>, <<Jenkins, "check">>, <<Jenkins, "gate">>, <<OpenStackCI, "">>>>
=============================================================================
