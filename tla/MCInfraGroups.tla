---------------------------- MODULE MCInfraGroups ----------------------------
(* A puppet module, whose core group the other script is run for as well;  *)
(* every job of maintain-infra-groups.py is of another kind.               *)
EXTENDS InfraGroups

MCProjects == <<"puppet-zuul">>
MCPuppet == {"puppet-zuul"}

MCOutside == {Core, Ptl, <<"infra-puppet", "core">>, <<"infra-puppet", "release">>}

\* update-gerrit-group.py --group puppet-zuul-core --owner infra-core
\*     --include-group infra-ptl
MCUpdateJob ==
    [name |-> CoreOf("puppet-zuul"), owner |-> Core, includes |-> <<Ptl>>,
     visible |-> FALSE, sets |-> "always"]

MCMaxRuns == [maintain |-> 2, update |-> 1]
==============================================================================
