------------------------------ MODULE PuppetRun ------------------------------
(***************************************************************************)
(* The scheduled puppet runs of the puppetmaster.  cron starts run_all.sh  *)
(* and run_infracloud.sh, each under a "flock -n" of its own.  A script    *)
(* runs playbooks one after the other, each under a timeout, and goes on   *)
(* whatever their results are; a playbook reads the inventory when it      *)
(* starts and runs its plays in order; a play applies puppet to its hosts, *)
(* as many at a time as it has forks.                                      *)
(*                                                                         *)
(* Two orders matter.  Git servers get a version of project-config before  *)
(* gerrit does, so that repositories exist where gerrit replicates them.   *)
(* The groups.txt that disables puppet on hosts travels from the upstream  *)
(* repository to the checkout, to /etc/ansible, and through                *)
(* expand-groups.sh to the inventory.                                      *)
(***************************************************************************)
EXTENDS Naturals, FiniteSets

CONSTANTS
    Hosts,                          \* every host of the inventory
    Master, Review,                 \* localhost, review.openstack.org
    Git, Afs,                       \* git0*, afs*
    Baremetal, Controller, Compute, \* the infracloud
    Scripts,                        \* those that cron starts
    Disableable,                    \* hosts somebody may list as disabled
    Forks,                          \* ansible-playbook -f 10
    MaxHead,    \* bound: changes of project-config
    MaxChanges, \* bound: changes of groups.txt and the emergency file
    MaxFaults   \* bound: failures

ASSUME HostsAssumption ==
    /\ {Master, Review} \subseteq Hosts
    /\ Master # Review
    /\ IsFiniteSet(Hosts)
    /\ \A S \in {Git, Afs, Baremetal, Controller, Compute} :
        S \subseteq Hosts \ {Master, Review}
    /\ (Git \cup Afs) \cap (Baremetal \cup Controller \cup Compute) = {}
    /\ Git \cap Afs = {}
    /\ Disableable \subseteq Hosts \ {Master}

ASSUME ScriptsAssumption == "all" \in Scripts /\ Scripts \subseteq {"all", "infracloud"}

ASSUME BoundsAssumption ==
    /\ Forks \in Nat \ {0}
    /\ MaxHead \in Nat /\ MaxChanges \in Nat /\ MaxFaults \in Nat

VARIABLES
    head,       \* the newest version of project-config
    wanted,     \* the hosts that upstream's groups.txt disables
    checkout,   \* those of /opt/system-config/production
    installed,  \* those of /etc/ansible/groups.txt
    generated,  \* those of the generated-groups file in the inventory
    emergency,  \* those of the emergency file in the inventory
    pc,         \* the play each script is at
    excluded,   \* the disabled hosts of the inventory its playbook has read
    todo,       \* the hosts of the play that are waiting
    busy,       \* those that puppet is running on
    failed,     \* those it has failed on
    pinned,     \* the version of project-config that this run hands out
    ref,        \* the version each git server and gerrit has
    left,       \* <<host, version>> of the puppets that run on a host although
                \* the ansible that started them has gone or lost the host
    skipped,    \* history: git servers left out when gerrit was updated last
    overtaken,  \* history: git servers that such a puppet took back to an older
                \* version, until the next run of puppet there
    lapsed,     \* history: groups.txt has changed, and its expansion failed
    trouble,    \* history: what has gone wrong in the current run_all.sh
    changes,    \* changes of groups.txt and the emergency file so far
    faults      \* failures so far

upstream == <<head, wanted>>
groups == <<installed, generated, lapsed>>
scripts == <<pc, excluded, todo, busy, failed>>
versions == <<pinned, ref, left, skipped, overtaken>>
vars == <<upstream, checkout, groups, emergency, scripts, versions, trouble,
          changes, faults>>

\* Mutant: the last playbook does not leave the infracloud out.
RestWithInfracloud == Hosts \ (Git \cup Afs \cup {Master, Review})

\* The last playbook names the hosts that it leaves out.
Rest == Hosts \ (Git \cup Afs \cup Baremetal \cup Controller \cup Compute
                 \cup {Master, Review})

\* The "hosts:" pattern of each play: of remote_puppet_git.yaml, _afs, _else
\* and _infracloud.
Targets ==
    [master |-> {Master}, git |-> Git, review |-> {Review}, afs |-> Afs, others |-> Rest,
     baremetal |-> Baremetal, controller |-> Controller, compute |-> Compute]

Plays == DOMAIN Targets

\* AFS servers are done one at a time: quorum is nice to have.
ForksOf(play) == IF play = "afs" THEN 1 ELSE Forks

\* The plays after which another playbook begins, and what comes next.
NextPlaybook ==
    [update |-> "master", master |-> "afs", git |-> "afs", review |-> "afs",
     afs |-> "others", others |-> "idle",
     baremetal |-> "idle", controller |-> "idle", compute |-> "idle"]

NextPlay ==
    [NextPlaybook EXCEPT !.master = "git", !.git = "review",
                         !.baremetal = "controller", !.controller = "compute"]

RunAllPlaces == {"idle", "update", "master", "git", "review", "afs", "others"}
InfracloudPlaces == {"idle", "baremetal", "controller", "compute"}
Places(s) == IF s = "all" THEN RunAllPlaces ELSE InfracloudPlaces

Begins(place) == place \in {"master", "afs", "others", "baremetal"}

TypeOK ==
    /\ head \in 0..MaxHead
    /\ wanted \in SUBSET Disableable
    /\ checkout \in SUBSET Disableable
    /\ installed \in SUBSET Disableable
    /\ generated \in SUBSET Disableable
    /\ emergency \in SUBSET Disableable
    /\ pc \in [Scripts -> Plays \cup {"idle", "update"}]
    /\ excluded \in [Scripts -> SUBSET Disableable]
    /\ todo \in [Scripts -> SUBSET Hosts]
    /\ busy \in [Scripts -> SUBSET Hosts]
    /\ failed \in [Scripts -> SUBSET Hosts]
    /\ pinned \in 0..MaxHead
    /\ ref \in [Git \cup {Review} -> 0..MaxHead]
    /\ left \in [Scripts -> SUBSET (Hosts \X (0..MaxHead))]
    /\ skipped \in SUBSET Git
    /\ overtaken \in SUBSET Git
    /\ lapsed \in BOOLEAN
    /\ trouble \in SUBSET {"update", "master", "inventory"}
    /\ changes \in 0..MaxChanges
    /\ faults \in 0..MaxFaults

\* Everything is up to date and nothing runs.
Init ==
    /\ head = 0
    /\ wanted \in SUBSET Disableable
    /\ checkout = wanted /\ installed = wanted /\ generated = wanted
    /\ emergency = {}
    /\ pc = [s \in Scripts |-> "idle"]
    /\ excluded = [s \in Scripts |-> {}]
    /\ todo = [s \in Scripts |-> {}]
    /\ busy = [s \in Scripts |-> {}]
    /\ failed = [s \in Scripts |-> {}]
    /\ pinned = 0
    /\ ref = [h \in Git \cup {Review} |-> 0]
    /\ left = [s \in Scripts |-> {}]
    /\ skipped = {}
    /\ overtaken = {}
    /\ lapsed = FALSE
    /\ trouble = {}
    /\ changes = 0
    /\ faults = 0

-----------------------------------------------------------------------------
(* The environment.                                                        *)

MergeProjectConfig ==
    /\ head < MaxHead
    /\ head' = head + 1
    /\ UNCHANGED <<wanted, checkout, groups, emergency, scripts, versions, trouble,
                   changes, faults>>

MergeGroups ==
    /\ changes < MaxChanges
    /\ changes' = changes + 1
    /\ \E hosts \in (SUBSET Disableable) \ {wanted} : wanted' = hosts
    /\ UNCHANGED <<head, checkout, groups, emergency, scripts, versions, trouble, faults>>

EditEmergency ==
    /\ changes < MaxChanges
    /\ changes' = changes + 1
    /\ \E hosts \in (SUBSET Disableable) \ {emergency} : emergency' = hosts
    /\ UNCHANGED <<upstream, checkout, groups, scripts, versions, trouble, faults>>

Fault ==
    /\ faults < MaxFaults
    /\ faults' = faults + 1

-----------------------------------------------------------------------------
(* The scripts.                                                            *)

\* Mutant: the file of groups is read once, by the first playbook.
GoToWithOldInventory(s, place) ==
    LET disabled == IF place = "master" THEN generated \cup emergency ELSE excluded[s]
    IN  /\ pc' = [pc EXCEPT ![s] = place]
        /\ excluded' = [excluded EXCEPT ![s] = disabled]
        /\ todo' = [todo EXCEPT ![s] =
                        IF place \in Plays THEN Targets[place] \ disabled ELSE {}]
        /\ busy' = [busy EXCEPT ![s] = {}]
        /\ failed' = [failed EXCEPT ![s] = {}]

\* Mutant: what an earlier inventory disabled stays disabled.
GoToAccumulating(s, place) ==
    LET disabled == excluded[s] \cup generated \cup emergency
    IN  /\ pc' = [pc EXCEPT ![s] = place]
        /\ excluded' = [excluded EXCEPT ![s] = disabled]
        /\ todo' = [todo EXCEPT ![s] =
                        IF place \in Plays THEN Targets[place] \ disabled ELSE {}]
        /\ busy' = [busy EXCEPT ![s] = {}]
        /\ failed' = [failed EXCEPT ![s] = {}]

\* Go to a play, to "update", or to "idle".  The first play of a playbook
\* reads the inventory; "hosts: ...:!disabled" leaves out what it disables.
GoTo(s, place) ==
    LET disabled == IF Begins(place) THEN generated \cup emergency ELSE excluded[s]
    IN  /\ pc' = [pc EXCEPT ![s] = place]
        /\ excluded' = [excluded EXCEPT ![s] = disabled]
        /\ todo' = [todo EXCEPT ![s] =
                        IF place \in Plays THEN Targets[place] \ disabled ELSE {}]
        /\ busy' = [busy EXCEPT ![s] = {}]
        /\ failed' = [failed EXCEPT ![s] = {}]

\* cron starts a script; "flock -n" lets it in when its last run is over, the
\* ansible that it waited for included.
Start(s) ==
    /\ pc[s] = "idle"
    /\ GoTo(s, IF s = "all" THEN "update" ELSE "baremetal")
    /\ trouble' = IF s = "all" THEN {} ELSE trouble
    /\ UNCHANGED <<upstream, checkout, groups, emergency, versions, changes, faults>>

\* update_puppet.yaml: git, install_modules.sh, ansible-galaxy.  "set +e":
\* the script goes on when it fails.
Update ==
    /\ pc["all"] = "update"
    /\ \/ /\ checkout' = wanted
          /\ UNCHANGED <<trouble, faults>>
       \/ /\ checkout' \in {checkout, wanted}
          /\ trouble' = trouble \cup {"update"}
          /\ Fault
    /\ GoTo("all", "master")
    /\ UNCHANGED <<upstream, groups, emergency, versions, changes>>

\* A fork is free for a host that is waiting.
StartHost(s, h) ==
    /\ pc[s] \in Plays
    /\ h \in todo[s]
    /\ Cardinality(busy[s]) < ForksOf(pc[s])
    /\ todo' = [todo EXCEPT ![s] = @ \ {h}]
    /\ busy' = [busy EXCEPT ![s] = @ \cup {h}]
    /\ UNCHANGED <<upstream, checkout, groups, emergency, pc, excluded, failed, versions,
                   trouble, changes, faults>>

\* Puppet is over on the host.
Leaves(s, h) ==
    /\ h \in busy[s]
    /\ busy' = [busy EXCEPT ![s] = @ \ {h}]
    /\ UNCHANGED <<upstream, checkout, emergency, pc, excluded, todo, changes>>

FailsOn(s, h) ==
    /\ failed' = [failed EXCEPT ![s] = @ \cup {h}]
    /\ Fault

\* What expand-groups.sh makes of groups.txt: when the inventory fails it
\* finds fewer hosts, or none, and copies that.
Expand ==
    \/ /\ generated' = checkout
       /\ lapsed' = FALSE
       /\ UNCHANGED <<trouble, faults>>
    \/ /\ \E found \in SUBSET checkout : generated' = found
       /\ lapsed' = TRUE
       /\ trouble' = trouble \cup {"inventory"}
       /\ Fault

\* Mutant: the version is asked for only when the file of groups has changed.
MasterDoneCached ==
    /\ pc["all"] = "master"
    /\ Leaves("all", Master)
    /\ installed' = checkout
    /\ \/ installed = checkout /\ UNCHANGED <<generated, lapsed, trouble, faults>>
       \/ installed # checkout /\ Expand
    /\ pinned' = IF installed = checkout THEN pinned ELSE head
    /\ UNCHANGED <<failed, ref, left, skipped, overtaken>>

\* Puppet on the puppetmaster installs groups.txt, which notifies the exec of
\* expand-groups.sh; the task after the role asks for the version of
\* project-config.
MasterDone ==
    /\ pc["all"] = "master"
    /\ Leaves("all", Master)
    /\ installed' = checkout
    /\ \/ installed = checkout /\ UNCHANGED <<generated, lapsed, trouble, faults>>
       \/ installed # checkout /\ Expand
    /\ pinned' = head
    /\ UNCHANGED <<failed, ref, left, skipped, overtaken>>

\* It fails or is killed: before it installs the file; after that, before the
\* exec, which is "refreshonly" and will not be notified again; or later.
MasterFails ==
    /\ pc["all"] = "master"
    /\ Leaves("all", Master)
    /\ \/ /\ UNCHANGED <<installed, generated>>
          /\ lapsed' = (lapsed \/ installed # checkout)
       \/ /\ installed # checkout
          /\ installed' = checkout
          /\ lapsed' = TRUE
          /\ UNCHANGED generated
       \/ /\ installed # checkout
          /\ installed' = checkout
          /\ lapsed' = FALSE
          /\ generated' = checkout
    /\ trouble' = trouble \cup {"master"}
    /\ FailsOn("all", Master)
    /\ UNCHANGED versions

\* Mutant: gerrit takes the newest version, not that of the git servers.
AppliedNewest(s, hosts, running) ==
    /\ ref' = [h \in DOMAIN ref |->
                  IF h \notin hosts THEN ref[h] ELSE IF h = Review THEN head ELSE pinned]
    /\ left' = [left EXCEPT ![s] = @ \cup (running \X {pinned})]
    /\ skipped' = IF Review \in hosts THEN excluded[s] \cap Git
                  ELSE IF Review \in running THEN skipped \cup (excluded[s] \cap Git)
                  ELSE skipped
    /\ overtaken' = overtaken \ hosts
    /\ UNCHANGED pinned

\* Puppet has been applied to the hosts, with the version that this run asked
\* for at its beginning; on the running ones it runs on by itself.
Applied(s, hosts, running) ==
    /\ ref' = [h \in DOMAIN ref |-> IF h \in hosts THEN pinned ELSE ref[h]]
    /\ left' = [left EXCEPT ![s] = @ \cup (running \X {pinned})]
    /\ skipped' = IF Review \in hosts THEN excluded[s] \cap Git
                  ELSE IF Review \in running THEN skipped \cup (excluded[s] \cap Git)
                  ELSE skipped
    /\ overtaken' = overtaken \ hosts
    /\ UNCHANGED pinned

HostDone(s, h) ==
    /\ pc[s] # "master"
    /\ Leaves(s, h)
    /\ Applied(s, {h}, {})
    /\ UNCHANGED <<failed, groups, trouble, faults>>

\* Puppet fails on the host, or the host does not answer any more: the version
\* may have got there, or not, or puppet is still at it.
HostFails(s, h) ==
    /\ pc[s] # "master"
    /\ Leaves(s, h)
    /\ Applied(s, {h}, {}) \/ Applied(s, {}, {h}) \/ UNCHANGED versions
    /\ FailsOn(s, h)
    /\ UNCHANGED <<groups, trouble>>

\* A puppet that was left behind comes to its end, by itself or not, possibly
\* long after later runs of puppet on its host.
LeftEnds(s, h, v) ==
    /\ <<h, v>> \in left[s]
    /\ left' = [left EXCEPT ![s] = @ \ {<<h, v>>}]
    /\ \/ UNCHANGED <<ref, overtaken>>
       \/ /\ h \in DOMAIN ref
          /\ ref' = [ref EXCEPT ![h] = v]
          /\ overtaken' = IF v < ref[h] THEN overtaken \cup ({h} \cap Git) ELSE overtaken
    /\ UNCHANGED <<upstream, checkout, groups, emergency, scripts, pinned, skipped, trouble,
                   changes, faults>>

\* Mutant: no "max_fail_percentage".
GivesUpAtTheEnd(s) ==
    failed[s] # {} /\ failed[s] = Targets[pc[s]] \ excluded[s]

\* The failures that end a playbook: of every host of the play, or, with
\* "max_fail_percentage: 1", of any git server.  Assumed of ansible: that
\* its strategy "free", which these plays ask for, honours that percentage.
GivesUp(s) ==
    /\ failed[s] # {}
    /\ pc[s] = "git" \/ failed[s] = Targets[pc[s]] \ excluded[s]

EndPlay(s) ==
    /\ pc[s] \in Plays
    /\ busy[s] = {}
    /\ todo[s] = {} \/ GivesUp(s)
    /\ GoTo(s, IF GivesUp(s) THEN NextPlaybook[pc[s]] ELSE NextPlay[pc[s]])
    /\ UNCHANGED <<upstream, checkout, groups, emergency, versions, trouble, changes, faults>>

\* timeout ends the playbook; the script goes on with the next one.  Or the
\* machine goes down.  Puppet may have got through on the hosts or not, or is
\* still at it: nobody stops it there.
Stopped(s) ==
    /\ pc[s] \in Plays \ {"master"}
    /\ \E hosts \in SUBSET busy[s] :
        \E running \in SUBSET (busy[s] \ hosts) : Applied(s, hosts, running)
    /\ GoTo(s, NextPlaybook[pc[s]]) \/ GoTo(s, "idle")
    /\ Fault
    /\ UNCHANGED <<upstream, checkout, groups, emergency, trouble, changes>>

ScriptStep(s) ==
    \/ Start(s) \/ EndPlay(s) \/ Stopped(s)
    \/ s = "all" /\ (Update \/ MasterDone \/ MasterFails)
    \/ \E h \in Hosts : StartHost(s, h) \/ HostDone(s, h) \/ HostFails(s, h)

Next ==
    \/ MergeProjectConfig \/ MergeGroups \/ EditEmergency
    \/ \E s \in Scripts :
        ScriptStep(s) \/ \E h \in Hosts, v \in 0..MaxHead : LeftEnds(s, h, v)

Spec == Init /\ [][Next]_vars

\* cron starts the scripts again and again, and whatever they do ends, at the
\* latest when the timeout does it.  Nothing is assumed of a puppet that was
\* left behind.
FairSpec == Spec /\ \A s \in Scripts : WF_vars(ScriptStep(s))

-----------------------------------------------------------------------------
(* What the runs must get right.                                           *)

\* "creation of git repos on the git slaves before creation of the master
\* repos on the gerrit server": gerrit never has a newer version than a git
\* server, except those that were disabled when it got it, and those that a
\* puppet of an earlier run took back after it.
GitBeforeGerrit ==
    \A g \in Git \ (skipped \cup overtaken) : ref[Review] <= ref[g]

\* The hosts on which puppet runs that a script has started.
Running(s) == busy[s] \cup {l[1] : l \in left[s]}

\* The two scripts have locks of their own; their patterns keep each from
\* running puppet where the other one does or has left it running.
ScriptsApart ==
    \A s, t \in Scripts : s # t => Running(s) \cap Running(t) = {}

\* A host that groups.txt disables when a run pulls it is left alone by the
\* playbooks after the first, unless an expansion of the file got lost.
DisabledSkipped ==
    ~lapsed /\ pc["all"] \in {"afs", "others"} => busy["all"] \cap checkout = {}

\* The books that a script keeps of its play.
PlaysInv ==
    \A s \in Scripts :
        /\ pc[s] \notin Plays => todo[s] \cup busy[s] \cup failed[s] = {}
        /\ pc[s] \in Plays =>
            todo[s] \cup busy[s] \cup failed[s] \subseteq Targets[pc[s]] \ excluded[s]
        /\ failed[s] \cap (todo[s] \cup busy[s]) = {}
        /\ todo[s] \cap busy[s] = {}
        /\ pc[s] \in Places(s)

\* What a script has left behind is of one of its plays.
LeftOfPlays ==
    \A s \in Scripts : \A l \in left[s] : \E p \in Plays \cap Places(s) : l[1] \in Targets[p]

\* Why gerrit is never ahead: versions only grow, and when gerrit's turn comes
\* every git server that takes part has the version of this run.
VersionsGrow == pinned <= head /\ \A h \in DOMAIN ref : ref[h] <= pinned

GitTurn ==
    pc["all"] = "git" =>
        \A g \in Git \ (excluded["all"] \cup overtaken) :
            g \in todo["all"] \cup busy["all"] \cup failed["all"] \/ ref[g] = pinned

ReviewTurn ==
    pc["all"] = "review" => \A g \in Git \ (excluded["all"] \cup overtaken) : ref[g] = pinned

\* What a puppet that was left behind may still do.
LeftInOrder ==
    \A s \in Scripts : \A l \in left[s] :
        /\ l[2] <= pinned
        /\ l[1] = Review => \A g \in Git \ (skipped \cup overtaken) : l[2] <= ref[g]

VersionsInv == VersionsGrow /\ GitTurn /\ ReviewTurn /\ LeftInOrder /\ GitBeforeGerrit

\* Why a disabled host is left alone: unless an expansion got lost, the groups
\* of the inventory are those of the checkout once the puppetmaster is done,
\* and the later playbooks have read them.
GroupsInv ==
    ~lapsed =>
        /\ generated = installed
        /\ pc["all"] = "master" /\ Master \notin todo["all"] \cup busy["all"]
            => installed = checkout
        /\ pc["all"] \in {"git", "review", "afs", "others"} => installed = checkout
        /\ pc["all"] \in {"afs", "others"} => checkout \subseteq excluded["all"]

RunInv == PlaysInv /\ LeftOfPlays /\ VersionsInv /\ GroupsInv

\* Every host that is not disabled for good gets puppet again and again.
EveryHostRuns ==
    \A h \in Hosts \ {Master} :
        <>[](h \notin generated \cup emergency)
            => []<>(\E s \in Scripts : h \in busy[s])

\* A version of project-config gets to every git server and to gerrit, and
\* stays, once the host is enabled for good and nothing goes wrong any more,
\* whatever failed, was stopped or was left running before.
VersionArrives ==
    \A h \in Git \cup {Review}, v \in 1..MaxHead :
        <>[](head >= v /\ h \notin generated \cup emergency) => <>[](ref[h] >= v)

\* run_all.sh:37-38, "Run AFS changes separately so we can make sure to only do
\* one at a time".
AfsOneAtATime ==
    \A s, t \in Scripts : \A g, h \in Afs :
        g \in Running(s) /\ h \in Running(t) => g = h

\* run_all.sh:17-19, "If updating the puppet system-config repo or installing
\* puppet modules fails then abort the puppet run".
AbortOnFailedUpdate ==
    "update" \in trouble => pc["all"] \in {"idle", "update"}

\* sysadmin.rst:315-316, to disable puppet on a host "it's a simple matter of
\* adding an entry to" groups.txt: a run that pulled the entry and in which
\* nothing went wrong does not touch the host any more.
EntryDisables ==
    trouble = {} /\ pc["all"] \in {"afs", "others"} => busy["all"] \cap checkout = {}

=============================================================================
