# TLA+ models of system-config

This directory specifies and checks the programs of this repository that keep
state, run concurrently or have to survive failures: scripts that cron starts,
daemons, an operator's launch script, election scripts, scripts that maintain
gerrit's groups and database, and a script in gerrit's pages. Everything declarative (puppet manifests, templates, hiera) is
left out, except for the cron entries, locks and notifications that decide when
the programs run.

    tlc -workers 2 -config MCLaunchNode.cfg MCLaunchNode     # a run
    tlapm LaunchNodeProofs.tla                               # the proofs of a component

`PROJECT.json` has the machine-readable side: the runs, which lines of the
source each definition translates, hazards, findings and theorems.

## 1. Inventory

| component | source | state | operations | hard to get right |
|---|---|---|---|---|
| server launch | `launch/launch-node.py`, `utils.py`, `sshclient.py` | cloud: key pairs by name, servers; local: private keys in a temporary directory and in `/tmp` | create key pair and server, ssh in as one of four users, become root, network/swap/mount/puppet, ansible, reboot; clean up | each of a dozen remote calls may raise, also after it has taken effect, or never return; removing the private key may fail too; `--keep`; control-C, kill; key pair names are seconds and several operators launch at once |
| reprepro mirrors | `files/reprepro/reprepro-mirror-update.sh`, `mirror_update.pp` | read-write volume, read-only replicas, list of unreferenced files in `/var/run`, lock | update, export, delete, dump, check, `vos release`; cron | a failure, timeout or kill between any two commands; a list saved by a run that was never released; reboots; the lock outliving the shell; reprepro's own lock file outliving reprepro; commands without a timeout |
| scheduled puppet runs | `run_all.sh`, `run_infracloud.sh`, `playbooks/`, `puppetmaster.pp`, `expand-groups.sh` | versions of project-config on hosts, groups.txt in four places, hosts of the current play | cron, pull, plays with forks, timeouts, `expand-groups.sh` | order of git servers and gerrit; a stale inventory; two scripts with two locks; failures of some hosts of many; puppets that run on after ansible was killed |
| electoral rolls | `tools/owners.py` | owners, projects, duplicates, index of addresses, rolls | walk teams and changes, merge accounts, extra ATCs, write files | accounts of one person in any order; ids; malformed owners |
| haproxy statistics | `files/git/haproxy-statsd.py` | last value of every counter | read a table, send gauges and increments | restarts of haproxy and of the daemon, answers that break off |
| zuul's status on gerrit's pages | `files/gerrit/hideci.js` | polling threads, window visibility, URL and page | page loaded, timer, answer, hide, show | late answers, pages changing under a thread, threads adding up |
| CI results on gerrit's pages | `files/gerrit/hideci.js` | table, hidden comments, a cookie | parse, group, display, toggle | results of old patch sets, order of reports, windows sharing the cookie |
| paging through changes | `tools/owners.py:340-350`, `tools/atc/email_stats.py` | offset, or key of the last change | query page by page, collect the owners | changes move between pages meanwhile, empty pages, renames, answers that break off |
| removal of spam | `tools/delete-gerrit-spam.py` | gerrit's database, an open transaction | select, delete, unparent, commit | snapshot reads, comments written meanwhile, a failure in the middle |
| infra groups | `tools/maintain-infra-groups.py`, `update-gerrit-group.py` | gerrit's groups, what was read of one | get, create, include, set owner and options over REST | stale reads, calls that fail or go unnoticed, two scripts and administrators on one group |
| shared inventory | `launch-node.py:145-187`, `expand-groups.sh` | generated files | regenerate, copy, read | several writers, readers of half-written files |
| other mirrors | bandersnatch, npm, centos, epel, rubygems scripts | volumes | sync, release | as reprepro, without lists |
| renames of projects | `playbooks/rename_repos.yaml` | gerrit's database, disk, git servers | a dozen steps | a failure in the middle |
| zuul restarts, module installation, hiera edits, one-off scripts, reports, documentation | see `PROJECT.json` | | | |

### How the parts interact

* cron on the puppetmaster starts `run_all.sh` and `run_infracloud.sh`. Their
  first playbook updates `/opt/system-config` and so the scripts and manifests
  themselves; puppet on the puppetmaster installs `groups.txt` and notifies
  `expand-groups.sh`, which writes the inventory that the later playbooks, and
  the launches, read.
* An operator's launch talks to a cloud, to its new server over ssh, and uses
  the inventory and playbooks of the puppetmaster.
* cron on the mirror-update host starts the mirror scripts, one lock each; AFS
  publishes a volume when it is released.
* puppet restarts the haproxy daemon when its script changes; the daemon reads
  haproxy's socket and sends to statsd over UDP.
* gerrit serves `hideci.js` with every page; it asks zuul's status server about
  changes. Windows of a browser share cookies.
* `owners.py` reads gerrit's REST API and the governance repository;
  `email_stats.py` queries gerrit over ssh and reads a dump of its accounts.
  Both walk through changes that people are updating.
* `maintain-infra-groups.py` and `update-gerrit-group.py` write the groups that
  administrators edit in gerrit's pages; `delete-gerrit-spam.py` and
  `rename_repos.yaml` write gerrit's database, the first while gerrit runs.

### What makes each part correct

* *launch*: no server, key pair or private key is left without somebody who
  knows of it, whatever fails; a successful launch is complete; launches do not
  disturb each other; a launch that is answered ends.
* *mirrors*: readers only ever see complete snapshots; files outlive their last
  reference by one release; after a fault that leaves no stale lock the mirror
  catches up.
* *puppet*: git servers before gerrit, the two scripts on hosts of their own,
  disabled hosts left alone, enabled ones reached again and again, also with
  what was merged last.
* *rolls*: one owner per person, no address lost, every change counted once and
  every voter listed.
* *haproxy*: nothing counted twice or lost between two values.
* *paging*: a walk ends, and misses or repeats nothing that stayed where it was.
* *spam*: all of the spam goes or nothing does, and no thread of others is cut.
* *groups*: a run leaves each group as it is wanted, and nobody is dropped.
* *hideci*: whoever looks at a change gets its status; threads that are not
  needed end; the table shows the latest results.

## 2. Plan

Modules, in the order of their importance; the first ten exist.

1. `LaunchNode` - failures and concurrency of launches; proved.
2. `MirrorVolume` (abstract), `ReprepoMirror` (refines it); proved.
3. `PuppetRun` - the scheduled runs; proved.
4. `Owners` - the electoral rolls; proved.
5. `HAProxyStats` - increments of counters; proved.
6. `ZuulStatus` - polling threads; proved.
7. `HideCI` - the table of results and the cookie; proved.
8. `InfraGroups` - groups brought to the wanted state over single calls; proved.
9. `GerritPages` - paging by offset and by key against changes that are updated
   meanwhile; proved.
10. `GerritSpam` - a transaction against gerrit's users; proved.
11. `SyncMirror` - bandersnatch, npm, centos and epel mirrors as further
    refinements of `MirrorVolume`, with the crons of `mirror_update.pp`.
12. `GeneratedGroups` - writers and readers of the shared inventory; to be
    composed with `LaunchNode` (its inventory step) and `PuppetRun` (`Expand`).
13. `RenameRepos`, `ZuulLaunchers`, `InstallModules` - operations by hand: the
    order of their steps under failure and repetition.

Theorems that are planned: `SyncMirror` refines `MirrorVolume`.

## 3. Modules and their correspondence to the code

Conventions: an action is a call, command or handler with all it changes; a call
that leaves the process may fail, and where it may fail after its effect both
are outcomes. History variables, which the program does not have, are marked
`history` where they are declared. Definitions with the comment `Mutant:` are
not part of a model: each is a plausible bug that a run is known to detect.

### LaunchNode

One process per launch, `pc` the place in `build_server` or `bootstrap_server`.
`EnterHandler` is what `except Exception` does at every raise inside the try
statement; `LeaveJobDir` is `JobDir.__exit__`, on every way out, and
`RmtreeFails` the same with a `rmtree` that raises or is interrupted, before or
after it gets to the key; what it raises replaces the exception that was on its
way. `Login` is the
loop over the four user names, with `SshRetry` for `iterate_timeout`; `Usernames`
that are exhausted fail the launch. `StopDuringCall` lets an interruption or a
kill arrive while a remote call has or has not taken effect. Key pairs are
deleted by name, as in the code, so two launches of one second can only be kept
apart by what the cloud refuses. The clean up of the code can itself raise. A
call may also never return: no action stands for that, but `FairSpec` requires
none of the places that wait for the cloud, for `SSHClient.ssh` or for `run`.

Left out: what is typed on the remote host, DNS hints that are printed, the
inventory files (planned as `GeneratedGroups`).

### ReprepoMirror and MirrorVolume

A run is an invocation by cron: `Start` takes the lock, `Fetch`..`Release` are
the commands, each with failure and with the partial effects its interruption
can have. `Kill` ends the shell and leaves the command running with the locked
descriptor; `Reboot` ends everything and empties `/var/run`. `staleLock` is the
lock file in reprepro's database after reprepro was ended by SIGKILL or a
reboot: its commands fail until `RemoveLock`, which nobody has to do.
`MirrorVolume` is the promise of `doc/source/afs.rst`: a volume is replaced as a
whole by a complete snapshot, of a version that the archive has had and that is
not older than the one before. `VolumeSpec` maps `published` to the replicas'
contents, `version` to the version they are a snapshot of (`served`), and
`latest` to the number of changes of upstream. That no older version is
published says more than `ReleasedComplete`: it rests on the lock, which a
command that outlives its script keeps.

### PuppetRun

`pc` is the play a script is at. `GoTo` starts a play, with the inventory as it
is when its playbook begins (`Begins`); `StartHost` respects forks; a failing
git server makes the playbook end after the play (`GivesUp`), as
`max_fail_percentage` says. That ansible honours it under the strategy `free` is
an assumption, which nothing in this repository shows. `Stopped` is timeout or a
reboot. A puppet that was running on a host then, or on one that stopped
answering (`HostFails`), goes on there: it is in `left`, with the version of its
run, beside all that the scripts do next, until `LeftEnds`, which may be never.
A git server that it takes back to an older version is `overtaken` until a run
reaches it again. `Update` pulls the
checkout, `MasterDone` and `MasterFails` are puppet on the puppetmaster, with
the copy of `groups.txt`, the refreshonly exec (`Expand`) and
`project_config_ref`, and the way each can get lost.

### Owners

`phase` is the loop of `main`; the loops over teams and changes are
nondeterministic in their order, as the data decides it. `KnownAccount`,
`NewOwner` and `Merge` are the three branches for a change; `Learn` maintains
`all_emails`, `Absorbed` the extra addresses of a merged account, `Counted` the
counters and dates. `ExtraAtc` makes negative ids. `OwnersRoll` is the pass that
writes `_electorate.txt`, `TeamFile` a team's files. What gerrit knows of an
account (`Details`) is chosen when the account is met first, the name of an extra
ATC when it is added; either may be empty. Formatting and the
normalisation of addresses are left out; the fetching of pages is in
`GerritPages`.

### HAProxyStats

`Poll` connects, `ReadRow` reads rows one after another while `Serve` goes on,
`EndOfAnswer`/`CutShort`/`TimedOut` end an answer, and `Gauges`/`Counter` are
the two loops of `reportStats` over a row: they read a column by name, and a
column that is missing ends the report by an exception (`_run` is called again
by `run`). `Restart` loses `prevdata`. The values of gauges are left out; what
is sent is added up in `sent`.

### ZuulStatus

The page of gerrit is `hash` (the URL), `dom` (what is rendered, which lags
behind) and `screen` (whether the table is there). `PageLoaded` is
`ci_page_loaded`, called when an indicator of requests disappears (`RpcDone`) or
the window is shown (`Show`). A thread is an invocation of `poll`: it waits for
an answer (`Answer`, or `NoAnswer` after 5 s) and its timer (`Timer`) decides
after 15 s whether to ask again. As in the code the timer is set with the
request and not by its completion; the request's own timeout is shorter, so
`Timer` needs no other order than "after the answer". The switch `zuul_inline` is
a constant: off in the file as it is installed, on in the run, either in the
theorems. Change numbers are sequences of
digits, because the script compares them as prefixes (`StillAt`).

### HideCI

`comments` is the change at gerrit, `rendered` how much of it a window shows.
`Group`, `Sorted`, `IsMergeConflict` and `Results` are folds that translate the
loops of the script; the properties state what they should compute by sets and
quantifiers. A comment is its author, pipeline, patch set, and whether it has
results or a merge failure: how these are found in gerrit's HTML is left out.

### InfraGroups

`MaintainJobs` is the list of calls of `configure_group` that `main` makes, and
`UpdateJob` the single job of `update-gerrit-group.py`; `pc`, `at` and `item`
are the place of a script in its jobs. `Get`, `Create`, `Again`, `Include`,
`SetOwner` and `SetOptions` are the calls of a job, each compared with what
`Read` has found (`detail`) and not with the group as it is. `Put` has the three
outcomes of a call: carried out, refused (nobody looks at the status), or an
exception, whose request may have been carried out. `Edit` is an administrator.
`spoiled` is history: the groups of which a script knows something outdated.

### GerritPages

`updated` orders gerrit's answers; `Touch` moves a change to the front, or
merges it, and `RenameRepo` makes the query find nothing. `Fetch` is a page by
offset, as `owners.py` asks for it, and `Resume` one after the last key, as
`email_stats.py` does, with `Collect` for the owners of a page and `Key` for
its last change. An owner whose username is not in the dump of accounts is a
`KeyError` and ends the script. While gerrit does not answer as it should
(`Falter`), a request of `owners.py` fails and ends the script (`Fail`); a query
of `email_stats.py` breaks off before its last line and is asked again, or ends
the script (`BreakOff`); and either may wait for ever (`Hang`), as no timeout is
given.

### GerritSpam

Every statement of the script is an action, `Commit` makes what was `deleted`,
`unparented` and `expunged` visible, and `Rollback` is a failure before it. Selects see the state
of the first one (`snapshot`) and the transaction's own changes; deletes and
updates see what is committed by then, as InnoDB does it. `Comment` and
`Message` are gerrit's users, the spammer among them. The names of its state and
specification (`place`, `SpamSpec`), and those of `GerritPages` (`progress`,
`PagesSpec`), differ from those of `InfraGroups`, so that one module can hold
the proofs about all three.

## 4. Runs

| run | instance | properties |
|---|---|---|
| `launches` | two launches of the same second, all options, two attempts to log in | `NoOrphanServer`, `NoOrphanKeypair`, `KeptServerReachable`, `PrivateKeyRemoved`, `DoneIsComplete`, `KeypairNotStolen` (action property), `LaunchEnds` (liveness) |
| `reprepro_mirror` | two packages, two runs, 3 changes of upstream, 2 faults | `ReleasedComplete`, `Grace`, `VolumeSpec` (refinement), `CatchesUp` (liveness) |
| `puppet_runs` | `run_all.sh`, two git servers, gerrit, two versions, two faults | `GitBeforeGerrit`, `VersionArrives` (liveness) |
| `puppet_hosts` | both scripts, an AFS server, a baremetal host and another, two edits, one fault | `ScriptsApart`, `DisabledSkipped`, `EveryHostRuns` (liveness) |
| `owners` | three accounts, two addresses, two teams, two dates, three changes, an extra ATC | `AddressesKept`, `MergedUnlessBridged`, `EveryChangeCounts`, `EveryVoterListed` |
| `owners_bridge` | *violation*: an account that bridges two owners | `DuplicatesMerged` |
| `haproxy_counts` | two rows, two metrics, a restart of each side, a broken answer | `NoDoubleCount`, `NothingLost`, `CatchesUp` |
| `zuul_status` | changes 1, 12 and 2, two patch sets, two threads | `Watched`, `LeftThreadsEnd`, `HiddenThreadsEnd` |
| `hide_ci` | two windows, up to four comments, two patch sets | `TypeOK`, `LatestOfEveryPipeline`, `FirstPartyOnTop`, `ConflictIsCurrent`, `HiddenAsCookie` |
| `infra_groups` | a puppet project, two runs of the one script and one of the other, one edit, one failed call | `Configured`, `NobodyDropped` (action property) |
| `gerrit_pages` | five changes of three accounts, two to a page, two moves, a rename, answers that fail, break off or never come | `NothingMissed`, `NoneTwice`, `RollComplete`, `WalkEnds` (liveness) |
| `gerrit_spam` | four comments, two messages, two authors | `NoDanglingParent`, `AllOrNothing`, `OthersKept` |

`TypeOK` is a property of a run for `HideCI` only, whose table is built from the
sequences that it types; it is a theorem of every component. Every property of a
passing run has a mutant in `PROJECT.json`: a bug that this run detects.

### Bounds, and why they are enough

* *LaunchNode*: launches meet only in the name of a key pair, so two launches
  of one second, which have the same name, give every kind of meeting; two
  attempts, so that there is one that is not the last.
* *ReprepoMirror*: the hazards need a list that was saved by a failed run, a
  file that comes back, and a second run while a command of the first one
  still runs: two runs, two files, three changes, two faults.
* *PuppetRun*: an order of versions needs two versions and a server that is
  left behind (two git servers, two faults: one leaves a puppet running, one
  makes the next run fail); scripts can only meet where both have a host, so the
  run of both has one host of each kind but git, and one fault, after which a
  puppet is left behind while both scripts start again.
* *Owners*: a bridge needs three accounts and two addresses; dates out of order
  need two dates.
* *HAProxyStats*: two rows, one counter each, so that an answer can break off
  between and within rows; two counts per life, so that a value can be lower
  than the remembered one after a restart and not be zero.
* *ZuulStatus*: two threads are a thread of the page and one of another page, or
  two of one page. When the bound is reached no page is loaded; the code has no
  such bound, and the theorems hold for any.
* *HideCI*: the first comment is the upload, so three comments and a second
  patch set are left: three results of one pipeline, two pipelines in any order
  and an old result that arrives late. Two windows for the cookie.
* *InfraGroups*: one project of the puppet kind has groups with and without a
  second member and the council's; a second run sets right what the first one
  could not; one edit or one failed call at any place.
* *GerritPages*: five changes, two to a page, make two full pages and one that
  is not; a merge makes an empty page at the end possible; two moves carry a
  change over one border twice or two over it. `MaxOffset` stands for asking
  for ever after a rename.
* *GerritSpam*: four comments make a thread that goes through spam and on, with
  a reply before and one while the script runs.

`CHECK_DEADLOCK FALSE` appears where the program ends or a bound stops its users
(`LaunchNode`, `Owners`, `InfraGroups`, `GerritPages`, `GerritSpam`).

### Symmetry and fairness

Symmetry is only used in runs without liveness properties, over sets whose
members the model does not tell apart.

* `LaunchNode.FairSpec`: the steps that touch only local files are taken.
  Nothing is assumed of calls to the cloud, of commands over ssh
  (`sshclient.py:42-49`) and of programs (`run`, `launch-node.py:76-82`): they
  have no timeout. `LaunchEnds` therefore says that a launch ends or waits for
  one call for ever, and never goes round among its attempts, its handlers and
  its clean up. Interruptions are never required.
* `ReprepoMirror.FairSpec`: cron starts the script every two hours, and `timeout`
  ends every other command of reprepro. Lines 37 and 46 (`dumpunreferenced`, `vos
  release`) have no timeout and need not end; a stale lock need not be removed.
  `CatchesUp` says that the mirror catches up unless it is stuck in one of these
  two ways. Faults and changes of upstream are bounded, which states "after the
  last fault".
* `PuppetRun.FairSpec`: cron and `timeout -k 2m`, for whatever a script does.
  Nothing is assumed of a puppet that was left behind.
* `HAProxyStats.FairSpec`: the daemon's loop goes on, haproxy sends the rows it
  has started to send, and comes back after a stop.
* `ZuulStatus.FairSpec`: requests end (jQuery's timeout) and timers fire; nobody
  has to answer or to use the page.
* `PagesFairSpec`: a page is fetched while gerrit answers as it should. Nothing is
  assumed while it does not: a query that breaks off is asked again any number
  of times, and a request may wait for ever. `WalkEnds` starts from gerrit
  answering from some moment on, and allows a request from before that to wait
  for ever. Changes move only so often, and the bound on moves says that gerrit
  is not updated faster than pages are fetched for ever.

## 5. Proofs

Each `*Proofs` module extends its component and proves, for every value of the
constants under the named assumptions:

| theorems | inductive invariant and why it is needed |
|---|---|
| `LaunchNodeProofs`: `TypeCorrect`, `LaunchInvariant`, `OrphanServers`, `OrphanKeypairs`, `KeptServers`, `PrivateKeys`, `Completeness`, `KeypairsNotStolen`, `StepsGoForward` | `LaunchInv`: at each place, what the launch holds (key pair, server, key file) and which fault brought it there; the private key is gone after the directory is, unless removing it failed. The properties speak of ends only and say nothing of the way there. `StepsGoForward` orders the places. Only `NoLaunch \notin Launches` and `MaxTries \in Nat` are assumed. |
| `ReprepoMirrorProofs`: `TypeCorrect`, `MirrorInvariant`, `ReleasesComplete`, `GracePeriod`, `ImplementsVolume` | `MirrorInv`: one run holds the lock, an unsaved list names nothing that is served, the pool has what the index names from the check to the release. The refinement then maps `Release` to `Publish` and all else to a stutter. |
| `PuppetRunProofs`: `TypeCorrect`, `RunInvariant`, `GitOrder`, `DisabledHosts`, `Apart` | `RunInv`: the books of plays (`PlaysInv`), where puppets can have been left (`LeftOfPlays`) and with which versions (`LeftInOrder`), in gerrit's turn every git server that takes part has this run's version but for those a left puppet took back (`VersionsInv`), and how far `groups.txt` has come (`GroupsInv`). `ScriptsApart` needs to know of every puppet, also one left by an earlier run, that it is on a host of its script. Assumed: the patterns of hosts are disjoint where the playbooks need it, and `max_fail_percentage` ends a playbook under `free`. |
| `OwnersProofs`: `TypeCorrect`, `NothingLost`, `OneOwnerPerAddress`, `VotersListed`, `ChangesCounted` | `OwnersInv`: every address of an owner is in the index, the index leads to an owner that has it, new ids are fresh. `VotersInv` for the rolls: the owner of a counted change is in its team (`Placed`), and a roll once written names who is there (`InElectorate`, `InRolls`). `CountsInv` for the counts: a tally fits the changes that were read of its owner, with their sum and the first and last of their dates, and as long as changes are counted nobody is on a roll without one; otherwise a count would be added to the -1 of an extra ATC. |
| `HAProxyStatsProofs`: `TypeCorrect`, `Telescopes`, `CountedOnce`, `NeverDown` | `StatsInv`: for each metric, and each row being read or reported, how far `sent` may be ahead of what is remembered; `RisingInv` as long as haproxy has not been stopped. |
| `ZuulStatusProofs`: `TypeCorrect`, `AlwaysWatched` | `Watched` is inductive with `TypeOK`; it rests on a thread's own page never being "another page" to it (`AtOwnPage`). |
| `HideCIProofs`: `PagesType`, `RowsAreLatest`, `FirstPartyFirst`, `ConflictCurrent`, `ButtonAgrees` | `CookieInv`: also a page that is not loaded yet agrees with the cookie, in that it hides nothing; a window without a page hides nothing and has no table. `ShownInv`: a window has no table or the one that the script makes of the comments that are rendered; the properties follow from what the loops compute for any sequence of comments. Assumed (`HideCIAssumption`): remarks are well formed, and the names in them are among `Names`, whose order is that of the sort. |
| `GerritProofs`: `GroupsTypeCorrect`, `GroupsInvariant`, `GroupsConfigured`, `NobodyIsDropped` | `GroupsIInv`: what an unspoiled script has read is still so but for its own steps (`Current`), the part of the job it has done is met, and so are the jobs behind it (`FinishedMet`). `Configured` alone does not say what holds in the middle of a job. Assumed (`GroupsAssumption`): projects are distinct, the groups that are included exist beforehand. |
| `GerritProofs`: `SpamTypeCorrect`, `SpamInvariant`, `SpamAllOrNothing`, `SpamParents`, `SpamOthersKept` | `SpamInv`: what the snapshot says of comments that are not late is still so, how much of the spam is deleted or unparented at each statement (`ProgressInv`), and the tables as a function of what gerrit wrote and of the open transaction (`TablesInv`). The properties speak of committed tables only. Assumed: the spammer is an author. |
| `GerritProofs`: `PagesTypeCorrect`, `PagesInvariant`, `PagesMissNothing`, `PagesOnce`, `PagesRoll`, `PagesNearEnd` | `PagesInv`: what has fewer newer changes than the offset says, or is not older than the key, has been got, but for what moved (`OffsetInv`, `KeyInv`). It rests on lemmas about ranks: a page that is not full holds all there is, because among changes that are missing one would be the newest. `PagesNearEnd` needs that no two changes were updated at once and that an offset is that of a change (`WalkInv`): a page in the middle of the list is then never empty. Assumed: changes are finitely many and a page has room for one. |

The proofs go action by action, one lemma for the actions that matter to a
part of the invariant and one step for those that leave it alone.

Sums and loops are proved about without induction theorems, which take an
operator as a parameter that the provers cannot instantiate. `LoopExists` shows
that a loop over a sequence has a function of its rounds, `SumsExist` and
`SumsUnique` do so for a sum over a set; what holds after each round follows by
the least counterexample (`LeastNatural`, `UpTo`), which rests on the
well-foundedness of the naturals alone. The lemmas with the suffix `Rounds` say
what each loop of `hideci.js` has computed after k comments, and those with the
suffix `Once` that grouping and sorting neither lose nor repeat a row.

Only model-checked: all liveness (`LaunchEnds`, `CatchesUp` of the mirrors and of
haproxy, `EveryHostRuns`, `VersionArrives`, `LeftThreadsEnd`, `HiddenThreadsEnd`, `WalkEnds`), because the prover has no rules
for fairness and `ENABLED`. Of `LaunchEnds` and `WalkEnds` the part that is
safety is proved: `StepsGoForward` and `PagesNearEnd` say that no step leads back
and each leads closer to the end, by a measure that is bounded; what is missing is
that a step is taken.

## 6. Findings

* `owners_bridge`: `owners.py:388-389` says that accounts with duplicate
  addresses are merged. An account that has addresses of two owners is merged
  into one of them; the two stay apart, each with a ballot.

More configurations are not runs of the project; each shows, when checked by
hand, that a promise is not kept:

* `MCPuppetAbort.cfg` (`AbortOnFailedUpdate`): `run_all.sh:17-19` says that a run
  is aborted when its update fails. `set +e` is in force by then, and the script
  goes on.
* `MCGerritSpamLate.cfg` (`NoParentMissing`): `delete-gerrit-spam.py:59-62` says
  that no comment is left with a parent that does not exist. Children are
  looked for in the state of the first select, so a reply that is written to
  spam while the script runs keeps its parent.
* `MCLaunchReboot.cfg` (`RebootDropTolerated`): `launch-node.py:218-219` ignores
  errors of ssh at the reboot, but the handler reads `e.rc`, which only
  `sshclient.SSHException` has. A connection lost before the command is sent
  becomes an `AttributeError` and the configured server is deleted.
* `MCPuppetAfs.cfg` (`AfsOneAtATime`): `run_all.sh:37-38` runs AFS servers one at
  a time so that they do not lose quorum. A server that stops answering counts as
  done, and puppet on the next one starts while puppet still runs on the first.
* `MCPuppetDisable.cfg` (`EntryDisables`): `sysadmin.rst:315-316` calls it a
  simple matter to disable a host. A puppet run on the puppetmaster that ends
  between installing `groups.txt` and the refreshonly exec loses the expansion
  for good.
* `MCOwnersMalformed.cfg` (`MalformedSkipped`) and `MCOwnersTeamVoters.cfg`
  (`TeamVotersAreVoters`): an owner without any address ends `owners.py` in the
  files of its team, whatever the message about skipping says; and an owner
  without a full name is on a team's roll but not on that of all owners.

Observations without a property:

* `hideci.js:480-483` displays an answer without looking at the page, which may
  be that of another change by then; the comment that follows counts on such
  data not mattering.
* `hideci.js:512` compares by prefix: at change 1 the threads of change 12 go on.
  `LeftThreadsEnd` says exactly that.
* Every request of gerrit's starts one more thread for the same page
  (`hideci.js:541-549`), not only navigating away and back, as the comment at
  503-507 says.
* A window in which comments are hidden does not show them again when another
  window's button has set the cookie, until it is rendered or its own button is
  pressed twice; hence `apart` in `HiddenAsCookie`.
* `owners.py:340-348` learns from the last change of a page whether there are
  more. When the repository is renamed during the walk, pages are empty, the
  last change stays what it was, and the script asks for ever.
* A change that has not been got and moves to the front during a walk is missed
  by both walks: by `owners.py` once the offset has passed the front, by
  `email_stats.py` because it is newer than the key. `owners.py` gets others
  twice then, those that are pushed over the border of a page. `NothingMissed`
  excepts what moved, and `NoneTwice` the walks of `owners.py` in which anything
  did.
* `email_stats.py:121-153`: a query that ends without its `rowCount` line, as one
  that gerrit refuses, is asked again at once and for ever.
* `email_stats.py:134` ends in a `KeyError` for an owner whose account is newer
  than the dump.
* `maintain-infra-groups.py` looks at the status of a GET only, and takes every
  status but 200 for a group that is missing. A PUT that gerrit refuses goes
  unnoticed.
* `haproxy-statsd.py:163`: statsd's packets are UDP, and a lost one takes its
  increment with it, as `prevdata` has moved on.
* `reprepro-mirror-update.sh:23`: a SIGKILL by `timeout`, or a reboot, leaves the
  lock file of reprepro's own database behind, and every later run fails until
  somebody removes it: the first disjunct of `CatchesUp`.
* `launch-node.py:69`: when `rmtree` fails or a second control-C ends it, the
  private key stays on the disk; `PrivateKeyRemoved` excepts just this and a kill.
* `run_all.sh:34-41`: a puppet that was left running when its ansible ended may
  take a git server back to an older version after gerrit was updated.
* Runs of `remote_puppet_adhoc.yaml` take none of the locks.

## 7. Not modelled

What is planned is in section 2. Not planned: reports and one-off scripts
(`who-approves.py`, `atc/diff.py`, `invite2summit/send.py`, `clean-fips.py`,
`remap_manifest.py`, `parse_puppet_report.py`, `irc_checks.py`,
`nodepool_log_config.py`, `sorted_modules_env.py`, `debug-image-uploads.py`,
`infracloud_dns_from_bifrost.py`), which read something and print something; the
listing of repositories and the files of `email_stats.py` around the walk that is
modelled; gerrit's `web_server.py`; `hieraedit.py`;
`install_puppet.sh`, `make_swap.sh`, `mount_volume.sh`, `run_bifrost.sh`,
straight-line shell on a fresh host; `playbooks/remote_puppet_adhoc.yaml` and
`tools/kick.sh`, which an administrator starts outside of all locks; the tests of
the manifests; manifests, templates, hiera and documentation.
