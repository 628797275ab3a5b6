----------------------------- MODULE InfraGroups -----------------------------
(***************************************************************************)
(* The scripts that bring gerrit's groups into shape, one REST call after  *)
(* the other: maintain-infra-groups.py for every group of every project,   *)
(* and update-gerrit-group.py for a single one.  Each compares what it has *)
(* read of a group with what is wanted and changes the difference, item by *)
(* item.  The two may run at once, and administrators edit groups in       *)
(* between.  The status of an answer is looked at after a GET only: a PUT  *)
(* that gerrit refuses goes unnoticed, and one that takes longer than      *)
(* TIMEOUT ends the script, whether gerrit carries it out or not.          *)
(*                                                                         *)
(* A name of a group is a pair, <<"infra", "core">> for infra-core.        *)
(***************************************************************************)
EXTENDS Naturals, Sequences, FiniteSets

CONSTANTS
    Projects,    \* sequence: short names of the Infrastructure repositories
    Puppet,      \* those that start with puppet-
    UpdateJob,   \* the options of update-gerrit-group.py, as a job
    Outside,     \* groups that exist beforehand and are no job of a script
    MaxRuns,     \* bound: runs of each script (a function)
    MaxEdits,    \* bound: edits by administrators
    MaxFaults    \* bound: calls that fail

Scripts == {"maintain", "update"}

Core == <<"infra", "core">>
Council == <<"infra", "council">>
Ptl == <<"infra", "ptl">>
CoreOf(p) == <<p, "core">>
ReleaseOf(p) == <<p, "release">>

\* The groups that are included exist beforehand.
ASSUME GroupsAssumption ==
    /\ Projects \in Seq(STRING)
    /\ \A i, j \in DOMAIN Projects : Projects[i] = Projects[j] => i = j
    /\ Core \in Outside
    /\ Puppet # {} => {<<"infra-puppet", "core">>, <<"infra-puppet", "release">>} \subseteq Outside
    /\ UpdateJob.includes \in Seq(Outside)
    /\ UpdateJob.visible \in BOOLEAN
    /\ UpdateJob.sets \in {"always", "differing", "never"}
    /\ MaxRuns \in [Scripts -> Nat] /\ MaxEdits \in Nat /\ MaxFaults \in Nat

\* A call of configure_group.  "sets" says when the owner is set: if another
\* one has been read, or, with the other script's --owner, always.
ConfigureGroup(name, includes) ==
    [name |-> name, owner |-> Ptl, includes |-> includes, visible |-> TRUE,
     sets |-> "differing"]

\* Mutant: the council's group comes first.
CouncilFirst ==
    LET n == Len(Projects)
    IN  <<ConfigureGroup(Council, <<Core>> \o [k \in 1..n |-> CoreOf(Projects[k])])>>
            \o [k \in 1..n |-> ConfigureGroup(CoreOf(Projects[k]), <<Core>>)]

\* The two groups of each project in turn, and the council's in the end.
MaintainJobs ==
    LET n == Len(Projects)
        With(p, kind) ==
            IF p \in Puppet THEN <<Core, <<"infra-puppet", kind>>>> ELSE <<Core>>
        Project(i) == Projects[(i + 1) \div 2]
    IN  [i \in 1..(2 * n + 1) |->
            IF i = 2 * n + 1
            THEN ConfigureGroup(Council, <<Core>> \o [k \in 1..n |-> CoreOf(Projects[k])])
            ELSE IF i % 2 = 1
            THEN ConfigureGroup(CoreOf(Project(i)), With(Project(i), "core"))
            ELSE ConfigureGroup(ReleaseOf(Project(i)), With(Project(i), "release"))]

Jobs == [s \in Scripts |-> IF s = "maintain" THEN MaintainJobs ELSE <<UpdateJob>>]

AllJobs == UNION {{Jobs[s][i] : i \in DOMAIN Jobs[s]} : s \in Scripts}
Names == Outside \cup {j.name : j \in AllJobs}
Owners == Names \cup {j.owner : j \in AllJobs}

VARIABLES
    groups,   \* gerrit's groups
    pc,       \* the call each script makes next
    at,       \* the job it is at
    detail,   \* what it has read of that job's group
    item,     \* which of include_groups comes next
    spoiled,  \* history: groups in which a call of the script's has failed or
              \* that another has changed, after the script has read them
    runs, edits, faults

vars == <<groups, pc, at, detail, item, spoiled, runs, edits, faults>>

Group == [exists : BOOLEAN, includes : SUBSET Names, owner : Owners, visible : BOOLEAN]

Calls == {"get", "create", "again", "include", "owner", "options"}
Ended == {"idle", "done", "dead"}

TypeOK ==
    /\ groups \in [Names -> Group]
    /\ pc \in [Scripts -> Calls \cup Ended]
    /\ at \in [Scripts -> Nat \ {0}]
    /\ \A s \in Scripts : pc[s] \in Calls => at[s] \in DOMAIN Jobs[s]
    /\ detail \in [Scripts -> Group]
    /\ item \in [Scripts -> Nat \ {0}]
    /\ spoiled \in [Scripts -> SUBSET Names]
    /\ runs \in [Scripts -> Nat] /\ edits \in 0..MaxEdits /\ faults \in 0..MaxFaults

\* A group that does not exist, and one as gerrit makes it by default.
NoGroup(n) == [exists |-> FALSE, includes |-> {}, owner |-> n, visible |-> FALSE]
NewGroup(n) == [NoGroup(n) EXCEPT !.exists = TRUE]

Init ==
    /\ groups = [n \in Names |-> IF n \in Outside THEN NewGroup(n) ELSE NoGroup(n)]
    /\ pc = [s \in Scripts |-> "idle"]
    /\ at = [s \in Scripts |-> 1]
    /\ detail = [s \in Scripts |-> NoGroup(Council)]
    /\ item = [s \in Scripts |-> 1]
    /\ spoiled = [s \in Scripts |-> {}]
    /\ runs = [s \in Scripts |-> 0] /\ edits = 0 /\ faults = 0

-----------------------------------------------------------------------------

JobOf(s) == Jobs[s][at[s]]
GroupOf(s) == JobOf(s).name

GoTo(s, place) == pc' = [pc EXCEPT ![s] = place]

Fault ==
    /\ faults < MaxFaults
    /\ faults' = faults + 1

\* What scripts other than s have read of the groups that change is outdated.
Outdate(s) ==
    LET changed == {n \in Names : groups'[n] # groups[n]}
    IN  spoiled' = [r \in Scripts |-> IF r = s THEN spoiled[r] ELSE spoiled[r] \cup changed]

\* An exception ends the script.
Die(s) ==
    /\ GoTo(s, "dead")
    /\ UNCHANGED <<at, detail, item>>

\* Session.put: it is carried out, refused, or never answered.
Put(s, new, Continue) ==
    \/ /\ groups' = new
       /\ Outdate(s)
       /\ Continue
       /\ UNCHANGED faults
    \/ /\ Fault
       /\ spoiled' = [spoiled EXCEPT ![s] = @ \cup {GroupOf(s)}]
       /\ Continue
       /\ UNCHANGED groups
    \/ /\ Fault
       /\ groups' \in {groups, new}
       /\ Outdate(s)
       /\ Die(s)

-----------------------------------------------------------------------------
(* A script.                                                               *)

Start(s) ==
    /\ pc[s] \in Ended
    /\ runs[s] < MaxRuns[s]
    /\ runs' = [runs EXCEPT ![s] = @ + 1]
    /\ GoTo(s, "get")
    /\ at' = [at EXCEPT ![s] = 1]
    /\ UNCHANGED <<groups, detail, item, spoiled, edits, faults>>

\* What the group includes is read once.
Read(s) ==
    /\ groups[GroupOf(s)].exists
    /\ detail' = [detail EXCEPT ![s] = groups[GroupOf(s)]]
    /\ item' = [item EXCEPT ![s] = 1]
    /\ spoiled' = [spoiled EXCEPT ![s] = @ \ {GroupOf(s)}]
    /\ GoTo(s, "include")
    /\ UNCHANGED <<at, faults>>

\* Anything but an answer of status 200 is taken for a group that is missing.
Get(s) ==
    /\ pc[s] = "get"
    /\ \/ Read(s)
       \/ /\ IF groups[GroupOf(s)].exists THEN Fault ELSE UNCHANGED faults
          /\ GoTo(s, "create")
          /\ UNCHANGED <<at, detail, item, spoiled>>
       \/ Fault /\ Die(s) /\ UNCHANGED spoiled
    /\ UNCHANGED <<groups, runs, edits>>

\* Without an owner in the request a new group owns itself.
FirstOwner(job) == IF job.sets = "never" THEN job.name ELSE job.owner

\* gerrit refuses to create a group a second time.
Create(s) ==
    LET n == GroupOf(s)
        new == [NewGroup(n) EXCEPT !.owner = FirstOwner(JobOf(s)), !.visible = JobOf(s).visible]
    IN  /\ pc[s] = "create"
        /\ Put(s, IF groups[n].exists THEN groups ELSE [groups EXCEPT ![n] = new],
               GoTo(s, "again") /\ UNCHANGED <<at, detail, item>>)
        /\ UNCHANGED <<runs, edits>>

\* None has no includes: the second failure to read a group ends the script.
Again(s) ==
    /\ pc[s] = "again"
    /\ \/ Read(s)
       \/ /\ IF groups[GroupOf(s)].exists THEN Fault ELSE UNCHANGED faults
          /\ Die(s)
          /\ UNCHANGED spoiled
    /\ UNCHANGED <<groups, runs, edits>>

\* Mutant: what has been read is written back with the new member.
IncludedInRead(s, member) ==
    [groups EXCEPT ![GroupOf(s)].includes = detail[s].includes \cup {member}]

\* gerrit refuses to include a group that it does not know.
Included(s, member) ==
    IF groups[member].exists
    THEN [groups EXCEPT ![GroupOf(s)].includes = @ \cup {member}]
    ELSE groups

Include(s) ==
    LET includes == JobOf(s).includes
        Skip == UNCHANGED <<groups, at, detail, spoiled, faults>>
        NextItem == item' = [item EXCEPT ![s] = @ + 1] /\ UNCHANGED pc
    IN  /\ pc[s] = "include"
        /\ IF item[s] > Len(includes)
           THEN GoTo(s, "owner") /\ Skip /\ UNCHANGED item
           ELSE IF includes[item[s]] \in detail[s].includes
           THEN NextItem /\ Skip
           ELSE Put(s, Included(s, includes[item[s]]), NextItem /\ UNCHANGED <<at, detail>>)
        /\ UNCHANGED <<runs, edits>>

SetOwner(s) ==
    /\ pc[s] = "owner"
    /\ IF \/ JobOf(s).sets = "always"
          \/ JobOf(s).sets = "differing" /\ detail[s].owner # JobOf(s).owner
       THEN Put(s, [groups EXCEPT ![GroupOf(s)].owner = JobOf(s).owner],
                GoTo(s, "options") /\ UNCHANGED <<at, detail, item>>)
       ELSE /\ GoTo(s, "options")
            /\ UNCHANGED <<groups, at, detail, item, spoiled, faults>>
    /\ UNCHANGED <<runs, edits>>

\* After the last job the script is done.
NextJob(s) ==
    /\ IF at[s] = Len(Jobs[s])
       THEN GoTo(s, "done") /\ UNCHANGED at
       ELSE GoTo(s, "get") /\ at' = [at EXCEPT ![s] = @ + 1]
    /\ UNCHANGED <<detail, item>>

\* Mutant: the option is set when it is set already, and not when it is not.
SetOptionsReversed(s) ==
    /\ pc[s] = "options"
    /\ IF detail[s].visible /\ JobOf(s).visible
       THEN Put(s, [groups EXCEPT ![GroupOf(s)].visible = JobOf(s).visible], NextJob(s))
       ELSE NextJob(s) /\ UNCHANGED <<groups, spoiled, faults>>
    /\ UNCHANGED <<runs, edits>>

\* gerrit leaves options out that are not set: None differs from False.
SetOptions(s) ==
    /\ pc[s] = "options"
    /\ IF detail[s].visible /\ JobOf(s).visible
       THEN NextJob(s) /\ UNCHANGED <<groups, spoiled, faults>>
       ELSE Put(s, [groups EXCEPT ![GroupOf(s)].visible = JobOf(s).visible], NextJob(s))
    /\ UNCHANGED <<runs, edits>>

-----------------------------------------------------------------------------
(* Administrators in gerrit's own pages.                                   *)

Edited(g) ==
    {[g EXCEPT !.includes = @ \cup {n}] : n \in {m \in Outside : groups[m].exists}}
        \cup {[g EXCEPT !.includes = @ \ {n}] : n \in Names}
        \cup {[g EXCEPT !.owner = n] : n \in Owners}
        \cup {[g EXCEPT !.visible = ~@]}

Edit ==
    /\ edits < MaxEdits
    /\ edits' = edits + 1
    /\ \E n \in {m \in Names : groups[m].exists} :
        \E g \in Edited(groups[n]) \ {groups[n]} :
            /\ groups' = [groups EXCEPT ![n] = g]
            /\ spoiled' = [s \in Scripts |-> spoiled[s] \cup {n}]
    /\ UNCHANGED <<pc, at, detail, item, runs, faults>>

-----------------------------------------------------------------------------

Script(s) ==
    \/ Start(s) \/ Get(s) \/ Create(s) \/ Again(s)
    \/ Include(s) \/ SetOwner(s) \/ SetOptions(s)

Next == Edit \/ \E s \in Scripts : Script(s)

Spec == Init /\ [][Next]_vars

-----------------------------------------------------------------------------
(* Properties.                                                             *)

\* The jobs that a run has put behind it.
Finished(s) ==
    {i \in DOMAIN Jobs[s] : pc[s] = "done" \/ (pc[s] \in Calls \cup {"dead"} /\ i < at[s])}

Met(job) ==
    LET g == groups[job.name]
    IN  /\ g.exists
        /\ \A i \in DOMAIN job.includes : job.includes[i] \in g.includes
        /\ job.sets # "never" => g.owner = job.owner
        /\ g.visible = job.visible

\* A run leaves a group as it is wanted, whatever state earlier runs that broke
\* off or administrators had left it in, unless a call for this very group
\* failed or somebody has changed it since the run read it.
Configured ==
    \A s \in Scripts : \A i \in Finished(s) :
        Jobs[s][i].name \notin spoiled[s] => Met(Jobs[s][i])

\* Who is included by an administrator, or by the other script, stays included
\* until an administrator takes him out: no run writes back what it has read.
NobodyDropped ==
    [][edits' = edits => \A n \in Names : groups[n].includes \subseteq groups'[n].includes]_vars
=============================================================================
