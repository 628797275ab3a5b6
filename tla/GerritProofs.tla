---------------------------- MODULE GerritProofs ----------------------------
(***************************************************************************)
(* The scripts that change what gerrit keeps, for any constants: groups    *)
(* are left as they are wanted, and nobody is dropped from one; spam is    *)
(* deleted altogether or not at all, and the threads of others stay; a     *)
(* walk through changes misses none that stays where it is.                *)
(***************************************************************************)
EXTENDS InfraGroups, GerritSpam, GerritPages, FiniteSetTheorems, WellFoundedInduction, TLAPS

-----------------------------------------------------------------------------
(* The jobs of a script.                                                   *)

\* Includes of a job exist beforehand or are set up by an earlier job; no group
\* is set up twice.
JobIncludes(s, i) == Outside \cup {Jobs[s][k].name : k \in 1..(i - 1)}

JobsWellFormed(s) ==
    /\ Len(Jobs[s]) \in Nat \ {0}
    /\ DOMAIN Jobs[s] = 1..Len(Jobs[s])
    /\ \A i \in DOMAIN Jobs[s] :
        /\ Jobs[s][i].name \in Names
        /\ Jobs[s][i].owner \in Owners
        /\ Jobs[s][i].visible \in BOOLEAN
        /\ Jobs[s][i].sets \in {"always", "differing", "never"}
        /\ Len(Jobs[s][i].includes) \in Nat
        /\ DOMAIN Jobs[s][i].includes = 1..Len(Jobs[s][i].includes)
        /\ \A k \in DOMAIN Jobs[s][i].includes : Jobs[s][i].includes[k] \in JobIncludes(s, i)
    /\ \A i, k \in DOMAIN Jobs[s] : Jobs[s][i].name = Jobs[s][k].name => i = k

LEMMA JobNames ==
    ASSUME NEW s \in Scripts, NEW i \in DOMAIN Jobs[s]
    PROVE  Jobs[s][i].name \in Names /\ Jobs[s][i].owner \in Owners
<1>1. Jobs[s][i] \in AllJobs
  BY DEF AllJobs
<1> QED
  BY <1>1 DEF Names, Owners

\* Which job of maintain-infra-groups.py is which.
LEMMA MaintainJobsAre ==
    ASSUME NEW n \in Nat, n = Len(Projects)
    PROVE  /\ Len(MaintainJobs) = 2 * n + 1
           /\ DOMAIN MaintainJobs = 1..(2 * n + 1)
           /\ MaintainJobs[2 * n + 1] =
                ConfigureGroup(Council, <<Core>> \o [k \in 1..n |-> CoreOf(Projects[k])])
           /\ \A j \in 1..n :
                /\ MaintainJobs[2 * j - 1] = ConfigureGroup(CoreOf(Projects[j]),
                     IF Projects[j] \in Puppet THEN <<Core, <<"infra-puppet", "core">>>> ELSE <<Core>>)
                /\ MaintainJobs[2 * j] = ConfigureGroup(ReleaseOf(Projects[j]),
                     IF Projects[j] \in Puppet THEN <<Core, <<"infra-puppet", "release">>>> ELSE <<Core>>)
<1>1. /\ DOMAIN MaintainJobs = 1..(2 * n + 1)
      /\ 2 * n + 1 \in DOMAIN MaintainJobs
      /\ \A j \in 1..n : 2 * j - 1 \in DOMAIN MaintainJobs /\ 2 * j \in DOMAIN MaintainJobs
  BY DEF MaintainJobs
<1>2. Len(MaintainJobs) = 2 * n + 1
  BY <1>1 DEF MaintainJobs
<1>3. MaintainJobs[2 * n + 1] =
        ConfigureGroup(Council, <<Core>> \o [k \in 1..n |-> CoreOf(Projects[k])])
  BY <1>1 DEF MaintainJobs
<1>4. ASSUME NEW j \in 1..n
      PROVE  /\ 2 * j - 1 # 2 * n + 1 /\ 2 * j # 2 * n + 1
             /\ (2 * j - 1) % 2 = 1 /\ (2 * j) % 2 = 0
             /\ ((2 * j - 1) + 1) \div 2 = j /\ ((2 * j) + 1) \div 2 = j
  OBVIOUS
<1>5. ASSUME NEW j \in 1..n
      PROVE  MaintainJobs[2 * j - 1] = ConfigureGroup(CoreOf(Projects[j]),
                     IF Projects[j] \in Puppet THEN <<Core, <<"infra-puppet", "core">>>> ELSE <<Core>>)
  BY <1>1, <1>4 DEF MaintainJobs
<1>6. ASSUME NEW j \in 1..n
      PROVE  MaintainJobs[2 * j] = ConfigureGroup(ReleaseOf(Projects[j]),
                     IF Projects[j] \in Puppet THEN <<Core, <<"infra-puppet", "release">>>> ELSE <<Core>>)
  BY <1>1, <1>4 DEF MaintainJobs
<1> QED
  BY <1>1, <1>2, <1>3, <1>5, <1>6

\* A number is that of the first or of the second job of a project.
LEMMA Halves ==
    ASSUME NEW n \in Nat, NEW i \in 1..(2 * n)
    PROVE  \E j \in 1..n : i = 2 * j - 1 \/ i = 2 * j
<1>1. PICK j \in Nat : i = 2 * j - 1 \/ i = 2 * j
  <2>1. i = 2 * ((i + 1) \div 2) - 1 \/ i = 2 * ((i + 1) \div 2)
    OBVIOUS
  <2>2. (i + 1) \div 2 \in Nat
    OBVIOUS
  <2> QED
    BY <2>1, <2>2
<1>2. j \in 1..n
  BY <1>1
<1> QED
  BY <1>1, <1>2

\* Who is included in the groups of a project.
Members(j, kind) ==
    IF Projects[j] \in Puppet THEN <<Core, <<"infra-puppet", kind>>>> ELSE <<Core>>

LEMMA ProjectJob ==
    ASSUME NEW j, NEW kind \in {"core", "release"}, NEW job,
           job = ConfigureGroup(<<Projects[j], kind>>, Members(j, kind))
    PROVE  /\ job.name = <<Projects[j], kind>>
           /\ job.visible = TRUE /\ job.sets = "differing"
           /\ Len(job.includes) \in Nat
           /\ DOMAIN job.includes = 1..Len(job.includes)
           /\ \A k \in DOMAIN job.includes : job.includes[k] \in Outside
<1>1. /\ job.name = <<Projects[j], kind>>
      /\ job.visible = TRUE /\ job.sets = "differing"
      /\ job.includes = Members(j, kind)
  BY DEF ConfigureGroup
<1>2. Core \in Outside
  BY GroupsAssumption
<1>3. CASE Projects[j] \in Puppet
  <2> DEFINE puppets == <<"infra-puppet", kind>>
  <2>1. puppets \in Outside
    BY <1>3, GroupsAssumption
  <2>2. Members(j, kind) = <<Core, puppets>>
    BY <1>3 DEF Members
  <2> HIDE DEF puppets
  <2> QED
    BY <1>1, <1>2, <2>1, <2>2
<1>4. CASE Projects[j] \notin Puppet
  <2>1. Members(j, kind) = <<Core>>
    BY <1>4 DEF Members
  <2> QED
    BY <1>1, <1>2, <2>1
<1> QED
  BY <1>3, <1>4

LEMMA CouncilJob ==
    ASSUME NEW n \in Nat, NEW job,
           job = ConfigureGroup(Council, <<Core>> \o [k \in 1..n |-> CoreOf(Projects[k])])
    PROVE  /\ job.name = Council
           /\ job.visible = TRUE /\ job.sets = "differing"
           /\ Len(job.includes) = n + 1
           /\ DOMAIN job.includes = 1..(n + 1)
           /\ job.includes[1] = Core
           /\ \A k \in 1..n : job.includes[k + 1] = CoreOf(Projects[k])
<1> DEFINE cores == [k \in 1..n |-> CoreOf(Projects[k])]
           S == {Core} \cup {CoreOf(Projects[k]) : k \in 1..n}
<1>1. /\ cores \in Seq(S) /\ Len(cores) = n /\ DOMAIN cores = 1..n
      /\ \A k \in 1..n : cores[k] = CoreOf(Projects[k])
  OBVIOUS
<1>2. <<Core>> \in Seq(S) /\ Len(<<Core>>) = 1 /\ <<Core>>[1] = Core
  OBVIOUS
<1>3. job = ConfigureGroup(Council, <<Core>> \o cores)
  OBVIOUS
<1> HIDE DEF cores, S
<1>4. /\ Len(<<Core>> \o cores) = n + 1
      /\ DOMAIN (<<Core>> \o cores) = 1..(n + 1)
      /\ (<<Core>> \o cores)[1] = Core
      /\ \A k \in 1..n : (<<Core>> \o cores)[k + 1] = cores[k]
  BY <1>1, <1>2
<1> QED
  BY <1>1, <1>3, <1>4 DEF ConfigureGroup

\* The council comes last, and after all groups that it includes.
LEMMA MaintainWellFormed == JobsWellFormed("maintain")
<1> DEFINE n == Len(Projects)
           M == MaintainJobs
<1>1. /\ n \in Nat
      /\ \A j \in 1..n : Projects[j] \in STRING
      /\ \A j, k \in 1..n : Projects[j] = Projects[k] => j = k
      /\ Core \in Outside
      /\ Jobs["maintain"] = M /\ "maintain" \in Scripts
  BY GroupsAssumption DEF Jobs, Scripts
<1>2. /\ Len(M) = 2 * n + 1
      /\ DOMAIN M = 1..(2 * n + 1)
      /\ M[2 * n + 1] = ConfigureGroup(Council, <<Core>> \o [k \in 1..n |-> CoreOf(Projects[k])])
      /\ \A j \in 1..n :
            /\ M[2 * j - 1] = ConfigureGroup(<<Projects[j], "core">>, Members(j, "core"))
            /\ M[2 * j] = ConfigureGroup(<<Projects[j], "release">>, Members(j, "release"))
  BY <1>1, MaintainJobsAre, Zenon DEF Members, CoreOf, ReleaseOf
<1> HIDE DEF n, M
<1>3. ASSUME NEW i \in DOMAIN M, i # 2 * n + 1
      PROVE  \E j \in 1..n, kind \in {"core", "release"} :
                /\ i = (IF kind = "core" THEN 2 * j - 1 ELSE 2 * j)
                /\ M[i] = ConfigureGroup(<<Projects[j], kind>>, Members(j, kind))
  <2>1. i \in 1..(2 * n)
    BY <1>1, <1>2, <1>3
  <2>2. PICK j \in 1..n : i = 2 * j - 1 \/ i = 2 * j
    BY <1>1, <2>1, Halves
  <2>3. CASE i = 2 * j - 1
    BY <1>2, <2>3
  <2>4. CASE i = 2 * j
    BY <1>2, <2>4
  <2> QED
    BY <2>2, <2>3, <2>4
<1>4. /\ M[2 * n + 1].name = Council
      /\ M[2 * n + 1].visible = TRUE /\ M[2 * n + 1].sets = "differing"
      /\ Len(M[2 * n + 1].includes) = n + 1
      /\ DOMAIN M[2 * n + 1].includes = 1..(n + 1)
      /\ M[2 * n + 1].includes[1] = Core
      /\ \A k \in 1..n : M[2 * n + 1].includes[k + 1] = CoreOf(Projects[k])
  BY <1>1, <1>2, CouncilJob
<1>5. \A k \in 1..n : M[2 * k - 1].name = CoreOf(Projects[k])
  BY <1>2, ProjectJob DEF CoreOf
<1>6. ASSUME NEW i \in DOMAIN M
      PROVE  /\ M[i].visible \in BOOLEAN
             /\ M[i].sets \in {"always", "differing", "never"}
             /\ Len(M[i].includes) \in Nat
             /\ DOMAIN M[i].includes = 1..Len(M[i].includes)
             /\ \A k \in DOMAIN M[i].includes : M[i].includes[k] \in JobIncludes("maintain", i)
  <2>1. CASE i = 2 * n + 1
    <3>1. \A k \in 1..n : 2 * k - 1 \in 1..(i - 1)
      BY <1>1, <2>1
    <3>2. \A k \in 1..n : CoreOf(Projects[k]) \in JobIncludes("maintain", i)
      BY <1>1, <1>5, <3>1 DEF JobIncludes
    <3>3. ASSUME NEW k \in 1..(n + 1)
          PROVE  M[i].includes[k] \in JobIncludes("maintain", i)
      <4>1. CASE k = 1
        BY <1>1, <1>4, <2>1, <4>1 DEF JobIncludes
      <4>2. CASE k # 1
        <5>1. k - 1 \in 1..n /\ k = (k - 1) + 1
          BY <1>1, <4>2
        <5> QED
          BY <1>4, <2>1, <3>2, <5>1
      <4> QED
        BY <4>1, <4>2
    <3>4. /\ M[i].visible \in BOOLEAN
          /\ M[i].sets \in {"always", "differing", "never"}
          /\ Len(M[i].includes) = n + 1
          /\ DOMAIN M[i].includes = 1..(n + 1)
      BY <1>4, <2>1
    <3>5. n + 1 \in Nat
      BY <1>1
    <3> QED
      BY <3>3, <3>4, <3>5, Zenon
  <2>2. CASE i # 2 * n + 1
    <3>1. PICK j \in 1..n, kind \in {"core", "release"} :
            M[i] = ConfigureGroup(<<Projects[j], kind>>, Members(j, kind))
      BY <1>3, <2>2
    <3>2. /\ M[i].visible = TRUE /\ M[i].sets = "differing"
          /\ Len(M[i].includes) \in Nat
          /\ DOMAIN M[i].includes = 1..Len(M[i].includes)
          /\ \A k \in DOMAIN M[i].includes : M[i].includes[k] \in Outside
      BY <3>1, ProjectJob
    <3>3. Outside \subseteq JobIncludes("maintain", i)
      BY DEF JobIncludes
    <3> QED
      BY <3>2, <3>3, Zenon
  <2> QED
    BY <2>1, <2>2
\* A project's name and kind tell its jobs apart, and none is the council.
<1>7. ASSUME NEW i \in DOMAIN M, NEW k \in DOMAIN M, M[i].name = M[k].name
      PROVE  i = k
  <2>1. ASSUME NEW h \in DOMAIN M, h # 2 * n + 1
        PROVE  \E j \in 1..n, kind \in {"core", "release"} :
                 /\ h = (IF kind = "core" THEN 2 * j - 1 ELSE 2 * j)
                 /\ M[h].name = <<Projects[j], kind>>
    <3>1. PICK j \in 1..n, kind \in {"core", "release"} :
            /\ h = (IF kind = "core" THEN 2 * j - 1 ELSE 2 * j)
            /\ M[h] = ConfigureGroup(<<Projects[j], kind>>, Members(j, kind))
      BY <1>3, <2>1
    <3>2. M[h].name = <<Projects[j], kind>>
      BY <3>1, ProjectJob
    <3> QED
      BY <3>1, <3>2
  <2>2. \A j, kind : kind \in {"core", "release"} => <<Projects[j], kind>> # Council
    BY DEF Council
  <2>3. CASE i = 2 * n + 1 \/ k = 2 * n + 1
    <3>1. ASSUME NEW h \in DOMAIN M, h # 2 * n + 1
          PROVE  M[h].name # Council
      <4>1. PICK j \in 1..n, kind \in {"core", "release"} : M[h].name = <<Projects[j], kind>>
        BY <2>1, <3>1, Zenon
      <4> QED
        BY <2>2, <4>1, Zenon
    <3>2. M[2 * n + 1].name = Council
      BY <1>4, Zenon
    <3> QED
      BY <1>7, <2>3, <3>1, <3>2, Zenon
  <2>4. CASE i # 2 * n + 1 /\ k # 2 * n + 1
    <3>1. PICK j \in 1..n, kind \in {"core", "release"} :
            /\ i = (IF kind = "core" THEN 2 * j - 1 ELSE 2 * j)
            /\ M[i].name = <<Projects[j], kind>>
      BY <2>1, <2>4
    <3>2. PICK g \in 1..n, other \in {"core", "release"} :
            /\ k = (IF other = "core" THEN 2 * g - 1 ELSE 2 * g)
            /\ M[k].name = <<Projects[g], other>>
      BY <2>1, <2>4
    <3>3. Projects[j] = Projects[g] /\ kind = other
      BY <1>7, <3>1, <3>2
    <3> QED
      BY <1>1, <3>1, <3>2, <3>3
  <2> QED
    BY <2>3, <2>4
<1>8. \A i \in DOMAIN M : M[i].name \in Names /\ M[i].owner \in Owners
  BY <1>1, JobNames
<1>9. Len(M) \in Nat \ {0} /\ DOMAIN M = 1..Len(M)
  BY <1>1, <1>2
<1> QED
  BY <1>1, <1>6, <1>7, <1>8, <1>9 DEF JobsWellFormed

LEMMA UpdateWellFormed == JobsWellFormed("update")
<1>1. "update" \in Scripts /\ Jobs["update"] = <<UpdateJob>>
  BY DEF Jobs, Scripts
<1>2. /\ UpdateJob.visible \in BOOLEAN /\ UpdateJob.sets \in {"always", "differing", "never"}
      /\ Len(UpdateJob.includes) \in Nat
      /\ DOMAIN UpdateJob.includes = 1..Len(UpdateJob.includes)
      /\ \A k \in DOMAIN UpdateJob.includes : UpdateJob.includes[k] \in Outside
  BY GroupsAssumption
<1> QED
  BY <1>1, <1>2, JobNames DEF JobsWellFormed, JobIncludes

LEMMA WellFormedJobs == \A s \in Scripts : JobsWellFormed(s)
BY MaintainWellFormed, UpdateWellFormed DEF Scripts

\* The job that a script is at.
LEMMA JobAt ==
    ASSUME TypeOK, NEW s \in Scripts, pc[s] \in Calls
    PROVE  /\ at[s] \in 1..Len(Jobs[s]) /\ Len(Jobs[s]) \in Nat
           /\ JobOf(s) = Jobs[s][at[s]]
           /\ GroupOf(s) \in Names
           /\ JobOf(s).owner \in Owners
           /\ JobOf(s).visible \in BOOLEAN
           /\ JobOf(s).sets \in {"always", "differing", "never"}
           /\ Len(JobOf(s).includes) \in Nat
           /\ DOMAIN JobOf(s).includes = 1..Len(JobOf(s).includes)
           /\ \A k \in DOMAIN JobOf(s).includes :
                JobOf(s).includes[k] \in JobIncludes(s, at[s]) /\ JobOf(s).includes[k] \in Names
<1>1. at[s] \in DOMAIN Jobs[s]
  BY DEF TypeOK
<1>2. JobsWellFormed(s)
  BY WellFormedJobs
<1>3. Outside \subseteq Names /\ \A k \in DOMAIN Jobs[s] : Jobs[s][k].name \in Names
  BY JobNames DEF Names
<1>4. \A k \in 1..(at[s] - 1) : k \in DOMAIN Jobs[s]
  BY <1>1, <1>2 DEF JobsWellFormed
<1>5. JobIncludes(s, at[s]) \subseteq Names
  BY <1>3, <1>4 DEF JobIncludes
<1>6. /\ at[s] \in 1..Len(Jobs[s]) /\ Len(Jobs[s]) \in Nat
      /\ Jobs[s][at[s]].name \in Names
      /\ Jobs[s][at[s]].owner \in Owners
      /\ Jobs[s][at[s]].visible \in BOOLEAN
      /\ Jobs[s][at[s]].sets \in {"always", "differing", "never"}
      /\ Len(Jobs[s][at[s]].includes) \in Nat
      /\ DOMAIN Jobs[s][at[s]].includes = 1..Len(Jobs[s][at[s]].includes)
      /\ \A k \in DOMAIN Jobs[s][at[s]].includes : Jobs[s][at[s]].includes[k] \in JobIncludes(s, at[s])
  BY <1>1, <1>2 DEF JobsWellFormed
<1> QED
  BY <1>5, <1>6 DEF JobOf, GroupOf

LEMMA GroupTyped ==
    ASSUME NEW g \in Group
    PROVE  /\ g.exists \in BOOLEAN /\ g.includes \subseteq Names
           /\ g.owner \in Owners /\ g.visible \in BOOLEAN
           /\ \A n \in Names : [g EXCEPT !.includes = @ \cup {n}] \in Group
           /\ \A n \in Names : [g EXCEPT !.includes = @ \ {n}] \in Group
           /\ \A n \in Owners : [g EXCEPT !.owner = n] \in Group
           /\ \A v \in BOOLEAN : [g EXCEPT !.visible = v] \in Group
BY DEF Group

LEMMA NoGroupTyped ==
    ASSUME NEW n \in Names
    PROVE  n \in Owners /\ NoGroup(n) \in Group /\ NewGroup(n) \in Group
<1>1. n \in Owners
  BY DEF Owners
<1> QED
  BY <1>1 DEF NoGroup, NewGroup, Group

LEMMA NewGroupTyped ==
    ASSUME NEW n \in Names, NEW o \in Owners, NEW v \in BOOLEAN
    PROVE  [NewGroup(n) EXCEPT !.owner = o, !.visible = v] \in Group
BY NoGroupTyped DEF NoGroup, NewGroup, Group

LEMMA TypeInit == Init => TypeOK
<1> SUFFICES ASSUME Init PROVE TypeOK
  OBVIOUS
<1>1. Council \in Names
  <2>1. JobsWellFormed("maintain") /\ "maintain" \in Scripts /\ Jobs["maintain"] = MaintainJobs
    BY MaintainWellFormed DEF Jobs, Scripts
  <2>2. Len(Projects) \in Nat
    BY GroupsAssumption
  <2>3. /\ 2 * Len(Projects) + 1 \in DOMAIN MaintainJobs
        /\ MaintainJobs[2 * Len(Projects) + 1].name = Council
    <3> DEFINE n == Len(Projects)
    <3>1. /\ 2 * n + 1 \in 1..(2 * n + 1)
          /\ DOMAIN MaintainJobs = 1..(2 * n + 1)
          /\ MaintainJobs[2 * n + 1] =
                ConfigureGroup(Council, <<Core>> \o [k \in 1..n |-> CoreOf(Projects[k])])
      BY <2>2, MaintainJobsAre
    <3>2. MaintainJobs[2 * n + 1].name = Council
      BY <2>2, <3>1, CouncilJob
    <3> QED
      BY <3>1, <3>2
  <2> QED
    BY <2>1, <2>3, JobNames
<1>2. groups \in [Names -> Group]
  BY NoGroupTyped DEF Init
<1>3. detail \in [Scripts -> Group]
  BY <1>1, NoGroupTyped DEF Init
<1> QED
  BY <1>2, <1>3, GroupsAssumption DEF Init, TypeOK, Calls, Ended

-----------------------------------------------------------------------------
(* The inductive invariant.                                                *)

\* Groups do not go away, and one that is missing includes nobody.
GroupsInv ==
    /\ \A n \in Outside : groups[n].exists
    /\ \A n \in Names : ~groups[n].exists => groups[n].includes = {}
    /\ \A s \in Scripts :
        /\ at[s] \in DOMAIN Jobs[s]
        /\ \A i \in 1..(at[s] - 1) : groups[Jobs[s][i].name].exists
        /\ pc[s] \in {"include", "owner", "options"} => groups[GroupOf(s)].exists

\* How far a script has come with a group that is as it has read it or left it.
Current(s) ==
    LET g == groups[GroupOf(s)]
        j == JobOf(s)
    IN  GroupOf(s) \notin spoiled[s] =>
        /\ pc[s] \in {"include", "owner"} => g.owner = detail[s].owner
        /\ pc[s] \in {"include", "owner", "options"} =>
                g.visible = detail[s].visible /\ detail[s].includes \subseteq g.includes
        /\ pc[s] = "include" =>
                \A k \in DOMAIN j.includes : k < item[s] => j.includes[k] \in g.includes
        /\ pc[s] \in {"owner", "options"} =>
                \A k \in DOMAIN j.includes : j.includes[k] \in g.includes
        /\ pc[s] = "options" /\ j.sets # "never" => g.owner = j.owner

FinishedMet(s) ==
    \A i \in Finished(s) : Jobs[s][i].name \notin spoiled[s] => Met(Jobs[s][i])

GroupsIInv == TypeOK /\ GroupsInv /\ \A s \in Scripts : Current(s) /\ FinishedMet(s)

-----------------------------------------------------------------------------
(* What a step may do to groups.                                           *)

\* Only the group that the script is at changes, and it only grows.
Grows(s, new) ==
    /\ new \in [Names -> Group]
    /\ \A n \in Names :
        /\ n # GroupOf(s) => new[n] = groups[n]
        /\ groups[n].exists => new[n].exists
        /\ ~new[n].exists => new[n].includes = {}
        /\ groups[n].includes \subseteq new[n].includes

\* What another reads afterwards it has read before, or knows to be spoiled.
Noticed(r) ==
    \A n \in Names : n \notin spoiled'[r] => n \notin spoiled[r] /\ groups'[n] = groups[n]

Effect(s) ==
    /\ Grows(s, groups')
    /\ spoiled' \in [Scripts -> SUBSET Names]
    /\ faults' \in 0..MaxFaults
    /\ \A r \in Scripts \ {s} : Noticed(r)
    /\ \A n \in Names \ {GroupOf(s)} : n \notin spoiled'[s] => n \notin spoiled[s]

LEMMA Unchanging ==
    ASSUME GroupsIInv, NEW s \in Scripts, UNCHANGED <<groups, spoiled>>, faults' \in 0..MaxFaults
    PROVE  Effect(s)
BY DEF Effect, Grows, Noticed, GroupsIInv, GroupsInv, TypeOK

LEMMA FaultTyped ==
    ASSUME TypeOK, Fault
    PROVE  faults' \in 0..MaxFaults
BY GroupsAssumption DEF TypeOK, Fault

LEMMA OutdateEffect ==
    ASSUME TypeOK, NEW s \in Scripts, Outdate(s)
    PROVE  /\ spoiled' \in [Scripts -> SUBSET Names]
           /\ spoiled'[s] = spoiled[s]
           /\ \A r \in Scripts \ {s} : Noticed(r)
BY DEF TypeOK, Outdate, Noticed

LEMMA PutEffect ==
    ASSUME GroupsIInv, NEW s \in Scripts, GroupOf(s) \in Names, NEW new, Grows(s, new),
           NEW ACTION C, Put(s, new, C)
    PROVE  /\ Effect(s)
           /\ \/ C /\ groups' = new /\ spoiled'[s] = spoiled[s]
              \/ C /\ GroupOf(s) \in spoiled'[s]
              \/ Die(s)
<1> USE DEF GroupsIInv
<1>1. CASE groups' = new /\ Outdate(s) /\ C /\ UNCHANGED faults
  BY <1>1, OutdateEffect DEF Effect, TypeOK
<1>2. CASE /\ Fault
           /\ spoiled' = [spoiled EXCEPT ![s] = @ \cup {GroupOf(s)}]
           /\ C
           /\ UNCHANGED groups
  <2>1. Grows(s, groups')
    BY <1>2 DEF Grows, GroupsInv, TypeOK
  <2>2. /\ spoiled' \in [Scripts -> SUBSET Names]
        /\ GroupOf(s) \in spoiled'[s] /\ spoiled[s] \subseteq spoiled'[s]
        /\ \A r \in Scripts \ {s} : spoiled'[r] = spoiled[r]
    BY <1>2 DEF TypeOK
  <2> QED
    BY <1>2, <2>1, <2>2, FaultTyped DEF Effect, Noticed
<1>3. CASE Fault /\ groups' \in {groups, new} /\ Outdate(s) /\ Die(s)
  <2>1. Grows(s, groups')
    BY <1>3 DEF Grows, GroupsInv, TypeOK
  <2> QED
    BY <1>3, <2>1, FaultTyped, OutdateEffect DEF Effect
<1> QED
  BY <1>1, <1>2, <1>3, Zenon DEF Put

\* The groups after each kind of call.
LEMMA CreateGrows ==
    ASSUME GroupsIInv, NEW s \in Scripts, pc[s] = "create"
    PROVE  Grows(s, IF groups[GroupOf(s)].exists THEN groups
                    ELSE [groups EXCEPT ![GroupOf(s)] =
                            [NewGroup(GroupOf(s)) EXCEPT !.owner = FirstOwner(JobOf(s)),
                                                         !.visible = JobOf(s).visible]])
<1> DEFINE n == GroupOf(s)
           g == [NewGroup(n) EXCEPT !.owner = FirstOwner(JobOf(s)),
                                    !.visible = JobOf(s).visible]
<1>0. n \in Names /\ JobOf(s).owner \in Owners /\ JobOf(s).visible \in BOOLEAN
  BY JobAt DEF GroupsIInv, Calls
<1>1. n \in Names /\ FirstOwner(JobOf(s)) \in Owners /\ JobOf(s).visible \in BOOLEAN
  BY <1>0 DEF FirstOwner, GroupOf, Owners
<1>2. g \in Group /\ g.exists
  BY <1>1, NewGroupTyped DEF NewGroup, NoGroup
<1> HIDE DEF g
<1>3. groups \in [Names -> Group] /\ \A m \in Names : ~groups[m].exists => groups[m].includes = {}
  BY DEF GroupsIInv, TypeOK, GroupsInv
<1>4. Grows(s, groups)
  BY <1>3 DEF Grows
<1>5. ASSUME ~groups[n].exists
      PROVE  Grows(s, [groups EXCEPT ![n] = g])
  BY <1>1, <1>2, <1>3, <1>5 DEF Grows
<1>6. CASE groups[n].exists
  BY <1>4, <1>6
<1>7. CASE ~groups[n].exists
  <2>1. Grows(s, [groups EXCEPT ![n] = g])
    BY <1>5, <1>7
  <2> QED
    BY <1>7, <2>1, Zenon DEF g
<1> QED
  BY <1>6, <1>7

\* A group that exists may be given another value that includes no fewer.
LEMMA UpdateGrows ==
    ASSUME GroupsIInv, NEW s \in Scripts, GroupOf(s) \in Names, groups[GroupOf(s)].exists,
           NEW g \in Group, g.exists, groups[GroupOf(s)].includes \subseteq g.includes
    PROVE  Grows(s, [groups EXCEPT ![GroupOf(s)] = g])
BY DEF GroupsIInv, TypeOK, GroupsInv, Grows

\* An included group exists: the script has set it up, or it did beforehand.
LEMMA IncludesExist ==
    ASSUME GroupsIInv, NEW s \in Scripts, pc[s] \in Calls, NEW k \in DOMAIN JobOf(s).includes
    PROVE  groups[JobOf(s).includes[k]].exists
<1>1. JobOf(s).includes[k] \in JobIncludes(s, at[s])
  BY JobAt DEF GroupsIInv
<1> QED
  BY <1>1 DEF GroupsIInv, GroupsInv, JobIncludes

LEMMA IncludeGrows ==
    ASSUME GroupsIInv, NEW s \in Scripts, pc[s] = "include", NEW k \in DOMAIN JobOf(s).includes
    PROVE  LET member == JobOf(s).includes[k]
               new == Included(s, member)
           IN  /\ Grows(s, new)
               /\ new = [groups EXCEPT ![GroupOf(s)].includes = @ \cup {member}]
<1> DEFINE n == GroupOf(s)
           member == JobOf(s).includes[k]
           g == [groups[n] EXCEPT !.includes = @ \cup {member}]
<1>1. n \in Names /\ member \in Names /\ groups[n] \in Group /\ groups[n].exists
  BY JobAt DEF GroupsIInv, Calls, TypeOK, GroupsInv
<1>2. g \in Group /\ g.exists /\ groups[n].includes \subseteq g.includes
  BY <1>1 DEF Group
<1>3. Included(s, member) = [groups EXCEPT ![n] = g]
  BY IncludesExist DEF Included, Calls
<1> HIDE DEF g
<1>4. Grows(s, [groups EXCEPT ![n] = g])
  BY <1>1, <1>2, UpdateGrows
<1> QED
  BY <1>3, <1>4 DEF g

LEMMA OwnerGrows ==
    ASSUME GroupsIInv, NEW s \in Scripts, pc[s] = "owner"
    PROVE  Grows(s, [groups EXCEPT ![GroupOf(s)].owner = JobOf(s).owner])
<1> DEFINE n == GroupOf(s)
           g == [groups[n] EXCEPT !.owner = JobOf(s).owner]
<1>1. n \in Names /\ JobOf(s).owner \in Owners /\ groups[n] \in Group /\ groups[n].exists
  BY JobAt DEF GroupsIInv, Calls, TypeOK, GroupsInv
<1>2. g \in Group /\ g.exists /\ groups[n].includes \subseteq g.includes
  BY <1>1 DEF Group
<1> HIDE DEF g
<1>3. Grows(s, [groups EXCEPT ![n] = g])
  BY <1>1, <1>2, UpdateGrows
<1> QED
  BY <1>3 DEF g

LEMMA OptionsGrows ==
    ASSUME GroupsIInv, NEW s \in Scripts, pc[s] = "options"
    PROVE  Grows(s, [groups EXCEPT ![GroupOf(s)].visible = JobOf(s).visible])
<1> DEFINE n == GroupOf(s)
           g == [groups[n] EXCEPT !.visible = JobOf(s).visible]
<1>1. n \in Names /\ JobOf(s).visible \in BOOLEAN /\ groups[n] \in Group /\ groups[n].exists
  BY JobAt DEF GroupsIInv, Calls, TypeOK, GroupsInv
<1>2. g \in Group /\ g.exists /\ groups[n].includes \subseteq g.includes
  BY <1>1 DEF Group
<1> HIDE DEF g
<1>3. Grows(s, [groups EXCEPT ![n] = g])
  BY <1>1, <1>2, UpdateGrows
<1> QED
  BY <1>3 DEF g

-----------------------------------------------------------------------------
(* A step of a script.                                                     *)

\* Only the script's own variables change.
Own(s) ==
    /\ pc' \in [Scripts -> Calls \cup Ended]
    /\ at' \in [Scripts -> Nat \ {0}]
    /\ detail' \in [Scripts -> Group]
    /\ item' \in [Scripts -> Nat \ {0}]
    /\ runs' \in [Scripts -> Nat] /\ edits' = edits
    /\ \A r \in Scripts \ {s} :
        pc'[r] = pc[r] /\ at'[r] = at[r] /\ detail'[r] = detail[r] /\ item'[r] = item[r]

\* Another script's books hold, of a group that it does not know to have changed.
LEMMA OtherScript ==
    ASSUME GroupsIInv, NEW s \in Scripts, Effect(s), Own(s), NEW r \in Scripts \ {s}
    PROVE  Current(r)' /\ FinishedMet(r)'
<1>1. /\ Noticed(r)
      /\ pc'[r] = pc[r] /\ at'[r] = at[r] /\ detail'[r] = detail[r] /\ item'[r] = item[r]
      /\ Current(r) /\ FinishedMet(r) /\ at[r] \in DOMAIN Jobs[r]
  BY DEF Effect, Own, GroupsIInv, GroupsInv
<1>2. \A i \in DOMAIN Jobs[r] : Jobs[r][i].name \in Names
  BY JobNames
<1>3. JobOf(r)' = JobOf(r) /\ GroupOf(r)' = GroupOf(r) /\ GroupOf(r) \in Names
  BY <1>1, <1>2 DEF JobOf, GroupOf
<1>4. Current(r)'
  <2>1. SUFFICES ASSUME GroupOf(r) \notin spoiled'[r]
                 PROVE  Current(r)'
    BY <1>3 DEF Current
  <2>2. GroupOf(r) \notin spoiled[r] /\ groups'[GroupOf(r)] = groups[GroupOf(r)]
    BY <1>1, <1>3, <2>1 DEF Noticed
  <2> QED
    BY <1>1, <1>3, <2>2 DEF Current
<1>5. FinishedMet(r)'
  <2>1. Finished(r)' = Finished(r)
    BY <1>1 DEF Finished
  <2>2. SUFFICES ASSUME NEW i \in Finished(r), Jobs[r][i].name \notin spoiled'[r]
                 PROVE  Met(Jobs[r][i])'
    BY <2>1 DEF FinishedMet
  <2>3. i \in DOMAIN Jobs[r]
    BY DEF Finished
  <2>4. Jobs[r][i].name \notin spoiled[r] /\ groups'[Jobs[r][i].name] = groups[Jobs[r][i].name]
    BY <1>1, <1>2, <2>2, <2>3 DEF Noticed
  <2>5. Met(Jobs[r][i])
    BY <1>1, <2>4 DEF FinishedMet
  <2> QED
    BY <2>4, <2>5 DEF Met
<1> QED
  BY <1>4, <1>5

\* What an own step leaves of the jobs before the one the script is at.
LEMMA EarlierMet ==
    ASSUME GroupsIInv, NEW s \in Scripts, Effect(s), pc[s] \in Calls,
           NEW i \in 1..(at[s] - 1), Jobs[s][i].name \notin spoiled'[s]
    PROVE  Met(Jobs[s][i])'
<1>1. JobsWellFormed(s) /\ at[s] \in 1..Len(Jobs[s]) /\ Len(Jobs[s]) \in Nat
  BY WellFormedJobs, JobAt DEF GroupsIInv
<1>2. i \in DOMAIN Jobs[s] /\ at[s] \in DOMAIN Jobs[s] /\ i # at[s] /\ i < at[s]
  BY <1>1 DEF JobsWellFormed
<1>3. Jobs[s][i].name # GroupOf(s) /\ Jobs[s][i].name \in Names
  BY <1>1, <1>2, JobNames DEF JobsWellFormed, GroupOf, JobOf
<1>4. Jobs[s][i].name \notin spoiled[s] /\ groups'[Jobs[s][i].name] = groups[Jobs[s][i].name]
  BY <1>3 DEF Effect, Grows
<1>5. i \in Finished(s)
  BY <1>2 DEF Finished
<1>6. Met(Jobs[s][i])
  BY <1>4, <1>5 DEF GroupsIInv, FinishedMet
<1> QED
  BY <1>4, <1>6 DEF Met

\* The parts of the invariant that hold after any own step.
LEMMA OwnStep ==
    ASSUME GroupsIInv, NEW s \in Scripts, Effect(s), Own(s),
           at'[s] \in DOMAIN Jobs[s],
           \A i \in 1..(at'[s] - 1) : groups'[Jobs[s][i].name].exists,
           pc'[s] \in {"include", "owner", "options"} => groups'[GroupOf(s)'].exists,
           Current(s)', FinishedMet(s)'
    PROVE  GroupsIInv'
<1>1. TypeOK'
  <2>1. ASSUME NEW r \in Scripts
        PROVE  at'[r] \in DOMAIN Jobs[r]
    BY DEF GroupsIInv, GroupsInv, Own
  <2> QED
    BY <2>1 DEF TypeOK, Own, Effect, Grows, GroupsIInv
<1>2. GroupsInv'
  <2>1. /\ \A n \in Outside : groups'[n].exists
        /\ \A n \in Names : ~groups'[n].exists => groups'[n].includes = {}
    BY DEF GroupsIInv, GroupsInv, Effect, Grows, Names
  <2>2. ASSUME NEW r \in Scripts \ {s}
        PROVE  /\ at'[r] \in DOMAIN Jobs[r]
               /\ \A i \in 1..(at'[r] - 1) : groups'[Jobs[r][i].name].exists
               /\ pc'[r] \in {"include", "owner", "options"} => groups'[GroupOf(r)'].exists
    <3>1. at'[r] = at[r] /\ pc'[r] = pc[r] /\ at[r] \in DOMAIN Jobs[r]
      BY DEF Own, GroupsIInv, GroupsInv
    <3>2. GroupOf(r)' = GroupOf(r) /\ GroupOf(r) \in Names
      BY <3>1, JobNames DEF GroupOf, JobOf
    <3>3. \A i \in 1..(at[r] - 1) : Jobs[r][i].name \in Names
      BY <3>1, WellFormedJobs DEF JobsWellFormed
    <3>4. \A n \in Names : groups[n].exists => groups'[n].exists
      BY DEF Effect, Grows
    <3> QED
      BY <3>1, <3>2, <3>3, <3>4 DEF GroupsIInv, GroupsInv
  <2> QED
    BY <2>1, <2>2 DEF GroupsInv
<1> QED
  BY <1>1, <1>2, OtherScript DEF GroupsIInv

\* A step within a job.
LEMMA SameJob ==
    ASSUME GroupsIInv, NEW s \in Scripts, Effect(s), Own(s), pc[s] \in Calls,
           at' = at, pc'[s] \in Calls \cup {"dead"},
           pc'[s] \in {"include", "owner", "options"} => groups'[GroupOf(s)].exists,
           Current(s)'
    PROVE  GroupsIInv'
<1>1. at'[s] \in DOMAIN Jobs[s] /\ GroupOf(s)' = GroupOf(s)
  BY DEF GroupsIInv, GroupsInv, GroupOf, JobOf
<1>2. \A i \in 1..(at'[s] - 1) : groups'[Jobs[s][i].name].exists
  <2>1. \A i \in 1..(at[s] - 1) : Jobs[s][i].name \in Names /\ groups[Jobs[s][i].name].exists
    BY <1>1, WellFormedJobs DEF JobsWellFormed, GroupsIInv, GroupsInv
  <2> QED
    BY <2>1 DEF Effect, Grows
<1>3. FinishedMet(s)'
  <2>1. SUFFICES ASSUME NEW i \in Finished(s)', Jobs[s][i].name \notin spoiled'[s]
                 PROVE  Met(Jobs[s][i])'
    BY DEF FinishedMet
  <2>2. i \in DOMAIN Jobs[s] /\ i < at[s]
    BY DEF Finished, Calls
  <2>3. i \in 1..(at[s] - 1)
    BY <1>1, <2>2, WellFormedJobs DEF JobsWellFormed
  <2> QED
    BY <2>1, <2>3, EarlierMet
<1> QED
  BY <1>1, <1>2, <1>3, OwnStep

-----------------------------------------------------------------------------
(* One lemma for each action.                                              *)

\* A step that goes to another call and keeps what has been read.
LEMMA Goes ==
    ASSUME GroupsIInv, NEW s \in Scripts, UNCHANGED <<runs, edits>>,
           NEW next \in Calls \cup Ended, GoTo(s, next), UNCHANGED <<at, detail, item>>
    PROVE  Own(s) /\ pc'[s] = next /\ at'[s] = at[s] /\ detail'[s] = detail[s]
BY DEF Own, GoTo, GroupsIInv, TypeOK

\* A script that ends within a job.
LEMMA Dies ==
    ASSUME GroupsIInv, NEW s \in Scripts, pc[s] \in Calls, Effect(s), Die(s),
           UNCHANGED <<runs, edits>>
    PROVE  GroupsIInv'
<1>1. Own(s) /\ pc'[s] = "dead" /\ at' = at
  BY Goes DEF Die, Ended
<1>2. Current(s)'
  BY <1>1 DEF Current
<1> QED
  BY <1>1, <1>2, SameJob

LEMMA StartStep ==
    ASSUME GroupsIInv, NEW s \in Scripts, Start(s)
    PROVE  GroupsIInv'
<1>1. Effect(s)
  BY Unchanging DEF Start, GroupsIInv, TypeOK
<1>2. Own(s) /\ pc'[s] = "get" /\ at'[s] = 1
  BY DEF Start, Own, GoTo, GroupsIInv, TypeOK, Calls
<1>3. at'[s] \in DOMAIN Jobs[s] /\ \A i \in 1..(at'[s] - 1) : groups'[Jobs[s][i].name].exists
  BY <1>2, WellFormedJobs DEF JobsWellFormed
<1>4. Current(s)'
  BY <1>2 DEF Current
<1>5. FinishedMet(s)'
  BY <1>2, WellFormedJobs DEF FinishedMet, Finished, JobsWellFormed, Calls
<1> QED
  BY <1>1, <1>2, <1>3, <1>4, <1>5, OwnStep

\* What has just been read is current.
LEMMA ReadStep ==
    ASSUME GroupsIInv, NEW s \in Scripts, pc[s] \in Calls, Read(s), UNCHANGED <<groups, runs, edits>>
    PROVE  GroupsIInv'
<1> DEFINE n == GroupOf(s)
<1>1. n \in Names /\ groups[n] \in Group /\ 1 \in Nat \ {0}
  BY JobAt DEF GroupsIInv, TypeOK
<1>2. Own(s) /\ pc'[s] = "include" /\ at'[s] = at[s] /\ detail'[s] = groups[n] /\ item'[s] = 1
  BY <1>1 DEF Read, GoTo, Own, GroupsIInv, TypeOK, Calls
<1>3. Effect(s)
  <2>1. Grows(s, groups')
    BY DEF Read, Grows, GroupsIInv, GroupsInv, TypeOK
  <2>2. /\ spoiled' \in [Scripts -> SUBSET Names] /\ faults' \in 0..MaxFaults
        /\ spoiled'[s] = spoiled[s] \ {n}
        /\ \A r \in Scripts \ {s} : spoiled'[r] = spoiled[r]
    BY DEF Read, GroupsIInv, TypeOK
  <2> QED
    BY <2>1, <2>2 DEF Effect, Noticed
<1>4. JobOf(s)' = JobOf(s) /\ GroupOf(s)' = n
  BY <1>2 DEF JobOf, GroupOf
<1>5. Current(s)'
  <2>1. \A k \in DOMAIN JobOf(s).includes : ~(k < item'[s])
    BY <1>2, JobAt DEF GroupsIInv
  <2> QED
    BY <1>2, <1>4, <2>1 DEF Current
<1>6. at' = at /\ groups'[n].exists /\ pc'[s] \in Calls
  BY <1>2 DEF Read, Calls
<1> QED
  BY <1>2, <1>3, <1>5, <1>6, SameJob

LEMMA GetStep ==
    ASSUME GroupsIInv, NEW s \in Scripts, Get(s)
    PROVE  GroupsIInv'
<1>1. pc[s] \in Calls /\ UNCHANGED <<groups, runs, edits>>
  BY DEF Get, Calls
<1>2. CASE Read(s)
  BY <1>1, <1>2, ReadStep
<1>3. CASE /\ IF groups[GroupOf(s)].exists THEN Fault ELSE UNCHANGED faults
           /\ GoTo(s, "create")
           /\ UNCHANGED <<at, detail, item, spoiled>>
  <2>1. Effect(s)
    BY <1>1, <1>3, Unchanging, FaultTyped DEF GroupsIInv, TypeOK
  <2>2. Own(s) /\ pc'[s] = "create" /\ at' = at
    BY <1>1, <1>3, Goes DEF Calls
  <2>3. Current(s)'
    BY <2>2 DEF Current
  <2> QED
    BY <1>1, <2>1, <2>2, <2>3, SameJob DEF Calls
<1>4. CASE Fault /\ Die(s) /\ UNCHANGED spoiled
  <2>1. Effect(s)
    BY <1>1, <1>4, Unchanging, FaultTyped DEF GroupsIInv
  <2> QED
    BY <1>1, <1>4, <2>1, Dies
<1> QED
  BY <1>2, <1>3, <1>4 DEF Get

LEMMA CreateStep ==
    ASSUME GroupsIInv, NEW s \in Scripts, Create(s)
    PROVE  GroupsIInv'
<1> DEFINE new == IF groups[GroupOf(s)].exists THEN groups
                  ELSE [groups EXCEPT ![GroupOf(s)] =
                            [NewGroup(GroupOf(s)) EXCEPT !.owner = FirstOwner(JobOf(s)),
                                                         !.visible = JobOf(s).visible]]
           C == GoTo(s, "again") /\ UNCHANGED <<at, detail, item>>
<1>1. pc[s] \in Calls /\ Put(s, new, C) /\ UNCHANGED <<runs, edits>> /\ Grows(s, new)
  BY CreateGrows DEF Create, Calls
<1>2. GroupOf(s) \in Names
  BY <1>1, JobAt DEF GroupsIInv
<1> HIDE DEF new
<1>3. Effect(s) /\ (C \/ Die(s))
  BY <1>1, <1>2, PutEffect
<1>4. CASE C
  <2>1. Own(s) /\ pc'[s] = "again" /\ at' = at
    BY <1>1, <1>4, Goes DEF Calls
  <2>2. Current(s)'
    BY <2>1 DEF Current
  <2> QED
    BY <1>1, <1>3, <2>1, <2>2, SameJob DEF Calls
<1>5. CASE Die(s)
  BY <1>1, <1>3, <1>5, Dies
<1> QED
  BY <1>3, <1>4, <1>5

LEMMA AgainStep ==
    ASSUME GroupsIInv, NEW s \in Scripts, Again(s)
    PROVE  GroupsIInv'
<1>1. pc[s] \in Calls /\ UNCHANGED <<groups, runs, edits>>
  BY DEF Again, Calls
<1>2. CASE Read(s)
  BY <1>1, <1>2, ReadStep
<1>3. CASE /\ IF groups[GroupOf(s)].exists THEN Fault ELSE UNCHANGED faults
           /\ Die(s)
           /\ UNCHANGED spoiled
  <2>1. Effect(s)
    BY <1>1, <1>3, Unchanging, FaultTyped DEF GroupsIInv, TypeOK
  <2> QED
    BY <1>1, <1>3, <2>1, Dies
<1> QED
  BY <1>2, <1>3 DEF Again

LEMMA IncludeStep ==
    ASSUME GroupsIInv, NEW s \in Scripts, Include(s)
    PROVE  GroupsIInv'
<1> DEFINE n == GroupOf(s)
           includes == JobOf(s).includes
           Skip == UNCHANGED <<groups, at, detail, spoiled, faults>>
           NextItem == item' = [item EXCEPT ![s] = @ + 1] /\ UNCHANGED pc
<1>1. /\ pc[s] = "include" /\ pc[s] \in Calls /\ UNCHANGED <<runs, edits>>
      /\ n \in Names /\ groups[n].exists
      /\ Len(includes) \in Nat /\ DOMAIN includes = 1..Len(includes)
      /\ item[s] \in Nat \ {0}
      /\ Current(s)
  BY JobAt DEF Include, Calls, GroupsIInv, GroupsInv, TypeOK
<1>2. CASE item[s] > Len(includes) /\ GoTo(s, "owner") /\ Skip /\ UNCHANGED item
  <2>1. Own(s) /\ pc'[s] = "owner" /\ at' = at /\ detail'[s] = detail[s]
    BY <1>1, <1>2, Goes DEF Calls
  <2>2. Effect(s)
    BY <1>2, Unchanging DEF GroupsIInv, TypeOK
  <2>3. JobOf(s)' = JobOf(s) /\ GroupOf(s)' = n
    BY <2>1 DEF JobOf, GroupOf
  <2>4. \A k \in DOMAIN includes : k < item[s]
    BY <1>1, <1>2
  <2>5. Current(s)'
    BY <1>1, <1>2, <2>1, <2>3, <2>4 DEF Current
  <2> QED
    BY <1>1, <1>2, <2>1, <2>2, <2>5, SameJob DEF Calls
<1>3. ASSUME NextItem, UNCHANGED <<at, detail>>
      PROVE  /\ Own(s) /\ pc'[s] = "include" /\ at' = at /\ detail'[s] = detail[s]
             /\ item'[s] = item[s] + 1
             /\ JobOf(s)' = JobOf(s) /\ GroupOf(s)' = n
  BY <1>1, <1>3 DEF Own, GroupsIInv, TypeOK, JobOf, GroupOf
<1>4. CASE /\ item[s] <= Len(includes) /\ includes[item[s]] \in detail[s].includes
           /\ NextItem /\ Skip
  <2>1. Effect(s)
    BY <1>4, Unchanging DEF GroupsIInv, TypeOK
  <2>2. \A k \in DOMAIN includes : k < item[s] + 1 => k < item[s] \/ k = item[s]
    BY <1>1
  <2>3. Current(s)'
    BY <1>1, <1>3, <1>4, <2>2 DEF Current
  <2> QED
    BY <1>1, <1>3, <1>4, <2>1, <2>3, SameJob DEF Calls
<1>5. CASE /\ item[s] <= Len(includes) /\ includes[item[s]] \notin detail[s].includes
           /\ Put(s, Included(s, includes[item[s]]), NextItem /\ UNCHANGED <<at, detail>>)
  <2> DEFINE member == includes[item[s]]
             new == Included(s, member)
             C == NextItem /\ UNCHANGED <<at, detail>>
  <2>1. item[s] \in DOMAIN includes
    BY <1>1, <1>5
  <2>2. new = [groups EXCEPT ![n].includes = @ \cup {member}]
    BY <1>1, <2>1, IncludeGrows
  <2>a. Grows(s, new)
    BY <1>1, <2>1, IncludeGrows
  <2>3. groups \in [Names -> Group]
    BY DEF GroupsIInv, TypeOK
  <2>4. Put(s, new, C) /\ n \in Names
    BY <1>1, <1>5
  <2> HIDE DEF new, C
  <2>5. /\ Effect(s)
        /\ \/ C /\ groups' = new /\ spoiled'[s] = spoiled[s]
           \/ C /\ n \in spoiled'[s]
           \/ Die(s)
    BY <2>a, <2>4, PutEffect
  <2>6. groups'[n].exists
    BY <1>1, <2>5 DEF Effect, Grows
  <2>7. CASE C /\ groups' = new /\ spoiled'[s] = spoiled[s]
    <3>1. /\ groups'[n].owner = groups[n].owner /\ groups'[n].visible = groups[n].visible
          /\ groups'[n].includes = groups[n].includes \cup {member}
      BY <1>1, <2>2, <2>3, <2>7 DEF Group
    <3>2. \A k \in DOMAIN includes : k < item[s] + 1 => k < item[s] \/ k = item[s]
      BY <1>1
    <3>3. Current(s)'
      BY <1>1, <1>3, <2>7, <3>1, <3>2 DEF Current, C
    <3> QED
      BY <1>1, <1>3, <2>5, <2>6, <2>7, <3>3, SameJob DEF C, Calls
  <2>8. CASE C /\ n \in spoiled'[s]
    <3>1. Current(s)'
      BY <1>3, <2>8 DEF Current, C
    <3> QED
      BY <1>1, <1>3, <2>5, <2>6, <2>8, <3>1, SameJob DEF C, Calls
  <2>9. CASE Die(s)
    BY <1>1, <2>5, <2>9, Dies
  <2> QED
    BY <2>5, <2>7, <2>8, <2>9
<1> QED
  BY <1>1, <1>2, <1>4, <1>5 DEF Include

LEMMA SetOwnerStep ==
    ASSUME GroupsIInv, NEW s \in Scripts, SetOwner(s)
    PROVE  GroupsIInv'
<1> DEFINE n == GroupOf(s)
           new == [groups EXCEPT ![n].owner = JobOf(s).owner]
           C == GoTo(s, "options") /\ UNCHANGED <<at, detail, item>>
           Wanted == \/ JobOf(s).sets = "always"
                     \/ JobOf(s).sets = "differing" /\ detail[s].owner # JobOf(s).owner
<1>1. /\ pc[s] = "owner" /\ pc[s] \in Calls /\ UNCHANGED <<runs, edits>>
      /\ n \in Names /\ groups[n].exists /\ groups \in [Names -> Group]
      /\ JobOf(s).sets \in {"always", "differing", "never"}
      /\ Current(s)
  BY JobAt DEF SetOwner, Calls, GroupsIInv, GroupsInv, TypeOK
<1>2. ASSUME C
      PROVE  /\ Own(s) /\ pc'[s] = "options" /\ at' = at /\ detail'[s] = detail[s]
             /\ JobOf(s)' = JobOf(s) /\ GroupOf(s)' = n
  BY <1>1, <1>2, Goes DEF Calls, JobOf, GroupOf
<1>3. CASE ~Wanted /\ C /\ UNCHANGED <<groups, spoiled, faults>>
  <2>1. Effect(s)
    BY <1>3, Unchanging DEF GroupsIInv, TypeOK
  <2>2. Current(s)'
    BY <1>1, <1>2, <1>3 DEF Current
  <2> QED
    BY <1>1, <1>2, <1>3, <2>1, <2>2, SameJob DEF Calls
<1>4. CASE Put(s, new, C)
  <2>1. Grows(s, new)
    BY <1>1, OwnerGrows
  <2> HIDE DEF new, C
  <2>2. /\ Effect(s)
        /\ \/ C /\ groups' = new /\ spoiled'[s] = spoiled[s]
           \/ C /\ n \in spoiled'[s]
           \/ Die(s)
    BY <1>1, <1>4, <2>1, PutEffect
  <2>3. groups'[n].exists
    BY <1>1, <2>2 DEF Effect, Grows
  <2>4. CASE C /\ groups' = new /\ spoiled'[s] = spoiled[s]
    <3>1. /\ groups'[n].owner = JobOf(s).owner /\ groups'[n].visible = groups[n].visible
          /\ groups'[n].includes = groups[n].includes
      BY <1>1, <2>4 DEF Group, new
    <3>2. Current(s)'
      BY <1>1, <1>2, <2>4, <3>1 DEF Current
    <3> QED
      BY <1>1, <1>2, <2>2, <2>3, <2>4, <3>2, SameJob DEF Calls
  <2>5. CASE C /\ n \in spoiled'[s]
    <3>1. Current(s)'
      BY <1>2, <2>5 DEF Current
    <3> QED
      BY <1>1, <1>2, <2>2, <2>3, <2>5, <3>1, SameJob DEF Calls
  <2>6. CASE Die(s)
    BY <1>1, <2>2, <2>6, Dies
  <2> QED
    BY <2>2, <2>4, <2>5, <2>6
<1> QED
  BY <1>3, <1>4 DEF SetOwner

\* The group of a job that ends is as it is wanted.
LEMMA NextJobStep ==
    ASSUME GroupsIInv, NEW s \in Scripts, pc[s] = "options", Effect(s), NextJob(s),
           UNCHANGED <<runs, edits>>,
           \A i \in DOMAIN Jobs[s] :
                i = at[s] /\ Jobs[s][i].name \notin spoiled'[s] => Met(Jobs[s][i])'
    PROVE  GroupsIInv'
<1>1. /\ pc[s] \in Calls /\ JobsWellFormed(s) /\ JobOf(s) = Jobs[s][at[s]]
      /\ at[s] \in 1..Len(Jobs[s]) /\ Len(Jobs[s]) \in Nat /\ DOMAIN Jobs[s] = 1..Len(Jobs[s])
  BY JobAt, WellFormedJobs DEF Calls, GroupsIInv, JobsWellFormed
<1>2. /\ Own(s) /\ at'[s] \in DOMAIN Jobs[s]
      /\ \/ pc'[s] = "done" /\ at'[s] = at[s] /\ at[s] = Len(Jobs[s])
         \/ pc'[s] = "get" /\ at'[s] = at[s] + 1
  <2>1. CASE at[s] = Len(Jobs[s])
    BY <1>1, <2>1 DEF NextJob, GoTo, Own, GroupsIInv, TypeOK, Ended
  <2>2. CASE at[s] # Len(Jobs[s])
    <3>1. at[s] + 1 \in 1..Len(Jobs[s]) /\ at[s] + 1 \in Nat \ {0}
      BY <1>1, <2>2
    <3>2. pc' = [pc EXCEPT ![s] = "get"] /\ at' = [at EXCEPT ![s] = at[s] + 1]
          /\ UNCHANGED <<detail, item>>
      BY <2>2 DEF NextJob, GoTo
    <3> QED
      BY <1>1, <3>1, <3>2 DEF Own, GroupsIInv, TypeOK, Calls
  <2> QED
    BY <2>1, <2>2
<1>3. Current(s)'
  BY <1>2 DEF Current
<1>4. \A i \in 1..(at'[s] - 1) : i \in 1..(at[s] - 1) \/ (i = at[s] /\ at'[s] = at[s] + 1)
  BY <1>1, <1>2
<1>5. \A i \in 1..(at'[s] - 1) : groups'[Jobs[s][i].name].exists
  <2>1. \A n \in Names : groups[n].exists => groups'[n].exists
    BY DEF Effect, Grows
  <2>2. GroupOf(s) \in Names /\ groups[GroupOf(s)].exists /\ GroupOf(s) = Jobs[s][at[s]].name
    BY <1>1, JobAt DEF GroupsIInv, GroupsInv, GroupOf
  <2>3. \A i \in 1..(at[s] - 1) : Jobs[s][i].name \in Names /\ groups[Jobs[s][i].name].exists
    BY <1>1 DEF JobsWellFormed, GroupsIInv, GroupsInv
  <2> QED
    BY <1>4, <2>1, <2>2, <2>3
<1>6. FinishedMet(s)'
  <2>1. SUFFICES ASSUME NEW i \in Finished(s)', Jobs[s][i].name \notin spoiled'[s]
                 PROVE  Met(Jobs[s][i])'
    BY DEF FinishedMet
  <2>2. i \in 1..(at[s] - 1) \/ i = at[s]
    BY <1>1, <1>2 DEF Finished
  <2>3. CASE i \in 1..(at[s] - 1)
    BY <1>1, <2>1, <2>3, EarlierMet
  <2>4. CASE i = at[s]
    BY <1>1, <2>1, <2>4
  <2> QED
    BY <2>2, <2>3, <2>4
<1> QED
  BY <1>2, <1>3, <1>5, <1>6, OwnStep

LEMMA SetOptionsStep ==
    ASSUME GroupsIInv, NEW s \in Scripts, SetOptions(s)
    PROVE  GroupsIInv'
<1> DEFINE n == GroupOf(s)
           new == [groups EXCEPT ![n].visible = JobOf(s).visible]
           C == NextJob(s)
           Set == detail[s].visible /\ JobOf(s).visible
<1>1. /\ pc[s] = "options" /\ pc[s] \in Calls /\ UNCHANGED <<runs, edits>>
      /\ n \in Names /\ groups[n].exists /\ groups \in [Names -> Group]
      /\ detail[s] \in Group /\ JobOf(s).visible \in BOOLEAN
      /\ Current(s)
  BY JobAt DEF SetOptions, Calls, GroupsIInv, GroupsInv, TypeOK
<1>2. n \notin spoiled[s] =>
        /\ groups[n].visible = detail[s].visible
        /\ \A k \in DOMAIN JobOf(s).includes : JobOf(s).includes[k] \in groups[n].includes
        /\ JobOf(s).sets # "never" => groups[n].owner = JobOf(s).owner
  BY <1>1 DEF Current
<1>3. ASSUME NEW i \in DOMAIN Jobs[s], i = at[s]
      PROVE  Jobs[s][i] = JobOf(s) /\ Jobs[s][i].name = n
  BY <1>3 DEF JobOf, GroupOf
<1>4. CASE Set /\ C /\ UNCHANGED <<groups, spoiled, faults>>
  <2>1. Effect(s)
    BY <1>4, Unchanging DEF GroupsIInv, TypeOK
  <2>2. ASSUME NEW i \in DOMAIN Jobs[s], i = at[s], Jobs[s][i].name \notin spoiled'[s]
        PROVE  Met(Jobs[s][i])'
    <3>1. Jobs[s][i] = JobOf(s) /\ Jobs[s][i].name = n /\ n \notin spoiled[s]
      BY <1>3, <1>4, <2>2
    <3>2. groups'[n].visible = JobOf(s).visible
      BY <1>2, <1>4, <3>1
    <3> QED
      BY <1>1, <1>2, <1>4, <3>1, <3>2 DEF Met
  <2> QED
    BY <1>1, <1>4, <2>1, <2>2, NextJobStep
<1>5. CASE Put(s, new, C)
  <2>1. Grows(s, new)
    BY <1>1, OptionsGrows
  <2> HIDE DEF new, C
  <2>2. /\ Effect(s)
        /\ \/ C /\ groups' = new /\ spoiled'[s] = spoiled[s]
           \/ C /\ n \in spoiled'[s]
           \/ Die(s)
    BY <1>1, <1>5, <2>1, PutEffect
  <2>3. CASE C /\ groups' = new /\ spoiled'[s] = spoiled[s]
    <3>1. /\ groups'[n].owner = groups[n].owner /\ groups'[n].visible = JobOf(s).visible
          /\ groups'[n].includes = groups[n].includes /\ groups'[n].exists
      BY <1>1, <2>3 DEF Group, new
    <3>2. ASSUME NEW i \in DOMAIN Jobs[s], i = at[s], Jobs[s][i].name \notin spoiled'[s]
          PROVE  Met(Jobs[s][i])'
      <4>1. Jobs[s][i] = JobOf(s) /\ Jobs[s][i].name = n /\ n \notin spoiled[s]
        BY <1>3, <2>3, <3>2
      <4> QED
        BY <1>2, <3>1, <4>1 DEF Met
    <3> QED
      BY <1>1, <2>2, <2>3, <3>2, NextJobStep DEF C
  <2>4. CASE C /\ n \in spoiled'[s]
    <3>1. ASSUME NEW i \in DOMAIN Jobs[s], i = at[s], Jobs[s][i].name \notin spoiled'[s]
          PROVE  Met(Jobs[s][i])'
      BY <1>3, <2>4, <3>1
    <3> QED
      BY <1>1, <2>2, <2>4, <3>1, NextJobStep DEF C
  <2>5. CASE Die(s)
    BY <1>1, <2>2, <2>5, Dies
  <2> QED
    BY <2>2, <2>3, <2>4, <2>5
<1> QED
  BY <1>4, <1>5 DEF SetOptions

\* An edit spoils the group for all scripts.
LEMMA EditStep ==
    ASSUME GroupsIInv, Edit
    PROVE  GroupsIInv'
<1>0. PICK n \in Names :
        /\ groups[n].exists
        /\ \E g \in Edited(groups[n]) :
             /\ groups' = [groups EXCEPT ![n] = g]
             /\ spoiled' = [s \in Scripts |-> spoiled[s] \cup {n}]
  BY DEF Edit
<1>1. PICK g \in Edited(groups[n]) :
        /\ groups[n].exists
        /\ groups' = [groups EXCEPT ![n] = g]
        /\ spoiled' = [s \in Scripts |-> spoiled[s] \cup {n}]
  BY <1>0
<1>2. /\ groups \in [Names -> Group] /\ groups[n] \in Group
      /\ UNCHANGED <<pc, at, detail, item, runs, faults>>
  BY DEF GroupsIInv, TypeOK, Edit
<1>3. g \in Group /\ g.exists
  <2>1. Outside \subseteq Names
    BY DEF Names
  <2> DEFINE h == groups[n]
  <2>2. \/ \E m \in Names : g = [h EXCEPT !.includes = @ \cup {m}]
        \/ \E m \in Names : g = [h EXCEPT !.includes = @ \ {m}]
        \/ \E m \in Owners : g = [h EXCEPT !.owner = m]
        \/ g = [h EXCEPT !.visible = ~@]
    BY <1>1, <2>1 DEF Edited
  <2>3. h \in Group /\ h.exists
    BY <1>1, <1>2
  <2> HIDE DEF h
  <2>4. CASE \E m \in Names : g = [h EXCEPT !.includes = @ \cup {m}]
    BY <2>3, <2>4 DEF Group
  <2>5. CASE \E m \in Names : g = [h EXCEPT !.includes = @ \ {m}]
    BY <2>3, <2>5 DEF Group
  <2>6. CASE \E m \in Owners : g = [h EXCEPT !.owner = m]
    BY <2>3, <2>6 DEF Group
  <2>7. CASE g = [h EXCEPT !.visible = ~@]
    BY <2>3, <2>7 DEF Group
  <2> QED
    BY <2>2, <2>4, <2>5, <2>6, <2>7
<1>4. edits' \in 0..MaxEdits
  BY GroupsAssumption DEF Edit, GroupsIInv, TypeOK
<1>5. TypeOK'
  BY <1>1, <1>2, <1>3, <1>4 DEF GroupsIInv, TypeOK
<1>6. \A m \in Names : groups[m].exists => groups'[m].exists
  BY <1>1, <1>2, <1>3
<1>7. \A s \in Scripts : JobsWellFormed(s) /\ at[s] \in DOMAIN Jobs[s]
  BY WellFormedJobs DEF GroupsIInv, GroupsInv
<1>8. \A s \in Scripts : GroupOf(s)' = GroupOf(s) /\ JobOf(s)' = JobOf(s) /\ GroupOf(s) \in Names
  BY <1>2, <1>7 DEF GroupOf, JobOf, JobsWellFormed
<1>9. GroupsInv'
  <2>1. \A m \in Outside : groups'[m].exists
    BY <1>6 DEF GroupsIInv, GroupsInv, Names
  <2>2. \A m \in Names : ~groups'[m].exists => groups'[m].includes = {}
    BY <1>1, <1>2, <1>3 DEF GroupsIInv, GroupsInv
  <2>3. ASSUME NEW s \in Scripts
        PROVE  \A i \in 1..(at[s] - 1) : groups'[Jobs[s][i].name].exists
    <3>1. \A i \in 1..(at[s] - 1) : Jobs[s][i].name \in Names /\ groups[Jobs[s][i].name].exists
      BY <1>7 DEF JobsWellFormed, GroupsIInv, GroupsInv
    <3> QED
      BY <1>6, <3>1
  <2>4. ASSUME NEW s \in Scripts, pc[s] \in {"include", "owner", "options"}
        PROVE  groups'[GroupOf(s)].exists
    BY <1>6, <1>8, <2>4 DEF GroupsIInv, GroupsInv
  <2> QED
    BY <1>2, <1>7, <1>8, <2>1, <2>2, <2>3, <2>4 DEF GroupsInv
<1>10. ASSUME NEW s \in Scripts
       PROVE  \A m \in Names : m \notin spoiled'[s] => m \notin spoiled[s] /\ groups'[m] = groups[m]
  BY <1>1, <1>2
<1>11. ASSUME NEW s \in Scripts
       PROVE  Current(s)'
  <2>1. SUFFICES ASSUME GroupOf(s) \notin spoiled'[s]
                 PROVE  Current(s)'
    BY <1>8 DEF Current
  <2>2. GroupOf(s) \notin spoiled[s] /\ groups'[GroupOf(s)] = groups[GroupOf(s)]
    BY <1>8, <1>10, <2>1
  <2>3. Current(s)
    BY DEF GroupsIInv
  <2> QED
    BY <1>2, <1>8, <2>2, <2>3 DEF Current
<1>12. ASSUME NEW s \in Scripts
       PROVE  FinishedMet(s)'
  <2>1. Finished(s)' = Finished(s)
    BY <1>2 DEF Finished
  <2>2. SUFFICES ASSUME NEW i \in Finished(s), Jobs[s][i].name \notin spoiled'[s]
                 PROVE  Met(Jobs[s][i])'
    BY <2>1 DEF FinishedMet
  <2>3. Jobs[s][i].name \in Names
    BY <1>7 DEF Finished, JobsWellFormed
  <2>4. Jobs[s][i].name \notin spoiled[s] /\ groups'[Jobs[s][i].name] = groups[Jobs[s][i].name]
    BY <1>10, <2>2, <2>3
  <2>5. Met(Jobs[s][i])
    BY <2>4 DEF GroupsIInv, FinishedMet
  <2> QED
    BY <2>4, <2>5 DEF Met
<1> QED
  BY <1>5, <1>9, <1>11, <1>12 DEF GroupsIInv

LEMMA ScriptStep ==
    ASSUME GroupsIInv, NEW s \in Scripts, Script(s)
    PROVE  GroupsIInv'
BY StartStep, GetStep, CreateStep, AgainStep, IncludeStep, SetOwnerStep, SetOptionsStep DEF Script

LEMMA GroupsStep == GroupsIInv /\ [Next]_vars => GroupsIInv'
<1> SUFFICES ASSUME GroupsIInv, [Next]_vars PROVE GroupsIInv'
  OBVIOUS
<1>1. CASE UNCHANGED vars
  BY <1>1 DEF vars, GroupsIInv, TypeOK, GroupsInv, Current, FinishedMet, Finished, Met, JobOf, GroupOf
<1>2. CASE Edit
  BY <1>2, EditStep
<1>3. CASE \E s \in Scripts : Script(s)
  BY <1>3, ScriptStep
<1> QED
  BY <1>1, <1>2, <1>3 DEF Next

LEMMA GroupsInit == Init => GroupsIInv
<1> SUFFICES ASSUME Init PROVE GroupsIInv
  OBVIOUS
<1>1. TypeOK
  BY TypeInit
<1>2. GroupsInv
  <2>1. Outside \subseteq Names
    BY DEF Names
  <2>2. \A n \in Names : /\ groups[n].exists <=> n \in Outside
                         /\ groups[n].includes = {}
    BY DEF Init, NoGroup, NewGroup
  <2>3. \A s \in Scripts : at[s] = 1 /\ pc[s] = "idle"
    BY DEF Init
  <2>4. \A s \in Scripts : 1 \in DOMAIN Jobs[s] /\ 1..(1 - 1) = {}
    BY WellFormedJobs DEF JobsWellFormed
  <2> QED
    BY <2>1, <2>2, <2>3, <2>4 DEF GroupsInv
<1>3. ASSUME NEW s \in Scripts
      PROVE  Current(s) /\ FinishedMet(s)
  BY DEF Init, Current, FinishedMet, Finished, Calls
<1> QED
  BY <1>1, <1>2, <1>3 DEF GroupsIInv

LEMMA PutKeeps ==
    ASSUME NEW s \in Scripts, NEW new, Grows(s, new), NEW ACTION C, Put(s, new, C)
    PROVE  \A n \in Names : groups[n].includes \subseteq groups'[n].includes
<1>1. groups' \in {groups, new}
  BY Zenon DEF Put
<1> QED
  BY <1>1 DEF Grows

LEMMA ScriptKeeps ==
    ASSUME GroupsIInv, NEW s \in Scripts, Script(s)
    PROVE  \A n \in Names : groups[n].includes \subseteq groups'[n].includes
<1>1. CASE Start(s) \/ Get(s) \/ Again(s)
  BY <1>1 DEF Start, Get, Again
<1>2. CASE Create(s)
  <2> DEFINE new == IF groups[GroupOf(s)].exists THEN groups
                    ELSE [groups EXCEPT ![GroupOf(s)] =
                            [NewGroup(GroupOf(s)) EXCEPT !.owner = FirstOwner(JobOf(s)),
                                                         !.visible = JobOf(s).visible]]
             C == GoTo(s, "again") /\ UNCHANGED <<at, detail, item>>
  <2>1. Put(s, new, C) /\ Grows(s, new)
    BY <1>2, CreateGrows DEF Create
  <2> HIDE DEF new, C
  <2> QED
    BY <2>1, PutKeeps
<1>3. CASE Include(s)
  <2> DEFINE includes == JobOf(s).includes
             new == Included(s, includes[item[s]])
             NextItem == item' = [item EXCEPT ![s] = @ + 1] /\ UNCHANGED pc
             C == NextItem /\ UNCHANGED <<at, detail>>
  <2>1. UNCHANGED groups \/ (Put(s, new, C) /\ item[s] <= Len(includes))
    <3>1. /\ pc[s] \in Calls /\ item[s] \in Nat \ {0} /\ Len(includes) \in Nat
      BY <1>3, JobAt DEF Include, Calls, GroupsIInv, TypeOK
    <3> QED
      BY <1>3, <3>1 DEF Include
  <2>2. CASE UNCHANGED groups
    BY <2>2
  <2>3. CASE Put(s, new, C) /\ item[s] <= Len(includes)
    <3>1. pc[s] = "include" /\ item[s] \in DOMAIN includes
      BY <1>3, <2>3, JobAt DEF Include, Calls, GroupsIInv, TypeOK
    <3>2. Grows(s, new)
      BY <3>1, IncludeGrows
    <3> HIDE DEF new, C
    <3> QED
      BY <2>3, <3>2, PutKeeps
  <2> QED
    BY <2>1, <2>2, <2>3
<1>4. CASE SetOwner(s)
  <2> DEFINE new == [groups EXCEPT ![GroupOf(s)].owner = JobOf(s).owner]
             C == GoTo(s, "options") /\ UNCHANGED <<at, detail, item>>
  <2>1. UNCHANGED groups \/ Put(s, new, C)
    BY <1>4 DEF SetOwner
  <2>2. Grows(s, new)
    BY <1>4, OwnerGrows DEF SetOwner
  <2> HIDE DEF new, C
  <2> QED
    BY <2>1, <2>2, PutKeeps
<1>5. CASE SetOptions(s)
  <2> DEFINE new == [groups EXCEPT ![GroupOf(s)].visible = JobOf(s).visible]
             C == NextJob(s)
  <2>1. UNCHANGED groups \/ Put(s, new, C)
    BY <1>5 DEF SetOptions
  <2>2. Grows(s, new)
    BY <1>5, OptionsGrows DEF SetOptions
  <2> HIDE DEF new, C
  <2> QED
    BY <2>1, <2>2, PutKeeps
<1> QED
  BY <1>1, <1>2, <1>3, <1>4, <1>5 DEF Script

-----------------------------------------------------------------------------

\* The invariant of InfraGroups: what each script knows of the group it is at,
\* and that those before it are as they are wanted.
THEOREM GroupsInvariant == Spec => []GroupsIInv
BY GroupsInit, GroupsStep, PTL DEF Spec

\* Groups have the members, owners and options of their types, and a script is
\* at one of its jobs, whatever the lists of projects and jobs.
THEOREM GroupsTypeCorrect == Spec => []TypeOK
<1>1. GroupsIInv => TypeOK
  BY DEF GroupsIInv
<1> QED
  BY <1>1, GroupsInvariant, PTL

\* maintain-infra-groups.py and update-gerrit-group.py leave every group of a
\* job that is done as it is wanted, unless a call for it failed or another has
\* changed it since.
THEOREM GroupsConfigured == Spec => []Configured
<1>1. GroupsIInv => Configured
  BY DEF GroupsIInv, FinishedMet, Configured
<1> QED
  BY <1>1, GroupsInvariant, PTL

\* No call of the scripts takes anybody out of a group.
THEOREM NobodyIsDropped == Spec => NobodyDropped
<1>1. GroupsIInv /\ [Next]_vars =>
        [edits' = edits => \A n \in Names : groups[n].includes \subseteq groups'[n].includes]_vars
  <2> SUFFICES ASSUME GroupsIInv, [Next]_vars, edits' = edits
               PROVE  \A n \in Names : groups[n].includes \subseteq groups'[n].includes
    OBVIOUS
  <2>1. CASE UNCHANGED vars
    BY <2>1 DEF vars
  <2>2. CASE Edit
    <3>1. edits' = edits + 1 /\ edits \in Nat
      BY <2>2 DEF Edit, GroupsIInv, TypeOK
    <3> QED
      BY <3>1
  <2>3. CASE \E s \in Scripts : Script(s)
    BY <2>3, ScriptKeeps
  <2> QED
    BY <2>1, <2>2, <2>3 DEF Next
<1> QED
  BY <1>1, GroupsInvariant, PTL DEF Spec, NobodyDropped

-----------------------------------------------------------------------------
(* GerritSpam: the transaction.                                            *)

\* Rows of others are written in the order of the threads; what is deleted is
\* spam that was there, and, but for late comments, was selected; what is
\* unparented replies to spam.
RowsInv ==
    /\ \A u \in Uuids :
        LET row == written.comments[u]
        IN  row.there /\ row.parent # 0 => row.parent \in Uuids /\ written.comments[row.parent].there
    /\ potential_parents \subseteq By(written.comments, Spammer)
    /\ deleted \subseteq By(written.comments, Spammer)
    /\ deleted \ potential_parents \subseteq late
    /\ unparented \subseteq RepliesTo(written.comments, potential_parents) \ deleted
    /\ expunged \subseteq By(written.messages, Spammer)

\* What has been selected is still as it was.
SnapshotInv ==
    /\ place \notin {"start", "committed", "dead"} =>
        /\ \A u \in Uuids \ late : snapshot.comments[u] = written.comments[u]
        /\ potential_parents = By(snapshot.comments, Spammer)
    /\ place # "start" =>
        \A m \in MessageIds :
            snapshot.messages[m].there => written.messages[m] = snapshot.messages[m]

\* How far a run with --delete has come at each place, and that one without it
\* does nothing.
ProgressInv ==
    /\ place = "start" => potential_parents = {} /\ deleted = {} /\ unparented = {} /\ expunged = {}
    /\ place \in {"delete comments", "unparent", "delete messages"} => delete
    /\ place \in {"delete comments", "select children", "unparent"} => unparented = {}
    /\ ~delete => deleted = {} /\ unparented = {} /\ expunged = {}
    /\ delete /\ place \notin {"start", "delete comments", "dead"} => potential_parents \subseteq deleted
    /\ delete /\ place \in {"select messages", "delete messages", "commit", "committed"} =>
        RepliesTo(written.comments, potential_parents) \subseteq late \cup deleted \cup unparented
    /\ delete /\ place \in {"commit", "committed"} => By(snapshot.messages, Spammer) \subseteq expunged

\* The tables before and after the commit.
TablesInv ==
    IF place = "committed"
    THEN /\ \A u \in Uuids :
             comments[u] = IF u \in deleted THEN [written.comments[u] EXCEPT !.there = FALSE]
                           ELSE IF u \in unparented THEN [written.comments[u] EXCEPT !.parent = 0]
                           ELSE written.comments[u]
         /\ \A m \in MessageIds :
             messages[m] = IF m \in expunged THEN [written.messages[m] EXCEPT !.there = FALSE]
                           ELSE written.messages[m]
    ELSE Tables = written

SpamInv == SpamTypeOK /\ RowsInv /\ SnapshotInv /\ ProgressInv /\ TablesInv


LEMMA SpamStart == SpamInit => SpamInv
BY SpamAssumption DEF SpamInit, SpamInv, SpamTypeOK, RowsInv, SnapshotInv, ProgressInv, TablesInv,
    Tables, By, RepliesTo, NoRow, Comments, Messages, Places, Uuids, MessageIds

LEMMA CommentStep ==
    ASSUME SpamInv, NEW u \in Uuids, NEW author \in Authors, NEW parent \in 0..(u - 1),
           Comment(u, author, parent)
    PROVE  SpamInv'
<1> DEFINE row == [there |-> TRUE, author |-> author, parent |-> parent]
<1> USE SpamAssumption DEF SpamInv, Uuids, MessageIds
<1>1. /\ row \in [there : BOOLEAN, author : Authors, parent : 0..MaxComments]
      /\ u \notin potential_parents /\ u \notin deleted /\ u \notin unparented
      /\ ~written.comments[u].there
      /\ parent # 0 => parent \in Uuids /\ comments[parent].there
  BY DEF Comment, RowsInv, By, RepliesTo
<1>2. /\ comments' = [comments EXCEPT ![u] = row]
      /\ written'.comments = [written.comments EXCEPT ![u] = row]
      /\ written'.messages = written.messages
      /\ written' = [comments |-> written'.comments, messages |-> written'.messages]
  BY DEF Comment, SpamTypeOK
<1>3. SpamTypeOK'
  <2>1. comments' \in Comments /\ written'.comments \in Comments /\ written'.messages \in Messages
    BY <1>1, <1>2 DEF SpamTypeOK, Comments
  <2>2. written' \in [comments : Comments, messages : Messages]
    BY <1>2, <2>1
  <2>3. late' \in SUBSET Uuids
    BY DEF Comment, SpamTypeOK
  <2> QED
    BY <2>1, <2>2, <2>3 DEF Comment, SpamTypeOK, read, pending
<1>4. RowsInv'
  <2>1. \A v \in Uuids : written.comments[v].there => v # u /\ written'.comments[v] = written.comments[v]
    BY <1>1, <1>2 DEF SpamTypeOK, Comments
  <2>2. parent # 0 => written.comments[parent].there
    <3>1. CASE place = "committed"
      BY <1>1, <3>1 DEF TablesInv, SpamTypeOK, Comments
    <3>2. CASE place # "committed"
      BY <1>1, <3>2 DEF TablesInv, Tables
    <3> QED
      BY <3>1, <3>2
  <2> QED
    BY <1>1, <1>2, <2>1, <2>2 DEF RowsInv, SpamTypeOK, Comments, Comment, read, pending, By, RepliesTo
<1>5. SnapshotInv'
  BY <1>1, <1>2 DEF SnapshotInv, SpamTypeOK, Comments, Comment, read, pending
<1>6. ProgressInv'
  <2>1. RepliesTo(written'.comments, potential_parents) \subseteq
            RepliesTo(written.comments, potential_parents) \cup {u}
    BY <1>2 DEF RepliesTo, SpamTypeOK, Comments
  <2>2. CASE place \in {"start", "committed", "dead"}
    <3>1. ASSUME delete, place = "committed" PROVE parent \notin potential_parents
      BY <1>1, <3>1 DEF ProgressInv, TablesInv, RowsInv, By, SpamTypeOK, Comments
    <3>2. place = "committed" /\ delete => u \notin RepliesTo(written'.comments, potential_parents)
      BY <1>2, <3>1 DEF RepliesTo, SpamTypeOK, Comments
    <3> QED
      BY <2>1, <2>2, <3>2 DEF ProgressInv, Comment, read, pending
  <2>3. CASE place \notin {"start", "committed", "dead"}
    BY <2>1, <2>3 DEF ProgressInv, Comment, read, pending
  <2> QED
    BY <2>2, <2>3
<1>7. TablesInv'
  <2>1. CASE place = "committed"
    <3>1. written'.comments[u] = row /\ comments'[u] = row
      BY <1>2 DEF SpamTypeOK, Comments
    <3>2. \A v \in Uuids \ {u} : written'.comments[v] = written.comments[v] /\ comments'[v] = comments[v]
      BY <1>2 DEF SpamTypeOK, Comments
    <3> HIDE DEF row
    <3>3. /\ place' = place /\ deleted' = deleted /\ unparented' = unparented
          /\ expunged' = expunged /\ messages' = messages
      BY DEF Comment, read, pending
    <3>4. ASSUME NEW v \in Uuids
          PROVE  comments'[v] = IF v \in deleted' THEN [written'.comments[v] EXCEPT !.there = FALSE]
                                ELSE IF v \in unparented' THEN [written'.comments[v] EXCEPT !.parent = 0]
                                ELSE written'.comments[v]
      <4>1. CASE v = u
        BY <1>1, <3>1, <3>3, <4>1, Zenon
      <4>2. CASE v # u
        BY <2>1, <3>2, <3>3, <4>2 DEF TablesInv
      <4> QED
        BY <4>1, <4>2
    <3>5. \A m \in MessageIds :
            messages'[m] = IF m \in expunged' THEN [written'.messages[m] EXCEPT !.there = FALSE]
                           ELSE written'.messages[m]
      BY <1>2, <2>1, <3>3 DEF TablesInv
    <3> QED
      BY <2>1, <3>3, <3>4, <3>5 DEF TablesInv
  <2>2. CASE place # "committed"
    <3>1. comments' = written'.comments /\ messages' = written'.messages
      <4>1. comments = written.comments /\ messages = written.messages
        BY <2>2 DEF TablesInv, Tables
      <4> QED
        BY <1>2, <4>1 DEF Comment
    <3> QED
      BY <1>2, <2>2, <3>1 DEF TablesInv, Tables, Comment, read, pending
  <2> QED
    BY <2>1, <2>2
<1> QED
  BY <1>3, <1>4, <1>5, <1>6, <1>7

LEMMA MessageStep ==
    ASSUME SpamInv, NEW m \in MessageIds, NEW author \in Authors, Message(m, author)
    PROVE  SpamInv'
<1> DEFINE row == [there |-> TRUE, author |-> author, parent |-> 0]
<1> USE SpamAssumption DEF SpamInv, Uuids, MessageIds
<1>1. m \notin expunged /\ ~written.messages[m].there
  BY DEF Message, RowsInv, By
<1>2. /\ messages' = [messages EXCEPT ![m] = row]
      /\ written'.messages = [written.messages EXCEPT ![m] = row]
      /\ written'.comments = written.comments
      /\ written' = [comments |-> written'.comments, messages |-> written'.messages]
  BY DEF Message, SpamTypeOK
<1>3. SpamTypeOK'
  <2>1. messages' \in Messages /\ written'.comments \in Comments /\ written'.messages \in Messages
    BY <1>1, <1>2 DEF SpamTypeOK, Messages
  <2>2. written' \in [comments : Comments, messages : Messages]
    BY <1>2, <2>1
  <2> QED
    BY <2>1, <2>2 DEF Message, SpamTypeOK, read, pending
<1>4. RowsInv'
  BY <1>1, <1>2 DEF RowsInv, SpamTypeOK, Messages, Message, read, pending, By, RepliesTo
<1>5. SnapshotInv'
  BY <1>1, <1>2 DEF SnapshotInv, SpamTypeOK, Messages, Message, read, pending
<1>6. ProgressInv'
  BY <1>1, <1>2 DEF ProgressInv, SpamTypeOK, Messages, Message, read, pending, By, RepliesTo
<1>7. TablesInv'
  <2>1. CASE place = "committed"
    BY <1>1, <1>2, <2>1 DEF TablesInv, SpamTypeOK, Messages, Message, read, pending
  <2>2. CASE place # "committed"
    <3>1. comments' = written'.comments /\ messages' = written'.messages
      <4>1. comments = written.comments /\ messages = written.messages
        BY <2>2 DEF TablesInv, Tables
      <4> QED
        BY <1>2, <4>1 DEF Message
    <3> QED
      BY <1>2, <2>2, <3>1 DEF TablesInv, Tables, Message, read, pending
  <2> QED
    BY <2>1, <2>2
<1> QED
  BY <1>3, <1>4, <1>5, <1>6, <1>7

\* Before the commit the script reads what gerrit has written.
LEMMA TransactionStep ==
    ASSUME SpamInv, Transaction
    PROVE  SpamInv'
<1> USE SpamAssumption DEF SpamInv, Uuids, MessageIds, tables, read, pending
<1>0. place # "committed" => comments = written.comments /\ messages = written.messages
  BY DEF TablesInv, Tables
<1>1. CASE SelectComments
  <2>1. SpamTypeOK'
    BY <1>0, <1>1 DEF SelectComments, SpamTypeOK, Tables, Places, By, RepliesTo, Comments, Messages
  <2>2. RowsInv'
    BY <1>0, <1>1 DEF SelectComments, RowsInv, ProgressInv, SpamTypeOK, By, RepliesTo, Comments, Messages
  <2>3. SnapshotInv'
    BY <1>0, <1>1 DEF SelectComments, SnapshotInv, ProgressInv, SpamTypeOK, Tables
  <2>4. ProgressInv'
    BY <1>0, <1>1 DEF SelectComments, ProgressInv, RowsInv, SnapshotInv, SpamTypeOK, By, RepliesTo, Tables, Comments, Messages
  <2>5. TablesInv'
    BY <1>0, <1>1 DEF SelectComments, TablesInv, Tables, SpamTypeOK, Comments, Messages
  <2> QED
    BY <2>1, <2>2, <2>3, <2>4, <2>5
<1>2. CASE DeleteComments
  <2>1. SpamTypeOK'
    BY <1>0, <1>2 DEF DeleteComments, SpamTypeOK, Tables, Places, By, RepliesTo, Comments, Messages
  <2>2. RowsInv'
    <3>1. deleted' = By(written.comments, Spammer) /\ unparented = {}
      BY <1>0, <1>2 DEF DeleteComments, ProgressInv
    <3>2. \A u \in By(written.comments, Spammer) \ late : u \in By(snapshot.comments, Spammer)
      BY <1>2 DEF DeleteComments, SnapshotInv, SpamTypeOK, By, Comments
    <3> QED
      BY <1>2, <3>1, <3>2 DEF DeleteComments, RowsInv, SnapshotInv
  <2>3. SnapshotInv'
    BY <1>0, <1>2 DEF DeleteComments, SnapshotInv, ProgressInv, SpamTypeOK, Tables
  <2>4. ProgressInv'
    BY <1>0, <1>2 DEF DeleteComments, ProgressInv, RowsInv
  <2>5. TablesInv'
    BY <1>0, <1>2 DEF DeleteComments, TablesInv, Tables, SpamTypeOK, Comments, Messages
  <2> QED
    BY <2>1, <2>2, <2>3, <2>4, <2>5
<1>3. CASE SelectChildren
  <2>1. SpamTypeOK'
    BY <1>0, <1>3 DEF SelectChildren, SpamTypeOK, Tables, Places, By, RepliesTo, Comments, Messages
  <2>2. RowsInv'
    BY <1>0, <1>3 DEF SelectChildren, RowsInv, ProgressInv, SpamTypeOK, By, RepliesTo, Comments, Messages
  <2>3. SnapshotInv'
    BY <1>0, <1>3 DEF SelectChildren, SnapshotInv, ProgressInv, SpamTypeOK, Tables
  <2>4. ProgressInv'
    <3>1. \A u \in RepliesTo(written.comments, potential_parents) \ late :
            u \in RepliesTo(snapshot.comments, potential_parents)
      BY <1>3 DEF SelectChildren, SnapshotInv, SpamTypeOK, RepliesTo, Comments
    <3> QED
      BY <1>3, <3>1 DEF SelectChildren, ProgressInv
  <2>5. TablesInv'
    BY <1>0, <1>3 DEF SelectChildren, TablesInv, Tables, SpamTypeOK, Comments, Messages
  <2> QED
    BY <2>1, <2>2, <2>3, <2>4, <2>5
<1>4. CASE Unparent
  <2>1. SpamTypeOK'
    BY <1>0, <1>4 DEF Unparent, SpamTypeOK, Tables, Places, By, RepliesTo, Comments, Messages
  <2>2. RowsInv'
    BY <1>0, <1>4 DEF Unparent, RowsInv, ProgressInv, SpamTypeOK, By, RepliesTo, Comments, Messages
  <2>3. SnapshotInv'
    BY <1>0, <1>4 DEF Unparent, SnapshotInv, ProgressInv, SpamTypeOK, Tables
  <2>4. ProgressInv'
    BY <1>0, <1>4 DEF Unparent, ProgressInv
  <2>5. TablesInv'
    BY <1>0, <1>4 DEF Unparent, TablesInv, Tables, SpamTypeOK, Comments, Messages
  <2> QED
    BY <2>1, <2>2, <2>3, <2>4, <2>5
<1>5. CASE SelectMessages
  <2>1. SpamTypeOK'
    BY <1>0, <1>5 DEF SelectMessages, SpamTypeOK, Tables, Places, By, RepliesTo, Comments, Messages
  <2>2. RowsInv'
    BY <1>0, <1>5 DEF SelectMessages, RowsInv, ProgressInv, SpamTypeOK, By, RepliesTo, Comments, Messages
  <2>3. SnapshotInv'
    BY <1>0, <1>5 DEF SelectMessages, SnapshotInv, ProgressInv, SpamTypeOK, Tables
  <2>4. ProgressInv'
    BY <1>0, <1>5 DEF SelectMessages, ProgressInv, RowsInv, SnapshotInv, SpamTypeOK, By, RepliesTo, Tables, Comments, Messages
  <2>5. TablesInv'
    BY <1>0, <1>5 DEF SelectMessages, TablesInv, Tables, SpamTypeOK, Comments, Messages
  <2> QED
    BY <2>1, <2>2, <2>3, <2>4, <2>5
<1>6. CASE DeleteMessages
  <2>1. SpamTypeOK'
    BY <1>0, <1>6 DEF DeleteMessages, SpamTypeOK, Tables, Places, By, RepliesTo, Comments, Messages
  <2>2. RowsInv'
    BY <1>0, <1>6 DEF DeleteMessages, RowsInv, ProgressInv, SpamTypeOK, By, RepliesTo, Comments, Messages
  <2>3. SnapshotInv'
    BY <1>0, <1>6 DEF DeleteMessages, SnapshotInv, ProgressInv, SpamTypeOK, Tables
  <2>4. ProgressInv'
    <3>1. By(snapshot.messages, Spammer) \subseteq By(messages, Spammer)
      BY <1>0, <1>6 DEF DeleteMessages, SnapshotInv, SpamTypeOK, By, Messages
    <3> QED
      BY <1>6, <3>1 DEF DeleteMessages, ProgressInv
  <2>5. TablesInv'
    BY <1>0, <1>6 DEF DeleteMessages, TablesInv, Tables, SpamTypeOK, Comments, Messages
  <2> QED
    BY <2>1, <2>2, <2>3, <2>4, <2>5
<1>7. CASE Commit
  <2>1. SpamTypeOK'
    <3>1. comments' \in Comments
      <4> DEFINE Row == [there : BOOLEAN, author : Authors, parent : 0..MaxComments]
      <4>1. ASSUME NEW u \in Uuids
            PROVE  /\ comments[u] \in Row
                   /\ [comments[u] EXCEPT !.there = FALSE] \in Row
                   /\ [comments[u] EXCEPT !.parent = 0] \in Row
        <5>1. comments[u] \in Row
          BY DEF SpamTypeOK, Comments
        <5>2. 0 \in 0..MaxComments
          OBVIOUS
        <5> QED
          BY <5>1, <5>2
      <4>2. Comments = [Uuids -> Row]
        BY DEF Comments
      <4> HIDE DEF Row
      <4> QED
        BY <1>7, <4>1, <4>2 DEF Commit
    <3>2. messages' \in Messages
      BY <1>7 DEF Commit, SpamTypeOK, Messages
    <3> QED
      BY <1>7, <3>1, <3>2 DEF Commit, SpamTypeOK, Places
  <2>2. RowsInv'
    BY <1>0, <1>7 DEF Commit, RowsInv, ProgressInv, SpamTypeOK, By, RepliesTo, Comments, Messages
  <2>3. SnapshotInv'
    BY <1>0, <1>7 DEF Commit, SnapshotInv, ProgressInv, SpamTypeOK, Tables
  <2>4. ProgressInv'
    BY <1>0, <1>7 DEF Commit, ProgressInv, RowsInv, SnapshotInv, SpamTypeOK, By, RepliesTo, Tables, Comments, Messages
  <2>5. TablesInv'
    BY <1>0, <1>7 DEF Commit, TablesInv, Tables, SpamTypeOK, Comments, Messages
  <2> QED
    BY <2>1, <2>2, <2>3, <2>4, <2>5
<1>8. CASE Rollback
  <2>1. SpamTypeOK'
    BY <1>0, <1>8 DEF Rollback, SpamTypeOK, Tables, Places, By, RepliesTo, Comments, Messages
  <2>2. RowsInv'
    BY <1>0, <1>8 DEF Rollback, RowsInv, ProgressInv, SpamTypeOK, By, RepliesTo, Comments, Messages
  <2>3. SnapshotInv'
    BY <1>0, <1>8 DEF Rollback, SnapshotInv, ProgressInv, SpamTypeOK, Tables
  <2>4. ProgressInv'
    BY <1>0, <1>8 DEF Rollback, ProgressInv, RowsInv, SnapshotInv, SpamTypeOK, By, RepliesTo, Tables, Comments, Messages
  <2>5. TablesInv'
    BY <1>0, <1>8 DEF Rollback, TablesInv, Tables, SpamTypeOK, Comments, Messages
  <2> QED
    BY <2>1, <2>2, <2>3, <2>4, <2>5
<1> QED
  BY <1>1, <1>2, <1>3, <1>4, <1>5, <1>6, <1>7, <1>8 DEF Transaction

LEMMA SpamStep == SpamInv /\ [SpamNext]_spamVars => SpamInv'
<1> SUFFICES ASSUME SpamInv, [SpamNext]_spamVars PROVE SpamInv'
  OBVIOUS
<1>1. CASE Transaction
  BY <1>1, TransactionStep
<1>2. CASE \E u \in Uuids, author \in Authors : \E parent \in 0..(u - 1) : Comment(u, author, parent)
  BY <1>2, CommentStep
<1>3. CASE \E m \in MessageIds, author \in Authors : Message(m, author)
  BY <1>3, MessageStep
<1>4. CASE UNCHANGED spamVars
  BY <1>4 DEF SpamInv, SpamTypeOK, RowsInv, SnapshotInv, ProgressInv, TablesInv, Tables, By, RepliesTo,
      spamVars, tables, read, pending
<1> QED
  BY <1>1, <1>2, <1>3, <1>4 DEF SpamNext

\* The strengthened invariant of the transaction.
THEOREM SpamInvariant == SpamSpec => []SpamInv
BY SpamStart, SpamStep, PTL DEF SpamSpec

\* The types of the tables and of what the script has read.
THEOREM SpamTypeCorrect == SpamSpec => []SpamTypeOK
<1>1. SpamInv => SpamTypeOK
  BY DEF SpamInv
<1> QED
  BY <1>1, SpamInvariant, PTL

\* delete-gerrit-spam.py:99: the spam goes altogether or stays altogether.
THEOREM SpamAllOrNothing == SpamSpec => []AllOrNothing
<1>1. SpamInv => AllOrNothing
  <2> SUFFICES ASSUME SpamInv PROVE AllOrNothing
    OBVIOUS
  <2> USE DEF SpamInv
  <2>1. CASE place = "committed" /\ delete
    BY <2>1 DEF AllOrNothing, TablesInv, ProgressInv, RowsInv, SpamTypeOK, Comments, Messages, By
  <2>2. CASE place # "committed"
    BY <2>2 DEF AllOrNothing, TablesInv
  <2>3. CASE place = "committed" /\ ~delete
    <3>1. comments = written.comments /\ messages = written.messages
      BY <2>3 DEF TablesInv, ProgressInv, SpamTypeOK, Comments, Messages
    <3> QED
      BY <2>3, <3>1 DEF AllOrNothing, Tables, SpamTypeOK
  <2> QED
    BY <2>1, <2>2, <2>3
<1> QED
  BY <1>1, SpamInvariant, PTL

\* delete-gerrit-spam.py:59-83: no comment is left with a parent that is gone,
\* but for those written while the script ran.
THEOREM SpamParents == SpamSpec => []NoDanglingParent
<1>1. SpamInv => NoDanglingParent
  <2> SUFFICES ASSUME SpamInv, NEW u \in Uuids, comments[u].there, comments[u].parent # 0,
                      u \notin late, comments[u].parent \notin late
               PROVE  comments[comments[u].parent].there
    BY DEF NoDanglingParent
  <2> DEFINE p == comments[u].parent
  <2> USE DEF SpamInv
  <2>1. CASE place # "committed"
    BY <2>1 DEF TablesInv, Tables, RowsInv
  <2>2. CASE place = "committed"
    <3>1. /\ u \notin deleted /\ u \notin unparented
          /\ p = written.comments[u].parent /\ written.comments[u].there
          /\ p \in Uuids /\ written.comments[p].there
      BY <2>2 DEF TablesInv, RowsInv, SpamTypeOK, Comments
    <3>2. p \notin deleted
      BY <2>2, <3>1 DEF ProgressInv, RowsInv, RepliesTo, SpamTypeOK, Comments
    <3> QED
      BY <2>2, <3>1, <3>2 DEF TablesInv, SpamTypeOK, Comments
  <2> QED
    BY <2>1, <2>2
<1> QED
  BY <1>1, SpamInvariant, PTL

\* What others wrote is there, in its thread unless that led to spam.
THEOREM SpamOthersKept == SpamSpec => []OthersKept
<1>1. SpamInv => OthersKept
  <2> SUFFICES ASSUME SpamInv PROVE OthersKept
    OBVIOUS
  <2> USE DEF SpamInv
  <2>1. CASE place # "committed"
    BY <2>1 DEF TablesInv, Tables, OthersKept
  <2>2. CASE place = "committed"
    <3>1. \A u \in Uuids : written.comments[u].there /\ written.comments[u].author # Spammer =>
                comments[u].there
      BY <2>2 DEF TablesInv, RowsInv, By, SpamTypeOK, Comments
    <3>2. \A m \in MessageIds : written.messages[m].there /\ written.messages[m].author # Spammer =>
                messages[m].there
      BY <2>2 DEF TablesInv, RowsInv, By, SpamTypeOK, Messages
    <3>3. ASSUME NEW u \in Uuids, comments[u].there, comments[u].parent # written.comments[u].parent
          PROVE  ~comments[written.comments[u].parent].there
      <4>1. u \in unparented /\ delete
        BY <2>2, <3>3 DEF TablesInv, ProgressInv, SpamTypeOK, Comments
      <4>2. written.comments[u].parent \in deleted
        BY <2>2, <4>1 DEF ProgressInv, RowsInv, RepliesTo
      <4> QED
        BY <2>2, <4>2 DEF TablesInv, SpamTypeOK, Comments
    <3> QED
      BY <3>1, <3>2, <3>3 DEF OthersKept
  <2> QED
    BY <2>1, <2>2
<1> QED
  BY <1>1, SpamInvariant, PTL

-----------------------------------------------------------------------------
(* GerritPages: ranks of changes.                                          *)

Newer(S, c) == {d \in S : updated[d] > updated[c]}

LEMMA SliceIs ==
    ASSUME NEW S, NEW n, NEW m
    PROVE  Slice(S, n, m) =
             {c \in S : n <= Cardinality(Newer(S, c)) /\ Cardinality(Newer(S, c)) < m}
BY DEF Slice, Newer

LEMMA ChangesFinite ==
    /\ IsFiniteSet(Changes) /\ Cardinality(Changes) \in Nat
    /\ Now \in Nat /\ Now = Cardinality(Changes) + MaxMoves + 1
BY PagesAssumption, FS_CardinalityType DEF Now

LEMMA Ranks ==
    ASSUME NEW S \in SUBSET Changes
    PROVE  /\ IsFiniteSet(S) /\ Cardinality(S) \in Nat
           /\ \A c \in Changes :
               IsFiniteSet(Newer(S, c)) /\ Cardinality(Newer(S, c)) \in Nat
<1>1. IsFiniteSet(S) /\ Cardinality(S) \in Nat
  BY ChangesFinite, FS_Subset, FS_CardinalityType
<1>2. ASSUME NEW c \in Changes
      PROVE  IsFiniteSet(Newer(S, c)) /\ Cardinality(Newer(S, c)) \in Nat
  <2>1. Newer(S, c) \in SUBSET S
    BY DEF Newer
  <2> QED
    BY <1>1, <2>1, FS_Subset, FS_CardinalityType
<1> QED
  BY <1>1, <1>2

\* The fewer are newer, the newer is a change.
LEMMA RanksOrder ==
    ASSUME PagesTypeOK, NEW S \in SUBSET Changes, NEW c \in Changes, NEW d \in Changes,
           updated[d] <= updated[c]
    PROVE  Cardinality(Newer(S, c)) <= Cardinality(Newer(S, d))
<1>1. Newer(S, c) \in SUBSET Newer(S, d)
  <2>1. updated[c] \in Nat /\ updated[d] \in Nat /\ \A e \in S : updated[e] \in Nat
    BY ChangesFinite DEF PagesTypeOK
  <2> QED
    BY <2>1 DEF Newer
<1>2. IsFiniteSet(Newer(S, d))
  BY Ranks
<1> QED
  BY <1>1, <1>2, FS_Subset

LEMMA LeastNatural ==
    ASSUME NEW S \in SUBSET Nat, S # {}
    PROVE  \E x \in S : \A y \in S : x <= y
<1>1. PICK x \in S : \A y \in S : ~ (<<y, x>> \in OpToRel(<, Nat))
  BY NatLessThanWellFounded, WFMin
<1>2. \A y \in S : ~ (y < x)
  BY <1>1 DEF OpToRel
<1> QED
  BY <1>2

LEMMA Newest ==
    ASSUME PagesTypeOK, NEW S \in SUBSET Changes, S # {}
    PROVE  \E c \in S : \A d \in S : updated[d] <= updated[c]
<1> DEFINE ages == {Now - updated[c] : c \in S}
<1>1. \A c \in S : updated[c] \in Nat /\ updated[c] <= Now /\ Now \in Nat
  BY ChangesFinite DEF PagesTypeOK
<1>2. ages \in SUBSET Nat /\ ages # {}
  BY <1>1
<1>3. PICK x \in ages : \A y \in ages : x <= y
  BY <1>2, LeastNatural
<1>4. PICK c \in S : x = Now - updated[c]
  BY <1>3
<1>5. \A d \in S : Now - updated[c] <= Now - updated[d]
  BY <1>3, <1>4
<1> QED
  BY <1>1, <1>5

\* The key of a page is that of its oldest change.
LEMMA KeyIsLeast ==
    ASSUME PagesTypeOK, NEW page \in SUBSET Changes, page # {}
    PROVE  \E c \in page : Key(page) = updated[c] /\ \A d \in page : updated[c] <= updated[d]
<1> DEFINE keys == {updated[c] : c \in page}
<1>1. keys \in SUBSET Nat /\ keys # {}
  BY ChangesFinite DEF PagesTypeOK
<1>2. PICK k \in keys : \A y \in keys : k <= y
  BY <1>1, LeastNatural
<1>3. \E k1 \in keys : \A c \in page : k1 <= updated[c]
  BY <1>2
<1>4. /\ Key(page) \in keys
      /\ \A c \in page : Key(page) <= updated[c]
  BY <1>3 DEF Key
<1> QED
  BY <1>4

\* A page that is not full holds all there is.
LEMMA LastPageHasAll ==
    ASSUME PagesTypeOK, NEW S \in SUBSET Changes, Cardinality(Slice(S, 0, PageSize)) < PageSize
    PROVE  Slice(S, 0, PageSize) = S
<1> DEFINE page == Slice(S, 0, PageSize)
<1>1. page \in SUBSET S /\ page = {c \in S : 0 <= Cardinality(Newer(S, c)) /\ Cardinality(Newer(S, c)) < PageSize}
  BY SliceIs
<1> HIDE DEF page
<1>2. SUFFICES ASSUME S \ page # {} PROVE FALSE
  BY <1>1 DEF page
<1>3. PICK c \in S \ page : \A d \in S \ page : updated[d] <= updated[c]
  BY <1>2, Newest
<1>4. Newer(S, c) \in SUBSET page
  <2>1. \A d \in S : updated[d] \in Nat
    BY ChangesFinite DEF PagesTypeOK
  <2> QED
    BY <1>3, <2>1 DEF Newer
<1>5. Cardinality(Newer(S, c)) <= Cardinality(page)
  <2>1. IsFiniteSet(page)
    BY <1>1, Ranks
  <2> QED
    BY <1>4, <2>1, FS_Subset
<1>6. Cardinality(Newer(S, c)) \in Nat /\ Cardinality(page) \in Nat /\ PageSize \in Nat
  BY <1>1, Ranks, PagesAssumption
<1>7. Cardinality(page) < PageSize
  BY DEF page
<1> QED
  BY <1>1, <1>3, <1>5, <1>6, <1>7

\* Fewer are newer than a change than there are.
LEMMA RankBelow ==
    ASSUME PagesTypeOK, NEW S \in SUBSET Changes, NEW c \in S
    PROVE  Cardinality(Newer(S, c)) < Cardinality(S)
<1>1. Newer(S, c) \in SUBSET S /\ c \notin Newer(S, c)
  <2>1. updated[c] \in Nat
    BY ChangesFinite DEF PagesTypeOK
  <2> QED
    BY <2>1 DEF Newer
<1>2. IsFiniteSet(S) /\ Cardinality(S) \in Nat /\ Cardinality(Newer(S, c)) \in Nat
  BY Ranks
<1> QED
  BY <1>1, <1>2, FS_Subset

\* Where there are changes there is a first one.
LEMMA FirstOne ==
    ASSUME PagesTypeOK, NEW S \in SUBSET Changes, S # {}
    PROVE  \E c \in S : Cardinality(Newer(S, c)) = 0
<1>1. PICK c \in S : \A d \in S : updated[d] <= updated[c]
  BY Newest
<1>2. \A d \in S : updated[d] \in Nat
  BY ChangesFinite DEF PagesTypeOK
<1>3. Newer(S, c) = {}
  BY <1>1, <1>2 DEF Newer
<1> QED
  BY <1>3, FS_EmptySet

-----------------------------------------------------------------------------
(* GerritPages: the walks.                                                 *)

RankOf(c) == Cardinality(Newer(Listed, c))

\* Nothing is updated in the future, and nothing is listed that was renamed.
AgesInv ==
    /\ \A c \in Changes : updated[c] <= Cardinality(Changes) + moves
    /\ renamed /\ moved = {} => Listed = {}

\* The walk of owners.py is where its offset says, as long as it lasts.
OffsetInv ==
    tool = "owners" =>
        /\ progress = "asking" /\ offset > 0 => more
        /\ progress = "asking" /\ ~renamed =>
            \A c \in Listed \ moved : RankOf(c) < offset => fetched[c] > 0
        /\ moved = {} => \A c \in Changes :
            /\ fetched[c] <= 1
            /\ fetched[c] > 0 /\ progress = "asking" /\ ~renamed =>
                c \in Listed /\ RankOf(c) < offset

\* The walk of email_stats.py has what is not older than its key, and nothing
\* that is.
KeyInv ==
    tool = "email_stats" =>
        /\ \A c \in Changes :
            /\ fetched[c] <= 1
            /\ fetched[c] > 0 => last <= Cardinality(Changes) + moves
            /\ fetched[c] > 0 /\ updated[c] > 0 => updated[c] >= last
            /\ fetched[c] > 0 /\ c \in Period /\ Owner[c] \notin Nameless => Owner[c] \in atcs
        /\ ~renamed => \A c \in Listed \ moved : updated[c] >= last => fetched[c] > 0

OnlyOwners == atcs \subseteq {Owner[c] : c \in Period}

PagesInv == PagesTypeOK /\ AgesInv /\ OffsetInv /\ KeyInv /\ OnlyOwners /\ NothingMissed

LEMMA ListedChanges == Listed \in SUBSET Changes
BY DEF Listed

LEMMA PagesStart == PagesInit => PagesInv
<1> SUFFICES ASSUME PagesInit PROVE PagesInv
  OBVIOUS
<1>1. PagesTypeOK
  <2>1. Now \in 0..Now /\ 0 \in 0..MaxMoves /\ \A n \in 0..Cardinality(Changes) : n \in 0..Now
    BY ChangesFinite, PagesAssumption
  <2>2. updated \in [Changes -> 0..Now]
    BY <2>1 DEF PagesInit
  <2> QED
    BY <2>1, <2>2 DEF PagesInit, PagesTypeOK
<1>2. AgesInv
  BY ChangesFinite DEF PagesInit, AgesInv
<1>3. \A c \in Listed : RankOf(c) \in Nat
  BY Ranks, ListedChanges DEF RankOf
<1>4. OffsetInv
  BY <1>3 DEF PagesInit, OffsetInv, Listed
<1>5. KeyInv
  BY ChangesFinite, PagesAssumption DEF PagesInit, KeyInv, Listed
<1> QED
  BY <1>1, <1>2, <1>4, <1>5 DEF PagesInit, PagesInv, OnlyOwners, NothingMissed

\* Who is moved gets in front of all others.
LEMMA TouchKeeps ==
    ASSUME PagesInv, NEW e \in Changes, Touch(e)
    PROVE  PagesInv'
<1> USE DEF PagesInv
<1> DEFINE C == Cardinality(Changes)
<1>1. /\ moves' = moves + 1 /\ moves \in Nat /\ moves' \in 0..MaxMoves /\ C \in Nat
      /\ Now \in Nat /\ Now = C + MaxMoves + 1
      /\ moved' = moved \cup {e}
      /\ UNCHANGED <<answers, renamed, progress, offset, last, more, fetched, atcs, tool, known>>
  BY ChangesFinite, PagesAssumption DEF Touch, walk, PagesTypeOK
<1>2. /\ updated' \in [Changes -> Nat] /\ updated \in [Changes -> Nat]
      /\ updated'[e] = C + moves + 1
      /\ \A c \in Changes \ {e} : updated'[c] = updated[c]
      /\ \A c \in Changes : updated[c] <= C + moves
  <2>1. updated \in [Changes -> Nat]
    BY ChangesFinite DEF PagesTypeOK
  <2> QED
    BY <1>1, <2>1 DEF Touch, AgesInv
<1> HIDE DEF C
<1>3. /\ Listed' = Listed \cup {e}
      /\ \A c \in Changes : updated'[c] <= C + moves'
  BY <1>1, <1>2 DEF Listed
<1>4. PagesTypeOK'
  <2>1. updated' \in [Changes -> 0..Now]
    BY <1>1, <1>2, <1>3, PagesAssumption
  <2> QED
    BY <1>1, <2>1, ChangesFinite DEF PagesTypeOK, Now
<1>5. AgesInv'
  BY <1>1, <1>3 DEF AgesInv, C
<1>6. ASSUME NEW c \in Listed \ {e}
      PROVE  RankOf(c) <= RankOf(c)' /\ RankOf(c) \in Nat /\ RankOf(c)' \in Nat
  <2>1. Newer(Listed, c) \in SUBSET Newer(Listed, c)'
    <3>1. \A d \in Listed : updated'[d] >= updated[d] /\ updated[d] \in Nat /\ updated'[d] \in Nat
      BY <1>1, <1>2 DEF Listed
    <3>2. updated'[c] = updated[c] /\ updated[c] \in Nat
      BY <1>2 DEF Listed
    <3> QED
      BY <1>3, <3>1, <3>2 DEF Newer
  <2>2. Newer(Listed, c)' \in SUBSET Changes
    BY DEF Newer, Listed
  <2>3. IsFiniteSet(Newer(Listed, c)')
    BY <2>2, ChangesFinite, FS_Subset
  <2> QED
    BY <2>1, <2>3, FS_Subset, FS_CardinalityType DEF RankOf
<1>7. Listed' \ moved' \subseteq (Listed \ moved) \ {e}
  BY <1>1, <1>3
<1>8. OffsetInv'
  <2>1. offset \in Nat
    BY DEF PagesTypeOK
  <2> QED
    BY <1>1, <1>6, <1>7, <2>1 DEF OffsetInv
<1>9. KeyInv'
  <2>1. last \in Nat
    BY ChangesFinite DEF PagesTypeOK
  <2>2. \A c \in Listed' \ moved' : updated'[c] = updated[c]
    BY <1>2, <1>7 DEF Listed
  <2> QED
    BY <1>1, <1>2, <1>7, <2>1, <2>2 DEF KeyInv, C
<1>10. OnlyOwners' /\ NothingMissed'
  BY <1>1, <1>7 DEF OnlyOwners, NothingMissed
<1> QED
  BY <1>4, <1>5, <1>8, <1>9, <1>10

LEMMA RenameKeeps ==
    ASSUME PagesInv, RenameRepo
    PROVE  PagesInv'
<1> USE DEF PagesInv
<1>1. /\ renamed' = TRUE /\ Listed' = {}
      /\ updated' = [c \in Changes |-> 0]
      /\ UNCHANGED <<answers, progress, offset, last, more, fetched, atcs, tool, known, moved, moves>>
  BY DEF RenameRepo, walk, Listed
<1>2. PagesTypeOK'
  <2>1. updated' \in [Changes -> 0..Now]
    BY <1>1, ChangesFinite
  <2> QED
    BY <1>1, <2>1 DEF PagesTypeOK, Now
<1>3. AgesInv'
  BY <1>1, ChangesFinite DEF AgesInv, PagesTypeOK
<1>4. OffsetInv' /\ KeyInv' /\ OnlyOwners' /\ NothingMissed'
  BY <1>1 DEF OffsetInv, KeyInv, OnlyOwners, NothingMissed
<1> QED
  BY <1>2, <1>3, <1>4

LEMMA GotCounts ==
    ASSUME PagesTypeOK, NEW page, Got(page)
    PROVE  /\ fetched' \in [Changes -> Nat]
           /\ \A c \in Changes : fetched'[c] = IF c \in page THEN fetched[c] + 1 ELSE fetched[c]
BY DEF Got, PagesTypeOK

\* The changes between two offsets.
LEMMA FetchKeeps ==
    ASSUME PagesInv, Fetch
    PROVE  PagesInv'
<1> USE DEF PagesInv
<1> DEFINE page == Slice(Listed, offset, offset + PageSize)
<1>1. /\ progress = "asking" /\ tool = "owners"
      /\ Got(page)
      /\ more' = IF page = {} THEN more ELSE Cardinality(Listed) > offset + PageSize
      /\ \/ more' /\ offset' = offset + PageSize /\ progress' = "asking"
         \/ ~more' /\ progress' = "done" /\ offset' = offset
      /\ UNCHANGED <<answers, updated, renamed, last, atcs, tool, known, moved, moves>>
  BY DEF Fetch, gerrit
<1>2. page = {c \in Listed : offset <= RankOf(c) /\ RankOf(c) < offset + PageSize}
  BY SliceIs DEF RankOf
<1> HIDE DEF page
<1>3. /\ fetched' \in [Changes -> Nat] /\ fetched \in [Changes -> Nat]
      /\ \A c \in Changes : fetched'[c] = IF c \in page THEN fetched[c] + 1 ELSE fetched[c]
  BY <1>1, GotCounts DEF PagesTypeOK
<1>4. /\ \A c \in Listed : RankOf(c) \in Nat /\ RankOf(c) < Cardinality(Listed)
      /\ offset \in Nat /\ PageSize \in Nat \ {0} /\ Cardinality(Listed) \in Nat
  BY Ranks, RankBelow, ListedChanges, PagesAssumption DEF RankOf, PagesTypeOK
<1>5. Listed' = Listed /\ Listed \subseteq Changes /\ \A c : RankOf(c)' = RankOf(c)
  BY <1>1 DEF Listed, Newer, RankOf
<1>6. PagesTypeOK'
  <2>1. offset' \in Nat
    BY <1>1, <1>4
  <2>2. more' \in BOOLEAN
    <3>1. CASE page = {}
      BY <1>1, <3>1 DEF PagesTypeOK
    <3>2. CASE page # {}
      <4>1. more' = (Cardinality(Listed) > offset + PageSize)
        BY <1>1, <3>2, Zenon
      <4> QED
        BY <1>4, <4>1
    <3> QED
      BY <3>1, <3>2
  <2> QED
    BY <1>1, <1>3, <2>1, <2>2 DEF PagesTypeOK, Now
<1>7. AgesInv'
  BY <1>1, <1>5 DEF AgesInv
<1>8. OffsetInv'
  <2>1. progress' = "asking" => more' /\ offset' = offset + PageSize
    BY <1>1
  <2>2. ASSUME progress' = "asking", ~renamed, NEW c \in Listed \ moved, RankOf(c) < offset + PageSize
        PROVE  fetched'[c] > 0
    BY <1>1, <1>2, <1>3, <1>4, <1>5, <2>2 DEF OffsetInv
  <2>3. ASSUME moved = {}, NEW c \in Changes
        PROVE  /\ fetched'[c] <= 1
               /\ fetched'[c] > 0 /\ ~renamed => c \in Listed /\ RankOf(c) < offset + PageSize
    <3>1. CASE c \in page
      <4>1. ~renamed
        BY <1>2, <2>3, <3>1 DEF AgesInv
      <4>2. fetched[c] = 0
        BY <1>1, <1>2, <1>3, <1>4, <2>3, <3>1, <4>1 DEF OffsetInv
      <4> QED
        BY <1>2, <1>3, <2>3, <3>1, <4>2
    <3>2. CASE c \notin page
      BY <1>1, <1>3, <1>4, <2>3, <3>2 DEF OffsetInv
    <3> QED
      BY <3>1, <3>2
  <2> QED
    BY <1>1, <1>5, <2>1, <2>2, <2>3 DEF OffsetInv
<1>9. ASSUME progress' = "done", ~renamed, NEW c \in Listed \ moved
      PROVE  fetched'[c] > 0
  <2>1. CASE page = {}
    <3>1. offset = 0
      BY <1>1, <1>4, <1>9, <2>1 DEF OffsetInv
    <3>2. Listed # {}
      BY <1>9
    <3>3. PICK d \in Listed : RankOf(d) = 0
      BY <3>2, FirstOne, ListedChanges DEF RankOf
    <3>4. d \in page
      BY <1>2, <1>4, <3>1, <3>3
    <3> QED
      BY <2>1, <3>4
  <2>2. CASE page # {}
    <3>1. RankOf(c) < offset + PageSize
      <4>1. ~more'
        BY <1>1, <1>9
      <4>2. ~(Cardinality(Listed) > offset + PageSize)
        BY <1>1, <2>2, <4>1, Zenon
      <4> QED
        BY <1>4, <4>2
    <3>2. CASE RankOf(c) < offset
      BY <1>1, <1>3, <1>5, <1>9, <3>2 DEF OffsetInv
    <3>3. CASE ~(RankOf(c) < offset)
      BY <1>2, <1>3, <1>4, <1>5, <3>1, <3>3
    <3> QED
      BY <3>2, <3>3
  <2> QED
    BY <2>1, <2>2
<1>10. KeyInv' /\ OnlyOwners' /\ NothingMissed'
  BY <1>1, <1>5, <1>9 DEF KeyInv, OnlyOwners, NothingMissed
<1> QED
  BY <1>6, <1>7, <1>8, <1>10

\* The changes that are next after the key.
\* What a part of a query's answer does: it brings the n newest of the changes
\* that remain.
LEMMA PageKeeps ==
    ASSUME PagesInv, NEW n \in Nat, NEW page, page = Slice(Remaining, 0, n),
           progress = "asking", tool = "email_stats",
           UNCHANGED <<answers, updated, renamed, offset, more, tool, known, moved, moves>>,
           Got(page), last' = Key(page), Collect(page),
           progress' = "asking" \/ (progress' = "done" /\ page = Remaining)
    PROVE  PagesInv'
<1> USE DEF PagesInv
<1>a. Listed' = Listed /\ Listed \subseteq Changes /\ Remaining \in SUBSET Changes
  BY DEF Listed, Remaining
<1>b. AgesInv' /\ OffsetInv'
  BY <1>a DEF AgesInv, OffsetInv
<1>1. page = {c \in Remaining : /\ 0 <= Cardinality(Newer(Remaining, c))
                                /\ Cardinality(Newer(Remaining, c)) < n}
  BY SliceIs
<1>2. progress' = "done" => page = Remaining
  OBVIOUS
<1>3. /\ fetched' \in [Changes -> Nat] /\ fetched \in [Changes -> Nat]
      /\ \A c \in Changes : fetched'[c] = IF c \in page THEN fetched[c] + 1 ELSE fetched[c]
  BY GotCounts DEF PagesTypeOK
<1>4. /\ page \in SUBSET Changes
      /\ \A c \in page : c \in Listed /\ updated[c] > 0 /\ updated[c] < last
      /\ \A c \in Listed : updated[c] < last => c \in Remaining
  BY <1>a, <1>1 DEF Remaining, Listed
<1>5. /\ \A c \in Changes : updated[c] \in Nat /\ updated[c] <= Cardinality(Changes) + moves
      /\ last \in Nat /\ moves \in Nat /\ Cardinality(Changes) \in Nat /\ Now \in Nat
      /\ last \in 0..Now
  BY ChangesFinite, PagesAssumption DEF PagesTypeOK, AgesInv
<1>6. CASE page = {}
  <2>1. UNCHANGED <<last, fetched, atcs>>
    <3>1. last' = last
      BY <1>6 DEF Key
    <3>2. atcs' = atcs
      BY <1>6 DEF Collect
    <3>3. fetched' = fetched
      BY <1>3, <1>6
    <3> QED
      BY <3>1, <3>2, <3>3
  <2>2. progress' = "done" => Remaining = {}
    BY <1>2, <1>6
  <2>3. PagesTypeOK'
    BY <2>1 DEF PagesTypeOK, Now
  <2>4. KeyInv' /\ OnlyOwners'
    BY <1>a, <2>1 DEF KeyInv, OnlyOwners
  <2>5. NothingMissed'
    BY <1>a, <1>4, <1>5, <2>1, <2>2 DEF KeyInv, NothingMissed
  <2> QED
    BY <1>b, <2>3, <2>4, <2>5
<1>7. CASE page # {}
  <2>1. PICK d \in page : last' = updated[d] /\ \A c \in page : updated[d] <= updated[c]
    BY <1>4, <1>7, KeyIsLeast
  <2>2. last' < last /\ last' \in 0..Now /\ last' <= Cardinality(Changes) + moves
    BY <1>4, <1>5, <2>1
  <2>3. ASSUME NEW c \in Remaining, updated[c] >= last'
        PROVE  c \in page
    <3>1. Cardinality(Newer(Remaining, c)) <= Cardinality(Newer(Remaining, d))
      BY <1>a, <1>4, <2>1, <2>3, RanksOrder
    <3>2. /\ Cardinality(Newer(Remaining, c)) \in Nat
          /\ Cardinality(Newer(Remaining, d)) \in Nat
          /\ n \in Nat
      BY <1>a, <1>4, <2>1, Ranks, PagesAssumption
    <3> QED
      BY <1>1, <2>1, <3>1, <3>2
  <2>4. atcs' = atcs \cup {Owner[c] : c \in {e \in page \cap Period : Owner[e] \notin Nameless}}
    BY DEF Collect
  <2>5. PagesTypeOK'
    <3>1. atcs' \in SUBSET (Accounts \ Nameless)
      BY <1>4, <2>4, PagesAssumption DEF PagesTypeOK
    <3> QED
      BY <1>3, <2>2, <3>1 DEF PagesTypeOK, Now
  <2>6. OnlyOwners'
    BY <2>4 DEF OnlyOwners
  <2>7. ASSUME NEW c \in Changes
        PROVE  /\ fetched'[c] <= 1
               /\ fetched'[c] > 0 /\ updated[c] > 0 => updated[c] >= last'
    <3>1. CASE c \in page
      <4>1. fetched[c] = 0
        BY <1>3, <1>4, <1>5, <3>1 DEF KeyInv
      <4> QED
        BY <1>3, <1>5, <2>1, <3>1, <4>1
    <3>2. CASE c \notin page
      BY <1>3, <1>5, <2>2, <3>2 DEF KeyInv
    <3> QED
      BY <3>1, <3>2
  <2>8. \A c \in Changes :
          fetched'[c] > 0 /\ c \in Period /\ Owner[c] \notin Nameless => Owner[c] \in atcs'
    BY <1>3, <2>4 DEF KeyInv
  <2>9. ASSUME ~renamed, NEW c \in Listed \ moved, updated[c] >= last'
        PROVE  fetched'[c] > 0
    BY <1>a, <1>3, <1>4, <1>5, <2>3, <2>9 DEF KeyInv
  <2>10. KeyInv'
    BY <1>a, <2>2, <2>7, <2>8, <2>9 DEF KeyInv
  <2>11. NothingMissed'
    <3> SUFFICES ASSUME progress' = "done", ~renamed, NEW c \in Listed \ moved
                 PROVE  fetched'[c] > 0
      BY <1>a DEF NothingMissed
    <3>1. page = Remaining
      BY <1>2
    <3> QED
      BY <1>a, <1>3, <1>4, <1>5, <3>1 DEF KeyInv
  <2> QED
    BY <1>b, <2>5, <2>6, <2>10, <2>11
<1> QED
  BY <1>6, <1>7

LEMMA ResumeKeeps ==
    ASSUME PagesInv, Resume
    PROVE  PagesInv'
<1> USE DEF PagesInv
<1> DEFINE page == Slice(Remaining, 0, PageSize)
<1>1. /\ progress = "asking" /\ tool = "email_stats"
      /\ UNCHANGED <<answers, updated, renamed, offset, more, tool, known, moved, moves>>
  BY DEF Resume, gerrit
<1>2. Listed' = Listed /\ Remaining \in SUBSET Changes
  BY <1>1 DEF Listed, Remaining
<1>3. CASE progress' = "dead" /\ UNCHANGED <<last, fetched, atcs>>
  BY <1>1, <1>2, <1>3
     DEF PagesTypeOK, Now, AgesInv, OffsetInv, KeyInv, OnlyOwners, NothingMissed
<1>4. CASE /\ Got(page) /\ last' = Key(page) /\ Collect(page)
           /\ IF LastPage(page) THEN progress' = "done" ELSE progress' = progress
  <2>1. LastPage(page) => page = Remaining
    BY <1>2, LastPageHasAll DEF LastPage
  <2>2. progress' = "asking" \/ (progress' = "done" /\ page = Remaining)
    BY <1>1, <1>4, <2>1, Zenon
  <2>3. PageSize \in Nat
    BY PagesAssumption
  <2> HIDE DEF page
  <2>4. page = Slice(Remaining, 0, PageSize)
    BY DEF page
  <2> QED
    BY <1>1, <1>4, <2>2, <2>3, <2>4, PageKeeps
<1> QED
  BY <1>3, <1>4 DEF Resume

LEMMA BreakOffKeeps ==
    ASSUME PagesInv, BreakOff
    PROVE  PagesInv'
<1> USE DEF PagesInv
<1>1. /\ progress = "asking" /\ tool = "email_stats"
      /\ UNCHANGED <<answers, updated, renamed, offset, more, tool, known, moved, moves>>
  BY DEF BreakOff, gerrit
<1>2. Listed' = Listed
  BY <1>1 DEF Listed
<1>3. CASE progress' = "dead" /\ UNCHANGED <<last, fetched, atcs>>
  BY <1>1, <1>2, <1>3
     DEF PagesTypeOK, Now, AgesInv, OffsetInv, KeyInv, OnlyOwners, NothingMissed
<1>4. ASSUME NEW n \in 0..PageSize, NEW rows, rows = Slice(Remaining, 0, n),
             Got(rows), last' = Key(rows), Collect(rows), progress' = progress
      PROVE  PagesInv'
  <2>1. n \in Nat
    BY PagesAssumption
  <2> QED
    BY <1>1, <1>4, <2>1, PageKeeps
<1> QED
  BY <1>3, <1>4 DEF BreakOff

LEMMA PagesStep == PagesInv /\ [PagesNext]_pagesVars => PagesInv'
<1> SUFFICES ASSUME PagesInv, [PagesNext]_pagesVars PROVE PagesInv'
  OBVIOUS
<1>1. CASE \E c \in Changes : Touch(c)
  BY <1>1, TouchKeeps
<1>2. CASE RenameRepo
  BY <1>2, RenameKeeps
<1>3. CASE Fetch
  BY <1>3, FetchKeeps
<1>4. CASE Resume
  BY <1>4, ResumeKeeps
<1>6. CASE BreakOff
  BY <1>6, BreakOffKeeps
<1>7. CASE Falter
  <2>1. /\ answers' = ~answers
        /\ UNCHANGED <<progress, updated, renamed, offset, last, more, fetched, atcs, tool, known,
                       moved, moves>>
    BY <1>7 DEF Falter, walk
  <2>2. Listed' = Listed /\ \A c : RankOf(c)' = RankOf(c)
    BY <2>1 DEF Listed, Newer, RankOf
  <2> QED
    BY <2>1, <2>2 DEF PagesInv, PagesTypeOK, Now, AgesInv, OffsetInv, KeyInv, OnlyOwners, NothingMissed
<1>5. CASE Fail \/ Hang \/ UNCHANGED pagesVars
  <2>1. /\ progress' \in {progress, "dead", "waiting"}
        /\ progress' = "asking" => progress = "asking"
        /\ progress' = "done" => progress = "done"
        /\ UNCHANGED <<answers, updated, renamed, offset, last, more, fetched, atcs, tool, known, moved, moves>>
    BY <1>5 DEF Fail, Hang, pagesVars, gerrit, walk
  <2>2. Listed' = Listed /\ \A c : RankOf(c)' = RankOf(c)
    BY <2>1 DEF Listed, Newer, RankOf
  <2> QED
    BY <2>1, <2>2 DEF PagesInv, PagesTypeOK, Now, AgesInv, OffsetInv, KeyInv, OnlyOwners, NothingMissed
<1> QED
  BY <1>1, <1>2, <1>3, <1>4, <1>5, <1>6, <1>7 DEF PagesNext

\* The strengthened invariant of the walks.
THEOREM PagesInvariant == PagesSpec => []PagesInv
BY PagesStart, PagesStep, PTL DEF PagesSpec

\* Types of the walks, for any changes, accounts and pages.
THEOREM PagesTypeCorrect == PagesSpec => []PagesTypeOK
<1>1. PagesInv => PagesTypeOK
  BY DEF PagesInv
<1> QED
  BY <1>1, PagesInvariant, PTL

\* owners.py:340-350 and email_stats.py:121-153: neither walk skips a change
\* that stays where it is, whatever moves around it.
THEOREM PagesMissNothing == PagesSpec => []NothingMissed
<1>1. PagesInv => NothingMissed
  BY DEF PagesInv
<1> QED
  BY <1>1, PagesInvariant, PTL

\* email_stats.py:150-153: the key excludes what has been got; offsets do so as
\* long as nothing moves.
THEOREM PagesOnce == PagesSpec => []NoneTwice
<1>1. PagesInv => NoneTwice
  BY PagesAssumption DEF PagesInv, OffsetInv, KeyInv, NoneTwice, PagesTypeOK
<1> QED
  BY <1>1, PagesInvariant, PTL

\* email_stats.py:134-149: the list is that of the owners of approved changes.
THEOREM PagesRoll == PagesSpec => []RollComplete
<1>1. PagesInv => RollComplete
  BY ListedChanges DEF PagesInv, PagesTypeOK, KeyInv, OnlyOwners, NothingMissed, RollComplete
<1> QED
  BY <1>1, PagesInvariant, PTL

-----------------------------------------------------------------------------
(* GerritPages: why walks end.                                             *)

\* No two changes were updated at the same time.
Distinct(S) == \A c, d \in S : updated[c] = updated[d] => c = d

\* An offset is that of a change, and owners.py has asked for it because there
\* was one.
WithinInv ==
    tool = "owners" /\ progress = "asking" =>
        /\ offset = 0 => ~more
        /\ ~renamed /\ offset > 0 => offset < Cardinality(Listed)

WalkInv == Distinct(Listed) /\ WithinInv

LEMMA Oldest ==
    ASSUME PagesTypeOK, NEW S \in SUBSET Changes, S # {}
    PROVE  \E c \in S : \A d \in S : updated[c] <= updated[d]
BY KeyIsLeast

\* Changes are numbered by their ranks: none is skipped.
LEMMA OneOfEachRank ==
    ASSUME PagesTypeOK, NEW S \in SUBSET Changes, Distinct(S),
           NEW k \in Nat, k < Cardinality(S)
    PROVE  \E c \in S : Cardinality(Newer(S, c)) = k
<1> DEFINE T == {c \in S : k <= Cardinality(Newer(S, c))}
<1>1. /\ IsFiniteSet(S) /\ Cardinality(S) \in Nat
      /\ \A c \in S : updated[c] \in Nat /\ Cardinality(Newer(S, c)) \in Nat
  BY Ranks, ChangesFinite DEF PagesTypeOK
<1>2. T # {}
  <2>1. S # {}
    BY <1>1, FS_EmptySet
  <2>2. PICK c \in S : \A d \in S : updated[c] <= updated[d]
    BY <2>1, Oldest
  <2>3. Newer(S, c) = S \ {c}
    <3>1. ASSUME NEW d \in S
          PROVE  updated[d] > updated[c] <=> d # c
      <4>1. updated[d] = updated[c] => d = c
        BY <2>2 DEF Distinct
      <4>2. updated[c] <= updated[d] /\ updated[c] \in Nat /\ updated[d] \in Nat
        BY <1>1, <2>2
      <4> QED
        BY <4>1, <4>2
    <3> QED
      BY <3>1 DEF Newer
  <2>4. Cardinality(S \ {c}) = Cardinality(S) - 1
    BY <1>1, <2>2, FS_RemoveElement
  <2>5. k <= Cardinality(Newer(S, c))
    BY <1>1, <2>3, <2>4
  <2> QED
    BY <2>2, <2>5
<1>3. PICK c \in T : \A d \in T : updated[d] <= updated[c]
  <2>1. T \in SUBSET Changes
    OBVIOUS
  <2> HIDE DEF T
  <2> QED
    BY <1>2, <2>1, Newest
<1>4. Cardinality(Newer(S, c)) <= k
  <2>1. CASE Newer(S, c) = {}
    BY <2>1, FS_EmptySet
  <2>2. CASE Newer(S, c) # {}
    <3>1. Newer(S, c) \in SUBSET Changes
      BY DEF Newer
    <3>2. PICK d \in Newer(S, c) : \A e \in Newer(S, c) : updated[d] <= updated[e]
      BY <2>2, <3>1, Oldest
    <3>3. d \in S /\ d \notin T
      <4>1. d \in S /\ c \in S /\ updated[d] > updated[c]
        BY <1>3 DEF Newer
      <4>2. d \in T => updated[d] <= updated[c]
        BY <1>3, Zenon
      <4> HIDE DEF T
      <4> QED
        BY <1>1, <4>1, <4>2
    <3>4. ASSUME NEW e \in S
          PROVE  /\ updated[e] > updated[c] <=> updated[e] > updated[d] \/ e = d
                 /\ ~(updated[d] > updated[d])
      <4>1. updated[e] = updated[d] => e = d
        BY <3>3 DEF Distinct
      <4>2. /\ updated[c] \in Nat /\ updated[d] \in Nat /\ updated[e] \in Nat
            /\ updated[d] > updated[c]
            /\ updated[e] > updated[c] => updated[d] <= updated[e]
        BY <1>1, <1>3, <3>2, <3>3 DEF Newer
      <4> QED
        BY <4>1, <4>2
    <3>5. Newer(S, c) = Newer(S, d) \cup {d} /\ d \notin Newer(S, d)
      BY <3>3, <3>4 DEF Newer
    <3>6. IsFiniteSet(Newer(S, d))
      BY <3>3, Ranks
    <3>7. Cardinality(Newer(S, c)) = Cardinality(Newer(S, d)) + 1
      BY <3>5, <3>6, FS_AddElement
    <3>8. Cardinality(Newer(S, d)) < k
      BY <1>1, <3>3
    <3> QED
      BY <1>1, <3>3, <3>7, <3>8
  <2> QED
    BY <2>1, <2>2
<1> QED
  BY <1>1, <1>3, <1>4

LEMMA WalkStart == PagesInit => WalkInv
BY DEF PagesInit, WalkInv, WithinInv, Distinct

\* Within the listed changes a page of owners.py has one, and what it says of
\* more is true.
LEMMA FetchWithin ==
    ASSUME PagesInv, WalkInv, Fetch, ~renamed
    PROVE  more' => offset < offset' /\ offset' < Cardinality(Listed)
<1> DEFINE page == Slice(Listed, offset, offset + PageSize)
<1>1. /\ progress = "asking" /\ tool = "owners"
      /\ more' = IF page = {} THEN more ELSE Cardinality(Listed) > offset + PageSize
      /\ more' => offset' = offset + PageSize
  BY DEF Fetch
<1>2. page = {c \in Listed : offset <= RankOf(c) /\ RankOf(c) < offset + PageSize}
  BY SliceIs DEF RankOf
<1> HIDE DEF page
<1>3. /\ offset \in Nat /\ PageSize \in Nat \ {0} /\ Cardinality(Listed) \in Nat
      /\ PagesTypeOK
  BY Ranks, ListedChanges, PagesAssumption DEF PagesInv, PagesTypeOK
<1>4. CASE page = {}
  <2>1. ~(offset < Cardinality(Listed))
    <3> SUFFICES ASSUME offset < Cardinality(Listed) PROVE FALSE
      OBVIOUS
    <3>1. PICK c \in Listed : RankOf(c) = offset
      BY <1>3, ListedChanges, OneOfEachRank DEF WalkInv, RankOf
    <3> QED
      BY <1>2, <1>3, <1>4, <3>1
  <2>2. ~more
    BY <1>1, <1>3, <2>1 DEF WalkInv, WithinInv
  <2> QED
    BY <1>1, <1>4, <2>2, Zenon
<1>5. CASE page # {}
  <2>1. more' = (Cardinality(Listed) > offset + PageSize)
    BY <1>1, <1>5, Zenon
  <2>2. ASSUME more'
        PROVE  offset' = offset + PageSize /\ Cardinality(Listed) > offset + PageSize
    BY <1>1, <2>1, <2>2, Zenon
  <2> QED
    BY <1>3, <2>2
<1> QED
  BY <1>4, <1>5

LEMMA WalkStep == PagesInv /\ WalkInv /\ [PagesNext]_pagesVars => WalkInv'
<1> SUFFICES ASSUME PagesInv, WalkInv, [PagesNext]_pagesVars PROVE WalkInv'
  OBVIOUS
<1>1. ASSUME NEW e \in Changes, Touch(e)
      PROVE  WalkInv'
  <2>1. /\ updated' = [updated EXCEPT ![e] = Cardinality(Changes) + moves + 1]
        /\ UNCHANGED <<renamed, progress, offset, more, tool>>
    BY <1>1 DEF Touch, walk
  <2>2. /\ updated \in [Changes -> Nat] /\ moves \in Nat /\ Cardinality(Changes) \in Nat
        /\ \A c \in Changes : updated[c] <= Cardinality(Changes) + moves
        /\ offset \in Nat
    BY ChangesFinite DEF PagesInv, PagesTypeOK, AgesInv
  <2>3. Listed' = Listed \cup {e} /\ Listed \subseteq Changes
    BY <2>1, <2>2 DEF Listed
  <2>4. Distinct(Listed)'
    BY <2>1, <2>2, <2>3 DEF Distinct, WalkInv
  <2>5. Cardinality(Listed) <= Cardinality(Listed')
    <3>1. IsFiniteSet(Listed')
      BY <2>3, ChangesFinite, FS_Subset
    <3> QED
      BY <2>3, <3>1, FS_Subset
  <2>6. Cardinality(Listed) \in Nat /\ Cardinality(Listed') \in Nat
    BY <2>3, Ranks
  <2>7. WithinInv'
    BY <2>1, <2>2, <2>5, <2>6 DEF WithinInv, WalkInv
  <2> QED
    BY <2>4, <2>7 DEF WalkInv
<1>2. CASE RenameRepo
  <2>1. renamed' /\ Listed' = {} /\ UNCHANGED <<progress, offset, more, tool>>
    BY <1>2 DEF RenameRepo, walk, Listed
  <2> QED
    BY <2>1 DEF WalkInv, WithinInv, Distinct
<1>3. CASE Fetch
  <2>1. /\ UNCHANGED <<updated, renamed, tool>> /\ progress = "asking" /\ tool = "owners"
        /\ \/ more' /\ offset' = offset + PageSize /\ progress' = "asking"
           \/ ~more' /\ progress' = "done" /\ offset' = offset
    BY <1>3 DEF Fetch, gerrit
  <2>2. Listed' = Listed /\ Distinct(Listed)'
    BY <2>1 DEF Listed, Distinct, WalkInv
  <2>3. offset' # 0 \/ ~more'
    BY <2>1, PagesAssumption DEF PagesInv, PagesTypeOK
  <2>4. WithinInv'
    BY <1>3, <2>1, <2>2, <2>3, FetchWithin DEF WithinInv
  <2> QED
    BY <2>2, <2>4 DEF WalkInv
<1>4. CASE Resume \/ BreakOff
  <2>1. UNCHANGED <<updated, renamed, tool, offset, more>> /\ tool = "email_stats"
    BY <1>4 DEF Resume, BreakOff, gerrit
  <2> QED
    BY <2>1 DEF WalkInv, WithinInv, Distinct, Listed
<1>5. CASE Falter \/ Fail \/ Hang \/ UNCHANGED pagesVars
  <2>1. /\ progress' \in {progress, "dead", "waiting"}
        /\ UNCHANGED <<updated, renamed, tool, offset, more>>
    BY <1>5 DEF Falter, Fail, Hang, pagesVars, gerrit, walk
  <2> QED
    BY <2>1 DEF WalkInv, WithinInv, Distinct, Listed
<1> QED
  BY <1>1, <1>2, <1>3, <1>4, <1>5 DEF PagesNext

\* A page, or the part of it that comes, brings a walk nearer to its end: to a later offset that is below the
\* number of changes, or to an older key.  Nothing brings it back.
Nearer ==
    /\ offset <= offset' /\ last' <= last
    /\ progress # "asking" => UNCHANGED walk
    /\ UNCHANGED gerrit /\ progress' = "asking" =>
        /\ tool = "owners" => renamed \/ (offset < offset' /\ offset' < Cardinality(Listed))
        /\ tool = "email_stats" => last' < last

LEMMA ResumeNearer ==
    ASSUME PagesInv, Resume
    PROVE  last' <= last /\ (progress' = "asking" => last' < last)
<1> DEFINE page == Slice(Remaining, 0, PageSize)
<1>1. /\ last \in Nat /\ PagesTypeOK /\ PageSize \in Nat \ {0}
      /\ \A c \in Changes : updated[c] \in Nat
  BY ChangesFinite, PagesAssumption DEF PagesInv, PagesTypeOK
<1>2. CASE progress' = "dead" /\ last' = last
  BY <1>1, <1>2
<1>3. CASE last' = Key(page) /\ (IF LastPage(page) THEN progress' = "done" ELSE progress' = progress)
  <2>1. page \in SUBSET Remaining /\ Remaining \in SUBSET Changes
    BY SliceIs DEF Remaining, Listed
  <2> HIDE DEF page
  <2>2. CASE page = {}
    <3>1. last' = last
      BY <1>3, <2>2 DEF Key
    <3>2. LastPage(page)
      <4>1. Cardinality(page) = 0
        BY <2>2, FS_EmptySet
      <4> QED
        BY <1>1, <4>1 DEF LastPage
    <3> QED
      BY <1>1, <1>3, <3>1, <3>2
  <2>3. CASE page # {}
    <3>1. PICK c \in page : Key(page) = updated[c]
      BY <1>1, <2>1, <2>3, KeyIsLeast
    <3>2. updated[c] < last /\ updated[c] \in Nat
      BY <1>1, <2>1, <3>1 DEF Remaining
    <3> QED
      BY <1>1, <1>3, <3>1, <3>2
  <2> QED
    BY <2>2, <2>3
<1> QED
  BY <1>2, <1>3 DEF Resume

\* So does an answer that breaks off, unless it does so at once.
LEMMA BreakOffNearer ==
    ASSUME PagesInv, BreakOff, ~UNCHANGED pagesVars
    PROVE  last' <= last /\ (progress' = "asking" => last' < last)
<1>1. /\ last \in Nat /\ PagesTypeOK
      /\ \A c \in Changes : updated[c] \in Nat
  BY ChangesFinite, PagesAssumption DEF PagesInv, PagesTypeOK
<1>2. CASE progress' = "dead" /\ last' = last
  BY <1>1, <1>2
<1>3. ASSUME NEW n \in 0..PageSize, NEW rows, rows = Slice(Remaining, 0, n),
             Got(rows), last' = Key(rows), Collect(rows), progress' = progress
      PROVE  last' < last
  <2>1. rows \in SUBSET Remaining /\ Remaining \in SUBSET Changes
    BY <1>3, SliceIs DEF Remaining, Listed
  <2>2. rows # {}
    <3> SUFFICES ASSUME rows = {} PROVE FALSE
      OBVIOUS
    <3>1. last' = last /\ atcs' = atcs
      BY <1>3 DEF Key, Collect
    <3>2. fetched' = fetched
      BY <1>1, <1>3 DEF Got, PagesTypeOK
    <3> QED
      BY <1>3, <3>1, <3>2 DEF BreakOff, pagesVars, walk
  <2>3. PICK c \in rows : Key(rows) = updated[c]
    BY <1>1, <2>1, <2>2, KeyIsLeast
  <2>4. updated[c] < last
    BY <2>1, <2>3 DEF Remaining
  <2> QED
    BY <1>3, <2>3, <2>4
<1>4. ASSUME NEW n \in 0..PageSize, NEW rows, rows = Slice(Remaining, 0, n),
             Got(rows), last' = Key(rows), Collect(rows), progress' = progress
      PROVE  last' <= last /\ last' < last
  <2>1. last' < last
    BY <1>3, <1>4
  <2>2. last' \in Nat
    <3>1. rows \in SUBSET Changes
      BY <1>4, SliceIs DEF Remaining, Listed
    <3>2. CASE rows = {}
      BY <1>1, <1>4, <3>2 DEF Key
    <3>3. CASE rows # {}
      <4>1. PICK c \in rows : Key(rows) = updated[c]
        BY <1>1, <3>1, <3>3, KeyIsLeast
      <4> QED
        BY <1>1, <1>4, <3>1, <4>1
    <3> QED
      BY <3>2, <3>3
  <2> QED
    BY <1>1, <2>1, <2>2
<1> QED
  BY <1>2, <1>4 DEF BreakOff

LEMMA NearerStep == PagesInv /\ WalkInv /\ [PagesNext]_pagesVars => [Nearer]_pagesVars
<1> SUFFICES ASSUME PagesInv, WalkInv, PagesNext, ~UNCHANGED pagesVars PROVE Nearer
  OBVIOUS
<1>1. offset \in Nat /\ last \in Nat /\ updated \in [Changes -> Nat] /\ moves \in Nat
  BY ChangesFinite DEF PagesInv, PagesTypeOK
<1>2. ASSUME NEW e \in Changes, Touch(e)
      PROVE  Nearer
  <2>1. UNCHANGED walk /\ UNCHANGED <<offset, last>>
    BY <1>2 DEF Touch, walk
  <2>2. updated' # updated
    <3>1. updated'[e] = Cardinality(Changes) + moves + 1
      BY <1>1, <1>2 DEF Touch
    <3>2. updated[e] <= Cardinality(Changes) + moves /\ Cardinality(Changes) \in Nat
      BY ChangesFinite DEF PagesInv, AgesInv
    <3> QED
      BY <1>1, <3>1, <3>2
  <2> QED
    BY <1>1, <2>1, <2>2 DEF Nearer, gerrit
<1>3. CASE RenameRepo
  <2>1. UNCHANGED walk /\ UNCHANGED <<offset, last>> /\ renamed' # renamed
    BY <1>3 DEF RenameRepo, walk
  <2> QED
    BY <1>1, <2>1 DEF Nearer, gerrit
<1>4. CASE Fetch
  <2>1. /\ progress = "asking" /\ tool = "owners" /\ last' = last
        /\ \/ more' /\ offset' = offset + PageSize /\ progress' = "asking"
           \/ ~more' /\ progress' = "done" /\ offset' = offset
    BY <1>4 DEF Fetch
  <2>2. offset <= offset' /\ last' <= last
    BY <1>1, <2>1, PagesAssumption
  <2>3. progress' = "asking" => renamed \/ (offset < offset' /\ offset' < Cardinality(Listed))
    BY <1>4, <2>1, FetchWithin
  <2> QED
    BY <2>1, <2>2, <2>3 DEF Nearer
<1>5. CASE Resume
  <2>1. progress = "asking" /\ tool = "email_stats" /\ offset' = offset
    BY <1>5 DEF Resume
  <2>2. last' <= last /\ (progress' = "asking" => last' < last)
    BY <1>5, ResumeNearer
  <2> QED
    BY <1>1, <2>1, <2>2 DEF Nearer
<1>7. CASE BreakOff
  <2>1. progress = "asking" /\ tool = "email_stats" /\ offset' = offset
    BY <1>7 DEF BreakOff
  <2>2. last' <= last /\ (progress' = "asking" => last' < last)
    BY <1>7, BreakOffNearer
  <2> QED
    BY <1>1, <2>1, <2>2 DEF Nearer
<1>8. CASE Falter
  <2>1. UNCHANGED walk /\ UNCHANGED <<offset, last>> /\ answers' # answers
    BY <1>8 DEF Falter, walk, PagesInv, PagesTypeOK
  <2> QED
    BY <1>1, <2>1 DEF Nearer, gerrit
<1>6. CASE Fail \/ Hang
  <2>1. progress = "asking" /\ progress' \in {"dead", "waiting"} /\ UNCHANGED <<offset, last>>
    BY <1>6 DEF Fail, Hang
  <2> QED
    BY <1>1, <2>1 DEF Nearer
<1> QED
  BY <1>2, <1>3, <1>4, <1>5, <1>6, <1>7, <1>8 DEF PagesNext

\* owners.py:340-350 and email_stats.py:121-153: every page that does not end a
\* walk takes it nearer to its end, whatever is updated or merged meanwhile.
\* There are finitely many changes, so a walk is endless only when an answer
\* never comes, when answers to email_stats.py break off at once from some point
\* on, or when owners.py asks on for a repository that has been renamed.
THEOREM PagesNearEnd == PagesSpec => [][Nearer]_pagesVars
<1>1. PagesSpec => []WalkInv
  BY WalkStart, PagesInvariant, WalkStep, PTL DEF PagesSpec
<1> QED
  BY <1>1, PagesInvariant, NearerStep, PTL DEF PagesSpec
=============================================================================
