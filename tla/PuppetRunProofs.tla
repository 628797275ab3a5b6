-------------------------- MODULE PuppetRunProofs ---------------------------
(* The order of versions, the exclusion of disabled hosts and the          *)
(* separation of the scripts, for any hosts, forks and bounds.             *)
EXTENDS PuppetRun, FiniteSetTheorems, TLAPS

\* Where a script is allowed to go keeps the types of its books.
LEMMA GoToTyped ==
    ASSUME TypeOK, NEW s \in Scripts, NEW place \in Plays \cup {"idle", "update"},
           GoTo(s, place)
    PROVE  /\ pc' \in [Scripts -> Plays \cup {"idle", "update"}]
           /\ excluded' \in [Scripts -> SUBSET Disableable]
           /\ todo' \in [Scripts -> SUBSET Hosts]
           /\ busy' \in [Scripts -> SUBSET Hosts]
           /\ failed' \in [Scripts -> SUBSET Hosts]
<1>1. pc' \in [Scripts -> Plays \cup {"idle", "update"}]
  BY DEF TypeOK, GoTo
<1>2. excluded' \in [Scripts -> SUBSET Disableable]
  BY DEF TypeOK, GoTo
<1>3. \A p \in Plays : Targets[p] \subseteq Hosts
  BY HostsAssumption DEF Targets, Rest, Plays
<1>4. todo' \in [Scripts -> SUBSET Hosts]
  BY <1>3 DEF TypeOK, GoTo
<1>5. busy' \in [Scripts -> SUBSET Hosts] /\ failed' \in [Scripts -> SUBSET Hosts]
  BY DEF TypeOK, GoTo
<1> QED
  BY <1>1, <1>2, <1>4, <1>5

LEMMA FaultTyped ==
    ASSUME TypeOK, Fault
    PROVE  faults' \in 0..MaxFaults
BY BoundsAssumption DEF TypeOK, Fault

\* The variables of "versions" after a step of this kind.
VersionsTyped ==
    /\ pinned' \in 0..MaxHead
    /\ ref' \in [Git \cup {Review} -> 0..MaxHead]
    /\ left' \in [Scripts -> SUBSET (Hosts \X (0..MaxHead))]
    /\ skipped' \in SUBSET Git
    /\ overtaken' \in SUBSET Git

LEMMA AppliedTyped ==
    ASSUME TypeOK, NEW s \in Scripts, NEW hosts, NEW running \in SUBSET Hosts,
           Applied(s, hosts, running)
    PROVE  VersionsTyped
<1>1. running \X {pinned} \in SUBSET (Hosts \X (0..MaxHead))
  BY DEF TypeOK
<1>2. left' \in [Scripts -> SUBSET (Hosts \X (0..MaxHead))]
  BY <1>1 DEF TypeOK, Applied
<1>3. skipped' \in SUBSET Git /\ overtaken' \in SUBSET Git
  BY DEF TypeOK, Applied
<1>4. pinned' \in 0..MaxHead /\ ref' \in [Git \cup {Review} -> 0..MaxHead]
  BY DEF TypeOK, Applied
<1> QED
  BY <1>2, <1>3, <1>4 DEF VersionsTyped

LEMMA LeavesTyped ==
    ASSUME TypeOK, NEW s \in Scripts, NEW h \in Hosts, Leaves(s, h)
    PROVE  /\ busy' \in [Scripts -> SUBSET Hosts]
           /\ UNCHANGED <<head, wanted, checkout, emergency, pc, excluded, todo, changes>>
BY DEF TypeOK, Leaves, upstream

LEMMA FailsOnTyped ==
    ASSUME TypeOK, NEW s \in Scripts, NEW h \in Hosts, FailsOn(s, h)
    PROVE  failed' \in [Scripts -> SUBSET Hosts] /\ faults' \in 0..MaxFaults
BY FaultTyped DEF TypeOK, FailsOn

\* The places that follow are places.
LEMMA NextPlaces ==
    \A p \in Plays :
        /\ NextPlaybook[p] \in Plays \cup {"idle"}
        /\ NextPlay[p] \in Plays \cup {"idle"}
        /\ p \in RunAllPlaces =>
            NextPlaybook[p] \in RunAllPlaces /\ NextPlay[p] \in RunAllPlaces
        /\ p \in InfracloudPlaces =>
            NextPlaybook[p] \in InfracloudPlaces /\ NextPlay[p] \in InfracloudPlaces
<1>1. Plays = {"master", "git", "review", "afs", "others", "baremetal", "controller", "compute"}
  BY DEF Plays, Targets
<1>2. \A p \in Plays :
        /\ NextPlaybook[p] \in Plays \cup {"idle"}
        /\ p \in RunAllPlaces => NextPlaybook[p] \in RunAllPlaces
        /\ p \in InfracloudPlaces => NextPlaybook[p] \in InfracloudPlaces
  BY <1>1 DEF NextPlaybook, RunAllPlaces, InfracloudPlaces
<1>3. \A p \in Plays : NextPlay[p] =
        IF p = "master" THEN "git"
        ELSE IF p = "git" THEN "review"
        ELSE IF p = "baremetal" THEN "controller"
        ELSE IF p = "controller" THEN "compute" ELSE NextPlaybook[p]
  BY <1>1 DEF NextPlay, NextPlaybook
<1> QED
  BY <1>1, <1>2, <1>3 DEF RunAllPlaces, InfracloudPlaces

\* gerrit's play follows that of the git servers, and nothing else.
LEMMA ReviewNext ==
    \A p \in Plays :
        NextPlaybook[p] # "review" /\ (NextPlay[p] = "review" => p = "git")
<1>1. Plays = {"master", "git", "review", "afs", "others", "baremetal", "controller", "compute"}
  BY DEF Plays, Targets
<1>2. \A p \in Plays : NextPlaybook[p] # "review"
  BY <1>1 DEF NextPlaybook
<1>3. \A p \in Plays \ {"git"} : NextPlay[p] =
        IF p = "master" THEN "git"
        ELSE IF p = "baremetal" THEN "controller"
        ELSE IF p = "controller" THEN "compute" ELSE NextPlaybook[p]
  BY <1>1 DEF NextPlay, NextPlaybook
<1> QED
  BY <1>1, <1>2, <1>3

\* Types, for every step of the scripts and of their environment.
THEOREM TypeCorrect == Spec => []TypeOK
<1> USE DEF upstream, groups, scripts, versions
<1>1. Init => TypeOK
  <2> SUFFICES ASSUME Init PROVE TypeOK
    OBVIOUS
  <2>1. 0 \in 0..MaxHead /\ 0 \in 0..MaxChanges /\ 0 \in 0..MaxFaults
    BY BoundsAssumption
  <2>2. pc \in [Scripts -> Plays \cup {"idle", "update"}]
    BY DEF Init
  <2>3. ref \in [Git \cup {Review} -> 0..MaxHead]
    BY <2>1 DEF Init
  <2> QED
    BY <2>1, <2>2, <2>3 DEF Init, TypeOK
<1>2. ASSUME TypeOK, [Next]_vars
      PROVE  TypeOK'
  <2>1. CASE MergeProjectConfig
    BY <1>2, <2>1, BoundsAssumption DEF TypeOK, MergeProjectConfig
  <2>2. CASE MergeGroups
    BY <1>2, <2>2, BoundsAssumption DEF TypeOK, MergeGroups
  <2>3. CASE EditEmergency
    BY <1>2, <2>3, BoundsAssumption DEF TypeOK, EditEmergency
  <2>4. ASSUME NEW s \in Scripts, Start(s)
        PROVE  TypeOK'
    <3>1. PICK p \in Plays \cup {"idle", "update"} : GoTo(s, p)
      BY <2>4 DEF Start, Plays, Targets
    <3> QED
      BY <1>2, <2>4, <3>1, GoToTyped DEF TypeOK, Start
  <2>5. CASE Update
    <3>1. "all" \in Scripts /\ "master" \in Plays
      BY ScriptsAssumption DEF Plays, Targets
    <3>2. checkout' \in SUBSET Disableable /\ faults' \in 0..MaxFaults
      BY <1>2, <2>5, FaultTyped DEF TypeOK, Update
    <3>3. trouble' \in SUBSET {"update", "master", "inventory"}
      BY <1>2, <2>5 DEF TypeOK, Update
    <3> QED
      BY <1>2, <2>5, <3>1, <3>2, <3>3, GoToTyped DEF TypeOK, Update
  <2>6. CASE MasterDone
    <3>1. "all" \in Scripts /\ Master \in Hosts
      BY ScriptsAssumption, HostsAssumption
    <3>2. /\ generated' \in SUBSET Disableable
          /\ lapsed' \in BOOLEAN
          /\ trouble' \in SUBSET {"update", "master", "inventory"}
          /\ faults' \in 0..MaxFaults
      BY <1>2, <2>6, FaultTyped DEF TypeOK, MasterDone, Expand
    <3> QED
      BY <1>2, <2>6, <3>1, <3>2, LeavesTyped DEF TypeOK, MasterDone
  <2>7. CASE MasterFails
    <3>1. "all" \in Scripts /\ Master \in Hosts
      BY ScriptsAssumption, HostsAssumption
    <3>2. /\ installed' \in SUBSET Disableable
          /\ generated' \in SUBSET Disableable
      BY <1>2, <2>7 DEF TypeOK, MasterFails
    <3>3. trouble' \in SUBSET {"update", "master", "inventory"}
      BY <1>2, <2>7 DEF TypeOK, MasterFails
    <3>4. lapsed' \in BOOLEAN
      BY <1>2, <2>7 DEF TypeOK, MasterFails
    <3>5. failed' \in [Scripts -> SUBSET Hosts] /\ faults' \in 0..MaxFaults
      BY <1>2, <2>7, <3>1, FailsOnTyped DEF MasterFails
    <3> QED
      BY <1>2, <2>7, <3>1, <3>2, <3>3, <3>4, <3>5, LeavesTyped DEF TypeOK, MasterFails
  <2>8. ASSUME NEW s \in Scripts, NEW h \in Hosts, StartHost(s, h)
        PROVE  TypeOK'
    BY <1>2, <2>8 DEF TypeOK, StartHost
  <2>9. ASSUME NEW s \in Scripts, NEW h \in Hosts, HostDone(s, h)
        PROVE  TypeOK'
    <3>1. VersionsTyped
      BY <1>2, <2>9, AppliedTyped DEF HostDone
    <3> QED
      BY <1>2, <2>9, <3>1, LeavesTyped DEF TypeOK, HostDone, VersionsTyped
  <2>10. ASSUME NEW s \in Scripts, NEW h \in Hosts, HostFails(s, h)
         PROVE  TypeOK'
    <3>1. Applied(s, {h}, {}) \/ Applied(s, {}, {h}) \/ UNCHANGED versions
      BY <2>10 DEF HostFails
    <3>2. VersionsTyped
      <4>1. CASE Applied(s, {h}, {}) \/ Applied(s, {}, {h})
        BY <1>2, <4>1, AppliedTyped
      <4>2. CASE UNCHANGED versions
        BY <1>2, <4>2 DEF TypeOK, VersionsTyped
      <4> QED
        BY <3>1, <4>1, <4>2
    <3>3. failed' \in [Scripts -> SUBSET Hosts] /\ faults' \in 0..MaxFaults
      BY <1>2, <2>10, FailsOnTyped DEF HostFails
    <3>4. /\ busy' \in [Scripts -> SUBSET Hosts]
          /\ UNCHANGED <<head, wanted, checkout, emergency, pc, excluded, todo, changes>>
      BY <1>2, <2>10, LeavesTyped DEF HostFails
    <3>5. UNCHANGED <<installed, generated, lapsed, trouble>>
      BY <2>10 DEF HostFails
    <3> QED
      BY <1>2, <3>2, <3>3, <3>4, <3>5 DEF TypeOK, VersionsTyped
  <2>11. ASSUME NEW s \in Scripts, EndPlay(s)
         PROVE  TypeOK'
    <3>1. PICK p \in Plays \cup {"idle", "update"} : GoTo(s, p)
      BY <2>11, NextPlaces DEF EndPlay
    <3> QED
      BY <1>2, <2>11, <3>1, GoToTyped DEF TypeOK, EndPlay
  <2>12. ASSUME NEW s \in Scripts, Stopped(s)
         PROVE  TypeOK'
    <3>1. PICK p \in Plays \cup {"idle", "update"} : GoTo(s, p)
      BY <2>12, NextPlaces DEF Stopped
    <3>2. PICK hosts \in SUBSET busy[s] :
              \E running \in SUBSET (busy[s] \ hosts) : Applied(s, hosts, running)
      BY <2>12 DEF Stopped
    <3>b. SUBSET (busy[s] \ hosts) \subseteq SUBSET Hosts
      BY <1>2 DEF TypeOK
    <3>a. VersionsTyped
      BY <1>2, <3>2, <3>b, AppliedTyped
    <3>3. faults' \in 0..MaxFaults
      BY <1>2, <2>12, FaultTyped DEF Stopped
    <3> QED
      BY <1>2, <2>12, <3>1, <3>a, <3>3, GoToTyped DEF TypeOK, Stopped, VersionsTyped
  <2>14. ASSUME NEW s \in Scripts, NEW h \in Hosts, NEW v \in 0..MaxHead, LeftEnds(s, h, v)
         PROVE  TypeOK'
    <3>1. left' \in [Scripts -> SUBSET (Hosts \X (0..MaxHead))]
      BY <1>2, <2>14 DEF TypeOK, LeftEnds
    <3>2. ref' \in [Git \cup {Review} -> 0..MaxHead] /\ overtaken' \in SUBSET Git
      BY <1>2, <2>14 DEF TypeOK, LeftEnds
    <3> QED
      BY <1>2, <2>14, <3>1, <3>2 DEF TypeOK, LeftEnds
  <2>13. CASE UNCHANGED vars
    BY <1>2, <2>13 DEF TypeOK, vars
  <2> QED
    BY <1>2, <2>1, <2>2, <2>3, <2>4, <2>5, <2>6, <2>7, <2>8, <2>9, <2>10, <2>11, <2>12, <2>13,
       <2>14 DEF Next, ScriptStep
<1> QED
  BY <1>1, <1>2, PTL DEF Spec

-----------------------------------------------------------------------------
(* The books of the plays.                                                 *)

LEMMA GoToKeepsBooks ==
    ASSUME TypeOK, PlaysInv, NEW s \in Scripts, NEW place \in Places(s), GoTo(s, place)
    PROVE  PlaysInv'
<1> SUFFICES ASSUME NEW t \in Scripts
             PROVE  PlaysInv!(t)'
  BY DEF PlaysInv
<1>1. CASE t # s
  <2>1. UNCHANGED <<pc[t], excluded[t], todo[t], busy[t], failed[t]>>
    BY <1>1 DEF GoTo, TypeOK
  <2> QED
    BY <2>1 DEF PlaysInv
<1>2. CASE t = s
  <2>1. /\ pc'[s] = place
        /\ busy'[s] = {}
        /\ failed'[s] = {}
        /\ todo'[s] = IF place \in Plays THEN Targets[place] \ excluded'[s] ELSE {}
    BY DEF GoTo, TypeOK
  <2> QED
    BY <1>2, <2>1 DEF Places
<1> QED
  BY <1>1, <1>2

\* A host goes from one book of its play to another.
LEMMA HostKeepsBooks ==
    ASSUME TypeOK, PlaysInv, TypeOK', NEW s \in Scripts, NEW h \in Hosts,
           UNCHANGED <<pc, excluded>>,
           \/ /\ h \in todo[s]
              /\ todo' = [todo EXCEPT ![s] = @ \ {h}]
              /\ busy' = [busy EXCEPT ![s] = @ \cup {h}]
              /\ failed' = failed
           \/ /\ h \in busy[s]
              /\ todo' = todo
              /\ busy' = [busy EXCEPT ![s] = @ \ {h}]
              /\ failed' \in {failed, [failed EXCEPT ![s] = @ \cup {h}]}
    PROVE  PlaysInv'
<1>a. (h \in todo[s] /\ failed' = failed) \/ (h \in busy[s] /\ todo' = todo)
  OBVIOUS
<1> SUFFICES ASSUME NEW t \in Scripts
             PROVE  PlaysInv!(t)'
  BY DEF PlaysInv
<1>0. PlaysInv!(t)
  BY DEF PlaysInv
<1>1. CASE t # s
  <2>1. UNCHANGED <<pc[t], excluded[t], todo[t], busy[t], failed[t]>>
    BY <1>1 DEF TypeOK
  <2> QED
    BY <1>0, <2>1
<1>2. CASE t = s
  <2>1. CASE h \in todo[s] /\ failed' = failed
    BY <1>0, <1>2, <2>1 DEF TypeOK
  <2>2. CASE h \in busy[s] /\ todo' = todo
    <3>1. h \notin todo[s] \/ busy' = [busy EXCEPT ![s] = @ \ {h}]
      BY <2>2 DEF TypeOK
    <3>2. busy'[s] \subseteq busy[s] /\ failed'[s] \subseteq failed[s] \cup {h}
      BY <2>2, <3>1 DEF TypeOK
    <3>3. h \notin busy'[s] \/ failed'[s] = failed[s]
      BY <2>2 DEF TypeOK
    <3> QED
      BY <1>0, <1>2, <2>2, <3>2, <3>3
  <2> QED
    BY <1>a, <2>1, <2>2, Zenon
<1> QED
  BY <1>1, <1>2, Zenon

LEMMA BooksKept == TypeOK /\ TypeOK' /\ PlaysInv /\ [Next]_vars => PlaysInv'
<1> SUFFICES ASSUME TypeOK, TypeOK', PlaysInv, [Next]_vars
             PROVE  PlaysInv'
  OBVIOUS
<1> USE DEF upstream, groups, scripts, versions
<1>a. "all" \in Scripts /\ Scripts \subseteq {"all", "infracloud"} /\ Master \in Hosts
  BY ScriptsAssumption, HostsAssumption
<1>b. ASSUME NEW s \in Scripts, pc[s] \in Plays
      PROVE  NextPlaybook[pc[s]] \in Places(s) /\ NextPlay[pc[s]] \in Places(s) /\ "idle" \in Places(s)
  <2>1. pc[s] \in Places(s)
    BY DEF PlaysInv, Places
  <2>2. "idle" \in Places(s)
    BY DEF Places, RunAllPlaces, InfracloudPlaces
  <2> QED
    BY <1>b, <2>1, <2>2, NextPlaces DEF Places
<1>1. CASE UNCHANGED scripts
  BY <1>1 DEF PlaysInv
<1>2. ASSUME NEW s \in Scripts, Start(s)
      PROVE  PlaysInv'
  <2>1. (IF s = "all" THEN "update" ELSE "baremetal") \in Places(s)
    BY DEF Places, RunAllPlaces, InfracloudPlaces
  <2> QED
    BY <1>2, <2>1, GoToKeepsBooks DEF Start
<1>3. CASE Update
  <2>1. "master" \in Places("all")
    BY DEF Places, RunAllPlaces
  <2> QED
    BY <1>a, <1>3, <2>1, GoToKeepsBooks DEF Update
<1>4. ASSUME NEW s \in Scripts, EndPlay(s)
      PROVE  PlaysInv'
  BY <1>4, <1>b, GoToKeepsBooks DEF EndPlay
<1>5. ASSUME NEW s \in Scripts, Stopped(s)
      PROVE  PlaysInv'
  BY <1>5, <1>b, GoToKeepsBooks DEF Stopped
<1>6. ASSUME NEW s \in Scripts, NEW h \in Hosts, StartHost(s, h)
      PROVE  PlaysInv'
  BY <1>6, HostKeepsBooks DEF StartHost
<1>7. ASSUME NEW s \in Scripts, NEW h \in Hosts, Leaves(s, h),
             failed' = failed \/ FailsOn(s, h)
      PROVE  PlaysInv'
  BY <1>7, HostKeepsBooks DEF Leaves, FailsOn
<1>8. CASE MasterDone
  BY <1>a, <1>7, <1>8 DEF MasterDone
<1>9. CASE MasterFails
  BY <1>a, <1>7, <1>9 DEF MasterFails
<1>10. ASSUME NEW s \in Scripts, NEW h \in Hosts, HostDone(s, h) \/ HostFails(s, h)
       PROVE  PlaysInv'
  BY <1>7, <1>10 DEF HostDone, HostFails
<1>11. CASE MergeProjectConfig \/ MergeGroups \/ EditEmergency
  BY <1>1, <1>11 DEF MergeProjectConfig, MergeGroups, EditEmergency
<1>12. CASE UNCHANGED vars
  BY <1>1, <1>12 DEF vars
<1>13. ASSUME NEW s \in Scripts, NEW h \in Hosts, NEW v \in 0..MaxHead, LeftEnds(s, h, v)
       PROVE  PlaysInv'
  BY <1>1, <1>13 DEF LeftEnds
<1> QED
  BY <1>2, <1>3, <1>4, <1>5, <1>6, <1>8, <1>9, <1>10, <1>11, <1>12, <1>13
     DEF Next, ScriptStep

\* What is left behind on a host is of a play of its script.
LEMMA AppliedLeavesPlays ==
    ASSUME TypeOK, PlaysInv, LeftOfPlays, NEW s \in Scripts, NEW hosts,
           NEW running \in SUBSET busy[s], Applied(s, hosts, running)
    PROVE  LeftOfPlays'
<1> SUFFICES ASSUME NEW t \in Scripts, NEW l \in left'[t]
             PROVE  \E p \in Plays \cap Places(t) : l[1] \in Targets[p]
  BY DEF LeftOfPlays, Plays
<1>1. left' = [left EXCEPT ![s] = @ \cup (running \X {pinned})]
  BY DEF Applied
<1>2. CASE l \in left[t]
  BY <1>2 DEF LeftOfPlays
<1>3. CASE l \notin left[t]
  <2>1. t = s /\ l[1] \in busy[s]
    BY <1>1, <1>3 DEF TypeOK
  <2> QED
    BY <2>1 DEF PlaysInv
<1> QED
  BY <1>2, <1>3

LEMMA LeftKept == TypeOK /\ PlaysInv /\ LeftOfPlays /\ [Next]_vars => LeftOfPlays'
<1> SUFFICES ASSUME TypeOK, PlaysInv, LeftOfPlays, [Next]_vars
             PROVE  LeftOfPlays'
  OBVIOUS
<1> USE DEF versions
<1>1. CASE left' = left
  BY <1>1 DEF LeftOfPlays
<1>2. ASSUME NEW s \in Scripts, NEW h \in Hosts, HostDone(s, h)
      PROVE  LeftOfPlays'
  BY <1>2, AppliedLeavesPlays DEF HostDone
<1>3. ASSUME NEW s \in Scripts, NEW h \in Hosts, HostFails(s, h)
      PROVE  LeftOfPlays'
  <2>1. {h} \in SUBSET busy[s]
    BY <1>3 DEF HostFails, Leaves
  <2>2. Applied(s, {h}, {}) \/ Applied(s, {}, {h}) \/ left' = left
    BY <1>3 DEF HostFails
  <2> QED
    BY <1>1, <2>1, <2>2, AppliedLeavesPlays
<1>4. ASSUME NEW s \in Scripts, Stopped(s)
      PROVE  LeftOfPlays'
  <2>1. PICK hosts \in SUBSET busy[s] :
            \E running \in SUBSET (busy[s] \ hosts) : Applied(s, hosts, running)
    BY <1>4 DEF Stopped
  <2>2. SUBSET (busy[s] \ hosts) \subseteq SUBSET busy[s]
    OBVIOUS
  <2> QED
    BY <2>1, <2>2, AppliedLeavesPlays
<1>5. ASSUME NEW s \in Scripts, NEW h \in Hosts, NEW v \in 0..MaxHead, LeftEnds(s, h, v)
      PROVE  LeftOfPlays'
  <2>1. \A t \in Scripts : left'[t] \subseteq left[t]
    BY <1>5 DEF LeftEnds, TypeOK
  <2> QED
    BY <2>1 DEF LeftOfPlays
<1>6. CASE MergeProjectConfig \/ MergeGroups \/ EditEmergency \/ UNCHANGED vars
  BY <1>1, <1>6 DEF MergeProjectConfig, MergeGroups, EditEmergency, vars
<1>7. ASSUME NEW s \in Scripts, Start(s) \/ EndPlay(s)
      PROVE  LeftOfPlays'
  BY <1>1, <1>7 DEF Start, EndPlay
<1>8. CASE Update \/ MasterDone \/ MasterFails
  BY <1>1, <1>8 DEF Update, MasterDone, MasterFails
<1>9. ASSUME NEW s \in Scripts, NEW h \in Hosts, StartHost(s, h)
      PROVE  LeftOfPlays'
  BY <1>1, <1>9 DEF StartHost
<1> QED
  BY <1>2, <1>3, <1>4, <1>5, <1>6, <1>7, <1>8, <1>9 DEF Next, ScriptStep

-----------------------------------------------------------------------------
(* The order of versions.                                                  *)

\* Only one play has gerrit for a host, and only run_all.sh has that play.
LEMMA ReviewPlay ==
    ASSUME TypeOK, PlaysInv, NEW s \in Scripts, Review \in busy[s]
    PROVE  s = "all" /\ pc[s] = "review"
<1>1. pc[s] \in Plays /\ Review \in Targets[pc[s]]
  BY DEF PlaysInv
<1>2. \A p \in Plays : Review \in Targets[p] => p = "review"
  BY HostsAssumption DEF Plays, Targets, Rest
<1> QED
  BY <1>1, <1>2 DEF PlaysInv, Places, InfracloudPlaces

\* Applying a version keeps gerrit behind the git servers, and what is left
\* behind too.
LEMMA AppliedInOrder ==
    ASSUME TypeOK, PlaysInv, VersionsInv, NEW s \in Scripts, NEW hosts \in SUBSET busy[s],
           NEW running \in SUBSET busy[s], Applied(s, hosts, running), head' = head
    PROVE  VersionsGrow' /\ LeftInOrder' /\ GitBeforeGerrit'
<1>1. pinned' = pinned /\ pinned \in Nat /\ head \in Nat
  BY DEF Applied, TypeOK
<1>2. \A h \in Git \cup {Review} : ref[h] \in Nat /\ ref'[h] = IF h \in hosts THEN pinned ELSE ref[h]
  BY DEF Applied, TypeOK
<1>3. DOMAIN ref = Git \cup {Review} /\ DOMAIN ref' = Git \cup {Review}
  BY DEF Applied, TypeOK
<1>4. VersionsGrow'
  BY <1>1, <1>2, <1>3 DEF VersionsGrow, VersionsInv
<1>a. \A g \in Git : ref[g] <= ref'[g] /\ (g \notin overtaken' => g \notin overtaken \/ ref'[g] = pinned)
  BY <1>1, <1>2, <1>3 DEF Applied, VersionsInv, VersionsGrow
<1>b. Review \in hosts \cup running =>
        \A g \in Git \ (excluded["all"] \cup overtaken') : ref'[g] = pinned
  <2>1. Review \in hosts \cup running =>
            \A g \in Git \ (excluded["all"] \cup overtaken) : ref[g] = pinned
    BY ReviewPlay DEF VersionsInv, ReviewTurn
  <2> QED
    BY <1>2, <1>a, <2>1
<1>c. /\ Review \in hosts => skipped' = excluded["all"] \cap Git
      /\ Review \notin hosts =>
            /\ skipped \subseteq skipped'
            /\ Review \in running => excluded["all"] \cap Git \subseteq skipped'
  BY ReviewPlay DEF Applied
\* Nothing is above a git server that counts.
<1>d. \A v \in Nat, g \in Git \ (skipped' \cup overtaken') :
        v <= pinned /\ (\A k \in Git \ (skipped \cup overtaken) : v <= ref[k]) => v <= ref'[g]
  <2> SUFFICES ASSUME NEW v \in Nat, NEW g \in Git \ (skipped' \cup overtaken'), v <= pinned,
                      \A k \in Git \ (skipped \cup overtaken) : v <= ref[k]
               PROVE  v <= ref'[g]
    OBVIOUS
  <2>1. CASE Review \in hosts \/ ref'[g] = pinned
    BY <1>b, <1>c, <2>1
  <2>2. CASE Review \notin hosts /\ ref'[g] # pinned
    <3>1. g \notin skipped \cup overtaken
      BY <1>a, <1>c, <2>2
    <3> QED
      BY <1>2, <2>2, <3>1
  <2> QED
    BY <2>1, <2>2
<1>5. LeftInOrder'
  <2> SUFFICES ASSUME NEW t \in Scripts, NEW l \in left'[t]
               PROVE  /\ l[2] <= pinned
                      /\ l[1] = Review => \A g \in Git \ (skipped' \cup overtaken') : l[2] <= ref'[g]
    BY <1>1 DEF LeftInOrder
  <2>1. CASE l \in left[t]
    <3>1. l[2] \in Nat /\ l[2] <= pinned
      BY <2>1 DEF TypeOK, VersionsInv, LeftInOrder
    <3>2. l[1] = Review => \A g \in Git \ (skipped \cup overtaken) : l[2] <= ref[g]
      BY <2>1 DEF VersionsInv, LeftInOrder
    <3> QED
      BY <1>d, <3>1, <3>2
  <2>2. CASE l \notin left[t]
    <3>1. l[1] \in running /\ l[2] = pinned
      BY <2>2 DEF Applied, TypeOK
    <3>2. ASSUME l[1] = Review, NEW g \in Git \ (skipped' \cup overtaken')
          PROVE  ref'[g] = pinned
      BY <1>b, <1>c, <3>1, <3>2
    <3> QED
      BY <1>1, <3>1, <3>2
  <2> QED
    BY <2>1, <2>2
<1>6. GitBeforeGerrit'
  <2>1. CASE Review \in hosts
    <3>1. ref'[Review] = pinned
      BY <1>2, <2>1
    <3>2. \A g \in Git \ (skipped' \cup overtaken') : ref'[g] = pinned
      BY <1>b, <1>c, <2>1
    <3> QED
      BY <1>1, <3>1, <3>2 DEF GitBeforeGerrit
  <2>2. CASE Review \notin hosts
    <3>1. ref'[Review] = ref[Review] /\ ref[Review] \in Nat /\ ref[Review] <= pinned
      BY <1>2, <1>3, <2>2 DEF VersionsInv, VersionsGrow
    <3>2. \A k \in Git \ (skipped \cup overtaken) : ref[Review] <= ref[k]
      BY DEF VersionsInv, GitBeforeGerrit
    <3> QED
      BY <1>d, <3>1, <3>2 DEF GitBeforeGerrit
  <2> QED
    BY <2>1, <2>2
<1> QED
  BY <1>4, <1>5, <1>6

\* Going to another place keeps the two turns, if gerrit's comes only when the
\* git servers are done.
LEMMA GoToInTurn ==
    ASSUME TypeOK, VersionsInv, NEW s \in Scripts, NEW place, GoTo(s, place),
           pinned' = pinned,
           \A g \in Git : (ref'[g] = ref[g] /\ (g \in overtaken => g \in overtaken'))
                         \/ ref'[g] = pinned,
           s = "all" /\ place = "review" =>
                \A g \in Git \ (excluded["all"] \cup overtaken) : ref[g] = pinned
    PROVE  GitTurn' /\ ReviewTurn'
<1>1. CASE s = "all"
  <2>1. pc'["all"] = place
    BY <1>1 DEF GoTo, TypeOK
  <2>2. place = "git" => todo'["all"] = Git \ excluded'["all"]
    <3>1. "git" \in Plays /\ Targets["git"] = Git
      BY DEF Plays, Targets
    <3>2. place \in Plays => todo'["all"] = Targets[place] \ excluded'["all"]
      BY <1>1 DEF GoTo, TypeOK
    <3> QED
      BY <3>1, <3>2
  <2>3. place = "review" => excluded'["all"] = excluded["all"]
    BY <1>1 DEF GoTo, TypeOK, Begins
  <2> QED
    BY <1>1, <2>1, <2>2, <2>3 DEF GitTurn, ReviewTurn
<1>2. CASE s # "all"
  <2>1. UNCHANGED <<pc["all"], excluded["all"], todo["all"], busy["all"], failed["all"]>>
    BY <1>2, ScriptsAssumption DEF GoTo, TypeOK
  <2> QED
    BY <2>1 DEF VersionsInv, GitTurn, ReviewTurn
<1> QED
  BY <1>1, <1>2

LEMMA VersionsKept == TypeOK /\ TypeOK' /\ PlaysInv /\ VersionsInv /\ [Next]_vars => VersionsInv'
<1> SUFFICES ASSUME TypeOK, TypeOK', PlaysInv, VersionsInv, [Next]_vars
             PROVE  VersionsInv'
  OBVIOUS
<1> USE DEF upstream, groups, scripts, versions
<1>a. "all" \in Scripts
  BY ScriptsAssumption
<1>b. UNCHANGED versions /\ head' = head => VersionsGrow' /\ LeftInOrder' /\ GitBeforeGerrit'
  BY DEF VersionsInv, VersionsGrow, LeftInOrder, GitBeforeGerrit
<1>1. ASSUME UNCHANGED <<head, scripts, versions>>
      PROVE  VersionsInv'
  BY <1>1 DEF VersionsInv, VersionsGrow, LeftInOrder, GitBeforeGerrit, GitTurn, ReviewTurn
<1>2. CASE MergeProjectConfig
  <2>1. pinned' = pinned /\ ref' = ref /\ head' = head + 1
    BY <1>2 DEF MergeProjectConfig
  <2>2. VersionsGrow'
    BY <2>1 DEF TypeOK, VersionsInv, VersionsGrow
  <2> QED
    BY <1>2, <2>2
       DEF MergeProjectConfig, VersionsInv, LeftInOrder, GitBeforeGerrit, GitTurn, ReviewTurn
<1>3. ASSUME NEW s \in Scripts, Start(s)
      PROVE  VersionsInv'
  <2>1. PICK place \in {"update", "baremetal"} : GoTo(s, place)
    BY <1>3 DEF Start
  <2>2. GitTurn' /\ ReviewTurn'
    BY <1>3, <2>1, GoToInTurn DEF Start
  <2> QED
    BY <1>3, <1>b, <2>2 DEF Start, VersionsInv
<1>4. CASE Update
  <2>1. GitTurn' /\ ReviewTurn'
    BY <1>4, <1>a, GoToInTurn DEF Update
  <2> QED
    BY <1>4, <1>b, <2>1 DEF Update, VersionsInv
<1>5. ASSUME NEW s \in Scripts, EndPlay(s)
      PROVE  VersionsInv'
  <2>1. PICK place : GoTo(s, place) /\ place = IF GivesUp(s) THEN NextPlaybook[pc[s]] ELSE NextPlay[pc[s]]
    BY <1>5 DEF EndPlay
  <2>2. ASSUME s = "all", place = "review"
        PROVE  \A g \in Git \ (excluded["all"] \cup overtaken) : ref[g] = pinned
    <3>1. pc[s] \in Plays
      BY <1>5 DEF EndPlay
    <3>2. pc[s] = "git" /\ ~GivesUp(s)
      BY <2>1, <2>2, <3>1, ReviewNext
    <3>3. todo[s] = {} /\ busy[s] = {} /\ failed[s] = {}
      BY <1>5, <3>2 DEF EndPlay, GivesUp
    <3> QED
      BY <2>2, <3>2, <3>3 DEF VersionsInv, GitTurn
  <2>3. GitTurn' /\ ReviewTurn'
    BY <1>5, <2>1, <2>2, GoToInTurn DEF EndPlay
  <2> QED
    BY <1>5, <1>b, <2>3 DEF EndPlay, VersionsInv
<1>6. ASSUME NEW s \in Scripts, Stopped(s)
      PROVE  VersionsInv'
  <2>a. PICK hosts \in SUBSET busy[s] :
            \E running \in SUBSET (busy[s] \ hosts) : Applied(s, hosts, running)
    BY <1>6 DEF Stopped
  <2>1. PICK running \in SUBSET busy[s] : Applied(s, hosts, running)
    BY <2>a
  <2>2. PICK place : GoTo(s, place) /\ place \in {NextPlaybook[pc[s]], "idle"}
    BY <1>6 DEF Stopped
  <2>3. place # "review"
    BY <1>6, <2>2, ReviewNext DEF Stopped
  <2>4. /\ pinned' = pinned
        /\ \A g \in Git : (ref'[g] = ref[g] /\ (g \in overtaken => g \in overtaken'))
                          \/ ref'[g] = pinned
    BY <2>1 DEF Applied, TypeOK
  <2>5. GitTurn' /\ ReviewTurn'
    BY <2>2, <2>3, <2>4, GoToInTurn
  <2> QED
    BY <1>6, <2>1, <2>5, AppliedInOrder DEF Stopped, VersionsInv
<1>7. ASSUME NEW s \in Scripts, NEW h \in Hosts, StartHost(s, h)
      PROVE  VersionsInv'
  <2>1. todo'["all"] \cup busy'["all"] = todo["all"] \cup busy["all"]
    BY <1>7, <1>a DEF StartHost, TypeOK
  <2>2. GitTurn' /\ ReviewTurn'
    BY <1>7, <2>1 DEF StartHost, VersionsInv, GitTurn, ReviewTurn
  <2> QED
    BY <1>7, <1>b, <2>2 DEF StartHost, VersionsInv
<1>8. CASE MasterDone \/ MasterFails
  <2>1. pc'["all"] = "master"
    BY <1>8 DEF MasterDone, MasterFails, Leaves
  <2>2. GitTurn' /\ ReviewTurn'
    BY <2>1 DEF GitTurn, ReviewTurn
  <2>3. UNCHANGED <<ref, left, skipped, overtaken, head>> /\ pinned' \in {pinned, head}
    BY <1>8 DEF MasterDone, MasterFails, Leaves
  <2>4. VersionsGrow'
    BY <2>3 DEF VersionsInv, VersionsGrow, TypeOK
  <2>5. LeftInOrder'
    <3>1. pinned <= pinned' /\ pinned \in Nat /\ pinned' \in Nat
      BY <2>3 DEF VersionsInv, VersionsGrow, TypeOK
    <3>2. \A t \in Scripts : \A l \in left[t] : l[2] \in Nat
      BY DEF TypeOK
    <3> QED
      BY <2>3, <3>1, <3>2 DEF VersionsInv, LeftInOrder
  <2> QED
    BY <2>2, <2>3, <2>4, <2>5 DEF VersionsInv, GitBeforeGerrit
<1>9. ASSUME NEW s \in Scripts, NEW h \in Hosts, HostDone(s, h) \/ HostFails(s, h)
      PROVE  VersionsInv'
  <2>1. {h} \in SUBSET busy[s] /\ {} \in SUBSET busy[s] /\ head' = head
    BY <1>9 DEF HostDone, HostFails, Leaves
  <2>a. Applied(s, {h}, {}) \/ (HostFails(s, h) /\ (Applied(s, {}, {h}) \/ UNCHANGED versions))
    BY <1>9 DEF HostDone, HostFails
  <2>2. VersionsGrow' /\ LeftInOrder' /\ GitBeforeGerrit'
    BY <1>b, <2>1, <2>a, AppliedInOrder
  <2>3. /\ pinned' = pinned
        /\ \A g \in Git : (ref'[g] = ref[g] /\ (g \in overtaken => g \in overtaken'))
                          \/ ref'[g] = pinned
    BY <2>a DEF Applied, TypeOK
  <2>4. UNCHANGED <<pc, excluded, todo>>
    BY <1>9 DEF HostDone, HostFails, Leaves
  <2>5. ReviewTurn'
    BY <2>3, <2>4 DEF VersionsInv, ReviewTurn
  <2>6. \A g \in busy["all"] : g \in busy'["all"] \cup failed'["all"] \/ (g = h /\ HostDone(s, h))
    BY <1>9, <1>a DEF HostDone, HostFails, Leaves, FailsOn, TypeOK
  <2>7. failed["all"] \subseteq failed'["all"]
    BY <1>9, <1>a DEF HostDone, HostFails, FailsOn, TypeOK
  <2>8. HostDone(s, h) => (h \in Git => ref'[h] = pinned)
    BY DEF HostDone, Applied, TypeOK
  <2>9. GitTurn'
    <3> SUFFICES ASSUME pc["all"] = "git", NEW g \in Git \ (excluded["all"] \cup overtaken'),
                        ref'[g] # pinned
                 PROVE  g \in todo["all"] \cup busy'["all"] \cup failed'["all"]
      BY <2>3, <2>4 DEF GitTurn
    <3>1. ref[g] # pinned /\ g \notin overtaken
      BY <2>3
    <3>2. g \in todo["all"] \cup busy["all"] \cup failed["all"]
      BY <3>1 DEF VersionsInv, GitTurn
    <3> QED
      BY <2>6, <2>7, <2>8, <3>2
  <2> QED
    BY <2>2, <2>5, <2>9 DEF VersionsInv
<1>12. ASSUME NEW s \in Scripts, NEW h \in Hosts, NEW v \in 0..MaxHead, LeftEnds(s, h, v)
       PROVE  VersionsInv'
  <2>1. /\ <<h, v>> \in left[s]
        /\ UNCHANGED <<head, scripts, pinned, skipped>>
        /\ \A t \in Scripts : left'[t] \subseteq left[t]
    BY <1>12 DEF LeftEnds, TypeOK
  <2>2. /\ v \in Nat /\ v <= pinned
        /\ h = Review => \A g \in Git \ (skipped \cup overtaken) : v <= ref[g]
    BY <2>1 DEF VersionsInv, LeftInOrder
  <2>3. CASE UNCHANGED <<ref, overtaken>>
    BY <2>1, <2>3 DEF VersionsInv, VersionsGrow, LeftInOrder, GitBeforeGerrit, GitTurn, ReviewTurn
  <2>4. CASE ref' # ref \/ overtaken' # overtaken
    <3>1. /\ h \in DOMAIN ref
          /\ ref' = [ref EXCEPT ![h] = v]
          /\ overtaken' = IF v < ref[h] THEN overtaken \cup ({h} \cap Git) ELSE overtaken
      BY <1>12, <2>4 DEF LeftEnds
    <3>2. DOMAIN ref = Git \cup {Review} /\ Review \notin Git /\ h \in Git \cup {Review}
      BY <3>1, HostsAssumption DEF TypeOK
    <3>3. \A k \in Git \cup {Review} : ref[k] \in Nat /\ ref'[k] = IF k = h THEN v ELSE ref[k]
      BY <3>1, <3>2 DEF TypeOK
    <3>4. overtaken \subseteq overtaken'
      BY <3>1
    <3>5. \A g \in Git \ overtaken' : ref[g] <= ref'[g]
      BY <2>2, <3>1, <3>3
    <3>6. VersionsGrow'
      BY <2>1, <2>2, <3>2, <3>3 DEF VersionsInv, VersionsGrow, TypeOK
    <3>7. \A g \in Git \ overtaken' : ref[g] = pinned => ref'[g] = pinned
      <4> SUFFICES ASSUME NEW g \in Git \ overtaken', ref[g] = pinned
                   PROVE  ref'[g] = pinned
        OBVIOUS
      <4>1. ref[g] <= ref'[g] /\ ref[g] \in Nat /\ ref'[g] \in Nat
        BY <2>2, <3>3, <3>5
      <4>2. ref'[g] <= pinned
        BY <2>2, <3>3, <4>1
      <4> QED
        BY <4>1, <4>2
    <3>8. GitTurn' /\ ReviewTurn'
      BY <2>1, <3>4, <3>7 DEF VersionsInv, GitTurn, ReviewTurn
    <3>9. LeftInOrder'
      <4> SUFFICES ASSUME NEW t \in Scripts, NEW l \in left[t]
                   PROVE  /\ l[2] <= pinned
                          /\ l[1] = Review =>
                               \A g \in Git \ (skipped \cup overtaken') : l[2] <= ref'[g]
        BY <2>1 DEF LeftInOrder
      <4>1. /\ l[2] \in Nat /\ l[2] <= pinned
            /\ l[1] = Review => \A g \in Git \ (skipped \cup overtaken) : l[2] <= ref[g]
        BY DEF TypeOK, VersionsInv, LeftInOrder
      <4>2. \A g \in Git : ref[g] \in Nat /\ ref'[g] \in Nat
        BY <2>2, <3>3
      <4> QED
        BY <3>4, <3>5, <4>1, <4>2
    <3>10. GitBeforeGerrit'
      <4> SUFFICES ASSUME NEW g \in Git \ (skipped \cup overtaken')
                   PROVE  ref'[Review] <= ref'[g]
        BY <2>1 DEF GitBeforeGerrit
      <4>1. ref[g] <= ref'[g] /\ ref[g] \in Nat /\ ref'[g] \in Nat /\ g # Review
        BY <2>2, <3>2, <3>3, <3>5
      <4>2. ref'[Review] \in Nat /\ ref'[Review] <= ref[g]
        BY <2>2, <3>3, <3>4 DEF VersionsInv, GitBeforeGerrit
      <4> QED
        BY <4>1, <4>2
    <3> QED
      BY <3>6, <3>8, <3>9, <3>10 DEF VersionsInv
  <2> QED
    BY <2>3, <2>4
<1>10. CASE MergeGroups \/ EditEmergency
  BY <1>1, <1>10 DEF MergeGroups, EditEmergency
<1>11. CASE UNCHANGED vars
  BY <1>1, <1>11 DEF vars
<1> QED
  BY <1>2, <1>3, <1>4, <1>5, <1>6, <1>7, <1>8, <1>9, <1>10, <1>11,
     <1>12 DEF Next, ScriptStep

-----------------------------------------------------------------------------
(* The hosts that are disabled.                                            *)

LEMMA GoToKeepsGroups ==
    ASSUME TypeOK, GroupsInv, NEW s \in Scripts, NEW place, GoTo(s, place),
           UNCHANGED <<checkout, groups>>,
           s = "all" => \/ place \in {"idle", "update", "master"}
                        \/ lapsed
                        \/ installed = checkout
    PROVE  GroupsInv'
<1> USE DEF groups
<1> SUFFICES ASSUME ~lapsed
             PROVE  GroupsInv'
  BY DEF GroupsInv
<1>0. generated = installed /\ UNCHANGED <<generated, installed, checkout>>
  BY DEF GroupsInv
<1>1. CASE s = "all"
  <2>1. pc'["all"] = place /\ busy'["all"] = {}
    BY <1>1 DEF GoTo, TypeOK
  <2>2. place = "master" => Master \in todo'["all"]
    <3>1. "master" \in Plays /\ Targets["master"] = {Master}
      BY DEF Plays, Targets
    <3>2. place \in Plays => todo'["all"] = Targets[place] \ excluded'["all"]
      BY <1>1 DEF GoTo, TypeOK
    <3>3. place = "master" => excluded'["all"] = generated \cup emergency
      BY <1>1 DEF GoTo, TypeOK, Begins
    <3> QED
      BY <3>1, <3>2, <3>3, HostsAssumption DEF TypeOK
  <2>3. place \in {"afs", "others"} => generated \subseteq excluded'["all"]
    BY <1>1 DEF GoTo, TypeOK, Begins
  <2> QED
    BY <1>0, <1>1, <2>1, <2>2, <2>3 DEF GroupsInv
<1>2. CASE s # "all"
  <2>1. UNCHANGED <<pc["all"], excluded["all"], todo["all"], busy["all"], failed["all"]>>
    BY <1>2, ScriptsAssumption DEF GoTo, TypeOK
  <2> QED
    BY <1>0, <2>1 DEF GroupsInv
<1> QED
  BY <1>1, <1>2

LEMMA GroupsKept == TypeOK /\ TypeOK' /\ PlaysInv /\ GroupsInv /\ [Next]_vars => GroupsInv'
<1> SUFFICES ASSUME TypeOK, TypeOK', PlaysInv, GroupsInv, [Next]_vars
             PROVE  GroupsInv'
  OBVIOUS
<1> USE DEF upstream, groups, scripts, versions
<1>a. "all" \in Scripts
  BY ScriptsAssumption
<1>1. ASSUME UNCHANGED <<checkout, groups, scripts>>
      PROVE  GroupsInv'
  BY <1>1 DEF GroupsInv
<1>2. ASSUME NEW s \in Scripts, Start(s)
      PROVE  GroupsInv'
  <2>1. PICK place : GoTo(s, place) /\ place = IF s = "all" THEN "update" ELSE "baremetal"
    BY <1>2 DEF Start
  <2> QED
    BY <1>2, <2>1, GoToKeepsGroups DEF Start
<1>3. CASE Update
  <2>1. pc'["all"] = "master" /\ Master \in todo'["all"]
    <3>1. "master" \in Plays /\ Targets["master"] = {Master}
      BY DEF Plays, Targets
    <3>2. pc'["all"] = "master" /\ todo'["all"] = Targets["master"] \ excluded'["all"]
      BY <1>3, <1>a, <3>1 DEF Update, GoTo, TypeOK
    <3>3. Master \notin excluded'["all"]
      BY <1>a, HostsAssumption DEF TypeOK
    <3> QED
      BY <3>1, <3>2, <3>3
  <2>2. UNCHANGED <<generated, installed, lapsed>>
    BY <1>3 DEF Update
  <2> QED
    BY <2>1, <2>2 DEF GroupsInv
<1>4. ASSUME NEW s \in Scripts, EndPlay(s)
      PROVE  GroupsInv'
  <2>1. PICK place : GoTo(s, place) /\ place = IF GivesUp(s) THEN NextPlaybook[pc[s]] ELSE NextPlay[pc[s]]
    BY <1>4 DEF EndPlay
  <2>2. ASSUME s = "all", ~lapsed
        PROVE  installed = checkout
    <3>1. CASE pc[s] = "master"
      <4>1. todo[s] \cup failed[s] \subseteq {Master} /\ failed[s] \cap todo[s] = {}
        BY <3>1 DEF PlaysInv, Plays, Targets
      <4>2. Master \notin todo[s] \cup busy[s]
        BY <1>4, <4>1 DEF EndPlay, GivesUp
      <4> QED
        BY <2>2, <3>1, <4>2 DEF GroupsInv
    <3>2. CASE pc[s] # "master"
      <4>1. pc[s] \in Plays \cap RunAllPlaces
        BY <1>4, <2>2 DEF EndPlay, PlaysInv, Places
      <4>2. pc[s] \in {"git", "review", "afs", "others"}
        BY <3>2, <4>1 DEF RunAllPlaces, Plays, Targets
      <4> QED
        BY <2>2, <4>2 DEF GroupsInv
    <3> QED
      BY <3>1, <3>2
  <2> QED
    BY <1>4, <2>1, <2>2, GoToKeepsGroups DEF EndPlay
<1>5. ASSUME NEW s \in Scripts, Stopped(s)
      PROVE  GroupsInv'
  <2>1. PICK place : GoTo(s, place)
    BY <1>5 DEF Stopped
  <2>2. s = "all" => pc[s] \in {"git", "review", "afs", "others"}
    BY <1>5 DEF Stopped, PlaysInv, Places, RunAllPlaces, Plays, Targets
  <2> QED
    BY <1>5, <2>1, <2>2, GoToKeepsGroups DEF Stopped, GroupsInv
<1>6. ASSUME NEW s \in Scripts, NEW h \in Hosts, StartHost(s, h)
      PROVE  GroupsInv'
  <2>1. todo'["all"] \cup busy'["all"] = todo["all"] \cup busy["all"]
    BY <1>6, <1>a DEF StartHost, TypeOK
  <2> QED
    BY <1>6, <2>1 DEF StartHost, GroupsInv
<1>7. CASE MasterDone
  <2>1. pc["all"] = "master" /\ pc' = pc /\ checkout' = checkout
    BY <1>7 DEF MasterDone, Leaves
  <2>2. ~lapsed' => installed' = checkout' /\ generated' = installed'
    BY <1>7, <2>1 DEF MasterDone, Expand, GroupsInv
  <2> QED
    BY <2>1, <2>2 DEF GroupsInv
<1>8. CASE MasterFails
  <2>1. pc["all"] = "master" /\ pc' = pc /\ checkout' = checkout
    BY <1>8 DEF MasterFails, Leaves
  <2>2. ~lapsed' => installed' = checkout' /\ generated' = installed'
    <3>1. CASE UNCHANGED <<installed, generated>> /\ lapsed' = (lapsed \/ installed # checkout)
      <4>1. ~lapsed' => ~lapsed /\ installed = checkout
        BY <3>1, Zenon
      <4> QED
        BY <2>1, <3>1, <4>1 DEF GroupsInv
    <3>2. CASE lapsed' = TRUE
      BY <3>2
    <3>3. CASE installed' = checkout /\ generated' = checkout
      BY <2>1, <3>3
    <3> QED
      BY <1>8, <3>1, <3>2, <3>3 DEF MasterFails
  <2> QED
    BY <2>1, <2>2 DEF GroupsInv
<1>9. ASSUME NEW s \in Scripts, NEW h \in Hosts, HostDone(s, h) \/ HostFails(s, h)
      PROVE  GroupsInv'
  <2>1. UNCHANGED <<checkout, groups, pc, excluded, todo>>
    BY <1>9 DEF HostDone, HostFails, Leaves
  <2>2. pc["all"] = "master" => busy'["all"] = busy["all"]
    BY <1>9, <1>a DEF HostDone, HostFails, Leaves, TypeOK
  <2> QED
    BY <2>1, <2>2 DEF GroupsInv
<1>10. CASE MergeProjectConfig \/ MergeGroups \/ EditEmergency
  BY <1>1, <1>10 DEF MergeProjectConfig, MergeGroups, EditEmergency
<1>11. CASE UNCHANGED vars
  BY <1>1, <1>11 DEF vars
<1>12. ASSUME NEW s \in Scripts, NEW h \in Hosts, NEW v \in 0..MaxHead, LeftEnds(s, h, v)
       PROVE  GroupsInv'
  BY <1>1, <1>12 DEF LeftEnds
<1> QED
  BY <1>2, <1>3, <1>4, <1>5, <1>6, <1>7, <1>8, <1>9, <1>10, <1>11, <1>12 DEF Next, ScriptStep

-----------------------------------------------------------------------------
(* The theorems.                                                           *)

\* The strengthening that every step keeps: the books of the plays, what they
\* have left behind, the versions, and the travel of groups.txt.
THEOREM RunInvariant == Spec => []RunInv
<1>1. Init => RunInv
  <2>1. Init => PlaysInv
    BY DEF Init, PlaysInv, Places, Plays, Targets, RunAllPlaces, InfracloudPlaces
  <2>2. Init => VersionsInv
    BY ScriptsAssumption
       DEF Init, VersionsInv, VersionsGrow, GitTurn, ReviewTurn, LeftInOrder, GitBeforeGerrit
  <2>3. Init => GroupsInv
    BY ScriptsAssumption DEF Init, GroupsInv
  <2>4. Init => LeftOfPlays
    BY DEF Init, LeftOfPlays
  <2> QED
    BY <2>1, <2>2, <2>3, <2>4 DEF RunInv
<1>2. TypeOK /\ TypeOK' /\ RunInv /\ [Next]_vars => RunInv'
  BY BooksKept, LeftKept, VersionsKept, GroupsKept DEF RunInv
<1> QED
  BY <1>1, <1>2, TypeCorrect, PTL DEF Spec

\* gerrit never has a version of project-config before the git servers,
\* whatever fails, is stopped or runs on by itself; but for git servers that
\* were disabled when gerrit got it, and those that a puppet left running by
\* an earlier run took back since.
THEOREM GitOrder == Spec => []GitBeforeGerrit
<1>1. RunInv => GitBeforeGerrit
  BY DEF RunInv, VersionsInv
<1> QED
  BY <1>1, RunInvariant, PTL

\* The playbooks after the first leave alone what the groups.txt of this run
\* disables, unless an expansion of that file got lost.
THEOREM DisabledHosts == Spec => []DisabledSkipped
<1>1. RunInv => DisabledSkipped
  <2> SUFFICES ASSUME RunInv, ~lapsed, pc["all"] \in {"afs", "others"}
               PROVE  busy["all"] \cap checkout = {}
    BY DEF DisabledSkipped
  <2>1. checkout \subseteq excluded["all"]
    BY DEF RunInv, GroupsInv
  <2>2. pc["all"] \in Plays
    BY DEF Plays, Targets
  <2>3. busy["all"] \cap excluded["all"] = {}
    BY <2>2, ScriptsAssumption DEF RunInv, PlaysInv
  <2> QED
    BY <2>1, <2>3
<1> QED
  BY <1>1, RunInvariant, PTL

\* The two scripts never have puppet running on one host at a time, what they
\* have left behind included: their plays have no host in common.
THEOREM Apart == Spec => []ScriptsApart
<1>1. TypeOK /\ RunInv => ScriptsApart
  <2> SUFFICES ASSUME TypeOK, RunInv, NEW s \in Scripts, NEW t \in Scripts, s # t,
                      NEW h \in Running(s) \cap Running(t)
               PROVE  FALSE
    BY DEF ScriptsApart
  <2>1. \A u \in {s, t} : \E p \in Plays \cap Places(u) : h \in Targets[p]
    <3> SUFFICES ASSUME NEW u \in {s, t}
                 PROVE  \E p \in Plays \cap Places(u) : h \in Targets[p]
      OBVIOUS
    <3>1. CASE h \in busy[u]
      BY <3>1 DEF RunInv, PlaysInv
    <3>2. CASE h \notin busy[u]
      BY <3>2 DEF Running, RunInv, LeftOfPlays
    <3> QED
      BY <3>1, <3>2
  <2>2. PICK a \in {s, t}, b \in {s, t} : a = "all" /\ b # "all"
    BY ScriptsAssumption
  <2>3. PICK p \in Plays \cap RunAllPlaces : h \in Targets[p]
    BY <2>1, <2>2 DEF Places
  <2>4. PICK q \in Plays \cap InfracloudPlaces : h \in Targets[q]
    BY <2>1, <2>2 DEF Places
  <2>5. p \in {"master", "git", "review", "afs", "others"}
    BY DEF Plays, Targets, RunAllPlaces
  <2>6. h \in Baremetal \cup Controller \cup Compute
    BY <2>4 DEF Plays, Targets, InfracloudPlaces
  <2> QED
    BY <2>3, <2>5, <2>6, HostsAssumption DEF Targets, Rest
<1> QED
  BY <1>1, TypeCorrect, RunInvariant, PTL

=============================================================================
