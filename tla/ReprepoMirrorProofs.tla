------------------------ MODULE ReprepoMirrorProofs -------------------------
(* The mirror script keeps its invariants and the promise of MirrorVolume, *)
(* for any set of packages, any number of runs and any bounds.             *)
EXTENDS ReprepoMirror, TLAPS

\* Types, for every step of the script and of its environment.
THEOREM TypeCorrect == Spec => []TypeOK
<1> USE DEF Commands, Snapshots, rwVolume, unrefFile, roVolume, history, versions, budget
<1>1. ASSUME Init
      PROVE  TypeOK
  <2>1. 0 \in 0..MaxChanges /\ 0 \in 0..MaxFaults
    BY BoundsAssumption
  <2>2. ro \in Snapshots
    BY <1>1 DEF Init
  <2> QED
    BY <1>1, <2>1, <2>2 DEF Init, TypeOK
<1>2. ASSUME TypeOK, [Next]_vars
      PROVE  TypeOK'
  <2>f. ASSUME Fault
        PROVE  changes' \in 0..MaxChanges /\ faults' \in 0..MaxFaults
    BY <1>2, <2>f, BoundsAssumption DEF TypeOK, Fault
  <2>a. ASSUME NEW r \in Runs, NEW next \in Commands \cup {"idle"}, Advances(r, next)
        PROVE  /\ pc' \in [Runs -> Commands \cup {"idle"}]
               /\ alive' \in [Runs -> BOOLEAN]
    <3>1. pc' \in [Runs -> Commands \cup {"idle"}]
      BY <1>2, <2>a DEF TypeOK, Advances
    <3>2. alive' \in [Runs -> BOOLEAN]
      BY <1>2, <2>a, Zenon DEF TypeOK, Advances
    <3> QED
      BY <3>1, <3>2
  <2>d. ASSUME NEW r \in Runs, NEW next \in Commands \cup {"idle"}, Done(r, next)
        PROVE  /\ pc' \in [Runs -> Commands \cup {"idle"}]
               /\ alive' \in [Runs -> BOOLEAN]
               /\ changes' = changes /\ faults' = faults /\ staleLock' = staleLock
    BY <2>a, <2>d DEF Done, budget
  <2>e. ASSUME NEW r \in Runs, Fails(r)
        PROVE  /\ pc' \in [Runs -> Commands \cup {"idle"}]
               /\ alive' \in [Runs -> BOOLEAN]
               /\ changes' \in 0..MaxChanges /\ faults' \in 0..MaxFaults
               /\ staleLock' \in BOOLEAN
    BY <1>2, <2>e, <2>f DEF TypeOK, Fails, Stops
  <2>1. CASE UpstreamChanges
    BY <1>2, <2>1, BoundsAssumption DEF TypeOK, UpstreamChanges
  <2>2. CASE Reboot
    <3>1. 0 \in 0..MaxChanges
      BY BoundsAssumption
    <3> QED
      BY <1>2, <2>2, <2>f, <3>1 DEF TypeOK, Reboot
  <2>12. CASE RemoveLock
    BY <1>2, <2>12 DEF TypeOK, RemoveLock
  <2>13. ASSUME NEW r \in Runs, LockedOut(r)
         PROVE  TypeOK'
    BY <1>2, <2>13 DEF TypeOK, LockedOut, Stops
  <2>3. ASSUME NEW r \in Runs, Start(r)
        PROVE  TypeOK'
    BY <1>2, <2>3 DEF TypeOK, Start
  <2>4. ASSUME NEW r \in Runs, Kill(r)
        PROVE  TypeOK'
    BY <1>2, <2>4, <2>f DEF TypeOK, Kill
  <2>5. ASSUME NEW r \in Runs, Fetch(r)
        PROVE  TypeOK'
    <3>1. pool' \in SUBSET Files /\ target' \in [Runs -> SUBSET Files]
      BY <1>2, <2>5 DEF TypeOK, Fetch
    <3>5. fetched' \in [Runs -> 0..MaxChanges]
      BY <1>2, <2>5 DEF TypeOK, Fetch
    <3>2. \/ Done(r, "export")
          \/ Advances(r, "export") /\ Fault /\ UNCHANGED staleLock
          \/ Fails(r)
      BY <2>5 DEF Fetch
    <3>3. "export" \in Commands \cup {"idle"}
      BY DEF Commands
    <3>4. /\ pc' \in [Runs -> Commands \cup {"idle"}] /\ alive' \in [Runs -> BOOLEAN]
          /\ changes' \in 0..MaxChanges /\ faults' \in 0..MaxFaults
          /\ staleLock' \in BOOLEAN
      BY <1>2, <2>a, <2>d, <2>e, <2>f, <3>2, <3>3 DEF TypeOK
    <3> QED
      BY <1>2, <2>5, <3>1, <3>4, <3>5 DEF TypeOK, Fetch
  <2>6. ASSUME NEW r \in Runs, Export(r)
        PROVE  TypeOK'
    <3>1. index' \in SUBSET Files /\ target' \in [Runs -> SUBSET Files]
      BY <1>2, <2>6 DEF TypeOK, Export
    <3>2. Done(r, "delete") \/ Fails(r)
      BY <2>6 DEF Export
    <3>3. 0 \in 0..MaxChanges
      BY BoundsAssumption
    <3>4. exported' \in 0..MaxChanges /\ fetched' \in [Runs -> 0..MaxChanges]
      BY <1>2, <2>6, <3>3 DEF TypeOK, Export
    <3> QED
      BY <1>2, <2>6, <2>d, <2>e, <3>1, <3>2, <3>4 DEF TypeOK, Export
  <2>7. ASSUME NEW r \in Runs, Delete(r)
        PROVE  TypeOK'
    <3>1. pool' \in SUBSET Files /\ used' \in BOOLEAN
      BY <1>2, <2>7 DEF TypeOK, Delete
    <3>2. Done(r, "dump") \/ Fails(r)
      BY <2>7 DEF Delete
    <3> QED
      BY <1>2, <2>7, <2>d, <2>e, <3>1, <3>2 DEF TypeOK, Delete
  <2>8. ASSUME NEW r \in Runs, Dump(r)
        PROVE  TypeOK'
    <3>1. list' \in SUBSET Files
      BY <1>2, <2>8 DEF TypeOK, Dump
    <3>2. Done(r, "check") \/ Fails(r)
      BY <2>8 DEF Dump
    <3> QED
      BY <1>2, <2>8, <2>d, <2>e, <3>1, <3>2 DEF TypeOK, Dump
  <2>9. ASSUME NEW r \in Runs, Check(r)
        PROVE  TypeOK'
    <3>1. Done(r, "release") \/ (Stops(r) /\ UNCHANGED <<staleLock, budget>>) \/ Fails(r)
      BY <2>9 DEF Check
    <3>2. CASE Stops(r) /\ UNCHANGED <<staleLock, budget>>
      BY <1>2, <2>9, <3>2 DEF TypeOK, Check, Stops
    <3> QED
      BY <1>2, <2>9, <2>d, <2>e, <3>1, <3>2 DEF TypeOK, Check
  <2>10. ASSUME NEW r \in Runs, Release(r)
         PROVE  TypeOK'
    <3>1. CASE /\ ro' = [index |-> index, pool |-> pool]
               /\ previous' = ro.index
               /\ served' = exported
               /\ graced' = ~used
               /\ saved' = FALSE
               /\ used' = FALSE
               /\ Done(r, "idle")
      BY <1>2, <2>10, <2>d, <3>1 DEF TypeOK, Release
    <3>2. CASE Stops(r) /\ Fault /\ UNCHANGED <<staleLock, roVolume, history, served>>
      BY <1>2, <2>10, <2>f, <3>2 DEF TypeOK, Release, Stops
    <3> QED
      BY <2>10, <3>1, <3>2 DEF Release
  <2>11. CASE UNCHANGED vars
    BY <1>2, <2>11 DEF TypeOK, vars
  <2> QED
    BY <1>2, <2>1, <2>2, <2>3, <2>4, <2>5, <2>6, <2>7, <2>8, <2>9, <2>10, <2>11,
       <2>12, <2>13 DEF Next, Step
<1> QED
  BY <1>1, <1>2, PTL DEF Spec

-----------------------------------------------------------------------------

\* How a command ends is all that can happen to the places of the runs: the
\* one that is running moves, and the lock stays with it or becomes free.
LEMMA MovesAlone ==
    ASSUME TypeOK, OneRun, NEW r \in Runs, pc[r] # "idle",
           (\E next \in Commands \cup {"idle"} : Advances(r, next)) \/ Stops(r)
    PROVE  OneRun' /\ \A q \in Runs \ {r} : pc'[q] = "idle"
<1>1. \A q \in Runs \ {r} : pc[q] = "idle"
  BY DEF OneRun
<1>2. \A q \in Runs \ {r} : pc'[q] = pc[q]
  BY DEF TypeOK, Advances, Fails, Stops
<1> QED
  BY <1>1, <1>2 DEF OneRun

\* The parts of FilesInv that are about files.
FilesInv ==
    ReleasedComplete /\ Grace /\ GraceAhead /\ ListIsSafe /\ OneRun /\ CheckedRelease

\* The released mirror is complete and keeps the files of the index it
\* replaced, whatever fails, is killed or overlaps.
LEMMA FilesInvariant == Spec => []FilesInv
<1> USE DEF rwVolume, unrefFile, roVolume, history, budget
<1> USE DEF FilesInv, ReleasedComplete, Grace, GraceAhead, ListIsSafe, CheckedRelease,
            Complete, Snapshots
<1>1. Init => FilesInv
  BY DEF Init, OneRun
<1>2. ASSUME TypeOK, TypeOK', FilesInv, [Next]_vars
      PROVE  FilesInv'
  <2>1. CASE UpstreamChanges
    BY <1>2, <2>1 DEF UpstreamChanges, OneRun
  <2>2. CASE Reboot
    BY <1>2, <2>2 DEF Reboot, OneRun, TypeOK
  <2>3. ASSUME NEW r \in Runs, Start(r)
        PROVE  FilesInv'
    BY <1>2, <2>3 DEF Start, OneRun, TypeOK
  <2>12. CASE RemoveLock
    BY <1>2, <2>12 DEF RemoveLock, OneRun
  <2>13. ASSUME NEW r \in Runs, LockedOut(r)
         PROVE  FilesInv'
    <3>1. OneRun' /\ \A q \in Runs \ {r} : pc'[q] = "idle"
      BY <1>2, <2>13, MovesAlone DEF LockedOut
    <3>2. pc'[r] \notin {"check", "release"}
      BY <1>2, <2>13 DEF LockedOut, Stops, TypeOK
    <3> QED
      BY <1>2, <2>13, <3>1, <3>2 DEF LockedOut
  <2>4. ASSUME NEW r \in Runs, Kill(r)
        PROVE  FilesInv'
    BY <1>2, <2>4 DEF Kill, OneRun
  <2>5. ASSUME NEW r \in Runs, Fetch(r)
        PROVE  FilesInv'
    <3>1. OneRun' /\ \A q \in Runs \ {r} : pc'[q] = "idle"
      BY <1>2, <2>5, MovesAlone DEF Fetch, Fails, Commands, Done
    <3>2. pc'[r] \notin {"check", "release"}
      BY <1>2, <2>5 DEF Fetch, Done, Advances, Fails, Stops, TypeOK
    <3>3. pool \subseteq pool'
      BY <2>5 DEF Fetch
    <3> QED
      BY <1>2, <2>5, <3>1, <3>2, <3>3 DEF Fetch
  <2>6. ASSUME NEW r \in Runs, Export(r)
        PROVE  FilesInv'
    <3>1. OneRun' /\ \A q \in Runs \ {r} : pc'[q] = "idle"
      BY <1>2, <2>6, MovesAlone DEF Export, Fails, Commands, Done
    <3>2. pc'[r] \notin {"check", "release"}
      BY <1>2, <2>6 DEF Export, Done, Advances, Fails, Stops, TypeOK
    <3> QED
      BY <1>2, <2>6, <3>1, <3>2 DEF Export
  <2>7. ASSUME NEW r \in Runs, Delete(r)
        PROVE  FilesInv'
    <3>1. OneRun' /\ \A q \in Runs \ {r} : pc'[q] = "idle"
      BY <1>2, <2>7, MovesAlone DEF Delete, Fails, Commands, Done
    <3>2. pc'[r] \notin {"check", "release"}
      BY <1>2, <2>7 DEF Delete, Done, Advances, Fails, Stops, TypeOK
    <3>3. ~used' => ro.index \subseteq pool'
      <4>1. CASE ~hasList
        BY <1>2, <2>7, <4>1 DEF Delete
      <4>2. CASE hasList /\ ~used'
        <5>1. ~used /\ ~saved
          BY <2>7, <4>2 DEF Delete
        <5>2. pool \ list \subseteq pool'
          BY <2>7, <4>2 DEF Delete
        <5>3. ro.index \subseteq pool /\ list \cap ro.index = {}
          BY <1>2, <5>1
        <5> QED
          BY <5>2, <5>3
      <4> QED
        BY <4>1, <4>2
    <3>4. UNCHANGED <<ro, previous, graced, saved, list, index>> /\ (used' => saved')
      <4>1. UNCHANGED <<ro, previous, graced, saved, list, index>>
        BY <2>7 DEF Delete
      <4>2. CASE used' = used
        BY <1>2, <4>1, <4>2
      <4>3. CASE used' = (used \/ saved)
        <5>1. used \in BOOLEAN /\ saved \in BOOLEAN /\ (used => saved)
          BY <1>2 DEF TypeOK
        <5>2. (used \/ saved) = saved
          BY <5>1
        <5>3. used' = saved
          BY <4>3, <5>2, Zenon
        <5> QED
          BY <4>1, <5>3
      <4> QED
        BY <2>7, <4>1, <4>2, <4>3 DEF Delete
    <3>5. GraceAhead' /\ ListIsSafe'
      BY <1>2, <3>3, <3>4
    <3>6. ReleasedComplete' /\ Grace'
      BY <1>2, <3>4
    <3>7. CheckedRelease'
      BY <3>1, <3>2
    <3> QED
      BY <3>1, <3>5, <3>6, <3>7
  <2>8. ASSUME NEW r \in Runs, Dump(r)
        PROVE  FilesInv'
    <3>1. OneRun' /\ \A q \in Runs \ {r} : pc'[q] = "idle"
      BY <1>2, <2>8, MovesAlone DEF Dump, Fails, Commands, Done
    <3>2. pc'[r] # "release"
      BY <1>2, <2>8 DEF Dump, Done, Advances, Fails, Stops, TypeOK
    <3>3. list' \cap index' = {}
      BY <2>8 DEF Dump
    <3>4. saved' /\ UNCHANGED <<ro, previous, graced, used, index, pool>>
      BY <2>8 DEF Dump
    <3> QED
      BY <1>2, <3>1, <3>2, <3>3, <3>4
  <2>9. ASSUME NEW r \in Runs, Check(r)
        PROVE  FilesInv'
    <3>1. OneRun' /\ \A q \in Runs \ {r} : pc'[q] = "idle"
      BY <1>2, <2>9, MovesAlone DEF Check, Fails, Commands, Done
    <3>2. pc'[r] = "release" => index \subseteq pool
      BY <1>2, <2>9 DEF Check, Done, Advances, Fails, Stops, TypeOK
    <3>3. list \cap index = {}
      BY <1>2, <2>9 DEF Check
    <3> QED
      BY <1>2, <2>9, <3>1, <3>2, <3>3 DEF Check
  <2>10. ASSUME NEW r \in Runs, Release(r)
         PROVE  FilesInv'
    <3>1. OneRun' /\ \A q \in Runs \ {r} : pc'[q] = "idle"
      BY <1>2, <2>10, MovesAlone DEF Release, Fails, Commands, Done
    <3>2. pc'[r] \notin {"check", "release"}
      BY <1>2, <2>10 DEF Release, Done, Advances, Fails, Stops, TypeOK
    <3>3. index \subseteq pool /\ list \cap index = {}
      BY <1>2, <2>10 DEF Release
    <3>4. CASE UNCHANGED <<roVolume, history>>
      BY <1>2, <2>10, <3>1, <3>2, <3>4 DEF Release
    <3>5. CASE ~UNCHANGED <<roVolume, history>>
      <4>1. /\ ro' = [index |-> index, pool |-> pool]
            /\ previous' = ro.index
            /\ graced' = ~used
            /\ saved' = FALSE
            /\ used' = FALSE
            /\ UNCHANGED <<index, pool, hasList, list>>
        BY <2>10, <3>5 DEF Release
      <4>2. graced' => ro.index \subseteq pool
        BY <1>2, <4>1
      <4>3. ro' \in Complete
        BY <1>2, <3>3, <4>1 DEF TypeOK
      <4> QED
        BY <3>1, <3>2, <3>3, <4>1, <4>2, <4>3
    <3> QED
      BY <3>4, <3>5
  <2>11. CASE UNCHANGED vars
    BY <1>2, <2>11 DEF vars, OneRun
  <2> QED
    BY <1>2, <2>1, <2>2, <2>3, <2>4, <2>5, <2>6, <2>7, <2>8, <2>9, <2>10, <2>11,
       <2>12, <2>13 DEF Next, Step
<1> QED
  BY <1>1, <1>2, TypeCorrect, PTL DEF Spec

\* What the numbers of the versions and the lock file rest on: nobody else is
\* at any place while one run moves.
LEMMA OthersIdle ==
    ASSUME FilesInv, NEW r \in Runs, pc[r] # "idle"
    PROVE  \A q \in Runs \ {r} : pc[q] = "idle"
BY DEF FilesInv, OneRun

\* A run that moves leaves the other places as they are.
LEMMA MovesOnlyItself ==
    ASSUME TypeOK, NEW r \in Runs,
           (\E next \in Commands \cup {"idle"} : Advances(r, next)) \/ Stops(r)
    PROVE  /\ \A q \in Runs \ {r} : pc'[q] = pc[q]
           /\ Stops(r) => pc'[r] = "idle"
           /\ \A next \in Commands \cup {"idle"} :
                 Advances(r, next) => pc'[r] \in {next, "idle"}
BY DEF TypeOK, Advances, Stops

\* All of MirrorInv: the files, and with the lock of the cron job, which a
\* command keeps when its script is gone, the order of the versions.
THEOREM MirrorInvariant == Spec => []MirrorInv
<1> USE DEF rwVolume, unrefFile, roVolume, history, versions, budget
<1>1. Init => Order /\ LockMetFirst
  BY DEF Init, Order, LockMetFirst
<1>2. ASSUME TypeOK, TypeOK', FilesInv, Order, LockMetFirst, [Next]_vars
      PROVE  Order' /\ LockMetFirst'
  <2>t. /\ changes \in Nat /\ exported \in Nat /\ served \in Nat
        /\ \A r \in Runs : fetched[r] \in Nat
    BY <1>2, BoundsAssumption DEF TypeOK
  <2>0. served <= exported /\ exported <= changes
    BY <1>2 DEF Order
  <2>s. ASSUME NEW r \in Runs, pc[r] # "idle", pc'[r] # "export",
               \/ \E next \in Commands \cup {"idle"} : Advances(r, next)
               \/ Stops(r),
               UNCHANGED <<changes, exported, served>>
        PROVE  Order'
    <3>1. \A q \in Runs : pc'[q] # "export"
      BY <1>2, <2>s, OthersIdle, MovesOnlyItself
    <3> QED
      BY <2>s, <2>0, <3>1 DEF Order
  <2>l. ASSUME NEW r \in Runs, pc[r] # "idle",
               \/ /\ \E next \in Commands \cup {"idle"} : Advances(r, next)
                  /\ ~staleLock /\ UNCHANGED staleLock
               \/ Stops(r)
        PROVE  LockMetFirst'
    <3>1. CASE ~staleLock /\ UNCHANGED staleLock
      BY <3>1 DEF LockMetFirst
    <3>2. CASE Stops(r)
      BY <1>2, <2>l, <3>2, OthersIdle, MovesOnlyItself DEF LockMetFirst
    <3> QED
      BY <2>l, <3>1, <3>2
  <2>u. ASSUME NEW r \in Runs, pc[r] \notin {"idle", "update"}
        PROVE  ~staleLock
    BY <1>2, <2>u DEF LockMetFirst
  <2>1. CASE UpstreamChanges
    <3>1. changes' = changes + 1 /\ UNCHANGED <<pc, staleLock, versions>>
      BY <2>1 DEF UpstreamChanges
    <3>2. \A r \in Runs : pc[r] = "export" => exported <= fetched[r] /\ fetched[r] <= changes + 1
      BY <1>2, <2>t DEF Order
    <3>3. exported <= changes + 1
      BY <2>0, <2>t
    <3> QED
      BY <1>2, <2>0, <3>1, <3>2, <3>3 DEF Order, LockMetFirst
  <2>2. CASE Reboot
    <3>1. (\A r \in Runs : pc'[r] = "idle") /\ UNCHANGED <<exported, served, changes>>
      BY <2>2 DEF Reboot, Fault
    <3> QED
      BY <2>0, <3>1 DEF Order, LockMetFirst
  <2>3. CASE RemoveLock
    BY <1>2, <2>3 DEF RemoveLock, Order, LockMetFirst
  <2>4. ASSUME NEW r \in Runs, Start(r)
        PROVE  Order' /\ LockMetFirst'
    <3>1. \A q \in Runs : pc'[q] \in {"idle", "update"}
      BY <1>2, <2>4 DEF Start, TypeOK
    <3> QED
      BY <2>0, <2>4, <3>1 DEF Start, Order, LockMetFirst
  <2>5. ASSUME NEW r \in Runs, Kill(r)
        PROVE  Order' /\ LockMetFirst'
    BY <1>2, <2>5 DEF Kill, Fault, Order, LockMetFirst
  <2>6. ASSUME NEW r \in Runs, LockedOut(r)
        PROVE  Order' /\ LockMetFirst'
    <3>1. pc[r] = "update" /\ Stops(r) /\ UNCHANGED <<changes, exported, served>>
      BY <2>6 DEF LockedOut
    <3>2. pc'[r] = "idle"
      BY <1>2, <3>1, MovesOnlyItself
    <3> QED
      BY <2>s, <2>l, <3>1, <3>2
  <2>7. ASSUME NEW r \in Runs, Fetch(r)
        PROVE  Order' /\ LockMetFirst'
    <3>1. CASE Fails(r)
      <4>1. Stops(r) /\ pc[r] = "update" /\ UNCHANGED <<changes, exported, served>>
        BY <2>7, <3>1 DEF Fetch, Fails, Fault
      <4>2. pc'[r] = "idle"
        BY <1>2, <4>1, MovesOnlyItself
      <4> QED
        BY <2>s, <2>l, <4>1, <4>2
    <3>2. CASE ~Fails(r)
      <4>1. /\ Advances(r, "export") /\ pc[r] = "update" /\ ~staleLock
            /\ UNCHANGED <<changes, exported, served, staleLock>>
            /\ fetched' = [fetched EXCEPT ![r] = changes]
        BY <2>7, <3>2 DEF Fetch, Done, Fault
      <4>2. fetched'[r] = changes
        BY <1>2, <4>1 DEF TypeOK
      <4>3. \A q \in Runs \ {r} : pc'[q] = "idle"
        BY <1>2, <4>1, OthersIdle, MovesOnlyItself DEF Commands
      <4>4. Order'
        BY <2>0, <2>t, <4>1, <4>2, <4>3 DEF Order
      <4> QED
        BY <2>l, <4>1, <4>4 DEF Commands
    <3> QED
      BY <3>1, <3>2
  <2>8. ASSUME NEW r \in Runs, Export(r)
        PROVE  Order' /\ LockMetFirst'
    <3>1. /\ pc[r] = "export"
          /\ \/ Advances(r, "delete") /\ UNCHANGED staleLock
             \/ Stops(r)
          /\ UNCHANGED <<changes, served>>
      BY <2>8 DEF Export, Done, Fails, Fault
    <3>2. exported' \in {exported, fetched[r]}
      BY <2>8 DEF Export
    <3>3. served <= exported' /\ exported' <= changes
      BY <1>2, <2>t, <2>0, <3>1, <3>2 DEF Order
    <3>4. pc'[r] # "export"
      BY <1>2, <3>1, MovesOnlyItself DEF Commands
    <3>5. \A q \in Runs : pc'[q] # "export"
      BY <1>2, <3>1, <3>4, OthersIdle, MovesOnlyItself DEF Commands
    <3>6. Order'
      BY <3>1, <3>3, <3>5 DEF Order
    <3> QED
      BY <2>l, <2>u, <3>1, <3>6 DEF Commands
  <2>9. ASSUME NEW r \in Runs, Delete(r) \/ Dump(r) \/ Check(r)
        PROVE  Order' /\ LockMetFirst'
    <3>1. /\ pc[r] \in {"delete", "dump", "check"}
          /\ \/ \E next \in {"dump", "check", "release"} :
                   Advances(r, next) /\ UNCHANGED staleLock
             \/ Stops(r)
          /\ UNCHANGED <<changes, exported, served>>
      BY <2>9 DEF Delete, Dump, Check, Done, Fails, Fault
    <3>2. pc'[r] # "export"
      BY <1>2, <3>1, MovesOnlyItself DEF Commands
    <3> QED
      BY <2>s, <2>l, <2>u, <3>1, <3>2 DEF Commands
  <2>10. ASSUME NEW r \in Runs, Release(r)
         PROVE  Order' /\ LockMetFirst'
    <3>1. /\ pc[r] = "release"
          /\ \/ Advances(r, "idle") /\ UNCHANGED staleLock
             \/ Stops(r)
          /\ UNCHANGED <<changes, exported>> /\ served' \in {served, exported}
      BY <2>10 DEF Release, Done, Fault
    <3>2. pc'[r] # "export"
      BY <1>2, <3>1, MovesOnlyItself DEF Commands
    <3>3. \A q \in Runs : pc'[q] # "export"
      BY <1>2, <3>1, <3>2, OthersIdle, MovesOnlyItself DEF Commands
    <3>4. Order'
      BY <2>0, <2>t, <3>1, <3>3 DEF Order
    <3> QED
      BY <2>l, <2>u, <3>1, <3>4 DEF Commands
  <2>11. CASE UNCHANGED vars
    BY <1>2, <2>11 DEF vars, Order, LockMetFirst
  <2> QED
    BY <1>2, <2>1, <2>2, <2>3, <2>4, <2>5, <2>6, <2>7, <2>8, <2>9, <2>10, <2>11
       DEF Next, Step
<1>3. FilesInv /\ Order /\ LockMetFirst => MirrorInv
  BY DEF FilesInv, MirrorInv
<1> QED
  BY <1>1, <1>2, <1>3, TypeCorrect, FilesInvariant, PTL DEF Spec

-----------------------------------------------------------------------------
(* The properties.                                                         *)

\* Readers never see an index that names a missing file.
THEOREM ReleasesComplete == Spec => []ReleasedComplete
<1>1. MirrorInv => ReleasedComplete
  BY DEF MirrorInv
<1> QED
  BY <1>1, MirrorInvariant, PTL

\* A client that read the index before a release still finds its files after
\* it, when no failed run came in between that had saved a list.
THEOREM GracePeriod == Spec => []Grace
<1>1. MirrorInv => Grace
  BY DEF MirrorInv
<1> QED
  BY <1>1, MirrorInvariant, PTL

\* The script implements the promise of a mirror: every step leaves the
\* replicas alone or replaces them by a complete snapshot that is not older.
THEOREM ImplementsVolume == Spec => VolumeSpec
<1> USE DEF rwVolume, unrefFile, roVolume, history, versions, budget
<1>1. Init => Volume!Init
  BY DEF Init, Volume!Init, Complete, Snapshots
<1>2. ASSUME TypeOK, TypeOK', MirrorInv, MirrorInv', [Next]_vars
      PROVE  [Volume!ArchiveChanges \/ Volume!Publish]_<<changes, ro, served>>
  <2>t. changes \in Nat /\ exported \in Nat /\ served \in Nat
    BY <1>2, BoundsAssumption DEF TypeOK
  <2>1. CASE UpstreamChanges
    BY <2>1 DEF UpstreamChanges, Volume!ArchiveChanges
  <2>2. ASSUME NEW r \in Runs, Release(r)
        PROVE  Volume!Publish \/ UNCHANGED <<changes, ro, served>>
    <3>1. CASE UNCHANGED <<ro, served>>
      BY <2>2, <3>1 DEF Release, Done, Fault
    <3>2. CASE served' = exported /\ UNCHANGED changes
      <4>1. ro' \in Complete /\ ro' \in Snapshots
        BY <1>2 DEF MirrorInv, ReleasedComplete, Complete
      <4>2. served <= exported /\ exported <= changes
        BY <1>2 DEF MirrorInv, Order
      <4>3. served' \in served..changes
        BY <2>t, <3>2, <4>2
      <4> QED
        BY <3>2, <4>1, <4>3 DEF Volume!Publish
    <3> QED
      BY <2>2, <3>1, <3>2 DEF Release, Done
  <2>3. CASE Reboot \/ RemoveLock
    BY <2>3 DEF Reboot, RemoveLock, Fault
  <2>4. ASSUME NEW r \in Runs, Start(r) \/ Kill(r) \/ LockedOut(r)
        PROVE  UNCHANGED <<changes, ro, served>>
    BY <2>4 DEF Start, Kill, LockedOut, Fault
  <2>5. ASSUME NEW r \in Runs, Fetch(r) \/ Export(r) \/ Delete(r) \/ Dump(r) \/ Check(r)
        PROVE  UNCHANGED <<changes, ro, served>>
    BY <2>5 DEF Fetch, Export, Delete, Dump, Check, Done, Fails, Fault
  <2>6. CASE UNCHANGED vars
    BY <2>6 DEF vars
  <2> QED
    BY <1>2, <2>1, <2>2, <2>3, <2>4, <2>5, <2>6 DEF Next, Step
<1> QED
  BY <1>1, <1>2, TypeCorrect, MirrorInvariant, PTL
     DEF Spec, VolumeSpec, Volume!Spec

=============================================================================
