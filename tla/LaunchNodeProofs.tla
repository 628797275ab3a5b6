-------------------------- MODULE LaunchNodeProofs --------------------------
(* The invariants of LaunchNode, for any number of launches and key names. *)
EXTENDS LaunchNode, TLAPS

-----------------------------------------------------------------------------
(* Types.                                                                  *)

\* Whatever a call does to the key pairs, each name has an owner or none.
LEMMA KeypairTyped ==
    ASSUME TypeOK, NEW l \in Launches,
           AddKeypair(l) \/ RemoveKeypair(l) \/ UNCHANGED keypair
    PROVE  keypair' \in [KeyNames -> Launches \cup {NoLaunch}]
<1>1. CASE AddKeypair(l)
  BY <1>1 DEF TypeOK, AddKeypair
<1>2. CASE RemoveKeypair(l)
  BY <1>2 DEF TypeOK, RemoveKeypair
<1>3. CASE UNCHANGED keypair
  BY <1>3 DEF TypeOK
<1> QED
  BY <1>1, <1>2, <1>3

\* Setting the login variables back keeps their types.
LEMMA ForgetLoginTyped ==
    ASSUME TypeOK, NEW l \in Launches, ForgetLogin(l)
    PROVE  user' \in [Launches -> 1..4] /\ tries' \in [Launches -> 0..MaxTries]
<1>1. 1 \in 1..4 /\ 0 \in 0..MaxTries
  BY MaxTriesAssumption
<1> QED
  BY <1>1 DEF TypeOK, ForgetLogin

\* JobDir.__exit__ leaves the directory in one of its four states.
LEMMA LeaveJobDirTyped ==
    ASSUME TypeOK, NEW l \in Launches,
           LeaveJobDir(l) \/ RmtreeFails(l) \/ MakeDir(l) \/ WriteKey(l)
    PROVE  jobdir' \in [Launches -> {"none", "empty", "key", "removed"}]
BY DEF TypeOK, LeaveJobDir, RmtreeFails, MakeDir, WriteKey

\* Trying the next user name stays in the list of names.
LEMMA NextUserTyped ==
    ASSUME TypeOK, NEW l \in Launches,
           user[l] < Len(Usernames), user' = [user EXCEPT ![l] = @ + 1]
    PROVE  user' \in [Launches -> 1..4]
<1>1. Len(Usernames) = 4
  BY DEF Usernames
<1>2. user[l] \in 1..4
  BY DEF TypeOK
<1>3. user[l] + 1 \in 1..4
  BY <1>1, <1>2
<1> QED
  BY <1>3 DEF TypeOK

\* Every variable of the script and of the cloud keeps its type.
THEOREM TypeCorrect == Spec => []TypeOK
<1> USE DEF Running, Terminated, Faults, GuardedPlaces, RemoteSteps, JobDirPlaces,
            options, cloudVars, diskVars, loginVars, outcome
<1>1. Init => TypeOK
  BY MaxTriesAssumption DEF Init, TypeOK
<1>2. ASSUME TypeOK, [Next]_vars
      PROVE  TypeOK'
  <2>1. ASSUME NEW l \in Launches, CreateKeypair(l)
        PROVE  TypeOK'
    <3>1. keypair' \in [KeyNames -> Launches \cup {NoLaunch}]
      BY <1>2, <2>1, KeypairTyped DEF CreateKeypair
    <3> QED
      BY <1>2, <2>1, <3>1 DEF TypeOK, CreateKeypair, Goto
  <2>2. ASSUME NEW l \in Launches, CreateServer(l)
        PROVE  TypeOK'
    BY <1>2, <2>2 DEF TypeOK, CreateServer, AddServer, Goto
  <2>3. ASSUME NEW l \in Launches, Rollback(l)
        PROVE  TypeOK'
    BY <1>2, <2>3 DEF TypeOK, Rollback, RemoveKeypair, Goto
  <2>r. ASSUME NEW l \in Launches, NEW why \in Faults, EnterHandler(l, why),
               RemoveKeypair(l) \/ UNCHANGED keypair
        PROVE  TypeOK'
    <3>1. fault' \in [Launches -> Faults]
      BY <1>2, <2>r DEF TypeOK, EnterHandler, RmtreeFails
    <3>2. jobdir' \in [Launches -> {"none", "empty", "key", "removed"}]
      BY <1>2, <2>r, LeaveJobDirTyped DEF EnterHandler
    <3> QED
      BY <1>2, <2>r, <3>1, <3>2, KeypairTyped, ForgetLoginTyped DEF TypeOK, EnterHandler, Goto
  <2>p. ASSUME NEW l \in Launches, NEW place \in Running \cup Terminated, Proceed(l, place)
        PROVE  TypeOK'
    BY <1>2, <2>p DEF TypeOK, Proceed, Goto
  <2>4. ASSUME NEW l \in Launches, DropKeypair(l)
        PROVE  TypeOK'
    BY <1>2, <2>4, <2>r DEF TypeOK, DropKeypair, RemoveKeypair, Goto
  <2>5. ASSUME NEW l \in Launches, Prepare(l)
        PROVE  TypeOK'
    <3>1. CASE Raise(l, "prepare")
      BY <3>1, <2>r DEF Raise
    <3>2. CASE /\ \E d \in {FALSE, volume[l]} : device' = [device EXCEPT ![l] = d]
               /\ Goto(l, "login")
               /\ UNCHANGED <<options, loginVars, cloudVars, mounted, diskVars, outcome>>
      <4>1. PICK d \in {FALSE, volume[l]} : device' = [device EXCEPT ![l] = d]
        BY <3>2
      <4>2. d \in BOOLEAN
        BY <1>2, Zenon DEF TypeOK
      <4>3. device' \in [Launches -> BOOLEAN]
        BY <1>2, <4>1, <4>2, Zenon DEF TypeOK
      <4> QED
        BY <1>2, <3>2, <4>3 DEF TypeOK, Goto
    <3> QED
      BY <2>5, <3>1, <3>2 DEF Prepare
  <2>s. ASSUME NEW l \in Launches, SshRetry(l)
        PROVE  TypeOK'
    <3>1. tries[l] + 1 \in 0..MaxTries
      <4>1. tries[l] \in 0..MaxTries /\ tries[l] < MaxTries
        BY <1>2, <2>s DEF TypeOK, SshRetry
      <4> QED
        BY <4>1, MaxTriesAssumption
    <3>2. tries' \in [Launches -> 0..MaxTries]
      BY <1>2, <2>s, <3>1 DEF TypeOK, SshRetry
    <3> QED
      BY <1>2, <2>s, <3>2 DEF TypeOK, SshRetry
  <2>c. ASSUME NEW l \in Launches, NEW place \in Running, SshConnected(l, place)
        PROVE  TypeOK'
    BY <1>2, <2>c, ForgetLoginTyped DEF TypeOK, SshConnected, Goto
  <2>6. ASSUME NEW l \in Launches, Login(l)
        PROVE  TypeOK'
    <3>1. CASE SshRetry(l)
      BY <3>1, <2>s
    <3>2. CASE SshConnected(l, IF user[l] = 1 THEN "rootlogin" ELSE "elevate")
      BY <3>2, <2>c
    <3>3. CASE Raise(l, "login")
      BY <3>3, <2>r DEF Raise
    <3>4. CASE /\ user[l] < Len(Usernames)
               /\ user' = [user EXCEPT ![l] = @ + 1]
               /\ tries' = [tries EXCEPT ![l] = 0]
               /\ UNCHANGED <<pc, options, device, cloudVars, mounted, diskVars, outcome>>
      <4>1. user' \in [Launches -> 1..4]
        BY <1>2, <3>4, NextUserTyped
      <4>2. 0 \in 0..MaxTries
        BY MaxTriesAssumption
      <4>3. tries' \in [Launches -> 0..MaxTries]
        BY <1>2, <3>4, <4>2 DEF TypeOK
      <4> QED
        BY <1>2, <3>4, <4>1, <4>3 DEF TypeOK
    <3> QED
      BY <2>6, <3>1, <3>2, <3>3, <3>4 DEF Login
  <2>7. ASSUME NEW l \in Launches, Elevate(l)
        PROVE  TypeOK'
    BY <2>7, <2>r, <2>p DEF Elevate, Raise
  <2>8. ASSUME NEW l \in Launches, RootLogin(l)
        PROVE  TypeOK'
    BY <2>8, <2>r, <2>s, <2>c DEF RootLogin, Raise
  <2>9. ASSUME NEW l \in Launches, RemoteStep(l)
        PROVE  TypeOK'
    <3>1. CASE Raise(l, "remote")
      BY <3>1, <2>r DEF Raise
    <3>2. CASE /\ mounted' = [mounted EXCEPT ![l] = @ \/ pc[l] = "mount"]
               /\ Goto(l, AfterRemote(l)[pc[l]])
               /\ UNCHANGED <<options, device, loginVars, cloudVars, diskVars, outcome>>
      <4>1. AfterRemote(l)[pc[l]] \in Running
        BY <2>9 DEF RemoteStep, AfterRemote
      <4>2. mounted' \in [Launches -> BOOLEAN]
        BY <1>2, <3>2, Zenon DEF TypeOK
      <4> QED
        BY <1>2, <3>2, <4>1, <4>2 DEF TypeOK, Goto
    <3> QED
      BY <2>9, <3>1, <3>2 DEF RemoteStep
  <2>10. ASSUME NEW l \in Launches, EnterJobDir(l)
         PROVE  TypeOK'
    <3>1. CASE Raise(l, "local")
      BY <3>1, <2>r DEF Raise
    <3>2. CASE MakeDir(l) /\ ~Raise(l, "local")
      BY <1>2, <2>10, <3>2, LeaveJobDirTyped DEF TypeOK, EnterJobDir, Goto
    <3> QED
      BY <2>10, <3>1, <3>2 DEF EnterJobDir
  <2>11. ASSUME NEW l \in Launches, Regenerate(l)
         PROVE  TypeOK'
    BY <2>11, <2>r, <2>p DEF Regenerate, Raise
  <2>12. ASSUME NEW l \in Launches, WriteJobFiles(l)
         PROVE  TypeOK'
    <3>1. CASE WriteKey(l) /\ ~Raise(l, "local")
      BY <1>2, <2>12, <3>1, LeaveJobDirTyped DEF TypeOK, WriteJobFiles, WriteKey, Goto
    <3> QED
      BY <2>12, <3>1, <2>r, <2>p DEF WriteJobFiles, Raise
  <2>13. ASSUME NEW l \in Launches, Playbook(l)
         PROVE  TypeOK'
    <3>1. CASE /\ LeaveJobDir(l)
               /\ Goto(l, "reboot")
               /\ UNCHANGED <<options, device, loginVars, cloudVars, mounted, keyFile, outcome>>
      <4>1. jobdir' \in [Launches -> {"none", "empty", "key", "removed"}]
        BY <1>2, <3>1, LeaveJobDirTyped
      <4> QED
        BY <1>2, <3>1, <4>1 DEF TypeOK, Goto
    <3>2. CASE Raise(l, "playbook")
      BY <3>2, <2>r DEF Raise
    <3>3. CASE Proceed(l, "puppet")
      BY <3>3, <2>p
    <3> QED
      BY <2>13, <3>1, <3>2, <3>3, Zenon DEF Playbook
  <2>14. ASSUME NEW l \in Launches, Reboot(l)
         PROVE  TypeOK'
    BY <2>14, <2>r, <2>p DEF Reboot, Raise
  <2>15. ASSUME NEW l \in Launches, Recover(l)
         PROVE  TypeOK'
    BY <1>2, <2>15 DEF TypeOK, Recover, RemoveServer, Goto
  <2>16. ASSUME NEW l \in Launches, Interrupt(l) \/ Kill(l)
         PROVE  TypeOK'
    <3>1. keypair' \in [KeyNames -> Launches \cup {NoLaunch}]
      BY <1>2, <2>16, KeypairTyped DEF Interrupt, Kill, StopDuringCall
    <3>2. server' \in [Launches -> {"none", "exists", "deleted"}]
      BY <1>2, <2>16
         DEF TypeOK, Interrupt, Kill, StopDuringCall, AddServer, RemoveServer
    <3>3. jobdir' \in [Launches -> {"none", "empty", "key", "removed"}]
      BY <1>2, <2>16, LeaveJobDirTyped DEF TypeOK, Interrupt, Kill
    <3>4. fault' \in [Launches -> Faults]
      BY <1>2, <2>16 DEF TypeOK, Interrupt, Kill, RmtreeFails
    <3>5. pc' \in [Launches -> Running \cup Terminated]
      BY <1>2, <2>16 DEF TypeOK, Interrupt, Kill, Goto
    <3>6. UNCHANGED <<options, device, loginVars, mounted, keyFile, cleanup>>
      BY <2>16 DEF Interrupt, Kill, StopDuringCall
    <3> QED
      BY <1>2, <3>1, <3>2, <3>3, <3>4, <3>5, <3>6 DEF TypeOK
  <2>17. CASE UNCHANGED vars
    BY <1>2, <2>17 DEF TypeOK, vars
  <2> QED
    BY <1>2, <2>1, <2>2, <2>3, <2>4, <2>5, <2>6, <2>7, <2>8, <2>9, <2>10, <2>11,
       <2>12, <2>13, <2>14, <2>15, <2>16, <2>17 DEF Next, Step
<1> QED
  BY <1>1, <1>2, PTL DEF Spec

-----------------------------------------------------------------------------
(* Isolation: what a step of one launch leaves to the others.              *)

Act(l) == Step(l) \/ Interrupt(l) \/ Kill(l)

Untouched(m) ==
    /\ pc'[m] = pc[m]
    /\ keyName'[m] = keyName[m]
    /\ keep'[m] = keep[m]
    /\ device'[m] = device[m]
    /\ server'[m] = server[m]
    /\ mounted'[m] = mounted[m]
    /\ jobdir'[m] = jobdir[m]
    /\ keyFile'[m] = keyFile[m]
    /\ fault'[m] = fault[m]
    /\ cleanup'[m] = cleanup[m]

\* A step of a launch writes no local state of another launch.
LEMMA StepIsLocal ==
    ASSUME TypeOK, NEW l \in Launches, Act(l),
           NEW m \in Launches, m # l
    PROVE  Untouched(m)
<1> USE DEF Untouched, options, cloudVars, diskVars, loginVars, outcome, Goto, TypeOK
<1>r. ASSUME NEW why, EnterHandler(l, why)
      PROVE  Untouched(m)
  BY <1>r DEF EnterHandler, LeaveJobDir, RmtreeFails, WriteKey
<1>p. ASSUME NEW place, Proceed(l, place)
      PROVE  Untouched(m)
  BY <1>p DEF Proceed
<1>1. CASE CreateKeypair(l) \/ CreateServer(l) \/ Rollback(l)
  BY <1>1 DEF CreateKeypair, CreateServer, AddServer, Rollback
<1>2. CASE DropKeypair(l) \/ Prepare(l)
  BY <1>2, <1>r DEF DropKeypair, Prepare, Raise
<1>3. CASE Login(l) \/ RootLogin(l)
  BY <1>3, <1>r DEF Login, RootLogin, SshRetry, SshConnected, Raise
<1>4. CASE Elevate(l) \/ Regenerate(l) \/ Reboot(l)
  BY <1>4, <1>r, <1>p DEF Elevate, Regenerate, Reboot, Raise
<1>5. CASE RemoteStep(l)
  BY <1>5, <1>r DEF RemoteStep, Raise
<1>6. CASE EnterJobDir(l) \/ WriteJobFiles(l)
  BY <1>6, <1>r, <1>p DEF EnterJobDir, WriteJobFiles, MakeDir, WriteKey, Raise
<1>7. CASE Playbook(l)
  BY <1>7, <1>r, <1>p DEF Playbook, LeaveJobDir, WriteKey, Raise
<1>8. CASE Recover(l)
  BY <1>8 DEF Recover, RemoveServer
<1>9. CASE Interrupt(l) \/ Kill(l)
  <2>1. jobdir'[m] = jobdir[m] /\ fault'[m] = fault[m]
    BY <1>9 DEF Interrupt, Kill, LeaveJobDir, RmtreeFails, MakeDir, WriteKey
  <2> QED
    BY <1>9, <2>1 DEF Interrupt, Kill, StopDuringCall, AddServer, RemoveServer
<1> QED
  BY <1>1, <1>2, <1>3, <1>4, <1>5, <1>6, <1>7, <1>8, <1>9 DEF Act, Step

\* The key pairs change in three ways only, each at its places; a name is
\* deleted by a launch that is between creating and deleting it.
LEMMA KeypairStep ==
    ASSUME NEW l \in Launches, Act(l)
    PROVE  \/ UNCHANGED keypair
           \/ AddKeypair(l) /\ pc[l] = "keypair"
           \/ RemoveKeypair(l) /\ pc[l] \in {"rollback", "dropkey"}
<1> USE DEF options, cloudVars, Raise, EnterHandler, Proceed, SshRetry, SshConnected
<1>1. CASE CreateKeypair(l) \/ CreateServer(l) \/ Rollback(l)
  BY <1>1 DEF CreateKeypair, CreateServer, Rollback
<1>2. CASE DropKeypair(l) \/ Prepare(l)
  BY <1>2 DEF DropKeypair, Prepare
<1>3. CASE Login(l) \/ RootLogin(l)
  BY <1>3 DEF Login, RootLogin
<1>4. CASE Elevate(l) \/ Regenerate(l) \/ Reboot(l) \/ RemoteStep(l)
  BY <1>4 DEF Elevate, Regenerate, Reboot, RemoteStep
<1>5. CASE EnterJobDir(l) \/ WriteJobFiles(l) \/ Playbook(l)
  BY <1>5 DEF EnterJobDir, WriteJobFiles, Playbook
<1>6. CASE Recover(l) \/ Interrupt(l) \/ Kill(l)
  BY <1>6 DEF Recover, Interrupt, Kill, StopDuringCall
<1> QED
  BY <1>1, <1>2, <1>3, <1>4, <1>5, <1>6 DEF Act, Step

\* Whether the name of a launch is its own does not depend on the others.
LEMMA OthersKeepName ==
    ASSUME TypeOK, LaunchInv, NEW l \in Launches, Act(l),
           NEW m \in Launches, m # l
    PROVE  (keypair[keyName[m]] = m) <=> (keypair'[keyName[m]] = m)
<1>1. keyName[l] \in KeyNames /\ keyName[m] \in KeyNames
  BY DEF TypeOK
<1>2. CASE UNCHANGED keypair
  BY <1>2
<1>3. CASE AddKeypair(l)
  BY <1>1, <1>3, NoLaunchAssumption DEF AddKeypair, TypeOK
<1>4. CASE RemoveKeypair(l) /\ pc[l] \in {"rollback", "dropkey"}
  <2>1. keypair[keyName[l]] = l
    BY <1>4 DEF LaunchInv, Holds, KeypairHeld
  <2> QED
    BY <1>1, <1>4, <2>1, NoLaunchAssumption DEF RemoveKeypair, TypeOK
<1> QED
  BY <1>2, <1>3, <1>4, KeypairStep

\* What holds of a launch still holds after a step of another one.
LEMMA OthersHold ==
    ASSUME TypeOK, LaunchInv, NEW l \in Launches, Act(l),
           NEW m \in Launches, m # l
    PROVE  Holds(m)'
<1>1. Untouched(m)
  BY StepIsLocal
<1>2. (keypair[keyName[m]] = m) <=> (keypair'[keyName[m]] = m)
  BY OthersKeepName
<1>3. Holds(m)
  BY DEF LaunchInv
<1> QED
  BY <1>1, <1>2, <1>3
     DEF Untouched, Holds, KeypairHeld, FaultKnown, ServerHeld, KeyHidden, VolumeReady

-----------------------------------------------------------------------------
(* The inductive invariant.                                                *)

\* Entering the handler from a place of the guarded part keeps the invariant
\* of the launch: the with statement removed the key or rmtree is the fault, the
\* server is still there and the key pair is gone unless its deletion raised.
LEMMA HandlerHolds ==
    ASSUME TypeOK, NEW l \in Launches, Holds(l), pc[l] \in GuardedPlaces,
           NEW why \in Faults \ {"none", "keypair", "create"},
           EnterHandler(l, why),
           \/ why = "dropkey" /\ pc[l] = "dropkey"
           \/ pc[l] # "dropkey" /\ UNCHANGED keypair
    PROVE  Holds(l)'
<1> USE DEF Holds, EnterHandler, options, Goto, TypeOK
<1>1. /\ pc'[l] = "recover" /\ keyName' = keyName
      /\ keep' = keep /\ device' = device /\ mounted' = mounted
      /\ server' = server /\ keyFile' = keyFile /\ cleanup' = cleanup
  OBVIOUS
<1>f. \/ LeaveJobDir(l) /\ fault'[l] = why
      \/ RmtreeFails(l) /\ fault'[l] = "rmtree" /\ pc[l] \in JobDirPlaces
  BY DEF RmtreeFails
<1>2. keypair'[keyName'[l]] = l => why = "dropkey" /\ fault'[l] = why
  BY <1>1, <1>f DEF KeypairHeld, JobDirPlaces
<1>3. KeypairHeld(l)'
  BY <1>1, <1>2 DEF KeypairHeld, GuardedPlaces, RemoteSteps, JobDirPlaces
<1>4. FaultKnown(l)'
  BY <1>1, <1>f DEF FaultKnown, GuardedPlaces, RemoteSteps, JobDirPlaces
<1>5. ServerHeld(l)'
  BY <1>1, <1>f DEF ServerHeld
<1>6. KeyHidden(l)'
  <2>1. CASE RmtreeFails(l)
    BY <1>1, <1>f, <2>1 DEF KeyHidden, RmtreeFails
  <2>2. CASE LeaveJobDir(l) /\ pc[l] \in JobDirPlaces
    BY <1>1, <2>2 DEF KeyHidden, LeaveJobDir
  <2>3. CASE LeaveJobDir(l) /\ pc[l] \notin JobDirPlaces
    <3>1. jobdir' = jobdir /\ fault[l] = "none" /\ pc[l] # "killed"
      BY <2>3 DEF LeaveJobDir, FaultKnown, GuardedPlaces, RemoteSteps, JobDirPlaces
    <3> QED
      BY <1>1, <2>3, <3>1 DEF KeyHidden
  <2> QED
    BY <1>f, <2>1, <2>2, <2>3
<1>7. VolumeReady(l)'
  BY <1>1 DEF VolumeReady, JobDirPlaces
<1> QED
  BY <1>3, <1>4, <1>5, <1>6, <1>7

\* A step of a launch keeps its own invariant.
LEMMA OwnStepHolds ==
    ASSUME TypeOK, NEW l \in Launches, Holds(l), Act(l)
    PROVE  Holds(l)'
<1> USE DEF TypeOK, options, cloudVars, diskVars, loginVars, outcome, Goto,
            GuardedPlaces, RemoteSteps, JobDirPlaces
<1>r. ASSUME NEW why \in Faults \ {"none", "keypair", "create", "dropkey"},
             Raise(l, why), pc[l] \in GuardedPlaces \ {"dropkey"}
      PROVE  Holds(l)'
  BY <1>r, HandlerHolds DEF Raise
<1>p. ASSUME NEW place, Proceed(l, place),
             \/ pc[l] = "elevate" /\ place = "rootlogin"
             \/ pc[l] = "inventory" /\ place = "groups"
             \/ pc[l] = "groups" /\ place = "writekey"
             \/ pc[l] = "jobfiles" /\ place = "hostnames"
             \/ pc[l] = "hostnames" /\ place = "puppet"
             \/ pc[l] = "reboot" /\ place = "done"
      PROVE  Holds(l)'
  BY <1>p DEF Proceed, Holds, KeypairHeld, FaultKnown, ServerHeld, KeyHidden, VolumeReady
<1>1. CASE CreateKeypair(l)
  BY <1>1, NoLaunchAssumption
     DEF CreateKeypair, AddKeypair, Holds, KeypairHeld, FaultKnown, ServerHeld,
         KeyHidden, VolumeReady
<1>2. CASE CreateServer(l)
  BY <1>2 DEF CreateServer, AddServer, Holds, KeypairHeld, FaultKnown, ServerHeld,
              KeyHidden, VolumeReady
<1>3. CASE Rollback(l)
  BY <1>3, NoLaunchAssumption
     DEF Rollback, RemoveKeypair, Holds, KeypairHeld, FaultKnown, ServerHeld,
         KeyHidden, VolumeReady
<1>4. CASE DropKeypair(l)
  <2>1. CASE EnterHandler(l, "dropkey")
    BY <1>4, <2>1, HandlerHolds DEF DropKeypair, Faults
  <2>2. CASE RemoveKeypair(l) /\ ~EnterHandler(l, "dropkey")
    BY <1>4, <2>2, NoLaunchAssumption
       DEF DropKeypair, RemoveKeypair, Holds, KeypairHeld, FaultKnown, ServerHeld,
           KeyHidden, VolumeReady
  <2> QED
    BY <1>4, <2>1, <2>2 DEF DropKeypair
<1>5. CASE Prepare(l)
  BY <1>5, <1>r DEF Prepare, Faults, Holds, KeypairHeld, FaultKnown, ServerHeld,
                    KeyHidden, VolumeReady
<1>6. CASE Login(l)
  BY <1>6, <1>r DEF Login, SshRetry, SshConnected, Faults, Holds, KeypairHeld,
                    FaultKnown, ServerHeld, KeyHidden, VolumeReady
<1>7. CASE RootLogin(l)
  BY <1>7, <1>r DEF RootLogin, SshRetry, SshConnected, Faults, Holds, KeypairHeld,
                    FaultKnown, ServerHeld, KeyHidden, VolumeReady
<1>8. CASE Elevate(l)
  BY <1>8, <1>r, <1>p DEF Elevate, Faults
<1>9. CASE RemoteStep(l)
  <2>1. CASE Raise(l, "remote")
    BY <1>9, <2>1, <1>r DEF RemoteStep, Faults
  <2>2. CASE /\ mounted' = [mounted EXCEPT ![l] = @ \/ pc[l] = "mount"]
             /\ Goto(l, AfterRemote(l)[pc[l]])
             /\ UNCHANGED <<options, device, loginVars, cloudVars, diskVars, outcome>>
    <3>1. pc'[l] = AfterRemote(l)[pc[l]]
      BY <2>2
    <3>2. /\ pc[l] = "network" => pc'[l] = "swap"
          /\ pc[l] = "swap" => pc'[l] \in {"mount", "install"}
          /\ pc[l] = "swap" /\ device[l] => pc'[l] = "mount"
          /\ pc[l] = "mount" => pc'[l] = "install"
          /\ pc[l] = "install" => pc'[l] = "jobdir"
          /\ pc[l] \in RemoteSteps
      BY <1>9, <3>1 DEF RemoteStep, AfterRemote
    <3>3. mounted'[l] = (mounted[l] \/ pc[l] = "mount")
      BY <2>2, Zenon
    <3>4. VolumeReady(l)'
      BY <2>2, <3>2, <3>3 DEF Holds, VolumeReady
    <3>5. KeypairHeld(l)' /\ FaultKnown(l)' /\ ServerHeld(l)' /\ KeyHidden(l)'
      BY <2>2, <3>2 DEF Holds, KeypairHeld, FaultKnown, ServerHeld, KeyHidden
    <3> QED
      BY <3>4, <3>5 DEF Holds
  <2> QED
    BY <1>9, <2>1, <2>2 DEF RemoteStep
<1>10. CASE EnterJobDir(l)
  <2>1. CASE Raise(l, "local")
    BY <1>10, <2>1, <1>r DEF EnterJobDir, Faults
  <2>2. CASE MakeDir(l) /\ ~Raise(l, "local")
    BY <1>10, <2>2 DEF EnterJobDir, MakeDir, Holds, KeypairHeld, FaultKnown,
                       ServerHeld, KeyHidden, VolumeReady
  <2> QED
    BY <1>10, <2>1, <2>2 DEF EnterJobDir
<1>11. CASE Regenerate(l)
  BY <1>11, <1>r, <1>p DEF Regenerate, Faults
<1>12. CASE WriteJobFiles(l)
  <2>1. CASE WriteKey(l) /\ ~Raise(l, "local")
    BY <1>12, <2>1 DEF WriteJobFiles, WriteKey, Holds, KeypairHeld, FaultKnown,
                       ServerHeld, KeyHidden, VolumeReady
  <2> QED
    BY <1>12, <2>1, <1>r, <1>p DEF WriteJobFiles, Faults
<1>13. CASE Playbook(l)
  <2>1. CASE pc[l] = "hostnames"
    BY <1>13, <2>1, <1>r, <1>p DEF Playbook, Faults
  <2>2. CASE pc[l] = "puppet" /\ Raise(l, "playbook")
    BY <2>2, <1>r DEF Faults
  <2>3. CASE pc[l] = "puppet" /\ ~Raise(l, "playbook")
    <3>1. /\ LeaveJobDir(l) /\ Goto(l, "reboot")
          /\ UNCHANGED <<options, device, loginVars, cloudVars, mounted, keyFile, outcome>>
      BY <1>13, <2>3 DEF Playbook
    <3>2. ~keep[l] => jobdir'[l] = "removed"
      BY <2>3, <3>1 DEF LeaveJobDir
    <3> QED
      BY <2>3, <3>1, <3>2 DEF Holds, KeypairHeld, FaultKnown, ServerHeld, KeyHidden,
                              VolumeReady
  <2> QED
    BY <1>13, <2>1, <2>2, <2>3 DEF Playbook
<1>14. CASE Reboot(l)
  BY <1>14, <1>r, <1>p DEF Reboot, Faults
<1>15. CASE Recover(l)
  BY <1>15 DEF Recover, RemoveServer, Holds, KeypairHeld, FaultKnown, ServerHeld,
               KeyHidden, VolumeReady
<1>16. CASE Interrupt(l) \/ Kill(l)
  <2>1. pc'[l] \in {"interrupted", "killed"}
    BY <1>16 DEF Interrupt, Kill
  <2>2. /\ keep' = keep /\ device' = device /\ keyFile' = keyFile
        /\ fault'[l] \in {fault[l], "rmtree"}
        /\ fault[l] = "keypair" => pc[l] \notin Running
    BY <1>16 DEF Interrupt, Kill, RmtreeFails, StopDuringCall, Running, Holds, FaultKnown
  <2>3. ~keep[l] /\ jobdir'[l] = "key" => pc'[l] = "killed" \/ fault'[l] = "rmtree"
    <3>1. CASE Kill(l)
      BY <3>1 DEF Kill
    <3>2. CASE RmtreeFails(l)
      BY <3>2 DEF RmtreeFails
    <3>3. CASE LeaveJobDir(l) /\ UNCHANGED fault
      <4>1. CASE pc[l] \notin JobDirPlaces
        BY <1>16, <3>3, <4>1 DEF LeaveJobDir, Interrupt, Kill, Holds, KeyHidden, Running
      <4>2. CASE pc[l] \in JobDirPlaces
        BY <3>3, <4>2 DEF LeaveJobDir
      <4> QED
        BY <4>1, <4>2
    <3>4. CASE MakeDir(l)
      BY <3>4 DEF MakeDir
    <3> QED
      BY <1>16, <3>1, <3>2, <3>3, <3>4 DEF Interrupt
  <2> QED
    BY <1>16, <2>1, <2>2, <2>3
       DEF Interrupt, Kill, Holds, KeypairHeld, FaultKnown, ServerHeld, KeyHidden,
           VolumeReady
<1> QED
  BY <1>1, <1>2, <1>3, <1>4, <1>5, <1>6, <1>7, <1>8, <1>9, <1>10, <1>11, <1>12,
     <1>13, <1>14, <1>15, <1>16 DEF Act, Step

\* Each launch holds what its place needs, for any number of launches that
\* share key names in any way.
THEOREM LaunchInvariant == Spec => []LaunchInv
<1>1. ASSUME Init, NEW l \in Launches
      PROVE  Holds(l)
  <2>1. /\ pc[l] = "keypair" /\ ~device[l] /\ server[l] = "none" /\ ~keyFile[l]
        /\ jobdir[l] = "none" /\ fault[l] = "none"
    BY <1>1 DEF Init
  <2>2. keypair[keyName[l]] # l
    BY <1>1, NoLaunchAssumption DEF Init
  <2> QED
    BY <2>1, <2>2 DEF Holds, KeypairHeld, FaultKnown, ServerHeld, KeyHidden, VolumeReady,
                      GuardedPlaces, RemoteSteps, JobDirPlaces
<1>2. ASSUME TypeOK, LaunchInv, [Next]_vars
      PROVE  LaunchInv'
  <2>1. ASSUME NEW l \in Launches, Act(l), NEW m \in Launches
        PROVE  Holds(m)'
    <3>1. CASE m = l
      BY <1>2, <2>1, <3>1, OwnStepHolds DEF LaunchInv
    <3>2. CASE m # l
      BY <1>2, <2>1, <3>2, OthersHold
    <3> QED
      BY <3>1, <3>2
  <2>2. CASE UNCHANGED vars
    BY <1>2, <2>2
       DEF LaunchInv, Holds, KeypairHeld, FaultKnown, ServerHeld, KeyHidden,
           VolumeReady, vars, options, cloudVars, diskVars, outcome
  <2> QED
    BY <1>2, <2>1, <2>2 DEF LaunchInv, Next, Act
<1>3. Init => LaunchInv
  BY <1>1 DEF LaunchInv
<1> QED
  BY <1>2, <1>3, TypeCorrect, PTL DEF Spec

-----------------------------------------------------------------------------
(* The properties.                                                         *)

\* A failed launch leaves a server behind only when it was told to, when its
\* deletion raised, or when create_server did.
THEOREM OrphanServers == Spec => []NoOrphanServer
<1>1. LaunchInv => NoOrphanServer
  BY DEF LaunchInv, Holds, ServerHeld, NoOrphanServer
<1> QED
  BY <1>1, LaunchInvariant, PTL

\* A launch that ends leaves a key pair behind only when the call that creates
\* or deletes it raised.
THEOREM OrphanKeypairs == Spec => []NoOrphanKeypair
<1>1. LaunchInv => NoOrphanKeypair
  BY DEF LaunchInv, Holds, KeypairHeld, NoOrphanKeypair
<1> QED
  BY <1>1, LaunchInvariant, PTL

\* With --keep the server of a failed launch can still be reached.
THEOREM KeptServers == Spec => []KeptServerReachable
<1>1. LaunchInv => KeptServerReachable
  BY DEF LaunchInv, Holds, ServerHeld, KeptServerReachable
<1> QED
  BY <1>1, LaunchInvariant, PTL

\* Without --keep no private key outlives the script, unless it is killed or
\* rmtree itself fails or is interrupted.
THEOREM PrivateKeys == Spec => []PrivateKeyRemoved
<1>1. TypeOK /\ LaunchInv => PrivateKeyRemoved
  BY DEF TypeOK, LaunchInv, Holds, KeyHidden, PrivateKeyRemoved, JobDirPlaces, Terminated
<1> QED
  BY <1>1, TypeCorrect, LaunchInvariant, PTL

\* A launch that reports success is complete, and stays so.
THEOREM Completeness == Spec => []DoneIsComplete
<1>1. LaunchInv => DoneIsComplete
  BY DEF LaunchInv, Holds, KeypairHeld, FaultKnown, ServerHeld, VolumeReady,
         DoneIsComplete
<1> QED
  BY <1>1, LaunchInvariant, PTL

\* A key pair is deleted by the launch that created it, although deletion is by
\* name and names collide.
THEOREM KeypairsNotStolen == Spec => KeypairNotStolen
<1> DEFINE Own == \A n \in KeyNames :
             keypair[n] # NoLaunch /\ keypair'[n] # keypair[n] =>
                 /\ keypair'[n] = NoLaunch
                 /\ pc'[keypair[n]] # pc[keypair[n]]
<1>1. ASSUME TypeOK, LaunchInv, [Next]_vars
      PROVE  Own
  <2>1. ASSUME NEW l \in Launches, Act(l)
        PROVE  Own
    <3>1. CASE UNCHANGED keypair
      BY <3>1
    <3>2. CASE AddKeypair(l)
      BY <1>1, <3>2 DEF AddKeypair, TypeOK
    <3>3. CASE RemoveKeypair(l) /\ pc[l] \in {"rollback", "dropkey"}
      <4>1. keypair[keyName[l]] = l
        BY <1>1, <3>3 DEF LaunchInv, Holds, KeypairHeld
      <4>2. pc'[l] # pc[l]
        BY <1>1, <2>1, <3>3
           DEF Act, Step, TypeOK, CreateKeypair, CreateServer, Rollback, DropKeypair,
               EnterHandler, Prepare, Login, Elevate, RootLogin, RemoteStep,
               RemoteSteps, EnterJobDir, Regenerate, WriteJobFiles, Playbook, Reboot,
               Recover, Interrupt, Kill, Goto
      <4> QED
        BY <1>1, <3>3, <4>1, <4>2 DEF RemoveKeypair, TypeOK
    <3> QED
      BY <2>1, <3>1, <3>2, <3>3, KeypairStep
  <2>2. CASE UNCHANGED vars
    BY <2>2 DEF vars, cloudVars
  <2> QED
    BY <1>1, <2>1, <2>2 DEF Next, Act
<1> QED
  BY <1>1, TypeCorrect, LaunchInvariant, PTL DEF Spec, KeypairNotStolen

-----------------------------------------------------------------------------
(* Why launches end.                                                       *)

\* The places in the order in which a launch comes to them, whatever it leaves
\* out and wherever it fails.
Rank ==
    [keypair |-> 1, create |-> 2, dropkey |-> 3, prepare |-> 4, login |-> 5,
     elevate |-> 6, rootlogin |-> 7, network |-> 8, swap |-> 9, mount |-> 10,
     install |-> 11, jobdir |-> 12, inventory |-> 13, groups |-> 14, writekey |-> 15,
     jobfiles |-> 16, hostnames |-> 17, puppet |-> 18, reboot |-> 19, recover |-> 20,
     rollback |-> 21, failed |-> 22, done |-> 22, interrupted |-> 22, killed |-> 22]

\* The launch comes to a later place, or to a later user name or attempt of a
\* login; TypeOK bounds all three.
Forward(l) ==
    \/ Rank[pc[l]] < Rank[pc'[l]]
    \/ /\ pc'[l] = pc[l] /\ pc[l] \in {"login", "rootlogin"}
       /\ \/ user[l] < user'[l]
          \/ user'[l] = user[l] /\ tries[l] < tries'[l]

\* A step takes one launch forward and no other anywhere.
OneForward ==
    \E l \in Launches :
        /\ Forward(l)
        /\ \A m \in Launches \ {l} :
              pc'[m] = pc[m] /\ user'[m] = user[m] /\ tries'[m] = tries[m]

LEMMA LoginsUntouched ==
    ASSUME TypeOK, NEW l \in Launches, Act(l), NEW m \in Launches, m # l
    PROVE  user'[m] = user[m] /\ tries'[m] = tries[m]
<1> USE DEF options, cloudVars, diskVars, loginVars, outcome, Goto, TypeOK
<1>r. ASSUME NEW why, EnterHandler(l, why)
      PROVE  user'[m] = user[m] /\ tries'[m] = tries[m]
  BY <1>r DEF EnterHandler, ForgetLogin
<1>p. ASSUME NEW place, Proceed(l, place)
      PROVE  user'[m] = user[m] /\ tries'[m] = tries[m]
  BY <1>p DEF Proceed
<1>1. CASE CreateKeypair(l) \/ CreateServer(l) \/ Rollback(l)
  BY <1>1 DEF CreateKeypair, CreateServer, Rollback
<1>2. CASE DropKeypair(l) \/ Prepare(l)
  BY <1>2, <1>r DEF DropKeypair, Prepare, Raise
<1>3. CASE Login(l) \/ RootLogin(l)
  BY <1>3, <1>r DEF Login, RootLogin, SshRetry, SshConnected, ForgetLogin, Raise
<1>4. CASE Elevate(l) \/ Regenerate(l) \/ Reboot(l)
  BY <1>4, <1>r, <1>p DEF Elevate, Regenerate, Reboot, Raise
<1>5. CASE RemoteStep(l)
  BY <1>5, <1>r DEF RemoteStep, Raise
<1>6. CASE EnterJobDir(l) \/ WriteJobFiles(l)
  BY <1>6, <1>r, <1>p DEF EnterJobDir, WriteJobFiles, Raise
<1>7. CASE Playbook(l)
  BY <1>7, <1>r, <1>p DEF Playbook, Raise
<1>8. CASE Recover(l) \/ Interrupt(l) \/ Kill(l)
  BY <1>8 DEF Recover, Interrupt, Kill, StopDuringCall
<1> QED
  BY <1>1, <1>2, <1>3, <1>4, <1>5, <1>6, <1>7, <1>8 DEF Act, Step

\* Leaving a place early for the handler or the end is forward too.
LEMMA Goes ==
    ASSUME TypeOK, NEW l \in Launches, NEW place, Goto(l, place),
           Rank[pc[l]] < Rank[place]
    PROVE  Forward(l)
<1>1. pc'[l] = place
  BY DEF TypeOK, Goto
<1> QED
  BY <1>1 DEF Forward

LEMMA ActForward ==
    ASSUME TypeOK, NEW l \in Launches, Act(l)
    PROVE  Forward(l)
<1>r. ASSUME NEW why, EnterHandler(l, why), pc[l] \in GuardedPlaces
      PROVE  Forward(l)
  <2>1. Rank[pc[l]] < Rank["recover"]
    BY <1>r DEF Rank, GuardedPlaces, RemoteSteps, JobDirPlaces
  <2> QED
    BY <1>r, <2>1, Goes DEF EnterHandler
<1>1. CASE CreateKeypair(l)
  <2>1. pc[l] = "keypair" /\ (Goto(l, "create") \/ Goto(l, "failed"))
    BY <1>1 DEF CreateKeypair
  <2> QED
    BY <2>1, Goes DEF Rank
<1>2. CASE CreateServer(l)
  <2>1. pc[l] = "create" /\ (Goto(l, "dropkey") \/ Goto(l, "rollback"))
    BY <1>2 DEF CreateServer
  <2> QED
    BY <2>1, Goes DEF Rank
<1>3. CASE Rollback(l)
  <2>1. pc[l] = "rollback" /\ Goto(l, "failed")
    BY <1>3 DEF Rollback
  <2> QED
    BY <2>1, Goes DEF Rank
<1>4. CASE DropKeypair(l) \/ Prepare(l)
  <2>1. \/ pc[l] = "dropkey" /\ Goto(l, "prepare")
        \/ pc[l] = "prepare" /\ Goto(l, "login")
        \/ pc[l] \in {"dropkey", "prepare"} /\ \E why : EnterHandler(l, why)
    BY <1>4 DEF DropKeypair, Prepare, Raise
  <2> QED
    BY <2>1, <1>r, Goes DEF Rank, GuardedPlaces
<1>5. CASE Login(l) \/ RootLogin(l)
  <2>1. CASE SshRetry(l)
    <3>1. pc'[l] = pc[l] /\ user'[l] = user[l] /\ tries'[l] = tries[l] + 1
      BY <2>1 DEF SshRetry, TypeOK
    <3>2. tries[l] \in Nat /\ pc[l] \in {"login", "rootlogin"}
      BY <1>5, MaxTriesAssumption DEF TypeOK, Login, RootLogin
    <3> QED
      BY <3>1, <3>2 DEF Forward
  <2>2. CASE \E place \in {"rootlogin", "elevate"} : pc[l] = "login" /\ SshConnected(l, place)
    BY <2>2, Goes DEF Rank, SshConnected
  <2>3. CASE pc[l] = "rootlogin" /\ SshConnected(l, "network")
    BY <2>3, Goes DEF Rank, SshConnected
  <2>4. CASE pc[l] = "login" /\ user' = [user EXCEPT ![l] = @ + 1] /\ UNCHANGED pc
    <3>1. user[l] \in Nat /\ user'[l] = user[l] + 1
      BY <2>4 DEF TypeOK
    <3> QED
      BY <2>4, <3>1 DEF Forward
  <2>5. CASE pc[l] \in {"login", "rootlogin"} /\ EnterHandler(l, "login")
    BY <2>5, <1>r DEF GuardedPlaces
  <2>6. CASE Login(l)
    BY <2>6, <2>1, <2>2, <2>4, <2>5 DEF Login, Raise
  <2>7. CASE RootLogin(l)
    BY <2>7, <2>1, <2>3, <2>5 DEF RootLogin, Raise
  <2> QED
    BY <1>5, <2>6, <2>7
<1>6. CASE RemoteStep(l)
  <2>1. CASE Raise(l, "remote")
    BY <1>6, <2>1, <1>r DEF RemoteStep, Raise, GuardedPlaces
  <2>2. CASE Goto(l, AfterRemote(l)[pc[l]])
    <3>1. Rank[pc[l]] < Rank[AfterRemote(l)[pc[l]]]
      BY <1>6 DEF RemoteStep, RemoteSteps, AfterRemote, Rank
    <3> QED
      BY <2>2, <3>1, Goes
  <2> QED
    BY <1>6, <2>1, <2>2 DEF RemoteStep
<1>7. CASE Elevate(l) \/ EnterJobDir(l) \/ Regenerate(l) \/ WriteJobFiles(l)
  <2>1. \/ pc[l] = "elevate" /\ Goto(l, "rootlogin")
        \/ pc[l] = "jobdir" /\ (Goto(l, "inventory") \/ Goto(l, "recover"))
        \/ pc[l] = "inventory" /\ Goto(l, "groups")
        \/ pc[l] = "groups" /\ Goto(l, "writekey")
        \/ pc[l] = "writekey" /\ Goto(l, "jobfiles")
        \/ pc[l] = "jobfiles" /\ Goto(l, "hostnames")
        \/ /\ pc[l] \in {"elevate", "jobdir"} \cup JobDirPlaces
           /\ \E why : EnterHandler(l, why)
    BY <1>7 DEF Elevate, EnterJobDir, Regenerate, WriteJobFiles, Proceed, Raise, JobDirPlaces
  <2> QED
    BY <2>1, <1>r, Goes DEF Rank, GuardedPlaces
<1>8. CASE Playbook(l) \/ Reboot(l)
  <2>1. \/ pc[l] = "hostnames" /\ Goto(l, "puppet")
        \/ pc[l] = "puppet" /\ Goto(l, "reboot")
        \/ pc[l] = "reboot" /\ Goto(l, "done")
        \/ /\ pc[l] \in {"reboot"} \cup JobDirPlaces
           /\ \E why : EnterHandler(l, why)
    BY <1>8 DEF Playbook, Reboot, Proceed, Raise, JobDirPlaces
  <2> QED
    BY <2>1, <1>r, Goes DEF Rank, GuardedPlaces
<1>9. CASE Recover(l)
  <2>1. pc[l] = "recover" /\ Goto(l, "failed")
    BY <1>9 DEF Recover
  <2> QED
    BY <2>1, Goes DEF Rank
<1>10. CASE Interrupt(l) \/ Kill(l)
  <2>1. pc[l] \in Running /\ (Goto(l, "interrupted") \/ Goto(l, "killed"))
    BY <1>10 DEF Interrupt, Kill
  <2>2. Rank[pc[l]] < 22
    BY <2>1 DEF Running, GuardedPlaces, RemoteSteps, JobDirPlaces, Rank
  <2>3. Rank["interrupted"] = 22 /\ Rank["killed"] = 22
    BY DEF Rank
  <2> QED
    BY <2>1, <2>2, <2>3, Goes
<1> QED
  BY <1>1, <1>2, <1>3, <1>4, <1>5, <1>6, <1>7, <1>8, <1>9, <1>10 DEF Act, Step

\* Why LaunchEnds holds, but for fairness: every step, failure or interruption
\* takes a launch forward, and no launch sends another one back, so that there
\* are only so many steps, whatever number of attempts the timeout allows.
THEOREM StepsGoForward == Spec => [][OneForward]_vars
<1>1. ASSUME TypeOK, [Next]_vars PROVE [OneForward]_vars
  <2>1. ASSUME NEW l \in Launches, Act(l) PROVE OneForward
    <3>1. Forward(l)
      BY <1>1, <2>1, ActForward
    <3>2. \A m \in Launches \ {l} : pc'[m] = pc[m]
      BY <1>1, <2>1, StepIsLocal DEF Untouched
    <3>3. \A m \in Launches \ {l} : user'[m] = user[m] /\ tries'[m] = tries[m]
      BY <1>1, <2>1, LoginsUntouched
    <3> QED
      BY <3>1, <3>2, <3>3, Zenon DEF OneForward
  <2> QED
    BY <1>1, <2>1 DEF Next, Act
<1> QED
  BY <1>1, TypeCorrect, PTL DEF Spec

=============================================================================
