----------------------------- MODULE LaunchNode -----------------------------
(***************************************************************************)
(* launch/launch-node.py: an operator starts a server in a cloud, logs in  *)
(* over ssh, configures it, runs puppet on it and reboots it.  Several     *)
(* operators may run the script at once against one cloud project; what    *)
(* they share is the name space of key pairs, because the name of a key    *)
(* pair is the time in whole seconds.  Every call that leaves the process  *)
(* may raise, and the process may be interrupted (KeyboardInterrupt, which *)
(* "except Exception" does not catch) or killed at any point.              *)
(***************************************************************************)
EXTENDS Naturals, Sequences

CONSTANTS
    Launches,   \* running instances of the script
    KeyNames,   \* the names 'launch-<seconds>' their start times give
    NoLaunch,   \* the key pair of this name does not exist
    MaxTries    \* bound: attempts that fit in the 600 s timeout of ssh_connect

ASSUME NoLaunchAssumption == NoLaunch \notin Launches
ASSUME MaxTriesAssumption == MaxTries \in Nat

VARIABLES
    pc,         \* where each launch is
    keyName,    \* key_name of each launch, fixed when it starts
    keep,       \* --keep
    volume,     \* --volume was given
    device,     \* volume_device is not None
    user,       \* index of the user name being tried
    tries,      \* iterations of iterate_timeout so far
    keypair,    \* the cloud: which launch created the key pair of this name
    server,     \* the cloud: the server of each launch
    mounted,    \* the volume is mounted on the server
    jobdir,     \* the temporary directory of the launch, and what is in it
    keyFile,    \* the private key was saved as /tmp/<server id>.id_rsa
    fault,      \* what made the launch fail
    cleanup     \* how the clean up of a failed launch went

options == <<keyName, keep, volume>>
cloudVars == <<keypair, server>>
diskVars == <<jobdir, keyFile>>
loginVars == <<user, tries>>
outcome == <<fault, cleanup>>
vars == <<pc, options, device, loginVars, cloudVars, mounted, diskVars, outcome>>

-----------------------------------------------------------------------------
(* The places of build_server and bootstrap_server.                        *)

\* The user names bootstrap_server tries, in this order.
Usernames == <<"root", "ubuntu", "centos", "admin">>

\* The commands run over the root connection, one place each.
RemoteSteps == {"network", "swap", "mount", "install"}

\* The places inside "with JobDir(keep) as jobdir".
JobDirPlaces ==
    {"inventory", "groups", "writekey", "jobfiles", "hostnames", "puppet"}

\* The places inside the try statement that owns the server.
GuardedPlaces ==
    {"dropkey", "prepare", "login", "elevate", "rootlogin", "jobdir", "reboot"}
        \cup RemoteSteps \cup JobDirPlaces

Running == {"keypair", "create", "rollback", "recover"} \cup GuardedPlaces

Terminated == {"done", "failed", "interrupted", "killed"}

Faults ==
    {"none", "keypair", "create", "dropkey", "prepare", "login", "remote",
     "local", "playbook", "rmtree", "reboot refused", "reboot dropped"}

TypeOK ==
    /\ pc \in [Launches -> Running \cup Terminated]
    /\ keyName \in [Launches -> KeyNames]
    /\ keep \in [Launches -> BOOLEAN]
    /\ volume \in [Launches -> BOOLEAN]
    /\ device \in [Launches -> BOOLEAN]
    /\ user \in [Launches -> 1..4]
    /\ tries \in [Launches -> 0..MaxTries]
    /\ keypair \in [KeyNames -> Launches \cup {NoLaunch}]
    /\ server \in [Launches -> {"none", "exists", "deleted"}]
    /\ mounted \in [Launches -> BOOLEAN]
    /\ jobdir \in [Launches -> {"none", "empty", "key", "removed"}]
    /\ keyFile \in [Launches -> BOOLEAN]
    /\ fault \in [Launches -> Faults]
    /\ cleanup \in [Launches -> {"none", "ok", "raised"}]

Init ==
    /\ pc = [l \in Launches |-> "keypair"]
    /\ keyName \in [Launches -> KeyNames]
    /\ keep \in [Launches -> BOOLEAN]
    /\ volume \in [Launches -> BOOLEAN]
    /\ device = [l \in Launches |-> FALSE]
    /\ user = [l \in Launches |-> 1]
    /\ tries = [l \in Launches |-> 0]
    /\ keypair = [n \in KeyNames |-> NoLaunch]
    /\ server = [l \in Launches |-> "none"]
    /\ mounted = [l \in Launches |-> FALSE]
    /\ jobdir = [l \in Launches |-> "none"]
    /\ keyFile = [l \in Launches |-> FALSE]
    /\ fault = [l \in Launches |-> "none"]
    /\ cleanup = [l \in Launches |-> "none"]

-----------------------------------------------------------------------------
(* Moving on, and failing.                                                 *)

Goto(l, place) == pc' = [pc EXCEPT ![l] = place]

\* Mutant: no __exit__.
LeaveJobDirAsItIs(l) == UNCHANGED jobdir

\* The calls that fill the directory, which have their effect also when the
\* statement they are part of raises, or when the process stops in it.
MakeDir(l) ==
    /\ pc[l] = "jobdir"
    /\ jobdir' = [jobdir EXCEPT ![l] = "empty"]

WriteKey(l) ==
    /\ pc[l] = "writekey"
    /\ jobdir' = [jobdir EXCEPT ![l] = "key"]

\* JobDir.__exit__, reached on every way out of the with statement: the
\* directory goes unless --keep was given.
LeaveJobDir(l) ==
    \/ pc[l] \notin JobDirPlaces /\ UNCHANGED jobdir
    \/ /\ pc[l] \in JobDirPlaces
       /\ \/ keep[l] /\ (UNCHANGED jobdir \/ WriteKey(l))
          \/ ~keep[l] /\ jobdir' = [jobdir EXCEPT ![l] = "removed"]

\* The rmtree of __exit__ raises, or Control-C comes while it runs: a part of
\* the directory stays, with or without the key.
RmtreeFails(l) ==
    /\ pc[l] \in JobDirPlaces
    /\ ~keep[l]
    /\ \/ UNCHANGED jobdir
       \/ jobdir' = [jobdir EXCEPT ![l] = "empty"]
       \/ WriteKey(l)
    /\ fault' = [fault EXCEPT ![l] = "rmtree"]

\* The local variables of the login are set back once nothing reads them.
ForgetLogin(l) ==
    /\ user' = [user EXCEPT ![l] = 1]
    /\ tries' = [tries EXCEPT ![l] = 0]

\* Mutant: bootstrap_server is called outside the try statement.
NoHandler(l, why) ==
    /\ Goto(l, "failed")
    /\ fault' = [fault EXCEPT ![l] = why]
    /\ LeaveJobDir(l)
    /\ ForgetLogin(l)
    /\ UNCHANGED <<options, device, server, mounted, keyFile, cleanup>>

\* An exception raised where the try statement of build_server owns the
\* server: the with statement is left first, then the handler runs.  An
\* exception of rmtree takes the place of the one that left the statement.
EnterHandler(l, why) ==
    /\ Goto(l, "recover")
    /\ \/ LeaveJobDir(l) /\ fault' = [fault EXCEPT ![l] = why]
       \/ RmtreeFails(l)
    /\ ForgetLogin(l)
    /\ UNCHANGED <<options, device, server, mounted, keyFile, cleanup>>

Raise(l, why) == EnterHandler(l, why) /\ UNCHANGED keypair

\* A step that only moves on.
Proceed(l, place) ==
    /\ Goto(l, place)
    /\ UNCHANGED <<options, device, loginVars, cloudVars, mounted, diskVars, outcome>>

-----------------------------------------------------------------------------
(* The calls to the cloud that have an effect there.  A call that raises    *)
(* may have had its effect or not: the answer is lost, or the request is.   *)

AddKeypair(l) ==
    /\ keypair[keyName[l]] = NoLaunch
    /\ keypair' = [keypair EXCEPT ![keyName[l]] = l]

\* By name: whoever created the key pair.
RemoveKeypair(l) == keypair' = [keypair EXCEPT ![keyName[l]] = NoLaunch]

AddServer(l) == server' = [server EXCEPT ![l] = "exists"]

RemoveServer(l) == server' = [server EXCEPT ![l] = "deleted"]

-----------------------------------------------------------------------------
(* build_server: the key pair and the server.                              *)

\* Mutant: create_keypair moved into the try statement of create_server.
CreateKeypairInTry(l) ==
    /\ pc[l] = "keypair"
    /\ \/ /\ AddKeypair(l)
          /\ Goto(l, "create")
          /\ UNCHANGED fault
       \/ /\ AddKeypair(l) \/ UNCHANGED keypair
          /\ Goto(l, "rollback")
          /\ fault' = [fault EXCEPT ![l] = "keypair"]
    /\ UNCHANGED <<options, device, loginVars, server, mounted, diskVars, cleanup>>

\* cloud.create_keypair, outside every try: the name may be taken by a launch
\* of the same second.
CreateKeypair(l) ==
    /\ pc[l] = "keypair"
    /\ \/ /\ AddKeypair(l)
          /\ Goto(l, "create")
          /\ UNCHANGED fault
       \/ /\ AddKeypair(l) \/ UNCHANGED keypair
          /\ Goto(l, "failed")
          /\ fault' = [fault EXCEPT ![l] = "keypair"]
    /\ UNCHANGED <<options, device, loginVars, server, mounted, diskVars, cleanup>>

\* cloud.create_server(wait=True): it raises when the request is refused, and
\* also when the server was created and did not become active in time.
CreateServer(l) ==
    /\ pc[l] = "create"
    /\ \/ /\ AddServer(l)
          /\ Goto(l, "dropkey")
          /\ UNCHANGED fault
       \/ /\ AddServer(l) \/ UNCHANGED server
          /\ Goto(l, "rollback")
          /\ fault' = [fault EXCEPT ![l] = "create"]
    /\ UNCHANGED <<options, device, loginVars, keypair, mounted, diskVars, cleanup>>

\* Mutant: create_server is not guarded.
RollbackNothing(l) ==
    /\ pc[l] = "rollback"
    /\ Goto(l, "failed")
    /\ UNCHANGED <<options, device, loginVars, cloudVars, mounted, diskVars, outcome>>

\* The handler of create_server: it deletes the key pair, reports an exception
\* of that call and raises the first one again.
Rollback(l) ==
    /\ pc[l] = "rollback"
    /\ \/ /\ RemoveKeypair(l)
          /\ cleanup' = [cleanup EXCEPT ![l] = "ok"]
       \/ /\ RemoveKeypair(l) \/ UNCHANGED keypair
          /\ cleanup' = [cleanup EXCEPT ![l] = "raised"]
    /\ Goto(l, "failed")
    /\ UNCHANGED <<options, device, loginVars, server, mounted, diskVars, fault>>

\* The first call of the guarded part: delete_keypair.
DropKeypair(l) ==
    /\ pc[l] = "dropkey"
    /\ \/ /\ RemoveKeypair(l)
          /\ Goto(l, "prepare")
          /\ UNCHANGED <<options, device, loginVars, server, mounted, diskVars, outcome>>
       \/ /\ RemoveKeypair(l) \/ UNCHANGED keypair
          /\ EnterHandler(l, "dropkey")

\* get_openstack_vars, get_volume and get_volume_attach_device.  The device is
\* None when no volume was asked for, and when the cloud does not report one.
Prepare(l) ==
    /\ pc[l] = "prepare"
    /\ \/ /\ \E d \in {FALSE, volume[l]} : device' = [device EXCEPT ![l] = d]
          /\ Goto(l, "login")
          /\ UNCHANGED <<options, loginVars, cloudVars, mounted, diskVars, outcome>>
       \/ Raise(l, "prepare")

-----------------------------------------------------------------------------
(* ssh_connect: a client, None, or an exception.                           *)

\* Mutant: the attempts are not counted against the timeout.
SshRetryForever(l) ==
    /\ tries' = [tries EXCEPT ![l] = (@ + 1) % (MaxTries + 1)]
    /\ UNCHANGED <<pc, options, device, user, cloudVars, mounted, diskVars, outcome>>

\* socket.error: sleep and try again while the timeout lasts.
SshRetry(l) ==
    /\ tries[l] < MaxTries
    /\ tries' = [tries EXCEPT ![l] = @ + 1]
    /\ UNCHANGED <<pc, options, device, user, cloudVars, mounted, diskVars, outcome>>

\* The connection is made and "access okay" comes back.
SshConnected(l, place) ==
    /\ ForgetLogin(l)
    /\ Goto(l, place)
    /\ UNCHANGED <<options, device, cloudVars, mounted, diskVars, outcome>>

\* The loop of bootstrap_server over the user names.  None (the key is refused,
\* or something else than "access okay" comes back) leads to the next name;
\* every other exception, and the timeout, ends the launch.
Login(l) ==
    /\ pc[l] = "login"
    /\ \/ SshRetry(l)
       \/ SshConnected(l, IF user[l] = 1 THEN "rootlogin" ELSE "elevate")
       \/ /\ user[l] < Len(Usernames)
          /\ user' = [user EXCEPT ![l] = @ + 1]
          /\ tries' = [tries EXCEPT ![l] = 0]
          /\ UNCHANGED <<pc, options, device, cloudVars, mounted, diskVars, outcome>>
       \/ Raise(l, "login")

\* Overwrite the authorized_keys of root over the connection of another user.
Elevate(l) ==
    /\ pc[l] = "elevate"
    /\ Proceed(l, "rootlogin") \/ Raise(l, "remote")

\* The connection used from here on; None has no ssh method, so that it
\* raises at the first command.
RootLogin(l) ==
    /\ pc[l] = "rootlogin"
    /\ \/ SshRetry(l)
       \/ SshConnected(l, "network")
       \/ Raise(l, "login")

-----------------------------------------------------------------------------
(* bootstrap_server over the root connection.                              *)

\* Mutant: the volume is never mounted.
AfterRemoteNoMount(l) ==
    [network |-> "swap", swap |-> "install", mount |-> "install", install |-> "jobdir"]

\* ifdown/ifup and ping6, make_swap.sh, mount_volume.sh (only with a device),
\* install_puppet.sh: copied over and run, in this order.
AfterRemote(l) ==
    [network |-> "swap",
     swap    |-> IF device[l] THEN "mount" ELSE "install",
     mount   |-> "install",
     install |-> "jobdir"]

RemoteStep(l) ==
    /\ pc[l] \in RemoteSteps
    /\ \/ /\ mounted' = [mounted EXCEPT ![l] = @ \/ pc[l] = "mount"]
          /\ Goto(l, AfterRemote(l)[pc[l]])
          /\ UNCHANGED <<options, device, loginVars, cloudVars, diskVars, outcome>>
       \/ Raise(l, "remote")

\* Truncate the inventory cache and make the JobDir.  An exception of __init__
\* after mkdtemp leaves the directory: __exit__ is only called once the with
\* statement was entered.
EnterJobDir(l) ==
    /\ pc[l] = "jobdir"
    /\ \/ /\ MakeDir(l)
          /\ Goto(l, "inventory")
          /\ UNCHANGED <<options, device, loginVars, cloudVars, mounted, keyFile, outcome>>
       \/ /\ MakeDir(l)
          /\ Goto(l, "recover")
          /\ fault' = [fault EXCEPT ![l] = "local"]
          /\ UNCHANGED <<options, device, loginVars, cloudVars, mounted, keyFile, cleanup>>
       \/ Raise(l, "local")

\* Regenerate the inventory, then expand the groups; run() raises when the
\* program exits with another status than 0.
Regenerate(l) ==
    \/ /\ pc[l] = "inventory"
       /\ Proceed(l, "groups") \/ Raise(l, "local")
    \/ /\ pc[l] = "groups"
       /\ Proceed(l, "writekey") \/ Raise(l, "local")

\* Write the private key, then the hosts file and the link to the groups.
WriteJobFiles(l) ==
    \/ /\ pc[l] = "writekey"
       /\ \/ /\ WriteKey(l)
             /\ Goto(l, "jobfiles")
             /\ UNCHANGED <<options, device, loginVars, cloudVars, mounted, keyFile, outcome>>
          \/ Raise(l, "local")
    \/ /\ pc[l] = "jobfiles"
       /\ Proceed(l, "hostnames") \/ Raise(l, "local")

\* ansible-playbook set_hostnames.yml, then remote_puppet_adhoc.yaml; after the
\* second one the with statement is left, which raises when rmtree does.
Playbook(l) ==
    \/ /\ pc[l] = "hostnames"
       /\ Proceed(l, "puppet") \/ Raise(l, "playbook")
    \/ /\ pc[l] = "puppet"
       /\ \/ /\ LeaveJobDir(l)
             /\ Goto(l, "reboot")
             /\ UNCHANGED <<options, device, loginVars, cloudVars, mounted, keyFile, outcome>>
          \/ Raise(l, "playbook")

\* ssh_client.ssh("reboot").  The handler reads e.rc: it passes over the -1 of
\* a channel that closed before a status came, raises any other status again,
\* and itself raises AttributeError for an exception without rc, which is what
\* paramiko raises when the connection is gone before the command is sent.
Reboot(l) ==
    /\ pc[l] = "reboot"
    /\ \/ Proceed(l, "done")
       \/ Raise(l, "reboot refused")
       \/ Raise(l, "reboot dropped")

-----------------------------------------------------------------------------
(* Failure.                                                                *)

\* Mutant: the handler does not look at --keep.
RecoverAlwaysDeletes(l) ==
    /\ pc[l] = "recover"
    /\ RemoveServer(l)
    /\ cleanup' = [cleanup EXCEPT ![l] = "ok"]
    /\ Goto(l, "failed")
    /\ UNCHANGED <<options, device, loginVars, keypair, mounted, diskVars, fault>>

\* The handler of build_server: save the key with --keep, delete the server
\* without it; an exception of either is reported and dropped.
Recover(l) ==
    /\ pc[l] = "recover"
    /\ IF keep[l]
          THEN /\ \/ /\ keyFile' = [keyFile EXCEPT ![l] = TRUE]
                     /\ cleanup' = [cleanup EXCEPT ![l] = "ok"]
                  \/ /\ UNCHANGED keyFile
                     /\ cleanup' = [cleanup EXCEPT ![l] = "raised"]
               /\ UNCHANGED server
          ELSE /\ \/ /\ RemoveServer(l)
                     /\ cleanup' = [cleanup EXCEPT ![l] = "ok"]
                  \/ /\ RemoveServer(l) \/ UNCHANGED server
                     /\ cleanup' = [cleanup EXCEPT ![l] = "raised"]
               /\ UNCHANGED keyFile
    /\ Goto(l, "failed")
    /\ UNCHANGED <<options, device, loginVars, keypair, mounted, jobdir, fault>>

\* The call in progress when the process stops may have had its effect.
StopDuringCall(l) ==
    /\ \/ UNCHANGED cloudVars
       \/ pc[l] = "keypair" /\ AddKeypair(l) /\ UNCHANGED server
       \/ pc[l] \in {"rollback", "dropkey"} /\ RemoveKeypair(l) /\ UNCHANGED server
       \/ pc[l] = "create" /\ AddServer(l) /\ UNCHANGED keypair
       \/ pc[l] = "recover" /\ ~keep[l] /\ RemoveServer(l) /\ UNCHANGED keypair
    /\ UNCHANGED <<options, device, loginVars, mounted, keyFile, cleanup>>

\* Control-C: no handler of build_server runs, only JobDir.__exit__, which a
\* second Control-C may end.  When rmtree raises, its exception takes the place
\* of KeyboardInterrupt and the handler does run: that is a step of the place.
Interrupt(l) ==
    /\ pc[l] \in Running
    /\ Goto(l, "interrupted")
    /\ \/ (LeaveJobDir(l) \/ MakeDir(l)) /\ UNCHANGED fault
       \/ RmtreeFails(l)
    /\ StopDuringCall(l)

\* SIGKILL, or the machine the script runs on goes down: nothing runs.
Kill(l) ==
    /\ pc[l] \in Running
    /\ Goto(l, "killed")
    /\ UNCHANGED jobdir \/ MakeDir(l) \/ WriteKey(l)
    /\ UNCHANGED fault
    /\ StopDuringCall(l)

-----------------------------------------------------------------------------

Step(l) ==
    \/ CreateKeypair(l) \/ CreateServer(l) \/ Rollback(l) \/ DropKeypair(l)
    \/ Prepare(l) \/ Login(l) \/ Elevate(l) \/ RootLogin(l)
    \/ RemoteStep(l) \/ EnterJobDir(l) \/ Regenerate(l) \/ WriteJobFiles(l)
    \/ Playbook(l) \/ Reboot(l) \/ Recover(l)

Next == \E l \in Launches : Step(l) \/ Interrupt(l) \/ Kill(l)

Spec == Init /\ [][Next]_vars

\* The places that touch nothing but local files.  Every other one waits for
\* the cloud, for a command on the server (SSHClient.ssh) or for a program on
\* the puppet master (run), and the code gives none of these a time to end in:
\* they may return, raise, or wait for ever.
LocalPlaces == {"jobdir", "writekey", "jobfiles"}

FairSpec ==
    Spec /\ \A l \in Launches : WF_vars(pc[l] \in LocalPlaces /\ Step(l))

-----------------------------------------------------------------------------
(* What the launches must get right.                                       *)

\* build_server owns its server: when it fails, the server is gone unless the
\* operator asked to keep it.  The exceptions are the two the code cannot see
\* past: create_server raised, so that there is no server object to delete,
\* and delete_server itself raised.
NoOrphanServer ==
    \A l \in Launches :
        pc[l] = "failed" /\ server[l] = "exists" =>
            keep[l] \/ cleanup[l] = "raised" \/ fault[l] = "create"

\* The key pair is only needed to create the server: a launch that ends leaves
\* none behind in the cloud, unless the call that creates or deletes it raised.
NoOrphanKeypair ==
    \A l \in Launches :
        pc[l] \in {"done", "failed"} /\ keypair[keyName[l]] = l =>
            \/ fault[l] \in {"keypair", "dropkey"}
            \/ fault[l] = "create" /\ cleanup[l] = "raised"

\* Two launches of the same second compute the same name and delete by name;
\* still a key pair only goes away in a step of the launch that created it,
\* never under a server another launch is creating with it.
KeypairNotStolen ==
    [][\A n \in KeyNames :
          keypair[n] # NoLaunch /\ keypair'[n] # keypair[n] =>
              /\ keypair'[n] = NoLaunch
              /\ pc'[keypair[n]] # pc[keypair[n]]]_vars

\* "Don't clean up or delete the server on error": with --keep a failed server
\* is still there and its private key was saved where the operator finds it,
\* unless the saving raised.
KeptServerReachable ==
    \A l \in Launches :
        /\ pc[l] = "failed"
        /\ keep[l]
        /\ fault[l] \notin {"none", "keypair", "create"}
        => server[l] = "exists" /\ (keyFile[l] \/ cleanup[l] = "raised")

\* The private key of the server does not outlive the script on the disk of
\* the puppet master without --keep, wherever the script ends or is interrupted.
\* The exceptions are a kill, and the removal itself failing or being cut short.
PrivateKeyRemoved ==
    \A l \in Launches :
        pc[l] \in Terminated \ {"killed"} /\ ~keep[l] =>
            /\ jobdir[l] = "key" => fault[l] = "rmtree"
            /\ ~keyFile[l]

\* A launch that reports success has a server, no key pair, no fault, and the
\* volume mounted when the cloud reported a device for it; no clean up of its
\* own or of another launch ever takes the server away again.
DoneIsComplete ==
    \A l \in Launches :
        pc[l] = "done" =>
            /\ server[l] = "exists"
            /\ keypair[keyName[l]] # l
            /\ device[l] => mounted[l]
            /\ fault[l] = "none"

\* Who holds what at each place, strong enough to be kept by every step: while
\* a launch needs its key pair the name is its own, whatever the others do;
\* once it has the server it keeps it until the handler; the fault tells how
\* it came to the place it is at.
KeypairHeld(l) ==
    /\ pc[l] \in {"create", "rollback", "dropkey"} => keypair[keyName[l]] = l
    /\ pc[l] \in {"keypair", "done"} \cup (GuardedPlaces \ {"dropkey"}) =>
          keypair[keyName[l]] # l
    /\ pc[l] \in {"recover", "failed"} /\ keypair[keyName[l]] = l =>
          \/ fault[l] \in {"keypair", "dropkey"}
          \/ fault[l] = "create" /\ cleanup[l] = "raised"

FaultKnown(l) ==
    /\ pc[l] \in {"keypair", "create", "done"} \cup GuardedPlaces => fault[l] = "none"
    /\ pc[l] = "rollback" => fault[l] = "create"
    /\ pc[l] = "recover" => fault[l] \notin {"none", "keypair", "create"}

ServerHeld(l) ==
    /\ pc[l] = "keypair" \/ fault[l] = "keypair" => server[l] = "none"
    /\ pc[l] \in {"recover", "done"} \cup GuardedPlaces => server[l] = "exists"
    /\ pc[l] = "failed" /\ server[l] = "exists" =>
          keep[l] \/ cleanup[l] = "raised" \/ fault[l] = "create"
    /\ /\ pc[l] = "failed"
       /\ keep[l]
       /\ fault[l] \notin {"none", "keypair", "create"}
       => server[l] = "exists" /\ (keyFile[l] \/ cleanup[l] = "raised")

KeyHidden(l) ==
    /\ ~keep[l] => ~keyFile[l]
    /\ ~keep[l] /\ jobdir[l] = "key" =>
          pc[l] \in JobDirPlaces \cup {"killed"} \/ fault[l] = "rmtree"

VolumeReady(l) ==
    device[l] =>
        mounted[l] \/ pc[l] \notin {"install", "jobdir", "reboot", "done"} \cup JobDirPlaces

Holds(l) ==
    /\ KeypairHeld(l)
    /\ FaultKnown(l)
    /\ ServerHeld(l)
    /\ KeyHidden(l)
    /\ VolumeReady(l)

LaunchInv == \A l \in Launches : Holds(l)

\* From some moment on the launch waits for one call that never returns.
WaitsForEver(l) ==
    /\ <>[](pc[l] \in Running \ LocalPlaces)
    /\ <>[][FALSE]_<<pc[l], user[l], tries[l]>>

\* A launch ends, or one call of it never returns: the loops over the user names
\* and over the attempts of a login give up, and no failure leads back.
LaunchEnds == \A l \in Launches : <>(pc[l] \in Terminated) \/ WaitsForEver(l)

\* The comment at the reboot says that ssh errors are ignored there because
\* the machine may drop the connection.  This says that a server whose
\* configuration is complete is never deleted for that reason.
RebootDropTolerated ==
    \A l \in Launches :
        server[l] = "deleted" => fault[l] # "reboot dropped"

=============================================================================
