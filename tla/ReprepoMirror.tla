--------------------------- MODULE ReprepoMirror ----------------------------
(***************************************************************************)
(* reprepro-mirror-update.sh, started by cron under "flock -n" for one     *)
(* mirror volume: bring the read-write volume up to date, delete the files *)
(* that the previous run found unreferenced, save the list of those that   *)
(* are unreferenced now, check, and release the volume.  Files live one    *)
(* run longer than their last reference so that a client that read an      *)
(* index can still fetch what it names.                                    *)
(*                                                                         *)
(* "set -e" ends the script at the first command that fails.  Killing the  *)
(* script does not kill the command it is waiting for, and that command    *)
(* has inherited the locked descriptor: the lock is free only when both    *)
(* are gone.  reprepro has a lock of its own, a file in its database that  *)
(* it removes when it ends; a SIGKILL or a reboot leaves that file behind, *)
(* and every reprepro command fails until somebody removes it.             *)
(***************************************************************************)
EXTENDS Naturals

CONSTANTS
    Files,      \* the packages
    Runs,       \* invocations by cron that may be around at once
    MaxChanges, \* bound: how often the upstream archive changes
    MaxFaults   \* bound: failures of commands, kills and reboots

ASSUME BoundsAssumption == MaxChanges \in Nat /\ MaxFaults \in Nat

VARIABLES
    upstream,   \* the files named by the index of the upstream archive
    pc,         \* the command each run is at
    alive,      \* the script of the run is there to go on after the command
    target,     \* the index "reprepro update" is working towards
    index,      \* read-write volume: the files its index names
    pool,       \* read-write volume: the files that are there
    hasList,    \* UNREF_FILE exists
    list,       \* the files it names
    staleLock,  \* the lock file of a reprepro that is gone is in the database
    ro,         \* the read-only replicas
    previous,   \* history: the index that was served before this one
    saved,      \* history: a list was saved since the last release
    used,       \* history: such a list has been used to delete files
    graced,     \* history: the release served now was made without that
    fetched,    \* history: the version of upstream that target was read from
    exported,   \* history: the version that index was
    served,     \* history: the version that ro.index was
    changes,    \* changes of upstream so far, which number its versions
    faults      \* faults so far

rwVolume == <<index, pool>>
unrefFile == <<hasList, list>>
roVolume == <<ro, previous, graced>>
history == <<saved, used>>
versions == <<fetched, exported, served>>
budget == <<changes, faults>>
vars ==
    <<upstream, pc, alive, target, rwVolume, unrefFile, staleLock, roVolume,
      history, versions, budget>>

Commands == {"update", "export", "delete", "dump", "check", "release"}

\* The commands that $REPREPRO runs, under "timeout -k 2m 30m".
TimedCommands == {"update", "export", "delete", "check"}

Snapshots == [index : SUBSET Files, pool : SUBSET Files]

Complete == {s \in Snapshots : s.index \subseteq s.pool}

TypeOK ==
    /\ upstream \in SUBSET Files
    /\ pc \in [Runs -> Commands \cup {"idle"}]
    /\ alive \in [Runs -> BOOLEAN]
    /\ target \in [Runs -> SUBSET Files]
    /\ index \in SUBSET Files
    /\ pool \in SUBSET Files
    /\ hasList \in BOOLEAN
    /\ list \in SUBSET Files
    /\ ~hasList => list = {}
    /\ staleLock \in BOOLEAN
    /\ ro \in Snapshots
    /\ previous \in SUBSET Files
    /\ saved \in BOOLEAN
    /\ used \in BOOLEAN
    /\ graced \in BOOLEAN
    /\ fetched \in [Runs -> 0..MaxChanges]
    /\ exported \in 0..MaxChanges
    /\ served \in 0..MaxChanges
    /\ changes \in 0..MaxChanges
    /\ faults \in 0..MaxFaults

\* A mirror that was set up and released by hand.
Init ==
    /\ upstream \in SUBSET Files
    /\ pc = [r \in Runs |-> "idle"]
    /\ alive = [r \in Runs |-> FALSE]
    /\ target = [r \in Runs |-> {}]
    /\ index = upstream
    /\ pool = upstream
    /\ hasList = FALSE
    /\ list = {}
    /\ staleLock = FALSE
    /\ ro = [index |-> upstream, pool |-> upstream]
    /\ previous = {}
    /\ saved = FALSE
    /\ used = FALSE
    /\ graced = TRUE
    /\ fetched = [r \in Runs |-> 0]
    /\ exported = 0
    /\ served = 0
    /\ changes = 0
    /\ faults = 0

-----------------------------------------------------------------------------
(* The environment.                                                        *)

UpstreamChanges ==
    /\ changes < MaxChanges
    /\ changes' = changes + 1
    /\ \E u \in (SUBSET Files) \ {upstream} : upstream' = u
    /\ UNCHANGED <<pc, alive, target, rwVolume, unrefFile, staleLock, roVolume,
                   history, versions, faults>>

Fault ==
    /\ faults < MaxFaults
    /\ faults' = faults + 1
    /\ UNCHANGED changes

\* The script dies; the command it started goes on.
Kill(r) ==
    /\ alive[r]
    /\ alive' = [alive EXCEPT ![r] = FALSE]
    /\ Fault
    /\ UNCHANGED <<upstream, pc, target, rwVolume, unrefFile, staleLock, roVolume,
                   history, versions>>

\* The machine restarts: /var/run, where UNREF_FILE is, starts empty; a reprepro
\* that was running leaves the lock file of its database.
Reboot ==
    /\ pc' = [r \in Runs |-> "idle"]
    /\ alive' = [r \in Runs |-> FALSE]
    /\ target' = [r \in Runs |-> {}]
    /\ hasList' = FALSE
    /\ list' = {}
    /\ fetched' = [r \in Runs |-> 0]
    /\ \/ UNCHANGED staleLock
       \/ /\ \E r \in Runs : pc[r] \in Commands \ {"release"}
          /\ staleLock' = TRUE
    /\ Fault
    /\ UNCHANGED <<upstream, rwVolume, roVolume, history, exported, served>>

\* An administrator removes the stale lock file.
RemoveLock ==
    /\ staleLock
    /\ staleLock' = FALSE
    /\ UNCHANGED <<upstream, pc, alive, target, rwVolume, unrefFile, roVolume,
                   history, versions, budget>>

-----------------------------------------------------------------------------
(* The script.                                                             *)

\* Mutant: commands do not inherit the lock: it is free with the script gone.
StartBesideOrphan(r) ==
    /\ pc[r] = "idle"
    /\ \A q \in Runs : ~alive[q]
    /\ pc' = [pc EXCEPT ![r] = "update"]
    /\ alive' = [alive EXCEPT ![r] = TRUE]
    /\ UNCHANGED <<upstream, target, rwVolume, unrefFile, staleLock, roVolume,
                   history, versions, budget>>

\* cron starts a run; "flock -n" lets it in when nobody has the descriptor.
\* It exits at once otherwise, which changes nothing.
Start(r) ==
    /\ \A q \in Runs : pc[q] = "idle"
    /\ pc' = [pc EXCEPT ![r] = "update"]
    /\ alive' = [alive EXCEPT ![r] = TRUE]
    /\ UNCHANGED <<upstream, target, rwVolume, unrefFile, staleLock, roVolume,
                   history, versions, budget>>


\* The command of the run is over: the script, if it is still there, goes on
\* with the next one.
Advances(r, next) ==
    /\ pc' = [pc EXCEPT ![r] = IF alive[r] THEN next ELSE "idle"]
    /\ alive' = [alive EXCEPT ![r] = @ /\ next # "idle"]

Done(r, next) == Advances(r, next) /\ UNCHANGED <<staleLock, budget>>

\* "set -e" ends the script.
Stops(r) ==
    /\ pc' = [pc EXCEPT ![r] = "idle"]
    /\ alive' = [alive EXCEPT ![r] = FALSE]

\* reprepro fails, or its timeout ends it: SIGTERM lets it remove its lock file,
\* the SIGKILL two minutes later does not.
Fails(r) ==
    /\ Stops(r)
    /\ Fault
    /\ staleLock' \in BOOLEAN

\* reprepro exits at once when it finds the lock file.  It is always the first
\* command of a run that does: no run goes on after the file was left.
LockedOut(r) ==
    /\ pc[r] = "update"
    /\ staleLock
    /\ Stops(r)
    /\ UNCHANGED <<upstream, target, rwVolume, unrefFile, staleLock, roVolume,
                   history, versions, budget>>

\* reprepro update, first part: read the index and fetch into the pool.  It may
\* succeed with a file missing, which is a fault, or fail.
Fetch(r) ==
    /\ pc[r] = "update"
    /\ ~staleLock
    /\ \/ /\ target' = [target EXCEPT ![r] = upstream]
          /\ fetched' = [fetched EXCEPT ![r] = changes]
          /\ \/ /\ pool' = pool \cup upstream
                /\ Done(r, "export")
             \/ /\ \E got \in SUBSET upstream : pool' = pool \cup got
                /\ Advances(r, "export")
                /\ Fault
                /\ UNCHANGED staleLock
       \/ /\ \E got \in SUBSET upstream : pool' = pool \cup got
          /\ Fails(r)
          /\ UNCHANGED <<target, fetched>>
    /\ UNCHANGED <<upstream, index, unrefFile, roVolume, history, exported, served>>

\* reprepro update, second part: export the new index.
Export(r) ==
    /\ pc[r] = "export"
    /\ \/ /\ index' = target[r]
          /\ exported' = fetched[r]
          /\ Done(r, "delete") \/ Fails(r)
       \/ /\ UNCHANGED <<index, exported>>
          /\ Fails(r)
    /\ target' = [target EXCEPT ![r] = {}]
    /\ fetched' = [fetched EXCEPT ![r] = 0]
    /\ UNCHANGED <<upstream, pool, unrefFile, roVolume, history, served>>

\* Mutant: deleteunreferenced, without the list of the last run.
DeleteAllUnreferenced(r) ==
    /\ pc[r] = "delete"
    /\ used' = (used \/ saved)
    /\ pool' = pool \cap index
    /\ Done(r, "dump")
    /\ UNCHANGED <<upstream, target, index, unrefFile, roVolume, saved, versions>>

\* reprepro deleteifunreferenced < UNREF_FILE, when the file exists.
Delete(r) ==
    /\ pc[r] = "delete"
    /\ \/ /\ ~hasList
          /\ Done(r, "dump")
          /\ UNCHANGED <<pool, used>>
       \/ /\ hasList
          /\ used' = (used \/ saved)
          /\ \/ /\ pool' = pool \ (list \ index)
                /\ Done(r, "dump")
             \/ /\ \E gone \in SUBSET (list \ index) : pool' = pool \ gone
                /\ Fails(r)
    /\ UNCHANGED <<upstream, target, index, unrefFile, roVolume, saved, versions>>

\* reprepro dumpunreferenced > UNREF_FILE: the shell empties the file first.
Dump(r) ==
    /\ pc[r] = "dump"
    /\ hasList' = TRUE
    /\ saved' = TRUE
    /\ \/ /\ list' = pool \ index
          /\ Done(r, "check")
       \/ /\ list' \in SUBSET (pool \ index)
          /\ Fails(r)
    /\ UNCHANGED <<upstream, target, rwVolume, roVolume, used, versions>>

\* Mutant: the status of the two checks is not looked at.
CheckNothing(r) ==
    /\ pc[r] = "check"
    /\ Done(r, "release")
    /\ UNCHANGED <<upstream, target, rwVolume, unrefFile, roVolume, history, versions>>

\* reprepro checkpool fast, reprepro check.
Check(r) ==
    /\ pc[r] = "check"
    /\ \/ index \subseteq pool /\ Done(r, "release")
       \/ ~(index \subseteq pool) /\ Stops(r) /\ UNCHANGED <<staleLock, budget>>
       \/ Fails(r)
    /\ UNCHANGED <<upstream, target, rwVolume, unrefFile, roVolume, history, versions>>

\* vos release: the replicas become what the read-write volume is.
Release(r) ==
    /\ pc[r] = "release"
    /\ \/ /\ ro' = [index |-> index, pool |-> pool]
          /\ previous' = ro.index
          /\ served' = exported
          /\ graced' = ~used
          /\ saved' = FALSE
          /\ used' = FALSE
          /\ Done(r, "idle")
       \/ /\ Stops(r)
          /\ Fault
          /\ UNCHANGED <<staleLock, roVolume, history, served>>
    /\ UNCHANGED <<upstream, target, rwVolume, unrefFile, fetched, exported>>

Step(r) ==
    \/ LockedOut(r) \/ Fetch(r) \/ Export(r) \/ Delete(r) \/ Dump(r) \/ Check(r)
    \/ Release(r)

Next ==
    \/ UpstreamChanges
    \/ Reboot
    \/ RemoveLock
    \/ \E r \in Runs : Start(r) \/ Step(r) \/ Kill(r)

Spec == Init /\ [][Next]_vars

\* cron keeps starting runs, and timeout ends the commands it was put before.
\* Nothing does so for dumpunreferenced and "vos release", and nobody has to
\* remove a stale lock file.
FairSpec ==
    /\ Spec
    /\ WF_vars(\E r \in Runs : Start(r))
    /\ \A r \in Runs : WF_vars(pc[r] \in TimedCommands /\ Step(r))

-----------------------------------------------------------------------------
(* What the mirror must get right.                                         *)

\* The mirror that readers see is complete: every file its index names is
\* there, whatever fails, is killed or overlaps in between.
ReleasedComplete == ro \in Complete

\* The purpose of the two-step deletion: a client that read the index before
\* the last release still finds every file it names after it.  It holds for
\* every release that was not preceded by a run that saved a list and failed
\* to release: the next run uses that list, which knows nothing of what the
\* readers still see.
Grace == graced => previous \subseteq ro.pool

\* The same for what is served now: until a list saved after the last release
\* is used, the next release will keep the files of this one.
GraceAhead == ~used => ro.index \subseteq pool

\* The bookkeeping behind the two: a released state is a checked one, and the
\* list of the last complete run names nothing that is being served.
ListIsSafe ==
    /\ ~saved => list \cap ro.index = {}
    /\ used => saved

\* One run at a time: a run finds the lock taken while a command of an earlier
\* one is still running, even if its script is gone.
OneRun ==
    \A q, r \in Runs : pc[q] # "idle" /\ pc[r] # "idle" => q = r

CheckedRelease ==
    \A r \in Runs :
        /\ pc[r] = "release" => index \subseteq pool
        /\ pc[r] \in {"check", "release"} => list \cap index = {}

\* The versions of upstream go one way, from the archive over the volume to the
\* readers; the stale lock file is there at the first command or not at all.
Order ==
    /\ served <= exported
    /\ exported <= changes
    /\ \A r \in Runs :
          pc[r] = "export" => exported <= fetched[r] /\ fetched[r] <= changes

LockMetFirst == staleLock => \A r \in Runs : pc[r] \in {"idle", "update"}

MirrorInv ==
    /\ ReleasedComplete
    /\ Grace
    /\ GraceAhead
    /\ ListIsSafe
    /\ OneRun
    /\ CheckedRelease
    /\ Order
    /\ LockMetFirst

\* Once upstream and the machine are left alone the mirror catches up: no
\* failed or killed run leaves a state a later run cannot finish from.  The
\* exceptions are the two that need an administrator: the stale lock file of
\* reprepro, and a command without a timeout that never returns.
CatchesUp ==
    \/ <>[]staleLock
    \/ \E r \in Runs : <>[](pc[r] \in Commands \ TimedCommands)
    \/ <>[](ro.index = upstream /\ upstream \subseteq ro.pool)

\* The script keeps the promise of a mirror: what readers see is replaced by
\* complete snapshots of upstream only, and never by an older one, although a
\* command may outlive its script and go on beside the next run's start.
Volume == INSTANCE MirrorVolume
    WITH published <- ro, version <- served, latest <- changes

VolumeSpec == Volume!Spec

=============================================================================
