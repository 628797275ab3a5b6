---------------------------- MODULE MirrorVolume ----------------------------
(***************************************************************************)
(* What a mirror promises to its readers (doc/source/afs.rst, "Mirrors"):  *)
(* the mirror is updated on the read-write volume and the read-only        *)
(* replicas are then updated atomically.  Readers only ever see a          *)
(* complete snapshot, replaced as a whole by one that is not older.        *)
(***************************************************************************)
EXTENDS Naturals

CONSTANTS
    Snapshots,  \* the contents a volume can have
    Complete    \* those that are complete: whatever the index names is there

VARIABLES
    latest,     \* the number of the version that the archive has now
    published,  \* what the read-only replicas serve
    version     \* the number of the version that this is a snapshot of

Init ==
    /\ latest = 0
    /\ published \in Complete
    /\ version = 0

ArchiveChanges ==
    /\ latest' = latest + 1
    /\ UNCHANGED <<published, version>>

Publish ==
    /\ \E s \in Complete : s \in Snapshots /\ published' = s
    /\ version' \in version..latest
    /\ UNCHANGED latest

Spec == Init /\ [][ArchiveChanges \/ Publish]_<<latest, published, version>>

=============================================================================
