----------------------------- MODULE GerritSpam -----------------------------
(***************************************************************************)
(* tools/delete-gerrit-spam.py: one transaction on gerrit's database, in   *)
(* which the comments and messages of a spammer are selected and deleted,  *)
(* and replies to them are made independent, while gerrit's users and the  *)
(* spammer go on commenting.                                               *)
(*                                                                         *)
(* The database is InnoDB as the client library uses it: no autocommit;    *)
(* selects read the state of the first one and what the transaction itself *)
(* has written, updates and deletes find the rows that are committed by    *)
(* then.  Rows are taken to be inserted by others at any time.  Comments   *)
(* are numbered in the order of their writing; 0 is the parent of those    *)
(* that are no reply.                                                      *)
(***************************************************************************)
EXTENDS Naturals

CONSTANTS
    Authors,
    Spammer,
    MaxComments, \* bound: patch comments
    MaxMessages  \* bound: change messages

ASSUME SpamAssumption ==
    /\ Spammer \in Authors
    /\ MaxComments \in Nat /\ MaxMessages \in Nat

VARIABLES
    comments,          \* the table patch_comments
    messages,          \* the table change_messages
    delete,            \* the option --delete
    place,
    snapshot,          \* the tables as the selects see them
    potential_parents,
    deleted,           \* comments deleted and not committed
    unparented,        \* comments whose parent_uuid is NULL, not committed
    expunged,          \* messages deleted and not committed
    late,              \* history: comments written while the script runs
    written            \* history: the tables as gerrit has written them

tables == <<comments, messages>>
pending == <<deleted, unparented, expunged>>
read == <<snapshot, potential_parents>>
spamVars == <<tables, delete, place, read, pending, late, written>>

Uuids == 1..MaxComments
MessageIds == 1..MaxMessages
NoRow == [there |-> FALSE, author |-> Spammer, parent |-> 0]

Comments == [Uuids -> [there : BOOLEAN, author : Authors, parent : 0..MaxComments]]
Messages == [MessageIds -> [there : BOOLEAN, author : Authors, parent : {0}]]

Places == {"start", "delete comments", "select children", "unparent", "select messages",
           "delete messages", "commit", "committed", "dead"}

SpamTypeOK ==
    /\ comments \in Comments /\ messages \in Messages
    /\ delete \in BOOLEAN
    /\ place \in Places
    /\ snapshot \in [comments : Comments, messages : Messages]
    /\ potential_parents \in SUBSET Uuids
    /\ deleted \in SUBSET Uuids /\ unparented \in SUBSET Uuids
    /\ expunged \in SUBSET MessageIds
    /\ late \in SUBSET Uuids
    /\ written \in [comments : Comments, messages : Messages]

Tables == [comments |-> comments, messages |-> messages]

SpamInit ==
    /\ comments = [u \in Uuids |-> NoRow]
    /\ messages = [m \in MessageIds |-> NoRow]
    /\ delete \in BOOLEAN
    /\ place = "start"
    /\ snapshot = Tables /\ written = Tables
    /\ potential_parents = {} /\ late = {}
    /\ deleted = {} /\ unparented = {} /\ expunged = {}

-----------------------------------------------------------------------------
(* gerrit.                                                                 *)

Comment(u, author, parent) ==
    LET row == [there |-> TRUE, author |-> author, parent |-> parent]
    IN  /\ ~written.comments[u].there
        /\ \A v \in 1..(u - 1) : written.comments[v].there
        /\ parent # 0 => comments[parent].there
        /\ comments' = [comments EXCEPT ![u] = row]
        /\ written' = [written EXCEPT !.comments[u] = row]
        /\ late' = IF place \in {"start", "committed", "dead"} THEN late ELSE late \cup {u}
        /\ UNCHANGED <<messages, delete, place, read, pending>>

Message(m, author) ==
    LET row == [there |-> TRUE, author |-> author, parent |-> 0]
    IN  /\ ~written.messages[m].there
        /\ \A k \in 1..(m - 1) : written.messages[k].there
        /\ messages' = [messages EXCEPT ![m] = row]
        /\ written' = [written EXCEPT !.messages[m] = row]
        /\ UNCHANGED <<comments, delete, place, read, pending, late>>

-----------------------------------------------------------------------------
(* The script.                                                             *)

By(table, author) == {r \in DOMAIN table : table[r].there /\ table[r].author = author}

RepliesTo(table, parents) == {r \in DOMAIN table : table[r].there /\ table[r].parent \in parents}

SelectComments ==
    LET spam == By(comments, Spammer)
    IN  /\ place = "start"
        /\ snapshot' = Tables
        /\ potential_parents' = spam
        /\ place' = IF spam = {} THEN "select messages"
                 ELSE IF delete THEN "delete comments" ELSE "select children"
        /\ UNCHANGED <<tables, delete, pending, late, written>>

DeleteComments ==
    /\ place = "delete comments"
    /\ deleted' = By(comments, Spammer)
    /\ place' = "select children"
    /\ UNCHANGED <<tables, delete, read, unparented, expunged, late, written>>

\* Mutant: nobody looks for replies.
SelectNoChildren ==
    /\ place = "select children"
    /\ place' = "select messages"
    /\ UNCHANGED <<tables, delete, read, pending, late, written>>

SelectChildren ==
    LET children == RepliesTo(snapshot.comments, potential_parents) \ deleted
    IN  /\ place = "select children"
        /\ place' = IF children # {} /\ delete THEN "unparent" ELSE "select messages"
        /\ UNCHANGED <<tables, delete, read, pending, late, written>>

\* Mutant: whatever the spammer has replied to is unparented as well.
UnparentThreads ==
    LET parents == potential_parents
                    \cup {comments[p].parent : p \in {q \in potential_parents : comments[q].parent # 0}}
    IN  /\ place = "unparent"
        /\ unparented' = RepliesTo(comments, parents) \ deleted
        /\ place' = "select messages"
        /\ UNCHANGED <<tables, delete, read, deleted, expunged, late, written>>

Unparent ==
    /\ place = "unparent"
    /\ unparented' = RepliesTo(comments, potential_parents) \ deleted
    /\ place' = "select messages"
    /\ UNCHANGED <<tables, delete, read, deleted, expunged, late, written>>

SelectMessages ==
    /\ place = "select messages"
    /\ place' = IF By(snapshot.messages, Spammer) # {} /\ delete THEN "delete messages" ELSE "commit"
    /\ UNCHANGED <<tables, delete, read, pending, late, written>>

\* Mutant: the deletion of messages commits by itself.
DeleteMessagesAtOnce ==
    /\ place = "delete messages"
    /\ messages' = [m \in MessageIds |->
            IF m \in By(messages, Spammer) THEN [messages[m] EXCEPT !.there = FALSE] ELSE messages[m]]
    /\ place' = "commit"
    /\ UNCHANGED <<comments, delete, read, pending, late, written>>

DeleteMessages ==
    /\ place = "delete messages"
    /\ expunged' = By(messages, Spammer)
    /\ place' = "commit"
    /\ UNCHANGED <<tables, delete, read, deleted, unparented, late, written>>

Commit ==
    /\ place = "commit"
    /\ comments' = [u \in Uuids |->
            IF u \in deleted THEN [comments[u] EXCEPT !.there = FALSE]
            ELSE IF u \in unparented THEN [comments[u] EXCEPT !.parent = 0]
            ELSE comments[u]]
    /\ messages' = [m \in MessageIds |->
            IF m \in expunged THEN [messages[m] EXCEPT !.there = FALSE] ELSE messages[m]]
    /\ place' = "committed"
    /\ UNCHANGED <<delete, read, pending, late, written>>

\* An error, or a lost connection: the database rolls back.
Rollback ==
    /\ place \notin {"start", "committed", "dead"}
    /\ place' = "dead"
    /\ UNCHANGED <<tables, delete, read, pending, late, written>>

-----------------------------------------------------------------------------

Transaction ==
    \/ SelectComments \/ DeleteComments \/ SelectChildren \/ Unparent
    \/ SelectMessages \/ DeleteMessages \/ Commit \/ Rollback

SpamNext ==
    \/ Transaction
    \/ \E u \in Uuids, author \in Authors : \E parent \in 0..(u - 1) : Comment(u, author, parent)
    \/ \E m \in MessageIds, author \in Authors : Message(m, author)

SpamSpec == SpamInit /\ [][SpamNext]_spamVars

-----------------------------------------------------------------------------
(* Properties.                                                             *)

\* delete-gerrit-spam.py:59-62, no "parent_uuid" points to a nonexistent entry;
\* but for replies, and replies to comments, that were written while the script
\* ran.
NoDanglingParent ==
    \A u \in Uuids :
        LET p == comments[u].parent
        IN  comments[u].there /\ p # 0 => comments[p].there \/ u \in late \/ p \in late

\* The same promise without the exception: see MCGerritSpamLate.cfg.
NoParentMissing ==
    \A u \in Uuids :
        comments[u].there /\ comments[u].parent # 0 => comments[comments[u].parent].there

\* All that was selected is gone when the script commits; a dry run, and a run
\* that breaks off wherever it may, leave everything as it is.
AllOrNothing ==
    IF place = "committed" /\ delete
    THEN /\ \A u \in potential_parents : ~comments[u].there
         /\ \A m \in By(snapshot.messages, Spammer) : ~messages[m].there
    ELSE Tables = written

\* What others have written stays, and a reply to it remains a reply.
OthersKept ==
    /\ \A u \in Uuids : written.comments[u].there /\ written.comments[u].author # Spammer =>
            comments[u].there
    /\ \A m \in MessageIds : written.messages[m].there /\ written.messages[m].author # Spammer =>
            messages[m].there
    /\ \A u \in Uuids :
        LET p == written.comments[u].parent
        IN  comments[u].there /\ comments[u].parent # p => ~comments[p].there
=============================================================================
