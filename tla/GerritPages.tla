----------------------------- MODULE GerritPages -----------------------------
(***************************************************************************)
(* How the merged changes of a repository are fetched, page by page, while *)
(* gerrit goes on: whoever comments on a change moves it to the front of   *)
(* gerrit's answers, which are ordered by the last update.                 *)
(*                                                                         *)
(* owners.py asks for the page at an offset, as long as the last change it *)
(* has got says that there are more.  atc/email_stats.py asks for what is  *)
(* older than the last change it has got, until a page is not full, and    *)
(* collects the owners of changes merged in a period.  It looks them up in *)
(* a dump of gerrit's accounts, which is older than the changes may be.    *)
(***************************************************************************)
EXTENDS Naturals, FiniteSets

CONSTANTS
    Changes,
    Accounts,
    PageSize,  \* 100 of owners.py, 500 of email_stats.py
    Owner,     \* change -> account
    Period,    \* changes with an approval SUBM between begin and end
    Nameless,  \* accounts without a username in gerrit
    MaxMoves,  \* bound: updates and merges during a walk
    MaxOffset, \* bound: of owners.py, which does not end when all is renamed
    Tools      \* "owners" and "email_stats"

ASSUME PagesAssumption ==
    /\ IsFiniteSet(Changes)
    /\ PageSize \in Nat \ {0}
    /\ Owner \in [Changes -> Accounts]
    /\ Tools \subseteq {"owners", "email_stats"}
    /\ MaxMoves \in Nat /\ MaxOffset \in Nat

VARIABLES
    answers,  \* gerrit answers requests, and in full
    updated,  \* change -> when it was updated last, 0 while it is not merged
    tool,
    known,    \* accounts whose username is in the dump
    progress,
    offset,   \* of owners.py
    last,     \* last_sortkey of email_stats.py
    more,     \* _more_changes of the last change that owners.py has got
    fetched,  \* change -> how often it has been got
    atcs,     \* the accounts that email_stats.py has collected
    moved,    \* history: changes that were updated or merged during the walk
    renamed,  \* history: the repository was renamed during the walk
    moves

gerrit == <<answers, updated, renamed>>
walk == <<progress, offset, last, more, fetched, atcs>>
pagesVars == <<gerrit, walk, tool, known, moved, moves>>

\* Later than any update.
Now == Cardinality(Changes) + MaxMoves + 1

PagesTypeOK ==
    /\ answers \in BOOLEAN
    /\ updated \in [Changes -> 0..Now]
    /\ tool \in Tools
    /\ known \in SUBSET (Accounts \ Nameless)
    /\ progress \in {"asking", "waiting", "done", "dead"}
    /\ offset \in Nat
    /\ last \in 0..Now
    /\ more \in BOOLEAN
    /\ fetched \in [Changes -> Nat]
    /\ atcs \in SUBSET (Accounts \ Nameless)
    /\ moved \in SUBSET Changes
    /\ renamed \in BOOLEAN
    /\ moves \in 0..MaxMoves

Listed == {c \in Changes : updated[c] > 0}

\* The accounts that are found by their username.
UsernameAccounts == known

\* Before the walk, changes were updated one after the other.
PagesInit ==
    /\ answers = TRUE
    /\ updated \in [Changes -> 0..Cardinality(Changes)]
    /\ \A c, d \in Listed : updated[c] = updated[d] => c = d
    /\ {updated[c] : c \in Listed} = 1..Cardinality(Listed)
    /\ tool \in Tools
    /\ known \in SUBSET (Accounts \ Nameless)
    /\ progress = "asking"
    /\ offset = 0 /\ last = Now /\ more = FALSE
    /\ fetched = [c \in Changes |-> 0]
    /\ atcs = {}
    /\ moved = {} /\ renamed = FALSE /\ moves = 0

-----------------------------------------------------------------------------
(* gerrit and its users.                                                   *)

\* A change is updated, or merged, and becomes the first.
Touch(c) ==
    /\ moves < MaxMoves
    /\ moves' = moves + 1
    /\ updated' = [updated EXCEPT ![c] = Cardinality(Changes) + moves + 1]
    /\ moved' = moved \cup {c}
    /\ UNCHANGED <<answers, renamed, walk, tool, known>>

\* rename_repos.yaml gives all changes another repository.
RenameRepo ==
    /\ ~renamed
    /\ renamed' = TRUE
    /\ updated' = [c \in Changes |-> 0]
    /\ UNCHANGED <<answers, walk, tool, known, moved, moves>>

\* gerrit stops answering as it should, or starts again.
Falter ==
    /\ answers' = ~answers
    /\ UNCHANGED <<updated, renamed, walk, tool, known, moved, moves>>

\* The changes of a set that are older than at least n and fewer than m others.
Slice(S, n, m) ==
    LET Rank(c) == Cardinality({d \in S : updated[d] > updated[c]})
    IN  {c \in S : n <= Rank(c) /\ Rank(c) < m}

-----------------------------------------------------------------------------
(* The walks.                                                              *)

Got(page) == fetched' = [c \in Changes |-> IF c \in page THEN fetched[c] + 1 ELSE fetched[c]]

\* Mutant: pages start at 1.
FetchFromOne ==
    LET page == Slice(Listed, offset + 1, offset + 1 + PageSize)
    IN  /\ progress = "asking" /\ tool = "owners" /\ answers /\ offset <= MaxOffset
        /\ Got(page)
        /\ more' = (Cardinality(Listed) > offset + 1 + PageSize)
        /\ IF more' THEN offset' = offset + PageSize /\ UNCHANGED progress
                    ELSE progress' = "done" /\ UNCHANGED offset
        /\ UNCHANGED <<gerrit, last, atcs, tool, known, moved, moves>>

\* An empty page leaves the last change as it was.
Fetch ==
    LET page == Slice(Listed, offset, offset + PageSize)
    IN  /\ progress = "asking" /\ tool = "owners" /\ answers /\ offset <= MaxOffset
        /\ Got(page)
        /\ more' = IF page = {} THEN more ELSE Cardinality(Listed) > offset + PageSize
        /\ IF more' THEN offset' = offset + PageSize /\ UNCHANGED progress
                    ELSE progress' = "done" /\ UNCHANGED offset
        /\ UNCHANGED <<gerrit, last, atcs, tool, known, moved, moves>>

\* Mutant: the list is made anew for every page.
CollectAfresh(page) ==
    atcs' = {Owner[c] : c \in {d \in page \cap Period : Owner[d] \notin Nameless}}

\* Mutant: owners without a username are looked up like the others.
CollectNameless(page) == atcs' = atcs \cup {Owner[c] : c \in page \cap Period}

\* The owners that a page adds; those of any approved change with a username.
Collect(page) ==
    atcs' = atcs \cup {Owner[c] : c \in {d \in page \cap Period : Owner[d] \notin Nameless}}

\* The key of the last change of a page, whoever owns it.
Key(page) ==
    IF page = {} THEN last
    ELSE CHOOSE k \in {updated[c] : c \in page} : \A c \in page : k <= updated[c]

\* Mutant: the last change is got again.
RemainingWithLast == {c \in Listed : updated[c] <= last}

Remaining == {c \in Listed : updated[c] < last}

\* Mutant: a page without changes is not taken for the end.
LastPageUnlessEmpty(page) == Cardinality(page) \in 1..(PageSize - 1)

\* rowCount < 500
LastPage(page) == Cardinality(page) < PageSize

\* Changes whose owner's username is not in the dump.
Unknown(page) == {c \in page : Owner[c] \notin UsernameAccounts \cup Nameless}

\* KeyError: an unknown owner ends the script.
Resume ==
    LET page == Slice(Remaining, 0, PageSize)
    IN  /\ progress = "asking" /\ tool = "email_stats" /\ answers
        /\ IF Unknown(page) # {}
           THEN /\ progress' = "dead"
                /\ UNCHANGED <<last, fetched, atcs>>
           ELSE /\ Got(page)
                /\ last' = Key(page)
                /\ Collect(page)
                /\ IF LastPage(page) THEN progress' = "done" ELSE UNCHANGED progress
        /\ UNCHANGED <<gerrit, offset, more, tool, known, moved, moves>>

\* What is printed breaks off before the line with rowCount, after some
\* changes or at once, as when the query is refused: the loop asks again, from
\* the last change it has got.  It dies of an unknown owner, of a line that is
\* broken, and of a connection that is.
BreakOff ==
    /\ progress = "asking" /\ tool = "email_stats" /\ ~answers
    /\ \/ \E n \in 0..PageSize :
            LET rows == Slice(Remaining, 0, n)
            IN  /\ Unknown(rows) = {}
                /\ Got(rows)
                /\ last' = Key(rows)
                /\ Collect(rows)
                /\ UNCHANGED progress
       \/ progress' = "dead" /\ UNCHANGED <<last, fetched, atcs>>
    /\ UNCHANGED <<gerrit, offset, more, tool, known, moved, moves>>

\* A request that fails ends owners.py, after three retries of the connection.
Fail ==
    /\ progress = "asking" /\ tool = "owners" /\ ~answers
    /\ progress' = "dead"
    /\ UNCHANGED <<gerrit, offset, last, more, fetched, atcs, tool, known, moved, moves>>

\* An answer never comes, and the script waits for it for ever: neither
\* requests.get nor exec_command is given a timeout.
Hang ==
    /\ progress = "asking" /\ ~answers
    /\ progress' = "waiting"
    /\ UNCHANGED <<gerrit, offset, last, more, fetched, atcs, tool, known, moved, moves>>

-----------------------------------------------------------------------------

PagesNext ==
    \/ \E c \in Changes : Touch(c)
    \/ RenameRepo \/ Falter
    \/ Fetch \/ Resume \/ BreakOff \/ Fail \/ Hang

PagesSpec == PagesInit /\ [][PagesNext]_pagesVars

\* The scripts go on while gerrit answers.  Nothing is assumed of it when it
\* does not.
PagesFairSpec == PagesSpec /\ WF_pagesVars(Fetch \/ Resume)

-----------------------------------------------------------------------------
(* Properties.                                                             *)

\* Whatever moves in between, a walk that comes to its end has got every change
\* that stayed where it was.
NothingMissed ==
    progress = "done" /\ ~renamed => \A c \in Listed \ moved : fetched[c] > 0

\* No change is counted twice: never by email_stats.py, and by owners.py unless
\* something moved.
NoneTwice ==
    tool = "email_stats" \/ moved = {} => \A c \in Changes : fetched[c] <= 1

\* The roll of a walk that comes to its end has the owners of the changes that
\* were merged in the period and stayed where they were, whether or not others
\* of them moved; no other is ever on it, and none without a username.
RollComplete ==
    /\ atcs \subseteq {Owner[c] : c \in Period} \ Nameless
    /\ progress = "done" /\ tool = "email_stats" /\ ~renamed =>
        {Owner[c] : c \in (Listed \cap Period) \ moved} \ Nameless \subseteq atcs

\* Once gerrit answers for good, a walk ends, or it has asked before and waits
\* for ever; unless the repository of owners.py is renamed meanwhile.
WalkEnds ==
    <>[]answers =>
        <>(progress \in {"done", "dead", "waiting"} \/ (renamed /\ tool = "owners"))
=============================================================================
