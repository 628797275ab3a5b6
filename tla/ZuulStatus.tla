----------------------------- MODULE ZuulStatus -----------------------------
(***************************************************************************)
(* modules/tesora_cyclone/files/gerrit/hideci.js: zuul's status of the     *)
(* change on screen.                                                       *)
(*                                                                         *)
(* gerrit's page is one document: moving to another change alters the URL  *)
(* and then, when gerrit has answered, the contents.  Whenever gerrit's    *)
(* indicator of requests disappears, and whenever the window is shown      *)
(* again, ci_page_loaded starts a "thread" that asks zuul about the change *)
(* and its latest patch set and, by a timer, asks again as long as the     *)
(* window is visible and still at that change.                             *)
(***************************************************************************)
EXTENDS Naturals, Sequences, SequencesExt

CONSTANTS
    Changes,    \* change numbers, as sequences of digits
    NoChange,   \* a page of gerrit that is not about a change
    None,
    zuul_inline, \* the switch of the feature, off in the file as it is installed
    Threads,    \* bound: the threads there may be at a time
    MaxPatchset \* bound: patch sets of a change

ASSUME ChangesAssumption ==
    /\ Changes \subseteq Seq(Nat)
    /\ NoChange \notin Changes
    /\ zuul_inline \in BOOLEAN
    /\ MaxPatchset \in Nat \ {0}

VARIABLES
    latest,     \* gerrit: change -> its latest patch set
    hash,       \* the change that the URL names, or NoChange
    dom,        \* what is rendered: a change and its patch set, or None
    screen,     \* "bare"; with a table of "results"; or "loaded" for the URL
    updates,    \* window.zuul_enable_status_updates is not false
    threads,    \* thread -> what it asks for, and whether it waits for an answer
    status      \* the change and patch set whose status is displayed, or None

vars == <<latest, hash, dom, screen, updates, threads, status>>

Patchsets == 1..MaxPatchset
Pages == Changes \cup {NoChange}
ChangePs == [change : Changes, ps : Patchsets]
Poll == [change : Changes, ps : 0..MaxPatchset, waits : BOOLEAN]

Init ==
    /\ latest = [c \in Changes |-> 1]
    /\ hash = NoChange /\ dom = None /\ screen = "bare"
    /\ updates = TRUE
    /\ threads = <<>>
    /\ status = None

\* window.location.hash of a change, and "indexOf(current) != 0": the text of
\* the URL's change begins that of the thread's change and patch set.
StillAt(c) == hash # NoChange /\ IsPrefix(hash, c)

\* ci_latest_patchset of the comments that are rendered; 0 where there are none.
Latest == IF dom = None THEN 0 ELSE dom.ps

\* ci_prepare_results_table: the table is made, or emptied of all that is in it,
\* zuul's status included.  On a page without comments there may be a place for
\* it or not.
Tabulate ==
    /\ \/ dom = None /\ screen' \in {"bare", "results"}
       \/ dom # None /\ screen' = IF dom.change = hash THEN "loaded" ELSE "results"
    /\ status' = None

Put(f, x, v) == [y \in DOMAIN f \cup {x} |-> IF y = x THEN v ELSE f[y]]
Without(f, x) == [y \in DOMAIN f \ {x} |-> f[y]]

-----------------------------------------------------------------------------
(* gerrit and the user.                                                    *)

Upload(c) ==
    /\ latest[c] < MaxPatchset
    /\ latest' = [latest EXCEPT ![c] = @ + 1]
    /\ UNCHANGED <<hash, dom, screen, updates, threads, status>>

\* A link or the back button.  What was rendered stays until gerrit answers.
Navigate(p) ==
    /\ p # hash
    /\ hash' = p
    /\ screen' = IF screen = "loaded" THEN "results" ELSE screen
    /\ UNCHANGED <<latest, dom, updates, threads, status>>

\* gerrit has answered: the page is rendered anew, without our tables.
Render ==
    /\ dom' = IF hash = NoChange THEN None ELSE [change |-> hash, ps |-> latest[hash]]
    /\ screen' = "bare"
    /\ status' = None
    /\ UNCHANGED <<latest, hash, updates, threads>>

-----------------------------------------------------------------------------
(* hideci.js.                                                              *)

\* ci_zuul_for_change
StartThread ==
    \E t \in Threads \ DOMAIN threads :
        threads' = Put(threads, t, [change |-> hash, ps |-> Latest, waits |-> TRUE])

\* Mutant: a thread is only started where there is none yet.
PageLoadedOnce ==
    /\ hash # NoChange
    /\ Tabulate
    /\ IF zuul_inline /\ threads = <<>> THEN StartThread ELSE UNCHANGED threads

\* ci_page_loaded: the results are displayed and a thread asks zuul about the
\* change that the URL names and the latest patch set of what is rendered.
PageLoaded ==
    /\ hash # NoChange
    /\ Tabulate
    /\ IF zuul_inline THEN StartThread ELSE UNCHANGED threads

\* Some request of gerrit's has ended and the indicator disappears.
RpcDone ==
    /\ PageLoaded
    /\ UNCHANGED <<latest, hash, dom, updates>>

Hide ==
    /\ updates' = FALSE
    /\ UNCHANGED <<latest, hash, dom, screen, threads, status>>

Show ==
    /\ updates' = TRUE
    /\ \/ PageLoaded
       \/ hash = NoChange /\ UNCHANGED <<screen, status, threads>>
    /\ UNCHANGED <<latest, hash, dom>>

\* ci_zuul_process_changes: zuul's answer is displayed, whatever page it is,
\* where there is a table of results to display it in; or the display is
\* cleared, when zuul does not know the patch set.
Answer(t) ==
    /\ threads[t].waits
    /\ \/ status' = IF screen = "bare" THEN status
                    ELSE [change |-> threads[t].change, ps |-> threads[t].ps]
       \/ status' = None
    /\ threads' = [threads EXCEPT ![t].waits = FALSE]
    /\ UNCHANGED <<latest, hash, dom, screen, updates>>

\* No answer, or an error, within five seconds.
NoAnswer(t) ==
    /\ threads[t].waits
    /\ threads' = [threads EXCEPT ![t].waits = FALSE]
    /\ UNCHANGED <<latest, hash, dom, screen, updates, status>>

\* Mutant: the check for another page comes first, and a thread at its own
\* page ignores that the window is hidden.
TimerWhileHidden(t) ==
    /\ ~threads[t].waits
    /\ threads' = IF StillAt(threads[t].change)
                    THEN [threads EXCEPT ![t].waits = TRUE]
                    ELSE Without(threads, t)
    /\ UNCHANGED <<latest, hash, dom, screen, updates, status>>

\* Mutant: a thread stays where it has been started from.
TimerWithoutHash(t) ==
    /\ ~threads[t].waits
    /\ threads' = IF updates THEN [threads EXCEPT ![t].waits = TRUE]
                             ELSE Without(threads, t)
    /\ UNCHANGED <<latest, hash, dom, screen, updates, status>>

\* The timer set with the request fires, ten seconds after the request's own
\* timeout.  Away from all changes ci_current_change throws, which ends the
\* thread as well.
Timer(t) ==
    /\ ~threads[t].waits
    /\ threads' = IF updates /\ StillAt(threads[t].change)
                    THEN [threads EXCEPT ![t].waits = TRUE]
                    ELSE Without(threads, t)
    /\ UNCHANGED <<latest, hash, dom, screen, updates, status>>

Thread(t) == t \in DOMAIN threads /\ (Answer(t) \/ NoAnswer(t) \/ Timer(t))

Next ==
    \/ \E c \in Changes : Upload(c)
    \/ \E p \in Pages : Navigate(p)
    \/ Render \/ RpcDone \/ Hide \/ Show
    \/ \E t \in Threads : Thread(t)

Spec == Init /\ [][Next]_vars

\* Requests end and timers fire; nobody has to answer, or to use the page.
FairSpec == Spec /\ \A t \in Threads : WF_vars(Thread(t))

-----------------------------------------------------------------------------
(* Properties.                                                             *)

TypeOK ==
    /\ latest \in [Changes -> Patchsets]
    /\ hash \in Pages
    /\ dom \in ChangePs \cup {None}
    /\ screen \in {"bare", "results", "loaded"}
    /\ updates \in BOOLEAN
    /\ DOMAIN threads \subseteq Threads
    /\ \A t \in DOMAIN threads : threads[t] \in Poll
    /\ status \in [change : Changes, ps : 0..MaxPatchset] \cup {None}

\* Whoever looks at a change has a thread that asks for what is rendered, in
\* whatever way the page was left, hidden and come back to.  (The comment in
\* ci_zuul_for_change: both cases are recoverable, because a new "thread" gets
\* started on ci_page_load.)
Watched ==
    screen = "loaded" =>
        /\ dom # None /\ dom.change = hash
        /\ zuul_inline /\ updates => \E t \in DOMAIN threads :
              threads[t].change = hash /\ threads[t].ps = dom.ps

\* Threads of pages that were left come to an end, however many there are and
\* though zuul may not answer them; only those for a change whose number
\* begins with that of the page go on.
LeftThreadsEnd ==
    \A p \in Pages :
        <>[](hash = p) =>
            <>[](\A t \in DOMAIN threads : p # NoChange /\ IsPrefix(p, threads[t].change))

\* In a window that stays hidden every thread ends, though requests of gerrit's
\* may start others.
HiddenThreadsEnd ==
    <>[](~updates) => \A t \in Threads : []<>(t \notin DOMAIN threads)

=============================================================================
