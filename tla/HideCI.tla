------------------------------- MODULE HideCI -------------------------------
(***************************************************************************)
(* modules/tesora_cyclone/files/gerrit/hideci.js: the table of CI results  *)
(* on the page of a change, and the button that hides the comments of CIs. *)
(*                                                                         *)
(* gerrit renders the comments there are and the script works on what is   *)
(* rendered, whenever a request of gerrit's has ended.  Windows of one     *)
(* browser share a cookie that says whether comments of CIs are shown.     *)
(***************************************************************************)
EXTENDS Naturals, Sequences, SequencesExt, FiniteSets

CONSTANTS
    Windows,
    Owner,       \* of the change
    CIs,         \* authors that ciRegex matches
    Trusted,     \* those whose reports of merge failures count
    FirstParty,  \* those at the top of the table
    Remarks,     \* what authors say of a patch set
    Names,       \* names of CIs with their pipelines, in the order of strings
    MaxComments, \* bound: comments on the change
    MaxPatchset  \* bound: patch sets

ASSUME HideCIAssumption ==
    /\ Owner \notin CIs
    /\ Trusted \subseteq CIs /\ FirstParty \subseteq CIs
    /\ \A r \in Remarks :
          /\ DOMAIN r = {"author", "pipeline", "tests", "conflict"}
          /\ r.tests \in BOOLEAN /\ r.conflict \in BOOLEAN
          /\ r.author \in CIs => \E i \in DOMAIN Names : Names[i] = <<r.author, r.pipeline>>
    /\ Len(Names) \in Nat /\ DOMAIN Names = 1..Len(Names)
    /\ MaxComments \in Nat /\ MaxPatchset \in Nat \ {0}

VARIABLES
    comments,   \* gerrit: the comments on the change, in their order
    rendered,   \* window -> how many of them are rendered
    table,      \* window -> whether there is a table, of rows or of a conflict
    hidden,     \* window -> the comments that are hidden
    cookie,     \* show-ci-comments is 'true'
    apart       \* window -> another one has changed the cookie since this one
                \* was rendered or its button pressed (for the properties)

vars == <<comments, rendered, table, hidden, cookie, apart>>

NoTable == [kind |-> "none", rows |-> <<>>]

\* A comment names its patch set; gerrit adds one itself for every upload.
Upload(ps) == [author |-> Owner, pipeline |-> "", tests |-> FALSE, conflict |-> FALSE, ps |-> ps]
On(r, ps) == [author |-> r.author, pipeline |-> r.pipeline, tests |-> r.tests,
              conflict |-> r.conflict, ps |-> ps]

Init ==
    /\ comments = <<Upload(1)>>
    /\ rendered = [w \in Windows |-> 0]
    /\ table = [w \in Windows |-> NoTable]
    /\ hidden = [w \in Windows |-> {}]
    /\ cookie = FALSE
    /\ apart = [w \in Windows |-> FALSE]

Parsed(w) == SubSeq(comments, 1, rendered[w])
LatestPatchset(cs) == FoldLeft(LAMBDA ps, c : IF c.ps > ps THEN c.ps ELSE ps, 0, cs)

-----------------------------------------------------------------------------
(* The table.                                                              *)

\* Mutant: a conflict of any patch set counts.
IsMergeConflictEver(cs) ==
    FoldLeft(LAMBDA was, c : IF c.author \in Trusted THEN c.conflict ELSE was, FALSE, cs)

\* ci_is_merge_conflict
IsMergeConflict(cs) ==
    FoldLeft(LAMBDA was, c :
                IF c.ps = LatestPatchset(cs) /\ c.author \in Trusted THEN c.conflict ELSE was,
             FALSE, cs)

PipelineOf(c) == <<c.author, c.pipeline>>

\* A result of a CI in the latest patch set.
IsResult(cs, i) ==
    cs[i].ps = LatestPatchset(cs) /\ cs[i].author \in CIs /\ cs[i].tests

\* Mutant: the results of all pipelines of a CI are one group.
WithResultByName(groups, cs, i) ==
    LET Same(group) == group.name[1] = cs[i].author
    IN IF ~IsResult(cs, i) THEN groups
       ELSE IF \E k \in DOMAIN groups : Same(groups[k])
         THEN [k \in DOMAIN groups |->
                 IF Same(groups[k]) THEN [groups[k] EXCEPT !.of = Append(@, i)] ELSE groups[k]]
         ELSE Append(groups, [name |-> PipelineOf(cs[i]), of |-> <<i>>])

WithResult(groups, cs, i) ==
    LET Same(group) == group.name = PipelineOf(cs[i])
    IN IF ~IsResult(cs, i) THEN groups
       ELSE IF \E k \in DOMAIN groups : Same(groups[k])
         THEN [k \in DOMAIN groups |->
                 IF Same(groups[k]) THEN [groups[k] EXCEPT !.of = Append(@, i)] ELSE groups[k]]
         ELSE Append(groups, [name |-> PipelineOf(cs[i]), of |-> <<i>>])

\* ci_group_by_ci_pipeline: pipelines in the order in which they turn up, each
\* with its results in the latest patch set.
Group(cs) == FoldLeftDomain(LAMBDA groups, i : WithResult(groups, cs, i), <<>>, cs)

IsFirstParty(group) == group.name[1] \in FirstParty
Position(name) == CHOOSE i \in DOMAIN Names : Names[i] = name

\* sort_by_name: every group comes after those with lesser names.
ByName(groups) ==
    LET Before(g) == {h \in groups : Position(h.name) < Position(g.name)}
    IN [k \in 1..Cardinality(groups) |-> CHOOSE g \in groups : Cardinality(Before(g)) = k - 1]

\* Mutant: all results by name.
SortedAll(groups) == ByName(Range(groups))

FirstPartyResults(groups) ==
    FoldLeft(LAMBDA first, g : IF IsFirstParty(g) THEN Append(first, g) ELSE first,
             <<>>, groups)

\* First party results in their order, then the others by name.
Sorted(groups) ==
    FirstPartyResults(groups) \o ByName({g \in Range(groups) : ~IsFirstParty(g)})

\* ci_display_results: a row per pipeline, with its last comment.
Results(cs) ==
    IF IsMergeConflict(cs)
      THEN [kind |-> "conflict", rows |-> <<>>]
      ELSE LET groups == Sorted(Group(cs))
           IN [kind |-> "results",
               rows |-> [k \in DOMAIN groups |->
                           [name |-> groups[k].name, shows |-> Last(groups[k].of),
                            rechecks |-> Len(groups[k].of) - 1]]]

-----------------------------------------------------------------------------
(* gerrit.                                                                 *)

UploadPatchset ==
    /\ Len(comments) < MaxComments /\ LatestPatchset(comments) < MaxPatchset
    /\ comments' = Append(comments, Upload(LatestPatchset(comments) + 1))
    /\ UNCHANGED <<rendered, table, hidden, cookie, apart>>

\* Of any patch set: tests of an old one may end late.
Comment(r) ==
    /\ Len(comments) < MaxComments
    /\ \E ps \in 1..LatestPatchset(comments) : comments' = Append(comments, On(r, ps))
    /\ UNCHANGED <<rendered, table, hidden, cookie, apart>>

\* The page is opened, or rendered anew.
Render(w) ==
    /\ rendered' = [rendered EXCEPT ![w] = Len(comments)]
    /\ table' = [table EXCEPT ![w] = NoTable]
    /\ hidden' = [hidden EXCEPT ![w] = {}]
    /\ apart' = [apart EXCEPT ![w] = FALSE]
    /\ UNCHANGED <<comments, cookie>>

-----------------------------------------------------------------------------
(* hideci.js.                                                              *)

CIComments(w) == {i \in 1..rendered[w] : comments[i].author \in CIs}

\* Mutant: of the comments that are rendered all are hidden.
HideAllComments(w) == hidden' = [hidden EXCEPT ![w] = 1..rendered[w]]

\* ci_hide_ci_comments
HideCIComments(w) == hidden' = [hidden EXCEPT ![w] = CIComments(w)]

\* ci_page_loaded
PageLoaded(w) ==
    /\ rendered[w] > 0
    /\ table' = [table EXCEPT ![w] = Results(Parsed(w))]
    /\ IF cookie THEN UNCHANGED hidden ELSE HideCIComments(w)
    /\ UNCHANGED <<comments, rendered, cookie, apart>>

\* Mutant: the cookie is read again after it has been set.
ToggleReadingTwice(w) ==
    /\ rendered[w] > 0
    /\ cookie' = ~cookie
    /\ hidden' = [hidden EXCEPT ![w] = IF cookie' THEN CIComments(w) ELSE {}]
    /\ apart' = [v \in Windows |-> v # w /\ rendered[v] > 0]
    /\ UNCHANGED <<comments, rendered, table>>

\* A click on "Toggle CI".
Toggle(w) ==
    /\ rendered[w] > 0
    /\ cookie' = ~cookie
    /\ hidden' = [hidden EXCEPT ![w] = IF cookie THEN CIComments(w) ELSE {}]
    /\ apart' = [v \in Windows |-> v # w /\ rendered[v] > 0]
    /\ UNCHANGED <<comments, rendered, table>>

Next ==
    \/ UploadPatchset
    \/ \E r \in Remarks : Comment(r)
    \/ \E w \in Windows : Render(w) \/ PageLoaded(w) \/ Toggle(w)

Spec == Init /\ [][Next]_vars

-----------------------------------------------------------------------------
(* Properties.                                                             *)

TypeOK ==
    /\ \A i \in DOMAIN comments : comments[i].ps \in 1..MaxPatchset
    /\ rendered \in [Windows -> 0..Len(comments)]
    /\ \A w \in Windows : hidden[w] \subseteq CIComments(w)
    /\ \A w \in Windows :
          /\ table[w].kind \in {"none", "conflict", "results"}
          /\ \A row \in Range(table[w].rows) : row.shows \in CIComments(w)
    /\ cookie \in BOOLEAN
    /\ apart \in [Windows -> BOOLEAN]

\* The results of pipeline p in the latest patch set that window w shows.
ResultsOf(w, p) ==
    {i \in CIComments(w) :
        /\ PipelineOf(comments[i]) = p /\ comments[i].tests
        /\ \A j \in 1..rendered[w] : comments[j].ps <= comments[i].ps}

\* The table has the latest result of every pipeline, once, and the number of
\* results before it, whichever CIs comment in whatever order on old and new
\* patch sets.
LatestOfEveryPipeline ==
    \A w \in Windows : table[w].kind = "results" =>
        \A n \in DOMAIN Names :
            LET found == ResultsOf(w, Names[n])
                rows == {k \in DOMAIN table[w].rows : table[w].rows[k].name = Names[n]}
            IN IF found = {} THEN rows = {}
               ELSE \E k \in rows :
                      /\ rows = {k}
                      /\ table[w].rows[k].shows \in found
                      /\ \A i \in found : i <= table[w].rows[k].shows
                      /\ table[w].rows[k].rechecks = Cardinality(found) - 1

\* First party results are at the top; the others are in the order of their
\* names, so that rows keep their order when results arrive.
FirstPartyOnTop ==
    \A w \in Windows : table[w].kind = "results" =>
        \A k, l \in DOMAIN table[w].rows : k < l =>
            LET p == table[w].rows[k].name  q == table[w].rows[l].name
            IN \/ p[1] \in FirstParty
               \/ q[1] \notin FirstParty /\ Position(p) < Position(q)

\* A table gives way to a merge conflict exactly when the last that a trusted CI
\* has said of the latest patch set is one: an upload or a recheck ends it.
ConflictIsCurrent ==
    \A w \in Windows : table[w].kind # "none" =>
        (table[w].kind = "conflict" <=>
            \E i \in 1..rendered[w] :
                /\ comments[i].author \in Trusted /\ comments[i].conflict
                /\ \A j \in 1..rendered[w] :
                      /\ comments[j].ps <= comments[i].ps
                      /\ j > i /\ comments[j].ps = comments[i].ps =>
                            comments[j].author \notin Trusted)

\* What a window hides is what the cookie says, unless the button was pressed in
\* another window since.
HiddenAsCookie ==
    \A w \in Windows : table[w].kind # "none" /\ ~apart[w] =>
        hidden[w] = IF cookie THEN {} ELSE CIComments(w)

=============================================================================
