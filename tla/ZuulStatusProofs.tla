------------------------- MODULE ZuulStatusProofs -------------------------
(***************************************************************************)
(* Theorems about ZuulStatus, for any changes, patch sets and number of    *)
(* threads.                                                                *)
(***************************************************************************)
EXTENDS ZuulStatus, TLAPS

\* The URL of a thread's own page is never another page to it.
LEMMA AtOwnPage ==
    ASSUME NEW c \in Changes, hash = c
    PROVE  StillAt(c)
<1>1. c \in Seq(Nat) /\ c # NoChange
  BY ChangesAssumption
<1>2. IsPrefix(c, c)
  BY <1>1, SMT DEF IsPrefix
<1> QED BY <1>1, <1>2 DEF StillAt

\* Latest is a patch set, or zero, and that of what is rendered.
LEMMA LatestType ==
    ASSUME TypeOK
    PROVE  /\ Latest \in 0..MaxPatchset
           /\ dom # None => Latest = dom.ps
<1>1. CASE dom = None
  BY <1>1, ChangesAssumption DEF Latest
<1>2. CASE dom # None
  <2>1. dom.ps \in 1..MaxPatchset
    BY <1>2 DEF TypeOK, ChangePs, Patchsets
  <2> QED BY <1>2, <2>1, ChangesAssumption DEF Latest
<1> QED BY <1>1, <1>2

\* A thread for the page is started next to those there are.
LEMMA ThreadStarts ==
    ASSUME TypeOK, hash # NoChange, StartThread
    PROVE  \E t \in Threads \ DOMAIN threads :
             /\ DOMAIN threads' = DOMAIN threads \cup {t}
             /\ threads'[t] = [change |-> hash, ps |-> Latest, waits |-> TRUE]
             /\ threads'[t] \in Poll
             /\ \A u \in DOMAIN threads : threads'[u] = threads[u]
<1>1. PICK t \in Threads \ DOMAIN threads :
        threads' = Put(threads, t, [change |-> hash, ps |-> Latest, waits |-> TRUE])
  BY DEF StartThread
<1>2. hash \in Changes
  BY DEF TypeOK, Pages
<1>3. [change |-> hash, ps |-> Latest, waits |-> TRUE] \in Poll
  BY <1>2, LatestType DEF Poll
<1> QED BY <1>1, <1>3 DEF Put

\* What a step of a thread does to the threads.
LEMMA ThreadSteps ==
    ASSUME TypeOK, NEW t \in Threads, Thread(t)
    PROVE  /\ DOMAIN threads' \subseteq DOMAIN threads
           /\ \A u \in DOMAIN threads' :
                /\ threads'[u].change = threads[u].change
                /\ threads'[u].ps = threads[u].ps
                /\ threads'[u] \in Poll
<1>1. t \in DOMAIN threads /\ threads[t] \in Poll
  BY DEF Thread, TypeOK
<1>2. \A w \in BOOLEAN :
        LET f == [threads EXCEPT ![t].waits = w]
        IN /\ DOMAIN f = DOMAIN threads
           /\ \A u \in DOMAIN threads :
                f[u].change = threads[u].change /\ f[u].ps = threads[u].ps /\ f[u] \in Poll
  BY <1>1 DEF TypeOK, Poll
<1>3. CASE threads' = Without(threads, t)
  BY <1>1, <1>3 DEF Without, TypeOK
<1>4. CASE threads' = [threads EXCEPT ![t].waits = TRUE]
  BY <1>2, <1>4
<1>5. CASE threads' = [threads EXCEPT ![t].waits = FALSE]
  BY <1>2, <1>5
<1> QED BY <1>3, <1>4, <1>5 DEF Thread, Answer, NoAnswer, Timer

LEMMA TabulateType ==
    ASSUME Tabulate PROVE screen' \in {"bare", "results", "loaded"} /\ status' = None
BY DEF Tabulate

LEMMA InitTypeOK == Init => TypeOK
<1> SUFFICES ASSUME Init PROVE TypeOK
  OBVIOUS
<1>1. latest \in [Changes -> Patchsets]
  BY ChangesAssumption DEF Init, Patchsets
<1>2. DOMAIN threads = {}
  BY DEF Init
<1> QED BY <1>1, <1>2 DEF Init, TypeOK, Pages

LEMMA NextTypeOK == TypeOK /\ [Next]_vars => TypeOK'
<1> SUFFICES ASSUME TypeOK, [Next]_vars PROVE TypeOK'
  OBVIOUS
<1>1. ASSUME NEW c \in Changes, Upload(c) PROVE TypeOK'
  <2>1. latest' \in [Changes -> Patchsets]
    <3>1. latest[c] + 1 \in Patchsets
      BY <1>1, ChangesAssumption DEF Upload, TypeOK, Patchsets
    <3> QED BY <1>1, <3>1 DEF Upload, TypeOK
  <2> QED BY <1>1, <2>1 DEF Upload, TypeOK
<1>2. ASSUME NEW p \in Pages, Navigate(p) PROVE TypeOK'
  BY <1>2 DEF Navigate, TypeOK
<1>3. CASE Render
  <2>1. dom' \in ChangePs \cup {None}
    BY <1>3 DEF Render, TypeOK, Pages, ChangePs
  <2> QED BY <1>3, <2>1 DEF Render, TypeOK
<1>4. ASSUME PageLoaded, updates' \in BOOLEAN, UNCHANGED <<latest, hash, dom>> PROVE TypeOK'
  <2>1. CASE StartThread
    BY <1>4, <2>1, ThreadStarts, TabulateType DEF TypeOK, PageLoaded
  <2>2. CASE UNCHANGED threads
    BY <1>4, <2>2, TabulateType DEF TypeOK, PageLoaded
  <2> QED BY <1>4, <2>1, <2>2 DEF PageLoaded
<1>5. CASE RpcDone
  BY <1>4, <1>5 DEF RpcDone, TypeOK
<1>6. CASE Hide
  BY <1>6 DEF Hide, TypeOK
<1>7. CASE Show
  <2>1. CASE PageLoaded
    BY <1>4, <1>7, <2>1 DEF Show
  <2>2. CASE UNCHANGED <<screen, status, threads>>
    BY <1>7, <2>2 DEF Show, TypeOK
  <2> QED BY <1>7, <2>1, <2>2 DEF Show
<1>8. ASSUME NEW t \in Threads, Thread(t) PROVE TypeOK'
  <2>1. status' \in [change : Changes, ps : 0..MaxPatchset] \cup {None}
    <3>1. threads[t] \in Poll
      BY <1>8 DEF Thread, TypeOK
    <3> QED BY <1>8, <3>1 DEF Thread, Answer, NoAnswer, Timer, TypeOK, Poll
  <2>2. UNCHANGED <<latest, hash, dom, screen, updates>>
    BY <1>8 DEF Thread, Answer, NoAnswer, Timer
  <2> QED BY <1>8, <2>1, <2>2, ThreadSteps DEF TypeOK
<1>9. CASE UNCHANGED vars
  BY <1>9 DEF vars, TypeOK
<1> QED BY <1>1, <1>2, <1>3, <1>5, <1>6, <1>7, <1>8, <1>9 DEF Next

\* Type correctness: every thread asks for a change, about a patch set that its
\* comments name, whatever page the user is at when it is started.
THEOREM TypeCorrect == Spec => []TypeOK
BY InitTypeOK, NextTypeOK, PTL DEF Spec

LEMMA PageLoadedWatched ==
    ASSUME TypeOK, PageLoaded, UNCHANGED <<hash, dom>>
    PROVE  Watched'
<1> SUFFICES ASSUME screen' = "loaded" PROVE
        /\ dom' # None /\ dom'.change = hash'
        /\ zuul_inline => \E t \in DOMAIN threads' : threads'[t].change = hash' /\ threads'[t].ps = dom'.ps
  BY DEF Watched
<1>1. dom # None /\ dom.change = hash
  BY DEF PageLoaded, Tabulate
<1> SUFFICES ASSUME zuul_inline PROVE
        \E t \in DOMAIN threads' : threads'[t].change = hash' /\ threads'[t].ps = dom'.ps
  BY <1>1
<1>2. PICK t \in Threads \ DOMAIN threads :
         /\ DOMAIN threads' = DOMAIN threads \cup {t}
         /\ threads'[t] = [change |-> hash, ps |-> Latest, waits |-> TRUE]
  BY ThreadStarts DEF PageLoaded
<1> QED BY <1>1, <1>2, LatestType

LEMMA ThreadWatched ==
    ASSUME TypeOK, Watched, NEW t \in Threads, Thread(t)
    PROVE  Watched'
<1>1. UNCHANGED <<hash, dom, screen, updates>>
  BY DEF Thread, Answer, NoAnswer, Timer
<1> SUFFICES ASSUME screen = "loaded", zuul_inline, updates PROVE
        \E u \in DOMAIN threads' : threads'[u].change = hash /\ threads'[u].ps = dom.ps
  BY <1>1 DEF Watched
<1>2. PICK u \in DOMAIN threads : threads[u].change = hash /\ threads[u].ps = dom.ps
  BY DEF Watched
<1>3. threads[u] \in Poll
  BY <1>2 DEF TypeOK
<1>4. StillAt(threads[u].change)
  BY <1>2, <1>3, AtOwnPage DEF Poll
<1>5. u \in DOMAIN threads'
  <2>1. t # u => threads'[u] = threads[u] /\ u \in DOMAIN threads'
    BY <1>2 DEF Thread, Answer, NoAnswer, Timer, Without
  <2>2. t = u => DOMAIN threads' = DOMAIN threads
    BY <1>4 DEF Thread, Answer, NoAnswer, Timer
  <2> QED BY <1>2, <2>1, <2>2
<1> QED BY <1>2, <1>5, ThreadSteps

\* Whoever looks at a change has a thread that asks for it.
THEOREM AlwaysWatched == Spec => []Watched
<1>1. Init => Watched
  BY DEF Init, Watched
<1>2. TypeOK /\ Watched /\ [Next]_vars => Watched'
  <2> SUFFICES ASSUME TypeOK, Watched, [Next]_vars PROVE Watched'
    OBVIOUS
  <2>1. ASSUME NEW c \in Changes, Upload(c) PROVE Watched'
    BY <2>1 DEF Upload, Watched
  <2>2. ASSUME NEW p \in Pages, Navigate(p) PROVE Watched'
    BY <2>2 DEF Navigate, Watched
  <2>3. CASE Render
    BY <2>3 DEF Render, Watched
  <2>4. CASE RpcDone
    BY <2>4, PageLoadedWatched DEF RpcDone
  <2>5. CASE Hide
    BY <2>5 DEF Hide, Watched
  <2>6. CASE Show
    <3>1. CASE PageLoaded
      BY <2>6, <3>1, PageLoadedWatched DEF Show
    <3>2. CASE hash = NoChange /\ UNCHANGED <<screen, status, threads>>
      <4>1. screen # "loaded"
        BY <3>2, ChangesAssumption DEF Watched, TypeOK, ChangePs
      <4> QED BY <2>6, <3>2, <4>1 DEF Show, Watched
    <3> QED BY <2>6, <3>1, <3>2 DEF Show
  <2>7. ASSUME NEW t \in Threads, Thread(t) PROVE Watched'
    BY <2>7, ThreadWatched
  <2>8. CASE UNCHANGED vars
    BY <2>8 DEF vars, Watched
  <2> QED BY <2>1, <2>2, <2>3, <2>4, <2>5, <2>6, <2>7, <2>8 DEF Next
<1> QED BY <1>1, <1>2, TypeCorrect, PTL DEF Spec
=============================================================================
