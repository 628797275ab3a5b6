---------------------------- MODULE HideCIProofs ----------------------------
(***************************************************************************)
(* What windows hide and what their tables show, for any windows, comments *)
(* and bounds.                                                             *)
(*                                                                         *)
(* The loops of hideci.js are folds: LoopExists shows that a fold has the  *)
(* value after round k that round k makes of the value before it.  What a  *)
(* loop computes follows by induction over the rounds, of which the first  *)
(* that failed would be the LeastNatural.                                  *)
(***************************************************************************)
EXTENDS HideCI, FiniteSetTheorems, WellFoundedInduction, TLAPS

\* What is rendered is part of what gerrit has; a window without a page hides
\* nothing.
PagesInv ==
    /\ DOMAIN comments = 1..Len(comments) /\ Len(comments) \in Nat
    /\ rendered \in [Windows -> Nat]
    /\ \A w \in Windows : rendered[w] <= Len(comments)
    /\ DOMAIN table = Windows /\ DOMAIN hidden = Windows
    /\ cookie \in BOOLEAN
    /\ apart \in [Windows -> BOOLEAN]
    /\ \A w \in Windows : rendered[w] = 0 => hidden[w] = {} /\ table[w].kind = "none"

\* A window agrees with the cookie before its page is loaded too: it hides
\* nothing, so that loading need not show anything again.
Agrees(w) ==
    ~apart[w] => /\ cookie => hidden[w] = {}
                 /\ ~cookie /\ table[w].kind # "none" => hidden[w] = CIComments(w)

CookieInv == PagesInv /\ \A w \in Windows : Agrees(w)

\* A new comment changes nothing in what is rendered.
LEMMA Appended ==
    ASSUME CookieInv, NEW c, comments' = Append(comments, c),
           UNCHANGED <<rendered, table, hidden, cookie, apart>>
    PROVE  CookieInv'
<1>1. /\ Len(comments') = Len(comments) + 1
      /\ DOMAIN comments' = 1..Len(comments')
      /\ \A i \in 1..Len(comments) : comments'[i] = comments[i]
  BY DEF CookieInv, PagesInv
<1>2. PagesInv'
  BY <1>1 DEF CookieInv, PagesInv
<1>3. ASSUME NEW w \in Windows PROVE CIComments(w)' = CIComments(w)
  <2>1. \A i \in 1..rendered[w] : i \in 1..Len(comments)
    BY DEF CookieInv, PagesInv
  <2> QED BY <1>1, <2>1 DEF CIComments
<1> QED BY <1>2, <1>3 DEF CookieInv, Agrees

LEMMA InitCookieInv == Init => CookieInv
<1> SUFFICES ASSUME Init PROVE CookieInv
  OBVIOUS
<1>1. Len(comments) = 1 /\ DOMAIN comments = 1..1
  BY DEF Init
<1>2. NoTable.kind = "none"
  BY DEF NoTable
<1>3. \A w \in Windows : ~apart[w] /\ table[w].kind = "none" /\ hidden[w] = {} /\ rendered[w] = 0
  BY <1>2, Zenon DEF Init
<1>4. PagesInv
  <2>1. DOMAIN table = Windows /\ DOMAIN hidden = Windows /\ cookie \in BOOLEAN
    BY DEF Init
  <2>2. rendered \in [Windows -> Nat] /\ apart \in [Windows -> BOOLEAN]
    BY DEF Init
  <2>3. \A w \in Windows : rendered[w] <= Len(comments)
    BY <1>1 DEF Init
  <2> QED BY <1>1, <1>3, <2>1, <2>2, <2>3 DEF PagesInv
<1>5. \A w \in Windows : Agrees(w)
  BY <1>3, Zenon DEF Agrees
<1> QED BY <1>4, <1>5 DEF CookieInv

LEMMA NextCookieInv == CookieInv /\ [Next]_vars => CookieInv'
<1> SUFFICES ASSUME CookieInv, [Next]_vars PROVE CookieInv'
  OBVIOUS
<1>1. CASE UploadPatchset
  BY <1>1, Appended DEF UploadPatchset
<1>2. ASSUME NEW r \in Remarks, Comment(r) PROVE CookieInv'
  BY <1>2, Appended DEF Comment
<1>3. ASSUME NEW w \in Windows, Render(w) PROVE CookieInv'
  <2>1. PagesInv'
    BY <1>3 DEF Render, CookieInv, PagesInv, NoTable
  <2>2. ASSUME NEW v \in Windows PROVE Agrees(v)'
    <3>1. CASE v = w
      BY <1>3, <3>1 DEF Render, CookieInv, PagesInv, Agrees, NoTable
    <3>2. CASE v # w
      BY <1>3, <3>2 DEF Render, CookieInv, PagesInv, Agrees, CIComments
    <3> QED BY <3>1, <3>2
  <2> QED BY <2>1, <2>2 DEF CookieInv
<1>4. ASSUME NEW w \in Windows, PageLoaded(w) PROVE CookieInv'
  <2>1. PagesInv'
    BY <1>4 DEF PageLoaded, HideCIComments, CookieInv, PagesInv
  <2>2. ASSUME NEW v \in Windows PROVE Agrees(v)'
    <3>1. CASE v = w
      BY <1>4, <3>1 DEF PageLoaded, HideCIComments, CookieInv, PagesInv, Agrees, CIComments
    <3>2. CASE v # w
      BY <1>4, <3>2 DEF PageLoaded, HideCIComments, CookieInv, PagesInv, Agrees, CIComments
    <3> QED BY <3>1, <3>2
  <2> QED BY <2>1, <2>2 DEF CookieInv
<1>5. ASSUME NEW w \in Windows, Toggle(w) PROVE CookieInv'
  <2>1. PagesInv'
    BY <1>5 DEF Toggle, CookieInv, PagesInv
  <2>2. ASSUME NEW v \in Windows PROVE Agrees(v)'
    <3>1. CASE v = w
      BY <1>5, <3>1 DEF Toggle, CookieInv, PagesInv, Agrees, CIComments
    <3>2. CASE v # w /\ rendered[v] > 0
      BY <1>5, <3>2 DEF Toggle, Agrees
    <3>3. CASE v # w /\ rendered[v] = 0
      BY <1>5, <3>3 DEF Toggle, CookieInv, PagesInv, Agrees
    <3> QED BY <3>1, <3>2, <3>3 DEF CookieInv, PagesInv
  <2> QED BY <2>1, <2>2 DEF CookieInv
<1>6. CASE UNCHANGED vars
  BY <1>6 DEF vars, CookieInv, PagesInv, Agrees, CIComments
<1> QED BY <1>1, <1>2, <1>3, <1>4, <1>5, <1>6 DEF Next

\* What a window hides is what the cookie says, unless the button was pressed in
\* another window since.
THEOREM ButtonAgrees == Spec => []HiddenAsCookie
<1>1. CookieInv => HiddenAsCookie
  BY DEF CookieInv, Agrees, HiddenAsCookie, PagesInv
<1> QED BY <1>1, InitCookieInv, NextCookieInv, PTL DEF Spec
-----------------------------------------------------------------------------
(* Folds over sequences, as Folds.tla defines them: there is a function     *)
(* that has the values for all sets of indices, and those for the first k   *)
(* indices are the values of the loop.                                      *)

LEMMA LeastNatural ==
    ASSUME NEW S \in SUBSET Nat, S # {}
    PROVE  \E x \in S : \A y \in S : x <= y
<1>1. PICK x \in S : \A y \in S : ~ (<<y, x>> \in OpToRel(<, Nat))
  BY NatLessThanWellFounded, WFMin
<1>2. \A y \in S : ~ (y < x)
  BY <1>1 DEF OpToRel
<1> QED
  BY <1>2

LEMMA MaxIn ==
    ASSUME NEW n \in Nat, NEW s \in SUBSET (1..n), s # {}
    PROVE  Max(s) \in s /\ \A x \in s : x <= Max(s)
<1> DEFINE below == {n - x : x \in s}
<1>1. below \in SUBSET Nat /\ below # {}
  OBVIOUS
<1> HIDE DEF below
<1>2. PICK m \in below : \A y \in below : m <= y
  BY <1>1, LeastNatural
<1>3. PICK x \in s : m = n - x
  BY DEF below
<1>4. \A y \in s : n - y \in below
  BY DEF below
<1>5. \A y \in s : x >= y
  BY <1>2, <1>3, <1>4
<1>6. Max(s) \in s /\ \A y \in s : Max(s) >= y
  BY <1>5, Zenon DEF Max
<1> QED
  BY <1>6

LEMMA MaxOfPrefix ==
    ASSUME NEW k \in Nat \ {0}
    PROVE  Max(1..k) = k
<1>1. k \in Nat /\ 1..k \in SUBSET (1..k) /\ 1..k # {} /\ k \in 1..k
  OBVIOUS
<1>2. Max(1..k) \in 1..k /\ \A x \in 1..k : x <= Max(1..k)
  BY <1>1, MaxIn
<1> QED
  BY <1>1, <1>2

LEMMA PrefixBefore ==
    ASSUME NEW k \in Nat \ {0}
    PROVE  (1..k) \ {k} = 1..(k - 1)
<1>1. \A x : x \in (1..k) \ {k} <=> x \in 1..(k - 1)
  OBVIOUS
<1> QED
  BY <1>1, Zenon

\* A loop of n rounds: what round i makes of b is step[i, b].
IsLoop(h, n, base, step) ==
    /\ h[{}] = base
    /\ \A s \in SUBSET (1..n) : s # {} => h[s] = step[<<Max(s), h[s \ {Max(s)}]>>]

LEMMA LoopExists ==
    ASSUME NEW n \in Nat, NEW B, NEW base \in B, NEW step \in [(1..n) \X B -> B]
    PROVE  \E h \in [SUBSET (1..n) -> B] : IsLoop(h, n, base, step)
<1> DEFINE D(m) == {s \in SUBSET (1..n) : Cardinality(s) <= m}
           Done(m) == \E h \in [D(m) -> B] :
              h = [s \in D(m) |->
                     IF s = {} THEN base ELSE step[<<Max(s), h[s \ {Max(s)}]>>]]
           Bad == {m \in Nat : ~ Done(m)}
<1>1. \A s \in SUBSET (1..n) : IsFiniteSet(s) /\ Cardinality(s) \in Nat /\ Cardinality(s) <= n
  <2>1. IsFiniteSet(1..n) /\ Cardinality(1..n) = n
    BY FS_Interval
  <2> DEFINE I == 1..n
  <2> HIDE DEF I
  <2>2. \A s \in SUBSET I : IsFiniteSet(s) /\ Cardinality(s) <= Cardinality(I)
    BY <2>1, FS_Subset DEF I
  <2>3. \A s \in SUBSET I : Cardinality(s) \in Nat
    BY <2>2, FS_CardinalityType
  <2> QED
    BY <2>1, <2>2, <2>3 DEF I
<1>2. Bad = {}
  <2> SUFFICES ASSUME Bad # {} PROVE FALSE
    OBVIOUS
  <2>1. PICK m \in Bad : \A l \in Bad : m <= l
    BY LeastNatural
  <2>2. CASE m = 0
    <3> DEFINE h == [s \in D(0) |-> base]
    <3>1. \A s \in D(0) : s = {}
      BY <1>1, FS_EmptySet
    <3>2. h = [s \in D(0) |->
                 IF s = {} THEN base ELSE step[<<Max(s), h[s \ {Max(s)}]>>]]
      BY <3>1
    <3>3. h \in [D(0) -> B]
      OBVIOUS
    <3>4. Done(0)
      BY <3>2, <3>3
    <3> QED
      BY <2>2, <3>4
  <2>3. CASE m # 0
    <3>1. m \in Nat /\ m - 1 \in Nat
      BY <2>3
    <3>2. Done(m - 1)
      <4>1. m - 1 \notin Bad
        <5> HIDE DEF Bad
        <5> QED
          BY <2>1, <3>1
      <4> QED
        BY <3>1, <4>1
    <3>3. PICK g \in [D(m - 1) -> B] :
             g = [s \in D(m - 1) |->
                    IF s = {} THEN base ELSE step[<<Max(s), g[s \ {Max(s)}]>>]]
      BY <3>2
    <3> DEFINE h == [s \in D(m) |->
                       IF s = {} THEN base ELSE step[<<Max(s), g[s \ {Max(s)}]>>]]
    <3>4. ASSUME NEW s \in D(m), s # {}
          PROVE  /\ Max(s) \in 1..n
                 /\ s \ {Max(s)} \in D(m - 1) /\ s \ {Max(s)} \in D(m)
      <4>0. s \in SUBSET (1..n)
        OBVIOUS
      <4>1. Max(s) \in s
        BY <3>4, <4>0, MaxIn
      <4>2. Cardinality(s \ {Max(s)}) = Cardinality(s) - 1
        BY <4>1, <1>1, FS_RemoveElement
      <4>3. s \ {Max(s)} \in SUBSET (1..n) /\ Max(s) \in 1..n
        BY <4>1
      <4>4. Cardinality(s) <= m /\ Cardinality(s) \in Nat
        BY <1>1
      <4>5. Cardinality(s \ {Max(s)}) <= m - 1 /\ Cardinality(s \ {Max(s)}) <= m
        BY <4>2, <4>4, <3>1
      <4> QED
        BY <4>3, <4>5
    <3>5. \A s \in D(m - 1) : s \in D(m) => g[s] = h[s]
      BY <3>3
    <3>6. h = [s \in D(m) |->
                 IF s = {} THEN base ELSE step[<<Max(s), h[s \ {Max(s)}]>>]]
      BY <3>4, <3>5
    <3>7. h \in [D(m) -> B]
      <4>1. ASSUME NEW s \in D(m) PROVE h[s] \in B
        <5>1. CASE s = {}
          BY <5>1
        <5>2. CASE s # {}
          <6>1. g[s \ {Max(s)}] \in B /\ Max(s) \in 1..n
            BY <3>4, <5>2
          <6> QED
            BY <5>2, <6>1
        <5> QED
          BY <5>1, <5>2
      <4> HIDE DEF D
      <4> QED
        BY <4>1
    <3>8. Done(m)
      BY <3>6, <3>7
    <3> QED
      BY <3>8
  <2> QED
    BY <2>2, <2>3
<1>3. D(n) = SUBSET (1..n) /\ Done(n)
  <2>1. D(n) = SUBSET (1..n)
    BY <1>1
  <2>2. Done(n)
    BY <1>2
  <2> QED
    BY <2>1, <2>2
<1>4. PICK h \in [SUBSET (1..n) -> B] :
         h = [s \in SUBSET (1..n) |->
                IF s = {} THEN base ELSE step[<<Max(s), h[s \ {Max(s)}]>>]]
  <2> HIDE DEF D
  <2> QED
    BY <1>3
<1>5. h[{}] = base
  BY <1>4
<1>6. \A s \in SUBSET (1..n) : s # {} => h[s] = step[<<Max(s), h[s \ {Max(s)}]>>]
  BY <1>4
<1> QED
  BY <1>5, <1>6 DEF IsLoop

LEMMA Prefix ==
    ASSUME NEW n \in Nat, NEW k \in 1..n
    PROVE  /\ 1..k \in SUBSET (1..n) /\ 1..k # {}
           /\ Max(1..k) = k /\ (1..k) \ {k} = 1..(k - 1)
           /\ k \in 0..n /\ k - 1 \in 0..n
<1>1. k \in Nat \ {0} /\ k \in 0..n /\ k - 1 \in 0..n
  OBVIOUS
<1>2. \A x \in 1..k : x \in 1..n
  OBVIOUS
<1>3. k \in 1..k
  BY <1>1
<1>4. 1..k \in SUBSET (1..n) /\ 1..k # {}
  BY <1>2, <1>3, Zenon
<1>5. Max(1..k) = k /\ (1..k) \ {k} = 1..(k - 1)
  BY <1>1, MaxOfPrefix, PrefixBefore
<1> QED
  BY <1>1, <1>4, <1>5, Zenon

LEMMA LatestRounds ==
    ASSUME NEW cs, NEW n \in Nat, DOMAIN cs = 1..n, \A i \in 1..n : cs[i].ps \in Nat
    PROVE  \E g : /\ g[0] = 0 /\ LatestPatchset(cs) = g[n]
                  /\ \A k \in 1..n : g[k] = IF cs[k].ps > g[k - 1] THEN cs[k].ps ELSE g[k - 1]
<1> DEFINE step == [p \in (1..n) \X Nat |-> IF cs[p[1]].ps > p[2] THEN cs[p[1]].ps ELSE p[2]]
           E(h) == h = [s \in SUBSET (1..n) |->
                          IF s = {} THEN 0
                          ELSE IF cs[Max(s)].ps > h[s \ {Max(s)}] THEN cs[Max(s)].ps
                               ELSE h[s \ {Max(s)}]]
           iter == CHOOSE h : E(h)
<1>1. PICK h \in [SUBSET (1..n) -> Nat] : IsLoop(h, n, 0, step)
  <2>1. step \in [(1..n) \X Nat -> Nat] /\ 0 \in Nat
    OBVIOUS
  <2> HIDE DEF step
  <2> QED
    BY <2>1, LoopExists
<1>2. E(h)
  <2>1. ASSUME NEW s \in SUBSET (1..n), s # {}
        PROVE  /\ <<Max(s), h[s \ {Max(s)}]>> \in (1..n) \X Nat
    BY <2>1, MaxIn
  <2> QED
    BY <1>1, <2>1 DEF IsLoop
<1>3. E(iter)
  <2> HIDE DEF E
  <2> QED
    BY <1>2
<1>4. LatestPatchset(cs) = iter[1..n]
  BY Zenon DEF LatestPatchset, FoldLeft, MapThenFoldSet
<1> HIDE DEF iter
<1> DEFINE g == [k \in 0..n |-> iter[1..k]]
<1>5. g[0] = 0 /\ g[n] = iter[1..n]
  <2>1. 1..0 = {} /\ 0 \in 0..n /\ n \in 0..n /\ 1..0 \in SUBSET (1..n)
    OBVIOUS
  <2> QED
    BY <1>3, <2>1, Zenon
<1>6. ASSUME NEW k \in 1..n
      PROVE  g[k] = IF cs[k].ps > g[k - 1] THEN cs[k].ps ELSE g[k - 1]
  <2> HIDE DEF g
  <2>1. /\ 1..k \in SUBSET (1..n) /\ 1..k # {}
        /\ Max(1..k) = k /\ (1..k) \ {k} = 1..(k - 1)
    BY Prefix, Zenon
  <2>2. g[k] = iter[1..k] /\ g[k - 1] = iter[1..(k - 1)]
    BY Prefix, Zenon DEF g
  <2>3. iter[1..k] = IF cs[k].ps > iter[1..(k - 1)] THEN cs[k].ps ELSE iter[1..(k - 1)]
    BY <1>3, <2>1, Zenon
  <2> QED
    BY <2>2, <2>3, Zenon
<1> QED
  BY <1>4, <1>5, <1>6, Zenon

\* What holds at 0, and at k if at k - 1, holds up to n.
LEMMA UpTo ==
    ASSUME NEW n \in Nat, NEW P, 0 \in P, \A k \in 1..n : k - 1 \in P => k \in P
    PROVE  \A k \in 0..n : k \in P
<1> DEFINE Bad == {k \in 0..n : k \notin P}
<1> SUFFICES ASSUME Bad # {} PROVE FALSE
  OBVIOUS
<1>1. PICK k \in Bad : \A l \in Bad : k <= l
  <2>1. Bad \in SUBSET Nat /\ Bad # {}
    OBVIOUS
  <2> HIDE DEF Bad
  <2> QED
    BY <2>1, LeastNatural
<1>2. k \in 1..n /\ k - 1 \in 0..n
  OBVIOUS
<1>3. k - 1 \notin Bad
  <2> HIDE DEF Bad
  <2> QED
    BY <1>1, <1>2
<1> QED
  BY <1>2, <1>3

LEMMA LatestIsLatest ==
    ASSUME NEW cs, NEW n \in Nat, DOMAIN cs = 1..n, \A i \in 1..n : cs[i].ps \in Nat
    PROVE  /\ LatestPatchset(cs) \in Nat
           /\ \A i \in 1..n : cs[i].ps <= LatestPatchset(cs)
           /\ n > 0 => \E i \in 1..n : cs[i].ps = LatestPatchset(cs)
<1>1. PICK g : /\ g[0] = 0 /\ LatestPatchset(cs) = g[n]
               /\ \A k \in 1..n : g[k] = IF cs[k].ps > g[k - 1] THEN cs[k].ps ELSE g[k - 1]
  BY LatestRounds
<1> DEFINE P == {k \in 0..n : /\ g[k] \in Nat
                              /\ \A i \in 1..k : cs[i].ps <= g[k]
                              /\ k > 0 => \E i \in 1..k : cs[i].ps = g[k]}
<1>2. 0 \in P
  BY <1>1
<1>3. ASSUME NEW k \in 1..n, k - 1 \in P PROVE k \in P
  <2>1. k \in 0..n /\ \A i \in 1..k : i = k \/ i \in 1..(k - 1)
    OBVIOUS
  <2>2. \A i \in 1..(k - 1) : i \in 1..k /\ i \in 1..n
    OBVIOUS
  <2>3. k \in 1..k /\ cs[k].ps \in Nat /\ g[k - 1] \in Nat
    BY <1>3
  <2>4. CASE cs[k].ps > g[k - 1]
    <3>1. g[k] = cs[k].ps
      BY <1>1, <2>4
    <3>2. \A i \in 1..k : cs[i].ps <= g[k]
      BY <1>3, <2>1, <2>2, <2>3, <2>4, <3>1
    <3> QED
      BY <2>1, <2>3, <3>1, <3>2
  <2>5. CASE ~ (cs[k].ps > g[k - 1])
    <3>1. g[k] = g[k - 1]
      BY <1>1, <2>5
    <3>2. \A i \in 1..k : cs[i].ps <= g[k]
      BY <1>3, <2>1, <2>2, <2>3, <2>5, <3>1
    <3>3. \E i \in 1..k : cs[i].ps = g[k]
      <4>1. CASE k - 1 > 0
        BY <1>3, <2>2, <3>1, <4>1
      <4>2. CASE ~ (k - 1 > 0)
        <5>1. k = 1 /\ g[k] = 0
          BY <1>1, <3>1, <4>2
        <5>2. cs[k].ps = g[k]
          BY <2>3, <3>1, <2>5, <5>1
        <5> QED
          BY <2>3, <5>2
      <4> QED
        BY <4>1, <4>2
    <3> QED
      BY <2>1, <2>3, <3>1, <3>2, <3>3
  <2> QED
    BY <2>4, <2>5
<1>4. n \in P
  <2> HIDE DEF P
  <2>1. \A k \in 0..n : k \in P
    BY <1>2, <1>3, UpTo
  <2> QED
    BY <2>1
<1> QED
  BY <1>1, <1>4

LEMMA ConflictRounds ==
    ASSUME NEW cs, NEW n \in Nat, DOMAIN cs = 1..n, \A i \in 1..n : cs[i].conflict \in BOOLEAN
    PROVE  \E g : /\ g[0] = FALSE /\ IsMergeConflict(cs) = g[n]
                  /\ \A k \in 1..n :
                        g[k] = IF cs[k].ps = LatestPatchset(cs) /\ cs[k].author \in Trusted
                                 THEN cs[k].conflict ELSE g[k - 1]
<1> DEFINE Counts(i) == cs[i].ps = LatestPatchset(cs) /\ cs[i].author \in Trusted
           step == [p \in (1..n) \X BOOLEAN |-> IF Counts(p[1]) THEN cs[p[1]].conflict ELSE p[2]]
           E(h) == h = [s \in SUBSET (1..n) |->
                          IF s = {} THEN FALSE
                          ELSE IF Counts(Max(s)) THEN cs[Max(s)].conflict ELSE h[s \ {Max(s)}]]
           iter == CHOOSE h : E(h)
<1>1. PICK h \in [SUBSET (1..n) -> BOOLEAN] : IsLoop(h, n, FALSE, step)
  <2>1. step \in [(1..n) \X BOOLEAN -> BOOLEAN] /\ FALSE \in BOOLEAN
    <3> HIDE DEF Counts
    <3>1. ASSUME NEW p \in (1..n) \X BOOLEAN
          PROVE  (IF Counts(p[1]) THEN cs[p[1]].conflict ELSE p[2]) \in BOOLEAN
      <4>1. p[1] \in 1..n /\ p[2] \in BOOLEAN
        OBVIOUS
      <4> QED
        BY <4>1, Zenon
    <3> QED
      BY <3>1, Zenon
  <2> HIDE DEF step
  <2> QED
    BY <2>1, LoopExists
<1>2. E(h)
  <2>1. ASSUME NEW s \in SUBSET (1..n), s # {}
        PROVE  /\ <<Max(s), h[s \ {Max(s)}]>> \in (1..n) \X BOOLEAN
    BY <2>1, MaxIn
  <2> HIDE DEF Counts
  <2> QED
    BY <1>1, <2>1 DEF IsLoop
<1>3. E(iter)
  <2> HIDE DEF E
  <2> QED
    BY <1>2
<1>4. IsMergeConflict(cs) = iter[1..n]
  BY Zenon DEF IsMergeConflict, FoldLeft, MapThenFoldSet
<1> HIDE DEF iter, Counts
<1> DEFINE g == [k \in 0..n |-> iter[1..k]]
<1>5. g[0] = FALSE /\ g[n] = iter[1..n]
  <2>1. 1..0 = {} /\ 0 \in 0..n /\ n \in 0..n /\ 1..0 \in SUBSET (1..n)
    OBVIOUS
  <2> QED
    BY <1>3, <2>1, Zenon
<1>6. ASSUME NEW k \in 1..n
      PROVE  g[k] = IF Counts(k) THEN cs[k].conflict ELSE g[k - 1]
  <2> HIDE DEF g
  <2>1. /\ 1..k \in SUBSET (1..n) /\ 1..k # {}
        /\ Max(1..k) = k /\ (1..k) \ {k} = 1..(k - 1)
    BY Prefix, Zenon
  <2>2. g[k] = iter[1..k] /\ g[k - 1] = iter[1..(k - 1)]
    BY Prefix, Zenon DEF g
  <2>3. iter[1..k] = IF Counts(Max(1..k)) THEN cs[Max(1..k)].conflict
                     ELSE iter[(1..k) \ {Max(1..k)}]
    BY <1>3, <2>1
  <2>4. iter[1..k] = IF Counts(k) THEN cs[k].conflict ELSE iter[1..(k - 1)]
    BY <2>1, <2>3
  <2> QED
    BY <2>2, <2>4, Zenon
<1> QED
  BY <1>4, <1>5, <1>6, Zenon DEF Counts

\* A merge conflict is what the last trusted comment on the latest patch set
\* says.
LEMMA LastTrusted ==
    ASSUME NEW cs, NEW n \in Nat, DOMAIN cs = 1..n, \A i \in 1..n : cs[i].conflict \in BOOLEAN
    PROVE  IsMergeConflict(cs) <=>
             \E i \in 1..n :
                /\ cs[i].ps = LatestPatchset(cs) /\ cs[i].author \in Trusted /\ cs[i].conflict
                /\ \A j \in 1..n : j > i /\ cs[j].ps = LatestPatchset(cs) =>
                                      cs[j].author \notin Trusted
<1> DEFINE Counts(i) == cs[i].ps = LatestPatchset(cs) /\ cs[i].author \in Trusted
<1>1. PICK g : /\ g[0] = FALSE /\ IsMergeConflict(cs) = g[n]
               /\ \A k \in 1..n : g[k] = IF Counts(k) THEN cs[k].conflict ELSE g[k - 1]
  BY ConflictRounds, Zenon
<1> HIDE DEF Counts
<1> DEFINE LastOf(i, k) == Counts(i) /\ cs[i].conflict /\ \A j \in 1..k : j > i => ~ Counts(j)
           P == {k \in 0..n : g[k] <=> \E i \in 1..k : LastOf(i, k)}
<1>2. 0 \in P
  BY <1>1
<1>3. ASSUME NEW k \in 1..n, k - 1 \in P PROVE k \in P
  <2>1. k \in 0..n /\ k \in 1..k /\ \A i \in 1..k : i = k \/ i \in 1..(k - 1)
    OBVIOUS
  <2>2. \A i \in 1..(k - 1) : i \in 1..k /\ i < k
    OBVIOUS
  <2>3. CASE Counts(k)
    <3>1. g[k] <=> cs[k].conflict
      BY <1>1, <2>3
    <3>2. \A i \in 1..(k - 1) : ~ LastOf(i, k)
      BY <2>1, <2>2, <2>3
    <3>3. LastOf(k, k) <=> cs[k].conflict
      BY <2>1, <2>3
    <3> QED
      BY <2>1, <3>1, <3>2, <3>3
  <2>4. CASE ~ Counts(k)
    <3>1. g[k] <=> g[k - 1]
      BY <1>1, <2>4
    <3>2. \A i \in 1..(k - 1) : LastOf(i, k) <=> LastOf(i, k - 1)
      BY <2>1, <2>2, <2>4
    <3>3. ~ LastOf(k, k)
      BY <2>4
    <3> HIDE DEF LastOf
    <3>4. g[k - 1] <=> \E i \in 1..(k - 1) : LastOf(i, k - 1)
      BY <1>3
    <3>5. (\E i \in 1..k : LastOf(i, k)) <=> \E i \in 1..(k - 1) : LastOf(i, k - 1)
      BY <2>1, <2>2, <3>2, <3>3, Zenon
    <3> QED
      BY <2>1, <3>1, <3>4, <3>5
  <2> QED
    BY <2>3, <2>4
<1>4. n \in P
  <2> HIDE DEF P
  <2>1. \A k \in 0..n : k \in P
    BY <1>2, <1>3, UpTo
  <2> QED
    BY <2>1
<1>5. IsMergeConflict(cs) <=> \E i \in 1..n : LastOf(i, n)
  BY <1>1, <1>4
<1> QED
  BY <1>5, Zenon DEF Counts

-----------------------------------------------------------------------------
(* The groups of results.                                                   *)

PipelinesIn(cs, n) == {PipelineOf(cs[i]) : i \in 1..n}
GroupsIn(cs, n) == Seq([name : PipelinesIn(cs, n), of : Seq(Nat)])

\* The results of pipeline p among the first k comments.
Relevant(cs, k, p) == {i \in 1..k : IsResult(cs, i) /\ PipelineOf(cs[i]) = p}

\* o lists as many comments as S has, the last of S at its end.
Lists(o, S) ==
    /\ Len(o) > 0 /\ o[Len(o)] \in S /\ \A i \in S : i <= o[Len(o)]
    /\ IsFiniteSet(S) /\ Cardinality(S) = Len(o)

Grouped(groups, cs, k) ==
    /\ \A x, y \in 1..Len(groups) : groups[x].name = groups[y].name => x = y
    /\ \A x \in 1..Len(groups) : Lists(groups[x].of, Relevant(cs, k, groups[x].name))
    /\ \A i \in 1..k : IsResult(cs, i) =>
          \E x \in 1..Len(groups) : groups[x].name = PipelineOf(cs[i])

\* A group and its sequence are as long as Append says.
LEMMA GroupType ==
    ASSUME NEW cs, NEW n \in Nat, NEW groups \in GroupsIn(cs, n), NEW x \in 1..Len(groups)
    PROVE  /\ groups[x] = [name |-> groups[x].name, of |-> groups[x].of]
           /\ groups[x].name \in PipelinesIn(cs, n) /\ groups[x].of \in Seq(Nat)
<1> DEFINE R == [name : PipelinesIn(cs, n), of : Seq(Nat)]
<1>1. groups[x] \in R
  <2>1. groups \in Seq(R)
    BY Zenon DEF GroupsIn
  <2> HIDE DEF R
  <2> QED
    BY <2>1
<1> QED
  BY <1>1

LEMMA Extended ==
    ASSUME NEW name, NEW of, NEW group, group = [name |-> name, of |-> of], NEW longer
    PROVE  [group EXCEPT !.of = longer] = [name |-> name, of |-> longer]
OBVIOUS

LEMMA WithResultType ==
    ASSUME NEW cs, NEW n \in Nat, NEW groups \in GroupsIn(cs, n), NEW i \in 1..n
    PROVE  WithResult(groups, cs, i) \in GroupsIn(cs, n)
<1> DEFINE R == [name : PipelinesIn(cs, n), of : Seq(Nat)]
           p == PipelineOf(cs[i])
           joined == [x \in DOMAIN groups |->
                        IF groups[x].name = p THEN [groups[x] EXCEPT !.of = Append(@, i)]
                        ELSE groups[x]]
           new == Append(groups, [name |-> p, of |-> <<i>>])
<1>1. groups \in Seq(R) /\ DOMAIN groups = 1..Len(groups) /\ Len(groups) \in Nat
  BY DEF GroupsIn
<1>2. p \in PipelinesIn(cs, n)
  BY DEF PipelinesIn
<1>3. joined \in Seq(R)
  <2>1. ASSUME NEW x \in 1..Len(groups)
        PROVE  joined[x] \in R
    <3>1. groups[x] = [name |-> groups[x].name, of |-> groups[x].of]
          /\ groups[x].name \in PipelinesIn(cs, n) /\ groups[x].of \in Seq(Nat)
      BY GroupType
    <3>2. Append(groups[x].of, i) \in Seq(Nat)
      BY <3>1
    <3>3. [groups[x] EXCEPT !.of = Append(@, i)] = [name |-> groups[x].name, of |-> Append(groups[x].of, i)]
      <4> HIDE DEF R, p, joined, new
      <4>1. groups[x] = [name |-> groups[x].name, of |-> groups[x].of]
        BY <3>1
      <4> QED
        BY <4>1, Extended
    <3>4. [groups[x] EXCEPT !.of = Append(@, i)] \in R
      BY <3>1, <3>2, <3>3
    <3>5. groups[x] \in R
      BY <3>1
    <3> HIDE DEF R, p
    <3> QED
      BY <1>1, <3>4, <3>5
  <2> HIDE DEF R
  <2>2. joined \in [1..Len(groups) -> R]
    <3>1. DOMAIN joined = 1..Len(groups) /\ joined = [x \in 1..Len(groups) |-> joined[x]]
      BY <1>1
    <3> HIDE DEF joined
    <3> QED
      BY <2>1, <3>1
  <2> HIDE DEF joined
  <2> QED
    BY <1>1, <2>2
<1>4. new \in Seq(R)
  <2>1. [name |-> p, of |-> <<i>>] \in R
    BY <1>2
  <2> HIDE DEF R
  <2> QED
    BY <1>1, <2>1
<1>5. WithResult(groups, cs, i) \in {groups, joined, new}
  BY Zenon DEF WithResult
<1> QED
  BY <1>1, <1>3, <1>4, <1>5 DEF GroupsIn

LEMMA Relevants ==
    ASSUME NEW cs, NEW n \in Nat, NEW k \in 1..n, NEW p
    PROVE  /\ ~ IsResult(cs, k) => Relevant(cs, k, p) = Relevant(cs, k - 1, p)
           /\ p # PipelineOf(cs[k]) => Relevant(cs, k, p) = Relevant(cs, k - 1, p)
           /\ IsResult(cs, k) => Relevant(cs, k, PipelineOf(cs[k])) =
                                   Relevant(cs, k - 1, PipelineOf(cs[k])) \cup {k}
<1>1. \A i : i \in 1..k <=> i \in 1..(k - 1) \/ i = k
  OBVIOUS
<1> DEFINE Is(i) == IsResult(cs, i)
<1>2. \A i, q : i \in Relevant(cs, k, q) <=> i \in 1..k /\ Is(i) /\ PipelineOf(cs[i]) = q
  BY DEF Relevant
<1>3. \A i, q : i \in Relevant(cs, k - 1, q) <=> i \in 1..(k - 1) /\ Is(i) /\ PipelineOf(cs[i]) = q
  BY DEF Relevant
<1> HIDE DEF Is
<1>4. \A i, q : i \in Relevant(cs, k, q) <=>
                  i \in Relevant(cs, k - 1, q) \/ (i = k /\ Is(k) /\ PipelineOf(cs[k]) = q)
  BY <1>1, <1>2, <1>3
<1>5. ~ Is(k) => Relevant(cs, k, p) = Relevant(cs, k - 1, p)
  BY <1>4
<1>6. p # PipelineOf(cs[k]) => Relevant(cs, k, p) = Relevant(cs, k - 1, p)
  BY <1>4
<1>7. Is(k) => Relevant(cs, k, PipelineOf(cs[k])) = Relevant(cs, k - 1, PipelineOf(cs[k])) \cup {k}
  BY <1>4
<1> QED
  BY <1>5, <1>6, <1>7, Zenon DEF Is

LEMMA ListsOneMore ==
    ASSUME NEW k \in Nat \ {0}, NEW S \in SUBSET (1..(k - 1)), NEW o \in Seq(Nat), Lists(o, S)
    PROVE  Lists(Append(o, k), S \cup {k})
<1>1. /\ Len(Append(o, k)) = Len(o) + 1
      /\ Append(o, k)[Len(o) + 1] = k
  OBVIOUS
<1>2. k \notin S /\ \A i \in S : i <= k
  OBVIOUS
<1>3. IsFiniteSet(S) /\ Cardinality(S) = Len(o)
  BY DEF Lists
<1>4. IsFiniteSet(S \cup {k}) /\ Cardinality(S \cup {k}) = Len(o) + 1
  BY <1>2, <1>3, FS_AddElement
<1>5. \A i \in S \cup {k} : i <= k
  BY <1>2
<1> QED
  BY <1>1, <1>4, <1>5 DEF Lists

LEMMA WithResultGroups ==
    ASSUME NEW cs, NEW n \in Nat, NEW groups \in GroupsIn(cs, n), NEW k \in 1..n,
           Grouped(groups, cs, k - 1)
    PROVE  Grouped(WithResult(groups, cs, k), cs, k)
<1> DEFINE p == PipelineOf(cs[k])
           joined == [x \in DOMAIN groups |->
                        IF groups[x].name = p THEN [groups[x] EXCEPT !.of = Append(@, k)]
                        ELSE groups[x]]
           new == Append(groups, [name |-> p, of |-> <<k>>])
           R == [name : PipelinesIn(cs, n), of : Seq(Nat)]
<1>1. groups \in Seq(R) /\ DOMAIN groups = 1..Len(groups) /\ Len(groups) \in Nat
  BY DEF GroupsIn
<1>2. /\ k \in Nat \ {0} /\ k - 1 \in Nat
      /\ \A i : i \in 1..k <=> i \in 1..(k - 1) \/ i = k
  OBVIOUS
<1>3. \A q : Relevant(cs, k - 1, q) \in SUBSET (1..(k - 1))
  BY DEF Relevant
<1> HIDE DEF R
<1>4. CASE ~ IsResult(cs, k)
  <2>1. WithResult(groups, cs, k) = groups
    BY <1>4, Zenon DEF WithResult
  <2>2. \A q : Relevant(cs, k, q) = Relevant(cs, k - 1, q)
    BY <1>4, Relevants
  <2>3. Grouped(groups, cs, k)
    BY <1>2, <1>4, <2>2, Zenon DEF Grouped
  <2> QED
    BY <2>1, <2>3
<1>5. CASE IsResult(cs, k) /\ \E x \in DOMAIN groups : groups[x].name = p
  <2>1. WithResult(groups, cs, k) = joined
    BY <1>5, Zenon DEF WithResult
  <2>2. Len(joined) = Len(groups)
    <3>1. DOMAIN joined = 1..Len(groups)
      BY <1>1
    <3>2. joined \in Seq({joined[x] : x \in 1..Len(groups)})
      <4>1. joined = [x \in 1..Len(groups) |-> joined[x]]
        BY <1>1
      <4> HIDE DEF joined
      <4> QED
        BY <1>1, <4>1
    <3> HIDE DEF joined
    <3> QED
      BY <1>1, <3>1, <3>2
  <2>3. ASSUME NEW x \in 1..Len(groups)
        PROVE  /\ joined[x].name = groups[x].name
               /\ groups[x].name = p => joined[x].of = Append(groups[x].of, k)
               /\ groups[x].name # p => joined[x].of = groups[x].of
               /\ groups[x].of \in Seq(Nat)
    <3>1. groups[x] = [name |-> groups[x].name, of |-> groups[x].of]
          /\ groups[x].of \in Seq(Nat)
      BY GroupType
    <3>2. CASE groups[x].name = p
      <4>1. joined[x] = [groups[x] EXCEPT !.of = Append(groups[x].of, k)]
        BY <1>1, <3>2
      <4>2. joined[x] = [name |-> groups[x].name, of |-> Append(groups[x].of, k)]
        <5> HIDE DEF joined, p
        <5>1. groups[x] = [name |-> groups[x].name, of |-> groups[x].of]
          BY <3>1
        <5> QED
          BY <4>1, <5>1, Extended
      <4> HIDE DEF joined, p
      <4> QED
        BY <3>1, <3>2, <4>2
    <3>3. CASE groups[x].name # p
      <4>1. joined[x] = groups[x]
        BY <1>1, <3>3
      <4> HIDE DEF joined, p
      <4> QED
        BY <3>1, <3>3, <4>1
    <3> QED
      BY <3>2, <3>3
  <2> HIDE DEF joined
  <2>4. \A x, y \in 1..Len(joined) : joined[x].name = joined[y].name => x = y
    BY <2>2, <2>3 DEF Grouped
  <2>5. ASSUME NEW x \in 1..Len(joined)
        PROVE  Lists(joined[x].of, Relevant(cs, k, joined[x].name))
    <3>0. x \in 1..Len(groups)
      BY <2>2
    <3>1. Lists(groups[x].of, Relevant(cs, k - 1, groups[x].name))
      BY <3>0 DEF Grouped
    <3>2. CASE groups[x].name = p
      <4>1. Lists(Append(groups[x].of, k), Relevant(cs, k - 1, p) \cup {k})
        BY <1>2, <1>3, <2>3, <3>0, <3>1, <3>2, ListsOneMore
      <4>2. Relevant(cs, k, p) = Relevant(cs, k - 1, p) \cup {k}
        BY <1>5, Relevants
      <4> QED
        BY <2>3, <3>0, <3>2, <4>1, <4>2
    <3>3. CASE groups[x].name # p
      <4>1. Relevant(cs, k, groups[x].name) = Relevant(cs, k - 1, groups[x].name)
        BY <3>3, Relevants
      <4> QED
        BY <2>3, <3>0, <3>1, <3>3, <4>1
    <3> QED
      BY <3>2, <3>3
  <2>6. ASSUME NEW i \in 1..k, IsResult(cs, i)
        PROVE  \E x \in 1..Len(joined) : joined[x].name = PipelineOf(cs[i])
    <3>1. \E x \in 1..Len(groups) : groups[x].name = PipelineOf(cs[i])
      BY <1>1, <1>2, <1>5, <2>6 DEF Grouped
    <3> QED
      BY <2>2, <2>3, <3>1
  <2> QED
    BY <2>1, <2>4, <2>5, <2>6 DEF Grouped
<1>6. CASE IsResult(cs, k) /\ ~ \E x \in DOMAIN groups : groups[x].name = p
  <2>1. WithResult(groups, cs, k) = new
    BY <1>6, Zenon DEF WithResult
  <2>2. /\ Len(new) = Len(groups) + 1
        /\ \A x \in 1..Len(groups) : new[x] = groups[x] /\ groups[x].name # p
        /\ new[Len(groups) + 1].name = p /\ new[Len(groups) + 1].of = <<k>>
    BY <1>1, <1>6
  <2>3. \A x : x \in 1..Len(new) <=> x \in 1..Len(groups) \/ x = Len(groups) + 1
    BY <1>1, <2>2
  <2> HIDE DEF new
  <2>4. \A x, y \in 1..Len(new) : new[x].name = new[y].name => x = y
    BY <2>2, <2>3 DEF Grouped
  <2>5. Relevant(cs, k, p) = {k}
    <3>1. Relevant(cs, k - 1, p) = {}
      <4>1. \A i \in 1..(k - 1) : IsResult(cs, i) => PipelineOf(cs[i]) # p
        BY <1>1, <1>6, Zenon DEF Grouped
      <4> QED
        BY <4>1 DEF Relevant
    <3>2. Relevant(cs, k, p) = Relevant(cs, k - 1, p) \cup {k}
      BY <1>6, Relevants
    <3> QED
      BY <3>1, <3>2
  <2>6. ASSUME NEW x \in 1..Len(new)
        PROVE  Lists(new[x].of, Relevant(cs, k, new[x].name))
    <3>1. CASE x \in 1..Len(groups)
      <4>1. Lists(groups[x].of, Relevant(cs, k - 1, groups[x].name))
        BY <3>1 DEF Grouped
      <4>2. Relevant(cs, k, groups[x].name) = Relevant(cs, k - 1, groups[x].name)
        BY <2>2, <3>1, Relevants
      <4> QED
        BY <2>2, <3>1, <4>1, <4>2
    <3>2. CASE x = Len(groups) + 1
      <4>1. Lists(<<k>>, {k})
        <5>1. IsFiniteSet({k}) /\ Cardinality({k}) = 1
          BY FS_Singleton
        <5>2. Len(<<k>>) = 1 /\ <<k>>[1] = k
          OBVIOUS
        <5> QED
          BY <1>2, <5>1, <5>2 DEF Lists
      <4> QED
        BY <2>2, <2>5, <3>2, <4>1
    <3> QED
      BY <2>3, <3>1, <3>2
  <2>7. ASSUME NEW i \in 1..k, IsResult(cs, i)
        PROVE  \E x \in 1..Len(new) : new[x].name = PipelineOf(cs[i])
    <3>1. CASE i = k
      BY <2>2, <2>3, <3>1
    <3>2. CASE i \in 1..(k - 1)
      BY <2>2, <2>3, <2>7, <3>2 DEF Grouped
    <3> QED
      BY <1>2, <3>1, <3>2
  <2> QED
    BY <2>1, <2>4, <2>6, <2>7 DEF Grouped
<1> QED
  BY <1>4, <1>5, <1>6

LEMMA GroupRounds ==
    ASSUME NEW cs, NEW n \in Nat, DOMAIN cs = 1..n
    PROVE  \E g : /\ g[0] = <<>> /\ Group(cs) = g[n]
                  /\ \A k \in 1..n : g[k] = WithResult(g[k - 1], cs, k)
<1> DEFINE B == GroupsIn(cs, n)
           step == [p \in (1..n) \X B |-> WithResult(p[2], cs, p[1])]
           ids == [i \in DOMAIN cs |-> i]
           E(h) == h = [s \in SUBSET (DOMAIN ids) |->
                          IF s = {} THEN <<>> ELSE WithResult(h[s \ {Max(s)}], cs, ids[Max(s)])]
           iter == CHOOSE h : E(h)
<1>0. DOMAIN ids = 1..n /\ \A i \in 1..n : ids[i] = i
  OBVIOUS
<1>1. PICK h \in [SUBSET (1..n) -> B] : IsLoop(h, n, <<>>, step)
  <2>1. step \in [(1..n) \X B -> B]
    <3>1. ASSUME NEW p \in (1..n) \X B PROVE WithResult(p[2], cs, p[1]) \in B
      <4>1. p[1] \in 1..n /\ p[2] \in GroupsIn(cs, n)
        OBVIOUS
      <4> QED
        BY <4>1, WithResultType
    <3> HIDE DEF B
    <3> QED
      BY <3>1
  <2>2. <<>> \in B
    BY DEF GroupsIn
  <2> HIDE DEF step, B
  <2> QED
    BY <2>1, <2>2, LoopExists
<1>2. E(h)
  <2> HIDE DEF B
  <2>1. ASSUME NEW s \in SUBSET (1..n), s # {}
        PROVE  /\ <<Max(s), h[s \ {Max(s)}]>> \in (1..n) \X B
               /\ Max(s) \in 1..n
    BY <2>1, MaxIn
  <2>2. ASSUME NEW s \in SUBSET (1..n), s # {}
        PROVE  h[s] = WithResult(h[s \ {Max(s)}], cs, ids[Max(s)])
    <3>1. h[s] = step[<<Max(s), h[s \ {Max(s)}]>>]
      BY <1>1, <2>2 DEF IsLoop
    <3>2. ids[Max(s)] = Max(s)
      BY <1>0, <2>1, <2>2
    <3> QED
      BY <2>1, <2>2, <3>1, <3>2
  <2> HIDE DEF ids, step
  <2> QED
    BY <1>0, <1>1, <2>2 DEF IsLoop
<1>3. E(iter)
  <2> HIDE DEF E
  <2> QED
    BY <1>2
<1>4. Group(cs) = iter[1..n]
  <2>1. Group(cs) = iter[DOMAIN ids]
    BY Zenon DEF Group, FoldLeftDomain, FoldLeft, MapThenFoldSet
  <2> HIDE DEF iter, ids
  <2> QED
    BY <1>0, <2>1
<1> HIDE DEF iter
<1> DEFINE g == [k \in 0..n |-> iter[1..k]]
<1>5. g[0] = <<>> /\ g[n] = iter[1..n]
  <2>1. 1..0 = {} /\ 0 \in 0..n /\ n \in 0..n /\ 1..0 \in SUBSET (1..n)
    OBVIOUS
  <2> QED
    BY <1>0, <1>3, <2>1, Zenon
<1>6. ASSUME NEW k \in 1..n PROVE g[k] = WithResult(g[k - 1], cs, k)
  <2> HIDE DEF g
  <2>1. /\ 1..k \in SUBSET (1..n) /\ 1..k # {}
        /\ Max(1..k) = k /\ (1..k) \ {k} = 1..(k - 1)
    BY Prefix, Zenon
  <2>2. g[k] = iter[1..k] /\ g[k - 1] = iter[1..(k - 1)]
    BY Prefix, Zenon DEF g
  <2>3. iter[1..k] = WithResult(iter[1..(k - 1)], cs, k)
    <3> HIDE DEF ids
    <3>1. iter[1..k] = WithResult(iter[(1..k) \ {Max(1..k)}], cs, ids[Max(1..k)])
      BY <1>0, <1>3, <2>1
    <3> QED
      BY <1>0, <2>1, <3>1
  <2> QED
    BY <2>2, <2>3, Zenon
<1> QED
  BY <1>4, <1>5, <1>6, Zenon

\* The groups hold every result in the latest patch set, each pipeline once.
LEMMA GroupIsGrouped ==
    ASSUME NEW cs, NEW n \in Nat, DOMAIN cs = 1..n
    PROVE  Group(cs) \in GroupsIn(cs, n) /\ Grouped(Group(cs), cs, n)
<1>1. PICK g : /\ g[0] = <<>> /\ Group(cs) = g[n]
               /\ \A k \in 1..n : g[k] = WithResult(g[k - 1], cs, k)
  BY GroupRounds
<1> DEFINE P == {k \in 0..n : g[k] \in GroupsIn(cs, n) /\ Grouped(g[k], cs, k)}
<1>2. 0 \in P
  <2>1. 0 \in 0..n /\ <<>> \in GroupsIn(cs, n)
    BY DEF GroupsIn
  <2>2. Grouped(<<>>, cs, 0)
    <3>1. 1..0 = {} /\ Len(<<>>) = 0
      OBVIOUS
    <3> QED
      BY <3>1, Zenon DEF Grouped
  <2> QED
    BY <1>1, <2>1, <2>2
<1>3. ASSUME NEW k \in 1..n, k - 1 \in P PROVE k \in P
  <2>1. g[k - 1] \in GroupsIn(cs, n) /\ Grouped(g[k - 1], cs, k - 1)
    BY <1>3
  <2>2. WithResult(g[k - 1], cs, k) \in GroupsIn(cs, n)
    BY <2>1, WithResultType
  <2>3. Grouped(WithResult(g[k - 1], cs, k), cs, k)
    BY <2>1, WithResultGroups
  <2> QED
    BY <1>1, <2>2, <2>3
<1>4. n \in P
  <2> HIDE DEF P
  <2>1. \A k \in 0..n : k \in P
    BY <1>2, <1>3, UpTo
  <2> QED
    BY <2>1
<1> QED
  BY <1>1, <1>4

-----------------------------------------------------------------------------
(* The order of the groups.                                                 *)

OnceEach(f, S) ==
    /\ f \in Seq(S)
    /\ \A x \in S : \E y \in 1..Len(f) : f[y] = x
    /\ \A y, z \in 1..Len(f) : f[y] = f[z] => y = z

LEMMA OnceEachMore ==
    ASSUME NEW S, NEW f, OnceEach(f, S), NEW x, x \notin S
    PROVE  OnceEach(Append(f, x), S \cup {x})
<1>1. f \in Seq(S) /\ f \in Seq(S \cup {x}) /\ x \in S \cup {x}
  BY DEF OnceEach
<1>2. /\ Append(f, x) \in Seq(S \cup {x}) /\ Len(Append(f, x)) = Len(f) + 1
      /\ Append(f, x)[Len(f) + 1] = x /\ Len(f) \in Nat
      /\ \A y \in 1..Len(f) : Append(f, x)[y] = f[y] /\ f[y] \in S
  BY <1>1
<1> DEFINE h == Append(f, x)
<1> HIDE DEF h
<1>3. \A y : y \in 1..Len(h) <=> y \in 1..Len(f) \/ y = Len(f) + 1
  BY <1>2 DEF h
<1>4. \A z \in S \cup {x} : \E y \in 1..Len(h) : h[y] = z
  BY <1>2, <1>3 DEF h, OnceEach
<1>5. \A y, z \in 1..Len(h) : h[y] = h[z] => y = z
  <2>1. /\ \A y, z \in 1..Len(f) : f[y] = f[z] => y = z
        /\ \A y \in 1..Len(f) : h[y] = f[y] /\ f[y] # x
        /\ h[Len(f) + 1] = x
    BY <1>2 DEF h, OnceEach
  <2> QED
    BY <1>3, <2>1
<1> QED
  BY <1>2, <1>4, <1>5 DEF h, OnceEach

LEMMA OnceEachJoined ==
    ASSUME NEW S, NEW T, S \cap T = {}, NEW f, OnceEach(f, S), NEW g, OnceEach(g, T)
    PROVE  /\ OnceEach(f \o g, S \cup T)
           /\ Len(f) \in Nat /\ Len(g) \in Nat /\ Len(f \o g) = Len(f) + Len(g)
           /\ \A y \in 1..Len(f) : (f \o g)[y] = f[y] /\ f[y] \in S
           /\ \A y \in 1..Len(g) : (f \o g)[Len(f) + y] = g[y] /\ g[y] \in T
<1>1. f \in Seq(S) /\ g \in Seq(T) /\ f \in Seq(S \cup T) /\ g \in Seq(S \cup T)
  BY DEF OnceEach
<1>2. /\ f \o g \in Seq(S \cup T) /\ Len(f \o g) = Len(f) + Len(g)
      /\ Len(f) \in Nat /\ Len(g) \in Nat
      /\ \A y \in 1..Len(f) : (f \o g)[y] = f[y] /\ f[y] \in S
      /\ \A y \in 1..Len(g) : (f \o g)[Len(f) + y] = g[y] /\ g[y] \in T
  BY <1>1
<1> DEFINE h == f \o g
<1> HIDE DEF h
<1>3. ASSUME NEW y \in 1..Len(h)
      PROVE  \/ y \in 1..Len(f) /\ h[y] = f[y] /\ h[y] \in S
             \/ \E z \in 1..Len(g) : y = Len(f) + z /\ h[y] = g[z] /\ h[y] \in T
  <2>1. CASE y <= Len(f)
    BY <1>2, <2>1 DEF h
  <2>2. CASE ~ (y <= Len(f))
    <3>1. y - Len(f) \in 1..Len(g) /\ y = Len(f) + (y - Len(f))
      BY <1>2, <2>2 DEF h
    <3> QED
      BY <1>2, <3>1 DEF h
  <2> QED
    BY <2>1, <2>2
<1>4. ASSUME NEW x \in S \cup T PROVE \E y \in 1..Len(h) : h[y] = x
  <2>1. CASE x \in S
    <3>1. PICK y \in 1..Len(f) : f[y] = x
      BY <2>1 DEF OnceEach
    <3> QED
      BY <1>2, <3>1 DEF h
  <2>2. CASE x \in T
    <3>1. PICK y \in 1..Len(g) : g[y] = x
      BY <2>2 DEF OnceEach
    <3>2. Len(f) + y \in 1..Len(h)
      BY <1>2, <3>1 DEF h
    <3> QED
      BY <1>2, <3>1, <3>2 DEF h
  <2> QED
    BY <2>1, <2>2
<1>5. ASSUME NEW y \in 1..Len(h), NEW z \in 1..Len(h), h[y] = h[z] PROVE y = z
  <2>1. /\ \A a, b \in 1..Len(f) : f[a] = f[b] => a = b
        /\ \A a, b \in 1..Len(g) : g[a] = g[b] => a = b
    BY DEF OnceEach
  <2>2. CASE h[y] \in S
    <3>1. y \in 1..Len(f) /\ h[y] = f[y] /\ z \in 1..Len(f) /\ h[z] = f[z]
      BY <1>3, <1>5, <2>2
    <3> QED
      BY <1>5, <2>1, <3>1
  <2>3. CASE h[y] \in T
    <3>1. PICK a \in 1..Len(g) : y = Len(f) + a /\ h[y] = g[a]
      BY <1>3, <2>3
    <3>2. PICK b \in 1..Len(g) : z = Len(f) + b /\ h[z] = g[b]
      BY <1>3, <1>5, <2>3
    <3> QED
      BY <1>5, <2>1, <3>1, <3>2
  <2> QED
    BY <1>3, <2>2, <2>3
<1>6. OnceEach(h, S \cup T)
  BY <1>2, <1>4, <1>5 DEF h, OnceEach
<1> QED
  BY <1>2, <1>6 DEF h

LEMMA FirstPartyRounds ==
    ASSUME NEW groups, NEW n \in Nat, DOMAIN groups = 1..n
    PROVE  \E g : /\ g[0] = <<>> /\ FirstPartyResults(groups) = g[n]
                  /\ \A k \in 1..n : g[k] = IF IsFirstParty(groups[k])
                                              THEN Append(g[k - 1], groups[k]) ELSE g[k - 1]
<1> DEFINE B == Seq({groups[x] : x \in 1..n})
           step == [p \in (1..n) \X B |->
                      IF IsFirstParty(groups[p[1]]) THEN Append(p[2], groups[p[1]]) ELSE p[2]]
           E(h) == h = [s \in SUBSET (1..n) |->
                          IF s = {} THEN <<>>
                          ELSE IF IsFirstParty(groups[Max(s)])
                                 THEN Append(h[s \ {Max(s)}], groups[Max(s)])
                                 ELSE h[s \ {Max(s)}]]
           iter == CHOOSE h : E(h)
<1>1. PICK h \in [SUBSET (1..n) -> B] : IsLoop(h, n, <<>>, step)
  <2>1. step \in [(1..n) \X B -> B]
    <3>1. ASSUME NEW p \in (1..n) \X B
          PROVE  /\ p[2] \in B /\ Append(p[2], groups[p[1]]) \in B
      <4> DEFINE S == {groups[x] : x \in 1..n}
      <4>1. p[2] \in Seq(S) /\ groups[p[1]] \in S
        OBVIOUS
      <4> HIDE DEF S
      <4>2. Append(p[2], groups[p[1]]) \in Seq(S)
        BY <4>1
      <4> QED
        BY <4>1, <4>2 DEF S
    <3> HIDE DEF B
    <3> QED
      BY <3>1
  <2>2. <<>> \in B
    OBVIOUS
  <2> HIDE DEF step, B
  <2> QED
    BY <2>1, <2>2, LoopExists
<1>2. E(h)
  <2>1. ASSUME NEW s \in SUBSET (1..n), s # {}
        PROVE  /\ <<Max(s), h[s \ {Max(s)}]>> \in (1..n) \X B
    <3> HIDE DEF B
    <3> QED
      BY <2>1, MaxIn
  <2> HIDE DEF B
  <2> QED
    BY <1>1, <2>1 DEF IsLoop
<1>3. E(iter)
  <2> HIDE DEF E
  <2> QED
    BY <1>2
<1>4. FirstPartyResults(groups) = iter[1..n]
  BY Zenon DEF FirstPartyResults, FoldLeft, MapThenFoldSet
<1> HIDE DEF iter
<1> DEFINE g == [k \in 0..n |-> iter[1..k]]
<1>5. g[0] = <<>> /\ g[n] = iter[1..n]
  <2>1. 1..0 = {} /\ 0 \in 0..n /\ n \in 0..n /\ 1..0 \in SUBSET (1..n)
    OBVIOUS
  <2> QED
    BY <1>3, <2>1, Zenon
<1>6. ASSUME NEW k \in 1..n
      PROVE  g[k] = IF IsFirstParty(groups[k]) THEN Append(g[k - 1], groups[k]) ELSE g[k - 1]
  <2> HIDE DEF g
  <2>1. /\ 1..k \in SUBSET (1..n) /\ 1..k # {}
        /\ Max(1..k) = k /\ (1..k) \ {k} = 1..(k - 1)
    BY Prefix, Zenon
  <2>2. g[k] = iter[1..k] /\ g[k - 1] = iter[1..(k - 1)]
    BY Prefix, Zenon DEF g
  <2>3. iter[1..k] = IF IsFirstParty(groups[Max(1..k)])
                       THEN Append(iter[(1..k) \ {Max(1..k)}], groups[Max(1..k)])
                       ELSE iter[(1..k) \ {Max(1..k)}]
    BY <1>3, <2>1
  <2>4. iter[1..k] = IF IsFirstParty(groups[k]) THEN Append(iter[1..(k - 1)], groups[k])
                     ELSE iter[1..(k - 1)]
    BY <2>1, <2>3, Zenon
  <2> QED
    BY <2>2, <2>4, Zenon
<1> QED
  BY <1>4, <1>5, <1>6, Zenon

LEMMA FirstPartyOnce ==
    ASSUME NEW groups, NEW n \in Nat, DOMAIN groups = 1..n,
           \A x, y \in 1..n : groups[x] = groups[y] => x = y
    PROVE  OnceEach(FirstPartyResults(groups), {g \in Range(groups) : IsFirstParty(g)})
<1>1. PICK g : /\ g[0] = <<>> /\ FirstPartyResults(groups) = g[n]
               /\ \A k \in 1..n : g[k] = IF IsFirstParty(groups[k])
                                           THEN Append(g[k - 1], groups[k]) ELSE g[k - 1]
  BY FirstPartyRounds
<1> DEFINE S(k) == {r \in {groups[x] : x \in 1..k} : IsFirstParty(r)}
           P == {k \in 0..n : OnceEach(g[k], S(k))}
<1>2. 0 \in P
  <2>1. 0 \in 0..n /\ S(0) = {} /\ Len(<<>>) = 0 /\ <<>> \in Seq({}) /\ 1..0 = {}
    OBVIOUS
  <2>2. OnceEach(<<>>, {})
    BY <2>1, Zenon DEF OnceEach
  <2> QED
    BY <1>1, <2>1, <2>2
<1>3. ASSUME NEW k \in 1..n, k - 1 \in P PROVE k \in P
  <2>1. /\ k \in 0..n /\ k \in 1..n /\ \A x \in 1..(k - 1) : x \in 1..n /\ x # k
        /\ \A x : x \in 1..k <=> x \in 1..(k - 1) \/ x = k
    OBVIOUS
  <2>2. OnceEach(g[k - 1], S(k - 1))
    BY <1>3
  <2>3. CASE IsFirstParty(groups[k])
    <3>1. S(k) = S(k - 1) \cup {groups[k]}
      BY <2>1, <2>3
    <3>2. groups[k] \notin S(k - 1)
      BY <2>1
    <3>3. g[k] = Append(g[k - 1], groups[k])
      BY <1>1, <2>3
    <3> HIDE DEF S
    <3>4. OnceEach(Append(g[k - 1], groups[k]), S(k - 1) \cup {groups[k]})
      BY <2>2, <3>2, OnceEachMore
    <3> QED
      BY <2>1, <3>1, <3>3, <3>4
  <2>4. CASE ~ IsFirstParty(groups[k])
    <3>1. S(k) = S(k - 1)
      BY <2>1, <2>4
    <3>2. g[k] = g[k - 1]
      BY <1>1, <2>4
    <3> HIDE DEF S
    <3> QED
      BY <2>1, <2>2, <3>1, <3>2
  <2> QED
    BY <2>3, <2>4
<1>4. n \in P
  <2> HIDE DEF P
  <2>1. \A k \in 0..n : k \in P
    BY <1>2, <1>3, UpTo
  <2> QED
    BY <2>1
<1>5. S(n) = {r \in Range(groups) : IsFirstParty(r)}
  BY DEF Range
<1> QED
  BY <1>1, <1>4, <1>5

LEMMA ByNameOnce ==
    ASSUME NEW S, IsFiniteSet(S),
           \A g \in S : \E i \in DOMAIN Names : Names[i] = g.name,
           \A g, h \in S : g.name = h.name => g = h
    PROVE  /\ OnceEach(ByName(S), S)
           /\ \A k, l \in 1..Len(ByName(S)) :
                 k < l => Position(ByName(S)[k].name) < Position(ByName(S)[l].name)
<1> DEFINE n == Cardinality(S)
           at(g) == Position(g.name)
           Before(g) == {h \in S : at(h) < at(g)}
           rank(g) == Cardinality(Before(g))
           q == [k \in 1..n |-> CHOOSE g \in S : rank(g) = k - 1]
<1>1. n \in Nat
  BY FS_CardinalityType
<1>2. \A g \in S : at(g) \in Nat /\ Names[at(g)] = g.name
  <2>1. \A g \in S : Position(g.name) \in DOMAIN Names /\ Names[Position(g.name)] = g.name
    BY Zenon DEF Position
  <2>2. DOMAIN Names = 1..Len(Names) /\ Len(Names) \in Nat
    BY HideCIAssumption
  <2> QED
    BY <2>1, <2>2
<1>3. \A g, h \in S : at(g) = at(h) => g = h
  BY <1>2
<1> HIDE DEF at
<1>4. \A g \in S : Before(g) \in SUBSET S /\ g \notin Before(g)
  BY <1>2
<1>5. \A g \in S : IsFiniteSet(Before(g)) /\ rank(g) \in Nat
  <2>1. \A g \in S : IsFiniteSet(Before(g))
    <3> HIDE DEF Before
    <3> QED
      BY <1>4, FS_Subset
  <2> HIDE DEF Before
  <2> QED
    BY <2>1, FS_CardinalityType
<1>6. ASSUME NEW g \in S PROVE rank(g) \in 0..(n - 1)
  <2> HIDE DEF Before
  <2>1. IsFiniteSet(Before(g) \cup {g}) /\ Cardinality(Before(g) \cup {g}) = rank(g) + 1
    BY <1>4, <1>5, FS_AddElement
  <2>2. Before(g) \cup {g} \in SUBSET S
    BY <1>4
  <2>3. Cardinality(Before(g) \cup {g}) <= n
    BY <2>2, FS_Subset
  <2> HIDE DEF n
  <2> QED
    BY <1>1, <1>5, <2>1, <2>3
<1>7. ASSUME NEW g \in S, NEW h \in S, at(g) < at(h) PROVE rank(g) < rank(h)
  <2>1. Before(g) \cup {g} \in SUBSET Before(h)
    BY <1>2, <1>7
  <2> HIDE DEF Before
  <2>2. Cardinality(Before(g) \cup {g}) = rank(g) + 1
    BY <1>4, <1>5, FS_AddElement
  <2>3. Cardinality(Before(g) \cup {g}) <= rank(h)
    BY <1>5, <2>1, FS_Subset
  <2> QED
    BY <1>5, <2>2, <2>3
<1> HIDE DEF n, rank
<1>8. \A g, h \in S : rank(g) = rank(h) => g = h
  <2> SUFFICES ASSUME NEW g \in S, NEW h \in S, rank(g) = rank(h) PROVE at(g) = at(h)
    BY <1>3
  <2>1. rank(g) \in Nat /\ rank(h) \in Nat /\ at(g) \in Nat /\ at(h) \in Nat
    BY <1>2, <1>5 DEF rank
  <2> QED
    BY <1>7, <2>1
<1>9. \A k \in 1..n : \E g \in S : rank(g) = k - 1
  <2> DEFINE f == [g \in S |-> rank(g)]
             T == 0..(n - 1)
  <2>1. f \in Injection(S, T)
    <3>1. f \in [S -> T]
      BY <1>6
    <3>2. \A g, h \in S : f[g] = f[h] => g = h
      BY <1>8
    <3> HIDE DEF f, T
    <3> QED
      BY <3>1, <3>2, Zenon DEF Injection, IsInjective
  <2>2. IsFiniteSet(T) /\ Cardinality(T) = n
    BY <1>1, FS_Interval
  <2>3. f \in Surjection(S, T)
    <3> HIDE DEF f, T
    <3> QED
      BY <2>1, <2>2, FS_Injection DEF n
  <2>4. \A t \in T : \E g \in S : f[g] = t
    <3> HIDE DEF f, T
    <3> QED
      BY <2>3, Zenon DEF Surjection
  <2>5. \A k \in 1..n : k - 1 \in T
    BY <1>1
  <2> HIDE DEF T
  <2> QED
    BY <2>4, <2>5
<1>10. \A k \in 1..n : q[k] \in S /\ rank(q[k]) = k - 1
  BY <1>9
<1>11. ByName(S) = q
  BY Zenon DEF ByName, n, rank, at
<1>12. q \in Seq(S) /\ Len(q) = n
  <2>1. q \in [1..n -> S]
    BY <1>9
  <2> HIDE DEF q
  <2> QED
    BY <1>1, <2>1
<1> HIDE DEF q
<1>13. \A y, z \in 1..n : q[y] = q[z] => y = z
  BY <1>1, <1>10
<1>14. \A g \in S : \E y \in 1..n : q[y] = g
  <2> SUFFICES ASSUME NEW g \in S PROVE \E y \in 1..n : q[y] = g
    OBVIOUS
  <2>1. rank(g) + 1 \in 1..n /\ (rank(g) + 1) - 1 = rank(g)
    BY <1>1, <1>6
  <2>2. q[rank(g) + 1] \in S /\ rank(q[rank(g) + 1]) = rank(g)
    BY <1>10, <2>1
  <2> QED
    BY <1>8, <2>1, <2>2
<1>15. ASSUME NEW k \in 1..n, NEW l \in 1..n, k < l PROVE at(q[k]) < at(q[l])
  <2>1. /\ q[k] \in S /\ q[l] \in S /\ rank(q[k]) < rank(q[l])
        /\ rank(q[k]) \in Nat /\ rank(q[l]) \in Nat
    BY <1>1, <1>10, <1>15
  <2>2. at(q[k]) # at(q[l])
    BY <1>3, <2>1
  <2>3. ~ (at(q[l]) < at(q[k]))
    BY <1>7, <2>1
  <2> QED
    BY <1>2, <2>1, <2>2, <2>3
<1>16. OnceEach(q, S)
  BY <1>12, <1>13, <1>14 DEF OnceEach
<1> QED
  BY <1>11, <1>12, <1>15, <1>16 DEF at

\* Every group is in the order once, those of the first party before the others
\* and the others by name.
LEMMA SortedOnce ==
    ASSUME NEW groups, NEW n \in Nat, DOMAIN groups = 1..n,
           \A x, y \in 1..n : groups[x].name = groups[y].name => x = y,
           \A x \in 1..n : \E i \in DOMAIN Names : Names[i] = groups[x].name
    PROVE  /\ OnceEach(Sorted(groups), Range(groups))
           /\ \A k, l \in 1..Len(Sorted(groups)) : k < l =>
                 \/ IsFirstParty(Sorted(groups)[k])
                 \/ /\ ~ IsFirstParty(Sorted(groups)[l])
                    /\ Position(Sorted(groups)[k].name) < Position(Sorted(groups)[l].name)
<1> DEFINE S == {g \in Range(groups) : IsFirstParty(g)}
           T == {g \in Range(groups) : ~IsFirstParty(g)}
           first == FirstPartyResults(groups)
           others == ByName(T)
<1>1. OnceEach(first, S)
  <2>1. \A x, y \in 1..n : groups[x] = groups[y] => x = y
    OBVIOUS
  <2> QED
    BY <2>1, FirstPartyOnce
<1>2. /\ OnceEach(others, T)
      /\ \A k, l \in 1..Len(others) : k < l => Position(others[k].name) < Position(others[l].name)
  <2>1. IsFiniteSet(T)
    <3>1. IsFiniteSet(1..n)
      BY FS_Interval
    <3> DEFINE f == [x \in 1..n |-> groups[x]]
    <3>2. f \in Surjection(1..n, Range(groups))
      <4>1. f \in [1..n -> Range(groups)] /\ \A g \in Range(groups) : \E x \in 1..n : f[x] = g
        BY DEF Range
      <4> HIDE DEF f
      <4> QED
        BY <4>1, Zenon DEF Surjection
    <3>3. IsFiniteSet(Range(groups))
      <4> HIDE DEF f
      <4> QED
        BY <3>1, <3>2, FS_Surjection
    <3>4. T \in SUBSET Range(groups)
      OBVIOUS
    <3> HIDE DEF T
    <3> QED
      BY <3>3, <3>4, FS_Subset
  <2>2. \A g \in T : \E x \in 1..n : g = groups[x]
    BY DEF Range
  <2>3. /\ \A g \in T : \E i \in DOMAIN Names : Names[i] = g.name
        /\ \A g, h \in T : g.name = h.name => g = h
    <3> HIDE DEF T
    <3> QED
      BY <2>2
  <2> HIDE DEF T
  <2> QED
    BY <2>1, <2>3, ByNameOnce
<1>3. S \cap T = {} /\ S \cup T = Range(groups)
  OBVIOUS
<1>4. Sorted(groups) = first \o others
  BY Zenon DEF Sorted
<1>5. (\A g \in S : IsFirstParty(g)) /\ (\A g \in T : ~ IsFirstParty(g))
  OBVIOUS
<1> DEFINE q == first \o others
<1> HIDE DEF first, others, S, T
<1>6. /\ OnceEach(q, Range(groups))
      /\ Len(first) \in Nat /\ Len(others) \in Nat /\ Len(q) = Len(first) + Len(others)
      /\ \A y \in 1..Len(first) : q[y] = first[y] /\ first[y] \in S
      /\ \A y \in 1..Len(others) : q[Len(first) + y] = others[y] /\ others[y] \in T
  <2>1. /\ OnceEach(q, S \cup T)
        /\ Len(first) \in Nat /\ Len(others) \in Nat /\ Len(q) = Len(first) + Len(others)
        /\ \A y \in 1..Len(first) : q[y] = first[y] /\ first[y] \in S
        /\ \A y \in 1..Len(others) : q[Len(first) + y] = others[y] /\ others[y] \in T
    BY <1>1, <1>2, <1>3, OnceEachJoined
  <2> HIDE DEF q
  <2> QED
    BY <1>3, <2>1
<1> HIDE DEF q
<1>7. ASSUME NEW k \in 1..Len(q), NEW l \in 1..Len(q), k < l
      PROVE  \/ IsFirstParty(q[k])
             \/ ~ IsFirstParty(q[l]) /\ Position(q[k].name) < Position(q[l].name)
  <2>1. CASE k <= Len(first)
    BY <1>5, <1>6, <2>1
  <2>2. CASE ~ (k <= Len(first))
    <3> DEFINE a == k - Len(first)
               b == l - Len(first)
    <3>1. /\ a \in 1..Len(others) /\ b \in 1..Len(others) /\ a < b
          /\ k = Len(first) + a /\ l = Len(first) + b
      BY <1>6, <1>7, <2>2
    <3> HIDE DEF a, b
    <3>2. q[k] = others[a] /\ q[l] = others[b] /\ q[l] \in T
      BY <1>6, <3>1
    <3>3. Position(others[a].name) < Position(others[b].name)
      BY <1>2, <3>1
    <3> QED
      BY <1>5, <3>2, <3>3
  <2> QED
    BY <2>1, <2>2
<1> QED
  BY <1>4, <1>6, <1>7 DEF q

-----------------------------------------------------------------------------
(* The rows.                                                                *)

RowsOf(cs) == Results(cs).rows

\* What the rows are, of any comments whose CIs have names.
LEMMA RowsAre ==
    ASSUME NEW cs, NEW n \in Nat, DOMAIN cs = 1..n, ~ IsMergeConflict(cs),
           \A i \in 1..n : cs[i].author \in CIs =>
              \E j \in DOMAIN Names : Names[j] = PipelineOf(cs[i])
    PROVE  /\ \E m \in Nat : DOMAIN RowsOf(cs) = 1..m
           /\ \A k \in DOMAIN RowsOf(cs) :
                 LET found == Relevant(cs, n, RowsOf(cs)[k].name)
                 IN /\ RowsOf(cs)[k].shows \in found
                    /\ \A i \in found : i <= RowsOf(cs)[k].shows
                    /\ RowsOf(cs)[k].rechecks = Cardinality(found) - 1
           /\ \A k, l \in DOMAIN RowsOf(cs) : RowsOf(cs)[k].name = RowsOf(cs)[l].name => k = l
           /\ \A i \in 1..n : IsResult(cs, i) =>
                 \E k \in DOMAIN RowsOf(cs) : RowsOf(cs)[k].name = PipelineOf(cs[i])
           /\ \A k, l \in DOMAIN RowsOf(cs) : k < l =>
                 LET p == RowsOf(cs)[k].name  q == RowsOf(cs)[l].name
                 IN \/ p[1] \in FirstParty
                    \/ q[1] \notin FirstParty /\ Position(p) < Position(q)
<1> DEFINE G == Group(cs)
           m == Len(G)
           q == Sorted(G)
           rows == RowsOf(cs)
<1>1. G \in GroupsIn(cs, n) /\ Grouped(G, cs, n)
  BY GroupIsGrouped
<1> HIDE DEF G
<1>2. m \in Nat /\ DOMAIN G = 1..m
  BY <1>1 DEF GroupsIn
<1>3. \A x, y \in 1..m : G[x].name = G[y].name => x = y
  BY <1>1, Zenon DEF Grouped
<1>4. ASSUME NEW x \in 1..m PROVE Lists(G[x].of, Relevant(cs, n, G[x].name))
  BY <1>1, Zenon DEF Grouped
<1>5. ASSUME NEW x \in 1..m PROVE \E j \in DOMAIN Names : Names[j] = G[x].name
  <2>1. PICK i \in Relevant(cs, n, G[x].name) : TRUE
    BY <1>4 DEF Lists
  <2>2. i \in 1..n /\ cs[i].author \in CIs /\ PipelineOf(cs[i]) = G[x].name
    BY <2>1 DEF Relevant, IsResult
  <2> QED
    BY <2>2
<1>6. /\ OnceEach(q, Range(G))
      /\ \A k, l \in 1..Len(q) : k < l =>
            \/ IsFirstParty(q[k])
            \/ ~ IsFirstParty(q[l]) /\ Position(q[k].name) < Position(q[l].name)
  BY <1>2, <1>3, <1>5, SortedOnce
<1> HIDE DEF q
<1>7. DOMAIN q = 1..Len(q) /\ Len(q) \in Nat
  BY <1>6 DEF OnceEach
<1>8. rows = [k \in DOMAIN q |-> [name |-> q[k].name, shows |-> Last(q[k].of),
                                  rechecks |-> Len(q[k].of) - 1]]
  <2>1. Results(cs) = [kind |-> "results",
                       rows |-> [k \in DOMAIN q |-> [name |-> q[k].name, shows |-> Last(q[k].of),
                                                     rechecks |-> Len(q[k].of) - 1]]]
    BY Zenon DEF Results, q, G
  <2> QED
    BY <2>1 DEF RowsOf
<1> HIDE DEF rows
<1>9. DOMAIN rows = 1..Len(q)
  BY <1>7, <1>8
<1>10. ASSUME NEW k \in 1..Len(q)
       PROVE  /\ rows[k].name = q[k].name
              /\ rows[k].shows = q[k].of[Len(q[k].of)]
              /\ rows[k].rechecks = Len(q[k].of) - 1
  BY <1>7, <1>8 DEF Last
<1>11. ASSUME NEW k \in 1..Len(q) PROVE \E x \in 1..m : q[k] = G[x]
  <2>1. q \in Seq(Range(G))
    BY <1>6 DEF OnceEach
  <2>2. q[k] \in Range(G)
    BY <2>1
  <2> QED
    BY <1>2, <2>2 DEF Range
<1>12. ASSUME NEW k \in 1..Len(q)
       PROVE  LET found == Relevant(cs, n, rows[k].name)
              IN /\ rows[k].shows \in found
                 /\ \A i \in found : i <= rows[k].shows
                 /\ rows[k].rechecks = Cardinality(found) - 1
  <2>1. PICK x \in 1..m : q[k] = G[x]
    BY <1>11
  <2>2. Lists(q[k].of, Relevant(cs, n, rows[k].name))
    BY <1>4, <1>10, <2>1
  <2> QED
    BY <1>10, <2>2 DEF Lists
<1>13. ASSUME NEW k \in 1..Len(q), NEW l \in 1..Len(q), rows[k].name = rows[l].name PROVE k = l
  <2>1. PICK x \in 1..m : q[k] = G[x]
    BY <1>11
  <2>2. PICK y \in 1..m : q[l] = G[y]
    BY <1>11
  <2>3. q[k] = q[l]
    BY <1>3, <1>10, <1>13, <2>1, <2>2
  <2> QED
    BY <1>6, <2>3 DEF OnceEach
<1>14. ASSUME NEW i \in 1..n, IsResult(cs, i)
       PROVE  \E k \in 1..Len(q) : rows[k].name = PipelineOf(cs[i])
  <2>1. PICK x \in 1..m : G[x].name = PipelineOf(cs[i])
    BY <1>1, <1>14 DEF Grouped
  <2>2. G[x] \in Range(G)
    BY <1>2 DEF Range
  <2>3. PICK k \in 1..Len(q) : q[k] = G[x]
    BY <1>6, <2>2 DEF OnceEach
  <2> QED
    BY <1>10, <2>1, <2>3
<1>15. ASSUME NEW k \in 1..Len(q), NEW l \in 1..Len(q), k < l
       PROVE  \/ rows[k].name[1] \in FirstParty
              \/ rows[l].name[1] \notin FirstParty /\ Position(rows[k].name) < Position(rows[l].name)
  BY <1>6, <1>10, <1>15 DEF IsFirstParty
<1> QED
  BY <1>7, <1>9, <1>12, <1>13, <1>14, <1>15, Zenon DEF rows

-----------------------------------------------------------------------------
(* What the windows show.                                                   *)

Said == {Upload(ps) : ps \in 1..MaxPatchset} \cup {On(r, ps) : r \in Remarks, ps \in 1..MaxPatchset}

\* A table is of the comments that are rendered, with nothing left of those
\* that were rendered before.
ShownInv ==
    /\ comments \in Seq(Said) /\ Len(comments) > 0
    /\ \A w \in Windows : table[w] \in {NoTable, Results(Parsed(w))}
    /\ \A w \in Windows : hidden[w] \subseteq CIComments(w)

AllInv == CookieInv /\ ShownInv

LEMMA SaidType ==
    ASSUME NEW c \in Said
    PROVE  /\ c.ps \in 1..MaxPatchset /\ c.conflict \in BOOLEAN
           /\ c.author \in CIs => \E j \in DOMAIN Names : Names[j] = PipelineOf(c)
<1>1. CASE \E ps \in 1..MaxPatchset : c = Upload(ps)
  <2>1. PICK ps \in 1..MaxPatchset : c = Upload(ps)
    BY <1>1
  <2>2. c.ps = ps /\ c.conflict = FALSE /\ c.author = Owner
    BY <2>1 DEF Upload
  <2>3. Owner \notin CIs
    BY HideCIAssumption
  <2> QED
    BY <2>2, <2>3
<1>2. ASSUME NEW r \in Remarks, NEW ps \in 1..MaxPatchset, c = On(r, ps)
      PROVE  /\ c.ps \in 1..MaxPatchset /\ c.conflict \in BOOLEAN
             /\ c.author \in CIs => \E j \in DOMAIN Names : Names[j] = PipelineOf(c)
  <2>1. /\ c.ps = ps /\ c.conflict = r.conflict /\ c.author = r.author
        /\ c.pipeline = r.pipeline
    BY <1>2 DEF On
  <2>2. /\ r.conflict \in BOOLEAN
        /\ r.author \in CIs => \E j \in DOMAIN Names : Names[j] = <<r.author, r.pipeline>>
    BY HideCIAssumption
  <2> QED
    BY <2>1, <2>2 DEF PipelineOf
<1> QED
  BY <1>1, <1>2 DEF Said

LEMMA CommentsType ==
    ASSUME ShownInv
    PROVE  /\ Len(comments) \in Nat /\ DOMAIN comments = 1..Len(comments)
           /\ \A i \in 1..Len(comments) :
                 /\ comments[i].ps \in 1..MaxPatchset /\ comments[i].ps \in Nat
                 /\ comments[i].conflict \in BOOLEAN
                 /\ comments[i].author \in CIs =>
                      \E j \in DOMAIN Names : Names[j] = PipelineOf(comments[i])
           /\ LatestPatchset(comments) \in 0..MaxPatchset
<1>1. comments \in Seq(Said) /\ Len(comments) > 0
  BY DEF ShownInv
<1>2. /\ Len(comments) \in Nat /\ DOMAIN comments = 1..Len(comments)
      /\ \A i \in 1..Len(comments) : comments[i] \in Said
  BY <1>1
<1>3. \A i \in 1..Len(comments) :
         /\ comments[i].ps \in 1..MaxPatchset
         /\ comments[i].conflict \in BOOLEAN
         /\ comments[i].author \in CIs =>
              \E j \in DOMAIN Names : Names[j] = PipelineOf(comments[i])
  BY <1>2, SaidType
<1>4. MaxPatchset \in Nat
  BY HideCIAssumption
<1>5. \A i \in 1..Len(comments) : comments[i].ps \in Nat
  BY <1>3, <1>4
<1>6. /\ LatestPatchset(comments) \in Nat
      /\ \E i \in 1..Len(comments) : comments[i].ps = LatestPatchset(comments)
  BY <1>1, <1>2, <1>5, LatestIsLatest
<1>7. LatestPatchset(comments) \in 0..MaxPatchset
  BY <1>3, <1>4, <1>6
<1> QED
  BY <1>2, <1>3, <1>5, <1>7

LEMMA ParsedIs ==
    ASSUME AllInv, NEW w \in Windows
    PROVE  /\ rendered[w] \in Nat /\ rendered[w] <= Len(comments)
           /\ DOMAIN Parsed(w) = 1..rendered[w]
           /\ \A i \in 1..rendered[w] : i \in 1..Len(comments) /\ Parsed(w)[i] = comments[i]
<1>1. rendered[w] \in Nat /\ rendered[w] <= Len(comments) /\ comments \in Seq(Said)
  BY DEF AllInv, CookieInv, PagesInv, ShownInv
<1>2. \A i \in 1..rendered[w] : i \in 1..Len(comments)
  BY <1>1
<1>3. /\ DOMAIN SubSeq(comments, 1, rendered[w]) = 1..rendered[w]
      /\ \A i \in 1..rendered[w] : SubSeq(comments, 1, rendered[w])[i] = comments[i]
  BY <1>1
<1> QED
  BY <1>1, <1>2, <1>3 DEF Parsed

LEMMA StillParsed ==
    ASSUME AllInv, NEW c \in Said, comments' = Append(comments, c),
           UNCHANGED <<rendered, table, hidden, cookie, apart>>
    PROVE  ShownInv'
<1>1. /\ comments' \in Seq(Said) /\ Len(comments') = Len(comments) + 1 /\ Len(comments) > 0
      /\ Len(comments) \in Nat /\ \A i \in 1..Len(comments) : comments'[i] = comments[i]
  BY DEF AllInv, ShownInv
<1>2. ASSUME NEW w \in Windows
      PROVE  Parsed(w)' = Parsed(w) /\ CIComments(w)' = CIComments(w)
  <2>1. /\ rendered[w] \in Nat /\ rendered[w] <= Len(comments)
        /\ comments \in Seq(Said)
    BY DEF AllInv, CookieInv, PagesInv, ShownInv
  <2>2. \A i \in 1..rendered[w] : i \in 1..Len(comments)
    BY <1>1, <2>1
  <2>3. SubSeq(comments', 1, rendered[w]) = SubSeq(comments, 1, rendered[w])
    <3>1. /\ SubSeq(comments, 1, rendered[w]) = [i \in 1..rendered[w] |-> comments[i]]
          /\ SubSeq(comments', 1, rendered[w]) = [i \in 1..rendered[w] |-> comments'[i]]
      BY <1>1, <2>1
    <3> QED
      BY <1>1, <2>2, <3>1
  <2>4. Parsed(w)' = Parsed(w)
    BY <2>3 DEF Parsed
  <2>5. CIComments(w)' = CIComments(w)
    BY <1>1, <2>2 DEF CIComments
  <2> QED
    BY <2>4, <2>5
<1>3. \A w \in Windows : table'[w] \in {NoTable, Results(Parsed(w)')}
  BY <1>2 DEF AllInv, ShownInv
<1>4. \A w \in Windows : hidden'[w] \subseteq CIComments(w)'
  BY <1>2 DEF AllInv, ShownInv
<1> QED
  BY <1>1, <1>3, <1>4 DEF ShownInv

LEMMA InitAllInv == Init => AllInv
<1> SUFFICES ASSUME Init PROVE AllInv
  OBVIOUS
<1>1. CookieInv
  BY InitCookieInv
<1>2. Upload(1) \in Said
  BY HideCIAssumption DEF Said
<1>3. comments \in Seq(Said) /\ Len(comments) > 0
  BY <1>2 DEF Init
<1>4. \A w \in Windows : table[w] = NoTable /\ hidden[w] = {}
  BY Zenon DEF Init
<1> QED
  BY <1>1, <1>3, <1>4 DEF AllInv, ShownInv

LEMMA NextAllInv == AllInv /\ [Next]_vars => AllInv'
<1> SUFFICES ASSUME AllInv, [Next]_vars PROVE AllInv'
  OBVIOUS
<1>1. CookieInv'
  BY NextCookieInv DEF AllInv
<1>2. /\ comments \in Seq(Said) /\ Len(comments) > 0
      /\ \A w \in Windows : table[w] \in {NoTable, Results(Parsed(w))}
      /\ \A w \in Windows : hidden[w] \subseteq CIComments(w)
      /\ DOMAIN table = Windows /\ DOMAIN hidden = Windows
      /\ rendered \in [Windows -> Nat]
  BY DEF AllInv, ShownInv, CookieInv, PagesInv
<1>3. LatestPatchset(comments) \in 0..MaxPatchset /\ MaxPatchset \in Nat
  BY CommentsType, HideCIAssumption DEF AllInv
<1>4. CASE UploadPatchset
  <2>1. LatestPatchset(comments) + 1 \in 1..MaxPatchset
    BY <1>3, <1>4 DEF UploadPatchset
  <2>2. Upload(LatestPatchset(comments) + 1) \in Said
    BY <2>1 DEF Said
  <2>3. ShownInv'
    BY <1>4, <2>2, StillParsed DEF UploadPatchset
  <2> QED
    BY <1>1, <2>3 DEF AllInv
<1>5. ASSUME NEW r \in Remarks, Comment(r) PROVE AllInv'
  <2>1. PICK ps \in 1..LatestPatchset(comments) : comments' = Append(comments, On(r, ps))
    BY <1>5 DEF Comment
  <2>2. ps \in 1..MaxPatchset
    BY <1>3
  <2>3. On(r, ps) \in Said
    BY <2>2 DEF Said
  <2>4. ShownInv'
    BY <1>5, <2>1, <2>3, StillParsed DEF Comment
  <2> QED
    BY <1>1, <2>4 DEF AllInv
<1>6. ASSUME NEW w \in Windows, Render(w) PROVE AllInv'
  <2>1. ASSUME NEW v \in Windows
        PROVE  table'[v] \in {NoTable, Results(Parsed(v)')} /\ hidden'[v] \subseteq CIComments(v)'
    <3>1. CASE v = w
      <4>1. table'[v] = NoTable /\ hidden'[v] = {}
        BY <1>2, <1>6, <3>1 DEF Render
      <4> QED
        BY <4>1
    <3>2. CASE v # w
      <4>1. table'[v] = table[v] /\ hidden'[v] = hidden[v] /\ rendered'[v] = rendered[v]
            /\ comments' = comments
        BY <1>2, <1>6, <3>2 DEF Render
      <4>2. Parsed(v)' = Parsed(v) /\ CIComments(v)' = CIComments(v)
        BY <4>1 DEF Parsed, CIComments
      <4> QED
        BY <1>2, <4>1, <4>2
    <3> QED
      BY <3>1, <3>2
  <2>2. comments' = comments
    BY <1>6 DEF Render
  <2> QED
    BY <1>1, <1>2, <2>1, <2>2 DEF AllInv, ShownInv
<1>7. ASSUME NEW w \in Windows, PageLoaded(w) PROVE AllInv'
  <2>1. comments' = comments /\ rendered' = rendered
    BY <1>7 DEF PageLoaded
  <2>2. \A v \in Windows : Parsed(v)' = Parsed(v) /\ CIComments(v)' = CIComments(v)
    BY <2>1 DEF Parsed, CIComments
  <2>3. ASSUME NEW v \in Windows
        PROVE  table'[v] \in {NoTable, Results(Parsed(v))} /\ hidden'[v] \subseteq CIComments(v)
    <3>1. table' = [table EXCEPT ![w] = Results(Parsed(w))]
      BY <1>7 DEF PageLoaded
    <3>2. table'[v] = table[v] \/ table'[v] = Results(Parsed(v))
      BY <1>2, <3>1
    <3>3. hidden'[v] = hidden[v] \/ hidden'[v] = CIComments(v)
      BY <1>2, <1>7 DEF PageLoaded, HideCIComments
    <3> QED
      BY <1>2, <3>2, <3>3
  <2> QED
    BY <1>1, <1>2, <2>1, <2>2, <2>3 DEF AllInv, ShownInv
<1>8. ASSUME NEW w \in Windows, Toggle(w) PROVE AllInv'
  <2>1. comments' = comments /\ rendered' = rendered /\ table' = table
    BY <1>8 DEF Toggle
  <2>2. \A v \in Windows : Parsed(v)' = Parsed(v) /\ CIComments(v)' = CIComments(v)
    BY <2>1 DEF Parsed, CIComments
  <2>3. ASSUME NEW v \in Windows PROVE hidden'[v] \subseteq CIComments(v)
    <3>1. hidden'[v] = hidden[v] \/ hidden'[v] = CIComments(v) \/ hidden'[v] = {}
      BY <1>2, <1>8 DEF Toggle
    <3> QED
      BY <1>2, <3>1
  <2> QED
    BY <1>1, <1>2, <2>1, <2>2, <2>3 DEF AllInv, ShownInv
<1>9. CASE UNCHANGED vars
  <2>1. comments' = comments /\ rendered' = rendered /\ table' = table /\ hidden' = hidden
    BY <1>9 DEF vars
  <2>2. \A v \in Windows : Parsed(v)' = Parsed(v) /\ CIComments(v)' = CIComments(v)
    BY <2>1 DEF Parsed, CIComments
  <2> QED
    BY <1>1, <1>2, <2>1, <2>2 DEF AllInv, ShownInv
<1> QED
  BY <1>4, <1>5, <1>6, <1>7, <1>8, <1>9 DEF Next

\* A table tells of the comments that are rendered.
LEMMA TableIs ==
    ASSUME AllInv, NEW w \in Windows, table[w].kind # "none"
    PROVE  /\ table[w] = Results(Parsed(w))
           /\ table[w].kind \in {"conflict", "results"}
           /\ table[w].kind = "conflict" <=> IsMergeConflict(Parsed(w))
           /\ table[w].kind = "conflict" => table[w].rows = <<>>
           /\ table[w].kind = "results" => table[w].rows = RowsOf(Parsed(w))
<1>1. table[w] \in {NoTable, Results(Parsed(w))} /\ NoTable.kind = "none"
  BY DEF AllInv, ShownInv, NoTable
<1>2. table[w] = Results(Parsed(w))
  BY <1>1
<1>3. CASE IsMergeConflict(Parsed(w))
  <2>1. table[w] = [kind |-> "conflict", rows |-> <<>>]
    BY <1>2, <1>3, Zenon DEF Results
  <2> QED
    BY <1>2, <1>3, <2>1
<1>4. CASE ~ IsMergeConflict(Parsed(w))
  <2>1. PICK rows : Results(Parsed(w)) = [kind |-> "results", rows |-> rows]
    BY <1>4, Zenon DEF Results
  <2> QED
    BY <1>2, <1>4, <2>1 DEF RowsOf
<1> QED
  BY <1>3, <1>4

LEMMA LatestOfParsed ==
    ASSUME AllInv, NEW w \in Windows
    PROVE  \A i \in 1..rendered[w] :
              comments[i].ps = LatestPatchset(Parsed(w)) <=>
                \A j \in 1..rendered[w] : comments[j].ps <= comments[i].ps
<1> DEFINE cs == Parsed(w)
           n == rendered[w]
           L == LatestPatchset(cs)
<1>1. /\ n \in Nat /\ DOMAIN cs = 1..n
      /\ \A i \in 1..n : i \in 1..Len(comments) /\ cs[i] = comments[i]
  BY ParsedIs
<1>2. \A i \in 1..n : comments[i].ps \in Nat
  BY <1>1, CommentsType DEF AllInv
<1> HIDE DEF cs, n
<1>3. \A i \in 1..n : cs[i].ps \in Nat
  BY <1>1, <1>2
<1>4. L \in Nat /\ (\A i \in 1..n : cs[i].ps <= L) /\ (n > 0 => \E i \in 1..n : cs[i].ps = L)
  BY <1>1, <1>3, LatestIsLatest
<1> HIDE DEF L
<1>5. ASSUME NEW i \in 1..n
      PROVE  comments[i].ps = L <=> \A j \in 1..n : comments[j].ps <= comments[i].ps
  <2>1. CASE comments[i].ps = L
    BY <1>1, <1>4, <2>1
  <2>2. CASE \A j \in 1..n : comments[j].ps <= comments[i].ps
    <3>1. PICK j \in 1..n : cs[j].ps = L
      BY <1>1, <1>4
    <3>2. L <= comments[i].ps /\ comments[i].ps <= L
      BY <1>1, <1>4, <2>2, <3>1
    <3> QED
      BY <1>2, <1>4, <2>2, <3>2
  <2> QED
    BY <2>1, <2>2
<1> QED
  BY <1>5 DEF cs, n, L

LEMMA ResultsOfParsed ==
    ASSUME AllInv, NEW w \in Windows, NEW p
    PROVE  /\ Relevant(Parsed(w), rendered[w], p) = ResultsOf(w, p)
           /\ \A i \in ResultsOf(w, p) :
                 i \in 1..rendered[w] /\ IsResult(Parsed(w), i) /\ PipelineOf(Parsed(w)[i]) = p
<1>1. /\ DOMAIN Parsed(w) = 1..rendered[w]
      /\ \A i \in 1..rendered[w] : Parsed(w)[i] = comments[i]
  BY ParsedIs
<1>2. \A i \in 1..rendered[w] :
         comments[i].ps = LatestPatchset(Parsed(w)) <=>
           \A j \in 1..rendered[w] : comments[j].ps <= comments[i].ps
  BY LatestOfParsed
<1>3. ASSUME NEW i \in 1..rendered[w]
      PROVE  IsResult(Parsed(w), i) <=>
                /\ comments[i].author \in CIs /\ comments[i].tests
                /\ \A j \in 1..rendered[w] : comments[j].ps <= comments[i].ps
  BY <1>1, <1>2 DEF IsResult
<1>4. \A i : i \in Relevant(Parsed(w), rendered[w], p) <=> i \in ResultsOf(w, p)
  <2>1. \A i : i \in Relevant(Parsed(w), rendered[w], p) <=>
                 i \in 1..rendered[w] /\ IsResult(Parsed(w), i) /\ PipelineOf(Parsed(w)[i]) = p
    BY DEF Relevant
  <2>2. \A i : i \in ResultsOf(w, p) <=>
                 /\ i \in 1..rendered[w] /\ comments[i].author \in CIs
                 /\ PipelineOf(comments[i]) = p /\ comments[i].tests
                 /\ \A j \in 1..rendered[w] : comments[j].ps <= comments[i].ps
    BY Zenon DEF ResultsOf, CIComments
  <2> QED
    BY <1>1, <1>3, <2>1, <2>2
<1>5. Relevant(Parsed(w), rendered[w], p) = ResultsOf(w, p)
  BY <1>4
<1> QED
  BY <1>5 DEF Relevant

\* The rows of a window's table.
LEMMA RowsOfWindow ==
    ASSUME AllInv, NEW w \in Windows, table[w].kind = "results"
    PROVE  /\ \E m \in Nat : DOMAIN table[w].rows = 1..m
           /\ \A k \in DOMAIN table[w].rows :
                 LET found == ResultsOf(w, table[w].rows[k].name)
                 IN /\ table[w].rows[k].shows \in found
                    /\ \A i \in found : i <= table[w].rows[k].shows
                    /\ table[w].rows[k].rechecks = Cardinality(found) - 1
           /\ \A k, l \in DOMAIN table[w].rows :
                 table[w].rows[k].name = table[w].rows[l].name => k = l
           /\ \A p : ResultsOf(w, p) # {} => \E k \in DOMAIN table[w].rows : table[w].rows[k].name = p
           /\ \A k, l \in DOMAIN table[w].rows : k < l =>
                 LET p == table[w].rows[k].name  q == table[w].rows[l].name
                 IN \/ p[1] \in FirstParty
                    \/ q[1] \notin FirstParty /\ Position(p) < Position(q)
<1> DEFINE cs == Parsed(w)
           n == rendered[w]
           rows == RowsOf(cs)
<1>1. table[w].rows = rows /\ ~ IsMergeConflict(cs)
  BY TableIs
<1>2. /\ n \in Nat /\ DOMAIN cs = 1..n
      /\ \A i \in 1..n : i \in 1..Len(comments) /\ cs[i] = comments[i]
  BY ParsedIs
<1>3. \A i \in 1..n : cs[i].author \in CIs => \E j \in DOMAIN Names : Names[j] = PipelineOf(cs[i])
  BY <1>2, CommentsType DEF AllInv
<1> HIDE DEF cs, n
<1>4. /\ \E m \in Nat : DOMAIN rows = 1..m
      /\ \A k \in DOMAIN rows :
            LET found == Relevant(cs, n, rows[k].name)
            IN /\ rows[k].shows \in found
               /\ \A i \in found : i <= rows[k].shows
               /\ rows[k].rechecks = Cardinality(found) - 1
      /\ \A k, l \in DOMAIN rows : rows[k].name = rows[l].name => k = l
      /\ \A i \in 1..n : IsResult(cs, i) => \E k \in DOMAIN rows : rows[k].name = PipelineOf(cs[i])
      /\ \A k, l \in DOMAIN rows : k < l =>
            LET p == rows[k].name  q == rows[l].name
            IN \/ p[1] \in FirstParty
               \/ q[1] \notin FirstParty /\ Position(p) < Position(q)
  BY <1>1, <1>2, <1>3, RowsAre
<1> HIDE DEF rows
<1>5. \A p : Relevant(cs, n, p) = ResultsOf(w, p)
  BY ResultsOfParsed DEF cs, n
<1>6. \A p : \A i \in ResultsOf(w, p) : i \in 1..n /\ IsResult(cs, i) /\ PipelineOf(cs[i]) = p
  BY ResultsOfParsed DEF cs, n
<1>7. \A k \in DOMAIN rows :
         LET found == ResultsOf(w, rows[k].name)
         IN /\ rows[k].shows \in found
            /\ \A i \in found : i <= rows[k].shows
            /\ rows[k].rechecks = Cardinality(found) - 1
  BY <1>4, <1>5, Zenon
<1>8. \A p : ResultsOf(w, p) # {} => \E k \in DOMAIN rows : rows[k].name = p
  BY <1>4, <1>6
<1> QED
  BY <1>1, <1>4, <1>7, <1>8, Zenon

LEMMA AllInvTypeOK == AllInv => TypeOK
<1> SUFFICES ASSUME AllInv PROVE TypeOK
  OBVIOUS
<1>1. \A i \in DOMAIN comments : comments[i].ps \in 1..MaxPatchset
  BY CommentsType DEF AllInv
<1>2. rendered \in [Windows -> 0..Len(comments)]
  BY DEF AllInv, CookieInv, PagesInv
<1>3. \A w \in Windows : hidden[w] \subseteq CIComments(w)
  BY DEF AllInv, ShownInv
<1>4. ASSUME NEW w \in Windows
      PROVE  /\ table[w].kind \in {"none", "conflict", "results"}
             /\ \A row \in Range(table[w].rows) : row.shows \in CIComments(w)
  <2>1. CASE table[w].kind = "results"
    <3>1. \A k \in DOMAIN table[w].rows :
             table[w].rows[k].shows \in ResultsOf(w, table[w].rows[k].name)
      BY <2>1, RowsOfWindow, Zenon
    <3>2. \A p : ResultsOf(w, p) \subseteq CIComments(w)
      BY DEF ResultsOf
    <3>3. \A k \in DOMAIN table[w].rows : table[w].rows[k].shows \in CIComments(w)
      BY <3>1, <3>2
    <3> QED
      BY <2>1, <3>3 DEF Range
  <2>2. CASE table[w].kind # "results" /\ table[w].kind # "none"
    <3>1. table[w].kind = "conflict" /\ table[w].rows = <<>>
      BY <2>2, TableIs
    <3> QED
      BY <3>1 DEF Range
  <2>3. CASE table[w].kind = "none"
    <3>1. table[w] \in {NoTable, Results(Parsed(w))}
      BY DEF AllInv, ShownInv
    <3>2. Results(Parsed(w)).kind \in {"conflict", "results"}
      BY DEF Results
    <3>3. table[w].rows = <<>>
      BY <2>3, <3>1, <3>2 DEF NoTable
    <3> QED
      BY <2>3, <3>3 DEF Range
  <2> QED
    BY <2>1, <2>2, <2>3
<1>5. cookie \in BOOLEAN /\ apart \in [Windows -> BOOLEAN]
  BY DEF AllInv, CookieInv, PagesInv
<1> QED
  BY <1>1, <1>2, <1>3, <1>4, <1>5 DEF TypeOK

LEMMA AllInvConflict == AllInv => ConflictIsCurrent
<1> SUFFICES ASSUME AllInv, NEW w \in Windows, table[w].kind # "none"
             PROVE  table[w].kind = "conflict" <=>
                      \E i \in 1..rendered[w] :
                         /\ comments[i].author \in Trusted /\ comments[i].conflict
                         /\ \A j \in 1..rendered[w] :
                               /\ comments[j].ps <= comments[i].ps
                               /\ j > i /\ comments[j].ps = comments[i].ps =>
                                     comments[j].author \notin Trusted
  BY Zenon DEF ConflictIsCurrent
<1> DEFINE cs == Parsed(w)
           n == rendered[w]
           L == LatestPatchset(cs)
<1>1. table[w].kind = "conflict" <=> IsMergeConflict(cs)
  BY TableIs
<1>2. /\ n \in Nat /\ DOMAIN cs = 1..n
      /\ \A i \in 1..n : i \in 1..Len(comments) /\ cs[i] = comments[i]
  BY ParsedIs
<1>3. \A i \in 1..n : cs[i].conflict \in BOOLEAN
  BY <1>2, CommentsType DEF AllInv
<1>4. \A i \in 1..n : comments[i].ps = L <=> \A j \in 1..n : comments[j].ps <= comments[i].ps
  BY LatestOfParsed
<1> HIDE DEF cs, n
<1>5. IsMergeConflict(cs) <=>
         \E i \in 1..n : /\ cs[i].ps = L /\ cs[i].author \in Trusted /\ cs[i].conflict
                         /\ \A j \in 1..n : j > i /\ cs[j].ps = L => cs[j].author \notin Trusted
  BY <1>2, <1>3, LastTrusted
<1> HIDE DEF L
<1>6. ASSUME NEW i \in 1..n
      PROVE  (/\ cs[i].ps = L /\ cs[i].author \in Trusted /\ cs[i].conflict
              /\ \A j \in 1..n : j > i /\ cs[j].ps = L => cs[j].author \notin Trusted)
             <=>
             (/\ comments[i].author \in Trusted /\ comments[i].conflict
              /\ \A j \in 1..n :
                    /\ comments[j].ps <= comments[i].ps
                    /\ j > i /\ comments[j].ps = comments[i].ps =>
                          comments[j].author \notin Trusted)
  BY <1>2, <1>4
<1>7. IsMergeConflict(cs) <=>
         \E i \in 1..n : /\ comments[i].author \in Trusted /\ comments[i].conflict
                         /\ \A j \in 1..n :
                               /\ comments[j].ps <= comments[i].ps
                               /\ j > i /\ comments[j].ps = comments[i].ps =>
                                     comments[j].author \notin Trusted
  BY <1>5, <1>6
<1> QED
  BY <1>1, <1>7, Zenon DEF n

LEMMA AllInvLatest == AllInv => LatestOfEveryPipeline
<1> SUFFICES ASSUME AllInv, NEW w \in Windows, table[w].kind = "results", NEW n \in DOMAIN Names
             PROVE  LET found == ResultsOf(w, Names[n])
                        rows == {k \in DOMAIN table[w].rows : table[w].rows[k].name = Names[n]}
                    IN IF found = {} THEN rows = {}
                       ELSE \E k \in rows :
                              /\ rows = {k}
                              /\ table[w].rows[k].shows \in found
                              /\ \A i \in found : i <= table[w].rows[k].shows
                              /\ table[w].rows[k].rechecks = Cardinality(found) - 1
  BY Zenon DEF LatestOfEveryPipeline
<1> DEFINE rows == table[w].rows
           found == ResultsOf(w, Names[n])
           those == {k \in DOMAIN rows : rows[k].name = Names[n]}
<1>1. /\ \A k \in DOMAIN rows :
            /\ rows[k].shows \in ResultsOf(w, rows[k].name)
            /\ \A i \in ResultsOf(w, rows[k].name) : i <= rows[k].shows
            /\ rows[k].rechecks = Cardinality(ResultsOf(w, rows[k].name)) - 1
      /\ \A k, l \in DOMAIN rows : rows[k].name = rows[l].name => k = l
      /\ \A p : ResultsOf(w, p) # {} => \E k \in DOMAIN rows : rows[k].name = p
  BY RowsOfWindow, Zenon
<1> HIDE DEF rows
<1>2. CASE found = {}
  <2>1. those = {}
    BY <1>1, <1>2
  <2> QED
    BY <1>2, <2>1 DEF rows
<1>3. CASE found # {}
  <2>1. PICK k \in DOMAIN rows : rows[k].name = Names[n]
    BY <1>1, <1>3
  <2>2. those = {k}
    BY <1>1, <2>1
  <2>3. /\ rows[k].shows \in found /\ \A i \in found : i <= rows[k].shows
        /\ rows[k].rechecks = Cardinality(found) - 1
    BY <1>1, <2>1
  <2> HIDE DEF found, those
  <2>4. \E l \in those : /\ those = {l}
                         /\ rows[l].shows \in found
                         /\ \A i \in found : i <= rows[l].shows
                         /\ rows[l].rechecks = Cardinality(found) - 1
    BY <2>2, <2>3
  <2> QED
    BY <1>3, <2>4, Zenon DEF rows, found, those
<1> QED
  BY <1>2, <1>3

LEMMA AllInvFirstParty == AllInv => FirstPartyOnTop
<1> SUFFICES ASSUME AllInv, NEW w \in Windows, table[w].kind = "results",
                    NEW k \in DOMAIN table[w].rows, NEW l \in DOMAIN table[w].rows, k < l
             PROVE  \/ table[w].rows[k].name[1] \in FirstParty
                    \/ /\ table[w].rows[l].name[1] \notin FirstParty
                       /\ Position(table[w].rows[k].name) < Position(table[w].rows[l].name)
  BY Zenon DEF FirstPartyOnTop
<1> QED
  BY RowsOfWindow, Zenon

\* A window hides comments of CIs only, and a row shows one.
THEOREM PagesType == Spec => []TypeOK
<1> QED
  BY AllInvTypeOK, InitAllInv, NextAllInv, PTL DEF Spec

\* A table gives way to a merge conflict exactly when the last that a trusted CI
\* has said of the latest patch set is one.
THEOREM ConflictCurrent == Spec => []ConflictIsCurrent
<1> QED
  BY AllInvConflict, InitAllInv, NextAllInv, PTL DEF Spec

\* The table has the latest result of every pipeline, once, and the number of
\* results before it.
THEOREM RowsAreLatest == Spec => []LatestOfEveryPipeline
<1> QED
  BY AllInvLatest, InitAllInv, NextAllInv, PTL DEF Spec

\* First party results are at the top; the others are in the order of their
\* names.
THEOREM FirstPartyFirst == Spec => []FirstPartyOnTop
<1> QED
  BY AllInvFirstParty, InitAllInv, NextAllInv, PTL DEF Spec

=============================================================================
