---------------------------- MODULE OwnersProofs ----------------------------
(* The addresses and the owners of owners.py, for any accounts, addresses  *)
(* and teams.                                                              *)
EXTENDS Owners, FiniteSetTheorems, WellFoundedInduction, TLAPS

\* A set of numbers has a least one.
LEMMA LeastNatural ==
    ASSUME NEW S \in SUBSET Nat, S # {}
    PROVE  \E x \in S : \A y \in S : x =< y
<1> DEFINE R == OpToRel(<, Nat)
<1>1. IsWellFoundedOn(R, Nat)
  BY NatLessThanWellFounded
<1>2. \A x, y \in Nat : y < x => <<y, x>> \in R
  BY Zenon DEF OpToRel
<1> HIDE DEF R
<1>3. PICK x \in S : \A y \in S : ~(<<y, x>> \in R)
  BY <1>1, WFMin
<1>4. \A y \in S : x =< y
  <2> SUFFICES ASSUME NEW y \in S PROVE x =< y
    OBVIOUS
  <2>1. x \in Nat /\ y \in Nat
    OBVIOUS
  <2>2. ~(y < x)
    BY <1>2, <1>3, <2>1, Zenon
  <2> QED
    BY <2>1, <2>2
<1> QED
  BY <1>4

LEMMA MinIn ==
    ASSUME NEW S \in SUBSET Nat, S # {}
    PROVE  Min(S) \in S
<1>1. \E x \in S : \A y \in S : x =< y
  BY LeastNatural
<1> QED
  BY <1>1 DEF Min

LEMMA PutTyped ==
    ASSUME NEW D, NEW T, NEW f \in [D -> T], NEW k, NEW v \in T
    PROVE  /\ Put(f, k, v) \in [D \cup {k} -> T]
           /\ DOMAIN Put(f, k, v) = D \cup {k}
           /\ Put(f, k, v)[k] = v
           /\ \A x \in D \ {k} : Put(f, k, v)[x] = f[x]
BY DEF Put

LEMMA TallyCounted ==
    ASSUME NEW t \in Tally, NEW d \in Nat
    PROVE  Counted(t, d) \in Tally
<1>1. ASSUME NEW c \in Int, NEW n \in Nat, NEW k \in Nat
      PROVE  [t EXCEPT !.count = c, !.newest = n, !.oldest = k] \in Tally
  BY DEF Tally
<1>2. /\ t.count + 1 \in Int
      /\ (IF d > t.newest THEN d ELSE t.newest) \in Nat
      /\ (IF d < t.oldest THEN d ELSE t.oldest) \in Nat
  BY DEF Tally
<1> QED
  BY <1>1, <1>2, Zenon DEF Counted

LEMMA OwnerCounted ==
    ASSUME NEW o \in Owner, NEW d \in Nat
    PROVE  /\ Counted(o, d) \in Owner
           /\ Counted(o, d).extra = o.extra /\ Counted(o, d).preferred = o.preferred
           /\ AddressesOf(Counted(o, d)) = AddressesOf(o)
<1>1. ASSUME NEW c \in Int, NEW n \in Nat, NEW k \in Nat
      PROVE  LET u == [o EXCEPT !.count = c, !.newest = n, !.oldest = k]
             IN  u \in Owner /\ u.extra = o.extra /\ u.preferred = o.preferred
  BY DEF Owner
<1>2. /\ o.count + 1 \in Int
      /\ (IF d > o.newest THEN d ELSE o.newest) \in Nat
      /\ (IF d < o.oldest THEN d ELSE o.oldest) \in Nat
  BY DEF Owner
<1>3. /\ Counted(o, d) \in Owner
      /\ Counted(o, d).extra = o.extra /\ Counted(o, d).preferred = o.preferred
  BY <1>1, <1>2, Zenon DEF Counted
<1> QED
  BY <1>3, Zenon DEF AddressesOf

\* A duplicate's addresses become those of the owner, and no more.
LEMMA OwnerAbsorbs ==
    ASSUME NEW o \in Owner, NEW d \in Details
    PROVE  /\ Absorbed(o, d) \in Owner
           /\ AddressesOf(Absorbed(o, d)) = AddressesOf(o) \cup d.addresses
BY DetailsAssumption, InputAssumption DEF Owner, Absorbed, AddressesOf

\* Making an extra address the preferred one loses none.
LEMMA OwnerPrefers ==
    ASSUME NEW o \in Owner
    PROVE  /\ WithPreferred(o) \in Owner
           /\ AddressesOf(WithPreferred(o)) = AddressesOf(o)
<1>1. CASE ~o.named \/ o.preferred # None \/ o.extra = {}
  BY <1>1 DEF WithPreferred
<1>2. CASE ~(~o.named \/ o.preferred # None \/ o.extra = {})
  <2>1. Min(o.extra) \in o.extra
    BY <1>2, MinIn, InputAssumption DEF Owner
  <2>2. WithPreferred(o) =
          [o EXCEPT !.preferred = Min(o.extra), !.extra = @ \ {Min(o.extra)}]
    BY <1>2 DEF WithPreferred
  <2> QED
    <3>1. WithPreferred(o) = [count |-> o.count, newest |-> o.newest, oldest |-> o.oldest,
             extra |-> o.extra \ {Min(o.extra)}, preferred |-> Min(o.extra), named |-> o.named]
      BY <2>2 DEF Owner
    <3>2. Min(o.extra) \in Addresses /\ Min(o.extra) # None
      BY <2>1, InputAssumption DEF Owner
    <3> QED
      BY <1>2, <2>1, <3>1, <3>2 DEF Owner, AddressesOf
<1> QED
  BY <1>1, <1>2

-----------------------------------------------------------------------------
(* A change and its attribution.                                           *)

LEMMA AttributeTyped ==
    ASSUME TypeOK, NEW a \in Accounts, NEW o \in Ids, NEW d \in Dates, team \in Teams,
           Attribute(a, o, d), DOMAIN owners \cup {o} \subseteq DOMAIN owners'
    PROVE  /\ DOMAIN projects' = Teams
           /\ \A t \in Teams :
               /\ DOMAIN projects'[t] \in SUBSET DOMAIN owners'
               /\ projects'[t] \in [DOMAIN projects'[t] -> Tally]
           /\ taken' \in [Changes -> Nat]
<1> DEFINE mine == projects[team]
           value == IF o \in DOMAIN mine THEN Counted(mine[o], d) ELSE One(d)
<1>1. mine \in [DOMAIN mine -> Tally] /\ DOMAIN mine \in SUBSET DOMAIN owners
  BY DEF TypeOK
<1>2. d \in Nat
  BY InputAssumption
<1>3. value \in Tally
  BY <1>1, <1>2, TallyCounted DEF One, Tally
<1>4. /\ Put(mine, o, value) \in [DOMAIN mine \cup {o} -> Tally]
      /\ DOMAIN Put(mine, o, value) = DOMAIN mine \cup {o}
  <2>1. ASSUME NEW D, NEW f \in [D -> Tally], NEW v \in Tally
        PROVE  Put(f, o, v) \in [D \cup {o} -> Tally] /\ DOMAIN Put(f, o, v) = D \cup {o}
    BY <2>1 DEF Put
  <2> HIDE DEF mine, value
  <2> QED
    BY <1>1, <1>3, <2>1
<1>5. projects' = [projects EXCEPT ![team] = Put(mine, o, value)]
  BY DEF Attribute
<1>6. taken' \in [Changes -> Nat]
  BY DEF Attribute, TypeOK, Changes
<1> HIDE DEF mine, value
<1>7. DOMAIN projects' = Teams /\ projects'[team] = Put(mine, o, value)
  BY <1>5 DEF TypeOK
<1>8. \A t \in Teams \ {team} : projects'[t] = projects[t]
  BY <1>5 DEF TypeOK
<1> QED
  BY <1>1, <1>4, <1>6, <1>7, <1>8 DEF TypeOK

\* An account that has been met has an owner.
LEMMA OwnerKnown ==
    ASSUME TypeOK, NEW a \in DOMAIN seen
    PROVE  OwnerOf(a) \in DOMAIN owners
BY DEF TypeOK, OwnerOf

\* When no owner gets or loses an address, the index stays right.
LEMMA SameAddresses ==
    ASSUME TypeOK, OwnersInv, DOMAIN owners' = DOMAIN owners,
           \A o \in DOMAIN owners : AddressesOf(owners'[o]) = AddressesOf(owners[o]),
           UNCHANGED <<duplicates, all_emails, seen, bridged, counter>>
    PROVE  OwnersInv'
<1>1. AddressesKept'
  <2>1. \A a \in DOMAIN seen : OwnerOf(a)' = OwnerOf(a)
    BY DEF OwnerOf
  <2>2. \A e \in DOMAIN all_emails : all_emails[e] \in DOMAIN owners
    BY DEF TypeOK
  <2>3. \A a \in DOMAIN seen : seen[a] \subseteq AddressesOf(owners'[OwnerOf(a)])
    BY OwnerKnown DEF OwnersInv, AddressesKept
  <2>4. \A e \in DOMAIN all_emails : e \in AddressesOf(owners'[all_emails[e]])
    BY <2>2 DEF OwnersInv, AddressesKept
  <2> QED
    BY <2>1, <2>3, <2>4 DEF AddressesKept, AddressesOf
<1>2. Indexed'
  BY DEF OwnersInv, Indexed, AddressesOf
<1> QED
  BY <1>1, <1>2 DEF OwnersInv

LEMMA KnownKeeps ==
    ASSUME TypeOK, OwnersInv, NEW a \in Accounts, NEW d \in Dates, team \in Teams,
           KnownAccount(a, d), UNCHANGED <<loop, counter, output>>
    PROVE  TypeOK' /\ OwnersInv'
<1> USE DEF loop, output
<1>1. /\ a \in DOMAIN seen
      /\ owners' = [owners EXCEPT ![OwnerOf(a)] = Counted(owners[OwnerOf(a)], d)]
      /\ Attribute(a, OwnerOf(a), d)
      /\ UNCHANGED <<duplicates, all_emails, seen, bridged>>
  BY DEF KnownAccount
<1>2. OwnerOf(a) \in DOMAIN owners /\ d \in Nat
  BY <1>1, OwnerKnown, InputAssumption
<1>3. /\ DOMAIN owners' = DOMAIN owners
      /\ \A o \in DOMAIN owners :
          owners'[o] = IF o = OwnerOf(a) THEN Counted(owners[o], d) ELSE owners[o]
  BY <1>1, <1>2 DEF TypeOK
<1>4. \A o \in DOMAIN owners : owners[o] \in Owner
  BY DEF TypeOK
<1>5. \A o \in DOMAIN owners :
        owners'[o] \in Owner /\ AddressesOf(owners'[o]) = AddressesOf(owners[o])
  BY <1>2, <1>3, <1>4, OwnerCounted
<1>6. OwnersInv'
  BY <1>1, <1>3, <1>5, SameAddresses
<1>7. OwnerOf(a) \in Ids /\ DOMAIN owners \cup {OwnerOf(a)} \subseteq DOMAIN owners'
  BY <1>2, <1>3 DEF TypeOK
<1>8. /\ DOMAIN projects' = Teams
      /\ \A t \in Teams :
          /\ DOMAIN projects'[t] \in SUBSET DOMAIN owners'
          /\ projects'[t] \in [DOMAIN projects'[t] -> Tally]
      /\ taken' \in [Changes -> Nat]
  BY <1>1, <1>7, AttributeTyped
<1>9. owners' \in [DOMAIN owners' -> Owner]
  BY <1>1, <1>3, <1>5 DEF TypeOK
<1> QED
  BY <1>1, <1>3, <1>6, <1>8, <1>9 DEF TypeOK

\* What is learned about a new account.
LEMMA LearnedSeen ==
    ASSUME TypeOK, NEW a \in Accounts, NEW o, NEW d \in Details, Learn(a, o, d)
    PROVE  /\ a \notin DOMAIN owners /\ a \notin DOMAIN duplicates
           /\ DOMAIN seen' = DOMAIN seen \cup {a}
           /\ seen'[a] = d.addresses
           /\ \A b \in DOMAIN seen : b # a /\ seen'[b] = seen[b]
           /\ seen' \in [DOMAIN seen' -> SUBSET Addresses]
<1>1. d.addresses \in SUBSET Addresses
  BY DetailsAssumption
<1>2. seen' = Put(seen, a, d.addresses) /\ a \notin DOMAIN seen
  BY DEF Learn
<1>3. seen \in [DOMAIN seen -> SUBSET Addresses]
  BY DEF TypeOK
<1>4. a \notin DOMAIN owners /\ a \notin DOMAIN duplicates
  BY <1>2 DEF TypeOK
<1> QED
  BY <1>1, <1>2, <1>3, <1>4 DEF Put

LEMMA LearnedIndex ==
    ASSUME TypeOK, NEW a \in Accounts, NEW o, NEW d \in Details, Learn(a, o, d)
    PROVE  /\ DOMAIN all_emails' = DOMAIN all_emails \cup d.addresses
           /\ DOMAIN all_emails' \in SUBSET Addresses
           /\ \A e \in d.addresses : all_emails'[e] = o
           /\ \A e \in DOMAIN all_emails \ d.addresses : all_emails'[e] = all_emails[e]
           /\ DOMAIN owners \cup {o} \subseteq DOMAIN owners'
               => all_emails' \in [DOMAIN all_emails' -> DOMAIN owners']
<1>1. d.addresses \in SUBSET Addresses
  BY DetailsAssumption
<1>2. all_emails' = [e \in DOMAIN all_emails \cup d.addresses |->
                        IF e \in d.addresses THEN o ELSE all_emails[e]]
  BY DEF Learn
<1>3. all_emails \in [DOMAIN all_emails -> DOMAIN owners] /\ DOMAIN all_emails \in SUBSET Addresses
  BY DEF TypeOK
<1> QED
  BY <1>1, <1>2, <1>3

LEMMA NewOwnerKeeps ==
    ASSUME TypeOK, OwnersInv, NEW a \in Accounts, NEW date \in Dates, NEW d \in Details,
           team \in Teams, NewOwner(a, date, d), UNCHANGED <<loop, counter, output>>
    PROVE  TypeOK' /\ OwnersInv'
<1> USE DEF loop, output
<1> DEFINE entry == [count |-> 1, newest |-> date, oldest |-> date,
                     extra |-> d.addresses \ {d.preferred},
                     preferred |-> d.preferred, named |-> d.named]
<1>1. /\ Learn(a, a, d)
      /\ owners' = Put(owners, a, entry)
      /\ Attribute(a, a, date)
      /\ UNCHANGED <<duplicates, bridged>>
      /\ d.addresses \cap DOMAIN all_emails = {}
  BY DEF NewOwner
<1>a. /\ DOMAIN all_emails' = DOMAIN all_emails \cup d.addresses
      /\ \A e \in d.addresses : all_emails'[e] = a
      /\ \A e \in DOMAIN all_emails : all_emails'[e] = all_emails[e]
  <2>1. /\ DOMAIN all_emails' = DOMAIN all_emails \cup d.addresses
        /\ \A e \in d.addresses : all_emails'[e] = a
        /\ \A e \in DOMAIN all_emails \ d.addresses : all_emails'[e] = all_emails[e]
    <3>1. Learn(a, a, d)
      BY <1>1
    <3> QED
      BY <3>1, LearnedIndex
  <2> QED
    BY <1>1, <2>1
<1>2. entry \in Owner /\ AddressesOf(entry) = d.addresses
  BY DetailsAssumption, InputAssumption DEF Owner, AddressesOf
<1> HIDE DEF entry
<1>3. a \notin DOMAIN owners /\ a \notin DOMAIN duplicates
  BY <1>1, LearnedSeen
<1>4. /\ DOMAIN owners' = DOMAIN owners \cup {a}
      /\ owners'[a] = entry
      /\ \A o \in DOMAIN owners : o # a /\ owners'[o] = owners[o]
      /\ owners' \in [DOMAIN owners' -> Owner]
  BY <1>1, <1>2, <1>3 DEF Put, TypeOK
<1>5. /\ DOMAIN projects' = Teams
      /\ \A t \in Teams :
          /\ DOMAIN projects'[t] \in SUBSET DOMAIN owners'
          /\ projects'[t] \in [DOMAIN projects'[t] -> Tally]
      /\ taken' \in [Changes -> Nat]
  BY <1>1, <1>4, AttributeTyped DEF Ids
<1>6. /\ DOMAIN seen' = DOMAIN seen \cup {a}
      /\ seen' \in [DOMAIN seen' -> SUBSET Addresses]
      /\ DOMAIN all_emails' \in SUBSET Addresses
      /\ all_emails' \in [DOMAIN all_emails' -> DOMAIN owners']
  BY <1>1, <1>4, LearnedSeen, LearnedIndex
<1>7. /\ DOMAIN duplicates' \in SUBSET (Accounts \ DOMAIN owners')
      /\ duplicates' \in [DOMAIN duplicates' -> DOMAIN owners']
  BY <1>1, <1>3, <1>4 DEF TypeOK
<1>8. TypeOK'
  BY <1>1, <1>4, <1>5, <1>6, <1>7 DEF TypeOK, Ids
<1>9. AddressesKept'
  <2>1. \A b \in DOMAIN seen : seen'[b] = seen[b] /\ OwnerOf(b)' = OwnerOf(b)
    BY <1>1, LearnedSeen DEF OwnerOf
  <2>2. seen'[a] = d.addresses /\ OwnerOf(a)' = a
    BY <1>1, <1>3, LearnedSeen DEF OwnerOf
  <2>3. \A b \in DOMAIN seen' : seen'[b] \subseteq AddressesOf(owners'[OwnerOf(b)'])
    BY <1>2, <1>4, <1>6, <2>1, <2>2, OwnerKnown DEF OwnersInv, AddressesKept
  <2>4. \A e \in DOMAIN all_emails' : e \in AddressesOf(owners'[all_emails'[e]])
    <3>1. \A e \in d.addresses : all_emails'[e] = a
      BY <1>a
    <3>2. \A e \in DOMAIN all_emails : all_emails'[e] = all_emails[e] /\ all_emails[e] \in DOMAIN owners
      BY <1>a DEF TypeOK
    <3>3. DOMAIN all_emails' = DOMAIN all_emails \cup d.addresses
      BY <1>a
    <3> QED
      BY <1>2, <1>4, <3>1, <3>2, <3>3 DEF OwnersInv, AddressesKept
  <2> QED
    BY <2>3, <2>4 DEF AddressesKept, AddressesOf
<1>10. Indexed'
  <2>1. /\ \A e \in d.addresses : e \in DOMAIN all_emails' /\ all_emails'[e] = a
        /\ \A e \in DOMAIN all_emails :
            e \in DOMAIN all_emails' /\ all_emails'[e] = all_emails[e]
    BY <1>a
  <2>2. \A o \in DOMAIN owners' : \A e \in AddressesOf(owners'[o]) :
          e \in DOMAIN all_emails' /\ (~bridged' => all_emails'[e] = o)
    BY <1>1, <1>2, <1>4, <2>1 DEF OwnersInv, Indexed
  <2>3. a > -counter'
    BY InputAssumption DEF TypeOK
  <2> QED
    BY <1>4, <2>2, <2>3 DEF OwnersInv, Indexed, AddressesOf
<1> QED
  BY <1>8, <1>9, <1>10 DEF OwnersInv

LEMMA MergeKeeps ==
    ASSUME TypeOK, OwnersInv, NEW a \in Accounts, NEW date \in Dates, NEW d \in Details,
           team \in Teams, Merge(a, date, d), UNCHANGED <<loop, counter, output>>
    PROVE  TypeOK' /\ OwnersInv'
<1> USE DEF loop, output
<1>1. PICK known \in d.addresses \cap DOMAIN all_emails :
        /\ Learn(a, all_emails[known], d)
        /\ duplicates' = Put(duplicates, a, all_emails[known])
        /\ owners' = [owners EXCEPT ![all_emails[known]] = Absorbed(Counted(@, date), d)]
        /\ Attribute(a, all_emails[known], date)
        /\ bridged' = (bridged \/ \E e \in d.addresses \cap DOMAIN all_emails :
                                      all_emails[e] # all_emails[known])
  BY DEF Merge
<1> DEFINE p == all_emails[known]
<1>2. p \in DOMAIN owners /\ date \in Nat
  BY <1>1, InputAssumption DEF TypeOK
<1>3. /\ DOMAIN owners' = DOMAIN owners
      /\ owners'[p] = Absorbed(Counted(owners[p], date), d)
      /\ \A o \in DOMAIN owners \ {p} : owners'[o] = owners[o]
  BY <1>1, <1>2 DEF TypeOK
<1>b. Learn(a, p, d)
  BY <1>1
<1> HIDE DEF p
<1>4. \A o \in DOMAIN owners : owners[o] \in Owner
  BY DEF TypeOK
<1>5. /\ owners'[p] \in Owner
      /\ AddressesOf(owners'[p]) = AddressesOf(owners[p]) \cup d.addresses
  <2>1. /\ Counted(owners[p], date) \in Owner
        /\ AddressesOf(Counted(owners[p], date)) = AddressesOf(owners[p])
    BY <1>2, <1>4, OwnerCounted
  <2> QED
    BY <1>3, <2>1, OwnerAbsorbs
<1>6. \A o \in DOMAIN owners : owners'[o] \in Owner
  BY <1>3, <1>4, <1>5
<1>7. owners' \in [DOMAIN owners' -> Owner]
  BY <1>1, <1>3, <1>6 DEF TypeOK
<1>8. /\ DOMAIN projects' = Teams
      /\ \A t \in Teams :
          /\ DOMAIN projects'[t] \in SUBSET DOMAIN owners'
          /\ projects'[t] \in [DOMAIN projects'[t] -> Tally]
      /\ taken' \in [Changes -> Nat]
  <2>1. p \in Ids /\ DOMAIN owners \cup {p} \subseteq DOMAIN owners'
    BY <1>2, <1>3 DEF TypeOK
  <2> QED
    BY <1>1, <2>1, AttributeTyped DEF p
<1>9. /\ a \notin DOMAIN owners /\ a \notin DOMAIN duplicates
      /\ DOMAIN seen' = DOMAIN seen \cup {a}
      /\ seen'[a] = d.addresses
      /\ \A b \in DOMAIN seen : b # a /\ seen'[b] = seen[b]
      /\ seen' \in [DOMAIN seen' -> SUBSET Addresses]
  BY <1>b, LearnedSeen
<1>10. /\ DOMAIN all_emails' = DOMAIN all_emails \cup d.addresses
       /\ DOMAIN all_emails' \in SUBSET Addresses
       /\ \A e \in d.addresses : all_emails'[e] = p
       /\ \A e \in DOMAIN all_emails \ d.addresses : all_emails'[e] = all_emails[e]
  BY <1>b, LearnedIndex
<1>11. all_emails' \in [DOMAIN all_emails' -> DOMAIN owners']
  <2>1. DOMAIN owners \cup {p} \subseteq DOMAIN owners'
    BY <1>2, <1>3
  <2> QED
    BY <1>b, <2>1, LearnedIndex
<1>12. /\ DOMAIN duplicates' = DOMAIN duplicates \cup {a}
       /\ duplicates'[a] = p
       /\ \A b \in DOMAIN duplicates : duplicates'[b] = duplicates[b]
       /\ duplicates' \in [DOMAIN duplicates' -> DOMAIN owners']
  BY <1>1, <1>2, <1>3, <1>9 DEF Put, TypeOK, p
<1>13. bridged' \in BOOLEAN
  BY <1>1 DEF TypeOK
<1>14. TypeOK'
  BY <1>3, <1>7, <1>8, <1>9, <1>10, <1>11, <1>12, <1>13 DEF TypeOK
<1>15. AddressesKept'
  <2>1. \A b \in DOMAIN seen : seen'[b] = seen[b] /\ OwnerOf(b)' = OwnerOf(b)
    BY <1>9, <1>12 DEF OwnerOf
  <2>2. OwnerOf(a)' = p
    BY <1>12 DEF OwnerOf
  <2>3. \A o \in DOMAIN owners : AddressesOf(owners[o]) \subseteq AddressesOf(owners'[o])
    BY <1>3, <1>5
  <2>4. \A b \in DOMAIN seen' : seen'[b] \subseteq AddressesOf(owners'[OwnerOf(b)'])
    BY <1>5, <1>9, <2>1, <2>2, <2>3, OwnerKnown DEF OwnersInv, AddressesKept
  <2>5. \A e \in DOMAIN all_emails : all_emails[e] \in DOMAIN owners
    BY DEF TypeOK
  <2>6. \A e \in DOMAIN all_emails' : e \in AddressesOf(owners'[all_emails'[e]])
    BY <1>5, <1>10, <2>3, <2>5 DEF OwnersInv, AddressesKept
  <2> QED
    BY <2>4, <2>6 DEF AddressesKept, AddressesOf
<1>16. Indexed'
  <2>1. ASSUME NEW o \in DOMAIN owners, NEW e \in AddressesOf(owners'[o])
        PROVE  e \in DOMAIN all_emails' /\ (~bridged' => all_emails'[e] = o)
    <3>1. CASE o # p /\ e \in d.addresses
      <4>1. e \in DOMAIN all_emails /\ (~bridged => all_emails[e] = o)
        BY <1>3, <2>1, <3>1 DEF OwnersInv, Indexed
      <4>2. bridged'
        <5>1. CASE bridged
          BY <1>1, <5>1
        <5>2. CASE ~bridged
          <6>1. e \in d.addresses \cap DOMAIN all_emails /\ all_emails[e] # all_emails[known]
            BY <3>1, <4>1, <5>2 DEF p
          <6> QED
            BY <1>1, <6>1
        <5> QED
          BY <5>1, <5>2
      <4> QED
        BY <1>10, <4>1, <4>2
    <3>2. CASE o # p /\ e \notin d.addresses
      <4>1. e \in DOMAIN all_emails /\ (~bridged => all_emails[e] = o)
        BY <1>3, <2>1, <3>2 DEF OwnersInv, Indexed
      <4>2. ~bridged' => ~bridged
        BY <1>1
      <4> QED
        BY <1>10, <3>2, <4>1, <4>2
    <3>3. CASE o = p /\ e \in d.addresses
      BY <1>10, <3>3
    <3>4. CASE o = p /\ e \notin d.addresses
      <4>1. e \in DOMAIN all_emails /\ (~bridged => all_emails[e] = o)
        BY <1>2, <1>5, <2>1, <3>4 DEF OwnersInv, Indexed
      <4>2. ~bridged' => ~bridged
        BY <1>1
      <4> QED
        BY <1>10, <3>4, <4>1, <4>2
    <3> QED
      BY <3>1, <3>2, <3>3, <3>4
  <2> QED
    BY <1>3, <2>1 DEF OwnersInv, Indexed, AddressesOf
<1> QED
  BY <1>14, <1>15, <1>16 DEF OwnersInv

-----------------------------------------------------------------------------
(* The steps.                                                              *)

LEMMA ExtraAtcKeeps ==
    ASSUME TypeOK, OwnersInv, ExtraAtc
    PROVE  TypeOK' /\ OwnersInv'
<1> USE DEF loop, output, history
<1>1. /\ team \in Teams /\ counter \in 1..MaxAtcs /\ counter' = counter + 1
      /\ UNCHANGED <<loop, duplicates, output, history>>
  BY InputAssumption DEF ExtraAtc, TypeOK
<1>2. PICK e \in Atcs : \E o :
        /\ o = IF e \in DOMAIN all_emails THEN all_emails[e] ELSE -counter
        /\ IF e \in DOMAIN all_emails THEN UNCHANGED <<owners, all_emails>>
           ELSE /\ all_emails' = Put(all_emails, e, o)
                /\ \E named \in BOOLEAN :
                    owners' = Put(owners, o,
                        [count |-> -1, newest |-> Stamp, oldest |-> Stamp,
                         extra |-> {}, preferred |-> e, named |-> named])
        /\ projects' = IF o \in DOMAIN projects[team] THEN projects
                       ELSE [projects EXCEPT ![team] = Put(@, o, Contribution)]
  BY DEF ExtraAtc
<1>0. PICK o :
        /\ o = IF e \in DOMAIN all_emails THEN all_emails[e] ELSE -counter
        /\ IF e \in DOMAIN all_emails THEN UNCHANGED <<owners, all_emails>>
           ELSE /\ all_emails' = Put(all_emails, e, o)
                /\ \E named \in BOOLEAN :
                    owners' = Put(owners, o,
                        [count |-> -1, newest |-> Stamp, oldest |-> Stamp,
                         extra |-> {}, preferred |-> e, named |-> named])
        /\ projects' = IF o \in DOMAIN projects[team] THEN projects
                       ELSE [projects EXCEPT ![team] = Put(@, o, Contribution)]
  BY <1>2
<1>3. e \in Addresses /\ e # None
  BY InputAssumption
<1>4. counter' \in 1..MaxAtcs + 1 /\ -counter' < -counter
  BY <1>1, InputAssumption
<1>5. ASSUME DOMAIN owners \cup {o} \subseteq DOMAIN owners'
      PROVE  /\ DOMAIN projects' = Teams
             /\ \A t \in Teams :
                 /\ DOMAIN projects'[t] \in SUBSET DOMAIN owners'
                 /\ projects'[t] \in [DOMAIN projects'[t] -> Tally]
  <2> DEFINE mine == projects[team]
  <2>1. Contribution \in Tally
    BY InputAssumption DEF Contribution, Tally
  <2>2. mine \in [DOMAIN mine -> Tally] /\ DOMAIN mine \in SUBSET DOMAIN owners
    BY <1>1 DEF TypeOK
  <2>3. projects' = projects \/ projects' = [projects EXCEPT ![team] = Put(mine, o, Contribution)]
    BY <1>0
  <2> HIDE DEF mine
  <2>4. /\ Put(mine, o, Contribution) \in [DOMAIN mine \cup {o} -> Tally]
        /\ DOMAIN Put(mine, o, Contribution) = DOMAIN mine \cup {o}
    BY <2>1, <2>2 DEF Put
  <2>5. CASE projects' = projects
    BY <1>5, <2>5 DEF TypeOK
  <2>6. CASE projects' = [projects EXCEPT ![team] = Put(mine, o, Contribution)]
    <3>1. DOMAIN projects' = Teams /\ projects'[team] = Put(mine, o, Contribution)
      BY <1>1, <2>6 DEF TypeOK
    <3>2. \A t \in Teams \ {team} : projects'[t] = projects[t]
      BY <1>1, <2>6 DEF TypeOK
    <3> QED
      BY <1>5, <2>2, <2>4, <3>1, <3>2 DEF TypeOK
  <2> QED
    BY <2>3, <2>5, <2>6
<1>6. CASE e \in DOMAIN all_emails
  <2>1. o \in DOMAIN owners /\ UNCHANGED <<owners, all_emails>>
    BY <1>0, <1>6 DEF TypeOK
  <2>2. TypeOK'
    BY <1>1, <1>4, <1>5, <2>1 DEF TypeOK
  <2>3. AddressesKept'
    BY <1>1, <2>1 DEF OwnersInv, AddressesKept, OwnerOf, AddressesOf
  <2>4. \A p \in DOMAIN owners : p \in Int /\ p > -counter
    BY InputAssumption DEF TypeOK, Ids, OwnersInv, Indexed
  <2>5. Indexed'
    BY <1>1, <1>4, <2>1, <2>4 DEF OwnersInv, Indexed, AddressesOf
  <2> QED
    BY <2>2, <2>3, <2>5 DEF OwnersInv
<1>7. CASE e \notin DOMAIN all_emails
  <2>0. PICK named \in BOOLEAN :
          owners' = Put(owners, o,
              [count |-> -1, newest |-> Stamp, oldest |-> Stamp,
               extra |-> {}, preferred |-> e, named |-> named])
    BY <1>0, <1>7
  <2> DEFINE entry == [count |-> -1, newest |-> Stamp, oldest |-> Stamp,
                       extra |-> {}, preferred |-> e, named |-> named]
  <2>1. o = -counter /\ owners' = Put(owners, o, entry) /\ all_emails' = Put(all_emails, e, o)
    BY <1>0, <1>7, <2>0
  <2>2. entry \in Owner /\ AddressesOf(entry) = {e}
    BY <1>3, InputAssumption DEF Owner, AddressesOf
  <2> HIDE DEF entry
  <2>3. \A p \in DOMAIN owners : p \in Int /\ p > -counter
    BY InputAssumption DEF TypeOK, Ids, OwnersInv, Indexed
  <2>4. o \in Ids /\ o \notin Accounts /\ o \notin DOMAIN owners
    BY <1>1, <2>1, <2>3, InputAssumption DEF Ids
  <2>5. /\ DOMAIN owners' = DOMAIN owners \cup {o}
        /\ owners'[o] = entry
        /\ \A p \in DOMAIN owners : p # o /\ owners'[p] = owners[p]
        /\ owners' \in [DOMAIN owners' -> Owner]
    BY <2>1, <2>2, <2>4 DEF Put, TypeOK
  <2>6. /\ DOMAIN all_emails' = DOMAIN all_emails \cup {e}
        /\ all_emails'[e] = o
        /\ \A f \in DOMAIN all_emails : f # e /\ all_emails'[f] = all_emails[f]
        /\ all_emails' \in [DOMAIN all_emails' -> DOMAIN owners']
    BY <1>7, <2>1, <2>5 DEF Put, TypeOK
  <2>7. /\ DOMAIN duplicates' \in SUBSET (Accounts \ DOMAIN owners')
        /\ duplicates' \in [DOMAIN duplicates' -> DOMAIN owners']
    BY <1>1, <2>4, <2>5 DEF TypeOK
  <2>8. DOMAIN seen' = (DOMAIN owners' \cap Accounts) \cup DOMAIN duplicates'
    BY <1>1, <2>4, <2>5 DEF TypeOK
  <2>9. TypeOK'
    BY <1>1, <1>3, <1>4, <1>5, <2>4, <2>5, <2>6, <2>7, <2>8 DEF TypeOK
  <2>10. AddressesKept'
    <3>1. \A b \in DOMAIN seen : seen'[b] = seen[b] /\ OwnerOf(b)' = OwnerOf(b)
      BY <1>1 DEF OwnerOf
    <3>2. \A b \in DOMAIN seen' : seen'[b] \subseteq AddressesOf(owners'[OwnerOf(b)'])
      BY <1>1, <2>5, <3>1, OwnerKnown DEF OwnersInv, AddressesKept
    <3>3. \A f \in DOMAIN all_emails : all_emails[f] \in DOMAIN owners
      BY DEF TypeOK
    <3>4. \A f \in DOMAIN all_emails' : f \in AddressesOf(owners'[all_emails'[f]])
      BY <2>2, <2>5, <2>6, <3>3 DEF OwnersInv, AddressesKept
    <3> QED
      BY <3>2, <3>4 DEF AddressesKept, AddressesOf
  <2>11. Indexed'
    <3>1. \A p \in DOMAIN owners' : \A f \in AddressesOf(owners'[p]) :
            f \in DOMAIN all_emails' /\ (~bridged' => all_emails'[f] = p)
      BY <1>1, <2>2, <2>5, <2>6 DEF OwnersInv, Indexed
    <3>2. \A p \in DOMAIN owners' : p > -counter'
      BY <1>1, <1>4, <2>1, <2>3, <2>5
    <3> QED
      BY <3>1, <3>2 DEF Indexed, AddressesOf
  <2> QED
    BY <2>9, <2>10, <2>11 DEF OwnersInv
<1> QED
  BY <1>6, <1>7

LEMMA OwnersRollKeeps ==
    ASSUME TypeOK, OwnersInv, OwnersRoll
    PROVE  TypeOK' /\ OwnersInv'
<1> USE DEF history
<1>1. /\ owners' = [o \in DOMAIN owners |-> WithPreferred(owners[o])]
      /\ UNCHANGED <<team, left, projects, duplicates, all_emails, counter, rolls, history>>
      /\ phase' = "files"
  BY DEF OwnersRoll
<1>2. \A o \in DOMAIN owners :
        /\ owners'[o] \in Owner
        /\ AddressesOf(owners'[o]) = AddressesOf(owners[o])
  BY <1>1, OwnerPrefers DEF TypeOK
<1>3. DOMAIN owners' = DOMAIN owners /\ owners' \in [DOMAIN owners' -> Owner]
  BY <1>1, <1>2
<1>4. electorate' \in SUBSET Addresses
  <2>1. electorate' = {owners'[o].preferred : o \in {p \in DOMAIN owners : WellFormed(owners'[p])}}
    BY DEF OwnersRoll
  <2>2. \A o \in DOMAIN owners : WellFormed(owners'[o]) => owners'[o].preferred \in Addresses
    BY <1>2 DEF WellFormed, Owner
  <2> QED
    BY <2>1, <2>2
<1>5. TypeOK'
  BY <1>1, <1>3, <1>4 DEF TypeOK
<1>6. OwnersInv'
  BY <1>1, <1>2, <1>3, SameAddresses
<1> QED
  BY <1>5, <1>6

LEMMA TeamFileTyped ==
    ASSUME TypeOK, TeamFile
    PROVE  TypeOK'
<1> USE DEF people, history
<1>1. /\ UNCHANGED <<team, people, counter, electorate, history>>
      /\ phase' \in {phase, "crashed"}
  BY DEF TeamFile
<1>2. PICK t \in left :
        \/ UNCHANGED <<left, rolls>>
        \/ /\ \A o \in DOMAIN projects[t] : owners[o].preferred # None
           /\ rolls' = [rolls EXCEPT ![t] = {owners[o].preferred : o \in DOMAIN projects[t]}]
           /\ left' = left \ {t}
  BY DEF TeamFile
<1>3. rolls' \in [Teams -> (SUBSET Addresses) \cup {None}]
  <2>1. \A o \in DOMAIN projects[t] : owners[o] \in Owner
    BY DEF TypeOK
  <2>2. CASE UNCHANGED <<left, rolls>>
    BY <2>2 DEF TypeOK
  <2>3. CASE /\ \A o \in DOMAIN projects[t] : owners[o].preferred # None
             /\ rolls' = [rolls EXCEPT ![t] = {owners[o].preferred : o \in DOMAIN projects[t]}]
    <3>1. {owners[o].preferred : o \in DOMAIN projects[t]} \in SUBSET Addresses
      BY <2>1, <2>3 DEF Owner
    <3> QED
      BY <2>3, <3>1 DEF TypeOK
  <2> QED
    BY <1>2, <2>2, <2>3
<1>4. left' \in SUBSET Teams
  BY <1>2 DEF TypeOK
<1> QED
  BY <1>1, <1>3, <1>4 DEF TypeOK

-----------------------------------------------------------------------------
(* The rolls.                                                              *)

\* A change that counts has its owner in its team; the roll of all owners and
\* those of the teams that have been written name who is there.
Placed ==
    \A c \in Changes :
        taken[c] > 0 => c[2] \in DOMAIN seen /\ OwnerOf(c[2]) \in DOMAIN projects[c[1]]

InElectorate ==
    phase \in {"files", "done"} =>
        \A o \in DOMAIN owners : WellFormed(owners[o]) => owners[o].preferred \in electorate

InRolls ==
    /\ phase = "rolls" => left = Teams
    /\ phase = "done" => left = {}
    /\ phase \in {"files", "done"} =>
        \A t \in Teams \ left : rolls[t] = {owners[o].preferred : o \in DOMAIN projects[t]}

VotersInv == Placed /\ InElectorate /\ InRolls

LEMMA AttributeGrows ==
    ASSUME TypeOK, NEW a \in Accounts, NEW o \in Ids, NEW d \in Dates, team \in Teams,
           Attribute(a, o, d)
    PROVE  /\ \A t \in Teams : DOMAIN projects[t] \subseteq DOMAIN projects'[t]
           /\ o \in DOMAIN projects'[team]
           /\ \A c \in Changes : taken'[c] > 0 => taken[c] > 0 \/ c = <<team, a, d>>
<1>1. PICK value : projects' = [projects EXCEPT ![team] = Put(@, o, value)]
  BY DEF Attribute
<1>2. \A f : DOMAIN Put(f, o, value) = DOMAIN f \cup {o}
  BY DEF Put
<1>3. /\ projects'[team] = Put(projects[team], o, value)
      /\ \A t \in Teams \ {team} : projects'[t] = projects[t]
  BY <1>1 DEF TypeOK
<1>4. taken' = [taken EXCEPT ![<<team, a, d>>] = @ + 1]
  BY DEF Attribute
<1>5. \A c \in Changes : c # <<team, a, d>> => taken'[c] = taken[c]
  BY <1>4 DEF TypeOK
<1> QED
  BY <1>2, <1>3, <1>5

\* Whoever has been met keeps his owner.
LEMMA ChangePlaced ==
    ASSUME TypeOK, Placed, NEW a \in Accounts, NEW o \in Ids, NEW d \in Dates, team \in Teams,
           Attribute(a, o, d), DOMAIN seen' = DOMAIN seen \cup {a}, OwnerOf(a)' = o,
           \A b \in DOMAIN seen \ {a} : OwnerOf(b)' = OwnerOf(b),
           a \in DOMAIN seen => OwnerOf(a) = o
    PROVE  Placed'
<1> SUFFICES ASSUME NEW c \in Changes, taken'[c] > 0
             PROVE  c[2] \in DOMAIN seen' /\ OwnerOf(c[2])' \in DOMAIN projects'[c[1]]
  BY DEF Placed
<1>1. c[1] \in Teams /\ c[2] \in Accounts
  BY DEF Changes
<1>2. CASE taken[c] > 0
  <2>1. c[2] \in DOMAIN seen /\ OwnerOf(c[2]) \in DOMAIN projects'[c[1]]
    BY <1>1, <1>2, AttributeGrows DEF Placed
  <2>2. OwnerOf(c[2])' = OwnerOf(c[2])
    BY <2>1
  <2> QED
    BY <2>1, <2>2
<1>3. CASE c = <<team, a, d>>
  BY <1>3, AttributeGrows
<1> QED
  BY <1>2, <1>3, AttributeGrows

LEMMA ChangeVoters ==
    ASSUME TypeOK, VotersInv, Change
    PROVE  VotersInv'
<1>1. phase = "changes" /\ phase' = "changes" /\ team \in Teams
  BY DEF Change, loop, TypeOK
<1>2. PICK a \in Accounts, d \in Dates :
        \/ KnownAccount(a, d)
        \/ \E details \in Details : NewOwner(a, d, details) \/ Merge(a, d, details)
  BY DEF Change
<1>3. CASE KnownAccount(a, d)
  <2>1. /\ a \in DOMAIN seen /\ Attribute(a, OwnerOf(a), d)
        /\ UNCHANGED <<duplicates, seen>>
    BY <1>3 DEF KnownAccount
  <2>2. OwnerOf(a) \in Ids
    BY <2>1, OwnerKnown DEF TypeOK
  <2>3. \A b \in Accounts : OwnerOf(b)' = OwnerOf(b)
    BY <2>1 DEF OwnerOf
  <2>4. DOMAIN seen' = DOMAIN seen \cup {a} /\ DOMAIN seen \subseteq Accounts
    BY <2>1 DEF TypeOK
  <2>5. Placed'
    BY <1>1, <2>1, <2>2, <2>3, <2>4, ChangePlaced DEF VotersInv
  <2> QED
    BY <1>1, <2>5 DEF VotersInv, InElectorate, InRolls
<1>4. ASSUME NEW details \in Details, NewOwner(a, d, details)
      PROVE  VotersInv'
  <2>1. Learn(a, a, details) /\ Attribute(a, a, d) /\ UNCHANGED duplicates
    BY <1>4 DEF NewOwner
  <2>2. /\ a \notin DOMAIN duplicates /\ a \notin DOMAIN seen
        /\ DOMAIN seen' = DOMAIN seen \cup {a}
    BY <2>1, LearnedSeen DEF Learn
  <2>3. OwnerOf(a)' = a /\ \A b \in DOMAIN seen : OwnerOf(b)' = OwnerOf(b)
    BY <2>1, <2>2 DEF OwnerOf
  <2>4. Placed'
    BY <1>1, <2>1, <2>2, <2>3, ChangePlaced DEF VotersInv, Ids
  <2> QED
    BY <1>1, <2>4 DEF VotersInv, InElectorate, InRolls
<1>5. ASSUME NEW details \in Details, Merge(a, d, details)
      PROVE  VotersInv'
  <2>1. PICK known \in details.addresses \cap DOMAIN all_emails :
          /\ Learn(a, all_emails[known], details)
          /\ Attribute(a, all_emails[known], d)
          /\ duplicates' = Put(duplicates, a, all_emails[known])
    BY <1>5 DEF Merge
  <2>2. /\ a \notin DOMAIN duplicates /\ a \notin DOMAIN seen
        /\ DOMAIN seen' = DOMAIN seen \cup {a}
    BY <2>1, LearnedSeen DEF Learn
  <2>3. /\ DOMAIN duplicates' = DOMAIN duplicates \cup {a}
        /\ duplicates'[a] = all_emails[known]
        /\ \A b \in DOMAIN duplicates \ {a} : duplicates'[b] = duplicates[b]
    BY <2>1 DEF Put
  <2>4. /\ OwnerOf(a)' = all_emails[known]
        /\ \A b \in DOMAIN seen : OwnerOf(b)' = OwnerOf(b)
    BY <2>2, <2>3 DEF OwnerOf
  <2>5. all_emails[known] \in Ids
    BY DEF TypeOK
  <2>6. Placed'
    BY <1>1, <2>1, <2>2, <2>4, <2>5, ChangePlaced DEF VotersInv
  <2> QED
    BY <1>1, <2>6 DEF VotersInv, InElectorate, InRolls
<1> QED
  BY <1>2, <1>3, <1>4, <1>5

\* An extra ATC only adds to a team.
LEMMA ExtraAtcVoters ==
    ASSUME TypeOK, VotersInv, ExtraAtc
    PROVE  VotersInv'
<1>1. /\ phase = "atcs" /\ phase' = "atcs" /\ team \in Teams
      /\ UNCHANGED <<duplicates, seen, taken>>
  BY DEF ExtraAtc, loop, history, TypeOK
<1>2. PICK owner :
        projects' = IF owner \in DOMAIN projects[team] THEN projects
                    ELSE [projects EXCEPT ![team] = Put(@, owner, Contribution)]
  BY DEF ExtraAtc
<1>3. DOMAIN Put(projects[team], owner, Contribution) = DOMAIN projects[team] \cup {owner}
  BY DEF Put
<1>4. \A t \in Teams : DOMAIN projects[t] \subseteq DOMAIN projects'[t]
  BY <1>1, <1>2, <1>3 DEF TypeOK
<1>5. \A b : OwnerOf(b)' = OwnerOf(b)
  BY <1>1 DEF OwnerOf
<1>6. \A c \in Changes : c[1] \in Teams
  BY DEF Changes
<1>7. Placed'
  BY <1>1, <1>4, <1>5, <1>6 DEF VotersInv, Placed
<1> QED
  BY <1>1, <1>7 DEF VotersInv, InElectorate, InRolls

LEMMA VotersStep ==
    ASSUME TypeOK, VotersInv, [Next]_vars
    PROVE  VotersInv'
<1> USE DEF loop, people, output, history, VotersInv
<1>1. ASSUME UNCHANGED <<projects, duplicates, seen, taken>>
      PROVE  Placed'
  BY <1>1 DEF Placed, OwnerOf
<1>2. CASE NextTeam \/ EndTeams
  <2>1. /\ phase \in {"changes", "atcs"} /\ UNCHANGED <<people, output, history>>
        /\ phase' \in {"changes", "atcs", "rolls"}
        /\ phase' = "rolls" => left' = Teams
    BY <1>2 DEF NextTeam, EndTeams
  <2> QED
    BY <1>1, <2>1 DEF InElectorate, InRolls
<1>3. CASE Change
  BY <1>3, ChangeVoters
<1>4. CASE ExtraAtc
  BY <1>4, ExtraAtcVoters
<1>5. CASE OwnersRoll
  <2>1. /\ phase = "rolls" /\ phase' = "files" /\ UNCHANGED <<left, projects, duplicates, rolls, history>>
        /\ DOMAIN owners' = DOMAIN owners
        /\ electorate' = {owners'[o].preferred : o \in {p \in DOMAIN owners : WellFormed(owners'[p])}}
    BY <1>5 DEF OwnersRoll
  <2>2. \A o \in DOMAIN owners' : WellFormed(owners'[o]) => owners'[o].preferred \in electorate'
    BY <2>1
  <2> QED
    BY <1>1, <2>1, <2>2 DEF InElectorate, InRolls, WellFormed
<1>6. CASE TeamFile
  <2>1. PICK t \in left :
          \/ phase' = "crashed"
          \/ /\ rolls' = [rolls EXCEPT ![t] = {owners[o].preferred : o \in DOMAIN projects[t]}]
             /\ left' = left \ {t} /\ phase' = phase
    BY <1>6 DEF TeamFile
  <2>2. phase = "files" /\ UNCHANGED <<people, electorate, history>>
    BY <1>6 DEF TeamFile
  <2>3. \A u \in Teams : rolls'[u] = rolls[u] \/ phase' = "crashed" \/ u = t
    BY <2>1 DEF TypeOK
  <2>4. phase' # "crashed" => rolls'[t] = {owners[o].preferred : o \in DOMAIN projects[t]}
    BY <2>1, <2>2 DEF TypeOK
  <2>5. InRolls'
    BY <2>1, <2>2, <2>3, <2>4 DEF InRolls
  <2> QED
    BY <1>1, <2>1, <2>2, <2>5 DEF InElectorate, WellFormed
<1>7. CASE Finish
  BY <1>1, <1>7 DEF Finish, InElectorate, InRolls, WellFormed
<1>8. CASE UNCHANGED vars
  BY <1>1, <1>8 DEF vars, InElectorate, InRolls, WellFormed
<1> QED
  BY <1>2, <1>3, <1>4, <1>5, <1>6, <1>7, <1>8 DEF Next

-----------------------------------------------------------------------------
(* Sums over finite sets: as the fold of Functions.tla adds them up.  What  *)
(* is said of them is proved on a least set for which it would be wrong.    *)

Pick(s) == CHOOSE x \in s : TRUE

\* g sums up f over the sets of D, one element after another.
Sums(g, f, D) ==
    g = [s \in D |-> IF s = {} THEN 0 ELSE f[Pick(s)] + g[s \ {Pick(s)}]]

AllSums(g, f, S) == Sums(g, f, SUBSET S)

LEMMA SumByDef ==
    ASSUME NEW f, NEW S
    PROVE  SumFunctionOnSet(f, S) = (CHOOSE g : AllSums(g, f, S))[S]
BY DEF SumFunctionOnSet, FoldFunctionOnSet, MapThenFoldSet, AllSums, Sums, Pick

LEMMA Picked ==
    ASSUME NEW s, s # {}
    PROVE  Pick(s) \in s
BY DEF Pick

\* There are such sums over all subsets of a finite set.
LEMMA SumsExist ==
    ASSUME NEW f, NEW S, IsFiniteSet(S)
    PROVE  \E g : AllSums(g, f, S)
<1> DEFINE D(n) == {s \in SUBSET S : Cardinality(s) <= n}
           Bad == {n \in Nat : ~ \E g : Sums(g, f, D(n))}
<1>1. \A s \in SUBSET S : IsFiniteSet(s) /\ Cardinality(s) \in Nat /\ Cardinality(s) <= Cardinality(S)
  BY FS_Subset, FS_CardinalityType
<1>2. Cardinality(S) \in Nat
  BY <1>1
<1>3. Bad = {}
  <2> SUFFICES ASSUME Bad # {} PROVE FALSE
    OBVIOUS
  <2>1. PICK n \in Bad : \A m \in Bad : n =< m
    BY LeastNatural
  <2>2. CASE n = 0
    <3> DEFINE g == [s \in D(0) |-> 0]
    <3>1. \A s \in D(0) : s = {}
      BY <1>1, FS_EmptySet
    <3>2. g = [s \in D(0) |-> IF s = {} THEN 0 ELSE f[Pick(s)] + g[s \ {Pick(s)}]]
      BY <3>1
    <3> QED
      BY <2>2, <3>2 DEF Sums
  <2>3. CASE n # 0
    <3>a. n \in Nat /\ n - 1 \in Nat
      BY <2>3
    <3>1. n - 1 \notin Bad
      <4> HIDE DEF Bad
      <4> QED
        BY <2>1, <3>a
    <3>2. PICK h : Sums(h, f, D(n - 1))
      BY <3>a, <3>1
    <3> DEFINE g == [s \in D(n) |-> IF s = {} THEN 0 ELSE f[Pick(s)] + h[s \ {Pick(s)}]]
    <3>3. ASSUME NEW s \in D(n), s # {}
          PROVE  s \ {Pick(s)} \in D(n - 1) /\ s \ {Pick(s)} \in D(n)
      <4>1. Pick(s) \in s
        BY <3>3, Picked
      <4>2. Cardinality(s \ {Pick(s)}) = Cardinality(s) - 1
        BY <4>1, <1>1, FS_RemoveElement
      <4> QED
        BY <4>2, <3>a, <1>1
    <3>4. \A t \in D(n - 1) : t \in D(n) => h[t] = g[t]
      BY <3>2 DEF Sums
    <3>5. g = [s \in D(n) |-> IF s = {} THEN 0 ELSE f[Pick(s)] + g[s \ {Pick(s)}]]
      BY <3>3, <3>4
    <3>6. n \notin Bad
      BY <3>5 DEF Sums
    <3> QED
      BY <3>6
  <2> QED
    BY <2>2, <2>3
<1>4. D(Cardinality(S)) = SUBSET S
  BY <1>1
<1> QED
  BY <1>2, <1>3, <1>4 DEF AllSums

\* They are determined by the summands.
LEMMA SumsUnique ==
    ASSUME NEW f, NEW S, NEW g, AllSums(g, f, S),
           NEW e, NEW T, NEW h, AllSums(h, e, T),
           NEW U, IsFiniteSet(U), U \subseteq S, U \subseteq T, \A x \in U : f[x] = e[x]
    PROVE  g[U] = h[U]
<1> DEFINE Bad == {s \in SUBSET U : g[s] # h[s]}
           Sizes == {Cardinality(s) : s \in Bad}
<1>1. \A s \in SUBSET U : IsFiniteSet(s) /\ Cardinality(s) \in Nat
  BY FS_Subset, FS_CardinalityType
<1> SUFFICES ASSUME U \in Bad PROVE FALSE
  OBVIOUS
<1>2. Sizes \in SUBSET Nat /\ Sizes # {}
  BY <1>1
<1>3. PICK n \in Sizes : \A m \in Sizes : n =< m
  BY <1>2, LeastNatural
<1>4. PICK s \in Bad : Cardinality(s) = n
  OBVIOUS
<1>5. /\ s \in SUBSET S /\ s \in SUBSET T /\ g[s] # h[s]
      /\ g[s] = IF s = {} THEN 0 ELSE f[Pick(s)] + g[s \ {Pick(s)}]
      /\ h[s] = IF s = {} THEN 0 ELSE e[Pick(s)] + h[s \ {Pick(s)}]
  BY DEF AllSums, Sums
<1>6. s # {}
  BY <1>5
<1>7. Pick(s) \in s /\ f[Pick(s)] = e[Pick(s)]
  BY <1>6, Picked
<1>8. Cardinality(s \ {Pick(s)}) = Cardinality(s) - 1
  BY <1>1, <1>7, FS_RemoveElement
<1>9. s \ {Pick(s)} \notin Bad
  <2>1. Cardinality(s \ {Pick(s)}) < n
    BY <1>1, <1>4, <1>8
  <2>2. Cardinality(s \ {Pick(s)}) \notin Sizes
    <3> HIDE DEF Sizes
    <3> QED
      BY <1>1, <1>2, <1>3, <2>1
  <2> QED
    BY <2>2
<1> QED
  BY <1>5, <1>6, <1>7, <1>9

LEMMA SumIs ==
    ASSUME NEW f, NEW S, IsFiniteSet(S)
    PROVE  \E g : AllSums(g, f, S) /\ SumFunctionOnSet(f, S) = g[S]
BY SumsExist, SumByDef

\* The sum depends on the summands alone.
LEMMA SumSame ==
    ASSUME NEW f, NEW e, NEW S, IsFiniteSet(S), \A x \in S : f[x] = e[x]
    PROVE  SumFunctionOnSet(f, S) = SumFunctionOnSet(e, S)
<1>1. PICK g : AllSums(g, f, S) /\ SumFunctionOnSet(f, S) = g[S]
  BY SumIs
<1>2. PICK h : AllSums(h, e, S) /\ SumFunctionOnSet(e, S) = h[S]
  BY SumIs
<1>3. g[S] = h[S]
  BY <1>1, <1>2, SumsUnique
<1> QED
  BY <1>1, <1>2, <1>3

LEMMA SumPicked ==
    ASSUME NEW f, NEW S, IsFiniteSet(S)
    PROVE  /\ S = {} => SumFunctionOnSet(f, S) = 0
           /\ S # {} => SumFunctionOnSet(f, S) = f[Pick(S)] + SumFunctionOnSet(f, S \ {Pick(S)})
<1>1. PICK g : AllSums(g, f, S) /\ SumFunctionOnSet(f, S) = g[S]
  BY SumIs
<1>2. g[S] = IF S = {} THEN 0 ELSE f[Pick(S)] + g[S \ {Pick(S)}]
  BY <1>1 DEF AllSums, Sums
<1>3. IsFiniteSet(S \ {Pick(S)})
  BY FS_RemoveElement
<1> DEFINE R == S \ {Pick(S)}
<1>4. PICK h : AllSums(h, f, R) /\ SumFunctionOnSet(f, R) = h[R]
  BY <1>3, SumIs
<1>5. R \subseteq S /\ IsFiniteSet(R)
  BY <1>3
<1> HIDE DEF R
<1>6. g[R] = h[R]
  BY <1>1, <1>4, <1>5, SumsUnique
<1> QED
  BY <1>1, <1>2, <1>4, <1>6 DEF R

LEMMA SumType ==
    ASSUME NEW S, IsFiniteSet(S), NEW f, \A x \in S : f[x] \in Int
    PROVE  SumFunctionOnSet(f, S) \in Int
<1> DEFINE Bad == {s \in SUBSET S : SumFunctionOnSet(f, s) \notin Int}
           Sizes == {Cardinality(s) : s \in Bad}
<1>1. \A s \in SUBSET S : IsFiniteSet(s) /\ Cardinality(s) \in Nat
  BY FS_Subset, FS_CardinalityType
<1> SUFFICES ASSUME S \in Bad PROVE FALSE
  OBVIOUS
<1>2. Sizes \in SUBSET Nat /\ Sizes # {}
  BY <1>1
<1>3. PICK n \in Sizes : \A m \in Sizes : n =< m
  BY <1>2, LeastNatural
<1>4. PICK s \in Bad : Cardinality(s) = n
  OBVIOUS
<1>5. s # {}
  <2>1. SumFunctionOnSet(f, {}) = 0
    BY FS_EmptySet, SumPicked
  <2> QED
    BY <2>1
<1>6. SumFunctionOnSet(f, s) = f[Pick(s)] + SumFunctionOnSet(f, s \ {Pick(s)})
  BY <1>1, <1>5, SumPicked
<1>7. Pick(s) \in s
  BY <1>5, Picked
<1>8. Cardinality(s \ {Pick(s)}) = Cardinality(s) - 1
  BY <1>1, <1>7, FS_RemoveElement
<1>9. s \ {Pick(s)} \notin Bad
  <2>1. Cardinality(s \ {Pick(s)}) < n
    BY <1>1, <1>4, <1>8
  <2>2. Cardinality(s \ {Pick(s)}) \notin Sizes
    <3> HIDE DEF Sizes
    <3> QED
      BY <1>1, <1>2, <1>3, <2>1
  <2> QED
    BY <2>2
<1> QED
  BY <1>6, <1>7, <1>9

\* Any element may be the one that is added last.
LEMMA SumOneLess ==
    ASSUME NEW S, IsFiniteSet(S), NEW f, \A x \in S : f[x] \in Int, NEW y \in S
    PROVE  SumFunctionOnSet(f, S) = f[y] + SumFunctionOnSet(f, S \ {y})
<1> DEFINE Bad == {s \in SUBSET S : \E x \in s :
                      SumFunctionOnSet(f, s) # f[x] + SumFunctionOnSet(f, s \ {x})}
           Sizes == {Cardinality(s) : s \in Bad}
<1>1. \A s \in SUBSET S : IsFiniteSet(s) /\ Cardinality(s) \in Nat
  BY FS_Subset, FS_CardinalityType
<1> SUFFICES ASSUME S \in Bad PROVE FALSE
  OBVIOUS
<1>2. Sizes \in SUBSET Nat /\ Sizes # {}
  BY <1>1
<1>3. PICK n \in Sizes : \A m \in Sizes : n =< m
  BY <1>2, LeastNatural
<1>4. PICK s \in Bad : Cardinality(s) = n
  OBVIOUS
<1>5. PICK x \in s : SumFunctionOnSet(f, s) # f[x] + SumFunctionOnSet(f, s \ {x})
  OBVIOUS
<1> DEFINE p == Pick(s)
<1>6. p \in s
  BY <1>5, Picked
<1>7. SumFunctionOnSet(f, s) = f[p] + SumFunctionOnSet(f, s \ {p})
  BY <1>1, <1>5, SumPicked
<1> HIDE DEF p
<1>8. x # p
  BY <1>5, <1>7
<1>9. \A z \in s : Cardinality(s \ {z}) = Cardinality(s) - 1
  BY <1>1, FS_RemoveElement
<1>10. \A z \in s : s \ {z} \notin Bad
  <2> SUFFICES ASSUME NEW z \in s PROVE s \ {z} \notin Bad
    OBVIOUS
  <2>1. Cardinality(s \ {z}) < n
    BY <1>1, <1>4, <1>9
  <2>2. Cardinality(s \ {z}) \notin Sizes
    <3>1. Cardinality(s \ {z}) \in Nat
      BY <1>1
    <3> HIDE DEF Sizes
    <3> QED
      BY <1>2, <1>3, <2>1, <3>1
  <2> QED
    BY <2>2
<1> HIDE DEF Sizes
<1>11. SumFunctionOnSet(f, s \ {p}) = f[x] + SumFunctionOnSet(f, (s \ {p}) \ {x})
  BY <1>6, <1>8, <1>10
<1>12. SumFunctionOnSet(f, s \ {x}) = f[p] + SumFunctionOnSet(f, (s \ {x}) \ {p})
  BY <1>6, <1>8, <1>10
<1>13. (s \ {x}) \ {p} = (s \ {p}) \ {x}
  OBVIOUS
<1>14. SumFunctionOnSet(f, (s \ {p}) \ {x}) \in Int
  <2>1. (s \ {p}) \ {x} \in SUBSET S
    OBVIOUS
  <2> QED
    BY <1>1, <2>1, SumType
<1>15. f[x] \in Int /\ f[p] \in Int
  BY <1>6
<1>16. \A r \in Int : f[p] + (f[x] + r) = f[x] + (f[p] + r)
  BY <1>15
<1> QED
  BY <1>5, <1>7, <1>11, <1>12, <1>13, <1>14, <1>16, Zenon\* One more is counted at c, which is among the counted ones from then on.
LEMMA SumGrows ==
    ASSUME NEW S, IsFiniteSet(S), NEW c, NEW f, NEW e,
           \A x \in S \cup {c} : f[x] \in Int,
           e[c] = f[c] + 1, \A x \in S \ {c} : e[x] = f[x],
           c \notin S => f[c] = 0
    PROVE  SumFunctionOnSet(e, S \cup {c}) = SumFunctionOnSet(f, S) + 1
<1> DEFINE R == S \ {c}
           U == S \cup {c}
<1>1. IsFiniteSet(R) /\ IsFiniteSet(U)
  BY FS_RemoveElement, FS_AddElement
<1>2. U \ {c} = R
  OBVIOUS
<1>3. \A x \in U : e[x] \in Int
  OBVIOUS
<1>4. SumFunctionOnSet(e, U) = e[c] + SumFunctionOnSet(e, U \ {c})
  <2>1. c \in U
    OBVIOUS
  <2> HIDE DEF U
  <2> QED
    BY <1>1, <1>3, <2>1, SumOneLess
<1>5. SumFunctionOnSet(e, R) = SumFunctionOnSet(f, R)
  <2>1. \A x \in R : e[x] = f[x]
    OBVIOUS
  <2> HIDE DEF R
  <2> QED
    BY <1>1, <2>1, SumSame
<1>6. SumFunctionOnSet(f, S) = f[c] + SumFunctionOnSet(f, R)
  <2>0. \A x \in S : f[x] \in Int
    OBVIOUS
  <2>1. CASE c \in S
    BY <2>0, <2>1, SumOneLess
  <2>2. CASE c \notin S
    <3>1. R = S /\ f[c] = 0
      BY <2>2
    <3>2. SumFunctionOnSet(f, S) \in Int
      BY <2>0, SumType
    <3> HIDE DEF R
    <3>3. f[c] + SumFunctionOnSet(f, S) = SumFunctionOnSet(f, S)
      BY <3>1, <3>2
    <3> QED
      BY <3>1, <3>3, Zenon
  <2> QED
    BY <2>1, <2>2, Zenon
<1>7. SumFunctionOnSet(f, R) \in Int /\ f[c] \in Int
  <2>1. \A x \in R : f[x] \in Int
    OBVIOUS
  <2> HIDE DEF R
  <2> QED
    BY <1>1, <2>1, SumType
<1> HIDE DEF R
<1>8. SumFunctionOnSet(e, U) = e[c] + SumFunctionOnSet(f, R)
  BY <1>2, <1>4, <1>5, Zenon
<1> QED
  BY <1>6, <1>7, <1>8

-----------------------------------------------------------------------------
(* The counts.                                                             *)

\* The changes have this tally: as many as there are, and from the first to the
\* last of their dates.
Fits(tally, counts, changes) ==
    /\ tally.count = SumFunctionOnSet(counts, changes)
    /\ \E c \in changes : c[3] = tally.newest
    /\ \E c \in changes : c[3] = tally.oldest
    /\ \A c \in changes : tally.oldest <= c[3] /\ c[3] <= tally.newest

TeamFits(t, o) ==
    /\ ChangesOf(o, {t}) = {} =>
          (o \in DOMAIN projects[t] => projects[t][o] = Contribution)
    /\ ChangesOf(o, {t}) # {} =>
          o \in DOMAIN projects[t] /\ Fits(projects[t][o], taken, ChangesOf(o, {t}))

\* As long as changes are counted nobody is there without one, so that no count
\* is ever added to the -1 of a contributor.
CountsInv ==
    /\ IsFiniteSet({c \in Changes : taken[c] > 0})
    /\ \A o \in DOMAIN owners \cap Accounts : Fits(owners[o], taken, ChangesOf(o, Teams))
    /\ \A t \in Teams, o \in DOMAIN owners : TeamFits(t, o)
    /\ phase = "changes" =>
          /\ DOMAIN owners \subseteq Accounts
          /\ \A t \in Teams : \A o \in DOMAIN projects[t] : ChangesOf(o, {t}) # {}

LEMMA FitsTally ==
    ASSUME NEW tally, NEW changes \in SUBSET Changes, Fits(tally, taken, changes)
    PROVE  TallyIs(tally, changes)
<1> DEFINE dates == {c[3] : c \in changes}
<1>1. dates \in SUBSET Nat
  BY InputAssumption DEF Changes
<1>2. tally.newest \in dates /\ tally.oldest \in dates
  BY DEF Fits
<1>3. \A d \in dates : tally.oldest <= d /\ d <= tally.newest
  BY DEF Fits
<1> HIDE DEF dates
<1>4. Max(dates) = tally.newest
  <2>1. \E x \in dates : \A d \in dates : x >= d
    BY <1>1, <1>2, <1>3
  <2>2. Max(dates) \in dates /\ \A d \in dates : Max(dates) >= d
    BY <2>1, Zenon DEF Max
  <2>3. Max(dates) \in Nat /\ tally.newest \in Nat
    BY <1>1, <1>2, <2>2
  <2>4. Max(dates) <= tally.newest /\ tally.newest <= Max(dates)
    BY <1>2, <1>3, <2>2, <2>3
  <2> QED
    BY <2>3, <2>4
<1>5. Min(dates) = tally.oldest
  <2>1. \E x \in dates : \A d \in dates : x <= d
    BY <1>1, <1>2, <1>3
  <2>2. Min(dates) \in dates /\ \A d \in dates : Min(dates) <= d
    BY <2>1, Zenon DEF Min
  <2>3. Min(dates) \in Nat /\ tally.oldest \in Nat
    BY <1>1, <1>2, <2>2
  <2>4. Min(dates) <= tally.oldest /\ tally.oldest <= Min(dates)
    BY <1>2, <1>3, <2>2, <2>3
  <2> QED
    BY <2>3, <2>4
<1> QED
  BY <1>4, <1>5, Zenon DEF TallyIs, Fits, dates

\* A tally that another change is counted into.
Grown(u, t, date) ==
    /\ u.count = t.count + 1
    /\ u.newest = IF date > t.newest THEN date ELSE t.newest
    /\ u.oldest = IF date < t.oldest THEN date ELSE t.oldest

LEMMA FitsGrown ==
    ASSUME NEW f, NEW C \in SUBSET Changes, IsFiniteSet(C), NEW c \in Changes,
           \A x \in Changes : f[x] \in Nat, c \notin C => f[c] = 0,
           NEW e, e[c] = f[c] + 1, \A x \in Changes \ {c} : e[x] = f[x],
           NEW t, t.newest \in Nat, t.oldest \in Nat, Fits(t, f, C),
           NEW u, Grown(u, t, c[3])
    PROVE  Fits(u, e, C \cup {c})
<1>1. SumFunctionOnSet(e, C \cup {c}) = SumFunctionOnSet(f, C) + 1
  <2>1. \A x \in C \cup {c} : f[x] \in Int
    OBVIOUS
  <2>2. \A x \in C \ {c} : e[x] = f[x]
    OBVIOUS
  <2> QED
    BY <2>1, <2>2, SumGrows
<1>2. u.count = SumFunctionOnSet(e, C \cup {c})
  BY <1>1 DEF Fits, Grown
<1>3. \A x \in C \cup {c} : x[3] \in Nat
  BY InputAssumption DEF Changes
<1>4. /\ \E x \in C \cup {c} : x[3] = u.newest
      /\ \A x \in C \cup {c} : x[3] <= u.newest
  BY <1>3 DEF Fits, Grown
<1>5. /\ \E x \in C \cup {c} : x[3] = u.oldest
      /\ \A x \in C \cup {c} : u.oldest <= x[3]
  BY <1>3 DEF Fits, Grown
<1> QED
  BY <1>2, <1>4, <1>5 DEF Fits

LEMMA FitsFirst ==
    ASSUME NEW c \in Changes, NEW e, e[c] = 1,
           NEW u, u.count = 1, u.newest = c[3], u.oldest = c[3]
    PROVE  Fits(u, e, {c})
<1>1. IsFiniteSet({c}) /\ IsFiniteSet({}) /\ {c} \ {c} = {}
  BY FS_Singleton, FS_EmptySet
<1>2. SumFunctionOnSet(e, {}) = 0
  BY <1>1, SumPicked
<1>3. SumFunctionOnSet(e, {c}) = e[c] + SumFunctionOnSet(e, {c} \ {c})
  <2>1. \A x \in {c} : e[x] \in Int
    OBVIOUS
  <2> QED
    BY <1>1, <2>1, SumOneLess
<1>4. SumFunctionOnSet(e, {c}) = 1
  BY <1>1, <1>2, <1>3
<1>5. c[3] \in Nat
  BY InputAssumption DEF Changes
<1> QED
  BY <1>4, <1>5 DEF Fits

LEMMA FitsSame ==
    ASSUME NEW f, NEW e, NEW C, IsFiniteSet(C), \A x \in C : e[x] = f[x],
           NEW t, Fits(t, f, C), NEW u,
           u.count = t.count, u.newest = t.newest, u.oldest = t.oldest
    PROVE  Fits(u, e, C)
<1>1. SumFunctionOnSet(f, C) = SumFunctionOnSet(e, C)
  BY SumSame
<1> QED
  BY <1>1 DEF Fits


LEMMA CountedGrown ==
    ASSUME NEW t, t \in Tally \/ t \in Owner, NEW d
    PROVE  Grown(Counted(t, d), t, d)
<1> DEFINE n == IF d > t.newest THEN d ELSE t.newest
           k == IF d < t.oldest THEN d ELSE t.oldest
           u == Counted(t, d)
<1>1. u = [t EXCEPT !.count = t.count + 1, !.newest = n, !.oldest = k]
  BY DEF Counted
<1> HIDE DEF n, k, u
<1>2. u.count = t.count + 1 /\ u.newest = n /\ u.oldest = k
  <2>1. CASE t \in Tally
    BY <1>1, <2>1 DEF Tally
  <2>2. CASE t \in Owner
    BY <1>1, <2>2 DEF Owner
  <2> QED
    BY <2>1, <2>2
<1> QED
  BY <1>2, Zenon DEF n, k, u, Grown

\* A change of account a is counted for owner o.
LEMMA CountChange ==
    ASSUME TypeOK, Placed, CountsInv, phase = "changes", NEW tm \in Teams, team = tm,
           NEW a \in Accounts, NEW o \in Accounts, NEW d \in Dates,
           Attribute(a, o, d), OwnerOf(a)' = o,
           \A b \in DOMAIN seen : OwnerOf(b)' = OwnerOf(b),
           DOMAIN owners' = DOMAIN owners \cup {o},
           \A p \in DOMAIN owners \ {o} : owners'[p] = owners[p],
           o \in DOMAIN owners => Grown(owners'[o], owners[o], d),
           o \notin DOMAIN owners =>
               owners'[o].count = 1 /\ owners'[o].newest = d /\ owners'[o].oldest = d
    PROVE  CountsInv'
<1> DEFINE c == <<tm, a, d>>
<1>1. /\ c \in Changes /\ c[1] = tm /\ c[2] = a /\ c[3] = d
      /\ taken'[c] = taken[c] + 1
      /\ \A x \in Changes \ {c} : taken'[x] = taken[x]
      /\ \A x \in Changes : taken[x] \in Nat
  BY DEF Attribute, TypeOK, Changes
<1> HIDE DEF c
<1>2. ASSUME NEW x \in Changes, taken[x] > 0
      PROVE  /\ x[2] \in DOMAIN seen
             /\ OwnerOf(x[2])' = OwnerOf(x[2])
             /\ OwnerOf(x[2]) \in DOMAIN owners
  BY <1>2, OwnerKnown DEF Placed
<1>3. \A p, T : ChangesOf(p, T) \subseteq T \X Accounts \X Dates
  BY DEF ChangesOf
<1>4. ASSUME NEW T \in SUBSET Teams, NEW p, NEW x \in Changes
      PROVE  /\ x \in ChangesOf(p, T) <=> x[1] \in T /\ taken[x] > 0 /\ OwnerOf(x[2]) = p
             /\ x \in ChangesOf(p, T)' <=> x[1] \in T /\ taken'[x] > 0 /\ OwnerOf(x[2])' = p
  BY DEF ChangesOf, Changes
<1>5. ASSUME NEW T \in SUBSET Teams, NEW p
      PROVE  ChangesOf(p, T) \subseteq Changes /\ ChangesOf(p, T)' \subseteq Changes
  BY DEF ChangesOf, Changes
<1>6. ASSUME NEW T \in SUBSET Teams, NEW p
      PROVE  ChangesOf(p, T)' =
                ChangesOf(p, T) \cup {x \in {c} : p = o /\ tm \in T}
  <2>1. ASSUME NEW x \in Changes
        PROVE  x \in ChangesOf(p, T)' <=>
                  x \in ChangesOf(p, T) \/ (p = o /\ tm \in T /\ x = c)
    <3>1. CASE x = c
      <4>1. taken'[x] > 0 /\ OwnerOf(x[2])' = o /\ x[1] = tm
        BY <1>1, <3>1
      <4>2. x \in ChangesOf(p, T) => p = o /\ tm \in T
        BY <1>1, <1>2, <1>4, <3>1
      <4> QED
        BY <1>4, <3>1, <4>1, <4>2
    <3>2. CASE x # c
      BY <1>1, <1>2, <1>4, <3>2
    <3> QED
      BY <3>1, <3>2
  <2> QED
    BY <1>1, <1>5, <2>1
<1>7. ASSUME NEW T \in SUBSET Teams, NEW p
      PROVE  IsFiniteSet(ChangesOf(p, T))
  <2>1. ChangesOf(p, T) \in SUBSET {x \in Changes : taken[x] > 0}
    BY <1>4, <1>5
  <2> QED
    BY <2>1, FS_Subset DEF CountsInv
<1>8. ASSUME NEW T \in SUBSET Teams, tm \in T, c \notin ChangesOf(o, T)
      PROVE  taken[c] = 0
  BY <1>1, <1>2, <1>4, <1>8
<1>9. ASSUME NEW T \in SUBSET Teams, NEW p, p # o \/ tm \notin T
      PROVE  /\ ChangesOf(p, T)' = ChangesOf(p, T)
             /\ \A x \in ChangesOf(p, T) : taken'[x] = taken[x]
  <2>0. {x \in {c} : p = o /\ tm \in T} = {}
    BY <1>9
  <2>1. ChangesOf(p, T)' = ChangesOf(p, T)
    BY <1>6, <2>0
  <2>2. c \notin ChangesOf(p, T)
    BY <1>1, <1>2, <1>4, <1>9
  <2> QED
    BY <1>1, <1>5, <2>1, <2>2
<1>10. ASSUME o \notin DOMAIN owners, NEW T \in SUBSET Teams
       PROVE  ChangesOf(o, T) = {}
  BY <1>2, <1>4, <1>5, <1>10
<1>11. ASSUME NEW T \in SUBSET Teams, tm \in T, NEW t, t \in Tally \/ t \in Owner,
              Fits(t, taken, ChangesOf(o, T)), NEW u, Grown(u, t, d)
       PROVE  Fits(u, taken', ChangesOf(o, T)')
  <2>1. t.newest \in Nat /\ t.oldest \in Nat
    BY <1>11 DEF Tally, Owner
  <2>2. /\ ChangesOf(o, T) \in SUBSET Changes /\ IsFiniteSet(ChangesOf(o, T))
        /\ c \notin ChangesOf(o, T) => taken[c] = 0
        /\ Grown(u, t, c[3])
    BY <1>1, <1>5, <1>7, <1>8, <1>11
  <2>3. Fits(u, taken', ChangesOf(o, T) \cup {c})
    BY <1>1, <1>11, <2>1, <2>2, FitsGrown
  <2>4. ChangesOf(o, T)' = ChangesOf(o, T) \cup {c}
    BY <1>6, <1>11
  <2> QED
    BY <2>3, <2>4
<1>12. ASSUME NEW T \in SUBSET Teams, tm \in T, ChangesOf(o, T) = {},
              NEW u, u.count = 1, u.newest = d, u.oldest = d
       PROVE  Fits(u, taken', ChangesOf(o, T)')
  <2>1. taken'[c] = 1
    BY <1>1, <1>8, <1>12
  <2>2. ChangesOf(o, T)' = {c}
    BY <1>6, <1>12
  <2>3. Fits(u, taken', {c})
    BY <1>1, <1>12, <2>1, FitsFirst
  <2> QED
    BY <2>2, <2>3
<1>13. IsFiniteSet({x \in Changes : taken[x] > 0})'
  <2>1. {x \in Changes : taken'[x] > 0} = {x \in Changes : taken[x] > 0} \cup {c}
    BY <1>1
  <2>2. IsFiniteSet({x \in Changes : taken[x] > 0} \cup {c})
    BY FS_AddElement DEF CountsInv
  <2> QED
    BY <2>1, <2>2
<1>14. ASSUME NEW p \in DOMAIN owners' \cap Accounts
       PROVE  Fits(owners'[p], taken', ChangesOf(p, Teams)')
  <2>1. CASE p # o
    <3>1. p \in DOMAIN owners \cap Accounts /\ owners'[p] = owners[p]
      BY <2>1
    <3>2. Fits(owners[p], taken, ChangesOf(p, Teams))
      BY <3>1 DEF CountsInv
    <3>3. IsFiniteSet(ChangesOf(p, Teams)) /\ ChangesOf(p, Teams)' = ChangesOf(p, Teams)
      BY <1>7, <1>9, <2>1
    <3>4. \A x \in ChangesOf(p, Teams) : taken'[x] = taken[x]
      BY <1>9, <2>1
    <3>5. Fits(owners[p], taken', ChangesOf(p, Teams))
      BY <3>2, <3>3, <3>4, FitsSame
    <3> QED
      BY <3>1, <3>3, <3>5
  <2>2. CASE p = o /\ o \in DOMAIN owners
    <3>1. owners[o] \in Owner /\ Fits(owners[o], taken, ChangesOf(o, Teams))
      BY <2>2 DEF TypeOK, CountsInv
    <3> QED
      BY <1>11, <2>2, <3>1
  <2>3. CASE p = o /\ o \notin DOMAIN owners
    <3>1. ChangesOf(o, Teams) = {}
      BY <1>10, <2>3
    <3> QED
      BY <1>12, <2>3, <3>1
  <2> QED
    BY <2>1, <2>2, <2>3
<1> DEFINE mine == projects[tm]
           value == IF o \in DOMAIN mine THEN Counted(mine[o], d) ELSE One(d)
<1>15. /\ DOMAIN projects'[tm] = DOMAIN mine \cup {o}
       /\ projects'[tm][o] = value
       /\ \A p \in DOMAIN mine \ {o} : projects'[tm][p] = mine[p]
       /\ \A t \in Teams \ {tm} : projects'[t] = projects[t]
  <2>1. projects' = [projects EXCEPT ![tm] = Put(mine, o, value)]
    BY DEF Attribute
  <2> HIDE DEF mine, value
  <2>2. projects'[tm] = Put(mine, o, value)
    BY <2>1 DEF TypeOK
  <2>3. \A t \in Teams \ {tm} : projects'[t] = projects[t]
    BY <2>1 DEF TypeOK
  <2> QED
    BY <2>2, <2>3 DEF Put
<1>16. \A t \in Teams : DOMAIN projects[t] \subseteq DOMAIN owners
  BY DEF TypeOK
<1>17. ASSUME NEW t \in Teams, NEW p \in DOMAIN owners', p # o \/ t # tm
       PROVE  TeamFits(t, p)'
  <2>1. {t} \in SUBSET Teams /\ (p # o \/ tm \notin {t})
    BY <1>17
  <2>2. /\ ChangesOf(p, {t})' = ChangesOf(p, {t})
        /\ \A x \in ChangesOf(p, {t}) : taken'[x] = taken[x]
        /\ IsFiniteSet(ChangesOf(p, {t}))
    BY <1>7, <1>9, <2>1
  <2>3. /\ p \in DOMAIN projects'[t] <=> p \in DOMAIN projects[t]
        /\ p \in DOMAIN projects[t] => projects'[t][p] = projects[t][p]
    BY <1>15, <1>17
  <2>4. TeamFits(t, p)
    <3>1. CASE p \in DOMAIN owners
      BY <3>1 DEF CountsInv
    <3>2. CASE p \notin DOMAIN owners
      <4>1. ChangesOf(p, {t}) = {} /\ p \notin DOMAIN projects[t]
        BY <1>10, <1>16, <2>1, <3>2
      <4> QED
        BY <4>1 DEF TeamFits
    <3> QED
      BY <3>1, <3>2
  <2>5. ASSUME NEW u, Fits(u, taken, ChangesOf(p, {t}))
        PROVE  Fits(u, taken', ChangesOf(p, {t}))
    BY <2>2, <2>5, FitsSame
  <2> QED
    BY <2>2, <2>3, <2>4, <2>5 DEF TeamFits
<1>18. /\ ChangesOf(o, {tm})' # {} /\ o \in DOMAIN projects'[tm]
       /\ Fits(projects'[tm][o], taken', ChangesOf(o, {tm})')
  <2>1. {tm} \in SUBSET Teams /\ tm \in {tm}
    OBVIOUS
  <2>2. ChangesOf(o, {tm})' # {}
    BY <1>6, <2>1
  <2>3. CASE o \in DOMAIN mine
    <3>1. mine[o] \in Tally
      BY <2>3 DEF TypeOK
    <3>2. Fits(mine[o], taken, ChangesOf(o, {tm}))
      <4>1. o \in DOMAIN owners /\ ChangesOf(o, {tm}) # {}
        BY <1>16, <2>3 DEF CountsInv
      <4> QED
        BY <4>1 DEF CountsInv, TeamFits
    <3>3. Grown(value, mine[o], d)
      BY <2>3, <3>1, CountedGrown
    <3> HIDE DEF mine, value
    <3>4. Fits(value, taken', ChangesOf(o, {tm})')
      BY <1>11, <2>1, <3>1, <3>2, <3>3
    <3> QED
      BY <1>15, <2>2, <3>4
  <2>4. CASE o \notin DOMAIN mine
    <3>1. ChangesOf(o, {tm}) = {}
      <4>1. CASE o \in DOMAIN owners
        BY <2>4, <4>1 DEF CountsInv, TeamFits
      <4>2. CASE o \notin DOMAIN owners
        BY <1>10, <2>1, <4>2
      <4> QED
        BY <4>1, <4>2
    <3>2. value.count = 1 /\ value.newest = d /\ value.oldest = d
      BY <2>4 DEF One
    <3> HIDE DEF mine, value
    <3>3. Fits(value, taken', ChangesOf(o, {tm})')
      BY <1>12, <2>1, <3>1, <3>2
    <3> QED
      BY <1>15, <2>2, <3>3
  <2> QED
    BY <2>3, <2>4
<1> HIDE DEF mine, value
<1>19. TeamFits(tm, o)'
  BY <1>18 DEF TeamFits
<1>20. \A t \in Teams : \A p \in DOMAIN owners' : TeamFits(t, p)'
  BY <1>17, <1>19
<1>21. \A t \in Teams : \A p \in DOMAIN projects'[t] : ChangesOf(p, {t})' # {}
  <2> SUFFICES ASSUME NEW t \in Teams, NEW p \in DOMAIN projects'[t]
               PROVE  ChangesOf(p, {t})' # {}
    OBVIOUS
  <2>1. CASE t = tm /\ p = o
    BY <1>18, <2>1
  <2>2. CASE ~(t = tm /\ p = o)
    <3>1. p \in DOMAIN projects[t]
      BY <1>15, <2>2 DEF mine
    <3>2. ChangesOf(p, {t}) # {}
      BY <3>1 DEF CountsInv
    <3>3. {t} \in SUBSET Teams /\ (p # o \/ tm \notin {t})
      BY <2>2
    <3> QED
      BY <1>9, <3>2, <3>3
  <2> QED
    BY <2>1, <2>2
<1>22. DOMAIN owners' \subseteq Accounts
  BY DEF CountsInv
<1> QED
  BY <1>13, <1>14, <1>20, <1>21, <1>22 DEF CountsInv

LEMMA KnownCounts ==
    ASSUME TypeOK, Placed, CountsInv, phase = "changes", NEW tm \in Teams, team = tm,
           NEW a \in Accounts, NEW d \in Dates, KnownAccount(a, d)
    PROVE  CountsInv'
<1>1. PICK o : o = OwnerOf(a)
  OBVIOUS
<1>2. /\ a \in DOMAIN seen /\ Attribute(a, o, d) /\ UNCHANGED <<duplicates, seen>>
      /\ owners' = [owners EXCEPT ![o] = Counted(@, d)]
  BY <1>1 DEF KnownAccount
<1>3. o \in DOMAIN owners /\ o \in Accounts /\ owners[o] \in Owner
  BY <1>1, <1>2, OwnerKnown DEF CountsInv, TypeOK
<1>4. OwnerOf(a)' = o /\ \A b \in DOMAIN seen : OwnerOf(b)' = OwnerOf(b)
  BY <1>1, <1>2 DEF OwnerOf
<1>5. /\ DOMAIN owners' = DOMAIN owners \cup {o}
      /\ \A p \in DOMAIN owners \ {o} : owners'[p] = owners[p]
      /\ owners'[o] = Counted(owners[o], d)
  BY <1>2, <1>3
<1>6. Grown(owners'[o], owners[o], d)
  BY <1>3, <1>5, CountedGrown
<1> QED
  BY <1>2, <1>3, <1>4, <1>5, <1>6, CountChange

LEMMA NewOwnerCounts ==
    ASSUME TypeOK, Placed, CountsInv, phase = "changes", NEW tm \in Teams, team = tm,
           NEW a \in Accounts, NEW d \in Dates, NEW details \in Details, NewOwner(a, d, details)
    PROVE  CountsInv'
<1>1. Learn(a, a, details) /\ Attribute(a, a, d) /\ UNCHANGED duplicates
  BY DEF NewOwner
<1>2. a \notin DOMAIN owners /\ a \notin DOMAIN duplicates /\ a \notin DOMAIN seen
  <2>1. a \notin DOMAIN owners /\ a \notin DOMAIN duplicates
    BY <1>1, LearnedSeen
  <2> QED
    BY <2>1 DEF TypeOK
<1>3. OwnerOf(a)' = a /\ \A b \in DOMAIN seen : OwnerOf(b)' = OwnerOf(b)
  BY <1>1, <1>2 DEF OwnerOf
<1>4. PICK value : /\ owners' = Put(owners, a, value)
                   /\ value.count = 1 /\ value.newest = d /\ value.oldest = d
  BY DEF NewOwner
<1>5. /\ DOMAIN owners' = DOMAIN owners \cup {a}
      /\ \A p \in DOMAIN owners \ {a} : owners'[p] = owners[p]
      /\ owners'[a] = value
  BY <1>4 DEF Put
<1> QED
  BY <1>1, <1>2, <1>3, <1>4, <1>5, CountChange

LEMMA MergeCounts ==
    ASSUME TypeOK, Placed, CountsInv, phase = "changes", NEW tm \in Teams, team = tm,
           NEW a \in Accounts, NEW d \in Dates, NEW details \in Details, Merge(a, d, details)
    PROVE  CountsInv'
<1>1. PICK known \in details.addresses \cap DOMAIN all_emails : \E o :
        /\ o = all_emails[known]
        /\ Learn(a, o, details)
        /\ Attribute(a, o, d)
        /\ duplicates' = Put(duplicates, a, o)
        /\ owners' = [owners EXCEPT ![o] = Absorbed(Counted(@, d), details)]
  BY DEF Merge
<1>2. PICK o :
        /\ o = all_emails[known]
        /\ Learn(a, o, details)
        /\ Attribute(a, o, d)
        /\ duplicates' = Put(duplicates, a, o)
        /\ owners' = [owners EXCEPT ![o] = Absorbed(Counted(@, d), details)]
  BY <1>1
<1>3. a \notin DOMAIN duplicates /\ a \notin DOMAIN seen
  <2>1. a \notin DOMAIN owners /\ a \notin DOMAIN duplicates
    BY <1>2, LearnedSeen
  <2> QED
    BY <2>1 DEF TypeOK
<1>4. /\ DOMAIN duplicates' = DOMAIN duplicates \cup {a}
      /\ duplicates'[a] = o
      /\ \A b \in DOMAIN duplicates \ {a} : duplicates'[b] = duplicates[b]
  BY <1>2 DEF Put
<1>5. OwnerOf(a)' = o /\ \A b \in DOMAIN seen : OwnerOf(b)' = OwnerOf(b)
  BY <1>3, <1>4 DEF OwnerOf
<1>6. o \in DOMAIN owners /\ o \in Accounts /\ owners[o] \in Owner
  BY <1>2 DEF CountsInv, TypeOK
<1>7. /\ DOMAIN owners' = DOMAIN owners \cup {o}
      /\ \A p \in DOMAIN owners \ {o} : owners'[p] = owners[p]
      /\ owners'[o] = Absorbed(Counted(owners[o], d), details)
  BY <1>2, <1>6
<1>8. Grown(owners'[o], owners[o], d)
  <2>1. Grown(Counted(owners[o], d), owners[o], d)
    BY <1>6, CountedGrown
  <2>2. d \in Nat
    BY InputAssumption
  <2>3. Counted(owners[o], d) \in Owner
    BY <1>6, <2>2, OwnerCounted
  <2>4. ASSUME NEW t \in Owner
        PROVE  /\ Absorbed(t, details).count = t.count
               /\ Absorbed(t, details).newest = t.newest
               /\ Absorbed(t, details).oldest = t.oldest
    BY DEF Absorbed, Owner
  <2> QED
    BY <1>7, <2>1, <2>3, <2>4, Zenon DEF Grown
<1> QED
  BY <1>2, <1>5, <1>6, <1>7, <1>8, CountChange

LEMMA ChangeCounts ==
    ASSUME TypeOK, Placed, CountsInv, Change
    PROVE  CountsInv'
<1>1. phase = "changes" /\ team \in Teams
  BY DEF Change, TypeOK
<1>2. PICK tm \in Teams : team = tm
  BY <1>1
<1>3. PICK a \in Accounts, d \in Dates :
        \/ KnownAccount(a, d)
        \/ \E details \in Details : NewOwner(a, d, details) \/ Merge(a, d, details)
  BY DEF Change
<1> QED
  BY <1>1, <1>2, <1>3, KnownCounts, NewOwnerCounts, MergeCounts

\* A contribution without a change is added where no change is counted.
LEMMA ExtraAtcCounts ==
    ASSUME TypeOK, OwnersInv, Placed, CountsInv, ExtraAtc
    PROVE  CountsInv'
<1>1. /\ phase = "atcs" /\ phase' = "atcs" /\ team \in Teams
      /\ UNCHANGED <<duplicates, seen, taken>>
  BY DEF ExtraAtc, loop, history, TypeOK
<1>2. PICK e \in Atcs : \E o :
        /\ o = IF e \in DOMAIN all_emails THEN all_emails[e] ELSE -counter
        /\ \/ UNCHANGED owners
           \/ /\ e \notin DOMAIN all_emails
              /\ \E value : owners' = Put(owners, o, value)
        /\ projects' = IF o \in DOMAIN projects[team] THEN projects
                       ELSE [projects EXCEPT ![team] = Put(@, o, Contribution)]
  BY DEF ExtraAtc
<1>3. PICK o :
        /\ o = IF e \in DOMAIN all_emails THEN all_emails[e] ELSE -counter
        /\ \/ UNCHANGED owners
           \/ /\ e \notin DOMAIN all_emails
              /\ \E value : owners' = Put(owners, o, value)
        /\ projects' = IF o \in DOMAIN projects[team] THEN projects
                       ELSE [projects EXCEPT ![team] = Put(@, o, Contribution)]
  BY <1>2
<1>4. \A p, T : ChangesOf(p, T)' = ChangesOf(p, T')
  BY <1>1 DEF ChangesOf, OwnerOf
<1>5. \A p, T : p \notin DOMAIN owners /\ T \subseteq Teams => ChangesOf(p, T) = {}
  BY OwnerKnown DEF ChangesOf, Placed, Changes
<1>6. /\ DOMAIN owners \subseteq DOMAIN owners'
      /\ \A p \in DOMAIN owners : owners'[p] = owners[p]
      /\ DOMAIN owners' \subseteq DOMAIN owners \cup {-counter}
  <2>1. CASE UNCHANGED owners
    BY <2>1
  <2>2. CASE e \notin DOMAIN all_emails /\ \E value : owners' = Put(owners, o, value)
    <3>1. o = -counter /\ o \notin DOMAIN owners
      BY <1>3, <2>2 DEF OwnersInv, Indexed, TypeOK, Ids
    <3> QED
      BY <2>2, <3>1 DEF Put
  <2> QED
    BY <1>3, <2>1, <2>2
<1>7. IsFiniteSet({c \in Changes : taken[c] > 0})'
  BY <1>1 DEF CountsInv
<1>8. ASSUME NEW p \in DOMAIN owners' \cap Accounts
      PROVE  Fits(owners'[p], taken', ChangesOf(p, Teams)')
  <2>1. p \in DOMAIN owners
    BY <1>6, InputAssumption DEF TypeOK
  <2>2. Fits(owners[p], taken, ChangesOf(p, Teams))
    BY <2>1 DEF CountsInv
  <2> QED
    BY <1>1, <1>4, <1>6, <2>1, <2>2
<1>9. ASSUME NEW t \in Teams, NEW p \in DOMAIN owners'
      PROVE  TeamFits(t, p)'
  <2>1. ChangesOf(p, {t})' = ChangesOf(p, {t}) /\ {t} \subseteq Teams
    BY <1>4
  <2>2. TeamFits(t, p)
    <3>1. CASE p \in DOMAIN owners
      BY <3>1 DEF CountsInv
    <3>2. CASE p \notin DOMAIN owners
      <4>1. ChangesOf(p, {t}) = {} /\ p \notin DOMAIN projects[t]
        BY <1>5, <2>1, <3>2 DEF TypeOK
      <4> QED
        BY <4>1 DEF TeamFits
    <3> QED
      BY <3>1, <3>2
  <2>3. CASE projects'[t] = projects[t]
    BY <1>1, <2>1, <2>2, <2>3 DEF TeamFits
  <2>4. CASE /\ o \notin DOMAIN projects[t]
             /\ projects'[t] = Put(projects[t], o, Contribution)
    <3>1. /\ DOMAIN projects'[t] = DOMAIN projects[t] \cup {o}
          /\ projects'[t][o] = Contribution
          /\ \A q \in DOMAIN projects[t] : projects'[t][q] = projects[t][q]
      BY <2>4 DEF Put
    <3>2. CASE p = o
      <4>1. ChangesOf(p, {t}) = {}
        BY <2>2, <2>4, <3>2 DEF TeamFits
      <4> QED
        BY <2>1, <3>1, <3>2, <4>1 DEF TeamFits, Contribution
    <3>3. CASE p # o
      <4>1. /\ p \in DOMAIN projects'[t] <=> p \in DOMAIN projects[t]
            /\ p \in DOMAIN projects[t] => projects'[t][p] = projects[t][p]
        BY <3>1, <3>3
      <4> QED
        BY <1>1, <2>1, <2>2, <4>1 DEF TeamFits, Contribution
    <3> QED
      BY <3>2, <3>3
  <2>5. \/ projects'[t] = projects[t]
        \/ o \notin DOMAIN projects[t] /\ projects'[t] = Put(projects[t], o, Contribution)
    BY <1>1, <1>3 DEF TypeOK
  <2> QED
    BY <2>3, <2>4, <2>5
<1> QED
  BY <1>1, <1>7, <1>8, <1>9 DEF CountsInv

LEMMA CountsStep ==
    ASSUME TypeOK, OwnersInv, Placed, CountsInv, [Next]_vars
    PROVE  CountsInv'
<1> USE DEF loop, people, output, history
<1>1. ASSUME UNCHANGED <<projects, duplicates, taken>>, DOMAIN owners' = DOMAIN owners,
             \A o \in DOMAIN owners : /\ owners'[o].count = owners[o].count
                                      /\ owners'[o].newest = owners[o].newest
                                      /\ owners'[o].oldest = owners[o].oldest,
             phase' = "changes" => phase = "changes"
      PROVE  CountsInv'
  <2>1. \A p : ChangesOf(p, Teams)' = ChangesOf(p, Teams)
    BY <1>1 DEF ChangesOf, OwnerOf
  <2>2. ASSUME NEW t PROVE \A p : ChangesOf(p, {t})' = ChangesOf(p, {t})
    BY <1>1 DEF ChangesOf, OwnerOf
  <2>3. IsFiniteSet({c \in Changes : taken[c] > 0})'
    BY <1>1 DEF CountsInv
  <2>4. \A o \in DOMAIN owners' \cap Accounts : Fits(owners'[o], taken', ChangesOf(o, Teams)')
    BY <1>1, <2>1 DEF CountsInv, Fits
  <2>5. ASSUME NEW t \in Teams, NEW o \in DOMAIN owners'
        PROVE  TeamFits(t, o)'
    <3>1. TeamFits(t, o) /\ ChangesOf(o, {t})' = ChangesOf(o, {t})
      BY <1>1, <2>2 DEF CountsInv
    <3> QED
      BY <1>1, <3>1 DEF TeamFits, Contribution
  <2>6. phase' = "changes" =>
          /\ DOMAIN owners' \subseteq Accounts
          /\ \A t \in Teams : \A o \in DOMAIN projects'[t] : ChangesOf(o, {t})' # {}
    BY <1>1, <2>2 DEF CountsInv
  <2> QED
    BY <2>3, <2>4, <2>5, <2>6 DEF CountsInv
<1>2. CASE NextTeam \/ EndTeams \/ TeamFile \/ Finish \/ UNCHANGED vars
  <2>1. UNCHANGED people /\ UNCHANGED history /\ (phase' = "changes" => phase = "changes")
    BY <1>2 DEF NextTeam, EndTeams, TeamFile, Finish, vars
  <2> QED
    BY <1>1, <2>1
<1>3. CASE Change
  BY <1>3, ChangeCounts
<1>4. CASE ExtraAtc
  BY <1>4, ExtraAtcCounts
<1>5. CASE OwnersRoll
  <2>1. /\ owners' = [o \in DOMAIN owners |-> WithPreferred(owners[o])]
        /\ phase' = "files" /\ UNCHANGED <<projects, duplicates, history>>
    BY <1>5 DEF OwnersRoll
  <2>2. ASSUME NEW t \in Owner
        PROVE  /\ WithPreferred(t).count = t.count
               /\ WithPreferred(t).newest = t.newest
               /\ WithPreferred(t).oldest = t.oldest
    BY DEF WithPreferred, Owner
  <2>3. \A o \in DOMAIN owners : owners[o] \in Owner
    BY DEF TypeOK
  <2> QED
    BY <1>1, <2>1, <2>2, <2>3
<1> QED
  BY <1>2, <1>3, <1>4, <1>5 DEF Next

-----------------------------------------------------------------------------
(* The theorems.                                                           *)

LEMMA OwnersInvariant == Spec => [](TypeOK /\ OwnersInv)
<1> USE DEF loop, people, output, history
<1>1. Init => TypeOK /\ OwnersInv
  <2> SUFFICES ASSUME Init PROVE TypeOK /\ OwnersInv
    OBVIOUS
  <2>1. DOMAIN <<>> = {}
    OBVIOUS
  <2>2. \A S : <<>> \in [{} -> S]
    OBVIOUS
  <2>3. TypeOK
    <3>1. /\ owners \in [DOMAIN owners -> Owner] /\ DOMAIN owners = {}
          /\ duplicates \in [DOMAIN duplicates -> DOMAIN owners] /\ DOMAIN duplicates = {}
          /\ all_emails \in [DOMAIN all_emails -> DOMAIN owners] /\ DOMAIN all_emails = {}
          /\ seen \in [DOMAIN seen -> SUBSET Addresses] /\ DOMAIN seen = {}
      BY <2>1, <2>2 DEF Init
    <3>2. \A t \in Teams : DOMAIN projects[t] = {} /\ projects[t] \in [DOMAIN projects[t] -> Tally]
      BY <2>1, <2>2 DEF Init
    <3>a. counter \in 1..MaxAtcs + 1
      BY InputAssumption DEF Init
    <3>b. rolls \in [Teams -> (SUBSET Addresses) \cup {None}]
      <4>1. rolls = [t \in Teams |-> None] /\ None \in (SUBSET Addresses) \cup {None}
        BY DEF Init
      <4> QED
        BY <4>1
    <3>3. taken \in [Changes -> Nat] /\ DOMAIN projects = Teams
      BY DEF Init
    <3>4. /\ phase \in {"changes", "atcs", "rolls", "files", "done", "crashed"}
          /\ team \in Teams \cup {None} /\ left \in SUBSET Teams
          /\ electorate \in SUBSET Addresses /\ bridged \in BOOLEAN
      BY DEF Init
    <3> QED
      BY <3>1, <3>2, <3>a, <3>b, <3>3, <3>4 DEF TypeOK
  <2>4. OwnersInv
    BY <2>1 DEF Init, OwnersInv, AddressesKept, Indexed
  <2> QED
    BY <2>3, <2>4
<1>2. ASSUME TypeOK, OwnersInv, [Next]_vars
      PROVE  TypeOK' /\ OwnersInv'
  <2>1. CASE NextTeam \/ EndTeams \/ Finish
    <3>1. UNCHANGED <<people, counter, output, history>>
      BY <2>1 DEF NextTeam, EndTeams, Finish
    <3>2. phase' \in {phase, "atcs", "rolls", "done"} /\ team' \in Teams \cup {None} /\ left' \in SUBSET Teams
      BY <1>2, <2>1 DEF NextTeam, EndTeams, Finish, TypeOK
    <3>3. OwnersInv'
      BY <1>2, <3>1, SameAddresses
    <3> QED
      BY <1>2, <3>1, <3>2, <3>3 DEF TypeOK
  <2>2. CASE Change
    <3>1. team \in Teams
      BY <1>2, <2>2 DEF Change, TypeOK
    <3> QED
      BY <1>2, <2>2, <3>1, KnownKeeps, NewOwnerKeeps, MergeKeeps DEF Change
  <2>3. CASE ExtraAtc
    BY <1>2, <2>3, ExtraAtcKeeps
  <2>4. CASE OwnersRoll
    BY <1>2, <2>4, OwnersRollKeeps
  <2>5. CASE TeamFile
    <3>1. OwnersInv'
      BY <1>2, <2>5, SameAddresses DEF TeamFile
    <3> QED
      BY <1>2, <2>5, <3>1, TeamFileTyped
  <2>6. CASE UNCHANGED vars
    <3>1. OwnersInv'
      BY <1>2, <2>6, SameAddresses DEF vars
    <3> QED
      BY <1>2, <2>6, <3>1 DEF TypeOK, vars
  <2> QED
    BY <1>2, <2>1, <2>2, <2>3, <2>4, <2>5, <2>6 DEF Next
<1> QED
  BY <1>1, <1>2, PTL DEF Spec

\* Types: whatever the accounts share, every id in an index, a team or a merge
\* is that of an owner, and an account is an owner or a duplicate, never both.
THEOREM TypeCorrect == Spec => []TypeOK
BY OwnersInvariant, PTL

\* The addresses of an account are never lost, and an address leads to an
\* owner that has it.
THEOREM NothingLost == Spec => []AddressesKept
<1>1. OwnersInv => AddressesKept
  BY DEF OwnersInv
<1> QED
  BY <1>1, OwnersInvariant, PTL

\* As long as no late account had addresses of two owners, accounts that share
\* an address are one owner.
THEOREM OneOwnerPerAddress == Spec => []MergedUnlessBridged
<1>1. OwnersInv => MergedUnlessBridged
  BY DEF OwnersInv, Indexed, MergedUnlessBridged
<1> QED
  BY <1>1, OwnersInvariant, PTL

\* owners.py:545-620: in the order of changes, merges and files that the script
\* has, whoever owns a counted change and is well-formed is on both rolls.
THEOREM VotersListed == Spec => []EveryVoterListed
<1>1. Init => VotersInv
  BY DEF Init, VotersInv, Placed, InElectorate, InRolls
<1>2. TypeOK /\ VotersInv /\ [Next]_vars => VotersInv'
  BY VotersStep
<1>3. TypeOK /\ VotersInv => EveryVoterListed
  <2> SUFFICES ASSUME TypeOK, VotersInv, phase = "done", NEW c \in Changes, taken[c] > 0,
                      WellFormed(owners[OwnerOf(c[2])])
               PROVE  owners[OwnerOf(c[2])].preferred \in electorate \cap rolls[c[1]]
    BY DEF EveryVoterListed
  <2>1. /\ c[1] \in Teams /\ OwnerOf(c[2]) \in DOMAIN owners
        /\ OwnerOf(c[2]) \in DOMAIN projects[c[1]]
    BY OwnerKnown DEF VotersInv, Placed, Changes
  <2>2. rolls[c[1]] = {owners[o].preferred : o \in DOMAIN projects[c[1]]}
    BY <2>1 DEF VotersInv, InRolls
  <2> QED
    BY <2>1, <2>2 DEF VotersInv, InElectorate
<1> QED
  BY <1>1, <1>2, <1>3, OwnersInvariant, PTL DEF Spec

\* owners.py:366-541: whatever the order in which teams, changes and accounts
\* come, a change is counted once, for the owner that its account turned out to
\* be and in its team, and the dates of an owner are those of the first and of
\* the last.
THEOREM ChangesCounted == Spec => []EveryChangeCounts
<1>1. Init => CountsInv /\ VotersInv
  <2> SUFFICES ASSUME Init PROVE CountsInv /\ VotersInv
    OBVIOUS
  <2>1. VotersInv
    BY DEF Init, VotersInv, Placed, InElectorate, InRolls
  <2>2. DOMAIN owners = {} /\ \A t \in Teams : DOMAIN projects[t] = {}
    BY DEF Init
  <2>3. {c \in Changes : taken[c] > 0} = {}
    BY DEF Init
  <2>4. IsFiniteSet({c \in Changes : taken[c] > 0})
    BY <2>3, FS_EmptySet
  <2> QED
    BY <2>1, <2>2, <2>4 DEF CountsInv
<1>2. TypeOK /\ OwnersInv /\ VotersInv /\ CountsInv /\ [Next]_vars => CountsInv' /\ VotersInv'
  BY VotersStep, CountsStep DEF VotersInv
<1>3. TypeOK /\ CountsInv => EveryChangeCounts
  <2> SUFFICES ASSUME TypeOK, CountsInv PROVE EveryChangeCounts
    OBVIOUS
  <2>1. \A o, T : T \subseteq Teams => ChangesOf(o, T) \in SUBSET Changes
    BY DEF ChangesOf, Changes
  <2>2. ASSUME NEW o \in DOMAIN owners \cap Accounts
        PROVE  TallyIs(owners[o], ChangesOf(o, Teams))
    BY <2>1, FitsTally DEF CountsInv
  <2>3. ASSUME NEW t \in Teams, NEW o \in DOMAIN owners
        PROVE  IF ChangesOf(o, {t}) = {}
               THEN o \in DOMAIN projects[t] => projects[t][o] = Contribution
               ELSE o \in DOMAIN projects[t] /\ TallyIs(projects[t][o], ChangesOf(o, {t}))
    <3>1. TeamFits(t, o) /\ {t} \subseteq Teams
      BY DEF CountsInv
    <3>2. ChangesOf(o, {t}) \in SUBSET Changes
      BY <2>1, <3>1
    <3> QED
      BY <3>1, <3>2, FitsTally DEF TeamFits
  <2> QED
    BY <2>2, <2>3, Zenon DEF EveryChangeCounts
<1> QED
  BY <1>1, <1>2, <1>3, OwnersInvariant, PTL DEF Spec


=============================================================================
