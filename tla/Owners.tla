------------------------------- MODULE Owners -------------------------------
(***************************************************************************)
(* tools/owners.py: who owned changes, for the electoral rolls.            *)
(*                                                                         *)
(* The script walks the teams of the governance repository and the merged  *)
(* changes of each, merges the accounts that share an e-mail address,      *)
(* counts changes per owner and per owner and team, adds the contributors  *)
(* without changes that a team names, and writes the roll of all owners    *)
(* and one for each team.                                                  *)
(*                                                                         *)
(* What gerrit knows of an account is asked for once, when the account is  *)
(* met first.                                                              *)
(***************************************************************************)
EXTENDS Integers, FiniteSets, Functions, FiniteSetsExt

CONSTANTS
    Teams,      \* the governance project teams
    Accounts,   \* gerrit's account numbers
    Addresses,  \* e-mail addresses, normalized, in the order of their text
    Dates,      \* merge dates in the range that was asked for
    Details,    \* what gerrit may say of an account
    Atcs,       \* the addresses that teams may name as "extra-atcs"
    Stamp,      \* the date of a contribution that is no change
    None,
    MaxChanges, \* bound: changes
    MaxAtcs     \* bound: "extra-atcs"

ASSUME InputAssumption ==
    /\ Accounts \subseteq Nat \ {0}
    /\ Addresses \subseteq Nat
    /\ None \notin Addresses \cup Teams
    /\ Dates \subseteq Nat /\ Stamp \in Nat
    /\ Atcs \subseteq Addresses
    /\ MaxChanges \in Nat /\ MaxAtcs \in Nat

\* The addresses, the one that gerrit prefers if any, and whether there are a
\* user name and a full name.
ASSUME DetailsAssumption ==
    \A d \in Details :
        /\ d \in [addresses : SUBSET Addresses,
                  preferred : Addresses \cup {None}, named : BOOLEAN]
        /\ d.preferred # None => d.preferred \in d.addresses

VARIABLES
    phase,      \* what the current loop over the teams does
    team,       \* the team it is at
    left,       \* the teams it has not come to
    owners,     \* id -> changes, newest and oldest date, addresses
    projects,   \* team -> id -> changes, newest and oldest date
    duplicates, \* account -> the id it was merged into
    all_emails, \* address -> id
    counter,    \* for the ids of contributors without changes
    electorate, \* the roll of all owners
    rolls,      \* team -> its roll, when it is written
    seen,       \* history: account -> the addresses that gerrit has told
    taken,      \* history: how many changes of a team and an account at a date
    bridged     \* history: a new account had addresses of two owners

loop == <<phase, team, left>>
people == <<owners, projects, duplicates, all_emails>>
output == <<electorate, rolls>>
history == <<seen, taken, bridged>>
vars == <<loop, people, counter, output, history>>

Ids == Accounts \cup {-n : n \in 1..MaxAtcs}
Changes == Teams \X Accounts \X Dates

Tally == [count : Int, newest : Nat, oldest : Nat]
Owner == [count : Int, newest : Nat, oldest : Nat,
          extra : SUBSET Addresses, preferred : Addresses \cup {None}, named : BOOLEAN]

AddressesOf(owner) == owner.extra \cup ({owner.preferred} \ {None})

\* The id that an account's changes count for.
OwnerOf(a) == IF a \in DOMAIN duplicates THEN duplicates[a] ELSE a

Put(f, key, value) == [x \in DOMAIN f \cup {key} |-> IF x = key THEN value ELSE f[x]]

TypeOK ==
    /\ phase \in {"changes", "atcs", "rolls", "files", "done", "crashed"}
    /\ team \in Teams \cup {None}
    /\ left \in SUBSET Teams
    /\ DOMAIN owners \in SUBSET Ids
    /\ owners \in [DOMAIN owners -> Owner]
    /\ DOMAIN projects = Teams
    /\ \A t \in Teams :
        /\ DOMAIN projects[t] \in SUBSET DOMAIN owners
        /\ projects[t] \in [DOMAIN projects[t] -> Tally]
    /\ DOMAIN duplicates \in SUBSET (Accounts \ DOMAIN owners)
    /\ duplicates \in [DOMAIN duplicates -> DOMAIN owners]
    /\ DOMAIN all_emails \in SUBSET Addresses
    /\ all_emails \in [DOMAIN all_emails -> DOMAIN owners]
    /\ counter \in 1..MaxAtcs + 1
    /\ electorate \in SUBSET Addresses
    /\ rolls \in [Teams -> (SUBSET Addresses) \cup {None}]
    /\ DOMAIN seen = (DOMAIN owners \cap Accounts) \cup DOMAIN duplicates
    /\ seen \in [DOMAIN seen -> SUBSET Addresses]
    /\ taken \in [Changes -> Nat]
    /\ bridged \in BOOLEAN

Init ==
    /\ phase = "changes" /\ team = None /\ left = Teams
    /\ owners = <<>> /\ duplicates = <<>> /\ all_emails = <<>>
    /\ projects = [t \in Teams |-> <<>>]
    /\ counter = 1
    /\ electorate = {} /\ rolls = [t \in Teams |-> None]
    /\ seen = <<>> /\ taken = [c \in Changes |-> 0] /\ bridged = FALSE

-----------------------------------------------------------------------------
(* The loops over the teams.                                               *)

NextTeam ==
    /\ phase \in {"changes", "atcs"}
    /\ \E t \in left :
        /\ team' = t
        /\ left' = left \ {t}
    /\ UNCHANGED <<phase, people, counter, output, history>>

EndTeams ==
    /\ phase \in {"changes", "atcs"}
    /\ left = {}
    /\ phase' = IF phase = "changes" THEN "atcs" ELSE "rolls"
    /\ team' = None
    /\ left' = Teams
    /\ UNCHANGED <<people, counter, output, history>>

-----------------------------------------------------------------------------
(* A change.                                                               *)

One(date) == [count |-> 1, newest |-> date, oldest |-> date]

\* Mutant: the dates are those of the first change and of the last.
CountedInOrder(tally, date) ==
    [tally EXCEPT !.count = @ + 1, !.newest = date]

\* One more change at this date.
Counted(tally, date) ==
    [tally EXCEPT !.count = @ + 1,
                  !.newest = IF date > tally.newest THEN date ELSE tally.newest,
                  !.oldest = IF date < tally.oldest THEN date ELSE tally.oldest]

\* The change of an account counts for an owner, in this team.
Attribute(account, owner, date) ==
    /\ projects' = [projects EXCEPT ![team] =
                        Put(@, owner, IF owner \in DOMAIN @ THEN Counted(@[owner], date)
                                      ELSE One(date))]
    /\ taken' = [taken EXCEPT ![<<team, account, date>>] = @ + 1]

\* A change of an account that has been met.
KnownAccount(account, date) ==
    LET owner == OwnerOf(account)
    IN  /\ account \in DOMAIN seen
        /\ owners' = [owners EXCEPT ![owner] = Counted(@, date)]
        /\ Attribute(account, owner, date)
        /\ UNCHANGED <<duplicates, all_emails, seen, bridged>>

\* Mutant: the addresses of a duplicate are not learned.
LearnOwners(account, owner, details) ==
    /\ account \notin DOMAIN seen
    /\ seen' = Put(seen, account, details.addresses)
    /\ all_emails' = [e \in DOMAIN all_emails \cup
                              (IF account = owner THEN details.addresses ELSE {}) |->
                         IF e \in details.addresses THEN owner ELSE all_emails[e]]

\* What gerrit says of an account that is met first: these addresses belong to
\* an owner from now on.
Learn(account, owner, details) ==
    /\ account \notin DOMAIN seen
    /\ seen' = Put(seen, account, details.addresses)
    /\ all_emails' = [e \in DOMAIN all_emails \cup details.addresses |->
                         IF e \in details.addresses THEN owner ELSE all_emails[e]]

\* None of its addresses is known: a new owner.
NewOwner(account, date, details) ==
    /\ details.addresses \cap DOMAIN all_emails = {}
    /\ Learn(account, account, details)
    /\ owners' = Put(owners, account,
                     [count |-> 1, newest |-> date, oldest |-> date,
                      extra |-> details.addresses \ {details.preferred},
                      preferred |-> details.preferred, named |-> details.named])
    /\ Attribute(account, account, date)
    /\ UNCHANGED <<duplicates, bridged>>

\* Mutant: the preferred address of the duplicate is dropped.
AbsorbedButPreferred(owner, details) ==
    [owner EXCEPT !.extra = @ \cup (details.addresses \ {owner.preferred, details.preferred})]

\* The addresses of a duplicate are extra ones of its owner.
Absorbed(owner, details) ==
    [owner EXCEPT !.extra = @ \cup (details.addresses \ {owner.preferred})]

\* One is known, and the first that gerrit lists decides: the account is merged
\* into that address's owner.
Merge(account, date, details) ==
    \E known \in details.addresses \cap DOMAIN all_emails :
        LET owner == all_emails[known]
        IN  /\ Learn(account, owner, details)
            /\ duplicates' = Put(duplicates, account, owner)
            /\ owners' = [owners EXCEPT ![owner] = Absorbed(Counted(@, date), details)]
            /\ Attribute(account, owner, date)
            /\ bridged' = (bridged \/ \E e \in details.addresses \cap DOMAIN all_emails :
                                          all_emails[e] # owner)

\* Changes that are outside of the dates, or whose owner is to be ignored,
\* are skipped and leave nothing behind.
Change ==
    /\ phase = "changes"
    /\ team # None
    /\ SumFunction(taken) < MaxChanges
    /\ \E account \in Accounts, date \in Dates :
        \/ KnownAccount(account, date)
        \/ \E details \in Details :
            NewOwner(account, date, details) \/ Merge(account, date, details)
    /\ UNCHANGED <<loop, counter, output>>

-----------------------------------------------------------------------------
(* The contributors without changes.                                       *)

Contribution == [count |-> -1, newest |-> Stamp, oldest |-> Stamp]

\* A team names an address; an owner that it belongs to gets a place in the
\* team, and a new owner is made of an address that nobody has.  The name that
\* is given with it may be empty.
ExtraAtc ==
    /\ phase = "atcs"
    /\ team # None
    /\ counter <= MaxAtcs
    /\ counter' = counter + 1
    /\ \E address \in Atcs :
        LET known == address \in DOMAIN all_emails
            owner == IF known THEN all_emails[address] ELSE -counter
        IN  /\ IF known THEN UNCHANGED <<owners, all_emails>>
               ELSE /\ all_emails' = Put(all_emails, address, owner)
                    /\ \E named \in BOOLEAN :
                        owners' = Put(owners, owner,
                            [count |-> -1, newest |-> Stamp, oldest |-> Stamp,
                             extra |-> {}, preferred |-> address, named |-> named])
            /\ projects' = IF owner \in DOMAIN projects[team] THEN projects
                           ELSE [projects EXCEPT ![team] = Put(@, owner, Contribution)]
    /\ UNCHANGED <<loop, duplicates, output, history>>

-----------------------------------------------------------------------------
(* The rolls.                                                              *)

WithPreferred(owner) ==
    IF ~owner.named \/ owner.preferred # None \/ owner.extra = {} THEN owner
    ELSE [owner EXCEPT !.preferred = Min(owner.extra), !.extra = @ \ {Min(owner.extra)}]

WellFormed(owner) == owner.named /\ owner.preferred # None

\* Mutant: an owner that has just got a preferred address is left out.
OwnersRollAsFound ==
    /\ phase = "rolls"
    /\ owners' = [o \in DOMAIN owners |-> WithPreferred(owners[o])]
    /\ electorate' = {owners[o].preferred : o \in {p \in DOMAIN owners : WellFormed(owners[p])}}
    /\ phase' = "files"
    /\ UNCHANGED <<team, left, projects, duplicates, all_emails, counter, rolls, history>>

\* Every owner that has both names gets a preferred address if there is any,
\* and a place in the roll.
OwnersRoll ==
    /\ phase = "rolls"
    /\ owners' = [o \in DOMAIN owners |-> WithPreferred(owners[o])]
    /\ electorate' = {owners'[o].preferred : o \in {p \in DOMAIN owners : WellFormed(owners'[p])}}
    /\ phase' = "files"
    /\ UNCHANGED <<team, left, projects, duplicates, all_emails, counter, rolls, history>>

\* A team's files.  An owner without a preferred address is a KeyError.
TeamFile ==
    /\ phase = "files"
    /\ \E t \in left :
        IF \E o \in DOMAIN projects[t] : owners[o].preferred = None
        THEN /\ phase' = "crashed"
             /\ UNCHANGED <<left, rolls>>
        ELSE /\ rolls' = [rolls EXCEPT ![t] = {owners[o].preferred : o \in DOMAIN projects[t]}]
             /\ left' = left \ {t}
             /\ UNCHANGED phase
    /\ UNCHANGED <<team, people, counter, electorate, history>>

Finish ==
    /\ phase = "files"
    /\ left = {}
    /\ phase' = "done"
    /\ UNCHANGED <<team, left, people, counter, output, history>>

Next ==
    \/ NextTeam \/ EndTeams
    \/ Change \/ ExtraAtc
    \/ OwnersRoll \/ TeamFile \/ Finish

Spec == Init /\ [][Next]_vars

-----------------------------------------------------------------------------
(* What the script must get right.                                         *)

\* The changes that have been counted for an owner.
ChangesOf(o, T) == {c \in T \X Accounts \X Dates : taken[c] > 0 /\ OwnerOf(c[2]) = o}

TallyIs(tally, changes) ==
    /\ tally.count = SumFunctionOnSet(taken, changes)
    /\ tally.newest = Max({c[3] : c \in changes})
    /\ tally.oldest = Min({c[3] : c \in changes})

\* Every change is counted once for one owner, among all owners and in its
\* team, and the dates are those of the first and of the last; no matter in
\* which order the accounts of an owner turned up.
EveryChangeCounts ==
    /\ \A o \in DOMAIN owners \cap Accounts : TallyIs(owners[o], ChangesOf(o, Teams))
    /\ \A t \in Teams, o \in DOMAIN owners :
        LET changes == ChangesOf(o, {t})
        IN  IF changes = {} THEN o \in DOMAIN projects[t] => projects[t][o] = Contribution
            ELSE o \in DOMAIN projects[t] /\ TallyIs(projects[t][o], changes)

\* No address gets lost: those of an account are with its owner, and the owner
\* that an address leads to has it.
AddressesKept ==
    /\ \A a \in DOMAIN seen : seen[a] \subseteq AddressesOf(owners[OwnerOf(a)])
    /\ \A e \in DOMAIN all_emails : e \in AddressesOf(owners[all_emails[e]])

\* An address belongs to one owner, unless an account turned up late that had
\* addresses of two.
MergedUnlessBridged ==
    ~bridged => \A o, p \in DOMAIN owners :
        o # p => AddressesOf(owners[o]) \cap AddressesOf(owners[p]) = {}

\* Why addresses lead to where they are: the index has all of them, and every
\* id that is still to be made is new.
Indexed ==
    /\ \A o \in DOMAIN owners : \A e \in AddressesOf(owners[o]) :
        e \in DOMAIN all_emails /\ (~bridged => all_emails[e] = o)
    /\ \A o \in DOMAIN owners : o > -counter

OwnersInv == AddressesKept /\ Indexed

\* At the end every account whose owner is well-formed can vote, and in the
\* teams where it owned a change.
EveryVoterListed ==
    phase = "done" =>
        \A c \in Changes :
            LET owner == owners[OwnerOf(c[2])]
            IN  taken[c] > 0 /\ WellFormed(owner) =>
                    owner.preferred \in electorate \cap rolls[c[1]]

\* owners.py:388-389, "Find duplicate addresses and merge accounts when that
\* happens": no address belongs to two owners.
DuplicatesMerged ==
    \A o, p \in DOMAIN owners :
        o # p => AddressesOf(owners[o]) \cap AddressesOf(owners[p]) = {}

\* owners.py:580-582, "SKIPPING MALFORMED OWNER: no preferred or extra addresses
\* found": such an owner is skipped and the rolls are written.
MalformedSkipped == phase # "crashed"

\* owners.py:66-71: the files of the teams are the voters of the PTL elections,
\* _electorate.txt "is the equivalent address list for the TC election voters".
TeamVotersAreVoters ==
    phase = "done" => \A t \in Teams : rolls[t] \subseteq electorate

=============================================================================
