------------------------------ MODULE MCOwners ------------------------------
(* Two teams; accounts that share addresses in every way.                  *)
EXTENDS Owners, TLC

Symmetry == Permutations(Teams)

\* One or two addresses, the first of them preferred, or none at all.
FewDetails ==
    {[addresses |-> {a, b}, preferred |-> a, named |-> TRUE] : a, b \in Addresses}
        \cup [addresses : {{}}, preferred : {None}, named : {TRUE}]

\* One address, preferred or not, with or without names; all of them with
\* names; or none.
OddDetails ==
    [addresses : {{}}, preferred : {None}, named : BOOLEAN]
        \cup UNION {[addresses : {{a}}, preferred : {a, None}, named : BOOLEAN] : a \in Addresses}
        \cup [addresses : {Addresses}, preferred : Addresses \cup {None}, named : {TRUE}]
=============================================================================
