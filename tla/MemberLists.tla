---------------------------- MODULE MemberLists ----------------------------
(***************************************************************************)
(* What the retain calls of upriv-core/src/config/vault_groups do to a     *)
(* list: the places that are kept move up, in the order they had.  Written *)
(* without recursion and without SelectSeq, so that it can be reasoned     *)
(* about: the places kept are counted off, least first.                    *)
(***************************************************************************)
EXTENDS Naturals, FiniteSets

\* The numbers of a finite set S, least first.
Ascending(S) ==
    CHOOSE f \in [1..Cardinality(S) -> S] : \A i, j \in DOMAIN f : i < j => f[i] < f[j]

\* Vec::retain, by the places that stay.
KeepAt(list, places) ==
    LET from == Ascending(places) IN [k \in DOMAIN from |-> list[from[k]]]

\* Vec::retain, by the elements that go.
Without(list, taken) == KeepAt(list, {i \in DOMAIN list : list[i] \notin taken})
=============================================================================
