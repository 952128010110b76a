---------------------------- MODULE GroupRegistry ----------------------------
(***************************************************************************)
(* What the vault groups of upriv-core promise the vault list: a registry  *)
(* of groups, each with its member vaults in order, no vault in two of     *)
(* them.  An RPC changes it in one step, and only where it was asked to.   *)
(* Locks, files, hand edits and the [vault].hidden flags of the members    *)
(* are below this level.                                                   *)
(***************************************************************************)
EXTENDS SequencesExt, MemberLists

CONSTANTS
    Ids,            \* group ids
    Vaults          \* vault ids

VARIABLE groups     \* group id -> [hidden, members], for the groups there are

Lists == UNION {SetToSeqs(S) : S \in SUBSET Vaults}
Group == [hidden : BOOLEAN, members : Lists]

\* The members of two groups have nothing in common.
Disjoint(gs) ==
    \A g, h \in DOMAIN gs :
        g # h => ToSet(gs[g].members) \cap ToSet(gs[h].members) = {}

Registry == {gs \in UNION {[S -> Group] : S \in SUBSET Ids} : Disjoint(gs)}

TypeOK == groups \in Registry

Init == TypeOK

\* Group g, new or not, gets these members, wherever they were.
Put(gs, g, members, hidden) ==
    [h \in DOMAIN gs \cup {g} |->
        IF h = g THEN [hidden |-> hidden, members |-> members]
        ELSE [gs[h] EXCEPT !.members = Without(@, ToSet(members))]]

\* The members of a deleted group are in no group afterwards.
Dropped(gs, g) == [h \in DOMAIN gs \ {g} |-> gs[h]]

\* What an RPC may make of the registry: it refuses, or changes the look of the list
\* only; a group is made or edited; one is deleted; repair starts over.
Outcomes(gs) ==
    {gs}
      \cup {Put(gs, g, members, hidden) : g \in Ids, members \in Lists, hidden \in BOOLEAN}
      \cup {Dropped(gs, g) : g \in DOMAIN gs}
      \cup {<<>>}

Next == groups' \in Outcomes(groups)

Spec == Init /\ [][Next]_groups
=============================================================================
