-------------------------- MODULE VaultGroupsProofs --------------------------
(***************************************************************************)
(* What TLAPS proves of VaultGroups for every set of vaults, groups,       *)
(* threads and requests, every fault and every bound.                      *)
(*                                                                         *)
(* The argument for the flags: until the file is replaced, the holder of   *)
(* the lock works on what is in it; what its cascade has flipped had the   *)
(* other flag; everything it has not flipped is as it found it, or astray; *)
(* and what it found was in line with the groups.  So after a save the     *)
(* targets have the new flag and the rest the old one, after a revert all  *)
(* have the old one, and after a crash what was flipped is astray.         *)
(***************************************************************************)
EXTENDS VaultGroups, MemberListsProofs, SequenceTheorems

-----------------------------------------------------------------------------
\* MEMBER LISTS

\* A member list is a sequence of different vaults (trim_vault_ids).
LEMMA MemberListIs ==
    ASSUME NEW l
    PROVE  l \in Lists <=> l \in Seq(Vaults) /\ IsInjective(l)
<1>1. ASSUME l \in Lists PROVE l \in Seq(Vaults) /\ IsInjective(l)
  <2>1. PICK S \in SUBSET Vaults : l \in SetToSeqs(S)
      BY <1>1 DEF Lists
  <2>2. Cardinality(S) \in Nat
      BY FS_Subset, FS_CardinalityType, GroupsAssumption
  <2>3. /\ l \in [1..Cardinality(S) -> S]
        /\ \A i, j \in 1..Cardinality(S) : i # j => l[i] # l[j]
      BY <2>1, Zenon DEF SetToSeqs
  <2>4. l \in Seq(Vaults)
      BY <2>2, <2>3
  <2>5. IsInjective(l)
      BY <2>3 DEF IsInjective
  <2> QED
      BY <2>4, <2>5
<1>2. ASSUME l \in Seq(Vaults), IsInjective(l) PROVE l \in Lists
  <2> DEFINE n == Len(l)
  <2>1. n \in Nat /\ l \in [1..n -> ToSet(l)] /\ ToSet(l) \in SUBSET Vaults
      BY <1>2 DEF ToSet
  <2> HIDE DEF n
  <2>2. IsFiniteSet(1..n) /\ Cardinality(1..n) = n
      BY <2>1, FS_Interval
  <2>3. l \in Surjection(1..n, ToSet(l)) /\ l \in Injection(1..n, ToSet(l))
      BY <1>2, <2>1 DEF Surjection, Injection, ToSet
  <2>4. Cardinality(ToSet(l)) = n
      BY <2>2, <2>3, FS_Surjection
  <2>5. \A i, j \in 1..n : i # j => l[i] # l[j]
      BY <1>2, <2>1 DEF IsInjective
  <2>6. l \in SetToSeqs(ToSet(l))
      BY <2>1, <2>4, <2>5 DEF SetToSeqs
  <2> QED
      BY <2>1, <2>6 DEF Lists
<1> QED
    BY <1>1, <1>2

\* What retain leaves of a member list is a member list.
LEMMA WithoutMembers ==
    ASSUME NEW l \in Lists, NEW taken
    PROVE  /\ Without(l, taken) \in Lists
           /\ ToSet(Without(l, taken)) = ToSet(l) \ taken
           /\ ToSet(l) \cap taken = {} => Without(l, taken) = l
<1>1. l \in Seq(Vaults) /\ IsInjective(l)
    BY MemberListIs
<1>2. /\ Without(l, taken) \in Seq(Vaults)
      /\ ToSet(Without(l, taken)) = ToSet(l) \ taken
      /\ IsInjective(Without(l, taken))
      /\ ToSet(l) \cap taken = {} => Without(l, taken) = l
    BY <1>1, WithoutProps
<1> QED
    BY <1>2, MemberListIs

\* Member lists hold vaults; the one without members is the empty one.
LEMMA ListFacts ==
    /\ <<>> \in Lists /\ ToSet(<<>>) = {}
    /\ \A l \in Lists : /\ ToSet(l) \subseteq Vaults
                        /\ ToSet(l) = {} <=> l = <<>>
<1>1. <<>> \in Seq(Vaults) /\ IsInjective(<<>>)
    BY DEF IsInjective
<1>2. \A l \in Seq(Vaults) : ToSet(l) \subseteq Vaults /\ (ToSet(l) = {} <=> l = <<>>)
    BY DEF ToSet
<1>3. ToSet(<<>>) = {}
    BY DEF ToSet
<1> QED
    BY <1>1, <1>2, <1>3, MemberListIs

\* The first and the last of a member list, and the rest.
LEMMA EndsOfList ==
    ASSUME NEW l \in Lists, l # <<>>
    PROVE  /\ Head(l) \in ToSet(l) /\ Last(l) \in ToSet(l)
           /\ Tail(l) \in Lists /\ ToSet(Tail(l)) = ToSet(l) \ {Head(l)}
           /\ Front(l) \in Lists /\ ToSet(Front(l)) = ToSet(l) \ {Last(l)}
           /\ Len(l) = 1 <=> Tail(l) = <<>>
<1> DEFINE n == Len(l)
<1>1. l \in Seq(Vaults) /\ IsInjective(l) /\ n \in Nat /\ n > 0
    BY MemberListIs
<1>2. Head(l) = l[1] /\ Last(l) = l[n]
    BY <1>1 DEF Last
<1>3. /\ Tail(l) \in Seq(Vaults) /\ Len(Tail(l)) = n - 1
      /\ \A i \in 1..(n - 1) : Tail(l)[i] = l[i + 1]
    BY <1>1
<1>4. /\ Front(l) \in Seq(Vaults) /\ Len(Front(l)) = n - 1
      /\ \A i \in 1..(n - 1) : Front(l)[i] = l[i]
  <2>1. 1 \in Int /\ n - 1 \in Int /\ \A i \in 1..(n - 1) : l[i] \in Vaults
      BY <1>1
  <2>2. /\ SubSeq(l, 1, n - 1) \in Seq(Vaults)
        /\ Len(SubSeq(l, 1, n - 1)) = IF 1 <= n - 1 THEN (n - 1) - 1 + 1 ELSE 0
        /\ \A i \in 1..((n - 1) - 1 + 1) : SubSeq(l, 1, n - 1)[i] = l[1 + i - 1]
      BY <2>1, SubSeqProperties
  <2>3. ASSUME NEW i \in 1..(n - 1) PROVE SubSeq(l, 1, n - 1)[i] = l[i]
    <3>1. i \in 1..((n - 1) - 1 + 1) /\ 1 + i - 1 = i
        BY <1>1
    <3> QED
        BY <2>2, <3>1, Zenon
  <2>4. Len(SubSeq(l, 1, n - 1)) = n - 1
    <3> HIDE DEF n
    <3>1. n \in Nat /\ n > 0
        BY <1>1
    <3>2. CASE 1 <= n - 1
        BY <2>2, <3>1, <3>2
    <3>3. CASE ~(1 <= n - 1)
        BY <2>2, <3>1, <3>3
    <3> QED
        BY <3>2, <3>3
  <2>5. Front(l) = SubSeq(l, 1, n - 1)
      BY DEF Front
  <2> QED
      BY <2>2, <2>3, <2>4, <2>5, Zenon
<1>5. IsInjective(Tail(l)) /\ IsInjective(Front(l))
    BY <1>1, <1>3, <1>4 DEF IsInjective
<1>6. Head(l) \in ToSet(l) /\ Last(l) \in ToSet(l)
    BY <1>1, <1>2 DEF ToSet
<1>7. ToSet(Tail(l)) = ToSet(l) \ {Head(l)}
  <2>1. ASSUME NEW v \in ToSet(Tail(l)) PROVE v \in ToSet(l) /\ v # Head(l)
    <3>1. PICK i \in 1..(n - 1) : v = l[i + 1]
        BY <1>3 DEF ToSet
    <3> QED
        BY <1>1, <1>2, <3>1 DEF ToSet, IsInjective
  <2>2. ASSUME NEW v \in ToSet(l), v # Head(l) PROVE v \in ToSet(Tail(l))
    <3>1. PICK i \in 1..n : v = l[i]
        BY <1>1 DEF ToSet
    <3>2. i - 1 \in 1..(n - 1) /\ (i - 1) + 1 = i
        BY <1>1, <1>2, <2>2, <3>1
    <3>3. Tail(l)[i - 1] = v /\ i - 1 \in DOMAIN Tail(l)
        BY <1>1, <1>3, <3>1, <3>2
    <3> QED
        BY <3>3 DEF ToSet
  <2> QED
      BY <2>1, <2>2
<1>8. ToSet(Front(l)) = ToSet(l) \ {Last(l)}
  <2>1. ASSUME NEW v \in ToSet(Front(l)) PROVE v \in ToSet(l) /\ v # Last(l)
    <3>1. PICK i \in 1..(n - 1) : v = l[i]
        BY <1>4 DEF ToSet
    <3> QED
        BY <1>1, <1>2, <3>1 DEF ToSet, IsInjective
  <2>2. ASSUME NEW v \in ToSet(l), v # Last(l) PROVE v \in ToSet(Front(l))
    <3>1. PICK i \in 1..n : v = l[i]
        BY <1>1 DEF ToSet
    <3>2. i \in 1..(n - 1)
        BY <1>1, <1>2, <2>2, <3>1
    <3> QED
        BY <1>4, <3>1, <3>2 DEF ToSet
  <2> QED
      BY <2>1, <2>2
<1>9. n = 1 <=> Tail(l) = <<>>
    BY <1>1, <1>3
<1> QED
    BY <1>3, <1>4, <1>5, <1>6, <1>7, <1>8, <1>9, MemberListIs

\* Two member lists with nothing in common make one.
LEMMA JoinedLists ==
    ASSUME NEW l \in Lists, NEW m \in Lists, ToSet(l) \cap ToSet(m) = {}
    PROVE  l \o m \in Lists /\ ToSet(l \o m) = ToSet(l) \cup ToSet(m)
<1> DEFINE j == l \o m
<1>1. l \in Seq(Vaults) /\ m \in Seq(Vaults) /\ IsInjective(l) /\ IsInjective(m)
    BY MemberListIs
<1>2. /\ j \in Seq(Vaults) /\ Len(j) = Len(l) + Len(m)
      /\ \A i \in 1..Len(l) : j[i] = l[i]
      /\ \A i \in 1..Len(m) : j[Len(l) + i] = m[i]
    BY <1>1
<1> HIDE DEF j
<1>3. \A i \in 1..Len(j) : \/ i \in 1..Len(l) /\ j[i] = l[i]
                           \/ i - Len(l) \in 1..Len(m) /\ j[i] = m[i - Len(l)]
  <2> SUFFICES ASSUME NEW i \in 1..Len(j), i \notin 1..Len(l)
               PROVE  i - Len(l) \in 1..Len(m) /\ j[i] = m[i - Len(l)]
      BY <1>2
  <2>1. i - Len(l) \in 1..Len(m) /\ Len(l) + (i - Len(l)) = i
      BY <1>1, <1>2
  <2> QED
      BY <1>2, <2>1
<1>4. \A a \in 1..Len(l), b \in 1..Len(m) : l[a] # m[b]
    BY <1>1 DEF ToSet
<1>5. IsInjective(j)
  <2> SUFFICES ASSUME NEW a \in 1..Len(j), NEW b \in 1..Len(j), j[a] = j[b] PROVE a = b
      BY <1>2 DEF IsInjective
  <2>1. CASE a \in 1..Len(l) /\ b \in 1..Len(l)
      BY <1>1, <1>2, <2>1 DEF IsInjective
  <2>2. CASE a \notin 1..Len(l) /\ b \notin 1..Len(l)
    <3>1. m[a - Len(l)] = m[b - Len(l)] /\ a - Len(l) \in 1..Len(m) /\ b - Len(l) \in 1..Len(m)
        BY <1>3, <2>2
    <3>2. a - Len(l) = b - Len(l)
        BY <1>1, <3>1 DEF IsInjective
    <3> QED
        BY <1>1, <1>2, <3>2
  <2> QED
      BY <1>3, <1>4, <2>1, <2>2
<1>6. ToSet(j) = ToSet(l) \cup ToSet(m)
  <2>1. \A i \in 1..Len(j) : j[i] \in ToSet(l) \cup ToSet(m)
      BY <1>1, <1>3 DEF ToSet
  <2>2. ToSet(l) \subseteq ToSet(j)
      BY <1>1, <1>2 DEF ToSet
  <2>3. ASSUME NEW i \in 1..Len(m) PROVE m[i] \in ToSet(j)
    <3>1. Len(l) + i \in 1..Len(j) /\ j[Len(l) + i] = m[i]
        BY <1>1, <1>2
    <3> QED
        BY <1>2, <3>1 DEF ToSet
  <2>4. ToSet(m) \subseteq ToSet(j)
      BY <1>1, <2>3 DEF ToSet
  <2>5. DOMAIN j = 1..Len(j)
      BY <1>2
  <2>6. ToSet(j) \subseteq ToSet(l) \cup ToSet(m)
      BY <2>1, <2>5 DEF ToSet
  <2> QED
      BY <2>2, <2>4, <2>6
<1>7. j \in Lists
    BY <1>2, <1>5, MemberListIs
<1> QED
    BY <1>6, <1>7 DEF j

\* A member list with one more vault is one.
LEMMA AppendedList ==
    ASSUME NEW l \in Lists, NEW v \in Vaults, v \notin ToSet(l)
    PROVE  Append(l, v) \in Lists /\ ToSet(Append(l, v)) = ToSet(l) \cup {v}
<1>1. l \in Seq(Vaults)
    BY MemberListIs
<1>2. <<v>> \in Seq(Vaults) /\ IsInjective(<<v>>) /\ ToSet(<<v>>) = {v}
    BY DEF IsInjective, ToSet
<1>3. <<v>> \in Lists
    BY <1>2, MemberListIs
<1>4. Append(l, v) = l \o <<v>>
    BY <1>1
<1>5. l \o <<v>> \in Lists /\ ToSet(l \o <<v>>) = ToSet(l) \cup ToSet(<<v>>)
    BY <1>2, <1>3, JoinedLists
<1> QED
    BY <1>2, <1>4, <1>5

-----------------------------------------------------------------------------
\* THE GROUPS AND WHAT A REQUEST MAKES OF THEM

\* No vault is in two groups of gs.
Apart(gs) ==
    \A i, j \in DOMAIN gs : i # j => ToSet(gs[i].members) \cap ToSet(gs[j].members) = {}

\* The kinds of request that take the lock.
GroupKinds == {"create", "update", "delete", "reorder", "permute", "repair"}

\* The parameters a request has, by its kind.
LEMMA RequestFacts ==
    ASSUME NEW r \in RequestSpace
    PROVE  /\ r.kind \in {"create", "update", "delete", "permute"} => r.id \in Ids
           /\ r.kind = "create" => r.members \in Lists /\ r.hidden \in BOOLEAN
           /\ r.kind = "update" => /\ r.members \in Lists \cup {None}
                                   /\ r.hidden \in BOOLEAN \cup {None}
                                   /\ r.look \in Looks \cup {None}
           /\ r.kind = "permute" => r.members \in Lists
           /\ r.kind \in {"save", "new"} => r.vault \in Vaults /\ r.hidden \in BOOLEAN
           /\ r.kind \in GroupKinds \cup {"save", "new"}
<1>1. CASE r \in [kind : {"create"}, id : Ids, members : Lists, hidden : BOOLEAN]
    BY <1>1 DEF GroupKinds
<1>2. CASE r \in [kind : {"update"}, id : Ids, members : Lists \cup {None},
                  hidden : BOOLEAN \cup {None}, look : Looks \cup {None}]
    BY <1>2 DEF GroupKinds
<1>3. CASE r \in [kind : {"delete"}, id : Ids]
    BY <1>3 DEF GroupKinds
<1>4. CASE r \in [kind : {"reorder"}, ids : SUBSET Ids]
    BY <1>4 DEF GroupKinds
<1>5. CASE r \in [kind : {"permute"}, id : Ids, members : Lists]
    BY <1>5 DEF GroupKinds
<1>6. CASE r \in [kind : {"repair"}]
    BY <1>6 DEF GroupKinds
<1>7. CASE r \in [kind : {"save", "new"}, vault : Vaults, hidden : BOOLEAN]
    BY <1>7 DEF GroupKinds
<1> QED
    BY <1>1, <1>2, <1>3, <1>4, <1>5, <1>6, <1>7 DEF RequestSpace

\* The fields of a group in a list of groups.
LEMMA GroupFacts ==
    ASSUME NEW gs \in Seq(Group), NEW i \in DOMAIN gs
    PROVE  /\ gs[i] \in Group
           /\ gs[i].id \in Ids /\ gs[i].hidden \in BOOLEAN /\ gs[i].look \in Looks
           /\ gs[i].members \in Lists /\ ToSet(gs[i].members) \subseteq Vaults
<1>1. gs[i] \in Group
    OBVIOUS
<1>2. gs[i].members \in Lists
    BY <1>1 DEF Group
<1> QED
    BY <1>1, <1>2, ListFacts DEF Group

\* find_group_index answers the first group with the id.
LEMMA PlaceIs ==
    ASSUME NEW gs, NEW n \in Nat, DOMAIN gs = 1..n, NEW id, Has(gs, id)
    PROVE  /\ Place(gs, id) \in DOMAIN gs /\ gs[Place(gs, id)].id = id
           /\ \A j \in DOMAIN gs : gs[j].id = id => Place(gs, id) <= j
<1> DEFINE T == {i \in DOMAIN gs : gs[i].id = id}
<1>1. T \subseteq Nat /\ T # {}
    BY DEF Has
<1>2. PICK i \in T : \A j \in T : i <= j
    BY <1>1, Least
<1>3. \A j \in 1..(i - 1) : gs[j].id # id
  <2> SUFFICES ASSUME NEW j \in 1..(i - 1), gs[j].id = id PROVE FALSE
      OBVIOUS
  <2>1. j \in DOMAIN gs /\ ~(i <= j)
      BY <1>2
  <2> QED
      BY <1>2, <2>1
<1>4. i \in DOMAIN gs /\ gs[i].id = id /\ \A j \in 1..(i - 1) : gs[j].id # id
    BY <1>2, <1>3
<1> DEFINE p == Place(gs, id)
<1>5. p \in DOMAIN gs /\ gs[p].id = id /\ \A j \in 1..(p - 1) : gs[j].id # id
    BY <1>4, Zenon DEF Place
<1> HIDE DEF p
<1>6. \A j \in DOMAIN gs : gs[j].id = id => p <= j
    BY <1>5
<1> QED
    BY <1>5, <1>6 DEF p

\* Lists of groups with the same ids have the same places.
LEMMA SamePlaces ==
    ASSUME NEW gs, NEW hs, NEW n \in Nat, DOMAIN gs = 1..n, DOMAIN hs = 1..n,
           \A i \in 1..n : gs[i].id = hs[i].id, NEW id
    PROVE  /\ Has(gs, id) <=> Has(hs, id)
           /\ Has(gs, id) => Place(gs, id) = Place(hs, id)
<1>1. Has(gs, id) <=> Has(hs, id)
    BY DEF Has
<1>2. ASSUME Has(gs, id) PROVE Place(gs, id) = Place(hs, id)
  <2> DEFINE p == Place(gs, id)
             q == Place(hs, id)
  <2>1. p \in 1..n /\ gs[p].id = id /\ \A j \in 1..n : gs[j].id = id => p <= j
      BY <1>2, PlaceIs
  <2>2. q \in 1..n /\ hs[q].id = id /\ \A j \in 1..n : hs[j].id = id => q <= j
      BY <1>1, <1>2, PlaceIs
  <2> HIDE DEF p, q
  <2>3. p <= q /\ q <= p
      BY <2>1, <2>2
  <2>4. p = q
      BY <2>1, <2>2, <2>3
  <2> QED
      BY <2>4 DEF p, q
<1> QED
    BY <1>1, <1>2

\* A group with other members is a group.
Regroup(g, taken) == [g EXCEPT !.members = Without(@, taken)]
LEMMA Regrouped ==
    ASSUME NEW g \in Group, NEW taken, NEW h, h = Regroup(g, taken)
    PROVE  /\ h \in Group /\ h.id = g.id /\ h.hidden = g.hidden /\ h.look = g.look
           /\ h.members = Without(g.members, taken)
           /\ ToSet(h.members) = ToSet(g.members) \ taken
           /\ ToSet(g.members) \cap taken = {} => h = g
<1>1. g.members \in Lists
    BY DEF Group
<1>2. PICK m \in Lists : m = Without(g.members, taken)
    BY <1>1, WithoutMembers
<1>3. ToSet(m) = ToSet(g.members) \ taken
    BY <1>1, <1>2, WithoutMembers
<1>4. ToSet(g.members) \cap taken = {} => m = g.members
    BY <1>1, <1>2, WithoutMembers
<1>5. h = [g EXCEPT !.members = m]
    BY <1>2 DEF Regroup
<1>6. /\ h \in Group /\ h.id = g.id /\ h.hidden = g.hidden /\ h.look = g.look
      /\ h.members = m
      /\ m = g.members => h = g
    BY <1>5 DEF Group
<1> QED
    BY <1>2, <1>3, <1>4, <1>6

\* soften_groups_for_mutate: a vault stays in the first group that names it, and the
\* groups keep everything else.
LEMMA SoftenIs ==
    ASSUME NEW gs \in Seq(Group)
    PROVE  /\ Soften(gs) \in Seq(Group) /\ Len(Soften(gs)) = Len(gs)
           /\ DOMAIN Soften(gs) = DOMAIN gs
           /\ \A i \in DOMAIN gs :
                /\ Soften(gs)[i].id = gs[i].id /\ Soften(gs)[i].hidden = gs[i].hidden
                /\ Soften(gs)[i].look = gs[i].look
           /\ Apart(Soften(gs))
           /\ Apart(gs) => Soften(gs) = gs
<1> DEFINE before(i) == UNION {ToSet(gs[j].members) : j \in 1..(i - 1)}
           n == Len(gs)
           ss == Soften(gs)
<1>1. n \in Nat /\ DOMAIN gs = 1..n
    OBVIOUS
<1>2. ss = [i \in DOMAIN gs |-> [gs[i] EXCEPT !.members = Without(@, before(i))]]
    BY DEF Soften
<1> HIDE DEF before, n, ss
<1>3. \A i \in 1..n :
        /\ ss[i] \in Group /\ ss[i].id = gs[i].id /\ ss[i].hidden = gs[i].hidden
        /\ ss[i].look = gs[i].look
        /\ ToSet(ss[i].members) = ToSet(gs[i].members) \ before(i)
        /\ ToSet(gs[i].members) \cap before(i) = {} => ss[i] = gs[i]
  <2> SUFFICES ASSUME NEW i \in 1..n
               PROVE  /\ ss[i] \in Group /\ ss[i].id = gs[i].id /\ ss[i].hidden = gs[i].hidden
                      /\ ss[i].look = gs[i].look
                      /\ ToSet(ss[i].members) = ToSet(gs[i].members) \ before(i)
                      /\ ToSet(gs[i].members) \cap before(i) = {} => ss[i] = gs[i]
      OBVIOUS
  <2>1. PICK g \in Group : g = gs[i]
      BY <1>1
  <2>2. PICK gone : gone = before(i)
      OBVIOUS
  <2>3. PICK h : h = Regroup(g, gone)
      OBVIOUS
  <2>4. ss[i] = h
      BY <1>1, <1>2, <2>1, <2>2, <2>3 DEF Regroup
  <2>5. /\ h \in Group /\ h.id = g.id /\ h.hidden = g.hidden /\ h.look = g.look
        /\ h.members = Without(g.members, gone)
        /\ ToSet(h.members) = ToSet(g.members) \ gone
        /\ ToSet(g.members) \cap gone = {} => h = g
      BY <2>3, Regrouped
  <2> QED
      BY <2>1, <2>2, <2>4, <2>5
<1>4. DOMAIN ss = 1..n
    BY <1>1, <1>2
<1>5. ss \in Seq(Group) /\ Len(ss) = n
  <2>1. ss \in [1..n -> Group]
      BY <1>1, <1>2, <1>3
  <2> QED
      BY <1>1, <2>1
<1>6. \A i, j \in 1..n : j < i => ToSet(gs[j].members) \subseteq before(i)
    BY <1>1 DEF before
<1>7. \A i, j \in 1..n : j < i => ToSet(ss[i].members) \cap ToSet(ss[j].members) = {}
  <2> SUFFICES ASSUME NEW i \in 1..n, NEW j \in 1..n, j < i
               PROVE  ToSet(ss[i].members) \cap ToSet(ss[j].members) = {}
      OBVIOUS
  <2>1. ToSet(ss[j].members) \subseteq before(i)
      BY <1>3, <1>6
  <2>2. ToSet(ss[i].members) \cap before(i) = {}
      BY <1>3
  <2> QED
      BY <2>1, <2>2
<1>8. Apart(ss)
  <2> SUFFICES ASSUME NEW i \in 1..n, NEW j \in 1..n, i # j
               PROVE  ToSet(ss[i].members) \cap ToSet(ss[j].members) = {}
      BY <1>4 DEF Apart
  <2>1. i < j \/ j < i
      BY <1>1
  <2> QED
      BY <1>7, <2>1
<1>9. ASSUME Apart(gs) PROVE ss = gs
  <2>1. ASSUME NEW i \in 1..n PROVE ss[i] = gs[i]
    <3>1. \A j \in 1..(i - 1) : j \in 1..n /\ j # i
        BY <1>1
    <3>2. \A j \in 1..(i - 1) : ToSet(gs[i].members) \cap ToSet(gs[j].members) = {}
        BY <1>1, <1>9, <3>1 DEF Apart
    <3>3. ToSet(gs[i].members) \cap before(i) = {}
        BY <3>2 DEF before
    <3> QED
        BY <1>3, <3>3
  <2>2. ss = [i \in 1..n |-> ss[i]] /\ gs = [i \in 1..n |-> gs[i]]
      BY <1>1, <1>2
  <2> QED
      BY <2>1, <2>2
<1> QED
    BY <1>1, <1>3, <1>4, <1>5, <1>8, <1>9 DEF ss, n

\* The vaults of a list leave every group.
LEMMA TakenIs ==
    ASSUME NEW gs \in Seq(Group), NEW m
    PROVE  /\ DOMAIN Taken(gs, m) = DOMAIN gs /\ Taken(gs, m) \in Seq(Group)
           /\ \A i \in DOMAIN gs :
                /\ Taken(gs, m)[i] \in Group
                /\ Taken(gs, m)[i].id = gs[i].id /\ Taken(gs, m)[i].hidden = gs[i].hidden
                /\ Taken(gs, m)[i].members = Without(gs[i].members, ToSet(m))
                /\ ToSet(Taken(gs, m)[i].members) = ToSet(gs[i].members) \ ToSet(m)
<1> DEFINE ts == Taken(gs, m)
           n == Len(gs)
<1>1. n \in Nat /\ DOMAIN gs = 1..n
    OBVIOUS
<1>2. ts = [i \in DOMAIN gs |-> [gs[i] EXCEPT !.members = Without(@, ToSet(m))]]
    BY DEF Taken
<1> HIDE DEF n, ts
<1>3. \A i \in 1..n :
        /\ ts[i] \in Group /\ ts[i].id = gs[i].id /\ ts[i].hidden = gs[i].hidden
        /\ ts[i].members = Without(gs[i].members, ToSet(m))
        /\ ToSet(ts[i].members) = ToSet(gs[i].members) \ ToSet(m)
  <2> SUFFICES ASSUME NEW i \in 1..n
               PROVE  /\ ts[i] \in Group /\ ts[i].id = gs[i].id /\ ts[i].hidden = gs[i].hidden
                      /\ ts[i].members = Without(gs[i].members, ToSet(m))
                      /\ ToSet(ts[i].members) = ToSet(gs[i].members) \ ToSet(m)
      OBVIOUS
  <2>1. PICK g \in Group : g = gs[i]
      BY <1>1
  <2>2. PICK gone : gone = ToSet(m)
      OBVIOUS
  <2>3. PICK h : h = Regroup(g, gone)
      OBVIOUS
  <2>4. ts[i] = h
      BY <1>1, <1>2, <2>1, <2>2, <2>3 DEF Regroup
  <2>5. /\ h \in Group /\ h.id = g.id /\ h.hidden = g.hidden /\ h.look = g.look
        /\ h.members = Without(g.members, gone)
        /\ ToSet(h.members) = ToSet(g.members) \ gone
        /\ ToSet(g.members) \cap gone = {} => h = g
      BY <2>3, Regrouped
  <2> QED
      BY <2>1, <2>2, <2>4, <2>5
<1>4. ts \in [1..n -> Group]
    BY <1>1, <1>2, <1>3
<1> QED
    BY <1>1, <1>3, <1>4 DEF ts

\* What a request was checked for under the lock, that no other thread can undo.
Accepted(r, gs) ==
    /\ r.kind = "create" => r.id \in GroupIds /\ ~Has(gs, r.id)
    /\ r.kind \in {"update", "delete", "permute"} => Has(gs, r.id)
    /\ r.kind = "permute" => ToSet(r.members) = ToSet(At(gs, r.id).members)

\* The members of the hidden groups.
Concealed(gs) == UNION {ToSet(g.members) : g \in {h \in ToSet(gs) : h.hidden}}

\* The members of hidden groups, by the places of the groups.
LEMMA ConcealedIs ==
    ASSUME NEW gs, NEW v
    PROVE  v \in Concealed(gs)
             <=> \E i \in DOMAIN gs : gs[i].hidden /\ v \in ToSet(gs[i].members)
BY DEF Concealed, ToSet

\* A group that is there is found, and has the id that was looked for.
LEMMA PlaceInList ==
    ASSUME NEW gs \in Seq(Group), NEW id, Has(gs, id)
    PROVE  Place(gs, id) \in DOMAIN gs /\ gs[Place(gs, id)].id = id
<1>1. Len(gs) \in Nat /\ DOMAIN gs = 1..Len(gs)
    OBVIOUS
<1> QED
    BY <1>1, PlaceIs

\* An update moves the members to the first group with the id and takes them out of
\* the others.
LEMMA UpdatedIs ==
    ASSUME NEW gs \in Seq(Group), NEW r \in RequestSpace, r.kind = "update", Has(gs, r.id),
           NEW p, p = Place(gs, r.id),
           NEW m, m = Given(r.members, gs[p].members),
           NEW u, u = Updated(r, gs)
    PROVE  /\ p \in DOMAIN gs /\ gs[p].id = r.id
           /\ m \in Lists /\ Given(r.hidden, gs[p].hidden) \in BOOLEAN
           /\ u \in Seq(Group) /\ DOMAIN u = DOMAIN gs
           /\ u[p].id = r.id /\ u[p].members = m
           /\ u[p].hidden = Given(r.hidden, gs[p].hidden)
           /\ \A i \in DOMAIN gs \ {p} : u[i] = Taken(gs, m)[i]
           /\ Place(u, r.id) = p
<1>1. p \in DOMAIN gs /\ gs[p].id = r.id
    BY PlaceInList
<1>2. /\ gs[p] \in Group /\ gs[p].id \in Ids /\ gs[p].hidden \in BOOLEAN
      /\ gs[p].look \in Looks /\ gs[p].members \in Lists
    BY <1>1, GroupFacts
<1>3. /\ r.members \in Lists \cup {None} /\ r.hidden \in BOOLEAN \cup {None}
      /\ r.look \in Looks \cup {None}
    BY RequestFacts
<1>4. m \in Lists
    BY <1>2, <1>3 DEF Given
<1>5. Given(r.hidden, gs[p].hidden) \in BOOLEAN
    BY <1>2, <1>3 DEF Given
<1>6. Given(r.look, gs[p].look) \in Looks
    BY <1>2, <1>3 DEF Given
<1>7. u = [i \in DOMAIN gs |->
             IF i # p THEN Taken(gs, m)[i]
             ELSE [gs[i] EXCEPT !.members = m, !.hidden = Given(r.hidden, @),
                                !.look = Given(r.look, @)]]
    BY DEF Updated, At
<1>8. DOMAIN u = DOMAIN gs /\ \A i \in DOMAIN gs \ {p} : u[i] = Taken(gs, m)[i]
    BY <1>7
<1>9. PICK hidden \in BOOLEAN : hidden = Given(r.hidden, gs[p].hidden)
    BY <1>5
<1>10. PICK look \in Looks : look = Given(r.look, gs[p].look)
    BY <1>6
<1>11. u[p] = [gs[p] EXCEPT !.members = m, !.hidden = hidden, !.look = look]
    BY <1>1, <1>7, <1>9, <1>10
<1>12. /\ u[p] \in Group /\ u[p].id = gs[p].id /\ u[p].members = m /\ u[p].hidden = hidden
    BY <1>2, <1>4, <1>11 DEF Group
<1>13. PICK n \in Nat : DOMAIN gs = 1..n
    OBVIOUS
<1>14. \A i \in DOMAIN gs : u[i] \in Group /\ u[i].id = gs[i].id
  <2>1. \A i \in DOMAIN gs : Taken(gs, m)[i] \in Group /\ Taken(gs, m)[i].id = gs[i].id
      BY TakenIs
  <2> QED
      BY <1>8, <1>12, <2>1
<1>15. u \in Seq(Group)
  <2>1. u \in [1..n -> Group]
      BY <1>7, <1>13, <1>14
  <2> QED
      BY <2>1
<1>16. Place(gs, r.id) = Place(u, r.id)
    <2>1. DOMAIN u = 1..n /\ \A i \in 1..n : gs[i].id = u[i].id
        BY <1>8, <1>13, <1>14
    <2> QED BY <1>13, <2>1, SamePlaces
<1> QED
    BY <1>1, <1>4, <1>5, <1>8, <1>9, <1>12, <1>15, <1>16

\* The new group comes last, with members that leave the others.
LEMMA CreatedIs ==
    ASSUME NEW gs \in Seq(Group), NEW r \in RequestSpace, r.kind = "create",
           NEW n \in Nat, DOMAIN gs = 1..n,
           NEW c, c = Created(r, gs)
    PROVE  /\ c \in Seq(Group) /\ DOMAIN c = 1..(n + 1)
           /\ r.members \in Lists /\ r.hidden \in BOOLEAN
           /\ \A i \in 1..n : c[i] = Taken(gs, r.members)[i]
           /\ c[n + 1].id = r.id /\ c[n + 1].members = r.members /\ c[n + 1].hidden = r.hidden
<1>1. r.id \in Ids /\ r.members \in Lists /\ r.hidden \in BOOLEAN
    BY RequestFacts
<1>2. PICK g : g = [id |-> r.id, hidden |-> r.hidden, look |-> "plain", members |-> r.members]
    OBVIOUS
<1>3. /\ g \in Group /\ g.id = r.id /\ g.members = r.members /\ g.hidden = r.hidden
    BY <1>1, <1>2 DEF Group, Looks
<1>4. PICK ts : ts = Taken(gs, r.members)
    OBVIOUS
<1>5. ts \in Seq(Group) /\ DOMAIN ts = 1..n
    BY <1>4, TakenIs
<1>6. c = Append(ts, g)
    BY <1>2, <1>4 DEF Created
<1>7. c \in Seq(Group) /\ DOMAIN c = 1..(n + 1) /\ (\A i \in 1..n : c[i] = ts[i]) /\ c[n + 1] = g
    BY <1>3, <1>5, <1>6
<1> QED
    BY <1>1, <1>3, <1>4, <1>7

\* A permutation gives one group another list, of the same vaults.
LEMMA PermutedIs ==
    ASSUME NEW gs \in Seq(Group), NEW r \in RequestSpace, r.kind = "permute", Has(gs, r.id),
           NEW p, p = Place(gs, r.id),
           NEW e, e = Edited(r, gs)
    PROVE  /\ p \in DOMAIN gs /\ gs[p].id = r.id
           /\ e \in Seq(Group) /\ DOMAIN e = DOMAIN gs
           /\ e[p].id = gs[p].id /\ e[p].hidden = gs[p].hidden /\ e[p].members = r.members
           /\ \A i \in DOMAIN gs \ {p} : e[i] = gs[i]
<1>1. p \in DOMAIN gs /\ gs[p].id = r.id
    BY PlaceInList
<1>2. e = [i \in DOMAIN gs |-> IF i = p THEN [gs[i] EXCEPT !.members = r.members] ELSE gs[i]]
    BY DEF Edited
<1>3. r.members \in Lists /\ gs[p] \in Group
    BY <1>1, RequestFacts
<1>4. e[p] = [gs[p] EXCEPT !.members = r.members]
    BY <1>1, <1>2
<1>5. e[p] \in Group /\ e[p].id = gs[p].id /\ e[p].hidden = gs[p].hidden /\ e[p].members = r.members
    BY <1>3, <1>4 DEF Group
<1>6. DOMAIN e = DOMAIN gs /\ \A i \in DOMAIN gs \ {p} : e[i] = gs[i]
    BY <1>2
<1>7. PICK n \in Nat : DOMAIN gs = 1..n
    OBVIOUS
<1>8. \A i \in 1..n : e[i] \in Group
    BY <1>5, <1>6, <1>7
<1>9. e = [i \in 1..n |-> e[i]]
    BY <1>2, <1>7
<1>10. e \in [1..n -> Group]
    BY <1>8, <1>9, Zenon
<1>11. e \in Seq(Group)
    BY <1>10
<1> QED
    BY <1>1, <1>5, <1>6, <1>11

\* A new order touches nothing but looks.
LEMMA ReorderedIs ==
    ASSUME NEW gs \in Seq(Group), NEW r \in RequestSpace, r.kind = "reorder",
           NEW e, e = Edited(r, gs)
    PROVE  /\ e \in Seq(Group) /\ DOMAIN e = DOMAIN gs
           /\ \A i \in DOMAIN gs : /\ e[i].id = gs[i].id /\ e[i].hidden = gs[i].hidden
                                   /\ e[i].members = gs[i].members
<1>1. e = [i \in DOMAIN gs |-> IF gs[i].id \in r.ids THEN [gs[i] EXCEPT !.look = "changed"]
                               ELSE gs[i]]
    BY DEF Edited
<1>2. DOMAIN e = DOMAIN gs
    BY <1>1
<1>3. \A i \in DOMAIN gs : /\ e[i] \in Group
                           /\ e[i].id = gs[i].id /\ e[i].hidden = gs[i].hidden
                           /\ e[i].members = gs[i].members
  <2> SUFFICES ASSUME NEW i \in DOMAIN gs
               PROVE  /\ e[i] \in Group
                      /\ e[i].id = gs[i].id /\ e[i].hidden = gs[i].hidden
                      /\ e[i].members = gs[i].members
      OBVIOUS
  <2>1. gs[i] \in Group
      OBVIOUS
  <2>2. e[i] = gs[i] \/ e[i] = [gs[i] EXCEPT !.look = "changed"]
      BY <1>1
  <2> QED
      BY <2>1, <2>2 DEF Group, Looks
<1>4. PICK n \in Nat : DOMAIN gs = 1..n
    OBVIOUS
<1>5. e \in [1..n -> Group]
    BY <1>1, <1>3, <1>4
<1>6. e \in Seq(Group)
    BY <1>5
<1> QED
    BY <1>2, <1>3, <1>6

\* A deletion keeps the other groups as they are.
LEMMA DeletedIs ==
    ASSUME NEW gs \in Seq(Group), NEW r \in RequestSpace, r.kind = "delete"
    PROVE  Edited(r, gs) \in Seq(Group) /\ ToSet(Edited(r, gs)) \subseteq ToSet(gs)
<1>1. PICK P \in SUBSET DOMAIN gs : P = DOMAIN gs \ {Place(gs, r.id)}
    OBVIOUS
<1>2. Edited(r, gs) = KeepAt(gs, P)
    BY <1>1 DEF Edited
<1>3. KeepAt(gs, P) \in Seq(Group) /\ ToSet(KeepAt(gs, P)) = {gs[i] : i \in P}
    BY KeepAtProps
<1> QED
    BY <1>2, <1>3 DEF ToSet

\* The vaults an update hides or shows.
LEMMA UpdateTargetsAre ==
    ASSUME NEW gs \in Seq(Group), NEW r \in RequestSpace, r.kind = "update", Has(gs, r.id),
           NEW p, p = Place(gs, r.id),
           NEW m, m = Given(r.members, gs[p].members),
           NEW hidden, hidden = Given(r.hidden, gs[p].hidden)
    PROVE  /\ Targets(r, gs) \in Lists
           /\ ToSet(Targets(r, gs)) \subseteq ToSet(gs[p].members) \cup ToSet(m)
           /\ gs[p].hidden # hidden =>
                ToSet(Targets(r, gs)) = ToSet(gs[p].members) \cup ToSet(m)
           /\ gs[p].hidden = hidden /\ hidden => ToSet(Targets(r, gs)) = ToSet(m)
<1>1. PICK u : u = Updated(r, gs)
    OBVIOUS
<1>2. /\ p \in DOMAIN gs /\ m \in Lists /\ hidden \in BOOLEAN
      /\ u[p].members = m /\ u[p].hidden = hidden /\ Place(u, r.id) = p
    BY <1>1, UpdatedIs
<1>3. PICK old \in Lists : old = gs[p].members
    BY <1>2, GroupFacts
<1>4. PICK newcomers \in Lists : newcomers = Without(m, ToSet(old))
    BY <1>2, WithoutMembers
<1>5. ToSet(newcomers) = ToSet(m) \ ToSet(old)
    BY <1>2, <1>4, WithoutMembers
<1>6. old \o newcomers \in Lists /\ ToSet(old \o newcomers) = ToSet(old) \cup ToSet(newcomers)
    BY <1>5, JoinedLists
<1>7. Targets(r, gs) = IF gs[p].hidden # hidden THEN old \o newcomers
                       ELSE IF hidden THEN m ELSE newcomers
    BY <1>1, <1>2, <1>3, <1>4 DEF Targets, UpdateTargets, At
<1> QED
    BY <1>2, <1>3, <1>5, <1>6, <1>7

\* What an accepted request wants has the types it should have.
LEMMA EditedTyped ==
    ASSUME NEW gs \in Seq(Group), NEW r \in RequestSpace, r.kind \in GroupKinds, Accepted(r, gs)
    PROVE  Edited(r, gs) \in Seq(Group) /\ Targets(r, gs) \in Lists /\ Flag(r, gs) \in BOOLEAN
<1>1. CASE r.kind = "create"
  <2>1. PICK n \in Nat : DOMAIN gs = 1..n
      OBVIOUS
  <2>2. Created(r, gs) \in Seq(Group) /\ r.members \in Lists /\ r.hidden \in BOOLEAN
      BY <1>1, <2>1, CreatedIs
  <2> QED
      BY <1>1, <2>2 DEF Edited, Targets, Flag
<1>2. CASE r.kind = "update"
  <2>1. Has(gs, r.id)
      BY <1>2 DEF Accepted
  <2>2. PICK p : p = Place(gs, r.id)
      OBVIOUS
  <2>3. PICK m : m = Given(r.members, gs[p].members)
      OBVIOUS
  <2>4. PICK hidden : hidden = Given(r.hidden, gs[p].hidden)
      OBVIOUS
  <2>5. Updated(r, gs) \in Seq(Group) /\ hidden \in BOOLEAN
      BY <1>2, <2>1, <2>2, <2>3, <2>4, UpdatedIs
  <2>6. Targets(r, gs) \in Lists
      BY <1>2, <2>1, <2>2, <2>3, <2>4, UpdateTargetsAre
  <2>7. Flag(r, gs) = hidden
      BY <1>2, <2>2, <2>4, <2>5 DEF Flag, At
  <2> QED
      BY <1>2, <2>5, <2>6, <2>7 DEF Edited
<1>3. CASE r.kind \in {"delete", "reorder", "permute", "repair"}
  <2>1. Targets(r, gs) \in Lists /\ Flag(r, gs) \in BOOLEAN
      BY <1>3, ListFacts DEF Targets, Flag
  <2>2. CASE r.kind = "delete"
      BY <2>1, <2>2, DeletedIs
  <2>3. CASE r.kind = "reorder"
      BY <2>1, <2>3, ReorderedIs
  <2>4. CASE r.kind = "permute"
    <3>1. Has(gs, r.id)
        BY <2>4 DEF Accepted
    <3> QED
        BY <2>1, <2>4, <3>1, PermutedIs
  <2>5. CASE r.kind = "repair"
      BY <2>1, <2>5 DEF Edited
  <2> QED
      BY <1>3, <2>2, <2>3, <2>4, <2>5
<1> QED
    BY <1>1, <1>2, <1>3 DEF GroupKinds

\* A vault the edited groups hide is one the request has hidden, or one that a group
\* hid before and the request let be.
LEMMA EditedConceals ==
    ASSUME NEW gs \in Seq(Group), Apart(gs), NEW r \in RequestSpace, r.kind \in GroupKinds,
           Accepted(r, gs), NEW v \in Concealed(Edited(r, gs))
    PROVE  \/ v \in ToSet(Targets(r, gs)) /\ Flag(r, gs)
           \/ v \in Concealed(gs) \ ToSet(Targets(r, gs))
<1>1. PICK e : e = Edited(r, gs)
    OBVIOUS
<1>2. PICK i \in DOMAIN e : e[i].hidden /\ v \in ToSet(e[i].members)
    BY <1>1, ConcealedIs
<1>3. PICK n \in Nat : DOMAIN gs = 1..n
    OBVIOUS
<1>4. ASSUME NEW m, NEW j \in 1..n
      PROVE  /\ Taken(gs, m)[j].hidden = gs[j].hidden
             /\ ToSet(Taken(gs, m)[j].members) = ToSet(gs[j].members) \ ToSet(m)
  <2>1. j \in DOMAIN gs
      BY <1>3
  <2>2. \A k \in DOMAIN gs :
          /\ Taken(gs, m)[k] \in Group
          /\ Taken(gs, m)[k].id = gs[k].id /\ Taken(gs, m)[k].hidden = gs[k].hidden
          /\ Taken(gs, m)[k].members = Without(gs[k].members, ToSet(m))
          /\ ToSet(Taken(gs, m)[k].members) = ToSet(gs[k].members) \ ToSet(m)
      BY TakenIs
  <2> QED
      BY <2>1, <2>2
<1>5. CASE r.kind = "create"
  <2>1. e = Created(r, gs)
      BY <1>1, <1>5 DEF Edited
  <2>2. /\ DOMAIN e = 1..(n + 1)
        /\ \A j \in 1..n : e[j] = Taken(gs, r.members)[j]
        /\ e[n + 1].members = r.members /\ e[n + 1].hidden = r.hidden
      BY <1>3, <1>5, <2>1, CreatedIs
  <2>3. Targets(r, gs) = r.members /\ (Flag(r, gs) <=> r.hidden)
      BY <1>5 DEF Targets, Flag
  <2>4. CASE i = n + 1
      BY <1>2, <2>2, <2>3, <2>4
  <2>5. CASE i # n + 1
    <3>1. i \in 1..n
        BY <2>2, <2>5
    <3>2. gs[i].hidden /\ v \in ToSet(gs[i].members) \ ToSet(r.members)
      <4>1. PICK m : m = r.members
          OBVIOUS
      <4>2. e[i] = Taken(gs, m)[i]
          BY <2>2, <3>1, <4>1
      <4>3. e[i].hidden = gs[i].hidden
          BY <1>4, <3>1, <4>2
      <4>4. ToSet(e[i].members) = ToSet(gs[i].members) \ ToSet(m)
          BY <1>4, <3>1, <4>2
      <4> QED
          BY <1>2, <4>1, <4>3, <4>4
    <3>3. v \in Concealed(gs)
        BY <1>3, <3>1, <3>2, ConcealedIs
    <3> QED
        BY <2>3, <3>2, <3>3
  <2> QED
      BY <2>4, <2>5
<1>6. CASE r.kind = "update"
  <2>1. e = Updated(r, gs) /\ Has(gs, r.id)
      BY <1>1, <1>6 DEF Edited, Accepted
  <2>2. PICK p : p = Place(gs, r.id)
      OBVIOUS
  <2>3. PICK m : m = Given(r.members, gs[p].members)
      OBVIOUS
  <2>4. PICK hidden : hidden = Given(r.hidden, gs[p].hidden)
      OBVIOUS
  <2>5. /\ p \in DOMAIN gs /\ hidden \in BOOLEAN /\ DOMAIN e = DOMAIN gs
        /\ e[p].members = m /\ e[p].hidden = hidden
        /\ \A j \in DOMAIN gs \ {p} : e[j] = Taken(gs, m)[j]
      BY <1>6, <2>1, <2>2, <2>3, <2>4, UpdatedIs
  <2>6. /\ ToSet(Targets(r, gs)) \subseteq ToSet(gs[p].members) \cup ToSet(m)
        /\ gs[p].hidden # hidden =>
             ToSet(Targets(r, gs)) = ToSet(gs[p].members) \cup ToSet(m)
        /\ gs[p].hidden = hidden /\ hidden => ToSet(Targets(r, gs)) = ToSet(m)
      BY <1>6, <2>1, <2>2, <2>3, <2>4, UpdateTargetsAre
  <2>7. Flag(r, gs) <=> hidden
      BY <1>6, <2>2, <2>4, <2>5 DEF Flag, At
  <2>8. gs[p].hidden \in BOOLEAN
      BY <2>5, GroupFacts
  <2>9. CASE i = p
      BY <1>2, <2>5, <2>6, <2>7, <2>8, <2>9
  <2>10. CASE i # p
    <3>1. i \in 1..n /\ i \in DOMAIN gs \ {p}
        BY <1>2, <1>3, <2>5, <2>10
    <3>2. e[i] = Taken(gs, m)[i]
        BY <2>5, <3>1
    <3>3. gs[i].hidden /\ v \in ToSet(gs[i].members) \ ToSet(m)
        BY <1>2, <1>4, <3>1, <3>2
    <3>4. v \notin ToSet(gs[p].members)
        BY <2>5, <3>1, <3>3 DEF Apart
    <3>5. v \in Concealed(gs)
        BY <1>3, <3>1, <3>3, ConcealedIs
    <3> QED
        BY <2>6, <3>3, <3>4, <3>5
  <2> QED
      BY <2>9, <2>10
<1>7. CASE r.kind \in {"delete", "reorder", "permute", "repair"}
  <2>1. ToSet(Targets(r, gs)) = {}
      BY <1>7, ListFacts DEF Targets
  <2>2. CASE r.kind = "delete"
    <3>1. ToSet(e) \subseteq ToSet(gs)
        BY <1>1, <2>2, DeletedIs
    <3>2. v \in Concealed(gs)
        BY <1>1, <3>1 DEF Concealed
    <3> QED
        BY <2>1, <3>2
  <2>3. CASE r.kind = "reorder"
    <3>1. i \in DOMAIN gs /\ gs[i].hidden /\ v \in ToSet(gs[i].members)
        BY <1>1, <1>2, <2>3, ReorderedIs
    <3> QED
        BY <2>1, <3>1, ConcealedIs
  <2>4. CASE r.kind = "permute"
    <3>1. PICK p : p = Place(gs, r.id)
        OBVIOUS
    <3>2. Has(gs, r.id) /\ ToSet(r.members) = ToSet(gs[p].members)
        BY <2>4, <3>1 DEF Accepted, At
    <3>3. /\ p \in DOMAIN gs /\ DOMAIN e = DOMAIN gs
          /\ e[p].hidden = gs[p].hidden /\ e[p].members = r.members
          /\ \A j \in DOMAIN gs \ {p} : e[j] = gs[j]
        BY <1>1, <2>4, <3>1, <3>2, PermutedIs
    <3>4. i \in DOMAIN gs /\ gs[i].hidden /\ v \in ToSet(gs[i].members)
        BY <1>2, <3>2, <3>3
    <3> QED
        BY <2>1, <3>4, ConcealedIs
  <2>5. CASE r.kind = "repair"
    <3>1. e = <<>>
        BY <1>1, <2>5 DEF Edited
    <3> QED
        BY <1>2, <3>1
  <2> QED
      BY <1>7, <2>2, <2>3, <2>4, <2>5
<1> QED
    BY <1>5, <1>6, <1>7 DEF GroupKinds

-----------------------------------------------------------------------------
\* THE INDUCTIVE INVARIANT

\* The groups as every RPC reads them.
Current == Soften(file.groups)

Todo(t) == ToSet(work[t].todo)
Done(t) == ToSet(work[t].done)

\* The members of the hidden groups are hidden, but for what something else has set.
InLine == \A v \in Concealed(Current) \ stray : Readable(v) => config[v].hidden

\* The request a thread serves is of the kind its place in the code is for.
Served(t) ==
    /\ pc[t] \in Locked \cup {"lock"} => req[t].kind \in GroupKinds
    /\ pc[t] \in {"config_save", "mkdir", "config", "seed"} => req[t].kind \in {"save", "new"}

\* What is to flip and what is flipped are apart, and targets all.
Lined(t) ==
    /\ Todo(t) \cap Done(t) = {}
    /\ Todo(t) \cup Done(t) \subseteq ToSet(work[t].targets)
    /\ pc[t] \in {"plan", "save", "backup"} => work[t].todo = <<>>
    /\ pc[t] = "plan" => work[t].done = <<>>
    /\ pc[t] \in {"hide", "hide_write"} => work[t].todo # <<>>
    /\ pc[t] = "revert_write" => work[t].done # <<>>
    /\ pc[t] \in {"hide_write", "revert_write"} => work[t].loaded.is \in {"good", "badmount"}

\* Until it has replaced the file, a thread works on what is in it.
UpToDate(t) ==
    /\ Accepted(req[t], Current)
    /\ work[t].next = Edited(req[t], Current)
    /\ work[t].targets = Targets(req[t], Current)
    /\ work[t].flag = Flag(req[t], Current)

\* A flag is what the cascade has made it or what the cascade has found.
FlagsKnown(t) ==
    \A v \in Vaults \ stray : Readable(v) =>
        (config[v].hidden <=> IF v \in Done(t) THEN work[t].flag ELSE v \in work[t].before.hidden)

\* Whatever the cascade flips had the other flag.
TargetsTurn(t) == \A v \in Done(t) \cup Todo(t) : v \in work[t].before.hidden <=> ~work[t].flag

\* Of the vaults that were astray, a cascade brings back no more than its targets.
StraysBefore(t) ==
    /\ work[t].before.stray \ stray \subseteq ToSet(work[t].targets)
    /\ pc[t] = "plan" => work[t].before.stray \subseteq stray

\* Going forward, the targets have the flag already, or it is yet to be set.
TargetsSet(t) ==
    pc[t] \in {"hide", "hide_write", "save"} =>
        \A v \in ToSet(work[t].targets) \ (stray \cup Todo(t)) :
            Readable(v) => (config[v].hidden <=> work[t].flag)

\* Whatever the cascade has not touched is in line with the groups before it.
RestInLine(t) ==
    \A v \in Concealed(Current) \ (stray \cup work[t].before.stray \cup Done(t)) :
        Readable(v) => config[v].hidden

\* What it touches was.
TouchedWasHidden(t) ==
    \A v \in ((Done(t) \cup Todo(t)) \cap Concealed(Current)) \ work[t].before.stray :
        v \in work[t].before.hidden

\* In the middle of a cascade.
Cascading(t) ==
    /\ UpToDate(t) /\ FlagsKnown(t) /\ TargetsTurn(t) /\ StraysBefore(t) /\ TargetsSet(t)
    /\ RestInLine(t) /\ TouchedWasHidden(t)

InOrder(t) ==
    /\ Served(t) /\ Lined(t)
    /\ pc[t] \in Locked \ {"backup"} => Cascading(t)
    /\ pc[t] = "backup" => file.groups = <<>>

\* The inductive invariant.
Inv ==
    /\ TypeOK
    /\ lock \in Threads \cup {None}
    /\ \A t \in Threads : InOrder(t)
    /\ lock = None => InLine

-----------------------------------------------------------------------------
\* The moves of a thread.

\* The values that stand for nothing have their types.
LEMMA NoWorkTyped ==
    /\ NoWork \in Work /\ Gone \in ConfigSpace /\ Broken \in ConfigSpace
    /\ Valid(<<>>) \in FileSpace
<1>1. Gone \in ConfigSpace /\ Broken \in ConfigSpace
    BY GroupsAssumption DEF Gone, Broken, ConfigSpace
<1>2. Valid(<<>>) \in FileSpace
    BY DEF Valid, FileSpace
<1>3. <<>> \in Lists /\ <<>> \in Seq(Group)
    BY ListFacts
<1> QED
    BY <1>1, <1>2, <1>3 DEF NoWork, Work

\* One thread moves.
LEMMA GotoFacts ==
    ASSUME TypeOK, NEW t \in Threads, NEW label \in Labels, Goto(t, label)
    PROVE  /\ pc' \in [Threads -> Labels] /\ pc'[t] = label
           /\ \A u \in Threads \ {t} : pc'[u] = pc[u]
BY DEF TypeOK, Goto

\* The RPC of one thread ends.
LEMMA ReplyFacts ==
    ASSUME TypeOK, NEW t \in Threads, Reply(t)
    PROVE  /\ pc' \in [Threads -> Labels] /\ req' \in [Threads -> RequestSpace \cup {Idle}]
           /\ work' \in [Threads -> Work]
           /\ pc'[t] = "idle" /\ req'[t] = Idle /\ work'[t] = NoWork
           /\ \A u \in Threads \ {t} : pc'[u] = pc[u] /\ req'[u] = req[u] /\ work'[u] = work[u]
<1>1. /\ pc' = [pc EXCEPT ![t] = "idle"] /\ req' = [req EXCEPT ![t] = Idle]
      /\ work' = [work EXCEPT ![t] = NoWork]
    BY DEF Reply, Goto
<1>2. "idle" \in Labels
    BY DEF Labels
<1> QED
    BY <1>1, <1>2, NoWorkTyped DEF TypeOK

\* The holder of the lock is the only thread in the middle of a group RPC.
LEMMA OneHolder ==
    ASSUME TypeOK, NEW t \in Threads
    PROVE  /\ pc[t] \in Locked => lock = t /\ \A u \in Threads \ {t} : pc[u] \notin Locked
           /\ lock = None => pc[t] \notin Locked
BY GroupsAssumption DEF TypeOK

\* A thread that is idle is in order.
LEMMA IdleInOrder ==
    ASSUME NEW t \in Threads, pc'[t] = "idle", work'[t] = NoWork
    PROVE  InOrder(t)'
<1>1. Todo(t)' = {} /\ Done(t)' = {}
    BY ListFacts DEF Todo, Done, NoWork
<1>2. Served(t)'
    BY DEF Served, Locked
<1>3. Lined(t)'
    BY <1>1 DEF Lined
<1> QED
    BY <1>2, <1>3 DEF InOrder, Locked

\* A thread outside the lock is not disturbed by others.
LEMMA OthersInOrder ==
    ASSUME NEW u \in Threads, InOrder(u), pc[u] \notin Locked,
           pc'[u] = pc[u], req'[u] = req[u], work'[u] = work[u]
    PROVE  InOrder(u)'
<1>1. Served(u)' /\ Lined(u)'
    BY DEF InOrder, Served, Lined, Todo, Done
<1> QED
    BY <1>1 DEF InOrder, Locked

\* The locals of a thread.
LEMMA WorkFacts ==
    ASSUME TypeOK, NEW t \in Threads
    PROVE  /\ work[t] \in Work
           /\ work[t].next \in Seq(Group) /\ work[t].targets \in Lists
           /\ work[t].flag \in BOOLEAN /\ work[t].todo \in Lists /\ work[t].done \in Lists
           /\ work[t].loaded \in ConfigSpace /\ work[t].old \in FileSpace
           /\ work[t].before.hidden \in SUBSET Vaults /\ work[t].before.stray \in SUBSET Vaults
<1>1. work[t] \in Work
    BY DEF TypeOK
<1> QED
    BY <1>1 DEF Work

\* The fields of a config.
LEMMA ConfigFacts ==
    ASSUME TypeOK, NEW v \in Vaults
    PROVE  /\ config[v] \in ConfigSpace /\ config[v].hidden \in BOOLEAN
           /\ config[v].is \in {"gone", "broken", "badmount", "good"}
           /\ config[v].note \in 0..MaxCalls
<1>1. config[v] \in ConfigSpace
    BY DEF TypeOK
<1> QED
    BY <1>1 DEF ConfigSpace

\* The groups an RPC works on.
LEMMA CurrentIs ==
    ASSUME TypeOK
    PROVE  /\ file.groups \in Seq(Group) /\ Current \in Seq(Group) /\ Apart(Current)
           /\ Concealed(Current) \subseteq Vaults
<1>1. PICK gs \in Seq(Group) : gs = file.groups
    BY DEF TypeOK, FileSpace
<1>2. Soften(gs) \in Seq(Group) /\ Apart(Soften(gs))
    BY SoftenIs
<1>3. PICK ss \in Seq(Group) : ss = Soften(gs)
    BY <1>2
<1>4. ASSUME NEW v \in Concealed(ss) PROVE v \in Vaults
  <2>1. PICK i \in DOMAIN ss : v \in ToSet(ss[i].members)
      BY <1>4, ConcealedIs
  <2> QED
      BY <2>1, GroupFacts
<1> QED
    BY <1>1, <1>2, <1>3, <1>4 DEF Current

\* What Flipped does to the work of a thread.
LEMMA FlippedFacts ==
    ASSUME TypeOK, NEW t \in Threads, work[t].todo # <<>>, Todo(t) \cap Done(t) = {},
           NEW v, v = Head(work[t].todo), Flipped(t, v)
    PROVE  /\ v \in Vaults /\ v \in Todo(t)
           /\ work' \in [Threads -> Work] /\ pc' \in [Threads -> Labels]
           /\ pc'[t] \in {"hide", "save"} /\ (pc'[t] = "save" <=> work'[t].todo = <<>>)
           /\ Todo(t)' = Todo(t) \ {v} /\ Done(t)' = Done(t) \cup {v}
           /\ work'[t].targets = work[t].targets /\ work'[t].flag = work[t].flag
           /\ work'[t].next = work[t].next /\ work'[t].before = work[t].before
           /\ \A u \in Threads \ {t} : work'[u] = work[u] /\ pc'[u] = pc[u]
           /\ stray' = stray \ {v}
<1>1. PICK w \in Work : w = work[t]
    BY WorkFacts
<1>2. w.todo \in Lists /\ w.done \in Lists /\ w.todo # <<>>
    BY <1>1, WorkFacts
<1>3. /\ v \in ToSet(w.todo) /\ Tail(w.todo) \in Lists
      /\ ToSet(Tail(w.todo)) = ToSet(w.todo) \ {v}
      /\ Len(w.todo) = 1 <=> Tail(w.todo) = <<>>
    BY <1>1, <1>2, EndsOfList
<1>4. v \in Vaults /\ v \notin ToSet(w.done)
    BY <1>1, <1>2, <1>3, ListFacts DEF Todo, Done
<1>5. Append(w.done, v) \in Lists /\ ToSet(Append(w.done, v)) = ToSet(w.done) \cup {v}
    BY <1>2, <1>4, AppendedList
<1>6. PICK x : x = [w EXCEPT !.todo = Tail(@), !.done = Append(@, v)]
    OBVIOUS
<1>7. /\ x \in Work /\ x.todo = Tail(w.todo) /\ x.done = Append(w.done, v)
      /\ x.targets = w.targets /\ x.flag = w.flag /\ x.next = w.next /\ x.before = w.before
    BY <1>3, <1>5, <1>6 DEF Work
<1>8. work' = [work EXCEPT ![t] = x]
    BY <1>1, <1>6 DEF Flipped, TypeOK
<1>9. work' \in [Threads -> Work] /\ work'[t] = x /\ \A u \in Threads \ {t} : work'[u] = work[u]
    BY <1>7, <1>8 DEF TypeOK
<1>10. PICK label \in {"hide", "save"} :
           /\ label = IF Len(w.todo) = 1 THEN "save" ELSE "hide"
           /\ Goto(t, label)
    BY <1>1 DEF Flipped
<1>11. label \in Labels
    BY DEF Labels, Locked
<1>12. /\ pc' \in [Threads -> Labels] /\ pc'[t] = label
       /\ \A u \in Threads \ {t} : pc'[u] = pc[u]
    BY <1>10, <1>11, GotoFacts
<1>13. Todo(t)' = ToSet(x.todo) /\ Done(t)' = ToSet(x.done)
    BY <1>9 DEF Todo, Done
<1>14. Todo(t) = ToSet(w.todo) /\ Done(t) = ToSet(w.done)
    BY <1>1 DEF Todo, Done
<1>15. pc'[t] = "save" <=> work'[t].todo = <<>>
    BY <1>3, <1>7, <1>9, <1>10, <1>12
<1>16. stray' = stray \ {v}
    BY DEF Flipped
<1> QED
    BY <1>1, <1>3, <1>4, <1>5, <1>7, <1>9, <1>10, <1>12, <1>13, <1>14, <1>15, <1>16

\* One flag forward.
LEMMA ForwardStep ==
    ASSUME Inv, NEW t \in Threads, pc[t] \in {"hide", "hide_write"},
           NEW v, v = Head(work[t].todo), Flipped(t, v),
           file' = file, req' = req,
           \A u \in Vaults \ {v} : config'[u] = config[u],
           config'[v].hidden = work[t].flag
    PROVE  InOrder(t)'
<1>1. TypeOK /\ InOrder(t) /\ pc[t] \in Locked \ {"backup"}
    BY DEF Inv, Locked
<1>2. Served(t) /\ Lined(t) /\ Cascading(t)
    BY <1>1 DEF InOrder
<1>3. work[t].todo # <<>> /\ Todo(t) \cap Done(t) = {}
    BY <1>2 DEF Lined
<1>4. /\ v \in Vaults /\ v \in Todo(t)
      /\ pc'[t] \in {"hide", "save"} /\ (pc'[t] = "save" <=> work'[t].todo = <<>>)
      /\ Todo(t)' = Todo(t) \ {v} /\ Done(t)' = Done(t) \cup {v}
      /\ work'[t].targets = work[t].targets /\ work'[t].flag = work[t].flag
      /\ work'[t].next = work[t].next /\ work'[t].before = work[t].before
      /\ stray' = stray \ {v}
    BY <1>1, <1>3, FlippedFacts
<1>5. Current' = Current
    BY DEF Current
<1>6. /\ work[t].flag \in BOOLEAN /\ ToSet(work[t].targets) \subseteq Vaults
      /\ Concealed(Current) \subseteq Vaults
    BY <1>1, WorkFacts, CurrentIs, ListFacts
<1>7. Served(t)'
    BY <1>1, <1>2, <1>4 DEF Served, Locked
<1>8. Lined(t)'
    BY <1>2, <1>4 DEF Lined
<1>9. UpToDate(t)'
    BY <1>2, <1>4, <1>5 DEF Cascading, UpToDate
<1>10. FlagsKnown(t)'
    BY <1>2, <1>4 DEF Cascading, FlagsKnown, Readable
<1>11. TargetsTurn(t)'
    BY <1>2, <1>4 DEF Cascading, TargetsTurn
<1>12. StraysBefore(t)'
    BY <1>2, <1>4 DEF Cascading, StraysBefore, Lined
<1>13. TargetsSet(t)'
  <2> SUFFICES ASSUME NEW u \in ToSet(work[t].targets) \ (stray' \cup Todo(t)'), Readable(u)'
               PROVE  config'[u].hidden <=> work[t].flag
      BY <1>4 DEF TargetsSet
  <2>1. CASE u = v
      BY <2>1
  <2>2. CASE u # v
    <3>1. u \in ToSet(work[t].targets) \ (stray \cup Todo(t)) /\ config'[u] = config[u]
        BY <1>4, <1>6, <2>2
    <3> QED
        BY <1>2, <3>1 DEF Cascading, TargetsSet, Readable
  <2> QED
      BY <2>1, <2>2
<1>14. RestInLine(t)'
    BY <1>2, <1>4, <1>5, <1>6 DEF Cascading, RestInLine, Readable
<1>15. TouchedWasHidden(t)'
    BY <1>2, <1>4, <1>5 DEF Cascading, TouchedWasHidden
<1> QED
    BY <1>4, <1>7, <1>8, <1>9, <1>10, <1>11, <1>12, <1>13, <1>14, <1>15
       DEF InOrder, Cascading

\* A cascade that cannot go on turns back with all it has done.
LEMMA TurnBack ==
    ASSUME Inv, NEW t \in Threads, pc[t] \in Locked \ {"backup"}, Fail(t),
           UNCHANGED <<file, config, req, work, stray>>
    PROVE  InOrder(t)' /\ pc'[t] = "revert"
<1>1. TypeOK /\ InOrder(t)
    BY DEF Inv
<1>2. pc'[t] = "revert" /\ "revert" \in Locked
    BY <1>1 DEF Fail, Goto, TypeOK, Locked
<1>3. Served(t) /\ Lined(t) /\ Cascading(t)
    BY <1>1 DEF InOrder
<1>4. Current' = Current /\ Todo(t)' = Todo(t) /\ Done(t)' = Done(t)
    BY DEF Current, Todo, Done
<1>5. Served(t)'
    BY <1>2, <1>3 DEF Served
<1>6. Lined(t)'
    BY <1>2, <1>3, <1>4 DEF Lined
<1>7. Cascading(t)'
    BY <1>2, <1>3, <1>4 DEF Cascading, UpToDate, FlagsKnown, TargetsTurn, StraysBefore,
          TargetsSet, RestInLine, TouchedWasHidden, Readable
<1> QED
    BY <1>2, <1>5, <1>6, <1>7 DEF InOrder

\* One flag back: it is as it was found, or astray, or nobody can read it.
LEMMA BackwardStep ==
    ASSUME Inv, NEW t \in Threads, pc[t] \in {"revert", "revert_write"},
           work[t].done # <<>>, NEW v, v = Last(work[t].done),
           Set(t, "done", Front(work[t].done)), pc'[t] = "revert",
           file' = file, req' = req,
           \A u \in Vaults \ {v} : config'[u] = config[u],
           stray \subseteq stray', stray' \subseteq stray \cup {v},
           \/ v \in stray'
           \/ ~(config'[v].is \in {"good", "badmount"})
           \/ config'[v].hidden = ~work[t].flag
    PROVE  /\ InOrder(t)' /\ v \in Vaults
           /\ work' \in [Threads -> Work]
           /\ \A u \in Threads \ {t} : work'[u] = work[u]
<1>1. TypeOK /\ InOrder(t) /\ pc[t] \in Locked \ {"backup"}
    BY DEF Inv, Locked
<1>2. Served(t) /\ Lined(t) /\ Cascading(t)
    BY <1>1 DEF InOrder
<1>3. PICK w \in Work : w = work[t]
    BY <1>1, WorkFacts
<1>4. w.done \in Lists /\ w.done # <<>> /\ w.flag \in BOOLEAN
    BY <1>1, <1>3, WorkFacts
<1>5. /\ v \in ToSet(w.done) /\ Front(w.done) \in Lists
      /\ ToSet(Front(w.done)) = ToSet(w.done) \ {v}
    BY <1>3, <1>4, EndsOfList
<1>6. PICK x : x = [w EXCEPT !.done = Front(w.done)]
    OBVIOUS
<1>7. /\ x \in Work /\ x.todo = w.todo /\ x.done = Front(w.done)
      /\ x.targets = w.targets /\ x.flag = w.flag /\ x.next = w.next /\ x.before = w.before
    BY <1>5, <1>6 DEF Work
<1>8. work' = [work EXCEPT ![t] = x]
    BY <1>1, <1>3, <1>6 DEF Set, TypeOK
<1>9. work' \in [Threads -> Work] /\ work'[t] = x /\ \A u \in Threads \ {t} : work'[u] = work[u]
    BY <1>1, <1>7, <1>8 DEF TypeOK
<1>10. /\ Todo(t)' = Todo(t) /\ Done(t)' = Done(t) \ {v} /\ v \in Done(t)
       /\ work'[t].targets = work[t].targets /\ work'[t].flag = work[t].flag
       /\ work'[t].next = work[t].next /\ work'[t].before = work[t].before
    BY <1>3, <1>5, <1>7, <1>9 DEF Todo, Done
<1>11. v \in Vaults
    BY <1>4, <1>5, ListFacts
<1>12. Current' = Current
    BY DEF Current
<1>13. v \in work[t].before.hidden <=> ~work[t].flag
    BY <1>2, <1>10 DEF Cascading, TargetsTurn
<1>14. v \in stray' \/ (Readable(v)' => (config'[v].hidden <=> v \in work[t].before.hidden))
    BY <1>3, <1>4, <1>13 DEF Readable
<1>15. Served(t)'
    BY <1>1, <1>2 DEF Served, Locked
<1>16. Lined(t)'
    BY <1>2, <1>10 DEF Lined
<1>17. UpToDate(t)'
    BY <1>2, <1>10, <1>12 DEF Cascading, UpToDate
<1>18. FlagsKnown(t)'
  <2> SUFFICES ASSUME NEW u \in Vaults \ stray', Readable(u)'
               PROVE  config'[u].hidden
                        <=> IF u \in Done(t)' THEN work[t].flag ELSE u \in work[t].before.hidden
      BY <1>10 DEF FlagsKnown
  <2>1. CASE u = v
      BY <1>10, <1>14, <2>1
  <2>2. CASE u # v
    <3>1. u \in Vaults \ stray /\ config'[u] = config[u] /\ Readable(u)
        BY <2>2 DEF Readable
    <3> QED
        BY <1>2, <1>10, <2>2, <3>1 DEF Cascading, FlagsKnown
  <2> QED
      BY <2>1, <2>2
<1>19. TargetsTurn(t)'
    BY <1>2, <1>10 DEF Cascading, TargetsTurn
<1>20. StraysBefore(t)'
    BY <1>2, <1>10 DEF Cascading, StraysBefore
<1>21. TargetsSet(t)'
    BY DEF TargetsSet
<1>22. RestInLine(t)'
  <2> SUFFICES
        ASSUME NEW u \in Concealed(Current) \ (stray' \cup work[t].before.stray \cup Done(t)'),
                      Readable(u)'
               PROVE  config'[u].hidden
      BY <1>10, <1>12 DEF RestInLine
  <2>1. CASE u = v
    <3>1. u \in work[t].before.hidden
        BY <1>2, <1>10, <2>1 DEF Cascading, TouchedWasHidden
    <3> QED
        BY <1>14, <2>1, <3>1
  <2>2. CASE u # v
    <3>1. u \in Concealed(Current) \ (stray \cup work[t].before.stray \cup Done(t))
        BY <1>10, <2>2
    <3>2. config'[u] = config[u] /\ Readable(u)
        BY <1>1, <2>2, CurrentIs DEF Readable
    <3> QED
        BY <1>2, <3>1, <3>2 DEF Cascading, RestInLine
  <2> QED
      BY <2>1, <2>2
<1>23. TouchedWasHidden(t)'
    BY <1>2, <1>10, <1>12 DEF Cascading, TouchedWasHidden
<1> QED
    BY <1>9, <1>11, <1>15, <1>16, <1>17, <1>18, <1>19, <1>20, <1>21, <1>22, <1>23
       DEF InOrder, Cascading

-----------------------------------------------------------------------------
\* STEPS OF THREADS OUTSIDE THE LOCK, OF THE USER AND OF A CRASH

\* A step beside the lock: wherever it makes a flag other than it was, the vault is
\* astray or cannot be read.
LEMMA StepBeside ==
    ASSUME Inv, NEW t \in Threads, pc[t] \in Locked \/ lock = None,
           file' = file, stray \subseteq stray',
           \A v \in Vaults \ stray' : Readable(v)' =>
               Readable(v) /\ config'[v].hidden = config[v].hidden
    PROVE  /\ pc[t] \in Locked /\ pc'[t] = pc[t] /\ req'[t] = req[t] /\ work'[t] = work[t]
                => InOrder(t)'
           /\ lock = None => InLine'
<1>1. TypeOK /\ InOrder(t)
    BY DEF Inv
<1>2. Current' = Current /\ Concealed(Current) \subseteq Vaults
    BY <1>1, CurrentIs DEF Current
<1>3. ASSUME lock = None PROVE InLine'
    BY <1>2, <1>3 DEF Inv, InLine
<1>4. ASSUME pc[t] \in Locked, pc'[t] = pc[t], req'[t] = req[t], work'[t] = work[t]
      PROVE  InOrder(t)'
  <2>1. Todo(t)' = Todo(t) /\ Done(t)' = Done(t)
      BY <1>4 DEF Todo, Done
  <2>2. Served(t)' /\ Lined(t)'
      BY <1>1, <1>4, <2>1 DEF InOrder, Served, Lined
  <2>3. CASE pc[t] = "backup"
      BY <1>1, <1>4, <2>2, <2>3 DEF InOrder
  <2>4. CASE pc[t] # "backup"
    <3>1. Cascading(t)
        BY <1>1, <1>4, <2>4 DEF InOrder
    <3>2. ToSet(work[t].targets) \subseteq Vaults
        BY <1>1, WorkFacts, ListFacts
    <3>3. UpToDate(t)'
        BY <1>2, <1>4, <3>1 DEF Cascading, UpToDate
    <3>4. FlagsKnown(t)'
        BY <1>4, <2>1, <3>1 DEF Cascading, FlagsKnown
    <3>5. TargetsTurn(t)' /\ StraysBefore(t)' /\ TouchedWasHidden(t)'
        BY <1>2, <1>4, <2>1, <3>1
           DEF Cascading, TargetsTurn, StraysBefore, TouchedWasHidden
    <3>6. TargetsSet(t)'
        BY <1>4, <2>1, <3>1, <3>2 DEF Cascading, TargetsSet
    <3>7. RestInLine(t)'
        BY <1>2, <1>4, <2>1, <3>1 DEF Cascading, RestInLine
    <3> QED
        BY <1>4, <2>2, <2>4, <3>3, <3>4, <3>5, <3>6, <3>7 DEF InOrder, Cascading
  <2> QED
      BY <2>3, <2>4
<1> QED
    BY <1>3, <1>4

\* The same for all threads, when one that is outside the lock makes the step.
LEMMA StepOutside ==
    ASSUME Inv, NEW t \in Threads, pc[t] \notin Locked, pc'[t] \notin Locked,
           InOrder(t)', TypeOK',
           \A u \in Threads \ {t} : pc'[u] = pc[u] /\ req'[u] = req[u] /\ work'[u] = work[u],
           file' = file, lock' = lock, stray \subseteq stray',
           \A v \in Vaults \ stray' : Readable(v)' =>
               Readable(v) /\ config'[v].hidden = config[v].hidden
    PROVE  Inv'
<1>1. ASSUME NEW u \in Threads PROVE InOrder(u)'
  <2>1. CASE u = t
      BY <2>1
  <2>2. CASE u # t /\ pc[u] \in Locked
      BY <2>2, StepBeside
  <2>3. CASE u # t /\ pc[u] \notin Locked
      BY <2>3, OthersInOrder DEF Inv
  <2> QED
      BY <2>1, <2>2, <2>3
<1>2. ASSUME lock = None PROVE InLine'
    BY <1>2, StepBeside
<1> QED
    BY <1>1, <1>2 DEF Inv

\* A call is made: nothing on disk changes.
LEMMA CallStep == ASSUME Inv, NEW t \in Threads, Call(t) PROVE Inv'
<1>1. TypeOK /\ InOrder(t) /\ pc[t] = "idle" /\ pc[t] \notin Locked
    BY DEF Inv, Call, Locked
<1>2. PICK r \in Requests : req' = [req EXCEPT ![t] = r] /\ Goto(t, Entry(r))
    BY DEF Call
<1>3. r \in RequestSpace /\ r.kind \in GroupKinds \cup {"save", "new"}
    BY GroupsAssumption, RequestFacts
<1>4. Entry(r) \in Labels \ Locked
    BY DEF Entry, Labels, Locked
<1>5. /\ pc' \in [Threads -> Labels] /\ pc'[t] = Entry(r)
      /\ \A u \in Threads \ {t} : pc'[u] = pc[u]
    BY <1>1, <1>2, <1>4, GotoFacts
<1>6. /\ req' \in [Threads -> RequestSpace \cup {Idle}] /\ req'[t] = r
      /\ \A u \in Threads \ {t} : req'[u] = req[u]
    BY <1>1, <1>2, <1>3 DEF TypeOK
<1>7. /\ UNCHANGED <<file, bak, stamped, config, lock, work, stray, putAside, mishaps>>
      /\ calls' = calls + 1 /\ calls < MaxCalls
    BY DEF Call, disk, backups, ghosts
<1>8. calls' \in 0..MaxCalls
    BY <1>1, <1>7, GroupsAssumption DEF TypeOK
<1>9. TypeOK'
    BY <1>1, <1>4, <1>5, <1>6, <1>7, <1>8 DEF TypeOK
<1>10. Served(t)'
    BY <1>3, <1>5, <1>6 DEF Served, Entry, GroupKinds, Locked
<1>11. Lined(t)'
    BY <1>1, <1>4, <1>5, <1>7 DEF InOrder, Lined, Todo, Done, Locked
<1>12. InOrder(t)'
    BY <1>4, <1>5, <1>10, <1>11 DEF InOrder, Locked
<1>13. \A v \in Vaults \ stray' :
        Readable(v)' => Readable(v) /\ config'[v].hidden = config[v].hidden
    BY <1>7 DEF Readable
<1> QED
    BY <1>1, <1>4, <1>5, <1>6, <1>7, <1>9, <1>12, <1>13, StepOutside

\* A thread outside the lock that answers.
LEMMA ReplyOutside ==
    ASSUME Inv, NEW t \in Threads, pc[t] \notin Locked, Reply(t),
           config' \in [Vaults -> ConfigSpace], stray' \in SUBSET Vaults,
           UNCHANGED <<file, bak, stamped, lock, putAside, calls, mishaps>>,
           stray \subseteq stray',
           \A v \in Vaults \ stray' : Readable(v)' =>
               Readable(v) /\ config'[v].hidden = config[v].hidden
    PROVE  Inv'
<1>1. TypeOK
    BY DEF Inv
<1>2. /\ pc' \in [Threads -> Labels] /\ req' \in [Threads -> RequestSpace \cup {Idle}]
      /\ work' \in [Threads -> Work]
      /\ pc'[t] = "idle" /\ req'[t] = Idle /\ work'[t] = NoWork
      /\ \A u \in Threads \ {t} : pc'[u] = pc[u] /\ req'[u] = req[u] /\ work'[u] = work[u]
    BY <1>1, ReplyFacts
<1>3. InOrder(t)' /\ pc'[t] \notin Locked
    BY <1>2, IdleInOrder DEF Locked
<1>4. TypeOK'
    BY <1>1, <1>2, <1>3 DEF TypeOK
<1> QED
    BY <1>2, <1>3, <1>4, StepOutside

\* A refusal: nothing on disk changes.
LEMMA RefuseStep == ASSUME Inv, NEW t \in Threads, Refuse(t) PROVE Inv'
<1>1. TypeOK /\ pc[t] \notin Locked /\ Reply(t)
    BY DEF Inv, Refuse, Locked
<1>2. UNCHANGED <<file, bak, stamped, config, lock, stray, putAside, calls, mishaps>>
    BY DEF Refuse, disk, backups, ghosts, bounds
<1>3. config' \in [Vaults -> ConfigSpace] /\ stray' \in SUBSET Vaults
    BY <1>1, <1>2 DEF TypeOK
<1>4. \A v \in Vaults \ stray' :
        Readable(v)' => Readable(v) /\ config'[v].hidden = config[v].hidden
    BY <1>2 DEF Readable
<1> QED
    BY <1>1, <1>2, <1>3, <1>4, ReplyOutside

\* vault_config_save beside a cascade: a flag it changes is astray.
LEMMA ConfigSaveStep == ASSUME Inv, NEW t \in Threads, ConfigSave(t) PROVE Inv'
<1>1. TypeOK /\ pc[t] = "config_save" /\ pc[t] \notin Locked /\ Reply(t)
    BY DEF Inv, ConfigSave, Locked
<1>2. UNCHANGED <<file, bak, stamped, lock, putAside, calls, mishaps>>
    BY DEF ConfigSave, backups, bounds
<1>3. PICK v : v = req[t].vault
    OBVIOUS
<1>4. v \in Vaults /\ req[t].hidden \in BOOLEAN
  <2>1. req[t].kind \in {"save", "new"}
      BY <1>1 DEF Inv, InOrder, Served
  <2>2. req[t] \in RequestSpace
      BY <1>1, <2>1 DEF TypeOK, Idle
  <2> QED
      BY <1>3, <2>1, <2>2, RequestFacts
<1>5. CASE UNCHANGED <<config, stray>>
  <2>1. config' \in [Vaults -> ConfigSpace] /\ stray' \in SUBSET Vaults
      BY <1>1, <1>5 DEF TypeOK
  <2>2. \A u \in Vaults \ stray' :
            Readable(u)' => Readable(u) /\ config'[u].hidden = config[u].hidden
      BY <1>5 DEF Readable
  <2> QED
      BY <1>1, <1>2, <1>5, <2>1, <2>2, ReplyOutside
<1>6. CASE /\ Readable(v)
           /\ config' = [config EXCEPT ![v] = [is |-> "good", hidden |-> req[t].hidden,
                                               note |-> calls]]
           /\ stray' = IF req[t].hidden # config[v].hidden THEN stray \cup {v} ELSE stray
  <2>1. PICK c : c = [is |-> "good", hidden |-> req[t].hidden, note |-> calls]
      OBVIOUS
  <2>2. c \in ConfigSpace /\ c.hidden = req[t].hidden
      BY <1>1, <1>4, <2>1 DEF ConfigSpace, TypeOK
  <2>3. config' \in [Vaults -> ConfigSpace] /\ stray' \in SUBSET Vaults /\ stray \subseteq stray'
      BY <1>1, <1>4, <1>6, <2>1, <2>2 DEF TypeOK
  <2>4. config'[v] = c /\ \A u \in Vaults \ {v} : config'[u] = config[u]
      BY <1>1, <1>4, <1>6, <2>1 DEF TypeOK
  <2>5. \A u \in Vaults \ stray' :
            Readable(u)' => Readable(u) /\ config'[u].hidden = config[u].hidden
    <3> SUFFICES ASSUME NEW u \in Vaults \ stray', Readable(u)'
                 PROVE  Readable(u) /\ config'[u].hidden = config[u].hidden
        OBVIOUS
    <3>1. CASE u = v
        BY <1>6, <2>2, <2>4, <3>1
    <3>2. CASE u # v
        BY <2>4, <3>2 DEF Readable
    <3> QED
        BY <3>1, <3>2
  <2> QED
      BY <1>1, <1>2, <2>3, <2>5, ReplyOutside
<1> QED
    BY <1>3, <1>5, <1>6 DEF ConfigSave

\* The vault of a thread that saves or creates one.
LEMMA OutsideVault ==
    ASSUME Inv, NEW t \in Threads, pc[t] \in {"config_save", "mkdir", "config", "seed"}
    PROVE  req[t].vault \in Vaults /\ req[t].hidden \in BOOLEAN
<1>1. req[t].kind \in {"save", "new"}
    BY DEF Inv, InOrder, Served
<1>2. req[t] \in RequestSpace
    BY <1>1 DEF Inv, TypeOK, Idle
<1> QED
    BY <1>1, <1>2, RequestFacts

\* A folder that is removed or has no config yet: no flag to read.
LEMMA Unreadable ==
    ASSUME TypeOK, NEW v \in Vaults, NEW c \in {Gone, Broken},
           config' = [config EXCEPT ![v] = c], stray' = stray
    PROVE  /\ config' \in [Vaults -> ConfigSpace] /\ stray' \in SUBSET Vaults
           /\ \A u \in Vaults \ stray' : Readable(u)' =>
                Readable(u) /\ config'[u].hidden = config[u].hidden
<1>1. c \in ConfigSpace
    BY NoWorkTyped
<1>2. config' \in [Vaults -> ConfigSpace]
    BY <1>1 DEF TypeOK
<1>3. config'[v] = c /\ \A u \in Vaults \ {v} : config'[u] = config[u]
    BY DEF TypeOK
<1>4. c.is \notin {"good", "badmount"}
    BY DEF Gone, Broken
<1>5. \A u \in Vaults \ stray' :
            Readable(u)' => Readable(u) /\ config'[u].hidden = config[u].hidden
    BY <1>3, <1>4 DEF Readable
<1> QED
    BY <1>2, <1>5 DEF TypeOK

\* A thread outside the lock that moves on to another place outside it.
LEMMA MoveOutside ==
    ASSUME Inv, NEW t \in Threads, pc[t] \in {"mkdir", "config"},
           NEW label \in {"config", "seed"}, Goto(t, label),
           config' \in [Vaults -> ConfigSpace], stray' \in SUBSET Vaults,
           UNCHANGED <<file, bak, stamped, lock, req, work, putAside, calls, mishaps>>,
           stray \subseteq stray',
           \A v \in Vaults \ stray' : Readable(v)' =>
               Readable(v) /\ config'[v].hidden = config[v].hidden
    PROVE  Inv'
<1>1. TypeOK /\ InOrder(t) /\ pc[t] \notin Locked /\ label \in Labels
    BY DEF Inv, Locked, Labels
<1>2. /\ pc' \in [Threads -> Labels] /\ pc'[t] = label
      /\ \A u \in Threads \ {t} : pc'[u] = pc[u]
    BY <1>1, GotoFacts
<1>3. pc'[t] \notin Locked
    BY <1>2 DEF Locked
<1>4. TypeOK'
    BY <1>1, <1>2, <1>3 DEF TypeOK
<1>5. Served(t)' /\ Lined(t)'
    BY <1>1, <1>2 DEF InOrder, Served, Lined, Todo, Done, Locked
<1>6. InOrder(t)'
    BY <1>3, <1>5 DEF InOrder, Locked
<1> QED
    BY <1>1, <1>2, <1>3, <1>4, <1>6, StepOutside

\* vault_create makes a folder whose flag nobody reads yet.
LEMMA MkdirStep == ASSUME Inv, NEW t \in Threads, Mkdir(t) PROVE Inv'
<1>1. TypeOK /\ pc[t] = "mkdir" /\ pc[t] \notin Locked
    BY DEF Inv, Mkdir, Locked
<1>2. UNCHANGED <<file, bak, stamped, lock, stray, putAside, calls, mishaps>>
    BY DEF Mkdir, backups, ghosts, bounds
<1>3. PICK v \in Vaults : v = req[t].vault
    BY <1>1, OutsideVault
<1>4. CASE config' = [config EXCEPT ![v] = Broken] /\ Goto(t, "config") /\ UNCHANGED <<req, work>>
  <2>1. /\ config' \in [Vaults -> ConfigSpace] /\ stray' \in SUBSET Vaults
        /\ \A u \in Vaults \ stray' : Readable(u)' =>
             Readable(u) /\ config'[u].hidden = config[u].hidden
      BY <1>1, <1>2, <1>4, Unreadable
  <2> QED
      BY <1>1, <1>2, <1>4, <2>1, MoveOutside
<1>5. CASE Reply(t) /\ UNCHANGED config
  <2>1. /\ config' \in [Vaults -> ConfigSpace] /\ stray' \in SUBSET Vaults
        /\ \A u \in Vaults \ stray' : Readable(u)' =>
             Readable(u) /\ config'[u].hidden = config[u].hidden
      BY <1>1, <1>2, <1>5 DEF TypeOK, Readable
  <2> QED
      BY <1>1, <1>2, <1>5, <2>1, ReplyOutside
<1> QED
    BY <1>3, <1>4, <1>5 DEF Mkdir

\* vault_create writes a flag of its own, or takes the folder away.
LEMMA NewConfigStep == ASSUME Inv, NEW t \in Threads, NewConfig(t) PROVE Inv'
<1>1. TypeOK /\ pc[t] = "config" /\ pc[t] \notin Locked
    BY DEF Inv, NewConfig, Locked
<1>2. UNCHANGED <<file, bak, stamped, lock, putAside, calls, mishaps>>
    BY DEF NewConfig, backups, bounds
<1>3. PICK v \in Vaults : v = req[t].vault
    BY <1>1, OutsideVault
<1>4. CASE config' = [config EXCEPT ![v] = Gone] /\ Reply(t) /\ UNCHANGED stray
  <2>1. /\ config' \in [Vaults -> ConfigSpace] /\ stray' \in SUBSET Vaults
        /\ \A u \in Vaults \ stray' : Readable(u)' =>
             Readable(u) /\ config'[u].hidden = config[u].hidden
      BY <1>1, <1>4, Unreadable
  <2> QED
      BY <1>1, <1>2, <1>4, <2>1, ReplyOutside
<1>5. CASE /\ config' = [config EXCEPT ![v] = [is |-> "good", hidden |-> req[t].hidden,
                                               note |-> calls]]
           /\ stray' = stray \cup {v}
           /\ Goto(t, "seed")
           /\ UNCHANGED <<req, work>>
  <2>1. PICK c : c = [is |-> "good", hidden |-> req[t].hidden, note |-> calls]
      OBVIOUS
  <2>2. c \in ConfigSpace
      BY <1>1, <2>1, OutsideVault DEF ConfigSpace, TypeOK
  <2>3. config' \in [Vaults -> ConfigSpace] /\ stray' \in SUBSET Vaults
      BY <1>1, <1>5, <2>1, <2>2 DEF TypeOK
  <2>4. \A u \in Vaults \ {v} : config'[u] = config[u]
      BY <1>1, <1>5, <2>1 DEF TypeOK
  <2>5. \A u \in Vaults \ stray' :
            Readable(u)' => Readable(u) /\ config'[u].hidden = config[u].hidden
      BY <1>5, <2>4 DEF Readable
  <2> QED
      BY <1>1, <1>2, <1>5, <2>3, <2>5, MoveOutside
<1> QED
    BY <1>3, <1>4, <1>5 DEF NewConfig

\* vault_create ends, or takes the folder away.
LEMMA SeedStep == ASSUME Inv, NEW t \in Threads, Seed(t) PROVE Inv'
<1>1. TypeOK /\ pc[t] = "seed" /\ pc[t] \notin Locked /\ Reply(t)
    BY DEF Inv, Seed, Locked
<1>2. UNCHANGED <<file, bak, stamped, lock, stray, putAside, calls, mishaps>>
    BY DEF Seed, backups, ghosts, bounds
<1>3. PICK v \in Vaults : v = req[t].vault
    BY <1>1, OutsideVault
<1>4. /\ config' \in [Vaults -> ConfigSpace] /\ stray' \in SUBSET Vaults
      /\ \A u \in Vaults \ stray' : Readable(u)' =>
           Readable(u) /\ config'[u].hidden = config[u].hidden
  <2>1. CASE UNCHANGED config
      BY <1>1, <1>2, <2>1 DEF TypeOK, Readable
  <2>2. CASE config' = [config EXCEPT ![v] = Gone]
      BY <1>1, <1>2, <2>2, Unreadable
  <2> QED
      BY <1>3, <2>1, <2>2 DEF Seed
<1> QED
    BY <1>1, <1>2, <1>4, ReplyOutside

\* A folder removed by the user has no flag to read.
LEMMA RemoveFolderStep == ASSUME Inv, NEW v \in Vaults, RemoveFolder(v) PROVE Inv'
<1>1. /\ TypeOK /\ mishaps' = mishaps + 1 /\ mishaps < MaxMishaps
      /\ config' = [config EXCEPT ![v] = Gone]
      /\ UNCHANGED <<file, bak, stamped, lock, pc, req, work, stray, putAside, calls>>
    BY DEF Inv, RemoveFolder, backups, threads, ghosts
<1>2. /\ config' \in [Vaults -> ConfigSpace]
      /\ \A u \in Vaults \ stray' : Readable(u)' =>
           Readable(u) /\ config'[u].hidden = config[u].hidden
    BY <1>1, Unreadable
<1>3. mishaps' \in 0..MaxMishaps
    BY <1>1, GroupsAssumption DEF TypeOK
<1>4. TypeOK'
    BY <1>1, <1>2, <1>3 DEF TypeOK
<1>5. ASSUME NEW u \in Threads PROVE InOrder(u)'
  <2>1. CASE pc[u] \in Locked
      BY <1>1, <1>2, <2>1, StepBeside
  <2>2. CASE pc[u] \notin Locked
      BY <1>1, <2>2, OthersInOrder DEF Inv
  <2> QED
      BY <2>1, <2>2
<1>6. ASSUME lock = None PROVE InLine'
  <2>1. Current' = Current /\ Concealed(Current) \subseteq Vaults
      BY <1>1, CurrentIs DEF Current
  <2> QED
      BY <1>1, <1>2, <1>6, <2>1 DEF Inv, InLine
<1> QED
    BY <1>1, <1>4, <1>5, <1>6 DEF Inv

\* What a dead process had flipped is astray, so nothing is claimed of it.
LEMMA ExitStep == ASSUME Inv, Exit PROVE Inv'
<1>1. /\ TypeOK /\ mishaps' = mishaps + 1 /\ mishaps < MaxMishaps /\ lock' = None
      /\ pc' = [t \in Threads |-> "idle"] /\ req' = [t \in Threads |-> Idle]
      /\ work' = [t \in Threads |-> NoWork]
      /\ UNCHANGED <<file, bak, stamped, config, putAside, calls>>
    BY DEF Inv, Exit, disk, backups
<1>2. /\ stray \subseteq stray'
      /\ \A t \in Threads : work[t].before.stray \cup Done(t) \subseteq stray'
      /\ stray' \subseteq stray \cup UNION {work[t].before.stray \cup Done(t) : t \in Threads}
    BY DEF Exit, Done
<1>3. \A t \in Threads : work[t].before.stray \cup Done(t) \subseteq Vaults
  <2> SUFFICES ASSUME NEW t \in Threads PROVE work[t].before.stray \cup Done(t) \subseteq Vaults
      OBVIOUS
  <2>1. work[t].done \in Lists /\ work[t].before.stray \in SUBSET Vaults
      BY <1>1, WorkFacts
  <2> QED
      BY <2>1, ListFacts DEF Done
<1>4. stray' \in SUBSET Vaults
    BY <1>1, <1>2, <1>3 DEF TypeOK
<1>5. mishaps' \in 0..MaxMishaps
    BY <1>1, GroupsAssumption DEF TypeOK
<1>6. "idle" \in Labels \ Locked
    BY DEF Labels, Locked
<1>7. TypeOK'
    BY <1>1, <1>4, <1>5, <1>6, NoWorkTyped, GroupsAssumption DEF TypeOK
<1>8. \A t \in Threads : InOrder(t)'
    BY <1>1, IdleInOrder
<1>9. Current' = Current
    BY <1>1 DEF Current
<1>10. InLine'
  <2>1. CASE lock = None
      BY <1>1, <1>2, <1>9, <2>1 DEF Inv, InLine, Readable
  <2>2. CASE lock # None
    <3>1. PICK t \in Threads : lock = t
        BY <2>2 DEF Inv
    <3>2. pc[t] \in Locked /\ InOrder(t)
        BY <1>1, <3>1 DEF Inv, TypeOK
    <3>3. CASE pc[t] = "backup"
      <4>1. file.groups = <<>>
          BY <3>2, <3>3 DEF InOrder
      <4>2. Current = <<>>
          BY <4>1 DEF Current, Soften
      <4>3. Concealed(Current) = {}
          BY <4>2 DEF Concealed, ToSet
      <4> QED
          BY <1>9, <4>3 DEF InLine
    <3>4. CASE pc[t] # "backup"
      <4>1. RestInLine(t)
          BY <3>2, <3>4 DEF InOrder, Cascading
      <4> QED
          BY <1>1, <1>2, <1>9, <4>1 DEF RestInLine, InLine, Readable
    <3> QED
        BY <3>3, <3>4
  <2> QED
      BY <2>1, <2>2
<1> QED
    BY <1>1, <1>7, <1>8, <1>10 DEF Inv

-----------------------------------------------------------------------------
\* STEPS OF THE THREAD THAT HOLDS THE LOCK

\* A step of the holder of the lock that keeps it.
LEMMA StepInside ==
    ASSUME Inv, NEW t \in Threads, pc[t] \in Locked, pc'[t] \in Locked, lock' = lock,
           \A u \in Threads \ {t} : pc'[u] = pc[u] /\ req'[u] = req[u] /\ work'[u] = work[u],
           pc' \in [Threads -> Labels], work' \in [Threads -> Work],
           config' \in [Vaults -> ConfigSpace], stray' \in SUBSET Vaults, file' \in FileSpace,
           UNCHANGED <<req, bak, stamped, putAside, calls, mishaps>>,
           InOrder(t)'
    PROVE  Inv'
<1>1. TypeOK /\ lock = t /\ \A u \in Threads \ {t} : pc[u] \notin Locked
    BY OneHolder DEF Inv
<1>2. TypeOK'
    BY <1>1 DEF TypeOK
<1>3. ASSUME NEW u \in Threads PROVE InOrder(u)'
  <2>1. CASE u = t
      BY <2>1
  <2>2. CASE u # t
      BY <1>1, <2>2, OthersInOrder DEF Inv
  <2> QED
      BY <2>1, <2>2
<1>4. lock' # None
    BY <1>1, GroupsAssumption
<1> QED
    BY <1>1, <1>2, <1>3, <1>4 DEF Inv

\* The holder answers and lets go.
LEMMA LetGo ==
    ASSUME Inv, NEW t \in Threads, pc[t] \in Locked, Reply(t), Unlock,
           file' \in FileSpace, bak' \in SUBSET FileSpace,
           stamped' \in [Seconds -> SUBSET FileSpace],
           putAside' \in SUBSET FileSpace, stray' \in SUBSET Vaults,
           UNCHANGED <<config, calls, mishaps>>,
           InLine'
    PROVE  Inv'
<1>1. TypeOK /\ lock = t /\ \A u \in Threads \ {t} : pc[u] \notin Locked
    BY OneHolder DEF Inv
<1>2. /\ pc' \in [Threads -> Labels] /\ req' \in [Threads -> RequestSpace \cup {Idle}]
      /\ work' \in [Threads -> Work]
      /\ pc'[t] = "idle" /\ req'[t] = Idle /\ work'[t] = NoWork
      /\ \A u \in Threads \ {t} : pc'[u] = pc[u] /\ req'[u] = req[u] /\ work'[u] = work[u]
    BY <1>1, ReplyFacts
<1>3. lock' = None /\ None \notin Threads
    BY GroupsAssumption DEF Unlock
<1>4. "idle" \notin Locked
    BY DEF Locked
<1>5. \A u \in Threads : pc'[u] \in Locked <=> lock' = u
    BY <1>1, <1>2, <1>3, <1>4
<1>6. TypeOK'
    BY <1>1, <1>2, <1>5 DEF TypeOK
<1>7. ASSUME NEW u \in Threads PROVE InOrder(u)'
  <2>1. CASE u = t
      BY <1>2, <2>1, IdleInOrder
  <2>2. CASE u # t
      BY <1>1, <1>2, <2>2, OthersInOrder DEF Inv
  <2> QED
      BY <2>1, <2>2
<1> QED
    BY <1>3, <1>6, <1>7 DEF Inv

\* The lock is taken and the work of the RPC is planned on what the file holds.
LEMMA StartStep == ASSUME Inv, NEW t \in Threads, Start(t) PROVE Inv'
<1>1. /\ TypeOK /\ InOrder(t) /\ pc[t] = "lock" /\ lock = None /\ lock' = t
      /\ pc[t] \notin Locked
    BY DEF Inv, Start, Acquire, Locked
<1>2. UNCHANGED <<file, bak, stamped, config, req, stray, putAside, calls, mishaps>>
    BY DEF Start, disk, backups, ghosts, bounds
<1>3. PICK r : r = req[t]
    OBVIOUS
<1>4. r.kind \in GroupKinds
    BY <1>1, <1>3 DEF InOrder, Served
<1>5. r \in RequestSpace
    BY <1>1, <1>3, <1>4 DEF TypeOK, Idle, GroupKinds
<1>6. PICK gs \in Seq(Group) : gs = Current /\ Apart(gs)
    BY <1>1, CurrentIs
<1>7. ~Refused(r, gs) /\ work' = [work EXCEPT ![t] = Begun(r, gs)]
    BY <1>3, <1>6 DEF Start, Current
<1>8. Accepted(r, gs)
    BY <1>7 DEF Refused, Accepted
<1>9. Edited(r, gs) \in Seq(Group) /\ Targets(r, gs) \in Lists /\ Flag(r, gs) \in BOOLEAN
    BY <1>4, <1>5, <1>8, EditedTyped
<1>10. PICK w : w = Begun(r, gs)
    OBVIOUS
<1>11. /\ w.next = Edited(r, gs) /\ w.targets = Targets(r, gs) /\ w.flag = Flag(r, gs)
       /\ w.todo = <<>> /\ w.done = <<>> /\ w.before = Now
    BY <1>10 DEF Begun
<1>12. Now.stray = stray /\ Now.hidden = {v \in Vaults : config[v].hidden}
    BY DEF Now
<1>13. w \in Work
    BY <1>1, <1>9, <1>10, NoWorkTyped, ListFacts DEF Begun, Work, TypeOK, Now
<1>14. /\ work' \in [Threads -> Work] /\ work'[t] = w
       /\ \A u \in Threads \ {t} : work'[u] = work[u]
    BY <1>1, <1>7, <1>10, <1>13 DEF TypeOK
<1>15. PICK label \in {"save", "plan"} :
           /\ label = IF Targets(r, gs) = <<>> THEN "save" ELSE "plan"
           /\ Goto(t, label)
    BY <1>3, <1>6 DEF Start, Current
<1>16. label \in Labels /\ label \in Locked \ {"backup"}
    BY DEF Labels, Locked
<1>17. /\ pc' \in [Threads -> Labels] /\ pc'[t] = label
       /\ \A u \in Threads \ {t} : pc'[u] = pc[u]
    BY <1>1, <1>15, <1>16, GotoFacts
<1>18. \A u \in Threads \ {t} : pc[u] \notin Locked
    BY <1>1, OneHolder
<1>19. \A u \in Threads : pc'[u] \in Locked <=> lock' = u
    BY <1>1, <1>16, <1>17, <1>18
<1>20. TypeOK'
    BY <1>1, <1>2, <1>14, <1>17, <1>19 DEF TypeOK
<1>21. Todo(t)' = {} /\ Done(t)' = {} /\ Current' = gs
    BY <1>2, <1>6, <1>11, <1>14, ListFacts DEF Todo, Done, Current
<1>22. Served(t)'
    BY <1>2, <1>3, <1>4, <1>16, <1>17 DEF Served, Locked
<1>23. Lined(t)'
    BY <1>11, <1>14, <1>15, <1>17, <1>21 DEF Lined
<1>24. UpToDate(t)'
    BY <1>2, <1>3, <1>8, <1>11, <1>14, <1>21 DEF UpToDate
<1>25. FlagsKnown(t)'
    BY <1>2, <1>11, <1>12, <1>14, <1>21 DEF FlagsKnown
<1>26. TargetsTurn(t)' /\ TouchedWasHidden(t)'
    BY <1>21 DEF TargetsTurn, TouchedWasHidden
<1>27. StraysBefore(t)'
    BY <1>2, <1>11, <1>12, <1>14 DEF StraysBefore
<1>28. TargetsSet(t)'
  <2>1. CASE label = "plan"
      BY <1>17, <2>1 DEF TargetsSet
  <2>2. CASE label = "save"
    <3>1. ToSet(work'[t].targets) = {}
        BY <1>9, <1>11, <1>14, <1>15, <2>2, ListFacts
    <3> QED
        BY <3>1 DEF TargetsSet
  <2> QED
      BY <2>1, <2>2
<1>29. RestInLine(t)'
    BY <1>1, <1>2, <1>6, <1>21 DEF Inv, InLine, RestInLine, Readable
<1>30. InOrder(t)'
    BY <1>16, <1>17, <1>22, <1>23, <1>24, <1>25, <1>26, <1>27, <1>28, <1>29
       DEF InOrder, Cascading
<1>31. ASSUME NEW u \in Threads PROVE InOrder(u)'
  <2>1. CASE u = t
      BY <1>30, <2>1
  <2>2. CASE u # t
      BY <1>2, <1>14, <1>17, <1>18, <2>2, OthersInOrder DEF Inv
  <2> QED
      BY <2>1, <2>2
<1> QED
    BY <1>1, <1>20, <1>31, GroupsAssumption DEF Inv

\* A step that turns back keeps the order.
LEMMA TurnBackStep ==
    ASSUME Inv, NEW t \in Threads, pc[t] \in Locked \ {"backup"}, Fail(t),
           UNCHANGED <<file, bak, stamped, config, lock, req, work, stray, putAside,
                       calls, mishaps>>
    PROVE  Inv'
<1>1. InOrder(t)' /\ pc'[t] = "revert"
    BY TurnBack
<1>2. "revert" \in Labels /\ "revert" \in Locked /\ TypeOK
    BY DEF Labels, Locked, Inv
<1>3. /\ pc' \in [Threads -> Labels]
      /\ \A u \in Threads \ {t} : pc'[u] = pc[u]
    BY <1>2, GotoFacts DEF Fail
<1>4. /\ config' \in [Vaults -> ConfigSpace] /\ stray' \in SUBSET Vaults
      /\ file' \in FileSpace /\ work' \in [Threads -> Work]
    BY <1>2 DEF TypeOK
<1> QED
    BY <1>1, <1>2, <1>3, <1>4, StepInside

\* The flags to flip are found out, and the flags there are noted down.
LEMMA PlanStep == ASSUME Inv, NEW t \in Threads, Plan(t) PROVE Inv'
<1>1. /\ TypeOK /\ InOrder(t) /\ pc[t] = "plan" /\ pc[t] \in Locked \ {"backup"}
    BY DEF Inv, Plan, Locked
<1>2. UNCHANGED <<file, bak, stamped, config, lock, req, putAside, calls, mishaps>>
    BY DEF Plan, disk, backups, bounds
<1>3. Served(t) /\ Lined(t) /\ Cascading(t)
    BY <1>1 DEF InOrder
<1>4. PICK w \in Work : w = work[t]
    BY <1>1, WorkFacts
<1>5. /\ w.targets \in Lists /\ w.flag \in BOOLEAN /\ ToSet(w.targets) \subseteq Vaults
      /\ Concealed(Current) \subseteq Vaults
    BY <1>1, <1>4, WorkFacts, ListFacts, CurrentIs
<1>6. PICK there : there = {v \in ToSet(w.targets) : config[v].is # "gone"}
    OBVIOUS
<1>7. PICK flip : flip = {v \in there : config[v].hidden # w.flag}
    OBVIOUS
<1>8. CASE Fail(t) /\ UNCHANGED <<work, stray>>
    BY <1>1, <1>2, <1>8, TurnBackStep
<1>9. CASE /\ \A v \in there : Readable(v)
           /\ Planned(t, flip)
           /\ stray' = stray \ (there \ flip)
           /\ Goto(t, IF flip = {} THEN "save" ELSE "hide")
  <2>1. PICK todo \in Lists : todo = Without(w.targets, Vaults \ flip)
      BY <1>5, WithoutMembers
  <2>2. ToSet(todo) = flip
    <3>1. ToSet(todo) = ToSet(w.targets) \ (Vaults \ flip)
        BY <1>5, <2>1, WithoutMembers
    <3> QED
        BY <1>5, <1>6, <1>7, <3>1
  <2>3. Now.stray = stray /\ Now.hidden = {v \in Vaults : config[v].hidden}
      BY DEF Now
  <2>4. PICK x : x = [w EXCEPT !.todo = todo, !.before = Now]
      OBVIOUS
  <2>5. Now \in [hidden : SUBSET Vaults, stray : SUBSET Vaults]
      BY <1>1 DEF Now, TypeOK
  <2>6. /\ x \in Work /\ x.todo = todo /\ x.done = w.done /\ x.before = Now
        /\ x.targets = w.targets /\ x.flag = w.flag /\ x.next = w.next
      BY <2>1, <2>4, <2>5 DEF Work
  <2>7. work' = [work EXCEPT ![t] = x]
      BY <1>1, <1>4, <1>9, <2>1, <2>4 DEF Planned, TypeOK
  <2>8. /\ work' \in [Threads -> Work] /\ work'[t] = x
        /\ \A u \in Threads \ {t} : work'[u] = work[u]
      BY <1>1, <2>6, <2>7 DEF TypeOK
  <2>9. PICK label \in {"save", "hide"} :
            label = (IF flip = {} THEN "save" ELSE "hide") /\ Goto(t, label)
      BY <1>9
  <2>10. label \in Labels /\ label \in Locked \ {"backup"}
      BY DEF Labels, Locked
  <2>11. /\ pc' \in [Threads -> Labels] /\ pc'[t] = label
         /\ \A u \in Threads \ {t} : pc'[u] = pc[u]
      BY <1>1, <2>9, <2>10, GotoFacts
  <2>12. Done(t) = {} /\ w.done = <<>>
      BY <1>1, <1>3, <1>4, ListFacts DEF Lined, Done
  <2>13. Todo(t)' = flip /\ Done(t)' = {} /\ Current' = Current
      BY <1>2, <2>2, <2>6, <2>8, <2>12, ListFacts DEF Todo, Done, Current
  <2>14. flip = {} <=> todo = <<>>
      BY <2>1, <2>2, ListFacts
  <2>15. there \subseteq Vaults /\ flip \subseteq there /\ there \subseteq ToSet(w.targets)
      BY <1>5, <1>6, <1>7
  <2>16. \A v \in Vaults : config[v].hidden \in BOOLEAN
      BY <1>1, ConfigFacts
  <2>17. Served(t)'
      BY <1>1, <1>2, <1>3, <2>10, <2>11 DEF Served, Locked
  <2>18. Lined(t)'
      BY <2>6, <2>8, <2>9, <2>11, <2>13, <2>14, <2>15 DEF Lined
  <2>19. UpToDate(t)'
      BY <1>2, <1>3, <1>4, <2>6, <2>8, <2>13 DEF Cascading, UpToDate
  <2>20. FlagsKnown(t)'
      BY <1>2, <2>3, <2>6, <2>8, <2>13 DEF FlagsKnown
  <2>21. TargetsTurn(t)'
      BY <1>5, <1>7, <2>3, <2>6, <2>8, <2>13, <2>15, <2>16 DEF TargetsTurn
  <2>22. StraysBefore(t)'
      BY <1>9, <2>3, <2>6, <2>8, <2>9, <2>11, <2>15 DEF StraysBefore
  <2>23. TargetsSet(t)'
    <3> SUFFICES ASSUME NEW v \in ToSet(w.targets) \ (stray' \cup flip), Readable(v)'
                 PROVE  config'[v].hidden <=> w.flag
        BY <2>6, <2>8, <2>13 DEF TargetsSet
    <3>1. v \in there
        BY <1>2, <1>6 DEF Readable
    <3>2. v \notin flip /\ v \in Vaults
        BY <1>5
    <3> QED
        BY <1>2, <1>5, <1>7, <2>16, <3>1, <3>2
  <2>24. RestInLine(t)'
    <3> SUFFICES ASSUME NEW v \in Concealed(Current) \ (stray' \cup stray), Readable(v)'
                 PROVE  config'[v].hidden
        BY <2>3, <2>6, <2>8, <2>13 DEF RestInLine
    <3>1. v \notin work[t].before.stray
        BY <1>1, <1>3 DEF Cascading, StraysBefore
    <3> QED
        BY <1>2, <1>3, <2>12, <3>1 DEF Cascading, RestInLine, Readable
  <2>25. TouchedWasHidden(t)'
    <3> SUFFICES ASSUME NEW v \in (flip \cap Concealed(Current)) \ stray
                 PROVE  v \in Now.hidden
        BY <2>3, <2>6, <2>8, <2>13 DEF TouchedWasHidden
    <3>1. v \notin work[t].before.stray /\ v \in there /\ v \in Vaults
        BY <1>1, <1>3, <2>15 DEF Cascading, StraysBefore
    <3>2. Readable(v)
        BY <1>9, <3>1
    <3>3. config[v].hidden
        BY <1>3, <2>12, <3>1, <3>2 DEF Cascading, RestInLine
    <3> QED
        BY <2>3, <3>1, <3>3
  <2>26. InOrder(t)'
      BY <2>10, <2>11, <2>17, <2>18, <2>19, <2>20, <2>21, <2>22, <2>23, <2>24, <2>25
         DEF InOrder, Cascading
  <2>27. /\ config' \in [Vaults -> ConfigSpace] /\ stray' \in SUBSET Vaults
         /\ file' \in FileSpace
      BY <1>1, <1>2, <1>9 DEF TypeOK
  <2> QED
      BY <1>1, <1>2, <2>8, <2>10, <2>11, <2>26, <2>27, StepInside
<1> QED
    BY <1>4, <1>6, <1>7, <1>8, <1>9 DEF Plan

\* A config that is loaded, to be written back with another flag.
LEMMA LoadedInOrder ==
    ASSUME Inv, NEW t \in Threads, NEW v \in Vaults, Readable(v),
           \/ pc[t] = "hide" /\ pc'[t] = "hide_write"
           \/ pc[t] = "revert" /\ work[t].done # <<>> /\ pc'[t] = "revert_write",
           Set(t, "loaded", config[v]),
           UNCHANGED <<file, config, req, stray>>
    PROVE  /\ InOrder(t)' /\ work' \in [Threads -> Work]
           /\ \A u \in Threads \ {t} : work'[u] = work[u]
<1>1. TypeOK /\ InOrder(t) /\ pc[t] \in Locked \ {"backup"}
    BY DEF Inv, Locked
<1>2. Served(t) /\ Lined(t) /\ Cascading(t)
    BY <1>1 DEF InOrder
<1>3. PICK w \in Work : w = work[t]
    BY <1>1, WorkFacts
<1>4. PICK c \in ConfigSpace : c = config[v] /\ c.is \in {"good", "badmount"}
    BY <1>1, ConfigFacts DEF Readable
<1>5. PICK x : x = [w EXCEPT !.loaded = c]
    OBVIOUS
<1>6. /\ x \in Work /\ x.todo = w.todo /\ x.done = w.done /\ x.loaded = c
      /\ x.targets = w.targets /\ x.flag = w.flag /\ x.next = w.next /\ x.before = w.before
    BY <1>5 DEF Work
<1>7. work' = [work EXCEPT ![t] = x]
    BY <1>1, <1>3, <1>4, <1>5 DEF Set, TypeOK
<1>8. work' \in [Threads -> Work] /\ work'[t] = x /\ \A u \in Threads \ {t} : work'[u] = work[u]
    BY <1>1, <1>6, <1>7 DEF TypeOK
<1>9. /\ Todo(t)' = Todo(t) /\ Done(t)' = Done(t) /\ Current' = Current
      /\ work'[t].todo = work[t].todo /\ work'[t].done = work[t].done
      /\ work'[t].targets = work[t].targets /\ work'[t].flag = work[t].flag
      /\ work'[t].next = work[t].next /\ work'[t].before = work[t].before
      /\ work'[t].loaded.is \in {"good", "badmount"}
    BY <1>3, <1>4, <1>6, <1>8 DEF Todo, Done, Current
<1>10. Served(t)'
    BY <1>1, <1>2 DEF Served, Locked
<1>11. Lined(t)'
    BY <1>2, <1>9 DEF Lined
<1>12. UpToDate(t)' /\ TargetsTurn(t)' /\ StraysBefore(t)' /\ TouchedWasHidden(t)'
    BY <1>2, <1>9 DEF Cascading, UpToDate, TargetsTurn, StraysBefore, TouchedWasHidden
<1>13. FlagsKnown(t)'
    BY <1>2, <1>9 DEF Cascading, FlagsKnown, Readable
<1>14. TargetsSet(t)'
    BY <1>2, <1>9 DEF Cascading, TargetsSet, Readable
<1>15. RestInLine(t)'
    BY <1>2, <1>9 DEF Cascading, RestInLine, Readable
<1> QED
    BY <1>8, <1>10, <1>11, <1>12, <1>13, <1>14, <1>15 DEF InOrder, Cascading, Locked

\* A config is loaded, or found to have the flag already.
LEMMA HideLoadStep == ASSUME Inv, NEW t \in Threads, HideLoad(t) PROVE Inv'
<1>1. TypeOK /\ InOrder(t) /\ pc[t] = "hide" /\ pc[t] \in Locked \ {"backup"}
    BY DEF Inv, HideLoad, Locked
<1>2. UNCHANGED <<file, bak, stamped, config, lock, req, putAside, calls, mishaps>>
    BY DEF HideLoad, disk, backups, bounds
<1>3. PICK v : v = Head(work[t].todo)
    OBVIOUS
<1>4. work[t].todo # <<>> /\ Todo(t) \cap Done(t) = {}
    BY <1>1 DEF InOrder, Lined
<1>5. v \in Vaults
  <2>1. work[t].todo \in Lists
      BY <1>1, WorkFacts
  <2> QED
      BY <1>3, <1>4, <2>1, EndsOfList, ListFacts
<1>6. config' \in [Vaults -> ConfigSpace] /\ file' \in FileSpace
    BY <1>1, <1>2 DEF TypeOK
<1>7. CASE Fail(t) /\ UNCHANGED <<work, stray>>
    BY <1>1, <1>2, <1>7, TurnBackStep
<1>8. CASE /\ Readable(v) /\ Set(t, "loaded", config[v]) /\ Goto(t, "hide_write")
           /\ UNCHANGED stray
  <2>1. "hide_write" \in Labels /\ "hide_write" \in Locked
      BY DEF Labels, Locked
  <2>2. /\ pc' \in [Threads -> Labels] /\ pc'[t] = "hide_write"
        /\ \A u \in Threads \ {t} : pc'[u] = pc[u]
      BY <1>1, <1>8, <2>1, GotoFacts
  <2>3. /\ InOrder(t)' /\ work' \in [Threads -> Work]
        /\ \A u \in Threads \ {t} : work'[u] = work[u]
      BY <1>1, <1>2, <1>5, <1>8, <2>2, LoadedInOrder
  <2>4. stray' \in SUBSET Vaults
      BY <1>1, <1>8 DEF TypeOK
  <2> QED
      BY <1>1, <1>2, <1>6, <2>1, <2>2, <2>3, <2>4, StepInside
<1>9. CASE Readable(v) /\ config[v].hidden = work[t].flag /\ Flipped(t, v)
  <2>1. InOrder(t)'
      BY <1>1, <1>2, <1>3, <1>9, ForwardStep
  <2>2. /\ work' \in [Threads -> Work] /\ pc' \in [Threads -> Labels]
        /\ pc'[t] \in {"hide", "save"}
        /\ \A u \in Threads \ {t} : work'[u] = work[u] /\ pc'[u] = pc[u]
        /\ stray' = stray \ {v}
      BY <1>1, <1>3, <1>4, <1>9, FlippedFacts
  <2>3. pc'[t] \in Locked /\ stray' \in SUBSET Vaults
      BY <1>1, <2>2 DEF Locked, TypeOK
  <2> QED
      BY <1>1, <1>2, <1>6, <2>1, <2>2, <2>3, StepInside
<1> QED
    BY <1>3, <1>7, <1>8, <1>9 DEF HideLoad

\* What is written back differs from what was loaded in the flag only.
LEMMA WrittenBack ==
    ASSUME Inv, NEW t \in Threads, pc[t] \in {"hide_write", "revert_write"},
           NEW v \in Vaults, NEW flag \in BOOLEAN,
           config' = [config EXCEPT ![v] = Flagged(work[t].loaded, flag)]
    PROVE  /\ config' \in [Vaults -> ConfigSpace] /\ config'[v].hidden = flag
           /\ \A u \in Vaults \ {v} : config'[u] = config[u]
<1>1. TypeOK /\ work[t].loaded \in ConfigSpace
    BY WorkFacts DEF Inv
<1>2. PICK c : c = Flagged(work[t].loaded, flag)
    OBVIOUS
<1>3. c \in ConfigSpace /\ c.hidden = flag
    BY <1>1, <1>2 DEF Flagged, ConfigSpace
<1> QED
    BY <1>1, <1>2, <1>3 DEF TypeOK

\* A flag is written.
LEMMA HideWriteStep == ASSUME Inv, NEW t \in Threads, HideWrite(t) PROVE Inv'
<1>1. TypeOK /\ InOrder(t) /\ pc[t] = "hide_write" /\ pc[t] \in Locked \ {"backup"}
    BY DEF Inv, HideWrite, Locked
<1>2. UNCHANGED <<file, bak, stamped, lock, req, putAside, calls, mishaps>>
    BY DEF HideWrite, backups, bounds
<1>3. PICK v : v = Head(work[t].todo)
    OBVIOUS
<1>4. work[t].todo # <<>> /\ Todo(t) \cap Done(t) = {}
    BY <1>1 DEF InOrder, Lined
<1>5. CASE Fail(t) /\ UNCHANGED <<config, work, stray>>
    BY <1>1, <1>2, <1>5, TurnBackStep
<1>6. CASE config' = [config EXCEPT ![v] = Flagged(work[t].loaded, work[t].flag)] /\ Flipped(t, v)
  <2>1. /\ v \in Vaults /\ work' \in [Threads -> Work] /\ pc' \in [Threads -> Labels]
        /\ pc'[t] \in {"hide", "save"}
        /\ \A u \in Threads \ {t} : work'[u] = work[u] /\ pc'[u] = pc[u]
        /\ stray' = stray \ {v}
      BY <1>1, <1>3, <1>4, <1>6, FlippedFacts
  <2>2. work[t].flag \in BOOLEAN
      BY <1>1, WorkFacts
  <2>3. /\ config' \in [Vaults -> ConfigSpace] /\ config'[v].hidden = work[t].flag
        /\ \A u \in Vaults \ {v} : config'[u] = config[u]
      BY <1>1, <1>6, <2>1, <2>2, WrittenBack
  <2>4. InOrder(t)'
      BY <1>1, <1>2, <1>3, <1>6, <2>3, ForwardStep
  <2>5. pc'[t] \in Locked /\ stray' \in SUBSET Vaults /\ file' \in FileSpace
      BY <1>1, <1>2, <2>1 DEF Locked, TypeOK
  <2> QED
      BY <1>1, <1>2, <2>1, <2>3, <2>4, <2>5, StepInside
<1> QED
    BY <1>3, <1>5, <1>6 DEF HideWrite

\* When the file is replaced, what the cascade has set fits the groups it now holds.
LEMMA SavedInLine ==
    ASSUME Inv, NEW t \in Threads, pc[t] = "save", Writable(work[t].next),
           file' = Valid(work[t].next), UNCHANGED <<config, stray>>
    PROVE  InLine' /\ file' \in FileSpace
<1>1. TypeOK /\ InOrder(t) /\ pc[t] \in Locked \ {"backup"}
    BY DEF Inv, Locked
<1>2. Served(t) /\ Lined(t) /\ Cascading(t)
    BY <1>1 DEF InOrder
<1>3. PICK r : r = req[t]
    OBVIOUS
<1>4. r.kind \in GroupKinds
    BY <1>1, <1>2, <1>3 DEF Served
<1>5. r \in RequestSpace
    BY <1>1, <1>3, <1>4 DEF TypeOK, Idle, GroupKinds
<1>6. PICK gs \in Seq(Group) : gs = Current /\ Apart(gs)
    BY <1>1, CurrentIs
<1>7. /\ Accepted(r, gs) /\ work[t].next = Edited(r, gs)
      /\ work[t].targets = Targets(r, gs) /\ work[t].flag = Flag(r, gs)
    BY <1>2, <1>3, <1>6 DEF Cascading, UpToDate
<1>8. PICK next \in Seq(Group) : next = work[t].next
    BY <1>1, WorkFacts
<1>9. Apart(next)
    BY <1>8 DEF Writable, Apart
<1>10. file'.groups = next /\ file' \in FileSpace
    BY <1>8 DEF Valid, FileSpace
<1>11. Current' = next
    BY <1>9, <1>10, SoftenIs DEF Current
<1>12. ASSUME NEW v \in Concealed(next) \ stray, Readable(v) PROVE config[v].hidden
  <2>1. v \in Concealed(Edited(r, gs))
      BY <1>7, <1>8
  <2>2. \/ v \in ToSet(work[t].targets) /\ work[t].flag
        \/ v \in Concealed(Current) \ ToSet(work[t].targets)
      BY <1>4, <1>5, <1>6, <1>7, <2>1, EditedConceals
  <2>3. Todo(t) = {}
      BY <1>2, ListFacts DEF Lined, Todo
  <2>4. CASE v \in ToSet(work[t].targets) /\ work[t].flag
      BY <1>2, <1>12, <2>3, <2>4 DEF Cascading, TargetsSet
  <2>5. CASE v \in Concealed(Current) \ ToSet(work[t].targets)
    <3>1. v \notin Done(t) /\ v \notin work[t].before.stray
        BY <1>2, <1>12, <2>5 DEF Lined, Cascading, StraysBefore
    <3> QED
        BY <1>2, <1>12, <2>5, <3>1 DEF Cascading, RestInLine
  <2> QED
      BY <2>2, <2>4, <2>5
<1>13. InLine'
    BY <1>11, <1>12 DEF InLine, Readable
<1> QED
    BY <1>10, <1>13

\* The file is replaced, or the cascade turned back.
LEMMA SaveStep == ASSUME Inv, NEW t \in Threads, Save(t) PROVE Inv'
<1>1. TypeOK /\ InOrder(t) /\ pc[t] = "save" /\ pc[t] \in Locked \ {"backup"}
    BY DEF Inv, Save, Locked
<1>2. UNCHANGED <<bak, stamped, config, stray, putAside, calls, mishaps>>
    BY DEF Save, backups, ghosts, bounds
<1>3. CASE Fail(t) /\ UNCHANGED <<file, req, work, lock>>
    BY <1>1, <1>2, <1>3, TurnBackStep
<1>4. CASE Writable(work[t].next) /\ file' = Valid(work[t].next) /\ Reply(t) /\ Unlock
  <2>1. InLine' /\ file' \in FileSpace
      BY <1>1, <1>2, <1>4, SavedInLine
  <2>2. /\ bak' \in SUBSET FileSpace
        /\ stamped' \in [Seconds -> SUBSET FileSpace]
        /\ putAside' \in SUBSET FileSpace /\ stray' \in SUBSET Vaults
      BY <1>1, <1>2 DEF TypeOK
  <2> QED
      BY <1>1, <1>2, <1>4, <2>1, <2>2, LetGo
<1>5. CASE /\ Writable(work[t].next) /\ file' = Valid(work[t].next)
           /\ req[t].kind = "repair" /\ Goto(t, "backup") /\ UNCHANGED <<req, work, lock>>
  <2>1. file' \in FileSpace
      BY <1>1, <1>2, <1>5, SavedInLine
  <2>2. work[t].next = <<>>
    <3>1. work[t].next = Edited(req[t], Current)
        BY <1>1 DEF InOrder, Cascading, UpToDate
    <3> QED
        BY <1>5, <3>1 DEF Edited
  <2>3. "backup" \in Labels /\ "backup" \in Locked
      BY DEF Labels, Locked
  <2>4. /\ pc' \in [Threads -> Labels] /\ pc'[t] = "backup"
        /\ \A u \in Threads \ {t} : pc'[u] = pc[u]
      BY <1>1, <1>5, <2>3, GotoFacts
  <2>5. file'.groups = <<>>
      BY <1>5, <2>2 DEF Valid
  <2>6. Served(t)' /\ Lined(t)'
      BY <1>1, <1>5, <2>4 DEF InOrder, Served, Lined, Todo, Done, Locked
  <2>7. InOrder(t)'
      BY <2>4, <2>5, <2>6 DEF InOrder
  <2>8. /\ work' \in [Threads -> Work] /\ config' \in [Vaults -> ConfigSpace]
        /\ stray' \in SUBSET Vaults
      BY <1>1, <1>2, <1>5 DEF TypeOK
  <2> QED
      BY <1>1, <1>2, <1>5, <2>1, <2>3, <2>4, <2>7, <2>8, StepInside
<1> QED
    BY <1>3, <1>4, <1>5 DEF Save

\* Groups that are none hide nobody.
LEMMA NoneConcealed ==
    ASSUME file.groups = <<>> PROVE Concealed(Current) = {}
<1>1. Current = <<>>
    BY DEF Current, Soften
<1> QED
    BY <1>1 DEF Concealed, ToSet

LEMMA TornTyped == Torn \in FileSpace
<1>1. <<>> \in Seq(Group)
    OBVIOUS
<1> QED
    BY <1>1 DEF Torn, FileSpace

\* The backups, by name.
Backups == bak \cup UNION {stamped[s] : s \in Seconds}

LEMMA WriteBackupTypes ==
    ASSUME TypeOK, NEW content \in FileSpace, NEW aside \in SUBSET {content},
           WriteBackup(content, aside)
    PROVE  /\ bak' \in SUBSET FileSpace
           /\ stamped' \in [Seconds -> SUBSET FileSpace]
           /\ putAside' \in SUBSET FileSpace
BY DEF WriteBackup, TypeOK

\* Whatever was put aside is still in a backup: a stamped one that is written over is no
\* longer counted.
LEMMA WriteBackupKeeps ==
    ASSUME TypeOK, putAside \subseteq Backups,
           NEW content \in FileSpace, NEW aside \in SUBSET {content},
           WriteBackup(content, aside)
    PROVE  putAside' \subseteq Backups'
<1>1. /\ bak \in SUBSET FileSpace /\ stamped \in [Seconds -> SUBSET FileSpace]
      /\ putAside \in SUBSET FileSpace
    BY DEF TypeOK
<1>2. CASE bak = {} /\ bak' = {content} /\ UNCHANGED stamped /\ putAside' = putAside \cup aside
    BY <1>1, <1>2 DEF Backups
<1>3. CASE bak # {} /\ UNCHANGED bak /\ ~UNCHANGED stamped
  <2>1. PICK s \in Seconds : /\ stamped' = [stamped EXCEPT ![s] = {content}]
                              /\ putAside' = (putAside \ (stamped[s] \ bak)) \cup aside
      BY <1>3 DEF WriteBackup
  <2>2. /\ stamped' \in [Seconds -> SUBSET FileSpace] /\ stamped'[s] = {content}
        /\ \A r \in Seconds \ {s} : stamped'[r] = stamped[r]
      BY <1>1, <2>1
  <2>3. ASSUME NEW f \in putAside' PROVE f \in Backups'
    <3>1. CASE f \in aside
        BY <2>2, <3>1 DEF Backups
    <3>2. CASE f \in bak
        BY <1>3, <3>2 DEF Backups
    <3>3. CASE f \notin aside /\ f \notin bak
      <4>1. f \in putAside /\ f \notin stamped[s]
          BY <2>1, <2>3, <3>3
      <4>2. PICK r \in Seconds : f \in stamped[r]
          BY <3>3, <4>1 DEF Backups
      <4>3. f \in stamped'[r]
          BY <2>2, <4>1, <4>2
      <4> QED
          BY <4>3 DEF Backups
    <3> QED
        BY <3>1, <3>2, <3>3
  <2> QED
      BY <1>1, <1>3, <2>1, <2>2, <2>3
<1>4. CASE bak # {} /\ UNCHANGED bak /\ UNCHANGED stamped
  <2>1. putAside' \subseteq putAside \cup aside
      BY <1>4 DEF WriteBackup
  <2>2. aside \subseteq Backups
    <3>1. PICK s \in Seconds : stamped' = [stamped EXCEPT ![s] = {content}]
        BY <1>4 DEF WriteBackup
    <3>2. stamped[s] = {content}
        BY <1>1, <1>4, <3>1
    <3> QED
        BY <3>2 DEF Backups
  <2> QED
      BY <1>1, <1>4, <2>1, <2>2 DEF Backups
<1> QED
    BY <1>2, <1>3, <1>4 DEF WriteBackup

\* After the file was emptied the old one is put aside.
LEMMA BackupStep == ASSUME Inv, NEW t \in Threads, Backup(t) PROVE Inv'
<1>1. TypeOK /\ InOrder(t) /\ pc[t] = "backup" /\ pc[t] \in Locked /\ Reply(t) /\ Unlock
    BY DEF Inv, Backup, Locked
<1>2. UNCHANGED <<file, config, stray, calls, mishaps>>
    BY DEF Backup, bounds
<1>3. PICK old \in FileSpace : old = work[t].old
    BY <1>1, WorkFacts
<1>4. /\ bak' \in SUBSET FileSpace /\ stamped' \in [Seconds -> SUBSET FileSpace]
      /\ putAside' \in SUBSET FileSpace
  <2>1. \/ WriteBackup(old, {old}) \/ WriteBackup(Torn, {})
        \/ UNCHANGED <<backups, putAside>>
      BY <1>1, <1>3 DEF Backup
  <2> QED
      BY <1>1, <1>3, <2>1, WriteBackupTypes, TornTyped DEF backups, TypeOK
<1>5. file' \in FileSpace /\ stray' \in SUBSET Vaults
    BY <1>1, <1>2 DEF TypeOK
<1>6. Concealed(Current)' = {}
  <2>1. Concealed(Current) = {}
      BY <1>1, NoneConcealed DEF InOrder
  <2> QED
      BY <1>2, <2>1 DEF Current
<1>7. InLine'
    BY <1>6 DEF InLine
<1> QED
    BY <1>1, <1>2, <1>4, <1>5, <1>7, LetGo

\* A flag is looked at to be set back.
LEMMA RevertLoadStep == ASSUME Inv, NEW t \in Threads, RevertLoad(t) PROVE Inv'
<1>1. /\ TypeOK /\ InOrder(t) /\ pc[t] = "revert" /\ pc[t] \in Locked
      /\ work[t].done # <<>>
    BY DEF Inv, RevertLoad, Locked
<1>2. UNCHANGED <<file, bak, stamped, config, lock, req, putAside, calls, mishaps>>
    BY DEF RevertLoad, disk, backups, bounds
<1>3. PICK v : v = Last(work[t].done)
    OBVIOUS
<1>4. v \in Vaults
  <2>1. work[t].done \in Lists
      BY <1>1, WorkFacts
  <2> QED
      BY <1>1, <1>3, <2>1, EndsOfList, ListFacts
<1>5. config' \in [Vaults -> ConfigSpace] /\ file' \in FileSpace /\ stray \in SUBSET Vaults
    BY <1>1, <1>2 DEF TypeOK
<1>6. CASE /\ \/ (~Readable(v) \/ config[v].hidden # work[t].flag) /\ stray' = stray
              \/ stray' = stray \cup {v}
           /\ Set(t, "done", Front(work[t].done)) /\ UNCHANGED pc
  <2>1. \/ v \in stray'
        \/ ~(config'[v].is \in {"good", "badmount"})
        \/ config'[v].hidden = ~work[t].flag
    <3>1. work[t].flag \in BOOLEAN /\ config[v].hidden \in BOOLEAN
        BY <1>1, <1>4, WorkFacts, ConfigFacts
    <3> QED
        BY <1>2, <1>6, <3>1 DEF Readable
  <2>2. stray \subseteq stray' /\ stray' \subseteq stray \cup {v}
      BY <1>6
  <2>3. pc'[t] = "revert" /\ \A u \in Vaults \ {v} : config'[u] = config[u]
      BY <1>1, <1>2, <1>6
  <2>4. /\ InOrder(t)' /\ work' \in [Threads -> Work]
        /\ \A u \in Threads \ {t} : work'[u] = work[u]
      BY <1>1, <1>2, <1>3, <1>6, <2>1, <2>2, <2>3, BackwardStep
  <2>5. stray' \in SUBSET Vaults /\ pc' \in [Threads -> Labels] /\ pc'[t] \in Locked
      BY <1>1, <1>4, <1>5, <1>6, <2>2 DEF TypeOK
  <2> QED
      BY <1>1, <1>2, <1>5, <1>6, <2>4, <2>5, StepInside
<1>7. CASE /\ Readable(v) /\ Set(t, "loaded", config[v]) /\ Goto(t, "revert_write")
           /\ UNCHANGED stray
  <2>1. "revert_write" \in Labels /\ "revert_write" \in Locked
      BY DEF Labels, Locked
  <2>2. /\ pc' \in [Threads -> Labels] /\ pc'[t] = "revert_write"
        /\ \A u \in Threads \ {t} : pc'[u] = pc[u]
      BY <1>1, <1>7, <2>1, GotoFacts
  <2>3. /\ InOrder(t)' /\ work' \in [Threads -> Work]
        /\ \A u \in Threads \ {t} : work'[u] = work[u]
      BY <1>1, <1>2, <1>4, <1>7, <2>2, LoadedInOrder
  <2> QED
      BY <1>1, <1>2, <1>5, <1>7, <2>1, <2>2, <2>3, StepInside
<1> QED
    BY <1>3, <1>6, <1>7 DEF RevertLoad

\* A flag is set back, or is astray.
LEMMA RevertWriteStep == ASSUME Inv, NEW t \in Threads, RevertWrite(t) PROVE Inv'
<1>1. TypeOK /\ InOrder(t) /\ pc[t] = "revert_write" /\ pc[t] \in Locked
    BY DEF Inv, RevertWrite, Locked
<1>2. UNCHANGED <<file, bak, stamped, lock, req, putAside, calls, mishaps>>
    BY DEF RevertWrite, backups, bounds
<1>3. PICK v : v = Last(work[t].done)
    OBVIOUS
<1>4. work[t].done # <<>>
    BY <1>1 DEF InOrder, Lined
<1>5. v \in Vaults
  <2>1. work[t].done \in Lists
      BY <1>1, WorkFacts
  <2> QED
      BY <1>3, <1>4, <2>1, EndsOfList, ListFacts
<1>6. Set(t, "done", Front(work[t].done)) /\ Goto(t, "revert")
    BY DEF RevertWrite
<1>7. "revert" \in Labels /\ "revert" \in Locked
    BY DEF Labels, Locked
<1>8. /\ pc' \in [Threads -> Labels] /\ pc'[t] = "revert"
      /\ \A u \in Threads \ {t} : pc'[u] = pc[u]
    BY <1>1, <1>6, <1>7, GotoFacts
<1>9. /\ config' \in [Vaults -> ConfigSpace]
      /\ \A u \in Vaults \ {v} : config'[u] = config[u]
      /\ stray \subseteq stray' /\ stray' \subseteq stray \cup {v}
      /\ v \in stray' \/ config'[v].hidden = ~work[t].flag
  <2>1. CASE UNCHANGED config /\ stray' = stray \cup {v}
      BY <1>1, <2>1 DEF TypeOK
  <2>2. CASE /\ config' = [config EXCEPT ![v] = Flagged(work[t].loaded, ~work[t].flag)]
             /\ UNCHANGED stray
    <3>1. PICK flag \in BOOLEAN : flag = ~work[t].flag
        OBVIOUS
    <3>2. /\ config' \in [Vaults -> ConfigSpace] /\ config'[v].hidden = flag
          /\ \A u \in Vaults \ {v} : config'[u] = config[u]
        BY <1>1, <1>5, <2>2, <3>1, WrittenBack
    <3> QED
        BY <2>2, <3>1, <3>2
  <2> QED
      BY <1>3, <2>1, <2>2 DEF RevertWrite
<1>10. /\ InOrder(t)' /\ work' \in [Threads -> Work]
       /\ \A u \in Threads \ {t} : work'[u] = work[u]
    BY <1>1, <1>2, <1>3, <1>4, <1>6, <1>8, <1>9, BackwardStep
<1>11. stray' \in SUBSET Vaults /\ file' \in FileSpace
    BY <1>1, <1>2, <1>5, <1>9 DEF TypeOK
<1> QED
    BY <1>1, <1>2, <1>7, <1>8, <1>9, <1>10, <1>11, StepInside

\* All is undone; what was astray before is astray again.
LEMMA RevertDoneStep == ASSUME Inv, NEW t \in Threads, RevertDone(t) PROVE Inv'
<1>1. /\ TypeOK /\ InOrder(t) /\ pc[t] = "revert" /\ pc[t] \in Locked \ {"backup"}
      /\ work[t].done = <<>> /\ Reply(t) /\ Unlock
      /\ stray' = stray \cup work[t].before.stray
    BY DEF Inv, RevertDone, Locked
<1>2. UNCHANGED <<file, bak, stamped, config, putAside, calls, mishaps>>
    BY DEF RevertDone, disk, backups, bounds
<1>3. RestInLine(t) /\ Done(t) = {}
    BY <1>1, ListFacts DEF InOrder, Cascading, Done
<1>4. Current' = Current
    BY <1>2 DEF Current
<1>5. InLine'
    BY <1>1, <1>2, <1>3, <1>4 DEF RestInLine, InLine, Readable
<1>6. work[t].before.stray \in SUBSET Vaults
    BY <1>1, WorkFacts
<1>7. /\ bak' \in SUBSET FileSpace /\ stamped' \in [Seconds -> SUBSET FileSpace]
      /\ file' \in FileSpace
      /\ putAside' \in SUBSET FileSpace /\ stray' \in SUBSET Vaults
    BY <1>1, <1>2, <1>6 DEF TypeOK
<1> QED
    BY <1>1, <1>2, <1>5, <1>7, LetGo

\* At the start all flags are astray: no cascade has set any.
LEMMA InitInv == Init => Inv
<1> SUFFICES ASSUME Init PROVE Inv
    OBVIOUS
<1>1. "idle" \in Labels \ Locked
    BY DEF Labels, Locked
<1>2. TypeOK
    BY <1>1, NoWorkTyped, GroupsAssumption DEF Init, TypeOK
<1>3. \A t \in Threads : InOrder(t)
  <2> SUFFICES ASSUME NEW t \in Threads PROVE InOrder(t)
      OBVIOUS
  <2>1. pc[t] = "idle" /\ work[t] = NoWork
      BY DEF Init
  <2>2. Todo(t) = {} /\ Done(t) = {}
      BY <2>1, ListFacts DEF Todo, Done, NoWork
  <2>3. Served(t) /\ Lined(t)
      BY <2>1, <2>2 DEF Served, Lined, Locked
  <2> QED
      BY <1>1, <2>1, <2>3 DEF InOrder
<1>4. InLine
  <2>1. Concealed(Current) \subseteq Vaults /\ stray = Vaults
      BY <1>2, CurrentIs DEF Init
  <2> QED
      BY <2>1 DEF InLine
<1> QED
    BY <1>2, <1>3, <1>4 DEF Inv, Init

\* The invariant is inductive.
LEMMA NextInv == Inv /\ [Next]_vars => Inv'
<1> SUFFICES ASSUME Inv, [Next]_vars PROVE Inv'
    OBVIOUS
<1>1. ASSUME NEW t \in Threads,
             \/ Call(t) \/ Refuse(t) \/ Start(t) \/ Plan(t) \/ HideLoad(t) \/ HideWrite(t)
             \/ Save(t) \/ Backup(t) \/ RevertLoad(t) \/ RevertWrite(t) \/ RevertDone(t)
             \/ ConfigSave(t) \/ Mkdir(t) \/ NewConfig(t) \/ Seed(t)
      PROVE  Inv'
    BY <1>1, CallStep, RefuseStep, StartStep, PlanStep, HideLoadStep, HideWriteStep, SaveStep,
       BackupStep, RevertLoadStep, RevertWriteStep, RevertDoneStep, ConfigSaveStep, MkdirStep,
       NewConfigStep, SeedStep
<1>2. CASE UNCHANGED vars
  <2>1. UNCHANGED <<file, bak, stamped, config, lock, pc, req, work, stray, putAside, calls,
                    mishaps>>
      BY <1>2 DEF vars, disk, backups, threads, ghosts, bounds
  <2>2. TypeOK'
      BY <2>1 DEF Inv, TypeOK
  <2>3. \A t \in Threads : InOrder(t)'
      BY <2>1 DEF Inv, InOrder, Served, Lined, Cascading, UpToDate, FlagsKnown, TargetsTurn,
                  StraysBefore, TargetsSet, RestInLine, TouchedWasHidden, Current, Todo, Done,
                  Readable
  <2>4. InLine' <=> InLine
      BY <2>1 DEF InLine, Current, Readable
  <2> QED
      BY <2>1, <2>2, <2>3, <2>4 DEF Inv
<1>3. CASE Rest
    BY <1>2, <1>3 DEF Rest
<1> QED
    BY <1>1, <1>2, <1>3, ExitStep, RemoveFolderStep DEF Next

\* The strengthening holds in every state: whatever step of whatever thread comes
\* next, a cascade knows each flag it has not lost to somebody else.
THEOREM InOrderAlways == Spec => []Inv
BY InitInv, NextInv, PTL DEF Spec

\* Types, and one holder of GROUPS_WRITE_LOCK: between two steps of a group RPC a thread
\* holds the lock (vault_groups/mod.rs:32).
THEOREM TypesAndLock == Spec => []TypeOK
<1>1. Inv => TypeOK
    BY DEF Inv
<1> QED
    BY <1>1, InOrderAlways, PTL

\* The members of a hidden group are hidden once the lock is free, after failures, reverts,
\* crashes and saves beside it (vault_groups/mod.rs:746-787).
THEOREM HiddenGroupsAreHidden == Spec => []HiddenGroupsHideMembers
<1>1. Inv => HiddenGroupsHideMembers
  <2> SUFFICES ASSUME Inv, lock = None, NEW i \in DOMAIN file.groups, Current[i].hidden,
                      NEW v \in ToSet(Current[i].members) \ stray, Readable(v)
               PROVE  config[v].hidden
      BY DEF HiddenGroupsHideMembers, Current
  <2>1. PICK gs \in Seq(Group) : gs = file.groups
      BY CurrentIs DEF Inv
  <2>2. DOMAIN Current = DOMAIN gs
      BY <2>1, SoftenIs DEF Current
  <2>3. v \in Concealed(Current)
      BY <2>1, <2>2, ConcealedIs
  <2> QED
      BY <2>3 DEF Inv, InLine
<1> QED
    BY <1>1, InOrderAlways, PTL

\* A group RPC that fails leaves the flags as it found them, but for those it could not
\* set back (vault_groups/mod.rs:161, :589).
THEOREM FailuresLeaveNoTrace == Spec => []FailedLeavesNoTrace
<1>1. Inv => FailedLeavesNoTrace
  <2> SUFFICES ASSUME Inv, NEW t \in Threads, pc[t] = "revert", work[t].done = <<>>,
                      NEW v \in Vaults \ stray, Readable(v)
               PROVE  config[v].hidden <=> v \in work[t].before.hidden
      BY DEF FailedLeavesNoTrace
  <2>1. FlagsKnown(t) /\ Done(t) = {}
      BY ListFacts DEF Inv, InOrder, Cascading, Done, Locked
  <2> QED
      BY <2>1 DEF FlagsKnown
<1> QED
    BY <1>1, InOrderAlways, PTL

-----------------------------------------------------------------------------
\* THE REGISTRY

IdsOf(gs) == {gs[i].id : i \in DOMAIN gs}

\* The group an id finds in a list, as the registry keeps it.
Listed(gs, id) == [hidden |-> At(gs, id).hidden, members |-> At(gs, id).members]
View(gs) == [id \in IdsOf(gs) |-> Listed(gs, id)]

\* The operators on lists that the registry uses are the ones the program uses.
LEMMA PromiseOps ==
    /\ \A l, s : Promise!Without(l, s) = Without(l, s)
    /\ \A l : Promise!ToSet(l) = ToSet(l)
    /\ Promise!Lists = Lists
<1>1. \A l, s : Promise!Without(l, s) = Without(l, s)
    BY DEF Promise!Without, Promise!KeepAt, Promise!Ascending, Without, KeepAt, Ascending,
           Promise!Cardinality, Cardinality
<1>2. \A l : Promise!ToSet(l) = ToSet(l)
    BY DEF Promise!ToSet, ToSet
<1>3. \A S : Promise!SetToSeqs(S) = SetToSeqs(S)
    BY DEF Promise!SetToSeqs, SetToSeqs, Promise!Cardinality, Cardinality
<1>4. Promise!Lists = Lists
    BY <1>3 DEF Promise!Lists, Lists
<1> QED
    BY <1>1, <1>2, <1>4

\* Looking up an id that is there.
LEMMA IdsAndPlaces ==
    ASSUME NEW gs \in Seq(Group), NEW id \in IdsOf(gs)
    PROVE  /\ Has(gs, id) /\ Place(gs, id) \in DOMAIN gs /\ gs[Place(gs, id)].id = id
           /\ id \in Ids
           /\ At(gs, id) = gs[Place(gs, id)]
           /\ At(gs, id).hidden \in BOOLEAN /\ At(gs, id).members \in Lists
<1>1. Has(gs, id)
    BY DEF Has, IdsOf
<1>2. PICK p \in DOMAIN gs : p = Place(gs, id) /\ gs[p].id = id
    BY <1>1, PlaceInList
<1>3. gs[p].id \in Ids /\ gs[p].hidden \in BOOLEAN /\ gs[p].members \in Lists
    BY <1>2, GroupFacts
<1> QED
    BY <1>1, <1>2, <1>3 DEF At

\* Groups that share no vault are a registry.
LEMMA ViewIsRegistry ==
    ASSUME NEW gs \in Seq(Group), Apart(gs)
    PROVE  View(gs) \in Promise!Registry
<1>1. \A id \in IdsOf(gs) : View(gs)[id] \in Promise!Group /\ id \in Ids
    BY IdsAndPlaces, PromiseOps DEF View, Listed, Promise!Group
<1>2. IdsOf(gs) \in SUBSET Ids
    BY <1>1
<1>3. View(gs) \in [IdsOf(gs) -> Promise!Group]
    BY <1>1 DEF View
<1>4. ASSUME NEW g \in IdsOf(gs), NEW h \in IdsOf(gs), g # h
      PROVE  Promise!ToSet(View(gs)[g].members) \cap Promise!ToSet(View(gs)[h].members) = {}
  <2>1. PICK p \in DOMAIN gs : p = Place(gs, g) /\ gs[p].id = g
      BY IdsAndPlaces
  <2>2. PICK q \in DOMAIN gs : q = Place(gs, h) /\ gs[q].id = h
      BY IdsAndPlaces
  <2>3. ToSet(gs[p].members) \cap ToSet(gs[q].members) = {}
      BY <1>4, <2>1, <2>2 DEF Apart
  <2>4. View(gs)[g].members = gs[p].members /\ View(gs)[h].members = gs[q].members
      BY <2>1, <2>2 DEF View, Listed, At
  <2> QED
      BY <2>3, <2>4, PromiseOps
<1>5. Promise!Disjoint(View(gs))
    BY <1>3, <1>4 DEF Promise!Disjoint
<1> QED
    BY <1>2, <1>3, <1>5 DEF Promise!Registry

\* When a step is a Put of the registry.
LEMMA ViewPut ==
    ASSUME NEW gs \in Seq(Group), NEW next \in Seq(Group),
           NEW g \in IdsOf(next), IdsOf(next) = IdsOf(gs) \cup {g},
           NEW members \in Lists, members = At(next, g).members,
           NEW hidden \in BOOLEAN, hidden = At(next, g).hidden,
           \A h \in IdsOf(gs) \ {g} :
               /\ At(next, h).hidden = At(gs, h).hidden
               /\ At(next, h).members = Without(At(gs, h).members, ToSet(members))
    PROVE  View(next) \in Promise!Outcomes(View(gs))
<1>1. g \in Ids
    BY IdsAndPlaces
<1>2. PICK put : put = Promise!Put(View(gs), g, members, hidden)
    OBVIOUS
<1>3. DOMAIN View(gs) = IdsOf(gs) /\ DOMAIN View(next) = IdsOf(next)
    BY DEF View
<1>4. put = [h \in IdsOf(next) |->
               IF h = g THEN [hidden |-> hidden, members |-> members]
               ELSE [View(gs)[h] EXCEPT !.members = Without(@, ToSet(members))]]
    BY <1>2, <1>3, PromiseOps DEF Promise!Put
<1>5. ASSUME NEW h \in IdsOf(next) PROVE View(next)[h] = put[h]
  <2>1. View(next)[h] = [hidden |-> At(next, h).hidden, members |-> At(next, h).members]
      BY DEF View, Listed
  <2>2. CASE h = g
      BY <1>4, <2>1, <2>2
  <2>3. CASE h # g
    <3>1. h \in IdsOf(gs) \ {g}
        BY <2>3
    <3>2. View(gs)[h] = [hidden |-> At(gs, h).hidden, members |-> At(gs, h).members]
        BY <3>1 DEF View, Listed
    <3>3. put[h] = [hidden |-> At(gs, h).hidden,
                    members |-> Without(At(gs, h).members, ToSet(members))]
        BY <1>4, <2>3, <3>2
    <3> QED
        BY <2>1, <3>1, <3>3
  <2> QED
      BY <2>2, <2>3
<1>6. View(next) = put
  <2>1. View(next) = [h \in IdsOf(next) |-> View(next)[h]]
      BY DEF View
  <2>2. put = [h \in IdsOf(next) |-> put[h]]
      BY <1>4
  <2> QED
      BY <1>5, <2>1, <2>2
<1> QED
    BY <1>1, <1>2, <1>6, PromiseOps DEF Promise!Outcomes

\* A list of groups with the same ids, flags and members looks the same.
LEMMA ViewSame ==
    ASSUME NEW gs \in Seq(Group), NEW hs \in Seq(Group), DOMAIN hs = DOMAIN gs,
           \A i \in DOMAIN gs : /\ hs[i].id = gs[i].id /\ hs[i].hidden = gs[i].hidden
                                /\ hs[i].members = gs[i].members
    PROVE  View(hs) = View(gs)
<1>1. IdsOf(hs) = IdsOf(gs)
    BY DEF IdsOf
<1>2. PICK n \in Nat : DOMAIN gs = 1..n
    OBVIOUS
<1>3. ASSUME NEW id \in IdsOf(gs) PROVE Listed(hs, id) = Listed(gs, id)
  <2>1. Has(gs, id)
      BY IdsAndPlaces
  <2>2. Place(gs, id) = Place(hs, id)
      BY <1>2, <2>1, SamePlaces
  <2>3. Place(gs, id) \in DOMAIN gs
      BY IdsAndPlaces
  <2> QED
      BY <2>2, <2>3 DEF Listed, At
<1> QED
    BY <1>1, <1>3 DEF View

\* Looked up in the file as it is or in the softened groups, an id finds the same group.
LEMMA SoftenedView ==
    ASSUME NEW gs \in Seq(Group)
    PROVE  [id \in {gs[i].id : i \in DOMAIN gs} |->
               LET g == Soften(gs)[Place(gs, id)]
               IN [hidden |-> g.hidden, members |-> g.members]] = View(Soften(gs))
<1>1. PICK ss \in Seq(Group) : ss = Soften(gs)
    BY SoftenIs
<1>2. DOMAIN ss = DOMAIN gs /\ \A i \in DOMAIN gs : ss[i].id = gs[i].id
    BY <1>1, SoftenIs
<1>3. IdsOf(ss) = IdsOf(gs)
    BY <1>2 DEF IdsOf
<1>4. PICK n \in Nat : DOMAIN gs = 1..n
    OBVIOUS
<1>5. ASSUME NEW id \in IdsOf(gs) PROVE ss[Place(gs, id)] = At(ss, id)
  <2>1. Has(gs, id)
      BY IdsAndPlaces
  <2>2. Place(gs, id) = Place(ss, id)
      BY <1>2, <1>4, <2>1, SamePlaces
  <2> QED
      BY <2>2 DEF At
<1>6. [id \in IdsOf(gs) |-> [hidden |-> ss[Place(gs, id)].hidden,
                             members |-> ss[Place(gs, id)].members]] = View(ss)
    BY <1>3, <1>5 DEF View, Listed
<1> QED
    BY <1>1, <1>6 DEF IdsOf

\* The registry is the view of the groups as every RPC reads them.
LEMMA GroupsAreView ==
    ASSUME file.groups \in Seq(Group)
    PROVE  Groups = View(Current)
<1>1. PICK gs \in Seq(Group) : gs = file.groups
    OBVIOUS
<1> QED
    BY <1>1, SoftenedView DEF Groups, Current

\* A group is made and its vaults leave the others.
LEMMA CreatePromise ==
    ASSUME NEW gs \in Seq(Group), NEW r \in RequestSpace, r.kind = "create", ~Has(gs, r.id)
    PROVE  View(Created(r, gs)) \in Promise!Outcomes(View(gs))
<1>1. PICK n \in Nat : DOMAIN gs = 1..n
    OBVIOUS
<1>2. PICK m \in Lists : m = r.members
    BY RequestFacts
<1>3. PICK hidden \in BOOLEAN : hidden = r.hidden
    BY RequestFacts
<1>4. PICK c \in Seq(Group) : c = Created(r, gs)
    BY <1>1, CreatedIs
<1>5. /\ DOMAIN c = 1..(n + 1)
      /\ \A i \in 1..n : c[i] = Taken(gs, m)[i]
      /\ c[n + 1].id = r.id /\ c[n + 1].members = m /\ c[n + 1].hidden = hidden
    BY <1>1, <1>2, <1>3, <1>4, CreatedIs
<1>6. \A i \in 1..n : c[i].id = gs[i].id /\ gs[i].id # r.id
  <2>1. \A i \in DOMAIN gs : Taken(gs, m)[i].id = gs[i].id
      BY TakenIs
  <2> QED
      BY <1>1, <1>5, <2>1 DEF Has
<1>7. n + 1 \in DOMAIN c /\ \A i \in DOMAIN c : i = n + 1 \/ i \in 1..n
    BY <1>5
<1>8. IdsOf(c) = IdsOf(gs) \cup {r.id}
    BY <1>1, <1>5, <1>6, <1>7 DEF IdsOf
<1>9. r.id \in IdsOf(c)
    BY <1>8
<1>10. Place(c, r.id) = n + 1
  <2>1. Place(c, r.id) \in DOMAIN c /\ c[Place(c, r.id)].id = r.id
      BY <1>9, IdsAndPlaces
  <2> QED
      BY <1>6, <1>7, <2>1
<1>11. At(c, r.id) = c[n + 1]
    BY <1>10 DEF At
<1>12. ASSUME NEW h \in IdsOf(gs) \ {r.id} PROVE Place(c, h) = Place(gs, h) /\ Place(gs, h) \in 1..n
  <2>1. Has(gs, h) /\ Has(c, h)
      BY <1>8 DEF IdsOf, Has
  <2>2. PICK p : p = Place(gs, h)
      OBVIOUS
  <2>3. p \in 1..n /\ gs[p].id = h /\ \A j \in 1..n : gs[j].id = h => p <= j
      BY <1>1, <2>1, <2>2, PlaceIs
  <2>4. PICK q : q = Place(c, h)
      OBVIOUS
  <2>5. n + 1 \in Nat
      OBVIOUS
  <2>6. q \in DOMAIN c /\ c[q].id = h /\ \A j \in DOMAIN c : c[j].id = h => q <= j
      BY <1>5, <2>1, <2>4, <2>5, PlaceIs
  <2>7. q \in 1..n
      BY <1>5, <1>7, <2>6
  <2>8. p \in DOMAIN c /\ c[p].id = h
      BY <1>5, <1>6, <2>3
  <2>9. gs[q].id = h
      BY <1>6, <2>6, <2>7
  <2>10. q <= p
      BY <2>6, <2>8
  <2>11. p <= q
      BY <2>3, <2>7, <2>9
  <2>12. p = q
      BY <2>3, <2>7, <2>10, <2>11
  <2> QED
      BY <2>2, <2>3, <2>4, <2>12
<1>13. ASSUME NEW h \in IdsOf(gs) \ {r.id}
       PROVE  /\ At(c, h).hidden = At(gs, h).hidden
              /\ At(c, h).members = Without(At(gs, h).members, ToSet(m))
  <2>1. PICK p \in DOMAIN gs : p = Place(gs, h) /\ p = Place(c, h) /\ p \in 1..n
      BY <1>1, <1>12
  <2>2. At(c, h) = Taken(gs, m)[p] /\ At(gs, h) = gs[p]
      BY <1>5, <2>1 DEF At
  <2>3. Taken(gs, m)[p].hidden = gs[p].hidden
      BY <2>1, TakenIs
  <2>4. Taken(gs, m)[p].members = Without(gs[p].members, ToSet(m))
      BY <2>1, TakenIs
  <2> QED
      BY <2>2, <2>3, <2>4
<1>14. m = At(c, r.id).members /\ hidden = At(c, r.id).hidden
    BY <1>5, <1>11
<1>15. PICK g \in IdsOf(c) : g = r.id
    BY <1>9
<1>16. View(c) \in Promise!Outcomes(View(gs))
    BY <1>8, <1>13, <1>14, <1>15, ViewPut
<1> QED
    BY <1>4, <1>16

\* A group is edited and its vaults leave the others.
LEMMA UpdatePromise ==
    ASSUME NEW gs \in Seq(Group), NEW r \in RequestSpace, r.kind = "update", Has(gs, r.id)
    PROVE  View(Updated(r, gs)) \in Promise!Outcomes(View(gs))
<1>1. PICK n \in Nat : DOMAIN gs = 1..n
    OBVIOUS
<1>2. PICK p : p = Place(gs, r.id)
    OBVIOUS
<1>3. PICK m : m = Given(r.members, gs[p].members)
    OBVIOUS
<1>4. PICK u : u = Updated(r, gs)
    OBVIOUS
<1>5. PICK hidden : hidden = Given(r.hidden, gs[p].hidden)
    OBVIOUS
<1>6. /\ p \in DOMAIN gs /\ gs[p].id = r.id /\ m \in Lists /\ hidden \in BOOLEAN
      /\ u \in Seq(Group) /\ DOMAIN u = DOMAIN gs
      /\ u[p].id = r.id /\ u[p].members = m /\ u[p].hidden = hidden
      /\ \A i \in DOMAIN gs \ {p} : u[i] = Taken(gs, m)[i]
      /\ Place(u, r.id) = p
    BY <1>2, <1>3, <1>4, <1>5, UpdatedIs
<1>7. \A i \in DOMAIN gs : u[i].id = gs[i].id
  <2>1. \A i \in DOMAIN gs : Taken(gs, m)[i].id = gs[i].id
      BY TakenIs
  <2> QED
      BY <1>6, <2>1
<1>8. IdsOf(u) = IdsOf(gs) \cup {r.id} /\ r.id \in IdsOf(u)
    BY <1>6, <1>7 DEF IdsOf
<1>9. ASSUME NEW h \in IdsOf(gs) \ {r.id}
       PROVE  /\ At(u, h).hidden = At(gs, h).hidden
              /\ At(u, h).members = Without(At(gs, h).members, ToSet(m))
  <2>1. PICK q \in DOMAIN gs : q = Place(gs, h) /\ gs[q].id = h
      BY IdsAndPlaces
  <2>2. Has(gs, h)
      BY <2>1 DEF Has
  <2>3. DOMAIN u = 1..n /\ \A i \in 1..n : gs[i].id = u[i].id
      BY <1>1, <1>6, <1>7
  <2>4. Place(gs, h) = Place(u, h)
      BY <1>1, <2>2, <2>3, SamePlaces
  <2>5. q # p
      BY <1>6, <2>1
  <2>6. At(u, h) = Taken(gs, m)[q] /\ At(gs, h) = gs[q]
      BY <1>6, <2>1, <2>4, <2>5 DEF At
  <2>7. Taken(gs, m)[q].hidden = gs[q].hidden
      BY <2>1, TakenIs
  <2>8. Taken(gs, m)[q].members = Without(gs[q].members, ToSet(m))
      BY <2>1, TakenIs
  <2> QED
      BY <2>6, <2>7, <2>8
<1>10. m = At(u, r.id).members /\ hidden = At(u, r.id).hidden
    BY <1>6 DEF At
<1>11. PICK g \in IdsOf(u) : g = r.id
    BY <1>8
<1>12. View(u) \in Promise!Outcomes(View(gs))
    BY <1>6, <1>8, <1>9, <1>10, <1>11, ViewPut
<1> QED
    BY <1>4, <1>12

\* A group is sorted: its vaults are in no other.
LEMMA PermutePromise ==
    ASSUME NEW gs \in Seq(Group), Apart(gs), NEW r \in RequestSpace, r.kind = "permute",
           Has(gs, r.id), ToSet(r.members) = ToSet(At(gs, r.id).members)
    PROVE  View(Edited(r, gs)) \in Promise!Outcomes(View(gs))
<1>1. PICK n \in Nat : DOMAIN gs = 1..n
    OBVIOUS
<1>2. PICK p : p = Place(gs, r.id)
    OBVIOUS
<1>3. PICK m \in Lists : m = r.members
    BY RequestFacts
<1>4. PICK e : e = Edited(r, gs)
    OBVIOUS
<1>5. /\ p \in DOMAIN gs /\ gs[p].id = r.id
      /\ e \in Seq(Group) /\ DOMAIN e = DOMAIN gs
      /\ e[p].id = gs[p].id /\ e[p].hidden = gs[p].hidden /\ e[p].members = m
      /\ \A i \in DOMAIN gs \ {p} : e[i] = gs[i]
    BY <1>2, <1>3, <1>4, PermutedIs
<1>6. \A i \in DOMAIN gs : e[i].id = gs[i].id
    BY <1>5
<1>7. IdsOf(e) = IdsOf(gs) \cup {r.id} /\ r.id \in IdsOf(e)
    BY <1>5, <1>6 DEF IdsOf
<1>8. Place(e, r.id) = p
  <2>1. DOMAIN e = 1..n /\ \A i \in 1..n : gs[i].id = e[i].id
      BY <1>1, <1>5, <1>6
  <2>2. Place(gs, r.id) = Place(e, r.id)
      BY <1>1, <2>1, SamePlaces
  <2> QED
      BY <1>2, <2>2
<1>9. PICK hidden \in BOOLEAN : hidden = gs[p].hidden
    BY <1>5, GroupFacts
<1>10. m = At(e, r.id).members /\ hidden = At(e, r.id).hidden
    BY <1>5, <1>8, <1>9 DEF At
<1>11. ASSUME NEW h \in IdsOf(gs) \ {r.id}
       PROVE  /\ At(e, h).hidden = At(gs, h).hidden
              /\ At(e, h).members = Without(At(gs, h).members, ToSet(m))
  <2>1. PICK q \in DOMAIN gs : q = Place(gs, h) /\ gs[q].id = h
      BY IdsAndPlaces
  <2>2. Has(gs, h)
      BY <2>1 DEF Has
  <2>3. DOMAIN e = 1..n /\ \A i \in 1..n : gs[i].id = e[i].id
      BY <1>1, <1>5, <1>6
  <2>4. Place(gs, h) = Place(e, h)
      BY <1>1, <2>2, <2>3, SamePlaces
  <2>5. q # p
      BY <1>5, <2>1
  <2>6. At(e, h) = gs[q] /\ At(gs, h) = gs[q]
      BY <1>5, <2>1, <2>4, <2>5 DEF At
  <2>7. ToSet(gs[q].members) \cap ToSet(m) = {}
      BY <1>2, <1>3, <1>5, <2>1, <2>5 DEF Apart, At
  <2>8. PICK l \in Lists : l = gs[q].members
      BY <2>1, GroupFacts
  <2>9. Without(l, ToSet(m)) = l
      BY <2>7, <2>8, WithoutMembers
  <2> QED
      BY <2>6, <2>8, <2>9
<1>12. PICK g \in IdsOf(e) : g = r.id
    BY <1>7
<1>13. View(e) \in Promise!Outcomes(View(gs))
    BY <1>5, <1>7, <1>10, <1>11, <1>12, ViewPut
<1> QED
    BY <1>4, <1>13

\* Of a hand-made file with two groups of one id a deletion leaves the second.
LEMMA DeletePromise ==
    ASSUME NEW gs \in Seq(Group), Apart(gs), NEW r \in RequestSpace, r.kind = "delete",
           Has(gs, r.id), Writable(Edited(r, gs))
    PROVE  View(Edited(r, gs)) \in Promise!Outcomes(View(gs))
<1>1. PICK p \in DOMAIN gs : p = Place(gs, r.id) /\ gs[p].id = r.id
    BY PlaceInList
<1>2. PICK P \in SUBSET DOMAIN gs : P = DOMAIN gs \ {p}
    OBVIOUS
<1>3. PICK e : e = Edited(r, gs)
    OBVIOUS
<1>4. e = KeepAt(gs, P)
    BY <1>1, <1>2, <1>3 DEF Edited
<1>5. e \in Seq(Group) /\ ToSet(e) = {gs[i] : i \in P}
    BY <1>4, KeepAtProps
<1>6. \A j, k \in DOMAIN e : e[j].id = e[k].id => j = k
    BY <1>3 DEF Writable
<1>7. ASSUME NEW i \in P PROVE gs[i].id \in IdsOf(e) /\ At(e, gs[i].id) = gs[i]
  <2>1. gs[i] \in ToSet(e)
      BY <1>5
  <2>2. PICK k \in DOMAIN e : e[k] = gs[i]
      BY <2>1 DEF ToSet
  <2>3. gs[i].id \in IdsOf(e)
      BY <2>2 DEF IdsOf
  <2>4. Place(e, gs[i].id) \in DOMAIN e /\ e[Place(e, gs[i].id)].id = gs[i].id
      BY <1>5, <2>3, IdsAndPlaces
  <2>5. Place(e, gs[i].id) = k
      BY <1>6, <2>2, <2>4
  <2> QED
      BY <2>2, <2>3, <2>5 DEF At
<1>8. ASSUME NEW h \in IdsOf(e) PROVE \E i \in P : gs[i].id = h
  <2>1. PICK k \in DOMAIN e : e[k].id = h
      BY DEF IdsOf
  <2>2. e[k] \in ToSet(e)
      BY DEF ToSet
  <2> QED
      BY <1>5, <2>1, <2>2
<1>9. IdsOf(e) \subseteq IdsOf(gs)
    BY <1>2, <1>8 DEF IdsOf
<1>10. ASSUME NEW h \in IdsOf(gs) \ {r.id} PROVE h \in IdsOf(e) /\ At(e, h) = At(gs, h)
  <2>1. PICK q \in DOMAIN gs : q = Place(gs, h) /\ gs[q].id = h
      BY IdsAndPlaces
  <2>2. q \in P
      BY <1>1, <1>2, <2>1
  <2> QED
      BY <1>7, <2>1, <2>2 DEF At
<1>11. r.id \in IdsOf(gs)
    BY <1>1 DEF IdsOf
<1>12. CASE r.id \notin IdsOf(e)
  <2>1. IdsOf(e) = IdsOf(gs) \ {r.id}
      BY <1>9, <1>10, <1>12
  <2>2. DOMAIN View(gs) = IdsOf(gs)
      BY DEF View
  <2>3. View(e) = Promise!Dropped(View(gs), r.id)
      BY <1>10, <2>1, <2>2 DEF View, Listed, Promise!Dropped
  <2> QED
      BY <1>3, <1>11, <2>2, <2>3 DEF Promise!Outcomes
<1>13. CASE r.id \in IdsOf(e)
  <2>1. PICK i \in P : gs[i].id = r.id
      BY <1>8, <1>13
  <2>2. At(e, r.id) = gs[i] /\ i \in DOMAIN gs
      BY <1>2, <1>7, <2>1
  <2>3. IdsOf(e) = IdsOf(gs) \cup {r.id}
      BY <1>9, <1>10, <1>13
  <2>4. PICK m \in Lists : m = At(e, r.id).members
      BY <2>2, GroupFacts
  <2>5. PICK hidden \in BOOLEAN : hidden = At(e, r.id).hidden
      BY <2>2, GroupFacts
  <2>6. ASSUME NEW h \in IdsOf(gs) \ {r.id}
        PROVE  /\ At(e, h).hidden = At(gs, h).hidden
               /\ At(e, h).members = Without(At(gs, h).members, ToSet(m))
    <3>1. At(e, h) = At(gs, h)
        BY <1>10
    <3>2. PICK q \in DOMAIN gs : q = Place(gs, h) /\ gs[q].id = h
        BY IdsAndPlaces
    <3>3. q # i
        BY <2>1, <3>2
    <3>4. ToSet(gs[q].members) \cap ToSet(m) = {}
        BY <2>2, <2>4, <3>2, <3>3 DEF Apart
    <3>5. PICK l \in Lists : l = gs[q].members
        BY <3>2, GroupFacts
    <3>6. Without(l, ToSet(m)) = l
        BY <3>4, <3>5, WithoutMembers
    <3> QED
        BY <3>1, <3>2, <3>5, <3>6 DEF At
  <2>7. PICK g \in IdsOf(e) : g = r.id
      BY <1>13
  <2>8. View(e) \in Promise!Outcomes(View(gs))
      BY <1>5, <2>3, <2>4, <2>5, <2>6, <2>7, ViewPut
  <2> QED
      BY <1>3, <2>8
<1> QED
    BY <1>12, <1>13

\* What a request makes of the groups is what the registry allows.
LEMMA EditedPromise ==
    ASSUME NEW gs \in Seq(Group), Apart(gs), NEW r \in RequestSpace, r.kind \in GroupKinds,
           Accepted(r, gs), Writable(Edited(r, gs))
    PROVE  View(Edited(r, gs)) \in Promise!Outcomes(View(gs))
<1>1. CASE r.kind = "create"
    BY <1>1, CreatePromise DEF Accepted, Edited
<1>2. CASE r.kind = "update"
    BY <1>2, UpdatePromise DEF Accepted, Edited
<1>3. CASE r.kind = "delete"
    BY <1>3, DeletePromise DEF Accepted
<1>4. CASE r.kind = "permute"
    BY <1>4, PermutePromise DEF Accepted
<1>5. CASE r.kind = "reorder"
  <2>1. PICK e \in Seq(Group) : e = Edited(r, gs)
      BY <1>5, ReorderedIs
  <2>2. DOMAIN e = DOMAIN gs
      BY <1>5, <2>1, ReorderedIs
  <2>3. \A i \in DOMAIN gs : e[i].id = gs[i].id /\ e[i].members = gs[i].members
      BY <1>5, <2>1, ReorderedIs
  <2>4. \A i \in DOMAIN gs : e[i].hidden = gs[i].hidden
      BY <1>5, <2>1, ReorderedIs
  <2>5. View(e) = View(gs)
      BY <2>2, <2>3, <2>4, ViewSame
  <2> QED
      BY <2>1, <2>5 DEF Promise!Outcomes
<1>6. CASE r.kind = "repair"
  <2>1. Edited(r, gs) = <<>>
      BY <1>6 DEF Edited
  <2>2. View(<<>>) = <<>>
      BY DEF View, IdsOf
  <2> QED
      BY <2>1, <2>2 DEF Promise!Outcomes
<1> QED
    BY <1>1, <1>2, <1>3, <1>4, <1>5, <1>6 DEF GroupKinds

\* Every step of the program is a step of the registry, or none.
LEMMA RegistryStep == Inv /\ [Next]_vars => [Promise!Next]_Groups
<1> SUFFICES ASSUME Inv, [Next]_vars PROVE Promise!Next \/ UNCHANGED Groups
    BY DEF Promise!Next
<1>1. ASSUME UNCHANGED file PROVE UNCHANGED Groups
    BY <1>1 DEF Groups
<1>2. ASSUME NEW t \in Threads, pc[t] = "save", Writable(work[t].next),
             file' = Valid(work[t].next)
      PROVE  Promise!Next
  <2>1. TypeOK /\ InOrder(t) /\ pc[t] \in Locked \ {"backup"}
      BY <1>2 DEF Inv, Locked
  <2>2. Served(t) /\ Cascading(t)
      BY <2>1 DEF InOrder
  <2>3. PICK r : r = req[t]
      OBVIOUS
  <2>4. r.kind \in GroupKinds
      BY <2>1, <2>2, <2>3 DEF Served
  <2>5. r \in RequestSpace
      BY <2>1, <2>3, <2>4 DEF TypeOK, Idle, GroupKinds
  <2>6. PICK gs \in Seq(Group) : gs = Current /\ Apart(gs)
      BY <2>1, CurrentIs
  <2>7. Accepted(r, gs) /\ work[t].next = Edited(r, gs)
      BY <2>2, <2>3, <2>6 DEF Cascading, UpToDate
  <2>8. PICK next \in Seq(Group) : next = work[t].next
      BY <2>1, WorkFacts
  <2>9. Apart(next)
      BY <1>2, <2>8 DEF Writable, Apart
  <2>10. file'.groups = next
      BY <1>2, <2>8 DEF Valid
  <2>11. View(next) \in Promise!Outcomes(View(gs))
      BY <1>2, <2>4, <2>5, <2>6, <2>7, <2>8, EditedPromise
  <2>12. Groups = View(gs)
      BY <2>1, <2>6, CurrentIs, GroupsAreView
  <2>13. Groups' = View(Soften(next))
      BY <2>10, SoftenedView DEF Groups
  <2>14. Groups' = View(next)
      BY <2>9, <2>13, SoftenIs
  <2> QED
      BY <2>11, <2>12, <2>14 DEF Promise!Next
<1>3. ASSUME NEW t \in Threads,
             \/ Call(t) \/ Refuse(t) \/ Start(t) \/ Plan(t) \/ HideLoad(t) \/ HideWrite(t)
             \/ Backup(t) \/ RevertLoad(t) \/ RevertWrite(t) \/ RevertDone(t)
             \/ ConfigSave(t) \/ Mkdir(t) \/ NewConfig(t) \/ Seed(t)
      PROVE  UNCHANGED file
    BY <1>3 DEF Call, Refuse, Start, Plan, HideLoad, HideWrite, Backup, RevertLoad, RevertWrite,
                RevertDone, ConfigSave, Mkdir, NewConfig, Seed, disk
<1>4. ASSUME Exit \/ (\E v \in Vaults : RemoveFolder(v)) \/ Rest \/ UNCHANGED vars
      PROVE  UNCHANGED file
    BY <1>4 DEF Exit, RemoveFolder, Rest, vars, disk
<1>5. ASSUME NEW t \in Threads, Save(t) PROVE Promise!Next \/ UNCHANGED file
    BY <1>2, <1>5 DEF Save
<1> QED
    BY <1>1, <1>3, <1>4, <1>5 DEF Next

\* The program implements the registry: each change of vault_groups.toml is one the
\* registry allows, for any concurrent RPCs (vault_groups/mod.rs:32, :322).
THEOREM ProgramImplementsRegistry == Spec => ImplementsRegistry
<1>1. Init => Promise!Init
  <2> SUFFICES ASSUME Init PROVE Groups \in Promise!Registry
      BY DEF Promise!Init, Promise!TypeOK
  <2>1. TypeOK
      BY InitInv DEF Inv
  <2>2. Groups = View(Current) /\ Current \in Seq(Group) /\ Apart(Current)
      BY <2>1, CurrentIs, GroupsAreView
  <2>3. PICK gs \in Seq(Group) : gs = Current
      BY <2>2
  <2> QED
      BY <2>2, <2>3, ViewIsRegistry
<1> QED
    BY <1>1, RegistryStep, InOrderAlways, PTL DEF Spec, ImplementsRegistry, Promise!Spec

-----------------------------------------------------------------------------
\* THE BACKUPS

\* The backups are written by one step, and what it writes over is no longer counted.
LEMMA BackupsStep == Inv /\ BackupsAccumulate /\ [Next]_vars => BackupsAccumulate'
<1> SUFFICES ASSUME Inv, BackupsAccumulate, [Next]_vars
             PROVE  BackupsAccumulate'
    OBVIOUS
<1>1. ASSUME NEW t \in Threads, Backup(t)
      PROVE  BackupsAccumulate'
  <2>1. CASE UNCHANGED <<backups, putAside>>
      BY <2>1 DEF BackupsAccumulate, backups
  <2>2. ASSUME NEW content \in FileSpace, NEW aside \in SUBSET {content},
               WriteBackup(content, aside)
        PROVE  BackupsAccumulate'
      BY <2>2, WriteBackupKeeps DEF Inv, BackupsAccumulate, Backups
  <2>3. PICK old \in FileSpace : old = work[t].old
      BY <1>1, WorkFacts DEF Inv
  <2>4. \/ WriteBackup(old, {old}) \/ WriteBackup(Torn, {})
        \/ UNCHANGED <<backups, putAside>>
      BY <1>1, <2>3 DEF Backup
  <2>5. QED
      BY <2>1, <2>2, <2>3, <2>4, TornTyped
<1>2. ASSUME UNCHANGED <<bak, stamped, putAside>>
      PROVE  BackupsAccumulate'
    BY <1>2 DEF BackupsAccumulate
<1>3. ASSUME NEW t \in Threads,
             \/ Call(t) \/ Refuse(t) \/ Start(t) \/ Plan(t) \/ HideLoad(t) \/ HideWrite(t)
             \/ Save(t) \/ RevertLoad(t) \/ RevertWrite(t) \/ RevertDone(t)
             \/ ConfigSave(t) \/ Mkdir(t) \/ NewConfig(t) \/ Seed(t)
      PROVE  UNCHANGED <<bak, stamped, putAside>>
    BY <1>3 DEF Call, Refuse, Start, Plan, HideLoad, HideWrite, Save, RevertLoad,
                RevertWrite, RevertDone, ConfigSave, Mkdir, NewConfig, Seed,
                disk, backups, ghosts
<1>4. ASSUME Exit \/ (\E v \in Vaults : RemoveFolder(v)) \/ Rest \/ UNCHANGED vars
      PROVE  UNCHANGED <<bak, stamped, putAside>>
    BY <1>4 DEF Exit, RemoveFolder, Rest, vars, disk, backups, ghosts
<1>5. QED
    BY <1>1, <1>2, <1>3, <1>4 DEF Next

\* No order of repairs, also concurrent ones with crashes and torn writes between them,
\* writes over what toml.bak held or an earlier repair put aside, but for a stamped
\* backup of the same second (vault_groups/mod.rs:461-470).
THEOREM BackupsAreKept == Spec => []BackupsAccumulate
<1>1. Init => BackupsAccumulate
    BY DEF Init, BackupsAccumulate
<1>2. QED
    BY <1>1, BackupsStep, InOrderAlways, PTL DEF Spec
=============================================================================
