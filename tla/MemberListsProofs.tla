------------------------- MODULE MemberListsProofs -------------------------
(***************************************************************************)
(* The facts about MemberLists that hold of every list: what is kept is    *)
(* kept once and in its order, and nothing else is.                        *)
(***************************************************************************)
EXTENDS MemberLists, SequencesExt, FiniteSetTheorems, WellFoundedInduction, TLAPS

\* A set of numbers that is not empty has a least element.
LEMMA Least ==
    ASSUME NEW T, T \subseteq Nat, T # {}
    PROVE  \E x \in T : \A y \in T : x <= y
<1> DEFINE R == OpToRel(<, Nat)
<1>1. IsWellFoundedOn(R, Nat)
    BY NatLessThanWellFounded
<1>2. \A x, y \in Nat : <<y, x>> \in R <=> y < x
    BY DEF OpToRel
<1> HIDE DEF R
<1>3. PICK x \in T : \A y \in T : ~(<<y, x>> \in R)
    BY <1>1, WFMin, Zenon
<1>4. ASSUME NEW y \in T PROVE x <= y
  <2>1. x \in Nat /\ y \in Nat
      OBVIOUS
  <2>2. ~(y < x)
      BY <1>2, <1>3, <2>1, Zenon
  <2>3. QED
      BY <2>1, <2>2
<1>5. QED
    BY <1>4

\* Induction, by the set of the numbers it is true of.
LEMMA Inductive ==
    ASSUME NEW T, T \subseteq Nat, 0 \in T, \A n \in T : n + 1 \in T
    PROVE  T = Nat
<1> SUFFICES ASSUME Nat \ T # {} PROVE FALSE
    OBVIOUS
<1>1. PICK x \in Nat \ T : \A y \in Nat \ T : x <= y
    BY Least
<1>2. x # 0 /\ x - 1 \in Nat /\ ~(x <= x - 1)
    OBVIOUS
<1>3. x - 1 \in T
    BY <1>1, <1>2
<1>4. QED
    BY <1>2, <1>3

Increasing(f) == \A i, j \in DOMAIN f : i < j => f[i] < f[j]

Counted(S) ==
    /\ IsFiniteSet(S) /\ Cardinality(S) \in Nat
    /\ \E f \in [1..Cardinality(S) -> S] : Increasing(f)

\* Numbers up to n can be counted off.
LEMMA AscendingExists ==
    ASSUME NEW n \in Nat, NEW S \in SUBSET (1..n)
    PROVE  Counted(S)
<1> DEFINE Good == {m \in Nat : \A R \in SUBSET (1..m) : Counted(R)}
<1>1. 0 \in Good
  <2> SUFFICES ASSUME NEW R \in SUBSET (1..0) PROVE Counted(R)
      OBVIOUS
  <2>1. R = {}
      OBVIOUS
  <2>2. IsFiniteSet(R) /\ Cardinality(R) = 0
      BY <2>1, FS_EmptySet
  <2> DEFINE f == [i \in 1..0 |-> i]
  <2>3. f \in [1..Cardinality(R) -> R] /\ Increasing(f)
      BY <2>1, <2>2 DEF Increasing
  <2>4. \E g \in [1..Cardinality(R) -> R] : Increasing(g)
      BY <2>3, Zenon
  <2>5. IsFiniteSet(R) /\ Cardinality(R) \in Nat
      BY <2>2
  <2>6. QED
      BY <2>4, <2>5, Zenon DEF Counted
<1>2. ASSUME NEW m \in Good PROVE m + 1 \in Good
  <2> SUFFICES ASSUME NEW R \in SUBSET (1..(m + 1)) PROVE Counted(R)
      OBVIOUS
  <2> DEFINE Q == R \ {m + 1}
  <2>1. Q \in SUBSET (1..m)
      BY <1>2
  <2>2. Counted(Q)
      BY <1>2, <2>1
  <2>3. CASE m + 1 \notin R
      BY <2>2, <2>3, Q = R
  <2>4. CASE m + 1 \in R
    <3>1. R = Q \cup {m + 1} /\ m + 1 \notin Q
        BY <2>4
    <3> HIDE DEF Q
    <3>2. IsFiniteSet(Q) /\ Cardinality(Q) \in Nat
        BY <2>2 DEF Counted
    <3>9. IsFiniteSet(Q \cup {m + 1}) /\ Cardinality(Q \cup {m + 1}) = Cardinality(Q) + 1
        BY <3>1, <3>2, FS_AddElement
    <3>10. IsFiniteSet(R) /\ Cardinality(R) = Cardinality(Q) + 1
        BY <3>1, <3>9
    <3>3. PICK g \in [1..Cardinality(Q) -> Q] : Increasing(g)
        BY <2>2 DEF Counted
    <3> DEFINE f == [i \in 1..Cardinality(R) |-> IF i = Cardinality(R) THEN m + 1 ELSE g[i]]
    <3>4. \A i \in 1..Cardinality(R) : i # Cardinality(R) => i \in 1..Cardinality(Q)
        BY <3>2, <3>10
    <3>5. f \in [1..Cardinality(R) -> R]
        BY <3>1, <3>4
    <3>6. \A q \in Q : q \in Nat /\ q < m + 1
        BY <1>2, <2>1
    <3>7. Increasing(f)
      <4> SUFFICES ASSUME NEW i \in 1..Cardinality(R), NEW j \in 1..Cardinality(R), i < j
                   PROVE  f[i] < f[j]
          BY DEF Increasing
      <4>1. i # Cardinality(R) /\ i \in 1..Cardinality(Q) /\ f[i] = g[i] /\ g[i] \in Q
          BY <3>2, <3>10, <3>4
      <4>2. CASE j = Cardinality(R)
          BY <4>1, <4>2, <3>6
      <4>3. CASE j # Cardinality(R)
        <5>1. j \in 1..Cardinality(Q) /\ f[j] = g[j]
            BY <4>3, <3>4
        <5>2. g[i] < g[j]
            BY <3>3, <4>1, <5>1 DEF Increasing
        <5>3. QED
            BY <4>1, <5>1, <5>2
      <4>4. QED
          BY <4>2, <4>3
    <3> HIDE DEF f
    <3>8. QED
        BY <3>2, <3>10, <3>5, <3>7 DEF Counted
  <2>5. QED
      BY <2>3, <2>4
<1> HIDE DEF Good
<1>3. Good = Nat
  <2>1. Good \subseteq Nat
      BY DEF Good
  <2>2. QED
      BY <1>1, <1>2, <2>1, Inductive
<1>4. QED
    BY <1>3 DEF Good

\* Ascending counts all of them off, and each once.
LEMMA AscendingProps ==
    ASSUME NEW n \in Nat, NEW S \in SUBSET (1..n)
    PROVE  /\ Cardinality(S) \in Nat
           /\ Ascending(S) \in [1..Cardinality(S) -> S]
           /\ Increasing(Ascending(S))
           /\ \A s \in S : \E i \in 1..Cardinality(S) : Ascending(S)[i] = s
<1> DEFINE f == Ascending(S)
           k == Cardinality(S)
<1>1. Counted(S)
    BY AscendingExists
<1>2. IsFiniteSet(S) /\ k \in Nat
    BY <1>1 DEF Counted
<1>3. f \in [1..k -> S] /\ Increasing(f)
    BY <1>1 DEF Counted, Ascending, Increasing
<1> HIDE DEF f
<1>4. \A i, j \in 1..k : f[i] = f[j] => i = j
  <2> SUFFICES ASSUME NEW i \in 1..k, NEW j \in 1..k, i # j PROVE f[i] # f[j]
      OBVIOUS
  <2>1. (i < j \/ j < i) /\ i \in 1..k /\ j \in 1..k
      BY <1>2
  <2>2. f[i] \in S /\ f[j] \in S
      BY <1>3, <2>1, Zenon
  <2>3. f[i] \in Nat /\ f[j] \in Nat
    <3>1. S \subseteq Nat
        OBVIOUS
    <3>2. QED
        BY <2>2, <3>1, Zenon
  <2>4. f[i] < f[j] \/ f[j] < f[i]
      BY <1>3, <2>1 DEF Increasing
  <2>5. QED
      BY <2>3, <2>4
<1>5. f \in Injection(1..k, S)
    BY <1>3, <1>4 DEF Injection, IsInjective
<1>6. IsFiniteSet(1..k) /\ Cardinality(1..k) = k
    BY <1>2, FS_Interval
<1>7. f \in Surjection(1..k, S)
    BY <1>2, <1>5, <1>6, FS_Injection
<1>8. QED
    BY <1>2, <1>3, <1>7 DEF f, Surjection

\* What KeepAt keeps, it keeps in order.
LEMMA KeepAtFrom ==
    ASSUME NEW D, NEW list \in Seq(D), NEW P \in SUBSET DOMAIN list
    PROVE  /\ Cardinality(P) \in Nat
           /\ \E f \in [1..Cardinality(P) -> P] :
                 /\ Increasing(f)
                 /\ \A p \in P : \E k \in 1..Cardinality(P) : f[k] = p
                 /\ KeepAt(list, P) = [k \in 1..Cardinality(P) |-> list[f[k]]]
<1>1. Len(list) \in Nat /\ P \in SUBSET (1..Len(list))
    OBVIOUS
<1>2. /\ Cardinality(P) \in Nat
      /\ Ascending(P) \in [1..Cardinality(P) -> P]
      /\ Increasing(Ascending(P))
      /\ \A p \in P : \E k \in 1..Cardinality(P) : Ascending(P)[k] = p
    BY <1>1, AscendingProps
<1>3. KeepAt(list, P) = [k \in 1..Cardinality(P) |-> list[Ascending(P)[k]]]
    BY <1>2 DEF KeepAt
<1>4. QED
    BY <1>2, <1>3

\* A list kept at some of its places is a list of the same domain of values, and
\* it has the values at those places, once each if the list had.
LEMMA KeepAtProps ==
    ASSUME NEW D, NEW list \in Seq(D), NEW P \in SUBSET DOMAIN list
    PROVE  /\ KeepAt(list, P) \in Seq(D)
           /\ ToSet(KeepAt(list, P)) = {list[p] : p \in P}
           /\ IsInjective(list) => IsInjective(KeepAt(list, P))
<1> DEFINE n == Cardinality(P)
           kept == KeepAt(list, P)
<1>1. n \in Nat
    BY KeepAtFrom
<1>2. PICK f \in [1..n -> P] : /\ Increasing(f)
                               /\ \A p \in P : \E k \in 1..n : f[k] = p
                               /\ kept = [k \in 1..n |-> list[f[k]]]
    BY KeepAtFrom
<1> HIDE DEF n, kept
<1>3. \A k \in 1..n : f[k] \in DOMAIN list /\ f[k] \in Nat /\ list[f[k]] \in D
    BY <1>2
<1>4. kept \in [1..n -> D] /\ DOMAIN kept = 1..n
    BY <1>2, <1>3
<1>5. kept \in Seq(D)
    BY <1>1, <1>4
<1>6. ToSet(kept) = {list[p] : p \in P}
    BY <1>2, <1>4 DEF ToSet
<1>7. ASSUME IsInjective(list), NEW i \in 1..n, NEW j \in 1..n, kept[i] = kept[j]
      PROVE  i = j
  <2>1. f[i] = f[j]
      BY <1>2, <1>3, <1>7 DEF IsInjective
  <2>2. i < j => f[i] < f[j]
      BY <1>2 DEF Increasing
  <2>3. j < i => f[j] < f[i]
      BY <1>2 DEF Increasing
  <2>4. f[i] \in Nat /\ f[j] \in Nat /\ i \in Int /\ j \in Int
      BY <1>1, <1>3
  <2>5. QED
      BY <2>1, <2>2, <2>3, <2>4
<1>8. IsInjective(list) => IsInjective(kept)
    BY <1>4, <1>7 DEF IsInjective
<1>9. QED
    BY <1>5, <1>6, <1>8 DEF kept

\* A list all of whose places are kept is as it was.
LEMMA KeepAtAll ==
    ASSUME NEW D, NEW list \in Seq(D)
    PROVE  KeepAt(list, DOMAIN list) = list
<1> DEFINE m == Len(list)
<1>0. PICK P \in SUBSET DOMAIN list : P = DOMAIN list
    OBVIOUS
<1>1. m \in Nat /\ P = 1..m
    BY <1>0
<1> HIDE DEF m
<1>2. PICK f \in [1..Cardinality(P) -> P] :
         /\ Increasing(f)
         /\ \A p \in P : \E k \in 1..Cardinality(P) : f[k] = p
         /\ KeepAt(list, P) = [k \in 1..Cardinality(P) |-> list[f[k]]]
    BY KeepAtFrom
<1>3. Cardinality(P) = m
  <2>1. Cardinality(1..m) = m
      BY <1>1, FS_Interval
  <2>2. QED
      BY <1>1, <2>1
<1>4. /\ f \in [1..m -> 1..m]
      /\ Increasing(f)
      /\ \A p \in 1..m : \E k \in 1..m : f[k] = p
      /\ KeepAt(list, P) = [k \in 1..m |-> list[f[k]]]
    BY <1>1, <1>2, <1>3
<1>5. \A k \in 1..m : f[k] = k
  <2> DEFINE Off == {k \in 1..m : f[k] # k}
  <2> SUFFICES ASSUME Off # {} PROVE FALSE
      OBVIOUS
  <2>1. PICK k \in Off : \A l \in Off : k <= l
    <3>1. Off \subseteq Nat
        BY <1>1
    <3>2. QED
        BY <3>1, Least
  <2>2. /\ k \in 1..m /\ f[k] # k /\ f[k] \in 1..m
        /\ \A l \in 1..m : l < k => f[l] = l
    <3>1. k \in 1..m /\ f[k] # k
        OBVIOUS
    <3>2. ASSUME NEW l \in 1..m, l < k PROVE f[l] = l
      <4>1. ~(k <= l)
          BY <1>1, <3>1, <3>2
      <4>2. l \notin Off
          BY <2>1, <4>1
      <4>3. QED
          BY <4>2
    <3>3. f[k] \in 1..m
        BY <1>4, <3>1
    <3>4. QED
        BY <3>1, <3>2, <3>3
  <2>3. CASE f[k] < k
    <3>1. f[f[k]] < f[k]
        BY <1>4, <2>2, <2>3 DEF Increasing
    <3>2. f[f[k]] = f[k]
        BY <2>2, <2>3
    <3>3. QED
        BY <1>1, <2>2, <3>1, <3>2
  <2>4. CASE k < f[k]
    <3>1. PICK l \in 1..m : f[l] = k
        BY <1>4, <2>2
    <3>2. ~(l < k) /\ l # k
        BY <1>1, <2>2, <3>1
    <3>3. k < l
        BY <1>1, <2>2, <3>2
    <3>4. f[k] < f[l]
        BY <1>4, <2>2, <3>3 DEF Increasing
    <3>5. QED
        BY <1>1, <2>2, <2>4, <3>1, <3>4
  <2>5. QED
      BY <1>1, <2>2, <2>3, <2>4
<1>6. list = [k \in 1..m |-> list[k]]
    BY <1>0, <1>1 DEF m
<1>7. QED
    BY <1>0, <1>4, <1>5, <1>6

\* A list without what was taken.
LEMMA WithoutProps ==
    ASSUME NEW D, NEW list \in Seq(D), NEW taken
    PROVE  /\ Without(list, taken) \in Seq(D)
           /\ ToSet(Without(list, taken)) = ToSet(list) \ taken
           /\ IsInjective(list) => IsInjective(Without(list, taken))
           /\ ToSet(list) \cap taken = {} => Without(list, taken) = list
<1> DEFINE P == {i \in DOMAIN list : list[i] \notin taken}
<1>1. P \in SUBSET DOMAIN list
    OBVIOUS
<1>2. /\ KeepAt(list, P) \in Seq(D)
      /\ ToSet(KeepAt(list, P)) = {list[p] : p \in P}
      /\ IsInjective(list) => IsInjective(KeepAt(list, P))
    BY <1>1, KeepAtProps
<1>3. {list[p] : p \in P} = ToSet(list) \ taken
    BY DEF ToSet
<1>4. ASSUME ToSet(list) \cap taken = {} PROVE KeepAt(list, P) = list
  <2>1. P = DOMAIN list
      BY <1>4 DEF ToSet
  <2>2. QED
      BY <2>1, KeepAtAll
<1>5. QED
    BY <1>2, <1>3, <1>4 DEF Without
=============================================================================
