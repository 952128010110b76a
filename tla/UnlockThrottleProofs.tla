------------------------ MODULE UnlockThrottleProofs ------------------------
(***************************************************************************)
(* The throttle keeps its rate for every window, block, limit, set of      *)
(* vaults and bound on time.                                               *)
(***************************************************************************)
EXTENDS UnlockThrottle, FiniteSetTheorems, TLAPS

\* The wrong passwords of a vault come in the order of the clock.
Ordered(v) ==
    /\ \A i \in 1..Len(guesses[v]) : guesses[v][i] <= now
    /\ \A i, j \in 1..Len(guesses[v]) : i <= j => guesses[v][i] <= guesses[v][j]

\* failures holds fewer than Limit guesses: all those from some point on.
LatestFew(v) ==
    /\ failures[v] \subseteq 1..Len(guesses[v])
    /\ \A i \in failures[v], j \in 1..Len(guesses[v]) : i <= j => j \in failures[v]
    /\ Cardinality(failures[v]) < Limit

\* What failures does not hold is out of the window, or will be when the block ends.
OthersAreOld(v) ==
    \A i \in 1..Len(guesses[v]) \ failures[v] :
        IF blockedUntil[v] = 0 THEN guesses[v][i] + Window <= now
                               ELSE guesses[v][i] + Window <= blockedUntil[v]

\* A block stands alone: no failures beside it, no unlock under way.
BlockIsAlone(v) ==
    blockedUntil[v] # 0 => failures[v] = {} /\ attempt # v

Throttled(v) ==
    Ordered(v) /\ LatestFew(v) /\ OthersAreOld(v) /\ BlockIsAlone(v)

Inv == TypeOK /\ (\A v \in Vaults : Throttled(v)) /\ AtMostLimit /\ BlockedOnlyAfterBurst

-----------------------------------------------------------------------------
\* A run of guesses i..n inside a set is no longer than the set.
LEMMA RunLength ==
    ASSUME NEW n \in Nat, NEW i \in 1..n, NEW S \in SUBSET (1..n), i..n \subseteq S
    PROVE  n - i + 1 <= Cardinality(S)
<1>1. IsFiniteSet(1..n)
  BY FS_Interval
<1>2. IsFiniteSet(S)
  BY <1>1, FS_Subset
<1>3. Cardinality(i..n) <= Cardinality(S)
  BY <1>2, FS_Subset
<1>4. Cardinality(i..n) = n - i + 1
  BY FS_Interval
<1> QED
  BY <1>3, <1>4

\* A set of at least k of the guesses up to n that is closed under later guesses holds
\* the last k of them.
LEMMA LastOnes ==
    ASSUME NEW n \in Nat, NEW k \in Nat \ {0}, NEW S \in SUBSET (1..n),
           \A i \in S, j \in 1..n : i <= j => j \in S,
           Cardinality(S) >= k
    PROVE  n >= k /\ n - k + 1 \in S
<1>1. IsFiniteSet(1..n) /\ Cardinality(1..n) = n
  BY FS_Interval
<1>2. IsFiniteSet(S) /\ Cardinality(S) <= n /\ Cardinality(S) \in Nat
  BY <1>1, FS_Subset, FS_CardinalityType
<1>3. n >= k
  BY <1>2
<1>4. n - k + 1 \in S
  <2> SUFFICES ASSUME n - k + 1 \notin S
               PROVE  FALSE
    OBVIOUS
  <2>1. S \subseteq (n - k + 2)..n
    BY <1>3
  <2>2. IsFiniteSet((n - k + 2)..n) /\ Cardinality((n - k + 2)..n) = k - 1
    <3>1. n - k + 2 \in Int /\ n \in Int
      BY <1>3
    <3>2. /\ IsFiniteSet((n - k + 2)..n)
          /\ Cardinality((n - k + 2)..n)
               = IF n - k + 2 > n THEN 0 ELSE n - (n - k + 2) + 1
      BY <3>1, FS_Interval
    <3> QED
      BY <1>3, <3>2
  <2>3. Cardinality(S) <= k - 1
    BY <2>1, <2>2, FS_Subset
  <2> QED
    BY <1>2, <2>3
<1> QED
  BY <1>3, <1>4

\* What retain and push leave is again the latest few guesses, all within the window.
LEMMA KeptGuesses ==
    ASSUME Inv, NEW v \in Vaults, attempt = v,
           NEW n, n = Len(guesses[v]), NEW kept, kept = Recent(v) \cup {n + 1}
    PROVE  /\ n \in Nat
           /\ guesses[v] \in Seq(Nat)
           /\ kept \in SUBSET (1..(n + 1))
           /\ \A i \in kept, j \in 1..(n + 1) : i <= j => j \in kept
           /\ \A i \in kept \ {n + 1} : guesses[v][i] + Window > now
           /\ \A i \in (1..n) \ kept : guesses[v][i] + Window <= now
           /\ blockedUntil[v] = 0
<1> USE ThrottleAssumption
<1>1. /\ now \in Nat /\ guesses[v] \in Seq(Nat) /\ n \in Nat
      /\ \A i \in 1..n : guesses[v][i] \in Nat
      /\ Ordered(v) /\ LatestFew(v) /\ OthersAreOld(v) /\ BlockIsAlone(v)
  BY DEF Inv, TypeOK, Throttled
<1>2. blockedUntil[v] = 0
  BY <1>1 DEF BlockIsAlone
<1>3. kept \in SUBSET (1..(n + 1))
  BY <1>1 DEF LatestFew, Recent
<1>4. ASSUME NEW i \in kept, NEW j \in 1..(n + 1), i <= j
      PROVE  j \in kept
  <2>1. CASE j = n + 1
    BY <2>1
  <2>2. CASE j # n + 1
    <3>0. i \in 1..(n + 1) /\ j \in 1..n
      BY <1>1, <1>3, <2>2
    <3>1. i \in Recent(v) /\ i \in 1..n /\ j \in 1..n
      <4>1. i # n + 1
        BY <1>1, <1>4, <3>0
      <4> QED
        BY <1>1, <3>0, <4>1
    <3>2. j \in failures[v]
      BY <1>1, <1>4, <3>1 DEF LatestFew, Recent
    <3>3. guesses[v][i] <= guesses[v][j]
      BY <1>1, <1>4, <3>1 DEF Ordered
    <3>4. now - guesses[v][i] < Window
      BY <3>1 DEF Recent
    <3>5. now - guesses[v][j] < Window
      <4>1. now \in Nat /\ Window \in Nat /\ guesses[v][i] \in Nat /\ guesses[v][j] \in Nat
        BY <1>1, <3>1
      <4> QED
        BY <3>3, <3>4, <4>1
    <3>6. j \in Recent(v)
      BY <3>2, <3>5 DEF Recent
    <3> QED
      BY <3>6
  <2> QED
    BY <2>1, <2>2
<1>5. ASSUME NEW i \in kept \ {n + 1}
      PROVE  guesses[v][i] + Window > now
  <2>1. i \in Recent(v) /\ i \in 1..n
    BY <1>1, <1>3
  <2> QED
    BY <1>1, <2>1 DEF Recent
<1>6. ASSUME NEW i \in (1..n) \ kept
      PROVE  guesses[v][i] + Window <= now
  <2>1. CASE i \in failures[v]
    BY <1>1, <2>1 DEF Recent
  <2>2. CASE i \notin failures[v]
    BY <1>1, <1>2, <2>2 DEF OthersAreOld
  <2> QED
    BY <2>1, <2>2
<1> QED
  BY <1>1, <1>2, <1>3, <1>4, <1>5, <1>6

\* A wrong password keeps the invariant of its vault.
LEMMA WrongKeepsVault ==
    ASSUME Inv, NEW v \in Vaults, Wrong(v)
    PROVE  /\ Throttled(v)'
           /\ \A i, j \in 1..Len(guesses'[v]) :
                  j = i + Limit => guesses'[v][j] >= guesses'[v][i] + Window
           /\ blockedUntil'[v] # 0 =>
                  LET n == Len(guesses'[v]) IN
                  /\ n >= Limit
                  /\ guesses'[v][n] < guesses'[v][n - Limit + 1] + Window
                  /\ blockedUntil'[v] = guesses'[v][n] + Block
<1> DEFINE n == Len(guesses[v])
           kept == Recent(v) \cup {n + 1}
           g == guesses[v]
           h == guesses'[v]
<1> USE ThrottleAssumption
<1>1. /\ n \in Nat
      /\ g \in Seq(Nat)
      /\ kept \in SUBSET (1..(n + 1))
      /\ \A i \in kept, j \in 1..(n + 1) : i <= j => j \in kept
      /\ \A i \in kept \ {n + 1} : g[i] + Window > now
      /\ \A i \in (1..n) \ kept : g[i] + Window <= now
      /\ blockedUntil[v] = 0
  BY KeptGuesses DEF Wrong
<1>2. /\ now \in Nat /\ now' = now /\ attempt' = NoVault
      /\ h = Append(g, now)
      /\ Ordered(v) /\ LatestFew(v) /\ AtMostLimit
  BY DEF Wrong, Inv, TypeOK, Throttled
<1>3. /\ Len(h) = n + 1
      /\ h[n + 1] = now
      /\ \A i \in 1..n : h[i] = g[i] /\ g[i] \in Nat
  BY <1>1, <1>2
<1>4. Ordered(v)'
  BY <1>1, <1>2, <1>3 DEF Ordered
<1>a. n \in Nat /\ n + 1 \in Nat /\ kept \subseteq 1..(n + 1) /\ Limit \in Nat \ {0}
  BY <1>1
<1>5. ASSUME NEW i \in 1..Len(h), NEW j \in 1..Len(h), j = i + Limit
      PROVE  h[j] >= h[i] + Window
  <2>1. CASE j = n + 1
    <3>1. i \in 1..n /\ i = n + 1 - Limit
      BY <1>1, <1>3, <1>5, <2>1
    <3>2. i \notin failures[v]
      <4> SUFFICES ASSUME i \in failures[v]
                   PROVE  FALSE
        OBVIOUS
      <4>1. i..n \subseteq failures[v] /\ failures[v] \in SUBSET (1..n)
        BY <1>1, <1>2, <3>1 DEF LatestFew
      <4>2. n - i + 1 <= Cardinality(failures[v])
        BY <1>1, <3>1, <4>1, RunLength
      <4>3. IsFiniteSet(failures[v])
        <5>0. \A k \in Nat : IsFiniteSet(1..k)
          BY FS_Interval
        <5>1. IsFiniteSet(1..n)
          BY <1>a, <5>0
        <5> QED
          BY <4>1, <5>1, FS_Subset
      <4>4. Cardinality(failures[v]) \in Nat
        BY <4>3, FS_CardinalityType
      <4> QED
        BY <1>1, <1>2, <3>1, <4>2, <4>4 DEF LatestFew
    <3>3. i \notin kept
      BY <1>1, <3>1, <3>2 DEF Recent
    <3> QED
      BY <1>1, <1>2, <1>3, <2>1, <3>1, <3>3
  <2>2. CASE j # n + 1
    <3>1. i \in 1..n /\ j \in 1..n
      <4>1. i \in 1..(n + 1) /\ j \in 1..(n + 1)
        BY <1>3, <1>5
      <4>2. j = i + Limit /\ j # n + 1
        BY <1>5, <2>2
      <4> HIDE DEF n
      <4> QED
        BY <1>a, <4>1, <4>2
    <3> QED
      BY <1>2, <1>3, <1>5, <3>1 DEF AtMostLimit
  <2> QED
    BY <2>1, <2>2
<1>6. CASE /\ Cardinality(kept) >= Limit
           /\ blockedUntil' = [blockedUntil EXCEPT ![v] = now + Block]
           /\ failures' = [failures EXCEPT ![v] = {}]
  <2>1. blockedUntil'[v] = now + Block /\ failures'[v] = {}
    BY <1>6 DEF Inv, TypeOK
  <2>2. n + 1 >= Limit /\ (n + 1) - Limit + 1 \in kept
    <3>1. Cardinality(kept) >= Limit
      BY <1>6
    <3> HIDE DEF n, kept
    <3> QED
      BY <1>1, <1>a, <3>1, LastOnes
  <2>3. h[n + 1] < h[(n + 1) - Limit + 1] + Window
    BY <1>1, <1>2, <1>3, <2>2
  <2>4. LatestFew(v)'
    BY <2>1, FS_EmptySet DEF LatestFew
  <2>5. OthersAreOld(v)'
    BY <1>1, <1>2, <1>3, <1>4, <2>1 DEF OthersAreOld, Ordered
  <2>6. BlockIsAlone(v)'
    BY <1>2, <2>1 DEF BlockIsAlone
  <2> QED
    BY <1>2, <1>3, <1>4, <1>5, <2>1, <2>2, <2>3, <2>4, <2>5, <2>6 DEF Throttled
<1>7. CASE /\ Cardinality(kept) < Limit
           /\ failures' = [failures EXCEPT ![v] = kept]
           /\ blockedUntil' = blockedUntil
  <2>1. blockedUntil'[v] = 0 /\ failures'[v] = kept
    BY <1>1, <1>7 DEF Inv, TypeOK
  <2>2. LatestFew(v)'
    BY <1>1, <1>3, <1>7, <2>1 DEF LatestFew
  <2>3. OthersAreOld(v)'
    BY <1>1, <1>2, <1>3, <2>1 DEF OthersAreOld
  <2>4. BlockIsAlone(v)'
    BY <2>1 DEF BlockIsAlone
  <2> QED
    BY <1>4, <1>5, <2>1, <2>2, <2>3, <2>4 DEF Throttled
<1> QED
  BY <1>6, <1>7 DEF Wrong

\* The facts about a vault depend on that vault's entries, the clock and the gate.
LEMMA SameVault ==
    ASSUME Inv, NEW v \in Vaults,
           now' \in Nat, now' >= now,
           guesses'[v] = guesses[v],
           failures'[v] = failures[v],
           blockedUntil'[v] = blockedUntil[v],
           blockedUntil[v] # 0 => attempt' # v
    PROVE  Throttled(v)'
<1>1. /\ Throttled(v) /\ now \in Nat /\ Window \in Nat
      /\ \A i \in 1..Len(guesses[v]) : guesses[v][i] \in Nat
  BY ThrottleAssumption DEF Inv, TypeOK
<1>2. Ordered(v)'
  BY <1>1 DEF Throttled, Ordered
<1>3. LatestFew(v)'
  BY <1>1 DEF Throttled, LatestFew
<1>4. OthersAreOld(v)'
  BY <1>1 DEF Throttled, OthersAreOld
<1>5. BlockIsAlone(v)'
  BY <1>1 DEF Throttled, BlockIsAlone
<1> QED
  BY <1>2, <1>3, <1>4, <1>5 DEF Throttled

\* A vault without guesses is in order.
LEMMA CleanVault ==
    ASSUME NEW v \in Vaults, guesses'[v] = <<>>, failures'[v] = {}, blockedUntil'[v] = 0
    PROVE  Throttled(v)'
<1>1. Cardinality({}) = 0 /\ Limit > 0
  BY FS_EmptySet, ThrottleAssumption
<1> QED
  BY <1>1 DEF Throttled, Ordered, LatestFew, OthersAreOld, BlockIsAlone

\* An unlock let through after a block starts from no failures, all of them being old.
LEMMA AllowKeepsVault ==
    ASSUME Inv, NEW v \in Vaults, Allow(v)
    PROVE  Throttled(v)'
<1>1. /\ Throttled(v) /\ now \in Nat /\ now' = now /\ Window \in Nat
      /\ guesses'[v] = guesses[v]
      /\ \A i \in 1..Len(guesses[v]) : guesses[v][i] \in Nat
      /\ blockedUntil[v] \in Nat /\ now >= blockedUntil[v]
      /\ blockedUntil'[v] = 0
      /\ failures'[v] = IF blockedUntil[v] = 0 THEN failures[v] ELSE {}
  BY ThrottleAssumption DEF Inv, TypeOK, Allow
<1>2. Ordered(v)'
  BY <1>1 DEF Throttled, Ordered
<1>3. LatestFew(v)'
  <2>1. Cardinality({}) = 0 /\ 0 < Limit
    BY FS_EmptySet, ThrottleAssumption
  <2> QED
    BY <1>1, <2>1 DEF Throttled, LatestFew
<1>4. OthersAreOld(v)'
  BY <1>1 DEF Throttled, OthersAreOld, BlockIsAlone
<1>5. BlockIsAlone(v)'
  BY <1>1 DEF BlockIsAlone
<1> QED
  BY <1>2, <1>3, <1>4, <1>5 DEF Throttled

\* The invariant is inductive.
LEMMA InvStep ==
    ASSUME Inv, [Next]_vars
    PROVE  Inv'
<1>1. TypeOK'
  <2>1. ASSUME NEW v \in Vaults, Allow(v)
        PROVE  TypeOK'
    BY <2>1 DEF Inv, TypeOK, Allow
  <2>2. ASSUME NEW v \in Vaults, Wrong(v)
        PROVE  TypeOK'
    <3> DEFINE kept == Recent(v) \cup {Len(guesses[v]) + 1}
    <3>1. /\ kept \in SUBSET Nat
          /\ Append(guesses[v], now) \in Seq(Nat)
          /\ now + Block \in Nat
      BY ThrottleAssumption DEF Inv, TypeOK, Recent
    <3>2. failures' = [failures EXCEPT ![v] = {}] \/ failures' = [failures EXCEPT ![v] = kept]
      BY <2>2 DEF Wrong
    <3>3. \/ blockedUntil' = [blockedUntil EXCEPT ![v] = now + Block]
          \/ blockedUntil' = blockedUntil
      BY <2>2 DEF Wrong
    <3>4. guesses' = [guesses EXCEPT ![v] = Append(guesses[v], now)]
      BY <2>2 DEF Wrong, Inv, TypeOK
    <3> HIDE DEF kept
    <3> QED
      BY <2>2, <3>1, <3>2, <3>3, <3>4 DEF Inv, TypeOK, Wrong
  <2>3. ASSUME NEW v \in Vaults, Right(v)
        PROVE  TypeOK'
    BY <2>3 DEF Inv, TypeOK, Right
  <2>4. CASE (\E v \in Vaults : GiveUp(v)) \/ Tick \/ Rest \/ UNCHANGED vars
    BY <2>4 DEF Inv, TypeOK, GiveUp, Tick, Rest, vars
  <2> QED
    BY <2>1, <2>2, <2>3, <2>4 DEF Next
<1>2. ASSUME NEW v \in Vaults, Wrong(v)
      PROVE  Inv'
  <2>1. ASSUME NEW u \in Vaults, u # v
        PROVE  /\ Throttled(u)'
               /\ guesses'[u] = guesses[u]
               /\ blockedUntil'[u] = blockedUntil[u]
    <3>1. /\ guesses'[u] = guesses[u] /\ failures'[u] = failures[u]
          /\ blockedUntil'[u] = blockedUntil[u]
          /\ now' = now /\ now \in Nat /\ attempt' # u
      BY <1>2, <2>1, ThrottleAssumption DEF Wrong, Inv, TypeOK
    <3> QED
      BY <3>1, SameVault
  <2>2. (\A u \in Vaults : Throttled(u))'
    BY <1>2, <2>1, WrongKeepsVault
  <2>3. AtMostLimit'
    BY <1>2, <2>1, WrongKeepsVault DEF AtMostLimit, Inv
  <2>4. BlockedOnlyAfterBurst'
    BY <1>2, <2>1, WrongKeepsVault DEF BlockedOnlyAfterBurst, Inv
  <2> QED
    BY <1>1, <2>2, <2>3, <2>4 DEF Inv
<1>3. ASSUME NEW v \in Vaults, Allow(v)
      PROVE  Inv'
  <2>1. ASSUME NEW u \in Vaults, u # v
        PROVE  Throttled(u)' /\ blockedUntil'[u] = blockedUntil[u]
    <3>1. /\ guesses'[u] = guesses[u] /\ failures'[u] = failures[u]
          /\ blockedUntil'[u] = blockedUntil[u]
          /\ now' = now /\ now \in Nat /\ attempt' # u
      BY <1>3, <2>1 DEF Allow, Inv, TypeOK
    <3> QED
      BY <3>1, SameVault
  <2>2. (\A u \in Vaults : Throttled(u))'
    BY <1>3, <2>1, AllowKeepsVault
  <2>3. guesses' = guesses /\ blockedUntil'[v] = 0
    BY <1>3 DEF Allow, Inv, TypeOK
  <2>4. AtMostLimit'
    BY <2>3 DEF AtMostLimit, Inv
  <2>5. BlockedOnlyAfterBurst'
    BY <2>1, <2>3 DEF BlockedOnlyAfterBurst, Inv
  <2> QED
    BY <1>1, <2>2, <2>4, <2>5 DEF Inv
<1>4. ASSUME NEW v \in Vaults, Right(v)
      PROVE  Inv'
  <2>1. guesses'[v] = <<>> /\ failures'[v] = {} /\ blockedUntil'[v] = 0
    BY <1>4 DEF Right, Inv, TypeOK
  <2>2. ASSUME NEW u \in Vaults, u # v
        PROVE  /\ Throttled(u)'
               /\ guesses'[u] = guesses[u]
               /\ blockedUntil'[u] = blockedUntil[u]
    <3>1. /\ guesses'[u] = guesses[u] /\ failures'[u] = failures[u]
          /\ blockedUntil'[u] = blockedUntil[u]
          /\ now' = now /\ now \in Nat /\ attempt' # u
      BY <1>4, <2>2, ThrottleAssumption DEF Right, Inv, TypeOK
    <3> QED
      BY <3>1, SameVault
  <2>3. (\A u \in Vaults : Throttled(u))'
    BY <2>1, <2>2, CleanVault
  <2>4. AtMostLimit'
    BY <2>1, <2>2 DEF AtMostLimit, Inv
  <2>5. BlockedOnlyAfterBurst'
    BY <2>1, <2>2 DEF BlockedOnlyAfterBurst, Inv
  <2> QED
    BY <1>1, <2>3, <2>4, <2>5 DEF Inv
<1>5. CASE (\E v \in Vaults : GiveUp(v)) \/ Tick \/ Rest \/ UNCHANGED vars
  <2>1. /\ guesses' = guesses /\ failures' = failures /\ blockedUntil' = blockedUntil
        /\ now \in Nat /\ now' \in Nat /\ now' >= now
        /\ attempt' \in {attempt, NoVault}
    BY <1>5 DEF GiveUp, Tick, Rest, vars, Inv, TypeOK
  <2>2. \A u \in Vaults : blockedUntil[u] # 0 => attempt' # u
    BY <2>1, ThrottleAssumption DEF Inv, Throttled, BlockIsAlone
  <2>3. (\A u \in Vaults : Throttled(u))'
    BY <2>1, <2>2, SameVault
  <2>4. AtMostLimit' /\ BlockedOnlyAfterBurst'
    BY <2>1 DEF AtMostLimit, BlockedOnlyAfterBurst, Inv
  <2> QED
    BY <1>1, <2>3, <2>4 DEF Inv
<1> QED
  BY <1>2, <1>3, <1>4, <1>5 DEF Next

\* The invariant holds in every reachable state.
THEOREM InvCorrect == Spec => []Inv
<1>1. Init => Inv
  <2> SUFFICES ASSUME Init
               PROVE  Inv
    OBVIOUS
  <2>1. TypeOK /\ AtMostLimit /\ BlockedOnlyAfterBurst
    BY DEF Init, TypeOK, AtMostLimit, BlockedOnlyAfterBurst
  <2>2. Cardinality({}) = 0 /\ 0 < Limit
    BY FS_EmptySet, ThrottleAssumption
  <2>3. \A v \in Vaults : Throttled(v)
    BY <2>2 DEF Init, Throttled, Ordered, LatestFew, OthersAreOld, BlockIsAlone
  <2> QED
    BY <2>1, <2>3 DEF Inv
<1>2. Inv /\ [Next]_vars => Inv'
  BY InvStep
<1> QED
  BY <1>1, <1>2, PTL DEF Spec

\* Failures, blocks and the clock keep their types.
THEOREM ThrottleTypeCorrect == Spec => []TypeOK
<1>1. Inv => TypeOK
  BY DEF Inv
<1> QED
  BY <1>1, InvCorrect, PTL

\* A vault never takes more than Limit wrong passwords in less than Window
\* (session/mod.rs:253, record_unlock_failure).
THEOREM RateIsLimited == Spec => []AtMostLimit
<1>1. Inv => AtMostLimit
  BY DEF Inv
<1> QED
  BY <1>1, InvCorrect, PTL

\* Nothing but a burst of Limit wrong passwords blocks a vault, and for Block exactly
\* (session/mod.rs:262, blocked_until).
THEOREM BlocksAreEarned == Spec => []BlockedOnlyAfterBurst
<1>1. Inv => BlockedOnlyAfterBurst
  BY DEF Inv
<1> QED
  BY <1>1, InvCorrect, PTL

=============================================================================
