--------------------------- MODULE UnlockThrottle ---------------------------
(***************************************************************************)
(* The in-process unlock throttle of upriv-core (session/mod.rs): Limit    *)
(* wrong passwords for a vault within Window block its unlocks for Block.  *)
(*                                                                         *)
(* vault_open calls it twice under the unlock gate, before Argon2          *)
(* (check_unlock_allowed) and after it (record_unlock_failure or           *)
(* record_unlock_success), and time passes in between.  Each call reads    *)
(* the clock once.  The window is kept per failure, not per interval.      *)
(***************************************************************************)
EXTENDS Integers, Sequences, FiniteSets

CONSTANTS
    Vaults,         \* vault directories, the keys of THROTTLE
    NoVault,        \* no unlock holds the gate
    Window,         \* FAILURE_WINDOW, in ticks
    Block,          \* BLOCK_DURATION, in ticks
    Limit,          \* FAILURES_BEFORE_BLOCK
    MaxTime         \* bound: the last tick of a behaviour

ASSUME ThrottleAssumption ==
    /\ NoVault \notin Vaults
    /\ Window \in Nat \ {0}
    /\ Limit \in Nat \ {0}
    /\ Block \in Nat /\ Block >= Window
    /\ MaxTime \in Nat

VARIABLES
    now,            \* Instant::now()
    guesses,        \* history: vault -> times of its wrong passwords since a right one
    failures,       \* vault -> which of these guesses UnlockThrottle.failures holds
    blockedUntil,   \* vault -> blocked_until, 0 when it is None
    attempt         \* the vault being unlocked under the gate, or NoVault

vars == <<now, guesses, failures, blockedUntil, attempt>>

TypeOK ==
    /\ now \in Nat
    /\ guesses \in [Vaults -> Seq(Nat)]
    /\ failures \in [Vaults -> SUBSET Nat]
    /\ blockedUntil \in [Vaults -> Nat]
    /\ attempt \in Vaults \cup {NoVault}

Init ==
    /\ now = 0
    /\ guesses = [v \in Vaults |-> <<>>]
    /\ failures = [v \in Vaults |-> {}]
    /\ blockedUntil = [v \in Vaults |-> 0]
    /\ attempt = NoVault

\* Mutant: a block that has run out is not forgotten.
AllowKeepingBlock(v) ==
    /\ attempt = NoVault
    /\ now >= blockedUntil[v]
    /\ attempt' = v
    /\ UNCHANGED <<now, guesses, failures, blockedUntil>>

\* check_unlock_allowed lets the unlock through (a refusal changes nothing); a block
\* that has run out is forgotten together with the failures.
Allow(v) ==
    /\ attempt = NoVault
    /\ now >= blockedUntil[v]
    /\ blockedUntil' = [blockedUntil EXCEPT ![v] = 0]
    /\ failures' = [failures EXCEPT ![v] = IF blockedUntil[v] = 0 THEN @ ELSE {}]
    /\ attempt' = v
    /\ UNCHANGED <<now, guesses>>

\* The failures that retain keeps: those younger than the window.
Recent(v) == {g \in failures[v] : now - guesses[v][g] < Window}

\* Mutant: > in place of >=.
WrongOneTooMany(v) ==
    LET kept == Recent(v) \cup {Len(guesses[v]) + 1} IN
    /\ attempt = v
    /\ guesses' = [guesses EXCEPT ![v] = Append(@, now)]
    /\ \/ /\ Cardinality(kept) > Limit
          /\ blockedUntil' = [blockedUntil EXCEPT ![v] = now + Block]
          /\ failures' = [failures EXCEPT ![v] = {}]
       \/ /\ Cardinality(kept) <= Limit
          /\ failures' = [failures EXCEPT ![v] = kept]
          /\ UNCHANGED blockedUntil
    /\ attempt' = NoVault
    /\ UNCHANGED now

\* Mutant: a block that ends before it begins.
WrongBlockingBackwards(v) ==
    LET kept == Recent(v) \cup {Len(guesses[v]) + 1} IN
    /\ attempt = v
    /\ guesses' = [guesses EXCEPT ![v] = Append(@, now)]
    /\ blockedUntil' = [blockedUntil EXCEPT ![v] =
                          IF Cardinality(kept) >= Limit THEN now - Block ELSE @]
    /\ failures' = [failures EXCEPT ![v] = IF Cardinality(kept) >= Limit THEN {} ELSE kept]
    /\ attempt' = NoVault
    /\ UNCHANGED now

\* record_unlock_failure: retain, push, and block at the limit.
Wrong(v) ==
    LET kept == Recent(v) \cup {Len(guesses[v]) + 1} IN
    /\ attempt = v
    /\ guesses' = [guesses EXCEPT ![v] = Append(@, now)]
    /\ \/ /\ Cardinality(kept) >= Limit
          /\ blockedUntil' = [blockedUntil EXCEPT ![v] = now + Block]
          /\ failures' = [failures EXCEPT ![v] = {}]
       \/ /\ Cardinality(kept) < Limit
          /\ failures' = [failures EXCEPT ![v] = kept]
          /\ UNCHANGED blockedUntil
    /\ attempt' = NoVault
    /\ UNCHANGED now

\* record_unlock_success removes the entry.
Right(v) ==
    /\ attempt = v
    /\ guesses' = [guesses EXCEPT ![v] = <<>>]
    /\ failures' = [failures EXCEPT ![v] = {}]
    /\ blockedUntil' = [blockedUntil EXCEPT ![v] = 0]
    /\ attempt' = NoVault
    /\ UNCHANGED now

\* The unlock ends without a verdict on the password: the vault is open already, its
\* config or header cannot be read.
GiveUp(v) ==
    /\ attempt = v
    /\ attempt' = NoVault
    /\ UNCHANGED <<now, guesses, failures, blockedUntil>>

\* The clock moves on at any time, during Argon2 too.
Tick ==
    /\ now < MaxTime
    /\ now' = now + 1
    /\ UNCHANGED <<guesses, failures, blockedUntil, attempt>>

\* The end of the bounded time: whatever is blocked stays so.
Rest ==
    /\ now = MaxTime
    /\ UNCHANGED vars

Next ==
    \/ \E v \in Vaults : Allow(v) \/ Wrong(v) \/ Right(v) \/ GiveUp(v)
    \/ Tick
    \/ Rest

Spec == Init /\ [][Next]_vars

-----------------------------------------------------------------------------
\* PROPERTIES

\* No stretch of time shorter than Window holds more than Limit wrong passwords for a
\* vault, across the expiry of failures and of blocks (session/mod.rs:253-268).
AtMostLimit ==
    \A v \in Vaults : \A i, j \in 1..Len(guesses[v]) :
        j = i + Limit => guesses[v][j] >= guesses[v][i] + Window

\* A vault is blocked only by Limit wrong passwords within one window, and for exactly
\* Block after the last of them: slower typos never lock an owner out, and refused
\* unlocks never prolong a block (session/mod.rs:230-245 and :253-268).
BlockedOnlyAfterBurst ==
    \A v \in Vaults : blockedUntil[v] # 0 =>
        LET n == Len(guesses[v]) IN
        /\ n >= Limit
        /\ guesses[v][n] < guesses[v][n - Limit + 1] + Window
        /\ blockedUntil[v] = guesses[v][n] + Block

=============================================================================
