-------------------------- MODULE SessionLifecycle --------------------------
(***************************************************************************)
(* What the session registry of upriv-core promises about the decrypted    *)
(* keys of a vault, without threads, locks or files.                       *)
(*                                                                         *)
(* A session is the key material one successful unlock put in RAM.  It is  *)
(* born live, a close takes it out of the registry to flush it (draining), *)
(* and from there it is sealed (the flush was persisted), restored (the    *)
(* close was refused or its flush failed) or, when a newer session of the  *)
(* same vault is already live, discarded.  Nothing else may happen to it.  *)
(***************************************************************************)
EXTENDS Naturals

CONSTANTS Vaults    \* the vault directories, the keys of the registry

VARIABLES
    live,           \* vault -> its session in the registry, 0 when it has none
    draining,       \* <<session, vault>> pairs taken out by a running close
    sealed,         \* sessions whose close persisted their flush
    born            \* number of sessions unlocked so far; a session is its rank

vars == <<live, draining, sealed, born>>

TypeOK ==
    /\ live \in [Vaults -> Nat]
    /\ draining \in SUBSET (Nat \X Vaults)
    /\ sealed \in SUBSET Nat
    /\ born \in Nat

Init ==
    /\ live = [v \in Vaults |-> 0]
    /\ draining = {}
    /\ sealed = {}
    /\ born = 0

\* A correct password makes a new session, never while the vault has a live one.
Unlock(v) ==
    /\ live[v] = 0
    /\ born' = born + 1
    /\ live' = [live EXCEPT ![v] = born + 1]
    /\ UNCHANGED <<draining, sealed>>

\* A close takes the live session.
Drain(v) ==
    /\ live[v] # 0
    /\ draining' = draining \cup {<<live[v], v>>}
    /\ live' = [live EXCEPT ![v] = 0]
    /\ UNCHANGED <<sealed, born>>

\* The close gives it back, never over a newer live session.
Restore(s, v) ==
    /\ <<s, v>> \in draining
    /\ live[v] = 0
    /\ live' = [live EXCEPT ![v] = s]
    /\ draining' = draining \ {<<s, v>>}
    /\ UNCHANGED <<sealed, born>>

\* The close persisted the flush: the keys are gone for good.
Seal(s, v) ==
    /\ <<s, v>> \in draining
    /\ sealed' = sealed \cup {s}
    /\ draining' = draining \ {<<s, v>>}
    /\ UNCHANGED <<live, born>>

\* An unflushed session is dropped only where another one keeps the vault open.
Discard(s, v) ==
    /\ <<s, v>> \in draining
    /\ live[v] # 0
    /\ draining' = draining \ {<<s, v>>}
    /\ UNCHANGED <<live, sealed, born>>

\* The process ends: everything held in RAM is gone.
Exit ==
    /\ live' = [v \in Vaults |-> 0]
    /\ draining' = {}
    /\ UNCHANGED <<sealed, born>>

Next ==
    \/ \E v \in Vaults : Unlock(v) \/ Drain(v)
    \/ \E sv \in draining :
          \/ Restore(sv[1], sv[2])
          \/ Seal(sv[1], sv[2])
          \/ Discard(sv[1], sv[2])
    \/ Exit

Spec == Init /\ [][Next]_vars

(***************************************************************************)
(* A sealed session never comes back: once close_vault has persisted the   *)
(* flush, its keys are neither in the registry nor in the hands of a close.*)
(***************************************************************************)
SealedIsFinal ==
    /\ \A v \in Vaults : live[v] \notin sealed
    /\ \A sv \in draining : sv[1] \notin sealed

=============================================================================
