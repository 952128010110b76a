--------------------------- MODULE MCVaultSession ---------------------------
(***************************************************************************)
(* Small instances of VaultSession for TLC.  Threads, roots and ids are    *)
(* model values given in the cfg; only the configs are built here.         *)
(***************************************************************************)
EXTENDS VaultSession, TLC

Cfg(m, s) == [mode |-> m, storage |-> s, note |-> "a"]

\* An ordinary vault, and one that wants a password to close.
TwoModes == {Cfg("session_ram", "encrypted_dir"), Cfg("always_prompt", "encrypted_dir")}

\* The same and one in a storage mode that cannot be opened, with another note.
ThreeConfigs ==
    TwoModes \cup {[Cfg("session_ram", "upriv_plain") EXCEPT !.note = "b"]}

\* The mobile library runs any handler on any thread.
ThreadSymmetry == Permutations(Threads)
=============================================================================
