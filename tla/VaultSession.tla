---------------------------- MODULE VaultSession ----------------------------
(***************************************************************************)
(* The session core of upriv-core (session/mod.rs, vault/open_close.rs,    *)
(* vault/create.rs, config/edit_policy.rs) as the threads of one process   *)
(* run it: unlock, close and create a vault, save its config, switch the   *)
(* vault-root.  Each handler is cut where it takes or drops a mutex, reads *)
(* a process-wide static or touches the disk.                              *)
(*                                                                         *)
(* Two hosts run this code.  The desktop daemon has one worker thread for  *)
(* vault_open and vault_create and one stdin thread for everything else;   *)
(* the mobile library dispatches any RPC on the thread that calls it.  A   *)
(* host is a choice of HeavyThreads and LightThreads.                      *)
(***************************************************************************)
EXTENDS Naturals, FiniteSets

CONSTANTS
    Roots,          \* the vault-root folders a user may point Upriv at
    Ids,            \* vault ids
    Threads,        \* threads that may run a handler
    HeavyThreads,   \* those that take vault_open and vault_create
    LightThreads,   \* those that take every other RPC
    NoThread,       \* a mutex nobody holds
    Configs,        \* the vault configs callers save
    Faults,         \* what may go wrong: see FaultKinds
    MaxCalls,       \* bound: RPCs made in a behaviour
    MaxBoots        \* bound: times the process is started again

FaultKinds ==
    { "io",         \* a read or write of a handler fails
      "cleanup",    \* remove_dir_all of a failed create fails as well
      "panic",      \* the code under the unlock gate panics
      "exit" }      \* the process dies (quit, crash, kill) and is started again

\* [security] mode after normalisation: only always_prompt behaves differently.
SecurityModes == {"session_ram", "always_prompt"}
StorageModes == {"encrypted_dir", "upriv_plain"}
ConfigSpace == [mode : SecurityModes, storage : StorageModes, note : {"a", "b"}]

ASSUME SessionAssumption ==
    /\ Roots # {} /\ Ids # {}
    /\ HeavyThreads \subseteq Threads
    /\ LightThreads \subseteq Threads
    /\ NoThread \notin Threads
    /\ Configs \subseteq ConfigSpace
    /\ Faults \subseteq FaultKinds
    /\ MaxCalls \in Nat
    /\ MaxBoots \in Nat

Dirs == Roots \X Ids                      \* <root>/.upriv/vaults/<id>

NoSession == [gen |-> 0, mode |-> "session_ram"]
NoConfig == [mode |-> "none", storage |-> "none", note |-> "none"]
NoVault == [exists |-> FALSE, config |-> NoConfig, seeded |-> FALSE, persisted |-> FALSE]

\* An OpenSession: which unlock made it, and the security mode read at unlock.
Session == [gen : Nat, mode : SecurityModes]
\* A vault folder: config.toml, the seeded contents/, persistence.json.
VaultOnDisk == [exists : BOOLEAN, config : ConfigSpace \cup {NoConfig},
                seeded : BOOLEAN, persisted : BOOLEAN]

VARIABLES
    sessions,       \* SESSIONS: vault directory -> session, or NoSession
    closing,        \* CLOSING: the directories marked mid-close
    gate,           \* UNLOCK_GATE: the thread that holds it, or NoThread
    poisoned,       \* UNLOCK_GATE was held by a thread that panicked
    dirGates,       \* VAULT_DIR_GATES: directory -> holder
    badDirs,        \* directories whose gate is poisoned
    disk,           \* directory -> vault folder
    root,           \* the vault-root discover_bootstrap_root finds
    pc,             \* thread -> where its handler is
    req,            \* thread -> the request it serves
    seen,           \* thread -> the config its handler has loaded
    hand,           \* thread -> the session its close has taken
    born,           \* number of unlocks that made a session
    sealed,         \* history: sessions whose close persisted their flush
    calls,          \* number of RPCs made (bounded by MaxCalls)
    boots           \* number of restarts (bounded by MaxBoots)

ram == <<sessions, closing, born>>
locks == <<gate, poisoned, dirGates, badDirs>>
stores == <<disk, root, sealed>>
bounds == <<calls, boots>>
vars == <<ram, locks, stores, pc, req, seen, hand, bounds>>

Labels ==
    { "idle",
      "open_gate", "open_check", "open_load", "open_kdf", "open_insert",
      "create_dir", "create_config", "create_gate", "create_kdf",
      "create_persist", "create_cleanup",
      "close_mark", "close_take", "close_flush", "close_restore", "close_unmark",
      "probe_sessions", "probe_closing", "probe_gate", "save_write", "setup_write" }

\* What a handler was called with, and how many sessions had been born by then.
Request == [kind : {"none", "open", "create", "close", "save", "setup"},
            dir : Dirs, pass : BOOLEAN, config : ConfigSpace \cup {NoConfig},
            goal : Roots, since : Nat]

NoRequest == [kind |-> "none", dir |-> CHOOSE d \in Dirs : TRUE, pass |-> FALSE,
              config |-> NoConfig, goal |-> CHOOSE r \in Roots : TRUE, since |-> 0]

TypeOK ==
    /\ sessions \in [Dirs -> Session]
    /\ closing \in SUBSET Dirs
    /\ gate \in Threads \cup {NoThread}
    /\ poisoned \in BOOLEAN
    /\ dirGates \in [Dirs -> Threads \cup {NoThread}]
    /\ badDirs \in SUBSET Dirs
    /\ disk \in [Dirs -> VaultOnDisk]
    /\ root \in Roots
    /\ pc \in [Threads -> Labels]
    /\ req \in [Threads -> Request]
    /\ seen \in [Threads -> ConfigSpace \cup {NoConfig}]
    /\ hand \in [Threads -> Session]
    /\ born \in Nat
    /\ sealed \in SUBSET Nat
    /\ calls \in Nat
    /\ boots \in Nat

IsOpenAt(d) == sessions[d].gen # 0

\* A vault folder on which an earlier create ran to its end.
Whole(c) == [exists |-> TRUE, config |-> c, seeded |-> TRUE, persisted |-> TRUE]

Init ==
    /\ sessions = [d \in Dirs |-> NoSession]
    /\ closing = {}
    /\ gate = NoThread
    /\ poisoned = FALSE
    /\ dirGates = [d \in Dirs |-> NoThread]
    /\ badDirs = {}
    /\ disk \in [Dirs -> {NoVault} \cup {Whole(c) : c \in Configs}]
    /\ root \in Roots
    /\ pc = [t \in Threads |-> "idle"]
    /\ req = [t \in Threads |-> NoRequest]
    /\ seen = [t \in Threads |-> NoConfig]
    /\ hand = [t \in Threads |-> NoSession]
    /\ born = 0
    /\ sealed = {}
    /\ calls = 0
    /\ boots = 0

-----------------------------------------------------------------------------
\* Moving a handler along, starting it and ending it.

Goto(t, label) == pc' = [pc EXCEPT ![t] = label]

Begin(t, label, r) ==
    /\ pc[t] = "idle"
    /\ calls < MaxCalls
    /\ calls' = calls + 1
    /\ Goto(t, label)
    /\ req' = [req EXCEPT ![t] = r]

Reply(t) ==
    /\ Goto(t, "idle")
    /\ req' = [req EXCEPT ![t] = NoRequest]
    /\ seen' = [seen EXCEPT ![t] = NoConfig]

\* Most steps leave the bounds, and many leave the request alone.
Continue(t, label) ==
    /\ Goto(t, label)
    /\ UNCHANGED <<req, seen>>

May(fault) == fault \in Faults

-----------------------------------------------------------------------------
\* vault_open: require_vault_root and the directory check run before the gate.
OpenCall(t, i, right) ==
    LET d == <<root, i>> IN
    /\ t \in HeavyThreads
    /\ disk[d].exists
    /\ Begin(t, "open_gate", [NoRequest EXCEPT !.kind = "open", !.dir = d,
                                               !.pass = right, !.since = born])
    /\ UNCHANGED <<ram, locks, stores, seen, hand, boots>>

\* Mutant: into_inner() on a poisoned gate.
OpenEnterForgivingPoison(t) ==
    /\ pc[t] = "open_gate"
    /\ gate = NoThread
    /\ gate' = t
    /\ Continue(t, "open_check")
    /\ UNCHANGED <<ram, poisoned, dirGates, badDirs, stores, hand, bounds>>

\* with_unlock_lock; a poisoned gate is refused.
OpenEnter(t) ==
    /\ pc[t] = "open_gate"
    /\ gate = NoThread
    /\ \/ /\ poisoned
          /\ Reply(t)
          /\ UNCHANGED gate
       \/ /\ ~poisoned
          /\ gate' = t
          /\ Continue(t, "open_check")
    /\ UNCHANGED <<ram, poisoned, dirGates, badDirs, stores, hand, bounds>>

\* Mutant: a refused unlock goes away with the gate.
OpenCheckKeepingGate(t) ==
    /\ pc[t] = "open_check"
    /\ \/ Reply(t)
       \/ ~IsOpenAt(req[t].dir) /\ Continue(t, "open_load")
    /\ UNCHANGED <<ram, locks, stores, hand, bounds>>

\* check_unlock_allowed (the throttle may refuse), then is_vault_open_at.
OpenCheck(t) ==
    /\ pc[t] = "open_check"
    /\ \/ /\ Reply(t)
          /\ gate' = NoThread
       \/ /\ ~IsOpenAt(req[t].dir)
          /\ Continue(t, "open_load")
          /\ UNCHANGED gate
    /\ UNCHANGED <<ram, poisoned, dirGates, badDirs, stores, hand, bounds>>

\* Mutant: the session is built without the config that was loaded.
OpenLoadForgetful(t) ==
    /\ pc[t] = "open_load"
    /\ Continue(t, "open_kdf")
    /\ UNCHANGED <<ram, locks, stores, hand, bounds>>

\* load_vault_config; upriv_plain cannot be opened yet.
OpenLoad(t) ==
    LET c == disk[req[t].dir].config IN
    /\ pc[t] = "open_load"
    /\ \/ /\ c = NoConfig \/ c.storage = "upriv_plain" \/ May("io")
          /\ Reply(t)
          /\ gate' = NoThread
       \/ /\ c # NoConfig /\ c.storage # "upriv_plain"
          /\ seen' = [seen EXCEPT ![t] = c]
          /\ Goto(t, "open_kdf")
          /\ UNCHANGED <<req, gate>>
    /\ UNCHANGED <<ram, poisoned, dirGates, badDirs, stores, hand, bounds>>

\* open_store: Argon2, header unwrap, index.  Only the right password opens.
OpenKdf(t) ==
    /\ pc[t] = "open_kdf"
    /\ \/ /\ req[t].pass /\ disk[req[t].dir].seeded
          /\ Continue(t, "open_insert")
          /\ UNCHANGED gate
       \/ /\ ~req[t].pass \/ ~disk[req[t].dir].seeded \/ May("io")
          /\ Reply(t)
          /\ gate' = NoThread
    /\ UNCHANGED <<ram, poisoned, dirGates, badDirs, stores, hand, bounds>>

\* insert_session refuses a directory that has a session; the gate is dropped.
OpenInsert(t) ==
    LET d == req[t].dir IN
    /\ pc[t] = "open_insert"
    /\ \/ /\ IsOpenAt(d)
          /\ UNCHANGED <<sessions, born>>
       \/ /\ ~IsOpenAt(d)
          /\ born' = born + 1
          /\ sessions' = [sessions EXCEPT ![d] = [gen |-> born + 1, mode |-> seen[t].mode]]
    /\ gate' = NoThread
    /\ Reply(t)
    /\ UNCHANGED <<closing, poisoned, dirGates, badDirs, stores, hand, bounds>>

-----------------------------------------------------------------------------
\* vault_create: the config is checked before any lock is taken.
CreateCall(t, i, c) ==
    /\ t \in HeavyThreads
    /\ c.storage # "upriv_plain"
    /\ Begin(t, "create_dir", [NoRequest EXCEPT !.kind = "create", !.dir = <<root, i>>,
                                                !.config = c, !.since = born])
    /\ UNCHANGED <<ram, locks, stores, seen, hand, boots>>

\* Mutant: create_dir_all, which an existing folder satisfies.
CreateDirAll(t) ==
    LET d == req[t].dir IN
    /\ pc[t] = "create_dir"
    /\ dirGates[d] = NoThread
    /\ d \notin badDirs
    /\ dirGates' = [dirGates EXCEPT ![d] = t]
    /\ disk' = [disk EXCEPT ![d].exists = TRUE]
    /\ Continue(t, "create_config")
    /\ UNCHANGED <<ram, gate, poisoned, badDirs, root, sealed, hand, bounds>>

\* with_vault_dir_lock, then create_dir: an existing folder is refused.
CreateDir(t) ==
    LET d == req[t].dir IN
    /\ pc[t] = "create_dir"
    /\ dirGates[d] = NoThread
    /\ \/ /\ d \in badDirs \/ disk[d].exists \/ May("io")
          /\ Reply(t)
          /\ UNCHANGED <<dirGates, disk>>
       \/ /\ d \notin badDirs
          /\ ~disk[d].exists
          /\ dirGates' = [dirGates EXCEPT ![d] = t]
          /\ disk' = [disk EXCEPT ![d].exists = TRUE]
          /\ Continue(t, "create_config")
    /\ UNCHANGED <<ram, gate, poisoned, badDirs, root, sealed, hand, bounds>>

CreateConfig(t) ==
    /\ pc[t] = "create_config"
    /\ \/ /\ disk' = [disk EXCEPT ![req[t].dir].config = req[t].config]
          /\ Continue(t, "create_gate")
       \/ /\ May("io")
          /\ Continue(t, "create_cleanup")
          /\ UNCHANGED disk
    /\ UNCHANGED <<ram, locks, root, sealed, hand, bounds>>

\* Mutant: the seeding Argon2 runs beside the gate.
CreateEnterUngated(t) ==
    /\ pc[t] = "create_gate"
    /\ Continue(t, "create_kdf")
    /\ UNCHANGED <<ram, locks, stores, hand, bounds>>

\* The same Argon2 gate as vault_open, taken inside the directory gate.
CreateEnter(t) ==
    /\ pc[t] = "create_gate"
    /\ gate = NoThread
    /\ \/ /\ poisoned
          /\ Continue(t, "create_cleanup")
          /\ UNCHANGED gate
       \/ /\ ~poisoned
          /\ gate' = t
          /\ Continue(t, "create_kdf")
    /\ UNCHANGED <<ram, poisoned, dirGates, badDirs, stores, hand, bounds>>

\* Mutant: ? on the seeding, which skips the cleanup of the folder.
CreateSeedQuestionMark(t) ==
    LET d == req[t].dir IN
    /\ pc[t] = "create_kdf"
    /\ gate' = NoThread
    /\ \/ /\ disk' = [disk EXCEPT ![d].seeded = TRUE]
          /\ Continue(t, "create_persist")
          /\ UNCHANGED dirGates
       \/ /\ May("io")
          /\ dirGates' = [dirGates EXCEPT ![d] = NoThread]
          /\ Reply(t)
          /\ UNCHANGED disk
    /\ UNCHANGED <<ram, poisoned, badDirs, root, sealed, hand, bounds>>

\* create_seeded_store, and the gate is dropped with its result.
CreateSeed(t) ==
    /\ pc[t] = "create_kdf"
    /\ gate' = NoThread
    /\ \/ /\ disk' = [disk EXCEPT ![req[t].dir].seeded = TRUE]
          /\ Continue(t, "create_persist")
       \/ /\ May("io")
          /\ Continue(t, "create_cleanup")
          /\ UNCHANGED disk
    /\ UNCHANGED <<ram, poisoned, dirGates, badDirs, root, sealed, hand, bounds>>

\* backups/, content_hash, persistence.json; the directory gate is dropped.
CreatePersist(t) ==
    LET d == req[t].dir IN
    /\ pc[t] = "create_persist"
    /\ \/ /\ disk' = [disk EXCEPT ![d].persisted = TRUE]
          /\ dirGates' = [dirGates EXCEPT ![d] = NoThread]
          /\ Reply(t)
       \/ /\ May("io")
          /\ Continue(t, "create_cleanup")
          /\ UNCHANGED <<disk, dirGates>>
    /\ UNCHANGED <<ram, gate, poisoned, badDirs, root, sealed, hand, bounds>>

\* remove_dir_all of a create that failed; its own failure is ignored.
CreateCleanup(t) ==
    LET d == req[t].dir IN
    /\ pc[t] = "create_cleanup"
    /\ \/ disk' = [disk EXCEPT ![d] = NoVault]
       \/ May("cleanup") /\ UNCHANGED disk
    /\ dirGates' = [dirGates EXCEPT ![d] = NoThread]
    /\ Reply(t)
    /\ UNCHANGED <<ram, gate, poisoned, badDirs, root, sealed, hand, bounds>>

\* A panic under the gate is caught by the host; every held mutex is poisoned.
Panic(t) ==
    /\ May("panic")
    /\ pc[t] \in {"open_kdf", "create_kdf"}
    /\ gate' = NoThread
    /\ poisoned' = TRUE
    /\ dirGates' = [d \in Dirs |-> IF dirGates[d] = t THEN NoThread ELSE dirGates[d]]
    /\ badDirs' = badDirs \cup {d \in Dirs : dirGates[d] = t}
    /\ Reply(t)
    /\ UNCHANGED <<ram, stores, hand, bounds>>

-----------------------------------------------------------------------------
\* vault_close; given says whether a non-empty password came with it.
CloseCall(t, i, given) ==
    LET d == <<root, i>> IN
    /\ t \in LightThreads
    /\ disk[d].exists
    /\ Begin(t, "close_mark", [NoRequest EXCEPT !.kind = "close", !.dir = d,
                                                !.pass = given, !.since = born])
    /\ UNCHANGED <<ram, locks, stores, seen, hand, boots>>

\* Mutant: let _ = ClosingGuard::enter(..), which drops the guard at once.
CloseMarkDropped(t) ==
    /\ pc[t] = "close_mark"
    /\ Continue(t, "close_take")
    /\ UNCHANGED <<ram, locks, stores, hand, bounds>>

\* ClosingGuard::enter, before the session is taken.
CloseMark(t) ==
    /\ pc[t] = "close_mark"
    /\ closing' = closing \cup {req[t].dir}
    /\ Continue(t, "close_take")
    /\ UNCHANGED <<sessions, born, locks, stores, hand, bounds>>

\* Mutant: the early return for a vault that is not open skips the unmarking.
CloseTakeReturningEarly(t) ==
    LET d == req[t].dir IN
    /\ pc[t] = "close_take"
    /\ \/ /\ ~IsOpenAt(d)
          /\ Reply(t)
          /\ UNCHANGED <<sessions, hand>>
       \/ /\ IsOpenAt(d)
          /\ sessions' = [sessions EXCEPT ![d] = NoSession]
          /\ hand' = [hand EXCEPT ![t] = sessions[d]]
          /\ Continue(t, IF sessions[d].mode = "always_prompt" /\ ~req[t].pass
                            THEN "close_restore" ELSE "close_flush")
    /\ UNCHANGED <<closing, born, locks, stores, bounds>>

\* take_session; always_prompt wants a password to be present.
CloseTake(t) ==
    LET d == req[t].dir
        s == sessions[d]
    IN
    /\ pc[t] = "close_take"
    /\ \/ /\ ~IsOpenAt(d)
          /\ Continue(t, "close_unmark")
          /\ UNCHANGED <<sessions, hand>>
       \/ /\ IsOpenAt(d)
          /\ sessions' = [sessions EXCEPT ![d] = NoSession]
          /\ hand' = [hand EXCEPT ![t] = s]
          /\ IF s.mode = "always_prompt" /\ ~req[t].pass
               THEN Continue(t, "close_restore")
               ELSE Continue(t, "close_flush")
    /\ UNCHANGED <<closing, born, locks, stores, bounds>>

\* Mutant: the session is given back whether or not the flush failed.
CloseFlushFallingThrough(t) ==
    LET d == req[t].dir IN
    /\ pc[t] = "close_flush"
    /\ \/ /\ disk[d].exists /\ disk[d].seeded
          /\ disk' = [disk EXCEPT ![d].persisted = TRUE]
          /\ sealed' = sealed \cup {hand[t].gen}
       \/ UNCHANGED <<disk, sealed>>
    /\ Continue(t, "close_restore")
    /\ UNCHANGED <<ram, locks, root, hand, bounds>>

\* Reseal the index, hash the contents, write persistence.json.
CloseFlush(t) ==
    LET d == req[t].dir IN
    /\ pc[t] = "close_flush"
    /\ \/ /\ disk[d].exists /\ disk[d].seeded
          /\ disk' = [disk EXCEPT ![d].persisted = TRUE]
          /\ sealed' = sealed \cup {hand[t].gen}
          /\ hand' = [hand EXCEPT ![t] = NoSession]
          /\ Continue(t, "close_unmark")
       \/ /\ ~disk[d].exists \/ ~disk[d].seeded \/ May("io")
          /\ Continue(t, "close_restore")
          /\ UNCHANGED <<disk, sealed, hand>>
    /\ UNCHANGED <<ram, locks, root, bounds>>

\* Mutant: insert without the contains_key check.
CloseRestoreOverwriting(t) ==
    /\ pc[t] = "close_restore"
    /\ sessions' = [sessions EXCEPT ![req[t].dir] = hand[t]]
    /\ hand' = [hand EXCEPT ![t] = NoSession]
    /\ Continue(t, "close_unmark")
    /\ UNCHANGED <<closing, born, locks, stores, bounds>>

\* insert_session of what was taken; refused (and dropped) if the vault was
\* opened again in the meantime.
CloseRestore(t) ==
    LET d == req[t].dir IN
    /\ pc[t] = "close_restore"
    /\ sessions' = IF IsOpenAt(d) THEN sessions ELSE [sessions EXCEPT ![d] = hand[t]]
    /\ hand' = [hand EXCEPT ![t] = NoSession]
    /\ Continue(t, "close_unmark")
    /\ UNCHANGED <<closing, born, locks, stores, bounds>>

\* Drop of the ClosingGuard: CLOSING is a set, the mark goes whoever else set it.
CloseUnmark(t) ==
    /\ pc[t] = "close_unmark"
    /\ closing' = closing \ {req[t].dir}
    /\ Reply(t)
    /\ UNCHANGED <<sessions, born, locks, stores, hand, bounds>>

-----------------------------------------------------------------------------
\* The fields edit_policy refuses to change while the vault is busy.
Quiet(c) == <<c.mode, c.storage>>

\* vault_config_save: the current config is read first.
SaveCall(t, i, c) ==
    LET d == <<root, i>> IN
    /\ t \in LightThreads
    /\ disk[d].exists
    /\ disk[d].config # NoConfig
    /\ Begin(t, "probe_sessions", [NoRequest EXCEPT !.kind = "save", !.dir = d,
                                                    !.config = c, !.since = born])
    /\ seen' = [seen EXCEPT ![t] = disk[d].config]
    /\ UNCHANGED <<ram, locks, stores, hand, boots>>

\* vault_root_setup_path and vault_root_setup_default_root.
SetupCall(t, r) ==
    /\ t \in LightThreads
    /\ Begin(t, "probe_sessions", [NoRequest EXCEPT !.kind = "setup", !.goal = r,
                                                    !.since = born])
    /\ UNCHANGED <<ram, locks, stores, seen, hand, boots>>

\* Busy: setup is refused; a save goes on unless it changes a quiet field.
Busy(t) ==
    IF req[t].kind = "save" /\ Quiet(seen[t]) = Quiet(req[t].config)
      THEN Continue(t, "save_write")
      ELSE Reply(t)

\* session_blocks_quiet looks at one directory, vault_activity_blocks_root_switch
\* at all of them; both read SESSIONS, then CLOSING, then try the gate.
Scope(t) == IF req[t].kind = "save" THEN {req[t].dir} ELSE Dirs

\* Mutant: only the vaults of the root in use are looked at.
ProbeSessionsOfCurrentRoot(t) ==
    /\ pc[t] = "probe_sessions"
    /\ IF \E d \in Scope(t) : d[1] = root /\ IsOpenAt(d)
         THEN Busy(t)
         ELSE Continue(t, "probe_closing")
    /\ UNCHANGED <<ram, locks, stores, hand, bounds>>

ProbeSessions(t) ==
    /\ pc[t] = "probe_sessions"
    /\ IF \E d \in Scope(t) : IsOpenAt(d)
         THEN Busy(t)
         ELSE Continue(t, "probe_closing")
    /\ UNCHANGED <<ram, locks, stores, hand, bounds>>

ProbeClosing(t) ==
    /\ pc[t] = "probe_closing"
    /\ IF closing \cap Scope(t) # {}
         THEN Busy(t)
         ELSE Continue(t, "probe_gate")
    /\ UNCHANGED <<ram, locks, stores, hand, bounds>>

\* try_lock fails on a held or poisoned gate, and while another probe holds it.
ProbeGate(t) ==
    /\ pc[t] = "probe_gate"
    /\ \/ /\ gate # NoThread \/ poisoned \/ \E u \in Threads \ {t} : pc[u] = "probe_gate"
          /\ Busy(t)
       \/ /\ gate = NoThread /\ ~poisoned
          /\ Continue(t, IF req[t].kind = "save" THEN "save_write" ELSE "setup_write")
    /\ UNCHANGED <<ram, locks, stores, hand, bounds>>

SaveWrite(t) ==
    LET d == req[t].dir IN
    /\ pc[t] = "save_write"
    /\ \/ /\ disk[d].exists
          /\ disk' = [disk EXCEPT ![d].config = req[t].config]
       \/ /\ ~disk[d].exists \/ May("io")
          /\ UNCHANGED disk
    /\ Reply(t)
    /\ UNCHANGED <<ram, locks, root, sealed, hand, bounds>>

\* Initialise the folder and write the alias (or deactivate it).
SetupWrite(t) ==
    /\ pc[t] = "setup_write"
    /\ \/ root' = req[t].goal
       \/ May("io") /\ UNCHANGED root
    /\ Reply(t)
    /\ UNCHANGED <<ram, locks, disk, sealed, hand, bounds>>

\* app_settings_save with syncAlias, and vault_root_deactivate_alias (r is then
\* the default root): they move the root too, and ask nobody.
SettingsSave(t, r) ==
    /\ t \in LightThreads
    /\ pc[t] = "idle"
    /\ calls < MaxCalls
    /\ calls' = calls + 1
    /\ root' = r
    /\ UNCHANGED <<ram, locks, disk, sealed, pc, req, seen, hand, boots>>

-----------------------------------------------------------------------------
\* The process dies at any point and starts again with empty statics.
Restart ==
    /\ May("exit")
    /\ boots < MaxBoots
    /\ boots' = boots + 1
    /\ sessions' = [d \in Dirs |-> NoSession]
    /\ closing' = {}
    /\ gate' = NoThread
    /\ poisoned' = FALSE
    /\ dirGates' = [d \in Dirs |-> NoThread]
    /\ badDirs' = {}
    /\ pc' = [t \in Threads |-> "idle"]
    /\ req' = [t \in Threads |-> NoRequest]
    /\ seen' = [t \in Threads |-> NoConfig]
    /\ hand' = [t \in Threads |-> NoSession]
    /\ UNCHANGED <<born, stores, calls>>

\* All calls made and answered: nothing is left to do.
Rest ==
    /\ calls = MaxCalls
    /\ \A t \in Threads : pc[t] = "idle"
    /\ UNCHANGED vars

Call(t) ==
    \/ \E i \in Ids :
          \/ \E yes \in BOOLEAN : OpenCall(t, i, yes) \/ CloseCall(t, i, yes)
          \/ \E c \in Configs : CreateCall(t, i, c) \/ SaveCall(t, i, c)
    \/ \E r \in Roots : SetupCall(t, r) \/ SettingsSave(t, r)

Step(t) ==
    \/ OpenEnter(t) \/ OpenCheck(t) \/ OpenLoad(t) \/ OpenKdf(t) \/ OpenInsert(t)
    \/ CreateDir(t) \/ CreateConfig(t) \/ CreateEnter(t) \/ CreateSeed(t)
    \/ CreatePersist(t) \/ CreateCleanup(t)
    \/ Panic(t)
    \/ CloseMark(t) \/ CloseTake(t) \/ CloseFlush(t) \/ CloseRestore(t) \/ CloseUnmark(t)
    \/ ProbeSessions(t) \/ ProbeClosing(t) \/ ProbeGate(t) \/ SaveWrite(t) \/ SetupWrite(t)

Next ==
    \/ \E t \in Threads : Call(t) \/ Step(t)
    \/ Restart
    \/ Rest

Spec == Init /\ [][Next]_vars

\* A thread that can go on does; nobody is obliged to make another call.
FairSpec == Spec /\ \A t \in Threads : WF_vars(Step(t))

-----------------------------------------------------------------------------
\* PROPERTIES

\* One Argon2 at a time in the process, whichever handlers run it: the memory of
\* two derivations never adds up (session/mod.rs:75, UNLOCK_GATE).
OneArgon2 ==
    \A t, u \in Threads :
        pc[t] \in {"open_kdf", "create_kdf"} /\ pc[u] \in {"open_kdf", "create_kdf"} => t = u

\* A session taken out for flushing is always covered by its directory's closing
\* mark, so that nobody sees an idle vault while its flush still runs
\* (session/mod.rs:183, ClosingGuard).
ClosingCoversFlush ==
    \A t \in Threads : hand[t].gen # 0 => req[t].dir \in closing

\* A closing mark never outlives the closes of its directory: a stale one would
\* refuse every later root switch (session/mod.rs:200, Drop of ClosingGuard).
NoStaleMark ==
    \A d \in closing : \E t \in Threads :
        /\ pc[t] \in {"close_take", "close_flush", "close_restore", "close_unmark"}
        /\ req[t].dir = d

\* A create leaves a whole vault or no folder at all once its directory gate is
\* free (vault/create.rs:58, remove_dir_all on any error).
CreateAllOrNothing ==
    \A d \in Dirs : disk[d].exists /\ dirGates[d] = NoThread =>
        disk[d].config # NoConfig /\ disk[d].seeded /\ disk[d].persisted

\* A session never outlives the folder its keys belong to: a close could not find
\* the vault any more (vault/create.rs:34 and :59, create_dir and the cleanup).
SessionHasVault ==
    \A d \in Dirs : IsOpenAt(d) => disk[d].exists /\ disk[d].seeded

\* When setup or a save of quiet fields goes ahead, no session it concerns had been
\* born before the request began (session/mod.rs:153, edit_policy.rs:52).  What
\* opens during the probes is another matter: see SetupNeverRacesUnlock.
ProbeSeesOlderSessions ==
    \A t \in Threads :
        \/ pc[t] = "setup_write"
        \/ pc[t] = "save_write" /\ Quiet(seen[t]) # Quiet(req[t].config)
        => \A d \in Scope(t) : IsOpenAt(d) => sessions[d].gen > req[t].since

\* After a panic under the unlock gate the process opens nothing more: it fails
\* closed instead of running on what the panic left (session/mod.rs:92-97).
PoisonFailsClosed ==
    [][poisoned /\ poisoned' => born' = born]_vars

\* Every RPC is answered: no order of the two kinds of gate, and no failure under
\* them, leaves a handler waiting (session/mod.rs:92, :100; create.rs:33, :45).
Answered ==
    \A t \in Threads : pc[t] # "idle" ~> pc[t] = "idle"

\* The registry as SessionLifecycle sees it: the sessions that can be used, and those
\* a close holds.
Live == [d \in Dirs |-> sessions[d].gen]
Draining == {<<hand[t].gen, req[t].dir>> : t \in {u \in Threads : hand[u].gen # 0}}

\* The registry keeps the promises of SessionLifecycle: a session is never
\* overwritten, nor dropped unflushed while its vault shows closed, nor used again
\* after its close (session/mod.rs:208 and :217, insert_session and take_session).
Lifecycle == INSTANCE SessionLifecycle WITH
    Vaults <- Dirs, live <- Live, draining <- Draining
RefinesLifecycle == Lifecycle!Spec

\* A session whose flush was persisted is out of the registry and out of every close
\* for good: its keys never serve again (vault/open_close.rs:94, the restore).
SealedStaysSealed == Lifecycle!SealedIsFinal

-----------------------------------------------------------------------------
\* WHAT THE COMMENTS CLAIM AND THE CODE DOES NOT KEEP

\* session/mod.rs:151: "This is the process-side backstop so setup RPCs cannot race
\* unlock / flush".
SetupNeverRacesUnlock ==
    [][\A t \in Threads : pc[t] = "setup_write" /\ pc'[t] = "idle" /\ root' # root =>
          /\ \A d \in Dirs : ~IsOpenAt(d)
          /\ gate = NoThread
          /\ closing = {}]_vars

\* edit_policy.rs:18: "Targets refused while the vault session is open, mid-close, or
\* Argon2 is in flight".
QuietFieldsFixedWhileBusy ==
    [][\A t \in Threads : LET d == req[t].dir IN
          pc[t] = "save_write" /\ pc'[t] = "idle" /\ Quiet(disk'[d].config) # Quiet(disk[d].config)
            => ~IsOpenAt(d) /\ d \notin closing /\ gate = NoThread]_vars
=============================================================================
