# Upriv in TLA+

Upriv keeps encrypted vaults in folders below a *vault-root*. A Rust core
(`dev/crates/upriv-core`) opens, closes and creates them; a dispatcher
(`upriv-rpc`) turns named RPCs into calls of the core; two hosts run that
dispatcher: `upriv-daemon`, a child process of the Electron app, and
`upriv-ffi`, a library inside the mobile app. These modules model the parts of
that system whose correctness depends on the order of things: threads, locks,
processes, timers, failures in the middle of a handler.

Paths below are relative to `src/dev/`; `core/` is `crates/upriv-core/src/`.

## The system and what is modelled

| Component | State it keeps | Operations | Modules | Status |
|---|---|---|---|---|
| Session core: `core/session/mod.rs`, `core/vault/open_close.rs`, `core/vault/create.rs` | statics `SESSIONS`, `CLOSING`, `UNLOCK_GATE`, `VAULT_DIR_GATES`; the vault folders | open, close, create, busy probes | `SessionLifecycle`, `VaultSession`, `MCVaultSession`, `VaultSessionProofs`, `VaultSessionHostProofs` | modelled |
| Unlock throttle: `core/session/mod.rs` | static `THROTTLE`, the clock | check, success, failure | `UnlockThrottle`, `UnlockThrottleProofs` | modelled |
| Edit policy: `core/config/edit_policy.rs` | none of its own | checked config save | `VaultSession` | modelled |
| Desktop transport: `apps/electron/src/daemon.ts`, `main.ts`, `crates/upriv-daemon/src/main.rs`, `wire.rs` | connection, pending promises, pipes, job queue | start, call, time out, stop, die | `DaemonTransport`, `DaemonTransportProofs` | partly |
| RPC dispatcher: `crates/upriv-rpc/src/lib.rs` | none of its own | some forty RPCs | `VaultSession` (those that touch the session core or the root), `VaultGroups` (those that touch the groups) | partly |
| Mobile host: `crates/upriv-ffi/src/lib.rs` | none of its own | `invoke` on the caller's thread | `VaultSession` (choice of threads, caught panics) | partly |
| Vault config: `core/config/vault_config` | `config.toml` | load, save, hide | `VaultSession` (a config is two modes and a note), `VaultGroups` (the hidden flag and a note) | partly |
| Contents store: `core/contents`, `core/vault/persistence.rs` | header, index, chunks | seed, open, flush | `VaultSession` (each succeeds or fails as a whole) | partly |
| Session logging: `core/logging` | `.upriv/logs`, the static `SESSION`, one `Logger` per settings | log, open, resume, rotate, prune, reconfigure, delete | `SessionLog`, `MCSessionLog`, `SessionLogProofs` | partly |
| Lifecycle pipeline of the UI: `useVaultPipelineRun`, `useClosingDisplayHold`, `useVaultLifecycleActions`, `useVaultListState`, `vaultLifecycleService` | queue of jobs, badge timers, the dialog, the rows, passwords in session RAM | unlock, lock, confirm, dismiss, idle close, create, answers, list fetches | `PipelineRun`, `LifecycleUi`, `MCLifecycleUi`, `LifecycleUiProofs` | partly |
| Vault groups: `core/config/vault_groups` | `vault_groups.toml` and its backups, `GROUPS_WRITE_LOCK`, `[vault].hidden` of the members | create, update, delete, reorder, permute, hide, repair | `MemberLists`, `GroupRegistry`, `VaultGroups`, `MCVaultGroups`, `MemberListsProofs`, `VaultGroupsProofs` | modelled |
| App settings and root alias: `core/config/app_settings`, `core/paths` | `settings.toml`, `.upriv-root` | save, resolve, set up, deactivate | `VaultSession` (only that the root changes) | not modelled |
| Screens, i18n, mocks; path and distribution classification | - | - | - | not modelled: presentation and pure functions |

How they interact. The app writes requests to the daemon's stdin and reads
answers from its stdout (`DaemonTransport`). In the daemon a worker thread runs
`vault_open` and `vault_create` and the stdin thread everything else; in the
mobile host any thread runs anything. All of these threads meet in the statics
of the session core (`VaultSession`). The core calls the throttle twice per
unlock, under the unlock gate (`UnlockThrottle`; in `VaultSession` the throttle
is the free choice to refuse in `OpenCheck`). The group RPCs have a lock of their
own; they share with `vault_config_save` and `vault_create` the files
`vaults/<id>/config.toml` (`VaultGroups`). The session core and the groups meet in
no other state, so the two modules are not composed. Above the transport, the
desktop UI queues what the user asks for and shows rows, badges and dialogs while
answers are under way (`LifecycleUi`, which holds the queue of `PipelineRun`; the
transport is there an answer, or a deadline that passes while the core goes on).
Every thread that serves RPCs writes log lines through one `Logger`
(`SessionLog`).

What is hard. Handlers check first and act later without a lock in between;
a close holds the session in a local variable while it flushes; a create holds
one lock while it waits for another; panics poison mutexes; the app times out,
quits, or kills the daemon while the worker is busy. In the UI each callback runs
to its end, and what it read may be stale once an `await` is over: the row, the
settings, the dialog, the password. The log directory is changed by several
renames and removals in a row, and read again by the next process. `PROJECT.json` lists these
hazards at their lines, with the property that covers each one.

## VaultSession

A thread has a program counter `pc`, the request it serves (`req`), the config
it has read (`seen`) and the session its close has taken (`hand`). A handler is
cut into one action wherever it takes or drops a mutex, reads or writes a
process-wide static, or touches the disk; what happens between two such points
cannot be seen by another thread.

| Actions | Code |
|---|---|
| `OpenCall OpenEnter OpenCheck OpenLoad OpenKdf OpenInsert` | `vault_open`, `open_vault`, `with_unlock_lock`, `insert_session` |
| `CreateCall CreateDir CreateConfig CreateEnter CreateSeed CreatePersist CreateCleanup` | `vault_create`, `create_vault`, `with_vault_dir_lock` |
| `CloseCall CloseMark CloseTake CloseFlush CloseRestore CloseUnmark` | `vault_close`, `close_vault`, `ClosingGuard`, `take_session` |
| `SaveCall`, the probes, `SaveWrite` | `vault_config_save`, `save_vault_config_checked` |
| `SetupCall`, the probes, `SetupWrite` | `vault_root_setup_path`, `vault_root_setup_default_root` |
| `SettingsSave` | `app_settings_save` with `syncAlias`, `vault_root_deactivate_alias` |
| `Panic`, `Restart` | `catch_unwind` of the hosts; a new process with empty statics |

A directory is a pair of root and id; its folder on disk records what a create
has written so far. The probes `ProbeSessions`, `ProbeClosing`, `ProbeGate` are
three steps because the code reads three statics one after the other; a refused
`try_lock` may also be due to another probe, and the model lets it.

`SessionLifecycle` is what the registry promises, without threads or locks: a
session is live, draining (a close has it), sealed (its flush was persisted) or
gone, it is never overwritten, and an unflushed one is dropped only where a newer
one keeps the vault open. `VaultSession` implements it under
`live <- Live, draining <- Draining`, with `sealed` and `born` as they are.

Abstractions: security mode distinguishes only `always_prompt` (the one mode
`close_vault` treats differently), the quiet fields of the edit policy are
security mode and storage mode, seeding, opening and flushing a store are single
steps that may fail. A cleanup that fails leaves the folder as it was. Mutexes
other than the gates (those around the maps) are held within one step. A panic
can strike only where Argon2 runs: the other code under a lock has no call that
panics on the values it gets.

## UnlockThrottle

`Allow` is `check_unlock_allowed` letting an unlock through, `Wrong` and `Right`
are `record_unlock_failure` and `record_unlock_success`, `GiveUp` an unlock that
fails for another reason; `Tick` moves the clock, also between the two calls of
one unlock. `guesses` is a history variable: all wrong passwords since the last
right one. The throttle is RAM of one process; a restart forgets it, as
`.agent/SECURITY-CRYPTO.md` says, and is not modelled.

## DaemonTransport

The main process (`Start`, `Call`, `Timeout`, `Receive`, `Quit`, `StopDaemon`,
...), the daemon's stdin thread (`Boot`, `ReadLight`, `ReadHeavy`, `LightDone`,
`EndOfInput`, `DrainDone`) and its worker (`HeavyStart`, `HeavyDone`), joined by
the two pipes. What a request does is abstracted to its number entering `done`.
The exit event may overtake answers still in the pipe. Faults: `crash`, the
daemon dies at any moment; `kill`, the main process does, and what it has
written stays readable. The daemon is started once: `createWindow` starts it
before there is a window to call from, exits if that fails, and a daemon that
dies later closes the app.

## VaultGroups

`vault_groups.toml` is `file`, its backups are `bak` and `stamped`, the folder and
`config.toml` of each vault are one value of `config`. A thread that holds the
lock keeps the locals of its handler in `work`: the groups it will save, the
vaults still to flip and those flipped already.

| Actions | Code |
|---|---|
| `Call` | the seven `vault_group_*` RPCs that write, `vault_config_save`, `vault_create` |
| `Start`, `Refuse` | `lock_groups_write`, `load_vault_groups_for_mutate`, the edit of the loaded groups and its early returns |
| `Plan`, `HideLoad`, `HideWrite` | `plan_set_grouped_vaults_hidden`, then `set_vault_hidden` once per vault, a load and a save |
| `RevertLoad`, `RevertWrite`, `RevertDone` | `revert_vault_hidden`, in reverse order, its errors ignored |
| `Save`, `Backup` | `save_vault_groups`, the end of `repair_vault_groups_locked` |
| `ConfigSave` | `save_vault_config_checked` for a vault that is not busy |
| `Mkdir`, `NewConfig`, `Seed` | `create_vault`, as far as it makes and removes the folder and its config |
| `Exit`, `RemoveFolder` | the process dies and is started again; the user removes a folder |

`MemberLists` is what `Vec::retain` does to a list of members, without recursion, so that
both modules can be reasoned about. `GroupRegistry` is what the RPCs promise the vault
list: a map from group to hidden flag and members in which no vault is in two groups,
changed in one step into one of its `Outcomes`: a group is `Put`, new or edited, its
members taken from all others; one is `Dropped`; or a repair starts over. `VaultGroups` implements
it with `groups` the softened file, which is what every RPC reads; so a lost
update, a member dropped because its folder is gone, or a second group that keeps a vault
the first was given would each be a step the registry does not have.

Two history variables. `stray` holds the vaults whose hidden flag was last set by something
other than a cascade (a config save, a create, a revert that failed, a crash in a
cascade); at the start all are, since a file may be edited by hand.
`HiddenGroupsHideMembers` and `FailedLeavesNoTrace` speak of the others.
`putAside` is what `toml.bak` held at the start and every file a repair backed up since,
but for what is lost as follows: the name of a second backup is stamped with a whole second
(`utc_filename_stamp`) and `fs::write` replaces a file of that name, so beside a `toml.bak`
the second of two repairs in one second writes the emptied file over the saved one.
`stamped` has one place per second and a backup may fall into any, the clock being one that
can be set back; a write that fails may leave a torn file. `BackupsAccumulate` says that
nothing else is ever lost.

Abstractions: member lists are as `trim_vault_ids` leaves them; display name,
order, collapsed and sort of a group are one field, since no rule reads them and
their validation only refuses; a missing `.upriv` is one of the reads and writes
that fail. The files other than backups are replaced by a rename
and are never seen half written. `vault_group_list` changes nothing.

## PipelineRun and LifecycleUi

JavaScript runs a callback to its end, so a step is what happens between two
awaits. `PipelineRun` holds the two hooks that order jobs: `run` and `queue` are
`runRef` and `queueRef`, `hold` the Closing badges; its operators are parts of the
steps of `LifecycleUi`. There, `row` is the vault list, `fetch` the list requests
under way and what was written since they began, `request` the dialog, `ram` the
vaults with a password in `vaultPasswordInRam`, `retain`, `typedClose` and
`restoring` the refs that decide whether it is kept.

| Actions | Code |
|---|---|
| `StartFetch CoreLists ApplyFetch FailFetch` | `useVaultListScreen`'s effect, `vault_list`, `applyVaultList`, `mergeVaultListSnapshot` |
| `ClickUnlock ClickLock Dismiss` | `handleUnlockVault`, `handleLockVault` up to its `await`, closing the dialog |
| `ConfirmUnlock ConfirmTypedClose ConfirmBareClose` | the three ways out of `handleLifecycleConfirm` |
| `LockSettings AutoClose CreateVault` | `handleLockVault` after its `await`, `handleAutoCloseVault`, `handleCreateVault` |
| `CoreActs TimesOut LateActs` | `open_vault`, `close_vault` or `create_vault` acts on a request, the renderer gives one up, the core acts on it all the same |
| `OpenDone OpenFailed CloseDone CloseFailed CreateDone CreateFailed` | `executeJob`'s `onComplete` or `onError`, then `advance` to the next job |
| `Reveal RestoreAnswer` | `revealClosed`, the `getSettings` after an open |

Of the core, `core` keeps per vault whether it is absent, closed or open, and for a create
the two states between: `create_vault` puts the folder and `config.toml` on disk and then
waits for Argon2 (`making`, by `Makes`), and when it fails it removes the folder, if it can
(`Undone`, which ends in `absent` or in `left`). `vault_list` runs on the other thread and
lists whatever folder has a `config.toml`, so a half-made vault too. Three history variables
say where the properties do not reach, and all are behaviours of the code. `halfSeen`: a
list that was read in the middle of a create and is applied after `CreateFailed` gives the
list a row again with no vault behind it, which stays until the next list; `CreatedRows`
excepts the vaults whose row has come through such a list. `gaveUp`:
after a timeout the UI reverts the row, and an open that the core finishes later
leaves a row that says closed. `crossed`: `typedClosePasswordRef` is one slot for
all vaults, so a second typed close makes the first forget that its password was
typed, and a failure of it leaves that password in RAM.

What blocks a switch of the data folder is the rows (`listHasVaultBlockingDataFolderChange`),
so a vault without a row blocks nothing. Two lists that overtake one another can take the row
of a vault away while its create is under way: the first has it and ends its placeholder,
the second was read before it. The create, its open and its badge then go on without a
row, and a row that is made anew can be lost again. `FolderSwitchIsSafe`, the first half of
`NoPasswordAtRest` and `HoldMeansClosing` are therefore stated of the vaults that were there
from the start (`Old`), and are not true of others.

Abstractions: a wrong password and any other error differ only in whether the
dialog stays; the drafts check is the choice to refuse; a generation number is the
fact that a pending restore is outdated; the clock of the rows is the order of
writes and fetches. Toasts, background presentation, delete, export, recovery, the
dialog for a missing workspace and the group a new vault is put in are left out, as
is the mobile hook, which follows the same pattern in a file of its own. So is the
bump of the vault-root epoch, which forgets writes while a fetch is under way.

## SessionLog

`dir` maps names to files and `data` files to lines, so that a `Logger` may hold a
file whose name is gone. A name is whether it is current, its number and its second.
A thread's `call` is what `write_line_locked` has reached. A `Logger` writes through a
`BufWriter`: `ram` of its `active` file is the number of lines that are still in that
buffer. A line has the number it gets when it reaches the disk; a `Logger`'s lines get there
in their order, so a greater number is a younger line.

| Actions | Code |
|---|---|
| `Log`, `Install` | `log_event`: `ensure_logging_session` finds the settings unchanged, or installs a `Logger` and logs that it did |
| `Enter` | `write_line_locked` up to the choice between open, rotate and write |
| `ArchiveStale`, `Resume`, `Number`, `Create` | `open_or_create_active`: `try_resume_current`, `next_sequence_number`, `create_active_file` |
| `Rotate`, `PlanPrune`, `PruneOne`, `Roll`, `Rollback` | `rotate_active`, `prune_old_files` |
| `Write` | the line and the flush after it, which has what was in the buffer on disk first |
| `WriteUnflushed` | the flush after the line fails; its error is dropped and the call returns `Ok` |
| `Flush` | a later flush has a line of the buffer on disk: that of the next line or of a rotation, `Logger::flush`, or that of a handle that is dropped |
| `Fail` | any other operation fails; a line that does not even fit in the buffer is tried once more, on a file opened anew, and a rotation whose flush fails loses what the buffer held |
| `Release`, `Remove` | `delete_session_log_files`: `release_active_named`, then the removals |
| `Tick`, `Crash` | the stamp of a new name; the process ends anywhere |

A thread that took the `Logger` before a reconfiguration and waits for its mutex
goes on to write through it while the new one works: installing waits only for a
thread that has the mutex of the session's `Logger` already. A `Logger` that was replaced
keeps its file as long as a thread is in a call with it. `overlap` is true from then until a
`Logger` alone at work opens the only current file, numbered above all others. In between
there may be two current files or a number used twice, and, because a created file
is not opened for append, one line may take the place of another; lines written in an
overlap are therefore never owed. Those written before it stay owed through it. A crash between the renames of one rotation
does not leave two current files: only two `Logger`s do. A line is not owed either
when the user deletes its file between the check of the path and the write.

`owed` is what must be on disk: every line that has reached it, with its own flush or a later
one, until the user deletes its file or it is pruned while it and what is younger exceed the
budget. A line in the buffer is not owed: the code drops the error of its flush, and a crash
or a rotation whose flush fails too loses a line that the call has reported as written. `cut` counts the prunings
that a missing file, a failed removal or the end of the process cut short since the last
that ran to its end; each leaves its archives to the next, and the directory may hold one
file more. `strayed` is true from the start of an overlap until a `Logger` without another
beside it has run a pruning to its end: two at work find each other's files gone and stop
pruning, so no bound on the lines on disk holds meanwhile. `DiskBound` is stated with both.

Not modelled: a switch of the vault-root (another directory), the level filter and
the switch that turns logging off, other processes that write the same directory,
half-written lines (a flush has a whole line on disk or none of it), a count of lines that
fails in a rollback, listing and reading.

## Runs

| Run | Instance | Result |
|---|---|---|
| `session_daemon` | worker and stdin thread, 2 roots, 1 id, 3 configs, I/O failures, 4 RPCs, fair | `TypeOK`, `ClosingCoversFlush`, `CreateAllOrNothing`, `SessionHasVault`, `ProbeSeesOlderSessions`, `Answered` hold (about 130 000 states) |
| `session_ffi` | 3 symmetric threads, 1 root, 1 id, 2 configs, I/O and cleanup failures, panics, 1 restart, 4 RPCs | `OneArgon2`, `NoStaleMark`, `SealedStaysSealed`, `PoisonFailsClosed`, `RefinesLifecycle` hold (about 375 000 states) |
| `unlock_throttle` | 2 vaults, 3 failures in 3 ticks block for 3, 6 ticks | `TypeOK`, `AtMostLimit`, `BlockedOnlyAfterBurst` hold (about 660 000 states) |
| `daemon_transport` | 3 RPCs and `app_shutdown`, crash and kill, fair | `TypeOK`, `AnsweredIsDone`, `NoPromiseOnDeadConnection`, `InOrderPerThread`, `SettledOnce`, `EverySettled`, `NoOrphanDaemon` hold (about 120 000 states) |
| `vault_groups` | 2 symmetric threads, 2 vaults, 2 groups and one with a hand-written id, 6 files and 2 sets of folders to start from, with and without a `toml.bak`, 2 seconds, 31 requests, all faults, 2 RPCs, 1 crash or removed folder | `TypeOK`, `HiddenGroupsHideMembers`, `FailedLeavesNoTrace`, `BackupsAccumulate`, `ImplementsRegistry` hold (about 354 000 states) |
| `lifecycle_ui` | 2 vaults, one closed and one open in `always_prompt`, with 1 list request or 1 request given up on; 2 vaults, one still to be created, with 1 list request; 1 vault in `always_prompt`, with 1 list request and 1 request given up on; or 1 vault, which is there or to be created, with 2 list requests and 1 request given up on; fair | `TypeOK`, `FolderSwitchIsSafe`, `NoPasswordAtRest`, `PromptModeForgets`, `PasswordReachesCore`, `QueueIsServed`, `HoldMeansClosing`, `CreatedRows`, `JobsEnd` hold (about 386 000 states) |
| `session_log` | 2 symmetric threads, 3 calls, 2 settings (2 or 1 lines per file, 1 kept), 2 `Logger`s, 2 seconds, 2 faults, deletes or crashes | `TypeOK`, `LinesKept`, `FilesInAgeOrder`, `ActiveFileKnown`, `DiskBound` hold (about 630 000 states) |
| `setup_race` | as `session_daemon`, 2 RPCs | `SetupNeverRacesUnlock` is violated |
| `config_save_race` | as `session_daemon`, 2 RPCs | `QuietFieldsFixedWhileBusy` is violated |
| `double_close` | 2 threads, 3 RPCs, no fault | `ClosingCoversFlush` is violated |
| `shutdown_drain` | 1 RPC, no fault | `DrainsBeforeExit` is violated |
| `config_save_lost` | 2 threads, 1 hide of a group and 1 config save, no fault | `SavesAreKept` is violated |

The five violated properties are sentences of the code's comments, quoted in
`PROJECT.json` under `findings`. In `setup_race` and `config_save_race` the probe
answers "idle", an unlock starts on the worker, and the write follows. In
`double_close` the second close finds no session and drops the mark the first
one set. In `shutdown_drain` the worker still has a job when `app_shutdown` is
settled and SIGTERM is sent. In `config_save_lost` a config save falls between the
load and the save of `set_vault_hidden`, and every section of it is undone.

Bounds. Every violation above needs two or three RPCs, so four let a race be
followed by another call. Two roots are needed for a switch, one id for
everything else: vaults of one root share only the gate, which a second root's
vault contends for as well. Three threads let two handlers race while a third
probes. One restart separates what RAM forgets from what the disk keeps; sessions
are numbered across restarts so that `sealed` can refer to them. Three RPCs and
`app_shutdown` suffice for an answer, a late answer, a light request overtaking
a heavy one, and two heavy ones in the queue. Six ticks hold a burst, its block
and a second burst. Two group RPCs
are two that race, or one that follows a failed, crashed or finished one; two vaults are
enough for one to be flipped and the other to fail, two groups for a vault to
change hands, and a repair twice for a backup to be in danger, beside a `toml.bak` in one
second or in two. Two vaults make one job wait
for another, and let one vault's callback find the other's dialog, password or row;
list requests meet only in the rows: over two vaults one at a time is asked, answered late
and outdated, over one vault two overtake one another, as those of the mount effect,
`useAppRefresh` and a finished create may. One request given up on is enough for the core to act behind the UI's back.
Three calls, one of which may log a reconfiguration too, fill a file of one or two lines,
start the next and prune the first, the budget being one line, and follow a restart; two
faults let a crash follow a failed operation; a second second gives two files of one
number different names.

Symmetry is used in `session_ffi`, `vault_groups` and `session_log`, over threads, which no definition tells
apart. Deadlock is checked in every run but `session_log`, where every behaviour ends when
its bounds are used up; `Rest` is the state in which all
calls of the bound have been made and answered (or both processes are gone, or
time is up).

Fairness. `session_daemon`: each thread's next step is weakly fair, because OS
threads run and mutexes are granted: on this host each gate has at most two
contenders and the holder always releases it. Making a call is not fair.
`daemon_transport`: the daemon's threads, and the main process's reading, noticing
an exit and finishing a stop are weakly fair; calling, quitting, timers and
faults are not. A request without a deadline is thereby settled by an answer or
by the daemon's end, never by a timer.
`lifecycle_ui`: the core ends what it was asked (also when it was given up on), the answer is
handled and the timer of a badge fires; these are promises that settle and timers of
the event loop. Clicks, the idle timer, list fetches and settings reads are not fair, so
`JobsEnd` needs neither the user nor the list.

## Proofs

The eight modules named `...Proofs` are checked by TLAPS for every value of the constants,
from the assumptions named in the modules (`SessionAssumption`, `ThrottleAssumption`,
`TransportAssumption`, `LifecycleUiAssumption`, `GroupsAssumption`, `LogAssumption`). Each
theorem is `Spec => ...`, by an inductive invariant that TLC checked first.
`MemberListsProofs` has no theorem of a specification: its lemmas say what `Ascending`,
`KeepAt` and `Without` return for every list, from `Inductive`, induction by the set of
the numbers a statement is true of.

| Theorem | States | Inductive invariant, and why the property alone is not inductive |
|---|---|---|
| `TypeInvariant`, `TypeCorrect` | `[]TypeOK` | `TypeInv`: a session is made from the config the handler has loaded, so `seen` must hold one from `open_kdf` on |
| `GateCorrect`, `Argon2Exclusion` | `[]OneArgon2` | `GateInv`: a thread is at a gated label exactly if it holds the gate |
| `PoisonClosesTheGate` | `PoisonFailsClosed` | the same: a poisoned gate is free, so nobody is where a session is born |
| `MarksAreDropped` | `[]NoStaleMark` | the property with `TypeInv` |
| `CustodyCorrect` | - | `Custody`: every session is in one place, numbered up to `born`, and only a close's flush or restore label holds one |
| `SealedForGood` | `[]SealedStaysSealed` | `Custody`: a sealed session is in no hand and in no registry entry |
| `RegistryImplementsLifecycle` | `RefinesLifecycle` | `Custody`: a step maps to `Unlock`, `Drain`, `Seal`, `Restore`, `Discard`, `Exit` or a stutter |
| `FlushIsCovered` | `[]ClosingCoversFlush`, assuming `OneCloser` | `LightThreads` has one member, as in the daemon; `double_close` shows that the assumption is needed |
| `ProbesMissOnlyYounger` | `[]ProbeSeesOlderSessions`, assuming `OneCloser` | `ProbedYoung`: it holds from the probe of `SESSIONS` on, where nothing in scope is open; what appears later is born later, since the only close that could restore an older session is on the probing thread |
| `SessionsHaveFolders` | `[]SessionHasVault`, assuming `OneOpener` | `FoldersStand` (sessions in hand and unlocks about to insert have a seeded folder too) with `BuiltAlone`: a folder a create may clean away was not there before, and has no session anywhere |
| `CreatesAreWhole` | `[]CreateAllOrNothing`, assuming `NothingCutsShort` | `MadeInOrder`: a create holds its directory gate and has made what its label says |
| `InvCorrect`, `RateIsLimited` | `[]AtMostLimit` | `Inv`: `failures` holds the last guesses, fewer than the limit, and all others are out of the window, or will be when the block ends |
| `BlocksAreEarned` | `[]BlockedOnlyAfterBurst` | the same |
| `ThrottleTypeCorrect` | `[]TypeOK` of the throttle | the property with `Inv`: a failure is stamped with a moment that has passed |
| `TypeCorrect` (transport) | `[]TypeOK` of `DaemonTransport` | `TypeOK` with the facts that say what a thread has in its hand |
| `AnswersAreTrue`, `NobodyWaitsForTheDead` | `[]AnsweredIsDone`, `[]NoPromiseOnDeadConnection` | `ClientInv`: a request that is still to be made has no promise, and an answer in the pipe is of a request that is done |
| `SettlesOnce` | `SettledOnce` | `ClientInv`: a number is never used twice, so no settled promise is pending again |
| `CarriedOutInOrder` | `[]InOrderPerThread` | `Custody`: what the daemon has read is done, in a thread's hand, in the queue, or its worker has ended; input and queue are ordered, behind what the worker has |
| `LifecycleTypeCorrect` | `[]TypeOK` of `LifecycleUi` | the property itself |
| `QueueIsAlwaysServed` | `[]QueueIsServed` | the property itself: every job that begins is of a vault that is not busy, every end takes the head |
| `PromptModeNeverKeeps` | `[]PromptModeForgets` | `PromptInv`: such a password waits with the open it was typed for, or belongs to the close that `typedClosePasswordRef` names |
| `RowsAreVaults` | `[]CreatedRows` | `RowInv`: what a list saw beside half-made vaults and an answer that came are still true, since the core loses no vault whose create has ended (`Stays`), and a vault in `pendingCreatesRef` has a job or is in the core |
| `BadgeMeansClosing` | `[]HoldMeansClosing` | `BadgeInv`: a hold is on exactly over a closing row and is `held` exactly while the close has its job; with a timed hold there is no unlock dialog, which would start an open under it |
| `FolderSwitchesSafely` | `[]FolderSwitchIsSafe` | `BadgeInv` and `SessionInv`: a list that was read before a session began is outdated by a row written since, or its open is still to be answered; a close of a session remembers that the row was open |
| `PasswordsAreNotAtRest` | `[]NoPasswordAtRest` | these, `RetainInv` (only an open under way is in `unlockRetainPasswordsRef`) and `PasswordInv`: what is in the map is of a job or a session, a typed close is named in `typedClosePasswordRef` or `crossed`, a restore that is not outdated is of a session |
| `PasswordsReachTheCore` | `[]PasswordReachesCore`, where no vault is created | `BadgeInv` and `SupplyInv`: a waiting job that needs a password has it, and no restore is pending for an open; a restore that may take one away finds a row that is open, so no close of it waits |
| `InOrderAlways` | - | `Inv`: until the file is replaced, the holder of the lock works on what is in it; what its cascade has flipped had the other flag, and all else is as it found it, or in `stray` |
| `TypesAndLock`, `HiddenGroupsAreHidden`, `FailuresLeaveNoTrace` | `[]TypeOK`, `[]HiddenGroupsHideMembers`, `[]FailedLeavesNoTrace` of `VaultGroups` | `Inv`: when the lock is free the flags are in line with the groups, so what a cascade finds was in line, a save leaves the targets with the new flag and a revert leaves all with the old one |
| `ProgramImplementsRegistry` | `ImplementsRegistry` | `Inv`: the groups that are saved were worked out from those still in the file; softening, `retain` and the checks of an edit make of them one of the `Outcomes` |
| `BackupsAreKept` | `[]BackupsAccumulate` | the property itself, with `Inv` for the types: only `Backup` writes a backup, to a name that is free or to a stamped one, and what it takes the place of leaves `putAside` |
| `TypesHold` | `[](TypeOK /\ Types)` of `SessionLog` | `Types` is inductive as it stands: each file has one name, no line is in two places, a mutex has one holder, and what a thread has in its hand follows from where it is |
| `LinesAreKept`, `FilesAreInOrder` | `[]LinesKept`, `[]FilesInAgeOrder` | `Invariant`, see below |
| `BudgetKept`, `DiskStaysBounded` | `[]DiskBound` | `Spare` with `Stocked`, see below |
| `ActiveFileIsKnown` | `[]ActiveFileKnown` | its part `Calm`, which also says what a thread between two steps knows of the directory |

The invariant of `SessionLog` has seven parts. `Ranked` is `FilesInAgeOrder` made
inductive: a file that bears a line that is owed shares its number with no other file, is
below the current ones, and its owed lines are older than *all* lines of the files above
it. So what pruning takes, by the numbers, it takes with all that is older, and with that
the budget is exceeded (`DoomedSpent`): nothing that is owed goes, and `LinesKept` follows.
`Keeps` is what a thread that read the directory has in its hand while others change it:
the number of its next file is above the bearers, the archive it renames to replaces none
of them, and none of them is among the files it is to prune. `NoOverwrite`: a file that
is not open for append has no owed line where the next one goes. These four hold while
two `Logger`s are at work as well. `Alone1` and `Calm` are about the time when only one
is: it is the session's, there is one current file at most, above all archives, and its
`Logger` counts no fewer lines than there are in it and in the buffer. That is what makes a new line, which
is owed, the youngest in the highest file. `Types` is the seventh.

The proof holds for any number of `Logger`s, and needs one thing that a run with two cannot
show: a `Logger` that was replaced keeps its file while a thread is in a call with it,
also when another replacement follows.

`Spare` is the invariant of `DiskBound`, and rests on the first one. Let what is allowed be
the budget (`MostKept`) and one file (`MostEntries`) for each pruning in `cut`. Then the
archives are within it while no pruning is under way, all the files are within one file
more, and where a line is about to be written, also the second time after a failure, there
is room in that for it (`Roomy`): a file that is resumed or gone on with is shorter than a
full one, and a new one, or an archive that is rolled back, is the only file beside what
is allowed. A rotation keeps the number of lines and makes them all archives; the pruning it starts
brings them back within the budget, which is known from the moment it is planned
(`PlannedBy`, from `DoomedLeaves`: what a pruning leaves is within the budget), or is cut
short, and one file more is allowed. A line lengthens no archive (`ApartBy`), and no call
begins as a second try (`FreshBy`). Lines whose flush failed come to the disk when no room
was looked for; `Stocked` says that there is room for all of them in one file more, with the
line that is about to be written, and that their file is no archive. All of it is about the time in which no `Logger` strays;
the number of lines, a cardinality in the model, is taken apart file by file (`TallySplits`).

`OneCloser` and `OneOpener` are what the daemon gives: one stdin thread, one worker. The
mobile library gives neither, and two threads are enough for either property to fail there:
a create's last write fails after another thread unlocked the new vault, or a close that
was refused gives its session back between two probes. `NothingCutsShort` says
`Faults` has no exit, panic or failing cleanup; each leaves a half-made folder behind
(`vault/create.rs:34`), which is listed as a hazard.

Only model-checked: `Answered`, `EverySettled`, `NoOrphanDaemon`, `JobsEnd` (liveness under
fairness is out of the prover's reach). Every invariant and every other action property that
a passing run checks is stated by a theorem, with the assumptions the table names.

The last four theorems of `LifecycleUi` are about the vaults that were there from the start
(`Old`), in every behaviour. Three of the properties are about those as well;
`PasswordReachesCore` is checked for every vault, and `PasswordsReachTheCore` proves it for
the old ones, and for all where no vault is created (`scope.new = {}`). The proofs follow one
vault. `Happens` has fourteen cases, which say what a step is to it: an action on the
vault, an answer about it, a step of a list request, or something elsewhere that can at most
bring its job from waiting to sent. `StepHappens` shows that every step is one of them,
and five lemmas that each part of the invariant survives them all: `KnownInv` (the vault
is in the core, the rows and the lists or in none), `BadgeInv`, `SessionInv`, `PasswordInv`
and `SupplyInv`.

## Not modelled, and what could follow

- App settings and the root alias: a save is a validation and two file writes with no
  promise about a failure in between, and resolution is a decision table over what one
  caller finds on disk. `VaultSession` has their effect, that the root changes under
  running RPCs, and `SessionLog` that the logging settings change.
- Contents store: no RPC writes a user file yet, so a crash inside the store can only
  strike the seed or the empty index; `VaultSession` takes a flush as one step that
  succeeds or fails. Cryptography is arithmetic on bytes, not state.
- The mobile hooks, which repeat the desktop's with other timers.
- Screens, translations, mocks, distribution and path classification: presentation, or
  pure functions of their input.
- Proofs: the four properties above for vaults that are created, under a bound on
  the list requests that may overtake one another.
