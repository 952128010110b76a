----------------------------- MODULE LifecycleUi -----------------------------
(***************************************************************************)
(* The desktop user interface's side of opening, closing and creating      *)
(* vaults: useVaultLifecycleActions with the dialog it drives, the vault   *)
(* rows of useVaultListState and the list fetches that refresh them, and   *)
(* the passwords that desktopVaultLifecycleService keeps in session RAM.   *)
(*                                                                         *)
(* The core acts on a request some time before its answer arrives, and on  *)
(* a request the renderer has given up on later still.  Everything else    *)
(* that can come at any time is an action too: clicks, the idle timer,     *)
(* answers to getSettings and vault_list, the timer of the Closing badge.  *)
(***************************************************************************)
EXTENDS PipelineRun

CONSTANTS
    Fetches,        \* vault_list requests that may be on their way at once
    Starts          \* what the core has at the start, which vaults are in security mode
                    \* always_prompt; and as bounds how many requests the renderer may
                    \* give up on, the vaults it may create, the fetches it may make

\* making: the folder and the config.toml of a create that has not ended; left: those of
\* one that failed and could not remove them.
CoreStates == {"absent", "making", "left", "closed", "open"}
RowStates == {"absent", "closed", "open", "closing"}
Requests == [vault : Vaults, intent : {"unlock", "close"}]
Calls == [vault : Vaults, kind : Kinds]

ASSUME LifecycleUiAssumption ==
    /\ None \notin Vaults /\ None \notin Job /\ None \notin Requests /\ None \notin Calls
    /\ Starts \subseteq [core : [Vaults -> {"absent", "closed", "open"}], prompt : SUBSET Vaults,
                         patience : Nat, new : SUBSET Vaults, fetches : SUBSET Fetches]

VARIABLES
    core,           \* vault -> what the core has
    late,           \* a request given up on and not yet ended
    prompt,         \* the vaults in mode always_prompt
    row,            \* vault -> its row: session, or no row
    creating,       \* pendingCreatesRef
    fetch,          \* fetch -> where it is, what it saw, what was written since it began
    request,        \* lifecycleRequest: the dialog on screen
    asked,          \* the vaults whose lock waits for getSettings
    wasOpen,        \* closeStartedWhileOpenRef
    ram,            \* vaultPasswordInRam
    retain,         \* unlockRetainPasswordsRef
    typedClose,     \* typedClosePasswordRef
    restoring,      \* vault -> the getSettings after its open that no later event outdates
    gaveUp,         \* the vaults a request of which was ever given up on
    halfSeen,       \* the vaults with a row that a list read in the middle of a create had
    crossed,        \* the vaults whose typed close was waiting when another took typedClose
    patience,       \* bound: requests the renderer may still give up on
    scope           \* bound: the vaults and fetches of Starts

pipe == <<run, queue>>
rows == <<row, fetch, creating, halfSeen>>
secrets == <<retain, typedClose, crossed>>
world == <<core, late, prompt, gaveUp, patience, scope>>
vars == <<pipe, hold, rows, request, asked, wasOpen, ram, secrets, restoring, world>>

FetchStates == [is : {"idle", "asked", "read"}, saw : [Vaults -> CoreStates],
                written : SUBSET Vaults]
NoFetch == [is |-> "idle", saw |-> [v \in Vaults |-> "absent"], written |-> {}]

\* openRetainGenRef: a bump makes the pending restore of the vault a stale one, which
\* does nothing when it is answered.
Restores == {"none", "with", "without"}
Bumped(v) == [restoring EXCEPT ![v] = "none"]

-----------------------------------------------------------------------------
\* What the list shows.

\* A vault without a row has no status.
ListStatus(v) ==
    IF row[v] = "absent" THEN "absent"
    ELSE IF OfKind(v, "create") THEN "creating"
    ELSE IF Tracked(v) /\ OfKind(v, "open") THEN "opening"
    ELSE IF OfKind(v, "close") \/ Held(v) THEN "closing"
    ELSE IF Waiting(v) THEN "queued"
    ELSE row[v]

\* A data folder may be switched when this holds of no row.
BlocksFolderChange(v) == ListStatus(v) \notin {"closed", "absent"}

\* setVaultRuntimeState: the row changes, and no fetch that is on its way may undo it.
Touched(v) == [f \in Fetches |->
    IF fetch[f].is = "idle" THEN fetch[f] ELSE [fetch[f] EXCEPT !.written = @ \cup {v}]]
SetRow(v, session) ==
    /\ row' = IF row[v] = "absent" THEN row ELSE [row EXCEPT ![v] = session]
    /\ fetch' = Touched(v)

\* Mutant: the row stays.
DropWriteOnly(v) ==
    /\ fetch' = [f \in Fetches |-> [fetch[f] EXCEPT !.written = @ \ {v}]]
    /\ UNCHANGED <<row, halfSeen>>

\* removeVault also forgets when the row was written.
DropRow(v) ==
    /\ row' = [row EXCEPT ![v] = "absent"]
    /\ halfSeen' = halfSeen \ {v}
    /\ fetch' = [f \in Fetches |-> [fetch[f] EXCEPT !.written = @ \ {v}]]

\* Mutant: the list of the core always wins.
NewerNever(v, f) == FALSE

\* The row was written after the fetch began.
Newer(v, f) == v \in f.written

\* mergeVaultListSnapshot, where a vault that is being created stays in the list with
\* the row made for it.  A vault that is half made has no session.
Merged(v, f) ==
    LET made == f.saw[v] = "absent" /\ v \in creating
        listed == IF made \/ f.saw[v] \in {"making", "left"} THEN "closed" ELSE f.saw[v]
    IN IF listed = "absent" THEN IF Newer(v, f) THEN row[v] ELSE "absent"
       ELSE IF row[v] = "absent" THEN listed
       ELSE IF row[v] = "closing" \/ Newer(v, f) THEN row[v]
       ELSE listed

-----------------------------------------------------------------------------
Init ==
    /\ \E start \in Starts :
          /\ core = start.core /\ prompt = start.prompt /\ patience = start.patience
          /\ scope = [new |-> start.new, fetches |-> start.fetches]
    /\ late = None /\ gaveUp = {}
    /\ run = NoRun /\ queue = <<>>
    /\ hold = [v \in Vaults |-> "none"]
    /\ row = core
    /\ creating = {} /\ halfSeen = {}
    /\ fetch = [f \in Fetches |-> NoFetch]
    /\ request = None /\ asked = {} /\ wasOpen = {}
    /\ ram = {} /\ retain = {} /\ typedClose = None /\ crossed = {}
    /\ restoring = [v \in Vaults |-> "none"]

-----------------------------------------------------------------------------
\* The list.

StartFetch(f) ==
    /\ f \in scope.fetches /\ fetch[f].is = "idle"
    /\ fetch' = [fetch EXCEPT ![f] = [NoFetch EXCEPT !.is = "asked"]]
    /\ UNCHANGED <<pipe, hold, row, creating, halfSeen, request, asked, wasOpen, ram,
                   secrets, restoring, world>>

\* vault_list, on the light thread: the folders that have a config.toml, each with
\* whether it is open.
CoreLists(f) ==
    /\ fetch[f].is = "asked"
    /\ fetch' = [fetch EXCEPT ![f].is = "read", ![f].saw = core]
    /\ UNCHANGED <<pipe, hold, row, creating, halfSeen, request, asked, wasOpen, ram,
                   secrets, restoring, world>>

\* applyVaultList: what the list has is no longer being created.
ApplyFetch(f) ==
    /\ fetch[f].is = "read"
    /\ row' = [v \in Vaults |-> Merged(v, fetch[f])]
    /\ creating' = {v \in creating : fetch[f].saw[v] = "absent"}
    /\ halfSeen' = {v \in Vaults :
           row'[v] # "absent" /\ (v \in halfSeen \/ fetch[f].saw[v] = "making")}
    /\ fetch' = [fetch EXCEPT ![f] = NoFetch]
    /\ UNCHANGED <<pipe, hold, request, asked, wasOpen, ram, secrets, restoring, world>>

FailFetch(f) ==
    /\ fetch[f].is # "idle"
    /\ fetch' = [fetch EXCEPT ![f] = NoFetch]
    /\ UNCHANGED <<pipe, hold, row, creating, halfSeen, request, asked, wasOpen, ram,
                   secrets, restoring, world>>

-----------------------------------------------------------------------------
\* Clicks.  While the dialog is on screen there are none on the rows.

\* Unlock, or back to the dialog of an open that is under way.
ClickUnlock(v) ==
    /\ request = None
    /\ ListStatus(v) \in {"closed", "opening", "queued"}
    /\ request' = [vault |-> v, intent |-> "unlock"]
    /\ UNCHANGED <<pipe, hold, rows, asked, wasOpen, ram, secrets, restoring, world>>

\* Lock: the security mode is read first.
ClickLock(v) ==
    /\ request = None
    /\ ListStatus(v) = "open"
    /\ asked' = asked \cup {v}
    /\ UNCHANGED <<pipe, hold, rows, request, wasOpen, ram, secrets, restoring, world>>

\* Mutant: the password of an open under way is given up with the dialog.
DismissForgetting ==
    /\ request # None
    /\ request' = None
    /\ ram' = ram \ {request.vault}
    /\ UNCHANGED <<pipe, hold, rows, asked, wasOpen, secrets, restoring, world>>

Dismiss ==
    /\ request # None
    /\ request' = None
    /\ UNCHANGED <<pipe, hold, rows, asked, wasOpen, ram, secrets, restoring, world>>

\* startOpenPipeline.
StartOpen(v, passwords) ==
    /\ hold' = Released(v)
    /\ restoring' = Bumped(v)
    /\ Begin([vault |-> v, kind |-> "open", typed |-> TRUE], passwords, ram')

\* startClosePipeline, for a vault that is not Busy: open is whether the caller's row
\* was.  The badge is on from now.
StartClose(v, open, typed, passwords) ==
    /\ ~Busy(v)
    /\ wasOpen' = IF open THEN wasOpen \cup {v} ELSE wasOpen \ {v}
    /\ Begin([vault |-> v, kind |-> "close", typed |-> typed], passwords, ram')
    /\ hold' = Begun(v)
    /\ SetRow(v, "closing")

\* typedClosePasswordRef is written: whatever other vault it named is no longer known.
SetTyped(v, next) ==
    /\ typedClose' = next
    /\ crossed' = crossed \cup ({typedClose} \ {v, None})

\* handleLifecycleConfirm.  The dialog closes or stays on until the answer.
Submitted == request' \in {None, request}

ConfirmUnlock ==
    /\ request # None /\ request.intent = "unlock" /\ ~Busy(request.vault)
    /\ StartOpen(request.vault, ram \cup {request.vault})
    /\ retain' = retain \cup {request.vault}
    /\ Submitted
    /\ UNCHANGED <<rows, asked, wasOpen, typedClose, crossed, world>>

\* The password is set first, and taken back when the close is refused: the vault is
\* Held, or has unsaved drafts.
ConfirmTypedClose ==
    /\ request # None /\ request.intent = "close" /\ ~Busy(request.vault)
    /\ LET v == request.vault IN
       \/ /\ ~Held(v)
          /\ StartClose(v, row[v] = "open", TRUE, ram \cup {v})
          /\ SetTyped(v, v)
          /\ Submitted
          /\ UNCHANGED <<creating, halfSeen>>
       \/ /\ SetTyped(v, None)
          /\ ram' = ram \ {v}
          /\ UNCHANGED <<pipe, hold, rows, request, wasOpen>>
    /\ UNCHANGED <<asked, retain, restoring, world>>

\* The dialog asks for no password when the row is no longer open.
ConfirmBareClose ==
    /\ request # None /\ request.intent = "close"
    /\ LET v == request.vault IN
       /\ row[v] # "open" /\ ~Held(v)
       /\ StartClose(v, FALSE, FALSE, ram)
    /\ request' = None
    /\ UNCHANGED <<creating, halfSeen, asked, secrets, restoring, world>>

\* The answer to the getSettings of a lock.  A failed read counts as session_ram.  The
\* handler still has the row and the holds it was clicked on: open, and not Held.
LockSettings(v) ==
    /\ v \in asked
    /\ asked' = asked \ {v}
    /\ \/ /\ v \in prompt
          /\ request' = [vault |-> v, intent |-> "close"]
          /\ UNCHANGED <<pipe, hold, row, fetch, wasOpen, ram>>
       \/ /\ StartClose(v, TRUE, FALSE, ram)
          /\ UNCHANGED request
       \/ UNCHANGED <<pipe, hold, row, fetch, request, wasOpen, ram>>
    /\ UNCHANGED <<creating, halfSeen, secrets, restoring, world>>

\* The idle timer closes a vault whose row is open and that needs no password.
AutoClose(v) ==
    /\ row[v] = "open" /\ v \notin prompt /\ ~Held(v)
    /\ StartClose(v, TRUE, FALSE, ram)
    /\ UNCHANGED <<creating, halfSeen, request, asked, secrets, restoring, world>>

\* handleCreateVault: a row at once, and the job, which has its password with it.
CreateVault(v) ==
    /\ request = None
    /\ v \in scope.new /\ row[v] = "absent" /\ ~Busy(v)
    /\ creating' = creating \cup {v}
    /\ row' = [row EXCEPT ![v] = "closed"]
    /\ fetch' = Touched(v)
    /\ Begin([vault |-> v, kind |-> "create", typed |-> FALSE], ram, ram')
    /\ UNCHANGED <<hold, halfSeen, request, asked, wasOpen, secrets, restoring, world>>

-----------------------------------------------------------------------------
\* The core.

Serves(v, kind, password) ==
    CASE kind = "open" -> core[v] \in {"closed", "left"} /\ password
      [] kind = "close" -> core[v] = "open" /\ (v \in prompt => password)
      [] kind = "create" -> core[v] = "making"

\* Mutant: the session is named after the request.
ServedAsKind(v, kind) == [core EXCEPT ![v] = kind]

Served(v, kind) == [core EXCEPT ![v] = IF kind = "open" THEN "open" ELSE "closed"]

\* create_vault makes the folder and its config.toml before it waits for Argon2; when it
\* fails it removes them, if it can.
Makes(call) ==
    /\ call.kind = "create" /\ core[call.vault] = "absent"
    /\ core' = [core EXCEPT ![call.vault] = "making"]
Undone(call) ==
    IF call.kind = "create" /\ core[call.vault] = "making"
    THEN {[core EXCEPT ![call.vault] = after] : after \in {"absent", "left"}}
    ELSE {core}

\* vault_open and vault_create wait for one another, so for a late one; vault_close
\* waits for neither.
Heavy(call) == call.kind \in {"open", "create"}

CoreActs ==
    /\ run.rpc = "sent"
    /\ ~(Heavy(run.job) /\ late # None /\ Heavy(late.call))
    /\ \/ Makes(run.job) /\ UNCHANGED run
       \/ /\ Serves(run.job.vault, run.job.kind, run.password)
          /\ core' = Served(run.job.vault, run.job.kind)
          /\ run' = [run EXCEPT !.rpc = "ok"]
       \/ /\ run' = [run EXCEPT !.rpc = "failed"]
          /\ core' \in Undone(run.job)
    /\ UNCHANGED <<queue, hold, rows, request, asked, wasOpen, ram, secrets, restoring,
                   late, prompt, gaveUp, patience, scope>>

\* invoke rejects after its budget; the daemon goes on.
TimesOut ==
    /\ run.rpc = "sent" /\ late = None /\ patience > 0
    /\ late' = [call |-> [vault |-> run.job.vault, kind |-> run.job.kind],
                password |-> run.password]
    /\ run' = [run EXCEPT !.rpc = "failed"]
    /\ gaveUp' = gaveUp \cup {run.job.vault}
    /\ patience' = patience - 1
    /\ UNCHANGED <<queue, hold, rows, request, asked, wasOpen, ram, secrets, restoring,
                   core, prompt, scope>>

LateActs ==
    /\ late # None
    /\ \/ Makes(late.call) /\ UNCHANGED late
       \/ /\ late' = None
          /\ \/ /\ Serves(late.call.vault, late.call.kind, late.password)
                /\ core' = Served(late.call.vault, late.call.kind)
             \/ core' \in Undone(late.call)
    /\ UNCHANGED <<pipe, hold, rows, request, asked, wasOpen, ram, secrets, restoring,
                   prompt, gaveUp, patience, scope>>

-----------------------------------------------------------------------------
\* The answer to the job in flight: onComplete or onError, then the next job.

\* Mutant: the password stays.
ClearedNot(v) == ram

\* clearPasswordInSession
Cleared(v) == ram \ {v}

Answers(kind, rpc) == run.rpc = rpc /\ run.job.kind = kind
NoRequestFor(v) == IF request # None /\ request.vault = v THEN None ELSE request

OpenDone ==
    /\ Answers("open", "ok")
    /\ LET v == run.job.vault IN
       /\ restoring' = [restoring EXCEPT ![v] = IF v \in retain THEN "with" ELSE "without"]
       /\ retain' = retain \ {v}
       /\ request' = NoRequestFor(v)
       /\ hold' = Released(v)
       /\ SetRow(v, "open")
    /\ Advance(ram, ram')
    /\ UNCHANGED <<creating, halfSeen, asked, wasOpen, typedClose, crossed, world>>

\* A wrong password leaves the dialog on screen, any other error closes it.
OpenFailed ==
    /\ Answers("open", "failed")
    /\ LET v == run.job.vault IN
       /\ restoring' = Bumped(v)
       /\ retain' = retain \ {v}
       /\ request' \in {request, NoRequestFor(v)}
       /\ Advance(Cleared(v), ram')
    /\ UNCHANGED <<hold, rows, asked, wasOpen, typedClose, crossed, world>>

CloseDone ==
    /\ Answers("close", "ok")
    /\ LET v == run.job.vault IN
       /\ SetTyped(v, None)
       /\ request' = NoRequestFor(v)
       /\ restoring' = Bumped(v)
       /\ hold' = Settling(v)
       /\ Advance(Cleared(v), ram')
    /\ UNCHANGED <<rows, asked, wasOpen, retain, world>>

\* revertCloseFailure: the row is again what it was when the close started.
CloseFailed ==
    /\ Answers("close", "failed")
    /\ LET v == run.job.vault
           typed == typedClose = v IN
       /\ typedClose' = IF typed THEN None ELSE typedClose
       /\ request' \in {request, NoRequestFor(v)}
       /\ hold' = Released(v)
       /\ wasOpen' = wasOpen \ {v}
       /\ SetRow(v, IF v \in wasOpen THEN "open" ELSE "closed")
       /\ Advance(IF typed THEN Cleared(v) ELSE ram, ram')
    /\ UNCHANGED <<creating, halfSeen, asked, retain, crossed, restoring, world>>

CreateDone ==
    /\ Answers("create", "ok")
    /\ fetch' = Touched(run.job.vault)
    /\ Advance(ram, ram')
    /\ UNCHANGED <<hold, row, creating, halfSeen, request, asked, wasOpen, secrets,
                   restoring, world>>

CreateFailed ==
    /\ Answers("create", "failed")
    /\ creating' = creating \ {run.job.vault}
    /\ DropRow(run.job.vault)
    /\ Advance(ram, ram')
    /\ UNCHANGED <<hold, request, asked, wasOpen, secrets, restoring, world>>

Answer == OpenDone \/ OpenFailed \/ CloseDone \/ CloseFailed \/ CreateDone \/ CreateFailed

\* The Closing badge has been on for long enough.
Reveal(v) ==
    /\ hold[v] = "timed"
    /\ hold' = Released(v)
    /\ wasOpen' = wasOpen \ {v}
    /\ SetRow(v, "closed")
    /\ UNCHANGED <<pipe, creating, halfSeen, request, asked, ram, secrets, restoring,
                   world>>

\* Mutant: the mode is not looked at.
RestorableInAnyMode(v) == restoring[v] = "with"

Restorable(v) == restoring[v] = "with" /\ v \notin prompt

\* The settings of a vault that was opened: the password may come back.
RestoreAnswer(v) ==
    /\ restoring[v] # "none"
    /\ restoring' = Bumped(v)
    /\ ram' \in IF row[v] # "open" THEN {ram}
                ELSE IF Restorable(v) THEN {ram \cup {v}, ram \ {v}}
                ELSE {ram \ {v}}
    /\ UNCHANGED <<pipe, hold, rows, request, asked, wasOpen, secrets, world>>

-----------------------------------------------------------------------------
Next ==
    \/ \E f \in Fetches : StartFetch(f) \/ CoreLists(f) \/ ApplyFetch(f) \/ FailFetch(f)
    \/ \E v \in Vaults : ClickUnlock(v) \/ ClickLock(v) \/ LockSettings(v) \/ AutoClose(v)
                         \/ CreateVault(v) \/ Reveal(v) \/ RestoreAnswer(v)
    \/ Dismiss \/ ConfirmUnlock \/ ConfirmTypedClose \/ ConfirmBareClose
    \/ CoreActs \/ TimesOut \/ LateActs \/ Answer

Spec == Init /\ [][Next]_vars

\* The core ends what it was asked, answers are handled and timers fire.  Nothing is
\* assumed of the user, of the idle timer or of the list.
FairSpec ==
    /\ Spec
    /\ WF_vars(CoreActs) /\ WF_vars(LateActs) /\ WF_vars(Answer)
    /\ \A v \in Vaults : WF_vars(Reveal(v))

-----------------------------------------------------------------------------
\* Properties.

\* The vaults that were there from the start.  Two lists that overtake one another can
\* take the row of any other vault away while its create is under way, and with the row
\* everything the list knows of it; what is said of Old is not true of those.
Old == Vaults \ scope.new

\* The variables have their types.
TypeOK ==
    /\ run \in Running \cup {NoRun} /\ queue \in Seq(Job)
    /\ hold \in [Vaults -> Holds]
    /\ core \in [Vaults -> CoreStates] /\ row \in [Vaults -> RowStates]
    /\ late \in [call : Calls, password : BOOLEAN] \cup {None}
    /\ prompt \subseteq Vaults /\ gaveUp \subseteq Vaults /\ patience \in Nat
    /\ scope \in [new : SUBSET Vaults, fetches : SUBSET Fetches]
    /\ creating \subseteq Vaults /\ fetch \in [Fetches -> FetchStates]
    /\ request \in Requests \cup {None} /\ asked \subseteq Vaults /\ wasOpen \subseteq Vaults
    /\ halfSeen \subseteq Vaults
    /\ ram \subseteq Vaults /\ retain \subseteq Vaults /\ crossed \subseteq Vaults
    /\ typedClose \in Vaults \cup {None}
    /\ restoring \in [Vaults -> Restores]

\* isVaultBlockingDataFolderChange: "Open / opening / closing / creating / queued keep
\* keys or in-flight work on the current root - switching would orphan sessions".  When
\* the list lets the data folder go the core holds no session and no request of such a
\* vault, unless one of its requests was given up on.
FolderSwitchIsSafe ==
    \A v \in Old \ gaveUp : ~BlocksFolderChange(v) => core[v] # "open" /\ ~Busy(v)

\* sessionRamPassword.ts: the map holds the copy of a request under way and, after an
\* open, that of a vault that is open.  The one typedClosePasswordRef of all vaults
\* makes an exception of two typed closes at once.
NoPasswordAtRest ==
    /\ \A v \in (ram \cap Old) \ (crossed \cup gaveUp) :
           row[v] \in {"open", "closing"} \/ OfKind(v, "open")
    /\ \A v \in retain : OfKind(v, "open")

\* "always_prompt must not keep the string after open": such a vault has a password in
\* the map only for a job of its own.
PromptModeForgets == \A v \in prompt \cap (ram \ crossed) : Busy(v)

\* runOpeningPipeline borrows the password when the job runs, which may be long after
\* the dialog set it: nothing in between takes it away.
PasswordReachesCore ==
    run.job # None => (run.job.kind = "open" \/ run.job.typed => run.password)

\* executeJob and advance: a job waits only behind one in flight, and a vault has one.
QueueIsServed ==
    /\ queue # <<>> => run.job # None
    /\ \A i, j \in DOMAIN queue : queue[i].vault = queue[j].vault => i = j
    /\ \A i \in DOMAIN queue : ~Tracked(queue[i].vault)

\* useClosingDisplayHold: the badge is on only over a row that is closing, so that its
\* timer never closes the row of a vault that was opened again.
HoldMeansClosing == \A v \in Old : Held(v) => row[v] = "closing" /\ ~OfKind(v, "open")

\* handleCreateVault: the row made before the create is gone when the create failed, and
\* is that of a vault of the core otherwise.  Only a list that was read while a create was
\* under way, and saw its folder, leaves a row for which the core may have nothing.
CreatedRows ==
    \A v \in Vaults \ halfSeen :
        row[v] # "absent" /\ ~OfKind(v, "create") => core[v] # "absent"

\* The queue serves every job, and revealClosed or revertCloseFailure follows every
\* close: a vault does not stay busy, nor its row on Closing.
Unsettled(v) == Busy(v) \/ row[v] = "closing"
JobsEnd == \A v \in Vaults : Unsettled(v) ~> ~Unsettled(v)
=============================================================================
