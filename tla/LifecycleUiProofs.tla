------------------------- MODULE LifecycleUiProofs --------------------------
(***************************************************************************)
(* Safety of the user interface's lifecycle pipeline for any number of     *)
(* vaults, of list requests under way and of requests given up on.         *)
(*                                                                         *)
(* The second half follows one vault that was there from the start: every  *)
(* step is one of fourteen to it (Happens), which are told in terms of     *)
(* what it does to the vault's session, row, badge, job and passwords.     *)
(***************************************************************************)
EXTENDS LifecycleUi, TLAPS

Jobs == Job \cup {None}
Rpcs == {"none", "sent", "ok", "failed"}

\* With no job in flight there is no RPC.
LEMMA RunTypes ==
    ASSUME TypeOK
    PROVE  /\ run \in [job : Jobs, password : BOOLEAN, rpc : Rpcs]
           /\ run.job = None => run = NoRun
           /\ run.rpc # "none" => run.job \in Job
<1>1. CASE run \in Running
  <2>1. run.job \in Job
    BY <1>1 DEF Running
  <2> QED
    BY <1>1, <2>1, LifecycleUiAssumption DEF Running, Jobs, Rpcs
<1>2. CASE run = NoRun
  BY <1>2 DEF NoRun, Jobs, Rpcs
<1> QED
  BY <1>1, <1>2 DEF TypeOK

-----------------------------------------------------------------------------
\* The two steps of the queue.

LEMMA ExecutedType ==
    ASSUME NEW job \in Job, NEW password
    PROVE  Executed(job, password) \in Running
<1>1. (job.vault \in password) \in BOOLEAN
  OBVIOUS
<1> QED
  BY <1>1 DEF Executed, Running

LEMMA BeginTypes ==
    ASSUME TypeOK, NEW job \in Job, NEW before \in SUBSET Vaults, NEW after,
           Begin(job, before, after)
    PROVE  /\ run' \in Running \cup {NoRun} /\ queue' \in Seq(Job)
           /\ after \subseteq before
<1>1. CASE run.job = None
  BY <1>1, ExecutedType DEF TypeOK, Begin, Borrowed
<1>2. CASE run.job # None
  <2>1. run' = run /\ queue' = Append(queue, job) /\ after = before
    BY <1>2 DEF Begin
  <2>2. queue \in Seq(Job)
    BY DEF TypeOK
  <2>3. Append(queue, job) \in Seq(Job)
    BY <2>2
  <2> QED
    BY <2>1, <2>3 DEF TypeOK
<1> QED
  BY <1>1, <1>2

LEMMA AdvanceTypes ==
    ASSUME TypeOK, NEW before \in SUBSET Vaults, NEW after, Advance(before, after)
    PROVE  /\ run' \in Running \cup {NoRun} /\ queue' \in Seq(Job)
           /\ after \subseteq before
<1>1. CASE queue = <<>>
  BY <1>1 DEF TypeOK, Advance
<1>2. CASE queue # <<>>
  <2>1. Head(queue) \in Job /\ Tail(queue) \in Seq(Job)
    BY <1>2 DEF TypeOK
  <2> QED
    BY <1>2, <2>1, ExecutedType DEF Advance, Borrowed
<1> QED
  BY <1>1, <1>2

\* No step but these two changes what is asked.
Asked(v, kind) == \E i \in DOMAIN queue : queue[i].vault = v /\ queue[i].kind = kind

LEMMA BeginAsks ==
    ASSUME TypeOK, NEW job \in Job, NEW before, NEW after, Begin(job, before, after)
    PROVE  /\ \A v, kind : OfKind(v, kind)' <=> OfKind(v, kind) \/ (job.vault = v /\ job.kind = kind)
           /\ \A v, kind : Asked(v, kind) => Asked(v, kind)'
           /\ \A v, kind : job.vault = v /\ job.kind = kind =>
                  Asked(v, kind)' \/ after = Borrowed(job, before)
<1> USE LifecycleUiAssumption DEF OfKind, Tracked, Asked
<1>1. CASE run.job = None
  <2>1. run'.job = job /\ queue' = queue /\ after = Borrowed(job, before)
    BY <1>1 DEF Begin, Executed
  <2> QED
    BY <1>1, <2>1
<1>2. CASE run.job # None
  <2>1. run' = run /\ queue' = Append(queue, job)
    BY <1>2 DEF Begin
  <2>2. /\ DOMAIN queue' = DOMAIN queue \cup {Len(queue) + 1}
        /\ \A i \in DOMAIN queue : queue'[i] = queue[i]
        /\ queue'[Len(queue) + 1] = job
    BY <2>1 DEF TypeOK
  <2> QED
    BY <2>1, <2>2
<1> QED
  BY <1>1, <1>2

LEMMA AdvanceAsks ==
    ASSUME TypeOK, NEW before, NEW after, Advance(before, after)
    PROVE  /\ \A v, kind : OfKind(v, kind)' <=> Asked(v, kind)
           /\ \A v : Asked(v, "open") => Asked(v, "open")' \/ v \notin after
           /\ run'.rpc \in {"none", "sent"}
<1> USE LifecycleUiAssumption DEF OfKind, Tracked, Asked
<1>1. CASE queue = <<>>
  <2>1. run' = NoRun /\ queue' = <<>>
    BY <1>1 DEF Advance
  <2>2. run'.job = None /\ DOMAIN queue = {} /\ DOMAIN queue' = {}
    BY <1>1, <2>1 DEF NoRun
  <2> QED
    BY <2>1, <2>2 DEF NoRun
<1>2. CASE queue # <<>>
  <2>1. /\ run'.job = queue[1] /\ run'.rpc = "sent" /\ queue' = Tail(queue)
        /\ after = Borrowed(queue[1], before)
    BY <1>2 DEF TypeOK, Advance, Executed
  <2>2. 1 \in DOMAIN queue /\ queue[1] \in Job /\ queue[1] # None
    BY <1>2 DEF TypeOK
  <2>3. /\ \A j \in DOMAIN queue' : j + 1 \in DOMAIN queue /\ queue'[j] = queue[j + 1]
        /\ \A i \in DOMAIN queue : i # 1 => i - 1 \in DOMAIN queue' /\ queue'[i - 1] = queue[i]
    BY <1>2, <2>1 DEF TypeOK
  <2>4. ASSUME NEW v, NEW kind PROVE OfKind(v, kind)' <=> Asked(v, kind)
    <3>1. OfKind(v, kind)' <=> \/ queue[1].vault = v /\ queue[1].kind = kind
                               \/ \E j \in DOMAIN queue' :
                                     queue'[j].vault = v /\ queue'[j].kind = kind
      BY <2>1, <2>2
    <3>2. ASSUME NEW j \in DOMAIN queue', queue'[j].vault = v, queue'[j].kind = kind
          PROVE  Asked(v, kind)
      BY <2>3, <3>2
    <3>3. ASSUME NEW i \in DOMAIN queue, i # 1, queue[i].vault = v, queue[i].kind = kind
          PROVE  \E j \in DOMAIN queue' : queue'[j].vault = v /\ queue'[j].kind = kind
      BY <2>3, <3>3
    <3> QED
      BY <2>2, <3>1, <3>2, <3>3
  <2>5. ASSUME NEW v, Asked(v, "open") PROVE Asked(v, "open")' \/ v \notin after
    <3>1. PICK i \in DOMAIN queue : queue[i].vault = v /\ queue[i].kind = "open"
      BY <2>5
    <3>2. CASE i = 1
      BY <2>1, <3>1, <3>2 DEF Borrowed
    <3>3. CASE i # 1
      BY <2>3, <3>1, <3>3
    <3> QED
      BY <3>2, <3>3
  <2> QED
    BY <2>1, <2>4, <2>5
<1> QED
  BY <1>1, <1>2

-----------------------------------------------------------------------------
\* The rows.

LEMMA TouchedTypes ==
    ASSUME TypeOK, NEW v \in Vaults, fetch' = Touched(v)
    PROVE  /\ fetch' \in [Fetches -> FetchStates]
           /\ \A f \in Fetches : fetch'[f].is = fetch[f].is /\ fetch'[f].saw = fetch[f].saw
<1> SUFFICES ASSUME NEW f \in Fetches
             PROVE  /\ Touched(v)[f] \in FetchStates
                    /\ Touched(v)[f].is = fetch[f].is /\ Touched(v)[f].saw = fetch[f].saw
  BY DEF Touched
<1>1. fetch[f] \in FetchStates
  BY DEF TypeOK
<1> QED
  BY <1>1 DEF Touched, FetchStates

LEMMA SetRowTypes ==
    ASSUME TypeOK, NEW v \in Vaults, NEW session \in RowStates, session # "absent",
           SetRow(v, session)
    PROVE  /\ row' \in [Vaults -> RowStates]
           /\ \A w \in Vaults : row'[w] = "absent" <=> row[w] = "absent"
           /\ fetch' \in [Fetches -> FetchStates]
           /\ \A f \in Fetches : fetch'[f].is = fetch[f].is /\ fetch'[f].saw = fetch[f].saw
<1>1. fetch' = Touched(v)
  BY DEF SetRow
<1>2. row' \in [Vaults -> RowStates] /\ \A w \in Vaults : row'[w] = "absent" <=> row[w] = "absent"
  BY DEF TypeOK, SetRow
<1> QED
  BY <1>1, <1>2, TouchedTypes

LEMMA DropRowTypes ==
    ASSUME TypeOK, NEW v \in Vaults, DropRow(v)
    PROVE  /\ row' = [row EXCEPT ![v] = "absent"] /\ row' \in [Vaults -> RowStates]
           /\ fetch' \in [Fetches -> FetchStates]
           /\ \A f \in Fetches : fetch'[f].is = fetch[f].is /\ fetch'[f].saw = fetch[f].saw
<1>1. row' = [row EXCEPT ![v] = "absent"] /\ row' \in [Vaults -> RowStates]
  BY DEF TypeOK, DropRow, RowStates, CoreStates
<1>2. fetch' = [f \in Fetches |-> [fetch[f] EXCEPT !.written = @ \ {v}]]
  BY DEF DropRow
<1>3. ASSUME NEW f \in Fetches
      PROVE  /\ [fetch[f] EXCEPT !.written = @ \ {v}] \in FetchStates
             /\ fetch'[f].is = fetch[f].is /\ fetch'[f].saw = fetch[f].saw
  <2>1. fetch[f] \in FetchStates
    BY DEF TypeOK
  <2> QED
    BY <1>2, <2>1 DEF FetchStates
<1> QED
  BY <1>1, <1>2, <1>3

LEMMA StartCloseTypes ==
    ASSUME TypeOK, NEW v \in Vaults, NEW open \in BOOLEAN, NEW typed \in BOOLEAN,
           NEW passwords \in SUBSET Vaults, StartClose(v, open, typed, passwords)
    PROVE  /\ run' \in Running \cup {NoRun} /\ queue' \in Seq(Job)
           /\ hold' \in [Vaults -> Holds] /\ wasOpen' \subseteq Vaults /\ ram' \subseteq Vaults
           /\ row' \in [Vaults -> RowStates] /\ fetch' \in [Fetches -> FetchStates]
<1>1. [vault |-> v, kind |-> "close", typed |-> typed] \in Job
  BY DEF Job, Kinds
<1>2. /\ run' \in Running \cup {NoRun} /\ queue' \in Seq(Job) /\ ram' \subseteq Vaults
  BY <1>1, BeginTypes DEF StartClose
<1>3. hold' \in [Vaults -> Holds] /\ wasOpen' \subseteq Vaults
  BY DEF TypeOK, StartClose, Begun, Holds
<1>4. row' \in [Vaults -> RowStates] /\ fetch' \in [Fetches -> FetchStates]
  BY SetRowTypes DEF StartClose, RowStates
<1> QED
  BY <1>2, <1>3, <1>4

-----------------------------------------------------------------------------
\* Types.

LEMMA NoFetchType == NoFetch \in FetchStates
  BY DEF NoFetch, FetchStates, CoreStates

LEMMA InitTypes == Init => TypeOK
<1> SUFFICES ASSUME Init PROVE TypeOK
  OBVIOUS
<1>1. PICK start \in Starts :
        /\ core = start.core /\ prompt = start.prompt /\ patience = start.patience
        /\ scope = [new |-> start.new, fetches |-> start.fetches]
  BY DEF Init
<1>2. /\ core \in [Vaults -> CoreStates] /\ prompt \subseteq Vaults /\ patience \in Nat
      /\ scope \in [new : SUBSET Vaults, fetches : SUBSET Fetches]
  BY <1>1, LifecycleUiAssumption DEF CoreStates
<1>3. row \in [Vaults -> RowStates]
  BY <1>1, LifecycleUiAssumption DEF Init, RowStates
<1>4. run \in Running \cup {NoRun} /\ queue \in Seq(Job)
  BY DEF Init
<1>5. fetch \in [Fetches -> FetchStates]
  BY NoFetchType DEF Init
<1>6. hold \in [Vaults -> Holds] /\ restoring \in [Vaults -> Restores]
  BY DEF Init, Holds, Restores
<1> QED
  BY <1>2, <1>3, <1>4, <1>5, <1>6 DEF Init, TypeOK

LEMMA FetchTypes ==
    ASSUME TypeOK, NEW f \in Fetches,
           StartFetch(f) \/ CoreLists(f) \/ ApplyFetch(f) \/ FailFetch(f)
    PROVE  TypeOK'
<1> USE DEF pipe, secrets, world
<1> fetch[f] \in FetchStates /\ fetch \in [Fetches -> FetchStates]
  BY DEF TypeOK
<1>1. CASE StartFetch(f)
  <2>1. [NoFetch EXCEPT !.is = "asked"] \in FetchStates
    BY NoFetchType DEF FetchStates
  <2>2. fetch' \in [Fetches -> FetchStates]
    BY <1>1, <2>1 DEF StartFetch
  <2> QED
    BY <1>1, <2>2 DEF TypeOK, StartFetch
<1>2. CASE CoreLists(f)
  <2>1. [fetch[f] EXCEPT !.is = "read", !.saw = core] \in FetchStates
    BY DEF TypeOK, FetchStates
  <2>2. fetch' = [fetch EXCEPT ![f] = [fetch[f] EXCEPT !.is = "read", !.saw = core]]
    BY <1>2 DEF CoreLists, FetchStates
  <2>3. fetch' \in [Fetches -> FetchStates]
    BY <2>1, <2>2
  <2> QED
    BY <1>2, <2>3 DEF TypeOK, CoreLists
<1>3. CASE ApplyFetch(f)
  <2>1. \A v \in Vaults : fetch[f].saw[v] \in CoreStates /\ row[v] \in RowStates
    BY DEF TypeOK, FetchStates
  <2>2. \A v \in Vaults : Merged(v, fetch[f]) \in RowStates
    BY <2>1 DEF Merged, RowStates, CoreStates
  <2>3. row' \in [Vaults -> RowStates] /\ creating' \subseteq Vaults /\ halfSeen' \subseteq Vaults
    BY <1>3, <2>2 DEF TypeOK, ApplyFetch
  <2>4. fetch' \in [Fetches -> FetchStates]
    BY <1>3, NoFetchType DEF ApplyFetch
  <2> QED
    BY <1>3, <2>3, <2>4 DEF TypeOK, ApplyFetch
<1>4. CASE FailFetch(f)
  BY <1>4, NoFetchType DEF TypeOK, FailFetch
<1> QED
  BY <1>1, <1>2, <1>3, <1>4

LEMMA ClickTypes ==
    ASSUME TypeOK, NEW v \in Vaults,
           \/ ClickUnlock(v) \/ ClickLock(v) \/ LockSettings(v) \/ AutoClose(v)
           \/ CreateVault(v) \/ Reveal(v) \/ RestoreAnswer(v)
    PROVE  TypeOK'
<1> USE DEF pipe, rows, secrets, world
<1>1. CASE ClickUnlock(v)
  BY <1>1 DEF TypeOK, ClickUnlock, Requests
<1>2. CASE ClickLock(v)
  BY <1>2 DEF TypeOK, ClickLock
<1>3. CASE LockSettings(v)
  <2>1. CASE StartClose(v, TRUE, FALSE, ram) /\ UNCHANGED request
    <3>1. /\ run' \in Running \cup {NoRun} /\ queue' \in Seq(Job)
          /\ hold' \in [Vaults -> Holds] /\ wasOpen' \subseteq Vaults /\ ram' \subseteq Vaults
          /\ row' \in [Vaults -> RowStates] /\ fetch' \in [Fetches -> FetchStates]
      BY <2>1, StartCloseTypes DEF TypeOK
    <3> QED
      BY <1>3, <2>1, <3>1 DEF TypeOK, LockSettings
  <2>2. CASE /\ request' \in {request, [vault |-> v, intent |-> "close"]}
             /\ UNCHANGED <<pipe, hold, row, fetch, wasOpen, ram>>
    <3>1. request' \in Requests \cup {None}
      BY <2>2 DEF TypeOK, Requests
    <3>2. asked' \subseteq Vaults /\ UNCHANGED <<creating, halfSeen, secrets, restoring, world>>
      BY <1>3 DEF TypeOK, LockSettings
    <3> QED
      BY <2>2, <3>1, <3>2 DEF TypeOK
  <2> QED
    BY <1>3, <2>1, <2>2, Zenon DEF LockSettings
<1>4. CASE AutoClose(v)
  <2>1. /\ run' \in Running \cup {NoRun} /\ queue' \in Seq(Job)
        /\ hold' \in [Vaults -> Holds] /\ wasOpen' \subseteq Vaults /\ ram' \subseteq Vaults
        /\ row' \in [Vaults -> RowStates] /\ fetch' \in [Fetches -> FetchStates]
    BY <1>4, StartCloseTypes DEF TypeOK, AutoClose
  <2> QED
    BY <1>4, <2>1 DEF TypeOK, AutoClose
<1>5. CASE CreateVault(v)
  <2>1. [vault |-> v, kind |-> "create", typed |-> FALSE] \in Job
    BY DEF Job, Kinds
  <2>2. /\ run' \in Running \cup {NoRun} /\ queue' \in Seq(Job) /\ ram' \subseteq Vaults
    BY <1>5, <2>1, BeginTypes DEF TypeOK, CreateVault
  <2>3. fetch' \in [Fetches -> FetchStates]
    BY <1>5, TouchedTypes DEF CreateVault
  <2>4. row' \in [Vaults -> RowStates] /\ creating' \subseteq Vaults
    BY <1>5 DEF TypeOK, CreateVault, RowStates, CoreStates
  <2> QED
    BY <1>5, <2>2, <2>3, <2>4 DEF TypeOK, CreateVault
<1>6. CASE Reveal(v)
  <2>1. row' \in [Vaults -> RowStates] /\ fetch' \in [Fetches -> FetchStates]
    BY <1>6, SetRowTypes DEF Reveal, RowStates, CoreStates
  <2>2. hold' \in [Vaults -> Holds] /\ wasOpen' \subseteq Vaults
    BY <1>6 DEF TypeOK, Reveal, Released, Holds
  <2> QED
    BY <1>6, <2>1, <2>2 DEF TypeOK, Reveal
<1>7. CASE RestoreAnswer(v)
  <2>1. ram' \subseteq Vaults /\ restoring' \in [Vaults -> Restores]
    BY <1>7 DEF TypeOK, RestoreAnswer, Bumped, Restores
  <2> QED
    BY <1>7, <2>1 DEF TypeOK, RestoreAnswer
<1> QED
  BY <1>1, <1>2, <1>3, <1>4, <1>5, <1>6, <1>7

LEMMA ConfirmTypes ==
    ASSUME TypeOK,
           Dismiss \/ ConfirmUnlock \/ ConfirmTypedClose \/ ConfirmBareClose
    PROVE  TypeOK'
<1> USE DEF pipe, rows, secrets, world
<1> DEFINE v == request.vault
<1>0. request # None => v \in Vaults
  BY DEF TypeOK, Requests
<1>1. CASE Dismiss
  BY <1>1 DEF TypeOK, Dismiss
<1>2. CASE ConfirmUnlock
  <2>0. v \in Vaults
    BY <1>0, <1>2 DEF ConfirmUnlock
  <2>1. [vault |-> v, kind |-> "open", typed |-> TRUE] \in Job /\ ram \cup {v} \in SUBSET Vaults
    BY <2>0 DEF TypeOK, Job, Kinds
  <2>2. /\ run' \in Running \cup {NoRun} /\ queue' \in Seq(Job) /\ ram' \subseteq Vaults
    BY <1>2, <2>1, BeginTypes DEF ConfirmUnlock, StartOpen
  <2>3. hold' \in [Vaults -> Holds] /\ restoring' \in [Vaults -> Restores]
    BY <1>2 DEF TypeOK, ConfirmUnlock, StartOpen, Released, Bumped, Holds, Restores
  <2>4. retain' \subseteq Vaults /\ request' \in Requests \cup {None}
    BY <1>2, <2>0 DEF TypeOK, ConfirmUnlock, Submitted
  <2> QED
    BY <1>2, <2>2, <2>3, <2>4 DEF TypeOK, ConfirmUnlock
<1>3. CASE ConfirmTypedClose
  <2>0. v \in Vaults
    BY <1>0, <1>3 DEF ConfirmTypedClose
  <2>1. CASE /\ StartClose(v, row[v] = "open", TRUE, ram \cup {v})
             /\ SetTyped(v, v) /\ Submitted /\ UNCHANGED creating
    <3>1. ram \cup {v} \in SUBSET Vaults /\ (row[v] = "open") \in BOOLEAN
      BY <2>0 DEF TypeOK
    <3>2. /\ run' \in Running \cup {NoRun} /\ queue' \in Seq(Job)
          /\ hold' \in [Vaults -> Holds] /\ wasOpen' \subseteq Vaults /\ ram' \subseteq Vaults
          /\ row' \in [Vaults -> RowStates] /\ fetch' \in [Fetches -> FetchStates]
      BY <2>0, <2>1, <3>1, StartCloseTypes
    <3>3. request' \in Requests \cup {None} /\ typedClose' \in Vaults \cup {None} /\ crossed' \subseteq Vaults
      BY <2>0, <2>1 DEF TypeOK, SetTyped, Submitted
    <3> QED
      BY <1>3, <2>1, <3>2, <3>3 DEF TypeOK, ConfirmTypedClose
  <2>2. CASE /\ SetTyped(v, None) /\ ram' = ram \ {v}
             /\ UNCHANGED <<pipe, hold, rows, request, wasOpen>>
    <3>1. typedClose' \in Vaults \cup {None} /\ crossed' \subseteq Vaults /\ ram' \subseteq Vaults
      BY <2>2 DEF TypeOK, SetTyped
    <3> QED
      BY <1>3, <2>2, <3>1 DEF TypeOK, ConfirmTypedClose
  <2> QED
    BY <1>3, <2>1, <2>2, Zenon DEF ConfirmTypedClose
<1>4. CASE ConfirmBareClose
  <2>0. v \in Vaults
    BY <1>0, <1>4 DEF ConfirmBareClose
  <2>1. /\ run' \in Running \cup {NoRun} /\ queue' \in Seq(Job)
        /\ hold' \in [Vaults -> Holds] /\ wasOpen' \subseteq Vaults /\ ram' \subseteq Vaults
        /\ row' \in [Vaults -> RowStates] /\ fetch' \in [Fetches -> FetchStates]
    BY <1>4, <2>0, StartCloseTypes DEF TypeOK, ConfirmBareClose
  <2> QED
    BY <1>4, <2>1 DEF TypeOK, ConfirmBareClose
<1> QED
  BY <1>1, <1>2, <1>3, <1>4

LEMMA CoreTypes ==
    ASSUME TypeOK, CoreActs \/ TimesOut \/ LateActs
    PROVE  TypeOK'
<1> USE DEF pipe, rows, secrets, world
<1>0. \A v, kind : Served(v, kind) \in [Vaults -> CoreStates]
  BY DEF TypeOK, Served, CoreStates
<1>9. \A call : /\ Makes(call) => core' \in [Vaults -> CoreStates]
                /\ \A after \in Undone(call) : after \in [Vaults -> CoreStates]
  BY DEF TypeOK, Makes, Undone, CoreStates
<1>1. CASE CoreActs
  <2>1. run \in Running
    BY <1>1 DEF TypeOK, CoreActs, NoRun
  <2>2. [run EXCEPT !.rpc = "ok"] \in Running /\ [run EXCEPT !.rpc = "failed"] \in Running
    BY <2>1 DEF Running
  <2>3. run' \in Running
    BY <1>1, <2>1, <2>2 DEF CoreActs
  <2>4. core' \in [Vaults -> CoreStates]
    BY <1>0, <1>1, <1>9 DEF CoreActs
  <2> QED
    BY <1>1, <2>3, <2>4 DEF TypeOK, CoreActs
<1>2. CASE TimesOut
  <2>1. run \in Running
    BY <1>2 DEF TypeOK, TimesOut, NoRun
  <2>2. [run EXCEPT !.rpc = "failed"] \in Running /\ run.job \in Job
    BY <2>1 DEF Running
  <2>3. late' \in [call : Calls, password : BOOLEAN] /\ gaveUp' \subseteq Vaults
    BY <1>2, <2>1, <2>2 DEF TypeOK, TimesOut, Calls, Running, Job
  <2>4. patience' \in Nat
    BY <1>2 DEF TypeOK, TimesOut
  <2> QED
    BY <1>2, <2>2, <2>3, <2>4 DEF TypeOK, TimesOut
<1>3. CASE LateActs
  <2>1. core' \in [Vaults -> CoreStates] /\ late' \in {late, None}
    BY <1>0, <1>3, <1>9 DEF TypeOK, LateActs
  <2> QED
    BY <1>3, <2>1 DEF TypeOK, LateActs
<1> QED
  BY <1>1, <1>2, <1>3

LEMMA AnswerTypes == ASSUME TypeOK, Answer PROVE TypeOK'
<1> USE DEF pipe, rows, secrets, world
<1> DEFINE v == run.job.vault
<1>0. v \in Vaults /\ v # None /\ Cleared(v) \in SUBSET Vaults /\ ram \in SUBSET Vaults
  <2>1. run.job \in Job
    BY RunTypes DEF Answer, Answers, OpenDone, OpenFailed, CloseDone, CloseFailed, CreateDone, CreateFailed
  <2> QED
    BY <2>1, LifecycleUiAssumption DEF TypeOK, Job, Cleared
<1>1. ASSUME NEW before \in {ram, Cleared(v)}, Advance(before, ram')
      PROVE  run' \in Running \cup {NoRun} /\ queue' \in Seq(Job) /\ ram' \subseteq Vaults
  BY <1>0, <1>1, AdvanceTypes
<1>2. Released(v) \in [Vaults -> Holds] /\ Settling(v) \in [Vaults -> Holds]
  BY DEF TypeOK, Released, Settling, Holds
<1>3. NoRequestFor(v) \in Requests \cup {None}
  BY DEF TypeOK, NoRequestFor
<1>4. Bumped(v) \in [Vaults -> Restores]
  BY DEF TypeOK, Bumped, Restores
<1>5. CASE OpenDone
  <2>1. run' \in Running \cup {NoRun} /\ queue' \in Seq(Job) /\ ram' \subseteq Vaults
    BY <1>1, <1>5 DEF OpenDone
  <2>2. row' \in [Vaults -> RowStates] /\ fetch' \in [Fetches -> FetchStates]
    BY <1>0, <1>5, SetRowTypes DEF OpenDone, RowStates, CoreStates
  <2>3. restoring' \in [Vaults -> Restores] /\ retain' \subseteq Vaults
    BY <1>5 DEF TypeOK, OpenDone, Restores
  <2> QED
    BY <1>2, <1>3, <1>5, <2>1, <2>2, <2>3 DEF TypeOK, OpenDone
<1>6. CASE OpenFailed
  <2>1. run' \in Running \cup {NoRun} /\ queue' \in Seq(Job) /\ ram' \subseteq Vaults
    BY <1>1, <1>6 DEF OpenFailed
  <2>2. request' \in Requests \cup {None} /\ restoring' \in [Vaults -> Restores] /\ retain' \subseteq Vaults
    BY <1>3, <1>4, <1>6 DEF TypeOK, OpenFailed
  <2> QED
    BY <1>6, <2>1, <2>2 DEF TypeOK, OpenFailed
<1>7. CASE CloseDone
  <2>1. run' \in Running \cup {NoRun} /\ queue' \in Seq(Job) /\ ram' \subseteq Vaults
    BY <1>1, <1>7 DEF CloseDone
  <2>2. typedClose' \in Vaults \cup {None} /\ crossed' \subseteq Vaults
    BY <1>7 DEF TypeOK, CloseDone, SetTyped
  <2>3. restoring' \in [Vaults -> Restores]
    BY <1>4, <1>7 DEF CloseDone
  <2> QED
    BY <1>2, <1>3, <1>7, <2>1, <2>2, <2>3 DEF TypeOK, CloseDone
<1>8. CASE CloseFailed
  <2>1. run' \in Running \cup {NoRun} /\ queue' \in Seq(Job) /\ ram' \subseteq Vaults
    BY <1>1, <1>8 DEF CloseFailed
  <2>2. row' \in [Vaults -> RowStates] /\ fetch' \in [Fetches -> FetchStates]
    <3>1. PICK session \in {"open", "closed"} : SetRow(v, session)
      BY <1>8 DEF CloseFailed
    <3> QED
      BY <1>0, <3>1, SetRowTypes DEF RowStates, CoreStates
  <2>3. typedClose' \in Vaults \cup {None} /\ wasOpen' \subseteq Vaults
    BY <1>8 DEF TypeOK, CloseFailed
  <2>4. request' \in Requests \cup {None}
    BY <1>3, <1>8 DEF TypeOK, CloseFailed
  <2> QED
    BY <1>2, <1>8, <2>1, <2>2, <2>3, <2>4 DEF TypeOK, CloseFailed
<1>9. CASE CreateDone
  <2>1. run' \in Running \cup {NoRun} /\ queue' \in Seq(Job) /\ ram' \subseteq Vaults
    BY <1>1, <1>9 DEF CreateDone
  <2>2. fetch' \in [Fetches -> FetchStates]
    BY <1>0, <1>9, TouchedTypes DEF CreateDone
  <2> QED
    BY <1>9, <2>1, <2>2 DEF TypeOK, CreateDone
<1>10. CASE CreateFailed
  <2>1. run' \in Running \cup {NoRun} /\ queue' \in Seq(Job) /\ ram' \subseteq Vaults
    BY <1>1, <1>10 DEF CreateFailed
  <2>2. row' \in [Vaults -> RowStates] /\ fetch' \in [Fetches -> FetchStates]
    BY <1>0, <1>10, DropRowTypes DEF CreateFailed
  <2>3. creating' \subseteq Vaults /\ halfSeen' \subseteq Vaults
    BY <1>10 DEF TypeOK, CreateFailed, DropRow
  <2> QED
    BY <1>10, <2>1, <2>2, <2>3 DEF TypeOK, CreateFailed
<1> QED
  BY <1>5, <1>6, <1>7, <1>8, <1>9, <1>10 DEF Answer

LEMMA NextTypes == ASSUME TypeOK, [Next]_vars PROVE TypeOK'
<1>1. CASE UNCHANGED vars
  BY <1>1 DEF TypeOK, vars, pipe, rows, secrets, world
<1>2. CASE Next
  BY <1>2, FetchTypes, ClickTypes, ConfirmTypes, CoreTypes, AnswerTypes DEF Next
<1> QED
  BY <1>1, <1>2

\* In every state the pipeline, the list, the dialog and what is kept in RAM have the
\* types the hooks and services declare for them.
THEOREM LifecycleTypeCorrect == Spec => []TypeOK
<1> QED
  BY InitTypes, NextTypes, PTL DEF Spec

-----------------------------------------------------------------------------
\* The queue.

Starting == \E job \in Job : ~Busy(job.vault) /\ \E before, after : Begin(job, before, after)
Ending == run.job # None /\ \E before, after : Advance(before, after)
Standing == run'.job = run.job /\ queue' = queue

LEMMA StartCloseStarts ==
    ASSUME NEW v \in Vaults, NEW open, NEW typed \in BOOLEAN, NEW passwords,
           StartClose(v, open, typed, passwords)
    PROVE  Starting
<1>1. [vault |-> v, kind |-> "close", typed |-> typed] \in Job
  BY DEF Job, Kinds
<1>2. ~Busy(v) /\ Begin([vault |-> v, kind |-> "close", typed |-> typed], passwords, ram')
  BY DEF StartClose
<1> QED
  BY <1>1, <1>2 DEF Starting

LEMMA PipeSteps ==
    ASSUME TypeOK, [Next]_vars
    PROVE  Starting \/ (Ending /\ Answer) \/ Standing
<1> USE DEF pipe
<1>0. request # None => request.vault \in Vaults
  BY DEF TypeOK, Requests
<1>1. ASSUME NEW v \in Vaults, LockSettings(v) \/ AutoClose(v) PROVE Starting \/ Standing
  <2>1. StartClose(v, TRUE, FALSE, ram) \/ UNCHANGED pipe
    BY <1>1 DEF LockSettings, AutoClose
  <2> QED
    BY <2>1, StartCloseStarts DEF Standing
<1>2. ASSUME NEW v \in Vaults, CreateVault(v) PROVE Starting
  <2>1. [vault |-> v, kind |-> "create", typed |-> FALSE] \in Job
    BY DEF Job, Kinds
  <2> QED
    BY <1>2, <2>1 DEF CreateVault, Starting
<1>3. CASE ConfirmUnlock
  <2>1. [vault |-> request.vault, kind |-> "open", typed |-> TRUE] \in Job
    BY <1>0, <1>3 DEF ConfirmUnlock, Job, Kinds
  <2> QED
    BY <1>3, <2>1 DEF ConfirmUnlock, StartOpen, Starting
<1>4. CASE ConfirmTypedClose \/ ConfirmBareClose
  <2>1. request.vault \in Vaults
    BY <1>0, <1>4 DEF ConfirmTypedClose, ConfirmBareClose
  <2>2. \/ UNCHANGED pipe
        \/ \E open, passwords : \E typed \in BOOLEAN :
              StartClose(request.vault, open, typed, passwords)
    BY <1>4 DEF ConfirmTypedClose, ConfirmBareClose
  <2> QED
    BY <2>1, <2>2, StartCloseStarts DEF Standing
<1>5. ASSUME Answer PROVE Ending
  <2>1. run.job # None
    BY <1>5, RunTypes, LifecycleUiAssumption
    DEF Answer, Answers, OpenDone, OpenFailed, CloseDone, CloseFailed, CreateDone, CreateFailed
  <2>2. \E before, after : Advance(before, after)
    BY <1>5 DEF Answer, OpenDone, OpenFailed, CloseDone, CloseFailed, CreateDone, CreateFailed
  <2> QED
    BY <2>1, <2>2 DEF Ending
<1>6. CASE CoreActs \/ TimesOut
  <2>1. queue' = queue /\ (run' = run \/ \E rpc : run' = [run EXCEPT !.rpc = rpc])
    BY <1>6 DEF CoreActs, TimesOut
  <2> QED
    BY <2>1, RunTypes DEF Standing
<1>7. ASSUME UNCHANGED pipe PROVE Standing
  BY <1>7 DEF Standing
<1>8. CASE \E f \in Fetches : StartFetch(f) \/ CoreLists(f) \/ ApplyFetch(f) \/ FailFetch(f)
  BY <1>7, <1>8 DEF StartFetch, CoreLists, ApplyFetch, FailFetch
<1>9. CASE \E v \in Vaults : ClickUnlock(v) \/ ClickLock(v) \/ Reveal(v) \/ RestoreAnswer(v)
  BY <1>7, <1>9 DEF ClickUnlock, ClickLock, Reveal, RestoreAnswer
<1>10. CASE Dismiss \/ LateActs \/ UNCHANGED vars
  BY <1>7, <1>10 DEF Dismiss, LateActs, vars
<1> QED
  BY <1>1, <1>2, <1>3, <1>4, <1>5, <1>6, <1>8, <1>9, <1>10 DEF Next

LEMMA QueueKeeps ==
    ASSUME TypeOK, QueueIsServed, Starting \/ Ending \/ Standing
    PROVE  QueueIsServed'
<1> USE LifecycleUiAssumption DEF QueueIsServed, Tracked
<1>1. CASE Starting
  <2>1. PICK job \in Job : ~Busy(job.vault) /\ \E before, after : Begin(job, before, after)
    BY <1>1 DEF Starting
  <2>2. \A i \in DOMAIN queue : queue[i].vault # job.vault
    BY <2>1 DEF Busy, Waiting
  <2>3. CASE run.job = None
    <3>1. run'.job = job /\ queue' = queue /\ job # None
      BY <2>1, <2>3 DEF Begin, Executed
    <3> QED
      BY <2>2, <3>1
  <2>4. CASE run.job # None
    <3>1. run' = run /\ queue' = Append(queue, job)
      BY <2>1, <2>4 DEF Begin
    <3>2. /\ DOMAIN queue' = DOMAIN queue \cup {Len(queue) + 1}
          /\ \A i \in DOMAIN queue : queue'[i] = queue[i]
          /\ queue'[Len(queue) + 1] = job
      BY <3>1 DEF TypeOK
    <3>3. run.job.vault # job.vault
      BY <2>1, <2>4 DEF Busy
    <3> QED
      BY <2>2, <2>4, <3>1, <3>2, <3>3
  <2> QED
    BY <2>3, <2>4
<1>2. CASE Ending
  <2>1. CASE queue = <<>>
    <3>1. queue' = <<>>
      BY <1>2, <2>1 DEF Ending, Advance
    <3>2. DOMAIN queue' = {}
      BY <3>1
    <3> QED
      BY <3>1, <3>2
  <2>2. CASE queue # <<>>
    <3>1. run'.job = queue[1] /\ queue' = Tail(queue)
      BY <1>2, <2>2 DEF TypeOK, Ending, Advance, Executed
    <3>2. 1 \in DOMAIN queue /\ queue[1] # None
      BY <2>2 DEF TypeOK
    <3>3. \A j \in DOMAIN queue' : /\ j \in Nat \ {0} /\ j + 1 \in DOMAIN queue
                                   /\ queue'[j] = queue[j + 1]
      BY <2>2, <3>1 DEF TypeOK
    <3>4. \A i, j \in DOMAIN queue' : queue'[i].vault = queue'[j].vault => i = j
      BY <3>3
    <3>5. \A j \in DOMAIN queue' : queue'[j].vault # queue[1].vault
      BY <3>2, <3>3
    <3> QED
      BY <3>1, <3>2, <3>4, <3>5
  <2> QED
    BY <2>1, <2>2
<1>3. CASE Standing
  BY <1>3 DEF Standing
<1> QED
  BY <1>1, <1>2, <1>3

LEMMA InitQueue == Init => QueueIsServed
<1> SUFFICES ASSUME Init PROVE QueueIsServed
  OBVIOUS
<1>1. queue = <<>> /\ DOMAIN queue = {}
  BY DEF Init
<1> QED
  BY <1>1 DEF QueueIsServed

\* executeJob and advance: a job waits only while one is in flight, no vault has two,
\* however many vaults are asked for at once.
THEOREM QueueIsAlwaysServed == Spec => []QueueIsServed
<1>1. TypeOK /\ QueueIsServed /\ [Next]_vars => QueueIsServed'
  BY PipeSteps, QueueKeeps
<1> QED
  BY InitQueue, LifecycleTypeCorrect, <1>1, PTL DEF Spec

-----------------------------------------------------------------------------
\* The passwords.

\* A password of a vault in mode always_prompt waits with the open it was typed for, or
\* belongs to the close that typedClosePasswordRef names.
PromptInv ==
    \A v \in prompt \cap (ram \ crossed) :
        Asked(v, "open") \/ (OfKind(v, "close") /\ typedClose = v)

LEMMA PromptInvSuffices == PromptInv => PromptModeForgets
  BY DEF PromptInv, PromptModeForgets, Asked, OfKind, Busy, Tracked, Waiting

\* A step that gives no vault a password and starts or stops nothing.
LEMMA PromptQuiet ==
    ASSUME PromptInv, prompt' = prompt, ram' \subseteq ram, crossed' = crossed,
           typedClose' = typedClose, run'.job = run.job, queue' = queue
    PROVE  PromptInv'
  BY DEF PromptInv, Asked, OfKind, Tracked

\* startClosePipeline, which gives a password at most to the vault it closes and then
\* names it.
LEMMA PromptStartClose ==
    ASSUME TypeOK, PromptInv, prompt' = prompt, NEW v \in Vaults, NEW open, NEW typed \in BOOLEAN,
           NEW passwords \in SUBSET Vaults, StartClose(v, open, typed, passwords),
           \/ passwords = ram /\ UNCHANGED <<typedClose, crossed>>
           \/ passwords = ram \cup {v} /\ SetTyped(v, v)
    PROVE  PromptInv'
<1>1. [vault |-> v, kind |-> "close", typed |-> typed] \in Job
  BY DEF Job, Kinds
<1>2. Begin([vault |-> v, kind |-> "close", typed |-> typed], passwords, ram')
  BY DEF StartClose
<1>3. /\ \A w : OfKind(w, "close")' <=> OfKind(w, "close") \/ w = v
      /\ \A w : Asked(w, "open") => Asked(w, "open")'
  BY <1>1, <1>2, BeginAsks
<1>4. ram' \subseteq passwords
  BY <1>1, <1>2, BeginTypes
<1> SUFFICES ASSUME NEW w \in prompt, w \in ram', w \notin crossed'
             PROVE  Asked(w, "open")' \/ (OfKind(w, "close")' /\ typedClose' = w)
  BY DEF PromptInv
<1>5. CASE passwords = ram /\ UNCHANGED <<typedClose, crossed>>
  BY <1>3, <1>4, <1>5 DEF PromptInv
<1>6. CASE passwords = ram \cup {v} /\ SetTyped(v, v)
  <2>1. CASE w = v
    BY <1>3, <1>6, <2>1 DEF SetTyped
  <2>2. CASE w # v
    <3>1. w \in ram /\ w \notin crossed /\ (typedClose = w => w = None)
      BY <1>4, <1>6, <2>2 DEF SetTyped
    <3>2. w # None
      BY LifecycleUiAssumption DEF TypeOK
    <3> QED
      BY <1>3, <3>1, <3>2 DEF PromptInv
  <2> QED
    BY <2>1, <2>2
<1> QED
  BY <1>5, <1>6

\* The end of a job that is no close, or of a close that leaves the name of another.
LEMMA PromptAdvance ==
    ASSUME TypeOK, PromptInv, prompt' = prompt, crossed \subseteq crossed',
           run.job \in Job, NEW before \in SUBSET ram, Advance(before, ram'),
           \A w \in ram' \ crossed' : w \in Vaults /\ typedClose = w /\ OfKind(w, "close")
                => typedClose' = w /\ ~(run.job.vault = w /\ run.job.kind = "close")
    PROVE  PromptInv'
<1>1. /\ \A w : OfKind(w, "close")' <=> Asked(w, "close")
      /\ \A w : Asked(w, "open") => Asked(w, "open")' \/ w \notin ram'
  BY AdvanceAsks
<1>2. ram' \subseteq ram
  BY AdvanceTypes DEF TypeOK
<1> SUFFICES ASSUME NEW w \in prompt, w \in ram', w \notin crossed'
             PROVE  Asked(w, "open")' \/ (OfKind(w, "close")' /\ typedClose' = w)
  BY DEF PromptInv
<1>3. w \in Vaults /\ w \in ram /\ w \notin crossed
  BY <1>2 DEF TypeOK
<1>4. CASE Asked(w, "open")
  BY <1>1, <1>4
<1>5. CASE OfKind(w, "close") /\ typedClose = w
  <2>1. Asked(w, "close")
    BY <1>3, <1>5 DEF OfKind, Tracked, Asked
  <2> QED
    BY <1>1, <1>3, <1>5, <2>1
<1> QED
  BY <1>3, <1>4, <1>5 DEF PromptInv

LEMMA PromptNext == ASSUME TypeOK, PromptInv, [Next]_vars PROVE PromptInv'
<1> USE DEF pipe, secrets, world
<1>0. request # None => request.vault \in Vaults
  BY DEF TypeOK, Requests
<1>1. CASE \/ \E f \in Fetches : StartFetch(f) \/ CoreLists(f) \/ ApplyFetch(f) \/ FailFetch(f)
           \/ \E v \in Vaults : ClickUnlock(v) \/ ClickLock(v) \/ Reveal(v)
           \/ Dismiss \/ LateActs \/ UNCHANGED vars
  <2>1. UNCHANGED <<run, queue, ram, typedClose, crossed, prompt>>
    BY <1>1 DEF StartFetch, CoreLists, ApplyFetch, FailFetch, ClickUnlock, ClickLock, Reveal,
                Dismiss, LateActs, vars
  <2> QED
    BY <2>1, PromptQuiet
<1>2. CASE CoreActs \/ TimesOut
  <2>1. UNCHANGED <<queue, ram, typedClose, crossed, prompt>>
    BY <1>2 DEF CoreActs, TimesOut
  <2>2. run' = run \/ \E rpc : run' = [run EXCEPT !.rpc = rpc]
    BY <1>2 DEF CoreActs, TimesOut
  <2>3. run'.job = run.job
    BY <2>2, RunTypes
  <2> QED
    BY <2>1, <2>3, PromptQuiet
<1>3. ASSUME NEW v \in Vaults, LockSettings(v) \/ AutoClose(v) PROVE PromptInv'
  <2>1. UNCHANGED <<typedClose, crossed, prompt>>
    BY <1>3 DEF LockSettings, AutoClose
  <2>2. StartClose(v, TRUE, FALSE, ram) \/ UNCHANGED <<run, queue, ram>>
    BY <1>3 DEF LockSettings, AutoClose
  <2>3. ram \in SUBSET Vaults
    BY DEF TypeOK
  <2> QED
    BY <2>1, <2>2, <2>3, PromptQuiet, PromptStartClose
<1>4. ASSUME NEW v \in Vaults, RestoreAnswer(v) PROVE PromptInv'
  <2>1. UNCHANGED <<run, queue, typedClose, crossed, prompt>>
    BY <1>4 DEF RestoreAnswer
  <2>2. \A w \in prompt : w \in ram' => w \in ram
    BY <1>4 DEF RestoreAnswer, Restorable
  <2> QED
    BY <2>1, <2>2 DEF PromptInv, Asked, OfKind, Tracked
<1>5. ASSUME NEW v \in Vaults, CreateVault(v) PROVE PromptInv'
  <2>1. UNCHANGED <<typedClose, crossed, prompt>>
    BY <1>5 DEF CreateVault
  <2>2. [vault |-> v, kind |-> "create", typed |-> FALSE] \in Job /\ ram \in SUBSET Vaults
    BY DEF Job, Kinds, TypeOK
  <2>3. Begin([vault |-> v, kind |-> "create", typed |-> FALSE], ram, ram')
    BY <1>5 DEF CreateVault
  <2>4. /\ \A w : OfKind(w, "close") => OfKind(w, "close")'
        /\ \A w : Asked(w, "open") => Asked(w, "open")'
    BY <2>2, <2>3, BeginAsks
  <2>5. ram' \subseteq ram
    BY <2>2, <2>3, BeginTypes
  <2> QED
    BY <2>1, <2>4, <2>5 DEF PromptInv
<1>6. CASE ConfirmUnlock
  <2>1. PICK v \in Vaults : v = request.vault /\ UNCHANGED <<typedClose, crossed, prompt>>
    BY <1>0, <1>6 DEF ConfirmUnlock
  <2> DEFINE job == [vault |-> v, kind |-> "open", typed |-> TRUE]
  <2>2. job \in Job /\ ram \cup {v} \in SUBSET Vaults /\ job.vault = v /\ job.kind = "open"
    BY <2>1 DEF Job, Kinds, TypeOK
  <2>3. Begin(job, ram \cup {v}, ram')
    BY <1>6, <2>1 DEF ConfirmUnlock, StartOpen
  <2> HIDE DEF job
  <2>4. /\ \A w : OfKind(w, "close") => OfKind(w, "close")'
        /\ \A w : Asked(w, "open") => Asked(w, "open")'
        /\ Asked(v, "open")' \/ ram' = Borrowed(job, ram \cup {v})
    BY <2>2, <2>3, BeginAsks
  <2>5. ram' \subseteq ram \cup {v}
    BY <2>2, <2>3, BeginTypes
  <2>6. Asked(v, "open")' \/ v \notin ram'
    BY <2>2, <2>4 DEF Borrowed
  <2> QED
    BY <2>1, <2>4, <2>5, <2>6 DEF PromptInv
<1>7. CASE ConfirmTypedClose
  <2> DEFINE v == request.vault
  <2>1. v \in Vaults /\ v # None /\ UNCHANGED prompt
    BY <1>0, <1>7, LifecycleUiAssumption DEF ConfirmTypedClose
  <2>2. CASE /\ StartClose(v, row[v] = "open", TRUE, ram \cup {v})
             /\ SetTyped(v, v) /\ Submitted /\ UNCHANGED creating
    <3>1. ram \cup {v} \in SUBSET Vaults
      BY <2>1 DEF TypeOK
    <3> QED
      BY <2>1, <2>2, <3>1, PromptStartClose
  <2>3. CASE /\ SetTyped(v, None) /\ ram' = ram \ {v}
             /\ UNCHANGED <<pipe, hold, rows, request, wasOpen>>
    <3>1. \A w \in Vaults \ {v} : typedClose = w => w \in crossed'
      BY <2>3, LifecycleUiAssumption DEF SetTyped
    <3>2. crossed \subseteq crossed'
      BY <2>3 DEF SetTyped
    <3> QED
      BY <2>1, <2>3, <3>1, <3>2 DEF TypeOK, PromptInv, Asked, OfKind, Tracked
  <2> QED
    BY <1>7, <2>2, <2>3, Zenon DEF ConfirmTypedClose
<1>8. CASE ConfirmBareClose
  <2>1. request.vault \in Vaults /\ UNCHANGED <<typedClose, crossed, prompt>> /\ ram \in SUBSET Vaults
    BY <1>0, <1>8 DEF ConfirmBareClose, TypeOK
  <2>2. StartClose(request.vault, FALSE, FALSE, ram)
    BY <1>8 DEF ConfirmBareClose
  <2> QED
    BY <2>1, <2>2, PromptStartClose
<1>9. CASE Answer
  <2> DEFINE v == run.job.vault
  <2>0. run.job \in Job /\ v \in Vaults /\ v # None /\ UNCHANGED prompt
    <3>1. run.job \in Job
      BY <1>9, RunTypes
      DEF Answer, Answers, OpenDone, OpenFailed, CloseDone, CloseFailed, CreateDone, CreateFailed
    <3> QED
      BY <1>9, <3>1, LifecycleUiAssumption
      DEF Job, Answer, OpenDone, OpenFailed, CloseDone, CloseFailed, CreateDone, CreateFailed
  <2>1. Cleared(v) \in SUBSET ram /\ ram \in SUBSET ram
    BY DEF Cleared
  <2>2. CASE OpenDone \/ OpenFailed \/ CreateDone \/ CreateFailed
    <3>1. run.job.kind # "close" /\ UNCHANGED <<typedClose, crossed>>
      BY <2>2 DEF Answers, OpenDone, OpenFailed, CreateDone, CreateFailed
    <3>2. Advance(ram, ram') \/ Advance(Cleared(v), ram')
      BY <2>2 DEF OpenDone, OpenFailed, CreateDone, CreateFailed
    <3> QED
      BY <2>0, <2>1, <3>1, <3>2, PromptAdvance
  <2>3. CASE CloseDone
    <3>1. SetTyped(v, None) /\ Advance(Cleared(v), ram')
      BY <2>3 DEF CloseDone
    <3>2. ram' \subseteq Cleared(v)
      BY <2>1, <3>1, AdvanceTypes DEF TypeOK
    <3>3. crossed \subseteq crossed' /\ \A w \in Vaults \ {v} : typedClose = w => w \in crossed'
      BY <3>1, LifecycleUiAssumption DEF SetTyped
    <3>4. \A w \in ram' \ crossed' : ~(w \in Vaults /\ typedClose = w)
      BY <3>2, <3>3 DEF Cleared
    <3> QED
      BY <2>0, <2>1, <3>1, <3>3, <3>4, PromptAdvance
  <2>4. CASE CloseFailed
    <3>1. crossed' = crossed /\ Advance(IF typedClose = v THEN Cleared(v) ELSE ram, ram')
      BY <2>4 DEF CloseFailed
    <3>2. CASE typedClose = v
      <4>1. Advance(Cleared(v), ram')
        BY <3>1, <3>2
      <4>2. ram' \subseteq Cleared(v)
        BY <2>1, <4>1, AdvanceTypes DEF TypeOK
      <4>3. v \notin ram'
        BY <4>2 DEF Cleared
      <4> QED
        BY <2>0, <2>1, <3>1, <3>2, <4>1, <4>3, PromptAdvance
    <3>3. CASE typedClose # v
      <4>1. Advance(ram, ram') /\ typedClose' = typedClose
        BY <2>4, <3>1, <3>3 DEF CloseFailed
      <4> QED
        BY <2>0, <2>1, <3>1, <3>3, <4>1, PromptAdvance
    <3> QED
      BY <3>2, <3>3
  <2> QED
    BY <1>9, <2>2, <2>3, <2>4 DEF Answer
<1> QED
  BY <1>1, <1>2, <1>3, <1>4, <1>5, <1>6, <1>7, <1>8, <1>9 DEF Next

LEMMA InitPrompt == Init => PromptInv
  BY DEF Init, PromptInv

\* sessionRamPassword.ts, "always_prompt must not keep the string after open": whatever
\* was clicked, timed out or answered late in between, such a vault has a password in the
\* map only for a job of its own.
THEOREM PromptModeNeverKeeps == Spec => []PromptModeForgets
<1>1. TypeOK /\ PromptInv /\ [Next]_vars => PromptInv'
  BY PromptNext
<1> QED
  BY InitPrompt, LifecycleTypeCorrect, PromptInvSuffices, <1>1, PTL DEF Spec

-----------------------------------------------------------------------------
\* The rows of vaults that are created.

\* What the core has of a vault once its create has ended, which it never loses.
Stays(v) == core[v] \in {"left", "closed", "open"}

\* A row stands for a vault that the core has, or for one whose create is still on, or it
\* was in a list read in the middle of a create; what has been listed or answered is still
\* true.
RowsMade ==
    \A v \in Vaults \ halfSeen : row[v] # "absent" /\ ~OfKind(v, "create") => Stays(v)
RowInv ==
    /\ RowsMade
    /\ \A v \in creating : OfKind(v, "create") \/ Stays(v)
    /\ run.rpc = "ok" => Stays(run.job.vault)
    /\ \A f \in Fetches, v \in Vaults :
          fetch[f].is = "read" /\ fetch[f].saw[v] \notin {"absent", "making"} => Stays(v)
    /\ \A v \in Vaults \ halfSeen :
          OfKind(v, "create") /\ row[v] # "absent" => Stays(v) \/ v \in creating

SameCreates == \A v \in Vaults : OfKind(v, "create")' <=> OfKind(v, "create")
SameRows ==
    /\ \A v \in Vaults : row'[v] = "absent" <=> row[v] = "absent"
    /\ halfSeen' = halfSeen
NoNewList == \A f \in Fetches :
    fetch'[f].is = "read" => fetch[f].is = "read" /\ fetch'[f].saw = fetch[f].saw
CoreGrows == \A v \in Vaults : Stays(v) => Stays(v)'
NoNewOk == run'.rpc = "ok" => run' = run

LEMMA RowQuiet ==
    ASSUME TypeOK, RowInv, SameCreates, SameRows, NoNewList, CoreGrows,
           run'.rpc = "ok" => Stays(run.job.vault)', creating' = creating
    PROVE  RowInv'
<1> USE DEF SameCreates, SameRows, NoNewList, CoreGrows
<1>1. RowsMade'
  BY DEF RowInv, RowsMade
<1>2. \A v \in creating' : OfKind(v, "create")' \/ Stays(v)'
  BY DEF TypeOK, RowInv
<1>3. \A f \in Fetches, v \in Vaults :
        fetch'[f].is = "read" /\ fetch'[f].saw[v] \notin {"absent", "making"} => Stays(v)'
  BY DEF RowInv
<1>4. \A v \in Vaults \ halfSeen' :
        OfKind(v, "create")' /\ row'[v] # "absent" => Stays(v)' \/ v \in creating'
  BY DEF RowInv
<1> QED
  BY <1>1, <1>2, <1>3, <1>4 DEF RowInv

LEMMA CoreStill == core' = core => CoreGrows
  BY DEF CoreGrows, Stays

LEMMA OkStays ==
    ASSUME TypeOK, RowInv, NoNewOk, CoreGrows
    PROVE  run'.rpc = "ok" => Stays(run.job.vault)'
<1> SUFFICES ASSUME run'.rpc = "ok" PROVE Stays(run.job.vault)'
  OBVIOUS
<1>1. run' = run /\ Stays(run.job.vault)
  BY DEF NoNewOk, RowInv
<1>2. run.job.vault \in Vaults
  BY <1>1, RunTypes DEF Job
<1> QED
  BY <1>1, <1>2 DEF CoreGrows

LEMMA StillCreates == run'.job = run.job /\ queue' = queue => SameCreates
  BY DEF SameCreates, OfKind, Tracked

LEMMA BeginCreates ==
    ASSUME TypeOK, NEW job \in Job, job.kind # "create", NEW before, NEW after,
           Begin(job, before, after)
    PROVE  SameCreates /\ NoNewOk
<1>1. SameCreates
  BY BeginAsks DEF SameCreates
<1>2. NoNewOk
  BY DEF NoNewOk, Begin, Executed
<1> QED
  BY <1>1, <1>2

LEMMA AdvanceCreates ==
    ASSUME TypeOK, NEW before, NEW after, Advance(before, after)
    PROVE  /\ NoNewOk
           /\ \A v : OfKind(v, "create")' => OfKind(v, "create")
           /\ \A v : OfKind(v, "create") /\ ~(Tracked(v) /\ run.job.kind = "create") => OfKind(v, "create")'
<1>1. run'.rpc \in {"none", "sent"} /\ \A v : OfKind(v, "create")' <=> Asked(v, "create")
  BY AdvanceAsks
<1> QED
  BY <1>1 DEF NoNewOk, Asked, OfKind

\* startClosePipeline turns rows to Closing and makes none.
LEMMA StartCloseRows ==
    ASSUME TypeOK, RowInv, NEW v \in Vaults, NEW open, NEW typed \in BOOLEAN, NEW passwords,
           StartClose(v, open, typed, passwords), UNCHANGED <<core, creating, halfSeen>>
    PROVE  RowInv'
<1>1. [vault |-> v, kind |-> "close", typed |-> typed] \in Job
  BY DEF Job, Kinds
<1>2. Begin([vault |-> v, kind |-> "close", typed |-> typed], passwords, ram')
  BY DEF StartClose
<1>3. SameCreates /\ NoNewOk
  BY <1>1, <1>2, BeginCreates
<1>4. SetRow(v, "closing") /\ "closing" \in RowStates
  BY DEF StartClose, RowStates
<1>5. SameRows /\ NoNewList
  BY <1>4, SetRowTypes DEF SameRows, NoNewList
<1> QED
  BY <1>3, <1>5, CoreStill, OkStays, RowQuiet

LEMMA FetchRows ==
    ASSUME TypeOK, RowInv, NEW f \in Fetches,
           StartFetch(f) \/ CoreLists(f) \/ ApplyFetch(f) \/ FailFetch(f)
    PROVE  RowInv'
<1> USE DEF pipe, world
<1>0. fetch \in [Fetches -> FetchStates] /\ fetch[f].saw \in [Vaults -> CoreStates]
  BY DEF TypeOK, FetchStates
<1>1. core' = core /\ run' = run /\ queue' = queue
  BY DEF StartFetch, CoreLists, ApplyFetch, FailFetch
<1>2. CoreGrows /\ SameCreates /\ NoNewOk
  BY <1>1, CoreStill, StillCreates DEF NoNewOk
<1>3. run'.rpc = "ok" => Stays(run.job.vault)'
  BY <1>2, OkStays
<1>4. CASE StartFetch(f) \/ FailFetch(f)
  <2>1. SameRows /\ NoNewList /\ creating' = creating
    BY <1>0, <1>4 DEF StartFetch, FailFetch, NoFetch, SameRows, NoNewList
  <2> QED
    BY <1>2, <1>3, <2>1, RowQuiet
<1>5. CASE CoreLists(f)
  <2>1. row' = row /\ creating' = creating /\ halfSeen' = halfSeen
    BY <1>5 DEF CoreLists
  <2>2. \A g \in Fetches : g # f => fetch'[g] = fetch[g]
    BY <1>0, <1>5 DEF CoreLists
  <2>3. fetch'[f].saw = core
    BY <1>0, <1>5 DEF CoreLists, FetchStates
  <2>4. \A g \in Fetches, v \in Vaults :
          fetch'[g].is = "read" /\ fetch'[g].saw[v] \notin {"absent", "making"} => Stays(v)'
    BY <1>1, <2>2, <2>3 DEF TypeOK, RowInv, Stays, CoreStates
  <2> QED
    BY <1>1, <1>2, <1>3, <2>1, <2>4 DEF TypeOK, RowInv, RowsMade, SameCreates, CoreGrows
<1>6. CASE ApplyFetch(f)
  <2>1. /\ creating' = {v \in creating : fetch[f].saw[v] = "absent"}
        /\ \A v \in Vaults : row'[v] = Merged(v, fetch[f])
        /\ fetch[f].is = "read"
        /\ \A v \in Vaults : v \notin halfSeen' /\ row'[v] # "absent" =>
              v \notin halfSeen /\ fetch[f].saw[v] # "making"
    BY <1>6 DEF ApplyFetch
  <2>2. NoNewList
    BY <1>0, <1>6 DEF ApplyFetch, NoNewList, NoFetch
  <2>3. \A v \in Vaults : row'[v] # "absent" =>
          \/ fetch[f].saw[v] # "absent"
          \/ fetch[f].saw[v] = "absent" /\ v \in creating
          \/ row[v] # "absent" /\ v \notin creating
    BY <2>1 DEF Merged
  <2>4. \A v \in Vaults \ halfSeen' : row'[v] # "absent" =>
          \/ Stays(v)
          \/ v \in creating' /\ v \in creating
          \/ row[v] # "absent" /\ v \notin creating /\ v \notin halfSeen
    BY <2>1, <2>3 DEF RowInv
  <2>9. \A v : Stays(v)' <=> Stays(v)
    BY <1>1 DEF Stays
  <2>5. RowsMade'
    BY <1>2, <2>4, <2>9 DEF RowInv, RowsMade, SameCreates
  <2>6. \A v \in Vaults \ halfSeen' :
          OfKind(v, "create")' /\ row'[v] # "absent" => Stays(v)' \/ v \in creating'
    BY <1>2, <2>4, <2>9 DEF RowInv, SameCreates
  <2>7. \A v \in creating' : OfKind(v, "create")' \/ Stays(v)'
    BY <1>2, <2>1, <2>9 DEF TypeOK, RowInv, SameCreates
  <2>8. \A g \in Fetches, v \in Vaults :
          fetch'[g].is = "read" /\ fetch'[g].saw[v] \notin {"absent", "making"} => Stays(v)'
    BY <2>2, <2>9 DEF RowInv, NoNewList
  <2> QED
    BY <1>3, <2>5, <2>6, <2>7, <2>8 DEF RowInv
<1> QED
  BY <1>4, <1>5, <1>6

LEMMA CreateRows ==
    ASSUME TypeOK, RowInv, NEW v \in Vaults, CreateVault(v)
    PROVE  RowInv'
<1>1. /\ creating' = creating \cup {v} /\ core' = core /\ halfSeen' = halfSeen
      /\ \A w \in Vaults : row'[w] = IF w = v THEN "closed" ELSE row[w]
  BY DEF CreateVault, TypeOK, world
<1>2. [vault |-> v, kind |-> "create", typed |-> FALSE] \in Job
  BY DEF Job, Kinds
<1>3. Begin([vault |-> v, kind |-> "create", typed |-> FALSE], ram, ram')
  BY DEF CreateVault
<1>4. \A w : OfKind(w, "create")' <=> OfKind(w, "create") \/ w = v
  BY <1>2, <1>3, BeginAsks
<1>5. NoNewOk /\ NoNewList
  <2>1. fetch' = Touched(v)
    BY DEF CreateVault
  <2> QED
    BY <1>3, <2>1, TouchedTypes DEF NoNewOk, NoNewList, Begin, Executed
<1>6. run'.rpc = "ok" => Stays(run.job.vault)'
  BY <1>1, <1>5, CoreStill, OkStays
<1>11. \A w : Stays(w)' <=> Stays(w)
  BY <1>1 DEF Stays
<1>7. RowsMade'
  BY <1>1, <1>4, <1>11 DEF RowInv, RowsMade
<1>8. \A w \in creating' : OfKind(w, "create")' \/ Stays(w)'
  BY <1>1, <1>4, <1>11 DEF RowInv
<1>9. \A w \in Vaults \ halfSeen' :
          OfKind(w, "create")' /\ row'[w] # "absent" => Stays(w)' \/ w \in creating'
  BY <1>1, <1>4, <1>11 DEF RowInv
<1>10. \A f \in Fetches, w \in Vaults :
         fetch'[f].is = "read" /\ fetch'[f].saw[w] \notin {"absent", "making"} => Stays(w)'
  BY <1>5, <1>11 DEF RowInv, NoNewList
<1> QED
  BY <1>6, <1>7, <1>8, <1>9, <1>10 DEF RowInv

\* What the core does changes no row, and takes no vault away.
LEMMA CoreRows ==
    ASSUME TypeOK, RowInv, CoreActs \/ TimesOut \/ LateActs
    PROVE  RowInv'
<1>1. UNCHANGED <<queue, row, creating, fetch, halfSeen>>
  BY DEF CoreActs, TimesOut, LateActs, pipe, rows
<1>2. SameRows /\ NoNewList
  BY <1>1 DEF SameRows, NoNewList
<1>3. CoreGrows
  <2>1. \/ core' = core \/ \E v, kind : core' = Served(v, kind)
        \/ \E call : Makes(call) \/ core' \in Undone(call)
    BY DEF CoreActs, TimesOut, LateActs, pipe
  <2>2. \A v, kind : \A w \in Vaults : Stays(w) => Served(v, kind)[w] \in {"left", "closed", "open"}
    BY DEF TypeOK, Served, Stays
  <2>3. ASSUME NEW call, Makes(call) PROVE CoreGrows
    BY <2>3 DEF TypeOK, Makes, CoreGrows, Stays
  <2>4. ASSUME NEW call, core' \in Undone(call) PROVE CoreGrows
    BY <2>4 DEF TypeOK, Undone, CoreGrows, Stays
  <2>5. ASSUME NEW v, NEW kind, core' = Served(v, kind) PROVE CoreGrows
    BY <2>2, <2>5 DEF CoreGrows, Stays
  <2> QED
    BY <2>1, <2>3, <2>4, <2>5, CoreStill
<1>4. run'.job = run.job
  <2>1. run' = run \/ \E rpc : run' = [run EXCEPT !.rpc = rpc]
    BY DEF CoreActs, TimesOut, LateActs, pipe
  <2> QED
    BY <2>1, RunTypes
<1>5. SameCreates
  BY <1>1, <1>4, StillCreates
<1>6. run'.rpc = "ok" => Stays(run.job.vault)'
  <2>1. CASE CoreActs
    <3>1. CASE run' = [run EXCEPT !.rpc = "ok"] /\ core' = Served(run.job.vault, run.job.kind)
      <4>1. run.job.vault \in Vaults
        BY <2>1, RunTypes DEF CoreActs, Job
      <4> QED
        BY <1>4, <3>1, <4>1 DEF TypeOK, Served, Stays
    <3>2. CASE run' = [run EXCEPT !.rpc = "failed"]
      BY <3>2, RunTypes
    <3>3. CASE run' = run
      BY <1>3, <3>3, OkStays DEF NoNewOk
    <3> QED
      BY <2>1, <3>1, <3>2, <3>3 DEF CoreActs
  <2>2. CASE TimesOut
    <3>1. run'.rpc = "failed"
      BY <2>2, RunTypes DEF TimesOut
    <3> QED
      BY <3>1
  <2>3. CASE LateActs
    BY <1>3, <2>3, OkStays DEF LateActs, pipe, NoNewOk
  <2> QED
    BY <2>1, <2>2, <2>3
<1> QED
  BY <1>1, <1>2, <1>3, <1>5, <1>6, RowQuiet

LEMMA AnswerRows == ASSUME TypeOK, RowInv, Answer PROVE RowInv'
<1> DEFINE v == run.job.vault
<1>0. v \in Vaults /\ core' = core
  <2>1. run.job \in Job
    BY RunTypes DEF Answer, Answers, OpenDone, OpenFailed, CloseDone, CloseFailed, CreateDone, CreateFailed
  <2> QED
    BY <2>1 DEF Job, Answer, OpenDone, OpenFailed, CloseDone, CloseFailed, CreateDone, CreateFailed, world
<1>1. \E before, after : Advance(before, after)
  BY DEF Answer, OpenDone, OpenFailed, CloseDone, CloseFailed, CreateDone, CreateFailed
<1>2. /\ NoNewOk /\ CoreGrows
      /\ \A w : OfKind(w, "create")' => OfKind(w, "create")
      /\ \A w : OfKind(w, "create") /\ ~(Tracked(w) /\ run.job.kind = "create") => OfKind(w, "create")'
  BY <1>0, <1>1, AdvanceCreates, CoreStill
<1>3. run'.rpc = "ok" => Stays(run.job.vault)'
  BY <1>2, OkStays
<1>7. \A w : Stays(w)' <=> Stays(w)
  BY <1>0 DEF Stays
<1>4. CASE OpenDone \/ OpenFailed \/ CloseDone \/ CloseFailed
  <2>1. run.job.kind # "create" /\ creating' = creating /\ halfSeen' = halfSeen
    BY <1>4 DEF Answers, OpenDone, OpenFailed, CloseDone, CloseFailed, rows
  <2>2. SameCreates
    BY <1>2, <2>1 DEF SameCreates
  <2>3. UNCHANGED <<row, fetch>> \/ \E session \in {"open", "closed"} : SetRow(v, session)
    BY <1>4 DEF OpenDone, OpenFailed, CloseDone, CloseFailed, rows
  <2>4. ASSUME NEW session \in {"open", "closed"}, SetRow(v, session)
        PROVE  SameRows /\ NoNewList
    <3>1. session \in RowStates /\ session # "absent"
      BY DEF RowStates
    <3> QED
      BY <1>0, <2>1, <2>4, <3>1, SetRowTypes DEF SameRows, NoNewList
  <2>5. SameRows /\ NoNewList
    BY <2>1, <2>3, <2>4 DEF SameRows, NoNewList
  <2> QED
    BY <1>2, <1>3, <2>1, <2>2, <2>5, RowQuiet
<1>5. CASE CreateDone
  <2>1. UNCHANGED <<row, creating, halfSeen>> /\ run.rpc = "ok" /\ Stays(v)
    BY <1>5 DEF CreateDone, Answers, RowInv
  <2>2. NoNewList
    BY <1>0, <1>5, TouchedTypes DEF CreateDone, NoNewList
  <2>3. \A w \in Vaults : w # v => (OfKind(w, "create")' <=> OfKind(w, "create"))
    BY <1>2 DEF Tracked
  <2>4. RowsMade' /\ \A w \in creating' : OfKind(w, "create")' \/ Stays(w)'
    BY <1>0, <1>7, <2>1, <2>3 DEF TypeOK, RowInv, RowsMade
  <2>5. \A w \in Vaults \ halfSeen' :
          OfKind(w, "create")' /\ row'[w] # "absent" => Stays(w)' \/ w \in creating'
    BY <1>0, <1>2, <1>7, <2>1 DEF RowInv
  <2>6. \A f \in Fetches, w \in Vaults :
          fetch'[f].is = "read" /\ fetch'[f].saw[w] \notin {"absent", "making"} => Stays(w)'
    BY <1>0, <1>7, <2>2 DEF RowInv, NoNewList
  <2> QED
    BY <1>3, <2>4, <2>5, <2>6 DEF RowInv
<1>6. CASE CreateFailed
  <2>1. creating' = creating \ {v}
    BY <1>6 DEF CreateFailed
  <2>2. row' = [row EXCEPT ![v] = "absent"] /\ NoNewList
    BY <1>0, <1>6, DropRowTypes DEF CreateFailed, NoNewList
  <2>3. /\ \A w \in Vaults : row'[w] = IF w = v THEN "absent" ELSE row[w]
        /\ halfSeen' = halfSeen \ {v}
    BY <1>0, <1>6, <2>2 DEF TypeOK, CreateFailed, DropRow
  <2>4. \A w \in Vaults : w # v => (OfKind(w, "create")' <=> OfKind(w, "create"))
    BY <1>2 DEF Tracked
  <2>5. RowsMade' /\ \A w \in creating' : OfKind(w, "create")' \/ Stays(w)'
    BY <1>0, <1>7, <2>1, <2>3, <2>4 DEF TypeOK, RowInv, RowsMade
  <2>6. \A w \in Vaults \ halfSeen' :
          OfKind(w, "create")' /\ row'[w] # "absent" => Stays(w)' \/ w \in creating'
    BY <1>0, <1>2, <1>7, <2>1, <2>3 DEF RowInv
  <2>7. \A f \in Fetches, w \in Vaults :
          fetch'[f].is = "read" /\ fetch'[f].saw[w] \notin {"absent", "making"} => Stays(w)'
    BY <1>0, <1>7, <2>2 DEF RowInv, NoNewList
  <2> QED
    BY <1>3, <2>5, <2>6, <2>7 DEF RowInv
<1> QED
  BY <1>4, <1>5, <1>6 DEF Answer

LEMMA RowNext == ASSUME TypeOK, RowInv, [Next]_vars PROVE RowInv'
<1> USE DEF pipe, rows, world
<1>0. request # None => request.vault \in Vaults
  BY DEF TypeOK, Requests
<1>1. ASSUME UNCHANGED <<run, queue, core, creating>>, SameRows, NoNewList PROVE RowInv'
  BY <1>1, CoreStill, StillCreates, OkStays, RowQuiet DEF NoNewOk
<1>2. ASSUME UNCHANGED <<row, fetch, halfSeen>> PROVE SameRows /\ NoNewList
  BY <1>2 DEF SameRows, NoNewList
<1>3. CASE \/ \E v \in Vaults : ClickUnlock(v) \/ ClickLock(v) \/ RestoreAnswer(v)
           \/ Dismiss \/ UNCHANGED vars
  <2>1. UNCHANGED <<run, queue, core, creating, halfSeen, row, fetch>>
    BY <1>3 DEF ClickUnlock, ClickLock, RestoreAnswer, Dismiss, vars
  <2> QED
    BY <1>1, <1>2, <2>1
<1>4. ASSUME NEW v \in Vaults, Reveal(v) PROVE RowInv'
  <2>1. SetRow(v, "closed") /\ "closed" \in RowStates /\ UNCHANGED <<run, queue, core, creating, halfSeen>>
    BY <1>4 DEF Reveal, RowStates, CoreStates
  <2>2. SameRows /\ NoNewList
    BY <2>1, SetRowTypes DEF SameRows, NoNewList
  <2> QED
    BY <1>1, <2>1, <2>2
<1>5. ASSUME NEW v \in Vaults, LockSettings(v) \/ AutoClose(v) PROVE RowInv'
  <2>1. UNCHANGED <<core, creating, halfSeen>>
    BY <1>5 DEF LockSettings, AutoClose
  <2>2. StartClose(v, TRUE, FALSE, ram) \/ UNCHANGED <<run, queue, row, fetch>>
    BY <1>5 DEF LockSettings, AutoClose
  <2> QED
    BY <1>1, <1>2, <2>1, <2>2, StartCloseRows
<1>6. CASE ConfirmUnlock
  <2>1. UNCHANGED <<core, creating, halfSeen, row, fetch>>
    BY <1>6 DEF ConfirmUnlock
  <2>2. PICK job \in Job : job.kind # "create" /\ \E before, after : Begin(job, before, after)
    <3>1. [vault |-> request.vault, kind |-> "open", typed |-> TRUE] \in Job
      BY <1>0, <1>6 DEF ConfirmUnlock, Job, Kinds
    <3> QED
      BY <1>6, <3>1 DEF ConfirmUnlock, StartOpen
  <2>3. SameCreates /\ NoNewOk
    BY <2>2, BeginCreates
  <2> QED
    BY <1>2, <2>1, <2>3, CoreStill, OkStays, RowQuiet
<1>7. CASE ConfirmTypedClose \/ ConfirmBareClose
  <2>1. request.vault \in Vaults /\ UNCHANGED <<core, creating, halfSeen>>
    BY <1>0, <1>7 DEF ConfirmTypedClose, ConfirmBareClose
  <2>2. \/ UNCHANGED <<run, queue, row, fetch>>
        \/ \E open, passwords : \E typed \in BOOLEAN :
              StartClose(request.vault, open, typed, passwords)
    BY <1>7 DEF ConfirmTypedClose, ConfirmBareClose
  <2> QED
    BY <1>1, <1>2, <2>1, <2>2, StartCloseRows
<1> QED
  BY <1>3, <1>4, <1>5, <1>6, <1>7, FetchRows, CreateRows, CoreRows, AnswerRows DEF Next

LEMMA InitRows == Init => RowInv
<1> SUFFICES ASSUME Init PROVE RowInv
  OBVIOUS
<1>2. core \in [Vaults -> {"absent", "closed", "open"}]
  BY LifecycleUiAssumption DEF Init
<1>1. row = core /\ creating = {} /\ run.rpc # "ok" /\ \A f \in Fetches : fetch[f].is # "read"
  BY DEF Init, NoRun, NoFetch
<1> QED
  BY <1>1, <1>2 DEF RowInv, RowsMade, Stays

\* handleCreateVault and mergeVaultListSnapshot: a row that no create is behind is that of
\* a vault of the core, for any number of list requests that overtake one another and of
\* creates that were given up on.
THEOREM RowsAreVaults == Spec => []CreatedRows
<1>1. TypeOK /\ RowInv /\ [Next]_vars => RowInv'
  BY RowNext
<1>2. RowInv => CreatedRows
  BY DEF RowInv, RowsMade, CreatedRows, Stays
<1> QED
  BY InitRows, LifecycleTypeCorrect, <1>1, <1>2, PTL DEF Spec

-----------------------------------------------------------------------------
\* One vault.  What a step is to a vault that was there from the start.

JobOf(v, kind, typed) ==
    \/ Tracked(v) /\ run.job.kind = kind /\ run.job.typed = typed
    \/ \E i \in DOMAIN queue : /\ queue[i].vault = v
                               /\ queue[i].kind = kind /\ queue[i].typed = typed
Done(v, kind) == Tracked(v) /\ run.job.kind = kind /\ run.rpc = "ok"

\* The jobs of the vault that borrow or read a password find it, or did.
Supplied(v) ==
    /\ \A i \in DOMAIN queue :
          queue[i].vault = v /\ (queue[i].kind = "open" \/ queue[i].typed) => v \in ram
    /\ Tracked(v) /\ (run.job.kind = "open" \/ run.job.typed) => run.password

\* A vault has at most one job.
OneJob(v) ==
    /\ Busy(v) <=> \E kind \in Kinds : OfKind(v, kind)
    /\ \A kind, other \in Kinds : OfKind(v, kind) /\ OfKind(v, other) => kind = other
    /\ \A kind \in Kinds : OfKind(v, kind) <=> JobOf(v, kind, TRUE) \/ JobOf(v, kind, FALSE)
    /\ \A kind \in Kinds : ~(JobOf(v, kind, TRUE) /\ JobOf(v, kind, FALSE))
    /\ \A kind \in Kinds : Done(v, kind) => OfKind(v, kind)
    /\ Tracked(v) => run.job \in Job /\ OfKind(v, run.job.kind)

LEMMA OneJobEach ==
    ASSUME TypeOK, QueueIsServed, NEW v \in Vaults
    PROVE  OneJob(v)
<1>1. \A i \in DOMAIN queue : queue[i] \in Job
  BY DEF TypeOK
<1>2. run.job # None => run.job \in Job
  BY RunTypes DEF Jobs
<1>3. \A i, j \in DOMAIN queue : queue[i].vault = v /\ queue[j].vault = v => i = j
  BY DEF QueueIsServed
<1>4. \A i \in DOMAIN queue : queue[i].vault = v => ~Tracked(v)
  BY DEF QueueIsServed
<1>5. CASE Tracked(v)
  <2>1. \A kind \in Kinds : /\ OfKind(v, kind) <=> run.job.kind = kind
                            /\ \A typed \in BOOLEAN : JobOf(v, kind, typed) <=>
                                 run.job.kind = kind /\ run.job.typed = typed
    BY <1>4, <1>5 DEF OfKind, JobOf
  <2>2. run.job.kind \in Kinds /\ run.job.typed \in BOOLEAN
    BY <1>2, <1>5 DEF Tracked, Job
  <2>3. \A kind \in Kinds : OfKind(v, kind) <=> JobOf(v, kind, TRUE) \/ JobOf(v, kind, FALSE)
    BY <2>1, <2>2
  <2>4. \A kind \in Kinds : ~(JobOf(v, kind, TRUE) /\ JobOf(v, kind, FALSE))
    BY <2>1
  <2> QED
    BY <1>2, <1>5, <2>1, <2>2, <2>3, <2>4 DEF OneJob, Busy, Done, Tracked
<1>6. CASE ~Tracked(v) /\ Waiting(v)
  <2>1. PICK i \in DOMAIN queue : queue[i].vault = v
    BY <1>6 DEF Waiting
  <2>2. \A kind \in Kinds : /\ OfKind(v, kind) <=> queue[i].kind = kind
                            /\ \A typed \in BOOLEAN : JobOf(v, kind, typed) <=>
                                 queue[i].kind = kind /\ queue[i].typed = typed
    BY <1>3, <1>6, <2>1 DEF OfKind, JobOf
  <2>3. queue[i].kind \in Kinds /\ queue[i].typed \in BOOLEAN
    BY <1>1 DEF Job
  <2>4. \A kind \in Kinds : OfKind(v, kind) <=> JobOf(v, kind, TRUE) \/ JobOf(v, kind, FALSE)
    BY <2>2, <2>3
  <2>5. \A kind \in Kinds : ~(JobOf(v, kind, TRUE) /\ JobOf(v, kind, FALSE))
    BY <2>2
  <2> QED
    BY <1>6, <2>2, <2>3, <2>4, <2>5 DEF OneJob, Busy, Done
<1>7. CASE ~Tracked(v) /\ ~Waiting(v)
  BY <1>7 DEF OneJob, Busy, Waiting, OfKind, JobOf, Done
<1> QED
  BY <1>5, <1>6, <1>7

\* The vault's job, if it has one, stands where it stood or goes from waiting to sent.
JobsStand(v) ==
    /\ Busy(v)' <=> Busy(v)
    /\ \A kind \in Kinds : /\ OfKind(v, kind)' <=> OfKind(v, kind)
                           /\ Done(v, kind)' <=> Done(v, kind)
                           /\ \A typed \in BOOLEAN : JobOf(v, kind, typed)' <=> JobOf(v, kind, typed)
    /\ v \in ram' => v \in ram
    /\ Supplied(v) => Supplied(v)'

JobStarts(v, kind, typed) ==
    /\ ~Busy(v) /\ Busy(v)'
    /\ \A k \in Kinds : /\ OfKind(v, k)' <=> k = kind
                        /\ ~Done(v, k)'
                        /\ \A t \in BOOLEAN : JobOf(v, k, t)' <=> k = kind /\ t = typed

JobEnds(v) ==
    /\ ~Busy(v)'
    /\ \A k \in Kinds : ~OfKind(v, k)' /\ ~Done(v, k)' /\ \A t \in BOOLEAN : ~JobOf(v, k, t)'
    /\ Supplied(v)'

LEMMA NotBusy ==
    ASSUME NEW v, ~Busy(v)
    PROVE  /\ \A k : ~OfKind(v, k) /\ ~Done(v, k) /\ \A t : ~JobOf(v, k, t)
           /\ Supplied(v)
  BY DEF Busy, Waiting, OfKind, Done, JobOf, Supplied

LEMMA BeginOther ==
    ASSUME TypeOK, NEW job \in Job, NEW before, Begin(job, before, ram'),
           NEW v \in Vaults, v # job.vault, v \in before <=> v \in ram
    PROVE  JobsStand(v)
<1> USE LifecycleUiAssumption DEF OfKind, Tracked, JobOf, Done, Busy, Waiting, Supplied
<1>1. CASE run.job = None
  <2>1. run'.job = job /\ queue' = queue /\ (v \in ram' <=> v \in ram)
    BY <1>1 DEF Begin, Executed, Borrowed
  <2> QED
    BY <1>1, <2>1 DEF JobsStand
<1>2. CASE run.job # None
  <2>1. run' = run /\ queue' = Append(queue, job) /\ ram' = before
    BY <1>2 DEF Begin
  <2>2. /\ DOMAIN queue' = DOMAIN queue \cup {Len(queue) + 1}
        /\ \A i \in DOMAIN queue : queue'[i] = queue[i]
        /\ queue'[Len(queue) + 1] = job
    BY <2>1 DEF TypeOK
  <2>3. \A i \in DOMAIN queue' : queue'[i].vault = v => i \in DOMAIN queue
    BY <2>2
  <2> QED
    BY <2>1, <2>2, <2>3 DEF JobsStand
<1> QED
  BY <1>1, <1>2

LEMMA BeginOwn ==
    ASSUME TypeOK, NEW job \in Job, NEW before, Begin(job, before, ram'), ~Busy(job.vault)
    PROVE  /\ JobStarts(job.vault, job.kind, job.typed)
           /\ job.vault \in ram' => job.vault \in before
           /\ job.vault \in before => Supplied(job.vault)'
           /\ ~(job.kind = "open" \/ job.typed) => Supplied(job.vault)'
<1> PICK v, kind, typed : v = job.vault /\ kind = job.kind /\ typed = job.typed
  OBVIOUS
<1> USE LifecycleUiAssumption
<1>0. ~Tracked(v) /\ \A i \in DOMAIN queue : queue[i].vault # v
  BY DEF Busy, Waiting
<1>1. CASE run.job = None
  <2>1. /\ run'.job = job /\ run'.rpc = "sent" /\ run'.password = (v \in before)
        /\ queue' = queue /\ ram' = Borrowed(job, before)
    BY <1>1 DEF Begin, Executed
  <2>2. JobStarts(v, kind, typed)
    BY <1>0, <2>1 DEF JobStarts, OfKind, Tracked, JobOf, Done, Busy, Waiting
  <2>3. v \in ram' => v \in before
    BY <2>1 DEF Borrowed
  <2>4. v \in before => Supplied(v)'
    BY <1>0, <2>1 DEF Supplied, Tracked
  <2>5. ~(kind = "open" \/ typed) => Supplied(v)'
    BY <1>0, <2>1 DEF Supplied, Tracked
  <2> QED
    BY <2>2, <2>3, <2>4, <2>5
<1>2. CASE run.job # None
  <2>1. run' = run /\ queue' = Append(queue, job) /\ ram' = before
    BY <1>2 DEF Begin
  <2>2. /\ DOMAIN queue' = DOMAIN queue \cup {Len(queue) + 1}
        /\ \A i \in DOMAIN queue : queue'[i] = queue[i]
        /\ queue'[Len(queue) + 1] = job
    BY <2>1 DEF TypeOK
  <2>3. \A i \in DOMAIN queue' : queue'[i].vault = v => queue'[i] = job
    BY <1>0, <2>2
  <2>4. \E i \in DOMAIN queue' : queue'[i] = job
    BY <2>2
  <2>5. JobStarts(v, kind, typed)
    BY <1>0, <2>1, <2>3, <2>4 DEF JobStarts, OfKind, Tracked, JobOf, Done, Busy, Waiting
  <2>6. v \in before => Supplied(v)'
    BY <1>0, <2>1, <2>3 DEF Supplied, Tracked
  <2>7. ~(kind = "open" \/ typed) => Supplied(v)'
    BY <1>0, <2>1, <2>3 DEF Supplied, Tracked
  <2> QED
    BY <2>1, <2>5, <2>6, <2>7
<1> QED
  BY <1>1, <1>2

LEMMA AdvanceOther ==
    ASSUME TypeOK, QueueIsServed, run.job \in Job, NEW before, Advance(before, ram'),
           NEW v \in Vaults, v # run.job.vault, v \in before <=> v \in ram
    PROVE  JobsStand(v)
<1> USE LifecycleUiAssumption
<1>0. ~Tracked(v)
  BY DEF Tracked
<1>1. CASE queue = <<>>
  <2>1. run'.job = None /\ queue' = <<>> /\ ram' = before
    BY <1>1 DEF Advance, NoRun
  <2> QED
    BY <1>0, <1>1, <2>1 DEF JobsStand, OfKind, Tracked, JobOf, Done, Busy, Waiting, Supplied
<1>2. CASE queue # <<>>
  <2>1. /\ run'.job = queue[1] /\ run'.rpc = "sent" /\ run'.password = (queue[1].vault \in before)
        /\ queue' = Tail(queue) /\ ram' = Borrowed(queue[1], before)
    BY <1>2 DEF TypeOK, Advance, Executed
  <2>2. 1 \in DOMAIN queue /\ queue[1] \in Job /\ queue[1] # None
    BY <1>2 DEF TypeOK
  <2>0. \A j \in DOMAIN queue' : j \in Nat \ {0} /\ j + 1 \in DOMAIN queue /\ queue'[j] = queue[j + 1]
    BY <1>2, <2>1 DEF TypeOK
  <2>3. /\ \A j \in DOMAIN queue' : j + 1 \in DOMAIN queue /\ queue'[j] = queue[j + 1] /\ j + 1 # 1
        /\ \A i \in DOMAIN queue : i # 1 => i - 1 \in DOMAIN queue' /\ queue'[i - 1] = queue[i]
    <3>1. \A i \in DOMAIN queue : i # 1 => i - 1 \in DOMAIN queue' /\ queue'[i - 1] = queue[i]
      BY <1>2, <2>1 DEF TypeOK
    <3> QED
      BY <2>0, <3>1
  <2>4. CASE queue[1].vault = v
    <3>1. \A i \in DOMAIN queue : queue[i].vault = v => i = 1
      BY <2>2, <2>4 DEF QueueIsServed
    <3>2. \A j \in DOMAIN queue' : queue'[j].vault # v
      BY <2>3, <3>1
    <3>3. Tracked(v)'
      BY <2>1, <2>2, <2>4 DEF Tracked
    <3>4. /\ \A kind : OfKind(v, kind)' <=> OfKind(v, kind)
          /\ \A kind, typed : JobOf(v, kind, typed)' <=> JobOf(v, kind, typed)
          /\ \A kind : ~Done(v, kind)' /\ ~Done(v, kind)
          /\ Busy(v)' /\ Busy(v)
      BY <1>0, <2>1, <2>2, <2>4, <3>1, <3>2, <3>3 DEF OfKind, JobOf, Done, Busy, Waiting
    <3>5. v \in ram' => v \in ram
      BY <2>1 DEF Borrowed
    <3>6. Supplied(v) => Supplied(v)'
      BY <2>1, <2>2, <2>4, <3>2 DEF Supplied
    <3> QED
      BY <3>4, <3>5, <3>6 DEF JobsStand
  <2>5. CASE queue[1].vault # v
    <3>1. ~Tracked(v)'
      BY <2>1, <2>5 DEF Tracked
    <3>2. \A kind : ~Done(v, kind)' /\ ~Done(v, kind)
      BY <1>0, <3>1 DEF Done
    <3>3. \A kind : OfKind(v, kind)' <=> OfKind(v, kind)
      BY <1>0, <2>3, <2>5, <3>1 DEF OfKind
    <3>4. \A kind, typed : JobOf(v, kind, typed)' <=> JobOf(v, kind, typed)
      BY <1>0, <2>3, <2>5, <3>1 DEF JobOf
    <3>5. Busy(v)' <=> Busy(v)
      BY <1>0, <2>3, <2>5, <3>1 DEF Busy, Waiting
    <3>6. v \in ram' <=> v \in ram
      BY <2>1, <2>5 DEF Borrowed
    <3>7. Supplied(v) => Supplied(v)'
      BY <2>3, <3>1, <3>6 DEF Supplied
    <3> QED
      BY <3>2, <3>3, <3>4, <3>5, <3>6, <3>7 DEF JobsStand
  <2> QED
    BY <2>4, <2>5
<1> QED
  BY <1>1, <1>2

LEMMA AdvanceOwn ==
    ASSUME TypeOK, QueueIsServed, run.job \in Job, NEW before, Advance(before, ram'),
           NEW v \in Vaults, v = run.job.vault
    PROVE  JobEnds(v) /\ (v \in ram' => v \in before)
<1> USE LifecycleUiAssumption
<1>0. \A i \in DOMAIN queue : queue[i].vault # v
  BY DEF QueueIsServed, Tracked
<1>1. ~Tracked(v)' /\ ~Waiting(v)' /\ (v \in ram' => v \in before)
  <2>1. CASE queue = <<>>
    BY <2>1 DEF Advance, NoRun, Tracked, Waiting
  <2>2. CASE queue # <<>>
    <3>1. run'.job = queue[1] /\ queue' = Tail(queue) /\ ram' = Borrowed(queue[1], before)
      BY <2>2 DEF TypeOK, Advance, Executed
    <3>2. 1 \in DOMAIN queue
      BY <2>2 DEF TypeOK
    <3>3. \A j \in DOMAIN queue' : j + 1 \in DOMAIN queue /\ queue'[j] = queue[j + 1]
      BY <2>2, <3>1 DEF TypeOK
    <3> QED
      BY <1>0, <3>1, <3>2, <3>3 DEF Tracked, Waiting, Borrowed
  <2> QED
    BY <2>1, <2>2
<1>2. JobEnds(v)
  BY <1>1 DEF JobEnds, OfKind, JobOf, Done, Busy, Waiting, Supplied
<1> QED
  BY <1>1, <1>2

-----------------------------------------------------------------------------
\* What a step may leave as it is: what the core has and may still do late, ...
LateFor(v) == late # None /\ late.call.vault = v
CoreStands(v) ==
    /\ core'[v] = core[v]
    /\ v \in gaveUp' <=> v \in gaveUp
    /\ LateFor(v)' => LateFor(v) /\ late' = late

\* ... the row, its badge and the list requests under way, ...
ListsStand(v) == \A f \in Fetches :
    /\ fetch'[f].is = fetch[f].is /\ fetch'[f].saw = fetch[f].saw
    /\ v \in fetch'[f].written <=> v \in fetch[f].written
RowStands(v) ==
    /\ row'[v] = row[v] /\ hold'[v] = hold[v]
    /\ v \in creating' => v \in creating
    /\ v \in wasOpen' <=> v \in wasOpen
    /\ ListsStand(v)

\* ... what is remembered of the passwords, ...
NamesStand(v) ==
    /\ v \in crossed => v \in crossed'
    /\ typedClose = v /\ Busy(v)' => typedClose' = v \/ v \in crossed'
SecretsStand(v) ==
    /\ restoring'[v] = restoring[v]
    /\ v \in retain' => v \in retain
    /\ NamesStand(v)

\* ... and the dialogs: there is none that was not.
Asks(v, intent) == request # None /\ request.vault = v /\ request.intent = intent
DialogsStand(v) ==
    /\ v \in asked' => v \in asked
    /\ \A intent \in {"unlock", "close"} : Asks(v, intent)' => Asks(v, intent)

\* setVaultRuntimeState marks the row in every list request under way.
ListsMarked(v) == \A f \in Fetches :
    /\ fetch'[f].is = fetch[f].is /\ fetch'[f].saw = fetch[f].saw
    /\ fetch[f].is # "idle" => v \in fetch'[f].written
RowSet(v, session) ==
    /\ row'[v] = IF row[v] = "absent" THEN "absent" ELSE session
    /\ v \in creating' => v \in creating
    /\ ListsMarked(v)

Elsewhere(v) ==
    CoreStands(v) /\ RowStands(v) /\ JobsStand(v) /\ SecretsStand(v) /\ DialogsStand(v)

\* The steps of a list request.
Lists(v) ==
    /\ CoreStands(v) /\ JobsStand(v) /\ SecretsStand(v) /\ DialogsStand(v)
    /\ hold'[v] = hold[v] /\ (v \in creating' => v \in creating)
    /\ v \in wasOpen' <=> v \in wasOpen
    /\ \E f \in Fetches :
          /\ \A g \in Fetches \ {f} : fetch'[g] = fetch[g]
          /\ \/ row'[v] = row[v] /\ fetch'[f].is \in {"idle", "asked"}
             \/ row'[v] = row[v] /\ fetch'[f].is = "read" /\ fetch'[f].saw[v] = core[v]
             \/ /\ fetch[f].is = "read" /\ fetch'[f].is = "idle"
                /\ row'[v] = Merged(v, fetch[f])

\* The dialog comes up for the vault, or its lock waits for the settings.
Asking(v) ==
    /\ CoreStands(v) /\ RowStands(v) /\ JobsStand(v) /\ SecretsStand(v)
    /\ \/ /\ ListStatus(v) \in {"closed", "opening", "queued"} \/ v \in asked
          /\ v \in asked' => v \in asked
          /\ Asks(v, "unlock")' => ListStatus(v) \in {"closed", "opening", "queued"}
       \/ /\ ListStatus(v) = "open"
          /\ \A intent \in {"unlock", "close"} : Asks(v, intent)' => Asks(v, intent)

\* A close starts: of an open row, or of one without the badge.
Closing(v, open, typed) ==
    /\ v \in asked \/ row[v] = "open" \/ Asks(v, "close")
    /\ open \/ (row[v] # "open" /\ ~Held(v))
    /\ CoreStands(v) /\ DialogsStand(v)
    /\ JobStarts(v, "close", typed) /\ Supplied(v)'
    /\ hold'[v] = "held" /\ RowSet(v, "closing")
    /\ v \in wasOpen' <=> open
    /\ restoring'[v] = restoring[v]
    /\ v \in retain' => v \in retain
    /\ IF typed THEN typedClose' = v
       ELSE NamesStand(v) /\ (v \in ram' => v \in ram)

Opening(v) ==
    /\ Asks(v, "unlock")
    /\ CoreStands(v) /\ DialogsStand(v) /\ NamesStand(v)
    /\ JobStarts(v, "open", TRUE) /\ Supplied(v)'
    /\ hold'[v] = "none" /\ restoring'[v] = "none"
    /\ row'[v] = row[v] /\ (v \in creating' => v \in creating)
    /\ v \in wasOpen' <=> v \in wasOpen
    /\ ListsStand(v)

Revealing(v) ==
    /\ hold[v] = "timed" /\ hold'[v] = "none"
    /\ RowSet(v, "closed") /\ v \notin wasOpen'
    /\ CoreStands(v) /\ JobsStand(v) /\ SecretsStand(v) /\ DialogsStand(v)

\* The settings of an open come back: the password may come back with them.
Restored(v) ==
    /\ CoreStands(v) /\ RowStands(v) /\ DialogsStand(v) /\ NamesStand(v)
    /\ restoring[v] # "none" /\ restoring'[v] = "none"
    /\ v \in retain' => v \in retain
    /\ run' = run /\ queue' = queue
    /\ IF row[v] = "open" THEN v \in ram' => v \in ram \/ restoring[v] = "with"
       ELSE ram' = ram

\* The core answers the job, never acts on it in time, or acts on a late one.
Acting(v) ==
    /\ Tracked(v) /\ run.rpc = "sent" /\ late' = late
    /\ v \in gaveUp' <=> v \in gaveUp
    /\ RowStands(v) /\ SecretsStand(v) /\ DialogsStand(v)
    /\ ram' = ram /\ queue' = queue /\ run'.job = run.job /\ run'.password = run.password
    /\ \/ /\ Serves(v, run.job.kind, run.password) /\ run'.rpc = "ok"
          /\ core'[v] = IF run.job.kind = "open" THEN "open" ELSE "closed"
       \/ core'[v] = core[v] /\ run'.rpc = "failed"

GivenUp(v) ==
    /\ Tracked(v) /\ late'.call.vault = v /\ late'.call.kind = run.job.kind
    /\ v \in gaveUp' /\ core'[v] = core[v]
    /\ RowStands(v) /\ JobsStand(v) /\ SecretsStand(v) /\ DialogsStand(v)

ActingLate(v) ==
    /\ LateFor(v) /\ late' = None
    /\ v \in gaveUp' <=> v \in gaveUp
    /\ RowStands(v) /\ JobsStand(v) /\ SecretsStand(v) /\ DialogsStand(v)
    /\ \/ /\ Serves(v, late.call.kind, late.password)
          /\ core'[v] = IF late.call.kind = "open" THEN "open" ELSE "closed"
       \/ core'[v] = core[v]

\* The answers to an open and to a close.
Ended(v, kind, rpc) ==
    /\ Tracked(v) /\ run.job.kind = kind /\ run.rpc = rpc
    /\ JobEnds(v) /\ (v \in ram' => v \in ram)
    /\ CoreStands(v) /\ DialogsStand(v) /\ NamesStand(v)

Opened(v) ==
    /\ Ended(v, "open", "ok")
    /\ RowSet(v, "open") /\ hold'[v] = "none"
    /\ v \in wasOpen' <=> v \in wasOpen
    /\ v \notin retain'

OpenRefused(v) ==
    /\ Ended(v, "open", "failed")
    /\ RowStands(v) /\ restoring'[v] = "none" /\ v \notin retain' /\ v \notin ram'

Closed(v) ==
    /\ Ended(v, "close", "ok")
    /\ row'[v] = row[v] /\ (v \in creating' => v \in creating) /\ ListsStand(v)
    /\ v \in wasOpen' <=> v \in wasOpen
    /\ hold'[v] = "timed" /\ \A intent \in {"unlock", "close"} : ~Asks(v, intent)'
    /\ restoring'[v] = "none" /\ (v \in retain' => v \in retain) /\ v \notin ram'

CloseRefused(v) ==
    /\ Tracked(v) /\ run.job.kind = "close" /\ run.rpc = "failed"
    /\ JobEnds(v) /\ CoreStands(v) /\ DialogsStand(v)
    /\ RowSet(v, IF v \in wasOpen THEN "open" ELSE "closed") /\ hold'[v] = "none"
    /\ v \notin wasOpen'
    /\ restoring'[v] = restoring[v] /\ (v \in retain' => v \in retain)
    /\ v \in crossed' <=> v \in crossed
    /\ v \in ram' => v \in ram /\ typedClose # v

Happens(v) ==
    \/ Elsewhere(v) \/ Lists(v) \/ Asking(v) \/ Opening(v) \/ Revealing(v) \/ Restored(v)
    \/ \E open, typed \in BOOLEAN : Closing(v, open, typed)
    \/ Acting(v) \/ GivenUp(v) \/ ActingLate(v)
    \/ Opened(v) \/ OpenRefused(v) \/ Closed(v) \/ CloseRefused(v)

-----------------------------------------------------------------------------
\* What stays true of the vault through each of these.

VaultTypes(v) ==
    /\ core[v] \in CoreStates /\ row[v] \in RowStates /\ hold[v] \in Holds
    /\ \A f \in Fetches : fetch[f].is \in {"idle", "asked", "read"} /\ fetch[f].saw[v] \in CoreStates
    /\ late # None => late.call.kind \in Kinds

\* A vault that was there from the start stays there, and the list knows.
KnownInv(v) ==
    /\ ~OfKind(v, "create") /\ v \notin creating
    /\ LateFor(v) => late.call.kind # "create"
    /\ row[v] = "absent" <=> core[v] = "absent"
    /\ \A f \in Fetches :
          fetch[f].is = "read" => (fetch[f].saw[v] = "absent" <=> core[v] = "absent")

\* The Closing badge is on exactly over a row that is closing.
BadgeInv(v) ==
    /\ row[v] = "absent" =>
          v \notin asked /\ ~Busy(v) /\ ~Asks(v, "unlock") /\ ~Asks(v, "close")
    /\ Held(v) <=> row[v] = "closing"
    /\ hold[v] = "held" <=> OfKind(v, "close")
    /\ hold[v] = "timed" => ~Asks(v, "unlock")
    /\ Held(v) => ~OfKind(v, "open")

\* A session of the core shows in the list, or is about to.
SessionInv(v) ==
    /\ LateFor(v) => v \in gaveUp
    /\ v \notin gaveUp =>
          /\ core[v] = "open" => row[v] \in {"open", "closing"} \/ Done(v, "open")
          /\ Done(v, "open") => core[v] = "open"
          /\ hold[v] = "timed" \/ Done(v, "close") => core[v] # "open"
          /\ OfKind(v, "close") /\ core[v] = "open" => v \in wasOpen
          /\ \A f \in Fetches :
                fetch[f].is = "read" /\ fetch[f].saw[v] # "open" /\ core[v] = "open" =>
                    v \in fetch[f].written \/ Done(v, "open")

\* A password in the map is that of a job, or of a vault that is open.
PasswordInv(v) ==
    /\ v \in ram \ (crossed \cup gaveUp) =>
          /\ OfKind(v, "open") \/ OfKind(v, "close") \/ core[v] = "open"
          /\ JobOf(v, "close", FALSE) => core[v] = "open" \/ Done(v, "close")
    /\ JobOf(v, "close", TRUE) => typedClose = v \/ v \in crossed
    /\ restoring[v] # "none" /\ v \notin gaveUp => core[v] = "open" \/ Done(v, "close")
    /\ v \in retain => OfKind(v, "open")

\* A job that needs the password of the vault finds it: nothing takes it away.
SupplyInv(v) ==
    /\ Supplied(v)
    /\ OfKind(v, "open") => restoring[v] = "none"

\* While the core acts the jobs stay.
LEMMA ActingJobs ==
    ASSUME NEW v \in Vaults, OneJob(v), Acting(v)
    PROVE  /\ Busy(v)' <=> Busy(v)
           /\ \A kind \in Kinds : /\ OfKind(v, kind)' <=> OfKind(v, kind)
                                  /\ OfKind(v, kind) <=> run.job.kind = kind
                                  /\ ~Done(v, kind)
                                  /\ Done(v, kind)' <=> run'.rpc = "ok" /\ run.job.kind = kind
           /\ \A kind \in Kinds, typed \in BOOLEAN : JobOf(v, kind, typed)' <=> JobOf(v, kind, typed)
           /\ run.job.kind \in Kinds
           /\ Supplied(v)' <=> Supplied(v)
<1>1. /\ Tracked(v) /\ run.rpc = "sent" /\ ram' = ram /\ queue' = queue
      /\ run'.job = run.job /\ run'.password = run.password
  BY DEF Acting
<1>2. \A kind : OfKind(v, kind)' <=> OfKind(v, kind)
  BY <1>1 DEF OfKind, Tracked
<1>3. \A kind, typed : JobOf(v, kind, typed)' <=> JobOf(v, kind, typed)
  BY <1>1 DEF JobOf, Tracked
<1>4. /\ Busy(v)' <=> Busy(v)
      /\ Supplied(v)' <=> Supplied(v)
  BY <1>1 DEF Busy, Waiting, Tracked, Supplied
<1>5. \A kind : ~Done(v, kind) /\ (Done(v, kind)' <=> run'.rpc = "ok" /\ run.job.kind = kind)
  BY <1>1 DEF Done, Tracked
<1>6. run.job.kind \in Kinds /\ \A kind \in Kinds : OfKind(v, kind) <=> run.job.kind = kind
  BY <1>1 DEF OneJob, Job
<1> QED
  BY <1>2, <1>3, <1>4, <1>5, <1>6

\* Nothing creates the vault, takes it away or lists it as gone.
LEMMA KnownKept ==
    ASSUME NEW v \in Vaults, VaultTypes(v), OneJob(v), KnownInv(v), Happens(v)
    PROVE  KnownInv(v)'
<1> USE DEF KnownInv, VaultTypes, OneJob, Kinds, CoreStates, RowStates, Holds, LateFor
<1>1. CASE Elsewhere(v)
  BY <1>1 DEF Elsewhere, CoreStands, RowStands, ListsStand, JobsStand, SecretsStand, NamesStand, DialogsStand
<1>2. CASE Lists(v)
  BY <1>2 DEF Lists, CoreStands, JobsStand, SecretsStand, NamesStand, DialogsStand, Merged, Newer
<1>3. CASE Asking(v)
  BY <1>3 DEF Asking, CoreStands, RowStands, ListsStand, JobsStand, SecretsStand, NamesStand
<1>4. CASE Opening(v)
  BY <1>4 DEF Opening, CoreStands, ListsStand, JobStarts, DialogsStand, NamesStand
<1>5. CASE Revealing(v)
  BY <1>5 DEF Revealing, RowSet, ListsMarked, CoreStands, JobsStand, SecretsStand, NamesStand, DialogsStand
<1>6. CASE Restored(v)
  BY <1>6 DEF Restored, CoreStands, RowStands, ListsStand, DialogsStand, NamesStand, OfKind, Done, JobOf, Busy, Waiting, Tracked
<1>7. ASSUME NEW open \in BOOLEAN, NEW typed \in BOOLEAN, Closing(v, open, typed)
      PROVE  KnownInv(v)'
  BY <1>7 DEF Closing, RowSet, ListsMarked, CoreStands, JobStarts, DialogsStand, NamesStand
<1>8. CASE Acting(v)
  BY ActingJobs, <1>8 DEF Acting, RowStands, ListsStand, SecretsStand, NamesStand, DialogsStand, Serves
<1>9. CASE GivenUp(v)
  BY <1>9 DEF GivenUp, RowStands, ListsStand, JobsStand, SecretsStand, NamesStand, DialogsStand
<1>10. CASE ActingLate(v)
  BY <1>10 DEF ActingLate, RowStands, ListsStand, JobsStand, SecretsStand, NamesStand, DialogsStand, Serves, LateFor
<1>11. CASE Opened(v)
  BY <1>11 DEF Opened, Ended, RowSet, ListsMarked, CoreStands, JobEnds, DialogsStand, NamesStand
<1>12. CASE OpenRefused(v)
  BY <1>12 DEF OpenRefused, Ended, RowStands, ListsStand, CoreStands, JobEnds, DialogsStand, NamesStand
<1>13. CASE Closed(v)
  BY <1>13 DEF Closed, Ended, ListsStand, CoreStands, JobEnds, DialogsStand, NamesStand
<1>14. CASE CloseRefused(v)
  BY <1>14 DEF CloseRefused, RowSet, ListsMarked, CoreStands, JobEnds, DialogsStand
<1> QED
  BY <1>1, <1>2, <1>3, <1>4, <1>5, <1>6, <1>7, <1>8, <1>9, <1>10, <1>11, <1>12, <1>13, <1>14 DEF Happens

\* The badge goes on with the row and off with it.
LEMMA BadgeKept ==
    ASSUME NEW v \in Vaults, VaultTypes(v), OneJob(v), KnownInv(v), BadgeInv(v), Happens(v)
    PROVE  BadgeInv(v)'
<1> USE DEF BadgeInv, VaultTypes, OneJob, Kinds, CoreStates, RowStates, Holds, Held, ListStatus, KnownInv
<1>1. CASE Elsewhere(v)
  BY <1>1 DEF Elsewhere, CoreStands, RowStands, ListsStand, JobsStand, SecretsStand, NamesStand, DialogsStand
<1>2. CASE Lists(v)
  BY <1>2 DEF Lists, CoreStands, JobsStand, SecretsStand, NamesStand, DialogsStand, Merged, Newer
<1>3. CASE Asking(v)
  BY <1>3 DEF Asking, CoreStands, RowStands, ListsStand, JobsStand, SecretsStand, NamesStand, Busy
<1>4. CASE Opening(v)
  BY <1>4 DEF Opening, CoreStands, ListsStand, JobStarts, DialogsStand, NamesStand
<1>5. CASE Revealing(v)
  BY <1>5 DEF Revealing, RowSet, ListsMarked, CoreStands, JobsStand, SecretsStand, NamesStand, DialogsStand
<1>6. CASE Restored(v)
  BY <1>6 DEF Restored, CoreStands, RowStands, ListsStand, DialogsStand, NamesStand, OfKind, Done, JobOf, Busy, Waiting, Tracked
<1>7. ASSUME NEW open \in BOOLEAN, NEW typed \in BOOLEAN, Closing(v, open, typed)
      PROVE  BadgeInv(v)'
  BY <1>7 DEF Closing, RowSet, ListsMarked, CoreStands, JobStarts, DialogsStand, NamesStand
<1>8. CASE Acting(v)
  BY ActingJobs, <1>8 DEF Acting, RowStands, ListsStand, SecretsStand, NamesStand, DialogsStand, Serves
<1>9. CASE GivenUp(v)
  BY <1>9 DEF GivenUp, RowStands, ListsStand, JobsStand, SecretsStand, NamesStand, DialogsStand
<1>10. CASE ActingLate(v)
  BY <1>10 DEF ActingLate, RowStands, ListsStand, JobsStand, SecretsStand, NamesStand, DialogsStand, Serves, LateFor
<1>11. CASE Opened(v)
  BY <1>11 DEF Opened, Ended, RowSet, ListsMarked, CoreStands, JobEnds, DialogsStand, NamesStand
<1>12. CASE OpenRefused(v)
  BY <1>12 DEF OpenRefused, Ended, RowStands, ListsStand, CoreStands, JobEnds, DialogsStand, NamesStand
<1>13. CASE Closed(v)
  BY <1>13 DEF Closed, Ended, ListsStand, CoreStands, JobEnds, DialogsStand, NamesStand
<1>14. CASE CloseRefused(v)
  BY <1>14 DEF CloseRefused, RowSet, ListsMarked, CoreStands, JobEnds, DialogsStand
<1> QED
  BY <1>1, <1>2, <1>3, <1>4, <1>5, <1>6, <1>7, <1>8, <1>9, <1>10, <1>11, <1>12, <1>13, <1>14 DEF Happens

\* The row follows the core, and no list that the core has overtaken undoes it.
LEMMA SessionKept ==
    ASSUME NEW v \in Vaults, VaultTypes(v), OneJob(v), KnownInv(v), BadgeInv(v), SessionInv(v), Happens(v)
    PROVE  SessionInv(v)'
<1> USE DEF SessionInv, VaultTypes, OneJob, Kinds, CoreStates, RowStates, Holds, Held, KnownInv, BadgeInv
<1>1. CASE Elsewhere(v)
  BY <1>1 DEF Elsewhere, CoreStands, RowStands, ListsStand, JobsStand, SecretsStand, NamesStand, DialogsStand
<1>2. CASE Lists(v)
  BY <1>2 DEF Lists, CoreStands, JobsStand, SecretsStand, NamesStand, DialogsStand, Merged, Newer
<1>3. CASE Asking(v)
  BY <1>3 DEF Asking, CoreStands, RowStands, ListsStand, JobsStand, SecretsStand, NamesStand
<1>4. CASE Opening(v)
  BY <1>4 DEF Opening, CoreStands, ListsStand, JobStarts, DialogsStand, NamesStand
<1>5. CASE Revealing(v)
  BY <1>5 DEF Revealing, RowSet, ListsMarked, CoreStands, JobsStand, SecretsStand, NamesStand, DialogsStand
<1>6. CASE Restored(v)
  BY <1>6 DEF Restored, CoreStands, RowStands, ListsStand, DialogsStand, NamesStand, OfKind, Done, JobOf, Busy, Waiting, Tracked
<1>7. ASSUME NEW open \in BOOLEAN, NEW typed \in BOOLEAN, Closing(v, open, typed)
      PROVE  SessionInv(v)'
  BY <1>7 DEF Closing, RowSet, ListsMarked, CoreStands, JobStarts, DialogsStand, NamesStand
<1>8. CASE Acting(v)
  <2>0. /\ row'[v] = row[v] /\ hold'[v] = hold[v] /\ late' = late
        /\ v \in wasOpen' <=> v \in wasOpen
        /\ v \in gaveUp' <=> v \in gaveUp
        /\ ListsStand(v)
    BY <1>8 DEF Acting, RowStands
  <2>1. LateFor(v)' <=> LateFor(v)
    BY <2>0 DEF LateFor
  <2>2. CASE run'.rpc = "failed"
    <3>1. core'[v] = core[v] /\ \A kind \in Kinds : ~Done(v, kind)'
      BY <1>8, <2>2, ActingJobs DEF Acting
    <3> QED
      BY <1>8, <2>0, <2>1, <3>1, ActingJobs DEF ListsStand
  <2>3. CASE run'.rpc = "ok"
    <3>1. core'[v] = IF run.job.kind = "open" THEN "open" ELSE "closed"
      BY <1>8, <2>3 DEF Acting
    <3>2. /\ run.job.kind \in {"open", "close"}
          /\ Done(v, "open")' <=> run.job.kind = "open"
          /\ Done(v, "close")' <=> run.job.kind = "close"
      BY <1>8, <2>3, ActingJobs
    <3>3. /\ OfKind(v, "close")' <=> run.job.kind = "close"
          /\ OfKind(v, "open") <=> run.job.kind = "open"
      BY <1>8, ActingJobs
    <3>4. CASE run.job.kind = "open"
      <4>1. core'[v] = "open" /\ Done(v, "open")' /\ ~Done(v, "close")' /\ ~OfKind(v, "close")'
        BY <3>1, <3>2, <3>3, <3>4
      <4>2. hold'[v] # "timed"
        BY <2>0, <3>3, <3>4
      <4> QED
        BY <2>0, <2>1, <4>1, <4>2
    <3>5. CASE run.job.kind = "close"
      <4>1. core'[v] = "closed" /\ ~Done(v, "open")'
        BY <3>1, <3>2, <3>5
      <4> QED
        BY <2>0, <2>1, <4>1
    <3> QED
      BY <3>2, <3>4, <3>5
  <2> QED
    BY <1>8, <2>2, <2>3 DEF Acting
<1>9. CASE GivenUp(v)
  BY <1>9 DEF GivenUp, RowStands, ListsStand, JobsStand, SecretsStand, NamesStand, DialogsStand
<1>10. CASE ActingLate(v)
  BY <1>10 DEF ActingLate, RowStands, ListsStand, JobsStand, SecretsStand, NamesStand, DialogsStand, Serves, LateFor
<1>11. CASE Opened(v)
  BY <1>11 DEF Opened, Ended, RowSet, ListsMarked, CoreStands, JobEnds, DialogsStand, NamesStand, Done
<1>12. CASE OpenRefused(v)
  BY <1>12 DEF OpenRefused, Ended, RowStands, ListsStand, CoreStands, JobEnds, DialogsStand, NamesStand, Done
<1>13. CASE Closed(v)
  BY <1>13 DEF Closed, Ended, ListsStand, CoreStands, JobEnds, DialogsStand, NamesStand, Done
<1>14. CASE CloseRefused(v)
  BY <1>14 DEF CloseRefused, RowSet, ListsMarked, CoreStands, JobEnds, DialogsStand, Done
<1> QED
  BY <1>1, <1>2, <1>3, <1>4, <1>5, <1>6, <1>7, <1>8, <1>9, <1>10, <1>11, <1>12, <1>13, <1>14 DEF Happens

\* A password that stays behind belongs to a session.
LEMMA PasswordKept ==
    ASSUME NEW v \in Vaults, VaultTypes(v), OneJob(v), KnownInv(v), BadgeInv(v), SessionInv(v), PasswordInv(v), Happens(v)
    PROVE  PasswordInv(v)'
<1> USE DEF PasswordInv, VaultTypes, OneJob, Kinds, CoreStates, RowStates, Holds, Held, KnownInv, BadgeInv, SessionInv
<1>1. CASE Elsewhere(v)
  BY <1>1 DEF Elsewhere, CoreStands, RowStands, ListsStand, JobsStand, SecretsStand, NamesStand, DialogsStand
<1>2. CASE Lists(v)
  BY <1>2 DEF Lists, CoreStands, JobsStand, SecretsStand, NamesStand, DialogsStand, Merged, Newer
<1>3. CASE Asking(v)
  BY <1>3 DEF Asking, CoreStands, RowStands, ListsStand, JobsStand, SecretsStand, NamesStand
<1>4. CASE Opening(v)
  BY <1>4 DEF Opening, CoreStands, ListsStand, JobStarts, DialogsStand, NamesStand
<1>5. CASE Revealing(v)
  BY <1>5 DEF Revealing, RowSet, ListsMarked, CoreStands, JobsStand, SecretsStand, NamesStand, DialogsStand
<1>6. CASE Restored(v)
  BY <1>6 DEF Restored, CoreStands, RowStands, ListsStand, DialogsStand, NamesStand, OfKind, Done, JobOf, Busy, Waiting, Tracked
<1>7. ASSUME NEW open \in BOOLEAN, NEW typed \in BOOLEAN, Closing(v, open, typed)
      PROVE  PasswordInv(v)'
  BY <1>7 DEF Closing, RowSet, ListsMarked, CoreStands, JobStarts, DialogsStand, NamesStand
<1>8. CASE Acting(v)
  BY ActingJobs, <1>8 DEF Acting, RowStands, ListsStand, SecretsStand, NamesStand, DialogsStand, Serves
<1>9. CASE GivenUp(v)
  BY <1>9 DEF GivenUp, RowStands, ListsStand, JobsStand, SecretsStand, NamesStand, DialogsStand
<1>10. CASE ActingLate(v)
  BY <1>10 DEF ActingLate, RowStands, ListsStand, JobsStand, SecretsStand, NamesStand, DialogsStand, Serves, LateFor
<1>11. CASE Opened(v)
  BY <1>11 DEF Opened, Ended, RowSet, ListsMarked, CoreStands, JobEnds, DialogsStand, NamesStand, Done
<1>12. CASE OpenRefused(v)
  BY <1>12 DEF OpenRefused, Ended, RowStands, ListsStand, CoreStands, JobEnds, DialogsStand, NamesStand, Done
<1>13. CASE Closed(v)
  BY <1>13 DEF Closed, Ended, ListsStand, CoreStands, JobEnds, DialogsStand, NamesStand, Done
<1>14. CASE CloseRefused(v)
  BY <1>14 DEF CloseRefused, RowSet, ListsMarked, CoreStands, JobEnds, DialogsStand, Done
<1> QED
  BY <1>1, <1>2, <1>3, <1>4, <1>5, <1>6, <1>7, <1>8, <1>9, <1>10, <1>11, <1>12, <1>13, <1>14 DEF Happens

\* No answer takes the password of a job that still needs it.
LEMMA SupplyKept ==
    ASSUME NEW v \in Vaults, VaultTypes(v), OneJob(v), KnownInv(v), BadgeInv(v), SupplyInv(v), Happens(v)
    PROVE  SupplyInv(v)'
<1> USE DEF SupplyInv, VaultTypes, OneJob, Kinds, CoreStates, RowStates, Holds, Held, KnownInv, BadgeInv
<1>1. CASE Elsewhere(v)
  BY <1>1 DEF Elsewhere, CoreStands, RowStands, ListsStand, JobsStand, SecretsStand, NamesStand, DialogsStand
<1>2. CASE Lists(v)
  BY <1>2 DEF Lists, CoreStands, JobsStand, SecretsStand, NamesStand, DialogsStand, Merged, Newer
<1>3. CASE Asking(v)
  BY <1>3 DEF Asking, CoreStands, RowStands, ListsStand, JobsStand, SecretsStand, NamesStand
<1>4. CASE Opening(v)
  BY <1>4 DEF Opening, CoreStands, ListsStand, JobStarts, DialogsStand, NamesStand
<1>5. CASE Revealing(v)
  BY <1>5 DEF Revealing, RowSet, ListsMarked, CoreStands, JobsStand, SecretsStand, NamesStand, DialogsStand
<1>6. CASE Restored(v)
  <2>1. UNCHANGED <<run, queue>> /\ ~OfKind(v, "open") /\ ~OfKind(v, "create")
    BY <1>6 DEF Restored
  <2>2. \A kind : OfKind(v, kind)' <=> OfKind(v, kind)
    BY <2>1 DEF OfKind, Tracked
  <2>3. OfKind(v, "close") => row[v] # "open"
    OBVIOUS
  <2>4. CASE row[v] = "open"
    <3>1. ~Busy(v)
      BY <2>1, <2>3, <2>4
    <3>2. ~Busy(v)'
      BY <2>1, <3>1 DEF Busy, Waiting, Tracked
    <3>3. Supplied(v)'
      BY <3>2 DEF Supplied, Busy, Waiting, Tracked
    <3> QED
      BY <1>6, <2>1, <2>2, <3>3 DEF Restored
  <2>5. CASE row[v] # "open"
    <3>1. ram' = ram
      BY <1>6, <2>5 DEF Restored
    <3>2. Supplied(v)'
      BY <2>1, <3>1 DEF Supplied, Tracked
    <3> QED
      BY <1>6, <2>1, <2>2, <3>2 DEF Restored
  <2> QED
    BY <2>4, <2>5
<1>7. ASSUME NEW open \in BOOLEAN, NEW typed \in BOOLEAN, Closing(v, open, typed)
      PROVE  SupplyInv(v)'
  BY <1>7 DEF Closing, RowSet, ListsMarked, CoreStands, JobStarts, DialogsStand, NamesStand
<1>8. CASE Acting(v)
  BY ActingJobs, <1>8 DEF Acting, RowStands, ListsStand, SecretsStand, NamesStand, DialogsStand, Serves
<1>9. CASE GivenUp(v)
  BY <1>9 DEF GivenUp, RowStands, ListsStand, JobsStand, SecretsStand, NamesStand, DialogsStand
<1>10. CASE ActingLate(v)
  BY <1>10 DEF ActingLate, RowStands, ListsStand, JobsStand, SecretsStand, NamesStand, DialogsStand, Serves, LateFor
<1>11. CASE Opened(v)
  BY <1>11 DEF Opened, Ended, RowSet, ListsMarked, CoreStands, JobEnds, DialogsStand, NamesStand
<1>12. CASE OpenRefused(v)
  BY <1>12 DEF OpenRefused, Ended, RowStands, ListsStand, CoreStands, JobEnds, DialogsStand, NamesStand
<1>13. CASE Closed(v)
  BY <1>13 DEF Closed, Ended, ListsStand, CoreStands, JobEnds, DialogsStand, NamesStand
<1>14. CASE CloseRefused(v)
  BY <1>14 DEF CloseRefused, RowSet, ListsMarked, CoreStands, JobEnds, DialogsStand
<1> QED
  BY <1>1, <1>2, <1>3, <1>4, <1>5, <1>6, <1>7, <1>8, <1>9, <1>10, <1>11, <1>12, <1>13, <1>14 DEF Happens

-----------------------------------------------------------------------------
\* Every step is one of these to every vault that was there from the start.

\* What a step leaves, it leaves to every vault.
LEMMA LeftAlone ==
    ASSUME NEW v
    PROVE  /\ UNCHANGED <<core, gaveUp, late>> => CoreStands(v)
           /\ UNCHANGED <<row, hold, creating, wasOpen, fetch>> => RowStands(v)
           /\ UNCHANGED <<restoring, retain, typedClose, crossed>> => SecretsStand(v)
           /\ UNCHANGED <<typedClose, crossed>> => NamesStand(v)
           /\ UNCHANGED <<asked, request>> => DialogsStand(v)
  BY DEF CoreStands, LateFor, RowStands, ListsStand, SecretsStand, NamesStand, DialogsStand, Asks

LEMMA JobsLeftAlone ==
    ASSUME NEW v, UNCHANGED <<run, queue>>, v \in ram' <=> v \in ram
    PROVE  JobsStand(v)
  BY DEF JobsStand, Busy, Waiting, Tracked, OfKind, JobOf, Done, Supplied

LEMMA TouchedLists ==
    ASSUME TypeOK, NEW u \in Vaults, NEW v \in Vaults, fetch' = Touched(u)
    PROVE  /\ u = v => ListsMarked(v)
           /\ u # v => ListsStand(v)
<1> SUFFICES ASSUME NEW f \in Fetches
             PROVE  /\ fetch'[f].is = fetch[f].is /\ fetch'[f].saw = fetch[f].saw
                    /\ u = v /\ fetch[f].is # "idle" => v \in fetch'[f].written
                    /\ u # v => (v \in fetch'[f].written <=> v \in fetch[f].written)
  BY DEF ListsMarked, ListsStand
<1>1. fetch[f] \in FetchStates
  BY DEF TypeOK
<1>2. fetch'[f] = IF fetch[f].is = "idle" THEN fetch[f]
                  ELSE [fetch[f] EXCEPT !.written = @ \cup {u}]
  BY DEF Touched
<1> QED
  BY <1>1, <1>2 DEF FetchStates

LEMMA DropRowElsewhere ==
    ASSUME TypeOK, NEW u \in Vaults, NEW v \in Vaults, u # v, DropRow(u)
    PROVE  row'[v] = row[v] /\ ListsStand(v)
<1>1. row'[v] = row[v]
  BY DEF DropRow, TypeOK
<1>2. ASSUME NEW f \in Fetches
      PROVE  /\ fetch'[f].is = fetch[f].is /\ fetch'[f].saw = fetch[f].saw
             /\ v \in fetch'[f].written <=> v \in fetch[f].written
  <2>1. fetch[f] \in FetchStates
    BY DEF TypeOK
  <2>2. fetch'[f] = [fetch[f] EXCEPT !.written = @ \ {u}]
    BY DEF DropRow
  <2> QED
    BY <2>1, <2>2 DEF FetchStates
<1> QED
  BY <1>1, <1>2 DEF ListsStand

LEMMA SetRowEach ==
    ASSUME TypeOK, NEW u \in Vaults, NEW v \in Vaults, NEW session, SetRow(u, session),
           creating' = creating
    PROVE  /\ u = v => RowSet(v, session)
           /\ u # v => row'[v] = row[v] /\ ListsStand(v)
<1>1. fetch' = Touched(u)
  BY DEF SetRow
<1>2. row'[v] = IF u = v /\ row[v] # "absent" THEN session ELSE row[v]
  BY DEF SetRow, TypeOK
<1> QED
  BY <1>1, <1>2, TouchedLists DEF RowSet

LEMMA StartCloseEach ==
    ASSUME TypeOK, NEW u \in Vaults, NEW v \in Vaults,
           NEW open \in BOOLEAN, NEW typed \in BOOLEAN, NEW passwords,
           StartClose(u, open, typed, passwords), creating' = creating,
           u = v /\ typed => v \in passwords, u # v => (v \in passwords <=> v \in ram)
    PROVE  /\ u = v => /\ JobStarts(v, "close", typed) /\ Supplied(v)'
                       /\ v \in ram' => v \in passwords
                       /\ hold'[v] = "held" /\ RowSet(v, "closing")
                       /\ v \in wasOpen' <=> open
           /\ u # v => RowStands(v) /\ JobsStand(v)
<1>0. PICK job : job = [vault |-> u, kind |-> "close", typed |-> typed]
  OBVIOUS
<1>1. job \in Job /\ job.vault = u /\ job.kind = "close" /\ job.typed = typed
  BY <1>0 DEF Job, Kinds
<1>2. Begin(job, passwords, ram') /\ ~Busy(u)
  BY <1>0 DEF StartClose
<1>3. SetRow(u, "closing")
  BY DEF StartClose
<1>4. /\ u = v => RowSet(v, "closing")
      /\ u # v => row'[v] = row[v] /\ ListsStand(v)
  BY <1>3, SetRowEach
<1>5. hold'[v] = IF u = v THEN "held" ELSE hold[v]
  BY DEF StartClose, Begun, TypeOK
<1>6. v \in wasOpen' <=> IF u = v THEN open ELSE v \in wasOpen
  BY DEF StartClose
<1>7. CASE u = v
  <2>1. /\ JobStarts(v, "close", typed) /\ (v \in ram' => v \in passwords)
        /\ v \in passwords => Supplied(v)'
        /\ ~typed => Supplied(v)'
    BY <1>1, <1>2, <1>7, BeginOwn
  <2> QED
    BY <1>4, <1>5, <1>6, <1>7, <2>1
<1>8. CASE u # v
  <2>1. JobsStand(v)
    BY <1>1, <1>2, <1>8, BeginOther
  <2>2. RowStands(v)
    BY <1>4, <1>5, <1>6, <1>8 DEF RowStands
  <2> QED
    BY <1>8, <2>1, <2>2
<1> QED
  BY <1>7, <1>8

LEMMA FetchHappens ==
    ASSUME TypeOK, NEW v \in Vaults, NEW f \in Fetches,
           StartFetch(f) \/ CoreLists(f) \/ ApplyFetch(f) \/ FailFetch(f)
    PROVE  Lists(v)
<1>1. UNCHANGED <<run, queue, hold, request, asked, wasOpen, ram, retain, typedClose, crossed,
                  restoring, core, late, gaveUp>>
  BY DEF StartFetch, CoreLists, ApplyFetch, FailFetch, pipe, secrets, world
<1>2. CoreStands(v) /\ JobsStand(v) /\ SecretsStand(v) /\ DialogsStand(v)
  BY <1>1, LeftAlone, JobsLeftAlone
<1>3. fetch \in [Fetches -> FetchStates]
  BY DEF TypeOK
<1>4. \A g \in Fetches \ {f} : fetch'[g] = fetch[g]
  BY <1>3 DEF StartFetch, CoreLists, ApplyFetch, FailFetch
<1>5. v \in creating' => v \in creating
  BY DEF StartFetch, CoreLists, ApplyFetch, FailFetch
<1>6. CASE StartFetch(f) \/ FailFetch(f)
  <2>1. row' = row /\ fetch'[f].is \in {"idle", "asked"}
    BY <1>3, <1>6 DEF StartFetch, FailFetch, NoFetch
  <2> QED
    BY <1>1, <1>2, <1>4, <1>5, <2>1 DEF Lists
<1>7. CASE CoreLists(f)
  <2>1. row' = row /\ fetch'[f].is = "read" /\ fetch'[f].saw[v] = core[v]
    BY <1>3, <1>7 DEF CoreLists, FetchStates
  <2> QED
    BY <1>1, <1>2, <1>4, <1>5, <2>1 DEF Lists
<1>8. CASE ApplyFetch(f)
  <2>1. /\ fetch[f].is = "read" /\ fetch'[f].is = "idle"
        /\ row'[v] = Merged(v, fetch[f])
    BY <1>3, <1>8 DEF ApplyFetch, NoFetch
  <2> QED
    BY <1>1, <1>2, <1>4, <1>5, <2>1 DEF Lists
<1> QED
  BY <1>6, <1>7, <1>8

LEMMA ClickHappens ==
    ASSUME TypeOK, NEW v \in Vaults, NEW u \in Vaults, ClickUnlock(u) \/ ClickLock(u)
    PROVE  Elsewhere(v) \/ Asking(v)
<1>1. UNCHANGED <<run, queue, hold, row, creating, fetch, wasOpen, ram, retain, typedClose,
                  crossed, restoring, core, late, gaveUp>>
  BY DEF ClickUnlock, ClickLock, pipe, rows, secrets, world
<1>2. CoreStands(v) /\ RowStands(v) /\ JobsStand(v) /\ SecretsStand(v)
  BY <1>1, LeftAlone, JobsLeftAlone
<1>3. CASE ClickUnlock(u)
  <2>1. request' = [vault |-> u, intent |-> "unlock"] /\ asked' = asked
    BY <1>3 DEF ClickUnlock
  <2>2. CASE u = v
    BY <1>2, <1>3, <2>1, <2>2 DEF ClickUnlock, Asking
  <2>3. CASE u # v
    BY <1>2, <2>1, <2>3 DEF Elsewhere, DialogsStand, Asks
  <2> QED
    BY <2>2, <2>3
<1>4. CASE ClickLock(u)
  <2>1. request' = request /\ asked' = asked \cup {u} /\ ListStatus(u) = "open"
    BY <1>4 DEF ClickLock
  <2>2. CASE u = v
    BY <1>2, <2>1, <2>2 DEF Asking, Asks
  <2>3. CASE u # v
    BY <1>2, <2>1, <2>3 DEF Elsewhere, DialogsStand, Asks
  <2> QED
    BY <2>2, <2>3
<1> QED
  BY <1>3, <1>4

LEMMA LockHappens ==
    ASSUME TypeOK, NEW v \in Vaults, NEW u \in Vaults, LockSettings(u) \/ AutoClose(u)
    PROVE  Happens(v)
<1>1. UNCHANGED <<creating, retain, typedClose, crossed, restoring, core, late, gaveUp>>
  BY DEF LockSettings, AutoClose, secrets, world
<1>2. CoreStands(v) /\ SecretsStand(v) /\ NamesStand(v)
  BY <1>1, LeftAlone
<1>3. (v \in asked' => v \in asked) /\ (u \in asked \/ row[u] = "open")
  BY DEF LockSettings, AutoClose
<1>4. CASE StartClose(u, TRUE, FALSE, ram) /\ request' = request
  <2>1. DialogsStand(v)
    BY <1>3, <1>4 DEF DialogsStand, Asks
  <2>2. CASE u = v
    <3>1. /\ JobStarts(v, "close", FALSE) /\ Supplied(v)' /\ (v \in ram' => v \in ram)
          /\ hold'[v] = "held" /\ RowSet(v, "closing")
          /\ v \in wasOpen'
      BY <1>1, <1>4, <2>2, StartCloseEach
    <3>2. Closing(v, TRUE, FALSE)
      BY <1>1, <1>2, <1>3, <2>1, <2>2, <3>1 DEF Closing
    <3> QED
      BY <3>2 DEF Happens
  <2>3. CASE u # v
    <3>1. RowStands(v) /\ JobsStand(v)
      BY <1>1, <1>4, <2>3, StartCloseEach
    <3> QED
      BY <1>2, <2>1, <3>1 DEF Elsewhere, Happens
  <2> QED
    BY <2>2, <2>3
<1>5. CASE /\ UNCHANGED <<run, queue, hold, row, fetch, wasOpen, ram>> /\ u \in asked
           /\ request' = request \/ request' = [vault |-> u, intent |-> "close"]
  <2>1. RowStands(v) /\ JobsStand(v)
    BY <1>1, <1>5, LeftAlone, JobsLeftAlone
  <2>2. CASE request' = request
    BY <1>2, <1>3, <2>1, <2>2 DEF Elsewhere, DialogsStand, Asks, Happens
  <2>3. CASE request' = [vault |-> u, intent |-> "close"] /\ u # v
    BY <1>2, <1>3, <2>1, <2>3 DEF Elsewhere, DialogsStand, Asks, Happens
  <2>4. CASE request' = [vault |-> u, intent |-> "close"] /\ u = v
    <3>1. ~Asks(v, "unlock")'
      BY <2>4 DEF Asks
    <3>2. Asking(v)
      BY <1>2, <1>3, <1>5, <2>1, <2>4, <3>1 DEF Asking
    <3> QED
      BY <3>2 DEF Happens
  <2> QED
    BY <1>5, <2>2, <2>3, <2>4
<1>6. CASE LockSettings(u)
  BY <1>4, <1>5, <1>6 DEF LockSettings, pipe
<1>7. CASE AutoClose(u)
  BY <1>4, <1>7 DEF AutoClose
<1> QED
  BY <1>6, <1>7

LEMMA RevealHappens ==
    ASSUME TypeOK, NEW v \in Vaults, NEW u \in Vaults, Reveal(u)
    PROVE  Elsewhere(v) \/ Revealing(v)
<1>1. UNCHANGED <<run, queue, creating, request, asked, ram, retain, typedClose, crossed,
                  restoring, core, late, gaveUp>>
  BY DEF Reveal, pipe, secrets, world
<1>2. CoreStands(v) /\ JobsStand(v) /\ SecretsStand(v) /\ DialogsStand(v)
  BY <1>1, LeftAlone, JobsLeftAlone
<1>3. SetRow(u, "closed") /\ hold[u] = "timed" /\ wasOpen' = wasOpen \ {u}
  BY DEF Reveal
<1>4. hold'[v] = IF u = v THEN "none" ELSE hold[v]
  BY DEF Reveal, Released, TypeOK
<1>5. /\ u = v => RowSet(v, "closed")
      /\ u # v => row'[v] = row[v] /\ ListsStand(v)
  BY <1>1, <1>3, SetRowEach
<1>6. CASE u = v
  BY <1>2, <1>3, <1>4, <1>5, <1>6 DEF Revealing
<1>7. CASE u # v
  BY <1>1, <1>2, <1>3, <1>4, <1>5, <1>7 DEF Elsewhere, RowStands
<1> QED
  BY <1>6, <1>7

LEMMA RestoreHappens ==
    ASSUME TypeOK, NEW v \in Vaults, NEW u \in Vaults, RestoreAnswer(u)
    PROVE  Elsewhere(v) \/ Restored(v)
<1>1. UNCHANGED <<run, queue, hold, row, creating, fetch, request, asked, wasOpen, retain,
                  typedClose, crossed, core, late, gaveUp>>
  BY DEF RestoreAnswer, pipe, rows, secrets, world
<1>2. CoreStands(v) /\ RowStands(v) /\ NamesStand(v) /\ DialogsStand(v)
  BY <1>1, LeftAlone
<1>3. /\ restoring[u] # "none"
      /\ restoring'[v] = IF u = v THEN "none" ELSE restoring[v]
  BY DEF RestoreAnswer, Bumped, TypeOK
<1>4. ram' \in IF row[u] # "open" THEN {ram}
               ELSE IF Restorable(u) THEN {ram \cup {u}, ram \ {u}} ELSE {ram \ {u}}
  BY DEF RestoreAnswer
<1>5. CASE u = v
  BY <1>1, <1>2, <1>3, <1>4, <1>5 DEF Restored, Restorable
<1>6. CASE u # v
  <2>1. v \in ram' <=> v \in ram
    BY <1>4, <1>6
  <2> QED
    BY <1>1, <1>2, <1>3, <1>6, <2>1, JobsLeftAlone DEF Elsewhere, SecretsStand
<1> QED
  BY <1>5, <1>6

LEMMA CreateHappens ==
    ASSUME TypeOK, NEW v \in Old, NEW u \in Vaults, CreateVault(u)
    PROVE  Elsewhere(v)
<1>1. UNCHANGED <<hold, request, asked, wasOpen, retain, typedClose, crossed, restoring, core,
                  late, gaveUp>>
  BY DEF CreateVault, secrets, world
<1>2. CoreStands(v) /\ SecretsStand(v) /\ DialogsStand(v)
  BY <1>1, LeftAlone
<1>3. v \in Vaults /\ u # v
  BY DEF Old, CreateVault
<1>4. RowStands(v)
  <2>1. row'[v] = row[v] /\ (v \in creating' => v \in creating)
    BY <1>3 DEF CreateVault, TypeOK
  <2>2. ListsStand(v)
    BY <1>3, TouchedLists DEF CreateVault
  <2> QED
    BY <1>1, <2>1, <2>2 DEF RowStands
<1>5. JobsStand(v)
  <2>1. [vault |-> u, kind |-> "create", typed |-> FALSE] \in Job
    BY DEF Job, Kinds
  <2>2. Begin([vault |-> u, kind |-> "create", typed |-> FALSE], ram, ram')
    BY DEF CreateVault
  <2> QED
    BY <1>3, <2>1, <2>2, BeginOther
<1> QED
  BY <1>2, <1>4, <1>5 DEF Elsewhere

LEMMA UnlockHappens ==
    ASSUME TypeOK, NEW v \in Vaults, ConfirmUnlock
    PROVE  Elsewhere(v) \/ Opening(v)
<1>0. PICK u \in Vaults : u = request.vault /\ request # None /\ request.intent = "unlock"
  BY DEF ConfirmUnlock, TypeOK, Requests
<1>1. UNCHANGED <<row, creating, fetch, asked, wasOpen, typedClose, crossed, core, late, gaveUp>>
  BY DEF ConfirmUnlock, rows, world
<1>2. CoreStands(v) /\ NamesStand(v)
  BY <1>1, LeftAlone
<1>3. DialogsStand(v)
  <2>1. request' \in {None, request}
    BY DEF ConfirmUnlock, Submitted
  <2> QED
    BY <1>1, <2>1 DEF DialogsStand, Asks
<1>4. PICK job \in Job : job = [vault |-> u, kind |-> "open", typed |-> TRUE]
  BY DEF Job, Kinds
<1>5. Begin(job, ram \cup {u}, ram') /\ ~Busy(u)
  BY <1>0, <1>4 DEF ConfirmUnlock, StartOpen
<1>6. /\ hold'[v] = IF u = v THEN "none" ELSE hold[v]
      /\ restoring'[v] = IF u = v THEN "none" ELSE restoring[v]
      /\ retain' = retain \cup {u}
  BY <1>0 DEF ConfirmUnlock, StartOpen, Released, Bumped, TypeOK
<1>7. ListsStand(v)
  BY <1>1 DEF ListsStand
<1>8. CASE u = v
  <2>1. JobStarts(v, "open", TRUE) /\ Supplied(v)'
    BY <1>4, <1>5, <1>8, BeginOwn
  <2> QED
    BY <1>0, <1>1, <1>2, <1>3, <1>6, <1>7, <1>8, <2>1 DEF Opening, Asks
<1>9. CASE u # v
  <2>1. JobsStand(v)
    BY <1>4, <1>5, <1>9, BeginOther
  <2> QED
    BY <1>1, <1>2, <1>3, <1>6, <1>7, <1>9, <2>1 DEF Elsewhere, RowStands, SecretsStand
<1> QED
  BY <1>8, <1>9

LEMMA SetTypedNames ==
    ASSUME TypeOK, NEW v \in Vaults, NEW u, NEW next, SetTyped(u, next), u # v \/ ~Busy(v)'
    PROVE  NamesStand(v)
<1>1. v # None
  BY LifecycleUiAssumption
<1> QED
  BY <1>1 DEF SetTyped, NamesStand

LEMMA CloseHappens ==
    ASSUME TypeOK, NEW v \in Vaults, ConfirmTypedClose \/ ConfirmBareClose
    PROVE  Happens(v)
<1>0. PICK u \in Vaults : u = request.vault /\ request # None /\ request.intent = "close"
  BY DEF ConfirmTypedClose, ConfirmBareClose, TypeOK, Requests
<1>1. UNCHANGED <<asked, retain, restoring, core, late, gaveUp>> /\ ~Busy(u)
  BY <1>0 DEF ConfirmTypedClose, ConfirmBareClose, StartClose, secrets, world
<1>2. CoreStands(v)
  BY <1>1, LeftAlone
<1>3. request' \in {None, request}
  BY DEF ConfirmTypedClose, ConfirmBareClose, Submitted, rows
<1>4. DialogsStand(v)
  BY <1>1, <1>3 DEF DialogsStand, Asks
<1>5. CASE /\ StartClose(u, row[u] = "open", TRUE, ram \cup {u}) /\ SetTyped(u, u)
           /\ ~Held(u) /\ creating' = creating
  <2>1. (row[u] = "open") \in BOOLEAN
    OBVIOUS
  <2>2. CASE u = v
    <3>1. /\ JobStarts(v, "close", TRUE) /\ Supplied(v)'
          /\ hold'[v] = "held" /\ RowSet(v, "closing")
          /\ v \in wasOpen' <=> row[v] = "open"
      BY <1>5, <2>1, <2>2, StartCloseEach
    <3>2. typedClose' = v
      BY <1>5, <2>2 DEF SetTyped
    <3>3. Closing(v, row[v] = "open", TRUE)
      BY <1>0, <1>1, <1>2, <1>4, <1>5, <2>2, <3>1, <3>2 DEF Closing, Asks
    <3> QED
      BY <2>1, <2>2, <3>3 DEF Happens
  <2>3. CASE u # v
    <3>1. RowStands(v) /\ JobsStand(v)
      BY <1>5, <2>1, <2>3, StartCloseEach
    <3>2. NamesStand(v)
      BY <1>5, <2>3, SetTypedNames
    <3> QED
      BY <1>1, <1>2, <1>4, <3>1, <3>2 DEF Elsewhere, SecretsStand, Happens
  <2> QED
    BY <2>2, <2>3
<1>6. CASE /\ SetTyped(u, None) /\ ram' = ram \ {u}
           /\ UNCHANGED <<run, queue, hold, row, creating, fetch, wasOpen>>
  <2>1. RowStands(v)
    BY <1>6, LeftAlone
  <2>2. JobsStand(v)
    <3>1. CASE u = v
      <4>1. ~Busy(v) /\ ~Busy(v)'
        BY <1>1, <1>6, <3>1 DEF Busy, Waiting, Tracked
      <4> QED
        BY <1>6, <4>1 DEF JobsStand, Busy, Waiting, Tracked, OfKind, JobOf, Done, Supplied
    <3>2. CASE u # v
      BY <1>6, <3>2, JobsLeftAlone
    <3> QED
      BY <3>1, <3>2
  <2>3. NamesStand(v)
    <3>1. u # v \/ ~Busy(v)'
      BY <1>1, <1>6 DEF Busy, Waiting, Tracked
    <3> QED
      BY <1>6, <3>1, SetTypedNames
  <2> QED
    BY <1>1, <1>2, <1>4, <2>1, <2>2, <2>3 DEF Elsewhere, SecretsStand, Happens
<1>7. CASE ConfirmTypedClose
  BY <1>0, <1>5, <1>6, <1>7 DEF ConfirmTypedClose, pipe, rows
<1>8. CASE ConfirmBareClose
  <2>1. /\ StartClose(u, FALSE, FALSE, ram) /\ row[u] # "open" /\ ~Held(u)
        /\ UNCHANGED <<creating, retain, typedClose, crossed>>
    BY <1>0, <1>8 DEF ConfirmBareClose, secrets
  <2>2. CASE u = v
    <3>1. /\ JobStarts(v, "close", FALSE) /\ Supplied(v)' /\ (v \in ram' => v \in ram)
          /\ hold'[v] = "held" /\ RowSet(v, "closing")
          /\ v \notin wasOpen'
      BY <2>1, <2>2, StartCloseEach
    <3>2. NamesStand(v)
      BY <2>1, LeftAlone
    <3>3. Closing(v, FALSE, FALSE)
      BY <1>0, <1>1, <1>2, <1>4, <2>1, <2>2, <3>1, <3>2 DEF Closing, Asks
    <3> QED
      BY <3>3 DEF Happens
  <2>3. CASE u # v
    <3>1. RowStands(v) /\ JobsStand(v)
      BY <2>1, <2>3, StartCloseEach
    <3>2. NamesStand(v)
      BY <2>1, LeftAlone
    <3> QED
      BY <1>1, <1>2, <1>4, <3>1, <3>2 DEF Elsewhere, SecretsStand, Happens
  <2> QED
    BY <2>2, <2>3
<1> QED
  BY <1>7, <1>8

LEMMA CoreHappens ==
    ASSUME TypeOK, QueueIsServed, NEW v \in Vaults, CoreActs \/ TimesOut \/ LateActs,
           ~OfKind(v, "create"), LateFor(v) => late.call.kind # "create"
    PROVE  Happens(v)
<1>1. UNCHANGED <<queue, hold, row, creating, fetch, wasOpen, request, asked, ram, retain,
                  typedClose, crossed, restoring>>
  BY DEF CoreActs, TimesOut, LateActs, pipe, rows, secrets
<1>2. RowStands(v) /\ SecretsStand(v) /\ DialogsStand(v)
  BY <1>1, LeftAlone
<1>3. CASE CoreActs \/ TimesOut
  <2>0. run.job \in Job /\ run.job # None /\ run.rpc = "sent"
    BY <1>3, RunTypes, LifecycleUiAssumption DEF CoreActs, TimesOut
  <2>1. PICK u \in Vaults : u = run.job.vault
    BY <2>0 DEF Job
  <2>2. run' = run \/ \E rpc : run' = [run EXCEPT !.rpc = rpc]
    BY <1>3 DEF CoreActs, TimesOut
  <2>3. run'.job = run.job /\ run'.password = run.password
    BY <2>2, RunTypes
  <2>8. u = v => run.job.kind # "create"
    BY <2>0, <2>1 DEF OfKind, Tracked
  <2>4. u # v => JobsStand(v)
    BY <1>1, <2>1, <2>3 DEF JobsStand, Busy, Waiting, Tracked, OfKind, JobOf, Done, Supplied
  <2>5. u = v => Tracked(v)
    BY <2>0, <2>1 DEF Tracked
  <2>6. CASE CoreActs
    <3>1. UNCHANGED <<late, gaveUp>>
      BY <2>6 DEF CoreActs
    <3>2. \/ /\ Serves(u, run.job.kind, run.password) /\ core' = Served(u, run.job.kind)
             /\ run'.rpc = "ok"
          \/ core' \in Undone(run.job) /\ run'.rpc = "failed"
          \/ Makes(run.job)
      BY <2>1, <2>6, RunTypes DEF CoreActs
    <3>3. CASE u = v
      <4>1. \/ /\ Serves(v, run.job.kind, run.password) /\ run'.rpc = "ok"
               /\ core'[v] = IF run.job.kind = "open" THEN "open" ELSE "closed"
            \/ core'[v] = core[v] /\ run'.rpc = "failed"
        BY <2>8, <3>2, <3>3 DEF Served, TypeOK, Undone, Makes
      <4>2. Acting(v)
        BY <1>1, <1>2, <2>0, <2>3, <2>5, <3>1, <3>3, <4>1 DEF Acting
      <4> QED
        BY <4>2 DEF Happens
    <3>4. CASE u # v
      <4>1. core'[v] = core[v]
        BY <2>1, <3>2, <3>4 DEF Served, TypeOK, Undone, Makes
      <4> QED
        BY <1>2, <2>4, <3>1, <3>4, <4>1 DEF CoreStands, LateFor, Elsewhere, Happens
    <3> QED
      BY <3>3, <3>4
  <2>7. CASE TimesOut
    <3>1. /\ core' = core /\ gaveUp' = gaveUp \cup {u} /\ late = None
          /\ late' = [call |-> [vault |-> u, kind |-> run.job.kind], password |-> run.password]
          /\ run'.rpc = "failed"
      BY <2>1, <2>7, RunTypes DEF TimesOut
    <3>3. CASE u = v
      <4>1. JobsStand(v)
        BY <1>1, <2>0, <2>3, <3>1 DEF JobsStand, Busy, Waiting, Tracked, OfKind, JobOf, Done, Supplied
      <4>2. GivenUp(v)
        BY <1>2, <2>5, <3>1, <3>3, <4>1 DEF GivenUp
      <4> QED
        BY <4>2 DEF Happens
    <3>4. CASE u # v
      BY <1>2, <2>4, <3>1, <3>4 DEF CoreStands, LateFor, Elsewhere, Happens
    <3> QED
      BY <3>3, <3>4
  <2> QED
    BY <1>3, <2>6, <2>7
<1>4. CASE LateActs
  <2>1. late # None /\ UNCHANGED <<run, queue, ram, gaveUp>>
    BY <1>4 DEF LateActs, pipe
  <2>2. JobsStand(v)
    BY <2>1, JobsLeftAlone
  <2>3. \/ /\ Serves(late.call.vault, late.call.kind, late.password)
           /\ core' = Served(late.call.vault, late.call.kind) /\ late' = None
        \/ core' \in Undone(late.call) /\ late' = None
        \/ Makes(late.call) /\ late' = late
    BY <1>4 DEF LateActs
  <2>4. CASE late.call.vault = v
    <3>0. late.call.kind # "create"
      BY <2>1, <2>4 DEF LateFor
    <3>1. \/ /\ Serves(v, late.call.kind, late.password)
             /\ core'[v] = IF late.call.kind = "open" THEN "open" ELSE "closed"
          \/ core'[v] = core[v]
      BY <2>3, <2>4, <3>0 DEF Served, TypeOK, Undone, Makes
    <3>2. late' = None
      BY <2>3, <3>0 DEF Makes
    <3> QED
      BY <1>2, <2>1, <2>2, <2>4, <3>1, <3>2 DEF ActingLate, LateFor, Happens
  <2>5. CASE late.call.vault # v
    <3>1. core'[v] = core[v]
      BY <2>3, <2>5 DEF Served, TypeOK, Undone, Makes
    <3>2. ~LateFor(v)'
      BY <2>3, <2>5 DEF LateFor
    <3> QED
      BY <1>2, <2>1, <2>2, <3>1, <3>2 DEF CoreStands, Elsewhere, Happens
  <2> QED
    BY <2>4, <2>5
<1> QED
  BY <1>3, <1>4

LEMMA AnswerHappens ==
    ASSUME TypeOK, QueueIsServed, NEW v \in Vaults, ~OfKind(v, "create"), Answer
    PROVE  Happens(v)
<1> USE DEF world, rows
<1>0. run.job \in Job /\ run.job # None /\ v # None
  BY RunTypes, LifecycleUiAssumption
  DEF Answer, Answers, OpenDone, OpenFailed, CloseDone, CloseFailed, CreateDone, CreateFailed
<1>1. PICK u \in Vaults : u = run.job.vault
  BY <1>0 DEF Job
<1>2. UNCHANGED <<core, late, gaveUp, asked>>
  BY DEF Answer, OpenDone, OpenFailed, CloseDone, CloseFailed, CreateDone, CreateFailed
<1>3. CoreStands(v)
  BY <1>2, LeftAlone
<1>4. request' \in {request, NoRequestFor(u)}
  BY <1>1 DEF Answer, OpenDone, OpenFailed, CloseDone, CloseFailed, CreateDone, CreateFailed
<1>5. DialogsStand(v)
  BY <1>2, <1>4 DEF DialogsStand, Asks, NoRequestFor
<1>6. u = v => Tracked(v)
  BY <1>0, <1>1 DEF Tracked
<1>7. ASSUME NEW before, Advance(before, ram'), u # v => (v \in before <=> v \in ram)
      PROVE  /\ u = v => JobEnds(v) /\ (v \in ram' => v \in before)
             /\ u # v => JobsStand(v)
  BY <1>0, <1>1, <1>7, AdvanceOwn, AdvanceOther
<1>8. CASE OpenDone
  <2>1. /\ Answers("open", "ok") /\ Advance(ram, ram') /\ SetRow(u, "open")
        /\ UNCHANGED <<creating, wasOpen, typedClose, crossed>>
        /\ retain' = retain \ {u}
    BY <1>1, <1>8 DEF OpenDone
  <2>2. /\ hold'[v] = IF u = v THEN "none" ELSE hold[v]
        /\ u # v => restoring'[v] = restoring[v]
    BY <1>1, <1>8 DEF OpenDone, Released, TypeOK
  <2>3. /\ u = v => JobEnds(v) /\ (v \in ram' => v \in ram)
        /\ u # v => JobsStand(v)
    BY <1>7, <2>1
  <2>4. /\ u = v => RowSet(v, "open")
        /\ u # v => row'[v] = row[v] /\ ListsStand(v)
    BY <2>1, SetRowEach
  <2>5. NamesStand(v)
    BY <2>1, LeftAlone
  <2>6. CASE u = v
    <3>1. Ended(v, "open", "ok")
      BY <1>1, <1>3, <1>5, <1>6, <2>1, <2>3, <2>5, <2>6 DEF Ended, Answers
    <3> QED
      BY <2>1, <2>2, <2>4, <2>6, <3>1 DEF Opened, Happens
  <2>7. CASE u # v
    BY <1>3, <1>5, <2>1, <2>2, <2>3, <2>4, <2>5, <2>7
    DEF Elsewhere, RowStands, SecretsStand, Happens
  <2> QED
    BY <2>6, <2>7
<1>9. CASE OpenFailed
  <2>1. /\ Answers("open", "failed") /\ Advance(Cleared(u), ram')
        /\ UNCHANGED <<hold, row, creating, fetch, wasOpen, typedClose, crossed>>
        /\ retain' = retain \ {u}
    BY <1>1, <1>9 DEF OpenFailed
  <2>2. restoring'[v] = IF u = v THEN "none" ELSE restoring[v]
    BY <1>1, <1>9 DEF OpenFailed, Bumped, TypeOK
  <2>3. /\ u = v => JobEnds(v) /\ v \notin ram'
        /\ u # v => JobsStand(v)
    BY <1>7, <2>1 DEF Cleared
  <2>4. RowStands(v) /\ NamesStand(v)
    BY <2>1, LeftAlone
  <2>5. CASE u = v
    <3>1. Ended(v, "open", "failed")
      BY <1>1, <1>3, <1>5, <1>6, <2>1, <2>3, <2>4, <2>5 DEF Ended, Answers
    <3> QED
      BY <2>1, <2>2, <2>3, <2>4, <2>5, <3>1 DEF OpenRefused, Happens
  <2>6. CASE u # v
    BY <1>3, <1>5, <2>1, <2>2, <2>3, <2>4, <2>6 DEF Elsewhere, SecretsStand, Happens
  <2> QED
    BY <2>5, <2>6
<1>10. CASE CloseDone
  <2>1. /\ Answers("close", "ok") /\ Advance(Cleared(u), ram') /\ SetTyped(u, None)
        /\ UNCHANGED <<row, creating, fetch, wasOpen, retain>>
        /\ request' = NoRequestFor(u)
    BY <1>1, <1>10 DEF CloseDone
  <2>2. /\ restoring'[v] = IF u = v THEN "none" ELSE restoring[v]
        /\ hold'[v] = IF u = v THEN "timed" ELSE hold[v]
    BY <1>1, <1>10 DEF CloseDone, Bumped, Settling, TypeOK
  <2>3. /\ u = v => JobEnds(v) /\ v \notin ram'
        /\ u # v => JobsStand(v)
    BY <1>7, <2>1 DEF Cleared
  <2>4. ListsStand(v)
    BY <2>1 DEF ListsStand
  <2>5. NamesStand(v)
    <3>1. u # v \/ ~Busy(v)'
      BY <2>3 DEF JobEnds
    <3> QED
      BY <2>1, <3>1, SetTypedNames
  <2>6. CASE u = v
    <3>1. Ended(v, "close", "ok")
      BY <1>1, <1>3, <1>5, <1>6, <2>1, <2>3, <2>5, <2>6 DEF Ended, Answers
    <3>2. \A intent \in {"unlock", "close"} : ~Asks(v, intent)'
      BY <2>1, <2>6 DEF Asks, NoRequestFor
    <3> QED
      BY <2>1, <2>2, <2>3, <2>4, <2>6, <3>1, <3>2 DEF Closed, Happens
  <2>7. CASE u # v
    BY <1>3, <1>5, <2>1, <2>2, <2>3, <2>4, <2>5, <2>7
    DEF Elsewhere, RowStands, SecretsStand, Happens
  <2> QED
    BY <2>6, <2>7
<1>11. CASE CloseFailed
  <2>1. /\ Answers("close", "failed")
        /\ SetRow(u, IF u \in wasOpen THEN "open" ELSE "closed")
        /\ wasOpen' = wasOpen \ {u}
        /\ UNCHANGED <<creating, retain, crossed, restoring>>
        /\ typedClose' = IF typedClose = u THEN None ELSE typedClose
    BY <1>1, <1>11 DEF CloseFailed
  <2>2. PICK before : /\ before = IF typedClose = u THEN Cleared(u) ELSE ram
                      /\ Advance(before, ram')
    BY <1>1, <1>11 DEF CloseFailed
  <2>3. hold'[v] = IF u = v THEN "none" ELSE hold[v]
    BY <1>1, <1>11 DEF CloseFailed, Released, TypeOK
  <2>4. /\ u = v => JobEnds(v) /\ (v \in ram' => v \in ram /\ typedClose # v)
        /\ u # v => JobsStand(v)
    BY <1>7, <2>2 DEF Cleared
  <2>5. PICK session : session = IF u \in wasOpen THEN "open" ELSE "closed"
    OBVIOUS
  <2>6. /\ u = v => RowSet(v, session)
        /\ u # v => row'[v] = row[v] /\ ListsStand(v)
    BY <2>1, <2>5, SetRowEach
  <2>7. CASE u = v
    <3>1. RowSet(v, IF v \in wasOpen THEN "open" ELSE "closed")
      BY <2>5, <2>6, <2>7
    <3>2. run.job.kind = "close" /\ run.rpc = "failed"
      BY <2>1 DEF Answers
    <3>3. CloseRefused(v)
      BY <1>3, <1>5, <1>6, <2>1, <2>3, <2>4, <2>7, <3>1, <3>2 DEF CloseRefused
    <3> QED
      BY <3>3 DEF Happens
  <2>8. CASE u # v
    <3>1. NamesStand(v)
      BY <2>1, <2>8 DEF NamesStand
    <3> QED
      BY <1>3, <1>5, <2>1, <2>3, <2>4, <2>6, <2>8, <3>1
      DEF Elsewhere, RowStands, SecretsStand, Happens
  <2> QED
    BY <2>7, <2>8
<1>12. CASE CreateDone \/ CreateFailed
  <2>1. /\ run.job.kind = "create" /\ Advance(ram, ram')
        /\ UNCHANGED <<hold, wasOpen, retain, typedClose, crossed, restoring>>
        /\ v \in creating' => v \in creating
    BY <1>12 DEF CreateDone, CreateFailed, Answers, secrets
  <2>2. u # v
    BY <1>1, <1>6, <2>1 DEF OfKind
  <2>3. JobsStand(v)
    BY <1>7, <2>1, <2>2
  <2>4. row'[v] = row[v] /\ ListsStand(v)
    BY <1>1, <1>12, <2>2, TouchedLists, DropRowElsewhere DEF CreateDone, CreateFailed
  <2>5. SecretsStand(v)
    BY <2>1, LeftAlone
  <2> QED
    BY <1>3, <1>5, <2>1, <2>3, <2>4, <2>5 DEF Elsewhere, RowStands, Happens
<1> QED
  BY <1>8, <1>9, <1>10, <1>11, <1>12 DEF Answer

LEMMA StepHappens ==
    ASSUME TypeOK, QueueIsServed, [Next]_vars, NEW v \in Old, ~OfKind(v, "create"),
           LateFor(v) => late.call.kind # "create"
    PROVE  Happens(v)
<1>0. v \in Vaults
  BY DEF Old
<1>1. CASE UNCHANGED vars
  <2>1. Elsewhere(v)
    BY <1>1, LeftAlone, JobsLeftAlone
    DEF Elsewhere, vars, pipe, rows, secrets, world
  <2> QED
    BY <2>1 DEF Happens
<1>2. CASE Dismiss
  <2>1. /\ UNCHANGED <<run, queue, hold, row, creating, fetch, asked, wasOpen, ram, retain,
                       typedClose, crossed, restoring, core, late, gaveUp>>
        /\ request' = None
    BY <1>2 DEF Dismiss, pipe, rows, secrets, world
  <2>2. DialogsStand(v)
    BY <2>1 DEF DialogsStand, Asks
  <2>3. CoreStands(v) /\ RowStands(v) /\ JobsStand(v) /\ SecretsStand(v)
    BY <2>1, LeftAlone, JobsLeftAlone
  <2> QED
    BY <2>2, <2>3 DEF Elsewhere, Happens
<1>3. CASE \E f \in Fetches : StartFetch(f) \/ CoreLists(f) \/ ApplyFetch(f) \/ FailFetch(f)
  BY <1>0, <1>3, FetchHappens DEF Happens
<1>4. ASSUME NEW u \in Vaults, \/ ClickUnlock(u) \/ ClickLock(u) \/ LockSettings(u) \/ AutoClose(u)
                               \/ CreateVault(u) \/ Reveal(u) \/ RestoreAnswer(u)
      PROVE  Happens(v)
  BY <1>0, <1>4, ClickHappens, LockHappens, CreateHappens, RevealHappens, RestoreHappens DEF Happens
<1>5. CASE ConfirmUnlock \/ ConfirmTypedClose \/ ConfirmBareClose
  BY <1>0, <1>5, UnlockHappens, CloseHappens DEF Happens
<1>6. CASE CoreActs \/ TimesOut \/ LateActs \/ Answer
  BY <1>0, <1>6, CoreHappens, AnswerHappens
<1> QED
  BY <1>1, <1>2, <1>3, <1>4, <1>5, <1>6 DEF Next

LEMMA ScopeStays == [Next]_vars => scope' = scope
  BY DEF Next, StartFetch, CoreLists, ApplyFetch, FailFetch, ClickUnlock, ClickLock, LockSettings,
         AutoClose, CreateVault, Reveal, RestoreAnswer, Dismiss, ConfirmUnlock, ConfirmTypedClose,
         ConfirmBareClose, CoreActs, TimesOut, LateActs, Answer, OpenDone, OpenFailed, CloseDone,
         CloseFailed, CreateDone, CreateFailed, world, vars

LEMMA VaultTypesEach == ASSUME TypeOK, NEW v \in Vaults PROVE VaultTypes(v)
<1>1. \A f \in Fetches : fetch[f].is \in {"idle", "asked", "read"} /\ fetch[f].saw[v] \in CoreStates
  BY DEF TypeOK, FetchStates
<1>2. late # None => late.call.kind \in Kinds
  BY DEF TypeOK, Calls
<1> QED
  BY <1>1, <1>2 DEF TypeOK, VaultTypes

-----------------------------------------------------------------------------
\* The invariant of the vaults that were there from the start.
OldInv == \A v \in Old :
    KnownInv(v) /\ BadgeInv(v) /\ SessionInv(v) /\ PasswordInv(v) /\ SupplyInv(v)

LEMMA InitOld == Init => OldInv
<1> SUFFICES ASSUME Init, NEW v \in Old
             PROVE  KnownInv(v) /\ BadgeInv(v) /\ SessionInv(v) /\ PasswordInv(v) /\ SupplyInv(v)
  BY DEF OldInv
<1>0. v \in Vaults /\ TypeOK
  BY InitTypes DEF Old
<1>1. /\ late = None /\ gaveUp = {} /\ run.job = None /\ queue = <<>> /\ DOMAIN queue = {}
      /\ hold[v] = "none" /\ row = core /\ creating = {} /\ request = None /\ asked = {}
      /\ ram = {} /\ retain = {} /\ restoring[v] = "none"
      /\ \A f \in Fetches : fetch[f].is # "read"
  BY <1>0 DEF Init, NoRun, NoFetch
<1>2. ~Busy(v)
  BY <1>1 DEF Busy, Waiting, Tracked
<1>3. /\ \A kind : ~OfKind(v, kind) /\ ~Done(v, kind) /\ \A typed : ~JobOf(v, kind, typed)
      /\ Supplied(v)
  BY <1>2, NotBusy
<1>4. core[v] \in CoreStates
  BY <1>0 DEF TypeOK
<1>5. KnownInv(v)
  BY <1>1, <1>3 DEF KnownInv, LateFor
<1>6. BadgeInv(v)
  BY <1>1, <1>2, <1>3, <1>4 DEF BadgeInv, Asks, Held, CoreStates
<1>7. SessionInv(v)
  BY <1>1, <1>3 DEF SessionInv, LateFor
<1>8. PasswordInv(v) /\ SupplyInv(v)
  BY <1>1, <1>3 DEF PasswordInv, SupplyInv
<1> QED
  BY <1>5, <1>6, <1>7, <1>8

LEMMA OldNext == ASSUME TypeOK, QueueIsServed, OldInv, [Next]_vars PROVE OldInv'
<1> SUFFICES ASSUME NEW v \in Old
             PROVE  (KnownInv(v) /\ BadgeInv(v) /\ SessionInv(v) /\ PasswordInv(v) /\ SupplyInv(v))'
  <2>1. Old' = Old
    BY ScopeStays DEF Old
  <2> QED
    BY <2>1 DEF OldInv
<1>1. KnownInv(v) /\ BadgeInv(v) /\ SessionInv(v) /\ PasswordInv(v) /\ SupplyInv(v)
  BY DEF OldInv
<1>2. v \in Vaults /\ VaultTypes(v) /\ OneJob(v)
  BY VaultTypesEach, OneJobEach DEF Old
<1>3. Happens(v)
  BY <1>1, StepHappens DEF KnownInv
<1> QED
  BY <1>1, <1>2, <1>3, KnownKept, BadgeKept, SessionKept, PasswordKept, SupplyKept

LEMMA OldAlways == Spec => [](TypeOK /\ QueueIsServed /\ OldInv)
<1>1. TypeOK /\ QueueIsServed /\ OldInv /\ [Next]_vars => OldInv'
  BY OldNext
<1> QED
  BY InitOld, LifecycleTypeCorrect, QueueIsAlwaysServed, <1>1, PTL DEF Spec

\* The vaults of a behaviour in which none is created are all old.
LEMMA NoneCreated == Spec /\ scope.new = {} => [](Old = Vaults)
<1>1. Spec => [][scope' = scope]_scope
  <2>1. [Next]_vars => [scope' = scope]_scope
    BY ScopeStays
  <2> QED
    BY <2>1, PTL DEF Spec
<1>2. scope.new = {} /\ [scope' = scope]_scope => (scope.new = {})'
  OBVIOUS
<1>3. scope.new = {} => Old = Vaults
  BY DEF Old
<1> QED
  BY <1>1, <1>2, <1>3, PTL

LEMMA SwitchFollows ==
    ASSUME TypeOK, QueueIsServed, NEW v \in Vaults, BadgeInv(v), SessionInv(v),
           v \notin gaveUp, ~BlocksFolderChange(v)
    PROVE  core[v] # "open" /\ ~Busy(v)
<1> SUFFICES ASSUME ListStatus(v) = "closed", row[v] # "absent"
             PROVE  core[v] # "open" /\ ~Busy(v)
  <2>1. CASE row[v] = "absent"
    <3>1. ~Busy(v)
      BY <2>1 DEF BadgeInv
    <3> QED
      BY <2>1, <3>1, NotBusy DEF SessionInv
  <2>2. CASE row[v] # "absent"
    <3>1. ListStatus(v) # "absent"
      BY <2>2 DEF ListStatus
    <3> QED
      BY <2>2, <3>1 DEF BlocksFolderChange
  <2> QED
    BY <2>1, <2>2
<1>1. OneJob(v) /\ VaultTypes(v)
  BY OneJobEach, VaultTypesEach
<1>2. ~OfKind(v, "create") /\ ~OfKind(v, "close") /\ ~(Tracked(v) /\ OfKind(v, "open"))
  BY DEF ListStatus
<1>3. ~Held(v) /\ ~Waiting(v) /\ row[v] = "closed"
  BY <1>2 DEF ListStatus
<1>4. ~Tracked(v)
  BY <1>1, <1>2 DEF OneJob, Job, Kinds
<1>5. ~Busy(v)
  BY <1>3, <1>4 DEF Busy
<1>6. core[v] # "open"
  BY <1>3, <1>5, NotBusy DEF SessionInv
<1> QED
  BY <1>5, <1>6

-----------------------------------------------------------------------------
\* isVaultBlockingDataFolderChange: when the list lets the data folder go, the core has
\* neither a session nor a job of a vault that was there from the start and was not given
\* up on; for any number of list requests that overtake one another.
THEOREM FolderSwitchesSafely == Spec => []FolderSwitchIsSafe
<1>1. ASSUME TypeOK, QueueIsServed, OldInv PROVE FolderSwitchIsSafe
  <2> SUFFICES ASSUME NEW v \in Old \ gaveUp, ~BlocksFolderChange(v)
               PROVE  core[v] # "open" /\ ~Busy(v)
    BY DEF FolderSwitchIsSafe
  <2>1. v \in Vaults /\ BadgeInv(v) /\ SessionInv(v)
    BY <1>1 DEF OldInv, Old
  <2> QED
    BY <1>1, <2>1, SwitchFollows
<1>2. TypeOK /\ QueueIsServed /\ OldInv => FolderSwitchIsSafe
  BY <1>1
<1> QED
  BY OldAlways, <1>2, PTL

\* Only an open that is under way has its vault in unlockRetainPasswordsRef.
RetainInv == \A v \in retain : OfKind(v, "open")

LEMMA RetainNext == ASSUME TypeOK, RetainInv, [Next]_vars PROVE RetainInv'
<1>0. request # None => request.vault \in Vaults
  BY DEF TypeOK, Requests
<1>1. ASSUME retain' = retain, Starting \/ Standing PROVE RetainInv'
  <2>1. CASE Starting
    <3>1. PICK job \in Job : \E before, after : Begin(job, before, after)
      BY <2>1 DEF Starting
    <3>2. \A v : OfKind(v, "open") => OfKind(v, "open")'
      BY <3>1, BeginAsks
    <3> QED
      BY <1>1, <3>2 DEF RetainInv
  <2>2. CASE Standing
    BY <1>1, <2>2 DEF RetainInv, Standing, OfKind, Tracked
  <2> QED
    BY <1>1, <2>1, <2>2
<1>2. CASE ConfirmUnlock
  <2>1. PICK v \in Vaults : v = request.vault
    BY <1>0, <1>2 DEF ConfirmUnlock
  <2>2. /\ [vault |-> v, kind |-> "open", typed |-> TRUE] \in Job
        /\ Begin([vault |-> v, kind |-> "open", typed |-> TRUE], ram \cup {v}, ram')
        /\ retain' = retain \cup {v}
    BY <1>2, <2>1 DEF ConfirmUnlock, StartOpen, Job, Kinds
  <2>3. \A w : OfKind(w, "open")' <=> OfKind(w, "open") \/ v = w
    BY <2>2, BeginAsks
  <2> QED
    BY <2>2, <2>3 DEF RetainInv
<1>3. CASE Answer
  <2>1. PICK before, after : Advance(before, after)
    BY <1>3 DEF Answer, OpenDone, OpenFailed, CloseDone, CloseFailed, CreateDone, CreateFailed
  <2>2. \A w : OfKind(w, "open")' <=> Asked(w, "open")
    BY <2>1, AdvanceAsks
  <2>3. retain' \subseteq retain /\ (run.job.kind = "open" => run.job.vault \notin retain')
    BY <1>3 DEF Answer, Answers, OpenDone, OpenFailed, CloseDone, CloseFailed, CreateDone,
                CreateFailed, secrets
  <2>4. \A w : OfKind(w, "open") => Asked(w, "open") \/ (run.job.vault = w /\ run.job.kind = "open")
    BY DEF OfKind, Tracked, Asked
  <2> QED
    BY <2>2, <2>3, <2>4 DEF RetainInv
<1>4. ASSUME ~ConfirmUnlock, ~Answer PROVE retain' = retain
  BY <1>4 DEF Next, StartFetch, CoreLists, ApplyFetch, FailFetch, ClickUnlock, ClickLock,
         LockSettings, AutoClose, CreateVault, Reveal, RestoreAnswer, Dismiss, ConfirmTypedClose,
         ConfirmBareClose, CoreActs, TimesOut, LateActs, secrets, vars
<1> QED
  BY <1>1, <1>2, <1>3, <1>4, PipeSteps

\* sessionRamPassword.ts: outside an open under way the map holds passwords of open and
\* closing rows only, but for two typed closes at once and requests given up on.
THEOREM PasswordsAreNotAtRest == Spec => []NoPasswordAtRest
<1>1. ASSUME TypeOK, QueueIsServed, OldInv, RetainInv PROVE NoPasswordAtRest
  <2> SUFFICES ASSUME NEW v \in (ram \cap Old) \ (crossed \cup gaveUp)
               PROVE  row[v] \in {"open", "closing"} \/ OfKind(v, "open")
    BY <1>1 DEF NoPasswordAtRest, RetainInv
  <2>1. BadgeInv(v) /\ SessionInv(v) /\ PasswordInv(v)
    BY <1>1 DEF OldInv
  <2>2. OneJob(v)
    BY <1>1, OneJobEach DEF Old
  <2>3. OfKind(v, "open") \/ OfKind(v, "close") \/ core[v] = "open"
    BY <2>1 DEF PasswordInv
  <2>4. OfKind(v, "close") => row[v] = "closing"
    BY <2>1 DEF BadgeInv, Held
  <2>5. core[v] = "open" => row[v] \in {"open", "closing"} \/ OfKind(v, "open")
    BY <2>1, <2>2 DEF SessionInv, OneJob, Kinds
  <2> QED
    BY <2>3, <2>4, <2>5
<1>2. TypeOK /\ QueueIsServed /\ OldInv /\ RetainInv => NoPasswordAtRest
  BY <1>1
<1>3. Init => RetainInv
  BY DEF Init, RetainInv
<1>4. TypeOK /\ RetainInv /\ [Next]_vars => RetainInv'
  BY RetainNext
<1> QED
  BY OldAlways, LifecycleTypeCorrect, <1>2, <1>3, <1>4, PTL DEF Spec

\* useClosingDisplayHold: the badge is on only over a row that is closing and that no
\* open is under way for, so its timer never closes the row of a vault opened again.
THEOREM BadgeMeansClosing == Spec => []HoldMeansClosing
<1>1. OldInv => HoldMeansClosing
  BY DEF OldInv, BadgeInv, HoldMeansClosing
<1> QED
  BY OldAlways, <1>1, PTL

Carries(v) == Tracked(v) /\ (run.job.kind = "open" \/ run.job.typed) => run.password

\* runOpeningPipeline and closeVault: a job for which the dialog took a password goes to
\* the core with one, however long it waited and whatever was done with other vaults.
THEOREM PasswordsReachTheCore ==
    /\ Spec => [](\A v \in Old : Carries(v))
    /\ Spec /\ scope.new = {} => []PasswordReachesCore
<1>1. OldInv => \A v \in Old : Carries(v)
  BY DEF OldInv, SupplyInv, Supplied, Carries
<1>2. ASSUME TypeOK, \A v \in Old : Carries(v), Old = Vaults PROVE PasswordReachesCore
  <2>1. run.job # None => run.job.vault \in Vaults
    BY <1>2, RunTypes DEF Jobs, Job
  <2> QED
    BY <1>2, <2>1 DEF Carries, Tracked, PasswordReachesCore
<1>3. TypeOK /\ (\A v \in Old : Carries(v)) /\ Old = Vaults => PasswordReachesCore
  BY <1>2
<1> QED
  BY OldAlways, NoneCreated, <1>1, <1>3, PTL
=============================================================================
