----------------------- MODULE VaultSessionHostProofs -----------------------
(***************************************************************************)
(* Theorems about VaultSession that need something of the host: one thread *)
(* for the heavy RPCs, one for the light ones, as in the desktop daemon,   *)
(* or a process in which no create is cut short.                           *)
(***************************************************************************)
EXTENDS VaultSessionProofs

-----------------------------------------------------------------------------
(***************************************************************************)
(* Which thread serves what.                                               *)
(***************************************************************************)

Building == {"create_config", "create_gate", "create_kdf", "create_persist", "create_cleanup"}
Opening == {"open_gate", "open_check", "open_load", "open_kdf", "open_insert"}
Probing == {"probe_sessions", "probe_closing", "probe_gate", "save_write", "setup_write"}

\* What the label of a thread says about its request.
CallOf(t) ==
    /\ pc[t] \in Opening \cup Building \cup {"create_dir"} => t \in HeavyThreads
    /\ pc[t] \in Probing => t \in LightThreads
    /\ pc[t] \in Building \cup {"create_dir"} => req[t].kind = "create"
    /\ pc[t] = "save_write" => req[t].kind = "save"
    /\ req[t].kind \in {"create", "save"} => req[t].config \in ConfigSpace
    /\ req[t].since <= born

CallsFit == \A t \in Threads : CallOf(t)

\* Sessions are only ever born.
LEMMA BornGrows ==
    ASSUME TypeInv, Custody, [Next]_vars
    PROVE  born' \in Nat /\ born <= born'
<1> born \in Nat
  BY DEF TypeInv, TypeOK
<1>1. ASSUME NEW t \in Threads,
             OpenStep(t) \/ CreateStep(t) \/ CloseStep(t) \/ SwitchStep(t) \/ Panic(t)
      PROVE  born' = born \/ born' = born + 1
  BY <1>1, SessionMoves DEF TypeInv, Custody, OpenInsert, CloseTake, CloseFlush, CloseRestore, ram
<1>2. CASE Restart \/ UNCHANGED vars
  BY <1>2 DEF Restart, vars, ram
<1> QED
  BY <1>1, <1>2, NextSplit

\* The thread that takes a step has a request that fits its label.
LEMMA CallKept ==
    ASSUME TypeInv, NEW t \in Threads, CallOf(t), born' \in Nat, born <= born',
           OpenStep(t) \/ CreateStep(t) \/ CloseStep(t) \/ SwitchStep(t) \/ Panic(t)
    PROVE  CallOf(t)'
<1> born \in Nat /\ req[t].since \in Nat /\ NoRequest.since = 0 /\ NoRequest.kind = "none"
  BY DEF TypeInv, TypeOK, Request, NoRequest
<1> req[t] \in Request /\ NoRequest \in Request
  BY NoRequestType DEF TypeInv, TypeOK
<1>1. \A label : Goto(t, label) => pc'[t] = label
  BY DEF TypeInv, TypeOK, Goto
<1>2. \A label, r : Begin(t, label, r) => pc'[t] = label /\ req'[t] = r
  BY <1>1 DEF TypeInv, TypeOK, Begin
<1>3. Reply(t) => pc'[t] = "idle" /\ req'[t] = NoRequest
  BY <1>1 DEF TypeInv, TypeOK, Reply
<1>4. \A label : Continue(t, label) => pc'[t] = label /\ req'[t] = req[t]
  BY <1>1 DEF Continue
<1>5. ASSUME Reply(t) PROVE CallOf(t)'
  BY <1>3, <1>5 DEF CallOf, Opening, Building, Probing
<1> USE DEF CallOf, Opening, Building, Probing
<1>6. CASE OpenStep(t)
  <2>1. CASE \E i \in Ids, yes \in BOOLEAN : OpenCall(t, i, yes)
    <3>1. PICK i \in Ids, yes \in BOOLEAN : OpenCall(t, i, yes)
      BY <2>1
    <3>2. PICK r : r = [NoRequest EXCEPT !.kind = "open", !.dir = <<root, i>>,
                                         !.pass = yes, !.since = born]
      OBVIOUS
    <3>3. r.kind = "open" /\ r.since = born
      BY <3>2 DEF NoRequest
    <3>4. Begin(t, "open_gate", r) /\ t \in HeavyThreads
      BY <3>1, <3>2 DEF OpenCall
    <3>5. pc'[t] = "open_gate" /\ req'[t] = r
      BY <1>2, <3>4
    <3> QED
      BY <1>1, <3>3, <3>4, <3>5
  <2>2. CASE OpenEnter(t)
    BY <1>4, <1>5, <2>2 DEF OpenEnter
  <2>3. CASE OpenCheck(t)
    BY <1>4, <1>5, <2>3 DEF OpenCheck
  <2>4. CASE OpenLoad(t)
    BY <1>1, <1>5, <2>4 DEF OpenLoad
  <2>5. CASE OpenKdf(t)
    BY <1>4, <1>5, <2>5 DEF OpenKdf
  <2>6. CASE OpenInsert(t)
    BY <1>5, <2>6 DEF OpenInsert
  <2> QED
    BY <1>6, <2>1, <2>2, <2>3, <2>4, <2>5, <2>6 DEF OpenStep
<1>7. CASE CreateStep(t)
  <2>1. CASE \E i \in Ids, c \in Configs : CreateCall(t, i, c)
    <3>1. PICK i \in Ids, c \in Configs : CreateCall(t, i, c)
      BY <2>1
    <3>2. PICK r : r = [NoRequest EXCEPT !.kind = "create", !.dir = <<root, i>>,
                                         !.config = c, !.since = born]
      OBVIOUS
    <3>3. r.kind = "create" /\ r.since = born /\ r.config = c
      BY <3>2 DEF NoRequest
    <3>4. Begin(t, "create_dir", r) /\ t \in HeavyThreads
      BY <3>1, <3>2 DEF CreateCall
    <3>5. pc'[t] = "create_dir" /\ req'[t] = r
      BY <1>2, <3>4
    <3>6. c \in ConfigSpace
      BY SessionAssumption
    <3> QED
      BY <1>1, <3>3, <3>4, <3>5, <3>6
  <2>2. CASE CreateDir(t)
    BY <1>4, <1>5, <2>2 DEF CreateDir
  <2>3. CASE CreateConfig(t)
    BY <1>4, <2>3 DEF CreateConfig
  <2>4. CASE CreateEnter(t)
    BY <1>4, <2>4 DEF CreateEnter
  <2>5. CASE CreateSeed(t)
    BY <1>4, <2>5 DEF CreateSeed
  <2>6. CASE CreatePersist(t)
    BY <1>4, <1>5, <2>6 DEF CreatePersist
  <2>7. CASE CreateCleanup(t)
    BY <1>5, <2>7 DEF CreateCleanup
  <2> QED
    BY <1>7, <2>1, <2>2, <2>3, <2>4, <2>5, <2>6, <2>7 DEF CreateStep
<1>8. CASE CloseStep(t)
  <2>1. CASE \E i \in Ids, yes \in BOOLEAN : CloseCall(t, i, yes)
    <3>1. PICK i \in Ids, yes \in BOOLEAN : CloseCall(t, i, yes)
      BY <2>1
    <3>2. PICK r : r = [NoRequest EXCEPT !.kind = "close", !.dir = <<root, i>>,
                                         !.pass = yes, !.since = born]
      OBVIOUS
    <3>3. r.kind = "close" /\ r.since = born
      BY <3>2 DEF NoRequest
    <3>4. Begin(t, "close_mark", r)
      BY <3>1, <3>2 DEF CloseCall
    <3>5. pc'[t] = "close_mark" /\ req'[t] = r
      BY <1>2, <3>4
    <3> QED
      BY <1>1, <3>3, <3>5
  <2>2. CASE CloseMark(t)
    BY <1>4, <2>2 DEF CloseMark
  <2>3. CASE CloseTake(t)
    BY <1>4, <2>3 DEF CloseTake
  <2>4. CASE CloseFlush(t)
    BY <1>4, <2>4 DEF CloseFlush
  <2>5. CASE CloseRestore(t)
    BY <1>4, <2>5 DEF CloseRestore
  <2>6. CASE CloseUnmark(t)
    BY <1>5, <2>6 DEF CloseUnmark
  <2> QED
    BY <1>8, <2>1, <2>2, <2>3, <2>4, <2>5, <2>6 DEF CloseStep
<1>9. CASE SwitchStep(t)
  <2>1. CASE \E i \in Ids, c \in Configs : SaveCall(t, i, c)
    <3>1. PICK i \in Ids, c \in Configs : SaveCall(t, i, c)
      BY <2>1
    <3>2. PICK r : r = [NoRequest EXCEPT !.kind = "save", !.dir = <<root, i>>,
                                         !.config = c, !.since = born]
      OBVIOUS
    <3>3. r.kind = "save" /\ r.since = born /\ r.config = c
      BY <3>2 DEF NoRequest
    <3>4. Begin(t, "probe_sessions", r) /\ t \in LightThreads
      BY <3>1, <3>2 DEF SaveCall
    <3>5. pc'[t] = "probe_sessions" /\ req'[t] = r
      BY <1>2, <3>4
    <3>6. c \in ConfigSpace
      BY SessionAssumption
    <3> QED
      BY <1>1, <3>3, <3>4, <3>5, <3>6
  <2>2. CASE \E r \in Roots : SetupCall(t, r)
    <3>1. PICK r \in Roots : SetupCall(t, r)
      BY <2>2
    <3>2. PICK q : q = [NoRequest EXCEPT !.kind = "setup", !.goal = r, !.since = born]
      OBVIOUS
    <3>3. q.kind = "setup" /\ q.since = born
      BY <3>2 DEF NoRequest
    <3>4. Begin(t, "probe_sessions", q) /\ t \in LightThreads
      BY <3>1, <3>2 DEF SetupCall
    <3>5. pc'[t] = "probe_sessions" /\ req'[t] = q
      BY <1>2, <3>4
    <3> QED
      BY <1>1, <3>3, <3>4, <3>5
  <2>3. CASE \E r \in Roots : SettingsSave(t, r)
    BY <2>3 DEF SettingsSave
  <2>4. CASE ProbeSessions(t)
    BY <1>4, <1>5, <2>4 DEF ProbeSessions, Busy
  <2>5. CASE ProbeClosing(t)
    BY <1>4, <1>5, <2>5 DEF ProbeClosing, Busy
  <2>6. CASE ProbeGate(t)
    BY <1>4, <1>5, <2>6 DEF ProbeGate, Busy
  <2>7. CASE SaveWrite(t)
    BY <1>5, <2>7 DEF SaveWrite
  <2>8. CASE SetupWrite(t)
    BY <1>5, <2>8 DEF SetupWrite
  <2> QED
    BY <1>9, <2>1, <2>2, <2>3, <2>4, <2>5, <2>6, <2>7, <2>8 DEF SwitchStep
<1>10. CASE Panic(t)
  BY <1>5, <1>10 DEF Panic
<1> QED
  BY <1>6, <1>7, <1>8, <1>9, <1>10

LEMMA CallsStep ==
    ASSUME TypeInv, Custody, CallsFit, [Next]_vars
    PROVE  CallsFit'
<1>0. born' \in Nat /\ born <= born' /\ born \in Nat /\ \A t \in Threads : req[t].since \in Nat
  BY BornGrows DEF TypeInv, TypeOK, Request
<1>1. ASSUME NEW t \in Threads,
             OpenStep(t) \/ CreateStep(t) \/ CloseStep(t) \/ SwitchStep(t) \/ Panic(t)
      PROVE  CallsFit'
  <2>1. \A u \in Threads \ {t} : pc'[u] = pc[u] /\ req'[u] = req[u]
    BY <1>1, OthersStay DEF TypeInv
  <2>2. CallOf(t)'
    BY <1>0, <1>1, CallKept DEF CallsFit
  <2>3. \A u \in Threads \ {t} : CallOf(u)'
    BY <1>0, <2>1 DEF CallsFit, CallOf
  <2> QED
    BY <2>2, <2>3 DEF CallsFit
<1>2. CASE Restart
  <2>1. \A t \in Threads : pc'[t] = "idle" /\ req'[t] = NoRequest
    BY <1>2 DEF Restart
  <2>2. NoRequest.kind = "none" /\ NoRequest.since = 0
    BY DEF NoRequest
  <2> QED
    BY <1>0, <2>1, <2>2 DEF CallsFit, CallOf, Opening, Building, Probing
<1>3. CASE UNCHANGED vars
  BY <1>3 DEF vars, ram, CallsFit, CallOf
<1> QED
  BY <1>1, <1>2, <1>3, NextSplit

LEMMA InitCalls == Init => CallsFit
  BY DEF Init, CallsFit, CallOf, NoRequest, Opening, Building, Probing

-----------------------------------------------------------------------------
(***************************************************************************)
(* What the probes of a setup or a save have seen stays true: a session    *)
(* that is there later was born later.  The one step that could bring an   *)
(* older session back is the restore of a close, and where one thread      *)
(* serves the light RPCs it is busy probing.                               *)
(***************************************************************************)

\* A handler that has read SESSIONS and goes on as if nothing were open.
PastProbe(t) ==
    \/ pc[t] \in {"probe_closing", "probe_gate", "setup_write"}
    \/ pc[t] = "save_write" /\ Quiet(seen[t]) # Quiet(req[t].config)

\* The sessions it concerns are younger than its request.
YoungAt(t) == \A d \in Scope(t) : IsOpenAt(d) => sessions[d].gen > req[t].since

ProbedYoung == \A t \in Threads : PastProbe(t) => YoungAt(t)

\* A handler gets past the probe of SESSIONS only by finding nothing open.
LEMMA ProbeMoves ==
    ASSUME TypeInv, NEW t \in Threads, PastProbe(t)',
           OpenStep(t) \/ CreateStep(t) \/ CloseStep(t) \/ SwitchStep(t) \/ Panic(t)
    PROVE  /\ req'[t] = req[t]
           /\ sessions' = sessions
           /\ PastProbe(t) \/ \A d \in Scope(t) : ~IsOpenAt(d)
<1>1. \A label : Goto(t, label) => pc'[t] = label
  BY DEF TypeInv, TypeOK, Goto
<1> USE <1>1 DEF Begin, Reply, Continue, PastProbe
<1>2. CASE OpenStep(t)
  <2>1. CASE \E i \in Ids, yes \in BOOLEAN : OpenCall(t, i, yes)
    BY <2>1 DEF OpenCall
  <2>2. CASE OpenEnter(t)
    BY <2>2 DEF OpenEnter
  <2>3. CASE OpenCheck(t)
    BY <2>3 DEF OpenCheck
  <2>4. CASE OpenLoad(t)
    BY <2>4 DEF OpenLoad
  <2>5. CASE OpenKdf(t)
    BY <2>5 DEF OpenKdf
  <2>6. CASE OpenInsert(t)
    BY <2>6 DEF OpenInsert
  <2> QED
    BY <1>2, <2>1, <2>2, <2>3, <2>4, <2>5, <2>6 DEF OpenStep
<1>3. CASE CreateStep(t)
  <2>1. CASE \E i \in Ids, c \in Configs : CreateCall(t, i, c)
    BY <2>1 DEF CreateCall
  <2>2. CASE CreateDir(t)
    BY <2>2 DEF CreateDir
  <2>3. CASE CreateConfig(t)
    BY <2>3 DEF CreateConfig
  <2>4. CASE CreateEnter(t)
    BY <2>4 DEF CreateEnter
  <2>5. CASE CreateSeed(t)
    BY <2>5 DEF CreateSeed
  <2>6. CASE CreatePersist(t)
    BY <2>6 DEF CreatePersist
  <2>7. CASE CreateCleanup(t)
    BY <2>7 DEF CreateCleanup
  <2> QED
    BY <1>3, <2>1, <2>2, <2>3, <2>4, <2>5, <2>6, <2>7 DEF CreateStep
<1>4. CASE CloseStep(t)
  <2>1. CASE \E i \in Ids, yes \in BOOLEAN : CloseCall(t, i, yes)
    BY <2>1 DEF CloseCall
  <2>2. CASE CloseMark(t)
    BY <2>2 DEF CloseMark
  <2>3. CASE CloseTake(t)
    BY <2>3 DEF CloseTake
  <2>4. CASE CloseFlush(t)
    BY <2>4 DEF CloseFlush
  <2>5. CASE CloseRestore(t)
    BY <2>5 DEF CloseRestore
  <2>6. CASE CloseUnmark(t)
    BY <2>6 DEF CloseUnmark
  <2> QED
    BY <1>4, <2>1, <2>2, <2>3, <2>4, <2>5, <2>6 DEF CloseStep
<1>5. CASE SwitchStep(t)
  <2>1. CASE \E i \in Ids, c \in Configs : SaveCall(t, i, c)
    BY <2>1 DEF SaveCall
  <2>2. CASE \E r \in Roots : SetupCall(t, r)
    BY <2>2 DEF SetupCall
  <2>3. CASE \E r \in Roots : SettingsSave(t, r)
    BY <2>3 DEF SettingsSave, ram
  <2>4. CASE ProbeSessions(t)
    BY <2>4 DEF ProbeSessions, Busy, ram
  <2>5. CASE ProbeClosing(t)
    BY <2>5 DEF ProbeClosing, Busy, ram
  <2>6. CASE ProbeGate(t)
    BY <2>6 DEF ProbeGate, Busy, ram
  <2>7. CASE SaveWrite(t)
    BY <2>7 DEF SaveWrite
  <2>8. CASE SetupWrite(t)
    BY <2>8 DEF SetupWrite
  <2> QED
    BY <1>5, <2>1, <2>2, <2>3, <2>4, <2>5, <2>6, <2>7, <2>8 DEF SwitchStep
<1>6. CASE Panic(t)
  BY <1>6 DEF Panic
<1> QED
  BY <1>2, <1>3, <1>4, <1>5, <1>6

\* A session that another thread puts in the registry is new, or was in the hands of
\* a close.
LEMMA OnlyNewOrRestored ==
    ASSUME TypeInv, Custody, NEW t \in Threads, NEW d \in Dirs, (sessions[d].gen # 0)',
           OpenStep(t) \/ CreateStep(t) \/ CloseStep(t) \/ SwitchStep(t) \/ Panic(t)
    PROVE  \/ sessions'[d] = sessions[d]
           \/ pc[t] = "open_insert" /\ d = req[t].dir /\ sessions'[d].gen = born + 1
           \/ pc[t] = "close_restore" /\ d = req[t].dir
<1>1. CASE OpenInsert(t)
  BY <1>1 DEF OpenInsert, TypeInv, TypeOK
<1>2. CASE CloseTake(t)
  BY <1>2 DEF CloseTake, TypeInv, TypeOK, NoSession
<1>3. CASE CloseFlush(t)
  BY <1>3 DEF CloseFlush, ram
<1>4. CASE CloseRestore(t)
  BY <1>4 DEF CloseRestore, TypeInv, TypeOK
<1> QED
  BY <1>1, <1>2, <1>3, <1>4, SessionMoves DEF TypeInv, Custody

LEMMA YoungStep ==
    ASSUME OneCloser, TypeInv, Custody, CallsFit, ClosesAreLight, ProbedYoung, [Next]_vars
    PROVE  ProbedYoung'
<1>1. ASSUME NEW u \in Threads,
             OpenStep(u) \/ CreateStep(u) \/ CloseStep(u) \/ SwitchStep(u) \/ Panic(u),
             NEW t \in Threads, PastProbe(t)'
      PROVE  YoungAt(t)'
  <2>1. CASE u = t
    <3>1. /\ req'[t] = req[t] /\ sessions' = sessions
          /\ PastProbe(t) \/ \A d \in Scope(t) : ~IsOpenAt(d)
      BY <1>1, <2>1, ProbeMoves
    <3> QED
      BY <3>1 DEF ProbedYoung, YoungAt, Scope, IsOpenAt
  <2>2. CASE u # t
    <3>1. pc'[t] = pc[t] /\ req'[t] = req[t] /\ seen'[t] = seen[t]
      BY <1>1, <2>2, OthersStay DEF TypeInv
    <3>2. PastProbe(t) /\ YoungAt(t) /\ Scope(t)' = Scope(t)
      BY <1>1, <3>1 DEF PastProbe, ProbedYoung, Scope
    <3>3. t \in LightThreads
      BY <3>2 DEF PastProbe, CallsFit, CallOf, Probing
    <3>4. pc[u] # "close_restore"
      BY <2>2, <3>3 DEF ClosesAreLight, Marked, OneCloser
    <3>5. Scope(t) \subseteq Dirs
      BY RequestTypes DEF TypeInv, Scope
    <3>6. req[t].since \in Nat /\ born \in Nat /\ req[t].since <= born
      BY DEF TypeInv, TypeOK, Request, CallsFit, CallOf
    <3>7. ASSUME NEW d \in Scope(t), sessions'[d].gen # 0
          PROVE  sessions'[d].gen > req[t].since
      <4>1. sessions'[d] = sessions[d] \/ sessions'[d].gen = born + 1
        BY <1>1, <3>4, <3>5, <3>7, OnlyNewOrRestored
      <4> QED
        BY <3>2, <3>6, <3>7, <4>1 DEF YoungAt, IsOpenAt
    <3> QED
      BY <3>1, <3>2, <3>7 DEF YoungAt, IsOpenAt
  <2> QED
    BY <2>1, <2>2
<1>2. CASE Restart
  BY <1>2 DEF Restart, ProbedYoung, PastProbe
<1>3. CASE UNCHANGED vars
  BY <1>3 DEF vars, ram, ProbedYoung, PastProbe, YoungAt, Scope, IsOpenAt
<1> QED
  BY <1>1, <1>2, <1>3, NextSplit DEF ProbedYoung

\* Where one thread serves the light RPCs, a setup or a save of quiet fields writes
\* only over sessions born after it was asked for (session/mod.rs:153,
\* vault_activity_blocks_root_switch; edit_policy.rs:52, session_blocks_quiet).
THEOREM ProbesMissOnlyYounger ==
    ASSUME OneCloser
    PROVE  Spec => []ProbeSeesOlderSessions
<1>1. Init => CallsFit /\ ClosesAreLight /\ MarkIsSet /\ ProbedYoung
  BY InitCalls DEF Init, ClosesAreLight, MarkIsSet, Marked, ProbedYoung, PastProbe
<1>2. /\ TypeInv /\ Custody
      /\ CallsFit /\ ClosesAreLight /\ MarkIsSet /\ ProbedYoung
      /\ [Next]_vars
      => CallsFit' /\ ClosesAreLight' /\ MarkIsSet' /\ ProbedYoung'
  BY OneCloser, CallsStep, MarkStep, YoungStep
<1>3. ProbedYoung => ProbeSeesOlderSessions
  BY DEF ProbedYoung, PastProbe, YoungAt, ProbeSeesOlderSessions
<1> QED
  BY <1>1, <1>2, <1>3, CustodyCorrect, PTL DEF Spec

-----------------------------------------------------------------------------
(***************************************************************************)
(* What a handler does to the vault folder of its request.                 *)
(***************************************************************************)

\* Folders change one at a time, and only the cleanup of a create removes anything.
LEMMA DiskMoves ==
    ASSUME TypeInv, CallsFit, NEW t \in Threads,
           OpenStep(t) \/ CreateStep(t) \/ CloseStep(t) \/ SwitchStep(t) \/ Panic(t)
    PROVE  /\ \A e \in Dirs : e # req[t].dir => disk'[e] = disk[e]
           /\ pc[t] # "create_cleanup" =>
                \A e \in Dirs : /\ disk[e].exists => disk'[e].exists
                                /\ disk[e].config # NoConfig => disk'[e].config # NoConfig
                                /\ disk[e].seeded => disk'[e].seeded
                                /\ disk[e].persisted => disk'[e].persisted
           /\ \A e \in Dirs : /\ disk'[e].exists => disk[e].exists \/ pc[t] = "create_dir"
                              /\ disk'[e].seeded => disk[e].seeded \/ pc[t] = "create_kdf"
           /\ pc[t] = "create_cleanup" => \A e \in Dirs : disk'[e] \in {disk[e], NoVault}
<1> DEFINE d == req[t].dir
           Kept == disk' = disk
<1>1. /\ d \in Dirs
      /\ disk \in [Dirs -> VaultOnDisk]
      /\ \A e \in Dirs : disk[e] \in VaultOnDisk
  BY RequestTypes DEF TypeInv, TypeOK
<1>2. NoConfig \notin ConfigSpace
  BY DEF NoConfig, ConfigSpace, SecurityModes
<1>3. CASE Kept
  BY <1>3
<1>4. CASE CreateDir(t) /\ disk' = [disk EXCEPT ![d].exists = TRUE]
  BY <1>1, <1>4 DEF CreateDir, VaultOnDisk
<1>5. CASE CreateConfig(t) /\ disk' = [disk EXCEPT ![d].config = req[t].config]
  <2>1. req[t].config # NoConfig
    BY <1>2, <1>5 DEF CreateConfig, CallsFit, CallOf, Building
  <2> QED
    BY <1>1, <1>5, <2>1 DEF CreateConfig, VaultOnDisk
<1>6. CASE CreateSeed(t) /\ disk' = [disk EXCEPT ![d].seeded = TRUE]
  BY <1>1, <1>6 DEF CreateSeed, VaultOnDisk
<1>7. CASE CreatePersist(t) /\ disk' = [disk EXCEPT ![d].persisted = TRUE]
  BY <1>1, <1>7 DEF CreatePersist, VaultOnDisk
<1>8. CASE CreateCleanup(t) /\ disk' = [disk EXCEPT ![d] = NoVault]
  BY <1>1, <1>8 DEF CreateCleanup, NoVault
<1>9. CASE CloseFlush(t) /\ disk' = [disk EXCEPT ![d].persisted = TRUE]
  BY <1>1, <1>9 DEF CloseFlush, VaultOnDisk
<1>10. CASE SaveWrite(t) /\ disk' = [disk EXCEPT ![d].config = req[t].config]
  <2>1. req[t].config # NoConfig
    BY <1>2, <1>10 DEF SaveWrite, CallsFit, CallOf
  <2> QED
    BY <1>1, <1>10, <2>1 DEF SaveWrite, VaultOnDisk
<1>11. OpenStep(t) => Kept
  BY DEF OpenStep, OpenCall, OpenEnter, OpenCheck, OpenLoad, OpenKdf, OpenInsert, stores
<1>12. CreateStep(t) =>
         \/ Kept
         \/ CreateDir(t) /\ disk' = [disk EXCEPT ![d].exists = TRUE]
         \/ CreateConfig(t) /\ disk' = [disk EXCEPT ![d].config = req[t].config]
         \/ CreateSeed(t) /\ disk' = [disk EXCEPT ![d].seeded = TRUE]
         \/ CreatePersist(t) /\ disk' = [disk EXCEPT ![d].persisted = TRUE]
         \/ CreateCleanup(t) /\ disk' = [disk EXCEPT ![d] = NoVault]
  BY DEF CreateStep, CreateCall, CreateDir, CreateConfig, CreateEnter, CreateSeed,
         CreatePersist, CreateCleanup, stores
<1>13. CloseStep(t) =>
         \/ Kept
         \/ CloseFlush(t) /\ disk' = [disk EXCEPT ![d].persisted = TRUE]
  BY DEF CloseStep, CloseCall, CloseMark, CloseTake, CloseFlush, CloseRestore, CloseUnmark,
         stores
<1>14. SwitchStep(t) =>
         \/ Kept
         \/ SaveWrite(t) /\ disk' = [disk EXCEPT ![d].config = req[t].config]
  BY DEF SwitchStep, SaveCall, SetupCall, SettingsSave, ProbeSessions, ProbeClosing,
         ProbeGate, SaveWrite, SetupWrite, stores
<1>15. Panic(t) => Kept
  BY DEF Panic, stores
<1> HIDE DEF d, Kept
<1> QED
  BY <1>3, <1>4, <1>5, <1>6, <1>7, <1>8, <1>9, <1>10, <1>11, <1>12, <1>13, <1>14, <1>15

\* How a create goes on, and what an unlock has seen when it is about to insert.
LEMMA BuildMoves ==
    ASSUME TypeInv, NEW t \in Threads,
           OpenStep(t) \/ CreateStep(t) \/ CloseStep(t) \/ SwitchStep(t) \/ Panic(t)
    PROVE  /\ pc'[t] \in Building =>
                /\ UNCHANGED <<sessions, hand>> /\ req'[t] = req[t]
                /\ \/ pc[t] \in Building \ {"create_cleanup"}
                   \/ /\ pc[t] = "create_dir" /\ pc'[t] = "create_config"
                      /\ ~disk[req[t].dir].exists /\ disk'[req[t].dir].exists
           /\ pc'[t] = "open_insert" =>
                /\ UNCHANGED disk /\ req'[t] = req[t]
                /\ disk[req[t].dir].seeded
<1>1. \A label : Goto(t, label) => pc'[t] = label
  BY DEF TypeInv, TypeOK, Goto
<1>2. req[t].dir \in Dirs /\ disk \in [Dirs -> VaultOnDisk]
  BY RequestTypes DEF TypeInv, TypeOK
<1> USE <1>1 DEF Begin, Reply, Continue, Building
<1>3. CASE OpenStep(t)
  <2>1. CASE \E i \in Ids, yes \in BOOLEAN : OpenCall(t, i, yes)
    BY <2>1 DEF OpenCall
  <2>2. CASE OpenEnter(t)
    BY <2>2 DEF OpenEnter
  <2>3. CASE OpenCheck(t)
    BY <2>3 DEF OpenCheck
  <2>4. CASE OpenLoad(t)
    BY <2>4 DEF OpenLoad
  <2>5. CASE OpenKdf(t)
    BY <2>5 DEF OpenKdf, stores
  <2>6. CASE OpenInsert(t)
    BY <2>6 DEF OpenInsert
  <2> QED
    BY <1>3, <2>1, <2>2, <2>3, <2>4, <2>5, <2>6 DEF OpenStep
<1>4. CASE CreateStep(t)
  <2>1. CASE \E i \in Ids, c \in Configs : CreateCall(t, i, c)
    BY <2>1 DEF CreateCall
  <2>2. CASE CreateDir(t)
    <3>1. disk' = [disk EXCEPT ![req[t].dir].exists = TRUE] => disk'[req[t].dir].exists
      BY <1>2 DEF VaultOnDisk
    <3> QED
      BY <2>2, <3>1 DEF CreateDir, ram
  <2>3. CASE CreateConfig(t)
    BY <2>3 DEF CreateConfig, ram
  <2>4. CASE CreateEnter(t)
    BY <2>4 DEF CreateEnter, ram
  <2>5. CASE CreateSeed(t)
    BY <2>5 DEF CreateSeed, ram
  <2>6. CASE CreatePersist(t)
    BY <2>6 DEF CreatePersist, ram
  <2>7. CASE CreateCleanup(t)
    BY <2>7 DEF CreateCleanup
  <2> QED
    BY <1>4, <2>1, <2>2, <2>3, <2>4, <2>5, <2>6, <2>7 DEF CreateStep
<1>5. CASE CloseStep(t)
  <2>1. CASE \E i \in Ids, yes \in BOOLEAN : CloseCall(t, i, yes)
    BY <2>1 DEF CloseCall
  <2>2. CASE CloseMark(t)
    BY <2>2 DEF CloseMark
  <2>3. CASE CloseTake(t)
    BY <2>3 DEF CloseTake
  <2>4. CASE CloseFlush(t)
    BY <2>4 DEF CloseFlush
  <2>5. CASE CloseRestore(t)
    BY <2>5 DEF CloseRestore
  <2>6. CASE CloseUnmark(t)
    BY <2>6 DEF CloseUnmark
  <2> QED
    BY <1>5, <2>1, <2>2, <2>3, <2>4, <2>5, <2>6 DEF CloseStep
<1>6. CASE SwitchStep(t)
  <2>1. CASE \E i \in Ids, c \in Configs : SaveCall(t, i, c)
    BY <2>1 DEF SaveCall
  <2>2. CASE \E r \in Roots : SetupCall(t, r)
    BY <2>2 DEF SetupCall
  <2>3. CASE \E r \in Roots : SettingsSave(t, r)
    BY <2>3 DEF SettingsSave
  <2>4. CASE ProbeSessions(t)
    BY <2>4 DEF ProbeSessions, Busy
  <2>5. CASE ProbeClosing(t)
    BY <2>5 DEF ProbeClosing, Busy
  <2>6. CASE ProbeGate(t)
    BY <2>6 DEF ProbeGate, Busy
  <2>7. CASE SaveWrite(t)
    BY <2>7 DEF SaveWrite
  <2>8. CASE SetupWrite(t)
    BY <2>8 DEF SetupWrite
  <2> QED
    BY <1>6, <2>1, <2>2, <2>3, <2>4, <2>5, <2>6, <2>7, <2>8 DEF SwitchStep
<1>7. CASE Panic(t)
  BY <1>7 DEF Panic
<1> QED
  BY <1>3, <1>4, <1>5, <1>6, <1>7

-----------------------------------------------------------------------------
(***************************************************************************)
(* Where one thread serves vault_open and vault_create, no folder is       *)
(* cleaned away under a session.  CreateDir refuses an existing folder, so *)
(* a create builds where no session can be; and the unlock that could make *)
(* one meanwhile waits for the same thread.                                *)
(***************************************************************************)

OneOpener == \A t, u \in HeavyThreads : t = u

\* A seeded folder is a folder; sessions, and those a close holds, have one.
FoldersStand ==
    /\ \A d \in Dirs : disk[d].seeded => disk[d].exists
    /\ \A d \in Dirs : IsOpenAt(d) => disk[d].seeded
    /\ \A t \in Threads : hand[t].gen # 0 => disk[req[t].dir].seeded
    /\ \A t \in Threads : pc[t] = "open_insert" => disk[req[t].dir].seeded

\* A folder under construction has no session anywhere.
BuiltAlone ==
    \A t \in Threads : pc[t] \in Building =>
        /\ disk[req[t].dir].exists
        /\ ~IsOpenAt(req[t].dir)
        /\ \A u \in Threads : hand[u].gen # 0 => req[u].dir # req[t].dir

\* A close takes what was open at its own directory, and keeps its request.
LEMMA HandMoves ==
    ASSUME TypeInv, Custody, NEW t \in Threads, (hand[t].gen # 0)',
           OpenStep(t) \/ CreateStep(t) \/ CloseStep(t) \/ SwitchStep(t) \/ Panic(t)
    PROVE  /\ pc[t] \in {"close_take", "close_flush", "close_restore"}
           /\ req'[t] = req[t]
           /\ hand[t].gen # 0 \/ IsOpenAt(req[t].dir)
<1>1. CASE OpenInsert(t)
  BY <1>1 DEF OpenInsert, Custody, InHand
<1>2. CASE CloseTake(t)
  BY <1>2 DEF CloseTake, Continue
<1>3. CASE CloseFlush(t)
  BY <1>3 DEF CloseFlush, Continue, Custody, InHand
<1>4. CASE CloseRestore(t)
  BY <1>4 DEF CloseRestore, TypeInv, TypeOK, NoSession
<1>5. CASE UNCHANGED hand /\ pc[t] \notin {"close_flush", "close_restore"}
  BY <1>5 DEF Custody, InHand
<1> QED
  BY <1>1, <1>2, <1>3, <1>4, <1>5, SessionMoves DEF TypeInv, Custody

LEMMA FoldersStep ==
    ASSUME OneOpener, TypeInv, Custody, CallsFit, FoldersStand, BuiltAlone, [Next]_vars
    PROVE  FoldersStand' /\ BuiltAlone'
<1>1. ASSUME NEW u \in Threads,
             OpenStep(u) \/ CreateStep(u) \/ CloseStep(u) \/ SwitchStep(u) \/ Panic(u)
      PROVE  FoldersStand' /\ BuiltAlone'
  <2>1. \A t \in Threads \ {u} : /\ pc'[t] = pc[t] /\ req'[t] = req[t]
                                 /\ hand'[t] = hand[t]
    BY <1>1, OthersStay DEF TypeInv
  <2>2. \A t \in Threads : req[t].dir \in Dirs
    BY RequestTypes DEF TypeInv
  \* No thread but the one that takes the step can be opening or creating with it.
  <2>3. pc[u] \in Opening \cup Building \cup {"create_dir"} =>
          \A t \in Threads \ {u} : pc[t] \notin Opening \cup Building
    BY DEF CallsFit, CallOf, OneOpener
  <2>4. \A d \in Dirs : disk[d].seeded /\ ~disk'[d].seeded =>
          pc[u] = "create_cleanup" /\ d = req[u].dir
    BY <1>1, DiskMoves
  <2>5. \A d \in Dirs : disk[d].exists /\ ~disk'[d].exists =>
          pc[u] = "create_cleanup" /\ d = req[u].dir
    BY <1>1, DiskMoves
  <2>6. FoldersStand'
    <3>1. ASSUME NEW d \in Dirs, disk'[d].seeded
          PROVE  disk'[d].exists
      <4>1. CASE disk[d].seeded /\ pc[u] # "create_cleanup"
        BY <2>5, <4>1 DEF FoldersStand
      <4>2. CASE pc[u] = "create_cleanup"
        <5>1. disk'[d] = disk[d] \/ disk'[d] = NoVault
          BY <1>1, <4>2, DiskMoves
        <5> QED
          BY <3>1, <5>1 DEF FoldersStand, NoVault
      <4>3. CASE ~disk[d].seeded /\ pc[u] = "create_kdf"
        <5>1. d = req[u].dir
          BY <1>1, <3>1, <4>3, DiskMoves
        <5>2. disk[d].exists
          BY <4>3, <5>1 DEF BuiltAlone, Building
        <5> QED
          BY <2>5, <4>3, <5>2
      <4> QED
        BY <1>1, <3>1, <4>1, <4>2, <4>3, DiskMoves
    <3>2. ASSUME NEW d \in Dirs, sessions'[d].gen # 0
          PROVE  disk'[d].seeded
      <4>1. CASE sessions'[d] = sessions[d]
        BY <2>4, <3>2, <4>1 DEF FoldersStand, BuiltAlone, Building, IsOpenAt
      <4>2. CASE pc[u] = "open_insert" /\ d = req[u].dir
        BY <2>4, <4>2 DEF FoldersStand
      <4>3. CASE pc[u] = "close_restore" /\ d = req[u].dir
        BY <2>4, <4>3 DEF FoldersStand, Custody, InHand
      <4> QED
        BY <1>1, <3>2, <4>1, <4>2, <4>3, OnlyNewOrRestored
    <3>3. ASSUME NEW t \in Threads, hand'[t].gen # 0
          PROVE  disk'[req'[t].dir].seeded
      <4>1. CASE t = u
        <5>1. /\ pc[u] # "create_cleanup" /\ req'[u] = req[u]
              /\ hand[u].gen # 0 \/ IsOpenAt(req[u].dir)
          BY <1>1, <3>3, <4>1, HandMoves
        <5> QED
          BY <2>2, <2>4, <4>1, <5>1 DEF FoldersStand
      <4>2. CASE t # u
        BY <2>1, <2>2, <2>4, <3>3, <4>2 DEF FoldersStand, BuiltAlone, Building
      <4> QED
        BY <4>1, <4>2
    <3>4. ASSUME NEW t \in Threads, pc'[t] = "open_insert"
          PROVE  disk'[req'[t].dir].seeded
      <4>1. CASE t = u
        BY <1>1, <3>4, <4>1, BuildMoves
      <4>2. CASE t # u
        BY <2>1, <2>2, <2>3, <2>4, <3>4, <4>2 DEF FoldersStand, Opening, Building
      <4> QED
        BY <4>1, <4>2
    <3> QED
      BY <3>1, <3>2, <3>3, <3>4 DEF FoldersStand, IsOpenAt
  <2>7. ASSUME NEW t \in Threads, pc'[t] \in Building
        PROVE  /\ disk'[req'[t].dir].exists
               /\ sessions'[req'[t].dir].gen = 0
               /\ \A v \in Threads : hand'[v].gen # 0 => req'[v].dir # req'[t].dir
    <3>1. CASE t = u
      <4>1. /\ sessions' = sessions /\ hand' = hand /\ req'[u] = req[u]
            /\ \/ pc[u] \in Building \ {"create_cleanup"}
               \/ /\ pc[u] = "create_dir"
                  /\ ~disk[req[u].dir].exists /\ disk'[req[u].dir].exists
        BY <1>1, <2>7, <3>1, BuildMoves
      <4>2. hand[u].gen = 0
        BY <4>1 DEF Custody, InHand, Building
      <4>3. CASE pc[u] \in Building \ {"create_cleanup"}
        BY <2>1, <2>2, <2>5, <3>1, <4>1, <4>2, <4>3 DEF BuiltAlone, IsOpenAt
      <4>4. CASE ~disk[req[u].dir].exists /\ disk'[req[u].dir].exists
        BY <2>1, <2>2, <3>1, <4>1, <4>2, <4>4 DEF FoldersStand, IsOpenAt
      <4> QED
        BY <4>1, <4>3, <4>4
    <3>2. CASE t # u
      <4>1. pc[t] \in Building /\ req'[t] = req[t]
        BY <2>1, <2>7, <3>2
      <4>2. pc[u] \notin Opening \cup Building
        BY <2>3, <3>2, <4>1
      <4>3. disk'[req[t].dir].exists
        BY <2>2, <2>5, <4>1, <4>2 DEF BuiltAlone, Building
      <4>4. sessions'[req[t].dir].gen = 0
        <5>1. pc[u] = "close_restore" => req[u].dir # req[t].dir
          BY <4>1 DEF BuiltAlone, Custody, InHand
        <5> QED
          BY <1>1, <2>2, <4>1, <4>2, <5>1, OnlyNewOrRestored
          DEF BuiltAlone, Opening, IsOpenAt
      <4>5. ASSUME NEW v \in Threads, hand'[v].gen # 0
            PROVE  req'[v].dir # req[t].dir
        <5>1. CASE v = u
          BY <1>1, <4>1, <4>5, <5>1, HandMoves DEF BuiltAlone
        <5>2. CASE v # u
          BY <2>1, <4>1, <4>5, <5>2 DEF BuiltAlone
        <5> QED
          BY <5>1, <5>2
      <4> QED
        BY <4>1, <4>3, <4>4, <4>5
    <3> QED
      BY <3>1, <3>2
  <2> QED
    BY <2>6, <2>7 DEF BuiltAlone, IsOpenAt
<1>2. CASE Restart
  BY <1>2 DEF Restart, FoldersStand, BuiltAlone, Building, IsOpenAt, NoSession, stores
<1>3. CASE UNCHANGED vars
  BY <1>3 DEF vars, ram, stores, FoldersStand, BuiltAlone, IsOpenAt
<1> QED
  BY <1>1, <1>2, <1>3, NextSplit

\* Where one thread serves vault_open and vault_create, every session has its vault
\* folder, whatever fails, panics or exits (vault/create.rs:34 and :59, create_dir and
\* the cleanup of a failed create).
THEOREM SessionsHaveFolders ==
    ASSUME OneOpener
    PROVE  Spec => []SessionHasVault
<1>1. Init => CallsFit /\ FoldersStand /\ BuiltAlone
  <2> SUFFICES ASSUME Init
               PROVE  FoldersStand /\ BuiltAlone
    BY InitCalls
  <2>1. \A d \in Dirs : disk[d].seeded => disk[d].exists
    BY DEF Init, NoVault, Whole
  <2> QED
    BY <2>1 DEF Init, FoldersStand, BuiltAlone, Building, IsOpenAt, NoSession
<1>2. /\ TypeInv /\ Custody
      /\ CallsFit /\ FoldersStand /\ BuiltAlone
      /\ [Next]_vars
      => CallsFit' /\ FoldersStand' /\ BuiltAlone'
  BY OneOpener, CallsStep, FoldersStep
<1>3. FoldersStand => SessionHasVault
  BY DEF FoldersStand, SessionHasVault
<1> QED
  BY <1>1, <1>2, <1>3, CustodyCorrect, PTL DEF Spec

-----------------------------------------------------------------------------
(***************************************************************************)
(* A create that nothing cuts short leaves a whole vault or no folder.     *)
(* What cuts one short is an exit, a panic under the gate and a cleanup    *)
(* that fails as well; a failed write or read does not.  The directory     *)
(* gate is what keeps two creates of one folder apart, so this needs no    *)
(* assumption about the threads.                                           *)
(***************************************************************************)

NothingCutsShort == Faults \cap {"exit", "panic", "cleanup"} = {}

\* A create holds its directory gate, and has made what its label says.
MadeSoFar(t) ==
    /\ pc[t] \in Building => dirGates[req[t].dir] = t
    /\ pc[t] \in {"create_gate", "create_kdf", "create_persist"} =>
         disk[req[t].dir].config # NoConfig
    /\ pc[t] = "create_persist" => disk[req[t].dir].seeded

WholeAt(d) ==
    disk[d].exists /\ dirGates[d] = NoThread =>
        disk[d].config # NoConfig /\ disk[d].seeded /\ disk[d].persisted

MadeInOrder == \A t \in Threads : MadeSoFar(t)

\* A create, and whatever else a handler does, at the directory of its request.
LEMMA MakeMoves ==
    ASSUME NothingCutsShort, TypeInv, CallsFit,
           NEW t \in Threads, NEW d \in Dirs, d = req[t].dir, MadeSoFar(t), WholeAt(d),
           OpenStep(t) \/ CreateStep(t) \/ CloseStep(t) \/ SwitchStep(t) \/ Panic(t)
    PROVE  /\ MadeSoFar(t)'
           /\ WholeAt(d)'
           /\ \A e \in Dirs \ {d} : dirGates'[e] = dirGates[e]
           /\ dirGates'[d] # dirGates[d] => dirGates[d] \in {t, NoThread}
<1>1. /\ \A label : Goto(t, label) => pc'[t] = label
      /\ t # NoThread
      /\ dirGates \in [Dirs -> Threads \cup {NoThread}]
      /\ disk \in [Dirs -> VaultOnDisk]
  BY SessionAssumption DEF TypeInv, TypeOK, Goto
<1>2. ASSUME UNCHANGED <<disk, dirGates>>, pc'[t] \notin Building
      PROVE  /\ MadeSoFar(t)' /\ WholeAt(d)'
             /\ dirGates' = dirGates
  BY <1>2 DEF MadeSoFar, WholeAt, Building
<1>3. \A label : Begin(t, label, req'[t]) \/ Continue(t, label) => pc'[t] = label
  BY <1>1 DEF Begin, Continue
<1>4. Reply(t) => pc'[t] = "idle"
  BY <1>1 DEF Reply
<1>5. \A label : Continue(t, label) => req'[t] = req[t]
  BY DEF Continue
<1>6. CASE OpenStep(t)
  <2>1. UNCHANGED <<disk, dirGates>>
    BY <1>6 DEF OpenStep, OpenCall, OpenEnter, OpenCheck, OpenLoad, OpenKdf, OpenInsert,
                stores, locks
  <2>2. pc'[t] \notin Building
    <3>1. (\E i \in Ids, yes \in BOOLEAN : OpenCall(t, i, yes)) => pc'[t] \notin Building
      BY <1>1 DEF OpenCall, Begin, Building
    <3>2. OpenEnter(t) \/ OpenCheck(t) \/ OpenKdf(t) \/ OpenInsert(t) => pc'[t] \notin Building
      BY <1>3, <1>4 DEF OpenEnter, OpenCheck, OpenKdf, OpenInsert, Building
    <3>3. OpenLoad(t) => pc'[t] \notin Building
      BY <1>1, <1>4 DEF OpenLoad, Building
    <3> QED
      BY <1>6, <3>1, <3>2, <3>3 DEF OpenStep
  <2> QED
    BY <1>2, <2>1, <2>2
<1>7. CASE CreateStep(t)
  <2>1. CASE \E i \in Ids, c \in Configs : CreateCall(t, i, c)
    <3>1. pc'[t] = "create_dir" /\ UNCHANGED <<disk, dirGates>>
      BY <1>1, <2>1 DEF CreateCall, Begin, stores, locks
    <3> QED
      BY <1>2, <3>1 DEF Building
  <2>2. CASE CreateDir(t)
    BY <1>1, <1>2, <1>3, <1>4, <1>5, <2>2
    DEF CreateDir, MadeSoFar, WholeAt, Building, VaultOnDisk
  <2>3. CASE CreateConfig(t)
    <3>1. req[t].config \in ConfigSpace /\ NoConfig \notin ConfigSpace
      BY <2>3 DEF CreateConfig, CallsFit, CallOf, Building, NoConfig, ConfigSpace,
                  SecurityModes
    <3> QED
      BY <1>1, <1>3, <1>5, <2>3, <3>1
      DEF CreateConfig, MadeSoFar, WholeAt, Building, VaultOnDisk, locks
  <2>4. CASE CreateEnter(t)
    BY <1>1, <1>3, <1>5, <2>4 DEF CreateEnter, MadeSoFar, WholeAt, Building, stores
  <2>5. CASE CreateSeed(t)
    BY <1>1, <1>3, <1>5, <2>5
    DEF CreateSeed, MadeSoFar, WholeAt, Building, VaultOnDisk
  <2>6. CASE CreatePersist(t)
    BY <1>1, <1>3, <1>4, <1>5, <2>6
    DEF CreatePersist, MadeSoFar, WholeAt, Building, VaultOnDisk
  <2>7. CASE CreateCleanup(t)
    <3>1. disk' = [disk EXCEPT ![d] = NoVault]
      BY <2>7 DEF CreateCleanup, May, NothingCutsShort
    <3> QED
      BY <1>1, <1>4, <2>7, <3>1
      DEF CreateCleanup, MadeSoFar, WholeAt, Building, NoVault
  <2> QED
    BY <1>7, <2>1, <2>2, <2>3, <2>4, <2>5, <2>6, <2>7 DEF CreateStep
<1>8. CASE CloseStep(t) \/ SwitchStep(t)
  <2>1. UNCHANGED dirGates
    BY <1>8 DEF CloseStep, CloseCall, CloseMark, CloseTake, CloseFlush, CloseRestore,
                CloseUnmark, SwitchStep, SaveCall, SetupCall, SettingsSave, ProbeSessions,
                ProbeClosing, ProbeGate, SaveWrite, SetupWrite, locks
  <2>2. pc[t] \notin Building \cup {"create_dir", "create_kdf", "create_cleanup"}
        \/ \E r \in Roots : SettingsSave(t, r)
    BY <1>8 DEF CloseStep, CloseCall, CloseMark, CloseTake, CloseFlush, CloseRestore,
                CloseUnmark, SwitchStep, SaveCall, SetupCall, ProbeSessions,
                ProbeClosing, ProbeGate, SaveWrite, SetupWrite, Begin, Building
  <2>3. (\E r \in Roots : SettingsSave(t, r)) => pc[t] = "idle"
    BY DEF SettingsSave
  <2>4. pc'[t] \notin Building
    BY <1>8, <2>2, <2>3, BuildMoves DEF Building
  <2>5. /\ disk[d].config # NoConfig => disk'[d].config # NoConfig
        /\ disk[d].seeded => disk'[d].seeded
        /\ disk[d].persisted => disk'[d].persisted
        /\ disk'[d].exists => disk[d].exists
    BY <1>8, <2>2, <2>3, DiskMoves DEF Building
  <2> QED
    BY <2>1, <2>4, <2>5 DEF MadeSoFar, WholeAt, Building
<1>9. CASE Panic(t)
  BY <1>9 DEF Panic, May, NothingCutsShort
<1> QED
  BY <1>6, <1>7, <1>8, <1>9

LEMMA MakeStep ==
    ASSUME NothingCutsShort, TypeInv, CallsFit, MadeInOrder, CreateAllOrNothing, [Next]_vars
    PROVE  MadeInOrder' /\ CreateAllOrNothing'
<1>1. ASSUME NEW u \in Threads,
             OpenStep(u) \/ CreateStep(u) \/ CloseStep(u) \/ SwitchStep(u) \/ Panic(u)
      PROVE  MadeInOrder' /\ CreateAllOrNothing'
  <2>1. PICK d \in Dirs : d = req[u].dir
    BY RequestTypes DEF TypeInv
  <2>2. /\ MadeSoFar(u)' /\ WholeAt(d)'
        /\ \A e \in Dirs \ {d} : dirGates'[e] = dirGates[e]
        /\ dirGates'[d] # dirGates[d] => dirGates[d] \in {u, NoThread}
    BY <1>1, <2>1, MakeMoves DEF MadeInOrder, CreateAllOrNothing, WholeAt
  <2>3. \A e \in Dirs \ {d} : disk'[e] = disk[e]
    BY <1>1, <2>1, DiskMoves
  <2>4. CreateAllOrNothing'
    BY <2>2, <2>3 DEF CreateAllOrNothing, WholeAt
  <2>5. ASSUME NEW t \in Threads, t # u
        PROVE  MadeSoFar(t)'
    <3>1. pc'[t] = pc[t] /\ req'[t] = req[t] /\ req[t].dir \in Dirs
      BY <1>1, <2>5, OthersStay, RequestTypes DEF TypeInv
    <3>2. CASE pc[t] \in Building
      <4>1. dirGates[req[t].dir] = t /\ t # NoThread
        BY <3>2, SessionAssumption DEF MadeInOrder, MadeSoFar
      <4>2. dirGates'[req[t].dir] = t
        BY <2>2, <2>5, <3>1, <4>1
      <4>3. pc[u] = "create_cleanup" => d # req[t].dir
        BY <2>1, <2>5, <4>1 DEF MadeInOrder, MadeSoFar, Building
      <4>4. /\ disk[req[t].dir].config # NoConfig => disk'[req[t].dir].config # NoConfig
            /\ disk[req[t].dir].seeded => disk'[req[t].dir].seeded
        BY <1>1, <2>3, <3>1, <4>3, DiskMoves
      <4> QED
        BY <3>1, <4>2, <4>4 DEF MadeInOrder, MadeSoFar
    <3>3. CASE pc[t] \notin Building
      BY <3>1, <3>3 DEF MadeSoFar, Building
    <3> QED
      BY <3>2, <3>3
  <2> QED
    BY <2>2, <2>4, <2>5 DEF MadeInOrder
<1>2. CASE Restart
  BY <1>2 DEF Restart, May, NothingCutsShort
<1>3. CASE UNCHANGED vars
  BY <1>3 DEF vars, locks, stores, MadeInOrder, MadeSoFar, CreateAllOrNothing
<1> QED
  BY <1>1, <1>2, <1>3, NextSplit

\* As long as no exit, panic or failing cleanup cuts a create short, a folder whose
\* directory gate is free is a whole vault, however many threads create at once and
\* whichever write fails (vault/create.rs:33 and :58, with_vault_dir_lock and the
\* remove_dir_all on any error).
THEOREM CreatesAreWhole ==
    ASSUME NothingCutsShort
    PROVE  Spec => []CreateAllOrNothing
<1>1. Init => CallsFit /\ MadeInOrder /\ CreateAllOrNothing
  <2> SUFFICES ASSUME Init
               PROVE  MadeInOrder /\ CreateAllOrNothing
    BY InitCalls
  <2>1. NoConfig \notin ConfigSpace
    BY DEF NoConfig, ConfigSpace, SecurityModes
  <2>2. \A d \in Dirs : disk[d].exists =>
          disk[d].config # NoConfig /\ disk[d].seeded /\ disk[d].persisted
    BY <2>1, SessionAssumption DEF Init, NoVault, Whole
  <2> QED
    BY <2>2 DEF Init, MadeInOrder, MadeSoFar, Building, CreateAllOrNothing
<1>2. /\ TypeInv /\ Custody
      /\ CallsFit /\ MadeInOrder /\ CreateAllOrNothing
      /\ [Next]_vars
      => CallsFit' /\ MadeInOrder' /\ CreateAllOrNothing'
  BY NothingCutsShort, CallsStep, MakeStep
<1> QED
  BY <1>1, <1>2, CustodyCorrect, PTL DEF Spec
=============================================================================
