------------------------- MODULE VaultSessionProofs -------------------------
(***************************************************************************)
(* Theorems about VaultSession, for every set of roots, ids, threads,      *)
(* configs and faults.                                                     *)
(***************************************************************************)
EXTENDS VaultSession, TLAPS

-----------------------------------------------------------------------------
(***************************************************************************)
(* The next-state relation, handler by handler.                            *)
(***************************************************************************)

OpenStep(t) ==
    \/ \E i \in Ids, yes \in BOOLEAN : OpenCall(t, i, yes)
    \/ OpenEnter(t) \/ OpenCheck(t) \/ OpenLoad(t) \/ OpenKdf(t) \/ OpenInsert(t)

CreateStep(t) ==
    \/ \E i \in Ids, c \in Configs : CreateCall(t, i, c)
    \/ CreateDir(t) \/ CreateConfig(t) \/ CreateEnter(t) \/ CreateSeed(t)
    \/ CreatePersist(t) \/ CreateCleanup(t)

CloseStep(t) ==
    \/ \E i \in Ids, yes \in BOOLEAN : CloseCall(t, i, yes)
    \/ CloseMark(t) \/ CloseTake(t) \/ CloseFlush(t) \/ CloseRestore(t) \/ CloseUnmark(t)

\* vault_config_save and the two ways the root moves.
SwitchStep(t) ==
    \/ \E i \in Ids, c \in Configs : SaveCall(t, i, c)
    \/ \E r \in Roots : SetupCall(t, r) \/ SettingsSave(t, r)
    \/ ProbeSessions(t) \/ ProbeClosing(t) \/ ProbeGate(t) \/ SaveWrite(t) \/ SetupWrite(t)

\* Every step is a step of one handler, a panic, a restart or no step at all.
LEMMA NextSplit ==
    ASSUME [Next]_vars
    PROVE  \/ \E t \in Threads : \/ OpenStep(t) \/ CreateStep(t) \/ CloseStep(t)
                                 \/ SwitchStep(t) \/ Panic(t)
           \/ Restart
           \/ UNCHANGED vars
  BY DEF Next, Call, Step, Rest, OpenStep, CreateStep, CloseStep, SwitchStep

-----------------------------------------------------------------------------
(***************************************************************************)
(* Types.                                                                  *)
(***************************************************************************)

\* The request of an idle thread is a request.
LEMMA NoRequestType == NoRequest \in Request
<1>1. Dirs # {}
  <2>1. PICK r \in Roots, i \in Ids : TRUE
    BY SessionAssumption
  <2>2. <<r, i>> \in Dirs
    BY DEF Dirs
  <2> QED
    BY <2>2
<1>2. (CHOOSE d \in Dirs : TRUE) \in Dirs
  BY <1>1
<1>3. (CHOOSE r \in Roots : TRUE) \in Roots
  BY SessionAssumption
<1> QED
  BY <1>2, <1>3 DEF NoRequest, Request

\* The empty values are values.
LEMMA EmptyTypes ==
    /\ NoSession \in Session
    /\ NoVault \in VaultOnDisk
    /\ \A c \in Configs : Whole(c) \in VaultOnDisk
<1>1. NoSession \in Session
  BY DEF NoSession, Session, SecurityModes
<1>2. NoVault \in VaultOnDisk
  BY DEF NoVault, VaultOnDisk
<1>3. \A c \in Configs : Whole(c) \in VaultOnDisk
  BY SessionAssumption DEF Whole, VaultOnDisk
<1> QED
  BY <1>1, <1>2, <1>3

\* The four ways a handler moves leave pc, req and seen well typed.
LEMMA MoveTypes ==
    ASSUME TypeOK, NEW t \in Threads, NEW label \in Labels, NEW r \in Request
    PROVE  /\ Goto(t, label) => pc' \in [Threads -> Labels]
           /\ Begin(t, label, r) => /\ pc' \in [Threads -> Labels]
                                    /\ req' \in [Threads -> Request]
                                    /\ calls' \in Nat
           /\ Reply(t) => /\ pc' \in [Threads -> Labels]
                          /\ req' \in [Threads -> Request]
                          /\ seen' \in [Threads -> ConfigSpace \cup {NoConfig}]
           /\ Continue(t, label) => /\ pc' \in [Threads -> Labels]
                                    /\ req' \in [Threads -> Request]
                                    /\ seen' \in [Threads -> ConfigSpace \cup {NoConfig}]
<1>1. Goto(t, label) => pc' \in [Threads -> Labels]
  BY DEF TypeOK, Goto
<1>2. Goto(t, "idle") => pc' \in [Threads -> Labels]
  BY DEF TypeOK, Goto, Labels
<1>3. Begin(t, label, r) => /\ req' \in [Threads -> Request]
                            /\ calls' \in Nat
  BY DEF TypeOK, Begin
<1>4. Reply(t) => /\ req' \in [Threads -> Request]
                  /\ seen' \in [Threads -> ConfigSpace \cup {NoConfig}]
  BY NoRequestType DEF TypeOK, Reply
<1> QED
  BY <1>1, <1>2, <1>3, <1>4 DEF TypeOK, Begin, Reply, Continue

\* A handler past load_vault_config has a real config, whose mode it will use.
Loaded ==
    \A t \in Threads : pc[t] \in {"open_kdf", "open_insert"} => seen[t] \in ConfigSpace

\* The inductive type invariant.
TypeInv == TypeOK /\ Loaded

\* What a typed state says about the request of a thread.
LEMMA RequestTypes ==
    ASSUME TypeOK, NEW t \in Threads
    PROVE  /\ req[t] \in Request
           /\ req[t].dir \in Dirs
           /\ req[t].pass \in BOOLEAN
           /\ req[t].config \in ConfigSpace \cup {NoConfig}
           /\ req[t].goal \in Roots
           /\ disk[req[t].dir] \in VaultOnDisk
           /\ sessions[req[t].dir] \in Session
  BY DEF TypeOK, Request

\* A vault of a root is a directory.
LEMMA DirTypes ==
    ASSUME TypeOK, NEW i \in Ids
    PROVE  <<root, i>> \in Dirs
  BY DEF TypeOK, Dirs

\* Opening a vault keeps the types.
LEMMA OpenTypes ==
    ASSUME TypeInv, NEW t \in Threads, OpenStep(t)
    PROVE  TypeOK'
<1> USE DEF TypeInv
<1>1. ASSUME NEW i \in Ids, NEW yes \in BOOLEAN, OpenCall(t, i, yes)
      PROVE  TypeOK'
  <2> DEFINE r == [NoRequest EXCEPT !.kind = "open", !.dir = <<root, i>>,
                                    !.pass = yes, !.since = born]
  <2>1. r \in Request
    BY NoRequestType, DirTypes DEF TypeOK, Request
  <2>2. Begin(t, "open_gate", r)
    BY <1>1 DEF OpenCall
  <2>3. "open_gate" \in Labels
    BY DEF Labels
  <2> HIDE DEF r
  <2>4. /\ pc' \in [Threads -> Labels]
        /\ req' \in [Threads -> Request]
        /\ calls' \in Nat
    BY <2>1, <2>2, <2>3, MoveTypes
  <2> QED
    BY <1>1, <2>4 DEF OpenCall, TypeOK, ram, locks, stores
<1>2. CASE OpenEnter(t)
  BY <1>2, MoveTypes DEF OpenEnter, TypeOK, Labels, ram, stores, bounds
<1>3. CASE OpenCheck(t)
  BY <1>3, MoveTypes DEF OpenCheck, TypeOK, Labels, ram, stores, bounds
<1>4. CASE OpenLoad(t)
  <2>1. disk[req[t].dir].config \in ConfigSpace \cup {NoConfig}
    BY RequestTypes DEF VaultOnDisk
  <2>2. pc' \in [Threads -> Labels] /\ req' \in [Threads -> Request]
    BY <1>4, MoveTypes DEF OpenLoad, TypeOK, Labels
  <2>3. seen' \in [Threads -> ConfigSpace \cup {NoConfig}]
    BY <1>4, <2>1, MoveTypes DEF OpenLoad, TypeOK, Labels
  <2> QED
    BY <1>4, <2>2, <2>3 DEF OpenLoad, TypeOK, ram, stores, bounds
<1>5. CASE OpenKdf(t)
  BY <1>5, MoveTypes DEF OpenKdf, TypeOK, Labels, ram, stores, bounds
<1>6. CASE OpenInsert(t)
  <2>1. seen[t].mode \in SecurityModes
    BY <1>6 DEF OpenInsert, Loaded, ConfigSpace
  <2>2. [gen |-> born + 1, mode |-> seen[t].mode] \in Session /\ born + 1 \in Nat
    BY <2>1 DEF Session, TypeOK
  <2>3. sessions' \in [Dirs -> Session] /\ born' \in Nat
    BY <1>6, <2>2 DEF OpenInsert, TypeOK
  <2> QED
    BY <1>6, <2>3, MoveTypes DEF OpenInsert, TypeOK, Labels, stores, bounds
<1> QED
  BY <1>1, <1>2, <1>3, <1>4, <1>5, <1>6 DEF OpenStep

\* Creating a vault keeps the types.
LEMMA CreateTypes ==
    ASSUME TypeOK, NEW t \in Threads, CreateStep(t)
    PROVE  TypeOK'
<1>1. ASSUME NEW i \in Ids, NEW c \in Configs, CreateCall(t, i, c)
      PROVE  TypeOK'
  <2> DEFINE r == [NoRequest EXCEPT !.kind = "create", !.dir = <<root, i>>,
                                    !.config = c, !.since = born]
  <2>1. r \in Request
    BY NoRequestType, DirTypes, SessionAssumption DEF TypeOK, Request
  <2>2. Begin(t, "create_dir", r)
    BY <1>1 DEF CreateCall
  <2>3. "create_dir" \in Labels
    BY DEF Labels
  <2> HIDE DEF r
  <2>4. /\ pc' \in [Threads -> Labels]
        /\ req' \in [Threads -> Request]
        /\ calls' \in Nat
    BY <2>1, <2>2, <2>3, MoveTypes
  <2> QED
    BY <1>1, <2>4 DEF CreateCall, TypeOK, ram, locks, stores
<1>2. CASE CreateDir(t)
  <2>1. [disk EXCEPT ![req[t].dir].exists = TRUE] \in [Dirs -> VaultOnDisk]
    BY RequestTypes DEF TypeOK, VaultOnDisk
  <2>2. disk' \in [Dirs -> VaultOnDisk]
    BY <1>2, <2>1 DEF CreateDir, TypeOK
  <2> QED
    BY <1>2, <2>2, MoveTypes DEF CreateDir, TypeOK, Labels, ram, bounds
<1>3. CASE CreateConfig(t)
  <2>1. [disk EXCEPT ![req[t].dir].config = req[t].config] \in [Dirs -> VaultOnDisk]
    BY RequestTypes DEF TypeOK, VaultOnDisk
  <2>2. disk' \in [Dirs -> VaultOnDisk]
    BY <1>3, <2>1 DEF CreateConfig, TypeOK
  <2> QED
    BY <1>3, <2>2, MoveTypes DEF CreateConfig, TypeOK, Labels, ram, locks, bounds
<1>4. CASE CreateEnter(t)
  BY <1>4, MoveTypes DEF CreateEnter, TypeOK, Labels, ram, stores, bounds
<1>5. CASE CreateSeed(t)
  <2>1. [disk EXCEPT ![req[t].dir].seeded = TRUE] \in [Dirs -> VaultOnDisk]
    BY RequestTypes DEF TypeOK, VaultOnDisk
  <2>2. disk' \in [Dirs -> VaultOnDisk]
    BY <1>5, <2>1 DEF CreateSeed, TypeOK
  <2> QED
    BY <1>5, <2>2, MoveTypes DEF CreateSeed, TypeOK, Labels, ram, bounds
<1>6. CASE CreatePersist(t)
  <2>1. [disk EXCEPT ![req[t].dir].persisted = TRUE] \in [Dirs -> VaultOnDisk]
    BY RequestTypes DEF TypeOK, VaultOnDisk
  <2>2. disk' \in [Dirs -> VaultOnDisk]
    BY <1>6, <2>1 DEF CreatePersist, TypeOK
  <2> QED
    BY <1>6, <2>2, MoveTypes DEF CreatePersist, TypeOK, Labels, ram, bounds
<1>7. CASE CreateCleanup(t)
  <2>1. disk' \in [Dirs -> VaultOnDisk]
    BY <1>7, EmptyTypes DEF CreateCleanup, TypeOK
  <2> QED
    BY <1>7, <2>1, MoveTypes DEF CreateCleanup, TypeOK, Labels, ram, bounds
<1> QED
  BY <1>1, <1>2, <1>3, <1>4, <1>5, <1>6, <1>7 DEF CreateStep

\* Closing a vault keeps the types.
LEMMA CloseTypes ==
    ASSUME TypeOK, NEW t \in Threads, CloseStep(t)
    PROVE  TypeOK'
<1>1. ASSUME NEW i \in Ids, NEW yes \in BOOLEAN, CloseCall(t, i, yes)
      PROVE  TypeOK'
  <2> DEFINE r == [NoRequest EXCEPT !.kind = "close", !.dir = <<root, i>>,
                                    !.pass = yes, !.since = born]
  <2>1. r \in Request
    BY NoRequestType, DirTypes DEF TypeOK, Request
  <2>2. Begin(t, "close_mark", r)
    BY <1>1 DEF CloseCall
  <2>3. "close_mark" \in Labels
    BY DEF Labels
  <2> HIDE DEF r
  <2>4. /\ pc' \in [Threads -> Labels]
        /\ req' \in [Threads -> Request]
        /\ calls' \in Nat
    BY <2>1, <2>2, <2>3, MoveTypes
  <2> QED
    BY <1>1, <2>4 DEF CloseCall, TypeOK, ram, locks, stores
<1>2. CASE CloseMark(t)
  BY <1>2, MoveTypes, RequestTypes DEF CloseMark, TypeOK, Labels, locks, stores, bounds
<1>3. CASE CloseTake(t)
  <2>1. sessions' \in [Dirs -> Session] /\ hand' \in [Threads -> Session]
    BY <1>3, RequestTypes, EmptyTypes DEF CloseTake, TypeOK
  <2> QED
    BY <1>3, <2>1, MoveTypes DEF CloseTake, TypeOK, Labels, locks, stores, bounds
<1>4. CASE CloseFlush(t)
  <2>1. [disk EXCEPT ![req[t].dir].persisted = TRUE] \in [Dirs -> VaultOnDisk]
    BY RequestTypes DEF TypeOK, VaultOnDisk
  <2>2. disk' \in [Dirs -> VaultOnDisk]
    BY <1>4, <2>1 DEF CloseFlush, TypeOK
  <2>3. hand[t].gen \in Nat
    BY DEF TypeOK, Session
  <2>4. sealed' \in SUBSET Nat /\ hand' \in [Threads -> Session]
    BY <1>4, <2>3, EmptyTypes DEF CloseFlush, TypeOK
  <2> QED
    BY <1>4, <2>2, <2>4, MoveTypes DEF CloseFlush, TypeOK, Labels, ram, locks, bounds
<1>5. CASE CloseRestore(t)
  <2>1. sessions' \in [Dirs -> Session] /\ hand' \in [Threads -> Session]
    BY <1>5, RequestTypes, EmptyTypes DEF CloseRestore, TypeOK
  <2> QED
    BY <1>5, <2>1, MoveTypes DEF CloseRestore, TypeOK, Labels, locks, stores, bounds
<1>6. CASE CloseUnmark(t)
  BY <1>6, MoveTypes DEF CloseUnmark, TypeOK, Labels, locks, stores, bounds
<1> QED
  BY <1>1, <1>2, <1>3, <1>4, <1>5, <1>6 DEF CloseStep

\* Saving a config and moving the root keep the types.
LEMMA SwitchTypes ==
    ASSUME TypeOK, NEW t \in Threads, SwitchStep(t)
    PROVE  TypeOK'
<1>0. "probe_sessions" \in Labels
  BY DEF Labels
<1>1. ASSUME NEW i \in Ids, NEW c \in Configs, SaveCall(t, i, c)
      PROVE  TypeOK'
  <2> DEFINE r == [NoRequest EXCEPT !.kind = "save", !.dir = <<root, i>>,
                                    !.config = c, !.since = born]
  <2>1. r \in Request
    BY NoRequestType, DirTypes, SessionAssumption DEF TypeOK, Request
  <2>2. Begin(t, "probe_sessions", r)
    BY <1>1 DEF SaveCall
  <2> HIDE DEF r
  <2>3. /\ pc' \in [Threads -> Labels]
        /\ req' \in [Threads -> Request]
        /\ calls' \in Nat
    BY <1>0, <2>1, <2>2, MoveTypes
  <2>4. disk[<<root, i>>].config \in ConfigSpace \cup {NoConfig}
    BY DirTypes DEF TypeOK, VaultOnDisk
  <2>5. seen' \in [Threads -> ConfigSpace \cup {NoConfig}]
    BY <1>1, <2>4 DEF SaveCall, TypeOK
  <2> QED
    BY <1>1, <2>3, <2>5 DEF SaveCall, TypeOK, ram, locks, stores
<1>2. ASSUME NEW r \in Roots, SetupCall(t, r)
      PROVE  TypeOK'
  <2> DEFINE q == [NoRequest EXCEPT !.kind = "setup", !.goal = r, !.since = born]
  <2>1. q \in Request
    BY NoRequestType DEF TypeOK, Request
  <2>2. Begin(t, "probe_sessions", q)
    BY <1>2 DEF SetupCall
  <2> HIDE DEF q
  <2>3. /\ pc' \in [Threads -> Labels]
        /\ req' \in [Threads -> Request]
        /\ calls' \in Nat
    BY <1>0, <2>1, <2>2, MoveTypes
  <2> QED
    BY <1>2, <2>3 DEF SetupCall, TypeOK, ram, locks, stores
<1>3. ASSUME NEW r \in Roots, SettingsSave(t, r)
      PROVE  TypeOK'
  BY <1>3 DEF SettingsSave, TypeOK, ram, locks
<1>4. CASE ProbeSessions(t)
  BY <1>4, MoveTypes DEF ProbeSessions, Busy, TypeOK, Labels, ram, locks, stores, bounds
<1>5. CASE ProbeClosing(t)
  BY <1>5, MoveTypes DEF ProbeClosing, Busy, TypeOK, Labels, ram, locks, stores, bounds
<1>6. CASE ProbeGate(t)
  BY <1>6, MoveTypes DEF ProbeGate, Busy, TypeOK, Labels, ram, locks, stores, bounds
<1>7. CASE SaveWrite(t)
  <2>1. [disk EXCEPT ![req[t].dir].config = req[t].config] \in [Dirs -> VaultOnDisk]
    BY RequestTypes DEF TypeOK, VaultOnDisk
  <2>2. disk' \in [Dirs -> VaultOnDisk]
    BY <1>7, <2>1 DEF SaveWrite, TypeOK
  <2> QED
    BY <1>7, <2>2, MoveTypes DEF SaveWrite, TypeOK, Labels, ram, locks, bounds
<1>8. CASE SetupWrite(t)
  BY <1>8, MoveTypes, RequestTypes DEF SetupWrite, TypeOK, Labels, ram, locks, bounds
<1> QED
  BY <1>1, <1>2, <1>3, <1>4, <1>5, <1>6, <1>7, <1>8 DEF SwitchStep

\* A step moves the handler of the thread that takes it and no other.
LEMMA OthersStay ==
    ASSUME TypeOK, NEW t \in Threads,
           OpenStep(t) \/ CreateStep(t) \/ CloseStep(t) \/ SwitchStep(t) \/ Panic(t),
           NEW u \in Threads, u # t
    PROVE  /\ pc'[u] = pc[u]
           /\ req'[u] = req[u]
           /\ seen'[u] = seen[u]
           /\ hand'[u] = hand[u]
<1> DEFINE Others == /\ pc'[u] = pc[u]
                     /\ req'[u] = req[u]
                     /\ seen'[u] = seen[u]
                     /\ hand'[u] = hand[u]
<1>a. /\ \A label : Goto(t, label) => pc'[u] = pc[u]
      /\ \A label, r : Begin(t, label, r) => pc'[u] = pc[u] /\ req'[u] = req[u]
      /\ \A label : Continue(t, label) => pc'[u] = pc[u] /\ req'[u] = req[u] /\ seen'[u] = seen[u]
      /\ Reply(t) => pc'[u] = pc[u] /\ req'[u] = req[u] /\ seen'[u] = seen[u]
  BY DEF TypeOK, Goto, Begin, Continue, Reply
<1>b. \A c, s : /\ seen' = [seen EXCEPT ![t] = c] => seen'[u] = seen[u]
               /\ hand' = [hand EXCEPT ![t] = s] => hand'[u] = hand[u]
  BY DEF TypeOK
<1>1. CASE OpenStep(t)
  <2>1. (\E i \in Ids, yes \in BOOLEAN : OpenCall(t, i, yes)) => Others
    BY <1>a DEF OpenCall
  <2>2. OpenEnter(t) \/ OpenCheck(t) => Others
    BY <1>a DEF OpenEnter, OpenCheck
  <2>3. OpenLoad(t) => Others
    BY <1>a DEF OpenLoad, TypeOK
  <2>4. OpenKdf(t) \/ OpenInsert(t) => Others
    BY <1>a DEF OpenKdf, OpenInsert
  <2> QED
    BY <1>1, <2>1, <2>2, <2>3, <2>4 DEF OpenStep
<1>2. CASE CreateStep(t)
  <2>1. (\E i \in Ids, c \in Configs : CreateCall(t, i, c)) => Others
    BY <1>a DEF CreateCall
  <2>2. CreateDir(t) \/ CreateConfig(t) \/ CreateEnter(t) => Others
    BY <1>a DEF CreateDir, CreateConfig, CreateEnter
  <2>3. CreateSeed(t) \/ CreatePersist(t) \/ CreateCleanup(t) => Others
    BY <1>a DEF CreateSeed, CreatePersist, CreateCleanup
  <2> QED
    BY <1>2, <2>1, <2>2, <2>3 DEF CreateStep
<1>3. CASE CloseStep(t)
  <2>1. (\E i \in Ids, yes \in BOOLEAN : CloseCall(t, i, yes)) => Others
    BY <1>a DEF CloseCall
  <2>2. CloseMark(t) \/ CloseUnmark(t) => Others
    BY <1>a DEF CloseMark, CloseUnmark
  <2>3. CloseTake(t) \/ CloseFlush(t) \/ CloseRestore(t) => Others
    BY <1>a, <1>b DEF CloseTake, CloseFlush, CloseRestore
  <2> QED
    BY <1>3, <2>1, <2>2, <2>3 DEF CloseStep
<1>4. CASE SwitchStep(t)
  <2>1. (\E i \in Ids, c \in Configs : SaveCall(t, i, c)) => Others
    BY <1>a, <1>b DEF SaveCall
  <2>2. (\E r \in Roots : SetupCall(t, r) \/ SettingsSave(t, r)) => Others
    BY <1>a DEF SetupCall, SettingsSave
  <2>3. Busy(t) => pc'[u] = pc[u] /\ req'[u] = req[u] /\ seen'[u] = seen[u]
    BY <1>a DEF Busy
  <2>4. ProbeSessions(t) \/ ProbeClosing(t) \/ ProbeGate(t) => Others
    BY <1>a, <2>3 DEF ProbeSessions, ProbeClosing, ProbeGate
  <2>5. SaveWrite(t) \/ SetupWrite(t) => Others
    BY <1>a DEF SaveWrite, SetupWrite
  <2> QED
    BY <1>4, <2>1, <2>2, <2>4, <2>5 DEF SwitchStep
<1>5. CASE Panic(t)
  BY <1>5, <1>a DEF Panic
<1> QED
  BY <1>1, <1>2, <1>3, <1>4, <1>5

\* The initial states and the effects of a panic and a restart are well typed.
LEMMA InitTypes ==
    ASSUME Init
    PROVE  TypeInv
<1>1. disk \in [Dirs -> VaultOnDisk]
  BY EmptyTypes DEF Init
<1>2. Loaded
  BY DEF Init, Loaded
<1>3. "idle" \in Labels
  BY DEF Labels
<1> QED
  BY <1>1, <1>2, <1>3, NoRequestType, EmptyTypes DEF Init, TypeInv, TypeOK

LEMMA FailureTypes ==
    ASSUME TypeOK
    PROVE  /\ \A t \in Threads : Panic(t) => TypeOK'
           /\ Restart => TypeOK'
<1>1. ASSUME NEW t \in Threads, Panic(t)
      PROVE  TypeOK'
  BY <1>1, MoveTypes DEF Panic, TypeOK, Labels, ram, stores, bounds
<1>2. ASSUME Restart
      PROVE  TypeOK'
  <2>1. "idle" \in Labels
    BY DEF Labels
  <2>2. /\ sessions' \in [Dirs -> Session]
        /\ hand' \in [Threads -> Session]
        /\ closing' \in SUBSET Dirs
        /\ badDirs' \in SUBSET Dirs
    BY <1>2, EmptyTypes DEF Restart
  <2>3. /\ pc' \in [Threads -> Labels]
        /\ req' \in [Threads -> Request]
        /\ seen' \in [Threads -> ConfigSpace \cup {NoConfig}]
        /\ dirGates' \in [Dirs -> Threads \cup {NoThread}]
    BY <1>2, <2>1, NoRequestType DEF Restart
  <2>4. boots' \in Nat
    BY <1>2, SessionAssumption DEF Restart, TypeOK
  <2> QED
    BY <1>2, <2>2, <2>3, <2>4 DEF Restart, TypeOK, stores
<1> QED
  BY <1>1, <1>2

\* Only OpenLoad leads past load_vault_config, and it has checked the config.
LEMMA LoadedStep ==
    ASSUME TypeInv, [Next]_vars
    PROVE  Loaded'
<1> USE DEF TypeInv, TypeOK, Loaded, Goto, Begin, Reply, Continue
<1>1. ASSUME NEW t \in Threads,
             OpenStep(t) \/ CreateStep(t) \/ CloseStep(t) \/ SwitchStep(t) \/ Panic(t)
      PROVE  Loaded'
  <2>1. pc'[t] \in {"open_kdf", "open_insert"} => seen'[t] \in ConfigSpace
    <3>1. CASE OpenStep(t)
      <4>1. CASE OpenLoad(t)
        <5>1. disk[req[t].dir].config \in ConfigSpace \cup {NoConfig}
          BY RequestTypes DEF VaultOnDisk
        <5> QED
          BY <4>1, <5>1 DEF OpenLoad
      <4> QED
        BY <3>1, <4>1 DEF OpenStep, OpenCall, OpenEnter, OpenCheck, OpenKdf, OpenInsert
    <3>2. CASE CreateStep(t)
      BY <3>2 DEF CreateStep, CreateCall, CreateDir, CreateConfig, CreateEnter, CreateSeed,
                  CreatePersist, CreateCleanup
    <3>3. CASE CloseStep(t)
      BY <3>3 DEF CloseStep, CloseCall, CloseMark, CloseTake, CloseFlush, CloseRestore,
                  CloseUnmark
    <3>4. CASE SwitchStep(t)
      BY <3>4 DEF SwitchStep, SaveCall, SetupCall, SettingsSave, ProbeSessions,
                  ProbeClosing, ProbeGate, Busy, SaveWrite, SetupWrite
    <3>5. CASE Panic(t)
      BY <3>5 DEF Panic
    <3> QED
      BY <1>1, <3>1, <3>2, <3>3, <3>4, <3>5
  <2> QED
    BY <1>1, <2>1, OthersStay
<1>2. CASE Restart
  BY <1>2 DEF Restart
<1>3. CASE UNCHANGED vars
  BY <1>3 DEF vars
<1> QED
  BY <1>1, <1>2, <1>3, NextSplit

\* The type invariant is inductive.
LEMMA TypeStep ==
    ASSUME TypeInv, [Next]_vars
    PROVE  TypeInv'
<1>1. CASE UNCHANGED vars
  BY <1>1, LoadedStep DEF TypeInv, TypeOK, vars, ram, locks, stores, bounds
<1>2. CASE ~UNCHANGED vars
  BY <1>2, NextSplit, LoadedStep, OpenTypes, CreateTypes, CloseTypes, SwitchTypes,
     FailureTypes DEF TypeInv
<1> QED
  BY <1>1, <1>2

\* The inductive type invariant holds in every reachable state.
THEOREM TypeInvariant == Spec => []TypeInv
<1>1. Init => TypeInv
  BY InitTypes
<1>2. TypeInv /\ [Next]_vars => TypeInv'
  BY TypeStep
<1> QED
  BY <1>1, <1>2, PTL DEF Spec

\* Every variable keeps its type: in particular a session always carries a mode that
\* close_vault knows (session/mod.rs:38, OpenSession::from_opened).
THEOREM TypeCorrect == Spec => []TypeOK
<1>1. TypeInv => TypeOK
  BY DEF TypeInv
<1> QED
  BY <1>1, TypeInvariant, PTL

-----------------------------------------------------------------------------
(***************************************************************************)
(* The unlock gate.  OneArgon2 speaks of two labels; it is inductive only  *)
(* with all the labels between lock and unlock, and with the owner named.  *)
(***************************************************************************)

\* The labels of a handler inside with_unlock_lock.
Gated == {"open_check", "open_load", "open_kdf", "open_insert", "create_kdf"}

GateOwner == \A t \in Threads : pc[t] \in Gated <=> gate = t

\* A poisoned gate is nobody's: the panic dropped it and nobody gets it again.
PoisonedIsFree == poisoned => gate = NoThread

GateInv == TypeInv /\ GateOwner /\ PoisonedIsFree

\* What a step of one thread does to the gate, seen from that thread.
LEMMA GateMoves ==
    ASSUME GateInv, NEW t \in Threads,
           OpenStep(t) \/ CreateStep(t) \/ CloseStep(t) \/ SwitchStep(t) \/ Panic(t)
    PROVE  /\ pc'[t] \in Gated <=> gate' = t
           /\ gate' # gate => gate \in {t, NoThread} /\ gate' \in {t, NoThread}
           /\ PoisonedIsFree'
<1>1. /\ t # NoThread
      /\ pc[t] \in Gated <=> gate = t
      /\ poisoned => gate = NoThread
  BY SessionAssumption DEF GateInv, GateOwner, PoisonedIsFree
<1>2. \A label : Goto(t, label) => pc'[t] = label
  BY DEF GateInv, TypeInv, TypeOK, Goto
<1> USE <1>1, <1>2 DEF Begin, Reply, Continue, Gated, PoisonedIsFree
<1>3. CASE OpenStep(t)
  <2>1. CASE \E i \in Ids, yes \in BOOLEAN : OpenCall(t, i, yes)
    BY <2>1 DEF OpenCall, locks
  <2>2. CASE OpenEnter(t)
    BY <2>2 DEF OpenEnter, locks
  <2>3. CASE OpenCheck(t)
    BY <2>3 DEF OpenCheck, locks
  <2>4. CASE OpenLoad(t)
    BY <2>4 DEF OpenLoad, locks
  <2>5. CASE OpenKdf(t)
    BY <2>5 DEF OpenKdf, locks
  <2>6. CASE OpenInsert(t)
    BY <2>6 DEF OpenInsert, locks
  <2> QED
    BY <1>3, <2>1, <2>2, <2>3, <2>4, <2>5, <2>6 DEF OpenStep
<1>4. CASE CreateStep(t)
  <2>1. CASE \E i \in Ids, c \in Configs : CreateCall(t, i, c)
    BY <2>1 DEF CreateCall, locks
  <2>2. CASE CreateDir(t)
    BY <2>2 DEF CreateDir, locks
  <2>3. CASE CreateConfig(t)
    BY <2>3 DEF CreateConfig, locks
  <2>4. CASE CreateEnter(t)
    BY <2>4 DEF CreateEnter, locks
  <2>5. CASE CreateSeed(t)
    BY <2>5 DEF CreateSeed, locks
  <2>6. CASE CreatePersist(t)
    BY <2>6 DEF CreatePersist, locks
  <2>7. CASE CreateCleanup(t)
    BY <2>7 DEF CreateCleanup, locks
  <2> QED
    BY <1>4, <2>1, <2>2, <2>3, <2>4, <2>5, <2>6, <2>7 DEF CreateStep
<1>5. CASE CloseStep(t)
  <2>1. CASE \E i \in Ids, yes \in BOOLEAN : CloseCall(t, i, yes)
    BY <2>1 DEF CloseCall, locks
  <2>2. CASE CloseMark(t)
    BY <2>2 DEF CloseMark, locks
  <2>3. CASE CloseTake(t)
    BY <2>3 DEF CloseTake, locks
  <2>4. CASE CloseFlush(t)
    BY <2>4 DEF CloseFlush, locks
  <2>5. CASE CloseRestore(t)
    BY <2>5 DEF CloseRestore, locks
  <2>6. CASE CloseUnmark(t)
    BY <2>6 DEF CloseUnmark, locks
  <2> QED
    BY <1>5, <2>1, <2>2, <2>3, <2>4, <2>5, <2>6 DEF CloseStep
<1>6. CASE SwitchStep(t)
  <2>1. CASE \E i \in Ids, c \in Configs : SaveCall(t, i, c)
    BY <2>1 DEF SaveCall, locks
  <2>2. CASE \E r \in Roots : SetupCall(t, r)
    BY <2>2 DEF SetupCall, locks
  <2>3. CASE \E r \in Roots : SettingsSave(t, r)
    BY <2>3 DEF SettingsSave, locks
  <2>4. CASE ProbeSessions(t)
    BY <2>4 DEF ProbeSessions, Busy, locks
  <2>5. CASE ProbeClosing(t)
    BY <2>5 DEF ProbeClosing, Busy, locks
  <2>6. CASE ProbeGate(t)
    BY <2>6 DEF ProbeGate, Busy, locks
  <2>7. CASE SaveWrite(t)
    BY <2>7 DEF SaveWrite, locks
  <2>8. CASE SetupWrite(t)
    BY <2>8 DEF SetupWrite, locks
  <2> QED
    BY <1>6, <2>1, <2>2, <2>3, <2>4, <2>5, <2>6, <2>7, <2>8 DEF SwitchStep
<1>7. CASE Panic(t)
  BY <1>7 DEF Panic
<1> QED
  BY <1>3, <1>4, <1>5, <1>6, <1>7

\* The gate invariant is inductive.
LEMMA GateStep ==
    ASSUME GateInv, [Next]_vars
    PROVE  GateOwner' /\ PoisonedIsFree'
<1>1. ASSUME NEW t \in Threads,
             OpenStep(t) \/ CreateStep(t) \/ CloseStep(t) \/ SwitchStep(t) \/ Panic(t)
      PROVE  GateOwner' /\ PoisonedIsFree'
  <2>1. \A u \in Threads \ {t} : pc'[u] = pc[u]
    BY <1>1, OthersStay DEF GateInv, TypeInv
  <2>2. \A u \in Threads \ {t} : gate' = u <=> gate = u
    BY <1>1, GateMoves, SessionAssumption
  <2> QED
    BY <1>1, <2>1, <2>2, GateMoves DEF GateInv, GateOwner
<1>2. CASE Restart
  BY <1>2, SessionAssumption DEF Restart, GateOwner, PoisonedIsFree, Gated
<1>3. CASE UNCHANGED vars
  BY <1>3 DEF vars, locks, GateInv, GateOwner, PoisonedIsFree
<1> QED
  BY <1>1, <1>2, <1>3, NextSplit

\* The invariant of types and gate holds in every reachable state.
THEOREM GateCorrect == Spec => []GateInv
<1>1. Init => GateInv
  BY InitTypes, SessionAssumption DEF Init, GateInv, GateOwner, PoisonedIsFree, Gated
<1>2. GateInv /\ [Next]_vars => GateInv'
  BY GateStep, TypeStep DEF GateInv
<1> QED
  BY <1>1, <1>2, PTL DEF Spec

\* Two Argon2 derivations never run at once, however many threads unlock or create
\* vaults (session/mod.rs:75, UNLOCK_GATE).
THEOREM Argon2Exclusion == Spec => []OneArgon2
<1>1. GateInv => OneArgon2
  BY DEF GateInv, GateOwner, Gated, OneArgon2
<1> QED
  BY <1>1, GateCorrect, PTL

\* Once a panic poisoned the gate no unlock succeeds before the process restarts
\* (session/mod.rs:92, with_unlock_lock).
THEOREM PoisonClosesTheGate == Spec => PoisonFailsClosed
<1>1. GateInv /\ [Next]_vars => (poisoned /\ poisoned' => born' = born)
  <2> SUFFICES ASSUME GateInv, [Next]_vars, poisoned, poisoned'
               PROVE  born' = born
    OBVIOUS
  <2>1. \A t \in Threads : pc[t] # "open_insert"
    BY SessionAssumption DEF GateInv, GateOwner, PoisonedIsFree, Gated
  <2>2. ASSUME NEW t \in Threads, OpenStep(t)
        PROVE  born' = born
    BY <2>1, <2>2 DEF OpenStep, OpenCall, OpenEnter, OpenCheck, OpenLoad, OpenKdf,
                      OpenInsert, ram
  <2>3. ASSUME NEW t \in Threads, CreateStep(t)
        PROVE  born' = born
    BY <2>3 DEF CreateStep, CreateCall, CreateDir, CreateConfig, CreateEnter, CreateSeed,
                CreatePersist, CreateCleanup, ram
  <2>4. ASSUME NEW t \in Threads, CloseStep(t)
        PROVE  born' = born
    BY <2>4 DEF CloseStep, CloseCall, CloseMark, CloseTake, CloseFlush, CloseRestore,
                CloseUnmark, ram
  <2>5. ASSUME NEW t \in Threads, SwitchStep(t)
        PROVE  born' = born
    BY <2>5 DEF SwitchStep, SaveCall, SetupCall, SettingsSave, ProbeSessions, ProbeClosing,
                ProbeGate, SaveWrite, SetupWrite, ram
  <2>6. ASSUME NEW t \in Threads, Panic(t)
        PROVE  born' = born
    BY <2>6 DEF Panic, ram
  <2>7. CASE Restart
    BY <2>7 DEF Restart
  <2>8. CASE UNCHANGED vars
    BY <2>8 DEF vars, ram
  <2> QED
    BY <2>2, <2>3, <2>4, <2>5, <2>6, <2>7, <2>8, NextSplit
<1> QED
  BY <1>1, GateCorrect, PTL DEF Spec, PoisonFailsClosed

-----------------------------------------------------------------------------
(***************************************************************************)
(* The closing marks.                                                      *)
(***************************************************************************)

\* The labels of a close between ClosingGuard::enter and its Drop.
Marked == {"close_take", "close_flush", "close_restore", "close_unmark"}

\* What a step of one thread does to the marks.
LEMMA MarkMoves ==
    ASSUME TypeOK, NEW t \in Threads,
           OpenStep(t) \/ CreateStep(t) \/ CloseStep(t) \/ SwitchStep(t) \/ Panic(t)
    PROVE  \/ /\ pc[t] \notin Marked
              /\ pc'[t] \notin Marked
              /\ closing' = closing
           \/ /\ CloseMark(t)
              /\ pc'[t] \in Marked
              /\ req'[t] = req[t]
              /\ closing' = closing \cup {req[t].dir}
           \/ /\ pc[t] \in Marked
              /\ pc'[t] \in Marked
              /\ req'[t] = req[t]
              /\ closing' = closing
           \/ /\ CloseUnmark(t)
              /\ pc[t] \in Marked
              /\ pc'[t] \notin Marked
              /\ closing' = closing \ {req[t].dir}
<1>1. \A label : Goto(t, label) => pc'[t] = label
  BY DEF TypeOK, Goto
<1> USE <1>1 DEF Begin, Reply, Continue, Marked
<1>2. CASE OpenStep(t)
  <2>1. CASE \E i \in Ids, yes \in BOOLEAN : OpenCall(t, i, yes)
    BY <2>1 DEF OpenCall, ram
  <2>2. CASE OpenEnter(t)
    BY <2>2 DEF OpenEnter, ram
  <2>3. CASE OpenCheck(t)
    BY <2>3 DEF OpenCheck, ram
  <2>4. CASE OpenLoad(t)
    BY <2>4 DEF OpenLoad, ram
  <2>5. CASE OpenKdf(t)
    BY <2>5 DEF OpenKdf, ram
  <2>6. CASE OpenInsert(t)
    BY <2>6 DEF OpenInsert, ram
  <2> QED
    BY <1>2, <2>1, <2>2, <2>3, <2>4, <2>5, <2>6 DEF OpenStep
<1>3. CASE CreateStep(t)
  <2>1. CASE \E i \in Ids, c \in Configs : CreateCall(t, i, c)
    BY <2>1 DEF CreateCall, ram
  <2>2. CASE CreateDir(t)
    BY <2>2 DEF CreateDir, ram
  <2>3. CASE CreateConfig(t)
    BY <2>3 DEF CreateConfig, ram
  <2>4. CASE CreateEnter(t)
    BY <2>4 DEF CreateEnter, ram
  <2>5. CASE CreateSeed(t)
    BY <2>5 DEF CreateSeed, ram
  <2>6. CASE CreatePersist(t)
    BY <2>6 DEF CreatePersist, ram
  <2>7. CASE CreateCleanup(t)
    BY <2>7 DEF CreateCleanup, ram
  <2> QED
    BY <1>3, <2>1, <2>2, <2>3, <2>4, <2>5, <2>6, <2>7 DEF CreateStep
<1>4. CASE CloseStep(t)
  <2>1. CASE \E i \in Ids, yes \in BOOLEAN : CloseCall(t, i, yes)
    BY <2>1 DEF CloseCall, ram
  <2>2. CASE CloseMark(t)
    BY <2>2 DEF CloseMark, ram
  <2>3. CASE CloseTake(t)
    BY <2>3 DEF CloseTake, ram
  <2>4. CASE CloseFlush(t)
    BY <2>4 DEF CloseFlush, ram
  <2>5. CASE CloseRestore(t)
    BY <2>5 DEF CloseRestore, ram
  <2>6. CASE CloseUnmark(t)
    BY <2>6 DEF CloseUnmark, ram
  <2> QED
    BY <1>4, <2>1, <2>2, <2>3, <2>4, <2>5, <2>6 DEF CloseStep
<1>5. CASE SwitchStep(t)
  <2>1. CASE \E i \in Ids, c \in Configs : SaveCall(t, i, c)
    BY <2>1 DEF SaveCall, ram
  <2>2. CASE \E r \in Roots : SetupCall(t, r)
    BY <2>2 DEF SetupCall, ram
  <2>3. CASE \E r \in Roots : SettingsSave(t, r)
    BY <2>3 DEF SettingsSave, ram
  <2>4. CASE ProbeSessions(t)
    BY <2>4 DEF ProbeSessions, Busy, ram
  <2>5. CASE ProbeClosing(t)
    BY <2>5 DEF ProbeClosing, Busy, ram
  <2>6. CASE ProbeGate(t)
    BY <2>6 DEF ProbeGate, Busy, ram
  <2>7. CASE SaveWrite(t)
    BY <2>7 DEF SaveWrite, ram
  <2>8. CASE SetupWrite(t)
    BY <2>8 DEF SetupWrite, ram
  <2> QED
    BY <1>5, <2>1, <2>2, <2>3, <2>4, <2>5, <2>6, <2>7, <2>8 DEF SwitchStep
<1>6. CASE Panic(t)
  BY <1>6 DEF Panic, ram
<1> QED
  BY <1>2, <1>3, <1>4, <1>5, <1>6

\* Marks never outlive the closes that set them: no stale mark refuses a later root
\* switch (session/mod.rs:200, Drop of ClosingGuard).
THEOREM MarksAreDropped == Spec => []NoStaleMark
<1>1. Init => NoStaleMark
  BY DEF Init, NoStaleMark
<1>2. TypeInv /\ NoStaleMark /\ [Next]_vars => NoStaleMark'
  <2> SUFFICES ASSUME TypeInv, NoStaleMark, [Next]_vars
               PROVE  NoStaleMark'
    OBVIOUS
  <2> USE DEF TypeInv
  <2>1. ASSUME NEW t \in Threads,
               OpenStep(t) \/ CreateStep(t) \/ CloseStep(t) \/ SwitchStep(t) \/ Panic(t),
               NEW d \in closing'
        PROVE  \E u \in Threads : pc'[u] \in Marked /\ req'[u].dir = d
    <3>1. CASE d \in closing
      <4>1. PICK u \in Threads : pc[u] \in Marked /\ req[u].dir = d
        BY <3>1 DEF NoStaleMark, Marked
      <4>2. CASE u = t
        BY <2>1, <4>1, <4>2, MarkMoves
      <4>3. CASE u # t
        BY <2>1, <4>1, <4>3, OthersStay
      <4> QED
        BY <4>2, <4>3
    <3>2. CASE d \notin closing
      BY <2>1, <3>2, MarkMoves
    <3> QED
      BY <3>1, <3>2
  <2>2. CASE Restart
    BY <2>2 DEF Restart, NoStaleMark
  <2>3. CASE UNCHANGED vars
    BY <2>3 DEF vars, ram, NoStaleMark
  <2> QED
    BY <2>1, <2>2, <2>3, NextSplit DEF NoStaleMark, Marked
<1>3. Spec => []TypeInv
  BY TypeInvariant
<1> QED
  BY <1>1, <1>2, <1>3, PTL DEF Spec

-----------------------------------------------------------------------------
(***************************************************************************)
(* Custody of the sessions: every unlock's keys are in one place, the      *)
(* registry or the hands of one close, until they are sealed or dropped.   *)
(***************************************************************************)

\* A close holds a session exactly between take_session and its flush or restore.
InHand ==
    \A t \in Threads : hand[t].gen # 0 <=> pc[t] \in {"close_flush", "close_restore"}

\* No session is in two places.
OnePlace ==
    /\ \A d, e \in Dirs : IsOpenAt(d) /\ sessions[d].gen = sessions[e].gen => d = e
    /\ \A t, u \in Threads : hand[t].gen # 0 /\ hand[t].gen = hand[u].gen => t = u
    /\ \A d \in Dirs, t \in Threads : IsOpenAt(d) => hand[t].gen # sessions[d].gen

\* Sessions are numbered up to born.
Numbered ==
    /\ \A d \in Dirs : sessions[d].gen <= born
    /\ \A t \in Threads : hand[t].gen <= born
    /\ \A s \in sealed : s # 0 /\ s <= born

\* Sealed sessions are nowhere.
SealedGone ==
    /\ \A d \in Dirs : sessions[d].gen \notin sealed
    /\ \A t \in Threads : hand[t].gen \notin sealed

Custody == InHand /\ OnePlace /\ Numbered /\ SealedGone

\* Only four steps of a handler move a session; the others leave all of them alone.
LEMMA SessionMoves ==
    ASSUME TypeOK, InHand, NEW t \in Threads,
           OpenStep(t) \/ CreateStep(t) \/ CloseStep(t) \/ SwitchStep(t) \/ Panic(t)
    PROVE  \/ OpenInsert(t) \/ CloseTake(t) \/ CloseFlush(t) \/ CloseRestore(t)
           \/ /\ UNCHANGED <<sessions, hand, born, sealed>>
              /\ pc[t] \notin {"close_flush", "close_restore"}
              /\ pc'[t] \notin {"close_flush", "close_restore"}
<1>1. \A label : Goto(t, label) => pc'[t] = label
  BY DEF TypeOK, Goto
<1> USE <1>1 DEF Begin, Reply, Continue
<1>2. CASE OpenStep(t)
  <2>1. CASE \E i \in Ids, yes \in BOOLEAN : OpenCall(t, i, yes)
    BY <2>1 DEF OpenCall, ram, stores
  <2>2. CASE OpenEnter(t)
    BY <2>2 DEF OpenEnter, ram, stores
  <2>3. CASE OpenCheck(t)
    BY <2>3 DEF OpenCheck, ram, stores
  <2>4. CASE OpenLoad(t)
    BY <2>4 DEF OpenLoad, ram, stores
  <2>5. CASE OpenKdf(t)
    BY <2>5 DEF OpenKdf, ram, stores
  <2>6. CASE OpenInsert(t)
    BY <2>6 DEF OpenInsert, ram, stores
  <2> QED
    BY <1>2, <2>1, <2>2, <2>3, <2>4, <2>5, <2>6 DEF OpenStep
<1>3. CASE CreateStep(t)
  <2>1. CASE \E i \in Ids, c \in Configs : CreateCall(t, i, c)
    BY <2>1 DEF CreateCall, ram, stores
  <2>2. CASE CreateDir(t)
    BY <2>2 DEF CreateDir, ram, stores
  <2>3. CASE CreateConfig(t)
    BY <2>3 DEF CreateConfig, ram, stores
  <2>4. CASE CreateEnter(t)
    BY <2>4 DEF CreateEnter, ram, stores
  <2>5. CASE CreateSeed(t)
    BY <2>5 DEF CreateSeed, ram, stores
  <2>6. CASE CreatePersist(t)
    BY <2>6 DEF CreatePersist, ram, stores
  <2>7. CASE CreateCleanup(t)
    BY <2>7 DEF CreateCleanup, ram, stores
  <2> QED
    BY <1>3, <2>1, <2>2, <2>3, <2>4, <2>5, <2>6, <2>7 DEF CreateStep
<1>4. CASE CloseStep(t)
  <2>1. CASE \E i \in Ids, yes \in BOOLEAN : CloseCall(t, i, yes)
    BY <2>1 DEF CloseCall, ram, stores
  <2>2. CASE CloseMark(t)
    BY <2>2 DEF CloseMark, ram, stores
  <2>3. CASE CloseTake(t)
    BY <2>3 DEF CloseTake, ram, stores
  <2>4. CASE CloseFlush(t)
    BY <2>4 DEF CloseFlush, ram, stores
  <2>5. CASE CloseRestore(t)
    BY <2>5 DEF CloseRestore, ram, stores
  <2>6. CASE CloseUnmark(t)
    BY <2>6 DEF CloseUnmark, ram, stores
  <2> QED
    BY <1>4, <2>1, <2>2, <2>3, <2>4, <2>5, <2>6 DEF CloseStep
<1>5. CASE SwitchStep(t)
  <2>1. CASE \E i \in Ids, c \in Configs : SaveCall(t, i, c)
    BY <2>1 DEF SaveCall, ram, stores
  <2>2. CASE \E r \in Roots : SetupCall(t, r)
    BY <2>2 DEF SetupCall, ram, stores
  <2>3. CASE \E r \in Roots : SettingsSave(t, r)
    BY <2>3 DEF SettingsSave, ram, stores
  <2>4. CASE ProbeSessions(t)
    BY <2>4 DEF ProbeSessions, Busy, ram, stores
  <2>5. CASE ProbeClosing(t)
    BY <2>5 DEF ProbeClosing, Busy, ram, stores
  <2>6. CASE ProbeGate(t)
    BY <2>6 DEF ProbeGate, Busy, ram, stores
  <2>7. CASE SaveWrite(t)
    BY <2>7 DEF SaveWrite, ram, stores
  <2>8. CASE SetupWrite(t)
    BY <2>8 DEF SetupWrite, ram, stores
  <2> QED
    BY <1>5, <2>1, <2>2, <2>3, <2>4, <2>5, <2>6, <2>7, <2>8 DEF SwitchStep
<1>6. CASE Panic(t)
  BY <1>6 DEF Panic, ram, stores
<1> QED
  BY <1>2, <1>3, <1>4, <1>5, <1>6

\* A new session has a number of its own.
LEMMA InsertKeepsCustody ==
    ASSUME TypeInv, Custody, NEW t \in Threads, OpenInsert(t)
    PROVE  Custody'
<1> DEFINE d == req[t].dir
<1>0. /\ d \in Dirs
      /\ pc[t] = "open_insert"
      /\ \A u \in Threads : hand'[u] = hand[u]
      /\ hand' = hand /\ sealed' = sealed
  BY RequestTypes DEF OpenInsert, TypeInv, stores
<1>1. InHand'
  <2>1. pc'[t] = "idle"
    BY DEF OpenInsert, Reply, Goto, TypeInv, TypeOK
  <2>2. \A u \in Threads \ {t} : pc'[u] = pc[u]
    BY OthersStay DEF TypeInv, OpenStep
  <2> QED
    BY <1>0, <2>1, <2>2 DEF InHand, Custody
<1>2. CASE IsOpenAt(d)
  <2>1. sessions' = sessions /\ born' = born
    BY <1>2 DEF OpenInsert
  <2> QED
    BY <1>0, <1>1, <2>1 DEF Custody, OnePlace, Numbered, SealedGone, IsOpenAt
<1>3. CASE ~IsOpenAt(d)
  <2>1. /\ born \in Nat
        /\ born' = born + 1
        /\ sessions' = [sessions EXCEPT ![d] = [gen |-> born + 1, mode |-> seen[t].mode]]
    BY <1>3 DEF OpenInsert, TypeInv, TypeOK
  <2>2. /\ sessions'[d].gen = born + 1
        /\ \A e \in Dirs \ {d} : sessions'[e] = sessions[e]
        /\ \A e \in Dirs : sessions[e].gen \in Nat
        /\ \A u \in Threads : hand[u].gen \in Nat
        /\ sealed \subseteq Nat
    BY <1>0, <2>1 DEF TypeInv, TypeOK, Session
  <2>3. Numbered'
    BY <1>0, <2>1, <2>2 DEF Custody, Numbered
  <2>4. OnePlace'
    BY <1>0, <2>1, <2>2 DEF Custody, OnePlace, Numbered, IsOpenAt
  <2>5. SealedGone'
    BY <1>0, <2>1, <2>2 DEF Custody, SealedGone, Numbered
  <2> QED
    BY <1>1, <2>3, <2>4, <2>5 DEF Custody
<1> QED
  BY <1>2, <1>3

\* take_session moves a session from the registry into the hands of the close.
LEMMA TakeKeepsCustody ==
    ASSUME TypeInv, Custody, NEW t \in Threads, CloseTake(t)
    PROVE  Custody'
<1> DEFINE d == req[t].dir
<1>0. /\ d \in Dirs
      /\ pc[t] = "close_take"
      /\ born' = born /\ sealed' = sealed
      /\ \A u \in Threads \ {t} : pc'[u] = pc[u] /\ hand'[u] = hand[u]
      /\ \A label : Goto(t, label) => pc'[t] = label
      /\ hand[t].gen = 0
  BY RequestTypes, OthersStay
     DEF CloseTake, CloseStep, TypeInv, TypeOK, Goto, stores, Custody, InHand
<1>1. CASE ~IsOpenAt(d)
  <2>1. sessions' = sessions /\ hand' = hand /\ pc'[t] = "close_unmark"
    BY <1>0, <1>1 DEF CloseTake, Continue
  <2> QED
    BY <1>0, <2>1 DEF Custody, InHand, OnePlace, Numbered, SealedGone, IsOpenAt
<1>2. CASE IsOpenAt(d)
  <2>1. /\ sessions' = [sessions EXCEPT ![d] = NoSession]
        /\ hand' = [hand EXCEPT ![t] = sessions[d]]
        /\ pc'[t] \in {"close_restore", "close_flush"}
    BY <1>0, <1>2 DEF CloseTake, Continue
  <2>2. /\ sessions'[d].gen = 0
        /\ hand'[t] = sessions[d]
        /\ \A e \in Dirs \ {d} : sessions'[e] = sessions[e]
    BY <1>0, <2>1 DEF TypeInv, TypeOK, NoSession
  <2>3. /\ born \in Nat
        /\ \A e \in Dirs : sessions[e].gen \in Nat
        /\ \A u \in Threads : hand[u].gen \in Nat
    BY DEF TypeInv, TypeOK, Session
  <2>4. InHand'
    BY <1>0, <1>2, <2>1, <2>2 DEF Custody, InHand, IsOpenAt
  <2>5. OnePlace'
    BY <1>0, <1>2, <2>2, <2>3 DEF Custody, OnePlace, IsOpenAt
  <2>6. Numbered'
    BY <1>0, <2>2, <2>3 DEF Custody, Numbered
  <2>7. 0 \notin sealed
    BY DEF Custody, Numbered
  <2>8. SealedGone'
    BY <1>0, <2>2, <2>7 DEF Custody, SealedGone
  <2> QED
    BY <2>4, <2>5, <2>6, <2>8 DEF Custody
<1> QED
  BY <1>1, <1>2

\* A flush seals the session it holds and lets go of it, or leaves it in hand.
LEMMA FlushKeepsCustody ==
    ASSUME TypeInv, Custody, NEW t \in Threads, CloseFlush(t)
    PROVE  Custody'
<1>0. /\ pc[t] = "close_flush"
      /\ hand[t].gen # 0
      /\ sessions' = sessions /\ born' = born
      /\ \A u \in Threads \ {t} : pc'[u] = pc[u] /\ hand'[u] = hand[u]
      /\ \A label : Goto(t, label) => pc'[t] = label
  BY OthersStay DEF CloseFlush, CloseStep, TypeInv, TypeOK, Goto, ram, Custody, InHand
<1>1. CASE pc'[t] = "close_restore" /\ hand' = hand /\ sealed' = sealed
  BY <1>0, <1>1 DEF Custody, InHand, OnePlace, Numbered, SealedGone, IsOpenAt
<1>2. CASE /\ pc'[t] = "close_unmark"
           /\ hand' = [hand EXCEPT ![t] = NoSession]
           /\ sealed' = sealed \cup {hand[t].gen}
  <2>1. hand'[t].gen = 0
    BY <1>2 DEF TypeInv, TypeOK, NoSession
  <2>2. /\ born \in Nat
        /\ \A e \in Dirs : sessions[e].gen \in Nat
        /\ \A u \in Threads : hand[u].gen \in Nat
        /\ 0 \notin sealed
    BY DEF TypeInv, TypeOK, Session, Custody, Numbered
  <2>3. InHand'
    BY <1>0, <1>2, <2>1 DEF Custody, InHand
  <2>4. OnePlace'
    BY <1>0, <2>1 DEF Custody, OnePlace, IsOpenAt
  <2>5. Numbered'
    BY <1>0, <1>2, <2>1, <2>2 DEF Custody, Numbered
  <2>6. \A e \in Dirs : sessions'[e].gen \notin sealed'
    BY <1>0, <1>2, <2>2 DEF Custody, SealedGone, OnePlace, IsOpenAt
  <2>7. \A u \in Threads : hand'[u].gen \notin sealed'
    BY <1>0, <1>2, <2>1, <2>2 DEF Custody, SealedGone, OnePlace
  <2> QED
    BY <2>3, <2>4, <2>5, <2>6, <2>7 DEF Custody, SealedGone
<1> QED
  BY <1>0, <1>1, <1>2 DEF CloseFlush, Continue

\* A restore puts the session back, or drops it where a newer one is live.
LEMMA RestoreKeepsCustody ==
    ASSUME TypeInv, Custody, NEW t \in Threads, CloseRestore(t)
    PROVE  Custody'
<1> DEFINE d == req[t].dir
<1>0. /\ d \in Dirs
      /\ pc'[t] = "close_unmark"
      /\ hand' = [hand EXCEPT ![t] = NoSession]
      /\ born' = born /\ sealed' = sealed
      /\ \A u \in Threads \ {t} : pc'[u] = pc[u] /\ hand'[u] = hand[u]
      /\ 0 \notin sealed
  BY RequestTypes, OthersStay
     DEF CloseRestore, CloseStep, Continue, TypeInv, TypeOK, Goto, stores, Custody, Numbered
<1>1. hand'[t].gen = 0
  BY <1>0 DEF TypeInv, TypeOK, NoSession
<1>2. /\ born \in Nat
      /\ \A e \in Dirs : sessions[e].gen \in Nat
      /\ \A u \in Threads : hand[u].gen \in Nat
  BY DEF TypeInv, TypeOK, Session
<1>3. InHand'
  BY <1>0, <1>1 DEF Custody, InHand
<1>4. CASE IsOpenAt(d)
  <2>1. sessions' = sessions
    BY <1>4 DEF CloseRestore
  <2> QED
    BY <1>0, <1>1, <1>2, <1>3, <2>1 DEF Custody, OnePlace, Numbered, SealedGone, IsOpenAt
<1>5. CASE ~IsOpenAt(d)
  <2>1. /\ sessions'[d] = hand[t]
        /\ \A e \in Dirs \ {d} : sessions'[e] = sessions[e]
    BY <1>0, <1>5 DEF CloseRestore, TypeInv, TypeOK
  <2>2. OnePlace'
    BY <1>0, <1>1, <1>2, <2>1 DEF Custody, OnePlace, IsOpenAt
  <2>3. Numbered'
    BY <1>0, <1>1, <1>2, <2>1 DEF Custody, Numbered
  <2>4. SealedGone'
    BY <1>0, <1>1, <2>1 DEF Custody, SealedGone
  <2> QED
    BY <1>3, <2>2, <2>3, <2>4 DEF Custody
<1> QED
  BY <1>4, <1>5

\* Custody is inductive.
LEMMA CustodyStep ==
    ASSUME TypeInv, Custody, [Next]_vars
    PROVE  Custody'
<1>1. ASSUME NEW t \in Threads,
             OpenStep(t) \/ CreateStep(t) \/ CloseStep(t) \/ SwitchStep(t) \/ Panic(t)
      PROVE  Custody'
  <2>1. CASE OpenInsert(t) \/ CloseTake(t) \/ CloseFlush(t) \/ CloseRestore(t)
    BY <2>1, InsertKeepsCustody, TakeKeepsCustody, FlushKeepsCustody, RestoreKeepsCustody
  <2>2. CASE /\ UNCHANGED <<sessions, hand, born, sealed>>
             /\ pc[t] \notin {"close_flush", "close_restore"}
             /\ pc'[t] \notin {"close_flush", "close_restore"}
    <3>1. \A u \in Threads \ {t} : pc'[u] = pc[u]
      BY <1>1, OthersStay DEF TypeInv
    <3> QED
      BY <2>2, <3>1 DEF Custody, InHand, OnePlace, Numbered, SealedGone, IsOpenAt
  <2> QED
    BY <1>1, <2>1, <2>2, SessionMoves DEF TypeInv, Custody
<1>2. CASE Restart
  <2>1. /\ \A d \in Dirs : sessions'[d].gen = 0
        /\ \A t \in Threads : hand'[t].gen = 0 /\ pc'[t] = "idle"
        /\ born' = born /\ sealed' = sealed /\ born \in Nat
    BY <1>2 DEF Restart, NoSession, stores, TypeInv, TypeOK
  <2> QED
    BY <2>1 DEF Custody, InHand, OnePlace, Numbered, SealedGone, IsOpenAt
<1>3. CASE UNCHANGED vars
  BY <1>3 DEF vars, ram, stores, Custody, InHand, OnePlace, Numbered, SealedGone, IsOpenAt
<1> QED
  BY <1>1, <1>2, <1>3, NextSplit

\* Custody holds in every reachable state.
THEOREM CustodyCorrect == Spec => [](TypeInv /\ Custody)
<1>1. Init => TypeInv /\ Custody
  <2> SUFFICES ASSUME Init
               PROVE  TypeInv /\ Custody
    OBVIOUS
  <2>1. /\ \A d \in Dirs : sessions[d].gen = 0
        /\ \A t \in Threads : hand[t].gen = 0 /\ pc[t] = "idle"
        /\ born = 0 /\ sealed = {}
    BY DEF Init, NoSession
  <2>2. Custody
    BY <2>1 DEF Custody, InHand, OnePlace, Numbered, SealedGone, IsOpenAt
  <2> QED
    BY <2>2, InitTypes
<1>2. TypeInv /\ Custody /\ [Next]_vars => TypeInv' /\ Custody'
  BY TypeStep, CustodyStep
<1> QED
  BY <1>1, <1>2, PTL DEF Spec

\* Keys whose close persisted the flush never serve again (vault/open_close.rs:94).
THEOREM SealedForGood == Spec => []SealedStaysSealed
<1>1. TypeInv /\ Custody => SealedStaysSealed
  <2> SUFFICES ASSUME TypeInv, Custody
               PROVE  SealedStaysSealed
    OBVIOUS
  <2>1. \A d \in Dirs : Live[d] \notin sealed
    BY DEF Live, Custody, SealedGone
  <2>2. \A sv \in Draining : sv[1] \notin sealed
    BY DEF Draining, Custody, SealedGone
  <2> QED
    BY <2>1, <2>2 DEF SealedStaysSealed, Lifecycle!SealedIsFinal
<1> QED
  BY <1>1, CustodyCorrect, PTL

-----------------------------------------------------------------------------
(***************************************************************************)
(* The registry implements SessionLifecycle: each of the four steps that   *)
(* move a session is a step of the abstract specification, a restart is    *)
(* its Exit, and everything else a handler does is invisible to it.        *)
(***************************************************************************)

\* When nobody's hand or directory changes, neither does the mapped state.
LEMMA StutterMaps ==
    ASSUME TypeInv, Custody, NEW t \in Threads,
           OpenStep(t) \/ CreateStep(t) \/ CloseStep(t) \/ SwitchStep(t) \/ Panic(t),
           UNCHANGED <<sessions, hand>>,
           hand[t].gen # 0 => req'[t] = req[t]
    PROVE  Live' = Live /\ Draining' = Draining
<1>1. Live' = Live
  BY DEF Live
<1>2. \A u \in Threads : hand[u].gen # 0 => req'[u].dir = req[u].dir
  BY OthersStay DEF TypeInv
<1>3. hand' = hand
  OBVIOUS
<1>4. Draining' \subseteq Draining
  BY <1>2, <1>3 DEF Draining
<1>5. Draining \subseteq Draining'
  BY <1>2, <1>3 DEF Draining
<1> QED
  BY <1>1, <1>4, <1>5

\* An unlock is an Unlock, or nothing when insert_session refused.
LEMMA InsertMaps ==
    ASSUME TypeInv, Custody, NEW t \in Threads, OpenInsert(t)
    PROVE  [Lifecycle!Next]_(Lifecycle!vars)
<1> DEFINE d == req[t].dir
<1>1. /\ d \in Dirs
      /\ hand' = hand /\ sealed' = sealed
      /\ hand[t].gen = 0
  BY RequestTypes DEF OpenInsert, TypeInv, stores, Custody, InHand
<1>2. \A u \in Threads : hand[u].gen # 0 => req'[u].dir = req[u].dir
  BY <1>1, OthersStay DEF TypeInv, OpenStep
<1>3. Draining' = Draining
  <2>1. Draining' \subseteq Draining
    BY <1>1, <1>2 DEF Draining
  <2>2. Draining \subseteq Draining'
    BY <1>1, <1>2 DEF Draining
  <2> QED
    BY <2>1, <2>2
<1>4. CASE IsOpenAt(d)
  <2>1. sessions' = sessions /\ born' = born
    BY <1>4 DEF OpenInsert
  <2>2. Live' = Live
    BY <2>1 DEF Live
  <2> QED
    BY <1>1, <1>3, <2>1, <2>2 DEF Lifecycle!vars
<1>5. CASE ~IsOpenAt(d)
  <2>1. /\ born' = born + 1
        /\ sessions' = [sessions EXCEPT ![d] = [gen |-> born + 1, mode |-> seen[t].mode]]
    BY <1>5 DEF OpenInsert
  <2>2. Live[d] = 0
    BY <1>1, <1>5 DEF Live, IsOpenAt
  <2>3. Live' = [Live EXCEPT ![d] = born + 1]
    BY <1>1, <2>1 DEF Live, TypeInv, TypeOK
  <2>4. Lifecycle!Unlock(d)
    BY <1>1, <1>3, <2>1, <2>2, <2>3 DEF Lifecycle!Unlock
  <2> QED
    BY <1>1, <2>4 DEF Lifecycle!Next
<1> QED
  BY <1>4, <1>5

\* A taken session is drained.
LEMMA TakeMaps ==
    ASSUME TypeInv, Custody, NEW t \in Threads, CloseTake(t)
    PROVE  [Lifecycle!Next]_(Lifecycle!vars)
<1> DEFINE d == req[t].dir
<1>1. /\ d \in Dirs
      /\ req' = req /\ sealed' = sealed /\ born' = born
      /\ hand[t].gen = 0
  BY RequestTypes DEF CloseTake, Continue, TypeInv, stores, Custody, InHand
<1>2. CASE ~IsOpenAt(d)
  <2>1. sessions' = sessions /\ hand' = hand
    BY <1>2 DEF CloseTake
  <2>2. Live' = Live /\ Draining' = Draining
    BY <1>1, <2>1 DEF Live, Draining
  <2> QED
    BY <1>1, <2>2 DEF Lifecycle!vars
<1>3. CASE IsOpenAt(d)
  <2>1. /\ sessions' = [sessions EXCEPT ![d] = NoSession]
        /\ hand' = [hand EXCEPT ![t] = sessions[d]]
    BY <1>3 DEF CloseTake
  <2>2. Live[d] = sessions[d].gen /\ Live[d] # 0
    BY <1>1, <1>3 DEF Live, IsOpenAt
  <2>3. Live' = [Live EXCEPT ![d] = 0]
    BY <1>1, <2>1 DEF Live, TypeInv, TypeOK, NoSession
  <2>4. /\ hand'[t] = sessions[d]
        /\ \A u \in Threads \ {t} : hand'[u] = hand[u]
    BY <2>1 DEF TypeInv, TypeOK
  <2>5. Draining' \subseteq Draining \cup {<<Live[d], d>>}
    BY <1>1, <2>2, <2>4 DEF Draining
  <2>6. Draining \cup {<<Live[d], d>>} \subseteq Draining'
    BY <1>1, <2>2, <2>4 DEF Draining
  <2>7. Lifecycle!Drain(d)
    BY <1>1, <2>2, <2>3, <2>5, <2>6 DEF Lifecycle!Drain
  <2> QED
    BY <1>1, <2>7 DEF Lifecycle!Next
<1> QED
  BY <1>2, <1>3

\* Letting go of the session in hand takes one pair out of the draining ones.
LEMMA LetGoMaps ==
    ASSUME TypeInv, Custody, NEW t \in Threads, hand[t].gen # 0,
           req' = req, hand' = [hand EXCEPT ![t] = NoSession]
    PROVE  /\ <<hand[t].gen, req[t].dir>> \in Draining
           /\ Draining' = Draining \ {<<hand[t].gen, req[t].dir>>}
<1>1. /\ hand'[t].gen = 0
      /\ \A u \in Threads \ {t} : hand'[u] = hand[u]
  BY DEF TypeInv, TypeOK, NoSession
<1>2. \A u \in Threads \ {t} : hand[u].gen # hand[t].gen
  BY DEF Custody, OnePlace
<1>3. <<hand[t].gen, req[t].dir>> \in Draining
  BY DEF Draining
<1>4. Draining' \subseteq Draining \ {<<hand[t].gen, req[t].dir>>}
  BY <1>1, <1>2 DEF Draining
<1>5. Draining \ {<<hand[t].gen, req[t].dir>>} \subseteq Draining'
  BY <1>1 DEF Draining
<1> QED
  BY <1>3, <1>4, <1>5

\* A flush seals its session, or changes nothing.
LEMMA FlushMaps ==
    ASSUME TypeInv, Custody, NEW t \in Threads, CloseFlush(t)
    PROVE  [Lifecycle!Next]_(Lifecycle!vars)
<1> DEFINE sv == <<hand[t].gen, req[t].dir>>
<1>1. /\ sessions' = sessions /\ born' = born /\ req' = req
      /\ hand[t].gen # 0
      /\ Live' = Live
  BY DEF CloseFlush, Continue, ram, Live, Custody, InHand
<1>2. CASE hand' = hand /\ sealed' = sealed
  <2>1. Draining' = Draining
    BY <1>1, <1>2 DEF Draining
  <2> QED
    BY <1>1, <1>2, <2>1 DEF Lifecycle!vars
<1>3. CASE hand' = [hand EXCEPT ![t] = NoSession] /\ sealed' = sealed \cup {hand[t].gen}
  <2>1. sv \in Draining /\ Draining' = Draining \ {sv}
    BY <1>1, <1>3, LetGoMaps
  <2>2. Lifecycle!Seal(sv[1], sv[2])
    BY <1>1, <1>3, <2>1 DEF Lifecycle!Seal
  <2> QED
    BY <2>1, <2>2 DEF Lifecycle!Next
<1> QED
  BY <1>2, <1>3 DEF CloseFlush

\* A restore is a Restore, or a Discard when the vault was opened again.
LEMMA RestoreMaps ==
    ASSUME TypeInv, Custody, NEW t \in Threads, CloseRestore(t)
    PROVE  [Lifecycle!Next]_(Lifecycle!vars)
<1> DEFINE d == req[t].dir
           sv == <<hand[t].gen, d>>
<1>1. /\ d \in Dirs
      /\ born' = born /\ sealed' = sealed /\ req' = req
      /\ hand[t].gen # 0
      /\ hand' = [hand EXCEPT ![t] = NoSession]
  BY RequestTypes DEF CloseRestore, Continue, TypeInv, stores, Custody, InHand
<1>2. sv \in Draining /\ Draining' = Draining \ {sv}
  BY <1>1, LetGoMaps
<1>3. CASE IsOpenAt(d)
  <2>1. Live' = Live
    BY <1>3 DEF CloseRestore, Live
  <2>2. Live[d] # 0
    BY <1>1, <1>3 DEF Live, IsOpenAt
  <2>3. Lifecycle!Discard(sv[1], sv[2])
    BY <1>1, <1>2, <2>1, <2>2 DEF Lifecycle!Discard
  <2> QED
    BY <1>2, <2>3 DEF Lifecycle!Next
<1>4. CASE ~IsOpenAt(d)
  <2>1. sessions' = [sessions EXCEPT ![d] = hand[t]]
    BY <1>4 DEF CloseRestore
  <2>2. Live[d] = 0
    BY <1>1, <1>4 DEF Live, IsOpenAt
  <2>3. Live' = [Live EXCEPT ![d] = hand[t].gen]
    BY <1>1, <2>1 DEF Live, TypeInv, TypeOK
  <2>4. Lifecycle!Restore(sv[1], sv[2])
    BY <1>1, <1>2, <2>2, <2>3 DEF Lifecycle!Restore
  <2> QED
    BY <1>2, <2>4 DEF Lifecycle!Next
<1> QED
  BY <1>3, <1>4

\* The session core keeps every promise of SessionLifecycle, on any number of threads
\* (session/mod.rs:208 and :217, insert_session and take_session).
THEOREM RegistryImplementsLifecycle == Spec => RefinesLifecycle
<1>1. Init => Lifecycle!Init
  <2> SUFFICES ASSUME Init
               PROVE  Lifecycle!Init
    OBVIOUS
  <2>1. Live = [d \in Dirs |-> 0]
    BY DEF Init, Live, NoSession
  <2>2. Draining = {}
    BY DEF Init, Draining, NoSession
  <2> QED
    BY <2>1, <2>2 DEF Init, Lifecycle!Init
<1>2. TypeInv /\ Custody /\ [Next]_vars => [Lifecycle!Next]_(Lifecycle!vars)
  <2> SUFFICES ASSUME TypeInv, Custody, [Next]_vars
               PROVE  [Lifecycle!Next]_(Lifecycle!vars)
    OBVIOUS
  <2>1. ASSUME NEW t \in Threads,
               OpenStep(t) \/ CreateStep(t) \/ CloseStep(t) \/ SwitchStep(t) \/ Panic(t)
        PROVE  [Lifecycle!Next]_(Lifecycle!vars)
    <3>1. CASE OpenInsert(t) \/ CloseTake(t) \/ CloseFlush(t) \/ CloseRestore(t)
      BY <3>1, InsertMaps, TakeMaps, FlushMaps, RestoreMaps
    <3>2. CASE /\ UNCHANGED <<sessions, hand, born, sealed>>
               /\ pc[t] \notin {"close_flush", "close_restore"}
      <4>1. hand[t].gen = 0
        BY <3>2 DEF Custody, InHand
      <4>2. Live' = Live /\ Draining' = Draining
        BY <2>1, <3>2, <4>1, StutterMaps
      <4> QED
        BY <3>2, <4>2 DEF Lifecycle!vars
    <3> QED
      BY <2>1, <3>1, <3>2, SessionMoves DEF TypeInv, Custody
  <2>2. CASE Restart
    <3>1. Live' = [d \in Dirs |-> 0]
      BY <2>2 DEF Restart, Live, NoSession
    <3>2. Draining' = {}
      BY <2>2 DEF Restart, Draining, NoSession
    <3>3. Lifecycle!Exit
      BY <2>2, <3>1, <3>2 DEF Restart, Lifecycle!Exit, stores
    <3> QED
      BY <3>3 DEF Lifecycle!Next
  <2>3. CASE UNCHANGED vars
    BY <2>3 DEF vars, ram, stores, Live, Draining, Lifecycle!vars
  <2> QED
    BY <2>1, <2>2, <2>3, NextSplit
<1> QED
  BY <1>1, <1>2, CustodyCorrect, PTL DEF Spec, RefinesLifecycle, Lifecycle!Spec

-----------------------------------------------------------------------------
(***************************************************************************)
(* The closing mark covers the flush where one thread runs the closes, as  *)
(* in the desktop daemon.  With two, CLOSING being a set, the first Drop   *)
(* takes the mark of the other away: the run double_close shows it.        *)
(***************************************************************************)

OneCloser == \A t, u \in LightThreads : t = u

\* Closes run on the light threads.
ClosesAreLight == \A t \in Threads : pc[t] \in Marked \cup {"close_mark"} => t \in LightThreads

\* The mark is there from ClosingGuard::enter to its Drop.
MarkIsSet == \A t \in Threads : pc[t] \in Marked => req[t].dir \in closing

\* Only CloseCall starts a close.
LEMMA CloseStarts ==
    ASSUME TypeOK, NEW t \in Threads,
           OpenStep(t) \/ CreateStep(t) \/ CloseStep(t) \/ SwitchStep(t) \/ Panic(t),
           pc'[t] \in Marked \cup {"close_mark"}
    PROVE  pc[t] \in Marked \cup {"close_mark"} \/ t \in LightThreads
<1>1. \A label : Goto(t, label) => pc'[t] = label
  BY DEF TypeOK, Goto
<1> USE <1>1 DEF Begin, Reply, Continue, Marked
<1>2. CASE OpenStep(t)
  <2>1. CASE \E i \in Ids, yes \in BOOLEAN : OpenCall(t, i, yes)
    BY <2>1 DEF OpenCall
  <2>2. CASE OpenEnter(t)
    BY <2>2 DEF OpenEnter
  <2>3. CASE OpenCheck(t)
    BY <2>3 DEF OpenCheck
  <2>4. CASE OpenLoad(t)
    BY <2>4 DEF OpenLoad
  <2>5. CASE OpenKdf(t)
    BY <2>5 DEF OpenKdf
  <2>6. CASE OpenInsert(t)
    BY <2>6 DEF OpenInsert
  <2> QED
    BY <1>2, <2>1, <2>2, <2>3, <2>4, <2>5, <2>6 DEF OpenStep
<1>3. CASE CreateStep(t)
  <2>1. CASE \E i \in Ids, c \in Configs : CreateCall(t, i, c)
    BY <2>1 DEF CreateCall
  <2>2. CASE CreateDir(t)
    BY <2>2 DEF CreateDir
  <2>3. CASE CreateConfig(t)
    BY <2>3 DEF CreateConfig
  <2>4. CASE CreateEnter(t)
    BY <2>4 DEF CreateEnter
  <2>5. CASE CreateSeed(t)
    BY <2>5 DEF CreateSeed
  <2>6. CASE CreatePersist(t)
    BY <2>6 DEF CreatePersist
  <2>7. CASE CreateCleanup(t)
    BY <2>7 DEF CreateCleanup
  <2> QED
    BY <1>3, <2>1, <2>2, <2>3, <2>4, <2>5, <2>6, <2>7 DEF CreateStep
<1>4. CASE CloseStep(t)
  <2>1. CASE \E i \in Ids, yes \in BOOLEAN : CloseCall(t, i, yes)
    BY <2>1 DEF CloseCall
  <2>2. CASE CloseMark(t)
    BY <2>2 DEF CloseMark
  <2>3. CASE CloseTake(t)
    BY <2>3 DEF CloseTake
  <2>4. CASE CloseFlush(t)
    BY <2>4 DEF CloseFlush
  <2>5. CASE CloseRestore(t)
    BY <2>5 DEF CloseRestore
  <2>6. CASE CloseUnmark(t)
    BY <2>6 DEF CloseUnmark
  <2> QED
    BY <1>4, <2>1, <2>2, <2>3, <2>4, <2>5, <2>6 DEF CloseStep
<1>5. CASE SwitchStep(t)
  <2>1. CASE \E i \in Ids, c \in Configs : SaveCall(t, i, c)
    BY <2>1 DEF SaveCall
  <2>2. CASE \E r \in Roots : SetupCall(t, r)
    BY <2>2 DEF SetupCall
  <2>3. CASE \E r \in Roots : SettingsSave(t, r)
    BY <2>3 DEF SettingsSave
  <2>4. CASE ProbeSessions(t)
    BY <2>4 DEF ProbeSessions, Busy
  <2>5. CASE ProbeClosing(t)
    BY <2>5 DEF ProbeClosing, Busy
  <2>6. CASE ProbeGate(t)
    BY <2>6 DEF ProbeGate, Busy
  <2>7. CASE SaveWrite(t)
    BY <2>7 DEF SaveWrite
  <2>8. CASE SetupWrite(t)
    BY <2>8 DEF SetupWrite
  <2> QED
    BY <1>5, <2>1, <2>2, <2>3, <2>4, <2>5, <2>6, <2>7, <2>8 DEF SwitchStep
<1>6. CASE Panic(t)
  BY <1>6 DEF Panic
<1> QED
  BY <1>2, <1>3, <1>4, <1>5, <1>6

\* With one closer the marks are inductive.
LEMMA MarkStep ==
    ASSUME OneCloser, TypeInv, ClosesAreLight, MarkIsSet, [Next]_vars
    PROVE  ClosesAreLight' /\ MarkIsSet'
<1>1. ASSUME NEW t \in Threads,
             OpenStep(t) \/ CreateStep(t) \/ CloseStep(t) \/ SwitchStep(t) \/ Panic(t)
      PROVE  ClosesAreLight' /\ MarkIsSet'
  <2>1. \A u \in Threads \ {t} : pc'[u] = pc[u] /\ req'[u] = req[u]
    BY <1>1, OthersStay DEF TypeInv
  <2>2. ClosesAreLight'
    BY <1>1, <2>1, CloseStarts DEF ClosesAreLight, TypeInv
  <2>3. \A u \in Threads \ {t} : pc[u] \in Marked /\ pc[t] \in Marked => FALSE
    BY DEF ClosesAreLight, OneCloser
  <2>4. ASSUME NEW u \in Threads, pc'[u] \in Marked
        PROVE  req'[u].dir \in closing'
    <3>1. CASE u = t
      BY <1>1, <2>4, <3>1, MarkMoves DEF MarkIsSet, TypeInv
    <3>2. CASE u # t
      BY <1>1, <2>1, <2>3, <2>4, <3>2, MarkMoves DEF MarkIsSet, TypeInv
    <3> QED
      BY <3>1, <3>2
  <2> QED
    BY <2>2, <2>4 DEF MarkIsSet
<1>2. CASE Restart
  BY <1>2 DEF Restart, ClosesAreLight, MarkIsSet, Marked
<1>3. CASE UNCHANGED vars
  BY <1>3 DEF vars, ram, ClosesAreLight, MarkIsSet
<1> QED
  BY <1>1, <1>2, <1>3, NextSplit

\* Where one thread closes vaults, the flush of a session never runs without its
\* directory's closing mark (session/mod.rs:183, ClosingGuard).
THEOREM FlushIsCovered ==
    ASSUME OneCloser
    PROVE  Spec => []ClosingCoversFlush
<1>1. Init => ClosesAreLight /\ MarkIsSet
  BY DEF Init, ClosesAreLight, MarkIsSet, Marked
<1>2. /\ TypeInv /\ Custody
      /\ ClosesAreLight /\ MarkIsSet
      /\ [Next]_vars
      => ClosesAreLight' /\ MarkIsSet'
  BY OneCloser, MarkStep
<1>3. TypeInv /\ Custody /\ ClosesAreLight /\ MarkIsSet => ClosingCoversFlush
  BY DEF Custody, InHand, MarkIsSet, Marked, ClosingCoversFlush
<1> QED
  BY <1>1, <1>2, <1>3, CustodyCorrect, PTL DEF Spec

=============================================================================
