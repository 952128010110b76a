----------------------------- MODULE VaultGroups -----------------------------
(***************************************************************************)
(* The vault groups of upriv-core (config/vault_groups) and the RPCs that  *)
(* meet them on disk: .upriv/vault_groups.toml holds the groups, and each  *)
(* vaults/<id>/config.toml a hidden flag that hiding or showing a group    *)
(* cascades to.                                                            *)
(*                                                                         *)
(* One lock serialises the group RPCs.  Within it an RPC reads the groups, *)
(* plans the flags to flip, flips them one load and one save at a time,    *)
(* saves the groups, and on an error flips back what it flipped.  Neither  *)
(* vault_config_save nor vault_create takes that lock.  Files are replaced *)
(* by a rename, so a reader sees the old one or the new one.               *)
(***************************************************************************)
EXTENDS Naturals, Sequences, SequencesExt, MemberLists

CONSTANTS
    Vaults,         \* vault ids
    GroupIds,       \* group ids the program makes
    HandIds,        \* ids only a hand-edited file has: not slugs
    Threads,        \* threads that may run an RPC
    None,           \* nobody holds the lock; an optional parameter is absent
    Requests,       \* the RPCs the callers make
    Files,          \* the vault_groups.toml a behaviour may start from
    Folders,        \* the vault folders it may start from
    Kept,           \* what vault_groups.toml.bak may hold at the start: nothing or a file
    Seconds,        \* the seconds a time stamp may name
    Faults,         \* what may go wrong: see FaultKinds
    MaxCalls,       \* bound: RPCs made in a behaviour
    MaxMishaps      \* bound: crashes and folders removed by hand

FaultKinds ==
    { "io",         \* a read or write fails
      "revert",     \* undoing a hidden flag fails
      "exit",       \* the process dies and is started again
      "rmdir" }     \* the user removes a vault folder

Ids == GroupIds \cup HandIds

\* A member list is what trim_vault_ids leaves of it: every path starts with that.
Lists == UNION {SetToSeqs(S) : S \in SUBSET Vaults}

\* What no rule of the groups reads is one field: display name, order, collapsed and
\* the sort of the group.
Looks == {"plain", "changed"}
Group == [id : Ids, hidden : BOOLEAN, look : Looks, members : Lists]

\* An absent file reads as no groups; an unparsable one reads as an error.
FileSpace == [is : {"absent", "corrupt", "valid"}, groups : Seq(Group)]
Valid(gs) == [is |-> "valid", groups |-> gs]
Torn == [is |-> "corrupt", groups |-> <<>>]

\* A vault folder: none, one whose config.toml is missing or invalid, one whose
\* mount path is refused, and a good one.  note counts the saves.
ConfigSpace == [is : {"gone", "broken", "badmount", "good"},
                hidden : BOOLEAN, note : 0..MaxCalls]
Gone == [is |-> "gone", hidden |-> FALSE, note |-> 0]
Broken == [is |-> "broken", hidden |-> FALSE, note |-> 0]
Flagged(c, flag) == [is |-> c.is, hidden |-> flag, note |-> c.note]

RequestSpace ==
    [kind : {"create"}, id : Ids, members : Lists, hidden : BOOLEAN]
      \cup [kind : {"update"}, id : Ids, members : Lists \cup {None},
            hidden : BOOLEAN \cup {None}, look : Looks \cup {None}]
      \cup [kind : {"delete"}, id : Ids]
      \cup [kind : {"reorder"}, ids : SUBSET Ids]
      \cup [kind : {"permute"}, id : Ids, members : Lists]
      \cup [kind : {"repair"}]
      \cup [kind : {"save", "new"}, vault : Vaults, hidden : BOOLEAN]

ASSUME GroupsAssumption ==
    /\ IsFiniteSet(Vaults)
    /\ GroupIds \cap HandIds = {}
    /\ None \notin Threads /\ None \notin BOOLEAN /\ None \notin Looks /\ None \notin Lists
    /\ Requests \subseteq RequestSpace
    /\ Files \subseteq FileSpace /\ Folders \subseteq [Vaults -> ConfigSpace]
    /\ Kept \subseteq SUBSET FileSpace
    /\ Faults \subseteq FaultKinds
    /\ MaxCalls \in Nat /\ MaxMishaps \in Nat

VARIABLES
    file,           \* vault_groups.toml
    bak,            \* what is in vault_groups.toml.bak: nothing or one file
    stamped,        \* second -> what is in the backup that has it in its name
    config,         \* vault -> its config.toml
    lock,           \* who holds GROUPS_WRITE_LOCK
    pc,             \* thread -> the next step of its handler
    req,            \* thread -> the request it serves
    work,           \* thread -> the locals of its group RPC
    stray,          \* vaults whose flag something else set since a cascade last did
    putAside,       \* the files put aside, but for those a repair of the same second lost
    calls, mishaps  \* counted against MaxCalls and MaxMishaps

backups == <<bak, stamped>>
disk == <<file, backups, config>>
threads == <<pc, req, work>>
ghosts == <<stray, putAside>>
bounds == <<calls, mishaps>>
vars == <<disk, lock, threads, ghosts, bounds>>

\* Where a thread is while it holds the lock.
Locked == {"plan", "hide", "hide_write", "save", "backup", "revert", "revert_write"}
Labels == {"idle", "lock", "config_save", "mkdir", "config", "seed"} \cup Locked

Idle == [kind |-> "none"]
NoWork == [next |-> <<>>, targets |-> <<>>, flag |-> FALSE, todo |-> <<>>,
           done |-> <<>>, loaded |-> Gone, old |-> Valid(<<>>),
           before |-> [hidden |-> {}, stray |-> {}]]
Work == [next : Seq(Group), targets : Lists, flag : BOOLEAN, todo : Lists,
         done : Lists, loaded : ConfigSpace, old : FileSpace,
         before : [hidden : SUBSET Vaults, stray : SUBSET Vaults]]

-----------------------------------------------------------------------------
\* Reading and writing the registry.

Has(gs, id) == \E i \in DOMAIN gs : gs[i].id = id
Place(gs, id) ==
    CHOOSE i \in DOMAIN gs : gs[i].id = id /\ \A j \in 1..(i - 1) : gs[j].id # id
At(gs, id) == gs[Place(gs, id)]

\* First group wins; vaults whose folder is gone keep their place.
Soften(gs) ==
    [i \in DOMAIN gs |->
        [gs[i] EXCEPT !.members =
            Without(@, UNION {ToSet(gs[j].members) : j \in 1..(i - 1)})]]

\* The checks of prepare_groups_for_write, after which the file is replaced.
Writable(gs) ==
    /\ \A i \in DOMAIN gs : gs[i].id \in GroupIds
    /\ \A i, j \in DOMAIN gs : i # j =>
          gs[i].id # gs[j].id /\ ToSet(gs[i].members) \cap ToSet(gs[j].members) = {}

\* The vaults leave every group but the one they are put in.
Taken(gs, members) ==
    [i \in DOMAIN gs |-> [gs[i] EXCEPT !.members = Without(@, ToSet(members))]]

Assignable(v) == config[v].is = "good"
Readable(v) == config[v].is \in {"good", "badmount"}
Given(param, current) == IF param = None THEN current ELSE param

-----------------------------------------------------------------------------
\* What each RPC wants of the softened groups gs.

Refused(r, gs) ==
    \/ r.kind = "create" /\ (r.id \notin GroupIds \/ Has(gs, r.id))
    \/ r.kind \in {"update", "delete", "permute"} /\ ~Has(gs, r.id)
    \/ r.kind = "reorder" /\ \E id \in r.ids : ~Has(gs, id)
    \/ r.kind = "permute" /\ Has(gs, r.id) /\ ToSet(r.members) # ToSet(At(gs, r.id).members)
    \/ /\ r.kind \in {"create", "update"} /\ r.members # None
       /\ \E v \in ToSet(r.members) : ~Assignable(v)

Created(r, gs) ==
    Append(Taken(gs, r.members),
           [id |-> r.id, hidden |-> r.hidden, look |-> "plain", members |-> r.members])

Updated(r, gs) ==
    LET members == Given(r.members, At(gs, r.id).members)
        rest == Taken(gs, members)
    IN [i \in DOMAIN gs |->
          IF i # Place(gs, r.id) THEN rest[i]
          ELSE [gs[i] EXCEPT !.members = members, !.hidden = Given(r.hidden, @),
                             !.look = Given(r.look, @)]]

Edited(r, gs) ==
    CASE r.kind = "repair" -> <<>>
      [] r.kind = "create" -> Created(r, gs)
      [] r.kind = "update" -> Updated(r, gs)
      [] r.kind = "delete" -> KeepAt(gs, DOMAIN gs \ {Place(gs, r.id)})
      [] r.kind = "reorder" ->
           [i \in DOMAIN gs |-> IF gs[i].id \in r.ids THEN [gs[i] EXCEPT !.look = "changed"]
                                ELSE gs[i]]
      [] r.kind = "permute" ->
           [i \in DOMAIN gs |-> IF i = Place(gs, r.id) THEN [gs[i] EXCEPT !.members = r.members]
                                ELSE gs[i]]

\* Mutant: a group that stays hidden does not hide its newcomers.
UpdateTargetsOnTurn(r, gs) ==
    LET old == At(gs, r.id)
        new == At(Updated(r, gs), r.id)
        newcomers == Without(new.members, ToSet(old.members))
    IN IF old.hidden # new.hidden THEN old.members \o newcomers
       ELSE IF new.hidden THEN <<>> ELSE newcomers

\* Whom an update hides or shows: everyone touched when the group turns, its members
\* when it stays hidden, the newcomers when it stays visible.
UpdateTargets(r, gs) ==
    LET old == At(gs, r.id)
        new == At(Updated(r, gs), r.id)
        both == old.members \o Without(new.members, ToSet(old.members))
    IN IF old.hidden # new.hidden THEN both
       ELSE IF new.hidden THEN new.members
       ELSE Without(new.members, ToSet(old.members))

\* Mutant: members old and new are chained, not united.
TargetsChained(r, gs) ==
    IF r.kind = "create" THEN r.members
    ELSE IF r.kind = "update" THEN At(gs, r.id).members \o At(Updated(r, gs), r.id).members
    ELSE <<>>

Targets(r, gs) ==
    IF r.kind = "create" THEN r.members
    ELSE IF r.kind = "update" THEN UpdateTargets(r, gs)
    ELSE <<>>

Flag(r, gs) ==
    IF r.kind = "create" THEN r.hidden
    ELSE r.kind = "update" /\ Given(r.hidden, At(gs, r.id).hidden)

-----------------------------------------------------------------------------
\* Moving a thread along.

May(fault) == fault \in Faults
Goto(t, label) == pc' = [pc EXCEPT ![t] = label]
Set(t, field, value) == work' = [work EXCEPT ![t][field] = value]

\* The RPC of t ends, and with it what it had in hand.
Reply(t) ==
    /\ Goto(t, "idle")
    /\ req' = [req EXCEPT ![t] = Idle]
    /\ work' = [work EXCEPT ![t] = NoWork]

\* Mutant: the mutex is not taken.
AcquireNothing(t) ==
    /\ pc[t] = "lock"
    /\ lock' = t

\* lock_groups_write, poisoned or not: no panic leaves anything half done in RAM.
Acquire(t) ==
    /\ pc[t] = "lock"
    /\ lock = None
    /\ lock' = t

Unlock == lock' = None

Now == [hidden |-> {v \in Vaults : config[v].hidden}, stray |-> stray]

\* An error under the lock: what was flipped is flipped back first.
Fail(t) == Goto(t, "revert")

\* The flag of v, the next to do, is as the RPC wants it.
Flipped(t, v) ==
    /\ work' = [work EXCEPT ![t].todo = Tail(@), ![t].done = Append(@, v)]
    /\ stray' = stray \ {v}
    /\ Goto(t, IF Len(work[t].todo) = 1 THEN "save" ELSE "hide")

Init ==
    /\ file \in Files
    /\ bak \in Kept /\ stamped = [s \in Seconds |-> {}]
    /\ config \in Folders
    /\ lock = None
    /\ pc = [t \in Threads |-> "idle"]
    /\ req = [t \in Threads |-> Idle]
    /\ work = [t \in Threads |-> NoWork]
    /\ stray = Vaults
    /\ putAside = bak
    /\ calls = 0
    /\ mishaps = 0

Entry(r) ==
    IF r.kind = "save" THEN "config_save"
    ELSE IF r.kind = "new" THEN "mkdir"
    ELSE "lock"

Call(t) ==
    /\ pc[t] = "idle" /\ calls < MaxCalls
    /\ calls' = calls + 1
    /\ \E r \in Requests :
         /\ req' = [req EXCEPT ![t] = r]
         /\ Goto(t, Entry(r))
    /\ UNCHANGED <<disk, lock, work, ghosts, mishaps>>

-----------------------------------------------------------------------------
\* A group RPC takes the lock, reads the groups and works out what it wants.

Refuse(t) ==
    /\ pc[t] = "lock" /\ lock = None
    /\ \/ May("io")
       \/ file.is = "corrupt" /\ req[t].kind # "repair"
       \/ Refused(req[t], Soften(file.groups))
    /\ Reply(t)
    /\ UNCHANGED <<disk, lock, ghosts, bounds>>

Begun(r, gs) ==
    [next |-> Edited(r, gs), targets |-> Targets(r, gs), flag |-> Flag(r, gs), todo |-> <<>>,
     done |-> <<>>, loaded |-> Gone, old |-> file, before |-> Now]

Start(t) ==
    /\ Acquire(t)
    /\ LET gs == Soften(file.groups)
           r == req[t]
       IN /\ r.kind = "repair" \/ file.is # "corrupt"
          /\ ~Refused(r, gs)
          /\ Goto(t, IF Targets(r, gs) = <<>> THEN "save" ELSE "plan")
          /\ work' = [work EXCEPT ![t] = Begun(r, gs)]
    /\ UNCHANGED <<disk, req, ghosts, bounds>>

Planned(t, flip) ==
    work' = [work EXCEPT ![t].todo = Without(work[t].targets, Vaults \ flip),
                         ![t].before = Now]

\* Every target that has a folder is loaded before the first is written.
Plan(t) ==
    LET w == work[t]
        there == {v \in ToSet(w.targets) : config[v].is # "gone"}
        flip == {v \in there : config[v].hidden # w.flag}
    IN /\ pc[t] = "plan"
       /\ \/ /\ May("io") \/ \E v \in there : ~Readable(v)
             /\ Fail(t)
             /\ UNCHANGED <<work, stray>>
          \/ /\ \A v \in there : Readable(v)
             /\ Planned(t, flip)
             /\ stray' = stray \ (there \ flip)
             /\ Goto(t, IF flip = {} THEN "save" ELSE "hide")
       /\ UNCHANGED <<disk, lock, req, putAside, bounds>>

\* set_vault_hidden, first half: load the config.  A flag that is already right is
\* counted as done.
HideLoad(t) ==
    LET w == work[t]
        v == Head(w.todo)
    IN /\ pc[t] = "hide"
       /\ \/ /\ May("io") \/ ~Readable(v)
             /\ Fail(t)
             /\ UNCHANGED <<work, stray>>
          \/ /\ Readable(v) /\ config[v].hidden # w.flag
             /\ Set(t, "loaded", config[v])
             /\ Goto(t, "hide_write")
             /\ UNCHANGED stray
          \/ /\ Readable(v) /\ config[v].hidden = w.flag
             /\ Flipped(t, v)
       /\ UNCHANGED <<disk, lock, req, putAside, bounds>>

\* Mutant: the error leaves at once, and the list of what was flipped with it.
HideWriteForgetting(t) ==
    LET w == work[t]
        v == Head(w.todo)
    IN /\ pc[t] = "hide_write"
       /\ \/ /\ May("io") \/ config[v].is = "gone"
             /\ Fail(t)
             /\ Set(t, "done", <<>>)
             /\ UNCHANGED <<config, stray>>
          \/ /\ config[v].is # "gone"
             /\ config' = [config EXCEPT ![v] = Flagged(w.loaded, w.flag)]
             /\ Flipped(t, v)
       /\ UNCHANGED <<file, backups, lock, req, putAside, bounds>>

\* Second half: write the loaded config back with the new flag.
HideWrite(t) ==
    LET w == work[t]
        v == Head(w.todo)
    IN /\ pc[t] = "hide_write"
       /\ \/ /\ May("io") \/ config[v].is = "gone"
             /\ Fail(t)
             /\ UNCHANGED <<config, work, stray>>
          \/ /\ config[v].is # "gone"
             /\ config' = [config EXCEPT ![v] = Flagged(w.loaded, w.flag)]
             /\ Flipped(t, v)
       /\ UNCHANGED <<file, backups, lock, req, putAside, bounds>>

\* save_vault_groups: validate and replace the file.  Only repair has more to do.
Save(t) ==
    LET w == work[t] IN
    /\ pc[t] = "save"
    /\ \/ /\ May("io") \/ ~Writable(w.next)
          /\ Fail(t)
          /\ UNCHANGED <<file, req, work, lock>>
       \/ /\ Writable(w.next)
          /\ file' = Valid(w.next)
          /\ IF req[t].kind = "repair" /\ w.old.is # "absent"
             THEN Goto(t, "backup") /\ UNCHANGED <<req, work, lock>>
             ELSE Reply(t) /\ Unlock
    /\ UNCHANGED <<backups, config, ghosts, bounds>>

\* Mutant: toml.bak is written whether or not it exists.
WriteBackupOver(content, aside) ==
    /\ bak' = {content} /\ UNCHANGED stamped
    /\ putAside' = putAside \cup aside

\* fs::write of a backup: to toml.bak, or to a stamped name when there is one already.
\* The stamp is of a whole second, and what had the name is lost.
WriteBackup(content, aside) ==
    \/ /\ bak = {}
       /\ bak' = {content} /\ UNCHANGED stamped
       /\ putAside' = putAside \cup aside
    \/ /\ bak # {}
       /\ \E s \in Seconds :
             /\ stamped' = [stamped EXCEPT ![s] = {content}]
             /\ putAside' = (putAside \ (stamped[s] \ bak)) \cup aside
       /\ UNCHANGED bak

\* Repair puts the old file aside; if that fails, with or without a torn file left
\* behind, it still answers ok.
Backup(t) ==
    LET old == work[t].old IN
    /\ pc[t] = "backup"
    /\ \/ WriteBackup(old, {old})
       \/ May("io") /\ WriteBackup(Torn, {})
       \/ May("io") /\ UNCHANGED <<backups, putAside>>
    /\ Reply(t) /\ Unlock
    /\ UNCHANGED <<file, config, stray, bounds>>

\* revert_vault_hidden: in reverse order, one load and one save each, errors ignored.
\* What was flipped to a flag had the other one.
RevertLoad(t) ==
    LET w == work[t]
        v == Last(w.done)
    IN /\ pc[t] = "revert" /\ w.done # <<>>
       /\ \/ /\ ~Readable(v) \/ config[v].hidden # w.flag
             /\ Set(t, "done", Front(w.done))
             /\ UNCHANGED <<pc, stray>>
          \/ /\ May("revert")
             /\ Set(t, "done", Front(w.done))
             /\ stray' = stray \cup {v}
             /\ UNCHANGED pc
          \/ /\ Readable(v) /\ config[v].hidden = w.flag
             /\ Set(t, "loaded", config[v])
             /\ Goto(t, "revert_write")
             /\ UNCHANGED stray
       /\ UNCHANGED <<disk, lock, req, putAside, bounds>>

RevertWrite(t) ==
    LET w == work[t]
        v == Last(w.done)
    IN /\ pc[t] = "revert_write"
       /\ \/ /\ config[v].is # "gone"
             /\ config' = [config EXCEPT ![v] = Flagged(w.loaded, ~w.flag)]
             /\ UNCHANGED stray
          \/ /\ May("revert") \/ config[v].is = "gone"
             /\ stray' = stray \cup {v}
             /\ UNCHANGED config
       /\ Set(t, "done", Front(w.done))
       /\ Goto(t, "revert")
       /\ UNCHANGED <<file, backups, lock, req, putAside, bounds>>

RevertDone(t) ==
    /\ pc[t] = "revert" /\ work[t].done = <<>>
    /\ stray' = stray \cup work[t].before.stray
    /\ Reply(t) /\ Unlock
    /\ UNCHANGED <<disk, putAside, bounds>>

-----------------------------------------------------------------------------
\* The RPCs that write a config.toml without the lock.

\* vault_config_save: the caller's config replaces the file, hidden flag included.
ConfigSave(t) ==
    LET v == req[t].vault IN
    /\ pc[t] = "config_save"
    /\ \/ /\ May("io") \/ ~Readable(v)
          /\ UNCHANGED <<config, stray>>
       \/ /\ Readable(v)
          /\ config' = [config EXCEPT ![v] = [is |-> "good", hidden |-> req[t].hidden,
                                              note |-> calls]]
          /\ stray' = IF req[t].hidden # config[v].hidden THEN stray \cup {v} ELSE stray
    /\ Reply(t)
    /\ UNCHANGED <<file, backups, lock, putAside, bounds>>

\* vault_create makes the folder, then the config, then the rest; when that fails it
\* removes the folder again.
Mkdir(t) ==
    LET v == req[t].vault IN
    /\ pc[t] = "mkdir"
    /\ \/ /\ config[v].is = "gone"
          /\ config' = [config EXCEPT ![v] = Broken]
          /\ Goto(t, "config")
          /\ UNCHANGED <<req, work>>
       \/ /\ May("io") \/ config[v].is # "gone"
          /\ Reply(t)
          /\ UNCHANGED config
    /\ UNCHANGED <<file, backups, lock, ghosts, bounds>>

NewConfig(t) ==
    LET v == req[t].vault IN
    /\ pc[t] = "config"
    /\ \/ /\ May("io") \/ config[v].is = "gone"
          /\ config' = [config EXCEPT ![v] = Gone]
          /\ Reply(t)
          /\ UNCHANGED stray
       \/ /\ config[v].is # "gone"
          /\ config' = [config EXCEPT ![v] = [is |-> "good", hidden |-> req[t].hidden,
                                              note |-> calls]]
          /\ stray' = stray \cup {v}
          /\ Goto(t, "seed")
          /\ UNCHANGED <<req, work>>
    /\ UNCHANGED <<file, backups, lock, putAside, bounds>>

Seed(t) ==
    LET v == req[t].vault IN
    /\ pc[t] = "seed"
    /\ \/ UNCHANGED config
       \/ /\ May("io") \/ config[v].is = "gone"
          /\ config' = [config EXCEPT ![v] = Gone]
    /\ Reply(t)
    /\ UNCHANGED <<file, backups, lock, ghosts, bounds>>

-----------------------------------------------------------------------------
\* The process dies and is started again: the disk stays as it is.
Exit ==
    /\ May("exit") /\ mishaps < MaxMishaps
    /\ mishaps' = mishaps + 1
    /\ lock' = None
    /\ pc' = [t \in Threads |-> "idle"]
    /\ req' = [t \in Threads |-> Idle]
    /\ work' = [t \in Threads |-> NoWork]
    /\ stray' = stray \cup UNION {work[t].before.stray \cup ToSet(work[t].done)
                                    : t \in Threads}
    /\ UNCHANGED <<disk, putAside, calls>>

\* The user removes a vault folder; its place in a group is kept.
RemoveFolder(v) ==
    /\ May("rmdir") /\ mishaps < MaxMishaps
    /\ config[v].is # "gone"
    /\ mishaps' = mishaps + 1
    /\ config' = [config EXCEPT ![v] = Gone]
    /\ UNCHANGED <<file, backups, lock, threads, ghosts, calls>>

\* All calls of the bound are made and answered.
Rest ==
    /\ calls = MaxCalls /\ \A t \in Threads : pc[t] = "idle"
    /\ UNCHANGED vars

Next ==
    \/ \E t \in Threads :
          \/ Call(t) \/ Refuse(t) \/ Start(t) \/ Plan(t) \/ HideLoad(t) \/ HideWrite(t)
          \/ Save(t) \/ Backup(t) \/ RevertLoad(t) \/ RevertWrite(t) \/ RevertDone(t)
          \/ ConfigSave(t) \/ Mkdir(t) \/ NewConfig(t) \/ Seed(t)
    \/ Exit
    \/ \E v \in Vaults : RemoveFolder(v)
    \/ Rest

Spec == Init /\ [][Next]_vars

-----------------------------------------------------------------------------
\* WHAT HOLDS

\* One type invariant; a thread is between two steps of a group RPC exactly while it
\* holds the lock.
TypeOK ==
    /\ file \in FileSpace
    /\ bak \subseteq FileSpace /\ stamped \in [Seconds -> SUBSET FileSpace]
    /\ config \in [Vaults -> ConfigSpace]
    /\ pc \in [Threads -> Labels]
    /\ req \in [Threads -> RequestSpace \cup {Idle}]
    /\ work \in [Threads -> Work]
    /\ stray \subseteq Vaults
    /\ putAside \subseteq FileSpace
    /\ calls \in 0..MaxCalls /\ mishaps \in 0..MaxMishaps
    /\ \A t \in Threads : pc[t] \in Locked <=> lock = t

\* Whatever a cascade has last set is in line with the groups: the members of a hidden
\* group are hidden, through failures, reverts, crashes and retries
\* (vault_groups/mod.rs:746-787, the two cascades of an update and their revert).
HiddenGroupsHideMembers ==
    lock = None =>
        \A i \in DOMAIN file.groups : LET g == Soften(file.groups)[i] IN
            g.hidden => \A v \in ToSet(g.members) \ stray : Readable(v) => config[v].hidden

\* An RPC that fails leaves every flag as it found it, but for those it could not set
\* back or somebody else has set (vault_groups/mod.rs:161 and :589, the reverts).
FailedLeavesNoTrace ==
    \A t \in Threads : pc[t] = "revert" /\ work[t].done = <<>> =>
        \A v \in Vaults \ stray :
            Readable(v) => (config[v].hidden <=> v \in work[t].before.hidden)

\* A repair never costs what an earlier one put aside, nor what toml.bak held before:
\* one name is written over only when two repairs beside a toml.bak fall into one
\* second (vault_groups/mod.rs:462-470, the .bak that exists already and the stamp).
BackupsAccumulate == putAside \subseteq bak \cup UNION {stamped[s] : s \in Seconds}

\* The groups as every RPC reads them.
Groups ==
    LET gs == file.groups IN
    [id \in {gs[i].id : i \in DOMAIN gs} |->
        LET g == Soften(gs)[Place(gs, id)]
        IN [hidden |-> g.hidden, members |-> g.members]]

\* The registry keeps the promises of GroupRegistry, whoever runs concurrently: no
\* vault in two groups, no membership changed by an RPC that was not asked to, none
\* dropped because its folder is gone, no update lost (vault_groups/mod.rs:32 and
\* :322, the lock and soften_groups_for_mutate).
Promise == INSTANCE GroupRegistry WITH groups <- Groups
ImplementsRegistry == Promise!Spec

-----------------------------------------------------------------------------
\* WHAT A COMMENT CLAIMS AND THE CODE DOES NOT KEEP

\* vault_config/mod.rs:147: "Set `[vault].hidden`.  Returns whether the flag changed."
\* Hiding or showing a group sets that flag of its members and nothing else: what a
\* vault_config_save has written is not written over with what was there before it.
SavesAreKept ==
    [][\A v \in Vaults : config'[v].is # "gone" => config'[v].note >= config[v].note]_vars
=============================================================================
