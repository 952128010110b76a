----------------------------- MODULE SessionLog -----------------------------
(***************************************************************************)
(* The log files of a vault root, .upriv/logs: crates/upriv-core/src/      *)
(* logging/writer.rs (one file `current-<seq>-<stamp>`, archived by a      *)
(* rename when it is full, pruned by a budget of lines) and session.rs     *)
(* (one Logger per process, replaced when the settings change).            *)
(*                                                                         *)
(* Every access to the directory is a step: the daemon may end between two *)
(* of them, the other thread may delete a file, and a thread that took the *)
(* replaced Logger still writes through it, under a mutex of its own.      *)
(* A line is the number it gets when it reaches the disk: a greater number *)
(* is a younger line, for a Logger writes its lines in their order.        *)
(***************************************************************************)
EXTENDS Naturals, Sequences, FiniteSetsExt, Functions

CONSTANTS
    Threads,        \* threads of the daemon that log
    Settings,       \* [entries, keep]: values of the [logging] settings
    MaxLines,       \* bound: lines logged
    MaxLoggers,     \* bound: Loggers a process installs
    MaxSecond,      \* bound: seconds that pass (the stamp of a file name)
    MaxUpsets       \* bound: file operations that fail, files the user deletes and
                    \* ends of the process, together

ASSUME LogAssumption ==
    /\ {MaxLines, MaxLoggers, MaxSecond, MaxUpsets} \subseteq Nat
    /\ IsFiniteSet(Settings) /\ Settings # {}
    /\ \A s \in Settings : s.entries \in Nat \ {0} /\ s.keep \in Nat

VARIABLES
    dir,            \* name -> file: the directory
    data,           \* file -> the lines in it, of unlinked files too
    session,        \* the Logger of the process, 0 when there is none
    config,         \* Logger -> the settings it was opened with
    active,         \* Logger -> its ActiveFile, or NoFile
    call,           \* thread -> the call it is in
    second,         \* the clock
    used,           \* how much of each bound is used
    owed,           \* history: lines that have reached the disk and must be there
    overlap,        \* history: two Loggers have been at work and no open since
    cut,            \* history: prunings cut short since the last that ran to its end
    strayed         \* history: two Loggers have been at work and no such pruning since

process == <<session, config, active, call>>
disk == <<dir, data>>
budget == <<cut, strayed>>
vars == <<disk, process, second, used, owed, overlap, budget>>

Loggers == 1..MaxLoggers
Names == [current : BOOLEAN, seq : Nat, stamp : 0..MaxSecond]
NoFile == [file |-> 0]
Idle == [at |-> "idle"]
Unset == [entries |-> 0, keep |-> 0]

TypeOK ==
    /\ DOMAIN dir \subseteq Names
    /\ \A n \in DOMAIN dir : dir[n] \in DOMAIN data
    /\ IsInjective(dir)
    /\ used \in [calls : 0..MaxLines, lines : Nat, upsets : Nat]
    /\ data \in Seq(Seq(1..used.lines))
    /\ session \in 0..MaxLoggers
    /\ \A g \in Loggers : config[g] \in IF g <= session THEN Settings ELSE {Unset}
    /\ \A g \in Loggers :
          active[g] = NoFile \/ (active[g].name \in Names /\ active[g].ram \in Nat)
    /\ \A t \in Threads : call[t] = Idle \/ call[t].logger \in 0..session
    /\ owed \subseteq 1..used.lines

(***************************************************************************)
(* The directory.                                                          *)
(***************************************************************************)
Currents == {n \in DOMAIN dir : n.current}
Archives == DOMAIN dir \ Currents
Content(n) == data[dir[n]]
LinesIn(n) == Range(Content(n))
OnDisk == UNION {LinesIn(n) : n \in DOMAIN dir}
Archived(n) == [n EXCEPT !.current = FALSE]
Highest(names) == {n \in names : \A m \in names : m.seq <= n.seq}
Lowest(names) == {n \in names : \A m \in names : n.seq <= m.seq}

Unlinked(n) == Restrict(dir, DOMAIN dir \ {n})

\* rename(2): what had the new name is gone
Renamed(from, to) == [n \in (DOMAIN dir \ {from}) \cup {to} |-> dir[IF n = to THEN from ELSE n]]

\* Mutant: the archives are not looked at.
NextSeqOfCurrents ==
    IF Currents = {} THEN 1 ELSE 1 + (CHOOSE n \in Highest(Currents) : TRUE).seq
NextSeq == IF dir = <<>> THEN 1 ELSE 1 + (CHOOSE n \in Highest(DOMAIN dir) : TRUE).seq

LineCount(names) == Cardinality(UNION {{n} \X DOMAIN Content(n) : n \in names})

Init ==
    /\ dir = <<>> /\ data = <<>>
    /\ session = 0
    /\ config = [g \in Loggers |-> Unset]
    /\ active = [g \in Loggers |-> NoFile]
    /\ call = [t \in Threads |-> Idle]
    /\ second = 0
    /\ used = [calls |-> 0, lines |-> 0, upsets |-> 0]
    /\ owed = {}
    /\ overlap = FALSE
    /\ cut = 0 /\ strayed = FALSE

(***************************************************************************)
(* A call of log_event, and what it holds.  at: "lock" waits for the mutex *)
(* of the Logger, "remove" deletes a file, any other value holds the       *)
(* mutex.  install: the line is logging_reconfigure, written under the     *)
(* mutex of the session.  crossed: its file was deleted under it.          *)
(***************************************************************************)
Logging(g, installs) ==
    [at |-> "lock", logger |-> g, install |-> installs, again |-> FALSE, seq |-> 0,
     doomed |-> <<>>, crossed |-> FALSE]

At(t, places) == call[t].at \in places
Writer(t) == active[call[t].logger]
Limits(t) == config[call[t].logger]
Locked(g) == \E t \in Threads : ~At(t, {"idle", "lock", "remove"}) /\ call[t].logger = g
SessionFree == \A t \in Threads : ~At(t, {"idle", "remove"}) => ~call[t].install
Superseded(t) == ~At(t, {"idle", "remove"}) /\ call[t].logger # session

Goto(t, place) == call' = [call EXCEPT ![t].at = place]
\* the mutex is released; the line that caused a reconfiguration comes next
Return(t) == call' = [call EXCEPT ![t] = IF @.install THEN Logging(@.logger, FALSE) ELSE Idle]
SetWriter(t, writer) == active' = [active EXCEPT ![call[t].logger] = writer]
Drop(t) == SetWriter(t, NoFile) /\ Return(t)
Use(bound) == used' = [used EXCEPT ![bound] = @ + 1]

\* ensure_logging_session, with the [logging] settings it finds on disk: the Logger of
\* the session, or a new one
Log(t) ==
    /\ At(t, {"idle"}) /\ SessionFree /\ used.calls < MaxLines /\ session # 0
    /\ Use("calls")
    /\ call' = [call EXCEPT ![t] = Logging(session, FALSE)]
    /\ UNCHANGED <<disk, session, config, active, second, owed, overlap, budget>>

\* Mutant: the new Logger is used and not kept as that of the session.
InstallUnkept(t) ==
    /\ At(t, {"idle"}) /\ SessionFree /\ used.calls < MaxLines
    /\ session < MaxLoggers /\ ~Locked(session)
    /\ \E s \in Settings : config' = [config EXCEPT ![session + 1] = s]
    /\ call' = [call EXCEPT ![t] = Logging(session + 1, session # 0)]
    /\ Use("calls")
    /\ UNCHANGED <<disk, session, active, second, owed, overlap, budget>>

Install(t) ==
    LET late == \E u \in Threads : ~At(u, {"idle", "remove"}) IN
    /\ At(t, {"idle"}) /\ SessionFree /\ used.calls < MaxLines
    /\ session < MaxLoggers /\ ~Locked(session)
    /\ session' = session + 1
    /\ \E s \in Settings :
          /\ session # 0 => s # config[session]
          /\ config' = [config EXCEPT ![session'] = s]
    /\ call' = [call EXCEPT ![t] = Logging(session', session # 0)]
    /\ active' = [g \in Loggers |-> IF late THEN active[g] ELSE NoFile]
    /\ Use("calls")
    /\ overlap' = (overlap \/ late)
    /\ strayed' = (strayed \/ late)
    /\ UNCHANGED <<disk, second, owed, cut>>

(***************************************************************************)
(* write_line_locked.                                                      *)
(***************************************************************************)
Full(t, writer) == ~call[t].again /\ writer.index >= Limits(t).entries
Ready(t, writer) == IF Full(t, writer) THEN "rotate" ELSE "write"
\* Mutant: the path is not looked at.
LinkedUnchecked(writer) == writer # NoFile
Linked(writer) == writer # NoFile /\ writer.name \in DOMAIN dir

Enter(t) ==
    /\ At(t, {"lock"}) /\ ~Locked(call[t].logger)
    /\ IF Linked(Writer(t))
       THEN Goto(t, Ready(t, Writer(t))) /\ UNCHANGED active
       ELSE Goto(t, "open") /\ SetWriter(t, NoFile)
    /\ UNCHANGED <<disk, session, config, second, used, owed, overlap, budget>>

\* the file to resume, when there are several of the highest number any of them
Resumable == Highest(Currents)

\* try_resume_current: all but one of the current files are archived
ArchiveStale(t) ==
    /\ At(t, {"open"}) /\ Cardinality(Currents) > 1
    /\ \E keep \in Resumable : \E n \in Lowest(Currents \ {keep}) :
          dir' = Renamed(n, Archived(n))
    /\ UNCHANGED <<data, process, second, used, owed, overlap, budget>>

\* a Logger alone at work has the only current file, numbered above all others
Alone == \A t \in Threads : ~Superseded(t)
Above(seq, names) == \A n \in names : ~n.current /\ n.seq < seq
Heal(seq, others) == overlap' = (overlap /\ ~(Alone /\ Above(seq, others)))

\* Mutant: the lines are not counted.
ResumedAtZero(n) ==
    [name |-> n, file |-> dir[n], index |-> 0, append |-> TRUE, pos |-> 0, ram |-> 0]
Resumed(n) ==
    [name |-> n, file |-> dir[n], index |-> Len(Content(n)), append |-> TRUE, pos |-> 0,
     ram |-> 0]

Resume(t) ==
    /\ At(t, {"open"}) /\ Cardinality(Currents) = 1
    /\ \E n \in Currents :
          /\ SetWriter(t, Resumed(n))
          /\ Goto(t, Ready(t, Resumed(n)))
          /\ Heal(n.seq, Archives)
    /\ UNCHANGED <<disk, session, config, second, used, owed, budget>>

\* next_sequence_number
Number(t) ==
    /\ At(t, {"open"}) /\ Currents = {}
    /\ call' = [call EXCEPT ![t].at = "create", ![t].seq = NextSeq]
    /\ UNCHANGED <<disk, session, config, active, second, used, owed, overlap, budget>>

\* create_active_file: the name must be new
FreshName(t) == [current |-> TRUE, seq |-> call[t].seq, stamp |-> second]
Created(t) ==
    LET n == FreshName(t) IN
    /\ n \notin DOMAIN dir
    /\ data' = Append(data, <<>>)
    /\ dir' = [m \in DOMAIN dir \cup {n} |-> IF m = n THEN Len(data) + 1 ELSE dir[m]]
    /\ SetWriter(t, [name |-> n, file |-> Len(data) + 1, index |-> 0, append |-> FALSE,
                     pos |-> 0, ram |-> 0])
    /\ Goto(t, "write")

Create(t) ==
    /\ At(t, {"create"})
    /\ \/ Created(t) /\ Heal(call[t].seq, DOMAIN dir)
       \/ FreshName(t) \in DOMAIN dir /\ Drop(t) /\ UNCHANGED <<disk, overlap>>
    /\ UNCHANGED <<session, config, second, used, owed, budget>>

(***************************************************************************)
(* rotate_active: flush (Flush), archive the full file, prune, make the    *)
(* next; when that fails the archive becomes the current file again.       *)
(***************************************************************************)
Rotate(t) ==
    /\ At(t, {"rotate"}) /\ Writer(t).ram = 0
    /\ \/ /\ Writer(t).name \in DOMAIN dir
          /\ dir' = Renamed(Writer(t).name, Archived(Writer(t).name))
          /\ Goto(t, "prune")
          /\ UNCHANGED active
       \/ Writer(t).name \notin DOMAIN dir /\ Drop(t) /\ UNCHANGED dir
    /\ UNCHANGED <<data, session, config, second, used, owed, overlap, budget>>

\* prune_old_files reads the directory: the archives to remove, oldest first
InSequence(names) ==
    {f \in [1..Cardinality(names) -> names] :
        IsInjective(f) /\ \A i, j \in DOMAIN f : i < j => f[i].seq <= f[j].seq}
\* Mutant: one file more is left.
DoomedButOne(files, keep) ==
    LET From(i) == LineCount({files[j] : j \in i..Len(files)})
        excess == {i \in DOMAIN files : keep # 0 /\ From(i + 1) > keep}
    IN SubSeq(files, 1, Cardinality(excess))
Doomed(files, keep) ==
    LET From(i) == LineCount({files[j] : j \in i..Len(files)})
        excess == {i \in DOMAIN files : keep # 0 /\ From(i) > keep}
    IN SubSeq(files, 1, Cardinality(excess))

\* a line may go when it and what is younger exceed the budget
Spent(l, n, keep) ==
    Cardinality({k \in OnDisk : k > l}) + Cardinality({k \in LinesIn(n) : k <= l}) > keep

\* a pruning has run to its end, beside no other Logger, or has not
PruningEnds ==
    /\ cut' = IF overlap THEN cut ELSE 0
    /\ strayed' = (strayed /\ overlap)
PruningCut == cut' = cut + 1 /\ UNCHANGED strayed
PruningGoesOn == UNCHANGED budget
Pruning(t) == At(t, {"prune"}) \/ (At(t, {"roll"}) /\ call[t].doomed # <<>>)

PlanPrune(t) ==
    LET keep == Limits(t).keep IN
    /\ At(t, {"prune"})
    /\ \E files \in InSequence(Archives) :
          call' = [call EXCEPT ![t].at = "roll", ![t].seq = Writer(t).name.seq + 1,
                               ![t].doomed = Doomed(files, keep)]
    /\ owed' = {l \in owed : \A n \in Range(call'[t].doomed) :
                                l \in LinesIn(n) => ~Spent(l, n, keep)}
    /\ IF call'[t].doomed = <<>> THEN PruningEnds ELSE PruningGoesOn
    /\ UNCHANGED <<disk, session, config, active, second, used, overlap>>

PruneOne(t) ==
    LET n == Head(call[t].doomed) IN
    /\ At(t, {"roll"}) /\ call[t].doomed # <<>>
    /\ \/ /\ n \in DOMAIN dir
          /\ dir' = Unlinked(n)
          /\ call' = [call EXCEPT ![t].doomed = Tail(@)]
          /\ IF Len(call[t].doomed) = 1 THEN PruningEnds ELSE PruningGoesOn
       \/ /\ n \notin DOMAIN dir
          /\ call' = [call EXCEPT ![t].doomed = <<>>]
          /\ PruningCut
          /\ UNCHANGED dir
    /\ UNCHANGED <<data, session, config, active, second, used, owed, overlap>>

Roll(t) ==
    /\ At(t, {"roll"}) /\ call[t].doomed = <<>>
    /\ \/ Created(t)
       \/ FreshName(t) \in DOMAIN dir /\ Goto(t, "rollback") /\ UNCHANGED <<disk, active>>
    /\ UNCHANGED <<session, config, second, used, owed, overlap, budget>>

Rollback(t) ==
    LET n == Writer(t).name
        back == Archived(n)
    IN
    /\ At(t, {"rollback"})
    /\ \/ /\ back \in DOMAIN dir
          /\ dir' = Renamed(back, n)
          /\ SetWriter(t, [Resumed(back) EXCEPT !.name = n])
          /\ Goto(t, "write")
          /\ UNCHANGED used
       \/ /\ back \in DOMAIN dir /\ used.upsets < MaxUpsets
          /\ dir' = Renamed(back, n)         \* and the file cannot be opened again
          /\ Drop(t)
          /\ Use("upsets")
       \/ back \notin DOMAIN dir /\ Drop(t) /\ UNCHANGED <<dir, used>>
    /\ UNCHANGED <<data, session, config, second, owed, overlap, budget>>

(***************************************************************************)
(* The line itself.  A file this process made is not open for append: the  *)
(* line goes where its last one ended.  The lines go through a BufWriter:  *)
(* the errors of its flushes are dropped, and ram is the number of lines   *)
(* that it still holds.                                                    *)
(***************************************************************************)
Put(lines, writer, l) ==
    IF writer.append THEN Append(lines, l)
    ELSE [i \in DOMAIN lines \cup {writer.pos + 1} |->
            IF i = writer.pos + 1 THEN l ELSE lines[i]]
NextPos(writer) == IF writer.append THEN 0 ELSE writer.pos + 1

NewLine == used.lines + 1
OnDiskFrom(writer) ==
    /\ data' = [data EXCEPT ![writer.file] = Put(@, writer, NewLine)]
    /\ Use("lines")

Write(t) ==
    LET w == Writer(t) IN
    /\ At(t, {"write"}) /\ w.ram = 0
    /\ OnDiskFrom(w)
    /\ SetWriter(t, [w EXCEPT !.index = @ + 1, !.pos = NextPos(w)])
    /\ owed' = IF overlap \/ call[t].crossed THEN owed ELSE owed \cup {NewLine}
    /\ Return(t)
    /\ UNCHANGED <<dir, session, config, second, overlap, budget>>

\* the flush after the line fails: the call returns Ok and the line is in ram only
WriteUnflushed(t) ==
    /\ At(t, {"write"}) /\ used.upsets < MaxUpsets
    /\ SetWriter(t, [Writer(t) EXCEPT !.index = @ + 1, !.ram = @ + 1])
    /\ Use("upsets")
    /\ Return(t)
    /\ UNCHANGED <<disk, session, config, second, owed, overlap, budget>>

\* A later flush has the first line of ram on disk: that of the next line, which waits for
\* it, of a rotation, which waits too, of Logger::flush, and of the drop of a handle or a
\* Logger.  What a dropped handle still has in ram is lost.
Flush(g) ==
    LET w == active[g] IN
    /\ g = session \/ \E t \in Threads : Superseded(t) /\ call[t].logger = g
    /\ w # NoFile /\ w.ram # 0
    /\ OnDiskFrom(w)
    /\ active' = [active EXCEPT ![g] = [w EXCEPT !.ram = @ - 1, !.pos = NextPos(w)]]
    /\ owed' = IF overlap \/ ~Linked(w) THEN owed ELSE owed \cup {NewLine}
    /\ UNCHANGED <<dir, session, config, call, second, overlap, budget>>

(***************************************************************************)
(* A file operation fails.  When the line does not even fit in the buffer  *)
(* it is tried once more, on a file opened again and without a look at its *)
(* length.                                                                 *)
(***************************************************************************)
Fail(t) ==
    /\ used.upsets < MaxUpsets
    /\ Use("upsets")
    /\ \/ At(t, {"open", "create", "rotate", "rollback"}) /\ Drop(t)
       \/ At(t, {"remove"}) /\ call' = [call EXCEPT ![t] = Idle] /\ UNCHANGED active
       \/ At(t, {"roll"}) /\ call[t].doomed # <<>>
          /\ call' = [call EXCEPT ![t].doomed = <<>>] /\ UNCHANGED active
       \/ At(t, {"roll"}) /\ call[t].doomed = <<>> /\ Goto(t, "rollback") /\ UNCHANGED active
       \/ At(t, {"write"}) /\ ~call[t].again
          /\ call' = [call EXCEPT ![t].at = "open", ![t].again = TRUE]
          /\ SetWriter(t, NoFile)
       \/ At(t, {"write"}) /\ call[t].again
          /\ SetWriter(t, [Writer(t) EXCEPT !.index = @ + 1]) /\ Return(t)
    /\ IF Pruning(t) THEN PruningCut ELSE PruningGoesOn
    /\ UNCHANGED <<disk, session, config, second, owed, overlap>>

(***************************************************************************)
(* delete_session_log_files: the Logger lets go of its file, then the      *)
(* files are removed; lines may be written in between.                     *)
(***************************************************************************)
Releases(g, names) == active[g] # NoFile /\ active[g].name \in names

Release(t) ==
    /\ At(t, {"idle"}) /\ SessionFree /\ used.upsets < MaxUpsets /\ ~Locked(session)
    /\ Use("upsets")
    /\ \E names \in SUBSET DOMAIN dir \ {{}} :
          /\ call' = [call EXCEPT ![t] = [at |-> "remove", logger |-> session, names |-> names]]
          /\ active' = [g \in Loggers |->
                          IF g = session /\ Releases(g, names) THEN NoFile ELSE active[g]]
    /\ UNCHANGED <<disk, session, config, second, owed, overlap, budget>>

Removed(t, names) == IF names = {} THEN Idle ELSE [call[t] EXCEPT !.names = names]

Remove(t) ==
    /\ At(t, {"remove"})
    /\ \E n \in call[t].names :
       LET Crosses(u) == At(u, {"write"}) /\ n \in DOMAIN dir /\ Writer(u).file = dir[n] IN
       /\ dir' = Unlinked(n)
       /\ owed' = IF n \in DOMAIN dir THEN owed \ LinesIn(n) ELSE owed
       /\ call' = [u \in Threads |-> IF u = t THEN Removed(t, call[t].names \ {n})
                                     ELSE IF Crosses(u) THEN [call[u] EXCEPT !.crossed = TRUE]
                                     ELSE call[u]]
    /\ UNCHANGED <<data, session, config, active, second, used, overlap, budget>>

Tick ==
    /\ second < MaxSecond
    /\ second' = second + 1
    /\ UNCHANGED <<disk, process, used, owed, overlap, budget>>

\* the process ends, whatever its threads are in the middle of; another starts
Crash ==
    /\ used.upsets < MaxUpsets
    /\ Use("upsets")
    /\ session' = 0
    /\ config' = [g \in Loggers |-> Unset]
    /\ active' = [g \in Loggers |-> NoFile]
    /\ call' = [t \in Threads |-> Idle]
    /\ IF \E t \in Threads : Pruning(t) THEN PruningCut ELSE PruningGoesOn
    /\ UNCHANGED <<disk, second, owed, overlap>>

Call(t) ==
    \/ Log(t) \/ Install(t) \/ Enter(t) \/ ArchiveStale(t) \/ Resume(t) \/ Number(t)
    \/ Create(t) \/ Rotate(t) \/ PlanPrune(t) \/ PruneOne(t) \/ Roll(t) \/ Rollback(t)
    \/ Write(t) \/ WriteUnflushed(t) \/ Fail(t) \/ Release(t) \/ Remove(t)

Next == Tick \/ Crash \/ (\E g \in Loggers : Flush(g)) \/ \E t \in Threads : Call(t)

Spec == Init /\ [][Next]_vars

(***************************************************************************)
(* Properties.                                                             *)
(***************************************************************************)

\* A line that has reached the disk is in a file of the directory, through rotations,
\* crashes between their renames, failed operations and changes of settings, unless the
\* user deleted its file or the budget had no room for it.  A line whose flush failed is
\* not among them before a later flush has it there (write_line_locked, rotate_active and
\* its rollback, prune_old_files).
LinesKept == owed \subseteq OnDisk

\* The numbers of the files follow the age of their lines, whichever process
\* and Logger wrote them: prune_old_files, which goes by the numbers, removes
\* the oldest (next_sequence_number, try_resume_current, rotate_active).
FilesInAgeOrder ==
    \A m, n \in DOMAIN dir : m.seq < n.seq =>
        \A k \in LinesIn(m) \cap owed, l \in LinesIn(n) \cap owed : k < l

\* There is one current file at most, and the Logger never takes its file for
\* shorter than it is; two of them, left by two Loggers at work, are brought
\* back to one by the next open (try_resume_current, count_lines).
ActiveFileKnown ==
    ~overlap =>
        /\ Cardinality(Currents) <= 1
        /\ \A g \in Loggers : g = session /\ Linked(active[g]) /\ dir[active[g].name] = active[g].file
              => active[g].index >= Len(Content(active[g].name))

\* The directory holds the budget and one growing file, and one file more for each
\* pruning cut short since the last that ran to its end.  Two Loggers at work may undo
\* each other's prunings; the first that one Logger then runs to its end restores the
\* bound (rotate_active, prune_old_files, effective_entries_per_file).
MostEntries == Max({s.entries : s \in Settings})
MostKept == Max({s.keep : s \in Settings})
DiskBound ==
    ~strayed /\ (\A s \in Settings : s.keep # 0) =>
        LineCount(DOMAIN dir) <= MostKept + MostEntries * (1 + cut)
=============================================================================
