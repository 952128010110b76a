--------------------------- MODULE SessionLogProofs ---------------------------
(***************************************************************************)
(* What TLAPS proves of SessionLog for every set of threads and settings   *)
(* and every bound.                                                        *)
(*                                                                         *)
(* The argument: a file that bears a line that must be kept (is owed) has  *)
(* a number of its own, below the current files, and its owed lines are    *)
(* older than what is in the files above it (Ranked).  So pruning, which   *)
(* goes by the numbers, takes a line only with all that is older, and what *)
(* it takes was beyond the budget.  The rest of the invariant is what a    *)
(* thread must have in its hand, between two steps on the directory, for   *)
(* this to last: the next file it makes goes above the bearers, and the    *)
(* archive it renames to replaces none (Keeps); a file that is not open    *)
(* for append is not written where an owed line is (NoOverwrite); and      *)
(* while one Logger is at work it knows the one current file and all of    *)
(* its lines (Alone1, Calm), so that a line it writes is above all others. *)
(*                                                                         *)
(* A line is owed from when it has reached the disk.  It stays so while    *)
(* two Loggers are at work; one that gets there meanwhile is not owed, nor *)
(* is one that is still in a buffer, because its flush failed.             *)
(*                                                                         *)
(* The bound of the directory has an invariant of its own (Spare).  What   *)
(* is allowed is the budget and one file for each pruning that was cut     *)
(* short.  The archives are within it where no pruning is under way, and   *)
(* one file over it while one is; so all the files are within one file     *)
(* more, and a line that is about to be written has its room there.  A     *)
(* pruning that runs to its end leaves no more than the budget, which is   *)
(* known when it is planned (PlannedBy), and a line lengthens no archive   *)
(* (ApartBy).  The lines whose flush failed come to the disk later, and    *)
(* their room must have been kept: the Logger has counted them (Stocked).  *)
(***************************************************************************)
EXTENDS SessionLog, FiniteSetTheorems, TLAPS

Numbers == INSTANCE MemberListsProofs

-----------------------------------------------------------------------------
\* NAMES AND FILES

\* What archiving does to a name.
LEMMA NameFacts ==
    ASSUME NEW n \in Names
    PROVE  /\ Archived(n) \in Names /\ ~Archived(n).current
           /\ Archived(n).seq = n.seq /\ Archived(n).stamp = n.stamp
           /\ n.current => Archived(n) # n
           /\ ~n.current => Archived(n) = n
           /\ n.seq \in Nat
BY DEF Archived, Names

\* Two current names do not become one archive.
LEMMA ArchivedApart ==
    ASSUME NEW m \in Names, NEW n \in Names, m.current, n.current, Archived(m) = Archived(n)
    PROVE  m = n
BY DEF Archived, Names

\* A set of names that is not empty has a highest number, if it is finite.
LEMMA HighestExists ==
    ASSUME NEW S, IsFiniteSet(S), S \subseteq Names, S # {}
    PROVE  Highest(S) # {}
<1> DEFINE Bounds == {b \in Nat : \A n \in S : n.seq <= b}
           Good == {k \in Nat : \A R \in SUBSET S : IsFiniteSet(R) /\ Cardinality(R) = k
                                    => \E b \in Nat : \A n \in R : n.seq <= b}
<1>1. Good = Nat
  <2>1. 0 \in Good
    <3> SUFFICES ASSUME NEW R \in SUBSET S, IsFiniteSet(R), Cardinality(R) = 0
                 PROVE  \E b \in Nat : \A n \in R : n.seq <= b
        OBVIOUS
    <3>1. R = {}
        BY FS_EmptySet
    <3> QED
        BY <3>1
  <2>2. ASSUME NEW k \in Good PROVE k + 1 \in Good
    <3> SUFFICES ASSUME NEW R \in SUBSET S, IsFiniteSet(R), Cardinality(R) = k + 1
                 PROVE  \E b \in Nat : \A n \in R : n.seq <= b
        OBVIOUS
    <3>1. R # {}
        BY FS_EmptySet
    <3>2. PICK m : m \in R
        BY <3>1
    <3>3. IsFiniteSet(R \ {m}) /\ Cardinality(R \ {m}) = Cardinality(R) - 1
        BY <3>2, FS_RemoveElement
    <3>4. PICK b \in Nat : \A n \in R \ {m} : n.seq <= b
        BY <3>3
    <3>5. m.seq \in Nat /\ \A n \in R : n.seq \in Nat
        BY <3>2 DEF Names
    <3>6. CASE m.seq <= b
        BY <3>4, <3>6
    <3>7. CASE b < m.seq
        BY <3>4, <3>5, <3>7
    <3> QED
        BY <3>5, <3>6, <3>7
  <2>3. Good \subseteq Nat
      OBVIOUS
  <2> HIDE DEF Good
  <2> QED
      BY <2>1, <2>2, <2>3, Numbers!Inductive
<1>2. Cardinality(S) \in Nat
    BY FS_CardinalityType
<1>3. Bounds # {}
    BY <1>1, <1>2
<1>4. PICK b \in Bounds : \A c \in Bounds : b <= c
    BY <1>3, Numbers!Least
<1>5. \A n \in S : n.seq \in Nat
    BY DEF Names
<1>6. \E n \in S : n.seq = b
  <2> SUFFICES ASSUME \A n \in S : n.seq # b PROVE FALSE
      OBVIOUS
  <2>1. \A n \in S : n.seq <= b - 1 /\ n.seq < b
      BY <1>4, <1>5
  <2>2. b - 1 \in Nat
      BY <1>5, <2>1
  <2>3. b - 1 \in Bounds
      BY <2>1, <2>2
  <2> QED
      BY <1>4, <2>2, <2>3
<1> QED
    BY <1>4, <1>6 DEF Highest

-----------------------------------------------------------------------------
\* TYPES

Busy(t) == ~At(t, {"idle", "remove"})
Holding(t) == ~At(t, {"idle", "lock", "remove"})
Rotating(t) == At(t, {"prune", "roll", "rollback"})

\* The places of log_event, and what a call and a Logger hold.
Places == {"lock", "open", "create", "rotate", "prune", "roll", "rollback", "write"}
LogCalls ==
    [at : Places, logger : Loggers, install : BOOLEAN, again : BOOLEAN, seq : Nat,
     doomed : Seq(Names), crossed : BOOLEAN]
RemoveCalls == [at : {"remove"}, logger : 0..MaxLoggers, names : SUBSET Names]
Writers ==
    [name : {n \in Names : n.current}, file : Nat, index : Nat, append : BOOLEAN, pos : Nat,
     ram : Nat]

\* The directory has each file under one name.
DirOK ==
    /\ dir = [n \in DOMAIN dir |-> dir[n]]
    /\ DOMAIN dir \subseteq Names /\ IsFiniteSet(DOMAIN dir)
    /\ \A n \in DOMAIN dir : dir[n] \in DOMAIN data
    /\ \A m, n \in DOMAIN dir : dir[m] = dir[n] => m = n

\* No line is written twice.
DataOK ==
    /\ data \in Seq(Seq(Nat))
    /\ \A f \in DOMAIN data : \A i \in DOMAIN data[f] : data[f][i] \in 1..used.lines
    /\ \A f, h \in DOMAIN data : \A i \in DOMAIN data[f], j \in DOMAIN data[h] :
          data[f][i] = data[h][j] => f = h /\ i = j
    /\ owed \subseteq 1..used.lines

SettingsOK ==
    /\ session \in 0..MaxLoggers
    /\ config = [g \in Loggers |-> config[g]]
    /\ \A g \in Loggers : config[g] \in IF g <= session THEN Settings ELSE {Unset}
    /\ second \in 0..MaxSecond

\* A file that is not open for append is no shorter than what was written to it.
WritersOK ==
    /\ active \in [Loggers -> Writers \cup {NoFile}]
    /\ \A g \in Loggers : active[g] # NoFile =>
          /\ g <= session
          /\ active[g].file \in DOMAIN data
          /\ ~active[g].append => active[g].pos <= Len(data[active[g].file])

\* What a thread has in its hand follows from where it is.
CallOK(t) ==
    /\ \/ call[t] = Idle
       \/ call[t] \in RemoveCalls
       \/ call[t] \in LogCalls
    /\ call[t] # Idle => call[t].logger <= session
    /\ At(t, {"open", "create"}) => Writer(t) = NoFile
    /\ At(t, {"rotate", "prune", "roll", "rollback", "write"}) => Writer(t) # NoFile
    /\ At(t, {"prune", "roll", "rollback"}) => Writer(t).ram = 0
    /\ At(t, {"roll", "rollback"}) => call[t].seq = Writer(t).name.seq + 1

CallsOK ==
    /\ call = [t \in Threads |-> call[t]]
    /\ \A t \in Threads : CallOK(t)

\* One thread at a time has the mutex of a Logger.
MutexOK ==
    \A t, u \in Threads : Holding(t) /\ Holding(u) /\ call[t].logger = call[u].logger => t = u

\* How much of the bounds is used.
UsedType == [calls : 0..MaxLines, lines : Nat, upsets : Nat]
UsedOK == used \in UsedType

Types ==
    /\ DirOK /\ DataOK /\ SettingsOK /\ WritersOK /\ CallsOK /\ MutexOK /\ UsedOK

\* The invariant the run checks follows from this one.
LEMMA TypesGiveTypeOK == Types => TypeOK
<1> SUFFICES ASSUME Types PROVE TypeOK
    OBVIOUS
<1> USE DEF Types
<1>1. IsInjective(dir)
    BY DEF DirOK, IsInjective
<1>2. PICK last \in Nat : last = used.lines
    BY DEF UsedOK, UsedType
<1>3. data \in Seq(Seq(1..last))
  <2>1. PICK n \in Nat : data \in [1..n -> Seq(Nat)]
      BY DEF DataOK
  <2>2. ASSUME NEW f \in 1..n PROVE data[f] \in Seq(1..last)
    <3>1. data[f] \in Seq(Nat)
        BY <2>1
    <3>2. PICK k \in Nat : data[f] \in [1..k -> Nat]
        BY <3>1
    <3>3. \A i \in 1..k : data[f][i] \in 1..last
        BY <1>2, <2>1, <3>2 DEF DataOK
    <3> QED
        BY <3>2, <3>3
  <2>3. data \in [1..n -> Seq(1..last)]
      BY <2>1, <2>2
  <2> QED
      BY <2>3
<1>4. \A g \in Loggers : active[g] = NoFile \/ (active[g].name \in Names /\ active[g].ram \in Nat)
    BY DEF WritersOK, Writers
<1>5. \A t \in Threads : call[t] = Idle \/ call[t].logger \in 0..session
    BY DEF CallsOK, CallOK, RemoveCalls, LogCalls, Loggers, SettingsOK
<1>6. owed \subseteq 1..used.lines /\ used \in [calls : 0..MaxLines, lines : Nat, upsets : Nat]
    BY DEF DataOK, UsedOK, UsedType
<1> QED
    BY <1>1, <1>2, <1>3, <1>4, <1>5, <1>6 DEF TypeOK, DirOK, SettingsOK

-----------------------------------------------------------------------------
\* HOW A STEP MOVES A CALL

\* What a place says of the file of the Logger.
Fits(c, w) ==
    /\ c.at \in {"open", "create"} => w = NoFile
    /\ c.at \in {"rotate", "prune", "roll", "rollback", "write"} => w # NoFile
    /\ c.at \in {"prune", "roll", "rollback"} => w.ram = 0
    /\ c.at \in {"roll", "rollback"} => c.seq = w.name.seq + 1

\* A file that a Logger may have.
Sound(w) ==
    w # NoFile => /\ w \in Writers
                  /\ w.file \in DOMAIN data
                  /\ ~w.append => w.pos <= Len(data[w.file])

Grown == /\ DOMAIN data \subseteq DOMAIN data'
         /\ \A f \in DOMAIN data : /\ Len(data[f]) \in Nat /\ Len(data'[f]) \in Nat
                                   /\ Len(data[f]) <= Len(data'[f])

\* One thread moves on with the file of its Logger, or ends its call.
Moved(t, c, w) ==
    /\ call' = [call EXCEPT ![t] = c]
    /\ active' = [active EXCEPT ![call[t].logger] = w]
    /\ UNCHANGED <<session, config, second>>

\* The fields of a call, and what its place says of it.
LEMMA CallFacts ==
    ASSUME Types, NEW t \in Threads
    PROVE  /\ Busy(t) <=> call[t] \in LogCalls
           /\ call[t] \in LogCalls => /\ call[t].at \in Places /\ call[t].logger \in Loggers
                                      /\ call[t].logger <= session
                                      /\ ~At(t, {"idle", "remove"})
           /\ call[t] \in RemoveCalls <=> At(t, {"remove"})
           /\ call[t] = Idle <=> At(t, {"idle"})
BY DEF Types, CallsOK, CallOK, Busy, At, LogCalls, RemoveCalls, Idle, Places

\* A step moves the call of one thread, with the file of its Logger.
LEMMA MovedTypes ==
    ASSUME Types, NEW t \in Threads, call[t] \in LogCalls, NEW c, NEW w, Moved(t, c, w),
           c = Idle \/ (c \in LogCalls /\ c.logger = call[t].logger),
           Fits(c, w), w = NoFile \/ w \in Writers, Sound(w)', Grown,
           Holding(t) \/ ~Locked(call[t].logger)
    PROVE  SettingsOK' /\ WritersOK' /\ CallsOK' /\ MutexOK'
<1> DEFINE g == call[t].logger
<1>1. /\ g \in Loggers /\ g <= session /\ session \in Nat
      /\ call = [u \in Threads |-> call[u]] /\ active \in [Loggers -> Writers \cup {NoFile}]
    BY CallFacts DEF Types, CallsOK, WritersOK, SettingsOK
<1>2. /\ call'[t] = c /\ \A u \in Threads : u # t => call'[u] = call[u]
      /\ call' = [u \in Threads |-> call'[u]]
    BY <1>1 DEF Moved
<1>3. /\ active'[g] = w /\ \A h \in Loggers : h # g => active'[h] = active[h]
      /\ active' \in [Loggers -> Writers \cup {NoFile}]
    BY <1>1 DEF Moved
<1>4. session' = session /\ config' = config /\ second' = second
    BY DEF Moved
<1>5. SettingsOK'
    BY <1>4 DEF Types, SettingsOK
<1>6. WritersOK'
  <2> SUFFICES ASSUME NEW h \in Loggers, active'[h] # NoFile
               PROVE  /\ h <= session'
                      /\ active'[h].file \in DOMAIN data'
                      /\ ~active'[h].append => active'[h].pos <= Len(data'[active'[h].file])
      BY <1>3 DEF WritersOK
  <2>1. CASE h = g
      BY <1>1, <1>3, <1>4, <2>1 DEF Sound
  <2>2. CASE h # g
    <3>1. active[h] = active'[h] /\ active[h] # NoFile /\ active[h] \in Writers
        BY <1>1, <1>3, <2>2
    <3>2. /\ h <= session /\ active[h].file \in DOMAIN data
          /\ ~active[h].append => active[h].pos <= Len(data[active[h].file])
        BY <3>1 DEF Types, WritersOK
    <3>3. active[h].pos \in Nat
        BY <3>1 DEF Writers
    <3> QED
        BY <1>4, <3>1, <3>2, <3>3 DEF Grown
  <2> QED
      BY <2>1, <2>2
<1>7. \A u \in Threads : u # t /\ Holding(u) /\ (Holding(t) \/ ~Locked(g)) => call[u].logger # g
    BY CallFacts DEF Types, MutexOK, Locked, Holding, At
<1>8. \A u \in Threads : Holding(u) => call[u].logger \in Loggers
    BY CallFacts DEF Holding, Busy, At
<1>9. CallsOK'
  <2> SUFFICES ASSUME NEW u \in Threads PROVE CallOK(u)'
      BY <1>2 DEF CallsOK
  <2>1. CASE u = t
    <3>1. Writer(u)' = w \/ c = Idle
        BY <1>2, <1>3, <2>1 DEF Writer
    <3>2. c = Idle => c.at = "idle"
        BY DEF Idle
    <3> QED
        BY <1>1, <1>2, <1>4, <2>1, <3>1, <3>2 DEF CallOK, At, Fits
  <2>2. CASE u # t
    <3>1. call'[u] = call[u] /\ CallOK(u)
        BY <1>2, <2>2 DEF Types, CallsOK
    <3>2. CASE Holding(u) /\ Writer(u)' # Writer(u)
      <4>1. call[u].logger = g /\ g = call'[u].logger
          BY <1>3, <1>8, <3>1, <3>2 DEF Writer
      <4>2. ~(Holding(t) \/ ~Locked(g))
          BY <1>7, <2>2, <3>2, <4>1
      <4> QED
          BY <4>2
    <3>3. CASE ~Holding(u) \/ Writer(u)' = Writer(u)
        BY <1>4, <3>1, <3>3 DEF CallOK, At, Holding
    <3> QED
        BY <3>2, <3>3
  <2> QED
      BY <2>1, <2>2
<1>10. MutexOK'
  <2> SUFFICES ASSUME NEW u \in Threads, NEW v \in Threads, Holding(u)', Holding(v)',
                      call'[u].logger = call'[v].logger, u # v
               PROVE  FALSE
      BY DEF MutexOK
  <2>1. ASSUME NEW x \in Threads, NEW y \in Threads, x = t, y # t, Holding(x)', Holding(y)',
               call'[x].logger = call'[y].logger
        PROVE  FALSE
    <3>1. Holding(y) /\ call[y].logger = g
        BY <1>2, <2>1 DEF Holding, At, Idle
    <3>2. ~(c.at \in {"idle", "lock"})
        BY <1>2, <2>1 DEF Holding, At
    <3> QED
        BY <1>7, <2>1, <3>1, <3>2
  <2>2. CASE u # t /\ v # t
      BY <1>2, <2>2 DEF Types, MutexOK, Holding, At
  <2> QED
      BY <2>1, <2>2
<1> QED
    BY <1>5, <1>6, <1>9, <1>10

-----------------------------------------------------------------------------
\* WHAT A STEP DOES TO THE FILES

\* The files stay, and some lines need not be kept any more.
LEMMA FilesStay ==
    ASSUME Types, UNCHANGED disk, used'.lines = used.lines, owed' \subseteq owed
    PROVE  DirOK' /\ DataOK' /\ Grown
<1>1. dir' = dir /\ data' = data
    BY DEF disk
<1>2. \A f \in DOMAIN data : Len(data[f]) \in Nat
    BY DEF Types, DataOK
<1> QED
    BY <1>1, <1>2 DEF Types, DirOK, DataOK, Grown

\* A file has another name.
LEMMA RenamedIs ==
    ASSUME Types, NEW n \in DOMAIN dir, NEW m \in Names, m # n, dir' = Renamed(n, m)
    PROVE  /\ DOMAIN dir' = (DOMAIN dir \ {n}) \cup {m}
           /\ dir'[m] = dir[n]
           /\ \A k \in DOMAIN dir \ {n, m} : dir'[k] = dir[k]
BY DEF Renamed

\* A rename of a file to a name, that another file may have had.
LEMMA RenameTypes ==
    ASSUME Types, NEW n \in DOMAIN dir, NEW m \in Names, m # n, dir' = Renamed(n, m),
           UNCHANGED data, used'.lines = used.lines, UNCHANGED owed
    PROVE  DirOK' /\ DataOK' /\ Grown
<1>1. /\ DOMAIN dir' = (DOMAIN dir \ {n}) \cup {m} /\ dir'[m] = dir[n]
      /\ \A k \in DOMAIN dir \ {n, m} : dir'[k] = dir[k]
    BY RenamedIs
<1>2. dir' = [k \in DOMAIN dir' |-> dir'[k]]
    BY DEF Renamed
<1>3. IsFiniteSet(DOMAIN dir \ {n})
    BY FS_Subset DEF Types, DirOK
<1>4. IsFiniteSet(DOMAIN dir')
    BY <1>1, <1>3, FS_AddElement
<1>5. \A k \in DOMAIN dir' : dir'[k] \in DOMAIN data
    BY <1>1 DEF Types, DirOK
<1>6. \A j, k \in DOMAIN dir' : dir'[j] = dir'[k] => j = k
    BY <1>1 DEF Types, DirOK
<1>7. DirOK'
    BY <1>1, <1>2, <1>4, <1>5, <1>6 DEF Types, DirOK
<1>8. \A f \in DOMAIN data : Len(data[f]) \in Nat
    BY DEF Types, DataOK
<1> QED
    BY <1>7, <1>8 DEF Types, DataOK, Grown

\* A name is removed.
LEMMA UnlinkTypes ==
    ASSUME Types, NEW n, dir' = Unlinked(n),
           UNCHANGED data, used'.lines = used.lines, owed' \subseteq owed
    PROVE  /\ DOMAIN dir' = DOMAIN dir \ {n}
           /\ \A k \in DOMAIN dir' : dir'[k] = dir[k]
           /\ DirOK' /\ DataOK' /\ Grown
<1>1. DOMAIN dir' = DOMAIN dir \ {n} /\ \A k \in DOMAIN dir' : dir'[k] = dir[k]
    BY DEF Unlinked, Restrict
<1>2. dir' = [k \in DOMAIN dir' |-> dir'[k]]
    BY DEF Unlinked, Restrict
<1>3. IsFiniteSet(DOMAIN dir')
    BY <1>1, FS_Subset DEF Types, DirOK
<1>4. DirOK'
    BY <1>1, <1>2, <1>3 DEF Types, DirOK
<1>5. \A f \in DOMAIN data : Len(data[f]) \in Nat
    BY DEF Types, DataOK
<1> QED
    BY <1>1, <1>4, <1>5 DEF Types, DataOK, Grown

\* A file is made, with nothing in it.
LEMMA CreateTypes ==
    ASSUME Types, NEW n \in Names, n \notin DOMAIN dir, data' = Append(data, <<>>),
           dir' = [m \in DOMAIN dir \cup {n} |-> IF m = n THEN Len(data) + 1 ELSE dir[m]],
           used'.lines = used.lines, UNCHANGED owed
    PROVE  /\ DOMAIN dir' = DOMAIN dir \cup {n}
           /\ dir'[n] = Len(data) + 1 /\ \A k \in DOMAIN dir : dir'[k] = dir[k]
           /\ Len(data) + 1 \notin DOMAIN data
           /\ DOMAIN data' = DOMAIN data \cup {Len(data) + 1}
           /\ data'[Len(data) + 1] = <<>> /\ \A f \in DOMAIN data : data'[f] = data[f]
           /\ DirOK' /\ DataOK' /\ Grown
<1>1. data \in Seq(Seq(Nat))
    BY DEF Types, DataOK
<1>2. PICK k \in Nat : k = Len(data) /\ DOMAIN data = 1..k
    BY <1>1
<1>3. /\ DOMAIN data' = 1..(k + 1) /\ data'[k + 1] = <<>>
      /\ \A f \in 1..k : data'[f] = data[f]
    BY <1>1, <1>2
<1>4. k + 1 \notin 1..k /\ 1..(k + 1) = 1..k \cup {k + 1}
    BY <1>2
<1>5. DOMAIN dir' = DOMAIN dir \cup {n} /\ dir'[n] = k + 1
    BY <1>2
<1>6. \A m \in DOMAIN dir : dir'[m] = dir[m] /\ dir[m] \in 1..k
    BY <1>2 DEF Types, DirOK
<1>7. DirOK'
  <2>1. IsFiniteSet(DOMAIN dir')
      BY <1>5, FS_AddElement DEF Types, DirOK
  <2>2. dir' = [m \in DOMAIN dir' |-> dir'[m]]
      OBVIOUS
  <2>3. DOMAIN dir' \subseteq Names
      BY <1>5 DEF Types, DirOK
  <2>4. \A m \in DOMAIN dir' : dir'[m] \in DOMAIN data'
      BY <1>3, <1>4, <1>5, <1>6
  <2>5. \A l, m \in DOMAIN dir' : dir'[l] = dir'[m] => l = m
      BY <1>4, <1>5, <1>6 DEF Types, DirOK
  <2> QED
      BY <2>1, <2>2, <2>3, <2>4, <2>5 DEF DirOK
<1>8. DOMAIN data'[k + 1] = {}
    BY <1>3
<1>9. DataOK'
  <2>1. data' \in Seq(Seq(Nat))
      BY <1>1
  <2>2. \A f \in DOMAIN data' : \A i \in DOMAIN data'[f] : f \in DOMAIN data /\ data'[f] = data[f]
      BY <1>2, <1>3, <1>4, <1>8
  <2> QED
      BY <2>1, <2>2 DEF Types, DataOK
<1>10. \A f \in DOMAIN data : Len(data[f]) \in Nat
    BY <1>1
<1>11. Grown
    BY <1>2, <1>3, <1>4, <1>10 DEF Grown
<1> QED
    BY <1>2, <1>3, <1>4, <1>5, <1>6, <1>7, <1>9, <1>11

\* A line is written: at one place, where no line was or another is lost.
PlaceOf(w) == IF w.append THEN Len(data[w.file]) + 1 ELSE w.pos + 1

\* What a write does to the lines of its file: the new line is put at the end, or at the
\* place where the last one ended, and the lines elsewhere stay.
LEMMA WriteIs ==
    ASSUME Types, NEW w \in Writers, w.file \in DOMAIN data,
           ~w.append => w.pos <= Len(data[w.file]),
           data' = [data EXCEPT ![w.file] = Put(@, w, used.lines + 1)]
    PROVE  /\ DOMAIN data' = DOMAIN data
           /\ \A f \in DOMAIN data \ {w.file} : data'[f] = data[f]
           /\ data'[w.file] \in Seq(Nat)
           /\ DOMAIN data'[w.file] = DOMAIN data[w.file] \cup {PlaceOf(w)}
           /\ Len(data'[w.file]) \in {Len(data[w.file]), Len(data[w.file]) + 1}
           /\ Len(data'[w.file]) >= PlaceOf(w)
           /\ data'[w.file][PlaceOf(w)] = used.lines + 1
           /\ \A i \in DOMAIN data[w.file] \ {PlaceOf(w)} : data'[w.file][i] = data[w.file][i]
           /\ PlaceOf(w) \in 1..(Len(data[w.file]) + 1)
<1> DEFINE f == w.file
           p == PlaceOf(w)
           l == used.lines + 1
<1>1. PICK old \in Seq(Nat) : old = data[f]
    BY DEF Types, DataOK
<1>2. PICK k \in Nat : Len(old) = k /\ DOMAIN old = 1..k
    BY <1>1
<1>3. l \in Nat /\ w.pos \in Nat
    BY DEF Types, UsedOK, UsedType, Writers
<1>4. p \in 1..(k + 1) /\ (w.append => p = k + 1) /\ (~w.append => p = w.pos + 1)
    BY <1>1, <1>2, <1>3 DEF PlaceOf
<1>5. PICK new : new = Put(old, w, l)
    OBVIOUS
<1>6. /\ new \in Seq(Nat) /\ Len(new) \in {k, k + 1} /\ Len(new) >= p
      /\ DOMAIN new = 1..k \cup {p} /\ new[p] = l
      /\ \A i \in 1..k \ {p} : new[i] = old[i]
  <2> HIDE DEF p, l
  <2>1. CASE w.append
    <3>1. new = Append(old, l)
        BY <1>5, <2>1 DEF Put
    <3>2. new \in Seq(Nat) /\ Len(new) = k + 1
        BY <1>1, <1>2, <1>3, <3>1
    <3>3. DOMAIN new = 1..(k + 1) /\ new[k + 1] = l /\ \A i \in 1..k : new[i] = old[i]
        BY <1>1, <1>2, <3>1
    <3>4. 1..(k + 1) = 1..k \cup {k + 1}
        BY <1>2
    <3> QED
        BY <1>2, <1>4, <2>1, <3>2, <3>3, <3>4
  <2>2. CASE ~w.append
    <3>1. new = [i \in 1..k \cup {p} |-> IF i = p THEN l ELSE old[i]]
        BY <1>2, <1>4, <1>5, <2>2 DEF Put
    <3>2. PICK j \in {k, k + 1} : 1..k \cup {p} = 1..j /\ j >= p
      <4>1. CASE p = k + 1
          BY <1>2, <4>1
      <4>2. CASE p # k + 1
        <5>1. p \in 1..k
            BY <1>2, <1>4, <4>2
        <5> QED
            BY <1>2, <5>1
      <4> QED
          BY <4>1, <4>2
    <3>3. \A i \in 1..k : old[i] \in Nat
        BY <1>1, <1>2
    <3>4. new \in [1..j -> Nat]
        BY <1>3, <3>1, <3>2, <3>3
    <3>5. j \in Nat
        BY <1>2, <3>2
    <3>6. new \in Seq(Nat) /\ Len(new) = j
        BY <3>4, <3>5
    <3>7. DOMAIN new = 1..k \cup {p} /\ new[p] = l
        BY <3>1
    <3>8. \A i \in 1..k \ {p} : new[i] = old[i]
        BY <3>1
    <3> QED
        BY <3>2, <3>6, <3>7, <3>8
  <2> QED
      BY <2>1, <2>2
<1>7. data \in Seq(Seq(Nat))
    BY DEF Types, DataOK
<1>8. /\ DOMAIN data' = DOMAIN data /\ data'[f] = new
      /\ \A h \in DOMAIN data \ {f} : data'[h] = data[h]
    BY <1>1, <1>5, <1>7
<1> HIDE DEF p, l
<1> QED
    BY <1>1, <1>2, <1>4, <1>6, <1>8 DEF p, l

\* A function on 1..n is a sequence.
LEMMA SequenceOf ==
    ASSUME NEW S, NEW n \in Nat, NEW s \in [1..n -> S]
    PROVE  s \in Seq(S)
OBVIOUS

\* A line with a number of its own is put in a file.
LEMMA WriteTypes ==
    ASSUME Types, NEW w \in Writers, w.file \in DOMAIN data,
           ~w.append => w.pos <= Len(data[w.file]),
           data' = [data EXCEPT ![w.file] = Put(@, w, used.lines + 1)],
           UNCHANGED dir, used'.lines = used.lines + 1,
           owed' \subseteq owed \cup {used.lines + 1}
    PROVE  DirOK' /\ DataOK' /\ Grown
<1>1. PICK f, p, last : f = w.file /\ p = PlaceOf(w) /\ last = used.lines
    OBVIOUS
<1>2. last \in Nat
    BY <1>1 DEF Types, UsedOK, UsedType
<1>3. data \in Seq(Seq(Nat))
    BY DEF Types, DataOK
<1>4. PICK new : new = data'
    OBVIOUS
<1>5. /\ DOMAIN new = DOMAIN data
      /\ \A h \in DOMAIN data \ {f} : new[h] = data[h]
      /\ new[f] \in Seq(Nat)
      /\ DOMAIN new[f] = DOMAIN data[f] \cup {p}
      /\ Len(new[f]) \in {Len(data[f]), Len(data[f]) + 1}
      /\ new[f][p] = last + 1
      /\ \A i \in DOMAIN data[f] \ {p} : new[f][i] = data[f][i]
    BY <1>1, <1>4, WriteIs
<1>6. \A h \in DOMAIN data : \A i \in DOMAIN data[h] : data[h][i] \in 1..last
    BY <1>1 DEF Types, DataOK
<1>7. \A h \in DOMAIN new : \A i \in DOMAIN new[h] :
        \/ h = f /\ i = p /\ new[h][i] = last + 1
        \/ i \in DOMAIN data[h] /\ new[h][i] = data[h][i] /\ data[h][i] \in 1..last
    BY <1>5, <1>6
<1>8. \A g, h \in DOMAIN data : \A i \in DOMAIN data[g], j \in DOMAIN data[h] :
          data[g][i] = data[h][j] => g = h /\ i = j
    BY DEF Types, DataOK
<1>9. DirOK'
    BY <1>4, <1>5 DEF Types, DirOK
<1>10. new \in Seq(Seq(Nat))
  <2>1. PICK n \in Nat : DOMAIN data = 1..n
      BY <1>3
  <2>2. new = [h \in DOMAIN data |-> new[h]]
      BY <1>3, <1>4
  <2>3. \A h \in 1..n : data[h] \in Seq(Nat)
      BY <1>3, <2>1
  <2>4. \A h \in 1..n : new[h] \in Seq(Nat)
      BY <1>5, <2>1, <2>3
  <2>5. new \in [1..n -> Seq(Nat)]
      BY <2>1, <2>2, <2>4
  <2> QED
      BY <2>5, SequenceOf
<1>11. \A h \in DOMAIN new : \A i \in DOMAIN new[h] : new[h][i] \in 1..(last + 1)
    BY <1>7, <1>2
<1>12. ASSUME NEW g \in DOMAIN new, NEW h \in DOMAIN new,
              NEW i \in DOMAIN new[g], NEW j \in DOMAIN new[h], new[g][i] = new[h][j]
       PROVE  g = h /\ i = j
  <2>1. CASE new[g][i] = last + 1
    <3>1. ~(new[g][i] \in 1..last) /\ ~(new[h][j] \in 1..last)
        BY <1>12, <1>2, <2>1
    <3>2. g = f /\ i = p
        BY <1>7, <3>1
    <3>3. h = f /\ j = p
        BY <1>7, <3>1
    <3> QED
        BY <3>2, <3>3
  <2>2. CASE new[g][i] # last + 1
    <3>1. i \in DOMAIN data[g] /\ new[g][i] = data[g][i]
        BY <1>7, <2>2
    <3>2. j \in DOMAIN data[h] /\ new[h][j] = data[h][j]
        BY <1>7, <1>12, <2>2
    <3>3. data[g][i] = data[h][j]
        BY <1>12, <3>1, <3>2
    <3>4. g \in DOMAIN data /\ h \in DOMAIN data
        BY <1>5
    <3> QED
        BY <1>8, <3>1, <3>2, <3>3, <3>4
  <2> QED
      BY <2>1, <2>2
<1>13. owed \subseteq 1..last /\ owed' \subseteq owed \cup {last + 1}
    BY <1>1 DEF Types, DataOK
<1>14. owed' \subseteq 1..(last + 1)
    BY <1>2, <1>13
<1>15. DataOK'
  <2>1. used'.lines = last + 1 /\ data' = new
      BY <1>1, <1>4
  <2>2. owed' \subseteq 1..used'.lines
      BY <1>14, <2>1
  <2>3. \A h \in DOMAIN data' : \A i \in DOMAIN data'[h] : data'[h][i] \in 1..used'.lines
      BY <1>11, <2>1
  <2>4. \A g, h \in DOMAIN data' : \A i \in DOMAIN data'[g], j \in DOMAIN data'[h] :
            data'[g][i] = data'[h][j] => g = h /\ i = j
    <3> SUFFICES ASSUME NEW g \in DOMAIN new, NEW h \in DOMAIN new,
                        NEW i \in DOMAIN new[g], NEW j \in DOMAIN new[h],
                        new[g][i] = new[h][j]
                 PROVE  g = h /\ i = j
        BY <2>1
    <3> QED
        BY <1>12
  <2>5. data' \in Seq(Seq(Nat))
      BY <1>10, <2>1
  <2> QED
      BY <2>2, <2>3, <2>4, <2>5 DEF DataOK
<1>16. Grown
  <2>1. \A h \in DOMAIN data : Len(data[h]) \in Nat
      BY <1>3
  <2>2. \A h \in DOMAIN data : Len(new[h]) \in Nat /\ Len(data[h]) <= Len(new[h])
      BY <1>5, <2>1
  <2> QED
      BY <1>4, <1>5, <2>1, <2>2 DEF Grown
<1> QED
    BY <1>9, <1>15, <1>16

-----------------------------------------------------------------------------
\* TYPES HOLD

\* An empty directory and no Logger.
LEMMA InitTypes == Init => Types
<1> SUFFICES ASSUME Init PROVE Types
    OBVIOUS
<1> USE DEF Init
<1>1. DirOK
    BY FS_EmptySet DEF DirOK
<1>2. DataOK
    BY DEF DataOK
<1>3. MaxLoggers \in Nat /\ MaxSecond \in Nat /\ MaxLines \in Nat
    BY LogAssumption
<1>4. SettingsOK
    BY <1>3 DEF SettingsOK, Loggers, Unset
<1>5. WritersOK
    BY DEF WritersOK
<1>6. CallsOK
    BY DEF CallsOK, CallOK, At, Idle
<1>7. MutexOK
    BY DEF MutexOK, Holding, At, Idle
<1>9. UsedOK
    BY <1>3 DEF UsedOK, UsedType
<1> QED
    BY <1>1, <1>2, <1>4, <1>5, <1>6, <1>7, <1>9 DEF Types

\* A bound that is used.
LEMMA UseIs ==
    ASSUME Types, NEW b \in {"calls", "lines", "upsets"}, Use(b),
           b = "calls" => used.calls < MaxLines
    PROVE  /\ used' \in UsedType
           /\ b # "lines" => used'.lines = used.lines
           /\ b = "lines" => used'.lines = used.lines + 1
           /\ b # "calls" => used'.calls = used.calls
           /\ b = "calls" => used'.calls = used.calls + 1
<1>1. used \in UsedType /\ MaxLines \in Nat
    BY LogAssumption DEF Types, UsedOK, UsedType
<1>2. CASE b = "calls"
    BY <1>1, <1>2 DEF Use, UsedType
<1>3. CASE b = "lines"
    BY <1>1, <1>3 DEF Use, UsedType
<1>4. CASE b = "upsets"
    BY <1>1, <1>4 DEF Use, UsedType
<1> QED
    BY <1>2, <1>3, <1>4

\* A call begins, with the Logger of the session (ensure_logging_session).
LEMMA LogTypes == ASSUME Types, NEW t \in Threads, Log(t) PROVE Types'
<1> DEFINE c == Logging(session, FALSE)
<1>1. /\ At(t, {"idle"}) /\ session # 0 /\ Use("calls") /\ used.calls < MaxLines
      /\ call' = [call EXCEPT ![t] = c]
      /\ UNCHANGED <<disk, session, config, active, second, owed, overlap>>
    BY DEF Log
<1>2. c \in LogCalls
    BY <1>1 DEF Types, SettingsOK, Logging, LogCalls, Places, Loggers
<1>3. used' \in UsedType /\ used'.lines = used.lines /\ used'.calls = used.calls + 1
    BY <1>1, UseIs
<1>4. UsedOK'
    BY <1>3 DEF UsedOK, UsedType
<1>5. DirOK' /\ DataOK'
    BY <1>1, <1>3, FilesStay
<1>6. SettingsOK' /\ WritersOK'
    BY <1>1 DEF Types, SettingsOK, WritersOK, disk
<1>7. call'[t] = c /\ \A u \in Threads : u # t => call'[u] = call[u]
    BY <1>1 DEF Types, CallsOK
<1>8. CallsOK'
  <2> SUFFICES ASSUME NEW u \in Threads PROVE CallOK(u)'
      BY <1>1 DEF Types, CallsOK
  <2>1. CASE u = t
      BY <1>1, <1>2, <1>7, <2>1 DEF CallOK, At, Logging, Types, SettingsOK
  <2>2. CASE u # t
      BY <1>1, <1>7, <2>2 DEF Types, CallsOK, CallOK, At, Writer
  <2> QED
      BY <2>1, <2>2
<1>9. MutexOK'
    BY <1>7 DEF Types, MutexOK, Holding, At, Logging
<1> QED
    BY <1>4, <1>5, <1>6, <1>8, <1>9 DEF Types

-----------------------------------------------------------------------------
\* WHAT A STEP DOES TO A CALL

\* What is left of Types when the files are seen to.
Rest5 == SettingsOK /\ WritersOK /\ CallsOK /\ MutexOK /\ UsedOK

\* A call goes on.
LEMMA StepOn ==
    ASSUME Types, NEW t \in Threads, call[t] \in LogCalls, NEW c \in LogCalls, NEW w,
           Moved(t, c, w), c.logger = call[t].logger, c.install = call[t].install,
           Fits(c, w), w = NoFile \/ w \in Writers, Sound(w)', Grown,
           Holding(t) \/ ~Locked(call[t].logger),
           used' \in UsedType, used'.lines = used.lines, used'.calls = used.calls
    PROVE  Rest5'
<1>1. SettingsOK' /\ WritersOK' /\ CallsOK' /\ MutexOK'
    BY MovedTypes
<1>3. UsedOK'
    BY DEF UsedOK, UsedType
<1> QED
    BY <1>1, <1>3 DEF Rest5

\* A call returns.
LEMMA StepBack ==
    ASSUME Types, NEW t \in Threads, Holding(t), NEW w,
           Return(t), active' = [active EXCEPT ![call[t].logger] = w],
           UNCHANGED <<session, config, second>>,
           w = NoFile \/ w \in Writers, Sound(w)', Grown,
           used' \in UsedType, used'.lines \in {used.lines, used.lines + 1},
           used'.calls = used.calls
    PROVE  Rest5'
<1>1. call[t] \in LogCalls
    BY CallFacts DEF Holding, Busy, At
<1>2. PICK c : c = IF call[t].install THEN Logging(call[t].logger, FALSE) ELSE Idle
    OBVIOUS
<1>3. c = Idle \/ (c \in LogCalls /\ c.logger = call[t].logger)
    BY <1>1, <1>2 DEF Logging, LogCalls, Places
<1>4. Fits(c, w)
    BY <1>2 DEF Fits, Logging, Idle
<1>5. Moved(t, c, w)
    BY <1>2 DEF Moved, Return
<1>6. SettingsOK' /\ WritersOK' /\ CallsOK' /\ MutexOK'
    BY <1>1, <1>3, <1>4, <1>5, MovedTypes
<1>7. UsedOK'
    BY DEF UsedOK, UsedType
<1> QED
    BY <1>6, <1>7 DEF Rest5

\* A call that holds the mutex, and the file of its Logger.
LEMMA Held ==
    ASSUME Types, NEW t \in Threads, Busy(t)
    PROVE  /\ call[t] \in LogCalls /\ call[t].logger \in Loggers
           /\ call[t].logger <= session /\ session \in Nat
           /\ Writer(t) = NoFile \/ Writer(t) \in Writers
           /\ Writer(t) # NoFile =>
                 /\ Writer(t) \in Writers
                 /\ Writer(t).name \in Names /\ Writer(t).name.current
                 /\ Writer(t).file \in DOMAIN data
                 /\ Writer(t).pos \in Nat /\ Writer(t).index \in Nat
                 /\ ~Writer(t).append => Writer(t).pos <= Len(data[Writer(t).file])
           /\ Fits(call[t], Writer(t))
           /\ Sound(Writer(t))
<1>1. /\ call[t] \in LogCalls /\ call[t].logger \in Loggers /\ call[t].logger <= session
      /\ CallOK(t)
    BY CallFacts DEF Types, CallsOK
<1>2. Writer(t) \in Writers \cup {NoFile}
    BY <1>1 DEF Types, WritersOK, Writer
<1>3. Writer(t) # NoFile =>
        /\ Writer(t).file \in DOMAIN data
        /\ ~Writer(t).append => Writer(t).pos <= Len(data[Writer(t).file])
    BY <1>1 DEF Types, WritersOK, Writer
<1>4. Fits(call[t], Writer(t))
    BY <1>1 DEF CallOK, Fits, At
<1>5. session \in Nat
    BY DEF Types, SettingsOK
<1>6. Writer(t) # NoFile => /\ Writer(t).name \in Names /\ Writer(t).name.current
                            /\ Writer(t).pos \in Nat /\ Writer(t).index \in Nat
    BY <1>2 DEF Writers
<1>7. Sound(Writer(t))
    BY <1>2, <1>3 DEF Sound
<1> QED
    BY <1>1, <1>2, <1>3, <1>4, <1>5, <1>6, <1>7

\* The bounds stay as they are.
LEMMA UsedStays ==
    ASSUME Types, UNCHANGED used
    PROVE  used' \in UsedType /\ used'.lines = used.lines /\ used'.calls = used.calls
BY DEF Types, UsedOK, UsedType

\* The file of a Logger stays a file that it may have.
LEMMA SoundStays ==
    ASSUME Types, NEW w, Sound(w), Grown
    PROVE  Sound(w)'
BY DEF Sound, Grown, Writers

\* An entry of a record of a call.
LEMMA PlacedIs ==
    ASSUME NEW c \in LogCalls, NEW p \in Places
    PROVE  /\ [c EXCEPT !.at = p] \in LogCalls
           /\ [c EXCEPT !.at = p].at = p
           /\ [c EXCEPT !.at = p].logger = c.logger
           /\ [c EXCEPT !.at = p].install = c.install
           /\ [c EXCEPT !.at = p].seq = c.seq
           /\ [c EXCEPT !.at = p].doomed = c.doomed
BY DEF LogCalls

\* Goto, as a step of a call.
LEMMA GotoIs ==
    ASSUME Types, NEW t \in Threads, Busy(t), NEW p \in Places, Goto(t, p)
    PROVE  \E c \in LogCalls : /\ call' = [call EXCEPT ![t] = c]
                               /\ c = [call[t] EXCEPT !.at = p]
                               /\ c.at = p /\ c.logger = call[t].logger
                               /\ c.install = call[t].install /\ c.seq = call[t].seq
                               /\ c.doomed = call[t].doomed
<1>1. call[t] \in LogCalls /\ call = [u \in Threads |-> call[u]]
    BY Held DEF Types, CallsOK
<1>2. PICK c : c = [call[t] EXCEPT !.at = p]
    OBVIOUS
<1>3. call' = [call EXCEPT ![t] = c]
    BY <1>1, <1>2 DEF Goto
<1> QED
    BY <1>1, <1>2, <1>3, PlacedIs

\* The mutex is taken, and the path of the file is looked at (write_line_locked).
LEMMA EnterTypes == ASSUME Types, NEW t \in Threads, Enter(t) PROVE Types'
<1>1. /\ At(t, {"lock"}) /\ ~Locked(call[t].logger)
      /\ UNCHANGED <<disk, session, config, second, used, owed, overlap>>
    BY DEF Enter
<1>2. Busy(t)
    BY <1>1 DEF At, Busy
<1>3. DirOK' /\ DataOK' /\ Grown
    BY <1>1, FilesStay
<1>4. /\ used' \in UsedType /\ used'.lines = used.lines /\ used'.calls = used.calls
    BY <1>1, UsedStays
<1>5. CASE Linked(Writer(t))
  <2>1. Writer(t) # NoFile /\ active' = active /\ Goto(t, Ready(t, Writer(t)))
      BY <1>5 DEF Enter, Linked
  <2>2. Ready(t, Writer(t)) \in {"rotate", "write"}
      BY DEF Ready
  <2>3. PICK c \in LogCalls : /\ call' = [call EXCEPT ![t] = c]
                              /\ c.at \in {"rotate", "write"} /\ c.logger = call[t].logger
                              /\ c.install = call[t].install
      BY <1>2, <2>1, <2>2, GotoIs DEF Places
  <2>4. Moved(t, c, Writer(t))
      BY <1>1, <1>2, <2>1, <2>3, Held DEF Moved, Writer, Types, WritersOK
  <2>5. Fits(c, Writer(t)) /\ Sound(Writer(t)) /\ Writer(t) \in Writers
      BY <1>2, <2>1, <2>3, Held DEF Fits
  <2>6. PICK w : w = Writer(t)
      OBVIOUS
  <2>7. Sound(w)'
      BY <1>3, <2>5, <2>6, SoundStays
  <2>8. Rest5'
      BY <1>1, <1>2, <1>3, <1>4, <2>3, <2>4, <2>5, <2>6, <2>7, StepOn, Held
  <2> QED
      BY <1>3, <2>8 DEF Types, Rest5
<1>6. CASE ~Linked(Writer(t))
  <2>1. SetWriter(t, NoFile) /\ Goto(t, "open")
      BY <1>6 DEF Enter
  <2>2. PICK c \in LogCalls : /\ call' = [call EXCEPT ![t] = c]
                              /\ c.at = "open" /\ c.logger = call[t].logger
                              /\ c.install = call[t].install
      BY <1>2, <2>1, GotoIs DEF Places
  <2>3. Moved(t, c, NoFile)
      BY <1>1, <2>1, <2>2 DEF Moved, SetWriter
  <2>4. Fits(c, NoFile) /\ Sound(NoFile)'
      BY <2>2 DEF Fits, Sound
  <2>5. Rest5'
      BY <1>1, <1>2, <1>3, <1>4, <2>2, <2>3, <2>4, StepOn, Held
  <2> QED
      BY <1>3, <2>5 DEF Types, Rest5
<1> QED
    BY <1>5, <1>6

\* A step of the directory alone.
LEMMA DirTypes ==
    ASSUME Types, DirOK', DataOK', Grown,
           UNCHANGED <<session, config, active, call, second, used>>
    PROVE  Types'
<1>1. SettingsOK'
    BY DEF Types, SettingsOK
<1>2. CallsOK' /\ MutexOK'
    BY DEF Types, CallsOK, CallOK, MutexOK, Holding, At, Writer
<1>4. UsedOK'
    BY DEF Types, UsedOK, UsedType
<1>5. WritersOK'
  <2> SUFFICES ASSUME NEW g \in Loggers, active[g] # NoFile
               PROVE  /\ active[g].file \in DOMAIN data'
                      /\ ~active[g].append => active[g].pos <= Len(data'[active[g].file])
      BY DEF Types, WritersOK
  <2>1. active[g] \in Writers
      BY DEF Types, WritersOK
  <2>2. /\ active[g].file \in DOMAIN data
        /\ ~active[g].append => active[g].pos <= Len(data[active[g].file])
      BY DEF Types, WritersOK
  <2>3. active[g].pos \in Nat
      BY <2>1 DEF Writers
  <2> QED
      BY <2>2, <2>3 DEF Grown
<1> QED
    BY <1>1, <1>2, <1>4, <1>5 DEF Types

\* A call goes on with another file, or the same.
LEMMA GoOn ==
    ASSUME Types, NEW t \in Threads, Holding(t), NEW c \in LogCalls,
           call' = [call EXCEPT ![t] = c], c.logger = call[t].logger,
           c.install = call[t].install, NEW w, SetWriter(t, w), Fits(c, w), Sound(w)',
           UNCHANGED <<session, config, second>>,
           used' \in UsedType, used'.lines = used.lines, used'.calls = used.calls,
           DirOK', DataOK', Grown
    PROVE  Types'
<1>1. Busy(t) /\ call[t] \in LogCalls
    BY CallFacts DEF Holding, Busy, At
<1>2. Moved(t, c, w)
    BY DEF Moved, SetWriter
<1>3. w = NoFile \/ w \in Writers
    BY DEF Sound
<1>4. Rest5'
    BY <1>1, <1>2, <1>3, StepOn
<1> QED
    BY <1>4 DEF Types, Rest5

\* A call lets go of the file of its Logger and returns.
LEMMA DropTypes ==
    ASSUME Types, NEW t \in Threads, Holding(t), Drop(t),
           UNCHANGED <<session, config, second>>,
           used' \in UsedType, used'.lines = used.lines, used'.calls = used.calls,
           DirOK', DataOK', Grown
    PROVE  Types'
<1>1. Sound(NoFile)'
    BY DEF Sound
<1>2. Rest5'
    BY <1>1, StepBack DEF Drop, SetWriter
<1> QED
    BY <1>2 DEF Types, Rest5

\* active, when it stays, is what SetWriter makes of it.
LEMMA ActiveStays ==
    ASSUME Types, NEW t \in Threads, Busy(t), UNCHANGED active
    PROVE  SetWriter(t, Writer(t))
BY Held DEF SetWriter, Writer, Types, WritersOK

\* A current file that is not resumed is archived (try_resume_current).
LEMMA ArchiveStaleTypes == ASSUME Types, NEW t \in Threads, ArchiveStale(t) PROVE Types'
<1>1. PICK n \in Currents : dir' = Renamed(n, Archived(n))
    BY DEF ArchiveStale, Lowest
<1>2. n \in DOMAIN dir /\ n \in Names /\ Archived(n) \in Names /\ Archived(n) # n
    BY NameFacts DEF Currents, Types, DirOK
<1>3. DirOK' /\ DataOK' /\ Grown
    BY <1>1, <1>2, RenameTypes DEF ArchiveStale
<1> QED
    BY <1>3, DirTypes DEF ArchiveStale, process

\* The file that a call resumes.
LEMMA ResumedIs ==
    ASSUME Types, NEW n \in DOMAIN dir, NEW m \in Names, m.current
    PROVE  \E w \in Writers : /\ w = [Resumed(n) EXCEPT !.name = m]
                              /\ n = m => w = Resumed(n)
                              /\ w.name = m /\ w.file = dir[n] /\ w.append
                              /\ w.index = Len(data[dir[n]]) /\ w.ram = 0
                              /\ w # NoFile /\ Sound(w)
<1>1. dir[n] \in DOMAIN data /\ data \in Seq(Seq(Nat))
    BY DEF Types, DirOK, DataOK
<1>2. dir[n] \in Nat /\ Len(data[dir[n]]) \in Nat
    BY <1>1
<1>3. PICK w : w = [Resumed(n) EXCEPT !.name = m]
    OBVIOUS
<1>4. w = [name |-> m, file |-> dir[n], index |-> Len(data[dir[n]]), append |-> TRUE, pos |-> 0,
           ram |-> 0]
    BY <1>3 DEF Resumed, Content
<1>5. w \in Writers
    BY <1>2, <1>4 DEF Writers
<1>6. w # NoFile /\ w.append /\ w.file = dir[n]
    BY <1>4 DEF NoFile
<1>7. n = m => w = Resumed(n)
    BY <1>4 DEF Resumed, Content
<1>8. Sound(w)
    BY <1>1, <1>5, <1>6 DEF Sound
<1>9. w.name = m /\ w.index = Len(data[dir[n]]) /\ w.ram = 0
    BY <1>4
<1> QED
    BY <1>3, <1>5, <1>6, <1>7, <1>8, <1>9

\* The current file is opened again, its lines counted (try_resume_current).
LEMMA ResumeTypes == ASSUME Types, NEW t \in Threads, Resume(t) PROVE Types'
<1>1. PICK n \in Currents : SetWriter(t, Resumed(n)) /\ Goto(t, Ready(t, Resumed(n)))
    BY DEF Resume
<1>2. /\ At(t, {"open"}) /\ UNCHANGED <<disk, session, config, second, used, owed>>
    BY DEF Resume
<1>3. n \in DOMAIN dir /\ n \in Names /\ n.current
    BY DEF Currents, Types, DirOK
<1>4. PICK w : w = Resumed(n) /\ w \in Writers /\ w # NoFile /\ Sound(w)
    BY <1>3, ResumedIs
<1>5. Busy(t) /\ Holding(t)
    BY <1>2 DEF Busy, Holding, At
<1>6. PICK p \in {"rotate", "write"} : p = Ready(t, Resumed(n))
    BY DEF Ready
<1>7. PICK c \in LogCalls : /\ call' = [call EXCEPT ![t] = c] /\ c.at = p
                            /\ c.logger = call[t].logger /\ c.install = call[t].install
    BY <1>1, <1>5, <1>6, GotoIs DEF Places
<1>8. Fits(c, w)
    BY <1>4, <1>6, <1>7 DEF Fits
<1>9. DirOK' /\ DataOK' /\ Grown
    BY <1>2, FilesStay
<1>10. Sound(w)'
    BY <1>4, <1>9, SoundStays
<1>11. /\ used' \in UsedType /\ used'.lines = used.lines /\ used'.calls = used.calls
    BY <1>2, UsedStays
<1> QED
    BY <1>1, <1>2, <1>4, <1>5, <1>7, <1>8, <1>9, <1>10, <1>11, GoOn

\* The number of a new file is above those of all others.
LEMMA NextSeqIs ==
    ASSUME Types
    PROVE  NextSeq \in Nat /\ \A n \in DOMAIN dir : n.seq < NextSeq
<1>1. CASE DOMAIN dir = {}
  <2>1. dir = <<>>
      BY <1>1 DEF Types, DirOK
  <2> QED
      BY <1>1, <2>1 DEF NextSeq
<1>2. CASE DOMAIN dir # {}
  <2>1. dir # <<>>
      BY <1>2
  <2>2. Highest(DOMAIN dir) # {}
      BY <1>2, HighestExists DEF Types, DirOK
  <2>3. PICK h : h = (CHOOSE n \in Highest(DOMAIN dir) : TRUE)
      OBVIOUS
  <2>4. h \in Highest(DOMAIN dir)
      BY <2>2, <2>3
  <2>5. h \in Names /\ h.seq \in Nat /\ \A n \in DOMAIN dir : n.seq \in Nat /\ n.seq <= h.seq
      BY <2>4 DEF Highest, Names, Types, DirOK
  <2>6. NextSeq = 1 + h.seq
      BY <2>1, <2>3 DEF NextSeq
  <2> QED
      BY <2>5, <2>6
<1> QED
    BY <1>1, <1>2

\* The number of the next file is read off the directory (next_sequence_number).
LEMMA NumberTypes == ASSUME Types, NEW t \in Threads, Number(t) PROVE Types'
<1>1. /\ At(t, {"open"}) /\ UNCHANGED <<disk, session, config, active, second, used, owed>>
      /\ call' = [call EXCEPT ![t].at = "create", ![t].seq = NextSeq]
    BY DEF Number
<1>2. Busy(t) /\ Holding(t)
    BY <1>1 DEF Busy, Holding, At
<1>3. call[t] \in LogCalls /\ call = [u \in Threads |-> call[u]] /\ Writer(t) = NoFile
    BY <1>1, <1>2, Held DEF Types, CallsOK, At, Fits
<1>4. PICK c : c = [call[t] EXCEPT !.at = "create", !.seq = NextSeq]
    OBVIOUS
<1>5. c \in LogCalls /\ c.at = "create" /\ c.logger = call[t].logger /\ c.install = call[t].install
    BY <1>3, <1>4, NextSeqIs DEF LogCalls, Places
<1>6. call' = [call EXCEPT ![t] = c]
    BY <1>1, <1>3, <1>4
<1>7. Fits(c, NoFile) /\ Sound(NoFile)'
    BY <1>5 DEF Fits, Sound
<1>8. DirOK' /\ DataOK' /\ Grown
    BY <1>1, FilesStay
<1>9. SetWriter(t, NoFile)
    BY <1>1, <1>2, <1>3, ActiveStays
<1>10. /\ used' \in UsedType /\ used'.lines = used.lines /\ used'.calls = used.calls
    BY <1>1, UsedStays
<1> QED
    BY <1>1, <1>2, <1>5, <1>6, <1>7, <1>8, <1>9, <1>10, GoOn

\* A call has made a file and goes on to write.
LEMMA CreatedIs ==
    ASSUME Types, NEW t \in Threads, Holding(t), Created(t)
    PROVE  \E c \in LogCalls, w \in Writers :
             /\ FreshName(t) \in Names /\ FreshName(t).current
             /\ FreshName(t).seq = call[t].seq
             /\ call' = [call EXCEPT ![t] = c] /\ c = [call[t] EXCEPT !.at = "write"]
             /\ c.at = "write" /\ c.logger = call[t].logger /\ c.install = call[t].install
             /\ SetWriter(t, w)
             /\ w = [name |-> FreshName(t), file |-> Len(data) + 1, index |-> 0,
                     append |-> FALSE, pos |-> 0, ram |-> 0]
             /\ w.name = FreshName(t) /\ w.file = Len(data) + 1 /\ w.index = 0
             /\ ~w.append /\ w.pos = 0 /\ w.ram = 0 /\ w # NoFile
<1>1. Busy(t) /\ call[t] \in LogCalls
    BY CallFacts DEF Holding, Busy, At
<1>2. call[t].seq \in Nat /\ second \in 0..MaxSecond
    BY <1>1 DEF LogCalls, Types, SettingsOK
<1>3. FreshName(t) \in Names /\ FreshName(t).current /\ FreshName(t).seq = call[t].seq
    BY <1>2 DEF FreshName, Names
<1>4. Len(data) \in Nat
    BY DEF Types, DataOK
<1>5. PICK w : w = [name |-> FreshName(t), file |-> Len(data) + 1, index |-> 0,
                    append |-> FALSE, pos |-> 0, ram |-> 0]
    OBVIOUS
<1>6. w \in Writers /\ w # NoFile
    BY <1>3, <1>4, <1>5 DEF Writers, NoFile
<1>7. SetWriter(t, w) /\ Goto(t, "write")
    BY <1>5 DEF Created
<1>8. PICK c \in LogCalls : /\ call' = [call EXCEPT ![t] = c] /\ c = [call[t] EXCEPT !.at = "write"]
                            /\ c.at = "write" /\ c.logger = call[t].logger
                            /\ c.install = call[t].install
    BY <1>1, <1>7, GotoIs DEF Places
<1>9. w.name = FreshName(t) /\ w.file = Len(data) + 1 /\ w.index = 0 /\ ~w.append /\ w.pos = 0
    BY <1>5
<1> QED
    BY <1>3, <1>5, <1>6, <1>7, <1>8, <1>9

\* A file is made under a new name.
LEMMA CreatedTypes ==
    ASSUME Types, NEW t \in Threads, Holding(t), Created(t),
           UNCHANGED <<session, config, second, used, owed>>
    PROVE  Types'
<1>1. PICK c \in LogCalls, w \in Writers :
             /\ FreshName(t) \in Names
             /\ call' = [call EXCEPT ![t] = c]
             /\ c.at = "write" /\ c.logger = call[t].logger /\ c.install = call[t].install
             /\ SetWriter(t, w)
             /\ w.file = Len(data) + 1 /\ w.pos = 0 /\ w # NoFile
    BY CreatedIs
<1>2. /\ FreshName(t) \notin DOMAIN dir /\ data' = Append(data, <<>>)
      /\ dir' = [m \in DOMAIN dir \cup {FreshName(t)} |->
                   IF m = FreshName(t) THEN Len(data) + 1 ELSE dir[m]]
    BY DEF Created
<1>3. /\ DirOK' /\ DataOK' /\ Grown
      /\ DOMAIN data' = DOMAIN data \cup {Len(data) + 1} /\ data'[Len(data) + 1] = <<>>
    BY <1>1, <1>2, CreateTypes
<1>4. Len(data'[w.file]) = 0
    BY <1>1, <1>3
<1>5. Sound(w)'
    BY <1>1, <1>3, <1>4 DEF Sound
<1>6. Fits(c, w)
    BY <1>1 DEF Fits
<1>7. /\ used' \in UsedType /\ used'.lines = used.lines /\ used'.calls = used.calls
    BY UsedStays
<1> QED
    BY <1>1, <1>3, <1>5, <1>6, <1>7, GoOn

\* The first file of a Logger is made, or its name is taken (create_active_file).
LEMMA CreateStepTypes == ASSUME Types, NEW t \in Threads, Create(t) PROVE Types'
<1>1. At(t, {"create"}) /\ UNCHANGED <<session, config, second, used, owed>>
    BY DEF Create
<1>2. Holding(t)
    BY <1>1 DEF Holding, At
<1>3. CASE Created(t)
    BY <1>1, <1>2, <1>3, CreatedTypes
<1>4. CASE Drop(t) /\ UNCHANGED <<disk, overlap>>
    BY <1>1, <1>2, <1>4, DropTypes, FilesStay, UsedStays
<1> QED
    BY <1>3, <1>4 DEF Create

\* The full file is archived, or is gone (rotate_active).
LEMMA RotateTypes == ASSUME Types, NEW t \in Threads, Rotate(t) PROVE Types'
<1>1. At(t, {"rotate"}) /\ UNCHANGED <<data, session, config, second, used, owed, overlap>>
    BY DEF Rotate
<1>2. Holding(t) /\ Busy(t)
    BY <1>1 DEF Holding, Busy, At
<1>3. /\ used' \in UsedType /\ used'.lines = used.lines /\ used'.calls = used.calls
    BY <1>1, UsedStays
<1>4. CASE /\ Writer(t).name \in DOMAIN dir
           /\ dir' = Renamed(Writer(t).name, Archived(Writer(t).name))
           /\ Goto(t, "prune") /\ UNCHANGED active
  <2>1. Writer(t) # NoFile /\ Writer(t).name \in Names /\ Writer(t).name.current /\ Sound(Writer(t))
      BY <1>1, <1>2, Held DEF At, Fits
  <2>2. PICK n : n = Writer(t).name
      OBVIOUS
  <2>3. Archived(n) \in Names /\ Archived(n) # n
      BY <2>1, <2>2, NameFacts
  <2>4. DirOK' /\ DataOK' /\ Grown
      BY <1>1, <1>4, <2>2, <2>3, RenameTypes
  <2>5. PICK c \in LogCalls : /\ call' = [call EXCEPT ![t] = c]
                              /\ c.at = "prune" /\ c.logger = call[t].logger
                              /\ c.install = call[t].install
      BY <1>2, <1>4, GotoIs DEF Places
  <2>6. PICK w : w = Writer(t)
      OBVIOUS
  <2>8. w.ram = 0
      BY <2>6 DEF Rotate
  <2>7. Fits(c, w) /\ Sound(w)' /\ SetWriter(t, w)
      BY <1>2, <1>4, <2>1, <2>4, <2>5, <2>6, <2>8, SoundStays, ActiveStays DEF Fits
  <2> QED
      BY <1>1, <1>2, <1>3, <2>4, <2>5, <2>7, GoOn
<1>5. CASE Drop(t) /\ UNCHANGED dir
    BY <1>1, <1>2, <1>3, <1>5, DropTypes, FilesStay DEF disk
<1> QED
    BY <1>4, <1>5 DEF Rotate

\* A set of places that has, with one place, all before it is the first ones.
LEMMA FirstOnes ==
    ASSUME NEW n \in Nat, NEW S \in SUBSET (1..n), \A j \in S : \A i \in 1..j : i \in S
    PROVE  Cardinality(S) \in 0..n /\ S = 1..Cardinality(S)
<1> DEFINE Outside == {k \in Nat : k + 1 \notin S}
<1>1. n \in Outside
    OBVIOUS
<1>2. PICK k \in Outside : \A m \in Outside : k <= m
    BY <1>1, Numbers!Least
<1>3. k \in Nat /\ k <= n
    BY <1>1, <1>2
<1>4. ASSUME NEW i \in 1..k PROVE i \in S
  <2>1. i - 1 \in Nat /\ ~(k <= i - 1)
      BY <1>3
  <2> QED
      BY <1>2, <2>1
<1>5. ASSUME NEW j \in S PROVE j \in 1..k
  <2>1. j \in Nat /\ j >= 1
      OBVIOUS
  <2>2. CASE j > k
    <3>1. k + 1 \in 1..j
        BY <1>3, <2>1, <2>2
    <3> QED
        BY <1>2, <3>1
  <2> QED
      BY <1>3, <2>1, <2>2
<1>6. S = 1..k
    BY <1>4, <1>5
<1>7. Cardinality(1..k) = k
    BY <1>3, FS_Interval
<1> QED
    BY <1>3, <1>6, <1>7

\* The archives in sequence.
LEMMA InSequenceIs ==
    ASSUME Types, NEW files \in InSequence(Archives)
    PROVE  \E n \in Nat : /\ n = Len(files) /\ DOMAIN files = 1..n
                          /\ files \in [1..n -> Archives] /\ files \in Seq(Names)
                          /\ \A i, j \in 1..n : files[i] = files[j] => i = j
                          /\ \A i, j \in 1..n : i < j => files[i].seq <= files[j].seq
<1>1. IsFiniteSet(Archives) /\ Archives \subseteq Names
    BY FS_Subset DEF Archives, Types, DirOK
<1>2. PICK n \in Nat : n = Cardinality(Archives)
    BY <1>1, FS_CardinalityType
<1>3. files \in [1..n -> Archives] /\ IsInjective(files)
    BY <1>2 DEF InSequence
<1>4. files \in Seq(Archives) /\ Len(files) = n
    BY <1>3
<1>5. \A i, j \in 1..n : i < j => files[i].seq <= files[j].seq
    BY <1>2 DEF InSequence
<1>6. files \in Seq(Names)
    BY <1>1, <1>4
<1>7. \A i, j \in 1..n : files[i] = files[j] => i = j
    BY <1>3 DEF IsInjective
<1> QED
    BY <1>3, <1>4, <1>5, <1>6, <1>7

-----------------------------------------------------------------------------
\* LINES ARE COUNTED

\* The lines of the names in S, each by its name and its place.
LineSet(S) == UNION {{n} \X DOMAIN Content(n) : n \in S}

\* Files have no more lines than there are numbers in them.
LEMMA LineCountIs ==
    ASSUME Types, NEW S \in SUBSET DOMAIN dir, NEW T, IsFiniteSet(T),
           \A n \in S : LinesIn(n) \subseteq T
    PROVE  /\ IsFiniteSet(LineSet(S))
           /\ LineCount(S) = Cardinality(LineSet(S))
           /\ LineCount(S) \in Nat /\ LineCount(S) <= Cardinality(T)
<1> DEFINE f == [x \in LineSet(S) |-> Content(x[1])[x[2]]]
<1>1. \A x \in LineSet(S) : x[1] \in S /\ x[2] \in DOMAIN Content(x[1]) /\ x = <<x[1], x[2]>>
    BY DEF LineSet
<1>2. \A n \in S : dir[n] \in DOMAIN data /\ Content(n) = data[dir[n]]
    BY DEF Content, Types, DirOK
<1>3. f \in [LineSet(S) -> T]
    BY <1>1 DEF LinesIn, Range
<1>4. ASSUME NEW x \in LineSet(S), NEW y \in LineSet(S), f[x] = f[y]
      PROVE  x = y
  <2>1. data[dir[x[1]]][x[2]] = data[dir[y[1]]][y[2]]
      BY <1>1, <1>2, <1>4
  <2>2. dir[x[1]] = dir[y[1]] /\ x[2] = y[2]
      BY <1>1, <1>2, <2>1 DEF Types, DataOK
  <2>3. x[1] = y[1]
      BY <1>1, <2>2 DEF Types, DirOK
  <2> QED
      BY <1>1, <2>2, <2>3
<1>5. f \in Injection(LineSet(S), T)
    BY <1>3, <1>4 DEF Injection, IsInjective
<1>6. IsFiniteSet(LineSet(S)) /\ Cardinality(LineSet(S)) <= Cardinality(T)
    BY <1>5, FS_Injection
<1>7. LineCount(S) = Cardinality(LineSet(S))
    BY DEF LineCount, LineSet
<1> QED
    BY <1>6, <1>7, FS_CardinalityType

\* The lines that were ever written are finite.
LEMMA LinesAreFinite ==
    ASSUME Types
    PROVE  /\ IsFiniteSet(1..used.lines)
           /\ \A n \in DOMAIN dir : LinesIn(n) \subseteq 1..used.lines
           /\ OnDisk \subseteq 1..used.lines /\ IsFiniteSet(OnDisk)
<1>1. IsFiniteSet(1..used.lines)
    BY FS_Interval DEF Types, UsedOK, UsedType
<1>2. \A n \in DOMAIN dir : LinesIn(n) \subseteq 1..used.lines
    BY DEF LinesIn, Range, Content, Types, DirOK, DataOK
<1>3. OnDisk \subseteq 1..used.lines
    BY <1>2 DEF OnDisk
<1> QED
    BY <1>1, <1>2, <1>3, FS_Subset

\* More files have more lines.
LEMMA LineCountGrows ==
    ASSUME Types, NEW T \in SUBSET DOMAIN dir, NEW S \in SUBSET T
    PROVE  LineCount(S) \in Nat /\ LineCount(T) \in Nat /\ LineCount(S) <= LineCount(T)
<1>1. /\ IsFiniteSet(LineSet(T)) /\ LineCount(T) = Cardinality(LineSet(T)) /\ LineCount(T) \in Nat
    BY LineCountIs, LinesAreFinite
<1>2. LineSet(S) \subseteq LineSet(T)
    BY DEF LineSet
<1>3. LineCount(S) = Cardinality(LineSet(S))
    BY DEF LineCount, LineSet
<1> QED
    BY <1>1, <1>2, <1>3, FS_Subset, FS_CardinalityType

\* What is to be pruned: the first files of the sequence, each of which has, with all
\* after it, more lines than the budget.
LEMMA DoomedIs ==
    ASSUME Types, NEW files \in InSequence(Archives), NEW keep \in Nat
    PROVE  /\ Doomed(files, keep) \in Seq(Names)
           /\ \A d \in Range(Doomed(files, keep)) : \E i \in 1..Len(files) :
                 /\ d = files[i] /\ d \in Archives
                 /\ LineCount({files[j] : j \in i..Len(files)}) > keep
<1>1. PICK n \in Nat : /\ n = Len(files) /\ DOMAIN files = 1..n
                       /\ files \in [1..n -> Archives] /\ files \in Seq(Names)
    BY InSequenceIs
<1> DEFINE From(i) == LineCount({files[j] : j \in i..Len(files)})
           excess == {i \in DOMAIN files : keep # 0 /\ From(i) > keep}
<1>2. Archives \subseteq DOMAIN dir
    BY DEF Archives
<1>3. ASSUME NEW j \in excess, NEW i \in 1..j PROVE i \in excess
  <2>1. i \in 1..n /\ j \in 1..n /\ keep # 0 /\ From(j) > keep
      BY <1>1
  <2>2. PICK S, T : S = {files[k] : k \in j..Len(files)} /\ T = {files[k] : k \in i..Len(files)}
      OBVIOUS
  <2>3. S \subseteq T
      BY <1>1, <2>1, <2>2
  <2>4. T \subseteq DOMAIN dir
      BY <1>1, <1>2, <2>1, <2>2
  <2>5. LineCount(S) \in Nat /\ LineCount(T) \in Nat /\ LineCount(S) <= LineCount(T)
      BY <2>3, <2>4, LineCountGrows
  <2>6. LineCount(T) > keep
      BY <2>1, <2>2, <2>5
  <2> QED
      BY <1>1, <2>1, <2>2, <2>6
<1>4. PICK E : E = excess
    OBVIOUS
<1>5. E \in SUBSET (1..n)
    BY <1>1, <1>4
<1>6. Cardinality(E) \in 0..n /\ E = 1..Cardinality(E)
    BY <1>3, <1>4, <1>5, FirstOnes
<1>7. PICK k \in 0..n : k = Cardinality(E)
    BY <1>6
<1>8. Doomed(files, keep) = SubSeq(files, 1, k)
    BY <1>4, <1>7 DEF Doomed
<1>9. PICK d : d = Doomed(files, keep)
    OBVIOUS
<1>10. d \in Seq(Names) /\ DOMAIN d = 1..k /\ \A i \in 1..k : d[i] = files[i]
    BY <1>1, <1>8, <1>9
<1>11. ASSUME NEW i \in 1..k PROVE i \in 1..n /\ From(i) > keep
  <2>1. i \in E
      BY <1>6, <1>7
  <2>2. i \in excess
      BY <1>4, <2>1
  <2> QED
      BY <1>1, <2>2
<1> QED
    BY <1>1, <1>9, <1>10, <1>11 DEF Range

\* The archives to remove are chosen (prune_old_files).
LEMMA PlanPruneTypes == ASSUME Types, NEW t \in Threads, PlanPrune(t) PROVE Types'
<1>1. /\ At(t, {"prune"}) /\ UNCHANGED <<disk, session, config, active, second, used, overlap>>
      /\ owed' \subseteq owed
    BY DEF PlanPrune
<1>2. Busy(t) /\ Holding(t)
    BY <1>1 DEF Busy, Holding, At
<1>3. PICK files \in InSequence(Archives) :
        call' = [call EXCEPT ![t].at = "roll", ![t].seq = Writer(t).name.seq + 1,
                             ![t].doomed = Doomed(files, Limits(t).keep)]
    BY DEF PlanPrune
<1>4. /\ call[t] \in LogCalls /\ Writer(t) # NoFile /\ Writer(t).name \in Names /\ Sound(Writer(t))
      /\ call[t].logger \in Loggers /\ call[t].logger <= session
    BY <1>1, <1>2, Held DEF At, Fits
<1>5. Limits(t).keep \in Nat
    BY <1>4, LogAssumption DEF Limits, Types, SettingsOK
<1>6. PICK d \in Seq(Names) : d = Doomed(files, Limits(t).keep)
    BY <1>5, DoomedIs
<1>7. PICK s \in Nat : s = Writer(t).name.seq + 1
    BY <1>4, NameFacts
<1>8. PICK c : c = [call[t] EXCEPT !.at = "roll", !.seq = s, !.doomed = d]
    OBVIOUS
<1>9. /\ c \in LogCalls /\ c.at = "roll" /\ c.seq = s
      /\ c.logger = call[t].logger /\ c.install = call[t].install
    BY <1>4, <1>8 DEF LogCalls, Places
<1>10. call' = [call EXCEPT ![t] = c]
    BY <1>3, <1>6, <1>7, <1>8 DEF Types, CallsOK
<1>11. DirOK' /\ DataOK' /\ Grown
    BY <1>1, FilesStay, UsedStays
<1>12. PICK w : w = Writer(t)
    OBVIOUS
<1>15. w.ram = 0
    BY <1>1, <1>2, <1>12, Held DEF Fits, At
<1>13. Fits(c, w) /\ Sound(w)' /\ SetWriter(t, w)
    BY <1>1, <1>2, <1>4, <1>7, <1>9, <1>11, <1>12, <1>15, SoundStays, ActiveStays DEF Fits
<1>14. /\ used' \in UsedType /\ used'.lines = used.lines /\ used'.calls = used.calls
    BY <1>1, UsedStays
<1> QED
    BY <1>1, <1>2, <1>9, <1>10, <1>11, <1>13, <1>14, GoOn

\* The files still to be pruned change, and nothing else of the call.
LEMMA DoomedSet ==
    ASSUME Types, NEW t \in Threads, At(t, {"roll"}), NEW d \in Seq(Names),
           call' = [call EXCEPT ![t].doomed = d], UNCHANGED active,
           UNCHANGED <<session, config, second>>,
           used' \in UsedType, used'.lines = used.lines, used'.calls = used.calls,
           DirOK', DataOK', Grown
    PROVE  Types'
<1>1. Busy(t) /\ Holding(t)
    BY DEF Busy, Holding, At
<1>2. /\ call[t] \in LogCalls /\ Fits(call[t], Writer(t)) /\ Sound(Writer(t))
    BY <1>1, Held
<1>3. PICK c : c = [call[t] EXCEPT !.doomed = d]
    OBVIOUS
<1>4. /\ c \in LogCalls /\ c.at = call[t].at /\ c.seq = call[t].seq
      /\ c.logger = call[t].logger /\ c.install = call[t].install
    BY <1>2, <1>3 DEF LogCalls
<1>5. call' = [call EXCEPT ![t] = c]
    BY <1>3 DEF Types, CallsOK
<1>6. PICK w : w = Writer(t)
    OBVIOUS
<1>7. Fits(c, w) /\ Sound(w)' /\ SetWriter(t, w)
    BY <1>1, <1>2, <1>4, <1>6, SoundStays, ActiveStays DEF Fits
<1> QED
    BY <1>1, <1>4, <1>5, <1>7, GoOn

\* One of them is removed, or is gone (prune_old_files).
LEMMA PruneOneTypes == ASSUME Types, NEW t \in Threads, PruneOne(t) PROVE Types'
<1>1. /\ At(t, {"roll"}) /\ call[t].doomed # <<>>
      /\ UNCHANGED <<data, session, config, active, second, used, owed, overlap>>
    BY DEF PruneOne
<1>2. call[t].doomed \in Seq(Names)
    BY <1>1, CallFacts DEF At, Busy, LogCalls
<1>3. /\ used' \in UsedType /\ used'.lines = used.lines /\ used'.calls = used.calls
    BY <1>1, UsedStays
<1>4. PICK n : n = Head(call[t].doomed)
    OBVIOUS
<1>5. PICK s \in Seq(Names) : s = call[t].doomed /\ s # <<>>
    BY <1>1, <1>2
<1>6. Tail(s) \in Seq(Names)
    BY <1>5
<1>7. PICK d \in Seq(Names) : d = Tail(call[t].doomed)
    BY <1>5, <1>6
<1>8. CASE dir' = Unlinked(n) /\ call' = [call EXCEPT ![t].doomed = Tail(@)]
  <2>1. DirOK' /\ DataOK' /\ Grown
      BY <1>1, <1>3, <1>8, UnlinkTypes
  <2>2. call' = [call EXCEPT ![t].doomed = d]
      BY <1>8, <1>7
  <2> QED
      BY <1>1, <1>3, <2>1, <2>2, DoomedSet
<1>9. CASE call' = [call EXCEPT ![t].doomed = <<>>] /\ UNCHANGED dir
  <2>1. DirOK' /\ DataOK' /\ Grown
      BY <1>1, <1>3, <1>9, FilesStay DEF disk
  <2>2. <<>> \in Seq(Names)
      OBVIOUS
  <2> QED
      BY <1>1, <1>3, <1>9, <2>1, <2>2, DoomedSet
<1> QED
    BY <1>4, <1>8, <1>9 DEF PruneOne

\* A call goes to another place with the same file.
LEMMA GotoTypes ==
    ASSUME Types, NEW t \in Threads, Holding(t), NEW p \in Places, Goto(t, p),
           At(t, {"roll"}), p = "rollback", UNCHANGED active,
           UNCHANGED <<session, config, second>>,
           used' \in UsedType, used'.lines = used.lines, used'.calls = used.calls,
           DirOK', DataOK', Grown
    PROVE  Types'
<1>1. Busy(t)
    BY DEF Busy, Holding, At
<1>2. /\ call[t] \in LogCalls /\ Fits(call[t], Writer(t)) /\ Sound(Writer(t))
    BY <1>1, Held
<1>3. PICK c \in LogCalls : /\ call' = [call EXCEPT ![t] = c] /\ c.at = p
                            /\ c.logger = call[t].logger /\ c.install = call[t].install
                            /\ c.seq = call[t].seq
    BY <1>1, GotoIs
<1>4. PICK w : w = Writer(t)
    OBVIOUS
<1>5. Fits(c, w) /\ Sound(w)' /\ SetWriter(t, w)
    BY <1>1, <1>2, <1>3, <1>4, SoundStays, ActiveStays DEF Fits, At
<1> QED
    BY <1>3, <1>5, GoOn

\* The file after the full one is made, or its name is taken (rotate_active).
LEMMA RollTypes == ASSUME Types, NEW t \in Threads, Roll(t) PROVE Types'
<1>1. At(t, {"roll"}) /\ UNCHANGED <<session, config, second, used, owed, overlap>>
    BY DEF Roll
<1>2. Holding(t)
    BY <1>1 DEF Holding, At
<1>3. CASE Created(t)
    BY <1>1, <1>2, <1>3, CreatedTypes
<1>4. CASE Goto(t, "rollback") /\ UNCHANGED <<disk, active>>
  <2>1. DirOK' /\ DataOK' /\ Grown
      BY <1>1, <1>4, FilesStay
  <2>2. /\ used' \in UsedType /\ used'.lines = used.lines /\ used'.calls = used.calls
      BY <1>1, UsedStays
  <2> QED
      BY <1>1, <1>2, <1>4, <2>1, <2>2, GotoTypes DEF Places
<1> QED
    BY <1>3, <1>4 DEF Roll

\* The archive becomes the current file again, or is gone (rotate_active).
LEMMA RollbackTypes == ASSUME Types, NEW t \in Threads, Rollback(t) PROVE Types'
<1>1. /\ At(t, {"rollback"}) /\ UNCHANGED <<data, session, config, second, owed, overlap>>
      /\ UNCHANGED used \/ Use("upsets")
    BY DEF Rollback
<1>2. Holding(t) /\ Busy(t)
    BY <1>1 DEF Holding, Busy, At
<1>3. /\ used' \in UsedType /\ used'.lines = used.lines /\ used'.calls = used.calls
    BY <1>1, UsedStays, UseIs
<1>4. PICK n : n = Writer(t).name
    OBVIOUS
<1>9. Writer(t) # NoFile
    BY <1>1, <1>2, Held DEF At, Fits
<1>5. n \in Names /\ n.current /\ Archived(n) \in Names /\ Archived(n) # n
    BY <1>2, <1>4, <1>9, Held, NameFacts
<1>6. CASE /\ Archived(n) \in DOMAIN dir /\ dir' = Renamed(Archived(n), n)
           /\ SetWriter(t, [Resumed(Archived(n)) EXCEPT !.name = n]) /\ Goto(t, "write")
  <2>1. PICK w \in Writers : /\ w = [Resumed(Archived(n)) EXCEPT !.name = n]
                             /\ w # NoFile /\ Sound(w)
      BY <1>5, <1>6, ResumedIs
  <2>2. DirOK' /\ DataOK' /\ Grown
      BY <1>1, <1>3, <1>5, <1>6, RenameTypes
  <2>3. PICK c \in LogCalls : /\ call' = [call EXCEPT ![t] = c]
                              /\ c.at = "write" /\ c.logger = call[t].logger
                              /\ c.install = call[t].install
      BY <1>2, <1>6, GotoIs DEF Places
  <2>4. Fits(c, w) /\ Sound(w)' /\ SetWriter(t, w)
      BY <1>6, <2>1, <2>2, <2>3, SoundStays DEF Fits
  <2> QED
      BY <1>1, <1>2, <1>3, <2>2, <2>3, <2>4, GoOn
<1>7. CASE Drop(t) /\ UNCHANGED dir
    BY <1>1, <1>2, <1>3, <1>7, DropTypes, FilesStay DEF disk
<1>8. CASE Archived(n) \in DOMAIN dir /\ dir' = Renamed(Archived(n), n) /\ Drop(t)
    BY <1>1, <1>2, <1>3, <1>5, <1>8, DropTypes, RenameTypes
<1> QED
    BY <1>4, <1>6, <1>7, <1>8 DEF Rollback

\* The file of a Logger with other counts, and the place where its next line goes.
LEMMA WriterParts ==
    ASSUME NEW w \in Writers
    PROVE  /\ w = [name |-> w.name, file |-> w.file, index |-> w.index, append |-> w.append,
                   pos |-> w.pos, ram |-> w.ram]
           /\ w.name \in Names /\ w.name.current /\ w.file \in Nat
           /\ w.index \in Nat /\ w.append \in BOOLEAN /\ w.pos \in Nat /\ w.ram \in Nat
BY DEF Writers

LEMMA WriterMoves ==
    ASSUME NEW w \in Writers, NEW i \in Nat, NEW r \in Nat, NEW p \in Nat, NEW v,
           v = [name |-> w.name, file |-> w.file, index |-> i, append |-> w.append, pos |-> p,
                ram |-> r]
    PROVE  /\ v \in Writers /\ v # NoFile
           /\ v.name = w.name /\ v.file = w.file /\ v.append = w.append
           /\ v.index = i /\ v.ram = r /\ v.pos = p
<1>1. v \in Writers
    BY WriterParts DEF Writers
<1>2. v # NoFile
  <2>1. "name" \in DOMAIN v /\ "name" \notin DOMAIN NoFile
      BY DEF NoFile
  <2> QED
      BY <2>1
<1> QED
    BY <1>1, <1>2

\* The file of a Logger with one line more on disk.
LEMMA Written ==
    ASSUME NEW w \in Writers, NEW v, v = [w EXCEPT !.index = @ + 1, !.pos = NextPos(w)]
    PROVE  /\ v \in Writers /\ v # NoFile
           /\ v.name = w.name /\ v.file = w.file /\ v.append = w.append
           /\ v.index = w.index + 1 /\ v.ram = w.ram
           /\ ~w.append => v.pos = w.pos + 1
<1>1. /\ w = [name |-> w.name, file |-> w.file, index |-> w.index, append |-> w.append,
              pos |-> w.pos, ram |-> w.ram]
      /\ w.index \in Nat /\ w.pos \in Nat /\ w.ram \in Nat /\ w.append \in BOOLEAN
    BY WriterParts
<1>2. PICK i \in Nat, r \in Nat, p \in Nat : i = w.index + 1 /\ r = w.ram /\ p = NextPos(w)
    BY <1>1 DEF NextPos
<1>3. v = [w EXCEPT !.index = i, !.pos = p]
    BY <1>2
<1>4. v = [name |-> w.name, file |-> w.file, index |-> i, append |-> w.append, pos |-> p,
           ram |-> r]
    BY <1>1, <1>2, <1>3
<1>5. PICK x : x = [name |-> w.name, file |-> w.file, index |-> i, append |-> w.append,
                    pos |-> p, ram |-> r]
    OBVIOUS
<1>6. /\ x \in Writers /\ x # NoFile
      /\ x.name = w.name /\ x.file = w.file /\ x.append = w.append
      /\ x.index = i /\ x.ram = r /\ x.pos = p
    BY ONLY <1>5, WriterMoves, w \in Writers, i \in Nat, r \in Nat, p \in Nat
<1>7. v = x
    BY <1>4, <1>5
<1>8. ~w.append => p = w.pos + 1
    BY <1>2 DEF NextPos
<1> QED
    BY <1>2, <1>6, <1>7, <1>8

\* The file of a Logger, counted one line longer.
LEMMA Counted ==
    ASSUME NEW w \in Writers, NEW v, v = [w EXCEPT !.index = @ + 1]
    PROVE  /\ v \in Writers /\ v # NoFile
           /\ v.name = w.name /\ v.file = w.file /\ v.append = w.append
           /\ v.pos = w.pos /\ v.index = w.index + 1 /\ v.ram = w.ram
<1>1. /\ w = [name |-> w.name, file |-> w.file, index |-> w.index, append |-> w.append,
              pos |-> w.pos, ram |-> w.ram]
      /\ w.index \in Nat /\ w.pos \in Nat /\ w.ram \in Nat
    BY WriterParts
<1>2. PICK i \in Nat, r \in Nat, p \in Nat : i = w.index + 1 /\ r = w.ram /\ p = w.pos
    BY <1>1
<1>3. v = [w EXCEPT !.index = i]
    BY <1>2
<1>4. v = [name |-> w.name, file |-> w.file, index |-> i, append |-> w.append, pos |-> p,
           ram |-> r]
    BY <1>1, <1>2, <1>3
<1>5. PICK x : x = [name |-> w.name, file |-> w.file, index |-> i, append |-> w.append,
                    pos |-> p, ram |-> r]
    OBVIOUS
<1>6. /\ x \in Writers /\ x # NoFile
      /\ x.name = w.name /\ x.file = w.file /\ x.append = w.append
      /\ x.index = i /\ x.ram = r /\ x.pos = p
    BY ONLY <1>5, WriterMoves, w \in Writers, i \in Nat, r \in Nat, p \in Nat
<1>7. v = x
    BY <1>4, <1>5
<1> QED
    BY <1>2, <1>6, <1>7

\* The line is written and the mutex released (write_line_locked).
LEMMA WriteStepTypes == ASSUME Types, NEW t \in Threads, Write(t) PROVE Types'
<1>1. /\ At(t, {"write"}) /\ Use("lines") /\ Return(t)
      /\ UNCHANGED <<dir, session, config, second, overlap>>
      /\ owed' \subseteq owed \cup {used.lines + 1}
    BY DEF Write, OnDiskFrom, NewLine
<1>2. Holding(t) /\ Busy(t)
    BY <1>1 DEF Holding, Busy, At
<1>3. PICK w : w = Writer(t)
    OBVIOUS
<1>4. /\ w \in Writers /\ w # NoFile /\ w.file \in DOMAIN data /\ w.pos \in Nat
      /\ ~w.append => w.pos <= Len(data[w.file])
    BY <1>1, <1>2, <1>3, Held DEF At, Fits
<1>5. data' = [data EXCEPT ![w.file] = Put(@, w, used.lines + 1)]
    BY <1>3 DEF Write, OnDiskFrom, NewLine
<1>6. SetWriter(t, [w EXCEPT !.index = @ + 1, !.pos = NextPos(w)])
    BY <1>3 DEF Write
<1>7. /\ used' \in UsedType /\ used'.lines = used.lines + 1 /\ used'.calls = used.calls
    BY <1>1, UseIs
<1>8. DirOK' /\ DataOK' /\ Grown
    BY <1>1, <1>4, <1>5, <1>7, WriteTypes
<1>9. PICK v : v = [w EXCEPT !.index = @ + 1, !.pos = NextPos(w)]
    OBVIOUS
<1>10. /\ v \in Writers /\ v.file = w.file /\ v.append = w.append
       /\ ~w.append => v.pos = w.pos + 1
    BY <1>4, <1>9, Written
<1>11. Len(data'[w.file]) >= PlaceOf(w) /\ DOMAIN data' = DOMAIN data
    BY <1>4, <1>5, WriteIs
<1>12. Sound(v)'
    BY <1>4, <1>10, <1>11 DEF Sound, PlaceOf
<1>13. Rest5'
    BY <1>1, <1>2, <1>6, <1>7, <1>8, <1>9, <1>10, <1>12, StepBack DEF SetWriter
<1> QED
    BY <1>8, <1>13 DEF Types, Rest5

\* A call that returns, with a file of other counts.
LEMMA CountedTypes ==
    ASSUME Types, NEW t \in Threads, At(t, {"write"}), Return(t), Use("upsets"),
           NEW v, SetWriter(t, v), v \in Writers, v.file = Writer(t).file,
           v.append = Writer(t).append, v.pos = Writer(t).pos,
           UNCHANGED <<disk, session, config, second, owed>>
    PROVE  Types'
<1>1. Holding(t) /\ Busy(t)
    BY DEF Holding, Busy, At
<1>2. Writer(t) \in Writers /\ Writer(t) # NoFile /\ Sound(Writer(t))
    BY <1>1, Held DEF At, Fits
<1>3. used' \in UsedType /\ used'.lines = used.lines /\ used'.calls = used.calls
    BY UseIs
<1>4. DirOK' /\ DataOK' /\ Grown
    BY <1>3, FilesStay
<1>5. PICK w : w = Writer(t)
    OBVIOUS
<1>6. Sound(w)'
    BY <1>2, <1>4, <1>5, SoundStays
<1>7. Sound(v)'
    BY <1>2, <1>5, <1>6 DEF Sound
<1>8. Rest5'
    BY <1>1, <1>3, <1>4, <1>7, StepBack DEF SetWriter
<1> QED
    BY <1>4, <1>8 DEF Types, Rest5

\* The file of a Logger with one line more in its buffer.
LEMMA Unflushed ==
    ASSUME NEW w \in Writers, NEW v, v = [w EXCEPT !.index = @ + 1, !.ram = @ + 1]
    PROVE  /\ v \in Writers /\ v # NoFile
           /\ v.name = w.name /\ v.file = w.file /\ v.append = w.append /\ v.pos = w.pos
           /\ v.index = w.index + 1 /\ v.ram = w.ram + 1
<1>1. /\ w = [name |-> w.name, file |-> w.file, index |-> w.index, append |-> w.append,
              pos |-> w.pos, ram |-> w.ram]
      /\ w.index \in Nat /\ w.pos \in Nat /\ w.ram \in Nat
    BY WriterParts
<1>2. PICK i \in Nat, r \in Nat, p \in Nat : i = w.index + 1 /\ r = w.ram + 1 /\ p = w.pos
    BY <1>1
<1>3. v = [w EXCEPT !.index = i, !.ram = r]
    BY <1>2
<1>4. v = [name |-> w.name, file |-> w.file, index |-> i, append |-> w.append, pos |-> p,
           ram |-> r]
    BY <1>1, <1>2, <1>3
<1>5. PICK x : x = [name |-> w.name, file |-> w.file, index |-> i, append |-> w.append,
                    pos |-> p, ram |-> r]
    OBVIOUS
<1>6. /\ x \in Writers /\ x # NoFile
      /\ x.name = w.name /\ x.file = w.file /\ x.append = w.append
      /\ x.index = i /\ x.ram = r /\ x.pos = p
    BY ONLY <1>5, WriterMoves, w \in Writers, i \in Nat, r \in Nat, p \in Nat
<1>7. v = x
    BY <1>4, <1>5
<1> QED
    BY <1>2, <1>6, <1>7

\* The line is left in the buffer (write_line_locked).
LEMMA WriteUnflushedTypes ==
    ASSUME Types, NEW t \in Threads, WriteUnflushed(t)
    PROVE  Types'
<1>1. /\ At(t, {"write"}) /\ Return(t) /\ Use("upsets")
      /\ SetWriter(t, [Writer(t) EXCEPT !.index = @ + 1, !.ram = @ + 1])
      /\ UNCHANGED <<disk, session, config, second, owed>>
    BY DEF WriteUnflushed
<1>2. PICK w : w = Writer(t) /\ w \in Writers /\ w # NoFile
    BY <1>1, Held DEF Busy, At, Fits
<1>3. PICK v : v = [w EXCEPT !.index = @ + 1, !.ram = @ + 1]
    OBVIOUS
<1>4. v \in Writers /\ v.file = w.file /\ v.append = w.append /\ v.pos = w.pos
  <2>1. w \in Writers
      BY <1>2
  <2> QED
      BY ONLY <2>1, <1>3, Unflushed
<1>5. SetWriter(t, v)
    BY <1>1, <1>2, <1>3
<1> QED
    BY <1>1, <1>2, <1>4, <1>5, CountedTypes

\* What a flush does: a Logger in use has the first line of its buffer on disk.
LEMMA FlushIs ==
    ASSUME Types, NEW g \in Loggers, Flush(g)
    PROVE  \E w \in Writers, v \in Writers :
              /\ w = active[g] /\ w # NoFile /\ w.file \in DOMAIN data
              /\ ~w.append => w.pos <= Len(data[w.file])
              /\ Sound(w) /\ w.pos \in Nat /\ w.index \in Nat /\ w.ram \in Nat /\ w.ram # 0
              /\ data' = [data EXCEPT ![w.file] = Put(@, w, used.lines + 1)]
              /\ active' = [active EXCEPT ![g] = v]
              /\ v # NoFile /\ v.name = w.name /\ v.file = w.file /\ v.append = w.append
              /\ v.index = w.index /\ v.ram = w.ram - 1
              /\ ~w.append => v.pos = w.pos + 1
              /\ owed' = IF overlap \/ ~Linked(w) THEN owed ELSE owed \cup {used.lines + 1}
              /\ Use("lines")
              /\ UNCHANGED <<dir, session, config, call, second, overlap, budget>>
<1>1. PICK w : w = active[g]
    OBVIOUS
<1>2. /\ w # NoFile /\ w.ram # 0
      /\ active' = [active EXCEPT ![g] = [w EXCEPT !.ram = @ - 1, !.pos = NextPos(w)]]
      /\ owed' = IF overlap \/ ~Linked(w) THEN owed ELSE owed \cup {used.lines + 1}
      /\ UNCHANGED <<dir, session, config, call, second, overlap, budget>>
    BY <1>1 DEF Flush, NewLine
<1>3. data' = [data EXCEPT ![w.file] = Put(@, w, used.lines + 1)] /\ Use("lines")
    BY <1>1 DEF Flush, NewLine, OnDiskFrom
<1>4. /\ w \in Writers /\ w.file \in DOMAIN data
      /\ ~w.append => w.pos <= Len(data[w.file])
    BY <1>1, <1>2 DEF Types, WritersOK
<1>5. w.pos \in Nat /\ w.index \in Nat /\ w.ram \in Nat
    BY <1>4 DEF Writers
<1>6. Sound(w)
    BY <1>4 DEF Sound
<1>7. PICK k \in Nat : k = w.ram - 1
    BY <1>2, <1>5
<1>8. PICK v : v = [w EXCEPT !.ram = @ - 1, !.pos = NextPos(w)]
    OBVIOUS
<1>9. /\ w = [name |-> w.name, file |-> w.file, index |-> w.index, append |-> w.append,
              pos |-> w.pos, ram |-> w.ram]
      /\ w.append \in BOOLEAN
    BY <1>4, WriterParts
<1>12. PICK p \in Nat : p = NextPos(w)
    BY <1>5, <1>9 DEF NextPos
<1>13. v = [w EXCEPT !.ram = k, !.pos = p]
    BY <1>7, <1>8, <1>12
<1>14. v = [name |-> w.name, file |-> w.file, index |-> w.index, append |-> w.append, pos |-> p,
            ram |-> k]
    BY <1>9, <1>13
<1>15. /\ v \in Writers /\ v # NoFile
       /\ v.name = w.name /\ v.file = w.file /\ v.append = w.append
       /\ v.index = w.index /\ v.ram = k /\ v.pos = p
    BY <1>4, <1>5, <1>14, WriterMoves
<1>10. ~w.append => v.pos = w.pos + 1
    BY <1>12, <1>15 DEF NextPos
<1>11. active' = [active EXCEPT ![g] = v]
    BY <1>2, <1>8
<1> QED
    BY <1>1, <1>2, <1>3, <1>4, <1>5, <1>6, <1>7, <1>10, <1>11, <1>15

\* A line is flushed later; its Logger is not between two files (write_line_locked).
LEMMA FlushTypes == ASSUME Types, NEW g \in Loggers, Flush(g) PROVE Types'
<1>1. PICK w \in Writers, v \in Writers :
              /\ w = active[g] /\ w # NoFile /\ w.file \in DOMAIN data
              /\ ~w.append => w.pos <= Len(data[w.file])
              /\ w.pos \in Nat /\ w.ram # 0
              /\ data' = [data EXCEPT ![w.file] = Put(@, w, used.lines + 1)]
              /\ active' = [active EXCEPT ![g] = v]
              /\ v # NoFile /\ v.name = w.name /\ v.file = w.file /\ v.append = w.append
              /\ ~w.append => v.pos = w.pos + 1
              /\ owed' = IF overlap \/ ~Linked(w) THEN owed ELSE owed \cup {used.lines + 1}
              /\ Use("lines")
              /\ UNCHANGED <<dir, session, config, call, second>>
    BY FlushIs
<1>2. used' \in UsedType /\ used'.lines = used.lines + 1 /\ used'.calls = used.calls
    BY <1>1, UseIs
<1>3. DirOK' /\ DataOK' /\ Grown
    BY <1>1, <1>2, WriteTypes
<1>4. SettingsOK' /\ UsedOK'
    BY <1>1, <1>2 DEF Types, SettingsOK, UsedOK, UsedType
<1>5. Len(data'[w.file]) >= PlaceOf(w) /\ DOMAIN data' = DOMAIN data
    BY <1>1, WriteIs
<1>6. /\ active \in [Loggers -> Writers \cup {NoFile}]
      /\ active' \in [Loggers -> Writers \cup {NoFile}]
      /\ active'[g] = v /\ \A h \in Loggers \ {g} : active'[h] = active[h]
    BY <1>1 DEF Types, WritersOK
<1>7. WritersOK'
  <2> SUFFICES ASSUME NEW h \in Loggers, active'[h] # NoFile
               PROVE  /\ h <= session
                      /\ active'[h].file \in DOMAIN data'
                      /\ ~active'[h].append => active'[h].pos <= Len(data'[active'[h].file])
      BY <1>1, <1>6 DEF WritersOK
  <2>1. CASE h = g
    <3>1. g <= session
        BY <1>1 DEF Types, WritersOK
    <3> QED
        BY <1>1, <1>5, <1>6, <2>1, <3>1 DEF PlaceOf
  <2>2. CASE h # g
    <3>1. active[h] = active'[h] /\ active[h] # NoFile /\ active[h] \in Writers
        BY <1>6, <2>2
    <3>2. /\ h <= session /\ active[h].file \in DOMAIN data
          /\ ~active[h].append => active[h].pos <= Len(data[active[h].file])
        BY <3>1 DEF Types, WritersOK
    <3>3. active[h].pos \in Nat
        BY <3>1 DEF Writers
    <3> QED
        BY <1>3, <3>1, <3>2, <3>3 DEF Grown
  <2> QED
      BY <2>1, <2>2
<1>8. CallsOK'
  <2> SUFFICES ASSUME NEW u \in Threads PROVE CallOK(u)'
      BY <1>1 DEF Types, CallsOK
  <2>1. CallOK(u) /\ call'[u] = call[u] /\ session' = session
      BY <1>1 DEF Types, CallsOK
  <2>2. CASE ~Busy(u)
      BY <2>1, <2>2 DEF CallOK, At, Busy
  <2>3. CASE Busy(u) /\ call[u].logger # g
    <3>1. Writer(u)' = Writer(u)
        BY <1>6, <2>1, <2>3, Held DEF Writer
    <3> QED
        BY <2>1, <3>1 DEF CallOK, At
  <2>4. CASE Busy(u) /\ call[u].logger = g
    <3>1. Writer(u) = w /\ Writer(u)' = v
        BY <1>1, <1>6, <2>1, <2>4 DEF Writer
    <3>2. ~At(u, {"open", "create", "prune", "roll", "rollback"})
        BY <1>1, <2>1, <3>1 DEF CallOK, At
    <3> QED
        BY <1>1, <2>1, <3>1, <3>2 DEF CallOK, At
  <2> QED
      BY <2>2, <2>3, <2>4
<1>9. MutexOK'
    BY <1>1 DEF Types, MutexOK, Holding, At
<1> QED
    BY <1>3, <1>4, <1>7, <1>8, <1>9 DEF Types

\* A call that ends without a mutex or a line: the end of a delete.
LEMMA RemoveEnds ==
    ASSUME Types, NEW t \in Threads, At(t, {"remove"}), call' = [call EXCEPT ![t] = Idle],
           UNCHANGED <<session, config, active, second>>, DirOK', DataOK', Grown,
           used' \in UsedType, used'.lines = used.lines, used'.calls = used.calls
    PROVE  Types'
<1>1. call'[t] = Idle /\ \A u \in Threads : u # t => call'[u] = call[u]
    BY DEF Types, CallsOK
<1>2. SettingsOK'
    BY DEF Types, SettingsOK
<1>3. WritersOK'
  <2> SUFFICES ASSUME NEW g \in Loggers, active[g] # NoFile
               PROVE  /\ active[g].file \in DOMAIN data'
                      /\ ~active[g].append => active[g].pos <= Len(data'[active[g].file])
      BY DEF Types, WritersOK
  <2>1. active[g] \in Writers
      BY DEF Types, WritersOK
  <2>2. /\ active[g].file \in DOMAIN data
        /\ ~active[g].append => active[g].pos <= Len(data[active[g].file])
      BY DEF Types, WritersOK
  <2>3. active[g].pos \in Nat
      BY <2>1 DEF Writers
  <2> QED
      BY <2>2, <2>3 DEF Grown
<1>4. CallsOK'
  <2> SUFFICES ASSUME NEW u \in Threads PROVE CallOK(u)'
      BY DEF Types, CallsOK
  <2>1. CASE u = t
      BY <1>1, <2>1 DEF CallOK, At, Idle
  <2>2. CASE u # t
      BY <1>1, <2>2 DEF Types, CallsOK, CallOK, At, Writer
  <2> QED
      BY <2>1, <2>2
<1>5. MutexOK'
    BY <1>1 DEF Types, MutexOK, Holding, At, Idle
<1>7. UsedOK'
    BY DEF UsedOK, UsedType
<1> QED
    BY <1>2, <1>3, <1>4, <1>5, <1>7 DEF Types

\* A file operation fails, at each of the places where one is made.
LEMMA FailTypes == ASSUME Types, NEW t \in Threads, Fail(t) PROVE Types'
<1>1. Use("upsets") /\ UNCHANGED <<disk, session, config, second, owed, overlap>>
    BY DEF Fail
<1>2. /\ used' \in UsedType /\ used'.lines = used.lines /\ used'.calls = used.calls
    BY <1>1, UseIs
<1>3. DirOK' /\ DataOK' /\ Grown
    BY <1>1, <1>2, FilesStay
<1>4. CASE At(t, {"open", "create", "rotate", "rollback"}) /\ Drop(t)
  <2>1. Holding(t)
      BY <1>4 DEF Holding, At
  <2> QED
      BY <1>1, <1>2, <1>3, <1>4, <2>1, DropTypes
<1>5. CASE At(t, {"remove"}) /\ call' = [call EXCEPT ![t] = Idle] /\ UNCHANGED active
    BY <1>1, <1>2, <1>3, <1>5, RemoveEnds
<1>6. CASE At(t, {"roll"}) /\ call' = [call EXCEPT ![t].doomed = <<>>] /\ UNCHANGED active
  <2>1. <<>> \in Seq(Names)
      OBVIOUS
  <2> QED
      BY <1>1, <1>2, <1>3, <1>6, <2>1, DoomedSet
<1>7. CASE At(t, {"roll"}) /\ Goto(t, "rollback") /\ UNCHANGED active
  <2>1. Holding(t)
      BY <1>7 DEF Holding, At
  <2> QED
      BY <1>1, <1>2, <1>3, <1>7, <2>1, GotoTypes DEF Places
<1>8. CASE /\ At(t, {"write"}) /\ ~call[t].again
           /\ call' = [call EXCEPT ![t].at = "open", ![t].again = TRUE]
           /\ SetWriter(t, NoFile)
  <2>1. Holding(t) /\ Busy(t)
      BY <1>8 DEF Holding, Busy, At
  <2>2. call[t] \in LogCalls
      BY <2>1, Held
  <2>3. PICK c : c = [call[t] EXCEPT !.at = "open", !.again = TRUE]
      OBVIOUS
  <2>4. c \in LogCalls /\ c.at = "open" /\ c.logger = call[t].logger /\ c.install = call[t].install
      BY <2>2, <2>3 DEF LogCalls, Places
  <2>5. call' = [call EXCEPT ![t] = c]
      BY <1>8, <2>3 DEF Types, CallsOK
  <2>6. Fits(c, NoFile)
      BY <2>4 DEF Fits
  <2>7. Sound(NoFile)'
      BY DEF Sound
  <2> QED
      BY <1>1, <1>2, <1>3, <1>8, <2>1, <2>4, <2>5, <2>6, <2>7, GoOn
<1>9. CASE At(t, {"write"}) /\ SetWriter(t, [Writer(t) EXCEPT !.index = @ + 1]) /\ Return(t)
  <2>1. Holding(t) /\ Busy(t)
      BY <1>9 DEF Holding, Busy, At
  <2>2. PICK w : w = Writer(t) /\ w \in Writers /\ w # NoFile /\ Sound(w)
      BY <1>9, <2>1, Held DEF At, Fits
  <2>3. PICK v : v = [w EXCEPT !.index = @ + 1]
      OBVIOUS
  <2>4. v \in Writers /\ v.file = w.file /\ v.append = w.append /\ v.pos = w.pos
      BY <2>2, <2>3 DEF Writers
  <2>5. Sound(w)'
      BY <1>3, <2>2, SoundStays
  <2>6. Sound(v)'
      BY <2>2, <2>4, <2>5 DEF Sound
  <2>7. active' = [active EXCEPT ![call[t].logger] = v]
      BY <1>9, <2>2, <2>3 DEF SetWriter
  <2>8. Rest5'
      BY <1>1, <1>2, <1>3, <1>9, <2>1, <2>4, <2>6, <2>7, StepBack
  <2> QED
      BY <1>3, <2>8 DEF Types, Rest5
<1> QED
    BY <1>4, <1>5, <1>6, <1>7, <1>8, <1>9 DEF Fail

\* A Logger takes the place of the one before (ensure_logging_session).
LEMMA InstallTypes == ASSUME Types, NEW t \in Threads, Install(t) PROVE Types'
<1>1. /\ At(t, {"idle"}) /\ used.calls < MaxLines /\ session < MaxLoggers
      /\ session' = session + 1
      /\ call' = [call EXCEPT ![t] = Logging(session', session # 0)]
      /\ Use("calls") /\ UNCHANGED <<disk, second, owed>>
    BY DEF Install
<1>2. PICK late \in BOOLEAN :
        /\ late <=> \E u \in Threads : ~At(u, {"idle", "remove"})
        /\ active' = [g \in Loggers |-> IF late THEN active[g] ELSE NoFile]
    BY DEF Install
<1>3. PICK s \in Settings : config' = [config EXCEPT ![session'] = s]
    BY DEF Install
<1>4. session \in Nat /\ MaxLoggers \in Nat /\ session' \in Loggers /\ session' \in 0..MaxLoggers
    BY <1>1, LogAssumption DEF Types, SettingsOK, Loggers
<1>5. PICK c : c = Logging(session', session # 0)
    OBVIOUS
<1>6. c \in LogCalls /\ c.at = "lock" /\ c.logger = session'
    BY <1>4, <1>5 DEF Logging, LogCalls, Places
<1>7. call'[t] = c /\ \A u \in Threads : u # t => call'[u] = call[u]
    BY <1>1, <1>5 DEF Types, CallsOK
<1>8. used' \in UsedType /\ used'.lines = used.lines /\ used'.calls = used.calls + 1
    BY <1>1, UseIs
<1>9. UsedOK'
    BY <1>8 DEF UsedOK, UsedType
<1>10. DirOK' /\ DataOK'
    BY <1>1, <1>8, FilesStay
<1>11. SettingsOK'
  <2>1. config' = [g \in Loggers |-> config'[g]]
      BY <1>3 DEF Types, SettingsOK
  <2>2. ASSUME NEW g \in Loggers
        PROVE  config'[g] \in IF g <= session' THEN Settings ELSE {Unset}
    <3>1. CASE g = session'
        BY <1>3, <1>4, <3>1 DEF Types, SettingsOK
    <3>2. CASE g # session'
      <4>1. g \in Nat /\ (g <= session' <=> g <= session)
          BY <1>1, <1>4, <3>2 DEF Loggers
      <4>2. config'[g] = config[g]
          BY <1>3, <3>2 DEF Types, SettingsOK
      <4> QED
          BY <4>1, <4>2 DEF Types, SettingsOK
    <3> QED
        BY <3>1, <3>2
  <2> QED
      BY <1>1, <1>4, <2>1, <2>2 DEF Types, SettingsOK
<1>12. active' \in [Loggers -> Writers \cup {NoFile}]
    BY <1>2 DEF Types, WritersOK
<1>13. WritersOK'
  <2> SUFFICES ASSUME NEW g \in Loggers, active'[g] # NoFile
               PROVE  /\ g <= session'
                      /\ active'[g].file \in DOMAIN data'
                      /\ ~active'[g].append => active'[g].pos <= Len(data'[active'[g].file])
      BY <1>12 DEF WritersOK
  <2>1. active'[g] = active[g] /\ data' = data
      BY <1>1, <1>2 DEF disk
  <2>2. g \in Nat
      BY DEF Loggers
  <2> QED
      BY <1>1, <1>4, <2>1, <2>2 DEF Types, WritersOK
<1>14. CallsOK'
  <2> SUFFICES ASSUME NEW u \in Threads PROVE CallOK(u)'
      BY <1>1 DEF Types, CallsOK
  <2>1. CASE u = t
      BY <1>4, <1>6, <1>7, <2>1 DEF CallOK, At
  <2>2. CASE u # t
    <3>1. call'[u] = call[u] /\ CallOK(u)
        BY <1>7, <2>2 DEF Types, CallsOK
    <3>2. call[u] # Idle => call[u].logger \in Nat /\ call[u].logger <= session'
        BY <1>1, <1>4, <3>1 DEF CallOK, RemoveCalls, LogCalls, Loggers
    <3>3. CASE Busy(u)
      <4>1. late /\ call[u].logger \in Loggers
          BY <1>2, <3>3, CallFacts DEF Busy, At
      <4>2. Writer(u)' = Writer(u)
          BY <1>2, <3>1, <4>1 DEF Writer
      <4> QED
          BY <3>1, <3>2, <4>2 DEF CallOK, At
    <3>4. CASE ~Busy(u)
        BY <3>1, <3>2, <3>4 DEF CallOK, At, Busy
    <3> QED
        BY <3>3, <3>4
  <2> QED
      BY <2>1, <2>2
<1>15. MutexOK'
    BY <1>6, <1>7 DEF Types, MutexOK, Holding, At
<1> QED
    BY <1>9, <1>10, <1>11, <1>13, <1>14, <1>15 DEF Types

\* The Logger lets go of a file that is to be deleted (delete_session_log_files).
LEMMA ReleaseTypes == ASSUME Types, NEW t \in Threads, Release(t) PROVE Types'
<1>1. /\ At(t, {"idle"}) /\ ~Locked(session) /\ Use("upsets")
      /\ UNCHANGED <<disk, session, config, second, owed, overlap>>
    BY DEF Release
<1>2. PICK names \in SUBSET DOMAIN dir :
        /\ call' = [call EXCEPT ![t] = [at |-> "remove", logger |-> session, names |-> names]]
        /\ active' = [g \in Loggers |->
                        IF g = session /\ Releases(g, names) THEN NoFile ELSE active[g]]
    BY DEF Release
<1>3. /\ used' \in UsedType /\ used'.lines = used.lines /\ used'.calls = used.calls
    BY <1>1, UseIs
<1>4. DirOK' /\ DataOK'
    BY <1>1, <1>3, FilesStay
<1>5. SettingsOK'
    BY <1>1 DEF Types, SettingsOK
<1>6. active' \in [Loggers -> Writers \cup {NoFile}]
    BY <1>2 DEF Types, WritersOK
<1>7. WritersOK'
    BY <1>1, <1>2, <1>6 DEF Types, WritersOK, disk
<1>8. PICK c : c = [at |-> "remove", logger |-> session, names |-> names]
    OBVIOUS
<1>9. c \in RemoveCalls /\ c.at = "remove" /\ c.logger = session
    BY <1>8 DEF RemoveCalls, Types, SettingsOK, DirOK
<1>10. call'[t] = c /\ \A u \in Threads : u # t => call'[u] = call[u]
    BY <1>2, <1>8 DEF Types, CallsOK
<1>11. CallsOK'
  <2> SUFFICES ASSUME NEW u \in Threads PROVE CallOK(u)'
      BY <1>2 DEF Types, CallsOK
  <2>1. CASE u = t
    <3>1. session \in Nat /\ session' = session
        BY <1>1 DEF Types, SettingsOK
    <3> QED
        BY <1>9, <1>10, <2>1, <3>1 DEF CallOK, At
  <2>2. CASE u # t
    <3>1. call'[u] = call[u] /\ CallOK(u) /\ session' = session
        BY <1>1, <1>10, <2>2 DEF Types, CallsOK
    <3>2. CASE Holding(u)
      <4>1. call[u].logger # session /\ call[u].logger \in Loggers
          BY <1>1, <3>2, CallFacts DEF Locked, Holding, At, Busy
      <4>2. Writer(u)' = Writer(u)
          BY <1>2, <3>1, <4>1 DEF Writer
      <4> QED
          BY <3>1, <4>2 DEF CallOK, At
    <3>3. CASE ~Holding(u)
        BY <3>1, <3>3 DEF CallOK, At, Holding
    <3> QED
        BY <3>2, <3>3
  <2> QED
      BY <2>1, <2>2
<1>12. MutexOK'
    BY <1>9, <1>10 DEF Types, MutexOK, Holding, At
<1>14. UsedOK'
    BY <1>3 DEF UsedOK, UsedType
<1> QED
    BY <1>4, <1>5, <1>7, <1>11, <1>12, <1>14 DEF Types

\* What the delete of a file does to the calls.
LEMMA RemoveIs ==
    ASSUME Types, NEW t \in Threads, Remove(t)
    PROVE  \E n \in Names :
             /\ dir' = Unlinked(n)
             /\ owed' = IF n \in DOMAIN dir THEN owed \ LinesIn(n) ELSE owed
             /\ call' = [u \in Threads |-> call'[u]]
             /\ call'[t] = Idle \/ (call'[t] \in RemoveCalls /\ call'[t].logger = call[t].logger)
             /\ \A u \in Threads \ {t} :
                  /\ call'[u] = call[u] \/ call'[u] = [call[u] EXCEPT !.crossed = TRUE]
                  /\ call'[u] # call[u] => At(u, {"write"})
                  /\ At(u, {"write"}) /\ n \in DOMAIN dir /\ Writer(u).file = dir[n]
                       => call'[u].crossed
<1>1. At(t, {"remove"}) /\ call[t] \in RemoveCalls
    BY CallFacts DEF Remove
<1> DEFINE Crosses(n, u) == At(u, {"write"}) /\ n \in DOMAIN dir /\ Writer(u).file = dir[n]
<1>2. PICK n \in call[t].names :
        /\ dir' = Unlinked(n)
        /\ owed' = IF n \in DOMAIN dir THEN owed \ LinesIn(n) ELSE owed
        /\ call' = [u \in Threads |-> IF u = t THEN Removed(t, call[t].names \ {n})
                                      ELSE IF Crosses(n, u) THEN [call[u] EXCEPT !.crossed = TRUE]
                                      ELSE call[u]]
    BY DEF Remove
<1>3. n \in Names /\ call[t].names \in SUBSET Names
    BY <1>1 DEF RemoveCalls
<1>4. call' = [u \in Threads |-> call'[u]]
    BY <1>2
<1>5. call'[t] = Idle \/ (call'[t] \in RemoveCalls /\ call'[t].logger = call[t].logger)
  <2>1. call'[t] = Removed(t, call[t].names \ {n})
      BY <1>2
  <2>2. PICK s \in SUBSET Names : s = call[t].names \ {n}
      BY <1>3
  <2>3. [call[t] EXCEPT !.names = s] \in RemoveCalls
      BY <1>1 DEF RemoveCalls
  <2>4. [call[t] EXCEPT !.names = s].logger = call[t].logger
      BY <1>1 DEF RemoveCalls
  <2> QED
      BY <2>1, <2>2, <2>3, <2>4 DEF Removed
<1>6. ASSUME NEW u \in Threads \ {t}
      PROVE  /\ call'[u] = call[u] \/ call'[u] = [call[u] EXCEPT !.crossed = TRUE]
             /\ call'[u] # call[u] => At(u, {"write"})
             /\ Crosses(n, u) => call'[u].crossed
  <2>1. call'[u] = IF Crosses(n, u) THEN [call[u] EXCEPT !.crossed = TRUE] ELSE call[u]
      BY <1>2
  <2>2. CASE Crosses(n, u)
    <3>1. call[u] \in LogCalls
        BY <2>2, Held DEF Busy, At
    <3>2. [call[u] EXCEPT !.crossed = TRUE].crossed
        BY <3>1 DEF LogCalls
    <3> QED
        BY <2>1, <2>2, <3>2
  <2>3. CASE ~Crosses(n, u)
      BY <2>1, <2>3
  <2> QED
      BY <2>2, <2>3
<1> QED
    BY <1>2, <1>3, <1>4, <1>5, <1>6

\* A crossed call is as it was otherwise.
LEMMA CrossedIs ==
    ASSUME NEW c \in LogCalls, NEW d, d = c \/ d = [c EXCEPT !.crossed = TRUE]
    PROVE  /\ d \in LogCalls /\ d.at = c.at /\ d.logger = c.logger /\ d.install = c.install
           /\ d.seq = c.seq /\ d.doomed = c.doomed /\ d.again = c.again
BY DEF LogCalls

\* A file is deleted, under the threads that write (delete_session_log_files).
LEMMA RemoveTypes == ASSUME Types, NEW t \in Threads, Remove(t) PROVE Types'
<1>1. At(t, {"remove"}) /\ UNCHANGED <<data, session, config, active, second, used, overlap>>
    BY DEF Remove
<1>2. PICK n \in Names :
             /\ dir' = Unlinked(n)
             /\ owed' = IF n \in DOMAIN dir THEN owed \ LinesIn(n) ELSE owed
             /\ call' = [u \in Threads |-> call'[u]]
             /\ call'[t] = Idle \/ (call'[t] \in RemoveCalls /\ call'[t].logger = call[t].logger)
             /\ \A u \in Threads \ {t} :
                  /\ call'[u] = call[u] \/ call'[u] = [call[u] EXCEPT !.crossed = TRUE]
                  /\ call'[u] # call[u] => At(u, {"write"})
    BY RemoveIs
<1>3. used' \in UsedType /\ used'.lines = used.lines /\ used'.calls = used.calls
    BY <1>1, UsedStays
<1>4. DirOK' /\ DataOK'
    BY <1>1, <1>2, <1>3, UnlinkTypes
<1>5. SettingsOK' /\ WritersOK'
    BY <1>1 DEF Types, SettingsOK, WritersOK
<1>6. ASSUME NEW u \in Threads \ {t}
      PROVE  /\ call'[u] = call[u] \/ (call[u] \in LogCalls /\ call'[u] \in LogCalls)
             /\ call'[u].at = call[u].at /\ call'[u].logger = call[u].logger
             /\ call'[u].install = call[u].install /\ call'[u].seq = call[u].seq
  <2>1. CASE call'[u] = call[u]
      BY <2>1
  <2>2. CASE call'[u] # call[u]
    <3>1. call[u] \in LogCalls
        BY <1>2, <2>2, Held DEF Busy, At
    <3> QED
        BY <1>2, <3>1, CrossedIs
  <2> QED
      BY <2>1, <2>2
<1>7. call'[t].at \in {"idle", "remove"}
    BY <1>2 DEF Idle, RemoveCalls
<1>8. CallsOK'
  <2> SUFFICES ASSUME NEW u \in Threads PROVE CallOK(u)'
      BY <1>2 DEF CallsOK
  <2>1. CASE u = t
    <3>1. call[t] # Idle => call[t].logger <= session
        BY DEF Types, CallsOK, CallOK
    <3>2. call[t] # Idle
        BY <1>1, CallFacts DEF At
    <3> QED
        BY <1>1, <1>2, <1>7, <2>1, <3>1, <3>2 DEF CallOK, At
  <2>2. CASE u # t
    <3>1. CallOK(u)
        BY DEF Types, CallsOK
    <3>2. Writer(u)' = Writer(u)
        BY <1>1, <1>6, <2>2 DEF Writer
    <3>3. call'[u] = call[u] \/ (call[u] \in LogCalls /\ call'[u] \in LogCalls)
        BY <1>6, <2>2
    <3>4. call'[u].at = call[u].at /\ call'[u].logger = call[u].logger /\ call'[u].seq = call[u].seq
        BY <1>6, <2>2
    <3>5. CASE call'[u] = call[u]
        BY <1>1, <3>1, <3>2, <3>5 DEF CallOK, At
    <3>6. CASE call[u] \in LogCalls /\ call'[u] \in LogCalls
      <4>1. call[u].logger <= session
          BY <3>6, CallFacts
      <4> QED
          BY <1>1, <3>1, <3>2, <3>4, <3>6, <4>1 DEF CallOK, At
    <3> QED
        BY <3>3, <3>5, <3>6
  <2> QED
      BY <2>1, <2>2
<1>9. MutexOK'
    BY <1>6, <1>7 DEF Types, MutexOK, Holding, At
<1>11. UsedOK'
    BY <1>3 DEF UsedOK, UsedType
<1> QED
    BY <1>4, <1>5, <1>8, <1>9, <1>11 DEF Types

\* A second passes.
LEMMA TickTypes == ASSUME Types, Tick PROVE Types'
<1>1. second \in 0..MaxSecond /\ second < MaxSecond /\ MaxSecond \in Nat
    BY LogAssumption DEF Tick, Types, SettingsOK
<1>2. second' \in 0..MaxSecond
    BY <1>1 DEF Tick
<1>3. UNCHANGED <<disk, process, used, owed, overlap>>
    BY DEF Tick
<1>4. DirOK' /\ DataOK'
    BY <1>3 DEF Types, DirOK, DataOK, disk
<1>5. SettingsOK' /\ WritersOK'
    BY <1>2, <1>3 DEF Types, SettingsOK, WritersOK, disk, process
<1>6. CallsOK' /\ MutexOK'
    BY <1>3 DEF Types, CallsOK, CallOK, MutexOK, Holding, At, Writer, process
<1>8. UsedOK'
    BY <1>3 DEF Types, UsedOK, UsedType
<1> QED
    BY <1>4, <1>5, <1>6, <1>8 DEF Types

\* The process ends and another starts: the files are what is left.
LEMMA CrashTypes == ASSUME Types, Crash PROVE Types'
<1>1. /\ Use("upsets") /\ session' = 0 /\ config' = [g \in Loggers |-> Unset]
      /\ active' = [g \in Loggers |-> NoFile] /\ call' = [t \in Threads |-> Idle]
      /\ UNCHANGED <<disk, second, owed, overlap>>
    BY DEF Crash
<1>2. used' \in UsedType /\ used'.lines = used.lines /\ used'.calls = used.calls
    BY <1>1, UseIs
<1>3. DirOK' /\ DataOK'
    BY <1>1, <1>2, FilesStay
<1>4. SettingsOK'
  <2>1. MaxLoggers \in Nat
      BY LogAssumption
  <2>2. \A g \in Loggers : ~(g <= 0)
      BY <2>1 DEF Loggers
  <2> QED
      BY <1>1, <2>1, <2>2 DEF Types, SettingsOK
<1>5. WritersOK'
    BY <1>1 DEF WritersOK
<1>6. CallsOK' /\ MutexOK'
    BY <1>1 DEF CallsOK, CallOK, MutexOK, Holding, At, Idle
<1>8. UsedOK'
    BY <1>2 DEF UsedOK, UsedType
<1> QED
    BY <1>3, <1>4, <1>5, <1>6, <1>8 DEF Types

\* Every step keeps the types.
LEMMA NextTypes == Types /\ [Next]_vars => Types'
<1> SUFFICES ASSUME Types, [Next]_vars PROVE Types'
    OBVIOUS
<1>1. CASE Tick
    BY <1>1, TickTypes
<1>2. CASE Crash
    BY <1>2, CrashTypes
<1>5. ASSUME NEW g \in Loggers, Flush(g) PROVE Types'
    BY <1>5, FlushTypes
<1>3. ASSUME NEW t \in Threads, Call(t) PROVE Types'
    BY <1>3, LogTypes, InstallTypes, EnterTypes, ArchiveStaleTypes, ResumeTypes, NumberTypes,
       CreateStepTypes, RotateTypes, PlanPruneTypes, PruneOneTypes, RollTypes, RollbackTypes,
       WriteStepTypes, WriteUnflushedTypes, FailTypes, ReleaseTypes, RemoveTypes DEF Call
<1>4. CASE UNCHANGED vars
  <2>1. UNCHANGED disk /\ UNCHANGED <<session, config, active, call, second, used, owed>>
      BY <1>4 DEF vars, process
  <2>2. DirOK' /\ DataOK' /\ Grown
      BY <2>1, FilesStay
  <2> QED
      BY <2>1, <2>2, DirTypes
<1> QED
    BY <1>1, <1>2, <1>3, <1>4, <1>5 DEF Next

\* In every state, besides the types: the directory has each file under one name (DirOK), no
\* line is in two places of the files (DataOK), a handle that does not append is within its
\* file (WritersOK), a thread between the rename of a rotation and the next file has nothing
\* in its buffer (CallsOK), and one thread at a time has the mutex of a Logger (MutexOK)
\* (write_line_locked, rotate_active, lock_inner).
THEOREM TypesHold == Spec => [](TypeOK /\ Types)
<1>1. Spec => []Types
    BY InitTypes, NextTypes, PTL DEF Spec
<1> QED
    BY <1>1, TypesGiveTypeOK, PTL

-----------------------------------------------------------------------------
\* THE ORDER OF THE FILES

\* A file that bears a line that is owed, and the archive name it has or would get.
Bears(n) == \E l \in LinesIn(n) : l \in owed
Bearers == {n \in DOMAIN dir : Bears(n)}
Slots == {Archived(n) : n \in Bearers}

\* A bearer shares its number with no other file, is below the current files, and its
\* owed lines are older than all lines of the files above it.
Ranked ==
    \A m \in Bearers, n \in DOMAIN dir : m # n =>
        /\ m.seq # n.seq
        /\ n.current => m.seq < n.seq
        /\ m.seq < n.seq => \A l \in LinesIn(m), k \in LinesIn(n) : l \in owed => l < k

\* The next file of a thread goes above the bearers, its archive replaces none of them,
\* and none of them is to be pruned.
KeptBy(t) ==
    /\ At(t, {"create"}) => \A m \in Slots : m.seq < call[t].seq
    /\ Rotating(t) => \A m \in Slots :
          /\ m.seq <= Writer(t).name.seq
          /\ m.seq = Writer(t).name.seq => m = Archived(Writer(t).name)
    /\ At(t, {"roll"}) => \A i \in DOMAIN call[t].doomed : Archived(call[t].doomed[i]) \notin Slots
Keeps == \A t \in Threads : KeptBy(t)

\* What a Logger in use will write replaces no line that is owed.
InUse == {g \in Loggers : g = session \/ \E t \in Threads : Busy(t) /\ call[t].logger = g}
Clean(w) ==
    w # NoFile /\ ~w.append =>
        \A i \in DOMAIN data[w.file] : i > w.pos => data[w.file][i] \notin owed
NoOverwrite == \A g \in InUse : Clean(active[g])

\* With one Logger at work: one current file, above the archives, known to the Logger.
Alone1 == overlap \in BOOLEAN /\ (~overlap => Alone)
OneCurrent == \A m, n \in Currents : m = n
TopCurrent == \A n \in Currents, m \in Archives : m.seq < n.seq
Known(w) ==
    w # NoFile /\ w.name \in DOMAIN dir =>
        /\ dir[w.name] = w.file
        /\ w.index >= Len(data[w.file]) + w.ram
SessionKnown == session # 0 => Known(active[session])
KnownBy(t) ==
    /\ At(t, {"create", "prune", "roll", "rollback"}) => Currents = {}
    /\ At(t, {"create"}) => \A m \in DOMAIN dir : m.seq < call[t].seq
    /\ Rotating(t) => \A m \in DOMAIN dir :
          /\ m.seq <= Writer(t).name.seq
          /\ m.seq = Writer(t).name.seq => m = Archived(Writer(t).name)
    /\ At(t, {"write"}) /\ ~call[t].crossed => Writer(t).name \in DOMAIN dir
Calm == ~overlap => OneCurrent /\ TopCurrent /\ SessionKnown /\ \A t \in Threads : KnownBy(t)

\* The inductive invariant.
Invariant ==
    /\ Types
    /\ Ranked /\ LinesKept
    /\ Keeps /\ NoOverwrite
    /\ Alone1 /\ Calm

\* One call goes on or returns, with the file of its Logger; the other threads and the
\* other Loggers stay.
Proceeds(t) ==
    /\ Busy(t) /\ (Holding(t) \/ ~Locked(call[t].logger))
    /\ \A u \in Threads \ {t} : call'[u] = call[u]
    /\ call'[t] = Idle \/ call'[t].logger = call[t].logger
    /\ session' = session
    /\ active' \in [Loggers -> Writers \cup {NoFile}]
    /\ \A g \in Loggers \ {call[t].logger} : active'[g] = active[g]

\* While a call proceeds, the other threads keep the files they have in hand, and no Logger
\* comes into use.
LEMMA OthersStay ==
    ASSUME Types, NEW t \in Threads, Proceeds(t)
    PROVE  /\ \A u \in Threads \ {t} : Holding(u) => Writer(u)' = Writer(u)
           /\ Alone => Alone'
           /\ Alone => \A u \in Threads \ {t} : ~Holding(u)
           /\ Alone => call[t].logger = session /\ InUse \subseteq {session}
           /\ InUse' \subseteq InUse
<1>1. call[t] \in LogCalls /\ call[t].logger \in Loggers
    BY CallFacts DEF Proceeds
<1>2. \A u \in Threads \ {t} : Holding(u) => call[u].logger # call[t].logger
    BY DEF Proceeds, Types, MutexOK, Locked, Holding, At
<1>3. \A u \in Threads \ {t} : Holding(u) => Writer(u)' = Writer(u)
  <2> SUFFICES ASSUME NEW u \in Threads \ {t}, Holding(u) PROVE Writer(u)' = Writer(u)
      OBVIOUS
  <2>1. call[u].logger \in Loggers /\ call'[u] = call[u]
      BY CallFacts DEF Holding, Busy, At, Proceeds
  <2> QED
      BY <1>2, <2>1 DEF Proceeds, Writer
<1>4. Alone <=> \A u \in Threads : Busy(u) => call[u].logger = session
    BY DEF Alone, Superseded, Busy
<1>5. Alone' <=> \A u \in Threads : Busy(u)' => call'[u].logger = session'
    BY DEF Alone, Superseded, Busy, At
<1>6. Busy(t)' => call'[t].logger = call[t].logger
    BY DEF Busy, At, Proceeds, Idle
<1>7. \A u \in Threads \ {t} : Busy(u)' <=> Busy(u)
    BY DEF Busy, At, Proceeds
<1>8. Alone => Alone'
    BY <1>4, <1>5, <1>6, <1>7 DEF Proceeds
<1>9. Alone => \A u \in Threads \ {t} : ~Holding(u)
    BY <1>2, <1>4 DEF Proceeds, Holding, Busy, At
<1>10. Alone => call[t].logger = session /\ InUse \subseteq {session}
    BY <1>4 DEF Proceeds, InUse
<1>11. InUse' \subseteq InUse
    BY <1>6, <1>7 DEF InUse, Proceeds
<1> QED
    BY <1>3, <1>8, <1>9, <1>10, <1>11

\* A thread that stays keeps to its bounds.
LEMMA ThreadStays ==
    ASSUME NEW u \in Threads, KeptBy(u), Slots' \subseteq Slots,
           call'[u].at = call[u].at, call'[u].seq = call[u].seq, call'[u].doomed = call[u].doomed,
           Holding(u) => Writer(u)' = Writer(u)
    PROVE  KeptBy(u)'
BY DEF KeptBy, At, Rotating, Holding

\* Nothing becomes owed, and no line that is owed is moved within its file.
Steady ==
    \A f \in DOMAIN data : \A i \in DOMAIN data'[f] :
        data'[f][i] \in owed' => i \in DOMAIN data[f] /\ data[f][i] \in owed

\* What a Logger will write goes on replacing no line that is owed.
LEMMA CleanStays ==
    ASSUME Steady, NEW w, Clean(w), Sound(w)
    PROVE  Clean(w)'
<1> SUFFICES ASSUME w # NoFile, ~w.append, NEW i \in DOMAIN data'[w.file], i > w.pos,
                    data'[w.file][i] \in owed'
             PROVE  FALSE
    BY DEF Clean
<1>1. w.file \in DOMAIN data
    BY DEF Sound
<1>2. i \in DOMAIN data[w.file] /\ data[w.file][i] \in owed
    BY <1>1 DEF Steady
<1> QED
    BY <1>2 DEF Clean

\* What every step but a write leaves of the order of the files.
FilesKept == Ranked' /\ LinesKept' /\ Slots' \subseteq Slots /\ Steady

\* Fewer bearers among fewer files are in order as they were.
LEMMA RankedStays ==
    ASSUME Ranked, Bearers' \subseteq Bearers, DOMAIN dir' \subseteq DOMAIN dir,
           \A n \in DOMAIN dir' : LinesIn(n)' = LinesIn(n), owed' \subseteq owed
    PROVE  Ranked'
<1> SUFFICES ASSUME NEW b \in Bearers', NEW k \in DOMAIN dir', b # k
             PROVE  /\ b.seq # k.seq
                    /\ k.current => b.seq < k.seq
                    /\ b.seq < k.seq =>
                         \A l \in LinesIn(b)', j \in LinesIn(k)' : l \in owed' => l < j
    BY DEF Ranked
<1>1. b \in Bearers /\ k \in DOMAIN dir
    OBVIOUS
<1>2. LinesIn(b)' = LinesIn(b) /\ LinesIn(k)' = LinesIn(k)
    BY DEF Bearers
<1> QED
    BY <1>1, <1>2 DEF Ranked

\* The files stay, and some lines need not be kept any more.
LEMMA QuietKeeps ==
    ASSUME Types, Ranked, LinesKept, UNCHANGED disk, owed' \subseteq owed
    PROVE  FilesKept
<1>1. dir' = dir /\ data' = data
    BY DEF disk
<1>2. \A n \in DOMAIN dir : LinesIn(n)' = LinesIn(n)
    BY <1>1 DEF LinesIn, Content
<1>3. Bearers' \subseteq Bearers
    BY <1>1, <1>2 DEF Bearers, Bears
<1>4. Ranked'
    BY <1>1, <1>2, <1>3, RankedStays
<1>5. OnDisk' = OnDisk
    BY <1>1 DEF OnDisk, LinesIn, Content
<1>6. Slots' \subseteq Slots
    BY <1>3 DEF Slots, Archived
<1>7. Steady
    BY <1>1 DEF Steady
<1> QED
    BY <1>4, <1>5, <1>6, <1>7 DEF FilesKept, LinesKept

\* A name is removed, of a file that bears no line that stays owed.
LEMMA UnlinkKeeps ==
    ASSUME Types, Ranked, LinesKept, NEW n, dir' = Unlinked(n), UNCHANGED data,
           owed' \subseteq owed, n \in DOMAIN dir => LinesIn(n) \cap owed' = {}
    PROVE  FilesKept
<1>1. DOMAIN dir' = DOMAIN dir \ {n} /\ \A k \in DOMAIN dir' : dir'[k] = dir[k]
    BY DEF Unlinked, Restrict
<1>2. \A k \in DOMAIN dir' : LinesIn(k)' = LinesIn(k)
    BY <1>1 DEF LinesIn, Content
<1>3. Bearers' \subseteq Bearers
    BY <1>1, <1>2 DEF Bearers, Bears
<1>4. Ranked'
    BY <1>1, <1>2, <1>3, RankedStays
<1>5. LinesKept'
  <2> SUFFICES ASSUME NEW l \in owed' PROVE \E k \in DOMAIN dir' : l \in LinesIn(k)'
      BY DEF LinesKept, OnDisk
  <2>1. PICK k \in DOMAIN dir : l \in LinesIn(k)
      BY DEF LinesKept, OnDisk
  <2>2. k # n
      BY <2>1
  <2> QED
      BY <1>1, <1>2, <2>1, <2>2
<1>6. Slots' \subseteq Slots
    BY <1>3 DEF Slots, Archived
<1>7. Steady
    BY DEF Steady
<1> QED
    BY <1>4, <1>5, <1>6, <1>7 DEF FilesKept

\* A name that becomes another of the same number: nothing that bears a line had the
\* new name.
LEMMA RenameKeeps ==
    ASSUME Types, Ranked, LinesKept, NEW n \in DOMAIN dir, NEW m \in Names, m # n,
           Archived(m) = Archived(n), dir' = Renamed(n, m), UNCHANGED <<data, owed>>,
           m.current => n.current \/ \A b \in Bearers : b # n => b.seq < m.seq
    PROVE  FilesKept
<1>1. /\ DOMAIN dir' = (DOMAIN dir \ {n}) \cup {m} /\ dir'[m] = dir[n]
      /\ \A k \in DOMAIN dir \ {n, m} : dir'[k] = dir[k]
    BY RenamedIs
<1>2. n \in Names /\ m.seq = n.seq /\ DOMAIN dir \subseteq Names
    BY NameFacts DEF Types, DirOK
<1>3. m \notin Bearers
    BY <1>2 DEF Ranked
<1>4. LinesIn(m)' = LinesIn(n) /\ \A k \in DOMAIN dir \ {n, m} : LinesIn(k)' = LinesIn(k)
    BY <1>1 DEF LinesIn, Content
<1>5. \A k \in Bearers' : (k = m /\ n \in Bearers) \/ (k # m /\ k # n /\ k \in Bearers)
    BY <1>1, <1>4 DEF Bearers, Bears
<1>6. Ranked'
  <2> SUFFICES ASSUME NEW b \in Bearers', NEW k \in DOMAIN dir', b # k
               PROVE  /\ b.seq # k.seq
                      /\ k.current => b.seq < k.seq
                      /\ b.seq < k.seq =>
                           \A l \in LinesIn(b)', j \in LinesIn(k)' : l \in owed' => l < j
      BY DEF Ranked
  <2>1. CASE b = m
    <3>1. n \in Bearers /\ k \in DOMAIN dir \ {n, m} /\ LinesIn(k)' = LinesIn(k)
        BY <1>1, <1>4, <1>5, <2>1
    <3> QED
        BY <1>2, <1>4, <2>1, <3>1 DEF Ranked
  <2>2. CASE b # m /\ k # m
    <3>1. b \in Bearers /\ b \in DOMAIN dir \ {n, m} /\ k \in DOMAIN dir \ {n, m}
        BY <1>1, <1>5, <2>2 DEF Bearers
    <3> QED
        BY <1>4, <3>1 DEF Ranked
  <2>3. CASE b # m /\ k = m
    <3>1. b \in Bearers /\ b \in DOMAIN dir \ {n, m} /\ b # n
        BY <1>5, <2>3 DEF Bearers
    <3>2. /\ b.seq # n.seq
          /\ n.current => b.seq < n.seq
          /\ b.seq < n.seq => \A l \in LinesIn(b), j \in LinesIn(n) : l \in owed => l < j
        BY <3>1 DEF Ranked
    <3>3. LinesIn(b)' = LinesIn(b)
        BY <1>4, <3>1
    <3>4. m.current => b.seq < m.seq
        BY <1>2, <3>1, <3>2
    <3>5. PICK ls, js : ls = LinesIn(b) /\ js = LinesIn(n)
        OBVIOUS
    <3>6. LinesIn(b)' = ls /\ LinesIn(k)' = js /\ owed' = owed
        BY <1>4, <2>3, <3>3, <3>5
    <3>7. b.seq # k.seq /\ (k.current => b.seq < k.seq)
        BY <1>2, <2>3, <3>2, <3>4
    <3>8. b.seq < k.seq => \A l \in ls, j \in js : l \in owed => l < j
        BY <1>2, <2>3, <3>2, <3>5
    <3> QED
        BY <3>6, <3>7, <3>8
  <2> QED
      BY <2>1, <2>2, <2>3
<1>7. LinesKept'
  <2> SUFFICES ASSUME NEW l \in owed' PROVE \E k \in DOMAIN dir' : l \in LinesIn(k)'
      BY DEF LinesKept, OnDisk
  <2>1. PICK k \in DOMAIN dir : l \in LinesIn(k)
      BY DEF LinesKept, OnDisk
  <2>2. k \in Bearers /\ k # m
      BY <1>3, <2>1 DEF Bearers, Bears
  <2>3. CASE k = n
      BY <1>1, <1>4, <2>1, <2>3
  <2>4. CASE k # n
      BY <1>1, <1>4, <2>1, <2>2, <2>4
  <2> QED
      BY <2>3, <2>4
<1>8. Slots' \subseteq Slots
  <2> SUFFICES ASSUME NEW k \in Bearers' PROVE Archived(k) \in Slots
      BY DEF Slots, Archived
  <2>1. CASE k = m /\ n \in Bearers
      BY <2>1 DEF Slots
  <2>2. CASE k \in Bearers
      BY <2>2 DEF Slots
  <2> QED
      BY <1>5, <2>1, <2>2
<1>9. Steady
    BY DEF Steady
<1> QED
    BY <1>6, <1>7, <1>8, <1>9 DEF FilesKept

\* A file is made above all bearers.
LEMMA CreateKeeps ==
    ASSUME Types, Ranked, LinesKept, NEW n \in Names, n \notin DOMAIN dir,
           \A b \in Bearers : b.seq < n.seq, data' = Append(data, <<>>),
           dir' = [m \in DOMAIN dir \cup {n} |-> IF m = n THEN Len(data) + 1 ELSE dir[m]],
           used'.lines = used.lines, UNCHANGED owed
    PROVE  FilesKept
<1>1. PICK f : f = Len(data) + 1
    OBVIOUS
<1>2. /\ DOMAIN dir' = DOMAIN dir \cup {n}
      /\ dir'[n] = f /\ \A k \in DOMAIN dir : dir'[k] = dir[k]
      /\ f \notin DOMAIN data /\ DOMAIN data' = DOMAIN data \cup {f}
      /\ data'[f] = <<>> /\ \A h \in DOMAIN data : data'[h] = data[h]
    BY <1>1, CreateTypes
<1>3. LinesIn(n)' = {}
    BY <1>2 DEF LinesIn, Content, Range
<1>4. \A k \in DOMAIN dir : LinesIn(k)' = LinesIn(k)
    BY <1>2 DEF LinesIn, Content, Types, DirOK
<1>5. \A b \in Bearers' : b \in Bearers /\ b \in DOMAIN dir
    BY <1>2, <1>3, <1>4 DEF Bearers, Bears
<1>6. Ranked'
  <2> SUFFICES ASSUME NEW b \in Bearers', NEW k \in DOMAIN dir', b # k
               PROVE  /\ b.seq # k.seq
                      /\ k.current => b.seq < k.seq
                      /\ b.seq < k.seq =>
                           \A l \in LinesIn(b)', j \in LinesIn(k)' : l \in owed' => l < j
      BY DEF Ranked
  <2>1. CASE k = n
    <3>1. b.seq < n.seq /\ b.seq \in Nat /\ n.seq \in Nat
        BY <1>5 DEF Names, Types, DirOK
    <3> QED
        BY <1>3, <2>1, <3>1
  <2>2. CASE k # n
      BY <1>2, <1>4, <1>5, <2>2 DEF Ranked
  <2> QED
      BY <2>1, <2>2
<1>7. LinesKept'
    BY <1>2, <1>4 DEF LinesKept, OnDisk
<1>8. Slots' \subseteq Slots
    BY <1>5 DEF Slots, Archived
<1>9. Steady
    BY <1>2 DEF Steady
<1> QED
    BY <1>6, <1>7, <1>8, <1>9 DEF FilesKept

-----------------------------------------------------------------------------
\* WHAT A STEP OF A CALL LEAVES

\* The step of a call: what it leaves alone.
LEMMA ProceedsIf ==
    ASSUME Types, Types', NEW t \in Threads, Busy(t), Holding(t) \/ ~Locked(call[t].logger),
           NEW c, call' = [call EXCEPT ![t] = c], c = Idle \/ c.logger = call[t].logger,
           NEW w, SetWriter(t, w), UNCHANGED session
    PROVE  Proceeds(t) /\ call'[t] = c /\ active'[call[t].logger] = w
<1>1. call'[t] = c /\ \A u \in Threads \ {t} : call'[u] = call[u]
    BY DEF Types, CallsOK
<1>2. call[t].logger \in Loggers /\ active \in [Loggers -> Writers \cup {NoFile}]
    BY CallFacts DEF Types, WritersOK
<1>3. active'[call[t].logger] = w /\ \A g \in Loggers \ {call[t].logger} : active'[g] = active[g]
    BY <1>2 DEF SetWriter
<1>4. active' \in [Loggers -> Writers \cup {NoFile}]
    BY DEF Types, WritersOK
<1> QED
    BY <1>1, <1>3, <1>4 DEF Proceeds

\* The file of every Logger is sound.
LEMMA ActiveSound ==
    ASSUME Types, NEW g \in Loggers
    PROVE  Sound(active[g])
BY DEF Types, WritersOK, Sound

\* What a step of a call must see to.
LEMMA Assemble ==
    ASSUME Invariant, Types', NEW t \in Threads, Proceeds(t), FilesKept, KeptBy(t)',
           NEW w, active'[call[t].logger] = w, Clean(w)',
           overlap' \in BOOLEAN, ~overlap' => Alone,
           ~overlap' => OneCurrent' /\ TopCurrent' /\ Known(w)' /\ KnownBy(t)'
    PROVE  Invariant'
<1>1. /\ \A u \in Threads \ {t} : Holding(u) => Writer(u)' = Writer(u)
      /\ Alone => Alone'
      /\ Alone => \A u \in Threads \ {t} : ~Holding(u)
      /\ Alone => call[t].logger = session
      /\ InUse' \subseteq InUse
    BY OthersStay DEF Invariant
<1>2. Alone1'
    BY <1>1 DEF Alone1
<1>3. Keeps'
  <2> SUFFICES ASSUME NEW u \in Threads, u # t PROVE KeptBy(u)'
      BY DEF Keeps
  <2>1. call'[u] = call[u]
      BY DEF Proceeds
  <2> QED
      BY <1>1, <2>1, ThreadStays DEF FilesKept, Invariant, Keeps
<1>4. NoOverwrite'
  <2> SUFFICES ASSUME NEW g \in InUse', g # call[t].logger PROVE Clean(active[g])'
      BY DEF NoOverwrite
  <2>1. g \in InUse /\ g \in Loggers /\ active'[g] = active[g]
      BY <1>1 DEF Proceeds, InUse
  <2>2. PICK v : v = active[g]
      OBVIOUS
  <2>3. Clean(v) /\ Sound(v)
      BY <2>1, <2>2, ActiveSound DEF Invariant, NoOverwrite
  <2>4. Clean(v)'
      BY <2>3, CleanStays DEF FilesKept
  <2> QED
      BY <2>1, <2>2, <2>4 DEF Clean
<1>5. Calm'
  <2> SUFFICES ASSUME ~overlap'
               PROVE  SessionKnown' /\ \A u \in Threads \ {t} : KnownBy(u)'
      BY DEF Calm
  <2>1. SessionKnown'
      BY <1>1 DEF SessionKnown, Known, Proceeds
  <2>2. ASSUME NEW u \in Threads \ {t} PROVE KnownBy(u)'
    <3>1. ~Holding(u) /\ call'[u] = call[u]
        BY <1>1 DEF Proceeds
    <3> QED
        BY <3>1 DEF KnownBy, Holding, At, Rotating
  <2> QED
      BY <2>1, <2>2
<1> QED
    BY <1>2, <1>3, <1>4, <1>5 DEF Invariant, FilesKept

\* Where a call has no bounds to keep to.
LEMMA Unbound ==
    ASSUME NEW t \in Threads, call'[t].at \in {"idle", "lock", "open", "rotate"}
    PROVE  KeptBy(t)' /\ KnownBy(t)'
BY DEF KeptBy, KnownBy, At, Rotating

\* The file that a Logger has stays known while the directory and the files stay.
LEMMA CalmFiles ==
    ASSUME Calm, ~overlap, UNCHANGED disk
    PROVE  OneCurrent' /\ TopCurrent' /\ Currents' = Currents
<1>1. dir' = dir
    BY DEF disk
<1>2. Currents' = Currents /\ Archives' = Archives
    BY <1>1 DEF Currents, Archives
<1> QED
    BY <1>2 DEF Calm, OneCurrent, TopCurrent

\* What a Logger knows of its file holds as long as the files stay.
LEMMA KnownStays ==
    ASSUME NEW w, Known(w), UNCHANGED disk
    PROVE  Known(w)'
BY DEF Known, disk

\* Nothing is asked of a Logger without a file.
LEMMA NoFileIs == Clean(NoFile)' /\ Known(NoFile)'
BY DEF Clean, Known

\* A call that lets go of its file.
LEMMA DropKeeps ==
    ASSUME Invariant, Types', NEW t \in Threads, Holding(t), Drop(t), UNCHANGED session,
           UNCHANGED <<disk, owed, overlap>>
    PROVE  Invariant'
<1>1. Busy(t)
    BY DEF Holding, Busy, At
<1>2. PICK c : c = IF call[t].install THEN Logging(call[t].logger, FALSE) ELSE Idle
    OBVIOUS
<1>3. (c = Idle \/ c.logger = call[t].logger) /\ c.at \in {"idle", "lock"}
    BY <1>2 DEF Logging, Idle
<1>4. call' = [call EXCEPT ![t] = c] /\ SetWriter(t, NoFile)
    BY <1>2 DEF Drop, Return
<1>5. Proceeds(t) /\ call'[t] = c /\ active'[call[t].logger] = NoFile
    BY <1>1, <1>3, <1>4, ProceedsIf DEF Invariant
<1>6. FilesKept
    BY QuietKeeps DEF Invariant
<1>7. KeptBy(t)' /\ KnownBy(t)'
    BY <1>3, <1>5, Unbound
<1>8. ~overlap' => OneCurrent' /\ TopCurrent'
    BY CalmFiles DEF Invariant
<1> QED
    BY <1>5, <1>6, <1>7, <1>8, NoFileIs, Assemble DEF Invariant, Alone1

\* Enter lets a file go that is unlinked, and touches no file (write_line_locked).
LEMMA EnterKeeps == ASSUME Invariant, Types', NEW t \in Threads, Enter(t) PROVE Invariant'
<1>1. /\ At(t, {"lock"}) /\ ~Locked(call[t].logger)
      /\ UNCHANGED <<disk, session, config, second, used, owed, overlap>>
    BY DEF Enter
<1>2. Busy(t) /\ Types
    BY <1>1 DEF Busy, At, Invariant
<1>3. FilesKept
    BY <1>1, QuietKeeps DEF Invariant
<1>4. ~overlap' => Alone /\ OneCurrent' /\ TopCurrent'
    BY <1>1, CalmFiles DEF Invariant, Alone1
<1>5. CASE Linked(Writer(t)) /\ Goto(t, Ready(t, Writer(t))) /\ UNCHANGED active
  <2>1. PICK p \in {"rotate", "write"} : p = Ready(t, Writer(t))
      BY DEF Ready
  <2>2. PICK c \in LogCalls : /\ call' = [call EXCEPT ![t] = c] /\ c.at = p
                              /\ c.logger = call[t].logger
      BY <1>2, <1>5, <2>1, GotoIs DEF Places
  <2>3. PICK w : w = Writer(t)
      OBVIOUS
  <2>4. SetWriter(t, w)
      BY <1>2, <1>5, <2>3, ActiveStays
  <2>5. Proceeds(t) /\ call'[t] = c /\ active'[call[t].logger] = w
      BY <1>1, <1>2, <2>2, <2>4, ProceedsIf
  <2>6. KeptBy(t)'
      BY <2>2, <2>5 DEF KeptBy, At, Rotating
  <2>7. w.name \in DOMAIN dir /\ dir' = dir
      BY <1>1, <1>5, <2>3 DEF Linked, disk
  <2>8. Writer(t)' = w
      BY <2>2, <2>5 DEF Writer
  <2>9. KnownBy(t)'
      BY <2>2, <2>5, <2>7, <2>8 DEF KnownBy, At, Rotating
  <2>10. call[t].logger \in InUse /\ call[t].logger \in Loggers
      BY <1>2, Held DEF InUse
  <2>11. Clean(w) /\ Sound(w)
      BY <1>2, <2>3, <2>10, ActiveSound DEF Invariant, NoOverwrite, Writer
  <2>12. Clean(w)'
      BY <1>3, <2>11, CleanStays DEF FilesKept
  <2>13. ~overlap' => Known(w)'
    <3> SUFFICES ASSUME ~overlap' PROVE Known(w)'
        OBVIOUS
    <3>1. call[t].logger = session /\ session # 0
        BY <1>2, <1>4, <2>10 DEF Alone, Superseded, Busy, Loggers
    <3>2. Known(w)
        BY <1>1, <2>3, <3>1 DEF Invariant, Calm, SessionKnown, Writer
    <3> QED
        BY <1>1, <3>2, KnownStays
  <2> QED
      BY <1>1, <1>3, <1>4, <2>5, <2>6, <2>9, <2>12, <2>13, Assemble DEF Invariant, Alone1
<1>6. CASE Goto(t, "open") /\ SetWriter(t, NoFile)
  <2>1. PICK c \in LogCalls : /\ call' = [call EXCEPT ![t] = c] /\ c.at = "open"
                              /\ c.logger = call[t].logger
      BY <1>2, <1>6, GotoIs DEF Places
  <2>2. Proceeds(t) /\ call'[t] = c /\ active'[call[t].logger] = NoFile
      BY <1>1, <1>2, <1>6, <2>1, ProceedsIf
  <2>3. KeptBy(t)' /\ KnownBy(t)'
      BY <2>1, <2>2, Unbound
  <2> QED
      BY <1>1, <1>3, <1>4, <2>2, <2>3, NoFileIs, Assemble DEF Invariant, Alone1
<1> QED
    BY <1>5, <1>6 DEF Enter

-----------------------------------------------------------------------------
\* OPENING A FILE

\* What the invariant says of a call and its Logger.
LEMMA HeldFacts ==
    ASSUME Invariant, NEW t \in Threads, Busy(t)
    PROVE  /\ Clean(Writer(t)) /\ Sound(Writer(t)) /\ KeptBy(t)
           /\ ~overlap => /\ Alone /\ Known(Writer(t)) /\ KnownBy(t)
                          /\ OneCurrent /\ TopCurrent
<1>1. call[t].logger \in InUse /\ call[t].logger \in Loggers
    BY Held DEF InUse, Invariant
<1>2. Clean(Writer(t)) /\ Sound(Writer(t))
    BY <1>1, ActiveSound DEF Invariant, NoOverwrite, Writer
<1>3. KeptBy(t)
    BY DEF Invariant, Keeps
<1>4. ~overlap => Alone /\ KnownBy(t) /\ OneCurrent /\ TopCurrent
    BY DEF Invariant, Alone1, Calm
<1>5. ASSUME ~overlap PROVE Known(Writer(t))
  <2>1. call[t].logger = session /\ session # 0
      BY <1>1, <1>4, <1>5 DEF Alone, Superseded, Busy, Loggers
  <2> QED
      BY <1>5, <2>1 DEF Invariant, Calm, SessionKnown, Writer
<1> QED
    BY <1>2, <1>3, <1>4, <1>5

\* The current files are finite; when they are all the same, there is one at most.
LEMMA CurrentsAre ==
    ASSUME Types
    PROVE  /\ IsFiniteSet(Currents) /\ Currents \subseteq DOMAIN dir /\ Currents \subseteq Names
           /\ OneCurrent <=> Cardinality(Currents) <= 1
           /\ Cardinality(Currents) = 1 => OneCurrent
<1>1. Currents \subseteq DOMAIN dir /\ IsFiniteSet(Currents) /\ Currents \subseteq Names
    BY FS_Subset DEF Currents, Types, DirOK
<1>2. Cardinality(Currents) \in Nat
    BY <1>1, FS_CardinalityType
<1>3. Cardinality(Currents) = 0 <=> Currents = {}
    BY <1>1, FS_EmptySet
<1>4. Cardinality(Currents) = 1 <=> \E n : Currents = {n}
    BY <1>1, FS_Singleton
<1>5. ASSUME OneCurrent PROVE Cardinality(Currents) <= 1
  <2>1. CASE Currents = {}
      BY <1>3, <2>1
  <2>2. CASE Currents # {}
    <3>1. PICK n : n \in Currents
        BY <2>2
    <3>2. Currents = {n}
        BY <1>5, <3>1 DEF OneCurrent
    <3> QED
        BY <1>4, <3>2
  <2> QED
      BY <2>1, <2>2
<1>6. ASSUME Cardinality(Currents) <= 1 PROVE OneCurrent
  <2>1. Cardinality(Currents) = 0 \/ Cardinality(Currents) = 1
      BY <1>2, <1>6
  <2>2. Currents = {} \/ \E n : Currents = {n}
      BY <1>3, <1>4, <2>1
  <2> QED
      BY <2>2 DEF OneCurrent
<1>7. Cardinality(Currents) = 1 => OneCurrent
    BY <1>4 DEF OneCurrent
<1> QED
    BY <1>1, <1>5, <1>6, <1>7

\* The archive has the number of the file, and no bearer of an owed line shares its number, so
\* none is replaced (try_resume_current).
LEMMA ArchiveStaleKeeps ==
    ASSUME Invariant, Types', NEW t \in Threads, ArchiveStale(t) PROVE Invariant'
<1>1. /\ At(t, {"open"}) /\ Cardinality(Currents) > 1
      /\ UNCHANGED <<data, process, second, used, owed, overlap>>
    BY DEF ArchiveStale
<1>2. Busy(t) /\ Holding(t) /\ Types
    BY <1>1 DEF Busy, Holding, At, Invariant
<1>3. PICK n \in Currents : dir' = Renamed(n, Archived(n))
    BY DEF ArchiveStale, Lowest
<1>4. /\ n \in DOMAIN dir /\ n \in Names /\ Archived(n) \in Names /\ Archived(n) # n
      /\ ~Archived(n).current /\ Archived(Archived(n)) = Archived(n)
    BY <1>2, NameFacts DEF Currents, Types, DirOK
<1>5. FilesKept
    BY <1>1, <1>2, <1>3, <1>4, RenameKeeps DEF Invariant
<1>6. Writer(t) = NoFile
    BY <1>1, <1>2, Held DEF At, Fits
<1>7. session' = session /\ active' = active /\ call' = call
    BY <1>1 DEF process
<1>8. Proceeds(t) /\ active'[call[t].logger] = NoFile
    BY <1>2, <1>6, <1>7 DEF Proceeds, Writer, Types, WritersOK
<1>9. KeptBy(t)'
    BY <1>1, <1>7, Unbound DEF At
<1>10. overlap /\ overlap' = overlap
  <2>1. ~(Cardinality(Currents) <= 1)
      BY <1>1, <1>2, CurrentsAre, FS_CardinalityType
  <2>2. ~OneCurrent
      BY <1>2, <2>1, CurrentsAre
  <2> QED
      BY <1>1, <2>2 DEF Invariant, Calm
<1> QED
    BY <1>5, <1>8, <1>9, <1>10, NoFileIs, Assemble DEF Invariant, Alone1

\* The number chosen is above those of all files, the bearers with them (next_sequence_number).
LEMMA NumberKeeps == ASSUME Invariant, Types', NEW t \in Threads, Number(t) PROVE Invariant'
<1>1. /\ At(t, {"open"}) /\ Currents = {}
      /\ UNCHANGED <<disk, session, config, active, second, used, owed, overlap>>
      /\ call' = [call EXCEPT ![t].at = "create", ![t].seq = NextSeq]
    BY DEF Number
<1>2. Busy(t) /\ Holding(t) /\ Types
    BY <1>1 DEF Busy, Holding, At, Invariant
<1>3. call[t] \in LogCalls /\ Writer(t) = NoFile
    BY <1>1, <1>2, Held DEF At, Fits
<1>4. PICK s \in Nat : s = NextSeq /\ \A n \in DOMAIN dir : n.seq < s
    BY <1>2, NextSeqIs
<1>5. PICK c : c = [call[t] EXCEPT !.at = "create", !.seq = s]
    OBVIOUS
<1>6. c.at = "create" /\ c.seq = s /\ c.logger = call[t].logger
    BY <1>3, <1>5 DEF LogCalls
<1>7. call' = [call EXCEPT ![t] = c]
    BY <1>1, <1>4, <1>5, <1>2 DEF Types, CallsOK
<1>8. SetWriter(t, NoFile)
    BY <1>1, <1>2, <1>3, ActiveStays
<1>9. Proceeds(t) /\ call'[t] = c /\ active'[call[t].logger] = NoFile
    BY <1>1, <1>2, <1>6, <1>7, <1>8, ProceedsIf
<1>10. FilesKept
    BY <1>1, <1>2, QuietKeeps DEF Invariant
<1>11. dir' = dir /\ Currents' = {}
    BY <1>1 DEF disk, Currents
<1>12. \A m \in Slots : m.seq < s
  <2> SUFFICES ASSUME NEW n \in Bearers PROVE Archived(n).seq < s
      BY DEF Slots
  <2> QED
      BY <1>2, <1>4, NameFacts DEF Bearers, Types, DirOK
<1>13. KeptBy(t)'
    BY <1>6, <1>9, <1>10, <1>12 DEF KeptBy, At, Rotating, FilesKept
<1>14. KnownBy(t)'
    BY <1>4, <1>6, <1>9, <1>11 DEF KnownBy, At, Rotating
<1>15. ~overlap' => OneCurrent' /\ TopCurrent'
    BY <1>1, CalmFiles DEF Invariant
<1> QED
    BY <1>1, <1>9, <1>10, <1>13, <1>14, <1>15, NoFileIs, Assemble DEF Invariant, Alone1

\* A file that the Logger opens again is not shorter than it says.
LEMMA ResumeKeeps == ASSUME Invariant, Types', NEW t \in Threads, Resume(t) PROVE Invariant'
<1>1. /\ At(t, {"open"}) /\ Cardinality(Currents) = 1
      /\ UNCHANGED <<disk, session, config, second, used, owed>>
    BY DEF Resume
<1>2. PICK n \in Currents : /\ SetWriter(t, Resumed(n)) /\ Goto(t, Ready(t, Resumed(n)))
                            /\ Heal(n.seq, Archives)
    BY DEF Resume
<1>3. Busy(t) /\ Holding(t) /\ Types
    BY <1>1 DEF Busy, Holding, At, Invariant
<1>4. n \in DOMAIN dir /\ n \in Names /\ n.current
    BY <1>3 DEF Currents, Types, DirOK
<1>5. PICK w \in Writers : /\ w = Resumed(n) /\ w # NoFile /\ w.append
                           /\ w.name = n /\ w.file = dir[n] /\ w.index = Len(data[dir[n]])
                           /\ w.ram = 0 /\ w.index \in Nat
    BY <1>3, <1>4, ResumedIs, WriterParts
<1>6. PICK p \in {"rotate", "write"} : p = Ready(t, Resumed(n))
    BY DEF Ready
<1>7. PICK c \in LogCalls : /\ call' = [call EXCEPT ![t] = c] /\ c.at = p
                            /\ c.logger = call[t].logger
    BY <1>2, <1>3, <1>6, GotoIs DEF Places
<1>8. Proceeds(t) /\ call'[t] = c /\ active'[call[t].logger] = w
    BY <1>1, <1>2, <1>3, <1>5, <1>7, ProceedsIf
<1>9. FilesKept
    BY <1>1, <1>3, QuietKeeps DEF Invariant
<1>10. dir' = dir /\ data' = data /\ Writer(t)' = w
    BY <1>1, <1>7, <1>8 DEF disk, Writer
<1>11. KeptBy(t)'
    BY <1>7, <1>8 DEF KeptBy, At, Rotating
<1>12. KnownBy(t)'
    BY <1>4, <1>5, <1>7, <1>8, <1>10 DEF KnownBy, At, Rotating
<1>13. Clean(w)'
    BY <1>5 DEF Clean
<1>14. Known(w)'
    BY <1>5, <1>10 DEF Known
<1>15. overlap' = (overlap /\ ~(Alone /\ Above(n.seq, Archives))) /\ overlap \in BOOLEAN
    BY <1>2 DEF Heal, Invariant, Alone1
<1>16. ~overlap' => Alone /\ TopCurrent
  <2>1. CASE ~overlap
      BY <1>3, <2>1, HeldFacts
  <2>2. CASE overlap /\ ~overlap'
    <3>1. Alone /\ Above(n.seq, Archives)
        BY <1>15, <2>2
    <3>2. \A m \in Currents : m = n
        BY <1>1, <1>2, <1>3, CurrentsAre DEF OneCurrent
    <3> QED
        BY <3>1, <3>2 DEF Above, TopCurrent
  <2> QED
      BY <1>15, <2>1, <2>2
<1>17. OneCurrent
    BY <1>1, <1>3, CurrentsAre
<1>18. ~overlap' => OneCurrent' /\ TopCurrent'
    BY <1>10, <1>16, <1>17 DEF OneCurrent, TopCurrent, Currents, Archives
<1> QED
    BY <1>8, <1>9, <1>11, <1>12, <1>13, <1>14, <1>15, <1>16, <1>18, Assemble

-----------------------------------------------------------------------------
\* MAKING A FILE

\* A bearer has the number of its slot.
LEMMA SlotOf ==
    ASSUME Types, NEW b \in Bearers
    PROVE  /\ b \in DOMAIN dir /\ b \in Names
           /\ Archived(b) \in Slots /\ Archived(b).seq = b.seq
BY NameFacts DEF Bearers, Slots, Types, DirOK

\* A new file, above the bearers, and, when one Logger is at work, above all files.
LEMMA CreatedKeeps ==
    ASSUME Invariant, Types', NEW t \in Threads, Holding(t), Created(t),
           UNCHANGED <<session, config, second, used, owed>>,
           \A m \in Slots : m.seq < call[t].seq,
           overlap' \in BOOLEAN,
           ~overlap' => Alone /\ Currents = {} /\ \A m \in DOMAIN dir : m.seq < call[t].seq
    PROVE  Invariant'
<1>1. Busy(t) /\ Types
    BY DEF Holding, Busy, At, Invariant
<1>2. PICK c \in LogCalls, w \in Writers :
             /\ FreshName(t) \in Names /\ FreshName(t).current
             /\ FreshName(t).seq = call[t].seq
             /\ call' = [call EXCEPT ![t] = c]
             /\ c.at = "write" /\ c.logger = call[t].logger
             /\ SetWriter(t, w)
             /\ w.name = FreshName(t) /\ w.file = Len(data) + 1 /\ w.index = 0
             /\ w # NoFile /\ w.ram = 0
    BY <1>1, CreatedIs
<1>3. PICK n \in Names : n = FreshName(t) /\ n.current /\ n.seq = call[t].seq /\ w.name = n
    BY <1>2
<1>4. /\ n \notin DOMAIN dir /\ data' = Append(data, <<>>)
      /\ dir' = [m \in DOMAIN dir \cup {n} |-> IF m = n THEN Len(data) + 1 ELSE dir[m]]
    BY <1>3 DEF Created
<1>5. PICK f : f = Len(data) + 1
    OBVIOUS
<1>6. /\ DOMAIN dir' = DOMAIN dir \cup {n} /\ dir'[n] = f /\ data'[f] = <<>>
    BY <1>1, <1>4, <1>5, CreateTypes
<1>7. \A b \in Bearers : b.seq < n.seq
    BY <1>1, <1>3, SlotOf
<1>8. FilesKept
    BY <1>1, <1>4, <1>7, CreateKeeps DEF Invariant
<1>9. Proceeds(t) /\ call'[t] = c /\ active'[call[t].logger] = w
    BY <1>1, <1>2, ProceedsIf
<1>10. Writer(t)' = w
    BY <1>2, <1>9 DEF Writer
<1>11. KeptBy(t)'
    BY <1>2, <1>9 DEF KeptBy, At, Rotating
<1>12. KnownBy(t)'
    BY <1>2, <1>3, <1>6, <1>9, <1>10 DEF KnownBy, At, Rotating
<1>13. Clean(w)'
    BY <1>2, <1>5, <1>6 DEF Clean
<1>14. Known(w)'
    BY <1>2, <1>3, <1>5, <1>6 DEF Known
<1>15. ASSUME ~overlap' PROVE OneCurrent' /\ TopCurrent'
  <2>1. Currents = {} /\ \A m \in DOMAIN dir : m.seq < n.seq
      BY <1>3, <1>15
  <2>2. Currents' = {n}
      BY <1>3, <1>6, <2>1 DEF Currents
  <2>3. \A m \in Archives' : m.seq < n.seq
      BY <1>6, <2>1, <2>2 DEF Archives
  <2> QED
      BY <2>2, <2>3 DEF OneCurrent, TopCurrent
<1> QED
    BY <1>8, <1>9, <1>11, <1>12, <1>13, <1>14, <1>15, Assemble

\* The new file is above all bearers; when it is made by the only Logger at work it is above all
\* files, and an overlap is over (create_active_file).
LEMMA CreateStepKeeps ==
    ASSUME Invariant, Types', NEW t \in Threads, Create(t) PROVE Invariant'
<1>1. At(t, {"create"}) /\ UNCHANGED <<session, config, second, used, owed>>
    BY DEF Create
<1>2. Holding(t) /\ Busy(t)
    BY <1>1 DEF Holding, Busy, At
<1>3. CASE Created(t) /\ Heal(call[t].seq, DOMAIN dir)
  <2>1. \A m \in Slots : m.seq < call[t].seq
      BY <1>1, <1>2, HeldFacts DEF KeptBy
  <2>2. /\ overlap' = (overlap /\ ~(Alone /\ Above(call[t].seq, DOMAIN dir)))
        /\ overlap \in BOOLEAN
      BY <1>3 DEF Heal, Invariant, Alone1
  <2>3. ASSUME ~overlap'
        PROVE  Alone /\ Currents = {} /\ \A m \in DOMAIN dir : m.seq < call[t].seq
    <3>1. CASE ~overlap
      <4>1. Alone /\ KnownBy(t)
          BY <1>2, <3>1, HeldFacts
      <4> QED
          BY <1>1, <4>1 DEF KnownBy, At
    <3>2. CASE Alone /\ Above(call[t].seq, DOMAIN dir)
        BY <3>2 DEF Above, Currents
    <3> QED
        BY <2>2, <2>3, <3>1, <3>2
  <2> QED
      BY <1>1, <1>2, <1>3, <2>1, <2>2, <2>3, CreatedKeeps
<1>4. CASE Drop(t) /\ UNCHANGED <<disk, overlap>>
    BY <1>1, <1>2, <1>4, DropKeeps
<1> QED
    BY <1>3, <1>4 DEF Create

\* The new file is above the archive of the full one, and so above the bearers (rotate_active).
LEMMA RollKeeps == ASSUME Invariant, Types', NEW t \in Threads, Roll(t) PROVE Invariant'
<1>1. At(t, {"roll"}) /\ UNCHANGED <<session, config, second, used, owed, overlap>>
    BY DEF Roll
<1>2. Holding(t) /\ Busy(t) /\ Types
    BY <1>1 DEF Holding, Busy, At, Invariant
<1>3. KeptBy(t) /\ (~overlap => Alone /\ KnownBy(t) /\ OneCurrent /\ TopCurrent)
    BY <1>2, HeldFacts
<1>4. overlap' \in BOOLEAN /\ overlap' = overlap
    BY <1>1 DEF Invariant, Alone1
<1>5. /\ call[t].seq = Writer(t).name.seq + 1 /\ Writer(t) # NoFile
      /\ Writer(t).name.seq \in Nat
    BY <1>1, <1>2, Held, NameFacts DEF At, Fits
<1>6. CASE Created(t)
  <2>1. \A m \in Slots : m.seq < call[t].seq
    <3> SUFFICES ASSUME NEW b \in Bearers PROVE Archived(b).seq < call[t].seq
        BY DEF Slots
    <3>1. Archived(b) \in Slots /\ Archived(b).seq \in Nat
        BY <1>2, SlotOf, NameFacts
    <3>2. Archived(b).seq <= Writer(t).name.seq
        BY <1>1, <1>3, <3>1 DEF KeptBy, Rotating, At
    <3> QED
        BY <1>5, <3>1, <3>2
  <2>2. ASSUME ~overlap'
        PROVE  Alone /\ Currents = {} /\ \A m \in DOMAIN dir : m.seq < call[t].seq
    <3>1. Alone /\ KnownBy(t)
        BY <1>3, <1>4, <2>2
    <3>2. Currents = {} /\ \A m \in DOMAIN dir : m.seq <= Writer(t).name.seq
        BY <1>1, <3>1 DEF KnownBy, Rotating, At
    <3>3. \A m \in DOMAIN dir : m.seq \in Nat
        BY <1>2, NameFacts DEF Types, DirOK
    <3> QED
        BY <1>5, <3>1, <3>2, <3>3
  <2> QED
      BY <1>1, <1>2, <1>4, <1>6, <2>1, <2>2, CreatedKeeps
<1>7. CASE Goto(t, "rollback") /\ UNCHANGED <<disk, active>>
  <2>1. PICK c \in LogCalls : /\ call' = [call EXCEPT ![t] = c] /\ c.at = "rollback"
                              /\ c.logger = call[t].logger
      BY <1>2, <1>7, GotoIs DEF Places
  <2>2. PICK w : w = Writer(t)
      OBVIOUS
  <2>3. SetWriter(t, w)
      BY <1>2, <1>7, <2>2, ActiveStays
  <2>4. Proceeds(t) /\ call'[t] = c /\ active'[call[t].logger] = w
      BY <1>1, <1>2, <2>1, <2>3, ProceedsIf
  <2>5. FilesKept
      BY <1>1, <1>2, <1>7, QuietKeeps DEF Invariant
  <2>6. Writer(t)' = w
      BY <2>1, <2>4 DEF Writer
  <2>7. KeptBy(t)'
      BY <1>1, <1>3, <2>1, <2>2, <2>4, <2>5, <2>6 DEF KeptBy, At, Rotating, FilesKept
  <2>8. dir' = dir /\ Currents' = Currents
      BY <1>7 DEF disk, Currents
  <2>9. ~overlap' => KnownBy(t)'
      BY <1>1, <1>3, <1>4, <2>1, <2>2, <2>4, <2>6, <2>8 DEF KnownBy, At, Rotating
  <2>10. Clean(w) /\ Sound(w) /\ (~overlap => Known(w))
      BY <1>2, <2>2, HeldFacts
  <2>11. Clean(w)' /\ (~overlap' => Known(w)')
      BY <1>4, <1>7, <2>5, <2>10, CleanStays, KnownStays DEF FilesKept
  <2>12. ~overlap' => Alone /\ OneCurrent' /\ TopCurrent'
      BY <1>3, <1>4, <1>7, CalmFiles DEF Invariant
  <2> QED
      BY <1>4, <2>4, <2>5, <2>7, <2>9, <2>11, <2>12, Assemble
<1> QED
    BY <1>6, <1>7 DEF Roll

-----------------------------------------------------------------------------
\* ROTATION

\* The archive replaces no bearer: only the full file itself may have its number (rotate_active).
LEMMA RotateKeeps == ASSUME Invariant, Types', NEW t \in Threads, Rotate(t) PROVE Invariant'
<1>1. At(t, {"rotate"}) /\ UNCHANGED <<data, session, config, second, used, owed, overlap>>
    BY DEF Rotate
<1>2. Holding(t) /\ Busy(t) /\ Types
    BY <1>1 DEF Holding, Busy, At, Invariant
<1>3. CASE /\ Writer(t).name \in DOMAIN dir
           /\ dir' = Renamed(Writer(t).name, Archived(Writer(t).name))
           /\ Goto(t, "prune") /\ UNCHANGED active
  <2>1. PICK w : w = Writer(t)
      OBVIOUS
  <2>2. PICK n : n = w.name
      OBVIOUS
  <2>3. w # NoFile /\ n \in Names /\ n.current
      BY <1>1, <1>2, <2>1, <2>2, Held DEF At, Fits
  <2>4. PICK a \in Names : /\ a = Archived(n) /\ a # n /\ ~a.current /\ a.seq = n.seq
                           /\ Archived(a) = a
      BY <2>3, NameFacts
  <2>5. n \in DOMAIN dir /\ dir' = Renamed(n, a)
      BY <1>3, <2>1, <2>2, <2>4
  <2>6. /\ DOMAIN dir' = (DOMAIN dir \ {n}) \cup {a}
      BY <1>2, <2>4, <2>5, RenamedIs
  <2>7. FilesKept
      BY <1>1, <1>2, <2>4, <2>5, RenameKeeps DEF Invariant
  <2>8. PICK c \in LogCalls : /\ call' = [call EXCEPT ![t] = c] /\ c.at = "prune"
                              /\ c.logger = call[t].logger
      BY <1>2, <1>3, GotoIs DEF Places
  <2>9. SetWriter(t, w)
      BY <1>2, <1>3, <2>1, ActiveStays
  <2>10. Proceeds(t) /\ call'[t] = c /\ active'[call[t].logger] = w
      BY <1>1, <1>2, <2>8, <2>9, ProceedsIf
  <2>11. Writer(t)' = w
      BY <2>8, <2>10 DEF Writer
  <2>12. \A m \in Slots : m.seq <= n.seq /\ (m.seq = n.seq => m = a)
    <3> SUFFICES ASSUME NEW b \in Bearers
                 PROVE  /\ Archived(b).seq <= n.seq
                        /\ Archived(b).seq = n.seq => Archived(b) = a
        BY DEF Slots
    <3>1. Archived(b).seq = b.seq /\ b.seq \in Nat /\ n.seq \in Nat
        BY <1>2, <2>3, SlotOf, NameFacts
    <3>2. CASE b = n
        BY <2>4, <3>1, <3>2
    <3>3. CASE b # n
      <4>1. b.seq < n.seq
          BY <2>3, <2>5, <3>3 DEF Invariant, Ranked
      <4> QED
          BY <3>1, <4>1
    <3> QED
        BY <3>2, <3>3
  <2>13. KeptBy(t)'
      BY <2>2, <2>4, <2>7, <2>8, <2>10, <2>11, <2>12 DEF KeptBy, At, Rotating, FilesKept
  <2>14. Clean(w) /\ Sound(w) /\ (~overlap => Alone /\ Known(w) /\ OneCurrent /\ TopCurrent)
      BY <1>2, <2>1, HeldFacts
  <2>15. Clean(w)'
      BY <2>7, <2>14, CleanStays DEF FilesKept
  <2>16. Known(w)'
      BY <2>2, <2>4, <2>6 DEF Known
  <2>17. overlap' \in BOOLEAN /\ overlap' = overlap
      BY <1>1 DEF Invariant, Alone1
  <2>18. ASSUME ~overlap' PROVE OneCurrent' /\ TopCurrent' /\ KnownBy(t)'
    <3>1. OneCurrent /\ TopCurrent
        BY <2>14, <2>17, <2>18
    <3>2. Currents = {n}
        BY <2>3, <2>5, <3>1 DEF OneCurrent, Currents
    <3>3. Currents' = {}
        BY <2>4, <2>6, <3>2 DEF Currents
    <3>4. \A m \in DOMAIN dir : m = n \/ m.seq < n.seq
        BY <3>1, <3>2 DEF TopCurrent, Archives
    <3>5. \A m \in DOMAIN dir' : m.seq <= n.seq /\ (m.seq = n.seq => m = a)
      <4> SUFFICES ASSUME NEW m \in DOMAIN dir'
                   PROVE  m.seq <= n.seq /\ (m.seq = n.seq => m = a)
          OBVIOUS
      <4>1. n.seq \in Nat /\ \A k \in DOMAIN dir : k.seq \in Nat
          BY <1>2, <2>3, NameFacts DEF Types, DirOK
      <4>2. CASE m = a
          BY <2>4, <4>1, <4>2
      <4>3. CASE m \in DOMAIN dir \ {n}
          BY <3>4, <4>1, <4>3
      <4> QED
          BY <2>6, <4>2, <4>3
    <3>6. OneCurrent' /\ TopCurrent'
        BY <3>3 DEF OneCurrent, TopCurrent
    <3>7. KnownBy(t)'
        BY <2>2, <2>4, <2>8, <2>10, <2>11, <3>3, <3>5 DEF KnownBy, At, Rotating
    <3> QED
        BY <3>6, <3>7
  <2> QED
      BY <2>7, <2>10, <2>13, <2>14, <2>15, <2>16, <2>17, <2>18, Assemble
<1>4. CASE Drop(t) /\ UNCHANGED dir
    BY <1>1, <1>2, <1>4, DropKeeps DEF disk
<1> QED
    BY <1>3, <1>4 DEF Rotate

\* The archive becomes the current file again: nothing that is owed is in a file above it
\* (rotate_active).
LEMMA RollbackKeeps ==
    ASSUME Invariant, Types', NEW t \in Threads, Rollback(t) PROVE Invariant'
<1>1. /\ At(t, {"rollback"}) /\ UNCHANGED <<data, session, config, second, owed, overlap>>
    BY DEF Rollback
<1>2. Holding(t) /\ Busy(t) /\ Types
    BY <1>1 DEF Holding, Busy, At, Invariant
<1>3. PICK v, n : v = Writer(t) /\ n = v.name
    OBVIOUS
<1>8. v # NoFile
    BY <1>1, <1>2, <1>3, Held DEF At, Fits
<1>4. v # NoFile /\ n \in Names /\ n.current
    BY <1>2, <1>3, <1>8, Held
<1>5. PICK a \in Names : /\ a = Archived(n) /\ a # n /\ ~a.current /\ a.seq = n.seq
                         /\ Archived(a) = a
    BY <1>4, NameFacts
<1>9. KeptBy(t) /\ (~overlap => Alone /\ KnownBy(t))
    BY <1>2, HeldFacts
<1>10. overlap' \in BOOLEAN /\ overlap' = overlap
    BY <1>1 DEF Invariant, Alone1
<1>6. ASSUME a \in DOMAIN dir, dir' = Renamed(a, n)
      PROVE  /\ FilesKept
             /\ dir'[n] = dir[a] /\ n \in DOMAIN dir'
             /\ ~overlap => OneCurrent' /\ TopCurrent'
  <2>1. DOMAIN dir' = (DOMAIN dir \ {a}) \cup {n} /\ dir'[n] = dir[a]
      BY <1>2, <1>4, <1>5, <1>6, RenamedIs
  <2>2. \A b \in Bearers : b # a => b.seq < n.seq
    <3> SUFFICES ASSUME NEW b \in Bearers, b # a PROVE b.seq < n.seq
        OBVIOUS
    <3>1. /\ Archived(b) \in Slots /\ Archived(b).seq = b.seq
          /\ b.seq \in Nat /\ n.seq \in Nat
        BY <1>2, <1>4, SlotOf, NameFacts
    <3>2. Archived(b).seq <= n.seq
        BY <1>1, <1>3, <1>9, <3>1 DEF KeptBy, Rotating, At
    <3>3. b.seq # a.seq
        BY <1>6 DEF Invariant, Ranked
    <3> QED
        BY <1>5, <3>1, <3>2, <3>3
  <2>3. FilesKept
      BY <1>1, <1>2, <1>4, <1>5, <1>6, <2>2, RenameKeeps DEF Invariant
  <2>4. ASSUME ~overlap PROVE OneCurrent' /\ TopCurrent'
    <3>1. KnownBy(t)
        BY <1>9, <2>4
    <3>2. /\ Currents = {}
          /\ \A m \in DOMAIN dir : m.seq <= n.seq /\ (m.seq = n.seq => m = a)
        BY <1>1, <1>3, <1>5, <3>1 DEF KnownBy, Rotating, At
    <3>3. Currents' = {n}
        BY <1>4, <2>1, <3>2 DEF Currents
    <3>4. n.seq \in Nat /\ \A m \in DOMAIN dir : m.seq \in Nat
        BY <1>2, <1>4, NameFacts DEF Types, DirOK
    <3>5. \A m \in Archives' : m \in DOMAIN dir \ {a}
        BY <2>1, <3>3 DEF Archives
    <3>6. \A m \in Archives' : m.seq < n.seq
        BY <3>2, <3>4, <3>5
    <3> QED
        BY <3>3, <3>6 DEF OneCurrent, TopCurrent
  <2> QED
      BY <2>1, <2>3, <2>4
<1>11. CASE /\ a \in DOMAIN dir /\ dir' = Renamed(a, n)
            /\ SetWriter(t, [Resumed(a) EXCEPT !.name = n]) /\ Goto(t, "write")
  <2>1. PICK w \in Writers : /\ w = [Resumed(a) EXCEPT !.name = n] /\ w # NoFile
                             /\ w.append /\ w.name = n /\ w.file = dir[a]
                             /\ w.index = Len(data[dir[a]]) /\ w.ram = 0
      BY <1>2, <1>4, <1>11, ResumedIs
  <2>2. PICK c \in LogCalls : /\ call' = [call EXCEPT ![t] = c] /\ c.at = "write"
                              /\ c.logger = call[t].logger
      BY <1>2, <1>11, GotoIs DEF Places
  <2>3. Proceeds(t) /\ call'[t] = c /\ active'[call[t].logger] = w
      BY <1>1, <1>2, <1>11, <2>1, <2>2, ProceedsIf
  <2>4. Writer(t)' = w
      BY <2>2, <2>3 DEF Writer
  <2>5. dir'[n] = dir[a] /\ n \in DOMAIN dir'
      BY <1>6, <1>11
  <2>6. KeptBy(t)'
      BY <2>2, <2>3 DEF KeptBy, At, Rotating
  <2>7. KnownBy(t)'
      BY <2>1, <2>2, <2>3, <2>4, <2>5 DEF KnownBy, At, Rotating
  <2>8. Clean(w)'
      BY <2>1 DEF Clean
  <2>9. w.index \in Nat /\ data' = data
      BY <1>1, <2>1 DEF Writers
  <2>10. Known(w)'
      BY <2>1, <2>5, <2>9 DEF Known
  <2> QED
      BY <1>6, <1>9, <1>10, <1>11, <2>3, <2>6, <2>7, <2>8, <2>10, Assemble
<1>7. CASE Drop(t) /\ UNCHANGED dir
    BY <1>1, <1>2, <1>7, DropKeeps DEF disk
<1>12. CASE a \in DOMAIN dir /\ dir' = Renamed(a, n) /\ Drop(t)
  <2>1. PICK c : c = IF call[t].install THEN Logging(call[t].logger, FALSE) ELSE Idle
      OBVIOUS
  <2>2. (c = Idle \/ c.logger = call[t].logger) /\ c.at \in {"idle", "lock"}
      BY <2>1 DEF Logging, Idle
  <2>3. call' = [call EXCEPT ![t] = c] /\ SetWriter(t, NoFile)
      BY <1>12, <2>1 DEF Drop, Return
  <2>4. Proceeds(t) /\ call'[t] = c /\ active'[call[t].logger] = NoFile
      BY <1>1, <1>2, <2>2, <2>3, ProceedsIf
  <2>5. KeptBy(t)' /\ KnownBy(t)'
      BY <2>2, <2>4, Unbound
  <2> QED
      BY <1>6, <1>9, <1>10, <1>12, <2>4, <2>5, NoFileIs, Assemble
<1> QED
    BY <1>3, <1>5, <1>7, <1>11, <1>12 DEF Rollback

-----------------------------------------------------------------------------
\* PRUNING

\* A line of a file to be pruned is spent: what is younger, and what is older in the same
\* file, is more than the budget.
LEMMA DoomedSpent ==
    ASSUME Types, Ranked, NEW keep \in Nat, NEW files \in InSequence(Archives),
           NEW d \in Range(Doomed(files, keep)), NEW l \in LinesIn(d), l \in owed
    PROVE  d \in Archives /\ Spent(l, d, keep)
<1>1. PICK i \in 1..Len(files) : /\ d = files[i] /\ d \in Archives
                                 /\ LineCount({files[j] : j \in i..Len(files)}) > keep
    BY DoomedIs
<1>2. PICK n \in Nat : /\ n = Len(files) /\ DOMAIN files = 1..n
                       /\ files \in [1..n -> Archives]
                       /\ \A j, k \in 1..n : files[j] = files[k] => j = k
                       /\ \A j, k \in 1..n : j < k => files[j].seq <= files[k].seq
    BY InSequenceIs
<1>3. PICK Younger, Older : /\ Younger = {k \in OnDisk : k > l}
                            /\ Older = {k \in LinesIn(d) : k <= l}
    OBVIOUS
<1>4. d \in DOMAIN dir /\ LinesIn(d) \subseteq OnDisk /\ OnDisk \subseteq Nat
    BY <1>1, LinesAreFinite DEF Archives, OnDisk
<1>5. IsFiniteSet(Younger) /\ IsFiniteSet(Older) /\ Younger \cap Older = {}
  <2>1. Younger \subseteq OnDisk /\ Older \subseteq OnDisk
      BY <1>3, <1>4
  <2>2. IsFiniteSet(Younger) /\ IsFiniteSet(Older)
      BY <2>1, LinesAreFinite, FS_Subset
  <2>3. l \in Nat
      BY <1>4
  <2>4. \A k \in Nat : ~(k > l /\ k <= l)
      BY <2>3
  <2> QED
      BY <1>3, <1>4, <2>2, <2>4
<1>6. PICK T : T = Younger \cup Older
    OBVIOUS
<1>7. IsFiniteSet(T) /\ Cardinality(T) = Cardinality(Younger) + Cardinality(Older)
  <2>1. Cardinality(Younger) \in Nat /\ Cardinality(Older) \in Nat
      BY <1>5, FS_CardinalityType
  <2>2. Cardinality(Younger \cap Older) = 0
      BY <1>5, FS_EmptySet
  <2>3. PICK y, o : y = Cardinality(Younger) /\ o = Cardinality(Older)
      OBVIOUS
  <2>4. IsFiniteSet(Younger \cup Older)
      BY <1>5, FS_Union
  <2>5. Cardinality(Younger \cup Older)
          = Cardinality(Younger) + Cardinality(Older) - Cardinality(Younger \cap Older)
      BY <1>5, FS_Union
  <2>6. Cardinality(T) = y + o - 0 /\ y \in Nat /\ o \in Nat
      BY <1>6, <2>1, <2>2, <2>3, <2>5
  <2>7. Cardinality(T) = y + o
      BY <2>6
  <2> QED
      BY <1>6, <2>3, <2>4, <2>7
<1>8. PICK S : S = {files[j] : j \in i..Len(files)}
    OBVIOUS
<1>9. S \subseteq DOMAIN dir
    BY <1>1, <1>2, <1>8 DEF Archives
<1>10. ASSUME NEW m \in S PROVE LinesIn(m) \subseteq T
  <2> SUFFICES ASSUME NEW k \in LinesIn(m) PROVE k \in T
      OBVIOUS
  <2>1. k \in OnDisk /\ k \in Nat /\ l \in Nat
      BY <1>4, <1>9 DEF OnDisk
  <2>2. CASE m = d
      BY <1>3, <1>6, <2>1, <2>2
  <2>3. CASE m # d
    <3>1. PICK j \in i..n : m = files[j]
        BY <1>2, <1>8
    <3>2. i < j /\ i \in 1..n /\ j \in 1..n
        BY <1>1, <1>2, <2>3, <3>1
    <3>3. d.seq <= m.seq /\ m \in DOMAIN dir
        BY <1>1, <1>2, <1>9, <3>1, <3>2
    <3>4. d \in Bearers
        BY <1>4 DEF Bearers, Bears
    <3>5. d.seq # m.seq /\ d.seq \in Nat /\ m.seq \in Nat
        BY <1>4, <2>3, <3>3, <3>4, NameFacts DEF Ranked, Types, DirOK
    <3>6. d.seq < m.seq
        BY <3>3, <3>5
    <3>7. l < k
        BY <2>3, <3>3, <3>4, <3>6 DEF Ranked
    <3> QED
        BY <1>3, <1>6, <2>1, <3>7
  <2> QED
      BY <2>2, <2>3
<1>11. LineCount(S) \in Nat /\ LineCount(S) <= Cardinality(T)
    BY <1>7, <1>9, <1>10, LineCountIs
<1>12. Cardinality(Younger) + Cardinality(Older) > keep
  <2>1. Cardinality(Younger) \in Nat /\ Cardinality(Older) \in Nat
      BY <1>5, FS_CardinalityType
  <2> QED
      BY <1>1, <1>7, <1>8, <1>11, <2>1
<1> QED
    BY <1>1, <1>3, <1>12 DEF Spent

\* What is chosen for removal is spent, so nothing that is still owed is in it (prune_old_files).
LEMMA PlanPruneKeeps ==
    ASSUME Invariant, Types', NEW t \in Threads, PlanPrune(t) PROVE Invariant'
<1>1. /\ At(t, {"prune"}) /\ UNCHANGED <<disk, session, config, active, second, used, overlap>>
    BY DEF PlanPrune
<1>2. Holding(t) /\ Busy(t) /\ Types
    BY <1>1 DEF Holding, Busy, At, Invariant
<1>3. PICK files \in InSequence(Archives) :
        call' = [call EXCEPT ![t].at = "roll", ![t].seq = Writer(t).name.seq + 1,
                             ![t].doomed = Doomed(files, Limits(t).keep)]
    BY DEF PlanPrune
<1>4. /\ call[t] \in LogCalls /\ Writer(t) # NoFile
      /\ call[t].logger \in Loggers /\ call[t].logger <= session
    BY <1>1, <1>2, Held DEF At, Fits
<1>5. PICK keep \in Nat : keep = Limits(t).keep
    BY <1>2, <1>4, LogAssumption DEF Limits, Types, SettingsOK
<1>6. PICK d, s : d = Doomed(files, keep) /\ s = Writer(t).name.seq + 1
    OBVIOUS
<1>7. PICK c : c = [call[t] EXCEPT !.at = "roll", !.seq = s, !.doomed = d]
    OBVIOUS
<1>8. c.at = "roll" /\ c.logger = call[t].logger /\ c.doomed = d
    BY <1>4, <1>7 DEF LogCalls
<1>9. call' = [call EXCEPT ![t] = c]
    BY <1>2, <1>3, <1>5, <1>6, <1>7 DEF Types, CallsOK
<1>10. PICK w : w = Writer(t)
    OBVIOUS
<1>11. SetWriter(t, w)
    BY <1>1, <1>2, <1>10, ActiveStays
<1>12. Proceeds(t) /\ call'[t] = c /\ active'[call[t].logger] = w
    BY <1>1, <1>2, <1>8, <1>9, <1>11, ProceedsIf
<1>13. owed' = {l \in owed : \A n \in Range(d) : l \in LinesIn(n) => ~Spent(l, n, keep)}
    BY <1>5, <1>8, <1>12 DEF PlanPrune
<1>14. FilesKept
    BY <1>1, <1>2, <1>13, QuietKeeps DEF Invariant
<1>15. Writer(t)' = w
    BY <1>8, <1>12 DEF Writer
<1>16. KeptBy(t) /\ (~overlap => Alone /\ KnownBy(t))
    BY <1>2, HeldFacts
<1>17. ASSUME NEW i \in DOMAIN d PROVE Archived(d[i]) \notin Slots'
  <2> SUFFICES ASSUME Archived(d[i]) \in Slots' PROVE FALSE
      OBVIOUS
  <2>1. PICK m \in Bearers' : Archived(d[i]) = Archived(m)
      BY DEF Slots, Archived
  <2>2. d[i] \in Range(d)
      BY DEF Range
  <2>3. d[i] \in Archives
      BY <1>2, <1>6, <2>2, DoomedIs
  <2>4. dir' = dir /\ LinesIn(m)' = LinesIn(m)
      BY <1>1 DEF disk, LinesIn, Content
  <2>5. m \in DOMAIN dir /\ \E l \in LinesIn(m) : l \in owed'
      BY <2>4 DEF Bearers, Bears
  <2>6. PICK l \in LinesIn(m) : l \in owed'
      BY <2>5
  <2>7. l \in owed /\ (d[i] = m => ~Spent(l, m, keep))
      BY <1>13, <2>2, <2>6
  <2>8. m \in Bearers
      BY <2>5, <2>6, <2>7 DEF Bearers, Bears
  <2>9. d[i] # m
      BY <1>2, <1>6, <2>2, <2>6, <2>7, DoomedSpent DEF Invariant
  <2>10. d[i] \in DOMAIN dir /\ m \in Names /\ d[i] \in Names
      BY <1>2, <2>3, <2>5 DEF Archives, Types, DirOK
  <2>11. d[i].seq = m.seq
      BY <2>1, <2>10, NameFacts
  <2> QED
      BY <2>8, <2>9, <2>10, <2>11 DEF Invariant, Ranked
<1>18. Rotating(t)
    BY <1>1 DEF Rotating, At
<1>19. \A m \in Slots' : m.seq <= w.name.seq /\ (m.seq = w.name.seq => m = Archived(w.name))
    BY <1>10, <1>14, <1>16, <1>18 DEF KeptBy, FilesKept
<1>20. KeptBy(t)'
    BY <1>8, <1>12, <1>15, <1>17, <1>19 DEF KeptBy, At, Rotating
<1>21. dir' = dir /\ Currents' = Currents
    BY <1>1 DEF disk, Currents
<1>22. overlap' \in BOOLEAN /\ overlap' = overlap
    BY <1>1 DEF Invariant, Alone1
<1>23. ASSUME ~overlap' PROVE KnownBy(t)'
  <2>1. KnownBy(t)
      BY <1>16, <1>22, <1>23
  <2>2. /\ Currents = {}
        /\ \A m \in DOMAIN dir : m.seq <= w.name.seq /\ (m.seq = w.name.seq => m = Archived(w.name))
      BY <1>1, <1>10, <1>18, <2>1 DEF KnownBy, At
  <2> QED
      BY <1>8, <1>12, <1>15, <1>21, <2>2 DEF KnownBy, At, Rotating
<1>24. Clean(w) /\ Sound(w) /\ (~overlap => Known(w))
    BY <1>2, <1>10, HeldFacts
<1>25. Clean(w)' /\ (~overlap' => Known(w)')
    BY <1>1, <1>14, <1>22, <1>24, CleanStays, KnownStays DEF FilesKept
<1>26. ~overlap' => Alone /\ OneCurrent' /\ TopCurrent'
    BY <1>1, <1>16, <1>22, CalmFiles DEF Invariant
<1> QED
    BY <1>12, <1>14, <1>20, <1>22, <1>23, <1>25, <1>26, Assemble

\* What is removed bears nothing that is owed (prune_old_files).
LEMMA PruneOneKeeps ==
    ASSUME Invariant, Types', NEW t \in Threads, PruneOne(t) PROVE Invariant'
<1>1. /\ At(t, {"roll"}) /\ call[t].doomed # <<>>
      /\ UNCHANGED <<data, session, config, active, second, used, owed, overlap>>
    BY DEF PruneOne
<1>2. Holding(t) /\ Busy(t) /\ Types
    BY <1>1 DEF Holding, Busy, At, Invariant
<1>3. call[t] \in LogCalls
    BY <1>2, Held
<1>4. PICK s \in Seq(Names) : s = call[t].doomed /\ s # <<>>
    BY <1>1, <1>3 DEF LogCalls
<1>5. PICK n, rest : n = Head(s) /\ rest = Tail(s)
    OBVIOUS
<1>6. /\ 1 \in DOMAIN s /\ n = s[1] /\ rest \in Seq(Names)
      /\ \A i \in DOMAIN rest : i + 1 \in DOMAIN s /\ rest[i] = s[i + 1]
    BY <1>4, <1>5
<1>7. KeptBy(t) /\ (~overlap => Alone /\ KnownBy(t) /\ OneCurrent /\ TopCurrent)
    BY <1>2, HeldFacts
<1>8. \A i \in DOMAIN s : Archived(s[i]) \notin Slots
    BY <1>1, <1>4, <1>7 DEF KeptBy
<1>9. PICK d : /\ d = rest \/ d = <<>>
               /\ call' = [call EXCEPT ![t].doomed = d]
               /\ (n \in DOMAIN dir /\ dir' = Unlinked(n)) \/ dir' = dir
    BY <1>4, <1>5 DEF PruneOne
<1>10. \A i \in DOMAIN d : Archived(d[i]) \notin Slots
    BY <1>6, <1>8, <1>9
<1>11. PICK c : c = [call[t] EXCEPT !.doomed = d]
    OBVIOUS
<1>12. c.at = "roll" /\ c.logger = call[t].logger /\ c.doomed = d
    BY <1>1, <1>3, <1>11 DEF LogCalls, At
<1>13. call' = [call EXCEPT ![t] = c]
    BY <1>2, <1>9, <1>11 DEF Types, CallsOK
<1>14. PICK w : w = Writer(t)
    OBVIOUS
<1>15. SetWriter(t, w)
    BY <1>1, <1>2, <1>14, ActiveStays
<1>16. Proceeds(t) /\ call'[t] = c /\ active'[call[t].logger] = w
    BY <1>1, <1>2, <1>12, <1>13, <1>15, ProceedsIf
<1>17. Writer(t)' = w
    BY <1>12, <1>16 DEF Writer
<1>18. FilesKept
  <2>1. CASE n \in DOMAIN dir /\ dir' = Unlinked(n)
    <3>1. LinesIn(n) \cap owed' = {}
      <4> SUFFICES ASSUME NEW l \in LinesIn(n), l \in owed PROVE FALSE
          BY <1>1
      <4>1. n \in Bearers
          BY <2>1 DEF Bearers, Bears
      <4> QED
          BY <1>6, <1>8, <4>1 DEF Slots
    <3> QED
        BY <1>1, <1>2, <2>1, <3>1, UnlinkKeeps DEF Invariant
  <2>2. CASE dir' = dir
      BY <1>1, <1>2, <2>2, QuietKeeps DEF Invariant, disk
  <2> QED
      BY <1>9, <2>1, <2>2
<1>19. DOMAIN dir' \subseteq DOMAIN dir /\ \A k \in DOMAIN dir' : dir'[k] = dir[k]
    BY <1>9 DEF Unlinked, Restrict
<1>20. \A m \in Slots : m.seq <= w.name.seq /\ (m.seq = w.name.seq => m = Archived(w.name))
    BY <1>1, <1>7, <1>14 DEF KeptBy, Rotating, At
<1>21. KeptBy(t)'
    BY <1>10, <1>12, <1>16, <1>17, <1>18, <1>20 DEF KeptBy, At, Rotating, FilesKept
<1>22. overlap' \in BOOLEAN /\ overlap' = overlap
    BY <1>1 DEF Invariant, Alone1
<1>23. ASSUME ~overlap' PROVE KnownBy(t)' /\ OneCurrent' /\ TopCurrent'
  <2>1. KnownBy(t)
      BY <1>7, <1>22, <1>23
  <2>2. /\ Currents = {}
        /\ \A m \in DOMAIN dir : m.seq <= w.name.seq /\ (m.seq = w.name.seq => m = Archived(w.name))
      BY <1>1, <1>14, <2>1 DEF KnownBy, Rotating, At
  <2>3. Currents' = {}
      BY <1>19, <2>2 DEF Currents
  <2>4. KnownBy(t)'
      BY <1>12, <1>16, <1>17, <1>19, <2>2, <2>3 DEF KnownBy, At, Rotating
  <2> QED
      BY <2>3, <2>4 DEF OneCurrent, TopCurrent
<1>24. Clean(w) /\ Sound(w) /\ (~overlap => Known(w))
    BY <1>2, <1>14, HeldFacts
<1>25. Clean(w)'
    BY <1>18, <1>24, CleanStays DEF FilesKept
<1>26. ~overlap' => Known(w)' /\ Alone
    BY <1>1, <1>7, <1>19, <1>22, <1>24 DEF Known
<1> QED
    BY <1>16, <1>18, <1>21, <1>22, <1>23, <1>25, <1>26, Assemble

\* What a step of a call must see to when no other thread has a mutex.
LEMMA AssembleAlone ==
    ASSUME Invariant, Types', NEW t \in Threads, Proceeds(t), Alone, Ranked', LinesKept',
           KeptBy(t)', NEW w, active'[call[t].logger] = w, Clean(w)', overlap' \in BOOLEAN,
           ~overlap' => OneCurrent' /\ TopCurrent' /\ Known(w)' /\ KnownBy(t)'
    PROVE  Invariant'
<1>1. /\ Alone' /\ call[t].logger = session
      /\ \A u \in Threads \ {t} : ~Holding(u) /\ call'[u] = call[u]
      /\ InUse' \subseteq {session} /\ session' = session
    BY OthersStay DEF Invariant, Proceeds
<1>2. Alone1'
    BY <1>1 DEF Alone1
<1>3. \A u \in Threads \ {t} : KeptBy(u)' /\ KnownBy(u)'
    BY <1>1 DEF KeptBy, KnownBy, Holding, At, Rotating
<1>4. Keeps'
    BY <1>3 DEF Keeps
<1>5. NoOverwrite'
  <2>1. \A g \in InUse' : active'[g] = w
      BY <1>1
  <2> QED
      BY <2>1 DEF NoOverwrite, Clean
<1>6. SessionKnown' \/ overlap'
    BY <1>1 DEF SessionKnown, Known
<1>7. Calm'
    BY <1>3, <1>6 DEF Calm
<1> QED
    BY <1>2, <1>4, <1>5, <1>7 DEF Invariant

-----------------------------------------------------------------------------
\* WRITING

\* What a write does to the lines of the files: it adds the youngest line, and loses none
\* that is owed.
Wrote(w, l) ==
    /\ l \in Nat /\ l \notin owed
    /\ \A n \in DOMAIN dir : \A k \in LinesIn(n) : k \in Nat /\ k < l
    /\ \A k \in owed : k \in Nat /\ k < l
    /\ \A n \in DOMAIN dir : dir[n] # w.file => LinesIn(n)' = LinesIn(n)
    /\ \A n \in DOMAIN dir : LinesIn(n)' \subseteq LinesIn(n) \cup {l}
    /\ \A n \in DOMAIN dir : \A k \in LinesIn(n) : k \in owed => k \in LinesIn(n)'
    /\ \A n \in DOMAIN dir : dir[n] = w.file => l \in LinesIn(n)'
    /\ \A f \in DOMAIN data : \A i \in DOMAIN data'[f] :
          \/ f = w.file /\ i = PlaceOf(w) /\ data'[f][i] = l
          \/ i \in DOMAIN data[f] /\ data'[f][i] = data[f][i]
    /\ Len(data'[w.file]) \in {Len(data[w.file]), Len(data[w.file]) + 1}

\* What was owed is still in its file after a write, at its place.
LEMMA WrittenLines ==
    ASSUME Types, NEW w, w \in Writers, w # NoFile, Sound(w), Clean(w), NEW l, l = used.lines + 1,
           data' = [data EXCEPT ![w.file] = Put(@, w, l)], UNCHANGED dir
    PROVE  Wrote(w, l)
<1>1. /\ w.file \in DOMAIN data /\ (~w.append => w.pos <= Len(data[w.file]))
    BY DEF Sound
<1>2. PICK f, p : f = w.file /\ p = PlaceOf(w)
    OBVIOUS
<1>3. /\ DOMAIN data' = DOMAIN data
      /\ \A h \in DOMAIN data \ {f} : data'[h] = data[h]
      /\ DOMAIN data'[f] = DOMAIN data[f] \cup {p}
      /\ data'[f][p] = l
      /\ \A i \in DOMAIN data[f] \ {p} : data'[f][i] = data[f][i]
      /\ Len(data'[f]) \in {Len(data[f]), Len(data[f]) + 1}
  <2>1. data' = [data EXCEPT ![w.file] = Put(@, w, used.lines + 1)]
      OBVIOUS
  <2>2. /\ DOMAIN data' = DOMAIN data
        /\ \A h \in DOMAIN data \ {w.file} : data'[h] = data[h]
        /\ DOMAIN data'[w.file] = DOMAIN data[w.file] \cup {PlaceOf(w)}
        /\ data'[w.file][PlaceOf(w)] = used.lines + 1
        /\ \A i \in DOMAIN data[w.file] \ {PlaceOf(w)} : data'[w.file][i] = data[w.file][i]
        /\ Len(data'[w.file]) \in {Len(data[w.file]), Len(data[w.file]) + 1}
      BY <1>1, <2>1, WriteIs
  <2> QED
      BY <1>2, <2>2
<1>4. l \in Nat /\ l \notin owed /\ \A k \in 1..used.lines : k \in Nat /\ k < l
    BY DEF Types, DataOK, UsedOK, UsedType
<1>5. \A n \in DOMAIN dir : LinesIn(n) \subseteq 1..used.lines
    BY LinesAreFinite
<1>6. owed \subseteq 1..used.lines
    BY DEF Types, DataOK
<1>7. \A n \in DOMAIN dir : dir[n] \in DOMAIN data
    BY DEF Types, DirOK
<1>8. p \in DOMAIN data[f] => data[f][p] \notin owed
  <2>1. CASE w.append
    <3>1. data[f] \in Seq(Nat)
        BY <1>1, <1>2 DEF Types, DataOK
    <3>2. p \notin DOMAIN data[f]
        BY <1>2, <2>1, <3>1 DEF PlaceOf
    <3> QED
        BY <3>2
  <2>2. CASE ~w.append
    <3>1. p > w.pos
        BY <1>2, <2>2 DEF PlaceOf, Writers
    <3> QED
        BY <1>2, <2>2, <3>1 DEF Clean
  <2> QED
      BY <2>1, <2>2
<1>9. ASSUME NEW n \in DOMAIN dir, dir[n] # f PROVE LinesIn(n)' = LinesIn(n)
    BY <1>3, <1>7, <1>9 DEF LinesIn, Content
<1>10. ASSUME NEW n \in DOMAIN dir, dir[n] = f
       PROVE  /\ LinesIn(n)' \subseteq LinesIn(n) \cup {l} /\ l \in LinesIn(n)'
              /\ \A k \in LinesIn(n) : k \in owed => k \in LinesIn(n)'
  <2>1. LinesIn(n) = {data[f][i] : i \in DOMAIN data[f]}
      BY <1>10 DEF LinesIn, Content, Range
  <2>2. LinesIn(n)' = {data'[f][i] : i \in DOMAIN data'[f]}
      BY <1>10 DEF LinesIn, Content, Range
  <2>3. PICK old, new : old = data[f] /\ new = data'[f]
      OBVIOUS
  <2>4. /\ DOMAIN new = DOMAIN old \cup {p} /\ new[p] = l
        /\ \A i \in DOMAIN old \ {p} : new[i] = old[i]
        /\ p \in DOMAIN old => old[p] \notin owed
      BY <1>3, <1>8, <2>3
  <2>5. {new[i] : i \in DOMAIN new} \subseteq {old[i] : i \in DOMAIN old} \cup {l}
      BY <2>4
  <2>6. l \in {new[i] : i \in DOMAIN new}
      BY <2>4
  <2>7. \A k \in {old[i] : i \in DOMAIN old} : k \in owed => k \in {new[i] : i \in DOMAIN new}
      BY <2>4
  <2> QED
      BY <2>1, <2>2, <2>3, <2>5, <2>6, <2>7
<1>11. \A h \in DOMAIN data : \A i \in DOMAIN data'[h] :
         \/ h = f /\ i = p /\ data'[h][i] = l
         \/ i \in DOMAIN data[h] /\ data'[h][i] = data[h][i]
    BY <1>3
<1> QED
    BY <1>2, <1>3, <1>4, <1>5, <1>6, <1>9, <1>10, <1>11 DEF Wrote

\* The files are in order after a write, if one that is owed goes to the top.
LEMMA RankedWrites ==
    ASSUME Types, Ranked, LinesKept, NEW w, NEW l, Wrote(w, l), UNCHANGED dir,
           owed' = owed \/ owed' = owed \cup {l},
           owed' # owed => /\ w.name \in Currents /\ dir[w.name] = w.file
                           /\ OneCurrent /\ TopCurrent
    PROVE  Ranked' /\ LinesKept'
<1> USE DEF Wrote
<1>1. \A n \in DOMAIN dir : n \in Names /\ n.seq \in Nat
    BY NameFacts DEF Types, DirOK
<1>2. ASSUME owed' # owed, NEW b \in DOMAIN dir, l \in LinesIn(b)', NEW k \in DOMAIN dir, b # k
      PROVE  ~k.current /\ k.seq < b.seq
  <2>1. dir[b] = w.file
      BY <1>2
  <2>2. b = w.name
      BY <1>2, <2>1 DEF Types, DirOK, Currents
  <2>3. k \in Archives
      BY <1>2, <2>2 DEF OneCurrent, Archives
  <2> QED
      BY <1>2, <2>2, <2>3 DEF TopCurrent, Archives, Currents
<1>3. Ranked'
  <2> SUFFICES ASSUME NEW b \in Bearers', NEW k \in DOMAIN dir', b # k
               PROVE  /\ b.seq # k.seq
                      /\ k.current => b.seq < k.seq
                      /\ b.seq < k.seq =>
                           \A x \in LinesIn(b)', y \in LinesIn(k)' : x \in owed' => x < y
      BY DEF Ranked
  <2>1. b \in DOMAIN dir /\ k \in DOMAIN dir /\ \E x \in LinesIn(b)' : x \in owed'
      BY DEF Bearers, Bears
  <2>2. CASE l \in LinesIn(b)' /\ owed' # owed
    <3>1. ~k.current /\ k.seq < b.seq
        BY <1>2, <2>1, <2>2
    <3> QED
        BY <1>1, <2>1, <3>1
  <2>3. CASE ~(l \in LinesIn(b)' /\ owed' # owed)
    <3>1. \A x \in LinesIn(b)' : x \in owed' => x \in LinesIn(b) /\ x \in owed
        BY <2>1, <2>3
    <3>2. b \in Bearers
        BY <2>1, <3>1 DEF Bearers, Bears
    <3>3. /\ b.seq # k.seq
          /\ k.current => b.seq < k.seq
          /\ b.seq < k.seq => \A x \in LinesIn(b), y \in LinesIn(k) : x \in owed => x < y
        BY <2>1, <3>2 DEF Ranked
    <3>4. \A y \in LinesIn(k)' : y \in LinesIn(k) \/ y = l
        BY <2>1
    <3> QED
        BY <3>1, <3>3, <3>4
  <2> QED
      BY <2>2, <2>3
<1>4. LinesKept'
  <2> SUFFICES ASSUME NEW x \in owed' PROVE \E k \in DOMAIN dir : x \in LinesIn(k)'
      BY DEF LinesKept, OnDisk
  <2>1. CASE x \in owed
    <3>1. PICK k \in DOMAIN dir : x \in LinesIn(k)
        BY <2>1 DEF LinesKept, OnDisk
    <3> QED
        BY <2>1, <3>1
  <2>2. CASE x \notin owed
    <3>1. x = l /\ owed' # owed
        BY <2>2
    <3> QED
        BY <3>1 DEF Currents
  <2> QED
      BY <2>1, <2>2
<1> QED
    BY <1>3, <1>4

\* What a line that reaches the disk leaves of the order of the files, and of what its Logger
\* knows: it is younger than all others; when it is owed its file is the only current file,
\* above the archives, and no line that is owed was where it went.
LEMMA LineLands ==
    ASSUME Invariant, NEW w \in Writers, w # NoFile, Sound(w), Clean(w),
           NEW l, l = used.lines + 1, data' = [data EXCEPT ![w.file] = Put(@, w, l)],
           UNCHANGED <<dir, overlap>>,
           NEW v \in Writers, v.name = w.name, v.file = w.file, v.append = w.append,
           ~w.append => v.pos = w.pos + 1, v.index + w.ram >= w.index + v.ram + 1,
           ~overlap => Known(w) /\ OneCurrent /\ TopCurrent,
           owed' = owed \/ owed' = owed \cup {l},
           owed' # owed => ~overlap /\ w.name \in DOMAIN dir
    PROVE  /\ Ranked' /\ LinesKept' /\ Clean(v)'
           /\ owed' = owed => FilesKept
           /\ ~overlap' => OneCurrent' /\ TopCurrent' /\ Known(v)'
<1>1. /\ Types /\ w.file \in DOMAIN data /\ w.pos \in Nat /\ w.index \in Nat /\ w.ram \in Nat
      /\ v.index \in Nat /\ v.ram \in Nat /\ w.name.current
    BY WriterParts DEF Invariant, Sound
<1>2. Wrote(w, l)
    BY <1>1, WrittenLines
<1>3. owed' # owed => /\ w.name \in Currents /\ dir[w.name] = w.file
                      /\ OneCurrent /\ TopCurrent
    BY <1>1 DEF Known, Currents
<1>4. Ranked' /\ LinesKept'
    BY <1>1, <1>2, <1>3, RankedWrites DEF Invariant
<1>5. Clean(v)'
  <2> SUFFICES ASSUME ~v.append, NEW i \in DOMAIN data'[v.file], i > v.pos
               PROVE  data'[v.file][i] \notin owed'
      BY DEF Clean
  <2>1. ~w.append /\ i \in DOMAIN data'[w.file] /\ i > w.pos + 1
      OBVIOUS
  <2>2. i # PlaceOf(w)
      BY <1>1, <2>1 DEF PlaceOf
  <2>3. i \in DOMAIN data[w.file] /\ data'[w.file][i] = data[w.file][i]
      BY <1>1, <1>2, <2>1, <2>2 DEF Wrote
  <2>4. data[w.file] \in Seq(Nat)
      BY <1>1 DEF Types, DataOK
  <2>5. i \in Nat /\ i > w.pos
    <3>1. i \in Nat
        BY <2>3, <2>4
    <3>2. w.pos \in Nat
        BY <1>1
    <3> QED
        BY ONLY <2>1, <3>1, <3>2
  <2>6. data[w.file][i] \notin owed
      BY <2>1, <2>3, <2>5 DEF Clean
  <2>7. data[w.file][i] # l
    <3>1. data[w.file][i] \in 1..used.lines
        BY <1>1, <2>3 DEF Types, DataOK
    <3>2. PICK k \in Nat : k = used.lines
        BY <1>1 DEF Types, UsedOK, UsedType
    <3>3. PICK x \in 1..k : x = data[w.file][i]
        BY <3>1, <3>2
    <3> QED
        BY <3>2, <3>3
  <2> QED
      BY <2>3, <2>6, <2>7
<1>6. ~overlap' => OneCurrent' /\ TopCurrent'
    BY DEF OneCurrent, TopCurrent, Currents, Archives
<1>7. ASSUME ~overlap' PROVE Known(v)'
  <2> SUFFICES ASSUME w.name \in DOMAIN dir
               PROVE  dir[w.name] = w.file /\ v.index >= Len(data'[w.file]) + v.ram
      BY DEF Known
  <2>1. dir[w.name] = w.file /\ w.index >= Len(data[w.file]) + w.ram
      BY <1>7 DEF Known
  <2>2. Len(data'[w.file]) \in {Len(data[w.file]), Len(data[w.file]) + 1}
      BY <1>2 DEF Wrote
  <2>3. PICK k \in Nat : k = Len(data[w.file])
      BY <1>1 DEF Types, DataOK
  <2>4. PICK m \in {k, k + 1} : m = Len(data'[w.file])
      BY <2>2, <2>3
  <2>5. v.index >= m + v.ram
      BY <1>1, <2>1, <2>3
  <2> QED
      BY <2>1, <2>4, <2>5
<1>8. ASSUME owed' = owed PROVE FilesKept
  <2>1. l \notin owed'
      BY <1>2, <1>8 DEF Wrote
  <2>2. Bearers' \subseteq Bearers
    <3> SUFFICES ASSUME NEW b \in Bearers' PROVE b \in Bearers
        OBVIOUS
    <3>1. b \in DOMAIN dir /\ \E x \in LinesIn(b)' : x \in owed'
        BY DEF Bearers, Bears
    <3>2. LinesIn(b)' \subseteq LinesIn(b) \cup {l}
        BY <1>2, <3>1 DEF Wrote
    <3> QED
        BY <1>8, <2>1, <3>1, <3>2 DEF Bearers, Bears
  <2>3. Slots' \subseteq Slots
      BY <2>2 DEF Slots, Archived
  <2>4. Steady
      BY <1>2, <1>8, <2>1 DEF Wrote, Steady
  <2> QED
      BY <1>4, <2>3, <2>4 DEF FilesKept
<1> QED
    BY <1>4, <1>5, <1>6, <1>7, <1>8

\* The line is written when the Logger has nothing else to write (write_line_locked).
LEMMA WriteKeeps == ASSUME Invariant, Types', NEW t \in Threads, Write(t) PROVE Invariant'
<1>1. /\ At(t, {"write"}) /\ Return(t)
      /\ UNCHANGED <<dir, session, config, second, overlap>>
    BY DEF Write
<1>2. Holding(t) /\ Busy(t) /\ Types
    BY <1>1 DEF Holding, Busy, At, Invariant
<1>3. PICK w, l : w = Writer(t) /\ l = used.lines + 1
    OBVIOUS
<1>4. w # NoFile
    BY <1>1, <1>2, <1>3, Held DEF At, Fits
<1>5. w \in Writers /\ Sound(w)
    BY <1>2, <1>3, <1>4, Held
<1>6. /\ Clean(w)
      /\ ~overlap => /\ Alone /\ Known(w) /\ KnownBy(t) /\ OneCurrent /\ TopCurrent
    BY <1>2, <1>3, HeldFacts
<1>7. data' = [data EXCEPT ![w.file] = Put(@, w, l)]
    BY <1>3 DEF Write, OnDiskFrom, NewLine
<1>8. PICK v : v = [w EXCEPT !.index = @ + 1, !.pos = NextPos(w)]
    OBVIOUS
<1>9. /\ v \in Writers /\ v.name = w.name /\ v.file = w.file /\ v.append = w.append
      /\ v.index = w.index + 1 /\ v.ram = w.ram
      /\ ~w.append => v.pos = w.pos + 1
    BY <1>5, <1>8, Written
<1>10. SetWriter(t, v)
    BY <1>3, <1>8 DEF Write
<1>11. PICK c : c = IF call[t].install THEN Logging(call[t].logger, FALSE) ELSE Idle
    OBVIOUS
<1>12. (c = Idle \/ c.logger = call[t].logger) /\ c.at \in {"idle", "lock"}
    BY <1>11 DEF Logging, Idle
<1>13. call' = [call EXCEPT ![t] = c]
    BY <1>1, <1>11 DEF Return
<1>14. Proceeds(t) /\ call'[t] = c /\ active'[call[t].logger] = v
    BY <1>1, <1>2, <1>10, <1>12, <1>13, ProceedsIf
<1>15. KeptBy(t)' /\ KnownBy(t)'
    BY <1>12, <1>14, Unbound
<1>16. owed' = IF overlap \/ call[t].crossed THEN owed ELSE owed \cup {l}
    BY <1>3 DEF Write, NewLine
<1>17. owed' # owed => ~overlap /\ w.name \in DOMAIN dir
    BY <1>1, <1>3, <1>6, <1>16 DEF KnownBy
<1>18. v.index + w.ram >= w.index + v.ram + 1
  <2>1. w.index \in Nat /\ w.ram \in Nat
      BY <1>5, WriterParts
  <2> QED
      BY <1>9, <2>1
<1>19. /\ Ranked' /\ LinesKept' /\ Clean(v)'
       /\ owed' = owed => FilesKept
       /\ ~overlap' => OneCurrent' /\ TopCurrent' /\ Known(v)'
  <2>1. ~overlap => Known(w) /\ OneCurrent /\ TopCurrent
      BY <1>6
  <2>2. owed' = owed \/ owed' = owed \cup {l}
      BY <1>16
  <2>3. UNCHANGED <<dir, overlap>> /\ Clean(w)
      BY <1>1, <1>6
  <2> QED
      BY <1>3, <1>4, <1>5, <1>7, <1>9, <1>17, <1>18, <2>1, <2>2, <2>3, LineLands
<1>20. overlap' \in BOOLEAN /\ overlap' = overlap
    BY <1>1 DEF Invariant, Alone1
<1>21. CASE owed' = owed
    BY <1>6, <1>14, <1>15, <1>19, <1>20, <1>21, Assemble
<1>22. CASE owed' # owed
    BY <1>6, <1>14, <1>15, <1>17, <1>19, <1>20, <1>22, AssembleAlone
<1> QED
    BY <1>21, <1>22

\* A call that returns without a line on disk, its file counted one line longer.
LEMMA CountedKeeps ==
    ASSUME Invariant, Types', NEW t \in Threads, At(t, {"write"}), Return(t),
           NEW v, SetWriter(t, v), v.name = Writer(t).name, v.file = Writer(t).file,
           v.append = Writer(t).append, v.pos = Writer(t).pos, v # NoFile,
           v.index = Writer(t).index + 1, v.ram \in {Writer(t).ram, Writer(t).ram + 1},
           UNCHANGED <<disk, session, owed, overlap>>
    PROVE  Invariant'
<1>1. Holding(t) /\ Busy(t) /\ Types
    BY DEF Holding, Busy, At, Invariant
<1>2. PICK w : w = Writer(t)
    OBVIOUS
<1>3. w # NoFile
    BY <1>1, <1>2, Held DEF At, Fits
<1>4. w \in Writers /\ Sound(w) /\ w.index \in Nat /\ w.ram \in Nat
    BY <1>1, <1>2, <1>3, Held, WriterParts
<1>5. PICK c : c = IF call[t].install THEN Logging(call[t].logger, FALSE) ELSE Idle
    OBVIOUS
<1>6. (c = Idle \/ c.logger = call[t].logger) /\ c.at \in {"idle", "lock"}
    BY <1>5 DEF Logging, Idle
<1>7. call' = [call EXCEPT ![t] = c]
    BY <1>5 DEF Return
<1>8. Proceeds(t) /\ call'[t] = c /\ active'[call[t].logger] = v
    BY <1>1, <1>6, <1>7, ProceedsIf
<1>9. KeptBy(t)' /\ KnownBy(t)'
    BY <1>6, <1>8, Unbound
<1>10. FilesKept
    BY <1>1, QuietKeeps DEF Invariant
<1>11. Clean(w) /\ (~overlap => Alone /\ Known(w))
    BY <1>1, <1>2, HeldFacts
<1>12. Clean(w)'
    BY <1>4, <1>10, <1>11, CleanStays DEF FilesKept
<1>13. Clean(v)'
    BY <1>2, <1>3, <1>12 DEF Clean
<1>14. overlap' \in BOOLEAN /\ overlap' = overlap
    BY DEF Invariant, Alone1
<1>15. ASSUME ~overlap' PROVE Known(v)'
  <2> SUFFICES ASSUME w.name \in DOMAIN dir
               PROVE  dir[w.name] = w.file /\ v.index >= Len(data[w.file]) + v.ram
      BY <1>2 DEF Known, disk
  <2>1. dir[w.name] = w.file /\ w.index >= Len(data[w.file]) + w.ram
      BY <1>3, <1>11, <1>14, <1>15 DEF Known
  <2>2. PICK k \in Nat : k = Len(data[w.file])
      BY <1>1, <1>3, <1>4 DEF Sound, Types, DataOK
  <2>3. PICK m \in {w.ram, w.ram + 1} : m = v.ram
      BY <1>2
  <2>4. w.index + 1 >= k + m
      BY <1>4, <2>1, <2>2
  <2> QED
      BY <1>2, <2>1, <2>2, <2>3, <2>4
<1>16. ~overlap' => OneCurrent' /\ TopCurrent'
    BY <1>14, CalmFiles DEF Invariant
<1> QED
    BY <1>8, <1>9, <1>10, <1>11, <1>13, <1>14, <1>15, <1>16, Assemble

\* The line is left in the buffer, and counted (write_line_locked).
LEMMA WriteUnflushedKeeps ==
    ASSUME Invariant, Types', NEW t \in Threads, WriteUnflushed(t)
    PROVE  Invariant'
<1>1. /\ At(t, {"write"}) /\ Return(t)
      /\ SetWriter(t, [Writer(t) EXCEPT !.index = @ + 1, !.ram = @ + 1])
      /\ UNCHANGED <<disk, session, owed, overlap>>
    BY DEF WriteUnflushed
<1>2. Writer(t) # NoFile
    BY <1>1, Held DEF Busy, At, Fits, Invariant
<1>3. PICK w : w = Writer(t) /\ w \in Writers
    BY <1>1, <1>2, Held DEF Busy, At, Invariant
<1>4. PICK v : v = [w EXCEPT !.index = @ + 1, !.ram = @ + 1]
    OBVIOUS
<1>5. /\ v # NoFile /\ v.name = w.name /\ v.file = w.file /\ v.append = w.append
      /\ v.pos = w.pos /\ v.index = w.index + 1 /\ v.ram = w.ram + 1
  <2>1. w \in Writers
      BY <1>3
  <2> QED
      BY ONLY <2>1, <1>4, Unflushed
<1>6. SetWriter(t, v)
    BY <1>1, <1>3, <1>4
<1> QED
    BY <1>1, <1>3, <1>5, <1>6, CountedKeeps

\* A line is flushed later: the threads stay where they are, and none of those that have the
\* mutex of its Logger is between two files (write_line_locked).
LEMMA FlushKeeps == ASSUME Invariant, Types', NEW g \in Loggers, Flush(g) PROVE Invariant'
<1>1. PICK w \in Writers, v \in Writers :
              /\ w = active[g] /\ w # NoFile
              /\ Sound(w) /\ w.index \in Nat /\ w.ram \in Nat /\ w.ram # 0
              /\ data' = [data EXCEPT ![w.file] = Put(@, w, used.lines + 1)]
              /\ active' = [active EXCEPT ![g] = v]
              /\ v # NoFile /\ v.name = w.name /\ v.file = w.file /\ v.append = w.append
              /\ v.index = w.index /\ v.ram = w.ram - 1
              /\ ~w.append => v.pos = w.pos + 1
              /\ owed' = IF overlap \/ ~Linked(w) THEN owed ELSE owed \cup {used.lines + 1}
              /\ UNCHANGED <<dir, session, call, overlap>>
    BY FlushIs DEF Invariant
<1>2. PICK l : l = used.lines + 1
    OBVIOUS
<1>3. g \in InUse /\ (Alone => g = session)
    BY DEF Flush, InUse, Alone, Superseded, Busy
<1>4. Clean(w) /\ (~overlap => Alone /\ Known(w) /\ OneCurrent /\ TopCurrent)
  <2>1. session # 0 \/ g # session
      BY DEF Loggers
  <2> QED
      BY <1>1, <1>3, <2>1 DEF Invariant, NoOverwrite, Alone1, Calm, SessionKnown
<1>5. owed' # owed => ~overlap /\ w.name \in DOMAIN dir
    BY <1>1 DEF Linked
<1>6. /\ Ranked' /\ LinesKept' /\ Clean(v)'
      /\ owed' = owed => FilesKept
      /\ ~overlap' => OneCurrent' /\ TopCurrent' /\ Known(v)'
  <2>1. v.index + w.ram >= w.index + v.ram + 1
      BY <1>1
  <2>2. data' = [data EXCEPT ![w.file] = Put(@, w, l)] /\ UNCHANGED <<dir, overlap>>
      BY <1>1, <1>2
  <2>3. owed' = owed \/ owed' = owed \cup {l}
      BY <1>1, <1>2
  <2>4. ~overlap => Known(w) /\ OneCurrent /\ TopCurrent
      BY <1>4
  <2>5. /\ w # NoFile /\ Sound(w) /\ Clean(w)
        /\ v.name = w.name /\ v.file = w.file /\ v.append = w.append
        /\ ~w.append => v.pos = w.pos + 1
      BY <1>1, <1>4
  <2> QED
      BY ONLY Invariant, w \in Writers, v \in Writers, <1>2, <1>5, <2>1, <2>2, <2>3, <2>4, <2>5,
         LineLands
<1>7. /\ active'[g] = v /\ \A h \in Loggers \ {g} : active'[h] = active[h]
      /\ Types
    BY <1>1 DEF Invariant, Types, WritersOK
<1>8. ASSUME NEW u \in Threads, Busy(u), call[u].logger = g
      PROVE  ~At(u, {"open", "create", "prune", "roll", "rollback"})
    BY <1>1, <1>7, <1>8, Held DEF Fits, At, Writer
<1>9. ASSUME NEW u \in Threads, Busy(u), call[u].logger # g PROVE Writer(u)' = Writer(u)
    BY <1>1, <1>7, <1>9, Held DEF Writer
<1>10. Alone => \A u \in Threads : Busy(u) => call[u].logger = g
    BY <1>3 DEF Alone, Superseded, Busy
<1>11. call' = call /\ session' = session /\ dir' = dir /\ overlap' = overlap
    BY <1>1
<1>12. Keeps'
  <2> SUFFICES ASSUME NEW u \in Threads PROVE KeptBy(u)'
      BY DEF Keeps
  <2>1. CASE ~At(u, {"create", "prune", "roll", "rollback"})
      BY <1>11, <2>1 DEF KeptBy, Rotating, At
  <2>2. CASE At(u, {"create", "prune", "roll", "rollback"})
    <3>1. Busy(u)
        BY <2>2 DEF Busy, At
    <3>2. call[u].logger # g
        BY <1>8, <2>2, <3>1 DEF At
    <3>3. Writer(u)' = Writer(u)
        BY <1>9, <3>1, <3>2
    <3>4. owed' = owed
        BY <1>4, <1>5, <1>10, <3>1, <3>2
    <3>5. Slots' \subseteq Slots /\ KeptBy(u)
        BY <1>6, <3>4 DEF FilesKept, Invariant, Keeps
    <3> QED
        BY <1>11, <3>3, <3>5, ThreadStays
  <2> QED
      BY <2>1, <2>2
<1>13. NoOverwrite'
  <2> SUFFICES ASSUME NEW h \in InUse' PROVE Clean(active[h])'
      BY DEF NoOverwrite
  <2>1. h \in InUse /\ h \in Loggers
      BY <1>11 DEF InUse, Busy, At
  <2>2. CASE h = g
      BY <1>6, <1>7, <2>2 DEF Clean
  <2>3. CASE h # g
    <3>1. ~Alone
        BY <1>3, <1>10, <2>1, <2>3 DEF InUse
    <3>2. FilesKept
        BY <1>4, <1>5, <1>6, <3>1
    <3>3. PICK x : x = active[h]
        OBVIOUS
    <3>4. Clean(x) /\ Sound(x) /\ active'[h] = x
        BY <1>7, <2>1, <2>3, <3>3, ActiveSound DEF Invariant, NoOverwrite
    <3>5. Clean(x)'
        BY <3>2, <3>4, CleanStays DEF FilesKept
    <3> QED
        BY <3>4, <3>5 DEF Clean
  <2> QED
      BY <2>2, <2>3
<1>14. Alone1'
    BY <1>11 DEF Invariant, Alone1, Alone, Superseded, At
<1>15. Calm'
  <2> SUFFICES ASSUME ~overlap PROVE SessionKnown' /\ \A u \in Threads : KnownBy(u)'
      BY <1>6, <1>11 DEF Calm
  <2>1. Alone /\ g = session
      BY <1>3, <1>4
  <2>2. SessionKnown'
      BY <1>6, <1>7, <1>11, <2>1 DEF SessionKnown, Known
  <2>3. ASSUME NEW u \in Threads PROVE KnownBy(u)'
    <3>1. ~At(u, {"create", "prune", "roll", "rollback"})
        BY <1>8, <1>10, <2>1 DEF Busy, At
    <3>2. KnownBy(u)
        BY DEF Invariant, Calm
    <3>3. CASE At(u, {"write"})
      <4>1. Busy(u)
          BY <3>3 DEF Busy, At
      <4>2. call[u].logger = g
          BY <1>10, <2>1, <4>1
      <4>3. Writer(u) = w /\ Writer(u)' = v
          BY <1>1, <1>7, <1>11, <4>2 DEF Writer
      <4> QED
          BY <1>1, <1>11, <3>1, <3>2, <4>3 DEF KnownBy, Rotating, At
    <3>4. CASE ~At(u, {"write"})
        BY <1>11, <3>1, <3>4 DEF KnownBy, Rotating, At
    <3> QED
        BY <3>3, <3>4
  <2> QED
      BY <2>2, <2>3
<1> QED
    BY <1>6, <1>12, <1>13, <1>14, <1>15 DEF Invariant

-----------------------------------------------------------------------------
\* CALLS, CRASHES AND NEW LOGGERS

\* A step beside the files: a thread waits for a mutex, or ends a call without one.
LEMMA Beside ==
    ASSUME Invariant, Types', UNCHANGED <<disk, session, active, overlap, owed>>,
           \A u \in Threads : \/ call'[u] = call[u]
                              \/ call'[u].at \in {"idle", "remove"}
                              \/ call'[u].at = "lock" /\ call'[u].logger = session
    PROVE  Invariant'
<1>1. FilesKept
    BY QuietKeeps DEF Invariant
<1>2. overlap' \in BOOLEAN /\ overlap' = overlap /\ session' = session /\ active' = active
    BY DEF Invariant, Alone1
<1>3. \A u \in Threads : call'[u] = call[u] \/ ~Holding(u)'
    BY DEF Holding, At
<1>4. \A u \in Threads : ~Holding(u)' => KeptBy(u)' /\ KnownBy(u)'
    BY DEF Holding, At, KeptBy, KnownBy, Rotating
<1>5. Keeps'
  <2> SUFFICES ASSUME NEW u \in Threads PROVE KeptBy(u)'
      BY DEF Keeps
  <2>1. CASE call'[u] = call[u]
    <3>1. Writer(u)' = Writer(u)
        BY <1>2, <2>1 DEF Writer
    <3> QED
        BY <1>1, <2>1, <3>1, ThreadStays DEF FilesKept, Invariant, Keeps
  <2>2. CASE ~Holding(u)'
      BY <1>4, <2>2
  <2> QED
      BY <1>3, <2>1, <2>2
<1>6. InUse' \subseteq InUse
    BY <1>2 DEF InUse, Busy, At
<1>7. NoOverwrite'
  <2> SUFFICES ASSUME NEW g \in InUse' PROVE Clean(active[g])'
      BY DEF NoOverwrite
  <2>1. PICK v : v = active[g]
      OBVIOUS
  <2>2. Clean(v) /\ Sound(v)
      BY <1>6, <2>1, ActiveSound DEF Invariant, NoOverwrite, InUse
  <2>3. Clean(v)'
      BY <1>1, <2>2, CleanStays DEF FilesKept
  <2> QED
      BY <1>2, <2>1, <2>3 DEF Clean
<1>8. Alone => Alone'
    BY <1>2 DEF Alone, Superseded, At
<1>9. Alone1'
    BY <1>2, <1>8 DEF Alone1, Invariant
<1>10. Calm'
  <2> SUFFICES ASSUME ~overlap
               PROVE  OneCurrent' /\ TopCurrent' /\ SessionKnown' /\ \A u \in Threads : KnownBy(u)'
      BY <1>2 DEF Calm
  <2>1. OneCurrent' /\ TopCurrent' /\ Currents' = Currents /\ dir' = dir
      BY CalmFiles DEF Invariant, disk
  <2>2. SessionKnown'
    <3>1. dir' = dir /\ data' = data
        BY DEF disk
    <3>2. SessionKnown
        BY DEF Invariant, Calm
    <3> QED
        BY <1>2, <3>1, <3>2 DEF SessionKnown, Known
  <2>3. ASSUME NEW u \in Threads PROVE KnownBy(u)'
    <3>1. CASE call'[u] = call[u]
      <4>1. Writer(u)' = Writer(u) /\ KnownBy(u)
          BY <1>2, <3>1 DEF Writer, Invariant, Calm
      <4> QED
          BY <2>1, <3>1, <4>1 DEF KnownBy, At, Rotating
    <3>2. CASE ~Holding(u)'
        BY <1>4, <3>2
    <3> QED
        BY <1>3, <3>1, <3>2
  <2> QED
      BY <2>1, <2>2, <2>3
<1> QED
    BY <1>1, <1>5, <1>7, <1>9, <1>10 DEF Invariant, FilesKept

\* A step after which no Logger has a file and no thread a mutex.
LEMMA Afresh ==
    ASSUME Invariant, Types', UNCHANGED <<disk, owed>>,
           active' = [g \in Loggers |-> NoFile],
           \A u \in Threads : \/ call'[u].at \in {"idle", "remove"}
                              \/ call'[u].at = "lock" /\ call'[u].logger = session',
           overlap' = overlap
    PROVE  Invariant'
<1>1. FilesKept
    BY QuietKeeps DEF Invariant
<1>2. overlap' \in BOOLEAN
    BY DEF Invariant, Alone1
<1>3. \A u \in Threads : KeptBy(u)' /\ KnownBy(u)'
    BY DEF At, KeptBy, KnownBy, Rotating
<1>4. NoOverwrite'
    BY DEF NoOverwrite, Clean, InUse
<1>5. Alone'
    BY DEF Alone, Superseded, At
<1>6. session' # 0 => session' \in Loggers
    BY DEF Types, SettingsOK, Loggers
<1>7. SessionKnown'
    BY <1>6 DEF SessionKnown, Known
<1>8. ~overlap' => OneCurrent' /\ TopCurrent'
    BY CalmFiles DEF Invariant
<1> QED
    BY <1>1, <1>2, <1>3, <1>4, <1>5, <1>7, <1>8
       DEF Invariant, FilesKept, Keeps, Alone1, Calm

\* A call begins, with the Logger of the session (ensure_logging_session).
LEMMA LogKeeps == ASSUME Invariant, Types', NEW t \in Threads, Log(t) PROVE Invariant'
<1>1. /\ call' = [call EXCEPT ![t] = Logging(session, FALSE)]
      /\ UNCHANGED <<disk, session, active, overlap, owed>>
    BY DEF Log
<1>2. \A u \in Threads : \/ call'[u] = call[u]
                         \/ call'[u].at = "lock" /\ call'[u].logger = session
    BY <1>1 DEF Logging, Invariant, Types, CallsOK
<1> QED
    BY <1>1, <1>2, Beside

\* A second passes.
LEMMA TickKeeps == ASSUME Invariant, Types', Tick PROVE Invariant'
BY Beside DEF Tick, process

\* A crash leaves the files as they are, and no call that could do them harm.
LEMMA CrashKeeps == ASSUME Invariant, Types', Crash PROVE Invariant'
<1>1. /\ active' = [g \in Loggers |-> NoFile] /\ call' = [t \in Threads |-> Idle]
      /\ UNCHANGED <<disk, owed>> /\ overlap' = overlap
    BY DEF Crash
<1>2. \A u \in Threads : call'[u].at = "idle"
    BY <1>1 DEF Idle
<1> QED
    BY <1>1, <1>2, Afresh

\* A Logger takes the place of the one before. When a thread is still in a call, the Logger it
\* has stays at work and an overlap begins; otherwise its file is let go of.
LEMMA InstallKeeps == ASSUME Invariant, Types', NEW t \in Threads, Install(t) PROVE Invariant'
<1>1. /\ At(t, {"idle"}) /\ session < MaxLoggers /\ session' = session + 1
      /\ call' = [call EXCEPT ![t] = Logging(session', session # 0)]
      /\ Use("calls") /\ UNCHANGED <<disk, second, owed>>
    BY DEF Install
<1>2. PICK late \in BOOLEAN :
        /\ late <=> \E u \in Threads : ~At(u, {"idle", "remove"})
        /\ active' = [g \in Loggers |-> IF late THEN active[g] ELSE NoFile]
        /\ overlap' = (overlap \/ late)
    BY DEF Install
<1>3. call'[t] = Logging(session', session # 0) /\ \A u \in Threads : u # t => call'[u] = call[u]
    BY <1>1 DEF Invariant, Types, CallsOK
<1>4. call'[t].at = "lock" /\ call'[t].logger = session'
    BY <1>3 DEF Logging
<1>5. overlap \in BOOLEAN
    BY DEF Invariant, Alone1
<1>6. CASE ~late
  <2>1. \A u \in Threads : \/ call'[u].at \in {"idle", "remove"}
                           \/ call'[u].at = "lock" /\ call'[u].logger = session'
      BY <1>2, <1>3, <1>4, <1>6 DEF At
  <2>2. active' = [g \in Loggers |-> NoFile] /\ overlap' = overlap
      BY <1>2, <1>5, <1>6
  <2> QED
      BY <1>1, <2>1, <2>2, Afresh
<1>7. CASE late
  <2>1. FilesKept
      BY <1>1, QuietKeeps DEF Invariant
  <2>2. overlap' = TRUE
      BY <1>2, <1>7
  <2>3. active' = active
      BY <1>2, <1>7 DEF Invariant, Types, WritersOK
  <2>4. Keeps'
    <3> SUFFICES ASSUME NEW u \in Threads PROVE KeptBy(u)'
        BY DEF Keeps
    <3>1. CASE u = t
        BY <1>4, <3>1, Unbound
    <3>2. CASE u # t
      <4>1. call'[u] = call[u] /\ Writer(u)' = Writer(u)
          BY <1>3, <2>3, <3>2 DEF Writer
      <4> QED
          BY <2>1, <4>1, ThreadStays DEF FilesKept, Invariant, Keeps
    <3> QED
        BY <3>1, <3>2
  <2>5. NoOverwrite'
    <3> SUFFICES ASSUME NEW g \in InUse' PROVE Clean(active[g])'
        BY DEF NoOverwrite
    <3>1. g \in Loggers /\ session \in Nat
        BY DEF InUse, Invariant, Types, SettingsOK
    <3>2. CASE g = session'
      <4>1. ~(g <= session)
          BY <1>1, <3>1, <3>2
      <4>2. active[g] = NoFile
          BY <3>1, <4>1 DEF Invariant, Types, WritersOK
      <4> QED
          BY <2>3, <4>2 DEF Clean
    <3>3. CASE g # session'
      <4>1. PICK u \in Threads : Busy(u)' /\ call'[u].logger = g
          BY <3>3 DEF InUse
      <4>2. u # t
          BY <1>4, <3>3, <4>1
      <4>3. Busy(u) /\ call[u].logger = g
          BY <1>3, <4>1, <4>2 DEF Busy, At
      <4>4. g \in InUse
          BY <3>1, <4>3 DEF InUse
      <4>5. PICK v : v = active[g]
          OBVIOUS
      <4>6. Clean(v) /\ Sound(v)
          BY <3>1, <4>4, <4>5, ActiveSound DEF Invariant, NoOverwrite
      <4>7. Clean(v)'
          BY <2>1, <4>6, CleanStays DEF FilesKept
      <4> QED
          BY <2>3, <4>5, <4>7 DEF Clean
    <3> QED
        BY <3>2, <3>3
  <2>6. Alone1' /\ Calm'
      BY <2>2 DEF Alone1, Calm
  <2> QED
      BY <2>1, <2>4, <2>5, <2>6 DEF Invariant, FilesKept
<1> QED
    BY <1>6, <1>7

-----------------------------------------------------------------------------
\* FAILURES AND DELETES

\* A failed operation lets go of the file, or gives up pruning, or tries to write once more on a
\* file opened again.
LEMMA FailKeeps == ASSUME Invariant, Types', NEW t \in Threads, Fail(t) PROVE Invariant'
<1>1. UNCHANGED <<disk, session, config, second, owed, overlap>>
    BY DEF Fail
<1>2. Types
    BY DEF Invariant
<1>3. FilesKept
    BY <1>1, <1>2, QuietKeeps DEF Invariant
<1>4. overlap' \in BOOLEAN /\ overlap' = overlap
    BY <1>1 DEF Invariant, Alone1
<1>5. ~overlap' => Alone /\ OneCurrent' /\ TopCurrent' /\ Currents' = Currents
    BY <1>1, <1>4, CalmFiles DEF Invariant, Alone1
<1>6. CASE At(t, {"open", "create", "rotate", "rollback"}) /\ Drop(t)
  <2>1. Holding(t)
      BY <1>6 DEF Holding, At
  <2> QED
      BY <1>1, <1>6, <2>1, DropKeeps
<1>7. CASE At(t, {"remove"}) /\ call' = [call EXCEPT ![t] = Idle] /\ UNCHANGED active
  <2>1. \A u \in Threads : call'[u] = call[u] \/ call'[u].at = "idle"
      BY <1>2, <1>7 DEF Idle, Types, CallsOK
  <2> QED
      BY <1>1, <1>7, <2>1, Beside
<1>8. ASSUME At(t, {"roll"}), NEW c, call' = [call EXCEPT ![t] = c], UNCHANGED active,
             c.logger = call[t].logger, c.at \in {"roll", "rollback"},
             c.at = "roll" => c.doomed = <<>>
      PROVE  Invariant'
  <2>1. Holding(t) /\ Busy(t)
      BY <1>8 DEF Holding, Busy, At
  <2>2. PICK w : w = Writer(t)
      OBVIOUS
  <2>3. SetWriter(t, w)
      BY <1>2, <1>8, <2>1, <2>2, ActiveStays
  <2>4. Proceeds(t) /\ call'[t] = c /\ active'[call[t].logger] = w
      BY <1>1, <1>2, <1>8, <2>1, <2>3, ProceedsIf
  <2>5. Writer(t)' = w
      BY <1>8, <2>4 DEF Writer
  <2>6. KeptBy(t) /\ Clean(w) /\ Sound(w) /\ (~overlap => Known(w) /\ KnownBy(t))
      BY <2>1, <2>2, HeldFacts
  <2>7. \A m \in Slots : m.seq <= w.name.seq /\ (m.seq = w.name.seq => m = Archived(w.name))
      BY <1>8, <2>2, <2>6 DEF KeptBy, Rotating, At
  <2>8. KeptBy(t)'
      BY <1>3, <1>8, <2>4, <2>5, <2>7 DEF KeptBy, At, Rotating, FilesKept
  <2>9. ASSUME ~overlap' PROVE KnownBy(t)'
    <3>1. KnownBy(t) /\ dir' = dir /\ Currents' = Currents
        BY <1>1, <1>4, <1>5, <2>6, <2>9 DEF disk
    <3>2. /\ Currents = {}
          /\ \A m \in DOMAIN dir : /\ m.seq <= w.name.seq
                                   /\ m.seq = w.name.seq => m = Archived(w.name)
        BY <1>8, <2>2, <3>1 DEF KnownBy, Rotating, At
    <3> QED
        BY <1>8, <2>4, <2>5, <3>1, <3>2 DEF KnownBy, At, Rotating
  <2>10. Clean(w)' /\ (~overlap' => Known(w)')
      BY <1>1, <1>3, <1>4, <2>6, CleanStays, KnownStays DEF FilesKept
  <2> QED
      BY <1>3, <1>4, <1>5, <2>4, <2>8, <2>9, <2>10, Assemble
<1>9. CASE At(t, {"roll"}) /\ call' = [call EXCEPT ![t].doomed = <<>>] /\ UNCHANGED active
  <2>1. call[t] \in LogCalls
      BY <1>2, <1>9, Held DEF Busy, At
  <2>2. PICK c : c = [call[t] EXCEPT !.doomed = <<>>]
      OBVIOUS
  <2>3. c.logger = call[t].logger /\ c.at = "roll" /\ c.doomed = <<>>
      BY <1>9, <2>1, <2>2 DEF LogCalls, At
  <2>4. call' = [call EXCEPT ![t] = c]
      BY <1>2, <1>9, <2>2 DEF Types, CallsOK
  <2> QED
      BY <1>8, <1>9, <2>3, <2>4
<1>10. CASE At(t, {"roll"}) /\ Goto(t, "rollback") /\ UNCHANGED active
  <2>1. Busy(t)
      BY <1>10 DEF Busy, At
  <2>2. PICK c \in LogCalls : /\ call' = [call EXCEPT ![t] = c] /\ c.at = "rollback"
                              /\ c.logger = call[t].logger
      BY <1>2, <1>10, <2>1, GotoIs DEF Places
  <2> QED
      BY <1>8, <1>10, <2>2
<1>11. CASE /\ At(t, {"write"})
            /\ call' = [call EXCEPT ![t].at = "open", ![t].again = TRUE]
            /\ SetWriter(t, NoFile)
  <2>1. Holding(t) /\ Busy(t)
      BY <1>11 DEF Holding, Busy, At
  <2>2. call[t] \in LogCalls
      BY <1>2, <2>1, Held
  <2>3. PICK c : c = [call[t] EXCEPT !.at = "open", !.again = TRUE]
      OBVIOUS
  <2>4. c.at = "open" /\ c.logger = call[t].logger
      BY <2>2, <2>3 DEF LogCalls
  <2>5. call' = [call EXCEPT ![t] = c]
      BY <1>2, <1>11, <2>3 DEF Types, CallsOK
  <2>6. Proceeds(t) /\ call'[t] = c /\ active'[call[t].logger] = NoFile
      BY <1>1, <1>2, <1>11, <2>1, <2>4, <2>5, ProceedsIf
  <2>7. KeptBy(t)' /\ KnownBy(t)'
      BY <2>4, <2>6, Unbound
  <2> QED
      BY <1>3, <1>4, <1>5, <2>6, <2>7, NoFileIs, Assemble
<1>12. CASE At(t, {"write"}) /\ SetWriter(t, [Writer(t) EXCEPT !.index = @ + 1]) /\ Return(t)
  <2>1. Busy(t)
      BY <1>12 DEF Busy, At
  <2>2. Writer(t) # NoFile
      BY <1>2, <1>12, <2>1, Held DEF At, Fits
  <2>3. PICK w : w = Writer(t) /\ w \in Writers
      BY <1>2, <2>1, <2>2, Held
  <2>4. PICK v : v = [w EXCEPT !.index = @ + 1]
      OBVIOUS
  <2>5. /\ v # NoFile /\ v.name = w.name /\ v.file = w.file /\ v.append = w.append
        /\ v.pos = w.pos /\ v.index = w.index + 1 /\ v.ram = w.ram
      BY <2>3, <2>4, Counted
  <2>6. SetWriter(t, v)
      BY <1>12, <2>3, <2>4
  <2> QED
      BY <1>1, <1>12, <2>3, <2>5, <2>6, CountedKeeps
<1> QED
    BY <1>6, <1>7, <1>9, <1>10, <1>11, <1>12 DEF Fail

\* The Logger lets go of a file that is to be deleted (delete_session_log_files).
LEMMA ReleaseKeeps == ASSUME Invariant, Types', NEW t \in Threads, Release(t) PROVE Invariant'
<1>1. /\ At(t, {"idle"}) /\ ~Locked(session)
      /\ UNCHANGED <<disk, session, config, second, owed, overlap>>
    BY DEF Release
<1>2. PICK names :
        /\ call' = [call EXCEPT ![t] = [at |-> "remove", logger |-> session, names |-> names]]
        /\ active' = [g \in Loggers |->
                        IF g = session /\ Releases(g, names) THEN NoFile ELSE active[g]]
    BY DEF Release
<1>3. Types
    BY DEF Invariant
<1>4. FilesKept
    BY <1>1, <1>3, QuietKeeps DEF Invariant
<1>5. call'[t].at = "remove" /\ \A u \in Threads : u # t => call'[u] = call[u]
    BY <1>2, <1>3 DEF Types, CallsOK
<1>6. \A g \in Loggers : \/ active'[g] = active[g]
                         \/ active'[g] = NoFile /\ g = session
    BY <1>2
<1>7. overlap' \in BOOLEAN /\ overlap' = overlap
    BY <1>1 DEF Invariant, Alone1
<1>8. \A u \in Threads : Holding(u) => call[u].logger # session /\ call[u].logger \in Loggers
    BY <1>1, <1>3, CallFacts DEF Locked, Holding, At, Busy
<1>9. Keeps'
  <2> SUFFICES ASSUME NEW u \in Threads PROVE KeptBy(u)'
      BY DEF Keeps
  <2>1. CASE u = t
      BY <1>5, <2>1 DEF KeptBy, At, Rotating
  <2>2. CASE u # t
    <3>1. call'[u] = call[u]
        BY <1>5, <2>2
    <3>2. Holding(u) => Writer(u)' = Writer(u)
        BY <1>6, <1>8, <3>1 DEF Writer
    <3> QED
        BY <1>4, <3>1, <3>2, ThreadStays DEF FilesKept, Invariant, Keeps
  <2> QED
      BY <2>1, <2>2
<1>10. InUse' \subseteq InUse
    BY <1>1, <1>5 DEF InUse, Busy, At
<1>11. NoOverwrite'
  <2> SUFFICES ASSUME NEW g \in InUse' PROVE Clean(active[g])'
      BY DEF NoOverwrite
  <2>1. g \in InUse /\ g \in Loggers
      BY <1>10 DEF InUse
  <2>2. CASE active'[g] = active[g]
    <3>1. PICK v : v = active[g]
        OBVIOUS
    <3>2. Clean(v) /\ Sound(v)
        BY <1>3, <2>1, <3>1, ActiveSound DEF Invariant, NoOverwrite
    <3>3. Clean(v)'
        BY <1>4, <3>2, CleanStays DEF FilesKept
    <3> QED
        BY <2>2, <3>1, <3>3 DEF Clean
  <2>3. CASE active'[g] = NoFile
      BY <2>3 DEF Clean
  <2> QED
      BY <1>6, <2>1, <2>2, <2>3
<1>12. Alone => Alone'
    BY <1>1, <1>5 DEF Alone, Superseded, At
<1>13. Alone1'
    BY <1>7, <1>12 DEF Alone1, Invariant
<1>14. Calm'
  <2> SUFFICES ASSUME ~overlap
               PROVE  OneCurrent' /\ TopCurrent' /\ SessionKnown' /\ \A u \in Threads : KnownBy(u)'
      BY <1>7 DEF Calm
  <2>1. OneCurrent' /\ TopCurrent'
      BY <1>1, CalmFiles DEF Invariant
  <2>2. dir' = dir /\ data' = data /\ session' = session
      BY <1>1 DEF disk
  <2>3. session # 0 => session \in Loggers
      BY <1>3 DEF Types, SettingsOK, Loggers
  <2>4. SessionKnown'
      BY <1>6, <2>2, <2>3 DEF SessionKnown, Known, Invariant, Calm
  <2>5. ASSUME NEW u \in Threads PROVE KnownBy(u)'
    <3>1. Alone
        BY DEF Invariant, Alone1
    <3>2. ~Holding(u)
        BY <1>8, <3>1 DEF Alone, Superseded, Holding, At
    <3>3. ~Holding(u)'
        BY <1>5, <3>2 DEF Holding, At
    <3> QED
        BY <3>3 DEF Holding, At, KnownBy, Rotating
  <2> QED
      BY <2>1, <2>4, <2>5
<1> QED
    BY <1>4, <1>9, <1>11, <1>13, <1>14 DEF Invariant, FilesKept

\* With the file go the lines it owes; a line a thread is about to write to it is not owed
\* (delete_session_log_files).
LEMMA RemoveKeeps == ASSUME Invariant, Types', NEW t \in Threads, Remove(t) PROVE Invariant'
<1>1. At(t, {"remove"}) /\ UNCHANGED <<data, session, config, active, second, used, overlap>>
    BY DEF Remove
<1>2. Types
    BY DEF Invariant
<1>3. PICK n \in Names :
             /\ dir' = Unlinked(n)
             /\ owed' = IF n \in DOMAIN dir THEN owed \ LinesIn(n) ELSE owed
             /\ call'[t] = Idle \/ call'[t] \in RemoveCalls
             /\ \A u \in Threads \ {t} :
                  /\ call'[u] = call[u] \/ call'[u] = [call[u] EXCEPT !.crossed = TRUE]
                  /\ call'[u] # call[u] => At(u, {"write"})
                  /\ At(u, {"write"}) /\ n \in DOMAIN dir /\ Writer(u).file = dir[n]
                       => call'[u].crossed
    BY <1>2, RemoveIs
<1>4. owed' \subseteq owed /\ (n \in DOMAIN dir => LinesIn(n) \cap owed' = {})
    BY <1>3
<1>5. FilesKept
    BY <1>1, <1>2, <1>3, <1>4, UnlinkKeeps DEF Invariant
<1>6. DOMAIN dir' = DOMAIN dir \ {n} /\ \A k \in DOMAIN dir' : dir'[k] = dir[k]
    BY <1>3 DEF Unlinked, Restrict
<1>7. call'[t].at \in {"idle", "remove"}
    BY <1>3 DEF Idle, RemoveCalls
<1>8. ASSUME NEW u \in Threads \ {t}
      PROVE  /\ call'[u].at = call[u].at /\ call'[u].logger = call[u].logger
             /\ call'[u].seq = call[u].seq /\ call'[u].doomed = call[u].doomed
             /\ Writer(u)' = Writer(u)
             /\ ~call'[u].crossed => call'[u] = call[u] \/ ~At(u, {"write"})
  <2>1. CASE call'[u] = call[u]
      BY <1>1, <2>1 DEF Writer
  <2>2. CASE call'[u] # call[u]
    <3>1. call[u] \in LogCalls /\ call'[u] = [call[u] EXCEPT !.crossed = TRUE]
        BY <1>2, <1>3, <2>2, Held DEF Busy, At
    <3>2. PICK c \in LogCalls : c = call[u]
        BY <3>1
    <3>3. [c EXCEPT !.crossed = TRUE].crossed
        BY DEF LogCalls
    <3>4. PICK d : d = [c EXCEPT !.crossed = TRUE]
        OBVIOUS
    <3>5. /\ d.at = c.at /\ d.logger = c.logger /\ d.seq = c.seq /\ d.doomed = c.doomed
        BY <3>4, CrossedIs
    <3>6. call'[u] = d /\ d.crossed
        BY <3>1, <3>2, <3>3, <3>4
    <3>7. Writer(u)' = Writer(u)
        BY <1>1, <3>2, <3>5, <3>6 DEF Writer
    <3> QED
        BY <3>2, <3>5, <3>6, <3>7
  <2> QED
      BY <2>1, <2>2
<1>9. Keeps'
  <2> SUFFICES ASSUME NEW u \in Threads PROVE KeptBy(u)'
      BY DEF Keeps
  <2>1. CASE u = t
      BY <1>7, <2>1 DEF KeptBy, At, Rotating
  <2>2. CASE u # t
      BY <1>5, <1>8, <2>2, ThreadStays DEF FilesKept, Invariant, Keeps
  <2> QED
      BY <2>1, <2>2
<1>10. InUse' \subseteq InUse
    BY <1>1, <1>7, <1>8 DEF InUse, Busy, At
<1>11. NoOverwrite'
  <2> SUFFICES ASSUME NEW g \in InUse' PROVE Clean(active[g])'
      BY DEF NoOverwrite
  <2>1. PICK v : v = active[g]
      OBVIOUS
  <2>2. Clean(v) /\ Sound(v)
      BY <1>2, <1>10, <2>1, ActiveSound DEF Invariant, NoOverwrite, InUse
  <2>3. Clean(v)'
      BY <1>5, <2>2, CleanStays DEF FilesKept
  <2>4. active' = active
      BY <1>1
  <2> QED
      BY <2>1, <2>3, <2>4 DEF Clean
<1>12. Alone => Alone'
    BY <1>1, <1>7, <1>8 DEF Alone, Superseded, At
<1>13. Alone1'
    BY <1>1, <1>12 DEF Alone1, Invariant
<1>14. Calm'
  <2> SUFFICES ASSUME ~overlap
               PROVE  OneCurrent' /\ TopCurrent' /\ SessionKnown' /\ \A u \in Threads : KnownBy(u)'
      BY <1>1 DEF Calm
  <2>1. OneCurrent' /\ TopCurrent' /\ Currents' \subseteq Currents
      BY <1>6 DEF Invariant, Calm, OneCurrent, TopCurrent, Currents, Archives
  <2>2. SessionKnown'
      BY <1>1, <1>6 DEF SessionKnown, Known, Invariant, Calm
  <2>3. ASSUME NEW u \in Threads PROVE KnownBy(u)'
    <3>1. CASE u = t
        BY <1>7, <3>1 DEF KnownBy, At, Rotating
    <3>2. CASE u # t
      <4>1. KnownBy(u)
          BY DEF Invariant, Calm
      <4>2. ASSUME At(u, {"write"}), ~call'[u].crossed PROVE Writer(u).name \in DOMAIN dir'
        <5>1. ~call[u].crossed
            BY <1>8, <3>2, <4>2
        <5>2. Writer(u).name \in DOMAIN dir
            BY <4>1, <4>2, <5>1 DEF KnownBy
        <5>3. Busy(u) /\ Writer(u) # NoFile
            BY <1>2, <4>2, Held DEF Busy, At, Fits
        <5>4. dir[Writer(u).name] = Writer(u).file
            BY <5>2, <5>3, HeldFacts DEF Known
        <5>5. Writer(u).name # n
            BY <1>3, <3>2, <4>2, <5>2, <5>4
        <5> QED
            BY <1>6, <5>2, <5>5
      <4>3. /\ call'[u].at = call[u].at /\ call'[u].seq = call[u].seq /\ Writer(u)' = Writer(u)
          BY <1>8, <3>2
      <4> QED
          BY <1>6, <2>1, <4>1, <4>2, <4>3 DEF KnownBy, At, Rotating
    <3> QED
        BY <3>1, <3>2
  <2> QED
      BY <2>1, <2>2, <2>3
<1> QED
    BY <1>5, <1>9, <1>11, <1>13, <1>14 DEF Invariant, FilesKept

\* An empty directory and no Logger.
LEMMA InitInvariant == Init => Invariant
<1> SUFFICES ASSUME Init PROVE Invariant
    OBVIOUS
<1>1. Types
    BY InitTypes
<1>2. DOMAIN dir = {} /\ owed = {} /\ overlap = FALSE /\ session = 0
    BY DEF Init
<1>3. \A g \in Loggers : active[g] = NoFile
    BY DEF Init
<1>4. \A t \in Threads : call[t].at = "idle"
    BY DEF Init, Idle
<1>5. Bearers = {} /\ Currents = {} /\ Archives = {}
    BY <1>2 DEF Bearers, Currents, Archives
<1>6. Ranked /\ LinesKept
    BY <1>2, <1>5 DEF Ranked, LinesKept
<1>7. Keeps /\ Alone1 /\ Calm
    BY <1>2, <1>4, <1>5 DEF Keeps, KeptBy, Alone1, Alone, Superseded, Calm, KnownBy, At,
       Rotating, OneCurrent, TopCurrent, SessionKnown
<1>8. NoOverwrite
    BY <1>3 DEF NoOverwrite, Clean, InUse
<1> QED
    BY <1>1, <1>6, <1>7, <1>8 DEF Invariant

\* Every step keeps the invariant.
LEMMA NextInvariant == Invariant /\ [Next]_vars => Invariant'
<1> SUFFICES ASSUME Invariant, [Next]_vars PROVE Invariant'
    OBVIOUS
<1>1. Types'
    BY NextTypes DEF Invariant
<1>2. CASE Tick
    BY <1>1, <1>2, TickKeeps
<1>3. CASE Crash
    BY <1>1, <1>3, CrashKeeps
<1>4. ASSUME NEW t \in Threads, Call(t) PROVE Invariant'
    BY <1>1, <1>4, LogKeeps, InstallKeeps, EnterKeeps, ArchiveStaleKeeps, ResumeKeeps,
       NumberKeeps, CreateStepKeeps, RotateKeeps, PlanPruneKeeps, PruneOneKeeps, RollKeeps,
       RollbackKeeps, WriteKeeps, WriteUnflushedKeeps, FailKeeps, ReleaseKeeps, RemoveKeeps
       DEF Call
<1>5. CASE UNCHANGED vars
    BY <1>1, <1>5, Beside DEF vars, process
<1>6. ASSUME NEW g \in Loggers, Flush(g) PROVE Invariant'
    BY <1>1, <1>6, FlushKeeps
<1> QED
    BY <1>2, <1>3, <1>4, <1>5, <1>6 DEF Next

\* The inductive invariant holds in every state, whatever steps the threads take between each
\* other's accesses to the directory, and whatever fails, is deleted or is cut off by the
\* end of the process.
THEOREM AlwaysInvariant == Spec => []Invariant
BY InitInvariant, NextInvariant, PTL DEF Spec

\* A line that has reached the disk, with the flush after it or with a later one, is in a file
\* of the directory, through rotations and their rollbacks, crashes between two renames, failed
\* operations and changes of settings, unless the user deleted its file or the budget had no
\* room for it.  Nothing is said of a line whose flush failed and that is still in the buffer:
\* a crash or a failed rotation loses it (write_line_locked, rotate_active, prune_old_files).
THEOREM LinesAreKept == Spec => []LinesKept
<1>1. Invariant => LinesKept
    BY DEF Invariant
<1> QED
    BY <1>1, AlwaysInvariant, PTL

\* The lines of a file with a lower number are older, whichever process and Logger wrote them:
\* pruning by the numbers removes the oldest (next_sequence_number, try_resume_current,
\* rotate_active, prune_old_files).
THEOREM FilesAreInOrder == Spec => []FilesInAgeOrder
<1>1. Invariant => FilesInAgeOrder
  <2> SUFFICES ASSUME Invariant, NEW m \in DOMAIN dir, NEW n \in DOMAIN dir, m.seq < n.seq,
                      NEW k \in LinesIn(m) \cap owed, NEW l \in LinesIn(n) \cap owed
               PROVE  k < l
      BY DEF FilesInAgeOrder
  <2>1. m \in Bearers
      BY DEF Bearers, Bears
  <2>2. m.seq \in Nat
      BY NameFacts DEF Invariant, Types, DirOK
  <2>3. m # n
      BY <2>2
  <2> QED
      BY <2>1, <2>3 DEF Invariant, Ranked
<1> QED
    BY <1>1, AlwaysInvariant, PTL

\* While no two Loggers are at work there is one current file at most, and the Logger never
\* takes its file for shorter than it is (try_resume_current, count_lines).
THEOREM ActiveFileIsKnown == Spec => []ActiveFileKnown
<1>1. Invariant => ActiveFileKnown
  <2> SUFFICES ASSUME Invariant, ~overlap PROVE ActiveFileKnown
      BY DEF ActiveFileKnown
  <2>1. Cardinality(Currents) <= 1
      BY CurrentsAre DEF Invariant, Calm
  <2>2. ASSUME NEW g \in Loggers, g = session, Linked(active[g]),
               dir[active[g].name] = active[g].file
        PROVE  active[g].index >= Len(Content(active[g].name))
    <3>1. session # 0
        BY <2>2 DEF Loggers
    <3>2. PICK w : w = active[g] /\ w # NoFile /\ w.name \in DOMAIN dir /\ dir[w.name] = w.file
        BY <2>2 DEF Linked
    <3>3. w.index >= Len(data[w.file]) + w.ram
        BY <2>2, <3>1, <3>2 DEF Invariant, Calm, SessionKnown, Known
    <3>4. w.index \in Nat /\ w.ram \in Nat /\ w.file \in DOMAIN data
        BY <3>2, WriterParts DEF Invariant, Types, WritersOK
    <3>5. Len(data[w.file]) \in Nat
        BY <3>4 DEF Invariant, Types, DataOK
    <3>6. w.index >= Len(data[w.file])
        BY <3>3, <3>4, <3>5
    <3> QED
        BY <3>2, <3>6 DEF Content
  <2> QED
      BY <2>1, <2>2 DEF ActiveFileKnown
<1> QED
    BY <1>1, AlwaysInvariant, PTL

-----------------------------------------------------------------------------
\* THE LINES OF A DIRECTORY

\* LineCount, of a directory d and files b that need not be those of the state.
Tally(S, d, b) == Cardinality(UNION {{n} \X DOMAIN b[d[n]] : n \in S})
Listed(S, d, b) == IsFiniteSet(S) /\ \A n \in S : b[d[n]] \in Seq(Nat)

\* The lines of finitely many files are finite.
LEMMA ListedIs ==
    ASSUME NEW S, NEW d, NEW b, Listed(S, d, b)
    PROVE  /\ IsFiniteSet(UNION {{n} \X DOMAIN b[d[n]] : n \in S})
           /\ Tally(S, d, b) \in Nat
<1> DEFINE lines == [n \in S |-> {n} \X DOMAIN b[d[n]]]
           T == {{n} \X DOMAIN b[d[n]] : n \in S}
<1>1. lines \in Surjection(S, T)
    BY DEF Surjection
<1>2. IsFiniteSet(T)
    BY <1>1, FS_Surjection DEF Listed
<1>3. ASSUME NEW n \in S PROVE IsFiniteSet({n} \X DOMAIN b[d[n]])
  <2>1. PICK s \in Seq(Nat) : s = b[d[n]]
      BY DEF Listed
  <2>2. DOMAIN s = 1..Len(s) /\ Len(s) \in Nat
      BY <2>1
  <2>3. IsFiniteSet(DOMAIN s)
      BY <2>2, FS_Interval
  <2> QED
      BY <2>1, <2>3, FS_Singleton, FS_Product
<1>4. IsFiniteSet(UNION T)
    BY <1>2, <1>3, FS_UNION
<1> QED
    BY <1>4, FS_CardinalityType DEF Tally

\* More files, none of them shorter, have more lines.
LEMMA TallyGrows ==
    ASSUME NEW S, NEW d, NEW b, NEW T, NEW e, NEW c, Listed(T, e, c),
           S \subseteq T, \A n \in S : b[d[n]] = c[e[n]]
    PROVE  /\ Tally(S, d, b) \in Nat /\ Tally(T, e, c) \in Nat
           /\ Tally(S, d, b) <= Tally(T, e, c)
<1>1. Listed(S, d, b)
    BY FS_Subset DEF Listed
<1>2. PICK A : A = UNION {{n} \X DOMAIN b[d[n]] : n \in S}
    OBVIOUS
<1>3. PICK B : B = UNION {{n} \X DOMAIN c[e[n]] : n \in T}
    OBVIOUS
<1>4. A \subseteq B
    BY <1>2, <1>3
<1>5. IsFiniteSet(B) /\ Tally(T, e, c) \in Nat
    BY <1>3, ListedIs
<1>6. Tally(S, d, b) \in Nat
    BY <1>1, ListedIs
<1>7. Cardinality(A) <= Cardinality(B)
    BY <1>4, <1>5, FS_Subset
<1> QED
    BY <1>2, <1>3, <1>5, <1>6, <1>7 DEF Tally

\* A file adds its lines.
LEMMA TallySplits ==
    ASSUME NEW S, NEW d, NEW b, Listed(S, d, b), NEW n \in S
    PROVE  /\ Tally(S \ {n}, d, b) \in Nat /\ Len(b[d[n]]) \in Nat
           /\ Tally(S, d, b) = Tally(S \ {n}, d, b) + Len(b[d[n]])
<1>1. Listed(S \ {n}, d, b)
    BY FS_Subset DEF Listed
<1>2. PICK s \in Seq(Nat) : s = b[d[n]]
    BY DEF Listed
<1>3. PICK k \in Nat : k = Len(s) /\ DOMAIN s = 1..k
    BY <1>2
<1>4. PICK A : A = UNION {{m} \X DOMAIN b[d[m]] : m \in S \ {n}}
    OBVIOUS
<1>5. PICK B : B = {n} \X DOMAIN b[d[n]]
    OBVIOUS
<1>6. IsFiniteSet(A) /\ Cardinality(A) = Tally(S \ {n}, d, b) /\ Cardinality(A) \in Nat
  <2>1. PICK U : U = S \ {n}
      OBVIOUS
  <2>2. Listed(U, d, b)
      BY <1>1, <2>1
  <2>3. /\ IsFiniteSet(UNION {{m} \X DOMAIN b[d[m]] : m \in U})
        /\ Tally(U, d, b) \in Nat
      BY <2>2, ListedIs
  <2>4. A = UNION {{m} \X DOMAIN b[d[m]] : m \in U}
      BY <1>4, <2>1
  <2>5. Tally(U, d, b) = Cardinality(A)
      BY <2>4 DEF Tally
  <2> QED
      BY <2>1, <2>3, <2>4, <2>5
<1>7. IsFiniteSet(B) /\ Cardinality(B) = k
  <2>1. IsFiniteSet(1..k) /\ Cardinality(1..k) = k
    <3>1. /\ IsFiniteSet(1..k)
          /\ Cardinality(1..k) = IF 1 > k THEN 0 ELSE k - 1 + 1
        BY FS_Interval
    <3> QED
        BY <3>1
  <2>2. IsFiniteSet({n}) /\ Cardinality({n}) = 1
      BY FS_Singleton
  <2>3. B = {n} \X (1..k)
      BY <1>2, <1>3, <1>5
  <2>4. IsFiniteSet(B) /\ Cardinality(B) = Cardinality({n}) * Cardinality(1..k)
      BY <2>1, <2>2, <2>3, FS_Product
  <2> QED
      BY <1>3, <2>1, <2>2, <2>4
<1>8. A \cap B = {}
    BY <1>4, <1>5
<1>9. UNION {{m} \X DOMAIN b[d[m]] : m \in S} = A \cup B
    BY <1>4, <1>5
<1>10. Cardinality(A \cup B) = Cardinality(A) + Cardinality(B)
  <2>1. Cardinality(A \cup B) = Cardinality(A) + Cardinality(B) - Cardinality(A \cap B)
      BY <1>6, <1>7, FS_Union
  <2>2. Cardinality(A \cap B) = 0
      BY <1>8, FS_EmptySet
  <2> QED
      BY <1>3, <1>6, <1>7, <2>1, <2>2
<1> QED
    BY <1>2, <1>3, <1>6, <1>7, <1>9, <1>10 DEF Tally

\* LineCount counts the lines of the files of the state.
LEMMA CountIs ==
    ASSUME NEW S
    PROVE  LineCount(S) = Tally(S, dir, data) /\ LineCount(S)' = Tally(S, dir', data')
BY DEF LineCount, Content, Tally

\* The files of the directory have lines.
LEMMA DirListed ==
    ASSUME NEW S
    PROVE  /\ Types /\ S \subseteq DOMAIN dir => Listed(S, dir, data)
           /\ Types' /\ S \subseteq DOMAIN dir' => Listed(S, dir', data')
<1>1. ASSUME Types, S \subseteq DOMAIN dir PROVE Listed(S, dir, data)
  <2>1. IsFiniteSet(S)
      BY <1>1, FS_Subset DEF Types, DirOK
  <2> QED
      BY <1>1, <2>1 DEF Listed, Types, DirOK, DataOK
<1>2. ASSUME Types', S \subseteq DOMAIN dir' PROVE Listed(S, dir', data')
  <2>1. IsFiniteSet(S)
      BY <1>2, FS_Subset DEF Types, DirOK
  <2> QED
      BY <1>2, <2>1 DEF Listed, Types, DirOK, DataOK
<1> QED
    BY <1>1, <1>2

\* The greatest of finitely many numbers.
LEMMA GreatestIs ==
    ASSUME NEW S, IsFiniteSet(S), S # {}, NEW f \in [S -> Nat]
    PROVE  /\ Max({f[s] : s \in S}) \in Nat
           /\ \A s \in S : f[s] <= Max({f[r] : r \in S})
<1> DEFINE name == [s \in S |-> [current |-> FALSE, seq |-> f[s], stamp |-> 0]]
           names == {name[s] : s \in S}
<1>1. name \in Surjection(S, names)
    BY DEF Surjection
<1>2. IsFiniteSet(names) /\ names # {}
    BY <1>1, FS_Surjection
<1>3. names \subseteq Names
  <2> SUFFICES ASSUME NEW s \in S PROVE name[s] \in Names
      OBVIOUS
  <2>1. MaxSecond \in Nat
      BY LogAssumption
  <2>2. 0 \in 0..MaxSecond
      BY <2>1
  <2>3. f[s] \in Nat
      OBVIOUS
  <2> QED
      BY <2>2, <2>3 DEF Names
<1>4. PICK h : h \in Highest(names)
    BY <1>2, <1>3, HighestExists
<1>5. h \in names /\ \A m \in names : m.seq <= h.seq
    BY <1>4 DEF Highest
<1>6. PICK top \in S : h = name[top]
    BY <1>5
<1>7. \A s \in S : f[s] <= f[top]
  <2>1. \A s \in S : name[s] \in names /\ name[s].seq = f[s]
      OBVIOUS
  <2>2. h.seq = f[top]
      BY <1>6, <2>1
  <2> HIDE DEF name
  <2> QED
      BY <1>5, <2>1, <2>2
<1>8. \E x \in {f[s] : s \in S} : \A y \in {f[s] : s \in S} : x >= y
    BY <1>7
<1>9. PICK x : x = Max({f[s] : s \in S})
    OBVIOUS
<1>10. x \in {f[s] : s \in S} /\ \A y \in {f[s] : s \in S} : x >= y
    BY <1>8, <1>9 DEF Max
<1>11. \A s \in S : f[s] <= x
    BY <1>10
<1>12. x \in Nat
    BY <1>10
<1> QED
    BY <1>9, <1>11, <1>12

\* The budgets are those of some settings.
LEMMA MostIs ==
    /\ MostEntries \in Nat /\ MostKept \in Nat
    /\ \A s \in Settings : s.entries <= MostEntries /\ s.keep <= MostKept
    /\ MostEntries >= 1
<1>1. PICK f \in [Settings -> Nat] : f = [s \in Settings |-> s.entries]
    BY LogAssumption
<1>2. PICK k \in [Settings -> Nat] : k = [s \in Settings |-> s.keep]
    BY LogAssumption
<1>3. /\ Max({f[s] : s \in Settings}) \in Nat
      /\ \A s \in Settings : f[s] <= Max({f[r] : r \in Settings})
    BY LogAssumption, GreatestIs
<1>4. /\ Max({k[s] : s \in Settings}) \in Nat
      /\ \A s \in Settings : k[s] <= Max({k[r] : r \in Settings})
    BY LogAssumption, GreatestIs
<1>5. {f[s] : s \in Settings} = {s.entries : s \in Settings}
    BY <1>1
<1>6. {k[s] : s \in Settings} = {s.keep : s \in Settings}
    BY <1>2
<1>7. MostEntries \in Nat /\ \A s \in Settings : s.entries <= MostEntries
    BY <1>1, <1>3, <1>5 DEF MostEntries
<1>8. MostKept \in Nat /\ \A s \in Settings : s.keep <= MostKept
    BY <1>2, <1>4, <1>6 DEF MostKept
<1>9. PICK s : s \in Settings
    BY LogAssumption
<1>10. s.entries >= 1 /\ s.entries \in Nat
    BY <1>9, LogAssumption
<1> QED
    BY <1>7, <1>8, <1>9, <1>10

-----------------------------------------------------------------------------
\* WHAT A STEP DOES TO THE LINES OF THE DIRECTORY

Total == LineCount(DOMAIN dir)
Stored == LineCount(Archives)

\* The archives are among the files.
LEMMA TotalIs ==
    ASSUME Types
    PROVE  /\ Total \in Nat /\ Stored \in Nat /\ Stored <= Total
           /\ Currents = {} => Stored = Total
<1>1. Archives \in SUBSET DOMAIN dir
    BY DEF Archives
<1>2. Stored \in Nat /\ Total \in Nat /\ Stored <= Total
    BY <1>1, LineCountGrows DEF Total, Stored
<1>3. Currents = {} => Archives = DOMAIN dir
    BY DEF Archives
<1> QED
    BY <1>2, <1>3 DEF Total, Stored

\* So they are after a step.
LEMMA TotalNext ==
    ASSUME Types'
    PROVE  /\ Total' \in Nat /\ Stored' \in Nat /\ Stored' <= Total'
           /\ Currents' = {} => Stored' = Total'
<1>1. Archives' \subseteq DOMAIN dir' /\ (Currents' = {} => Archives' = DOMAIN dir')
    BY DEF Archives
<1>2. Listed(DOMAIN dir', dir', data')
    BY DirListed
<1>3. /\ Tally(Archives', dir', data') \in Nat /\ Tally(DOMAIN dir', dir', data') \in Nat
      /\ Tally(Archives', dir', data') <= Tally(DOMAIN dir', dir', data')
    BY <1>1, <1>2, TallyGrows
<1>4. Total' = Tally(DOMAIN dir', dir', data') /\ Stored' = Tally(Archives', dir', data')
    BY DEF Total, Stored, LineCount, Content, Tally
<1> QED
    BY <1>1, <1>3, <1>4

\* The directory stays.
LEMMA StayLines ==
    ASSUME UNCHANGED disk
    PROVE  /\ Total' = Total /\ Stored' = Stored
           /\ DOMAIN dir' = DOMAIN dir /\ Currents' = Currents /\ Archives' = Archives
           /\ \A n \in DOMAIN dir : dir'[n] = dir[n]
<1>1. dir' = dir /\ data' = data
    BY DEF disk
<1>2. Currents' = Currents /\ Archives' = Archives
    BY <1>1 DEF Currents, Archives
<1> QED
    BY <1>1, <1>2 DEF Total, Stored, LineCount, Content

\* Some files among those of the state, after a step that leaves their lines alone.
LEMMA FewerLines ==
    ASSUME Types, Types', NEW S, NEW T, T \subseteq DOMAIN dir, S \subseteq T,
           S \subseteq DOMAIN dir', \A n \in S : dir'[n] = dir[n], UNCHANGED data
    PROVE  /\ LineCount(S)' \in Nat /\ LineCount(T) \in Nat
           /\ LineCount(S)' <= LineCount(T)
<1>1. Listed(T, dir, data)
    BY DirListed
<1>2. \A n \in S : data'[dir'[n]] = data[dir[n]]
    OBVIOUS
<1>3. /\ Tally(S, dir', data') \in Nat /\ Tally(T, dir, data) \in Nat
      /\ Tally(S, dir', data') <= Tally(T, dir, data)
    BY <1>1, <1>2, TallyGrows
<1>4. LineCount(S)' = Tally(S, dir', data') /\ LineCount(T) = Tally(T, dir, data)
    BY CountIs
<1> QED
    BY <1>3, <1>4

\* A file has another name: its lines are counted once, and those of a file that had the name
\* are gone.
LEMMA RenameLines ==
    ASSUME Types, Types', NEW n \in DOMAIN dir, NEW m \in Names, m # n,
           dir' = Renamed(n, m), UNCHANGED data
    PROVE  Total' <= Total
<1>1. /\ DOMAIN dir' = (DOMAIN dir \ {n}) \cup {m} /\ dir'[m] = dir[n]
      /\ \A k \in DOMAIN dir \ {n, m} : dir'[k] = dir[k]
    BY RenamedIs
<1>2. Listed(DOMAIN dir, dir, data) /\ Listed(DOMAIN dir', dir', data')
    BY DirListed
<1>3. /\ Tally(DOMAIN dir \ {n}, dir, data) \in Nat /\ Len(data[dir[n]]) \in Nat
      /\ Tally(DOMAIN dir, dir, data)
           = Tally(DOMAIN dir \ {n}, dir, data) + Len(data[dir[n]])
    BY <1>2, TallySplits
<1>4. m \in DOMAIN dir'
    BY <1>1
<1>5. /\ Tally(DOMAIN dir' \ {m}, dir', data') \in Nat /\ Len(data'[dir'[m]]) \in Nat
      /\ Tally(DOMAIN dir', dir', data')
           = Tally(DOMAIN dir' \ {m}, dir', data') + Len(data'[dir'[m]])
    BY <1>2, <1>4, TallySplits
<1>6. Listed(DOMAIN dir \ {n}, dir, data)
    BY DirListed
<1>7. DOMAIN dir' \ {m} \subseteq DOMAIN dir \ {n}
    BY <1>1
<1>8. \A k \in DOMAIN dir' \ {m} : data'[dir'[k]] = data[dir[k]]
    BY <1>1
<1>9. Tally(DOMAIN dir' \ {m}, dir', data') <= Tally(DOMAIN dir \ {n}, dir, data)
    BY <1>6, <1>7, <1>8, TallyGrows
<1>10. Len(data'[dir'[m]]) = Len(data[dir[n]])
    BY <1>1
<1>11. Tally(DOMAIN dir', dir', data') <= Tally(DOMAIN dir, dir, data)
    BY <1>3, <1>5, <1>9, <1>10
<1> QED
    BY <1>11 DEF Total, LineCount, Content, Tally

\* A name is removed.
LEMMA UnlinkLines ==
    ASSUME Types, Types', NEW n, dir' = Unlinked(n), UNCHANGED data
    PROVE  /\ DOMAIN dir' = DOMAIN dir \ {n} /\ \A k \in DOMAIN dir' : dir'[k] = dir[k]
           /\ Currents' \subseteq Currents /\ Archives' \subseteq Archives
           /\ Total' <= Total /\ Stored' <= Stored
<1>1. DOMAIN dir' = DOMAIN dir \ {n} /\ \A k \in DOMAIN dir' : dir'[k] = dir[k]
    BY DEF Unlinked, Restrict
<1>2. Currents' \subseteq Currents /\ Archives' \subseteq Archives
    BY <1>1 DEF Currents, Archives
<1>3. Archives \subseteq DOMAIN dir /\ Archives' \subseteq DOMAIN dir'
    BY DEF Archives
<1>4. Listed(DOMAIN dir, dir, data) /\ Listed(Archives, dir, data)
    BY <1>3, DirListed
<1>5. \A k \in DOMAIN dir' : data'[dir'[k]] = data[dir[k]]
    BY <1>1
<1>6. Tally(DOMAIN dir', dir', data') <= Tally(DOMAIN dir, dir, data)
    BY <1>1, <1>4, <1>5, TallyGrows
<1>7. \A k \in Archives' : data'[dir'[k]] = data[dir[k]]
    BY <1>3, <1>5
<1>8. Tally(Archives', dir', data') <= Tally(Archives, dir, data)
    BY <1>2, <1>4, <1>7, TallyGrows
<1>9. Total' <= Total
    BY <1>6 DEF Total, LineCount, Content, Tally
<1>10. Stored' <= Stored
    BY <1>8 DEF Stored, LineCount, Content, Tally
<1> QED
    BY <1>1, <1>2, <1>9, <1>10

\* A file is made, with nothing in it.
LEMMA CreateLines ==
    ASSUME Types, Types', NEW n \in Names, n.current, n \notin DOMAIN dir,
           data' = Append(data, <<>>),
           dir' = [m \in DOMAIN dir \cup {n} |-> IF m = n THEN Len(data) + 1 ELSE dir[m]],
           used'.lines = used.lines, UNCHANGED owed
    PROVE  /\ Total' <= Total /\ Stored' <= Stored /\ Archives' = Archives
           /\ \A k \in Archives : dir'[k] # Len(data) + 1
<1>1. /\ DOMAIN dir' = DOMAIN dir \cup {n}
      /\ dir'[n] = Len(data) + 1 /\ \A k \in DOMAIN dir : dir'[k] = dir[k]
      /\ Len(data) + 1 \notin DOMAIN data
      /\ data'[Len(data) + 1] = <<>> /\ \A f \in DOMAIN data : data'[f] = data[f]
    BY CreateTypes
<1>2. Archives' = Archives /\ Archives \subseteq DOMAIN dir
    BY <1>1 DEF Archives, Currents
<1>3. \A k \in DOMAIN dir : dir[k] \in DOMAIN data
    BY DEF Types, DirOK
<1>4. \A k \in Archives : dir'[k] # Len(data) + 1
    BY <1>1, <1>2, <1>3
<1>5. \A k \in DOMAIN dir : data'[dir'[k]] = data[dir[k]]
    BY <1>1, <1>3
<1>6. Listed(DOMAIN dir, dir, data) /\ Listed(Archives, dir, data)
    BY <1>2, DirListed
<1>7. Listed(DOMAIN dir', dir', data') /\ n \in DOMAIN dir'
    BY <1>1, DirListed
<1>8. /\ Tally(DOMAIN dir' \ {n}, dir', data') \in Nat /\ Len(data'[dir'[n]]) \in Nat
      /\ Tally(DOMAIN dir', dir', data')
           = Tally(DOMAIN dir' \ {n}, dir', data') + Len(data'[dir'[n]])
  <2>1. PICK d, b : d = dir' /\ b = data'
      OBVIOUS
  <2>2. Listed(DOMAIN d, d, b) /\ n \in DOMAIN d
      BY <1>7, <2>1
  <2>3. /\ Tally(DOMAIN d \ {n}, d, b) \in Nat /\ Len(b[d[n]]) \in Nat
        /\ Tally(DOMAIN d, d, b) = Tally(DOMAIN d \ {n}, d, b) + Len(b[d[n]])
      BY <2>2, TallySplits
  <2> QED
      BY <2>1, <2>3
<1>9. Len(data'[dir'[n]]) = 0
    BY <1>1
<1>10. DOMAIN dir' \ {n} \subseteq DOMAIN dir
    BY <1>1
<1>11. Tally(DOMAIN dir' \ {n}, dir', data') <= Tally(DOMAIN dir, dir, data)
    BY <1>5, <1>6, <1>10, TallyGrows
<1>12. Total' <= Total
  <2>1. Tally(DOMAIN dir', dir', data') <= Tally(DOMAIN dir, dir, data)
      BY <1>8, <1>9, <1>11
  <2> QED
      BY <2>1 DEF Total, LineCount, Content, Tally
<1>13. Tally(Archives', dir', data') <= Tally(Archives, dir, data)
    BY <1>2, <1>5, <1>6, TallyGrows
<1>14. Stored' <= Stored
    BY <1>13 DEF Stored, LineCount, Content, Tally
<1> QED
    BY <1>2, <1>4, <1>12, <1>14

\* A line is written: to one file, that has one name.
LEMMA WriteLines ==
    ASSUME Types, Types', UNCHANGED dir, NEW w \in Writers, w.file \in DOMAIN data,
           ~w.append => w.pos <= Len(data[w.file]),
           data' = [data EXCEPT ![w.file] = Put(@, w, used.lines + 1)]
    PROVE  /\ Total' <= Total + 1
           /\ (\A k \in Archives : dir[k] # w.file) => Stored' <= Stored
<1>1. /\ \A f \in DOMAIN data \ {w.file} : data'[f] = data[f]
      /\ Len(data'[w.file]) \in {Len(data[w.file]), Len(data[w.file]) + 1}
    BY WriteIs
<1>2. Archives' = Archives /\ Archives \subseteq DOMAIN dir
    BY DEF Archives, Currents
<1>3. \A k \in DOMAIN dir : dir[k] \in DOMAIN data
    BY DEF Types, DirOK
<1>4. /\ Listed(DOMAIN dir, dir, data) /\ Listed(Archives, dir, data)
      /\ Listed(DOMAIN dir, dir, data')
    BY <1>2, DirListed
<1>5. Tally(DOMAIN dir, dir, data') <= Tally(DOMAIN dir, dir, data) + 1
  <2>1. CASE \A k \in DOMAIN dir : dir[k] # w.file
    <3>1. \A k \in DOMAIN dir : data'[dir[k]] = data[dir[k]]
        BY <1>1, <1>3, <2>1
    <3>2. /\ Tally(DOMAIN dir, dir, data') \in Nat /\ Tally(DOMAIN dir, dir, data) \in Nat
          /\ Tally(DOMAIN dir, dir, data') <= Tally(DOMAIN dir, dir, data)
        BY <1>4, <3>1, TallyGrows
    <3> QED
        BY <3>2
  <2>2. ASSUME NEW n \in DOMAIN dir, dir[n] = w.file
        PROVE  Tally(DOMAIN dir, dir, data') <= Tally(DOMAIN dir, dir, data) + 1
    <3>1. \A k \in DOMAIN dir \ {n} : dir[k] # w.file
        BY <2>2 DEF Types, DirOK
    <3>2. \A k \in DOMAIN dir \ {n} : data'[dir[k]] = data[dir[k]]
        BY <1>1, <1>3, <3>1
    <3>3. Listed(DOMAIN dir \ {n}, dir, data)
        BY DirListed
    <3>4. Tally(DOMAIN dir \ {n}, dir, data') <= Tally(DOMAIN dir \ {n}, dir, data)
        BY <3>2, <3>3, TallyGrows
    <3>5. /\ Tally(DOMAIN dir \ {n}, dir, data) \in Nat /\ Len(data[dir[n]]) \in Nat
          /\ Tally(DOMAIN dir, dir, data)
               = Tally(DOMAIN dir \ {n}, dir, data) + Len(data[dir[n]])
        BY <1>4, TallySplits
    <3>6. /\ Tally(DOMAIN dir \ {n}, dir, data') \in Nat /\ Len(data'[dir[n]]) \in Nat
          /\ Tally(DOMAIN dir, dir, data')
               = Tally(DOMAIN dir \ {n}, dir, data') + Len(data'[dir[n]])
      <4>1. PICK S, d, b : S = DOMAIN dir /\ d = dir /\ b = data'
          OBVIOUS
      <4>2. Listed(S, d, b) /\ n \in S
          BY <1>4, <4>1
      <4>3. /\ Tally(S \ {n}, d, b) \in Nat /\ Len(b[d[n]]) \in Nat
            /\ Tally(S, d, b) = Tally(S \ {n}, d, b) + Len(b[d[n]])
          BY <4>2, TallySplits
      <4> QED
          BY <4>1, <4>3
    <3>7. Len(data'[dir[n]]) <= Len(data[dir[n]]) + 1
        BY <1>1, <2>2, <3>5
    <3> QED
        BY <3>4, <3>5, <3>6, <3>7
  <2> QED
      BY <2>1, <2>2
<1>6. Total' <= Total + 1
    BY <1>5 DEF Total, LineCount, Content, Tally
<1>7. ASSUME \A k \in Archives : dir[k] # w.file PROVE Stored' <= Stored
  <2>1. \A k \in Archives : data'[dir[k]] = data[dir[k]]
      BY <1>1, <1>2, <1>3, <1>7
  <2>2. Tally(Archives, dir, data') <= Tally(Archives, dir, data)
      BY <1>4, <2>1, TallyGrows
  <2> QED
      BY <1>2, <2>2 DEF Stored, LineCount, Content, Tally
<1> QED
    BY <1>6, <1>7

\* The one current file and the archives are all the files.
LEMMA OneCurrentLines ==
    ASSUME Types, OneCurrent, NEW n \in Currents
    PROVE  /\ n \in DOMAIN dir /\ Len(Content(n)) \in Nat
           /\ Total = Stored + Len(Content(n))
           /\ \A k \in Archives : dir[k] # dir[n]
<1>1. n \in DOMAIN dir /\ Archives = DOMAIN dir \ {n}
    BY DEF Currents, Archives, OneCurrent
<1>2. Listed(DOMAIN dir, dir, data)
    BY DirListed
<1>3. /\ Len(data[dir[n]]) \in Nat
      /\ Tally(DOMAIN dir, dir, data)
           = Tally(DOMAIN dir \ {n}, dir, data) + Len(data[dir[n]])
  <2>1. PICK S, d, b : S = DOMAIN dir /\ d = dir /\ b = data
      OBVIOUS
  <2>2. Listed(S, d, b) /\ n \in S
      BY <1>1, <1>2, <2>1
  <2>3. /\ Len(b[d[n]]) \in Nat
        /\ Tally(S, d, b) = Tally(S \ {n}, d, b) + Len(b[d[n]])
      BY <2>2, TallySplits
  <2> QED
      BY <2>1, <2>3
<1>4. \A k \in Archives : dir[k] # dir[n]
    BY <1>1 DEF Types, DirOK
<1> QED
    BY <1>1, <1>3, <1>4 DEF Total, Stored, LineCount, Content, Tally

\* What a pruning leaves of the archives is within the budget.
LEMMA DoomedLeaves ==
    ASSUME Types, NEW files \in InSequence(Archives), NEW keep \in Nat \ {0}
    PROVE  LineCount(Archives \ Range(Doomed(files, keep))) <= keep
<1>1. PICK n \in Nat : /\ n = Len(files) /\ DOMAIN files = 1..n
                       /\ files \in [1..n -> Archives] /\ files \in Seq(Names)
                       /\ \A i, j \in 1..n : files[i] = files[j] => i = j
    BY InSequenceIs
<1> DEFINE From(i) == LineCount({files[j] : j \in i..Len(files)})
           excess == {i \in DOMAIN files : keep # 0 /\ From(i) > keep}
<1>2. Archives \subseteq DOMAIN dir /\ IsFiniteSet(Archives)
    BY FS_Subset DEF Archives, Types, DirOK
<1>3. \A a \in Archives : \E i \in 1..n : a = files[i]
  <2>1. IsFiniteSet(1..n) /\ Cardinality(1..n) = n
    <3>1. /\ IsFiniteSet(1..n)
          /\ Cardinality(1..n) = IF 1 > n THEN 0 ELSE n - 1 + 1
        BY FS_Interval
    <3> QED
        BY <3>1
  <2>2. Cardinality(Archives) \in Nat
      BY <1>2, FS_CardinalityType
  <2>3. PICK k \in Nat : k = Cardinality(Archives)
      BY <2>2
  <2>4. files \in [1..k -> Archives]
      BY <2>3 DEF InSequence
  <2>5. k = n
    <3>1. 1..k = 1..n
        BY <1>1, <2>4
    <3>2. Cardinality(1..k) = IF 1 > k THEN 0 ELSE k - 1 + 1
        BY FS_Interval
    <3> QED
        BY <2>1, <3>1, <3>2
  <2>6. files \in Injection(1..n, Archives)
      BY <1>1 DEF Injection, IsInjective
  <2>7. files \in Surjection(1..n, Archives)
      BY <1>2, <2>1, <2>3, <2>5, <2>6, FS_Injection
  <2> QED
      BY <2>7 DEF Surjection
<1>4. ASSUME NEW i \in Nat \ {0} PROVE From(i) \in Nat
  <2>1. PICK S : S = {files[j] : j \in i..Len(files)}
      OBVIOUS
  <2>2. S \subseteq DOMAIN dir
      BY <1>1, <1>2, <2>1
  <2>3. LineCount(S) \in Nat
      BY <2>2, LineCountGrows
  <2> QED
      BY <2>1, <2>3
<1>5. ASSUME NEW j \in excess, NEW i \in 1..j PROVE i \in excess
  <2>1. i \in 1..n /\ j \in 1..n /\ keep # 0 /\ From(j) > keep
      BY <1>1
  <2>2. PICK S, T : S = {files[k] : k \in j..Len(files)} /\ T = {files[k] : k \in i..Len(files)}
      OBVIOUS
  <2>3. S \subseteq T
      BY <1>1, <2>1, <2>2
  <2>4. T \subseteq DOMAIN dir
      BY <1>1, <1>2, <2>1, <2>2
  <2>5. LineCount(S) \in Nat /\ LineCount(T) \in Nat /\ LineCount(S) <= LineCount(T)
      BY <2>3, <2>4, LineCountGrows
  <2>6. LineCount(T) > keep
      BY <2>1, <2>2, <2>5
  <2> QED
      BY <1>1, <2>1, <2>2, <2>6
<1>6. PICK E : E = excess
    OBVIOUS
<1>7. E \in SUBSET (1..n)
    BY <1>1, <1>6
<1>8. Cardinality(E) \in 0..n /\ E = 1..Cardinality(E)
    BY <1>5, <1>6, <1>7, FirstOnes
<1>9. PICK k \in 0..n : k = Cardinality(E)
    BY <1>8
<1>10. Doomed(files, keep) = SubSeq(files, 1, k)
    BY <1>6, <1>9 DEF Doomed
<1>11. PICK d : d = Doomed(files, keep)
    OBVIOUS
<1>12. DOMAIN d = 1..k /\ \A i \in 1..k : d[i] = files[i]
    BY <1>1, <1>10, <1>11
<1>13. Archives \ Range(d) \subseteq {files[j] : j \in (k + 1)..n}
  <2> SUFFICES ASSUME NEW a \in Archives, a \notin Range(d)
               PROVE  \E j \in (k + 1)..n : a = files[j]
      OBVIOUS
  <2>1. PICK i \in 1..n : a = files[i]
      BY <1>3
  <2>2. i \notin 1..k
      BY <1>12, <2>1 DEF Range
  <2>3. i \in (k + 1)..n
      BY <2>2
  <2> QED
      BY <2>1, <2>3
<1>14. From(k + 1) <= keep
  <2>1. k + 1 \in Nat \ {0}
      OBVIOUS
  <2>2. From(k + 1) \in Nat
      BY <1>4, <2>1
  <2>3. k + 1 \notin E
      BY <1>8, <1>9
  <2>4. CASE k + 1 \in 1..n
    <3>1. ~(From(k + 1) > keep)
        BY <1>1, <1>6, <2>3, <2>4
    <3> QED
        BY <2>2, <3>1
  <2>5. CASE k + 1 \notin 1..n
    <3>1. {files[j] : j \in (k + 1)..Len(files)} = {}
        BY <1>1, <2>5
    <3>2. From(k + 1) = LineCount({})
        BY <3>1
    <3>3. LineCount({}) = 0
        BY FS_EmptySet DEF LineCount
    <3> QED
        BY <3>2, <3>3
  <2> QED
      BY <2>4, <2>5
<1>15. PICK R : R = {files[j] : j \in (k + 1)..n}
    OBVIOUS
<1>16. LineCount(R) <= keep
    BY <1>1, <1>14, <1>15
<1>17. R \subseteq DOMAIN dir
    BY <1>1, <1>2, <1>15
<1>18. PICK L : L = Archives \ Range(d)
    OBVIOUS
<1>19. LineCount(L) \in Nat /\ LineCount(R) \in Nat /\ LineCount(L) <= LineCount(R)
    BY <1>13, <1>15, <1>17, <1>18, LineCountGrows
<1> QED
    BY <1>11, <1>16, <1>18, <1>19

-----------------------------------------------------------------------------
\* THE BUDGET

\* What the prunings that were cut short may have left, and what is about to be written.
Allowed == MostKept + MostEntries * cut
Inking(t) == At(t, {"write"}) \/ (At(t, {"open"}) /\ call[t].again)

\* Where no pruning is under way the archives are within what is allowed; with the current
\* file there is one file more, and room in it for a line that is about to be written.
Roomy ==
    /\ Total <= Allowed + MostEntries
    /\ (\A t \in Threads : ~Pruning(t)) => Stored <= Allowed
    /\ \A t \in Threads : Inking(t) => Total + 1 <= Allowed + MostEntries

\* What is left when a pruning has run to its end is within the budget, and the file that a
\* thread writes to is no archive.
PlannedBy(t) ==
    At(t, {"roll"}) /\ call[t].doomed # <<>>
        => LineCount(DOMAIN dir \ Range(call[t].doomed)) <= MostKept
ApartBy(t) == At(t, {"write"}) => \A n \in Archives : dir[n] # Writer(t).file
FreshBy(t) == At(t, {"lock"}) => ~call[t].again

\* The inductive invariant of the budget, while the settings bound what is kept.
Budgeted == \A s \in Settings : s.keep # 0
Spare ==
    /\ cut \in Nat /\ strayed \in BOOLEAN /\ (overlap => strayed)
    /\ \A t \in Threads : FreshBy(t)
    /\ Budgeted /\ ~strayed => Roomy
    /\ Budgeted /\ ~overlap => \A t \in Threads : PlannedBy(t) /\ ApartBy(t)

\* The lines that wait in the buffer of the Logger of the session: their file is no archive,
\* and there is room for them, with the line that a thread is about to write.
WaitingFit(w) ==
    /\ \A n \in Archives : dir[n] # w.file
    /\ Total + w.ram <= Allowed + MostEntries
    /\ \A t \in Threads : At(t, {"write"}) => Total + w.ram + 1 <= Allowed + MostEntries
Waiting(w) == w # NoFile /\ w.ram # 0
Stocked ==
    Budgeted /\ ~strayed /\ session # 0 /\ Waiting(active[session])
        => WaitingFit(active[session])

\* What is allowed grows by one file with each pruning that is cut short.
LEMMA AllowedIs ==
    ASSUME cut \in Nat
    PROVE  /\ Allowed \in Nat /\ MostKept \in Nat /\ MostEntries \in Nat /\ MostEntries >= 1
           /\ MostKept <= Allowed
           /\ cut' = cut => Allowed' = Allowed
           /\ cut' = cut + 1 => Allowed' = Allowed + MostEntries
           /\ cut' = 0 => Allowed' = MostKept
<1>1. PICK e \in Nat : e = MostEntries
    BY MostIs
<1>2. PICK k \in Nat : k = MostKept
    BY MostIs
<1>3. PICK c \in Nat : c = cut
    OBVIOUS
<1>4. /\ e * c \in Nat /\ e * c >= 0 /\ e * (c + 1) = e * c + e /\ e * 0 = 0
    OBVIOUS
<1>5. Allowed = k + e * c /\ Allowed' = k + e * cut'
    BY <1>1, <1>2, <1>3 DEF Allowed, MostKept, MostEntries
<1>6. k + e * c \in Nat /\ k <= k + e * c
    BY <1>4
<1>7. cut' = cut => Allowed' = Allowed
    BY <1>3, <1>5
<1>8. cut' = cut + 1 => Allowed' = Allowed + e
    BY <1>3, <1>4, <1>5
<1>9. cut' = 0 => Allowed' = k
    BY <1>4, <1>5
<1> QED
    BY <1>1, <1>2, <1>5, <1>6, <1>7, <1>8, <1>9, MostIs

\* The budgets do not change.
LEMMA MostStays == MostEntries' = MostEntries /\ MostKept' = MostKept /\ Budgeted' = Budgeted
BY DEF MostEntries, MostKept, Budgeted

\* The settings of the Logger of a call are some settings.
LEMMA LimitsAre ==
    ASSUME Types, NEW t \in Threads, Busy(t)
    PROVE  /\ Limits(t) \in Settings
           /\ Limits(t).entries \in Nat /\ Limits(t).keep \in Nat
           /\ Limits(t).entries <= MostEntries /\ Limits(t).keep <= MostKept
           /\ Budgeted => Limits(t).keep # 0
<1>1. call[t].logger \in Loggers /\ call[t].logger <= session
    BY Held
<1>2. Limits(t) \in Settings
    BY <1>1 DEF Limits, Types, SettingsOK
<1> QED
    BY <1>2, MostIs, LogAssumption DEF Budgeted

\* What the invariant says to a call that has the mutex, or gets it, while no Logger strays.
LEMMA SpareNow ==
    ASSUME Invariant, Spare, Budgeted, ~strayed, NEW t \in Threads, Busy(t),
           Holding(t) \/ ~Locked(call[t].logger)
    PROVE  /\ ~overlap /\ Alone /\ Known(Writer(t)) /\ KnownBy(t) /\ OneCurrent
           /\ Total <= Allowed + MostEntries
           /\ ~Pruning(t) => Stored <= Allowed
           /\ Inking(t) => Total + 1 <= Allowed + MostEntries
<1>1. ~overlap /\ Roomy
    BY DEF Spare
<1>2. Alone /\ Known(Writer(t)) /\ KnownBy(t) /\ OneCurrent
    BY <1>1, HeldFacts
<1>3. \A u \in Threads \ {t} : ~Holding(u)
  <2>1. \A u \in Threads \ {t} : Holding(u) => call[u].logger # call[t].logger
      BY DEF Invariant, Types, MutexOK, Locked, Holding, At
  <2>2. \A u \in Threads : Busy(u) => call[u].logger = session
      BY <1>2 DEF Alone, Superseded, Busy
  <2> QED
      BY <2>1, <2>2 DEF Holding, Busy, At
<1>4. \A u \in Threads \ {t} : ~Pruning(u)
    BY <1>3 DEF Pruning, Holding, At
<1> QED
    BY <1>1, <1>2, <1>4 DEF Roomy

\* What a step of a call must see to.
LEMMA SpareStep ==
    ASSUME Invariant, Spare, NEW t \in Threads, Proceeds(t),
           cut' \in Nat, strayed' \in BOOLEAN, overlap' => strayed', ~overlap' => Alone,
           FreshBy(t)', Budgeted /\ ~overlap' => PlannedBy(t)' /\ ApartBy(t)',
           Budgeted /\ ~strayed' =>
               /\ Total' <= Allowed' + MostEntries
               /\ ~Pruning(t)' => Stored' <= Allowed'
               /\ Inking(t)' => Total' + 1 <= Allowed' + MostEntries
    PROVE  Spare'
<1>1. /\ Alone => \A u \in Threads \ {t} : ~Holding(u)
    BY OthersStay DEF Invariant
<1>2. \A u \in Threads \ {t} : call'[u] = call[u]
    BY DEF Proceeds
<1>3. \A u \in Threads \ {t} : FreshBy(u)'
    BY <1>2 DEF Spare, FreshBy, At
<1>4. ASSUME ~overlap', NEW u \in Threads \ {t}
      PROVE  PlannedBy(u)' /\ ApartBy(u)' /\ ~Inking(u)'
    BY <1>1, <1>2, <1>4 DEF PlannedBy, ApartBy, Inking, Holding, At
<1>5. Budgeted /\ ~overlap' => \A u \in Threads : PlannedBy(u)' /\ ApartBy(u)'
    BY <1>4
<1>6. ASSUME Budgeted, ~strayed' PROVE Roomy'
  <2>1. ~overlap'
      BY <1>6
  <2>2. \A u \in Threads : Inking(u)' => Total' + 1 <= Allowed' + MostEntries
      BY <1>4, <1>6, <2>1
  <2>3. (\A u \in Threads : ~Pruning(u)') => Stored' <= Allowed'
      BY <1>6
  <2> QED
      BY <1>6, <2>2, <2>3, MostStays DEF Roomy
<1> QED
    BY <1>3, <1>5, <1>6, MostStays DEF Spare

\* A step of a call that neither ends a pruning nor cuts it short.
LEMMA SpareOn ==
    ASSUME Invariant, Spare, NEW t \in Threads, Proceeds(t), UNCHANGED budget,
           overlap' => overlap, ~overlap' => Alone,
           FreshBy(t)', Budgeted /\ ~overlap' => PlannedBy(t)' /\ ApartBy(t)',
           Budgeted /\ ~strayed =>
               /\ Total' <= Allowed + MostEntries
               /\ ~Pruning(t)' => Stored' <= Allowed
               /\ Inking(t)' => Total' + 1 <= Allowed + MostEntries
    PROVE  Spare'
<1>1. cut' = cut /\ strayed' = strayed /\ cut \in Nat /\ strayed \in BOOLEAN
    BY DEF budget, Spare
<1>2. Allowed' = Allowed
    BY <1>1, AllowedIs
<1>3. overlap' => strayed'
    BY <1>1 DEF Spare
<1> QED
    BY <1>1, <1>2, <1>3, SpareStep

\* A step that adds no line, and after which no thread is about to write or ends a pruning
\* that was not or did not before.
LEMMA SpareBeside ==
    ASSUME Invariant, Spare, Types', UNCHANGED <<budget, overlap>>,
           Total' <= Total, Stored' <= Stored,
           \A u \in Threads : /\ Pruning(u) => Pruning(u)'
                              /\ Inking(u)' => Inking(u)
                              /\ FreshBy(u)'
                              /\ PlannedBy(u) => PlannedBy(u)'
                              /\ ApartBy(u) => ApartBy(u)'
    PROVE  Spare'
<1>1. cut' = cut /\ strayed' = strayed /\ overlap' = overlap
    BY DEF budget
<1>2. /\ Allowed' = Allowed /\ Allowed \in Nat
      /\ MostEntries \in Nat /\ MostEntries' = MostEntries
    BY <1>1, AllowedIs, MostStays DEF Spare
<1>3. Total \in Nat /\ Stored \in Nat /\ Total' \in Nat /\ Stored' \in Nat
    BY TotalIs, TotalNext DEF Invariant
<1>4. ASSUME Roomy PROVE Roomy'
  <2>1. Total' <= Allowed' + MostEntries'
      BY <1>2, <1>3, <1>4 DEF Roomy
  <2>2. (\A u \in Threads : ~Pruning(u)') => Stored' <= Allowed'
      BY <1>2, <1>3, <1>4 DEF Roomy
  <2>3. ASSUME NEW u \in Threads, Inking(u)' PROVE Total' + 1 <= Allowed' + MostEntries'
    <3>1. Total + 1 <= Allowed + MostEntries
        BY <1>4, <2>3 DEF Roomy
    <3>2. PICK a \in Nat, b \in Nat, c \in Nat :
                 a = Total /\ b = Total' /\ c = Allowed + MostEntries
        BY <1>2, <1>3
    <3>3. b <= a /\ a + 1 <= c
        BY <3>1, <3>2
    <3>4. b + 1 <= c
        BY <3>3
    <3> QED
        BY <1>2, <3>2, <3>4
  <2> QED
      BY <2>1, <2>2, <2>3 DEF Roomy
<1>5. Budgeted' = Budgeted
    BY MostStays
<1> QED
    BY <1>1, <1>4, <1>5 DEF Spare

\* A step that leaves the directory, after which every thread is where it was or has nothing
\* in its hand.
LEMMA SpareAside ==
    ASSUME Invariant, Spare, Types', UNCHANGED <<disk, budget, overlap>>,
           \A u \in Threads : \/ call'[u] = call[u] /\ (Holding(u) => Writer(u)' = Writer(u))
                              \/ call'[u].at \in {"idle", "remove"} /\ ~Pruning(u)
                              \/ call'[u].at = "lock" /\ ~call'[u].again /\ ~Pruning(u)
    PROVE  Spare'
<1>1. /\ Total' = Total /\ Stored' = Stored
      /\ dir' = dir /\ Archives' = Archives
    BY StayLines DEF disk
<1>2. Total \in Nat /\ Stored \in Nat
    BY TotalIs DEF Invariant
<1>3. ASSUME NEW u \in Threads
      PROVE  /\ Pruning(u) => Pruning(u)'
             /\ Inking(u)' => Inking(u)
             /\ FreshBy(u)'
             /\ PlannedBy(u) => PlannedBy(u)'
             /\ ApartBy(u) => ApartBy(u)'
  <2>1. CASE call'[u] = call[u] /\ (Holding(u) => Writer(u)' = Writer(u))
    <3>1. FreshBy(u)
        BY DEF Spare
    <3>2. FreshBy(u)' /\ (Pruning(u) => Pruning(u)') /\ (Inking(u)' => Inking(u))
        BY <2>1, <3>1 DEF FreshBy, Pruning, Inking, At
    <3>3. ApartBy(u) => ApartBy(u)'
        BY <1>1, <2>1 DEF ApartBy, At, Holding
    <3>4. PlannedBy(u) => PlannedBy(u)'
        BY <1>1, <2>1 DEF PlannedBy, At, LineCount, Content, disk
    <3> QED
        BY <3>2, <3>3, <3>4
  <2>2. CASE call'[u].at \in {"idle", "remove"} /\ ~Pruning(u)
      BY <2>2 DEF FreshBy, Inking, PlannedBy, ApartBy, At
  <2>3. CASE call'[u].at = "lock" /\ ~call'[u].again /\ ~Pruning(u)
      BY <2>3 DEF FreshBy, Inking, PlannedBy, ApartBy, At
  <2> QED
      BY <2>1, <2>2, <2>3
<1> QED
    BY <1>1, <1>2, <1>3, SpareBeside

\* How Goto leaves the calls.
LEMMA GotoCall ==
    ASSUME Types, NEW t \in Threads, Busy(t), NEW p \in Places, Goto(t, p)
    PROVE  /\ call'[t].at = p /\ call'[t].again = call[t].again
           /\ call'[t].doomed = call[t].doomed /\ call'[t].logger = call[t].logger
           /\ \A u \in Threads \ {t} : call'[u] = call[u]
<1>1. PICK c \in LogCalls : c = call[t] /\ call = [u \in Threads |-> call[u]]
    BY Held DEF Types, CallsOK
<1>2. call'[t] = [c EXCEPT !.at = p] /\ \A u \in Threads \ {t} : call'[u] = call[u]
    BY <1>1 DEF Goto
<1> QED
    BY <1>1, <1>2 DEF LogCalls

\* How Return leaves the calls.
LEMMA ReturnCall ==
    ASSUME Types, NEW t \in Threads, Busy(t), Return(t)
    PROVE  /\ \/ call'[t].at = "idle"
              \/ call'[t].at = "lock" /\ ~call'[t].again
           /\ \A u \in Threads \ {t} : call'[u] = call[u]
           /\ FreshBy(t)' /\ ~Inking(t)' /\ PlannedBy(t)' /\ ApartBy(t)' /\ ~Pruning(t)'
           /\ \E c : /\ call' = [call EXCEPT ![t] = c]
                     /\ c = Idle \/ c.logger = call[t].logger
<1>1. PICK c : c = IF call[t].install THEN Logging(call[t].logger, FALSE) ELSE Idle
    OBVIOUS
<1>2. call' = [call EXCEPT ![t] = c]
    BY <1>1 DEF Return
<1>3. call'[t] = c /\ \A u \in Threads \ {t} : call'[u] = call[u]
    BY <1>2 DEF Types, CallsOK
<1>4. (c.at = "idle" /\ c = Idle) \/ (c.at = "lock" /\ ~c.again /\ c.logger = call[t].logger)
    BY <1>1 DEF Idle, Logging
<1>5. FreshBy(t)' /\ ~Inking(t)' /\ PlannedBy(t)' /\ ApartBy(t)' /\ ~Pruning(t)'
    BY <1>3, <1>4 DEF FreshBy, Inking, PlannedBy, ApartBy, Pruning, At
<1> QED
    BY <1>2, <1>3, <1>4, <1>5

\* A call that lets go of its file adds nothing.
LEMMA SpareDrop ==
    ASSUME Invariant, Spare, Types', NEW t \in Threads, Holding(t), ~Pruning(t), Drop(t),
           UNCHANGED <<disk, session, budget, overlap>>
    PROVE  Spare'
<1>1. Busy(t) /\ Types
    BY DEF Holding, Busy, At, Invariant
<1>2. /\ \/ call'[t].at = "idle"
         \/ call'[t].at = "lock" /\ ~call'[t].again
      /\ \A u \in Threads \ {t} : call'[u] = call[u]
    BY <1>1, ReturnCall DEF Drop
<1>3. PICK c : /\ call' = [call EXCEPT ![t] = c]
               /\ c = Idle \/ c.logger = call[t].logger
    BY <1>1, ReturnCall DEF Drop
<1>4. Proceeds(t)
    BY <1>1, <1>3, ProceedsIf DEF Drop
<1>5. \A u \in Threads \ {t} : Holding(u) => Writer(u)' = Writer(u)
    BY <1>1, <1>4, OthersStay
<1>6. \A u \in Threads : \/ call'[u] = call[u] /\ (Holding(u) => Writer(u)' = Writer(u))
                         \/ call'[u].at \in {"idle", "remove"} /\ ~Pruning(u)
                         \/ call'[u].at = "lock" /\ ~call'[u].again /\ ~Pruning(u)
    BY <1>2, <1>5
<1> QED
    BY <1>6, SpareAside

\* A pruning has run to its end.
LEMMA EndsAre ==
    ASSUME Invariant, Spare, PruningEnds
    PROVE  /\ cut' \in Nat /\ strayed' \in BOOLEAN /\ (overlap => strayed')
           /\ ~strayed' => ~overlap /\ Allowed' = MostKept
<1>1. overlap \in BOOLEAN /\ strayed \in BOOLEAN /\ (overlap => strayed) /\ cut \in Nat
    BY DEF Invariant, Alone1, Spare
<1>2. cut' = (IF overlap THEN cut ELSE 0) /\ strayed' = (strayed /\ overlap)
    BY DEF PruningEnds
<1>3. ~overlap => cut' = 0
    BY <1>2
<1>4. ~overlap => Allowed' = MostKept
    BY <1>1, <1>3, AllowedIs
<1> QED
    BY <1>1, <1>2, <1>4

\* A pruning is cut short.
LEMMA CutIs ==
    ASSUME Spare, PruningCut
    PROVE  cut' \in Nat /\ strayed' = strayed /\ Allowed' = Allowed + MostEntries
BY AllowedIs DEF PruningCut, Spare

\* A file that is resumed or gone on with has room, or is rotated.
LEMMA RoomIn ==
    ASSUME Invariant, OneCurrent, NEW n \in Currents, NEW a \in Nat, Stored <= a,
           NEW e \in Nat, Len(Content(n)) < e
    PROVE  Total + 1 <= a + e
<1>1. PICK l \in Nat, s \in Nat : l = Len(Content(n)) /\ s = Stored /\ Total = s + l
    BY OneCurrentLines, TotalIs DEF Invariant
<1>2. s <= a /\ l < e
    BY <1>1
<1>3. s + l + 1 <= a + e
    BY <1>2
<1> QED
    BY <1>1, <1>3

\* The mutex is taken: a file that is not full has room for a line (write_line_locked).
LEMMA EnterSpares ==
    ASSUME Invariant, Spare, Types', NEW t \in Threads, Enter(t) PROVE Spare'
<1>1. /\ At(t, {"lock"}) /\ ~Locked(call[t].logger)
      /\ UNCHANGED <<disk, session, config, second, used, owed, overlap, budget>>
    BY DEF Enter
<1>2. Busy(t) /\ Types /\ ~Pruning(t) /\ ~call[t].again
    BY <1>1 DEF Busy, At, Invariant, Pruning, Spare, FreshBy
<1>3. /\ Total' = Total /\ Stored' = Stored /\ dir' = dir /\ Archives' = Archives
      /\ Total \in Nat /\ Stored \in Nat
    BY <1>1, <1>2, StayLines, TotalIs DEF disk
<1>4. ~overlap' => ~overlap /\ Alone
    BY <1>1 DEF Invariant, Alone1
<1>5. CASE Linked(Writer(t)) /\ Goto(t, Ready(t, Writer(t))) /\ UNCHANGED active
  <2>1. PICK p \in {"rotate", "write"} : p = Ready(t, Writer(t))
      BY DEF Ready
  <2>2. /\ call'[t].at = p /\ call'[t].logger = call[t].logger
      BY <1>2, <1>5, <2>1, GotoCall DEF Places
  <2>3. PICK c \in LogCalls : /\ call' = [call EXCEPT ![t] = c]
                              /\ c.logger = call[t].logger
      BY <1>2, <1>5, <2>1, GotoIs DEF Places
  <2>4. PICK w : w = Writer(t)
      OBVIOUS
  <2>5. Proceeds(t)
      BY <1>1, <1>2, <1>5, <2>3, <2>4, ActiveStays, ProceedsIf
  <2>6. w # NoFile /\ w \in Writers /\ w.name \in DOMAIN dir /\ w.name.current /\ Writer(t)' = w
      BY <1>2, <1>5, <2>2, <2>4, Held DEF Linked, Writer
  <2>7. w.name \in Currents
      BY <2>6 DEF Currents
  <2>8. FreshBy(t)' /\ PlannedBy(t)' /\ ~Pruning(t)'
      BY <2>2 DEF FreshBy, PlannedBy, Pruning, At
  <2>9. ASSUME ~overlap PROVE ApartBy(t)'
    <3>1. OneCurrent /\ Known(w)
        BY <1>2, <2>4, <2>9, HeldFacts
    <3>2. \A n \in Archives : dir[n] # dir[w.name]
        BY <1>2, <2>7, <3>1, OneCurrentLines
    <3>3. dir[w.name] = w.file
        BY <2>6, <3>1 DEF Known
    <3> QED
        BY <1>3, <2>6, <3>2, <3>3 DEF ApartBy
  <2>10. ASSUME Budgeted, ~strayed
         PROVE  /\ Total' <= Allowed + MostEntries
                /\ Stored' <= Allowed
                /\ Inking(t)' => Total' + 1 <= Allowed + MostEntries
    <3>1. /\ OneCurrent /\ Known(w) /\ Total <= Allowed + MostEntries /\ Stored <= Allowed
        BY <1>1, <1>2, <2>4, <2>10, SpareNow
    <3>2. PICK a \in Nat, e \in Nat : a = Allowed /\ e = MostEntries
        BY AllowedIs DEF Spare
    <3>3. ASSUME Inking(t)' PROVE Total + 1 <= a + e
      <4>1. p = "write"
          BY <2>1, <2>2, <3>3 DEF Inking, At
      <4>2. ~(w.index >= Limits(t).entries)
          BY <1>2, <2>1, <2>4, <4>1 DEF Ready, Full
      <4>3. w.index >= Len(Content(w.name)) /\ Len(Content(w.name)) \in Nat /\ w.index \in Nat
          BY <1>2, <2>6, <2>7, <3>1, OneCurrentLines DEF Known, Content, Writers
      <4>4. Limits(t).entries \in Nat /\ Limits(t).entries <= e
          BY <1>2, <3>2, LimitsAre
      <4>5. Len(Content(w.name)) < e
          BY <4>2, <4>3, <4>4
      <4> QED
          BY <2>7, <3>1, <3>2, <4>5, RoomIn
    <3> QED
        BY <1>3, <3>1, <3>2, <3>3
  <2> QED
      BY <1>1, <1>4, <2>5, <2>8, <2>9, <2>10, SpareOn
<1>6. CASE Goto(t, "open") /\ SetWriter(t, NoFile)
  <2>1. call'[t].at = "open" /\ ~call'[t].again
      BY <1>2, <1>6, GotoCall DEF Places
  <2>2. PICK c \in LogCalls : /\ call' = [call EXCEPT ![t] = c]
                              /\ c.logger = call[t].logger
      BY <1>2, <1>6, GotoIs DEF Places
  <2>3. Proceeds(t)
      BY <1>1, <1>2, <1>6, <2>2, ProceedsIf
  <2>4. FreshBy(t)' /\ PlannedBy(t)' /\ ApartBy(t)' /\ ~Pruning(t)' /\ ~Inking(t)'
      BY <2>1 DEF FreshBy, PlannedBy, ApartBy, Pruning, Inking, At
  <2>5. ASSUME Budgeted, ~strayed
        PROVE  Total' <= Allowed + MostEntries /\ Stored' <= Allowed
      BY <1>1, <1>2, <1>3, <2>5, SpareNow
  <2> QED
      BY <1>1, <1>4, <2>3, <2>4, <2>5, SpareOn
<1> QED
    BY <1>5, <1>6 DEF Enter

\* There are two current files only after two Loggers at work (try_resume_current).
LEMMA ArchiveStaleSpares ==
    ASSUME Invariant, Spare, Types', NEW t \in Threads, ArchiveStale(t) PROVE Spare'
<1>1. /\ Cardinality(Currents) > 1 /\ UNCHANGED <<call, overlap, budget>>
    BY DEF ArchiveStale, process
<1>2. overlap
  <2>1. ~(Cardinality(Currents) <= 1)
      BY <1>1, CurrentsAre, FS_CardinalityType DEF Invariant
  <2>2. ~OneCurrent
      BY <2>1, CurrentsAre DEF Invariant
  <2> QED
      BY <2>2 DEF Invariant, Calm
<1>3. cut' = cut /\ strayed' = strayed /\ overlap' = overlap
    BY <1>1 DEF budget
<1>4. strayed /\ \A u \in Threads : FreshBy(u)'
    BY <1>1, <1>2 DEF Spare, FreshBy, At
<1> QED
    BY <1>2, <1>3, <1>4 DEF Spare

\* A file that is opened again has room, or is rotated, or the line is written the second
\* time: then it was counted the first time (try_resume_current).
LEMMA ResumeSpares ==
    ASSUME Invariant, Spare, Types', NEW t \in Threads, Resume(t) PROVE Spare'
<1>1. /\ At(t, {"open"}) /\ Cardinality(Currents) = 1
      /\ UNCHANGED <<disk, session, config, second, used, owed, budget>>
    BY DEF Resume
<1>2. PICK n \in Currents : /\ SetWriter(t, Resumed(n)) /\ Goto(t, Ready(t, Resumed(n)))
                            /\ Heal(n.seq, Archives)
    BY DEF Resume
<1>3. Busy(t) /\ Holding(t) /\ Types /\ ~Pruning(t)
    BY <1>1 DEF Busy, Holding, At, Invariant, Pruning
<1>4. n \in DOMAIN dir /\ n \in Names /\ n.current
    BY <1>3 DEF Currents, Types, DirOK
<1>5. PICK w \in Writers : /\ w = Resumed(n) /\ w.file = dir[n] /\ w.index = Len(data[dir[n]])
    BY <1>3, <1>4, ResumedIs
<1>6. PICK p \in {"rotate", "write"} : p = Ready(t, w)
    BY DEF Ready
<1>7. call'[t].at = p /\ call'[t].logger = call[t].logger
    BY <1>2, <1>3, <1>5, <1>6, GotoCall DEF Places
<1>8. PICK c \in LogCalls : call' = [call EXCEPT ![t] = c] /\ c.logger = call[t].logger
    BY <1>2, <1>3, <1>5, <1>6, GotoIs DEF Places
<1>9. Proceeds(t) /\ active'[call[t].logger] = w
    BY <1>1, <1>2, <1>3, <1>5, <1>8, ProceedsIf
<1>10. Writer(t)' = w
    BY <1>7, <1>9 DEF Writer
<1>11. /\ Total' = Total /\ Stored' = Stored /\ dir' = dir /\ Archives' = Archives
       /\ Total \in Nat /\ Stored \in Nat
    BY <1>1, <1>3, StayLines, TotalIs DEF disk
<1>12. OneCurrent
    BY <1>1, <1>3, CurrentsAre
<1>13. overlap' = (overlap /\ ~(Alone /\ Above(n.seq, Archives))) /\ overlap \in BOOLEAN
    BY <1>2 DEF Heal, Invariant, Alone1
<1>14. (overlap' => overlap) /\ (~overlap' => Alone)
    BY <1>13 DEF Invariant, Alone1
<1>15. FreshBy(t)' /\ PlannedBy(t)' /\ ~Pruning(t)'
    BY <1>7 DEF FreshBy, PlannedBy, Pruning, At
<1>16. ApartBy(t)'
  <2>1. \A k \in Archives : dir[k] # dir[n]
      BY <1>3, <1>12, OneCurrentLines
  <2> QED
      BY <1>5, <1>10, <1>11, <2>1 DEF ApartBy
<1>17. ASSUME Budgeted, ~strayed
       PROVE  /\ Total' <= Allowed + MostEntries
              /\ Stored' <= Allowed
              /\ Inking(t)' => Total' + 1 <= Allowed + MostEntries
  <2>1. /\ Total <= Allowed + MostEntries /\ Stored <= Allowed
        /\ Inking(t) => Total + 1 <= Allowed + MostEntries
      BY <1>3, <1>17, SpareNow
  <2>2. PICK a \in Nat, e \in Nat : a = Allowed /\ e = MostEntries
      BY AllowedIs DEF Spare
  <2>3. ASSUME Inking(t)' PROVE Total + 1 <= a + e
    <3>1. p = "write"
        BY <1>6, <1>7, <2>3 DEF Inking, At
    <3>2. CASE call[t].again
        BY <1>1, <2>1, <2>2, <3>2 DEF Inking
    <3>3. CASE ~call[t].again
      <4>1. ~(w.index >= Limits(t).entries)
          BY <1>6, <3>1, <3>3 DEF Ready, Full
      <4>2. w.index = Len(Content(n)) /\ Len(Content(n)) \in Nat
          BY <1>3, <1>5, <1>12, OneCurrentLines DEF Content
      <4>3. Limits(t).entries \in Nat /\ Limits(t).entries <= e
          BY <1>3, <2>2, LimitsAre
      <4>4. Len(Content(n)) < e
          BY <4>1, <4>2, <4>3
      <4> QED
          BY <1>12, <2>1, <2>2, <4>4, RoomIn
    <3> QED
        BY <3>2, <3>3
  <2> QED
      BY <1>11, <2>1, <2>2, <2>3
<1> QED
    BY <1>1, <1>9, <1>14, <1>15, <1>16, <1>17, SpareOn

\* A number is chosen (next_sequence_number).
LEMMA NumberSpares ==
    ASSUME Invariant, Spare, Types', NEW t \in Threads, Number(t) PROVE Spare'
<1>1. /\ At(t, {"open"})
      /\ UNCHANGED <<disk, session, config, active, second, used, owed, overlap, budget>>
      /\ call' = [call EXCEPT ![t].at = "create", ![t].seq = NextSeq]
    BY DEF Number
<1>2. Busy(t) /\ Holding(t) /\ Types
    BY <1>1 DEF Busy, Holding, At, Invariant
<1>3. PICK c : c = [call[t] EXCEPT !.at = "create", !.seq = NextSeq]
    OBVIOUS
<1>4. c.at = "create" /\ c.logger = call[t].logger
    BY <1>2, <1>3, Held DEF LogCalls
<1>5. call' = [call EXCEPT ![t] = c]
    BY <1>1, <1>2, <1>3 DEF Types, CallsOK
<1>6. PICK w : w = Writer(t)
    OBVIOUS
<1>7. Proceeds(t) /\ call'[t] = c
    BY <1>1, <1>2, <1>4, <1>5, <1>6, ActiveStays, ProceedsIf
<1>8. /\ Total' = Total /\ Stored' = Stored /\ ~Pruning(t)
    BY <1>1, StayLines DEF Pruning, At
<1>9. FreshBy(t)' /\ PlannedBy(t)' /\ ApartBy(t)' /\ ~Inking(t)'
    BY <1>4, <1>7 DEF FreshBy, PlannedBy, ApartBy, Inking, At
<1>10. ASSUME Budgeted, ~strayed
       PROVE  Total' <= Allowed + MostEntries /\ Stored' <= Allowed
    BY <1>2, <1>8, <1>10, SpareNow
<1>11. ~overlap' => Alone
    BY <1>1 DEF Invariant, Alone1
<1> QED
    BY <1>1, <1>7, <1>9, <1>10, <1>11, SpareOn

\* A new file takes no room of the budget, and leaves one file's lines to write.
LEMMA CreatedSpares ==
    ASSUME Invariant, Spare, Types', NEW t \in Threads, Holding(t), ~Pruning(t), Created(t),
           UNCHANGED <<session, config, second, used, owed, budget>>,
           overlap' => overlap, ~overlap' => Alone,
           ~overlap => Currents = {}
    PROVE  Spare'
<1>1. Busy(t) /\ Types
    BY DEF Holding, Busy, At, Invariant
<1>2. PICK c \in LogCalls, w \in Writers :
             /\ FreshName(t) \in Names /\ FreshName(t).current
             /\ call' = [call EXCEPT ![t] = c]
             /\ c.at = "write" /\ c.logger = call[t].logger
             /\ SetWriter(t, w)
             /\ w.file = Len(data) + 1
    BY <1>1, CreatedIs
<1>3. PICK n \in Names : n = FreshName(t) /\ n.current
    BY <1>2
<1>4. /\ n \notin DOMAIN dir /\ data' = Append(data, <<>>)
      /\ dir' = [m \in DOMAIN dir \cup {n} |-> IF m = n THEN Len(data) + 1 ELSE dir[m]]
    BY <1>3 DEF Created
<1>5. /\ Total' <= Total /\ Stored' <= Stored /\ Archives' = Archives
      /\ \A k \in Archives : dir'[k] # Len(data) + 1
    BY <1>1, <1>3, <1>4, CreateLines
<1>6. Proceeds(t) /\ call'[t] = c /\ active'[call[t].logger] = w
    BY <1>1, <1>2, ProceedsIf
<1>7. Writer(t)' = w
    BY <1>2, <1>6 DEF Writer
<1>8. FreshBy(t)' /\ PlannedBy(t)'
    BY <1>2, <1>6 DEF FreshBy, PlannedBy, At
<1>9. ApartBy(t)'
    BY <1>2, <1>5, <1>7 DEF ApartBy
<1>10. ASSUME Budgeted, ~strayed
       PROVE  /\ Total' <= Allowed + MostEntries
              /\ Stored' <= Allowed
              /\ Total' + 1 <= Allowed + MostEntries
  <2>1. ~overlap /\ Stored <= Allowed
      BY <1>1, <1>10, SpareNow
  <2>2. Stored = Total
      BY <1>1, <2>1, TotalIs
  <2>3. PICK a \in Nat, e \in Nat : a = Allowed /\ e = MostEntries /\ e >= 1
      BY AllowedIs DEF Spare
  <2>4. PICK x \in Nat, y \in Nat, z \in Nat : x = Total' /\ y = Stored' /\ z = Total
      BY <1>1, TotalIs, TotalNext
  <2>5. x <= z /\ y <= z /\ z <= a
      BY <1>5, <2>1, <2>2, <2>3, <2>4
  <2>6. x <= a + e /\ y <= a /\ x + 1 <= a + e
      BY <2>3, <2>5
  <2> QED
      BY <2>3, <2>4, <2>6
<1> QED
    BY <1>6, <1>8, <1>9, <1>10, SpareOn

\* The first file of a Logger is made, or its name is taken (create_active_file).
LEMMA CreateSpares ==
    ASSUME Invariant, Spare, Types', NEW t \in Threads, Create(t) PROVE Spare'
<1>1. At(t, {"create"}) /\ UNCHANGED <<session, config, second, used, owed, budget>>
    BY DEF Create
<1>2. Holding(t) /\ Busy(t) /\ ~Pruning(t)
    BY <1>1 DEF Holding, Busy, At, Pruning
<1>3. CASE Created(t) /\ Heal(call[t].seq, DOMAIN dir)
  <2>1. /\ overlap' = (overlap /\ ~(Alone /\ Above(call[t].seq, DOMAIN dir)))
        /\ overlap \in BOOLEAN
      BY <1>3 DEF Heal, Invariant, Alone1
  <2>2. (overlap' => overlap) /\ (~overlap' => Alone)
      BY <2>1 DEF Invariant, Alone1
  <2>3. ASSUME ~overlap PROVE Currents = {}
    <3>1. KnownBy(t)
        BY <1>2, <2>3, HeldFacts
    <3> QED
        BY <1>1, <3>1 DEF KnownBy, At
  <2> QED
      BY <1>1, <1>2, <1>3, <2>2, <2>3, CreatedSpares
<1>4. CASE Drop(t) /\ UNCHANGED <<disk, overlap>>
    BY <1>1, <1>2, <1>4, SpareDrop
<1> QED
    BY <1>3, <1>4 DEF Create

\* Nothing is left out where no file is to be removed.
LEMMA NoneOut ==
    ASSUME NEW S, NEW d, d = <<>> PROVE S \ Range(d) = S
<1>1. DOMAIN d = {}
  <2>1. d = [i \in {} |-> i]
      OBVIOUS
  <2> QED
      BY <2>1
<1>2. Range(d) = {}
    BY <1>1 DEF Range
<1> QED
    BY <1>2

\* The full file is archived, and is counted once (rotate_active).
LEMMA RotateSpares ==
    ASSUME Invariant, Spare, Types', NEW t \in Threads, Rotate(t) PROVE Spare'
<1>1. /\ At(t, {"rotate"})
      /\ UNCHANGED <<data, session, config, second, used, owed, overlap, budget>>
    BY DEF Rotate
<1>2. Holding(t) /\ Busy(t) /\ ~Pruning(t) /\ Types
    BY <1>1 DEF Holding, Busy, At, Pruning, Invariant
<1>3. CASE /\ Writer(t).name \in DOMAIN dir
           /\ dir' = Renamed(Writer(t).name, Archived(Writer(t).name))
           /\ Goto(t, "prune") /\ UNCHANGED active
  <2>1. PICK w : w = Writer(t)
      OBVIOUS
  <2>2. PICK n : n = w.name /\ n \in Names /\ n.current
      BY <1>1, <1>2, <2>1, Held DEF At, Fits
  <2>3. PICK a \in Names : a = Archived(n) /\ a # n
      BY <2>2, NameFacts
  <2>4. n \in DOMAIN dir /\ dir' = Renamed(n, a)
      BY <1>3, <2>1, <2>2, <2>3
  <2>5. Total' <= Total
      BY <1>1, <1>2, <2>3, <2>4, RenameLines
  <2>6. call'[t].at = "prune"
      BY <1>2, <1>3, GotoCall DEF Places
  <2>7. PICK c \in LogCalls : call' = [call EXCEPT ![t] = c] /\ c.logger = call[t].logger
      BY <1>2, <1>3, GotoIs DEF Places
  <2>8. Proceeds(t)
      BY <1>1, <1>2, <1>3, <2>1, <2>7, ActiveStays, ProceedsIf
  <2>9. FreshBy(t)' /\ PlannedBy(t)' /\ ApartBy(t)' /\ ~Inking(t)' /\ Pruning(t)'
      BY <2>6 DEF FreshBy, PlannedBy, ApartBy, Inking, Pruning, At
  <2>10. ASSUME Budgeted, ~strayed PROVE Total' <= Allowed + MostEntries
    <3>1. Total <= Allowed + MostEntries
        BY <1>2, <2>10, SpareNow
    <3>2. PICK a1 \in Nat, e \in Nat : a1 = Allowed /\ e = MostEntries
        BY AllowedIs DEF Spare
    <3>3. PICK x \in Nat, z \in Nat : x = Total' /\ z = Total
        BY <1>2, TotalIs, TotalNext
    <3>4. x <= z /\ z <= a1 + e
        BY <2>5, <3>1, <3>2, <3>3
    <3>5. x <= a1 + e
        BY <3>4
    <3> QED
        BY <3>2, <3>3, <3>5
  <2>11. ~overlap' => Alone
      BY <1>1 DEF Invariant, Alone1
  <2> QED
      BY <1>1, <2>8, <2>9, <2>10, <2>11, SpareOn
<1>4. CASE Drop(t) /\ UNCHANGED dir
    BY <1>1, <1>2, <1>4, SpareDrop DEF disk
<1> QED
    BY <1>3, <1>4 DEF Rotate

\* The archives that are not to be removed are within the budget (prune_old_files).
LEMMA PlanPruneSpares ==
    ASSUME Invariant, Spare, Types', NEW t \in Threads, PlanPrune(t) PROVE Spare'
<1>1. /\ At(t, {"prune"}) /\ UNCHANGED <<disk, session, config, active, second, used, overlap>>
      /\ IF call'[t].doomed = <<>> THEN PruningEnds ELSE PruningGoesOn
    BY DEF PlanPrune
<1>2. Busy(t) /\ Holding(t) /\ Types
    BY <1>1 DEF Busy, Holding, At, Invariant
<1>3. PICK files \in InSequence(Archives) :
        call' = [call EXCEPT ![t].at = "roll", ![t].seq = Writer(t).name.seq + 1,
                             ![t].doomed = Doomed(files, Limits(t).keep)]
    BY DEF PlanPrune
<1>4. PICK keep \in Nat : /\ keep = Limits(t).keep /\ keep <= MostKept
                          /\ Budgeted => keep # 0
    BY <1>2, LimitsAre
<1>5. PICK d : d = Doomed(files, keep)
    OBVIOUS
<1>6. PICK c : c = [call[t] EXCEPT !.at = "roll", !.seq = Writer(t).name.seq + 1, !.doomed = d]
    OBVIOUS
<1>7. c.at = "roll" /\ c.logger = call[t].logger /\ c.doomed = d
    BY <1>2, <1>6, Held DEF LogCalls
<1>8. call' = [call EXCEPT ![t] = c]
    BY <1>2, <1>3, <1>4, <1>5, <1>6 DEF Types, CallsOK
<1>9. PICK w : w = Writer(t)
    OBVIOUS
<1>10. Proceeds(t) /\ call'[t] = c
    BY <1>1, <1>2, <1>7, <1>8, <1>9, ActiveStays, ProceedsIf
<1>11. dir' = dir /\ data' = data /\ Total' = Total /\ Stored' = Stored
    BY <1>1, StayLines DEF disk
<1>12. ~overlap' => ~overlap /\ Alone
    BY <1>1 DEF Invariant, Alone1
<1>13. ASSUME Budgeted, ~overlap
       PROVE  Currents = {} /\ LineCount(DOMAIN dir \ Range(d)) <= MostKept
  <2>1. Currents = {}
      BY <1>1, <1>2, <1>13, HeldFacts DEF KnownBy, At
  <2>2. DOMAIN dir = Archives
      BY <2>1 DEF Archives
  <2>3. LineCount(Archives \ Range(d)) <= keep
      BY <1>2, <1>4, <1>5, <1>13, DoomedLeaves
  <2>4. PICK left : left = DOMAIN dir \ Range(d)
      OBVIOUS
  <2>5. LineCount(left) \in Nat /\ LineCount(left) <= keep
      BY <1>2, <2>2, <2>3, <2>4, LineCountGrows
  <2>6. MostKept \in Nat
      BY MostIs
  <2>7. LineCount(left) <= MostKept
      BY <1>4, <2>5, <2>6
  <2> QED
      BY <2>1, <2>4, <2>7
<1>14. FreshBy(t)' /\ ApartBy(t)' /\ ~Inking(t)'
    BY <1>7, <1>10 DEF FreshBy, ApartBy, Inking, At
<1>15. ASSUME Budgeted, ~overlap' PROVE PlannedBy(t)'
  <2>1. PICK left : left = DOMAIN dir \ Range(d)
      OBVIOUS
  <2>2. LineCount(left) <= MostKept
      BY <1>12, <1>13, <1>15, <2>1
  <2>3. LineCount(left)' = LineCount(left)
      BY <1>11 DEF LineCount, Content
  <2>4. call'[t].doomed = d
      BY <1>7, <1>10
  <2>5. (DOMAIN dir \ Range(call[t].doomed))' = left
      BY <1>11, <2>1, <2>4
  <2>6. LineCount(DOMAIN dir \ Range(call[t].doomed))' = LineCount(left)'
      BY <2>5 DEF LineCount, Content
  <2> QED
      BY <2>2, <2>3, <2>6, MostStays DEF PlannedBy
<1>16. CASE d = <<>>
  <2>1. PruningEnds
      BY <1>1, <1>7, <1>10, <1>16
  <2>2. /\ cut' \in Nat /\ strayed' \in BOOLEAN /\ (overlap => strayed')
        /\ ~strayed' => ~overlap /\ Allowed' = MostKept
      BY <2>1, EndsAre
  <2>3. ASSUME Budgeted, ~strayed'
        PROVE  /\ Total' <= Allowed' + MostEntries
               /\ Stored' <= Allowed'
    <3>1. Currents = {} /\ LineCount(DOMAIN dir \ Range(d)) <= MostKept /\ Allowed' = MostKept
        BY <1>13, <2>2, <2>3
    <3>2. DOMAIN dir \ Range(d) = DOMAIN dir
        BY <1>16, NoneOut
    <3>3. Total <= MostKept /\ Stored = Total
        BY <1>2, <3>1, <3>2, TotalIs DEF Total
    <3>4. PICK k \in Nat, e \in Nat, z \in Nat : k = MostKept /\ e = MostEntries /\ z = Total
        BY <1>2, TotalIs, MostIs
    <3>5. z <= k
        BY <3>3, <3>4
    <3>6. z <= k + e
        BY <3>5
    <3> QED
        BY <1>11, <3>1, <3>3, <3>4, <3>5, <3>6
  <2>4. (overlap' => strayed') /\ (~overlap' => Alone)
      BY <1>1, <1>12, <2>2
  <2> QED
      BY <1>10, <1>14, <1>15, <2>2, <2>3, <2>4, SpareStep
<1>17. CASE d # <<>>
  <2>1. UNCHANGED budget
      BY <1>1, <1>7, <1>10, <1>17 DEF PruningGoesOn
  <2>2. Pruning(t)'
      BY <1>7, <1>10, <1>17 DEF Pruning, At
  <2>3. ASSUME Budgeted, ~strayed PROVE Total' <= Allowed + MostEntries
      BY <1>2, <1>11, <2>3, SpareNow
  <2>4. (overlap' => overlap) /\ (~overlap' => Alone)
      BY <1>1, <1>12
  <2> QED
      BY <1>10, <1>14, <1>15, <2>1, <2>2, <2>3, <2>4, SpareOn
<1> QED
    BY <1>16, <1>17

\* A pruning is cut short: what it has not removed is one file at most, until the next.
LEMMA CutSpares ==
    ASSUME Invariant, Spare, Types', NEW t \in Threads, Proceeds(t), PruningCut,
           UNCHANGED <<disk, overlap>>, call'[t].at = "roll", call'[t].doomed = <<>>
    PROVE  Spare'
<1>1. cut' \in Nat /\ strayed' = strayed /\ Allowed' = Allowed + MostEntries
    BY CutIs
<1>2. FreshBy(t)' /\ PlannedBy(t)' /\ ApartBy(t)' /\ ~Inking(t)'
    BY DEF FreshBy, PlannedBy, ApartBy, Inking, At
<1>3. Total' = Total /\ Stored' = Stored
    BY StayLines
<1>4. strayed' \in BOOLEAN /\ (overlap' => strayed') /\ (~overlap' => Alone)
    BY <1>1 DEF Spare, Invariant, Alone1
<1>5. ASSUME Budgeted, ~strayed'
      PROVE  Total' <= Allowed' + MostEntries /\ Stored' <= Allowed'
  <2>1. Total <= Allowed + MostEntries
      BY <1>1, <1>5, SpareNow DEF Proceeds
  <2>2. PICK a \in Nat, e \in Nat : a = Allowed /\ e = MostEntries
      BY AllowedIs DEF Spare
  <2>3. PICK y \in Nat, z \in Nat : y = Stored /\ z = Total /\ y <= z
      BY TotalIs DEF Invariant
  <2>4. z <= a + e
      BY <2>1, <2>2, <2>3
  <2>5. z <= a + e + e /\ y <= a + e
      BY <2>3, <2>4
  <2> QED
      BY <1>1, <1>3, <2>2, <2>3, <2>5
<1> QED
    BY <1>1, <1>2, <1>4, <1>5, SpareStep

\* One of them is removed; when it is the last the budget is kept to, and when it is gone
\* already the rest is left for the next pruning (prune_old_files).
LEMMA PruneOneSpares ==
    ASSUME Invariant, Spare, Types', NEW t \in Threads, PruneOne(t) PROVE Spare'
<1>1. /\ At(t, {"roll"}) /\ call[t].doomed # <<>>
      /\ UNCHANGED <<data, session, config, active, second, used, owed, overlap>>
    BY DEF PruneOne
<1>2. Holding(t) /\ Busy(t) /\ Types /\ Pruning(t)
    BY <1>1 DEF Holding, Busy, At, Invariant, Pruning
<1>3. call[t] \in LogCalls
    BY <1>2, Held
<1>4. PICK s \in Seq(Names) : s = call[t].doomed /\ s # <<>>
    BY <1>1, <1>3 DEF LogCalls
<1>5. PICK n, rest : n = Head(s) /\ rest = Tail(s)
    OBVIOUS
<1>6. /\ Range(s) = {n} \cup Range(rest)
      /\ rest = <<>> <=> Len(s) = 1
  <2>1. PICK k \in Nat : k = Len(s) /\ k >= 1 /\ DOMAIN s = 1..k
      BY <1>4
  <2>2. n = s[1] /\ DOMAIN rest = 1..(k - 1) /\ \A i \in 1..(k - 1) : rest[i] = s[i + 1]
      BY <1>5, <2>1
  <2>3. \A i \in 1..k : i = 1 \/ (i - 1 \in 1..(k - 1) /\ s[i] = rest[i - 1])
      BY <2>1, <2>2
  <2>4. Range(s) = {s[i] : i \in 1..k} /\ Range(rest) = {rest[i] : i \in 1..(k - 1)}
      BY <2>1, <2>2 DEF Range
  <2>5. \A i \in 1..(k - 1) : i + 1 \in 1..k /\ rest[i] = s[i + 1]
      BY <2>1, <2>2
  <2>6. Range(s) = {n} \cup Range(rest)
    <3>1. \A x \in Range(s) : x = n \/ x \in Range(rest)
        BY <2>2, <2>3, <2>4
    <3>2. \A x \in Range(rest) : x \in Range(s)
        BY <2>4, <2>5
    <3>3. n \in Range(s)
        BY <2>1, <2>2, <2>4
    <3> QED
        BY <3>1, <3>2, <3>3
  <2>7. rest \in Seq(Names) /\ Len(rest) = k - 1
      BY <1>4, <1>5, <2>1
  <2>8. rest = <<>> <=> k = 1
      BY <2>1, <2>7
  <2> QED
      BY <2>1, <2>6, <2>8
<1>7. PICK w : w = Writer(t)
    OBVIOUS
<1>8. SetWriter(t, w)
    BY <1>1, <1>2, <1>7, ActiveStays
<1>9. overlap' = overlap /\ overlap \in BOOLEAN /\ (~overlap' => Alone)
    BY <1>1 DEF Invariant, Alone1
<1>10. ASSUME NEW d, call' = [call EXCEPT ![t].doomed = d]
       PROVE  /\ Proceeds(t) /\ call'[t].at = "roll" /\ call'[t].doomed = d
              /\ FreshBy(t)' /\ ApartBy(t)' /\ ~Inking(t)'
              /\ Pruning(t)' <=> d # <<>>
  <2>1. PICK c : c = [call[t] EXCEPT !.doomed = d]
      OBVIOUS
  <2>2. c.at = "roll" /\ c.logger = call[t].logger /\ c.doomed = d
      BY <1>1, <1>3, <2>1 DEF LogCalls, At
  <2>3. call' = [call EXCEPT ![t] = c]
      BY <1>2, <1>10, <2>1 DEF Types, CallsOK
  <2>4. Proceeds(t) /\ call'[t] = c
      BY <1>1, <1>2, <1>8, <2>2, <2>3, ProceedsIf
  <2> QED
      BY <2>2, <2>4 DEF FreshBy, ApartBy, Inking, Pruning, At
<1>11. CASE /\ n \in DOMAIN dir /\ dir' = Unlinked(n)
            /\ call' = [call EXCEPT ![t].doomed = rest]
            /\ IF Len(s) = 1 THEN PruningEnds ELSE PruningGoesOn
  <2>1. /\ DOMAIN dir' = DOMAIN dir \ {n} /\ \A k \in DOMAIN dir' : dir'[k] = dir[k]
        /\ Total' <= Total
      BY <1>1, <1>2, <1>11, UnlinkLines
  <2>2. ASSUME Budgeted, ~overlap
        PROVE  \E left : left = DOMAIN dir' \ Range(rest) /\ LineCount(left)' <= MostKept
    <3>1. LineCount(DOMAIN dir \ Range(s)) <= MostKept
        BY <1>1, <1>4, <2>2 DEF Spare, PlannedBy
    <3>2. PICK left : left = DOMAIN dir \ Range(s)
        OBVIOUS
    <3>3. left \subseteq DOMAIN dir' /\ left \subseteq DOMAIN dir
        BY <1>6, <2>1, <3>2
    <3>4. LineCount(left)' \in Nat /\ LineCount(left) \in Nat /\ LineCount(left)' <= LineCount(left)
        BY <1>1, <1>2, <2>1, <3>3, FewerLines
    <3>5. LineCount(left)' <= MostKept
        BY <3>1, <3>2, <3>4, MostIs
    <3>6. DOMAIN dir' \ Range(rest) = left
        BY <1>6, <2>1, <3>2
    <3> QED
        BY <3>5, <3>6
  <2>3. ASSUME Budgeted, ~overlap' PROVE PlannedBy(t)'
    <3>1. call'[t].doomed = rest
        BY <1>10, <1>11
    <3>2. PICK left : left = DOMAIN dir' \ Range(rest) /\ LineCount(left)' <= MostKept
        BY <1>9, <2>2, <2>3
    <3>3. (DOMAIN dir \ Range(call[t].doomed))' = left
        BY <3>1, <3>2
    <3>4. LineCount(DOMAIN dir \ Range(call[t].doomed))' = LineCount(left)'
        BY <3>3 DEF LineCount, Content
    <3> QED
        BY <3>2, <3>4, MostStays DEF PlannedBy
  <2>4. CASE Len(s) = 1
    <3>1. PruningEnds /\ rest = <<>>
        BY <1>6, <1>11, <2>4
    <3>2. /\ cut' \in Nat /\ strayed' \in BOOLEAN /\ (overlap => strayed')
          /\ ~strayed' => ~overlap /\ Allowed' = MostKept
        BY <3>1, EndsAre
    <3>3. ASSUME Budgeted, ~strayed'
          PROVE  /\ Total' <= Allowed' + MostEntries
                 /\ Stored' <= Allowed'
      <4>1. PICK left : left = DOMAIN dir' \ Range(rest) /\ LineCount(left)' <= MostKept
          BY <2>2, <3>2, <3>3
      <4>2. left = DOMAIN dir' /\ Allowed' = MostKept
          BY <3>1, <3>2, <3>3, <4>1, NoneOut
      <4>3. Total' <= MostKept
        <5>1. Total' = LineCount(left)'
            BY <4>2 DEF Total, LineCount, Content
        <5> QED
            BY <4>1, <5>1
      <4>4. PICK k \in Nat, e \in Nat, x \in Nat, y \in Nat :
                   /\ k = MostKept /\ e = MostEntries /\ x = Total' /\ y = Stored' /\ y <= x
          BY <1>2, TotalNext, MostIs
      <4>5. x <= k
          BY <4>3, <4>4
      <4>6. x <= k + e /\ y <= k
          BY <4>4, <4>5
      <4> QED
          BY <4>2, <4>4, <4>6
    <3>4. Proceeds(t) /\ FreshBy(t)' /\ ApartBy(t)' /\ ~Inking(t)'
        BY <1>10, <1>11
    <3> QED
        BY <1>9, <2>3, <3>2, <3>3, <3>4, SpareStep
  <2>5. CASE Len(s) # 1
    <3>1. UNCHANGED budget /\ rest # <<>>
        BY <1>6, <1>11, <2>5 DEF PruningGoesOn
    <3>2. Proceeds(t) /\ FreshBy(t)' /\ ApartBy(t)' /\ ~Inking(t)' /\ Pruning(t)'
        BY <1>10, <1>11, <3>1
    <3>3. ASSUME Budgeted, ~strayed PROVE Total' <= Allowed + MostEntries
      <4>1. Total <= Allowed + MostEntries
          BY <1>2, <3>3, SpareNow
      <4>2. PICK a \in Nat, e \in Nat : a = Allowed /\ e = MostEntries
          BY AllowedIs DEF Spare
      <4>3. PICK x \in Nat, z \in Nat : x = Total' /\ z = Total
          BY <1>2, TotalIs, TotalNext
      <4>4. x <= z /\ z <= a + e
          BY <2>1, <4>1, <4>2, <4>3
      <4>5. x <= a + e
          BY <4>4
      <4> QED
          BY <4>2, <4>3, <4>5
    <3> QED
        BY <1>9, <2>3, <3>1, <3>2, <3>3, SpareOn
  <2> QED
      BY <2>4, <2>5
<1>12. CASE /\ call' = [call EXCEPT ![t].doomed = <<>>] /\ PruningCut /\ UNCHANGED dir
    BY <1>1, <1>10, <1>12, CutSpares DEF disk
<1> QED
    BY <1>4, <1>5, <1>11, <1>12 DEF PruneOne

\* The next file is made after the pruning, or its name is taken (rotate_active).
LEMMA RollSpares ==
    ASSUME Invariant, Spare, Types', NEW t \in Threads, Roll(t) PROVE Spare'
<1>1. /\ At(t, {"roll"}) /\ call[t].doomed = <<>>
      /\ UNCHANGED <<session, config, second, used, owed, overlap, budget>>
    BY DEF Roll
<1>2. Holding(t) /\ Busy(t) /\ ~Pruning(t) /\ Types
    BY <1>1 DEF Holding, Busy, At, Pruning, Invariant
<1>3. (overlap' => overlap) /\ (~overlap' => Alone)
    BY <1>1 DEF Invariant, Alone1
<1>4. CASE Created(t)
  <2>1. ASSUME ~overlap PROVE Currents = {}
      BY <1>1, <1>2, <2>1, HeldFacts DEF KnownBy, At
  <2> QED
      BY <1>1, <1>2, <1>3, <1>4, <2>1, CreatedSpares
<1>5. CASE Goto(t, "rollback") /\ UNCHANGED <<disk, active>>
  <2>1. call'[t].at = "rollback"
      BY <1>2, <1>5, GotoCall DEF Places
  <2>2. PICK c \in LogCalls : call' = [call EXCEPT ![t] = c] /\ c.logger = call[t].logger
      BY <1>2, <1>5, GotoIs DEF Places
  <2>3. PICK w : w = Writer(t)
      OBVIOUS
  <2>4. Proceeds(t)
      BY <1>1, <1>2, <1>5, <2>2, <2>3, ActiveStays, ProceedsIf
  <2>5. FreshBy(t)' /\ PlannedBy(t)' /\ ApartBy(t)' /\ ~Inking(t)'
      BY <2>1 DEF FreshBy, PlannedBy, ApartBy, Inking, At
  <2>6. Total' = Total /\ Stored' = Stored
      BY <1>5, StayLines
  <2>7. ASSUME Budgeted, ~strayed
        PROVE  Total' <= Allowed + MostEntries /\ Stored' <= Allowed
      BY <1>2, <2>6, <2>7, SpareNow
  <2> QED
      BY <1>1, <1>3, <2>4, <2>5, <2>7, SpareOn
<1> QED
    BY <1>4, <1>5 DEF Roll

\* The archive is the current file again: with it the files were within what is allowed
\* (rotate_active).
LEMMA RollbackSpares ==
    ASSUME Invariant, Spare, Types', NEW t \in Threads, Rollback(t) PROVE Spare'
<1>1. /\ At(t, {"rollback"})
      /\ UNCHANGED <<data, session, config, second, owed, overlap, budget>>
    BY DEF Rollback
<1>2. Holding(t) /\ Busy(t) /\ ~Pruning(t) /\ Types
    BY <1>1 DEF Holding, Busy, At, Pruning, Invariant
<1>3. PICK n : n = Writer(t).name
    OBVIOUS
<1>4. n \in Names /\ n.current
    BY <1>1, <1>2, <1>3, Held DEF At, Fits
<1>5. PICK a \in Names : a = Archived(n) /\ a # n /\ ~a.current
    BY <1>4, NameFacts
<1>6. CASE /\ a \in DOMAIN dir /\ dir' = Renamed(a, n)
           /\ SetWriter(t, [Resumed(a) EXCEPT !.name = n]) /\ Goto(t, "write")
  <2>1. PICK w \in Writers : /\ w = [Resumed(a) EXCEPT !.name = n]
                             /\ w.name = n /\ w.file = dir[a]
      BY <1>2, <1>4, <1>6, ResumedIs
  <2>2. PICK c \in LogCalls : call' = [call EXCEPT ![t] = c] /\ c.at = "write"
                              /\ c.logger = call[t].logger
      BY <1>2, <1>6, GotoIs DEF Places
  <2>3. Proceeds(t) /\ call'[t] = c /\ active'[call[t].logger] = w
      BY <1>1, <1>2, <1>6, <2>1, <2>2, ProceedsIf
  <2>4. Writer(t)' = w
      BY <2>2, <2>3 DEF Writer
  <2>5. DOMAIN dir' = (DOMAIN dir \ {a}) \cup {n} /\ dir'[n] = dir[a]
      BY <1>2, <1>4, <1>5, <1>6, RenamedIs
  <2>6. Total' <= Total
      BY <1>1, <1>2, <1>4, <1>5, <1>6, RenameLines
  <2>7. FreshBy(t)' /\ PlannedBy(t)' /\ ~Pruning(t)'
      BY <2>2, <2>3 DEF FreshBy, PlannedBy, Pruning, At
  <2>8. ApartBy(t)'
    <3>1. \A k \in DOMAIN dir' : dir'[k] = dir'[n] => k = n
        BY <2>5 DEF Types, DirOK
    <3>2. \A k \in Archives' : k \in DOMAIN dir' /\ k # n
        BY <1>4 DEF Archives, Currents
    <3>3. \A k \in Archives' : dir'[k] # w.file
        BY <2>1, <2>5, <3>1, <3>2
    <3> QED
        BY <2>4, <3>3 DEF ApartBy
  <2>9. (overlap' => overlap) /\ (~overlap' => Alone)
      BY <1>1 DEF Invariant, Alone1
  <2>10. ASSUME Budgeted, ~strayed
         PROVE  /\ Total' <= Allowed + MostEntries
                /\ Stored' <= Allowed
                /\ Total' + 1 <= Allowed + MostEntries
    <3>1. Stored <= Allowed /\ KnownBy(t)
        BY <1>2, <2>10, SpareNow
    <3>2. Stored = Total
        BY <1>1, <1>2, <3>1, TotalIs DEF KnownBy, At
    <3>3. PICK d \in Nat, e \in Nat : d = Allowed /\ e = MostEntries /\ e >= 1
        BY AllowedIs DEF Spare
    <3>4. PICK x \in Nat, y \in Nat, z \in Nat :
                 x = Total' /\ y = Stored' /\ z = Total /\ y <= x
        BY <1>2, TotalIs, TotalNext
    <3>5. x <= z /\ y <= x /\ z <= d
        BY <2>6, <3>1, <3>2, <3>3, <3>4
    <3>6. x <= d + e /\ y <= d /\ x + 1 <= d + e
        BY <3>3, <3>5
    <3> QED
        BY <3>3, <3>4, <3>6
  <2> QED
      BY <1>1, <2>3, <2>7, <2>8, <2>9, <2>10, SpareOn
<1>7. CASE a \in DOMAIN dir /\ dir' = Renamed(a, n) /\ Drop(t)
  <2>1. FreshBy(t)' /\ ~Inking(t)' /\ PlannedBy(t)' /\ ApartBy(t)' /\ ~Pruning(t)'
      BY <1>2, <1>7, ReturnCall DEF Drop
  <2>2. PICK c : call' = [call EXCEPT ![t] = c] /\ (c = Idle \/ c.logger = call[t].logger)
      BY <1>2, <1>7, ReturnCall DEF Drop
  <2>3. Proceeds(t)
      BY <1>1, <1>2, <1>7, <2>2, ProceedsIf DEF Drop
  <2>4. Total' <= Total
      BY <1>1, <1>2, <1>4, <1>5, <1>7, RenameLines
  <2>5. (overlap' => overlap) /\ (~overlap' => Alone)
      BY <1>1 DEF Invariant, Alone1
  <2>6. ASSUME Budgeted, ~strayed
        PROVE  Total' <= Allowed + MostEntries /\ Stored' <= Allowed
    <3>1. Stored <= Allowed /\ KnownBy(t)
        BY <1>2, <2>6, SpareNow
    <3>2. Stored = Total
        BY <1>1, <1>2, <3>1, TotalIs DEF KnownBy, At
    <3>3. PICK d \in Nat, e \in Nat : d = Allowed /\ e = MostEntries
        BY AllowedIs DEF Spare
    <3>4. PICK x \in Nat, y \in Nat, z \in Nat :
                 x = Total' /\ y = Stored' /\ z = Total /\ y <= x
        BY <1>2, TotalIs, TotalNext
    <3>5. x <= z /\ y <= x /\ z <= d
        BY <2>4, <3>1, <3>2, <3>3, <3>4
    <3>6. x <= d + e /\ y <= d
        BY <3>3, <3>5
    <3> QED
        BY <3>3, <3>4, <3>6
  <2> QED
      BY <1>1, <2>1, <2>3, <2>5, <2>6, SpareOn
<1>8. CASE Drop(t) /\ UNCHANGED dir
    BY <1>1, <1>2, <1>8, SpareDrop DEF disk
<1> QED
    BY <1>3, <1>5, <1>6, <1>7, <1>8 DEF Rollback

\* The line takes the room there was for it, and lengthens no archive (write_line_locked).
LEMMA WriteSpares ==
    ASSUME Invariant, Spare, Types', NEW t \in Threads, Write(t) PROVE Spare'
<1>1. /\ At(t, {"write"}) /\ Return(t)
      /\ UNCHANGED <<dir, session, config, second, overlap, budget>>
    BY DEF Write
<1>2. Holding(t) /\ Busy(t) /\ ~Pruning(t) /\ Inking(t) /\ Types
    BY <1>1 DEF Holding, Busy, At, Pruning, Inking, Invariant
<1>3. PICK w : w = Writer(t)
    OBVIOUS
<1>4. /\ w \in Writers /\ w.file \in DOMAIN data
      /\ ~w.append => w.pos <= Len(data[w.file])
    BY <1>1, <1>2, <1>3, Held DEF At, Fits
<1>5. data' = [data EXCEPT ![w.file] = Put(@, w, used.lines + 1)]
    BY <1>3 DEF Write, OnDiskFrom, NewLine
<1>6. PICK v : SetWriter(t, v)
    BY <1>3 DEF Write
<1>7. PICK c : call' = [call EXCEPT ![t] = c] /\ (c = Idle \/ c.logger = call[t].logger)
    BY <1>1, <1>2, ReturnCall
<1>8. Proceeds(t)
    BY <1>1, <1>2, <1>6, <1>7, ProceedsIf
<1>9. FreshBy(t)' /\ ~Inking(t)' /\ PlannedBy(t)' /\ ApartBy(t)' /\ ~Pruning(t)'
    BY <1>1, <1>2, ReturnCall
<1>10. /\ Total' <= Total + 1
       /\ (\A k \in Archives : dir[k] # w.file) => Stored' <= Stored
    BY <1>1, <1>2, <1>4, <1>5, WriteLines
<1>11. (overlap' => overlap) /\ (~overlap' => Alone)
    BY <1>1 DEF Invariant, Alone1
<1>12. ASSUME Budgeted, ~strayed
       PROVE  Total' <= Allowed + MostEntries /\ Stored' <= Allowed
  <2>1. ~overlap /\ Stored <= Allowed /\ Total + 1 <= Allowed + MostEntries
      BY <1>2, <1>12, SpareNow
  <2>2. ApartBy(t)
      BY <1>12, <2>1 DEF Spare
  <2>3. Stored' <= Stored
      BY <1>1, <1>3, <1>10, <2>2 DEF ApartBy
  <2>4. PICK a \in Nat, e \in Nat : a = Allowed /\ e = MostEntries
      BY AllowedIs DEF Spare
  <2>5. PICK x \in Nat, y \in Nat, z \in Nat, q \in Nat :
               x = Total' /\ y = Stored' /\ z = Total /\ q = Stored
      BY <1>2, TotalIs, TotalNext
  <2>6. x <= z + 1 /\ z + 1 <= a + e /\ y <= q /\ q <= a
      BY <1>10, <2>1, <2>3, <2>4, <2>5
  <2>7. x <= a + e /\ y <= a
      BY <2>6
  <2> QED
      BY <2>4, <2>5, <2>7
<1> QED
    BY <1>1, <1>8, <1>9, <1>11, <1>12, SpareOn

\* A file operation fails: a pruning is cut short, or nothing is added; a line that is tried
\* once more had its room before.
LEMMA FailSpares ==
    ASSUME Invariant, Spare, Types', NEW t \in Threads, Fail(t) PROVE Spare'
<1>1. /\ UNCHANGED <<disk, session, config, second, owed, overlap>>
      /\ IF Pruning(t) THEN PruningCut ELSE PruningGoesOn
    BY DEF Fail
<1>2. Types /\ (overlap' => overlap) /\ (~overlap' => Alone)
    BY <1>1 DEF Invariant, Alone1
<1>3. Total' = Total /\ Stored' = Stored
    BY <1>1, StayLines
<1>4. ~Pruning(t) => UNCHANGED budget
    BY <1>1 DEF PruningGoesOn
<1>5. CASE At(t, {"open", "create", "rotate", "rollback"}) /\ Drop(t)
  <2>1. Holding(t) /\ ~Pruning(t)
      BY <1>5 DEF Holding, Pruning, At
  <2> QED
      BY <1>1, <1>4, <1>5, <2>1, SpareDrop
<1>6. CASE At(t, {"remove"}) /\ call' = [call EXCEPT ![t] = Idle] /\ UNCHANGED active
  <2>1. ~Pruning(t)
      BY <1>6 DEF Pruning, At
  <2>2. \A u \in Threads : \/ call'[u] = call[u] /\ Writer(u)' = Writer(u)
                           \/ call'[u].at \in {"idle", "remove"} /\ ~Pruning(u)
    <3>1. call'[t].at = "idle"
        BY <1>2, <1>6 DEF Types, CallsOK, Idle
    <3>2. \A u \in Threads \ {t} : call'[u] = call[u] /\ Writer(u)' = Writer(u)
        BY <1>2, <1>6 DEF Types, CallsOK, Writer
    <3> QED
        BY <2>1, <3>1, <3>2
  <2> QED
      BY <1>1, <1>4, <2>1, <2>2, SpareAside
<1>7. CASE /\ At(t, {"roll"}) /\ call[t].doomed # <<>>
           /\ call' = [call EXCEPT ![t].doomed = <<>>] /\ UNCHANGED active
  <2>1. Holding(t) /\ Busy(t) /\ Pruning(t)
      BY <1>7 DEF Holding, Busy, Pruning, At
  <2>2. call[t] \in LogCalls
      BY <1>2, <2>1, Held
  <2>3. PICK c : c = [call[t] EXCEPT !.doomed = <<>>]
      OBVIOUS
  <2>4. c.logger = call[t].logger /\ c.at = "roll" /\ c.doomed = <<>>
      BY <1>7, <2>2, <2>3 DEF LogCalls, At
  <2>5. call' = [call EXCEPT ![t] = c]
      BY <1>2, <1>7, <2>3 DEF Types, CallsOK
  <2>6. PICK w : w = Writer(t)
      OBVIOUS
  <2>7. Proceeds(t) /\ call'[t] = c
      BY <1>1, <1>2, <1>7, <2>1, <2>4, <2>5, <2>6, ActiveStays, ProceedsIf
  <2> QED
      BY <1>1, <2>1, <2>4, <2>7, CutSpares
<1>8. CASE At(t, {"roll"}) /\ call[t].doomed = <<>> /\ Goto(t, "rollback") /\ UNCHANGED active
  <2>1. Holding(t) /\ Busy(t) /\ ~Pruning(t)
      BY <1>8 DEF Holding, Busy, Pruning, At
  <2>2. call'[t].at = "rollback"
      BY <1>2, <1>8, <2>1, GotoCall DEF Places
  <2>3. PICK c \in LogCalls : call' = [call EXCEPT ![t] = c] /\ c.logger = call[t].logger
      BY <1>2, <1>8, <2>1, GotoIs DEF Places
  <2>4. PICK w : w = Writer(t)
      OBVIOUS
  <2>5. Proceeds(t)
      BY <1>1, <1>2, <1>8, <2>1, <2>3, <2>4, ActiveStays, ProceedsIf
  <2>6. FreshBy(t)' /\ PlannedBy(t)' /\ ApartBy(t)' /\ ~Inking(t)'
      BY <2>2 DEF FreshBy, PlannedBy, ApartBy, Inking, At
  <2>7. ASSUME Budgeted, ~strayed
        PROVE  Total' <= Allowed + MostEntries /\ Stored' <= Allowed
      BY <1>3, <2>1, <2>7, SpareNow
  <2> QED
      BY <1>2, <1>4, <2>1, <2>5, <2>6, <2>7, SpareOn
<1>9. CASE /\ At(t, {"write"}) /\ ~call[t].again
           /\ call' = [call EXCEPT ![t].at = "open", ![t].again = TRUE]
           /\ SetWriter(t, NoFile)
  <2>1. Holding(t) /\ Busy(t) /\ ~Pruning(t) /\ Inking(t)
      BY <1>9 DEF Holding, Busy, Pruning, Inking, At
  <2>2. call[t] \in LogCalls
      BY <1>2, <2>1, Held
  <2>3. PICK c : c = [call[t] EXCEPT !.at = "open", !.again = TRUE]
      OBVIOUS
  <2>4. c.at = "open" /\ c.logger = call[t].logger
      BY <2>2, <2>3 DEF LogCalls
  <2>5. call' = [call EXCEPT ![t] = c]
      BY <1>2, <1>9, <2>3 DEF Types, CallsOK
  <2>6. Proceeds(t) /\ call'[t] = c
      BY <1>1, <1>2, <1>9, <2>1, <2>4, <2>5, ProceedsIf
  <2>7. FreshBy(t)' /\ PlannedBy(t)' /\ ApartBy(t)'
      BY <2>4, <2>6 DEF FreshBy, PlannedBy, ApartBy, At
  <2>8. ASSUME Budgeted, ~strayed
        PROVE  /\ Total' <= Allowed + MostEntries /\ Stored' <= Allowed
               /\ Total' + 1 <= Allowed + MostEntries
      BY <1>3, <2>1, <2>8, SpareNow
  <2> QED
      BY <1>2, <1>4, <2>1, <2>6, <2>7, <2>8, SpareOn
<1>10. CASE At(t, {"write"}) /\ SetWriter(t, [Writer(t) EXCEPT !.index = @ + 1]) /\ Return(t)
  <2>1. Holding(t) /\ Busy(t) /\ ~Pruning(t)
      BY <1>10 DEF Holding, Busy, Pruning, At
  <2>2. PICK v : SetWriter(t, v)
      BY <1>10
  <2>3. PICK c : call' = [call EXCEPT ![t] = c] /\ (c = Idle \/ c.logger = call[t].logger)
      BY <1>2, <1>10, <2>1, ReturnCall
  <2>4. Proceeds(t)
      BY <1>1, <1>2, <2>1, <2>2, <2>3, ProceedsIf
  <2>5. FreshBy(t)' /\ ~Inking(t)' /\ PlannedBy(t)' /\ ApartBy(t)'
      BY <1>2, <1>10, <2>1, ReturnCall
  <2>6. ASSUME Budgeted, ~strayed
        PROVE  Total' <= Allowed + MostEntries /\ Stored' <= Allowed
      BY <1>3, <2>1, <2>6, SpareNow
  <2> QED
      BY <1>2, <1>4, <2>1, <2>4, <2>5, <2>6, SpareOn
<1> QED
    BY <1>5, <1>6, <1>7, <1>8, <1>9, <1>10 DEF Fail

\* A call begins (ensure_logging_session).
LEMMA LogSpares ==
    ASSUME Invariant, Spare, Types', NEW t \in Threads, Log(t) PROVE Spare'
<1>1. /\ At(t, {"idle"}) /\ call' = [call EXCEPT ![t] = Logging(session, FALSE)]
      /\ UNCHANGED <<disk, active, overlap, budget>>
    BY DEF Log
<1>2. call'[t].at = "lock" /\ ~call'[t].again /\ ~Pruning(t)
    BY <1>1 DEF Logging, Pruning, At, Invariant, Types, CallsOK
<1>3. \A u \in Threads \ {t} : call'[u] = call[u] /\ Writer(u)' = Writer(u)
    BY <1>1 DEF Invariant, Types, CallsOK, Writer
<1> QED
    BY <1>1, <1>2, <1>3, SpareAside

\* With a Logger that is still at work another strays; otherwise nothing is in any hand
\* (ensure_logging_session).
LEMMA InstallSpares ==
    ASSUME Invariant, Spare, Types', NEW t \in Threads, Install(t) PROVE Spare'
<1>1. /\ At(t, {"idle"}) /\ UNCHANGED <<disk, cut>>
      /\ call' = [call EXCEPT ![t] = Logging(session', session # 0)]
    BY DEF Install
<1>2. PICK late \in BOOLEAN :
        /\ late <=> \E u \in Threads : ~At(u, {"idle", "remove"})
        /\ overlap' = (overlap \/ late) /\ strayed' = (strayed \/ late)
    BY DEF Install
<1>3. /\ call'[t].at = "lock" /\ ~call'[t].again /\ ~Pruning(t)
      /\ \A u \in Threads \ {t} : call'[u] = call[u]
    BY <1>1 DEF Logging, Pruning, At, Invariant, Types, CallsOK
<1>4. overlap \in BOOLEAN /\ strayed \in BOOLEAN
    BY DEF Invariant, Alone1, Spare
<1>5. CASE late
  <2>1. \A u \in Threads : FreshBy(u)'
      BY <1>3 DEF Spare, FreshBy, At
  <2>2. overlap' = TRUE /\ strayed' = TRUE /\ cut' \in Nat
      BY <1>1, <1>2, <1>5 DEF Spare
  <2> QED
      BY <2>1, <2>2 DEF Spare
<1>6. CASE ~late
  <2>1. UNCHANGED <<budget, overlap>>
      BY <1>1, <1>2, <1>4, <1>6 DEF budget
  <2>2. \A u \in Threads \ {t} : call'[u].at \in {"idle", "remove"} /\ ~Pruning(u)
      BY <1>2, <1>3, <1>6 DEF At, Pruning
  <2> QED
      BY <1>1, <1>3, <2>1, <2>2, SpareAside
<1> QED
    BY <1>5, <1>6

\* The Logger lets go of a file that is to be deleted; no thread has it in hand
\* (delete_session_log_files).
LEMMA ReleaseSpares ==
    ASSUME Invariant, Spare, Types', NEW t \in Threads, Release(t) PROVE Spare'
<1>1. /\ At(t, {"idle"}) /\ ~Locked(session) /\ UNCHANGED <<disk, overlap, budget>>
    BY DEF Release
<1>2. PICK names :
        /\ call' = [call EXCEPT ![t] = [at |-> "remove", logger |-> session, names |-> names]]
        /\ active' = [g \in Loggers |->
                        IF g = session /\ Releases(g, names) THEN NoFile ELSE active[g]]
    BY DEF Release
<1>3. /\ call'[t].at = "remove" /\ ~Pruning(t)
      /\ \A u \in Threads \ {t} : call'[u] = call[u]
    BY <1>1, <1>2 DEF Pruning, At, Invariant, Types, CallsOK
<1>4. \A u \in Threads : Holding(u) => call[u].logger # session /\ call[u].logger \in Loggers
    BY <1>1, CallFacts DEF Locked, Holding, At, Busy, Invariant
<1>5. \A u \in Threads \ {t} : Holding(u) => Writer(u)' = Writer(u)
    BY <1>2, <1>3, <1>4 DEF Writer
<1> QED
    BY <1>1, <1>3, <1>5, SpareAside

\* A file that is deleted takes its lines with it (delete_session_log_files).
LEMMA RemoveSpares ==
    ASSUME Invariant, Spare, Types', NEW t \in Threads, Remove(t) PROVE Spare'
<1>1. /\ At(t, {"remove"})
      /\ UNCHANGED <<data, session, config, active, second, used, overlap, budget>>
    BY DEF Remove
<1>2. Types
    BY DEF Invariant
<1>3. PICK n \in Names :
             /\ dir' = Unlinked(n)
             /\ call'[t] = Idle \/ call'[t] \in RemoveCalls
             /\ \A u \in Threads \ {t} :
                  /\ call'[u] = call[u] \/ call'[u] = [call[u] EXCEPT !.crossed = TRUE]
                  /\ call'[u] # call[u] => At(u, {"write"})
    BY <1>2, RemoveIs
<1>4. /\ DOMAIN dir' = DOMAIN dir \ {n} /\ \A k \in DOMAIN dir' : dir'[k] = dir[k]
      /\ Archives' \subseteq Archives /\ Total' <= Total /\ Stored' <= Stored
    BY <1>1, <1>2, <1>3, UnlinkLines
<1>5. ASSUME NEW u \in Threads \ {t}
      PROVE  /\ call'[u].at = call[u].at /\ call'[u].logger = call[u].logger
             /\ call'[u].doomed = call[u].doomed /\ call'[u].again = call[u].again
  <2>1. CASE call'[u] = call[u]
      BY <2>1
  <2>2. CASE call'[u] # call[u]
    <3>1. call[u] \in LogCalls
        BY <1>2, <1>3, <2>2, Held DEF Busy, At
    <3> QED
        BY <1>3, <3>1, CrossedIs
  <2> QED
      BY <2>1, <2>2
<1>6. call'[t].at \in {"idle", "remove"}
    BY <1>3 DEF Idle, RemoveCalls
<1>7. ASSUME NEW u \in Threads, PlannedBy(u) PROVE PlannedBy(u)'
  <2> SUFFICES ASSUME At(u, {"roll"})', call'[u].doomed # <<>>
               PROVE  LineCount(DOMAIN dir \ Range(call[u].doomed))' <= MostKept'
      BY DEF PlannedBy
  <2>1. u # t
      BY <1>6 DEF At
  <2>2. At(u, {"roll"}) /\ call'[u].doomed = call[u].doomed
      BY <1>5, <2>1 DEF At
  <2>3. PICK d : d = call[u].doomed
      OBVIOUS
  <2>4. PICK all, left : all = DOMAIN dir \ Range(d) /\ left = DOMAIN dir' \ Range(d)
      OBVIOUS
  <2>5. LineCount(all) <= MostKept
      BY <1>7, <2>2, <2>3, <2>4 DEF PlannedBy
  <2>6. /\ LineCount(left)' \in Nat /\ LineCount(all) \in Nat
        /\ LineCount(left)' <= LineCount(all)
    <3>1. /\ all \subseteq DOMAIN dir /\ left \subseteq all /\ left \subseteq DOMAIN dir'
          /\ \A k \in left : dir'[k] = dir[k]
        BY <1>4, <2>4
    <3> QED
        BY <1>1, <1>2, <3>1, FewerLines
  <2>7. LineCount(left)' <= MostKept
      BY <2>5, <2>6, MostIs
  <2>8. (DOMAIN dir \ Range(call[u].doomed))' = left
      BY <2>2, <2>3, <2>4
  <2>9. LineCount(DOMAIN dir \ Range(call[u].doomed))' = LineCount(left)'
      BY <2>8 DEF LineCount, Content
  <2> QED
      BY <2>7, <2>9, MostStays
<1>8. ASSUME NEW u \in Threads, ApartBy(u) PROVE ApartBy(u)'
  <2> SUFFICES ASSUME At(u, {"write"})', NEW k \in Archives'
               PROVE  dir'[k] # Writer(u).file'
      BY DEF ApartBy
  <2>1. u # t
      BY <1>6 DEF At
  <2>2. At(u, {"write"}) /\ Writer(u)' = Writer(u)
      BY <1>1, <1>5, <2>1 DEF At, Writer
  <2>3. k \in Archives /\ dir'[k] = dir[k]
      BY <1>4 DEF Archives
  <2> QED
      BY <1>8, <2>2, <2>3 DEF ApartBy
<1>9. ASSUME NEW u \in Threads
      PROVE  /\ Pruning(u) => Pruning(u)'
             /\ Inking(u)' => Inking(u)
             /\ FreshBy(u)'
  <2>1. CASE u = t
      BY <1>1, <1>6, <2>1 DEF Pruning, Inking, FreshBy, At
  <2>2. CASE u # t
      BY <1>5, <2>2 DEF Pruning, Inking, Spare, FreshBy, At
  <2> QED
      BY <2>1, <2>2
<1> QED
    BY <1>1, <1>4, <1>7, <1>8, <1>9, SpareBeside

\* A crash cuts short the pruning that was under way.
LEMMA CrashSpares ==
    ASSUME Invariant, Spare, Types', Crash PROVE Spare'
<1>1. /\ call' = [t \in Threads |-> Idle] /\ UNCHANGED <<disk, overlap>>
      /\ IF \E t \in Threads : Pruning(t) THEN PruningCut ELSE PruningGoesOn
    BY DEF Crash
<1>2. \A u \in Threads : FreshBy(u)' /\ PlannedBy(u)' /\ ApartBy(u)' /\ ~Inking(u)'
    BY <1>1 DEF Idle, FreshBy, PlannedBy, ApartBy, Inking, At
<1>3. Total' = Total /\ Stored' = Stored
    BY <1>1, StayLines
<1>4. /\ cut' \in Nat /\ strayed' = strayed /\ strayed \in BOOLEAN /\ (overlap' => strayed')
      /\ (\E t \in Threads : Pruning(t)) => Allowed' = Allowed + MostEntries
      /\ ~(\E t \in Threads : Pruning(t)) => Allowed' = Allowed
  <2>1. CASE \E t \in Threads : Pruning(t)
      BY <1>1, <2>1, CutIs DEF Spare
  <2>2. CASE ~(\E t \in Threads : Pruning(t))
      BY <1>1, <2>2, AllowedIs DEF PruningGoesOn, budget, Spare
  <2> QED
      BY <2>1, <2>2
<1>5. ASSUME Budgeted, ~strayed' PROVE Roomy'
  <2>1. /\ Total <= Allowed + MostEntries
        /\ (\A t \in Threads : ~Pruning(t)) => Stored <= Allowed
      BY <1>4, <1>5 DEF Spare, Roomy
  <2>2. PICK a \in Nat, e \in Nat : a = Allowed /\ e = MostEntries
      BY AllowedIs DEF Spare
  <2>3. PICK y \in Nat, z \in Nat : y = Stored /\ z = Total /\ y <= z
      BY TotalIs DEF Invariant
  <2>4. z <= a + e
      BY <2>1, <2>2, <2>3
  <2>5. z <= a + e + e /\ y <= a + e
      BY <2>3, <2>4
  <2>6. Total' <= Allowed' + MostEntries /\ Stored' <= Allowed'
    <3>1. CASE \E t \in Threads : Pruning(t)
        BY <1>3, <1>4, <2>2, <2>3, <2>5, <3>1
    <3>2. CASE ~(\E t \in Threads : Pruning(t))
        BY <1>3, <1>4, <2>1, <3>2
    <3> QED
        BY <3>1, <3>2
  <2> QED
      BY <1>2, <2>6, MostStays DEF Roomy
<1> QED
    BY <1>2, <1>4, <1>5, MostStays DEF Spare

\* A second passes, or nothing does.
LEMMA QuietSpares ==
    ASSUME Invariant, Spare, Types', UNCHANGED <<disk, process, overlap, budget>>
    PROVE  Spare'
<1>1. \A u \in Threads : call'[u] = call[u] /\ Writer(u)' = Writer(u)
    BY DEF process, Writer
<1> QED
    BY <1>1, SpareAside

\* The directory is empty.
LEMMA InitSpare == Init => Spare
<1> SUFFICES ASSUME Init PROVE Spare
    OBVIOUS
<1>1. DOMAIN dir = {} /\ cut = 0 /\ strayed = FALSE /\ overlap = FALSE
    BY DEF Init
<1>2. \A u \in Threads : /\ FreshBy(u) /\ PlannedBy(u) /\ ApartBy(u) /\ ~Inking(u)
    BY DEF Init, Idle, FreshBy, PlannedBy, ApartBy, Inking, At
<1>3. Total = 0 /\ Stored = 0
  <2>1. LineCount({}) = 0
      BY FS_EmptySet DEF LineCount
  <2>2. Archives = {}
      BY <1>1 DEF Archives
  <2> QED
      BY <1>1, <2>1, <2>2 DEF Total, Stored
<1>4. Allowed \in Nat /\ MostEntries \in Nat
    BY <1>1, AllowedIs
<1>5. Roomy
  <2>1. PICK a \in Nat, e \in Nat : a = Allowed /\ e = MostEntries
      BY <1>4
  <2>2. 0 <= a + e /\ 0 <= a
      OBVIOUS
  <2> QED
      BY <1>2, <1>3, <2>1, <2>2 DEF Roomy
<1> QED
    BY <1>1, <1>2, <1>5 DEF Spare

\* The line is left in the buffer, where there was room for it (write_line_locked).
LEMMA WriteUnflushedSpares ==
    ASSUME Invariant, Spare, Types', NEW t \in Threads, WriteUnflushed(t) PROVE Spare'
<1>1. /\ At(t, {"write"}) /\ Return(t)
      /\ UNCHANGED <<disk, session, config, second, owed, overlap, budget>>
    BY DEF WriteUnflushed
<1>2. Holding(t) /\ Busy(t) /\ ~Pruning(t) /\ Types
    BY <1>1 DEF Holding, Busy, At, Pruning, Invariant
<1>3. PICK v : SetWriter(t, v)
    BY DEF WriteUnflushed
<1>4. PICK c : call' = [call EXCEPT ![t] = c] /\ (c = Idle \/ c.logger = call[t].logger)
    BY <1>1, <1>2, ReturnCall
<1>5. Proceeds(t)
    BY <1>1, <1>2, <1>3, <1>4, ProceedsIf
<1>6. FreshBy(t)' /\ ~Inking(t)' /\ PlannedBy(t)' /\ ApartBy(t)'
    BY <1>1, <1>2, ReturnCall
<1>7. (overlap' => overlap) /\ (~overlap' => Alone) /\ Total' = Total /\ Stored' = Stored
    BY <1>1, StayLines DEF Invariant, Alone1
<1>8. ASSUME Budgeted, ~strayed
      PROVE  Total' <= Allowed + MostEntries /\ Stored' <= Allowed
    BY <1>2, <1>7, <1>8, SpareNow
<1> QED
    BY <1>1, <1>5, <1>6, <1>7, <1>8, SpareOn

\* What a later flush finds while no Logger strays.
LEMMA FlushFinds ==
    ASSUME Invariant, Spare, Stocked, Budgeted, ~strayed, NEW g \in Loggers, Flush(g)
    PROVE  /\ ~overlap /\ Alone /\ g = session /\ session # 0
           /\ WaitingFit(active[g])
           /\ \A u \in Threads : Busy(u) => call[u].logger = g
           /\ \A u \in Threads : ~At(u, {"open", "create", "prune", "roll", "rollback"})
<1>1. ~overlap /\ Alone
    BY DEF Spare, Invariant, Alone1
<1>2. \A u \in Threads : Busy(u) => call[u].logger = session
    BY <1>1 DEF Alone, Superseded, Busy
<1>3. g = session /\ session # 0
    BY <1>1 DEF Flush, Alone, Loggers
<1>4. active[g] # NoFile /\ active[g].ram # 0
    BY DEF Flush
<1>5. WaitingFit(active[g])
    BY <1>3, <1>4 DEF Stocked, Waiting
<1>6. ASSUME NEW u \in Threads, Busy(u)
      PROVE  ~At(u, {"open", "create", "prune", "roll", "rollback"})
    BY <1>2, <1>3, <1>4, <1>6, Held DEF Fits, At, Writer, Invariant
<1> QED
    BY <1>1, <1>2, <1>3, <1>5, <1>6 DEF Busy, At

\* A line that reaches the disk late takes the room that was kept for it (write_line_locked).
LEMMA FlushSpares ==
    ASSUME Invariant, Spare, Stocked, Types', NEW g \in Loggers, Flush(g) PROVE Spare'
<1>1. PICK w \in Writers, v \in Writers :
              /\ w = active[g] /\ w.file \in DOMAIN data
              /\ ~w.append => w.pos <= Len(data[w.file])
              /\ w.ram \in Nat /\ w.ram # 0
              /\ data' = [data EXCEPT ![w.file] = Put(@, w, used.lines + 1)]
              /\ active' = [active EXCEPT ![g] = v]
              /\ v.file = w.file
              /\ UNCHANGED <<dir, session, config, call, second, overlap, budget>>
    BY FlushIs DEF Invariant
<1>2. /\ Total' <= Total + 1
      /\ (\A k \in Archives : dir[k] # w.file) => Stored' <= Stored
    BY <1>1, WriteLines DEF Invariant
<1>3. cut' = cut /\ strayed' = strayed /\ overlap' = overlap /\ Allowed' = Allowed
    BY <1>1, AllowedIs DEF budget, Spare
<1>4. \A u \in Threads : FreshBy(u)'
    BY <1>1 DEF Spare, FreshBy, At
<1>5. active'[g] = v /\ Archives' = Archives /\ dir' = dir
    BY <1>1 DEF Invariant, Types, WritersOK, Archives, Currents
<1>6. ASSUME Budgeted, ~overlap, NEW u \in Threads PROVE PlannedBy(u)' /\ ApartBy(u)'
  <2>1. Alone /\ g = session
      BY <1>6 DEF Invariant, Alone1, Flush, Alone
  <2>2. Busy(u) => call[u].logger = g
      BY <2>1 DEF Alone, Superseded, Busy
  <2>3. ~At(u, {"roll"})
      BY <1>1, <2>2, Held DEF Fits, At, Busy, Writer, Invariant
  <2>4. At(u, {"write"}) => Writer(u) = w /\ Writer(u)' = v
      BY <1>1, <1>5, <2>2 DEF At, Busy, Writer
  <2>5. ApartBy(u)
      BY <1>6 DEF Spare
  <2> QED
      BY <1>1, <1>5, <2>3, <2>4, <2>5 DEF PlannedBy, ApartBy, At
<1>7. ASSUME Budgeted, ~strayed PROVE Roomy'
  <2>1. WaitingFit(w) /\ \A u \in Threads : ~At(u, {"open"})
      BY <1>1, <1>7, FlushFinds DEF At
  <2>2. PICK b \in Nat, a \in Nat, e \in Nat :
               b = Allowed + MostEntries /\ a = Allowed /\ e = MostEntries
      BY AllowedIs DEF Spare
  <2>3. PICK x \in Nat, y \in Nat, z \in Nat, q \in Nat :
               x = Total' /\ y = Stored' /\ z = Total /\ q = Stored
      BY TotalIs, TotalNext DEF Invariant
  <2>4. PICK r \in Nat : r = w.ram /\ r # 0
      BY <1>1
  <2>5. x <= z + 1 /\ y <= q /\ z + r <= b
      BY <1>2, <2>1, <2>2, <2>3, <2>4 DEF WaitingFit
  <2>6. x <= b
      BY <2>4, <2>5
  <2>7. Total' <= Allowed' + MostEntries'
      BY <1>3, <2>2, <2>3, <2>6, MostStays
  <2>8. ASSUME \A u \in Threads : ~Pruning(u)' PROVE Stored' <= Allowed'
    <3>1. \A u \in Threads : ~Pruning(u)
        BY <1>1, <2>8 DEF Pruning, At
    <3>2. q <= a
        BY <1>7, <2>2, <2>3, <3>1 DEF Spare, Roomy
    <3>3. y <= a
        BY <2>5, <3>2
    <3> QED
        BY <1>3, <2>2, <2>3, <3>3
  <2>9. ASSUME NEW u \in Threads, Inking(u)' PROVE Total' + 1 <= Allowed' + MostEntries'
    <3>1. At(u, {"write"})
        BY <1>1, <2>1, <2>9 DEF Inking, At
    <3>2. z + r + 1 <= b
        BY <2>1, <2>2, <2>3, <2>4, <3>1 DEF WaitingFit
    <3>3. x + 1 <= b
        BY <2>4, <2>5, <3>2
    <3> QED
        BY <1>3, <2>2, <2>3, <3>3, MostStays
  <2> QED
      BY <2>7, <2>8, <2>9 DEF Roomy
<1> QED
    BY <1>3, <1>4, <1>6, <1>7, MostStays DEF Spare

-----------------------------------------------------------------------------
\* THE LINES IN THE BUFFER

\* The file that a call gives its Logger.
LEMMA SetIs ==
    ASSUME Types, NEW t \in Threads, Busy(t), NEW v, SetWriter(t, v)
    PROVE  active'[call[t].logger] = v
BY Held DEF SetWriter, Types, WritersOK

\* A step after which nothing waits in the buffer of the Logger of a call.
LEMMA Dries ==
    ASSUME Invariant, NEW t \in Threads, Busy(t), session' = session, ~strayed' => ~overlap,
           ~Waiting(active'[call[t].logger])
    PROVE  Stocked'
<1> SUFFICES ASSUME ~strayed' PROVE ~Waiting(active'[session'])
    BY DEF Stocked, Waiting
<1>1. Alone
    BY DEF Invariant, Alone1
<1>2. call[t].logger = session
    BY <1>1 DEF Alone, Superseded, Busy
<1> QED
    BY <1>2

\* A call that gives its Logger another file, or none.
LEMMA SetDries ==
    ASSUME Invariant, Spare, NEW t \in Threads, Busy(t), UNCHANGED <<session, budget>>,
           NEW v, SetWriter(t, v), ~Waiting(v)
    PROVE  Stocked'
<1>1. active'[call[t].logger] = v
    BY SetIs DEF Invariant
<1>2. ~strayed' => ~overlap
    BY DEF Spare, budget
<1> QED
    BY <1>1, <1>2, Dries

\* A call that has no line in the buffer, and leaves it so.
LEMMA StaysDry ==
    ASSUME Invariant, NEW t \in Threads, Busy(t), UNCHANGED <<session, active>>,
           ~strayed' => ~overlap, ~Waiting(Writer(t))
    PROVE  Stocked'
BY Dries DEF Writer

\* A step that leaves what waits, takes no room and brings no thread before a line.
LEMMA StockedStays ==
    ASSUME Invariant, Spare, Stocked, Types', UNCHANGED <<session, budget>>,
           NEW v, session # 0 => v = active'[session],
           session # 0 /\ v # NoFile => /\ active[session] # NoFile
                                        /\ v.file = active[session].file
                                        /\ v.ram = active[session].ram,
           Archives' \subseteq Archives, \A n \in Archives' : dir'[n] = dir[n],
           Total' <= Total,
           \A u \in Threads : At(u, {"write"})' => At(u, {"write"})
    PROVE  Stocked'
<1> SUFFICES ASSUME Budgeted, ~strayed, session # 0, v # NoFile, v.ram # 0
             PROVE  WaitingFit(active[session])'
    BY MostStays DEF Stocked, Waiting, budget
<1>1. PICK w \in Writers : w = active[session] /\ w # NoFile /\ v.file = w.file /\ v.ram = w.ram
    BY DEF Invariant, Types, WritersOK, SettingsOK, Loggers
<1>2. WaitingFit(w)
    BY <1>1 DEF Stocked, Waiting
<1>3. Allowed' = Allowed /\ MostEntries' = MostEntries
    BY AllowedIs, MostStays DEF Spare, budget
<1>4. PICK b \in Nat : b = Allowed + MostEntries
    BY AllowedIs DEF Spare
<1>5. PICK x \in Nat, z \in Nat, r \in Nat : x = Total' /\ z = Total /\ r = w.ram /\ x <= z
    BY <1>1, TotalIs, TotalNext, WriterParts DEF Invariant
<1>6. z + r <= b /\ \A u \in Threads : At(u, {"write"}) => z + r + 1 <= b
    BY <1>2, <1>4, <1>5 DEF WaitingFit
<1>7. x + r <= b /\ \A u \in Threads : At(u, {"write"})' => x + r + 1 <= b
  <2>1. x + r <= b
      BY <1>5, <1>6
  <2>2. ASSUME NEW u \in Threads, At(u, {"write"})' PROVE x + r + 1 <= b
    <3>1. z + r + 1 <= b
        BY <1>6, <2>2
    <3> QED
        BY <1>5, <3>1
  <2> QED
      BY <2>1, <2>2
<1>8. \A n \in Archives' : dir'[n] # w.file
    BY <1>2 DEF WaitingFit
<1>9. active'[session'] = v
    OBVIOUS
<1>10. Total' + v.ram <= Allowed' + MostEntries'
    BY <1>1, <1>3, <1>4, <1>5, <1>7
<1>11. ASSUME NEW u \in Threads, At(u, {"write"})'
       PROVE  Total' + v.ram + 1 <= Allowed' + MostEntries'
    BY <1>1, <1>3, <1>4, <1>5, <1>7, <1>11
<1> QED
    BY <1>1, <1>8, <1>9, <1>10, <1>11 DEF WaitingFit

\* The same of a step that leaves the directory.
LEMMA StockedAside ==
    ASSUME Invariant, Spare, Stocked, Types', UNCHANGED <<disk, session, budget>>,
           NEW v, session # 0 => v = active'[session],
           session # 0 /\ v # NoFile => /\ active[session] # NoFile
                                        /\ v.file = active[session].file
                                        /\ v.ram = active[session].ram,
           \A u \in Threads : At(u, {"write"})' => At(u, {"write"})
    PROVE  Stocked'
<1>1. /\ Total' = Total /\ Archives' = Archives /\ \A n \in Archives : dir'[n] = dir[n]
      /\ Total' <= Total
    BY StayLines, TotalIs DEF disk, Invariant
<1> QED
    BY <1>1, StockedStays

\* A Logger is installed: its buffer is empty, or it strays (ensure_logging_session).
LEMMA InstallStocks ==
    ASSUME Invariant, Spare, NEW t \in Threads, Install(t) PROVE Stocked'
<1>1. PICK late \in BOOLEAN :
        /\ active' = [g \in Loggers |-> IF late THEN active[g] ELSE NoFile]
        /\ strayed' = (strayed \/ late)
        /\ session' = session + 1 /\ session < MaxLoggers
    BY DEF Install
<1>2. session' \in Loggers
    BY <1>1, LogAssumption DEF Invariant, Types, SettingsOK, Loggers
<1>3. ~strayed' => active'[session'] = NoFile
    BY <1>1, <1>2
<1> QED
    BY <1>3 DEF Stocked, Waiting

\* The mutex is taken: a file that is not full has room for the lines that wait and for one
\* more, for its Logger has counted them (write_line_locked).
LEMMA EnterStocks ==
    ASSUME Invariant, Spare, Stocked, Types', NEW t \in Threads, Enter(t) PROVE Stocked'
<1>1. /\ At(t, {"lock"}) /\ ~Locked(call[t].logger)
      /\ UNCHANGED <<disk, session, config, second, used, owed, overlap, budget>>
    BY DEF Enter
<1>2. Busy(t) /\ Types
    BY <1>1 DEF Busy, At, Invariant
<1>3. CASE Linked(Writer(t)) /\ Goto(t, Ready(t, Writer(t))) /\ UNCHANGED active
  <2> SUFFICES ASSUME Budgeted, ~strayed, session # 0, Waiting(active[session])
               PROVE  WaitingFit(active[session])'
      BY <1>1, <1>3, MostStays DEF Stocked, budget
  <2>1. /\ ~overlap /\ Alone /\ Known(Writer(t)) /\ OneCurrent /\ ~Pruning(t)
        /\ ~Pruning(t) => Stored <= Allowed
      BY <1>1, <1>2, SpareNow DEF Pruning, At
  <2>2. call[t].logger = session
      BY <1>2, <2>1 DEF Alone, Superseded, Busy
  <2>3. PICK w \in Writers : /\ w = active[session] /\ w = Writer(t)
                             /\ w.name \in DOMAIN dir /\ w.name.current
      BY <1>2, <1>3, <2>2, Held DEF Linked, Writer
  <2>4. WaitingFit(w)
      BY <2>3 DEF Stocked
  <2>5. /\ Total' = Total /\ Archives' = Archives /\ dir' = dir
        /\ Allowed' = Allowed /\ MostEntries' = MostEntries
      BY <1>1, StayLines, AllowedIs, MostStays DEF disk, budget, Spare
  <2>6. PICK p \in {"rotate", "write"} : p = Ready(t, w)
      BY DEF Ready
  <2>7. call'[t].at = p /\ \A u \in Threads \ {t} : call'[u] = call[u]
      BY <1>2, <1>3, <2>3, <2>6, GotoCall DEF Places
  <2>8. \A u \in Threads \ {t} : ~At(u, {"write"})'
      BY <1>1, <2>1, <2>2, <2>7 DEF Alone, Superseded, Locked, At
  <2>9. ASSUME p = "write" PROVE Total + w.ram + 1 <= Allowed + MostEntries
    <3>1. ~(w.index >= Limits(t).entries)
        BY <1>1, <2>3, <2>6, <2>9 DEF Ready, Full, Spare, FreshBy
    <3>2. w.name \in Currents
        BY <2>3 DEF Currents
    <3>3. PICK l \in Nat, q \in Nat : /\ l = Len(Content(w.name)) /\ q = Stored
                                      /\ Total = q + l
        BY <1>2, <2>1, <3>2, OneCurrentLines, TotalIs
    <3>4. PICK i \in Nat, r \in Nat : i = w.index /\ r = w.ram
        BY WriterParts
    <3>5. w # NoFile
        BY <2>3 DEF Waiting
    <3>6. i >= l + r
        BY <2>1, <2>3, <3>3, <3>4, <3>5 DEF Known, Content
    <3>7. PICK a \in Nat, e \in Nat, k \in Nat : /\ a = Allowed /\ e = MostEntries
                                                 /\ k = Limits(t).entries /\ k <= e
        BY <1>2, AllowedIs, LimitsAre DEF Spare
    <3>8. i < k /\ q <= a
        BY <2>1, <3>1, <3>3, <3>4, <3>7
    <3>9. q + l + r + 1 <= a + e
        BY <3>6, <3>7, <3>8
    <3> QED
        BY <3>3, <3>4, <3>7, <3>9
  <2>10. active'[session'] = w
      BY <1>1, <1>3, <2>3
  <2>11. \A u \in Threads : At(u, {"write"})' => Total + w.ram + 1 <= Allowed + MostEntries
      BY <2>7, <2>8, <2>9 DEF At
  <2> QED
      BY <2>4, <2>5, <2>10, <2>11 DEF WaitingFit
<1>4. CASE Goto(t, "open") /\ SetWriter(t, NoFile)
    BY <1>1, <1>2, <1>4, SetDries DEF Waiting
<1> QED
    BY <1>3, <1>4 DEF Enter

\* The file is opened again, made or let go: nothing waits for it (try_resume_current,
\* create_active_file, rotate_active).
LEMMA OpenStocks ==
    ASSUME Invariant, Spare, Stocked, Types', NEW t \in Threads,
           Resume(t) \/ Create(t) \/ Roll(t) \/ Rollback(t) \/ Rotate(t)
    PROVE  Stocked'
<1>1. Busy(t) /\ Types
    BY DEF Resume, Create, Roll, Rollback, Rotate, Busy, At, Invariant
<1>2. UNCHANGED <<session, budget>> /\ (~strayed' => ~overlap)
    BY DEF Resume, Create, Roll, Rollback, Rotate, budget, Spare
<1>3. ASSUME Created(t) PROVE Stocked'
  <2>1. PICK v : SetWriter(t, v) /\ v.ram = 0
      BY <1>3 DEF Created
  <2> QED
      BY <1>1, <1>2, <2>1, SetDries DEF Waiting
<1>4. ASSUME Drop(t) PROVE Stocked'
    BY <1>1, <1>2, <1>4, SetDries DEF Drop, Waiting
<1>5. ASSUME UNCHANGED active, At(t, {"roll", "rotate"}), Writer(t).ram = 0 PROVE Stocked'
    BY <1>1, <1>2, <1>5, StaysDry DEF Waiting
<1>6. CASE Resume(t)
  <2>1. PICK n \in Currents : SetWriter(t, Resumed(n))
      BY <1>6 DEF Resume
  <2>2. PICK v : v = Resumed(n)
      OBVIOUS
  <2>3. v.ram = 0
      BY <2>2 DEF Resumed
  <2> QED
      BY <1>1, <1>2, <2>1, <2>2, <2>3, SetDries DEF Waiting
<1>7. CASE Create(t)
    BY <1>3, <1>4, <1>7 DEF Create
<1>8. CASE Roll(t)
  <2>1. At(t, {"roll"}) /\ Writer(t).ram = 0
      BY <1>1, <1>8, Held DEF Roll, Fits, At
  <2> QED
      BY <1>3, <1>5, <1>8, <2>1 DEF Roll, At
<1>9. CASE Rollback(t)
  <2>1. PICK n, a : n = Writer(t).name /\ a = Archived(n)
      OBVIOUS
  <2>2. Drop(t) \/ SetWriter(t, [Resumed(a) EXCEPT !.name = n])
      BY <1>9, <2>1 DEF Rollback
  <2>3. PICK v : v = [Resumed(a) EXCEPT !.name = n]
      OBVIOUS
  <2>4. v.ram = 0
      BY <2>3 DEF Resumed
  <2> QED
      BY <1>1, <1>2, <1>4, <2>2, <2>3, <2>4, SetDries DEF Waiting
<1>10. CASE Rotate(t)
  <2>1. At(t, {"rotate"}) /\ Writer(t).ram = 0 /\ (UNCHANGED active \/ Drop(t))
      BY <1>10 DEF Rotate
  <2> QED
      BY <1>4, <1>5, <2>1 DEF At
<1> QED
    BY <1>6, <1>7, <1>8, <1>9, <1>10

\* No line waits while the archives are pruned, even when two Loggers are no longer at work
\* (prune_old_files).
LEMMA PruneStocks ==
    ASSUME Invariant, Spare, NEW t \in Threads, PlanPrune(t) \/ PruneOne(t)
    PROVE  Stocked'
<1>1. Busy(t) /\ Types /\ At(t, {"prune", "roll"}) /\ UNCHANGED <<session, active>>
    BY DEF PlanPrune, PruneOne, Busy, At, Invariant
<1>2. strayed' = strayed \/ strayed' = (strayed /\ overlap)
    BY DEF PlanPrune, PruneOne, PruningEnds, PruningCut, PruningGoesOn, budget
<1>3. ~strayed' => ~overlap
    BY <1>2 DEF Spare
<1>4. ~Waiting(Writer(t))
    BY <1>1, Held DEF Fits, At, Waiting
<1> QED
    BY <1>1, <1>3, <1>4, StaysDry

\* The line is written to an empty buffer, and flushed (write_line_locked).
LEMMA WriteStocks ==
    ASSUME Invariant, Spare, NEW t \in Threads, Write(t) PROVE Stocked'
<1>1. /\ At(t, {"write"}) /\ UNCHANGED <<session, budget>>
      /\ SetWriter(t, [Writer(t) EXCEPT !.index = @ + 1, !.pos = NextPos(Writer(t))])
      /\ Writer(t).ram = 0
    BY DEF Write
<1>2. Busy(t)
    BY <1>1 DEF Busy, At
<1>3. PICK w \in Writers : w = Writer(t)
    BY <1>1, <1>2, Held DEF Fits, At, Invariant
<1>4. PICK v : v = [w EXCEPT !.index = @ + 1, !.pos = NextPos(w)]
    OBVIOUS
<1>5. v.ram = 0
    BY <1>1, <1>3, <1>4, Written
<1>6. SetWriter(t, v)
    BY <1>1, <1>3, <1>4
<1> QED
    BY <1>1, <1>2, <1>5, <1>6, SetDries DEF Waiting

\* The line joins those that wait, where there was room for it (write_line_locked).
LEMMA WriteUnflushedStocks ==
    ASSUME Invariant, Spare, Stocked, Types', NEW t \in Threads, WriteUnflushed(t)
    PROVE  Stocked'
<1>1. /\ At(t, {"write"}) /\ Return(t)
      /\ SetWriter(t, [Writer(t) EXCEPT !.index = @ + 1, !.ram = @ + 1])
      /\ UNCHANGED <<disk, session, config, second, owed, overlap, budget>>
    BY DEF WriteUnflushed
<1>2. Busy(t) /\ Holding(t) /\ Types
    BY <1>1 DEF Busy, Holding, At, Invariant
<1>3. PICK w \in Writers : w = Writer(t) /\ w # NoFile
    BY <1>1, <1>2, Held DEF Fits, At
<1>4. PICK v : v = [w EXCEPT !.index = @ + 1, !.ram = @ + 1]
    OBVIOUS
<1>5. v.file = w.file /\ v.ram = w.ram + 1 /\ w.ram \in Nat
  <2>1. w \in Writers /\ w.ram \in Nat
      BY WriterParts
  <2> QED
      BY ONLY <2>1, <1>4, Unflushed
<1>6. SetWriter(t, v)
    BY <1>1, <1>3, <1>4
<1> SUFFICES ASSUME Budgeted, ~strayed, session # 0 PROVE WaitingFit(active[session])'
    BY <1>1, MostStays DEF Stocked, budget
<1>7. /\ ~overlap /\ Alone /\ (Inking(t) => Total + 1 <= Allowed + MostEntries)
      /\ ApartBy(t)
    BY <1>2, SpareNow DEF Spare
<1>8. call[t].logger = session
    BY <1>2, <1>7 DEF Alone, Superseded, Busy
<1>9. active'[session'] = v /\ active[session] = w
    BY <1>1, <1>2, <1>3, <1>6, <1>8, SetIs DEF Writer
<1>10. /\ Total' = Total /\ Archives' = Archives /\ dir' = dir
       /\ Allowed' = Allowed /\ MostEntries' = MostEntries
    BY <1>1, StayLines, AllowedIs, MostStays DEF disk, budget, Spare
<1>11. \A n \in Archives : dir[n] # w.file
    BY <1>1, <1>3, <1>7 DEF ApartBy
<1>12. PICK b \in Nat, z \in Nat, r \in Nat : b = Allowed + MostEntries /\ z = Total /\ r = w.ram
    BY <1>2, <1>5, TotalIs, AllowedIs DEF Spare
<1>13. z + (r + 1) <= b
  <2>1. CASE r = 0
      BY <1>1, <1>7, <1>12, <2>1 DEF Inking
  <2>2. CASE r # 0
    <3>1. WaitingFit(w)
        BY <1>3, <1>9, <1>12, <2>2 DEF Stocked, Waiting
    <3>2. z + r + 1 <= b
        BY <1>1, <1>12, <3>1 DEF WaitingFit
    <3> QED
        BY <3>2
  <2> QED
      BY <2>1, <2>2
<1>14. \A u \in Threads : ~At(u, {"write"})'
  <2>1. ~At(t, {"write"})' /\ \A u \in Threads \ {t} : call'[u] = call[u]
      BY <1>1, <1>2, ReturnCall DEF At
  <2>2. \A u \in Threads \ {t} : ~At(u, {"write"})
      BY <1>2, <1>7, <1>8 DEF Types, MutexOK, Holding, At, Alone, Superseded
  <2> QED
      BY <2>1, <2>2 DEF At
<1>15. Total' + v.ram <= Allowed' + MostEntries'
    BY <1>5, <1>10, <1>12, <1>13
<1> QED
    BY <1>5, <1>9, <1>10, <1>11, <1>14, <1>15 DEF WaitingFit

\* A line fewer waits, and one more is in the directory at most (write_line_locked).
LEMMA FlushStocks ==
    ASSUME Invariant, Spare, Stocked, Types', NEW g \in Loggers, Flush(g) PROVE Stocked'
<1>1. PICK w \in Writers, v \in Writers :
              /\ w = active[g] /\ w.file \in DOMAIN data
              /\ ~w.append => w.pos <= Len(data[w.file])
              /\ w.ram \in Nat /\ w.ram # 0
              /\ data' = [data EXCEPT ![w.file] = Put(@, w, used.lines + 1)]
              /\ active' = [active EXCEPT ![g] = v]
              /\ v.file = w.file /\ v.ram = w.ram - 1
              /\ UNCHANGED <<dir, session, config, call, second, overlap, budget>>
    BY FlushIs DEF Invariant
<1> SUFFICES ASSUME Budgeted, ~strayed, session # 0 PROVE WaitingFit(active[session])'
    BY <1>1, MostStays DEF Stocked, budget
<1>2. g = session /\ WaitingFit(w)
    BY <1>1, FlushFinds
<1>3. Total' <= Total + 1
    BY <1>1, WriteLines DEF Invariant
<1>4. /\ active'[session'] = v /\ Archives' = Archives /\ dir' = dir
      /\ Allowed' = Allowed /\ MostEntries' = MostEntries
    BY <1>1, <1>2, AllowedIs, MostStays
       DEF Invariant, Types, WritersOK, Archives, Currents, budget, Spare
<1>5. PICK b \in Nat, x \in Nat, z \in Nat, r \in Nat, q \in Nat :
             /\ b = Allowed + MostEntries /\ x = Total' /\ z = Total /\ r = w.ram /\ q = v.ram
             /\ x <= z + 1 /\ r = q + 1
  <2>1. v.ram \in Nat
      BY WriterParts
  <2>2. Allowed + MostEntries \in Nat
      BY AllowedIs DEF Spare
  <2>3. Total \in Nat /\ Total' \in Nat
      BY TotalIs, TotalNext DEF Invariant
  <2>4. w.ram = v.ram + 1
      BY <1>1, <2>1
  <2> QED
      BY <1>1, <1>3, <2>1, <2>2, <2>3, <2>4
<1>6. z + r <= b /\ \A u \in Threads : At(u, {"write"}) => z + r + 1 <= b
    BY <1>2, <1>5 DEF WaitingFit
<1>7. x + q <= b
    BY <1>5, <1>6
<1>8. ASSUME NEW u \in Threads, At(u, {"write"})' PROVE x + q + 1 <= b
  <2>1. z + r + 1 <= b
      BY <1>1, <1>6, <1>8 DEF At
  <2> QED
      BY <1>5, <2>1
<1>9. \A n \in Archives' : dir'[n] # v.file
    BY <1>1, <1>2, <1>4 DEF WaitingFit
<1>10. /\ Total' + v.ram <= Allowed' + MostEntries'
       /\ \A u \in Threads : At(u, {"write"})' => Total' + v.ram + 1 <= Allowed' + MostEntries'
    BY <1>4, <1>5, <1>7, <1>8
<1> QED
    BY <1>4, <1>9, <1>10 DEF WaitingFit

\* A file operation fails: the file is let go, or what waits stays.
LEMMA FailStocks ==
    ASSUME Invariant, Spare, Stocked, Types', NEW t \in Threads, Fail(t) PROVE Stocked'
<1>1. /\ UNCHANGED <<disk, session, overlap>>
      /\ IF Pruning(t) THEN PruningCut ELSE PruningGoesOn
    BY DEF Fail
<1>2. Types /\ (~Pruning(t) => UNCHANGED budget) /\ strayed' = strayed /\ (~strayed' => ~overlap)
    BY <1>1 DEF PruningGoesOn, PruningCut, budget, Invariant, Spare
<1>3. CASE At(t, {"open", "create", "rotate", "rollback"}) /\ Drop(t)
  <2>1. Busy(t) /\ ~Pruning(t)
      BY <1>3 DEF Busy, Pruning, At
  <2> QED
      BY <1>1, <1>2, <1>3, <2>1, SetDries DEF Drop, Waiting
<1>4. CASE At(t, {"remove"}) /\ call' = [call EXCEPT ![t] = Idle] /\ UNCHANGED active
  <2>1. ~Pruning(t)
      BY <1>4 DEF Pruning, At
  <2>2. \A u \in Threads : At(u, {"write"})' => At(u, {"write"})
      BY <1>2, <1>4 DEF Types, CallsOK, Idle, At
  <2>3. PICK v : v = active[session]
      OBVIOUS
  <2> QED
      BY <1>1, <1>2, <1>4, <2>1, <2>2, <2>3, StockedAside
<1>5. CASE At(t, {"roll"}) /\ UNCHANGED active
  <2>1. Busy(t) /\ ~Waiting(Writer(t))
      BY <1>2, <1>5, Held DEF Busy, Fits, At, Waiting
  <2> QED
      BY <1>1, <1>2, <1>5, <2>1, StaysDry
<1>6. CASE At(t, {"write"}) /\ SetWriter(t, NoFile)
  <2>1. Busy(t) /\ ~Pruning(t)
      BY <1>6 DEF Busy, Pruning, At
  <2> QED
      BY <1>1, <1>2, <1>6, <2>1, SetDries DEF Waiting
<1>7. CASE At(t, {"write"}) /\ SetWriter(t, [Writer(t) EXCEPT !.index = @ + 1]) /\ Return(t)
  <2>1. Busy(t) /\ ~Pruning(t)
      BY <1>7 DEF Busy, Pruning, At
  <2>2. PICK w \in Writers : w = Writer(t) /\ w # NoFile
      BY <1>2, <1>7, <2>1, Held DEF Fits, At
  <2>3. PICK x : x = [w EXCEPT !.index = @ + 1]
      OBVIOUS
  <2>4. x.file = w.file /\ x.ram = w.ram
      BY <2>2, <2>3, Counted
  <2>5. active' = [active EXCEPT ![call[t].logger] = x]
      BY <1>7, <2>2, <2>3 DEF SetWriter
  <2>6. PICK v : session # 0 => v = active'[session]
      OBVIOUS
  <2>7. session # 0 /\ v # NoFile => /\ active[session] # NoFile
                                     /\ v.file = active[session].file
                                     /\ v.ram = active[session].ram
      BY <1>2, <2>2, <2>4, <2>5, <2>6
         DEF Types, WritersOK, SettingsOK, Loggers, Writer
  <2>8. \A u \in Threads : At(u, {"write"})' => At(u, {"write"})
    <3>1. ~At(t, {"write"})' /\ \A u \in Threads \ {t} : call'[u] = call[u]
        BY <1>2, <1>7, <2>1, ReturnCall DEF At
    <3> QED
        BY <3>1 DEF At
  <2> QED
      BY <1>1, <1>2, <2>1, <2>6, <2>7, <2>8, StockedAside
<1> QED
    BY <1>3, <1>4, <1>5, <1>6, <1>7 DEF Fail, Drop

\* Nothing waits for a file that is let go, and what waits for another file stays
\* (delete_session_log_files).
LEMMA ReleaseStocks ==
    ASSUME Invariant, Spare, Stocked, Types', NEW t \in Threads, Release(t) PROVE Stocked'
<1>1. UNCHANGED <<disk, session, budget>>
    BY DEF Release
<1>2. PICK names :
        /\ call' = [call EXCEPT ![t] = [at |-> "remove", logger |-> session, names |-> names]]
        /\ active' = [g \in Loggers |->
                        IF g = session /\ Releases(g, names) THEN NoFile ELSE active[g]]
    BY DEF Release
<1>3. \A u \in Threads : At(u, {"write"})' => At(u, {"write"})
    BY <1>2 DEF Invariant, Types, CallsOK, At
<1>4. PICK v : session # 0 => v = active'[session]
    OBVIOUS
<1>5. session # 0 => v = NoFile \/ v = active[session]
    BY <1>2, <1>4 DEF Invariant, Types, SettingsOK, Loggers
<1> QED
    BY <1>1, <1>3, <1>4, <1>5, StockedAside

\* A file that is deleted makes room (delete_session_log_files).
LEMMA RemoveStocks ==
    ASSUME Invariant, Spare, Stocked, Types', NEW t \in Threads, Remove(t) PROVE Stocked'
<1>1. /\ At(t, {"remove"}) /\ UNCHANGED <<data, session, active, overlap, budget>>
    BY DEF Remove
<1>2. PICK n \in Names :
             /\ dir' = Unlinked(n)
             /\ call'[t] = Idle \/ call'[t] \in RemoveCalls
             /\ \A u \in Threads \ {t} :
                  /\ call'[u] = call[u] \/ call'[u] = [call[u] EXCEPT !.crossed = TRUE]
                  /\ call'[u] # call[u] => At(u, {"write"})
    BY RemoveIs DEF Invariant
<1>3. /\ \A k \in DOMAIN dir' : dir'[k] = dir[k]
      /\ Archives' \subseteq Archives /\ Total' <= Total
    BY <1>1, <1>2, UnlinkLines DEF Invariant
<1>4. \A u \in Threads : At(u, {"write"})' => At(u, {"write"})
  <2>1. ~At(t, {"write"})'
      BY <1>2 DEF Idle, RemoveCalls, At
  <2>2. \A u \in Threads \ {t} : At(u, {"write"})' => At(u, {"write"})
      BY <1>2 DEF At
  <2> QED
      BY <2>1, <2>2
<1>5. PICK v : v = active[session]
    OBVIOUS
<1>6. \A k \in Archives' : dir'[k] = dir[k]
    BY <1>3 DEF Archives
<1> QED
    BY <1>1, <1>3, <1>4, <1>5, <1>6, StockedStays

\* A step that leaves the files, with no thread before a line that was not.
LEMMA QuietStocks ==
    ASSUME Invariant, Spare, Stocked, Types', UNCHANGED <<disk, session, active, budget>>,
           \A u \in Threads : At(u, {"write"})' => At(u, {"write"})
    PROVE  Stocked'
<1>1. PICK v : v = active[session]
    OBVIOUS
<1> QED
    BY <1>1, StockedAside

\* Every step leaves room for the lines that wait.
LEMMA NextStocked == Invariant /\ Spare /\ Stocked /\ [Next]_vars => Stocked'
<1> SUFFICES ASSUME Invariant, Spare, Stocked, [Next]_vars PROVE Stocked'
    OBVIOUS
<1>1. Types'
    BY NextTypes DEF Invariant
<1>2. CASE Tick \/ UNCHANGED vars
  <2>1. UNCHANGED <<disk, session, active, call, budget>>
      BY <1>2 DEF Tick, vars, process
  <2> QED
      BY <1>1, <2>1, QuietStocks DEF At
<1>3. CASE Crash
  <2>1. session' = 0
      BY <1>3 DEF Crash
  <2> QED
      BY <2>1 DEF Stocked
<1>4. ASSUME NEW t \in Threads, Call(t) PROVE Stocked'
  <2>1. CASE Log(t)
    <3>1. /\ UNCHANGED <<disk, session, active, budget>>
          /\ call' = [call EXCEPT ![t] = Logging(session, FALSE)]
        BY <2>1 DEF Log
    <3>2. \A u \in Threads : At(u, {"write"})' => At(u, {"write"})
        BY <3>1 DEF Logging, Invariant, Types, CallsOK, At
    <3> QED
        BY <1>1, <3>1, <3>2, QuietStocks
  <2>2. CASE Number(t)
    <3>1. /\ UNCHANGED <<disk, session, active, budget>> /\ At(t, {"open"})
          /\ call' = [call EXCEPT ![t].at = "create", ![t].seq = NextSeq]
        BY <2>2 DEF Number
    <3>2. call[t] \in LogCalls
        BY <3>1, Held DEF Busy, At, Invariant
    <3>3. \A u \in Threads : At(u, {"write"})' => At(u, {"write"})
        BY <3>1, <3>2 DEF Invariant, Types, CallsOK, At, LogCalls
    <3> QED
        BY <1>1, <3>1, <3>3, QuietStocks
  <2>3. CASE ArchiveStale(t)
    <3>1. Cardinality(Currents) > 1 /\ UNCHANGED budget
        BY <2>3 DEF ArchiveStale
    <3>2. ~(Cardinality(Currents) <= 1)
        BY <3>1, CurrentsAre, FS_CardinalityType DEF Invariant
    <3>3. overlap
        BY <3>2, CurrentsAre DEF Invariant, Calm
    <3> QED
        BY <3>1, <3>3 DEF Spare, Stocked, budget
  <2> QED
      BY <1>1, <1>4, <2>1, <2>2, <2>3, InstallStocks, EnterStocks, OpenStocks, PruneStocks,
         WriteStocks, WriteUnflushedStocks, FailStocks, ReleaseStocks, RemoveStocks DEF Call
<1>5. ASSUME NEW g \in Loggers, Flush(g) PROVE Stocked'
    BY <1>1, <1>5, FlushStocks
<1> QED
    BY <1>2, <1>3, <1>4, <1>5 DEF Next

\* Every step keeps to the budget.
LEMMA NextSpare == Invariant /\ Spare /\ Stocked /\ [Next]_vars => Spare'
<1> SUFFICES ASSUME Invariant, Spare, Stocked, [Next]_vars PROVE Spare'
    OBVIOUS
<1>1. Types'
    BY NextTypes DEF Invariant
<1>2. CASE Tick
    BY <1>1, <1>2, QuietSpares DEF Tick
<1>3. CASE Crash
    BY <1>1, <1>3, CrashSpares
<1>4. ASSUME NEW t \in Threads, Call(t) PROVE Spare'
    BY <1>1, <1>4, LogSpares, InstallSpares, EnterSpares, ArchiveStaleSpares, ResumeSpares,
       NumberSpares, CreateSpares, RotateSpares, PlanPruneSpares, PruneOneSpares, RollSpares,
       RollbackSpares, WriteSpares, WriteUnflushedSpares, FailSpares, ReleaseSpares,
       RemoveSpares DEF Call
<1>5. ASSUME NEW g \in Loggers, Flush(g) PROVE Spare'
    BY <1>1, <1>5, FlushSpares
<1>6. CASE UNCHANGED vars
    BY <1>1, <1>6, QuietSpares DEF vars
<1> QED
    BY <1>2, <1>3, <1>4, <1>5, <1>6 DEF Next

\* No Logger has a file.
LEMMA InitStocked == Init => Stocked
BY DEF Init, Stocked

\* What the settings allow, and one file more for each pruning that was cut short, is never
\* exceeded by the archives where no pruning is under way, nor with one file more by all the
\* files; and there is room in it for every line that is about to be written, and for those
\* whose flush failed and that wait in the buffer.
THEOREM BudgetKept == Spec => [](Invariant /\ Spare /\ Stocked)
BY InitInvariant, InitSpare, InitStocked, NextInvariant, NextSpare, NextStocked, PTL DEF Spec

\* The directory holds the budget and one growing file, and one file more for each pruning cut
\* short since the last that ran to its end: whatever the threads, crashes, failed operations,
\* deleted files and changes of settings, as long as two Loggers have not been at work since
\* (rotate_active, prune_old_files, effective_entries_per_file).
THEOREM DiskStaysBounded == Spec => []DiskBound
<1>1. Invariant /\ Spare => DiskBound
  <2> SUFFICES ASSUME Invariant, Spare, ~strayed, \A s \in Settings : s.keep # 0
               PROVE  LineCount(DOMAIN dir) <= MostKept + MostEntries * (1 + cut)
      BY DEF DiskBound
  <2>1. Total <= Allowed + MostEntries /\ Total = LineCount(DOMAIN dir)
      BY DEF Spare, Roomy, Budgeted, Total
  <2>2. PICK e \in Nat, k \in Nat, c \in Nat : e = MostEntries /\ k = MostKept /\ c = cut
      BY MostIs DEF Spare
  <2>3. k + e * c + e = k + e * (1 + c)
      OBVIOUS
  <2>4. Allowed = k + e * c
      BY <2>2 DEF Allowed
  <2> QED
      BY <2>1, <2>2, <2>3, <2>4
<1> QED
    BY <1>1, BudgetKept, PTL
=============================================================================
