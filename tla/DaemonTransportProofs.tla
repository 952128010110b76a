------------------------ MODULE DaemonTransportProofs -----------------------
(***************************************************************************)
(* The safety properties of the desktop transport, for any number of calls *)
(* and any set of faults.                                                  *)
(***************************************************************************)
EXTENDS DaemonTransport, TLAPS

\* The numbers in use, and the one app_shutdown may still take.
Numbered ==
    /\ \A i \in Ids : i >= nextId => promise[i] = "unused"
    /\ app = "running" => nextId <= MaxCalls + 1

\* What has an answer on its way was done.
AnswersDone == \A k \in 1..Len(stdout) : stdout[k] \in done \cup {Ready}

ClientInv == TypeOK /\ Numbered /\ NoPromiseOnDeadConnection /\ AnsweredIsDone /\ AnswersDone

-----------------------------------------------------------------------------
\* The client's side.

\* daemonRpc: a new number has no promise yet and none after it does.
LEMMA SendKeeps ==
    ASSUME ClientInv, NEW kind \in Kinds, NEW timer \in BOOLEAN, Send(kind, timer),
           connection = "alive", nextId <= MaxCalls + 1,
           app' = "running" => nextId <= MaxCalls,
           app' \in {"running", "stopping", "exited"},
           UNCHANGED <<connection, process, stdout, threads, done>>
    PROVE  ClientInv'
<1> USE TransportAssumption DEF Ids, None, Ready, Ended
<1> nextId \in Ids
  BY DEF ClientInv, TypeOK
<1>1. TypeOK'
  BY DEF ClientInv, TypeOK, Send, threads
<1>2. Numbered'
  BY DEF ClientInv, TypeOK, Numbered, Send
<1>3. NoPromiseOnDeadConnection'
  BY DEF ClientInv, TypeOK, NoPromiseOnDeadConnection, Send
<1>4. AnsweredIsDone' /\ AnswersDone'
  BY DEF ClientInv, TypeOK, AnsweredIsDone, AnswersDone, Send
<1> QED
  BY <1>1, <1>2, <1>3, <1>4 DEF ClientInv

\* rejectAllPending and a timer: what is rejected was pending, and no other promise moves.
LEMMA RejectKeeps ==
    ASSUME ClientInv, NEW S, Reject(S),
           connection' # "alive" => connection # "alive" \/ pending \subseteq S,
           app' = "running" => app = "running",
           UNCHANGED <<nextId, request, stdout, done>>
    PROVE  /\ pending' \subseteq Ids /\ promise' \in [Ids -> {"unused", "open", "answered", "rejected"}]
           /\ Numbered' /\ NoPromiseOnDeadConnection' /\ AnsweredIsDone' /\ AnswersDone'
<1>1. pending' \subseteq Ids /\ promise' \in [Ids -> {"unused", "open", "answered", "rejected"}]
  BY DEF ClientInv, TypeOK, Reject
<1>2. \A i \in Ids : promise'[i] = IF i \in S \cap pending THEN "rejected" ELSE promise[i]
  BY DEF Reject
<1>3. Numbered'
  BY <1>2 DEF ClientInv, Numbered, NoPromiseOnDeadConnection
<1>4. NoPromiseOnDeadConnection'
  BY <1>2 DEF ClientInv, TypeOK, NoPromiseOnDeadConnection, Reject
<1>5. AnsweredIsDone' /\ AnswersDone'
  BY <1>2 DEF ClientInv, AnsweredIsDone, AnswersDone
<1> QED
  BY <1>1, <1>3, <1>4, <1>5

LEMMA ReceiveKeeps ==
    ASSUME ClientInv, Receive
    PROVE  ClientInv'
<1> USE TransportAssumption DEF Ids, None, Ready, Ended
<1> DEFINE head == Head(stdout)
<1>1. /\ stdout \in Seq(Ids \cup {0}) /\ stdout # <<>>
      /\ Len(stdout) \in Nat /\ Len(stdout) >= 1
      /\ head = stdout[1] /\ head \in Ids \cup {0} /\ stdout' \in Seq(Ids \cup {0})
      /\ Len(stdout') = Len(stdout) - 1
      /\ \A k \in 1..Len(stdout') : stdout'[k] = stdout[k + 1]
  BY DEF ClientInv, TypeOK, Receive
<1>2. /\ UNCHANGED <<app, nextId, request, process, stdin, threads, done>>
  BY DEF Receive
<1>3. AnswersDone'
  BY <1>1, <1>2 DEF ClientInv, AnswersDone
<1>4. head \in done \cup {0}
  BY <1>1 DEF ClientInv, AnswersDone
<1>5. CASE /\ head = 0
           /\ connection' = IF connection = "starting" THEN "alive" ELSE connection
           /\ UNCHANGED <<pending, promise>>
  BY <1>1, <1>2, <1>3, <1>5
     DEF ClientInv, TypeOK, Numbered, NoPromiseOnDeadConnection, AnsweredIsDone, threads
<1>6. CASE /\ head \in pending
           /\ pending' = pending \ {head}
           /\ promise' = [promise EXCEPT ![head] = "answered"]
           /\ UNCHANGED connection
  <2>1. head \in Ids /\ promise[head] = "open" /\ head \in done
    BY <1>1, <1>4, <1>6 DEF ClientInv, TypeOK, NoPromiseOnDeadConnection
  <2>2. TypeOK'
    BY <1>1, <1>2, <1>6, <2>1 DEF ClientInv, TypeOK, threads
  <2>3. Numbered' /\ AnsweredIsDone'
    BY <1>1, <1>2, <1>6, <2>1 DEF ClientInv, TypeOK, Numbered, AnsweredIsDone
  <2>4. NoPromiseOnDeadConnection'
    BY <1>1, <1>2, <1>6, <2>1 DEF ClientInv, TypeOK, NoPromiseOnDeadConnection
  <2> QED
    BY <1>3, <2>2, <2>3, <2>4 DEF ClientInv
<1>7. CASE UNCHANGED <<pending, promise, connection>>
  BY <1>1, <1>2, <1>3, <1>7
     DEF ClientInv, TypeOK, Numbered, NoPromiseOnDeadConnection, AnsweredIsDone, threads
<1> QED
  BY <1>5, <1>6, <1>7 DEF Receive

-----------------------------------------------------------------------------
LEMMA ClientInit == Init => ClientInv
<1> SUFFICES ASSUME Init PROVE ClientInv
  OBVIOUS
<1> USE TransportAssumption DEF Ids, None, Ready, Ended
<1>1. TypeOK
  BY DEF Init, TypeOK, Kinds
<1> QED
  BY <1>1 DEF Init, ClientInv, Numbered, NoPromiseOnDeadConnection, AnsweredIsDone, AnswersDone

\* Actions of the main process that only reject promises.
LEMMA ClientStepRejecting ==
    ASSUME ClientInv,
           \/ StartFails \/ DaemonExited \/ StopDaemon \/ Killed
           \/ \E i \in Ids : Timeout(i) \/ WriteFails(i)
    PROVE  ClientInv'
<1> USE TransportAssumption DEF None, Ready, Ended
<1> DEFINE S == CHOOSE R : Reject(R) /\ (connection' # "alive" => connection # "alive" \/ pending \subseteq R)
<1>1. \E R : Reject(R) /\ (connection' # "alive" => connection # "alive" \/ pending \subseteq R)
  <2>1. CASE Reject(pending)
    BY <2>1
  <2>2. ASSUME NEW i \in Ids, Reject({i}), connection' = connection
        PROVE  \E R : Reject(R) /\ (connection' # "alive" => connection # "alive" \/ pending \subseteq R)
    BY <2>2
  <2> QED
    BY <2>1, <2>2 DEF StartFails, DaemonExited, StopDaemon, Killed, Timeout, WriteFails
<1>2. Reject(S) /\ (connection' # "alive" => connection # "alive" \/ pending \subseteq S)
  BY <1>1
<1>3. /\ app' = "running" => app = "running"
      /\ UNCHANGED <<nextId, request, stdout, done>>
  BY DEF StartFails, DaemonExited, StopDaemon, Killed, Timeout, WriteFails
<1>4. /\ pending' \subseteq Ids /\ promise' \in [Ids -> {"unused", "open", "answered", "rejected"}]
      /\ Numbered' /\ NoPromiseOnDeadConnection' /\ AnsweredIsDone' /\ AnswersDone'
  BY <1>2, <1>3, RejectKeeps
<1>5. /\ app' \in {"running", "stopping", "exited"}
      /\ connection' \in {"none", "starting", "alive", "dead"}
      /\ process' \in {"none", "booting", "serving", "draining", "gone"}
      /\ stdin' = stdin
  BY DEF ClientInv, TypeOK, StartFails, DaemonExited, StopDaemon, Killed, Timeout, WriteFails,
         ProcessGone
<1>6. /\ light' \in {light, 0} /\ heavy' \in {heavy, 0}
      /\ jobs' = jobs \/ jobs' = <<>>
  BY DEF StartFails, DaemonExited, StopDaemon, Killed, Timeout, WriteFails, ProcessGone, threads
<1>7. light' \in Ids \cup {0} /\ heavy' \in Ids \cup {0, MaxCalls + 2}
  BY <1>6 DEF ClientInv, TypeOK
<1>8. <<>> \in Seq(Ids) /\ jobs \in Seq(Ids)
  BY DEF ClientInv, TypeOK
<1>9. TypeOK'
  BY <1>3, <1>4, <1>5, <1>6, <1>7, <1>8 DEF ClientInv, TypeOK
<1> QED
  BY <1>4, <1>9 DEF ClientInv

LEMMA ClientStepSending ==
    ASSUME ClientInv,
           Quit \/ \E kind \in Kinds, timer \in BOOLEAN : Call(kind, timer)
    PROVE  ClientInv'
<1> USE TransportAssumption DEF Ids, None, Ready, Ended
<1>1. ASSUME NEW kind \in Kinds, NEW timer \in BOOLEAN, Call(kind, timer) PROVE ClientInv'
  <2>1. /\ nextId \in Nat /\ nextId <= MaxCalls /\ connection = "alive" /\ Send(kind, timer)
        /\ UNCHANGED <<app, connection, process, stdout, threads, done>>
    BY <1>1 DEF Call, ClientInv, TypeOK
  <2>2. app' \in {"running", "stopping", "exited"} /\ nextId <= MaxCalls + 1
    BY <2>1 DEF ClientInv, TypeOK
  <2> QED
    BY <2>1, <2>2, SendKeeps
<1>2. ASSUME app = "running", connection = "alive", app' = "stopping", Send("shutdown", TRUE),
             UNCHANGED <<connection, process, stdout, threads, done>>
      PROVE  ClientInv'
  <2>1. nextId <= MaxCalls + 1 /\ "shutdown" \in Kinds
    BY <1>2 DEF ClientInv, Numbered, Kinds
  <2> QED
    BY <1>2, <2>1, SendKeeps
<1>3. ASSUME connection # "alive", app' = "exited",
             UNCHANGED <<nextId, request, pending, promise, stdin>>,
             UNCHANGED <<connection, process, stdout, threads, done>>
      PROVE  ClientInv'
  BY <1>3 DEF ClientInv, TypeOK, Numbered, NoPromiseOnDeadConnection, AnsweredIsDone,
              AnswersDone, threads
<1> QED
  BY <1>1, <1>2, <1>3 DEF Quit

\* The daemon answers only what it has done, and nothing it does touches a promise.
LEMMA ClientStepDaemon ==
    ASSUME ClientInv, StdinThread \/ Worker \/ Crash
    PROVE  ClientInv'
<1> USE TransportAssumption DEF Ids, None, Ready, Ended
<1>1. /\ UNCHANGED client
  BY DEF StdinThread, Worker, Crash, Boot, ReadLight, ReadHeavy, LightDone, EndOfInput, DrainDone,
         HeavyStart, HeavyDone
<1>2. done' \subseteq Ids /\ done \subseteq done'
  BY DEF ClientInv, TypeOK, StdinThread, Worker, Crash, Boot, ReadLight, ReadHeavy, LightDone,
         EndOfInput, DrainDone, HeavyStart, HeavyDone
<1>3. stdout' = stdout \/ \E i \in done' \cup {0} : stdout' = Append(stdout, i)
  BY DEF StdinThread, Worker, Crash, Boot, ReadLight, ReadHeavy, LightDone,
         EndOfInput, DrainDone, HeavyStart, HeavyDone
<1>4. stdout' \in Seq(Ids \cup {0}) /\ AnswersDone'
  <2>1. CASE stdout' = stdout
    BY <1>2, <2>1 DEF ClientInv, TypeOK, AnswersDone
  <2>2. ASSUME NEW i \in done' \cup {0}, stdout' = Append(stdout, i)
        PROVE  stdout' \in Seq(Ids \cup {0}) /\ AnswersDone'
    <3>1. stdout \in Seq(Ids \cup {0}) /\ i \in Ids \cup {0}
      BY <1>2 DEF ClientInv, TypeOK
    <3>2. /\ stdout' \in Seq(Ids \cup {0}) /\ Len(stdout') = Len(stdout) + 1
          /\ \A k \in 1..Len(stdout') : stdout'[k] = IF k = Len(stdout) + 1 THEN i ELSE stdout[k]
      BY <2>2, <3>1
    <3>3. \A k \in 1..Len(stdout) : stdout[k] \in done \cup {0}
      BY DEF ClientInv, AnswersDone
    <3>4. AnswersDone'
      BY <1>2, <3>1, <3>2, <3>3 DEF AnswersDone
    <3> QED
      BY <3>2, <3>4
  <2> QED
    BY <1>3, <2>1, <2>2
<1>5. stdin' \in Seq(Ids) /\ jobs' \in Seq(Ids)
  <2>1. /\ stdin \in Seq(Ids) /\ jobs \in Seq(Ids)
        /\ stdin # <<>> => Head(stdin) \in Ids /\ Tail(stdin) \in Seq(Ids)
        /\ jobs # <<>> => Tail(jobs) \in Seq(Ids)
    BY DEF ClientInv, TypeOK
  <2>2. stdin' = stdin \/ (stdin # <<>> /\ stdin' = Tail(stdin))
    BY DEF StdinThread, Worker, Crash, Boot, ReadLight, ReadHeavy, LightDone,
           EndOfInput, DrainDone, HeavyStart, HeavyDone
  <2>3. \/ jobs' = jobs \/ jobs' = <<>> \/ (jobs # <<>> /\ jobs' = Tail(jobs))
        \/ stdin # <<>> /\ jobs' = Append(jobs, Head(stdin))
    BY DEF StdinThread, Worker, Crash, Boot, ReadLight, ReadHeavy, LightDone,
           EndOfInput, DrainDone, HeavyStart, HeavyDone, ProcessGone, threads
  <2>4. stdin' \in Seq(Ids)
    BY <2>1, <2>2
  <2>5. ASSUME stdin # <<>>, jobs' = Append(jobs, Head(stdin)) PROVE jobs' \in Seq(Ids)
    BY <2>1, <2>5
  <2>6. <<>> \in Seq(Ids)
    OBVIOUS
  <2> QED
    BY <2>1, <2>3, <2>4, <2>5, <2>6
<1>6. light' \in Ids \cup {0} /\ heavy' \in Ids \cup {None, Ended}
  <2>1. /\ light \in Ids \cup {0} /\ heavy \in Ids \cup {None, Ended}
        /\ stdin # <<>> => Head(stdin) \in Ids
        /\ jobs # <<>> => Head(jobs) \in Ids
    BY DEF ClientInv, TypeOK
  <2>2. \/ light' \in {light, 0}
        \/ stdin # <<>> /\ light' = Head(stdin)
    <3>1. CASE StdinThread
      BY <3>1 DEF StdinThread, Boot, ReadLight, ReadHeavy, LightDone, EndOfInput, DrainDone,
                  ProcessGone, threads
    <3>2. CASE Worker \/ Crash
      BY <3>2 DEF Worker, HeavyStart, HeavyDone, Crash, ProcessGone, threads
    <3> QED
      BY <3>1, <3>2
  <2>3. \/ heavy' \in {heavy, None, Ended}
        \/ jobs # <<>> /\ heavy' = Head(jobs)
    <3>1. CASE StdinThread
      BY <3>1 DEF StdinThread, Boot, ReadLight, ReadHeavy, LightDone, EndOfInput, DrainDone,
                  ProcessGone, threads
    <3>2. CASE Worker \/ Crash
      BY <3>2 DEF Worker, HeavyStart, HeavyDone, Crash, ProcessGone, threads
    <3> QED
      BY <3>1, <3>2
  <2>4. light' \in Ids \cup {0}
    BY <2>1, <2>2
  <2>5. heavy' \in Ids \cup {None, Ended}
    BY <2>1, <2>3
  <2> QED
    BY <2>4, <2>5
<1>7. process' \in {"none", "booting", "serving", "draining", "gone"}
  BY DEF ClientInv, TypeOK, StdinThread, Worker, Crash, Boot, ReadLight, ReadHeavy, LightDone,
         EndOfInput, DrainDone, HeavyStart, HeavyDone, ProcessGone
<1>8. TypeOK'
  BY <1>1, <1>2, <1>4, <1>5, <1>6, <1>7 DEF ClientInv, TypeOK, client
<1>9. Numbered' /\ NoPromiseOnDeadConnection' /\ AnsweredIsDone'
  BY <1>1, <1>2 DEF ClientInv, Numbered, NoPromiseOnDeadConnection, AnsweredIsDone, client
<1> QED
  BY <1>4, <1>8, <1>9 DEF ClientInv

LEMMA ClientStep == ClientInv /\ [Next]_vars => ClientInv'
<1> SUFFICES ASSUME ClientInv, [Next]_vars PROVE ClientInv'
  OBVIOUS
<1>1. CASE UNCHANGED vars
  BY <1>1 DEF ClientInv, TypeOK, Numbered, NoPromiseOnDeadConnection, AnsweredIsDone,
              AnswersDone, vars, client, threads
<1>2. CASE Start
  BY <1>2 DEF Start, ClientInv, TypeOK, Numbered, NoPromiseOnDeadConnection, AnsweredIsDone,
              AnswersDone, threads
<1> QED
  BY <1>1, <1>2, ClientStepRejecting, ClientStepSending, ClientStepDaemon, ReceiveKeeps
     DEF Next, MainProcess, Rest

LEMMA ClientCorrect == Spec => []ClientInv
  BY ClientInit, ClientStep, PTL DEF Spec

\* The variables have their types in every behaviour of the transport.
THEOREM TypeCorrect == Spec => []TypeOK
<1>1. ClientInv => TypeOK
  BY DEF ClientInv
<1> QED
  BY <1>1, ClientCorrect, PTL

\* daemon.ts, pending.get(message.id): an answered request was carried out.
THEOREM AnswersAreTrue == Spec => []AnsweredIsDone
<1>1. ClientInv => AnsweredIsDone
  BY DEF ClientInv
<1> QED
  BY <1>1, ClientCorrect, PTL

\* daemon.ts, rejectAllPending: a connection that is over has no promise open.
THEOREM NobodyWaitsForTheDead == Spec => []NoPromiseOnDeadConnection
<1>1. ClientInv => NoPromiseOnDeadConnection
  BY DEF ClientInv
<1> QED
  BY <1>1, ClientCorrect, PTL

\* daemon.ts, handleLine and the timer of daemonRpc: a promise is settled once.
THEOREM SettlesOnce == Spec => SettledOnce
<1> DEFINE Kept == \A i \in Ids : promise[i] \in {"answered", "rejected"} => promise'[i] = promise[i]
<1>1. ASSUME ClientInv, [Next]_vars PROVE [Kept]_vars
  <2>1. CASE UNCHANGED promise
    BY <2>1
  <2>2. ASSUME NEW S, Reject(S) PROVE Kept
    BY <1>1, <2>2 DEF ClientInv, NoPromiseOnDeadConnection, Reject
  <2>3. ASSUME NEW kind, NEW timer, Send(kind, timer) PROVE Kept
    <3>1. nextId \in Nat /\ \A i \in Ids : i >= nextId => promise[i] = "unused"
      BY <1>1, TransportAssumption DEF ClientInv, TypeOK, Numbered
    <3>2. promise' = [promise EXCEPT ![nextId] = "open"]
      BY <2>3 DEF Send
    <3>3. promise \in [Ids -> {"unused", "open", "answered", "rejected"}]
      BY <1>1 DEF ClientInv, TypeOK
    <3> QED
      BY <3>1, <3>2, <3>3
  <2>4. CASE Receive
    BY <1>1, <2>4 DEF ClientInv, TypeOK, NoPromiseOnDeadConnection, Receive
  <2>5. CASE UNCHANGED vars
    BY <2>5
  <2>6. CASE MainProcess
    BY <2>1, <2>2, <2>3, <2>4, <2>6
       DEF MainProcess, Start, StartFails, Call, Timeout, WriteFails, DaemonExited, Quit, StopDaemon
  <2>7. CASE StdinThread \/ Worker \/ Crash
    BY <2>1, <2>7 DEF StdinThread, Worker, Crash, Boot, ReadLight, ReadHeavy, LightDone,
                      EndOfInput, DrainDone, HeavyStart, HeavyDone, client
  <2> QED
    BY <1>1, <2>2, <2>5, <2>6, <2>7 DEF Next, Killed, Rest
<1> QED
  BY <1>1, ClientCorrect, PTL DEF Spec, SettledOnce

-----------------------------------------------------------------------------
\* The daemon's side.

\* The daemon reads the numbers in their order: those up to HasRead.
HasRead == nextId - 1 - Len(stdin)
InputInOrder ==
    /\ HasRead \in Nat
    /\ \A k \in 1..Len(stdin) : stdin[k] = HasRead + k

\* A request of the worker that was read.
ForWorker(i) == i <= HasRead /\ request[i].kind = "heavy"

\* The worker's jobs are in order, behind the one it runs.
JobsInOrder ==
    /\ \A k \in 1..Len(jobs) : ForWorker(jobs[k])
    /\ \A k, l \in 1..Len(jobs) : k < l => jobs[k] < jobs[l]
    /\ heavy \in Ids => ForWorker(heavy) /\ \A k \in 1..Len(jobs) : heavy < jobs[k]

\* Nothing that was read is lost while the daemon works: it is done, or a thread has it,
\* or the worker has ended.
InHand(i) == i = light \/ i = heavy \/ (\E k \in 1..Len(jobs) : jobs[k] = i)
NothingSkipped ==
    /\ light # None => light <= HasRead /\ request[light].kind # "heavy"
    /\ \A i \in done : i <= HasRead
    /\ process # "gone" =>
        \A i \in Ids : i <= HasRead =>
            i \in done \/ InHand(i) \/ (heavy = Ended /\ request[i].kind = "heavy")

\* A daemon that is not there runs nothing, one that drains reads nothing.
WorksWhileThere ==
    /\ connection = "none" => process = "none"
    /\ process \in {"none", "booting", "gone"} =>
        light = None /\ heavy \in {None, Ended} /\ jobs = <<>>
    /\ process = "draining" => light = None

\* done is closed downwards among the requests of one kind.
DoneInOrder ==
    \A i, j \in Ids :
        i < j /\ request[i].kind = request[j].kind /\ j \in done => i \in done

Custody == InputInOrder /\ JobsInOrder /\ NothingSkipped /\ WorksWhileThere /\ DoneInOrder

\* The stdin thread takes a line: the next number.
LEMMA ReadNext ==
    ASSUME TypeOK, InputInOrder, stdin # <<>>, stdin' = Tail(stdin), nextId' = nextId
    PROVE  /\ HasRead \in Nat /\ HasRead' = HasRead + 1
           /\ Head(stdin) = HasRead + 1 /\ Head(stdin) \in Ids
           /\ InputInOrder'
<1>1. /\ stdin \in Seq(Ids) /\ Len(stdin) \in Nat /\ Len(stdin) >= 1
      /\ nextId \in Nat
      /\ Head(stdin) = stdin[1] /\ Head(stdin) \in Ids
      /\ Len(stdin') = Len(stdin) - 1
      /\ \A k \in 1..Len(stdin') : stdin'[k] = stdin[k + 1]
  BY DEF TypeOK
<1> QED
  BY <1>1 DEF InputInOrder, HasRead

\* What a thread is about to finish is the oldest of its kind that is not done.
LEMMA LightIsNext ==
    ASSUME TypeOK, Custody, light \in Ids
    PROVE  /\ light <= HasRead /\ request[light].kind # "heavy" /\ process # "gone"
           /\ \A i \in Ids : i < light /\ request[i].kind = request[light].kind => i \in done
<1> USE TransportAssumption DEF None, Ended, Ids
<1>1. light <= HasRead /\ request[light].kind # "heavy" /\ process # "gone"
  BY DEF Custody, NothingSkipped, WorksWhileThere
<1>2. HasRead \in Nat
  BY DEF Custody, InputInOrder
<1>3. ASSUME NEW i \in Ids, i < light, request[i].kind = request[light].kind PROVE i \in done
  <2>1. i <= HasRead /\ request[i].kind # "heavy" /\ i # light
    BY <1>1, <1>2, <1>3
  <2>2. ~InHand(i)
    BY <2>1, <1>3 DEF InHand, Custody, JobsInOrder, ForWorker
  <2> QED
    BY <1>1, <2>1, <2>2 DEF Custody, NothingSkipped
<1> QED
  BY <1>1, <1>3

LEMMA HeavyIsNext ==
    ASSUME TypeOK, Custody, heavy \in Ids
    PROVE  /\ heavy <= HasRead /\ request[heavy].kind = "heavy" /\ process # "gone"
           /\ \A i \in Ids : i < heavy /\ request[i].kind = request[heavy].kind => i \in done
<1> USE TransportAssumption DEF None, Ended, Ids
<1>1. heavy <= HasRead /\ request[heavy].kind = "heavy" /\ process # "gone" /\ heavy # Ended
  BY DEF Custody, JobsInOrder, ForWorker, WorksWhileThere
<1>2. HasRead \in Nat
  BY DEF Custody, InputInOrder
<1>3. ASSUME NEW i \in Ids, i < heavy, request[i].kind = request[heavy].kind PROVE i \in done
  <2>1. i <= HasRead /\ request[i].kind = "heavy" /\ i # heavy
    BY <1>1, <1>2, <1>3
  <2>2. i # light
    BY <2>1 DEF Custody, NothingSkipped
  <2>3. \A k \in 1..Len(jobs) : jobs[k] # i
    <3>1. \A k \in 1..Len(jobs) : heavy < jobs[k] /\ jobs[k] \in Ids
      BY DEF Custody, JobsInOrder, TypeOK
    <3> QED
      BY <1>3, <3>1
  <2> QED
    BY <1>1, <2>1, <2>2, <2>3 DEF Custody, NothingSkipped, InHand
<1> QED
  BY <1>1, <1>3

\* Steps that leave the requests, the input and the threads alone.
LEMMA CustodyIdle ==
    ASSUME TypeOK, Custody, UNCHANGED <<nextId, request, stdin, threads, done>>,
           process = "gone" => process' = "gone",
           WorksWhileThere'
    PROVE  Custody'
<1>1. HasRead' = HasRead
  BY DEF HasRead
<1>2. InputInOrder' /\ DoneInOrder'
  BY <1>1 DEF Custody, InputInOrder, DoneInOrder
<1>3. JobsInOrder'
  <2>1. UNCHANGED <<jobs, heavy, request>>
    BY DEF threads
  <2> QED
    BY <1>1, <2>1 DEF Custody, JobsInOrder, ForWorker
<1>4. NothingSkipped'
  <2>1. UNCHANGED <<light, jobs, heavy, request, done>>
    BY DEF threads
  <2>2. \A i : InHand(i)' <=> InHand(i)
    BY <2>1 DEF InHand
  <2> QED
    BY <1>1, <2>1, <2>2 DEF Custody, NothingSkipped
<1> QED
  BY <1>2, <1>3, <1>4 DEF Custody

\* The end of the process: what was read and is not done never will be.
LEMMA CustodyGone ==
    ASSUME TypeOK, Custody, ProcessGone, connection' # "none",
           UNCHANGED <<nextId, request>>,
           done' = done \/ (done' = done \cup {light} /\ light \in Ids),
           stdin' = stdin \/ (stdin # <<>> /\ stdin' = Tail(stdin))
    PROVE  Custody'
<1> USE TransportAssumption DEF None, Ended, Ids
<1>1. HasRead \in Nat /\ HasRead' \in Nat /\ HasRead <= HasRead' /\ InputInOrder'
  <2>1. CASE stdin' = stdin
    BY <2>1 DEF Custody, InputInOrder, HasRead
  <2> QED
    BY <2>1, ReadNext DEF Custody
<1>2. \A i \in done' : i \in Ids /\ i <= HasRead
  BY LightIsNext DEF Custody, NothingSkipped, TypeOK
<1>3. DoneInOrder'
  <2>1. CASE done' = done
    BY <2>1 DEF Custody, DoneInOrder
  <2>2. CASE done' = done \cup {light} /\ light \in Ids
    BY <2>2, LightIsNext DEF Custody, DoneInOrder
  <2> QED
    BY <2>1, <2>2
<1>4. JobsInOrder'
  BY DEF JobsInOrder, ProcessGone
<1>5. NothingSkipped'
  <2>1. light' = 0 /\ process' = "gone"
    BY DEF ProcessGone
  <2>2. \A i \in done' : i <= HasRead'
    BY <1>1, <1>2
  <2> QED
    BY <2>1, <2>2 DEF NothingSkipped
<1> QED
  BY <1>1, <1>3, <1>4, <1>5 DEF Custody, WorksWhileThere, ProcessGone

\* daemonRpc: one more number, behind all others.
LEMMA CustodySend ==
    ASSUME ClientInv, Custody, NEW kind \in Kinds, NEW timer \in BOOLEAN, Send(kind, timer),
           nextId <= MaxCalls + 1,
           UNCHANGED <<connection, process, threads, done>>
    PROVE  Custody'
<1> USE TransportAssumption DEF None, Ended, Ids
<1>1. /\ nextId \in Nat /\ nextId \in Ids /\ stdin \in Seq(Ids) /\ Len(stdin) \in Nat
      /\ request \in [Ids -> [kind : Kinds, timer : BOOLEAN]]
      /\ done \subseteq Ids /\ light \in Ids \cup {0} /\ heavy \in Ids \cup {0, MaxCalls + 2}
      /\ jobs \in Seq(Ids)
  BY DEF ClientInv, TypeOK
<1>2. UNCHANGED <<light, jobs, heavy, process, connection, done>>
  BY DEF threads
<1>3. /\ Len(stdin') = Len(stdin) + 1
      /\ \A k \in 1..Len(stdin') : stdin'[k] = IF k = Len(stdin) + 1 THEN nextId ELSE stdin[k]
  BY <1>1 DEF Send
<1>4. HasRead \in Nat /\ HasRead' = HasRead /\ HasRead < nextId
  BY <1>1, <1>3 DEF Send, HasRead, Custody, InputInOrder
<1>5. \A i \in Ids : i <= HasRead => request'[i] = request[i]
  BY <1>1, <1>4 DEF Send
<1>6. InputInOrder'
  <2>1. \A k \in 1..Len(stdin) : stdin[k] = HasRead + k
    BY DEF Custody, InputInOrder
  <2>2. nextId = HasRead + Len(stdin) + 1
    BY <1>1 DEF HasRead
  <2>3. ASSUME NEW k \in 1..Len(stdin') PROVE stdin'[k] = HasRead + k
    <3>1. CASE k = Len(stdin) + 1
      BY <1>1, <1>3, <1>4, <2>2, <3>1
    <3>2. CASE k # Len(stdin) + 1
      <4>1. k \in 1..Len(stdin)
        BY <1>1, <1>3, <3>2
      <4> QED
        BY <1>3, <2>1, <3>2, <4>1
    <3> QED
      BY <3>1, <3>2
  <2> QED
    BY <1>4, <2>3 DEF InputInOrder
<1>7. DoneInOrder'
  BY <1>1, <1>2, <1>4, <1>5 DEF Custody, NothingSkipped, DoneInOrder
<1>8. JobsInOrder'
  <2>1. \A k \in 1..Len(jobs) : jobs[k] \in Ids /\ jobs[k] <= HasRead
    BY <1>1 DEF Custody, JobsInOrder, ForWorker
  <2> QED
    BY <1>2, <1>4, <1>5, <2>1 DEF Custody, JobsInOrder, ForWorker
<1>9. NothingSkipped'
  BY <1>1, <1>2, <1>4, <1>5 DEF Custody, NothingSkipped, InHand
<1>10. WorksWhileThere'
  BY <1>2 DEF Custody, WorksWhileThere
<1> QED
  BY <1>6, <1>7, <1>8, <1>9, <1>10 DEF Custody

LEMMA CustodyReadLight ==
    ASSUME TypeOK, Custody, ReadLight
    PROVE  Custody'
<1> USE TransportAssumption DEF None, Ended, Ids
<1>0. PICK i : i = Head(stdin)
  OBVIOUS
<1>1. /\ UNCHANGED <<nextId, request, process, connection, jobs, heavy, done>>
      /\ light' = i /\ request[i].kind # "heavy" /\ process = "serving"
  BY <1>0 DEF ReadLight, client
<1>2. /\ HasRead \in Nat /\ HasRead' = HasRead + 1
      /\ i = HasRead + 1 /\ i \in Ids /\ InputInOrder'
  BY <1>0, <1>1, ReadNext DEF ReadLight, Custody
<1>3. DoneInOrder'
  BY <1>1 DEF Custody, DoneInOrder
<1>4. JobsInOrder'
  <2>1. \A k \in 1..Len(jobs) : jobs[k] \in Ids
    BY DEF TypeOK
  <2> QED
    BY <1>1, <1>2, <2>1 DEF Custody, JobsInOrder, ForWorker
<1>5. NothingSkipped'
  <2>1. \A n \in Ids : n <= HasRead' => n <= HasRead \/ n = i
    BY <1>2
  <2>2. \A n \in done : n \in Ids /\ n <= HasRead'
    BY <1>2 DEF Custody, NothingSkipped, TypeOK
  <2>3. \A n \in Ids : n <= HasRead =>
            n \in done \/ InHand(n) \/ (heavy = Ended /\ request[n].kind = "heavy")
    BY <1>1 DEF Custody, NothingSkipped
  <2>4. \A n \in Ids : InHand(n) => InHand(n)'
    BY <1>1 DEF InHand, ReadLight
  <2>5. InHand(i)'
    BY <1>1 DEF InHand
  <2> QED
    BY <1>1, <1>2, <2>1, <2>2, <2>3, <2>4, <2>5 DEF NothingSkipped
<1> QED
  BY <1>1, <1>2, <1>3, <1>4, <1>5 DEF Custody, WorksWhileThere

LEMMA CustodyReadHeavy ==
    ASSUME TypeOK, Custody, ReadHeavy, heavy # Ended
    PROVE  Custody'
<1> USE TransportAssumption DEF None, Ended, Ids
<1>0. PICK i : i = Head(stdin)
  OBVIOUS
<1>1. /\ UNCHANGED <<nextId, request, process, connection, light, heavy, done>>
      /\ jobs' = Append(jobs, i) /\ request[i].kind = "heavy" /\ process = "serving"
  BY <1>0 DEF ReadHeavy, client
<1>2. /\ HasRead \in Nat /\ HasRead' = HasRead + 1
      /\ i = HasRead + 1 /\ i \in Ids /\ InputInOrder'
  BY <1>0, <1>1, ReadNext DEF ReadHeavy, Custody
<1>3. DoneInOrder'
  BY <1>1 DEF Custody, DoneInOrder
<1>4. /\ jobs \in Seq(Ids) /\ Len(jobs) \in Nat /\ Len(jobs') = Len(jobs) + 1
      /\ \A k \in 1..Len(jobs') : jobs'[k] = IF k = Len(jobs) + 1 THEN i ELSE jobs[k]
      /\ \A k \in 1..Len(jobs) : jobs[k] \in Ids
  BY <1>1, <1>2 DEF TypeOK
<1>5. JobsInOrder'
  <2>1. /\ \A k \in 1..Len(jobs) : jobs[k] <= HasRead /\ request[jobs[k]].kind = "heavy"
        /\ \A k, l \in 1..Len(jobs) : k < l => jobs[k] < jobs[l]
        /\ heavy \in Ids => /\ heavy <= HasRead /\ request[heavy].kind = "heavy"
                            /\ \A k \in 1..Len(jobs) : heavy < jobs[k]
    BY DEF Custody, JobsInOrder, ForWorker
  <2>2. \A k \in 1..Len(jobs') : jobs'[k] <= HasRead' /\ request[jobs'[k]].kind = "heavy"
    BY <1>1, <1>2, <1>4, <2>1
  <2>3. ASSUME NEW k \in 1..Len(jobs'), NEW l \in 1..Len(jobs'), k < l
        PROVE  jobs'[k] < jobs'[l]
    <3>1. k \in 1..Len(jobs) /\ jobs'[k] = jobs[k] /\ jobs[k] \in Ids
      BY <1>4, <2>3
    <3>2. CASE l = Len(jobs) + 1
      BY <1>2, <1>4, <2>1, <3>1, <3>2
    <3>3. CASE l # Len(jobs) + 1
      <4>1. l \in 1..Len(jobs) /\ jobs'[l] = jobs[l]
        BY <1>4, <3>3
      <4> QED
        BY <2>1, <2>3, <3>1, <4>1
    <3> QED
      BY <3>2, <3>3
  <2>4. ASSUME heavy \in Ids, NEW k \in 1..Len(jobs')
        PROVE  heavy <= HasRead' /\ heavy < jobs'[k]
    <3>1. CASE k = Len(jobs) + 1
      <4>1. jobs'[k] = i /\ heavy \in Nat /\ heavy <= HasRead
        BY <1>4, <2>1, <2>4, <3>1
      <4> QED
        BY <1>2, <4>1
    <3>2. CASE k # Len(jobs) + 1
      <4>1. k \in 1..Len(jobs) /\ jobs'[k] = jobs[k]
        BY <1>4, <3>2
      <4> QED
        BY <1>2, <2>1, <2>4, <4>1
    <3> QED
      BY <3>1, <3>2
  <2>5. heavy \in Ids => heavy <= HasRead'
    BY <1>2, <2>1
  <2> QED
    BY <1>1, <2>1, <2>2, <2>3, <2>4, <2>5 DEF JobsInOrder, ForWorker
<1>6. NothingSkipped'
  <2>1. \A n \in Ids : n <= HasRead' => n <= HasRead \/ n = i
    BY <1>2
  <2>2. /\ \A n \in done : n \in Ids /\ n <= HasRead'
        /\ light # None => light \in Ids /\ light <= HasRead' /\ request[light].kind # "heavy"
    BY <1>2 DEF Custody, NothingSkipped, TypeOK
  <2>3. \A n \in Ids : n <= HasRead =>
            n \in done \/ InHand(n) \/ (heavy = Ended /\ request[n].kind = "heavy")
    BY <1>1 DEF Custody, NothingSkipped
  <2>4. \A n \in Ids : InHand(n) => InHand(n)'
    BY <1>1, <1>4 DEF InHand
  <2>5. InHand(i)'
    BY <1>4 DEF InHand
  <2> QED
    BY <1>1, <1>2, <2>1, <2>2, <2>3, <2>4, <2>5 DEF NothingSkipped
<1> QED
  BY <1>1, <1>2, <1>3, <1>5, <1>6 DEF Custody, WorksWhileThere

LEMMA CustodyLightDone ==
    ASSUME TypeOK, Custody, LightDone, app # "exited"
    PROVE  Custody'
<1> USE TransportAssumption DEF None, Ended, Ids
<1>1. /\ light \in Ids /\ light' = 0 /\ done' = done \cup {light} /\ process' \in {process, "draining"}
      /\ UNCHANGED <<nextId, request, stdin, connection, jobs, heavy>>
  BY DEF LightDone, client, TypeOK
<1>2. /\ light <= HasRead /\ request[light].kind # "heavy" /\ process # "gone"
      /\ \A i \in Ids : i < light /\ request[i].kind = request[light].kind => i \in done
  BY <1>1, LightIsNext
<1>3. HasRead' = HasRead
  BY <1>1 DEF HasRead
<1>4. InputInOrder' /\ DoneInOrder'
  BY <1>1, <1>2, <1>3 DEF Custody, InputInOrder, DoneInOrder
<1>5. JobsInOrder'
  BY <1>1, <1>3 DEF Custody, JobsInOrder, ForWorker
<1>6. NothingSkipped'
  <2>1. \A n \in Ids : InHand(n) => InHand(n)' \/ n \in done'
    BY <1>1 DEF InHand
  <2> QED
    BY <1>1, <1>2, <1>3, <2>1 DEF Custody, NothingSkipped
<1>7. WorksWhileThere'
  <2>1. process \in {"serving", "draining"} /\ connection # "none"
    BY <1>1 DEF Custody, WorksWhileThere, TypeOK
  <2> QED
    BY <1>1, <2>1 DEF WorksWhileThere
<1> QED
  BY <1>4, <1>5, <1>6, <1>7 DEF Custody

LEMMA CustodyHeavyStart ==
    ASSUME TypeOK, Custody, HeavyStart
    PROVE  Custody'
<1> USE TransportAssumption DEF None, Ended, Ids
<1>1. /\ UNCHANGED <<nextId, request, stdin, process, connection, light, done>>
      /\ process \in {"serving", "draining"}
      /\ heavy = 0 /\ heavy' = jobs[1]
      /\ jobs \in Seq(Ids) /\ Len(jobs) \in Nat /\ Len(jobs) >= 1
      /\ Len(jobs') = Len(jobs) - 1
      /\ \A k \in 1..Len(jobs') : jobs'[k] = jobs[k + 1]
      /\ \A k \in 1..Len(jobs) : jobs[k] \in Ids
  <2>1. jobs \in Seq(Ids) /\ jobs # <<>> /\ heavy' = Head(jobs) /\ jobs' = Tail(jobs)
    BY DEF HeavyStart, TypeOK
  <2>2. /\ UNCHANGED <<nextId, request, stdin, process, connection, light, done>>
        /\ process \in {"serving", "draining"} /\ heavy = 0
    BY DEF HeavyStart, client
  <2>3. Len(jobs) \in Nat /\ Len(jobs) >= 1 /\ heavy' = jobs[1]
    BY <2>1
  <2>4. /\ Len(jobs') = Len(jobs) - 1
        /\ \A k \in 1..Len(jobs') : jobs'[k] = jobs[k + 1]
    BY <2>1
  <2>5. \A k \in 1..Len(jobs) : jobs[k] \in Ids
    BY <2>1
  <2> QED
    BY <2>1, <2>2, <2>3, <2>4, <2>5
<1>2. HasRead' = HasRead
  BY <1>1 DEF HasRead
<1>3. InputInOrder' /\ DoneInOrder'
  BY <1>1, <1>2 DEF Custody, InputInOrder, DoneInOrder
<1>4. JobsInOrder'
  <2>1. /\ \A k \in 1..Len(jobs) : ForWorker(jobs[k])
        /\ \A k, l \in 1..Len(jobs) : k < l => jobs[k] < jobs[l]
    BY DEF Custody, JobsInOrder
  <2>2. \A i : ForWorker(i)' <=> ForWorker(i)
    BY <1>1, <1>2 DEF ForWorker
  <2>3. \A k \in 1..Len(jobs') : ForWorker(jobs[k + 1])
    BY <1>1, <2>1
  <2>4. \A k \in 1..Len(jobs') : k + 1 \in 1..Len(jobs) /\ 1 < k + 1
    BY <1>1
  <2>5. /\ \A k, l \in 1..Len(jobs') : k < l => jobs'[k] < jobs'[l]
        /\ \A k \in 1..Len(jobs') : heavy' < jobs'[k]
    <3>1. ASSUME NEW k \in 1..Len(jobs'), NEW l \in 1..Len(jobs'), k < l
          PROVE  jobs'[k] < jobs'[l]
      <4>1. k + 1 \in 1..Len(jobs) /\ l + 1 \in 1..Len(jobs) /\ k + 1 < l + 1
        BY <2>4, <3>1
      <4>2. jobs'[k] = jobs[k + 1] /\ jobs'[l] = jobs[l + 1]
        BY <1>1
      <4> QED
        BY <2>1, <4>1, <4>2
    <3>2. ASSUME NEW k \in 1..Len(jobs') PROVE heavy' < jobs'[k]
      <4>1. 1 \in 1..Len(jobs) /\ k + 1 \in 1..Len(jobs) /\ 1 < k + 1
        BY <1>1, <2>4
      <4>2. jobs'[k] = jobs[k + 1] /\ heavy' = jobs[1]
        BY <1>1
      <4> QED
        BY <2>1, <4>1, <4>2
    <3> QED
      BY <3>1, <3>2
  <2>6. ForWorker(jobs[1])
    BY <1>1, <2>1
  <2>7. \A k \in 1..Len(jobs') : jobs'[k] <= HasRead' /\ request'[jobs'[k]].kind = "heavy"
    BY <1>1, <1>2, <2>3 DEF ForWorker
  <2>8. heavy' <= HasRead' /\ request'[heavy'].kind = "heavy"
    BY <1>1, <1>2, <2>6 DEF ForWorker
  <2> QED
    BY <2>5, <2>7, <2>8 DEF JobsInOrder, ForWorker
<1>5. NothingSkipped'
  <2>1. ASSUME NEW n \in Ids, InHand(n) PROVE InHand(n)'
    <3>1. CASE n = light \/ n = heavy
      BY <1>1, <3>1 DEF InHand
    <3>2. ASSUME NEW k \in 1..Len(jobs), jobs[k] = n PROVE InHand(n)'
      <4>1. CASE k = 1
        BY <1>1, <3>2, <4>1 DEF InHand
      <4>2. CASE k # 1
        <5>1. k - 1 \in 1..Len(jobs') /\ jobs'[k - 1] = n
          BY <1>1, <3>2, <4>2
        <5> QED
          BY <5>1 DEF InHand
      <4> QED
        BY <4>1, <4>2
    <3> QED
      BY <2>1, <3>1, <3>2 DEF InHand
  <2> QED
    BY <1>1, <1>2, <2>1 DEF Custody, NothingSkipped
<1> QED
  BY <1>1, <1>3, <1>4, <1>5 DEF Custody, WorksWhileThere

LEMMA CustodyHeavyDone ==
    ASSUME TypeOK, Custody, HeavyDone
    PROVE  Custody'
<1> USE TransportAssumption DEF None, Ended, Ids
<1>1. /\ UNCHANGED <<nextId, request, stdin, process, connection, light>>
      /\ heavy \in Ids /\ done' = done \cup {heavy}
      /\ \/ heavy' = 0 /\ jobs' = jobs
         \/ heavy' = MaxCalls + 2 /\ jobs' = <<>>
  BY DEF HeavyDone, client
<1>2. /\ heavy <= HasRead /\ request[heavy].kind = "heavy" /\ process # "gone"
      /\ \A i \in Ids : i < heavy /\ request[i].kind = request[heavy].kind => i \in done
  BY <1>1, HeavyIsNext
<1>3. HasRead' = HasRead
  BY <1>1 DEF HasRead
<1>4. InputInOrder' /\ DoneInOrder'
  BY <1>1, <1>2, <1>3 DEF Custody, InputInOrder, DoneInOrder
<1>5. JobsInOrder'
  BY <1>1, <1>3 DEF Custody, JobsInOrder, ForWorker
<1>6. NothingSkipped'
  <2>1. ASSUME NEW n \in Ids, InHand(n)
        PROVE  InHand(n)' \/ n \in done' \/ (heavy' = MaxCalls + 2 /\ request[n].kind = "heavy")
    <3>1. CASE jobs' = jobs
      BY <1>1, <2>1, <3>1 DEF InHand
    <3>2. CASE heavy' = MaxCalls + 2
      BY <1>1, <2>1, <3>2 DEF InHand, Custody, JobsInOrder, ForWorker
    <3> QED
      BY <1>1, <3>1, <3>2
  <2>2. heavy # MaxCalls + 2
    BY <1>1
  <2> QED
    BY <1>1, <1>2, <1>3, <2>1, <2>2 DEF Custody, NothingSkipped
<1>7. WorksWhileThere'
  <2>1. heavy # 0 /\ heavy # MaxCalls + 2
    BY <1>1
  <2>2. process \notin {"none", "booting", "gone"} /\ connection # "none"
    BY <2>1 DEF Custody, WorksWhileThere
  <2> QED
    BY <1>1, <2>2 DEF Custody, WorksWhileThere
<1> QED
  BY <1>4, <1>5, <1>6, <1>7 DEF Custody

LEMMA CustodyMainProcess ==
    ASSUME ClientInv, Custody, MainProcess
    PROVE  Custody'
<1> USE DEF None, Ended
<1>1. TypeOK
  BY DEF ClientInv
<1>2. CASE Start
  BY <1>1, <1>2, CustodyIdle DEF Start, Custody, WorksWhileThere, threads
<1>3. CASE StartFails \/ StopDaemon
  <2>1. /\ ProcessGone /\ connection' = "dead"
        /\ UNCHANGED <<nextId, request, stdin, done>>
    BY <1>3 DEF StartFails, StopDaemon
  <2> QED
    BY <1>1, <2>1, CustodyGone
<1>4. ASSUME NEW kind \in Kinds, NEW timer \in BOOLEAN, Call(kind, timer) PROVE Custody'
  <2>1. /\ Send(kind, timer) /\ nextId <= MaxCalls + 1
        /\ UNCHANGED <<connection, process, threads, done>>
    BY <1>1, <1>4, TransportAssumption DEF Call, TypeOK
  <2> QED
    BY <2>1, CustodySend
<1>5. CASE Quit /\ connection = "alive"
  <2>1. /\ Send("shutdown", TRUE) /\ nextId <= MaxCalls + 1 /\ "shutdown" \in Kinds
        /\ UNCHANGED <<connection, process, threads, done>>
    BY <1>5 DEF Quit, ClientInv, Numbered, Kinds
  <2> QED
    BY <2>1, CustodySend
<1>6. ASSUME UNCHANGED <<nextId, request, process, stdin, threads, done>>,
             connection' = connection \/ connection' # "none"
      PROVE  Custody'
  <2>1. UNCHANGED <<light, jobs, heavy>>
    BY <1>6 DEF threads
  <2>2. WorksWhileThere'
    BY <1>6, <2>1 DEF Custody, WorksWhileThere
  <2> QED
    BY <1>1, <1>6, <2>2, CustodyIdle
<1>7. CASE \/ Quit /\ connection # "alive"
           \/ \E i \in Ids : Timeout(i) \/ WriteFails(i)
           \/ Receive \/ DaemonExited
  <2>1. /\ UNCHANGED <<nextId, request, process, stdin, threads, done>>
        /\ connection' = connection \/ connection' # "none"
    BY <1>7 DEF Quit, Timeout, WriteFails, Receive, DaemonExited
  <2> QED
    BY <1>6, <2>1
<1> QED
  BY <1>2, <1>3, <1>4, <1>5, <1>7 DEF MainProcess

LEMMA CustodyDaemon ==
    ASSUME ClientInv, Custody, StdinThread \/ Worker \/ Crash
    PROVE  Custody'
<1> USE DEF None, Ended
<1>1. TypeOK
  BY DEF ClientInv
<1>2. CASE Boot \/ EndOfInput \/ DrainDone
  <2>1. /\ UNCHANGED <<nextId, request, stdin, threads, done, connection, light, jobs, heavy>>
        /\ process # "gone"
    BY <1>2 DEF Boot, EndOfInput, DrainDone, client, threads
  <2>2. WorksWhileThere'
    BY <1>2, <2>1 DEF Boot, EndOfInput, DrainDone, Custody, WorksWhileThere
  <2> QED
    BY <1>1, <2>1, <2>2, CustodyIdle
<1>3. CASE ReadHeavy /\ heavy = Ended
  <2>1. /\ ProcessGone /\ UNCHANGED <<nextId, request, done>> /\ connection' # "none"
        /\ stdin # <<>> /\ stdin' = Tail(stdin)
    BY <1>3 DEF ReadHeavy, client, Custody, WorksWhileThere
  <2> QED
    BY <1>1, <2>1, CustodyGone
<1>4. CASE LightDone /\ app = "exited"
  <2>1. /\ ProcessGone /\ UNCHANGED <<nextId, request, stdin>> /\ connection' # "none"
        /\ light \in Ids /\ done' = done \cup {light}
    BY <1>1, <1>4 DEF LightDone, client, TypeOK, Custody, WorksWhileThere
  <2> QED
    BY <1>1, <2>1, CustodyGone
<1>5. CASE Crash
  <2>1. ProcessGone /\ UNCHANGED <<nextId, request, stdin, done>> /\ connection' # "none"
    BY <1>5 DEF Crash, client, Custody, WorksWhileThere
  <2> QED
    BY <1>1, <2>1, CustodyGone
<1> QED
  BY <1>1, <1>2, <1>3, <1>4, <1>5, CustodyReadLight, CustodyReadHeavy, CustodyLightDone,
     CustodyHeavyStart, CustodyHeavyDone DEF StdinThread, Worker

LEMMA CustodyInit == Init => Custody
  BY TransportAssumption
     DEF Init, Custody, InputInOrder, HasRead, JobsInOrder, NothingSkipped, WorksWhileThere,
         DoneInOrder, None, Ended, Ids

\* Whatever order the two threads of the daemon finish in, one kind of request is
\* carried out in the order of its numbers, for any number of calls and any fault.
THEOREM CarriedOutInOrder == Spec => []InOrderPerThread
<1>1. ClientInv /\ Custody /\ [Next]_vars => Custody'
  <2> SUFFICES ASSUME ClientInv, Custody, [Next]_vars PROVE Custody'
    OBVIOUS
  <2>1. CASE UNCHANGED vars \/ Killed
    <3>1. /\ UNCHANGED <<nextId, request, process, stdin, threads, done, light, jobs, heavy>>
          /\ connection' = connection \/ connection' # "none"
      BY <2>1 DEF vars, client, threads, Killed
    <3>2. WorksWhileThere'
      BY <3>1 DEF Custody, WorksWhileThere
    <3> QED
      BY <3>1, <3>2, CustodyIdle DEF ClientInv
  <2> QED
    BY <2>1, CustodyMainProcess, CustodyDaemon DEF Next, Rest
<1>2. Custody => InOrderPerThread
  BY DEF Custody, DoneInOrder, InOrderPerThread
<1> QED
  BY <1>1, <1>2, CustodyInit, ClientCorrect, PTL DEF Spec

=============================================================================
