-------------------------- MODULE DaemonTransport ---------------------------
(***************************************************************************)
(* How an RPC of the desktop app travels: the Electron main process        *)
(* (apps/electron/src/daemon.ts and main.ts) writes numbered requests to   *)
(* the stdin of upriv-daemon (crates/upriv-daemon/src/main.rs), whose      *)
(* stdin thread runs the light ones and queues vault_open and vault_create *)
(* for the Argon2 worker.  Both threads answer on one stdout; the main     *)
(* process matches answers to pending promises by number.                  *)
(*                                                                         *)
(* What a request does is left out: here it is done or not done.           *)
(***************************************************************************)
EXTENDS Naturals, Sequences, Functions

CONSTANTS
    MaxCalls,       \* bound: RPCs of the user interface
    Faults          \* "crash": the daemon may die by itself; "kill": the app may

ASSUME TransportAssumption ==
    /\ MaxCalls \in Nat
    /\ Faults \subseteq {"crash", "kill"}

Ids == 1..(MaxCalls + 1)        \* one more for app_shutdown
None == 0                       \* no request
Ready == 0                      \* the ready line on stdout
Ended == MaxCalls + 2           \* in place of a request: the worker has ended

Kinds == {"light", "heavy", "shutdown"}

VARIABLES
    app,            \* the main process: running, stopping (in stopDaemon) or exited
    connection,     \* none, starting, alive or dead
    nextId,         \* connection.nextRequestId
    request,        \* id -> its kind and whether a timer runs for it
    pending,        \* connection.pending: ids with a promise to settle
    promise,        \* id -> unused, open, answered or rejected
    process,        \* the daemon: none, booting, serving, draining or gone
    stdin,          \* ids written and not yet read
    stdout,         \* answers (and Ready) written and not yet read
    light,          \* the id the stdin thread runs, or None
    jobs,           \* the queue of the Argon2 worker
    heavy,          \* the id the worker runs, None or Ended
    done            \* history: ids whose effect has taken place

client == <<app, connection, nextId, request, pending, promise>>
threads == <<light, jobs, heavy>>
vars == <<client, process, stdin, stdout, threads, done>>

TypeOK ==
    /\ app \in {"running", "stopping", "exited"}
    /\ connection \in {"none", "starting", "alive", "dead"}
    /\ nextId \in 1..(MaxCalls + 2)
    /\ request \in [Ids -> [kind : Kinds, timer : BOOLEAN]]
    /\ pending \subseteq Ids
    /\ promise \in [Ids -> {"unused", "open", "answered", "rejected"}]
    /\ process \in {"none", "booting", "serving", "draining", "gone"}
    /\ stdin \in Seq(Ids)
    /\ stdout \in Seq(Ids \cup {Ready})
    /\ light \in Ids \cup {None}
    /\ jobs \in Seq(Ids)
    /\ heavy \in Ids \cup {None, Ended}
    /\ done \subseteq Ids

Init ==
    /\ app = "running"
    /\ connection = "none"
    /\ nextId = 1
    /\ request = [i \in Ids |-> [kind |-> "light", timer |-> FALSE]]
    /\ pending = {}
    /\ promise = [i \in Ids |-> "unused"]
    /\ process = "none"
    /\ stdin = <<>>
    /\ stdout = <<>>
    /\ light = None
    /\ jobs = <<>>
    /\ heavy = None
    /\ done = {}

-----------------------------------------------------------------------------
\* The main process.

\* Every promise of S is rejected and forgotten.
Reject(S) ==
    /\ pending' = pending \ S
    /\ promise' = [i \in Ids |-> IF i \in S \cap pending THEN "rejected" ELSE promise[i]]

\* The daemon is gone, with everything its threads were at.
ProcessGone ==
    /\ process' = "gone"
    /\ light' = None
    /\ jobs' = <<>>
    /\ heavy' = None

\* createWindow calls ensureDaemon before it opens the window that makes the RPCs.  A
\* daemon that dies later closes the app: there is no second start.
Start ==
    /\ app = "running"
    /\ connection = "none"
    /\ connection' = "starting"
    /\ process' = "booting"
    /\ UNCHANGED <<app, nextId, request, pending, promise, stdin, stdout, threads, done>>

\* startDaemon fails: its timeout fires, or the child is gone before it was ready.  The
\* child is killed and createWindow's caller exits.
StartFails ==
    /\ app # "exited"
    /\ connection = "starting"
    /\ connection' = "dead"
    /\ app' = "exited"
    /\ Reject(pending)
    /\ ProcessGone
    /\ UNCHANGED <<nextId, request, stdin, stdout, done>>

\* daemonRpc: a fresh number, a promise, a timer if the deadline is positive, and one
\* line behind those already on the write chain.
Send(kind, timer) ==
    /\ nextId' = nextId + 1
    /\ request' = [request EXCEPT ![nextId] = [kind |-> kind, timer |-> timer]]
    /\ pending' = pending \cup {nextId}
    /\ promise' = [promise EXCEPT ![nextId] = "open"]
    /\ stdin' = Append(stdin, nextId)

\* An RPC of the user interface; a live daemon takes it even while the app is quitting.
Call(kind, timer) ==
    /\ app # "exited"
    /\ connection = "alive"
    /\ nextId <= MaxCalls
    /\ kind # "shutdown"
    /\ Send(kind, timer)
    /\ UNCHANGED <<app, connection, process, stdout, threads, done>>

\* Mutant: a request that times out is tried again under another number.
TimeoutRetrying(i) ==
    /\ app # "exited"
    /\ i \in pending
    /\ request[i].timer
    /\ nextId' = nextId + 1
    /\ Reject({i})
    /\ UNCHANGED <<app, connection, request, process, stdin, stdout, threads, done>>

\* The deadline of a request passes first.
Timeout(i) ==
    /\ app # "exited"
    /\ i \in pending
    /\ request[i].timer
    /\ Reject({i})
    /\ UNCHANGED <<app, connection, nextId, request, process, stdin, stdout, threads, done>>

\* The write of a line that a daemon now gone never read fails.
WriteFails(i) ==
    /\ app # "exited"
    /\ process = "gone"
    /\ i \in pending /\ i \in Range(stdin)
    /\ Reject({i})
    /\ UNCHANGED <<app, connection, nextId, request, process, stdin, stdout, threads, done>>

\* Mutant: an answer goes to the oldest pending request, whatever its number.
ReceiveInOrder ==
    /\ app # "exited"
    /\ stdout # <<>>
    /\ stdout' = Tail(stdout)
    /\ \/ /\ Head(stdout) = Ready \/ pending = {}
          /\ connection' = IF connection = "starting" THEN "alive" ELSE connection
          /\ UNCHANGED <<pending, promise>>
       \/ /\ Head(stdout) # Ready
          /\ \E i \in pending :
                /\ \A j \in pending : i <= j
                /\ pending' = pending \ {i}
                /\ promise' = [promise EXCEPT ![i] = "answered"]
          /\ UNCHANGED connection
    /\ UNCHANGED <<app, nextId, request, process, stdin, threads, done>>

\* Mutant: an answer settles a promise that was settled before.
ReceiveLate ==
    /\ app # "exited"
    /\ stdout # <<>>
    /\ stdout' = Tail(stdout)
    /\ \/ /\ Head(stdout) = Ready
          /\ connection' = IF connection = "starting" THEN "alive" ELSE connection
          /\ UNCHANGED <<pending, promise>>
       \/ /\ Head(stdout) # Ready
          /\ pending' = pending \ {Head(stdout)}
          /\ promise' = [promise EXCEPT ![Head(stdout)] = "answered"]
          /\ UNCHANGED connection
    /\ UNCHANGED <<app, nextId, request, process, stdin, threads, done>>

\* A line from stdout: ready, or the answer to a pending request; a late one is ignored.
Receive ==
    /\ app # "exited"
    /\ stdout # <<>>
    /\ stdout' = Tail(stdout)
    /\ \/ /\ Head(stdout) = Ready
          /\ connection' = IF connection = "starting" THEN "alive" ELSE connection
          /\ UNCHANGED <<pending, promise>>
       \/ /\ Head(stdout) \in pending
          /\ pending' = pending \ {Head(stdout)}
          /\ promise' = [promise EXCEPT ![Head(stdout)] = "answered"]
          /\ UNCHANGED connection
       \/ /\ Head(stdout) \notin pending \cup {Ready}
          /\ UNCHANGED <<pending, promise, connection>>
    /\ UNCHANGED <<app, nextId, request, process, stdin, threads, done>>

\* Mutant: the promises of a daemon that died are left as they are.
DaemonExitedQuietly ==
    /\ app # "exited"
    /\ connection = "alive"
    /\ process = "gone"
    /\ connection' = "dead"
    /\ app' = IF app = "running" THEN "exited" ELSE app
    /\ UNCHANGED <<nextId, request, pending, promise, process, stdin, stdout, threads,
                   done>>

\* The exit event, which may overtake answers still in the pipe: markDaemonDead, and
\* the app closes unless it is closing already.
DaemonExited ==
    /\ app # "exited"
    /\ connection = "alive"
    /\ process = "gone"
    /\ connection' = "dead"
    /\ Reject(pending)
    /\ app' = IF app = "running" THEN "exited" ELSE app
    /\ UNCHANGED <<nextId, request, process, stdin, stdout, threads, done>>

\* gracefulShutdown: a live daemon is asked to stop; there is none to ask while it is
\* still starting, and it will find its stdin closed.
Quit ==
    /\ app = "running"
    /\ \/ /\ connection = "alive"
          /\ app' = "stopping"
          /\ Send("shutdown", TRUE)
       \/ /\ connection # "alive"
          /\ app' = "exited"
          /\ UNCHANGED <<nextId, request, pending, promise, stdin>>
    /\ UNCHANGED <<connection, process, stdout, threads, done>>

\* stopDaemon goes on when app_shutdown is answered, timed out or failed.  SIGTERM, which
\* the daemon does not handle, ends it at once if it has not exited by then.
StopDaemon ==
    /\ app = "stopping"
    /\ \E i \in Ids : request[i].kind = "shutdown" /\ promise[i] \in {"answered", "rejected"}
    /\ app' = "exited"
    /\ connection' = "dead"
    /\ Reject(pending)
    /\ ProcessGone
    /\ UNCHANGED <<nextId, request, stdin, stdout, done>>

\* The main process is killed: its promises die with it, and what it has written the
\* daemon still reads.
Killed ==
    /\ "kill" \in Faults
    /\ app # "exited"
    /\ app' = "exited"
    /\ connection' = "dead"
    /\ Reject(pending)
    /\ UNCHANGED <<nextId, request, process, stdin, stdout, threads, done>>

-----------------------------------------------------------------------------
\* The daemon.

\* The ready line; nobody reading it ends the process.
Boot ==
    /\ process = "booting"
    /\ \/ /\ app # "exited"
          /\ process' = "serving"
          /\ stdout' = Append(stdout, Ready)
       \/ /\ app = "exited"
          /\ process' = "gone"
          /\ UNCHANGED stdout
    /\ UNCHANGED <<client, stdin, threads, done>>

\* The stdin thread reads a request it runs itself.
ReadLight ==
    /\ process = "serving"
    /\ light = None
    /\ stdin # <<>>
    /\ request[Head(stdin)].kind # "heavy"
    /\ light' = Head(stdin)
    /\ stdin' = Tail(stdin)
    /\ UNCHANGED <<client, process, stdout, jobs, heavy, done>>

\* Mutant: the worker's queue is a stack.
ReadHeavyOnTop ==
    /\ process = "serving"
    /\ light = None
    /\ stdin # <<>>
    /\ request[Head(stdin)].kind = "heavy"
    /\ jobs' = <<Head(stdin)>> \o jobs
    /\ stdin' = Tail(stdin)
    /\ UNCHANGED <<client, process, stdout, light, heavy, done>>

\* It reads one that is_argon2_bound_method names and queues it.  The worker has ended
\* only if nobody reads stdout, and then the answer that says so ends the process.
ReadHeavy ==
    /\ process = "serving"
    /\ light = None
    /\ stdin # <<>>
    /\ request[Head(stdin)].kind = "heavy"
    /\ stdin' = Tail(stdin)
    /\ \/ /\ heavy # Ended
          /\ jobs' = Append(jobs, Head(stdin))
          /\ UNCHANGED <<process, light, heavy>>
       \/ /\ heavy = Ended
          /\ ProcessGone
    /\ UNCHANGED <<client, stdout, done>>

\* run_request_caught and write_out.  Answering app_shutdown ends the loop; a stdout
\* nobody reads any more ends the process.
LightDone ==
    /\ light # None
    /\ done' = done \cup {light}
    /\ \/ /\ app # "exited"
          /\ stdout' = Append(stdout, light)
          /\ process' = IF request[light].kind = "shutdown" THEN "draining" ELSE process
          /\ light' = None
          /\ UNCHANGED <<jobs, heavy>>
       \/ /\ app = "exited"
          /\ ProcessGone
          /\ UNCHANGED stdout
    /\ UNCHANGED <<client, stdin>>

\* The worker takes the next job.
HeavyStart ==
    /\ process \in {"serving", "draining"}
    /\ heavy = None
    /\ jobs # <<>>
    /\ heavy' = Head(jobs)
    /\ jobs' = Tail(jobs)
    /\ UNCHANGED <<client, process, stdin, stdout, light, done>>

\* Mutant: a job that panics is dropped without an answer.
HeavyDoneSilently ==
    /\ heavy \in Ids
    /\ done' = done \cup {heavy}
    /\ heavy' = None
    /\ UNCHANGED <<client, process, stdin, stdout, light, jobs>>

\* The worker answers; a stdout nobody reads any more ends the worker.
HeavyDone ==
    /\ heavy \in Ids
    /\ done' = done \cup {heavy}
    /\ \/ /\ app # "exited"
          /\ stdout' = Append(stdout, heavy)
          /\ heavy' = None
          /\ UNCHANGED jobs
       \/ /\ app = "exited"
          /\ heavy' = Ended
          /\ jobs' = <<>>
          /\ UNCHANGED stdout
    /\ UNCHANGED <<client, process, stdin, light>>

\* Mutant: end of file is an empty line to skip.
EndOfInputSkipped ==
    /\ process = "serving"
    /\ app = "exited" /\ stdin = <<>> /\ light = None
    /\ UNCHANGED vars

\* End of file: the main process is gone and all it wrote has been read.
EndOfInput ==
    /\ process = "serving"
    /\ app = "exited" /\ stdin = <<>> /\ light = None
    /\ process' = "draining"
    /\ UNCHANGED <<client, stdin, stdout, threads, done>>

\* The worker has been joined: Shutdown lies behind every job in its queue.
DrainDone ==
    /\ process = "draining"
    /\ jobs = <<>> /\ heavy \in {None, Ended}
    /\ process' = "gone"
    /\ UNCHANGED <<client, stdin, stdout, threads, done>>

Crash ==
    /\ "crash" \in Faults
    /\ process \in {"booting", "serving", "draining"}
    /\ ProcessGone
    /\ UNCHANGED <<client, stdin, stdout, done>>

-----------------------------------------------------------------------------
\* Both processes are gone.
Rest ==
    /\ app = "exited"
    /\ process \in {"none", "gone"}
    /\ UNCHANGED vars

MainProcess ==
    \/ Start \/ StartFails
    \/ \E kind \in Kinds, timer \in BOOLEAN : Call(kind, timer)
    \/ \E i \in Ids : Timeout(i) \/ WriteFails(i)
    \/ Receive \/ DaemonExited \/ Quit \/ StopDaemon

StdinThread == Boot \/ ReadLight \/ ReadHeavy \/ LightDone \/ EndOfInput \/ DrainDone
Worker == HeavyStart \/ HeavyDone

Next == MainProcess \/ StdinThread \/ Worker \/ Crash \/ Killed \/ Rest

Spec == Init /\ [][Next]_vars

\* The threads of the daemon run, the main process reads its pipes, hears of the
\* daemon's exit and finishes stopping.  Nobody need call or quit, timers need not fire.
FairSpec ==
    /\ Spec
    /\ WF_vars(StdinThread) /\ WF_vars(Worker)
    /\ WF_vars(Receive) /\ WF_vars(DaemonExited) /\ WF_vars(StopDaemon)

-----------------------------------------------------------------------------
\* PROPERTIES

\* A promise is only ever fulfilled by the answer to its own request: whatever answers
\* came late or were dropped before, an answered request has been carried out
\* (daemon.ts:290, pending.get(message.id)).
AnsweredIsDone ==
    \A i \in Ids : promise[i] = "answered" => i \in done

\* A promise is settled once: a late answer does not turn a timeout into a success, nor
\* a timer an answer into a failure (daemon.ts:291-293 and :462-465).
SettledOnce ==
    [][\A i \in Ids : promise[i] \in {"answered", "rejected"} => promise'[i] = promise[i]]_vars

\* No promise is left open on a connection that is over (daemon.ts:318 and :427,
\* rejectAllPending).
NoPromiseOnDeadConnection ==
    /\ pending = {i \in Ids : promise[i] = "open"}
    /\ connection # "alive" => pending = {}

\* Requests of one kind are carried out in the order they were made; a light one may
\* overtake a heavy one (main.rs:205, heavy_tx.send).
InOrderPerThread ==
    \A i, j \in Ids :
        i < j /\ promise[i] # "unused" /\ request[i].kind = request[j].kind /\ j \in done
            => i \in done

\* Every promise is settled, with or without a deadline, whether the daemon answers, is
\* asked to stop or dies (daemon.ts:307, main.rs:84).
EverySettled ==
    \A i \in Ids : promise[i] = "open" ~> promise[i] # "open"

\* The daemon never outlives the app, not even one that was still starting
\* (main.rs:157, the end of stdin).
NoOrphanDaemon ==
    app = "exited" ~> process \in {"none", "gone"}

-----------------------------------------------------------------------------
\* WHAT A COMMENT CLAIMS AND THE CODE DOES NOT KEEP

\* main.rs:223: "Finish in-flight Argon2 work before flushing logs / exiting."
DrainsBeforeExit ==
    [][process = "draining" /\ process' = "gone" => jobs = <<>> /\ heavy \notin Ids]_vars

=============================================================================
