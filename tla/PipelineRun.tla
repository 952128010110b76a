----------------------------- MODULE PipelineRun -----------------------------
(***************************************************************************)
(* The two hooks of apps/shared/src/react that order what the user         *)
(* interface asks of the core: useVaultPipelineRun runs open, close and    *)
(* create jobs one after another, useClosingDisplayHold keeps the Closing  *)
(* badge of a vault for a while after its close is done.                   *)
(*                                                                         *)
(* JavaScript runs a callback to its end, so what happens between two      *)
(* awaits is one step.  The operators here are parts of such steps: the    *)
(* job takes the password of its vault out of session RAM in the same turn *)
(* that starts it, hence the sets of vaults with a password, before and    *)
(* after.                                                                  *)
(***************************************************************************)
EXTENDS Naturals, Sequences

CONSTANTS Vaults, None

VARIABLES
    run,            \* runRef: the job in flight
    queue,          \* queueRef: the jobs behind it
    hold            \* startedAtRef and cancelTimerRef, for each vault

Kinds == {"open", "close", "create"}

\* typed: the user gave a password for this job.
Job == [vault : Vaults, kind : Kinds, typed : BOOLEAN]

\* The job in flight, with what is known of its RPC: password tells whether one went
\* with it, rpc where it is.
Running == [job : Job, password : BOOLEAN, rpc : {"sent", "ok", "failed"}]
NoRun == [job |-> None, password |-> FALSE, rpc |-> "none"]

Tracked(v) == run.job # None /\ run.job.vault = v
Waiting(v) == \E i \in DOMAIN queue : queue[i].vault = v
Busy(v) == Tracked(v) \/ Waiting(v)
OfKind(v, kind) ==
    \/ Tracked(v) /\ run.job.kind = kind
    \/ \E i \in DOMAIN queue : queue[i].vault = v /\ queue[i].kind = kind

\* An open borrows the password, a close reads it.
Executed(job, ram) ==
    [job |-> job, password |-> job.vault \in ram, rpc |-> "sent"]
Borrowed(job, ram) == IF job.kind = "open" THEN ram \ {job.vault} ELSE ram

\* start: the job runs at once if none does.  Its caller has found the vault not Busy.
Begin(job, ram, ramNext) ==
    \/ /\ run.job = None
       /\ run' = Executed(job, ram)
       /\ ramNext = Borrowed(job, ram)
       /\ UNCHANGED queue
    \/ /\ run.job # None
       /\ queue' = Append(queue, job)
       /\ ramNext = ram
       /\ UNCHANGED run

\* Mutant: the queue is left for later.
AdvanceLater(ram, ramNext) ==
    /\ run' = NoRun
    /\ ramNext = ram
    /\ UNCHANGED queue

\* The end of the job in flight, done or failed ("advance"): the next one starts.
Advance(ram, ramNext) ==
    \/ /\ queue = <<>>
       /\ run' = NoRun
       /\ ramNext = ram
       /\ UNCHANGED queue
    \/ /\ queue # <<>>
       /\ run' = Executed(Head(queue), ram)
       /\ ramNext = Borrowed(Head(queue), ram)
       /\ queue' = Tail(queue)

\* A hold is set when a close starts and its timer when the close is done.
Holds == {"none", "held", "timed"}
Held(v) == hold[v] # "none"
Begun(v) == [hold EXCEPT ![v] = "held"]

\* Mutant: only the timer is cancelled.
ReleasedTimer(v) == [hold EXCEPT ![v] = IF @ = "timed" THEN "held" ELSE @]

Settling(v) == [hold EXCEPT ![v] = "timed"]
Released(v) == [hold EXCEPT ![v] = "none"]
=============================================================================
