----------------------------- MODULE WorkerPool -----------------------------
(***************************************************************************)
(* Package workerpool: submitters send jobs on a bounded channel that is   *)
(* never closed, n workers select between it and done, and Close closes    *)
(* done and waits for the workers, which first drain the channel.  Each    *)
(* job has its own submitter; its run may panic.  With WithResults every   *)
(* worker sends the job's result on a channel that nobody may be reading.  *)
(***************************************************************************)
EXTENDS Naturals, Sequences, FiniteSets

CONSTANTS
    Jobs, Workers, Closers,
    QueueSize,     \* cap(p.queue)
    ResultSize     \* cap(p.results)

VARIABLES
    collectW,      \* p.collectW
    queue,         \* p.queue
    results,       \* p.results
    resultsClosed,
    closed, done,  \* p.closed, p.done is closed
    submit,        \* where the Submit of each job is
    early,         \* the jobs that were accepted before done was closed (history)
    ran,           \* how often each job was run
    worker, job,   \* where each worker is, and the job it has
    closer,        \* where each Close call is
    recovered      \* p.recovered

pool == <<collectW, queue, results, resultsClosed, closed, done>>
vars == <<pool, submit, early, ran, worker, job, closer, recovered>>

NoJob == "no job"

Init ==
    /\ collectW \in BOOLEAN
    /\ queue = <<>> /\ results = <<>> /\ resultsClosed = FALSE
    /\ closed = FALSE /\ done = FALSE
    /\ submit = [j \in Jobs |-> "new"]
    /\ early = {}
    /\ ran = [j \in Jobs |-> 0]
    /\ worker = [w \in Workers |-> "select"]
    /\ job = [w \in Workers |-> NoJob]
    /\ closer = [c \in Closers |-> "new"]
    /\ recovered = 0

-----------------------------------------------------------------------------
\* Submit and TrySubmit look at closed first.
SubmitCheck(j) ==
    /\ submit[j] = "new"
    /\ submit' = [submit EXCEPT ![j] = IF closed THEN "refused" ELSE "sending"]
    /\ UNCHANGED <<pool, early, ran, worker, job, closer, recovered>>

\* The send on a queue without a capacity.
SubmitSendUnbounded(j) ==
    /\ submit[j] = "sending"
    /\ queue' = Append(queue, j)
    /\ submit' = [submit EXCEPT ![j] = "accepted"]
    /\ early' = IF done THEN early ELSE early \cup {j}
    /\ UNCHANGED <<collectW, results, resultsClosed, closed, done>>
    /\ UNCHANGED <<ran, worker, job, closer, recovered>>

\* Then they send; or they return because done is closed, because ctx is done
\* (Submit), or because the channel is full (TrySubmit).
SubmitSend(j) ==
    /\ submit[j] = "sending"
    /\ \/ /\ Len(queue) < QueueSize
          /\ queue' = Append(queue, j)
          /\ submit' = [submit EXCEPT ![j] = "accepted"]
          /\ early' = IF done THEN early ELSE early \cup {j}
       \/ /\ submit' = [submit EXCEPT ![j] = "refused"]
          /\ UNCHANGED <<queue, early>>
    /\ UNCHANGED <<collectW, results, resultsClosed, closed, done>>
    /\ UNCHANGED <<ran, worker, job, closer, recovered>>

-----------------------------------------------------------------------------
GotoW(w, from, to) == worker[w] = from /\ worker' = [worker EXCEPT ![w] = to]

\* Worker w takes the job at the head of the queue.
Take(w, from, to) ==
    /\ queue # <<>>
    /\ GotoW(w, from, to)
    /\ job' = [job EXCEPT ![w] = Head(queue)]
    /\ queue' = Tail(queue)
    /\ UNCHANGED <<collectW, results, resultsClosed, closed, done, recovered>>

\* The select of worker: done, or a job.
Select(w) ==
    /\ \/ Take(w, "select", "run")
       \/ done /\ GotoW(w, "select", "drain") /\ UNCHANGED <<pool, job, recovered>>
    /\ UNCHANGED <<submit, early, ran, closer>>

\* The non-blocking receive of drainQueue.
DrainQueue(w) ==
    /\ \/ Take(w, "drain", "drainRun")
       \/ queue = <<>> /\ GotoW(w, "drain", "exited") /\ UNCHANGED <<pool, job, recovered>>
    /\ UNCHANGED <<submit, early, ran, closer>>

\* safeCall without the recover: a panic ends the worker.
SafeCallDies(w, from, panics) ==
    /\ GotoW(w, from, IF panics THEN "exited" ELSE "select")
    /\ ran' = [ran EXCEPT ![job[w]] = @ + 1]
    /\ recovered' = recovered
    /\ job' = [job EXCEPT ![w] = NoJob]
    /\ UNCHANGED <<pool, submit, early, closer>>

\* safeCall: the job runs, and a panic is recovered and counted.  The worker goes
\* on to the result, or to its next job.
SafeCall(w, from, panics) ==
    /\ LET loop == IF from = "run" THEN "select" ELSE "drain"
           send == IF from = "run" THEN "send" ELSE "drainSend"
       IN  GotoW(w, from, IF collectW THEN send ELSE loop)
    /\ ran' = [ran EXCEPT ![job[w]] = @ + 1]
    /\ recovered' = recovered + (IF panics THEN 1 ELSE 0)
    /\ job' = IF collectW THEN job ELSE [job EXCEPT ![w] = NoJob]
    /\ UNCHANGED <<pool, submit, early, closer>>

\* runJob's send of the result without the case for done.
SendResultOnly(w, from, to) ==
    /\ GotoW(w, from, to)
    /\ Len(results) < ResultSize
    /\ results' = Append(results, job[w])
    /\ job' = [job EXCEPT ![w] = NoJob]
    /\ UNCHANGED <<collectW, queue, resultsClosed, closed, done>>
    /\ UNCHANGED <<submit, early, ran, closer, recovered>>

\* runJob: the result is sent, or dropped once done is closed.
SendResult(w, from, to) ==
    /\ GotoW(w, from, to)
    /\ \/ /\ Len(results) < ResultSize
          /\ results' = Append(results, job[w])
       \/ done /\ UNCHANGED results
    /\ job' = [job EXCEPT ![w] = NoJob]
    /\ UNCHANGED <<collectW, queue, resultsClosed, closed, done>>
    /\ UNCHANGED <<submit, early, ran, closer, recovered>>

Work(w) ==
    \/ Select(w)
    \/ DrainQueue(w)
    \/ \E panics \in BOOLEAN : SafeCall(w, "run", panics) \/ SafeCall(w, "drainRun", panics)
    \/ SendResult(w, "send", "select")
    \/ SendResult(w, "drainSend", "drain")

\* The reader of Results takes a result.
Receive ==
    /\ results # <<>>
    /\ results' = Tail(results)
    /\ UNCHANGED <<collectW, queue, resultsClosed, closed, done>>
    /\ UNCHANGED <<submit, early, ran, worker, job, closer, recovered>>

-----------------------------------------------------------------------------
AllExited == \A w \in Workers : worker[w] = "exited"

GotoC(c, from, to) ==
    /\ closer[c] = from /\ closer' = [closer EXCEPT ![c] = to]
    /\ UNCHANGED <<collectW, queue, results, submit, early, ran, worker, job, recovered>>

\* wg.Wait forgotten.
CloseWaitSkipped(c) ==
    /\ GotoC(c, "waiting", "returned")
    /\ resultsClosed' = collectW
    /\ UNCHANGED <<closed, done>>

CloseWait(c) ==
    /\ AllExited
    /\ GotoC(c, "waiting", "returned")
    /\ resultsClosed' = collectW
    /\ UNCHANGED <<closed, done>>

\* Close: the call that sets closed closes done, waits for the workers and closes
\* the results; another call returns at once.
Close(c) ==
    \/ GotoC(c, "new", IF closed THEN "returned" ELSE "closing")
       /\ closed' = TRUE /\ UNCHANGED <<done, resultsClosed>>
    \/ GotoC(c, "closing", "waiting")
       /\ done' = TRUE /\ UNCHANGED <<closed, resultsClosed>>
    \/ CloseWait(c)

Next ==
    \/ \E j \in Jobs : SubmitCheck(j) \/ SubmitSend(j)
    \/ \E w \in Workers : Work(w)
    \/ \E c \in Closers : Close(c)
    \/ Receive

Spec == Init /\ [][Next]_vars

\* What is left of a Close that has begun.
Joining(c) == closer[c] # "new" /\ Close(c)
\* Workers and calls of Close are scheduled; nobody needs to read the results.
FairSpec ==
    /\ Spec
    /\ \A w \in Workers : WF_vars(Work(w))
    /\ \A c \in Closers : WF_vars(Joining(c))

-----------------------------------------------------------------------------
TypeOK ==
    /\ \A b \in {collectW, resultsClosed, closed, done} : b \in BOOLEAN
    /\ queue \in Seq(Jobs) /\ Len(queue) <= QueueSize
    /\ results \in Seq(Jobs) /\ Len(results) <= ResultSize
    /\ submit \in [Jobs -> {"new", "sending", "accepted", "refused"}]
    /\ early \subseteq Jobs
    /\ ran \in [Jobs -> Nat] /\ recovered \in Nat
    /\ worker \in [Workers -> {"select", "run", "send", "drain", "drainRun", "drainSend", "exited"}]
    /\ job \in [Workers -> Jobs \cup {NoJob}]
    /\ closer \in [Closers -> {"new", "closing", "waiting", "returned"}]

\* No job is lost or run twice: every accepted job is in the queue, with one
\* worker that has yet to run it, or was run exactly once; no other job runs.
ExactlyOnce ==
    \A j \in Jobs :
        LET queued == {i \in 1 .. Len(queue) : queue[i] = j}
            taken == {w \in Workers : job[w] = j /\ worker[w] \in {"run", "drainRun"}}
        IN  Cardinality(queued) + Cardinality(taken) + ran[j]
              = IF submit[j] = "accepted" THEN 1 ELSE 0

\* Close drains: when all workers have exited, every job that was accepted before
\* done was closed has run.  (A job whose Submit overlaps Close may stay behind
\* in the queue, as the comment in worker says.)
CloseDrains == AllExited => \A j \in early : ran[j] = 1

\* No send on a closed channel: the results are closed only when no worker is
\* left that could send one.
ResultsClosedLast == resultsClosed => AllExited

\* Close returns, even when nobody reads the results.
Closing(c) == closer[c] = "closing"
Returned(c) == closer[c] = "returned"
CloseReturns == \A c \in Closers : Closing(c) ~> Returned(c)

\* The pool stays alive: while it is open an accepted job is run, also after jobs
\* that panicked.
Accepted(j) == submit[j] = "accepted" /\ ~collectW
RanOrClosed(j) == ran[j] = 1 \/ done
JobsRun == \A j \in Jobs : Accepted(j) ~> RanOrClosed(j)

=============================================================================
