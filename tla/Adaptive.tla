------------------------------ MODULE Adaptive ------------------------------
(***************************************************************************)
(* Package adaptive: a worker pool whose autoscaler samples the CPU load   *)
(* and starts or stops one worker per tick, between MinWorkers and         *)
(* MaxWorkers.  Submit holds a read lock across its closed check and send; *)
(* Close waits for the autoscaler and the workers and then, under the      *)
(* write lock, runs what is left in the queue.                             *)
(***************************************************************************)
EXTENDS Naturals, Sequences, FiniteSets

CONSTANTS
    Jobs, Closers,
    Slots,                   \* 1 .. n, names for worker goroutines
    MinWorkers, MaxWorkers,
    QueueSize                \* cap(p.queue)

VARIABLES
    queue, closed, done,
    stopChs,       \* p.stopChs: the workers whose stop channel is registered
    stopped,       \* the workers whose stop channel is closed
    worker, job,   \* where each worker is ("none": not running), and its job
    scaler,        \* where the autoscaler is
    submit,        \* where the Submit of each job is; "sending" holds the read lock
    ran,           \* how often each job was run
    closer         \* where each Close call is

vars == <<queue, closed, done, stopChs, stopped, worker, job, scaler, submit, ran, closer>>

NoJob == "no job"
Live == {w \in Slots : worker[w] # "none"}
Drainer == Slots \cup Closers

\* The pool starts MinWorkers workers.
Init ==
    /\ queue = <<>> /\ closed = FALSE /\ done = FALSE
    /\ stopChs = [i \in 1 .. MinWorkers |-> i]
    /\ worker = [w \in Slots |-> IF w <= MinWorkers THEN "select" ELSE "none"]
    /\ stopped = {}
    /\ job = [d \in Drainer |-> NoJob]
    /\ scaler = "tick"
    /\ submit = [j \in Jobs |-> "new"]
    /\ ran = [j \in Jobs |-> 0]
    /\ closer = [c \in Closers |-> "new"]

-----------------------------------------------------------------------------
\* The autoscaler: a tick, a sample of the load that may fail, another look at
\* done, and the decision from the worker count of that moment.
Scale(from, to) ==
    /\ scaler = from /\ scaler' = to
    /\ UNCHANGED <<queue, closed, done, job, submit, ran, closer>>

Tick ==
    /\ \/ done /\ Scale("tick", "exited")
       \/ Scale("tick", "sample")
    /\ UNCHANGED <<stopChs, stopped, worker>>

Sample ==
    /\ \/ Scale("sample", "tick")
       \/ done /\ Scale("sample", "exited")
       \/ ~done /\ Cardinality(Live) > MinWorkers /\ Scale("sample", "shrink")
       \/ ~done /\ Cardinality(Live) < MaxWorkers /\ queue # <<>> /\ Scale("sample", "grow")
    /\ UNCHANGED <<stopChs, stopped, worker>>

\* A new worker goes by the smallest free name.
Grow ==
    /\ Scale("grow", "tick")
    /\ IF Cardinality(Live) >= MaxWorkers
       THEN UNCHANGED <<stopChs, stopped, worker>>
       ELSE \E w \in Slots \ Live :
              /\ \A v \in Slots \ Live : w <= v
              /\ stopChs' = Append(stopChs, w)
              /\ stopped' = stopped \ {w}
              /\ worker' = [worker EXCEPT ![w] = "select"]

\* shrink: the channel that was registered last is closed.
Shrink ==
    /\ Scale("shrink", "tick")
    /\ UNCHANGED worker
    /\ IF stopChs = <<>>
       THEN UNCHANGED <<stopChs, stopped>>
       ELSE /\ stopped' = stopped \cup {stopChs[Len(stopChs)]}
            /\ stopChs' = SubSeq(stopChs, 1, Len(stopChs) - 1)

Autoscale == Tick \/ Sample \/ Grow \/ Shrink

-----------------------------------------------------------------------------
Goto(w, from, to) ==
    /\ worker[w] = from /\ worker' = [worker EXCEPT ![w] = to]
    /\ UNCHANGED <<closed, done, stopChs, stopped, scaler, submit, closer>>

Take(d) ==
    /\ queue # <<>>
    /\ job' = [job EXCEPT ![d] = Head(queue)]
    /\ queue' = Tail(queue)
    /\ UNCHANGED ran

\* The worker's select: done, its stop channel, or a job.
Select(w) ==
    \/ done /\ Goto(w, "select", "drain") /\ UNCHANGED <<queue, job, ran>>
    \/ w \in stopped /\ Goto(w, "select", "none") /\ UNCHANGED <<queue, job, ran>>
    \/ Goto(w, "select", "work") /\ Take(w)

DrainQueue(w) ==
    \/ Goto(w, "drain", "drainWork") /\ Take(w)
    \/ queue = <<>> /\ Goto(w, "drain", "none") /\ UNCHANGED <<queue, job, ran>>

\* safeWork: the job runs; a panic is recovered, so it always ends.
SafeWork(d) ==
    /\ ran' = [ran EXCEPT ![job[d]] = @ + 1]
    /\ job' = [job EXCEPT ![d] = NoJob]
    /\ UNCHANGED queue

Work(w) ==
    \/ Select(w)
    \/ DrainQueue(w)
    \/ Goto(w, "work", "select") /\ SafeWork(w)
    \/ Goto(w, "drainWork", "drain") /\ SafeWork(w)

-----------------------------------------------------------------------------
WriteLocked == \E c \in Closers : closer[c] \in {"final", "finalWork"}

\* Submit and TrySubmit: under the read lock, closed is looked at.
SubmitCheck(j) ==
    /\ submit[j] = "new" /\ ~WriteLocked
    /\ submit' = [submit EXCEPT ![j] = IF closed THEN "refused" ELSE "sending"]
    /\ UNCHANGED <<queue, closed, done, stopChs, stopped, worker, job, scaler, ran, closer>>

\* Then the send; or done is closed, ctx is done (Submit) or the queue is full
\* (TrySubmit).
SubmitSend(j) ==
    /\ submit[j] = "sending"
    /\ \/ /\ Len(queue) < QueueSize
          /\ queue' = Append(queue, j)
          /\ submit' = [submit EXCEPT ![j] = "accepted"]
       \/ submit' = [submit EXCEPT ![j] = "refused"] /\ UNCHANGED queue
    /\ UNCHANGED <<closed, done, stopChs, stopped, worker, job, scaler, ran, closer>>

-----------------------------------------------------------------------------
GotoC(c, from, to) ==
    /\ closer[c] = from /\ closer' = [closer EXCEPT ![c] = to]
    /\ UNCHANGED <<stopChs, stopped, worker, scaler, submit>>

\* Close: closed, then done (once); the autoscaler and the workers exit.
CloseSignal(c) ==
    /\ \/ ~closed /\ GotoC(c, "new", "closing") /\ closed' = TRUE /\ UNCHANGED done
       \/ GotoC(c, "closing", "waitScaler") /\ done' = TRUE /\ UNCHANGED closed
       \/ done /\ GotoC(c, "new", "waitScaler") /\ UNCHANGED <<closed, done>>
    /\ UNCHANGED <<queue, job, ran>>

CloseWait(c) ==
    /\ \/ scaler = "exited" /\ GotoC(c, "waitScaler", "waitWorkers")
       \/ Live = {} /\ GotoC(c, "waitWorkers", "lock")
    /\ UNCHANGED <<queue, job, ran, closed, done>>

\* The final drain without the write lock.
CloseLockSkipped(c) ==
    /\ GotoC(c, "lock", "final")
    /\ UNCHANGED <<queue, job, ran, closed, done>>

\* The write lock waits for every Submit that is past its check.
CloseLock(c) ==
    /\ ~WriteLocked /\ \A j \in Jobs : submit[j] # "sending"
    /\ GotoC(c, "lock", "final")
    /\ UNCHANGED <<queue, job, ran, closed, done>>

CloseDrain(c) ==
    /\ \/ GotoC(c, "final", "finalWork") /\ Take(c)
       \/ GotoC(c, "finalWork", "final") /\ SafeWork(c)
       \/ queue = <<>> /\ GotoC(c, "final", "returned") /\ UNCHANGED <<queue, job, ran>>
    /\ UNCHANGED <<closed, done>>

Close(c) == CloseSignal(c) \/ CloseWait(c) \/ CloseLock(c) \/ CloseDrain(c)

Next ==
    \/ Autoscale
    \/ \E w \in Slots : Work(w)
    \/ \E j \in Jobs : SubmitCheck(j) \/ SubmitSend(j)
    \/ \E c \in Closers : Close(c)

Spec == Init /\ [][Next]_vars

\* What is left of a Close that has begun.
Joining(c) == closer[c] # "new" /\ Close(c)
\* The autoscaler takes the closed done.
Stopping == done /\ Autoscale /\ scaler' = "exited"
\* Everything in progress is scheduled, the autoscaler's random select eventually
\* takes done, and a Submit that is past its check returns.
FairSpec ==
    /\ Spec
    /\ SF_vars(Stopping)
    /\ WF_vars(Autoscale)
    /\ \A w \in Slots : WF_vars(Work(w))
    /\ \A j \in Jobs : WF_vars(SubmitSend(j))
    /\ \A c \in Closers : WF_vars(Joining(c))

-----------------------------------------------------------------------------
TypeOK ==
    /\ queue \in Seq(Jobs) /\ Len(queue) <= QueueSize
    /\ closed \in BOOLEAN /\ done \in BOOLEAN
    /\ stopChs \in Seq(Slots) /\ stopped \subseteq Slots
    /\ worker \in [Slots -> {"none", "select", "work", "drain", "drainWork"}]
    /\ job \in [Drainer -> Jobs \cup {NoJob}]
    /\ scaler \in {"tick", "sample", "grow", "shrink", "exited"}
    /\ submit \in [Jobs -> {"new", "sending", "accepted", "refused"}]
    /\ ran \in [Jobs -> Nat]
    /\ closer \in [Closers -> {"new", "closing", "waitScaler", "waitWorkers", "lock", "final",
                               "finalWork", "returned"}]

\* Accepted jobs are guaranteed to run: when a Close has returned, every job
\* whose Submit returned nil was run exactly once, also when that Submit raced
\* Close or its worker was told to stop.
AcceptedRuns ==
    (\E c \in Closers : closer[c] = "returned")
      => \A j \in Jobs : ran[j] = IF submit[j] = "accepted" THEN 1 ELSE 0

\* No channel is closed twice: the registered stop channels are open, and each
\* belongs to its own running worker.
StopChannelsOpen ==
    \/ done
    \/ /\ \A i \in 1 .. Len(stopChs) : stopChs[i] \in Live \ stopped
       /\ Cardinality({stopChs[i] : i \in 1 .. Len(stopChs)}) = Len(stopChs)

\* What it rests on: while the pool is open no worker drains, and a registered
\* channel is registered once, open, and its worker's.
Registered ==
    /\ stopChs \in Seq(Slots)
    /\ DOMAIN worker = Slots
    /\ done \/ /\ \A w \in Slots : worker[w] \in {"none", "select", "work"}
               /\ \A i \in 1 .. Len(stopChs) : stopChs[i] \in Live \ stopped
               /\ \A i, k \in 1 .. Len(stopChs) : stopChs[i] = stopChs[k] => i = k

\* Close leaves nobody behind: when a Close has returned no worker is running,
\* not even one that the autoscaler decided to start before done was closed.
NoWorkersLeft == (\E c \in Closers : closer[c] = "returned") => Live = {}

\* Close returns.
Closing(c) == closer[c] = "closing"
Returned(c) == closer[c] = "returned"
CloseReturns == \A c \in Closers : Closing(c) ~> Returned(c)

=============================================================================
