------------------------------ MODULE Batcher -------------------------------
(***************************************************************************)
(* Package batcher: producers send items into a buffered channel, one      *)
(* collector goroutine gathers them into batches and flushes a batch when  *)
(* it is full, on a tick, on Flush and on Close.  The items are numbered   *)
(* in the order in which the channel accepted them.                        *)
(***************************************************************************)
EXTENDS Integers, Sequences

CONSTANTS
    Producers,   \* goroutines that call Add
    Flushers,    \* goroutines that call Flush
    Closers,     \* goroutines that call Close
    MaxSize,     \* maxSize
    BufferCap,   \* bufferCap, at least 1 here (a buffered channel)
    MaxAdds      \* bound on the calls of Add

VARIABLES
    in,          \* the channel b.in
    flushCh,     \* the channel of flush requests, capacity 1
    done,        \* b.done is closed
    collector,   \* where the collector is: "select", "drain", "flush", "exited"
    buf,         \* the collector's batch
    flushed,     \* every item handed to flushFn, in order
    serving,     \* the Flush request the collector has received
    adds,        \* the number of calls of Add
    sent,        \* the number of items accepted by Add
    acks,        \* the Flush requests that were acknowledged
    readers,     \* the Adds that hold b.mu for reading
    pc,          \* where each caller is
    mark         \* sent when a Flush was called, and when b.done was closed (history)

chans == <<in, flushCh>>
coll == <<collector, buf, serving>>
vars == <<chans, done, coll, flushed, adds, sent, acks, readers, pc, mark>>

None == "none"
Callers == Producers \cup Flushers \cup Closers

Init ==
    /\ in = <<>> /\ flushCh = <<>>
    /\ done = FALSE
    /\ collector = "select" /\ buf = <<>>
    /\ flushed = <<>>
    /\ serving = None
    /\ adds = 0 /\ sent = 0
    /\ acks = {}
    /\ readers = {}
    /\ pc = [c \in Callers |-> "idle"]
    /\ mark = [c \in Flushers \cup {"close"} |-> 0]

Move(c, from, to) ==
    /\ pc[c] = from
    /\ pc' = [pc EXCEPT ![c] = to]

-----------------------------------------------------------------------------
\* Add: the fast-path check of done, the read lock, the send.
Add(p) ==
    /\ adds < MaxAdds
    /\ adds' = adds + 1
    /\ Move(p, "idle", IF done THEN "idle" ELSE "rlock")
    /\ UNCHANGED <<chans, done, coll, flushed, sent, acks, readers, mark>>

\* A writer that waits in Lock keeps new readers out.
RLock(p) ==
    /\ \A c \in Closers : pc[c] # "lock"
    /\ Move(p, "rlock", "send")
    /\ readers' = readers \cup {p}
    /\ UNCHANGED <<chans, done, coll, flushed, adds, sent, acks, mark>>

\* The select between the send and done; the deferred RUnlock is part of it.
Send(p) ==
    /\ Move(p, "send", "idle")
    /\ readers' = readers \ {p}
    /\ \/ /\ Len(in) < BufferCap
          /\ sent' = sent + 1
          /\ in' = Append(in, sent')
       \/ /\ done
          /\ UNCHANGED <<sent, in>>
    /\ UNCHANGED <<flushCh, done, coll, flushed, adds, acks, mark>>

Flush(f) ==
    /\ Move(f, "idle", "request")
    /\ mark' = [mark EXCEPT ![f] = sent]
    /\ acks' = acks \ {f}
    /\ UNCHANGED <<chans, done, coll, flushed, adds, sent, readers>>

Request(f) ==
    /\ \/ /\ flushCh = <<>>
          /\ Move(f, "request", "await")
          /\ flushCh' = <<f>>
       \/ /\ done
          /\ Move(f, "request", "gone")
          /\ UNCHANGED flushCh
    /\ UNCHANGED <<in, done, coll, flushed, adds, sent, acks, readers, mark>>

Await(f) ==
    /\ \/ f \in acks /\ Move(f, "await", "acked")
       \/ done /\ Move(f, "await", "gone")
    /\ UNCHANGED <<chans, done, coll, flushed, adds, sent, acks, readers, mark>>

Close(c) ==
    /\ Move(c, "idle", "wait")
    /\ done' = TRUE
    /\ mark' = IF done THEN mark ELSE [mark EXCEPT !["close"] = sent]
    /\ UNCHANGED <<chans, coll, flushed, adds, sent, acks, readers>>

AwaitCollector(c) ==
    /\ collector = "exited"
    /\ Move(c, "wait", "lock")
    /\ UNCHANGED <<chans, done, coll, flushed, adds, sent, acks, readers, mark>>

\* With the write lock held and the collector gone, nothing else touches the
\* channel, so the drain is one step.
FinalDrain(c) ==
    /\ readers = {}
    /\ Move(c, "lock", "closed")
    /\ flushed' = flushed \o in
    /\ in' = <<>>
    /\ UNCHANGED <<flushCh, done, coll, adds, sent, acks, readers, mark>>

-----------------------------------------------------------------------------
\* The batch is kept after the flush.
FlushBatchKeeps(batch) ==
    /\ flushed' = flushed \o batch
    /\ buf' = batch

\* The batch is flushed and replaced by an empty one; a panic of flushFn is
\* recovered and changes nothing.
FlushBatch(batch) ==
    /\ flushed' = flushed \o batch
    /\ buf' = <<>>

AddAndMaybeFlush(item) ==
    LET batch == Append(buf, item)
    IN  IF Len(batch) >= MaxSize
        THEN FlushBatch(batch)
        ELSE buf' = batch /\ UNCHANGED flushed

Receive ==
    /\ in # <<>>
    /\ AddAndMaybeFlush(Head(in))
    /\ in' = Tail(in)

\* One case of the collector's select.
Select ==
    /\ collector = "select"
    /\ \/ /\ done
          /\ collector' = "drain"
          /\ UNCHANGED <<chans, buf, serving, flushed>>
       \/ /\ Receive
          /\ UNCHANGED <<collector, serving, flushCh>>
       \/ /\ FlushBatch(buf)              \* the ticker
          /\ UNCHANGED <<collector, serving, chans>>
       \/ /\ flushCh # <<>>
          /\ collector' = "flush"
          /\ serving' = Head(flushCh)
          /\ flushCh' = <<>>
          /\ UNCHANGED <<in, buf, flushed>>
    /\ UNCHANGED <<done, adds, sent, acks, readers, pc, mark>>

\* The drain loop after done.
Drain ==
    /\ collector = "drain"
    /\ \/ Receive /\ UNCHANGED collector
       \/ /\ in = <<>>
          /\ FlushBatch(buf)
          /\ collector' = "exited"
          /\ UNCHANGED in
    /\ UNCHANGED <<flushCh, done, serving, adds, sent, acks, readers, pc, mark>>

\* A flush request flushes the batch and leaves the channel alone.
FlushBatchOnly ==
    /\ collector = "flush"
    /\ FlushBatch(buf)
    /\ collector' = "select"
    /\ acks' = acks \cup {serving}
    /\ serving' = None
    /\ UNCHANGED <<in, flushCh, done, adds, sent, readers, pc, mark>>

\* The drain loop of a flush request; the request is answered after the flush.
DrainForFlush ==
    /\ collector = "flush"
    /\ \/ Receive /\ UNCHANGED <<collector, serving, acks>>
       \/ /\ in = <<>>
          /\ FlushBatch(buf)
          /\ collector' = "select"
          /\ acks' = acks \cup {serving}
          /\ serving' = None
          /\ UNCHANGED in
    /\ UNCHANGED <<flushCh, done, adds, sent, readers, pc, mark>>

Collect == Select \/ Drain \/ DrainForFlush
AddStep(p) == Add(p) \/ RLock(p) \/ Send(p)
FlushStep(f) == Flush(f) \/ Request(f) \/ Await(f)
CloseStep(c) == Close(c) \/ AwaitCollector(c) \/ FinalDrain(c)

Next ==
    \/ Collect
    \/ \E p \in Producers : AddStep(p)
    \/ \E f \in Flushers : FlushStep(f)
    \/ \E c \in Closers : CloseStep(c)

Spec == Init /\ [][Next]_vars

\* The collector takes the closed done.
Stopping == Select /\ collector' = "drain"
\* The collector and the calls in progress are scheduled; calling is optional.
\* A select picks among its ready cases at random, so a case that stays ready
\* is picked in the end.
FairSpec ==
    /\ Spec
    /\ WF_vars(Collect)
    /\ SF_vars(Stopping)
    /\ \A p \in Producers : WF_vars(RLock(p) \/ Send(p))
    /\ \A f \in Flushers : WF_vars(Request(f) \/ Await(f))
    /\ \A c \in Closers : WF_vars(AwaitCollector(c) \/ FinalDrain(c))

-----------------------------------------------------------------------------
TypeOK ==
    /\ in \in Seq(Nat) /\ Len(in) <= BufferCap
    /\ flushCh \in Seq(Flushers) /\ Len(flushCh) <= 1
    /\ done \in BOOLEAN
    /\ collector \in {"select", "drain", "flush", "exited"}
    /\ buf \in Seq(Nat) /\ Len(buf) < MaxSize
    /\ serving \in Flushers \cup {None}
    /\ flushed \in Seq(Nat)
    /\ adds \in Nat /\ sent \in Nat
    /\ acks \subseteq Flushers
    /\ readers \subseteq Producers
    /\ pc \in [Callers -> {"idle", "rlock", "send", "request", "await", "acked", "gone",
                           "wait", "lock", "closed"}]
    /\ mark \in [Flushers \cup {"close"} -> Nat]

\* Nothing is lost, repeated or reordered on the way from Add to flushFn: what
\* was flushed, the batch and the channel are, in this order, exactly the items
\* accepted so far.
ExactlyOnceInOrder == flushed \o buf \o in = [i \in 1 .. sent |-> i]

\* Flush is a barrier: when it returns because it was acknowledged, every item
\* accepted before it was called has been flushed.
FlushIsABarrier ==
    \A f \in Flushers : pc[f] = "acked" => Len(flushed) >= mark[f]

\* When a Close returns, every item accepted before Close was first called has
\* been flushed.
CloseFlushesEarlier ==
    (\E c \in Closers : pc[c] = "closed") => Len(flushed) >= mark["close"]

\* Close returns, and so does every Add and Flush in progress once it is
\* called, although Adds hold the read lock while they wait for room.
Closing(c) == done
Returned(c) == pc[c] \in {"idle", "acked", "gone", "closed"}
CloseReturns == \A c \in Callers : Closing(c) ~> Returned(c)

=============================================================================
