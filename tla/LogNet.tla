------------------------------- MODULE LogNet -------------------------------
(***************************************************************************)
(* Package log4go, NetWriter: Write hands records to a bounded channel, a  *)
(* daemon goroutine dials lazily and sends them, a ring spiller takes the  *)
(* overflow under the spill policy, and Stop shuts the daemon down.  Every *)
(* record is written once; one that Write ignores (the writer is paused,   *)
(* its level is too low) changes nothing and is left out.  The counters    *)
(* are kept as the sets of records that they count.                        *)
(***************************************************************************)
EXTENDS Naturals, Sequences, FiniteSets, SequencesExt

CONSTANTS
    Records,     \* the log records
    Producers,   \* goroutines that call Write
    QueueCap,    \* the capacity of n.messages
    RingCap,     \* the capacity of the ring spiller
    None         \* no record

VARIABLES
    policy,            \* n.policy
    run, closing,
    stop,              \* n.stop is closed
    queue,             \* n.messages
    ring,              \* n.spiller
    conn,              \* n.conn # nil
    mode, hand, todo,  \* the daemon: where it is, the record it sends, what it drained
    writing,           \* the producers: the record in Write's select, or None
    stopper,           \* the goroutine that calls Stop
    sent, errored, dropped, ovDropped,
    lost,              \* the record that the daemon held when it panicked
    offered,           \* the records that Write was called with
    owed               \* the records on their way to the daemon when Stop set closing

vars == <<policy, run, closing, stop, queue, ring, conn, mode, hand, todo,
          writing, stopper, sent, errored, dropped, ovDropped, lost,
          offered, owed>>
counts == <<sent, errored, dropped, ovDropped, lost>>

Policies == {"drop", "block", "spill"}

\* NewNetWriter and Init: the daemon's goroutine exists and has not run yet.
Init ==
    /\ policy \in Policies
    /\ run = FALSE /\ closing = FALSE /\ stop = FALSE
    /\ queue = <<>> /\ ring = <<>> /\ conn = FALSE
    /\ mode = "start" /\ hand = None /\ todo = <<>>
    /\ writing = [p \in Producers |-> None]
    /\ stopper = "idle"
    /\ sent = {} /\ errored = {} /\ dropped = {} /\ ovDropped = {}
    /\ lost = {} /\ offered = {} /\ owed = {}

\* RingSpiller.Push, without the bound.
RingPushUnbounded(r) == ring' = Append(ring, r)

\* RingSpiller.Push: a full ring gives up its oldest record.
RingPush(r) == ring' = Append(IF Len(ring) < RingCap THEN ring ELSE Tail(ring), r)

Counted == sent \cup errored \cup ovDropped \cup lost
\* Where a record is while the writer has it.
Held == ToSet(queue) \cup ToSet(ring) \cup ToSet(todo) \cup ({hand} \ {None})
Sending == {writing[p] : p \in Producers} \ {None}

-----------------------------------------------------------------------------
\* Write up to its select.  Logger.bootstrapLogWriter gives each record once.
WriteCall(p, r) ==
    /\ writing[p] = None
    /\ r \notin offered
    /\ offered' = offered \cup {r}
    /\ \/ /\ closing
          /\ ovDropped' = ovDropped \cup {r}
          /\ UNCHANGED <<writing>>
       \/ /\ ~closing
          /\ writing' = [writing EXCEPT ![p] = r]
          /\ UNCHANGED <<ovDropped>>
    /\ UNCHANGED <<policy, run, closing, stop, queue, ring, conn, mode, hand, todo,
                   stopper, sent, errored, dropped, lost, owed>>

\* Write's select: the default branch needs a full channel and an open n.stop.
WriteSelect(p) ==
    /\ writing[p] # None
    /\ \/ /\ Len(queue) < QueueCap
          /\ queue' = Append(queue, writing[p])
          /\ UNCHANGED <<ring, ovDropped>>
       \/ /\ stop
          /\ ovDropped' = ovDropped \cup {writing[p]}
          /\ UNCHANGED <<queue, ring>>
       \/ /\ Len(queue) = QueueCap /\ ~stop /\ policy = "spill"
          /\ RingPush(writing[p])
          /\ UNCHANGED <<queue, ovDropped>>
       \/ /\ Len(queue) = QueueCap /\ ~stop /\ policy = "drop"
          /\ ovDropped' = ovDropped \cup {writing[p]}
          /\ UNCHANGED <<queue, ring>>
    /\ writing' = [writing EXCEPT ![p] = None]
    /\ UNCHANGED <<policy, run, closing, stop, conn, mode, hand, todo,
                   stopper, sent, errored, dropped, lost, offered, owed>>

-----------------------------------------------------------------------------
\* The daemon goroutine.
DaemonStart ==
    /\ mode = "start"
    /\ run' = TRUE
    /\ mode' = "serve"
    /\ UNCHANGED <<policy, closing, stop, queue, ring, conn, hand, todo,
                   writing, stopper, counts, offered, owed>>

\* It takes a record from the channel; in drainAll too, while there is one.
Receive ==
    /\ mode \in {"serve", "drain"} /\ hand = None /\ queue # <<>>
    /\ hand' = Head(queue)
    /\ queue' = Tail(queue)
    /\ UNCHANGED <<policy, run, closing, stop, ring, conn, mode, todo,
                   writing, stopper, counts, offered, owed>>

\* A failed dial, without counting the record.
DialFailsQuietly ==
    /\ ~conn
    /\ hand' = None
    /\ UNCHANGED <<conn, sent, errored, dropped>>

DialFails ==
    /\ ~conn
    /\ errored' = errored \cup {hand}
    /\ hand' = None
    /\ UNCHANGED <<conn, sent, dropped>>

\* A failed write, after which the record is sent on the next connection.
WriteFailsRetry ==
    /\ conn' = FALSE
    /\ errored' = errored \cup {hand}
    /\ dropped' = dropped \cup {hand}
    /\ UNCHANGED <<hand, sent>>

WriteFails ==
    /\ conn' = FALSE
    /\ errored' = errored \cup {hand}
    /\ dropped' = dropped \cup {hand}
    /\ hand' = None
    /\ UNCHANGED sent

WriteSucceeds ==
    /\ conn' = TRUE
    /\ sent' = sent \cup {hand}
    /\ hand' = None
    /\ UNCHANGED <<errored, dropped>>

\* writeOne: dial if there is no connection, then write; n.connMu is held.
WriteOne ==
    /\ hand # None
    /\ DialFails \/ WriteFails \/ WriteSucceeds
    /\ UNCHANGED <<policy, run, closing, stop, queue, ring, mode, todo,
                   writing, stopper, ovDropped, lost, offered, owed>>

\* The ticker, drainSpill: everything leaves the ring and goes to the channel one
\* by one; when the channel is full one record goes back and the loop ends.
DrainSpill ==
    /\ mode = "serve" /\ hand = None
    /\ ~closing /\ ring # <<>>
    /\ todo' = ring /\ ring' = <<>>
    /\ mode' = "inject"
    /\ UNCHANGED <<policy, run, closing, stop, queue, conn, hand,
                   writing, stopper, counts, offered, owed>>

Inject ==
    /\ mode = "inject"
    /\ \/ /\ todo = <<>>
          /\ mode' = "serve"
          /\ UNCHANGED <<queue, ring, todo>>
       \/ /\ todo # <<>> /\ Len(queue) < QueueCap
          /\ queue' = Append(queue, Head(todo))
          /\ todo' = Tail(todo)
          /\ UNCHANGED <<ring, mode>>
       \/ /\ todo # <<>> /\ Len(queue) = QueueCap
          /\ RingPush(Head(todo))
          /\ todo' = <<>>
          /\ mode' = "serve"
          /\ UNCHANGED queue
    /\ UNCHANGED <<policy, run, closing, stop, conn, hand,
                   writing, stopper, counts, offered, owed>>

\* n.stop is closed: drainAll empties the channel, then the ring, and the daemon
\* goes on to send on n.quit.
DrainAll ==
    /\ hand = None
    /\ \/ /\ mode = "serve" /\ stop
          /\ mode' = "drain"
          /\ UNCHANGED <<ring, hand, todo>>
       \/ /\ mode = "drain" /\ queue = <<>>
          /\ mode' = "spill"
          /\ todo' = ring /\ ring' = <<>>
          /\ UNCHANGED hand
       \/ /\ mode = "spill" /\ todo # <<>>
          /\ hand' = Head(todo) /\ todo' = Tail(todo)
          /\ UNCHANGED <<ring, mode>>
       \/ /\ mode = "spill" /\ todo = <<>>
          /\ mode' = "quit"
          /\ UNCHANGED <<ring, hand, todo>>
    /\ UNCHANGED <<policy, run, closing, stop, queue, conn,
                   writing, stopper, counts, offered, owed>>

\* Serializing a record may panic; the daemon recovers, counts it, and ends.
Panic ==
    /\ hand # None
    /\ conn' = TRUE
    /\ lost' = lost \cup {hand}
    /\ hand' = None /\ todo' = <<>>
    /\ mode' = "dead"
    /\ UNCHANGED <<policy, run, closing, stop, queue, ring,
                   writing, stopper, sent, errored, dropped, ovDropped, offered, owed>>

-----------------------------------------------------------------------------
\* Stop, which does nothing before the daemon has run or after another Stop.
StopClaim ==
    /\ run /\ run' = FALSE
    /\ closing' = TRUE
    /\ stopper' = "claimed"
    /\ owed' = Held
    /\ UNCHANGED <<policy, stop, queue, ring, conn, mode, hand, todo,
                   writing, counts, offered>>

StopClose ==
    /\ stopper = "claimed"
    /\ stop' = TRUE
    /\ stopper' = "waiting"
    /\ UNCHANGED <<policy, run, closing, queue, ring, conn, mode, hand, todo,
                   writing, counts, offered, owed>>

\* waitQuit: the daemon's send on n.quit, or the timeout.
WaitQuit ==
    /\ stopper = "waiting"
    /\ stopper' = "closing"
    /\ \/ mode = "quit" /\ mode' = "gone"
       \/ UNCHANGED mode
    /\ UNCHANGED <<policy, run, closing, stop, queue, ring, conn, hand, todo,
                   writing, counts, offered, owed>>

StopConn ==
    /\ stopper = "closing"
    /\ conn' = FALSE
    /\ stopper' = "done"
    /\ UNCHANGED <<policy, run, closing, stop, queue, ring, mode, hand, todo,
                   writing, counts, offered, owed>>

Next ==
    \/ \E p \in Producers, r \in Records : WriteCall(p, r)
    \/ \E p \in Producers : WriteSelect(p)
    \/ DaemonStart \/ Receive \/ WriteOne \/ DrainSpill \/ Inject \/ DrainAll \/ Panic
    \/ StopClaim \/ StopClose \/ WaitQuit \/ StopConn

Spec == Init /\ [][Next]_vars

-----------------------------------------------------------------------------
TypeOK ==
    /\ policy \in Policies
    /\ {run, closing, stop, conn} \subseteq BOOLEAN
    /\ queue \in SeqOf(Records, QueueCap) /\ ring \in SeqOf(Records, RingCap)
    /\ todo \in SeqOf(Records, RingCap) /\ hand \in Records \cup {None}
    /\ mode \in {"start", "serve", "inject", "drain", "spill", "quit", "gone", "dead"}
    /\ writing \in [Producers -> Records \cup {None}]
    /\ stopper \in {"idle", "claimed", "waiting", "closing", "done"}
    /\ Counted \cup dropped \cup owed \subseteq offered
    /\ offered \subseteq Records

\* As long as the daemon takes records from the channel, a record that Write was
\* called with is sent, or waits, or one counter shows what became of it: under drop
\* and block nothing leaves the writer unseen, lost connections included.
Accounted ==
    policy # "spill" /\ mode \in {"start", "serve", "inject", "drain"} =>
        offered \subseteq Counted \cup Held \cup Sending

\* No record is in two places, or counted and still waiting: none is sent twice
\* or sent and reported as failed, spilling and re-injecting included.
AtMostOnce ==
    /\ IsInjective(queue \o ring \o todo)
    /\ hand \notin ToSet(queue \o ring \o todo) \cup Counted
    /\ Held \cap Counted = {} /\ Sending \cap (Held \cup Counted) = {}
    /\ sent \cap (errored \cup ovDropped) = {} /\ errored \cap ovDropped = {}

\* When Stop has seen the daemon's quit, no record that the writer held when Stop
\* began is still in it; and unless records could be overwritten, each was sent
\* or counted.
StopDrains ==
    mode = "gone" =>
        /\ owed \cap Held = {}
        /\ policy # "spill" => owed \subseteq Counted
=============================================================================
