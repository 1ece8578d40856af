------------------------------- MODULE LogFile -------------------------------
(***************************************************************************)
(* Package log4go, FileWriter in async mode: Write hands records to a      *)
(* bounded channel; a daemon goroutine writes them through a bufio.Writer  *)
(* to a file that it rotates, and moves spilled records back; Stop shuts   *)
(* it down.  The process may crash: what was flushed stays, and a file     *)
(* spiller is recovered when the writer starts again.  The ticker and      *)
(* Flush's signal do the same, and are one action.  Counters are kept as   *)
(* the sets of records that they count.  A record that Write ignores (the  *)
(* writer is paused, its level is too low) changes nothing: left out.     *)
(***************************************************************************)
EXTENDS LogSpill, FiniteSets

CONSTANTS
    Records, Producers,
    QueueCap,      \* the capacity of w.messages
    SpillTypes,    \* the kinds of spill store that the options choose from
    FlushBatch,    \* w.flushBatchSize
    MaxCrashes,    \* bound: how often the process crashes
    None           \* no record

VARIABLES
    policy, kind,      \* w.policy, and the kind of w.spiller
    closing,
    stop,              \* w.stop is closed
    live,              \* w.messages # nil
    queue, sp,         \* w.messages, w.spiller
    out,               \* the file and its bufio.Writer: [sink, buf, disk]
    since,             \* w.batchSinceFlush
    mode, hand, todo,  \* the daemon
    writing, stopper,  \* the producers in send's select, and Stop
    written, errored, dropped, refused, lost,
    offered, owed, crashes

gates == <<policy, kind, closing, stop, live>>
counts == <<written, errored, dropped, refused, lost>>
vars == <<gates, queue, sp, out, since, mode, hand, todo, writing, stopper, counts,
          offered, owed, crashes>>

\* w.file and w.fileBufWriter: both nil; open; a writer whose file is closed; a
\* writer that keeps the error of a failed write.
Sinks == {"none", "open", "broken", "sticky"}

\* The policy, and the spiller that startDaemon builds for it.
Configs == {<<"drop", "none">>, <<"block", "none">>} \cup ({"spill"} \X SpillTypes)

\* Init and startDaemon with no spill left by an earlier process.  In async mode
\* the daemon opens the file when it writes its first record.
Init ==
    /\ \E c \in Configs : policy = c[1] /\ kind = c[2]
    /\ closing = FALSE /\ stop = FALSE /\ live = TRUE
    /\ queue = <<>> /\ sp = Empty
    /\ out = [sink |-> "none", buf |-> {}, disk |-> {}] /\ since = 0
    /\ mode = "serve" /\ hand = None /\ todo = <<>>
    /\ writing = [p \in Producers |-> None] /\ stopper = "idle"
    /\ written = {} /\ errored = {} /\ dropped = {}
    /\ refused = {} /\ lost = {}
    /\ offered = {} /\ owed = {} /\ crashes = 0

Counted == written \cup errored \cup dropped \cup refused \cup lost
Held == ToSet(queue \o Stored(sp) \o todo) \cup ({hand} \ {None})
Sending == {writing[p] : p \in Producers} \ {None}

-----------------------------------------------------------------------------
\* bufio's Flush, by its outcomes: nothing to do, success, or an error that stays.
Flushed(o) ==
    IF o.sink \in {"none", "sticky"} \/ o.buf = {} THEN {o}
    ELSE {[o EXCEPT !.sink = "sticky"]} \cup
         (IF o.sink = "open"
          THEN {[o EXCEPT !.buf = {}, !.disk = @ \cup o.buf]} ELSE {})

\* rotateImpl when a rotation is due: flush, close, open the new file; each may
\* fail, and closing a file that is closed already does.
Rotated(o) ==
    IF o.sink = "none" THEN {o, [o EXCEPT !.sink = "open"]}
    ELSE UNION {IF f.sink = "open" THEN {f, [f EXCEPT !.sink = "broken"]} ELSE {f}
                : f \in Flushed(o)}

\* A write of r into the bufio.Writer, which flushes first if r does not fit.
Buffered(o, r) ==
    {IF f.sink = "sticky" THEN f ELSE [f EXCEPT !.buf = @ \cup {r}] : f \in Flushed(o) \cup {o}}

\* Without the flush by count: only the ticker flushes.
writeOneNoBatch(r) ==
    /\ since' = since
    /\ \E o1 \in Rotated(out) \cup {out} :
         IF o1.sink = "none"
         THEN out' = o1 /\ errored' = errored \cup {r} /\ UNCHANGED written
         ELSE \E o2 \in Buffered(o1, r) :
              /\ out' = o2
              /\ IF o2.sink = "sticky"
                 THEN errored' = errored \cup {r} /\ UNCHANGED written
                 ELSE written' = written \cup {r} /\ UNCHANGED errored

\* writeOne: rotateImpl at most once a second, the write, and a flush after every
\* FlushBatch records.
writeOne(r) ==
    \E o1 \in Rotated(out) \cup {out} :
        IF o1.sink = "none"
        THEN /\ out' = o1 /\ errored' = errored \cup {r}
             /\ UNCHANGED <<written, since>>
        ELSE \E o2 \in Buffered(o1, r) :
             \/ /\ o2.sink = "sticky"
                /\ out' = o2 /\ errored' = errored \cup {r}
                /\ UNCHANGED <<written, since>>
             \/ /\ o2.sink # "sticky"
                /\ written' = written \cup {r}
                /\ UNCHANGED errored
                /\ IF since + 1 >= FlushBatch
                   THEN since' = 0 /\ out' \in Flushed(o2)
                   ELSE since' = since + 1 /\ out' = o2

-----------------------------------------------------------------------------
\* Write: written directly when Stop has removed the channel (writeSync); else send,
\* dropped at once when closing, up to its select.
WriteCall(p, r) ==
    /\ writing[p] = None /\ r \notin offered
    /\ offered' = offered \cup {r}
    /\ \/ /\ ~live
          /\ \/ /\ out.sink = "none"
                /\ refused' = refused \cup {r}
                /\ UNCHANGED <<out, written>>
             \/ /\ out.sink # "none"
                /\ out' \in Buffered(out, r)
                /\ IF out'.sink = "sticky"
                   THEN refused' = refused \cup {r} /\ UNCHANGED written
                   ELSE written' = written \cup {r} /\ UNCHANGED refused
          /\ UNCHANGED <<writing, dropped>>
       \/ /\ live /\ closing
          /\ dropped' = dropped \cup {r}
          /\ UNCHANGED <<writing, out, written, refused>>
       \/ /\ live /\ ~closing
          /\ writing' = [writing EXCEPT ![p] = r]
          /\ UNCHANGED <<out, written, dropped, refused>>
    /\ UNCHANGED <<gates, queue, sp, since, mode, hand, todo, stopper, errored, lost,
                   owed, crashes>>

\* send's select; the default branch needs a full channel and an open w.stop.
SendSelect(p) ==
    LET r == writing[p]  full == Len(queue) = QueueCap  default == full /\ ~stop IN
    /\ r # None
    /\ \/ /\ ~full
          /\ queue' = Append(queue, r)
          /\ UNCHANGED <<sp, dropped>>
       \/ /\ stop
          /\ dropped' = dropped \cup {r}
          /\ UNCHANGED <<queue, sp>>
       \/ /\ default /\ PushFits(kind, sp)
          /\ sp' = Pushed(kind, sp, r)
          /\ UNCHANGED <<queue, dropped>>
       \/ /\ default /\ policy # "block" /\ ~PushFits(kind, sp)
          /\ dropped' = dropped \cup {r}
          /\ UNCHANGED <<queue, sp>>
    /\ writing' = [writing EXCEPT ![p] = None]
    /\ UNCHANGED <<gates, out, since, mode, hand, todo, stopper, written, errored,
                   refused, lost, offered, owed, crashes>>

-----------------------------------------------------------------------------
\* The daemon takes a record from the channel, in drainQueuedAndSpill too.
Receive ==
    /\ mode \in {"serve", "drain"} /\ hand = None /\ queue # <<>>
    /\ hand' = Head(queue) /\ queue' = Tail(queue)
    /\ UNCHANGED <<gates, sp, out, since, mode, todo, writing, stopper, counts,
                   offered, owed, crashes>>

WriteHand ==
    /\ hand # None
    /\ writeOne(hand)
    /\ hand' = None
    /\ UNCHANGED <<gates, queue, sp, mode, todo, writing, stopper, dropped,
                   refused, lost, offered, owed, crashes>>

\* The ticker or Flush's signal: flushSync, then drainSpill, which takes everything
\* out of the spiller unless the writer is closing.
FlushTick ==
    /\ mode = "serve" /\ hand = None
    /\ out' \in Flushed(out)
    /\ IF closing \/ Stored(sp) = <<>>
       THEN UNCHANGED <<sp, todo, mode>>
       ELSE todo' = Drain(sp) /\ sp' = Empty /\ mode' = "inject"
    /\ UNCHANGED <<gates, queue, since, hand, writing, stopper, counts, offered, owed, crashes>>

\* The loop of drainSpill; when the channel is full one record goes back.
Inject ==
    /\ mode = "inject"
    /\ \/ /\ todo = <<>>
          /\ mode' = "serve"
          /\ UNCHANGED <<queue, sp, todo>>
       \/ /\ todo # <<>> /\ Len(queue) < QueueCap
          /\ queue' = Append(queue, Head(todo)) /\ todo' = Tail(todo)
          /\ UNCHANGED <<sp, mode>>
       \/ /\ todo # <<>> /\ Len(queue) = QueueCap
          /\ sp' = Pushed(kind, sp, Head(todo)) /\ todo' = <<>>
          /\ mode' = "serve"
          /\ UNCHANGED queue
    /\ UNCHANGED <<gates, out, since, hand, writing, stopper, counts, offered, owed, crashes>>

\* w.stop is closed: drainQueuedAndSpill and drainSpillAll, flushSync, and on to
\* the send on w.quit.  A Stop that waited no longer may have set w.messages to nil,
\* and then the drain of the channel ends early.
DrainAll ==
    /\ hand = None
    /\ \/ /\ mode = "serve" /\ stop
          /\ mode' = "drain"
          /\ UNCHANGED <<sp, out, hand, todo>>
       \/ /\ mode = "drain" /\ (queue = <<>> \/ ~live)
          /\ mode' = "spill"
          /\ todo' = Drain(sp) /\ sp' = Empty
          /\ UNCHANGED <<out, hand>>
       \/ /\ mode = "spill" /\ todo # <<>>
          /\ hand' = Head(todo) /\ todo' = Tail(todo)
          /\ UNCHANGED <<sp, out, mode>>
       \/ /\ mode = "spill" /\ todo = <<>>
          /\ out' \in Flushed(out)
          /\ mode' = "quit"
          /\ UNCHANGED <<sp, hand, todo>>
    /\ UNCHANGED <<gates, queue, since, writing, stopper, counts, offered, owed, crashes>>

\* Formatting a record may panic; the daemon recovers, counts it, and ends.
Panic ==
    /\ hand # None
    /\ lost' = lost \cup {hand} \cup ToSet(todo)
    /\ hand' = None /\ todo' = <<>> /\ mode' = "dead"
    /\ UNCHANGED <<gates, queue, sp, out, since, writing, stopper, written, errored,
                   dropped, refused, offered, owed, crashes>>

-----------------------------------------------------------------------------
\* Stop: closing is claimed by compare-and-swap, so only one call goes on.
StopClaim ==
    /\ ~closing /\ closing' = TRUE
    /\ stopper' = "claimed"
    /\ owed' = Held
    /\ UNCHANGED <<policy, kind, stop, live, queue, sp, out, since, mode, hand,
                   todo, writing, counts, offered, crashes>>

StopClose ==
    /\ stopper = "claimed"
    /\ stop' = TRUE /\ stopper' = "waiting"
    /\ UNCHANGED <<policy, kind, closing, live, queue, sp, out, since, mode, hand,
                   todo, writing, counts, offered, owed, crashes>>

\* waitQuit: the daemon's send on w.quit, or the timeout.
WaitQuit ==
    /\ stopper = "waiting" /\ stopper' = "closing"
    /\ \/ mode = "quit" /\ mode' = "gone"
       \/ UNCHANGED mode
    /\ UNCHANGED <<gates, queue, sp, out, since, hand, todo, writing, counts, offered,
                   owed, crashes>>

\* The rest of Stop: the channel is forgotten, the file flushed and closed.
StopFile ==
    /\ stopper = "closing" /\ stopper' = "done"
    /\ live' = FALSE
    /\ \E o \in Flushed(out) :
         out' = IF o.sink = "open" THEN [o EXCEPT !.sink = "broken"] ELSE o
    /\ UNCHANGED <<policy, kind, closing, stop, queue, sp, since, mode, hand, todo,
                   writing, counts, offered, owed, crashes>>

\* The process dies and starts again: startDaemon moves what the spill file kept
\* to the channel, and back to the spiller when the channel is full.
CrashRestart ==
    /\ crashes < MaxCrashes /\ crashes' = crashes + 1
    /\ \E s \in AfterCrash(sp) :
         LET kept == Drain(s)
             n == IF Len(kept) < QueueCap THEN Len(kept) ELSE QueueCap
         IN
         /\ queue' = SubSeq(kept, 1, n)
         /\ sp' = FoldLeft(LAMBDA acc, r : Pushed(kind, acc, r), Empty,
                           SubSeq(kept, n + 1, Len(kept)))
         /\ lost' = lost \cup (Held \ ToSet(kept)) \cup Sending \cup out.buf
    /\ out' = [sink |-> "none", buf |-> {}, disk |-> out.disk] /\ since' = 0
    /\ closing' = FALSE /\ stop' = FALSE /\ live' = TRUE
    /\ mode' = "serve" /\ hand' = None /\ todo' = <<>>
    /\ writing' = [p \in Producers |-> None] /\ stopper' = "idle"
    /\ owed' = {}
    /\ UNCHANGED <<policy, kind, written, errored, dropped, refused, offered>>

Next ==
    \/ \E p \in Producers, r \in Records : WriteCall(p, r)
    \/ \E p \in Producers : SendSelect(p)
    \/ Receive \/ WriteHand \/ FlushTick \/ Inject \/ DrainAll \/ Panic
    \/ StopClaim \/ StopClose \/ WaitQuit \/ StopFile
    \/ CrashRestart

Spec == Init /\ [][Next]_vars

-----------------------------------------------------------------------------
TypeOK ==
    /\ <<policy, kind>> \in Configs
    /\ {closing, stop, live} \subseteq BOOLEAN
    /\ queue \in SeqOf(Records, QueueCap)
    /\ sp.ring \in SeqOf(Records, RingCap) /\ sp.file \in SeqOf(Records, FileCap)
    /\ todo \in SeqOf(Records, RingCap + FileCap) /\ hand \in Records \cup {None}
    /\ out.sink \in Sinks /\ out.buf \cup out.disk \subseteq Records
    /\ since \in 0..FlushBatch - 1
    /\ mode \in {"serve", "inject", "drain", "spill", "quit", "gone", "dead"}
    /\ writing \in [Producers -> Records \cup {None}]
    /\ stopper \in {"idle", "claimed", "waiting", "closing", "done"}
    /\ Counted \cup owed \subseteq offered /\ offered \subseteq Records
    /\ crashes \in 0..MaxCrashes

\* As long as the daemon takes records from the channel, a record that Write was
\* called with waits in the writer, or a counter (or the error that Write returns)
\* shows what became of it, under drop and block.
Accounted ==
    policy # "spill" /\ live /\ mode \in {"serve", "inject", "drain"} =>
        offered \subseteq Counted \cup Held \cup Sending

\* No record is in two places or has two outcomes, spilling and the recovery of
\* the spill file after a crash included: no line appears twice in the log.
AtMostOnce ==
    /\ IsInjective(queue \o Stored(sp) \o todo)
    /\ hand \notin ToSet(queue \o Stored(sp) \o todo)
    /\ Held \cap Counted = {} /\ Sending \cap (Held \cup Counted) = {}
    /\ written \cap (errored \cup dropped \cup refused) = {}
    /\ out.disk \cap out.buf = {} /\ out.disk \cap lost = {}

\* When Stop has seen the daemon's quit, no record that the writer held when Stop
\* began is still in it, not even in the bufio.Writer, unless a write to the file
\* failed; and if none could be overwritten, each was written or counted.
StopDrains ==
    mode = "gone" =>
        /\ owed \cap Held = {}
        /\ policy # "spill" => owed \subseteq Counted
        /\ out.sink # "sticky" => owed \cap out.buf = {}

\* CrashLossBound: at any instant at most FlushBatch records are counted as
\* written and not on disk, failed rotations and failed flushes included; until Stop
\* removes the channel, after which Write goes to the buffer by itself.
CrashLossBounded == live => Cardinality(out.buf) <= FlushBatch
=============================================================================
