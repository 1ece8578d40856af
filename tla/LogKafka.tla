------------------------------ MODULE LogKafka ------------------------------
(***************************************************************************)
(* Package log4go, KafkaWriter: Write hands messages to a bounded channel; *)
(* a daemon goroutine passes them to the producer, one by one or in        *)
(* batches, or to the spill store while its circuit breaker is open; the   *)
(* producer reports failed deliveries later, from another goroutine; Stop  *)
(* shuts the daemon down.  A record that the daemon takes is handled in    *)
(* one step: only the producer sees it meanwhile.  Counters are kept as    *)
(* the sets of records that they count.  A record that Write ignores (the  *)
(* writer is paused, its level is too low) changes nothing: left out.      *)
(***************************************************************************)
EXTENDS LogSpill, FiniteSets

CONSTANTS
    Records, Producers,
    Stoppers,      \* goroutines that call Stop: the user's and Logger.Close
    QueueCap,      \* the capacity of k.messages
    SpillTypes,    \* the kinds of spill store that the options choose from
    BatchSize,     \* k.batchSize
    MinSamples,    \* the breaker's minSamples; its failRate is 1/2
    MaxSends,      \* bound: how often the producer is called
    None           \* no record

VARIABLES
    policy, kind, batchMode,
    run, closing,
    stop,             \* how often k.stop was closed
    queue, sp,        \* k.messages, k.spiller
    batch,            \* the daemon's batch
    mode, todo,       \* where the daemon is, and what it drained from the spiller
    writing, stopper, \* the producers in send's select, and the calls of Stop
    open,             \* the producer was not closed
    brk, winSent, winErr, probes,   \* the breaker, and the sends since it half-opened
    sends,
    accepted,         \* records whose Send or SendBatch returned nil
    sent, errored, dropped, lost,
    offered, owed

conf == <<policy, kind, batchMode>>
breaker == <<brk, winSent, winErr, probes>>
counts == <<sent, errored, dropped, lost>>
vars == <<conf, run, closing, stop, queue, sp, batch, mode, todo, writing, stopper,
          open, breaker, sends, accepted, counts, offered, owed>>

Configs == {<<"drop", "none">>, <<"block", "none">>} \cup ({"spill"} \X SpillTypes)

\* NewKafkaWriter and Start, with no spill left by an earlier process.
Init ==
    /\ \E c \in Configs : policy = c[1] /\ kind = c[2]
    /\ batchMode \in BOOLEAN
    /\ run = TRUE /\ closing = FALSE /\ stop = 0
    /\ queue = <<>> /\ sp = Empty /\ batch = <<>>
    /\ mode = "start" /\ todo = <<>>
    /\ writing = [p \in Producers |-> None]
    /\ stopper = [s \in Stoppers |-> "idle"]
    /\ open = TRUE
    /\ brk = "closed" /\ winSent = 0 /\ winErr = 0 /\ probes = 0 /\ sends = 0
    /\ accepted = {} /\ sent = {} /\ errored = {} /\ dropped = {}
    /\ lost = {} /\ offered = {} /\ owed = {}

Counted == sent \cup errored \cup dropped \cup lost
Waiting == queue \o Stored(sp) \o todo \o batch
Held == ToSet(Waiting)
Sending == {writing[p] : p \in Producers} \ {None}

-----------------------------------------------------------------------------
\* Write and send up to its select.
WriteCall(p, r) ==
    /\ writing[p] = None /\ r \notin offered
    /\ offered' = offered \cup {r}
    /\ \/ /\ closing
          /\ dropped' = dropped \cup {r}
          /\ UNCHANGED <<writing>>
       \/ /\ ~closing
          /\ writing' = [writing EXCEPT ![p] = r]
          /\ UNCHANGED <<dropped>>
    /\ UNCHANGED <<conf, run, closing, stop, queue, sp, batch, mode, todo, stopper,
                   open, breaker, sends, accepted, sent, errored, lost, owed>>

\* send's select; the default branch needs a full channel and an open k.stop.
SendSelect(p) ==
    LET r == writing[p]
        full == Len(queue) = QueueCap
        default == full /\ stop = 0
    IN
    /\ r # None
    /\ \/ /\ ~full
          /\ queue' = Append(queue, r)
          /\ UNCHANGED <<sp, dropped>>
       \/ /\ stop > 0
          /\ dropped' = dropped \cup {r}
          /\ UNCHANGED <<queue, sp>>
       \/ /\ default /\ PushFits(kind, sp)
          /\ sp' = Pushed(kind, sp, r)
          /\ UNCHANGED <<queue, dropped>>
       \/ /\ default /\ policy # "block" /\ ~PushFits(kind, sp)
          /\ dropped' = dropped \cup {r}
          /\ UNCHANGED <<queue, sp>>
    /\ writing' = [writing EXCEPT ![p] = None]
    /\ UNCHANGED <<conf, run, closing, stop, batch, mode, todo, stopper, open,
                   breaker, sends, accepted, sent, errored, lost, offered, owed>>

-----------------------------------------------------------------------------
\* failover of one record after another: to the spiller, or a counted drop.
Failover(rs) ==
    LET step(acc, r) ==
          IF PushFits(kind, acc.sp) THEN [acc EXCEPT !.sp = Pushed(kind, @, r)]
          ELSE [acc EXCEPT !.dropped = @ \cup {r}]
        end == FoldLeft(step, [sp |-> sp, dropped |-> dropped], rs)
    IN sp' = end.sp /\ dropped' = end.dropped

\* recordSend and recordSendN; probes counts up to the MinSamples that matter.
Sampled(n) ==
    /\ winSent' = winSent + n
    /\ probes' = IF probes + n < MinSamples THEN probes + n ELSE MinSamples

\* What sendOne and the batch's flush have in common.  An open breaker diverts to
\* the spiller; a failed call does too, and counts as errored without one.  Only
\* sendOne feeds the breaker when the call failed and there is a spiller, and only
\* flush counts the records as sent when it failed and there is none.
Deliver(rs, one) ==
    LET n == Len(rs)  R == ToSet(rs)  spill == kind # "none" IN
    IF brk = "open" /\ spill
    THEN /\ Failover(rs)
         /\ UNCHANGED <<breaker, sends, accepted, sent, errored>>
    ELSE /\ sends < MaxSends /\ sends' = sends + 1
         /\ \/ /\ open
               /\ accepted' = accepted \cup R
               /\ sent' = sent \cup R
               /\ Sampled(n)
               /\ UNCHANGED <<brk, winErr, sp, errored, dropped>>
            \/ /\ spill
               /\ Sampled(IF one THEN n ELSE 0)
               /\ winErr' = winErr + (IF one THEN n ELSE 0)
               /\ Failover(rs)
               /\ UNCHANGED <<brk, accepted, sent, errored>>
            \/ /\ ~spill
               /\ errored' = errored \cup R
               /\ sent' = IF one THEN sent ELSE sent \cup R
               /\ Sampled(n)
               /\ winErr' = winErr + (IF one THEN n ELSE 0)
               /\ UNCHANGED <<brk, accepted, sp, dropped>>

\* flush; without batch mode it is the empty function.
Flush(b) ==
    IF batchMode /\ b # <<>>
    THEN batch' = <<>> /\ Deliver(b, FALSE)
    ELSE batch' = b /\ UNCHANGED <<sp, breaker, sends, accepted, sent, errored, dropped>>

DaemonStart ==
    /\ mode = "start" /\ mode' = "serve"
    /\ run' = TRUE
    /\ UNCHANGED <<conf, closing, stop, queue, sp, batch, todo, writing, stopper,
                   open, breaker, sends, accepted, counts, offered, owed>>

\* A message from the channel: sent, or added to the batch, which is flushed when
\* it is full.
Receive ==
    /\ mode = "serve" /\ queue # <<>>
    /\ queue' = Tail(queue)
    /\ IF batchMode
       THEN LET b == Append(batch, Head(queue)) IN
            IF Len(b) >= BatchSize THEN Flush(b)
            ELSE batch' = b /\ UNCHANGED <<sp, breaker, sends, accepted, sent, errored, dropped>>
       ELSE Deliver(<<Head(queue)>>, TRUE) /\ UNCHANGED batch
    /\ UNCHANGED <<conf, run, closing, stop, mode, todo, writing, stopper, open,
                   lost, offered, owed>>

FlushTimer ==
    /\ mode = "serve" /\ batch # <<>>
    /\ Flush(batch)
    /\ UNCHANGED <<conf, run, closing, stop, queue, mode, todo, writing, stopper, open,
                   lost, offered, owed>>

\* evaluate, taking a window without enough samples for a clean one.
EvaluateEager ==
    \/ UNCHANGED breaker
    \/ /\ brk = "open"
       /\ brk' = "half" /\ winSent' = 0 /\ winErr' = 0 /\ probes' = 0
    \/ /\ brk # "open"
       /\ winSent' = 0 /\ winErr' = 0
       /\ brk' = IF winErr > 0 /\ 2 * winErr >= winSent THEN "open" ELSE "closed"
       /\ UNCHANGED probes

\* evaluate and decideAndRoll: whether the window or the cooldown has passed is
\* left open.
Evaluate ==
    \/ UNCHANGED breaker
    \/ /\ brk = "open"
       /\ brk' = "half" /\ winSent' = 0 /\ winErr' = 0 /\ probes' = 0
    \/ /\ brk # "open"
       /\ winSent' = 0 /\ winErr' = 0
       /\ brk' = IF winSent < MinSamples THEN brk
                 ELSE IF 2 * winErr >= winSent THEN "open" ELSE "closed"
       /\ UNCHANGED probes

\* The ticker: drainSpill takes everything out of the spiller, unless the writer is
\* closing.  With nothing to drain evaluate follows at once.
DrainTick ==
    /\ mode = "serve"
    /\ IF closing \/ Stored(sp) = <<>>
       THEN Evaluate /\ UNCHANGED <<sp, todo, mode>>
       ELSE todo' = Drain(sp) /\ sp' = Empty /\ mode' = "inject" /\ UNCHANGED breaker
    /\ UNCHANGED <<conf, run, closing, stop, queue, batch, writing, stopper, open,
                   sends, accepted, counts, offered, owed>>

\* drainSpill's loop, then evaluate; when the channel is full one record goes back.
Inject ==
    /\ mode = "inject"
    /\ \/ /\ todo = <<>>
          /\ mode' = "serve" /\ Evaluate
          /\ UNCHANGED <<queue, sp, todo>>
       \/ /\ todo # <<>> /\ Len(queue) < QueueCap
          /\ queue' = Append(queue, Head(todo)) /\ todo' = Tail(todo)
          /\ UNCHANGED <<sp, mode, breaker>>
       \/ /\ todo # <<>> /\ Len(queue) = QueueCap
          /\ sp' = Pushed(kind, sp, Head(todo)) /\ todo' = <<>>
          /\ mode' = "serve" /\ Evaluate
          /\ UNCHANGED queue
    /\ UNCHANGED <<conf, run, closing, stop, batch, writing, stopper, open, sends,
                   accepted, counts, offered, owed>>

\* k.stop is closed: drainOnShutdown moves the channel to the batch and flushes it.
DrainOnShutdown ==
    /\ \/ /\ mode = "serve" /\ stop > 0
          /\ mode' = "drain"
          /\ UNCHANGED <<queue, sp, batch, breaker, sends, accepted, sent, errored, dropped>>
       \/ /\ mode = "drain" /\ queue # <<>>
          /\ queue' = Tail(queue)
          /\ LET b == Append(batch, Head(queue)) IN
             IF Len(b) >= BatchSize THEN Flush(b)
             ELSE batch' = b /\ UNCHANGED <<sp, breaker, sends, accepted, sent, errored, dropped>>
          /\ UNCHANGED mode
       \/ /\ mode = "drain" /\ queue = <<>>
          /\ Flush(batch)
          /\ mode' = "spill"
          /\ UNCHANGED queue
    /\ UNCHANGED <<conf, run, closing, stop, todo, writing, stopper, open,
                   lost, offered, owed>>

\* drainSpillToProducer: the results of Send are not looked at.  Then k.quit.
DrainSpillToProducer ==
    /\ \/ /\ mode = "spill" /\ mode' = "send"
          /\ todo' = Drain(sp) /\ sp' = Empty
          /\ UNCHANGED accepted
       \/ /\ mode = "send" /\ todo # <<>>
          /\ todo' = Tail(todo)
          /\ \/ open /\ accepted' = accepted \cup {Head(todo)}
             \/ UNCHANGED accepted
          /\ UNCHANGED <<sp, mode>>
       \/ /\ mode = "send" /\ todo = <<>>
          /\ mode' = "quit"
          /\ UNCHANGED <<sp, todo, accepted>>
    /\ UNCHANGED <<conf, run, closing, stop, queue, batch, writing, stopper, open,
                   breaker, sends, counts, offered, owed>>

\* sendOne or flush panics: in a hook that is called when the records are delivered,
\* in one that is called after a failover, or in the client before anything is done.
\* The daemon recovers, counts it, and ends.
Panic ==
    /\ mode = "serve" /\ mode' = "dead" /\ batch' = <<>>
    /\ \E m \in {0, 1} \cap 0 .. Len(queue) :      \* from the timer, or a message
         LET rs == batch \o SubSeq(queue, 1, m) IN
         /\ rs # <<>> /\ (m = 1 /\ batchMode => Len(rs) >= BatchSize)
         /\ queue' = SubSeq(queue, m + 1, Len(queue))
         /\ \/ Deliver(rs, ~batchMode) /\ UNCHANGED lost
            \/ \E n \in 0 .. Len(rs) - 1 :
                 /\ n > 0 => kind # "none"
                 /\ Failover(SubSeq(rs, 1, n))
                 /\ lost' = lost \cup ToSet(SubSeq(rs, n + 1, Len(rs)))
                 /\ UNCHANGED <<breaker, sends, accepted, sent, errored>>
    /\ UNCHANGED <<conf, run, closing, stop, todo, writing, stopper, open, offered, owed>>

\* The producer's error event for a message that it had accepted.  recordError may
\* be erased by the roll of the window that it meets.
DeliveryError(r) ==
    /\ mode # "start" /\ r \in accepted \ errored
    /\ errored' = errored \cup {r}
    /\ winErr' \in {winErr, winErr + 1}
    /\ UNCHANGED <<conf, run, closing, stop, queue, sp, batch, mode, todo, writing,
                   stopper, open, brk, winSent, probes, sends, accepted, sent, dropped,
                   lost, offered, owed>>

-----------------------------------------------------------------------------
\* Stop; a call that does not win the compare-and-swap of k.run does nothing.
StopClaim(s) ==
    /\ stopper[s] = "idle" /\ run
    /\ run' = FALSE /\ closing' = TRUE
    /\ stopper' = [stopper EXCEPT ![s] = "claimed"]
    /\ owed' = IF closing THEN owed ELSE Held
    /\ UNCHANGED <<conf, stop, queue, sp, batch, mode, todo, writing, open, breaker,
                   sends, accepted, counts, offered>>

\* close(k.stop), which panics when it is closed already.
StopClose(s) ==
    /\ stopper[s] = "claimed"
    /\ stop' = stop + 1
    /\ stopper' = [stopper EXCEPT ![s] = IF stop = 0 THEN "waiting" ELSE "panicked"]
    /\ UNCHANGED <<conf, run, closing, queue, sp, batch, mode, todo, writing, open,
                   breaker, sends, accepted, counts, offered, owed>>

\* waitQuit: the daemon's send on k.quit, or the timeout.
WaitQuit(s) ==
    /\ stopper[s] = "waiting"
    /\ stopper' = [stopper EXCEPT ![s] = "closing"]
    /\ \/ mode = "quit" /\ mode' = "gone"
       \/ UNCHANGED mode
    /\ UNCHANGED <<conf, run, closing, stop, queue, sp, batch, todo, writing, open,
                   breaker, sends, accepted, counts, offered, owed>>

StopProducer(s) ==
    /\ stopper[s] = "closing"
    /\ stopper' = [stopper EXCEPT ![s] = "done"]
    /\ open' = FALSE
    /\ UNCHANGED <<conf, run, closing, stop, queue, sp, batch, mode, todo, writing,
                   breaker, sends, accepted, counts, offered, owed>>

\* A panic in Stop ends the process.
Panicked == \E s \in Stoppers : stopper[s] = "panicked"

Next ==
    /\ ~Panicked
    /\ \/ \E p \in Producers, r \in Records : WriteCall(p, r)
       \/ \E p \in Producers : SendSelect(p)
       \/ DaemonStart \/ Receive \/ FlushTimer \/ DrainTick \/ Inject
       \/ DrainOnShutdown \/ DrainSpillToProducer \/ Panic
       \/ \E r \in Records : DeliveryError(r)
       \/ \E s \in Stoppers :
            StopClaim(s) \/ StopClose(s) \/ WaitQuit(s) \/ StopProducer(s)

Spec == Init /\ [][Next]_vars

-----------------------------------------------------------------------------
TypeOK ==
    /\ <<policy, kind>> \in Configs
    /\ {batchMode, run, closing, open} \subseteq BOOLEAN
    /\ stop \in 0..2
    /\ queue \in SeqOf(Records, QueueCap)
    /\ sp.ring \in SeqOf(Records, RingCap) /\ sp.file \in SeqOf(Records, FileCap)
    /\ todo \in SeqOf(Records, RingCap + FileCap)
    /\ ToSet(batch) \subseteq Records
    /\ mode \in {"start", "serve", "inject", "drain", "spill", "send", "quit", "gone", "dead"}
    /\ writing \in [Producers -> Records \cup {None}]
    /\ stopper \in [Stoppers -> {"idle", "claimed", "waiting", "closing", "done", "panicked"}]
    /\ brk \in {"closed", "open", "half"}
    /\ {winSent, winErr, probes} \subseteq Nat /\ sends \in 0..MaxSends
    /\ Counted \cup owed \cup accepted \subseteq offered /\ offered \subseteq Records

\* The daemon is going to send what waits: on its way out only in batch mode.
Serving == mode \in {"start", "serve", "inject"} \/ (mode = "drain" /\ batchMode)

\* As long as the daemon serves them, a record that Write was called with waits in
\* the writer, or a counter shows what became of it, under drop and block.
Accounted == policy # "spill" /\ Serving => offered \subseteq Counted \cup Held \cup Sending

\* The same for a spill store that never overwrites; what the shutdown path gave
\* to the producer without a look at the result is taken as accounted for.
NothingVanishes ==
    kind # "ring" /\ mode \notin {"send", "quit", "gone"} =>
        offered \subseteq Counted \cup Held \cup Sending

\* No record waits in two places, and none that the producer accepted waits for
\* another Send: only a failed call is repeated.
AtMostOnce ==
    /\ IsInjective(Waiting)
    /\ Held \cap accepted = {} /\ Sending \cap (Held \cup Counted) = {}

\* When Stop has seen the daemon's quit in batch mode, no record that the writer
\* held when Stop began is still in it, and unless records could be overwritten
\* each was sent or counted.
StopDrains ==
    mode = "gone" /\ batchMode =>
        /\ owed \cap Held = {}
        /\ policy # "spill" => owed \subseteq Counted

\* Stop's promise, for both modes: it drains every record still queued.
StopDrainsQueued == mode = "gone" => owed \cap Held = {}

\* "A racing producer that slipped a record past closing.Load() is drained here too,
\* so nothing is lost" (kafka_writer.go:726-727): what is left when the daemon is
\* gone was there when Stop began.
RacersDrained == mode = "gone" => Held \subseteq owed

\* An open breaker closes only through half-open, and only when at least
\* MinSamples records were sent since it half-opened.
ProbedBeforeClose ==
    [][brk # "closed" /\ brk' = "closed" => brk = "half" /\ probes >= MinSamples]_vars
=============================================================================
