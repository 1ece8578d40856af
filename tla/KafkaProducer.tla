---------------------------- MODULE KafkaProducer ---------------------------
(***************************************************************************)
(* kafka: the options and what each backend makes of them, and the         *)
(* asynchronous and the synchronous producer of both backends.  A message  *)
(* is one unit; the byte counters, which move with the record counters,    *)
(* are left out.  The client libraries (sarama, franz-go) are external: a  *)
(* bounded buffer whose messages come to a success or an error.            *)
(***************************************************************************)
EXTENDS Integers, FiniteSets, FiniteSetsExt

CONSTANTS
    Threads,
    Batches,         \* sizes of a SendBatch; 0 stands for a Send
    MaxBuffered,     \* DefaultMaxBufferedRecords
    MaxOps           \* calls of Send and SendBatch

VARIABLES
    backend,         \* "sarama", "franz", "saramaSync" or "franzSync"
    closed,          \* s.closed
    closer,          \* Close: "no", "waiting" (for the lock), "closing", "done"
    buffer,          \* messages in the client
    cnt,             \* the counters
    op,              \* the call of each goroutine
    taken,           \* results consumed by the client's own Close
    sizes,           \* batch sizes of the SendBatch calls so far; calls made
    client           \* what New built: the records the client buffers (0 before New),
                     \* and a Metrics call under way

vars == <<backend, closed, closer, buffer, cnt, op, taken, sizes, client>>

NoScrape == [on |-> FALSE, enqueued |-> 0, open |-> 0]
NoOp == [pc |-> "idle", n |-> 0, left |-> 0, pushed |-> 0, counted |-> 0]

Init ==
    /\ backend \in {"sarama", "franz", "saramaSync", "franzSync"}
    /\ closed = FALSE /\ closer = "no" /\ buffer = 0 /\ taken = 0
    /\ cnt = [enqueued |-> 0, success |-> 0, failed |-> 0, batchMax |-> 0, delivered |-> 0]
    /\ op = [t \in Threads |-> NoOp]
    /\ sizes = [seen |-> {0}, calls |-> 0]
    /\ client = [limit |-> 0, alike |-> TRUE, scrape |-> NoScrape, sane |-> TRUE]

At(t, pc) == op[t].pc = pc
Idle == \A t \in Threads : At(t, "idle")
Goto(t, pc) == op' = [op EXCEPT ![t].pc = pc]
Return(t) == op' = [op EXCEPT ![t] = NoOp]
Add(c, n) == cnt' = [cnt EXCEPT ![c] = @ + n]

-----------------------------------------------------------------------------
(* Options.  0 and "" are what is not set; a producer's client buffers     *)
(* `channel' (sarama) or `records' (franz-go) of them.                     *)
LingerOff == -1
DefaultProducerLinger == 10
OffsetNewest == -1
OffsetOldest == -2

Options ==
    [brokers : {0, 1}, group : {0, 1}, topic : {0, 1}, acks : {"", "leader", "all", "none"}, linger : {LingerOff, 0, 5},
     records : {0, 1}, channel : {0, 1}, bytes : {0, 7}, retries : {-1, 0, 2},
     initial : {OffsetNewest, OffsetOldest, 0}, offset : {OffsetNewest, OffsetOldest, 0, 4}]

Or(x, default) == IF x <= 0 THEN default ELSE x

\* A default in the place of what is not set; LingerOff is a setting.
WithDefaults(o) ==
    LET records == IF o.records = 0 THEN MaxBuffered ELSE o.records
    IN  [o EXCEPT !.retries = Or(@, 3), !.records = records, !.channel = Or(@, records),
                  !.linger = IF @ = 0 THEN DefaultProducerLinger ELSE @,
                  !.initial = IF @ = 0 THEN OffsetNewest ELSE @]

Validate(o, role) ==
    /\ o.brokers # 0
    /\ role = "consumer-group" => o.group # 0
    /\ role = "partition-consumer" => o.topic # 0

EffectiveLinger(d) == IF d = LingerOff THEN 0 ELSE d

\* The configuration of each client.  A synchronous producer flushes at once in
\* sarama, and leaves the settings for batches alone in franz-go.
SaramaAcks(a) == CASE a = "all" -> -1 [] a = "none" -> 0 [] OTHER -> 1
MapOffsetInitial(i) ==
    CASE i = OffsetNewest -> <<"newest">> [] i = OffsetOldest -> <<"oldest">> [] OTHER -> <<"at", i>>
BuildSaramaConfig(o, sync) ==
    [acks |-> SaramaAcks(o.acks), retries |-> Max({o.retries, 0}), buffer |-> o.channel,
     linger |-> IF sync THEN 0 ELSE EffectiveLinger(o.linger), bytes |-> IF sync THEN 0 ELSE o.bytes,
     initial |-> MapOffsetInitial(o.initial)]

KgoAcks(a) == CASE a = "all" -> -1 [] a = "none" -> 0 [] OTHER -> 1
KgoNeedsIdempotencyDisabled(a) == a # "all"
KgoSyncProducerOpts(o) == [acks |-> KgoAcks(o.acks), idempotent |-> ~KgoNeedsIdempotencyDisabled(o.acks)]
KgoProducerOpts(o) ==
    [acks |-> KgoAcks(o.acks), idempotent |-> ~KgoNeedsIdempotencyDisabled(o.acks), buffer |-> o.records,
     linger |-> EffectiveLinger(o.linger), bytes |-> o.bytes]

\* Where a group that has committed nothing, and a partition consumer, begin.
KgoConsumerGroupOpts(o) == [reset |-> IF o.initial = OffsetOldest THEN <<"oldest">> ELSE <<"newest">>]
OffsetToKgo(i) ==
    CASE i = OffsetNewest -> <<"newest">> [] i = OffsetOldest -> <<"oldest">> [] OTHER -> <<"at", i>>
KgoPartitionConsumerOpts(o) == [from |-> OffsetToKgo(o.offset)]

\* The client is built; a New that fails for another reason (a version that does not
\* parse, no connection) builds nothing.
Made(n, alike) ==
    /\ client' = [client EXCEPT !.limit = n, !.alike = alike]
    /\ UNCHANGED <<backend, closed, closer, buffer, cnt, op, taken, sizes>>

\* What one backend makes of the options is what the other does; a producer's
\* client is idempotent only with acks from all, and no batch waits when it must not.
NewProducer(o) ==
    LET d == WithDefaults(o)
        s == BuildSaramaConfig(d, FALSE)
        k == KgoProducerOpts(d)
    IN  /\ backend \in {"sarama", "franz"} /\ Validate(d, "producer")
        /\ Made(IF backend = "franz" THEN k.buffer ELSE s.buffer,
                /\ s.acks = k.acks /\ s.linger = k.linger /\ s.bytes = k.bytes
                /\ k.idempotent => k.acks = -1
                /\ s.linger = 0 <=> o.linger = LingerOff
                /\ s.buffer <= MaxBuffered /\ d = WithDefaults(d))

\* The buffer of a synchronous producer holds what one call waits for.
NewSyncProducer(o) ==
    LET d == WithDefaults(o)
        s == BuildSaramaConfig(d, TRUE)
        k == KgoSyncProducerOpts(d)
    IN  /\ backend \in {"saramaSync", "franzSync"} /\ Validate(d, "producer")
        /\ Made(MaxBuffered, s.acks = k.acks /\ (k.idempotent => k.acks = -1) /\ s.linger = 0)

\* Consumers made of the same options; they are not used here (KafkaConsumer).
NewConsumerGroup(o) ==
    LET d == WithDefaults(o)
    IN  /\ Validate(d, "consumer-group")
        /\ Made(0, BuildSaramaConfig(d, FALSE).initial = KgoConsumerGroupOpts(d).reset)

NewPartitionConsumer(o) ==
    LET d == WithDefaults(o)
    IN  /\ Validate(d, "partition-consumer")
        /\ Made(0, MapOffsetInitial(d.offset) = KgoPartitionConsumerOpts(d).from)
-----------------------------------------------------------------------------
\* The call is under way with n messages to hand over (a Send has one).
Enter(t, n, pc) ==
    /\ At(t, "idle") /\ sizes.calls < MaxOps /\ ~closed /\ client.limit > 0
    /\ op' = [op EXCEPT ![t] = [NoOp EXCEPT !.pc = pc, !.n = n, !.left = Max({n, 1})]]
    /\ sizes' = [calls |-> sizes.calls + 1, seen |-> sizes.seen \cup {n}]
    /\ UNCHANGED <<backend, closed, closer, buffer, cnt, taken, client>>
-----------------------------------------------------------------------------
(* sarama, asynchronous: the read lock is held for the whole call, so Close *)
(* cannot begin before the call is over.                                   *)
SaramaEnter(t, n) ==
    /\ backend = "sarama" /\ closer # "waiting"
    /\ Enter(t, n, IF n = 0 THEN "push" ELSE "max")

\* for cur > s.batchMax.Load() { s.batchMax.Store(cur) }: two steps a round.
BatchMax(t) ==
    /\ \/ At(t, "max") /\ UNCHANGED cnt
          /\ Goto(t, IF op[t].n > cnt.batchMax THEN "store"
                     ELSE IF backend = "sarama" THEN "push" ELSE "produce")
       \/ At(t, "store") /\ cnt' = [cnt EXCEPT !.batchMax = op[t].n] /\ Goto(t, "max")
    /\ UNCHANGED <<backend, closed, closer, buffer, taken, sizes, client>>

\* Input() <- pm, or ctx ends the call.  Sending when the client has closed its
\* input panics.
SaramaPush(t) ==
    /\ At(t, "push")
    /\ \/ /\ closer # "done" /\ buffer < client.limit
          /\ buffer' = buffer + 1
          /\ op' = [op EXCEPT ![t].pc = "counted", ![t].pushed = @ + 1, ![t].left = @ - 1]
       \/ closer = "done" /\ Goto(t, "panic") /\ UNCHANGED buffer
       \/ Return(t) /\ UNCHANGED buffer
    /\ UNCHANGED <<backend, closed, closer, cnt, taken, sizes, client>>

SaramaCount(t) ==
    /\ At(t, "counted")
    /\ Add("enqueued", 1)
    /\ IF op[t].left = 0 THEN Return(t)
       ELSE op' = [op EXCEPT ![t].pc = "push", ![t].pushed = @ - 1]
    /\ UNCHANGED <<backend, closed, closer, buffer, taken, sizes, client>>

\* The two drain goroutines; while the client's Close runs it drains as well, and
\* what it takes is not counted.
Drain ==
    /\ backend = "sarama" /\ buffer > 0
    /\ buffer' = buffer - 1
    /\ \/ cnt' = [cnt EXCEPT !.success = @ + 1, !.delivered = @ + 1] /\ UNCHANGED taken
       \/ Add("failed", 1) /\ UNCHANGED taken
       \/ closer = "closing" /\ taken' = taken + 1 /\ UNCHANGED cnt
    /\ UNCHANGED <<backend, closed, closer, op, sizes, client>>
-----------------------------------------------------------------------------
(* franz-go, asynchronous: closed is an atomic flag, so calls may be under *)
(* way when the client is closed; Produce then fails their records.        *)
FranzEnter(t, n) ==
    /\ backend = "franz"
    /\ Enter(t, n, IF n = 0 THEN "count" ELSE "max")

FranzCount(t) ==
    /\ backend = "franz" /\ At(t, "count")
    /\ IF op[t].n = 0
       THEN Add("enqueued", 1) /\ op' = [op EXCEPT ![t].pc = "produce", ![t].counted = 1]
       ELSE Add("enqueued", op[t].n) /\ Return(t)
    /\ UNCHANGED <<backend, closed, closer, buffer, taken, sizes, client>>

\* Produce: buffered, or failed at once by the callback.  A SendBatch counts its
\* records after it has handed over all of them.
FranzProduce(t) ==
    /\ At(t, "produce")
    /\ \/ closer # "done" /\ buffer < client.limit /\ buffer' = buffer + 1 /\ UNCHANGED cnt
       \/ Add("failed", 1) /\ UNCHANGED buffer
    /\ LET o == op[t] IN
       IF o.n = 0 THEN Return(t)
       ELSE op' = [op EXCEPT ![t].left = @ - 1, ![t].pushed = @ + 1,
                             ![t].pc = IF o.left = 1 THEN "count" ELSE "produce"]
    /\ UNCHANGED <<backend, closed, closer, taken, sizes, client>>

\* The promise of a buffered record.
Promise ==
    /\ backend = "franz" /\ buffer > 0
    /\ buffer' = buffer - 1
    /\ \/ cnt' = [cnt EXCEPT !.success = @ + 1, !.delivered = @ + 1]
       \/ Add("failed", 1)
    /\ UNCHANGED <<backend, closed, closer, op, taken, sizes, client>>
-----------------------------------------------------------------------------
(* The synchronous producers: counted, sent, and counted again by how it   *)
(* came out.  sarama holds the read lock over the whole call.              *)
SaramaSyncSend(t, n) ==
    /\ backend = "saramaSync" /\ closer # "waiting"
    /\ Enter(t, n, "sync")

FranzSyncSend(t, n) == backend = "franzSync" /\ Enter(t, n, "sync")

SyncCount(t) ==
    /\ At(t, "sync")
    /\ Add("enqueued", op[t].left)
    /\ op' = [op EXCEPT ![t].pc = "wait", ![t].counted = op[t].left]
    /\ UNCHANGED <<backend, closed, closer, buffer, taken, sizes, client>>

\* SendMessages: one error stands for the whole batch, part of which, or all, the
\* broker may have.
SaramaSyncResult(t) ==
    /\ backend = "saramaSync" /\ At(t, "wait")
    /\ LET n == op[t].counted IN
       \/ cnt' = [cnt EXCEPT !.success = @ + n, !.delivered = @ + n]
       \/ \E k \in 0 .. n : cnt' = [cnt EXCEPT !.failed = @ + n, !.delivered = @ + k]
    /\ Return(t)
    /\ UNCHANGED <<backend, closed, closer, buffer, taken, sizes, client>>

\* ProduceSync has a result for each record; on a closed client an error.
FranzSyncResult(t) ==
    /\ backend = "franzSync" /\ At(t, "wait")
    /\ \E k \in 0 .. (IF closer = "done" THEN 0 ELSE op[t].counted) :
         cnt' = [cnt EXCEPT !.success = @ + k, !.delivered = @ + k, !.failed = @ + op[t].counted - k]
    /\ Return(t)
    /\ UNCHANGED <<backend, closed, closer, buffer, taken, sizes, client>>
-----------------------------------------------------------------------------
\* Close, sarama: take the lock, mark, release it; then the client flushes.
LockedClose ==
    /\ client.limit > 0
    /\ \/ closer = "no" /\ closer' = "waiting" /\ UNCHANGED closed
       \/ closer = "waiting" /\ Idle /\ closed' = TRUE /\ closer' = "closing"
       \/ closer = "closing" /\ buffer = 0 /\ closer' = "done" /\ UNCHANGED closed
    /\ UNCHANGED <<backend, buffer, cnt, op, taken, sizes, client>>

\* A close without the flush: what is buffered is dropped.
CloseDrops ==
    /\ client.limit > 0
    /\ \/ closer = "no" /\ closed' = TRUE /\ closer' = "closing" /\ UNCHANGED buffer
       \/ closer = "closing" /\ closer' = "done" /\ buffer' = 0 /\ UNCHANGED closed
    /\ UNCHANGED <<backend, cnt, op, taken, sizes, client>>

\* Close, franz-go: flushAndClose waits for the buffer or CloseFlushTimeout; the
\* closing client fails what is left.
FlushAndClose ==
    /\ client.limit > 0
    /\ \/ closer = "no" /\ closed' = TRUE /\ closer' = "closing" /\ UNCHANGED <<buffer, cnt>>
       \/ /\ closer = "closing" /\ closer' = "done" /\ UNCHANGED closed
          /\ buffer' = 0 /\ Add("failed", buffer)
    /\ UNCHANGED <<backend, op, taken, sizes, client>>

SaramaClose == backend = "sarama" /\ LockedClose
SaramaSyncClose == backend = "saramaSync" /\ LockedClose
FranzClose == backend = "franz" /\ FlushAndClose
FranzSyncClose == backend = "franzSync" /\ FlushAndClose
-----------------------------------------------------------------------------
\* ComputeInFlight, clamped at 0.
ComputeInFlight(enqueued, success, failed) ==
    IF success + failed > enqueued THEN 0 ELSE enqueued - success - failed

\* Metrics loads the counters one after another, enqueued before the results; while
\* other calls are under way.
MetricsLoad ==
    /\ client.limit > 0 /\ ~client.scrape.on
    /\ client' = [client EXCEPT !.scrape = [on |-> TRUE, enqueued |-> cnt.enqueued,
                                            open |-> cnt.enqueued - cnt.success - cnt.failed]]
    /\ UNCHANGED <<backend, closed, closer, buffer, cnt, op, taken, sizes>>

Metrics ==
    /\ client.scrape.on
    /\ LET n == ComputeInFlight(client.scrape.enqueued, cnt.success, cnt.failed)
       IN  client' = [client EXCEPT !.scrape = NoScrape,
                                    !.sane = 0 <= n /\ n <= Max({client.scrape.open, 0})]
    /\ UNCHANGED <<backend, closed, closer, buffer, cnt, op, taken, sizes>>

Next ==
    \/ /\ client.limit = 0
       /\ \E o \in Options : NewProducer(o) \/ NewSyncProducer(o) \/ NewConsumerGroup(o) \/ NewPartitionConsumer(o)
    \/ \E t \in Threads :
         \/ \E n \in Batches : SaramaEnter(t, n) \/ FranzEnter(t, n) \/ SaramaSyncSend(t, n) \/ FranzSyncSend(t, n)
         \/ BatchMax(t) \/ SaramaPush(t) \/ SaramaCount(t) \/ FranzCount(t) \/ FranzProduce(t)
         \/ SyncCount(t) \/ SaramaSyncResult(t) \/ FranzSyncResult(t)
    \/ Drain \/ Promise \/ SaramaClose \/ SaramaSyncClose \/ FranzClose \/ FranzSyncClose
    \/ MetricsLoad \/ Metrics

Spec == Init /\ [][Next]_vars
-----------------------------------------------------------------------------
InFlight == ComputeInFlight(cnt.enqueued, cnt.success, cnt.failed)

TypeOK ==
    /\ closed \in BOOLEAN /\ closer \in {"no", "waiting", "closing", "done"}
    /\ client.limit \in 0 .. MaxBuffered /\ buffer \in 0 .. client.limit /\ \A c \in DOMAIN cnt : cnt[c] \in Nat
    /\ \A t \in Threads : op[t].pc \in {"idle", "max", "store", "push", "counted", "count", "produce",
                                       "sync", "wait", "panic"}

Total(f) == FoldSet(LAMBDA t, s : op[t][f] + s, 0, Threads)

\* Every message handed to a producer is counted once as enqueued, and is then
\* counted once by how it came out, held by the client, or one of those whose result
\* sarama's Close took (`taken').  As long as it took none, what is reported in flight
\* between calls is what the client holds.  Nothing counts as a success that the broker
\* does not have, and an asynchronous producer counts nothing it has as a failure.
\* After Close the client holds nothing; no Send meets a closed input; and what
\* BatchMax reports is the size of some batch, of the largest if no call raced for
\* it.  Metrics called in the middle of all this reports no more in flight than there
\* was when it was called.  Both backends make the same of the same options.
MessagesAccounted ==
    /\ client.alike /\ client.sane
    /\ cnt.enqueued + Total("pushed") = cnt.success + cnt.failed + buffer + taken + Total("counted")
    /\ Idle /\ taken = 0 => InFlight = buffer
    /\ cnt.success <= cnt.delivered /\ (backend # "saramaSync" => cnt.success = cnt.delivered)
    /\ closer = "done" => buffer = 0
    /\ \A t \in Threads : ~At(t, "panic")
    /\ cnt.batchMax \in sizes.seen
    /\ Idle /\ sizes.calls = 1 /\ closer = "no" /\ backend \in {"sarama", "franz"}
         => cnt.batchMax = Max(sizes.seen)

\* "current records in buffer (Enqueued - Success - Failed)" (kafka.go:194): what
\* InFlight reports between calls, also after Close, is what the client holds.
InFlightIsBuffered == Idle /\ closer \in {"no", "done"} => InFlight = buffer

\* "largest single SendBatch size" (kafka.go:193), of an asynchronous producer whose
\* calls have returned.
BatchMaxIsLargest ==
    Idle /\ closer = "no" /\ backend \in {"sarama", "franz"} => cnt.batchMax = Max(sizes.seen)
=============================================================================
