# TLA+ verification of kit4go

kit4go is a library of about a hundred mostly independent Go packages. This
directory holds TLA+ specifications of seventy-eight of them, TLC configurations
that model-check them on small instances, and TLAPS proofs. `PROJECT.json` maps
every definition to the lines it models and lists every package, modelled or not.

## The system and its parts

The packages hardly import each other (log4go imports kafka, cache imports lru);
they meet through small interfaces: a client takes a `CircuitBreaker`, which
breaker implements, and redislock and rate take a go-redis client, which redis
builds. They fall into groups:

| group | packages | what is hard about them |
|---|---|---|
| queues and pools | ringbuffer, workerpool, pipeline, adaptive, batcher | Close racing blocked senders, draining, nobody reading the output |
| coordination | semaphore, fanout, wtimer, debounce, syncutil, signalbus, fsm, hotreload | lost wakeups, closing channels that others send on, callbacks that call back |
| protection | breaker, limiter, rate, backpressure, freqcap, hotkey, budget | atomics read without the lock, windows, clocks that jump |
| services | idempotency, redislock, shutdown, health, shortlink, grpcserver, httpserver | leaders and followers, leases and lost replies, dependency order |
| clients | tcpclient, udpclient, httpclient, grpcclient, retry, kafka | pools, retries of what was done, late answers, delivery reports |
| logging | log4go | three asynchronous writers with overflow stores, crashes, Stop under traffic, sampling |
| data structures | queue, stack, ringbuf, lru, cache, bimap, multimap, set, trie, topk, bloom, latency, ... | indices and cached extrema that drift over long sequences of calls |
| arithmetic and algorithms | money, decimal, base62, backoff, auction, loadbalance, consistenthash, bit, ip, datetime, ... | overflow, rounding, boundaries |
| database adapters | mongo, etcd, clickhouse, aerospike, redis, postgres, minio, elasticsearch | who closes the driver, and how often |

## Modules

A module models one component, or a family of small ones with the same shape. Its
`VARIABLES` are the fields and channels of the Go type plus the program point of
every goroutine inside a method, and every action is one atomic step of the code: a
critical section, a channel operation, or an atomic load or store when it is outside
a lock. Data is abstract: items, jobs, records and keys are model values.

| module | source | state and actions |
|---|---|---|
| `RingBuffer` | ringbuffer | buffer, cursors, `waitSet` of the condition variable; Push, Pop, TryPush, TryPop, Drain, Close |
| `BlockingFifo` | ringbuffer | the abstract closable FIFO queue that RingBuffer implements (`FifoSpec`) |
| `Breaker` | breaker | state, expiry, half-open counters and epoch as atomics, the mutex, one program point per goroutine in Execute |
| `FailureWindow`, `WindowLedger` | breaker | the bucket rings as operators; the same operators against a ledger of every call |
| `WorkerPool`, `Pipeline`, `Adaptive`, `Batcher` | same names | queues, workers, closers; the autoscaler's slots; the collector, Add under the read lock |
| `Semaphore`, `Fanout`, `WTimer`, `Debounce` | same names | tokens and `wmu`; Go's writer-preferring RWMutex; heap and wakeup channel; timers with their own goroutines |
| `Limiter` | limiter, rate | five algorithms, each load and compare-and-swap a step; the Redis script one step with the rounding of what it stores |
| `TcpClient` | tcpclient | connection pool, calls with attempts, a ctx watcher per call, Close and its drain |
| `UdpClient` | udpclient | one socket with its inbox and deadline, watchers, a network that loses, delays, reorders and duplicates |
| `Calls` | httpclient, grpcclient, retry | one call: attempts, retry decision, backoff, bodies, a stream's cancel |
| `KafkaProducer`, `KafkaConsumer` | kafka | both backends; counting, batches, delivery reports, Close; sessions, marks, commits, crash, the pump and the ranging caller |
| `Flows` | fsm, signalbus, syncutil.Merge, grpcserver, httpserver, debounce.Throttle, ip.PublicIP | components that run other people's code or wait for other people's servers |
| `Cells` | backpressure, syncutil.Promise, health, hotreload, shortlink | one shared cell and the goroutines that use it |
| `Adapters` | the eight database packages | New with its ping, Wrap, operations with counters and events, the two ways to Close once |
| `Idempotency`, `RedisLock`, `Shutdown` | same names | the map and entries that outlive their place in it; the key with its expiry, lost requests and replies, the renewer; the dependency search, Start with rollback, Stop |
| `LogCore`, `LogSpill`, `LogNet`, `LogFile`, `LogKafka`, `LogAlert` | log4go, behind the records channel | singleton and bootstrap goroutine; the spill stores as operators; the writers with daemon, store and Stop; the kafka breaker; the alert window and sink |
| `LogEmit` | log4go, before the records channel | derived loggers with fields, base fields, levels, sampling and its sessions, the cached time stamp, applying a configuration |
| `Containers`, `Windows`, `Sketches` | queue, stack, ringbuf, kafka's history, bimap, multimap, lru, cache, set, priorityqueue, bitset, trie, interval; topk, hotkey, freqcap, slidingwindow, latency; bloom, countmin, hyperloglog, reservoir, objpool, featureflag, middleware | `obj`, the fields, next to `ref`, a mathematical reference that the same operation moves; `out`, whether the result was the reference's |
| `Amounts` | money, decimal, base62, backoff, the clients' and retry's delays, loadbalance, consistenthash, auction, budget | the same shape; integers have a small width and wrap |
| `Algorithms` | bit, number, ip, datetime, stats, sliceutil, iterx | pure functions, each against a reference definition on every input of a small domain |
| `RingBufferProofs`, `BreakerProofs`, `FanoutProofs`, `WTimerProofs`, `TcpClientProofs`, `UdpClientProofs` | | inductive invariants and proofs; Debounce's are in its own module, those of Calls, KafkaConsumer, WorkerPool, Pipeline and Adaptive, which are short, in `MCConcurrency` |

Counters that a property relates to records are kept as the sets of records they
count, so that "dropped once and delivered too" is visible. `offered`, `owed`,
`grants`, `effects`, `handled` and `ref` are history variables.

### Composition

`MCConcurrency`, `MCServices` and `MCLogging` instantiate several components that
share no state. A behaviour picks one in `part` and moves only that one. Nothing is
lost: a behaviour of two components that share nothing projects to one behaviour of
each, and every property speaks of one component. The variables `v1`, `v2`, ... stand
for those of the chosen component, in the order of its declarations; the ones it does
not have stay 0. Fairness conditions of different parts can be one condition in the
sum, because `part` never changes. log4go's core hands records to its writers through
the `Writer` interface only, and the core model has writers that accept everything,
so their composition is by this interface.

## Runs

| run | asks | distinct states |
|---|---|---|
| `ringbuffer` | cursors consistent, no lost wakeup, Close releases everybody, refinement of `BlockingFifo` | 16,568 |
| `breaker` | a taken probe slot is decided on or given back, cool-down kept, closes only from HalfOpen with an empty window | 254,857 |
| `concurrency` | fourteen parts: accepted work is run or flushed exactly once and Close drains; no channel operation panics; permits, timers and connections are conserved; limiters keep their rate; replies to requests that expect one belong to them; retries repeat no more than they may; state machines, signals and merged channels keep their order, a throttle its interval; Kafka commits are earned | 1,847,837 |
| `concurrency_live` | Close returns although nobody reads, callers are blocked or a reader left; accepted jobs run, timers fire, disturbed takes end, client calls return | 86,957 |
| `services` | fifteen parts: one run of fn per key, exclusive leases, dependency order and rollback, exact windows; data structures and arithmetic agree with their references; shared cells, adapters, Kafka producers and log4go's caller side keep their accounts | 1,480,279 |
| `logging` | records delivered or counted while a writer's daemon serves, nothing twice, Close and Stop drain what was there, no orphaned logger, bounded crash loss, exact alert window, breaker closes only after probes | 1,418,386 |
| `breaker_wedge`, `kafka_stop`, `spill_rest`, `bloom_merge`, `claims` | statements of the repository that the code does not keep (below) | violated |

Every property of a passing run has a mutant in `PROJECT.json`: a plausible bug in
a mapped definition under which TLC finds the property violated. A property of a
composition is the conjunction of what its parts promise on one theme; the comment
before it says what each part promises, and where a reference follows the code
against a comment, that comment is one of the statements below. Some modules hold further mutated operators,
defined before the one they would replace, for the other conjuncts.

### Bounds

- Two or three goroutines per role (one closer of a Batcher and of a wheel). The races
  are between a caller, a second caller that changes what the first has read, and a
  Close.
- Channels, rings, pools and files of one or two places, with more items than places,
  so that full, empty and wrap-around all happen.
- Breaker: three goroutines, `MaxRequests` 2, `MaxCalls` 4, clock up to 2,
  cool-down 1: enough for a trip, a probe that outlasts its epoch, and a second
  trip. `breaker_wedge` needs six calls, and starts where the first of them has
  tripped the breaker and the cool-down is over (`TrippedSpec`). `WindowLedger` uses a window of 3 seconds and a clock up to 7, which has
  gaps shorter than, equal to and longer than the window, and steps back.
- Limiter: two callers, three calls, burst 1, an emission interval of 2 and a clock
  up to 2: a second call just before, at and after the refill.
- TcpClient: a pool of one, three connections, one retry, two calls: a connection is
  reused, expires, is cut, and overflows the pool. UdpClient:
  two callers with one call each or one after the other, without retries; and one
  call with a retry, whose attempts leave answers and watchers behind.
- KafkaConsumer: three messages, a channel of one place, two sessions, one error, a
  crash between any two steps. KafkaProducer: three calls with batches up to two.
- Calls: `RetryMax` from 0 to 2, every outcome of every attempt.
- Flows: two goroutines and four calls per component. Throttle: an interval of 2 and
  a clock up to 5, so that calls come too early, just in time and late, three times.
  PublicIP: two servers and the code's three rounds, whose late answers arrive in the
  next round or after the end.
- RedisLock: two clients, a TTL of 2 and a clock up to 3, so a lease can expire
  under its holder and be taken by the other.
- Shutdown: all dependency graphs on three components with at most two
  dependencies each, unknown names and cycles included.
- Idempotency: at most three runs of fn and one Forget or Clear.
- Containers: three keys, capacity 2, words of two bits, tries of
  depth two. Windows: three keys (five for topk), a window of 2 and a clock up to 4,
  readings of the clock that are up to one tick late. Sketches: three items whose
  hashes collide in part.
- Amounts: integers from -128 to 127, operands at their ends and in the middle, three
  decimal scales; the reference computes without a bound. Algorithms: words of 4
  bits, addresses of a few bits, calendars of six days of which one may be an hour
  longer or shorter.
- logging: three records, a channel and a memory store of one place, spill files
  of two, so that a restart finds more records than the channel takes and pushes
  them back; ring, file and chain as stores; one producer and one stopper, one crash, at most two calls of the Kafka producer (one to trip
  the breaker and one probe), three loggers with two closers. Two stoppers are
  discussed under the observations.
- Symmetry is used on goroutines, clients, jobs and records, and only in runs without
  liveness properties. The liveness run has two of what the safety run has three of,
  one where it has two.
- `CHECK_DEADLOCK FALSE` everywhere: each component may end (everything called and
  closed), and callers may stop calling. What must not block is stated by the
  liveness properties.

### Fairness

Weak fairness of goroutines that are inside a method or are daemons: Go schedules
every runnable goroutine. New calls are never fair. Deadlines that are armed pass,
and the clients' attempts are bounded, which is why their calls return. Strong
fairness in two places: a `select` with several ready cases chooses among them at
random, so a case that is ready again and again is taken (the collector's, the
autoscaler's and the Kafka pump's `done`); and channel receivers queue in order, so a
blocked weighted take is served (Semaphore's `TakeLocked`). RingBuffer's liveness
needs only that a woken goroutine gets the mutex, which is starvation free. Callers
of a semaphore are assumed to release what they hold, and whoever ranges over a
consumer's Messages() to go on reading or leave. `bloom_merge` is violated under weak
fairness of both goroutines.

## Proofs

TLAPS checks eight modules. Their theorems hold for every value of the constants:
any number of goroutines, connections, timers, messages and calls, and any capacity.
TLC checked the invariants below on small instances before they were proved, but
for UdpClient's `OneAnswer`, which ranges over all call numbers.

- **RingBuffer**, from `Cap` a positive natural number and `Zero` not an item.
  `TypeCorrect` (`Spec => []TypeOK`) and `NoLostWakeupHolds`
  (`Spec => []NoLostWakeup`): every operation that changes the count or closes the
  buffer broadcasts, which empties `waitSet`. `CursorsAgreeHolds`
  (`Spec => []CursorsAgree`) rests on arithmetic modulo `Cap`: one step of a cursor
  shifts the numbering of the slots by one (`SlotShift`). `RingBufferIsFifo`
  (`Spec => FifoSpec`): the buffer implements `BlockingFifo`, the queue being the
  occupied slots in order. A write appends to that sequence, a read takes its head,
  and every step of a method is the abstract step of the same name or a stutter.
- **Breaker**, from positive `MaxRequests`, `MinRequests`, `OpenDuration` and any
  `FailPercent`. `CooldownIsKept` (`Spec => CooldownKept`) and `RecoveryStartsClean`
  (`Spec => RecoveryIsClean`). Neither action property follows from the types: the
  state is stored before the expiry, and both are read without the mutex. The
  inductive invariant `IInv` adds that the mutex is held exactly at the program
  points inside critical sections (`LockOK`), that an open breaker has its new
  expiry except in the gap between the two stores (`ExpiryOK`), and that the state
  stays HalfOpen and the window empty while toClosed is under way (`ClosingOK`).
  `SlotsSettleHolds` (`Spec => []SlotsSettle`) needs a second invariant, `JInv`: the slots
  taken are at most the successes counted plus the calls that can still settle the
  epoch (`SlotsOK`, a bound by cardinality); a call of the current epoch in fn has
  its panic guard (`GuardOK`); and the call that counted the last success needed is
  on its way to toClosed (`DecidedOK`). The bound is from above only: the count can
  become negative, which is the case that `breaker_wedge` shows.
- **Safety** in `MCConcurrency` proves seven of the properties that the `concurrency`
  run checks, for all parts together. Its invariant `IInv` is that of the part that
  runs, and a step of the sum is a step of that part or leaves its variables alone
  (`PartSteps`). The assumptions are that sizes, bounds and retry budgets are natural
  numbers, that the adaptive pool has slots for its first workers, and that no
  connection and no timer is the one that stands for none.
  - `ChannelsSafe`. WorkerPool and Pipeline: inductive as it stands. Adaptive:
    until `done`, the registered stop channels are distinct, open, and belong to live
    workers (`Registered`). Fanout: what a publisher still has to serve is in the map,
    since the map changes only while no publisher holds the read lock, and a channel
    taken out of the map has exactly one writer to close it or was closed once. WTimer
    (`CloseJoins`): below.
  - `NoLostWakeup`. WTimer: what the goroutine found under the lock still holds when
    it goes to sleep, or a token is there or about to be sent (`DecidedRight`); only
    pushed timers are on the heap, and a one-shot on the heap has not fired.
  - `NoDoubleRun`. Debounce: a goroutine remembers a timer only between the two halves
    of Flush (`OnlyFlushHolds`), and a timer on whose behalf fn ran is done for good
    (`RanIsDone`).
  - `ConnsAccounted`, `ReplyMatches`. TcpClient: a connection that is open has exactly
    one owner, a call or the pool (`Owners`), and what is on it belongs to that call;
    one that is idle owes nothing and has nothing to read (`Answers`), unless the
    peer answered a Send, which nobody reads: the next SendReceive on that
    connection reads the answer to the Send, and the property excepts exactly this.
  - `ReplyMatches`. UdpClient: unless calls overlap, an answer to a call that is
    not stray is unique, and is there only while that call is under way or has failed
    (`OneAnswer`); the answer to a Send is always stray. `ReplyIsOwnOrStrayHolds` states it for any number of calls and
    retries; in the sum they are two calls without a retry, and one call with one.
  - `EffectsBounded`. Calls: the effects are bounded by the attempts made, at every
    program point. `CommitsAreEarned`. KafkaConsumer: a mark is earned before it is
    committed, and a crash or a rebalance returns to an earned one.

Two properties were wrong as they stood for larger instances, which the proofs
showed. A UDP call that returned a stray answer leaves its own behind, so that call
counts as stray as well (it takes three calls). Of several closers of a wheel only
the one that stopped it has joined the callbacks; a second Close returns at once
(wtimer.go:136), which the model now tells apart (`"noop"`).

Only model-checked:

- liveness, since the prover has no fairness reasoning;
- in `concurrency`: `TypeOK`, `ExactlyOnce` and `CloseDrains`, which relate whole
  queues to histories; `PermitsConserved` and `RateBound`, which are sums over sets
  or over time (induction over data); `FlowsAgree`, seven components that share one
  record;
- `services`, whose modules reach recursive operators (`Shutdown`'s search,
  `Algorithms`) that the prover does not take, and `logging`, whose stores are folds
  and filters of sequences.

## Where the code and its documentation disagree

Five runs violate such statements; the quotations are in `PROJECT.json`. Four of
the runs are about one piece of code each:

- `breaker_wedge`: callers that lose the admission race of one epoch give their slot
  back in the next (breaker.go:288); the count becomes negative, reads as a huge
  unsigned number, and the breaker rejects every call in HalfOpen for ever.
- `kafka_stop`: in per-record mode the records queued at Stop go to a batch that
  nothing sends (kafka_writer.go:645), and a producer past the check of `closing`
  puts its record into a channel that nobody reads (499). The property says that one
  of the two comments is right; the behaviour refutes both.
- `spill_rest`: drainSpill empties the store and, when the channel is full, puts
  back one record and loses the others (kafka_writer.go:574, and the same loop in
  file_writer.go and net_writer.go).
- `bloom_merge`: two filters merged into each other at the same time each hold their
  own lock and wait for the other's (bloom.go:219).

`claims` takes nineteen statements one after the other. A behaviour of `MCClaims`
starts in an initial state of the first one's component, and goes on to the next
statement only from a state where the present one is false. `SomeStatementHolds` is
therefore violated only by a behaviour with a counterexample to each:

| statement | what the code does |
|---|---|
| `FromMajorReports`, `ParseReports` (money.go:38) | the fraction is added without the overflow check (143, 201) |
| `DivRounds` (money.go:310) | twice the remainder wraps, and the quotient is rounded the wrong way (536) |
| `AllocateIsProportional` (money.go:371) | of a negative amount one share takes all the units left over (419) |
| `LeftOneBitIsLeftmost` (bit.go:83) | wrong when the leftmost one is the word's highest bit (101) |
| `DatesAreBetween` (datetime.go:339) | a date too many across a day of 25 hours (348) |
| `RangeStaysInside` (iterx.go:127) | Range goes on when its counter wraps (136) |
| `LenIsKeys` (trie.go:198) | Delete("") never decrements the count (138) |
| `TestSeesEveryBit` (bitset.go:89, 57) | Union with an equal number of words does not raise `n` (94) |
| `TryPopFailsWhenClosed` (ringbuffer.go:99) | TryPop on a closed buffer returns what is left (103), as the package's README and fuzz test have it |
| `FailedSetupKeepsLevel` (config.go:42-43) | the level and the format are set before the first writer is built (84) |
| `SessionsRevert` (log.go:1266-1270) | the end of one of two overlapping sampling sessions reinstalls the other's strategy (1276) |
| `StampIsOfItsSecond` (log.go:1475) | the cached time stamp can be another second's (1485) |
| `OtherKeysUntouched` (log.go:845-846) | SetBaseField and RemoveBaseField lose concurrent updates (890) |
| `StopIsComplete` (shutdown.go:228) | a component added after Start with a missing or cyclic dependency makes Stop return an error and stop nothing (234) |
| `AtMostOneRunEver` (idempotency.go:109) | a forgotten leader that fails deletes its successor's entry (176), and fn runs twice at a time |
| `CountIsExact` (freqcap.go:8) | evicting idle keys trims time stamps in place and keeps the old length (203, and hotkey.go:192): an entity is denied events it has not used |
| `BatchMaxIsLargest` (kafka.go:193) | a load and a store: a smaller batch can be stored last (sarama_producer.go:146) |
| `InFlightIsBuffered` (kafka.go:194) | sarama's Close takes results from the channel that counts them (sarama_producer.go:133), and InFlight stays positive |

Met while modelling; each is in the model as the code has it, or, where marked (o),
outside it.

Concurrency and protection:

- breaker.go:69-71: the epoch is compared before the counter is credited (341), so
  a late probe can still credit the next epoch. breaker.go:281-282: the slot count
  is set, not added, on the transition (324).
- batcher.go:178-180: an Add that passed its check may still send after the final
  drain, because the `select` at 141 may choose the send when `done` is closed.
- semaphore.go:122-124: a weighted take holding `wmu` waits until a unit permit
  returns, and Close does not wake it; TryAcquire's weighted path can block (157).
- semaphore.go:25, pipeline.go:171: after Close a ready channel may still be chosen,
  so Acquire and Send can succeed.
- workerpool.go:228: a second, concurrent Close returns before the drain is done;
  so does wtimer.go:136. pipeline.go:93-94: items processed after Close are discarded
  when the output is full. wtimer.go:115: a timer can fire once after Cancel has
  returned. debounce.go:54: fn can still start after Close, having read `closed`
  before.
- limiter: token and leaky bucket swap the level and then the time stamp, so a call
  that falls between the two is refilled for the same interval again
  (token_bucket.go:80-82 "stays faithful to its configured cap";
  leaky_bucket.go:89-90). The fixed window advances its start before it resets its
  count, which forgets a grant in between. gcra's nextDelay is 0 at capacity, so Wait
  polls without sleeping. limiter.go:73-74 "Wait does not count as denied": Wait polls
  Allow, which counts. The exact bounds of these three are therefore stated for calls
  that do not overlap.
- rate.go:78: Redis keeps 14 digits of the stored time, so it is rounded.
- fsm.go:111-119: a guard that panics leaves the machine locked. health.go:131-136: a
  slow older evaluation overwrites a newer one. hotkey.go:216: the empty string is
  the mark for "no victim" and also a legal key.

Services and clients:

- idempotency.go:66: the map exceeds its cap while the leaders are in flight.
- shutdown.go:5-6: Stop runs the hooks of all components, not of the started ones.
- shortlink.go:128: WithRetries(0) becomes the default. grpcclient options.go:131
  "to truly disable retries, set RetryMax to 0": 0 becomes the default, 2; in
  httpclient too. retry.Do with a negative MaxAttempts returns nil without calling fn.
- httpclient retry.go:42 knows EOFs only: a POST whose connection was reset after it
  was sent is sent again.
- tcpclient.go:279-280: the read deadline is an error, and SendReceive sends the
  request again. udpclient.go:396-397: a watcher that outlives its call can end the
  read of the next one; a late reply is read by the next call.
- kafka: an ACK after a NACK commits past the message that was refused
  (sarama_handler.go:66-67). The synchronous SendBatch counts a whole batch as
  failed when part of it was stored. Consume on a closed franz consumer
  spins until ctx ends. Messages() first called after Close returns nil.
- mongo and etcd: a second Close returns before the first is done; clickhouse and
  aerospike wait for it.
- middleware.go:157-166: with credentials and "*", a request without Origin is still
  answered "*".

log4go:

- log.go:169: defaultLogger returns nil when a Close falls between the lost
  CompareAndSwap and the Load. log.go:808: a root and its child have a closeOnce each
  (clone) and close the shared `quit` twice.
- kafka_writer.go:617: the daemon stores `run` when it is first scheduled; after a
  Stop has claimed it, a second Stop closes `k.stop` again. LogKafka shows it with
  two Stoppers.
- kafka_overflow.go:70-71 "file survives process crash": Push only fills a
  bufio.Writer, so a suffix is lost (LogSpill's `AfterCrash`).
- kafka_writer.go:681-684 (o): in batch mode a synchronous error does not feed the
  breaker. log.go (o): registering writers loads and stores a list without a lock.
- log.go:1495-1497: FieldValue returns the first field of a name. SlogHandler.Handle
  does not sample. kafka_writer.go:364-366 (o) "duplicate keys keep the last value":
  so it is without ExtraFields, but with them buildPayload keeps the first.

Data and arithmetic:

- histogram.go:139 "q <= 0 returns the
  minimum, q >= 1 the maximum": both return a bucket's bound.
- money: Add and Sub can yield MinInt64. base62 Decode wraps. retry.go:51: the shift
  of ExponentialBackoff can wrap.
- iterx.go:115-118: Zip consumes one element of `a` that it does not yield, which its
  comment does not exclude. match.go:235-238: CIDRContains and net.IPNet.Contains
  differ for a 16-byte form of an IPv4 network with a prefix below 96.
  ip.go:389-400: ToCIDRStr does not check the parts after the first "*".

## Not modelled

- breaker: lifetime counters, event hook, option defaults.
  shutdown: concurrent Start and Stop, the signal goroutine of Run. redislock: a
  manual Refresh beside a running renewer, tokens shared with WithToken.
- log4go: formatting, ShardLogger, console and io writers, configuration files;
  writers are registered by one goroutine and their Init succeeds; disk errors of a
  spill file; KafkaWriter's recovery of a spill file at Start (FileWriter's is
  modelled); `DrainFileRecover`, which nothing calls.
- Floating-point estimates (hyperloglog's cardinality, latency's interpolation,
  stats beyond sums and order), hash functions (chosen by the model), random numbers
  (nondeterministic), ip's queries of the interfaces, and the servers and drivers behind the
  clients, which are an environment that may answer, fail or be silent.
- Panic counters and hooks everywhere: no decision reads them.
- Whole packages: bytespool, config, email, errcode, file, hash, json, maputil, mathx,
  maxprocs, metrics, optional, otp, random, signing, str, stress, tracing, tuple, uuid
  and xlo. They are wrappers of a library call, pure I/O, string formatting, or
  one-line generics; `PROJECT.json` gives each one's reason. Packages whose status
  there is "partly" have a note that says which operations are missing.

## Plan

1. Proofs: `ExactlyOnce` and `CloseDrains` of the pools and the pipeline, whose
   invariant relates the queue, the workers' hands and what was run; Semaphore's
   `PermitsConserved`, which needs sums over goroutines; RedisLock's
   `MutualExclusion`, once its composition reaches no recursive operator.
2. kafka below LogKafka, where KafkaProducer would replace the external producer;
   ShardLogger; KafkaWriter's recovery.
