------------------------------ MODULE MCServices -----------------------------
(***************************************************************************)
(* The components around calls and their data: Idempotency, RedisLock,     *)
(* Shutdown, the breaker's WindowLedger, the data structures and the       *)
(* arithmetic (Containers, Windows, Sketches, Amounts, Algorithms), the    *)
(* small shared cells (Cells), the database adapters, the Kafka options    *)
(* and producers, and what a logger makes of a call (LogEmit).  They       *)
(* share no state, so every interleaving of two of them projects to one of *)
(* each alone: a behaviour here exercises the one that `part' names.  The  *)
(* variables of that one are v1, v2, ... in the order in which its module  *)
(* declares them, and the variables it has no use for stay 0.              *)
(***************************************************************************)
EXTENDS Integers, FiniteSets, TLC

CONSTANTS
    Parts,                          \* the components a behaviour may exercise
    Clients,                        \* the clients of Redis; the goroutines of the others
    Keys, TTL, MaxEntries, CacheErrors, MaxRuns, MaxForgets, MaxClock,   \* Idempotency
    LockTTL, WaitTimeout, MaxTime,  \* RedisLock
    N, MaxDeps,                     \* Shutdown
    Secs, MaxSec, MaxRecords,       \* WindowLedger
    Labels, Nil,                     \* elements, keys and nodes; Go's zero value
    Lateness,                       \* of clock readings, in Windows
    SketchKinds                     \* the kinds of Sketches

VARIABLES part, v1, v2, v3, v4, v5, v6, v7, v8, v9, v10, v11, v12, v13, v14

I == INSTANCE Idempotency WITH
        Threads <- Clients, MaxTime <- MaxClock,
        entries <- v1, obj <- v2, clock <- v3, call <- v4, forgets <- v5
R == INSTANCE RedisLock WITH
        TTL <- LockTTL,
        now <- v1, key <- v2, exp <- v3, pc <- v4, reply <- v5, deadline <- v6, sentAt <- v7,
        leaseEnd <- v8, renewer <- v9, stop <- v10, cancelled <- v11, lost <- v12, fired <- v13,
        byRelease <- v14
H == INSTANCE Shutdown WITH
        deps <- v1, added <- v2, order <- v3, cancelled <- v4, owner <- v5, up <- v6
L == INSTANCE WindowLedger WITH win <- v1, ledger <- v2

C == INSTANCE Containers WITH
        Kinds <- {"queue", "stack", "ringbuf", "history", "bimap", "multimap", "lru",
                  "set", "priorityqueue", "bitset", "trie", "interval"},
        Keys <- Labels, Values <- {"v1", "v2"}, NoValue <- Nil, Cap <- 2, MaxLen <- 4,
        TTLs <- {0, 1}, MaxClock <- 2,
        Elements <- Labels, Priorities <- 1 .. 2, Word <- 2, MaxBit <- 4,
        Segments <- {"s1", "s2"}, MaxDepth <- 2, MaxPoint <- 3,
        kind <- v1, obj <- v2, ref <- v3, out <- v4, clock <- v5
W == INSTANCE Windows WITH
        Kinds <- {"topk", "hotkey", "freqcap", "sliding", "timewindow", "latency"},
        Keys <- 1 .. 3, Items <- 1 .. 5, K <- 1, MaxKeys <- 2, MaxEvents <- 2, Window <- 2,
        Samples <- {0, 6, 20}, Boundaries <- <<4, 12>>, Shards <- 2, Cap <- 2, MaxLen <- 2,
        MaxClock <- 4,
        kind <- v1, obj <- v2, ref <- v3, out <- v4, clock <- v5
S == INSTANCE Sketches WITH
        Kinds <- SketchKinds, Threads <- Clients, MaxOps <- 4,
        Items <- {<<0, 0>>, <<1, 2>>, <<55, 1>>}, M <- 5, K <- 2, Bits <- 4, Precision <- 2,
        Percentages <- {0, 50, 60, 101}, Origins <- {"", "o1", "o2"},
        kind <- v1, cell <- v2, call <- v3, log <- v4, ops <- v5
A == INSTANCE Amounts WITH
        Kinds <- {"money", "decimal", "base62", "backoff", "delay",
                  "balancer", "hash", "auction", "pacer"},
        Half <- 128,
        Operands <- {-128, -127, -64, -7, -3, -2, -1, 0, 1, 2, 3, 5, 10, 12, 64, 100, 127},
        Ratios <- {<<1, 1, 1>>, <<1, 2>>, <<3, 0, 1>>}, MaxScale <- 2, MaxValue <- 60,
        Alphabets <- {<<"a", "b", "c">>, <<"c", "a", "b">>, <<"a", "a", "b">>}, Word <- 50,
        Jitters <- {"none", "full", "equal", "decorrelated"}, Bases <- {0, 1, 3, 50},
        Maxima <- {2, 9, 127}, MaxAttempt <- 4,
        Nodes <- Labels, Weights <- {0, 2}, MaxChanges <- 4, Scores <- 1 .. 3, Prices <- 0 .. 3,
        MaxBids <- 3, Budget <- 5, Period <- 6, Tolerance <- 20,
        Curves <- {<<1, 1>>, <<0, 2, 1>>, <<3, -1>>, <<0, 0>>},
        kind <- v1, obj <- v2, ref <- v3, out <- v4
Y == INSTANCE Cells WITH
        Kinds <- {"gate", "promise", "health", "reload", "shortlink"}, Threads <- Clients,
        MaxOps <- 5, Maxima <- 1 .. 2, CacheTTL <- 2, CheckTime <- 1, MaxClock <- 7,
        MaxVersion <- 2, Codes <- {"c1", "c2"}, Retries <- 1,
        kind <- v1, cell <- v2, call <- v3, seen <- v4, clock <- v5, ops <- v6
D == INSTANCE Adapters WITH
        Threads <- Clients, MaxCalls <- 2,
        Packages <- {"mongo", "etcd", "clickhouse", "aerospike", "redis", "postgres", "minio",
                     "elasticsearch"},
        kind <- v1, client <- v2, conn <- v3, call <- v4, cnt <- v5, handler <- v6, log <- v7
K == INSTANCE KafkaProducer WITH
        Threads <- Clients, Batches <- 0 .. 2, MaxBuffered <- 2, MaxOps <- 3,
        backend <- v1, closed <- v2, closer <- v3, buffer <- v4, cnt <- v5, op <- v6,
        taken <- v7, sizes <- v8, client <- v9
G == INSTANCE LogEmit WITH
        Kinds <- {"tree", "base", "session", "stamp", "setup", "render", "extract", "hook", "shard"}, Threads <- Clients,
        Keys <- {"k1", "k2"}, Levels <- 1 .. 2, TraceIds <- {0, 1, 3}, MaxLoggers <- 2,
        MaxOps <- 4, MaxClock <- 3,
        kind <- v1, obj <- v2, call <- v3, ref <- v4, out <- v5, ops <- v6
X == INSTANCE Algorithms WITH
        Kinds <- {"bit", "trunc", "ip", "text", "date", "stats", "slice", "iter"}, Width <- 4,
        Lens <- {<<4, 4, 4, 4, 4, 4>>, <<4, 3, 4, 4, 4, 4>>, <<4, 4, 5, 4, 4, 4>>},
        kind <- v1, arg <- v2, out <- v3

\* The variables after the n-th, and that they are not used.
After9 == <<v10, v11, v12, v13, v14>>
After8 == <<v9, After9>>
After7 == <<v8, After8>>
After6 == <<v7, After7>>
After5 == <<v6, After6>>
After4 == <<v5, After5>>
After3 == <<v4, After4>>
After2 == <<v3, After3>>
vars == <<part, v1, v2, After2>>

Only9 == v10 = 0 /\ v11 = 0 /\ v12 = 0 /\ v13 = 0 /\ v14 = 0
Only8 == v9 = 0 /\ Only9
Only7 == v8 = 0 /\ Only8
Only6 == v7 = 0 /\ Only7
Only5 == v6 = 0 /\ Only6
Only4 == v5 = 0 /\ Only5
Only3 == v4 = 0 /\ Only4
Only2 == v3 = 0 /\ Only3

In(p) == part = p

Init ==
    /\ part \in Parts
    /\ \/ In("idempotency") /\ I!Init /\ Only5
       \/ In("redislock") /\ R!Init
       \/ In("shutdown") /\ H!Init /\ Only6
       \/ In("window") /\ L!Init /\ Only2
       \/ In("containers") /\ C!Init /\ Only5
       \/ In("windows") /\ W!Init /\ Only5
       \/ In("sketches") /\ S!Init /\ Only5
       \/ In("amounts") /\ A!Init /\ Only4
       \/ In("cells") /\ Y!Init /\ Only6
       \/ In("adapters") /\ D!Init /\ Only7
       \/ In("producer") /\ K!Init /\ Only9
       \/ In("emit") /\ G!Init /\ Only6
       \/ In("algorithms") /\ X!Init /\ Only3

Next ==
    /\ UNCHANGED part
    /\ \/ In("idempotency") /\ I!Next /\ UNCHANGED After5
       \/ In("redislock") /\ R!Next
       \/ In("shutdown") /\ H!Next /\ UNCHANGED After6
       \/ In("window") /\ L!Next /\ UNCHANGED After2
       \/ In("containers") /\ C!Next /\ UNCHANGED After5
       \/ In("windows") /\ W!Next /\ UNCHANGED After5
       \/ In("sketches") /\ S!Next /\ UNCHANGED After5
       \/ In("amounts") /\ A!Next /\ UNCHANGED After4
       \/ In("cells") /\ Y!Next /\ UNCHANGED After6
       \/ In("adapters") /\ D!Next /\ UNCHANGED After7
       \/ In("producer") /\ K!Next /\ UNCHANGED After9
       \/ In("emit") /\ G!Next /\ UNCHANGED After6
       \/ In("algorithms") /\ X!Next /\ UNCHANGED After3

Spec == Init /\ [][Next]_vars

\* A goroutine that can go on with a bloom filter's Merge does.
MergeSpec ==
    /\ Spec
    /\ \A t \in Clients :
        WF_vars(In("sketches") /\ S!BloomUnion(t) /\ UNCHANGED <<part, v1, After5>>)

\* Clients and keys are interchangeable.
Symmetry == Permutations(Clients) \cup Permutations(Keys)
-----------------------------------------------------------------------------
\* Every component keeps its types.
TypeOK ==
    /\ In("idempotency") => I!TypeOK
    /\ In("redislock") => R!TypeOK
    /\ In("shutdown") => H!TypeOK
    /\ In("window") => L!TypeOK
    /\ In("sketches") => S!TypeOK
    /\ In("adapters") => D!TypeOK
    /\ In("producer") => K!TypeOK

\* Idempotency: fn runs at most once for concurrent callers of a key, in whatever
\* order they come and whatever is evicted, until Forget or Clear is called; and
\* the entry a follower waits for is completed or has a leader at work, also when
\* it was forgotten or evicted meanwhile.  A Do called after Forget or Clear never
\* gets a result that was computed, or was being computed, when they were called;
\* and unless errors are cached no Do gets a failed result of another call from
\* the map.
AtMostOneRun ==
    In("idempotency") =>
        I!AtMostOneRun /\ I!FollowersHaveLeader /\ I!ForgetSticks /\ I!FailuresNotCached

\* RedisLock: two clients are never both within a lease that they may rely on,
\* whatever replies were lost and however slow they are.  A lock disappears from
\* Redis only when it expires or when its own holder has called Release, and its
\* lease is extended only by a refresh of its own holder, never by a client that
\* lost the lock and does not know it yet.  Losses are reported exactly: onLost is
\* not called because Release cancelled the renewer's context or deleted the key
\* under an in-flight refresh, and the renewer never quits silently.
MutualExclusion ==
    /\ [](In("redislock") => R!MutualExclusion /\ R!CleanReleaseSilent /\ R!LossReported)
    /\ [][In("redislock") => R!RemovedByOwner /\ R!ExtendedByOwner]_vars

\* Shutdown: a start hook runs only when all that the component depends on is up,
\* and a stop hook only when nothing that is up depends on the component, in Stop
\* and in the rollback, also when components were added since; and a failed Start
\* leaves nothing running.  The depth-first search finds an order exactly when
\* there is one; it has every registered component once, after everything it
\* depends on.
HookOrder ==
    /\ [](In("shutdown") => H!RollbackComplete /\ H!ResolveCorrect)
    /\ [][In("shutdown") => H!StartsInOrder /\ H!StopsInOrder]_vars

\* WindowLedger: the running sums of the breaker's window are exactly the calls,
\* and the failures, of the last Secs seconds, after idle gaps longer and shorter
\* than the window and when the clock has gone back.
WindowExact == In("window") => L!WindowExact

\* The data structures agree with their mathematical references after any
\* sequence of operations: the queue's compaction, the rings' wrap-around, bimap's
\* two maps, lru's list and index and the heap's indices do not drift, and a trie's
\* count does not until the empty key is deleted; topk, hotkey, freqcap and the sliding windows say what their events say,
\* or more where they document it; a bloom filter has no false negative, also after
\* merges that overlap other calls, and a sample no repetition.
StructuresAgree ==
    /\ In("containers") => C!ContainersAgree
    /\ In("windows") => W!WindowsAgree
    /\ In("sketches") => S!SketchesAgree

\* The arithmetic is exact in its word: money and decimal return the exact result or
\* an error, and the error only when it does not fit (FromMajor and Parse where
\* their last sum fits, Div where twice the remainder does; MCClaims has the other
\* inputs); Allocate loses no unit and is proportional for amounts that are not
\* negative; no backoff exceeds its exponential value or its maximum; round robin is
\* fair from any membership change on, a hash ring moves only the keys it must, a
\* second-price auction charges what the winner needed, and the pacer's plan never
\* decreases.  The pure functions on words, decimal texts, addresses, dates,
\* samples, slices and iterators are what their reference definitions say, on every
\* input of their small domains that MCClaims does not have.
ArithmeticAgrees ==
    /\ In("amounts") => A!AmountsAgree
    /\ In("algorithms") => X!AlgorithmsAgree

\* What goroutines share through a small cell: the gate's counter is the slots
\* held, a promise has one value, a health report is no older than its cache and
\* checks allow, a reloaded value never goes back, a code is handed out once.  The
\* database adapters: a driver whose Close must not be repeated sees one, a New that
\* failed leaves no connection open, a wrapped client is never closed, and every
\* call fires one event and counts its error.
CellsAgree ==
    /\ In("cells") => Y!CellsAgree
    /\ In("adapters") => D!AdaptersAgree

\* The Kafka producers: every message handed over is counted once as enqueued and
\* once by how it came out, or was taken by sarama's own Close; until that happens,
\* what is reported in flight is, between calls, what the client holds; no Send
\* meets a closed input, with Close in between; Metrics called meanwhile reports no
\* more in flight than there was, and both backends make the same of the same
\* options.
MessagesAccounted == In("producer") => K!MessagesAccounted

\* log4go: a record has the fields of its logger and its ancestors, the most
\* specific first, whatever other loggers were derived; samplers keep their rate;
\* sampling sessions that do not overlap leave nothing behind; a cached time stamp
\* is right unless two records were made at once; a field's value survives every
\* format, a record's own keys are not replaced by fields of the same name; context
\* extractors merge in order; what a webhook sends has passed level, filter and gate;
\* shards share records evenly and no writer with state.
EmitAgrees == In("emit") => G!EmitAgrees

\* "All methods are safe for concurrent use" (bloom/README.md:44): two filters
\* merged into each other at once, by two goroutines, are both merged.
MergeReturns ==
    \A t \in Clients : In("sketches") /\ S!At(t, "merge") ~> In("sketches") /\ S!At(t, "idle")
=============================================================================
