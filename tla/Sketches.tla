------------------------------ MODULE Sketches ------------------------------
(***************************************************************************)
(* bloom.Filter, countmin.CountMinSketch, hyperloglog.HyperLogLog (two of  *)
(* each, merged into one another), reservoir.Sample, objpool.Pool,         *)
(* featureflag.Flag and the handlers of middleware.  `cell' is the fields, *)
(* `call' the goroutines, `log' what was put in.  An item is the pair of   *)
(* hashes the code derives from it; the estimates, which are floating      *)
(* point, are left out.                                                    *)
(***************************************************************************)
EXTENDS Integers, Sequences, FiniteSets, FiniteSetsExt

CONSTANTS
    Kinds, Threads,
    MaxOps,           \* calls made
    Items,            \* pairs of hashes
    M, K,             \* bloom: bits and hash functions; countmin: width and depth
    Bits, Precision,  \* hyperloglog: width of a hash, and of its register index
    Percentages,      \* featureflag
    Origins           \* middleware: origins of requests; "" for none

VARIABLES kind, cell, call, log, ops

vars == <<kind, cell, call, log, ops>>

Sketch == {"a", "b"}
Idle == [pc |-> "idle"]
Is(k) == kind = k
At(t, pc) == call[t].pc = pc
Op(t) == At(t, "idle") /\ ops < MaxOps /\ ops' = ops + 1
-----------------------------------------------------------------------------
(* bloom.Filter.  Add, Test and Reset run under mu; Merge takes the        *)
(* receiver's, then the other's.                                           *)
NewBloom == [bits |-> {}, n |-> 0]

\* (h1 + i*h2) mod m, for the k hash functions, with 0 for h2 read as 1.
Indices(x) == {(x[1] + i * (IF x[2] = 0 THEN 1 ELSE x[2])) % M : i \in 0 .. K - 1}

Writing(f) == \E u \in Threads : At(u, "merge") /\ call[u].into = f

BloomAdd(t, f, x) ==
    /\ Op(t) /\ ~Writing(f)
    /\ cell' = [cell EXCEPT ![f] = [bits |-> @.bits \cup Indices(x), n |-> @.n + 1]]
    /\ log' = [log EXCEPT ![f] = Append(@, x)]
    /\ UNCHANGED call

BloomTest(f, x) == Indices(x) \subseteq cell[f].bits

BloomReset(t, f) ==
    /\ Op(t) /\ ~Writing(f)
    /\ cell' = [cell EXCEPT ![f] = NewBloom] /\ log' = [log EXCEPT ![f] = <<>>]
    /\ UNCHANGED call

\* Merge of a filter into itself returns at once; any other takes the lock ...
BloomMerge(t, f, other) ==
    /\ Op(t)
    /\ f # other => ~Writing(f)
    /\ call' = IF f = other THEN call ELSE [call EXCEPT ![t] = [pc |-> "merge", into |-> f, from |-> other]]
    /\ UNCHANGED <<cell, log>>

\* ... and, when the other's is to be had, copies and releases both.
BloomUnion(t) ==
    /\ At(t, "merge")
    /\ LET f == call[t].into
           o == call[t].from
       IN  /\ ~Writing(o)
           /\ cell' = [cell EXCEPT ![f] = [bits |-> @.bits \cup cell[o].bits, n |-> @.n + cell[o].n]]
           /\ log' = [log EXCEPT ![f] = @ \o log[o]]
    /\ call' = [call EXCEPT ![t] = Idle] /\ UNCHANGED ops

Bloom ==
    /\ Is("bloom")
    /\ \E t \in Threads, f \in Sketch :
          \/ \E x \in Items : BloomAdd(t, f, x)
          \/ BloomReset(t, f) \/ BloomUnion(t)
          \/ \E o \in Sketch : BloomMerge(t, f, o)

BloomExact ==
    \A f \in Sketch :
        /\ cell[f].bits = UNION {Indices(log[f][i]) : i \in DOMAIN log[f]}
        /\ cell[f].n = Len(log[f])
        /\ \A i \in DOMAIN log[f] : BloomTest(f, log[f][i])
-----------------------------------------------------------------------------
(* countmin.CountMinSketch: no locks, one goroutine.                       *)
NewCountMin == [counts |-> [i \in 0 .. K - 1 |-> [j \in 0 .. M - 1 |-> 0]], total |-> 0]
Cell(x, i) == (x[1] + i * (IF x[2] = 0 THEN 1 ELSE x[2])) % M

CountMinAdd(f, x, n) ==
    /\ cell' = [cell EXCEPT ![f] = [counts |-> [i \in 0 .. K - 1 |-> [@.counts[i] EXCEPT ![Cell(x, i)] = @ + n]],
                                    total |-> @.total + n]]
    /\ log' = [log EXCEPT ![f] = Append(@, <<x, n>>)]

Estimate(f, x) == Min({cell[f].counts[i][Cell(x, i)] : i \in 0 .. K - 1})

CountMinReset(f) ==
    cell' = [cell EXCEPT ![f] = NewCountMin] /\ log' = [log EXCEPT ![f] = <<>>]

CountMinMerge(f, o) ==
    /\ cell' = [cell EXCEPT ![f] =
                  [counts |-> [i \in 0 .. K - 1 |-> [j \in 0 .. M - 1 |-> @.counts[i][j] + cell[o].counts[i][j]]],
                   total |-> @.total + cell[o].total]]
    /\ log' = [log EXCEPT ![f] = @ \o log[o]]

CountMin ==
    /\ Is("countmin") /\ \E t \in Threads : Op(t)
    /\ \E f \in Sketch :
          \/ \E x \in Items, n \in 1 .. 2 : CountMinAdd(f, x, n)
          \/ CountMinReset(f)
          \/ \E o \in Sketch : CountMinMerge(f, o)
    /\ UNCHANGED call

Added(f, P(_)) == MapThenSumSet(LAMBDA i : log[f][i][2], {j \in DOMAIN log[f] : P(log[f][j][1])})

\* Never below the true count, above it by no more than the items that share
\* the cell; each row holds the total.
CountMinBounds ==
    \A f \in Sketch, x \in Items :
        LET true == Added(f, LAMBDA y : y = x)
        IN  /\ Estimate(f, x) >= true
            /\ \A i \in 0 .. K - 1 : Estimate(f, x) <= Added(f, LAMBDA y : Cell(y, i) = Cell(x, i))
            /\ cell[f].total = Added(f, LAMBDA y : TRUE)
-----------------------------------------------------------------------------
(* hyperloglog.HyperLogLog, over hashes of `Bits' bits.                    *)
NewHyperLogLog == [j \in 0 .. 2 ^ Precision - 1 |-> 0]

\* bits.LeadingZeros of a word.
LeadingZeros(x) == Bits - Cardinality({i \in 0 .. Bits : 2 ^ i <= x})

AddHashed(f, x) ==
    LET j == x \div 2 ^ (Bits - Precision)
        rho == Min({LeadingZeros((x * 2 ^ Precision) % 2 ^ Bits) + 1, Bits - Precision + 1})
    IN  /\ cell' = [cell EXCEPT ![f][j] = Max({@, rho})]
        /\ log' = [log EXCEPT ![f] = @ \cup {x}]

HyperLogLogReset(f) ==
    cell' = [cell EXCEPT ![f] = NewHyperLogLog] /\ log' = [log EXCEPT ![f] = {}]

HyperLogLogMerge(f, o) ==
    /\ cell' = [cell EXCEPT ![f] = [j \in DOMAIN @ |-> Max({@[j], cell[o][j]})]]
    /\ log' = [log EXCEPT ![f] = @ \cup log[o]]

HyperLogLog ==
    /\ Is("hyperloglog") /\ \E t \in Threads : Op(t)
    /\ \E f \in Sketch :
          \/ \E x \in 0 .. 2 ^ Bits - 1 : AddHashed(f, x)
          \/ HyperLogLogReset(f)
          \/ \E o \in Sketch : HyperLogLogMerge(f, o)
    /\ UNCHANGED call

\* A register is the first set bit, counted from 1, of the hashes with its index,
\* whatever the order, the repetitions and the merges they came by.
Registers ==
    \A f \in Sketch, j \in 0 .. 2 ^ Precision - 1 :
        LET low == Bits - Precision
            First(x) == CHOOSE r \in 1 .. low + 1 :
                           \/ r = low + 1 /\ x % 2 ^ low = 0
                           \/ r <= low /\ (x % 2 ^ low) \div 2 ^ (low - r) = 1
        IN  cell[f][j] = Max({0} \cup {First(x) : x \in {y \in log[f] : y \div 2 ^ low = j}})
-----------------------------------------------------------------------------
(* reservoir.Sample: the n-th item takes the place of a random earlier one *)
(* or is dropped.  Items are numbered as they come.                        *)
Offer ==
    /\ log' = log + 1
    /\ IF Len(cell) < K THEN cell' = Append(cell, log')
       ELSE \E j \in 0 .. log' - 1 : cell' = IF j < K THEN [cell EXCEPT ![j + 1] = log'] ELSE cell

SampleReset == cell' = <<>> /\ log' = 0

Reservoir ==
    /\ Is("reservoir") /\ \E t \in Threads : Op(t)
    /\ Offer \/ SampleReset
    /\ UNCHANGED call

\* A sample without replacement of what was offered since the last Reset.
IsSample ==
    /\ Len(cell) = Min({K, log}) /\ \A i \in DOMAIN cell : cell[i] \in 1 .. log
    /\ \A i, j \in DOMAIN cell : cell[i] = cell[j] => i = j
-----------------------------------------------------------------------------
(* objpool.Pool: sync.Pool may drop what it keeps; a miss constructs.      *)
PoolGet(t) ==
    /\ Op(t)
    /\ \/ \E x \in cell.free : /\ cell' = [cell EXCEPT !.free = @ \ {x}, !.gets = @ + 1, !.inUse = @ + 1]
                               /\ call' = [call EXCEPT ![t] = [pc |-> "has", x |-> x]]
       \/ /\ cell' = [cell EXCEPT !.misses = @ + 1, !.gets = @ + 1, !.inUse = @ + 1]
          /\ call' = [call EXCEPT ![t] = [pc |-> "has", x |-> cell.misses + 1]]
    /\ UNCHANGED log

\* The object is back in the pool before it is counted.
PoolPut(t) ==
    /\ \/ /\ At(t, "has")
          /\ cell' = [cell EXCEPT !.free = @ \cup {call[t].x}]
          /\ call' = [call EXCEPT ![t] = [pc |-> "counts"]]
       \/ /\ At(t, "counts")
          /\ cell' = [cell EXCEPT !.puts = @ + 1, !.inUse = @ - 1]
          /\ call' = [call EXCEPT ![t] = Idle]
    /\ UNCHANGED <<log, ops>>

PoolDrop ==
    /\ \E x \in cell.free : cell' = [cell EXCEPT !.free = @ \ {x}]
    /\ UNCHANGED <<call, log, ops>>

ObjPool == Is("objpool") /\ (PoolDrop \/ \E t \in Threads : PoolGet(t) \/ PoolPut(t))

\* An object is nobody else's, and InUse is at least what is really in use.
PoolExclusive ==
    LET holders == {t \in Threads : At(t, "has")}
    IN  /\ \A t \in holders : call[t].x \notin cell.free /\ \A u \in holders : call[u].x = call[t].x => u = t
        /\ cell.inUse = cell.gets - cell.puts /\ cell.inUse >= Cardinality(holders)
        /\ cell.misses <= cell.gets
-----------------------------------------------------------------------------
(* featureflag.Flag.                                                       *)
Clamp(p) == Min({p, 100})
HashPercent(x) == x[1] % 100

Enabled(f, x, now) ==
    /\ f.enabled
    /\ f.notBefore # 0 => now >= f.notBefore
    /\ x \in f.allowlist \/ HashPercent(x) < f.percentage

FlagSet ==
    \/ \E b \in BOOLEAN : cell' = [cell EXCEPT !.enabled = b]
    \/ \E p \in Percentages : cell' = [cell EXCEPT !.percentage = Clamp(p)]

FlagAllow ==
    \E x \in Items : \/ cell' = [cell EXCEPT !.allowlist = @ \cup {x}]
                     \/ cell' = [cell EXCEPT !.allowlist = @ \ {x}]

FeatureFlag ==
    /\ Is("featureflag") /\ \E t \in Threads : Op(t)
    /\ FlagSet \/ FlagAllow
    /\ log' = log + 1 /\ UNCHANGED call

\* A wider rollout, or a later look, takes no key out.
RolloutMonotone ==
    \A x \in Items, p \in Percentages, later \in 0 .. MaxOps :
        Enabled(cell, x, log) /\ Clamp(p) >= cell.percentage
            => Enabled([cell EXCEPT !.percentage = Clamp(p)], x, log + later)
-----------------------------------------------------------------------------
(* middleware: a request through RequestID, RateLimit and CORS.            *)
RequestID(id) == IF id = "valid" THEN id ELSE "fresh"
RateLimit(allowed, retryAfter) ==
    [status |-> IF allowed THEN 200 ELSE 429, retry |-> IF allowed THEN 0 ELSE Max({retryAfter, 0})]

\* The first of the allowed origins that is "*" or the request's; "" for none.
MatchOrigin(o, allowed) ==
    LET hits == {i \in DOMAIN allowed : allowed[i] \in {"*", o}}
    IN  IF hits = {} THEN "" ELSE allowed[Min(hits)]

Cors(c, o, method) ==
    LET m == MatchOrigin(o, c.origins)
        allow == IF c.creds /\ m = "*" /\ o # "" THEN o ELSE m
    IN  [allow |-> allow, vary |-> allow # "*", creds |-> c.creds,
         next |-> method # "OPTIONS"]

\* One request: nothing is kept from one to the next.
Request ==
    /\ Is("middleware") /\ ops = 0 /\ ops' = 1
    /\ \E o \in Origins, m \in {"GET", "OPTIONS"}, id \in {"", "bad", "valid"}, ok \in BOOLEAN, r \in -1 .. 1 :
          log' = [origin |-> o, cors |-> Cors(cell, o, m), method |-> m, id |-> RequestID(id), limit |-> RateLimit(ok, r)]
    /\ UNCHANGED <<cell, call>>

\* An answer to a named origin that does not tell caches that it varies suits
\* every origin: it allows all, without credentials, and nobody is refused.
CorsCacheable ==
    log.origin # "" /\ ~log.cors.vary =>
        /\ log.cors.allow = "*" /\ ~log.cors.creds
        /\ \A o \in Origins \ {""} : Cors(cell, o, log.method).allow # ""
-----------------------------------------------------------------------------
Both(x) == [f \in Sketch |-> x]

Init ==
    /\ kind \in Kinds /\ ops = 0 /\ call = [t \in Threads |-> Idle]
    /\ \/ Is("bloom") /\ cell = Both(NewBloom) /\ log = Both(<<>>)
       \/ Is("countmin") /\ cell = Both(NewCountMin) /\ log = Both(<<>>)
       \/ Is("hyperloglog") /\ cell = Both(NewHyperLogLog) /\ log = Both({})
       \/ Is("reservoir") /\ cell = <<>> /\ log = 0
       \/ /\ Is("objpool") /\ log = 0
          /\ cell = [free |-> {}, gets |-> 0, puts |-> 0, misses |-> 0, inUse |-> 0]
       \/ /\ Is("featureflag") /\ log = 1
          /\ \E at \in {0, 2} : cell = [enabled |-> FALSE, percentage |-> 100, allowlist |-> {}, notBefore |-> at]
       \/ /\ Is("middleware")
          /\ \E n \in 0 .. 2, b \in BOOLEAN : \E os \in [1 .. n -> (Origins \ {""}) \cup {"*"}] :
                cell = [origins |-> os, creds |-> b]
          /\ log = [origin |-> "", cors |-> Cors(cell, "", "GET"), method |-> "GET", id |-> "fresh",
                    limit |-> RateLimit(TRUE, 0)]

Next ==
    /\ Bloom \/ CountMin \/ HyperLogLog \/ Reservoir \/ ObjPool \/ FeatureFlag \/ Request
    /\ UNCHANGED kind

Spec == Init /\ [][Next]_vars
FairSpec == Spec /\ \A t \in Threads : WF_vars(BloomUnion(t) /\ UNCHANGED kind)
-----------------------------------------------------------------------------
TypeOK == kind \in Kinds /\ ops \in 0 .. MaxOps

\* What a sketch, a pool or a flag holds is what its calls put there: a filter
\* has no false negative, and exactly the bits of its items, also after merges
\* that overlap other calls; a count is never too low; registers do not depend on
\* order; a sample has no repetition; an object has one user; a wider rollout
\* takes nobody out; an answer that depends on the origin says so.
SketchesAgree ==
    /\ Is("bloom") => BloomExact
    /\ Is("countmin") => CountMinBounds
    /\ Is("hyperloglog") => Registers
    /\ Is("reservoir") => IsSample
    /\ Is("objpool") => PoolExclusive
    /\ Is("featureflag") => RolloutMonotone
    /\ Is("middleware") => CorsCacheable

\* "All methods are safe for concurrent use" (bloom/README.md:44): a Merge, whose
\* locks are held for the copying only, returns.
MergeReturns == \A t \in Threads : At(t, "merge") ~> At(t, "idle")
=============================================================================
