------------------------------ MODULE Windows -------------------------------
(***************************************************************************)
(* What is counted over a stream: topk, hotkey and freqcap per key,        *)
(* slidingwindow's two windows and latency's (sharded) histogram over      *)
(* values.  `obj' is the object's fields, `ref' the events themselves, of  *)
(* which the object keeps a digest; `out' says whether the last read       *)
(* returned what the events say.  Every method runs under the object's     *)
(* mutex, but hotkey and freqcap read the clock before they take it.       *)
(***************************************************************************)
EXTENDS Integers, Sequences, FiniteSets, FiniteSetsExt, SequencesExt

CONSTANTS
    Kinds,
    Keys,            \* of hotkey and freqcap
    Items,           \* topk's keys: numbers, in the order of the keys
    K,               \* topk's k
    MaxKeys,         \* of hotkey and freqcap
    MaxEvents,       \* freqcap's cap
    Window,          \* in ticks of the clock
    Lateness,        \* how old a clock reading may be when the mutex is had
    Samples,         \* values pushed and observed
    Boundaries,      \* latency's bucket boundaries
    Shards,          \* of a ShardHistogram
    Cap,             \* of the two sliding windows
    MaxLen,          \* touches followed per key; one sample more of a histogram
    MaxClock

VARIABLES kind, obj, ref, out, clock

vars == <<kind, obj, ref, out, clock>>

Is(k) == kind = k
Do(o, r) == obj' = o /\ ref' = r /\ out' = TRUE /\ UNCHANGED <<kind, clock>>
Read(o, got, want) == obj' = o /\ out' = (got = want) /\ UNCHANGED <<kind, clock, ref>>
Total(s) == MapThenSumSet(LAMBDA i : s[i], DOMAIN s)
Lowest(s) == Min({s[i] : i \in DOMAIN s})
Highest(s) == Max({s[i] : i \in DOMAIN s})
Without(f, S) == [x \in DOMAIN f \ S |-> f[x]]
With(f, k, v) == [x \in DOMAIN f \cup {k} |-> IF x = k THEN v ELSE f[x]]
-----------------------------------------------------------------------------
(* topk: `counts' holds the k keys of the heap, here a set, and the        *)
(* candidates.  Which of several minimal keys the heap has at its root     *)
(* depends on its layout: any.                                             *)
CandidateFactor == 4
CountOf(t, key) == IF key \in DOMAIN t.counts THEN t.counts[key] ELSE 0

\* Evicts whatever has the smallest count, the keys of the heap included.
EvictAnyKey(t) ==
    IF Cardinality(DOMAIN t.counts) <= CandidateFactor * K THEN t
    ELSE LET drop == Min({k \in DOMAIN t.counts : \A j \in DOMAIN t.counts : t.counts[k] <= t.counts[j]})
         IN  [counts |-> Without(t.counts, {drop}), heap |-> t.heap \ {drop}]

\* A touch adds one key at most, so the loop runs at most once.
EvictCandidates(t) ==
    IF Cardinality(DOMAIN t.counts) <= CandidateFactor * K THEN t
    ELSE LET outside == DOMAIN t.counts \ t.heap
             drop == Min({k \in outside : \A j \in outside : t.counts[k] <= t.counts[j]})
         IN  [t EXCEPT !.counts = Without(@, {drop})]

TouchN(t, key, n) ==
    LET c == CountOf(t, key) + n
        least == {k \in t.heap : \A j \in t.heap : t.counts[k] <= t.counts[j]}
        u == [t EXCEPT !.counts = With(@, key, c)]
    IN  IF key \in t.heap THEN {u}
        ELSE IF Cardinality(t.heap) < K THEN {[u EXCEPT !.heap = @ \cup {key}]}
        ELSE IF \E k \in least : c > t.counts[k]
             THEN {EvictCandidates([u EXCEPT !.heap = (@ \ {k}) \cup {key}]) : k \in least}
             ELSE {EvictCandidates(u)}

TopKReset == [counts |-> [k \in {} |-> 0], heap |-> {}]

\* `ref' has the touches of each key, and the keys that were ever dropped.
TopK ==
    /\ Is("topk")
    /\ \/ \E key \in Items, n \in 1 .. 2 : \E t \in TouchN(obj, key, n) :
            /\ ref.sum[key] + n <= MaxLen
            /\ Do(t, [sum |-> [ref.sum EXCEPT ![key] = @ + n],
                      lost |-> ref.lost \cup ((DOMAIN obj.counts \cup {key}) \ DOMAIN t.counts)])
       \/ Do(TopKReset, [sum |-> [k \in Items |-> 0], lost |-> {}])

TopKOK ==
    /\ Cardinality(obj.heap) <= K /\ Cardinality(DOMAIN obj.counts) <= CandidateFactor * K
    /\ obj.heap \subseteq DOMAIN obj.counts
    /\ \A h \in obj.heap : \A c \in DOMAIN obj.counts \ obj.heap : obj.counts[h] >= obj.counts[c]
    /\ \A k \in Items : CountOf(obj, k) <= ref.sum[k] /\ (k \notin ref.lost => CountOf(obj, k) = ref.sum[k])
-----------------------------------------------------------------------------
(* hotkey and freqcap: the timestamps of each key.                         *)
Readings == {clock - l : l \in Lateness} \cap Nat
InWindow(s, now) == SelectSeq(s, LAMBDA x : x >= now - Window)

\* The number of leading timestamps before the cutoff.
Expired(ts, now) == Max({i \in 0 .. Len(ts) : \A j \in 1 .. i : ts[j] < now - Window})

\* Drops a timestamp exactly one window old as well.
TrimTooMuch(ts, now) ==
    LET i == Max({j \in 0 .. Len(ts) : \A x \in 1 .. j : ts[x] <= now - Window}) IN SubSeq(ts, i + 1, Len(ts))

\* trimBefore's result; and what it makes of the array its argument lies in.
TrimBefore(ts, now) == SubSeq(ts, Expired(ts, now) + 1, Len(ts))
Scribbled(ts, now) ==
    LET i == Expired(ts, now)
    IN  [j \in 1 .. Len(ts) |-> IF j + i <= Len(ts) THEN ts[j + i] ELSE ts[j]]

\* The same two for freqcap's own trimBefore.
FreqTrim(ts, now) == SubSeq(ts, Expired(ts, now) + 1, Len(ts))
FreqScribbled(ts, now) == Scribbled(ts, now)

StampsOf(d, key) == IF key \in DOMAIN d THEN d[key] ELSE <<>>

\* evictIdleLocked: a key with nothing left goes; the map keeps the slice of any
\* other, over the array trimBefore has moved.  Then the key with the fewest
\* hits, and of those the one touched longest ago.
Idle(d, now) == {k \in DOMAIN d : TrimBefore(d[k], now) = <<>>}
Pruned(d, now) == [k \in DOMAIN d \ Idle(d, now) |-> Scribbled(d[k], now)]
Victims(d, now) ==
    LET hits(k) == Len(TrimBefore(d[k], now))
        last(k) == Last(TrimBefore(d[k], now))
    IN  {k \in DOMAIN d : \A j \in DOMAIN d :
            hits(k) < hits(j) \/ (hits(k) = hits(j) /\ last(k) <= last(j))}
EvictIdle(d, now) ==
    LET p == Pruned(d, now)
        q == [k \in DOMAIN p |-> Scribbled(p[k], now)]
    IN  IF Cardinality(DOMAIN p) <= MaxKeys THEN {p} ELSE {Without(q, {v}) : v \in Victims(p, now)}

\* Touch: with a limit on the hits kept per key, the oldest go.
Touch(d, key, now) ==
    LET ts == Append(TrimBefore(StampsOf(d.keys, key), now), now)
        kept == IF d.maxHits > 0 /\ Len(ts) > d.maxHits THEN SubSeq(ts, Len(ts) - d.maxHits + 1, Len(ts)) ELSE ts
    IN  {[d EXCEPT !.keys = e] : e \in EvictIdle(With(d.keys, key, kept), now)}

\* Count reclaims a key that has drained; Top all of them.
HotCount(d, key, now) ==
    LET ts == TrimBefore(StampsOf(d.keys, key), now)
    IN  [d EXCEPT !.keys = IF key \notin DOMAIN @ THEN @
                           ELSE IF ts = <<>> THEN Without(@, {key}) ELSE With(@, key, ts)]
HotTop(d, now) ==
    [d EXCEPT !.keys = [k \in DOMAIN @ \ Idle(@, now) |-> TrimBefore(@[k], now)]]

\* `ref': the hits of each tracked key that are in the window, or may be for a late reader.
Recent(r) == [k \in Keys |-> SelectSeq(r[k], LAMBDA x : x >= clock - Window)]

HotKey ==
    /\ Is("hotkey")
    /\ \/ \E key \in Keys, now \in Readings : \E d \in Touch(obj, key, now) :
            /\ Len(Recent(ref)[key]) < MaxLen
            /\ Do(d, [k \in Keys |-> IF k \notin DOMAIN d.keys THEN <<>>
                                     ELSE IF k = key THEN Append(Recent(ref)[k], now) ELSE Recent(ref)[k]])
       \/ \E key \in Keys : Do(HotCount(obj, key, clock), ref)
       \/ Do(HotTop(obj, clock), ref)
       \/ Do([obj EXCEPT !.keys = [k \in {} |-> <<>>]], [k \in Keys |-> <<>>])

\* freqcap's.
FreqEvictIdle(d, now) == [k \in {x \in DOMAIN d : FreqTrim(d[x], now) # <<>>} |-> FreqScribbled(d[k], now)]

\* Allow: at the cap the trimmed slice is kept and the event refused; a key that
\* is new, or has drained, needs room in the map.
Allow(d, key, now) ==
    LET old == StampsOf(d, key)
        ts == FreqTrim(old, now)
        moved == IF key \in DOMAIN d THEN With(d, key, FreqScribbled(old, now)) ELSE d
        e == IF ts = <<>> THEN FreqEvictIdle(moved, now) ELSE moved
    IN  IF Len(ts) >= MaxEvents THEN [keys |-> With(d, key, ts), ok |-> FALSE]
        ELSE IF ts = <<>> /\ Cardinality(DOMAIN e) >= MaxKeys THEN [keys |-> e, ok |-> FALSE]
        ELSE [keys |-> With(e, key, Append(ts, now)), ok |-> TRUE]

FreqCount(d, key, now) ==
    LET ts == FreqTrim(StampsOf(d, key), now)
    IN  IF key \notin DOMAIN d THEN d ELSE IF ts = <<>> THEN Without(d, {key}) ELSE With(d, key, ts)

FreqCap ==
    /\ Is("freqcap")
    /\ \/ \E key \in Keys, now \in Readings :
            LET a == Allow(obj, key, now)
            IN  Do(a.keys, IF a.ok THEN [Recent(ref) EXCEPT ![key] = Append(@, now)] ELSE Recent(ref))
       \/ \E key \in Keys : Do(FreqCount(obj, key, clock), ref)
       \/ \E key \in Keys : Do(Without(obj, {key}), [ref EXCEPT ![key] = <<>>])

Stamps == IF Is("hotkey") THEN obj.keys ELSE obj
CountsAtLeast(k) == Len(TrimBefore(StampsOf(Stamps, k), clock)) >= Len(InWindow(ref[k], clock))
HotKeyOK ==
    /\ Cardinality(DOMAIN obj.keys) <= MaxKeys
    /\ \A k \in Keys : IF obj.maxHits = 0 THEN CountsAtLeast(k) ELSE Len(StampsOf(obj.keys, k)) <= obj.maxHits
FreqCapOK ==
    /\ Cardinality(DOMAIN obj) <= MaxKeys
    /\ \A k \in Keys : CountsAtLeast(k) /\ Len(InWindow(ref[k], clock)) <= MaxEvents
-----------------------------------------------------------------------------
(* slidingwindow.Window: a ring with a running sum, and a minimum and a    *)
(* maximum that are good until one of them is overwritten.                 *)
SlidingPush(w, v) ==
    LET old == w.buf[w.head]
        x == IF w.size < Cap
             THEN [w EXCEPT !.buf[(w.head + w.size) % Cap] = v, !.size = @ + 1, !.sum = @ + v]
             ELSE [w EXCEPT !.buf[w.head] = v, !.head = (@ + 1) % Cap, !.sum = (@ - old) + v,
                            !.hasMinMax = @ /\ old # w.minVal /\ old # w.maxVal]
    IN  IF x.hasMinMax THEN [x EXCEPT !.minVal = Min({@, v}), !.maxVal = Max({@, v})] ELSE x

EnsureMinMax(w) ==
    LET all == {w.buf[(w.head + i) % Cap] : i \in 0 .. w.size - 1}
    IN  IF w.hasMinMax THEN w ELSE [w EXCEPT !.minVal = Min(all), !.maxVal = Max(all), !.hasMinMax = TRUE]

SlidingClear(w) == [w EXCEPT !.head = 0, !.size = 0, !.sum = 0, !.hasMinMax = FALSE]
LastCap(s) == IF Len(s) > Cap THEN Tail(s) ELSE s

Sliding ==
    /\ Is("sliding")
    /\ \/ \E v \in Samples : Do(SlidingPush(obj, v), LastCap(Append(ref, v)))
       \/ Do(SlidingClear(obj), <<>>)
       \/ /\ obj.size > 0
          /\ LET w == EnsureMinMax(obj) IN Read(w, <<w.minVal, w.maxVal>>, <<Lowest(ref), Highest(ref)>>)

SlidingOK == obj.size = Len(ref) /\ obj.sum = Total(ref)

(* slidingwindow.TimeWindow: what a push finds one ttl old leaves first.   *)
TimePush(w, v, now) ==
    LET gone == Max({i \in 0 .. w.size : \A j \in 0 .. i - 1 : w.vals[(w.head + j) % Cap].ts <= now - Window})
        dropped == MapThenSumSet(LAMBDA j : w.vals[(w.head + j) % Cap].val, 0 .. gone - 1)
        x == [w EXCEPT !.head = (@ + gone) % Cap, !.size = @ - gone, !.sum = @ - dropped]
        e == [val |-> v, ts |-> now]
    IN  IF x.size < Cap THEN [x EXCEPT !.vals[(x.head + x.size) % Cap] = e, !.size = @ + 1, !.sum = @ + v]
        ELSE [x EXCEPT !.vals[x.head] = e, !.head = (@ + 1) % Cap, !.sum = (@ - x.vals[x.head].val) + v]

TimeWindow ==
    /\ Is("timewindow")
    /\ \E v \in Samples :
         Do(TimePush(obj, v, clock),
            LastCap(Append(SelectSeq(ref, LAMBDA e : e.ts > clock - Window), [val |-> v, ts |-> clock])))

TimeWindowOK == obj.size = Len(ref) /\ obj.sum = Total([i \in DOMAIN ref |-> ref[i].val])
-----------------------------------------------------------------------------
(* latency: per shard a ring of one slot per second.                       *)
NumBuckets == Len(Boundaries)
BucketIndex(v) == Min({i \in 1 .. NumBuckets : Boundaries[i] >= v} \cup {NumBuckets})
LowerBound(i) == IF i <= 1 THEN 0 ELSE Boundaries[i - 1]
ZeroBucket == [counts |-> [i \in 1 .. NumBuckets |-> 0], total |-> 0, min |-> 0, max |-> 0, sum |-> 0]

\* A ring that clears the slots up to the new second, but not that one.
AdvanceShort(h, sec) ==
    IF sec <= h.base THEN h
    ELSE [base |-> sec, buckets |-> [i \in 0 .. Window - 1 |->
            IF \E s \in h.base + 1 .. sec - 1 : s % Window = i THEN ZeroBucket ELSE h.buckets[i]]]

\* advance: the seconds passed since the newest are cleared, all of them after a
\* full window; nothing is when the clock went back.
Advance(h, sec) ==
    IF sec <= h.base THEN h
    ELSE [base |-> sec, buckets |-> [i \in 0 .. Window - 1 |->
            IF sec - h.base >= Window \/ \E s \in h.base + 1 .. sec : s % Window = i
            THEN ZeroBucket ELSE h.buckets[i]]]

Observe(h, d, sec) ==
    LET a == Advance(h, sec)
        at == Max({sec, a.base}) % Window
        b == a.buckets[at]
    IN  [a EXCEPT !.buckets[at] =
            [counts |-> [b.counts EXCEPT ![BucketIndex(d)] = @ + 1],
             total |-> b.total + 1,
             min |-> IF b.total = 0 THEN d ELSE Min({d, b.min}),
             max |-> IF b.total = 0 THEN d ELSE Max({d, b.max}),
             sum |-> b.sum + d]]

\* foldLocked: over the slots of one shard.
FoldLocked(h) ==
    LET live == {i \in 0 .. Window - 1 : h.buckets[i].total > 0}
    IN  [total |-> MapThenSumSet(LAMBDA i : h.buckets[i].total, live),
         sum |-> MapThenSumSet(LAMBDA i : h.buckets[i].sum, live),
         min |-> IF live = {} THEN 0 ELSE Min({h.buckets[i].min : i \in live}),
         max |-> IF live = {} THEN 0 ELSE Max({h.buckets[i].max : i \in live}),
         counts |-> [b \in 1 .. NumBuckets |-> MapThenSumSet(LAMBDA i : h.buckets[i].counts[b], live)]]

\* foldAll: over the shards, each advanced to the second read at the start.
FoldAll(shards) ==
    LET f == [s \in DOMAIN shards |-> FoldLocked(shards[s])]
        live == {s \in DOMAIN shards : f[s].total > 0}
    IN  [total |-> MapThenSumSet(LAMBDA s : f[s].total, live),
         sum |-> MapThenSumSet(LAMBDA s : f[s].sum, live),
         min |-> IF live = {} THEN 0 ELSE Min({f[s].min : s \in live}),
         max |-> IF live = {} THEN 0 ELSE Max({f[s].max : s \in live}),
         counts |-> [b \in 1 .. NumBuckets |-> MapThenSumSet(LAMBDA s : f[s].counts[b], live)]]

\* quantileFromMerged, of the q-th percentile: the middle of the target-th
\* sample's share of its bucket.
Target(q, total) == Max({1, (q * total + 99) \div 100})
QuantileFromMerged(counts, total, q) ==
    LET upTo(i) == MapThenSumSet(LAMBDA j : counts[j], 1 .. i)
        i == Min({j \in 1 .. NumBuckets : counts[j] > 0 /\ upTo(j) >= Target(q, total)})
        inBucket == Target(q, total) - upTo(i - 1)
    IN  IF total = 0 THEN 0
        ELSE LowerBound(i) + ((Boundaries[i] - LowerBound(i)) * (2 * inBucket - 1)) \div (2 * counts[i])

Snapshot(shards) ==
    LET f == FoldAll(shards)
    IN  [count |-> f.total, min |-> f.min, max |-> f.max,
         mean |-> IF f.sum > 0 THEN f.sum \div f.total ELSE 0,
         quantiles |-> [q \in {50, 100} |-> BucketIndex(QuantileFromMerged(f.counts, f.total, q))]]

\* What the samples themselves say, of the last `Window' seconds.  A quantile is
\* an interpolation: it lies in the bucket of the sample it stands for.
Ranked(r) == SortSeq(r, LAMBDA x, y : x.val < y.val)
Reference(r, sec) ==
    LET s == SelectSeq(Ranked(r), LAMBDA x : x.sec > sec - Window)
        vals == [i \in DOMAIN s |-> s[i].val]
    IN  [count |-> Len(s),
         min |-> IF s = <<>> THEN 0 ELSE Lowest(vals), max |-> IF s = <<>> THEN 0 ELSE Highest(vals),
         mean |-> IF s = <<>> THEN 0 ELSE Total(vals) \div Len(s),
         quantiles |-> [q \in {50, 100} |-> IF s = <<>> THEN BucketIndex(0)
                                           ELSE BucketIndex(vals[Target(q, Len(s))])]]

Newest == Max({obj.shards[s].base : s \in DOMAIN obj.shards} \cup {clock})

\* The next shard takes the sample; a clock that went back leaves it with the
\* newest second its shard has seen.
Histogram ==
    /\ Is("latency")
    /\ \/ \E d \in Samples :
            LET s == (obj.rr + 1) % Shards
                h == Observe(obj.shards[s], d, clock)
            IN  /\ Len(ref) <= MaxLen
                /\ Do([rr |-> obj.rr + 1, shards |-> [obj.shards EXCEPT ![s] = h]],
                      Append(ref, [val |-> d, sec |-> h.base]))
       \/ /\ clock >= Newest
          /\ LET shards == [s \in DOMAIN obj.shards |-> Advance(obj.shards[s], clock)]
             IN  Read([obj EXCEPT !.shards = shards], Snapshot(shards), Reference(ref, clock))

\* The wall clock goes back by a second.
StepBack ==
    /\ Is("latency") /\ clock > 0 /\ ref # <<>>
    /\ clock' = clock - 1 /\ out' = TRUE /\ UNCHANGED <<kind, obj, ref>>
-----------------------------------------------------------------------------
New(k) ==
    CASE k = "topk" -> {TopKReset}
      [] k = "hotkey" -> {[keys |-> [x \in {} |-> <<>>], maxHits |-> n] : n \in {0, 1}}
      [] k = "freqcap" -> {[x \in {} |-> <<>>]}
      [] k = "sliding" -> {[buf |-> [i \in 0 .. Cap - 1 |-> 0], head |-> 0, size |-> 0, sum |-> 0,
                            hasMinMax |-> FALSE, minVal |-> 0, maxVal |-> 0]}
      [] k = "timewindow" -> {[vals |-> [i \in 0 .. Cap - 1 |-> [val |-> 0, ts |-> 0]],
                               head |-> 0, size |-> 0, sum |-> 0]}
      [] k = "latency" -> {[rr |-> 0, shards |-> [s \in 0 .. Shards - 1 |->
                              [base |-> 0, buckets |-> [i \in 0 .. Window - 1 |-> ZeroBucket]]]]}

Empty(k) ==
    CASE k = "topk" -> [sum |-> [x \in Items |-> 0], lost |-> {}]
      [] k \in {"hotkey", "freqcap"} -> [x \in Keys |-> <<>>]
      [] OTHER -> <<>>

Init ==
    /\ kind \in Kinds /\ obj \in New(kind) /\ ref = Empty(kind)
    /\ out = TRUE /\ clock = 0

Tick == clock < MaxClock /\ clock' = clock + 1 /\ UNCHANGED <<kind, obj, ref, out>>
Next == TopK \/ HotKey \/ FreqCap \/ Sliding \/ TimeWindow \/ Histogram \/ StepBack \/ Tick

Spec == Init /\ [][Next]_vars
-----------------------------------------------------------------------------
\* Whatever was pushed, evicted, expired and re-read in whatever order, and
\* however late the readings of the clock: topk's heap holds the largest counts
\* it knows and a count is exact unless its key was dropped; hotkey and freqcap
\* never count fewer events than are in the window, and freqcap never admits more
\* than its cap; running sums, cached extrema and the histogram's per-second
\* slots say what the events in the window say.
WindowsAgree ==
    /\ out
    /\ Is("topk") => TopKOK
    /\ Is("hotkey") => HotKeyOK
    /\ Is("freqcap") => FreqCapOK
    /\ Is("sliding") => SlidingOK
    /\ Is("timewindow") => TimeWindowOK

\* "In-memory and exact (a timestamp per allowed event)" (freqcap.go:8), and "That
\* keeps Count exact" of hotkey without a limit on hits (hotkey.go:77): the
\* number of timestamps found in the window is the number of events in it.
CountIsExact ==
    Is("freqcap") \/ (Is("hotkey") /\ obj.maxHits = 0) =>
        \A k \in Keys : Len(TrimBefore(StampsOf(Stamps, k), clock)) = Len(InWindow(ref[k], clock))
=============================================================================
