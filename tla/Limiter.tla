------------------------------- MODULE Limiter ------------------------------
(***************************************************************************)
(* The rate limiters: the five in-process algorithms of package limiter,   *)
(* at the granularity of their atomic loads and compare-and-swaps, and the *)
(* Redis GCRA of package rate, whose script is one step on the server.     *)
(*                                                                         *)
(* Tokens are measured in time: a token is worth Emission ticks, so a      *)
(* bucket's level, its refill and a TAT are all integers.                  *)
(***************************************************************************)
EXTENDS Integers, Sequences, FiniteSetsExt

CONSTANTS
    Threads,       \* the calling goroutines
    Algorithms,    \* the limiters a behaviour may be about
    Burst, Emission,
    Rate, Window,  \* of the two windows: requests, seconds
    Quantum,       \* what Lua's tostring keeps of a TAT: 14 digits, 100 us today
    Sizes,         \* the n of TryAcquire and AllowN
    MaxClock, MaxCalls

VARIABLES
    algo,          \* the limiter of this behaviour
    clock,         \* the wall clock, which may step back
    lim,           \* the limiter's atomics; or the key in Redis
    call,          \* what each goroutine is doing
    grants,        \* the calls let through, in the order in which they were charged
    calls,         \* how many calls have been made
    overlap        \* whether two calls have ever been under way together

vars == <<algo, clock, lim, call, grants, calls, overlap>>

Cap == Burst * Emission
Cost(n) == n * Emission
Bigger(x, y) == IF x < y THEN y ELSE x
Smaller(x, y) == IF x < y THEN x ELSE y

Empty == [i \in 0 .. Window - 1 |-> 0]
NoCall == [pc |-> "idle", n |-> 0, wait |-> FALSE, now |-> 0, last |-> 0, cur |-> 0, try |-> 0]

\* tokens, water, count or tat in `level'; lastTime, windowStart, base or the
\* key's expiry in `last'.  A bucket of tokens starts full.
Fresh(level) == [level |-> level, last |-> 0, counts |-> Empty, sum |-> 0, closed |-> FALSE]

NewTokenBucket == Fresh(Cap)
NewLeakyBucket == Fresh(0)
NewFixedWindow == Fresh(0)
NewGCRA == Fresh(0)
NewSlidingWindow == Fresh(0)
NewRedis == Fresh(0)

NewLimiter(a) ==
    CASE a = "token" -> NewTokenBucket   [] a = "leaky" -> NewLeakyBucket
      [] a = "fixed" -> NewFixedWindow   [] a = "gcra" -> NewGCRA
      [] a = "sliding" -> NewSlidingWindow [] a = "redis" -> NewRedis

Init ==
    /\ algo \in Algorithms
    /\ clock = 0
    /\ lim = NewLimiter(algo)
    /\ call = [t \in Threads |-> NoCall]
    /\ grants = <<>> /\ calls = 0 /\ overlap = FALSE
-----------------------------------------------------------------------------
\* The shape of a call.
Goto(t, pc) == call' = [call EXCEPT ![t].pc = pc]
Return(t) == call' = [call EXCEPT ![t] = NoCall]
AtPc(t, pc) == call[t].pc = pc

\* A denied Allow returns false; inside Wait it is polled again.
Deny(t) == IF call[t].wait THEN Goto(t, "poll") ELSE Return(t)

Charge(arr, n) == grants' = Append(grants, [arr |-> arr, at |-> clock, n |-> n, win |-> lim'.last])

\* Allow, TryAcquire(n), Wait; AllowN.
Start(t, n, w) ==
    /\ AtPc(t, "idle") /\ calls < MaxCalls
    /\ w => n = 1 /\ algo # "redis"
    /\ calls' = calls + 1
    /\ overlap' = (overlap \/ \E u \in Threads : ~AtPc(u, "idle"))
    /\ call' = [call EXCEPT ![t] = IF w /\ lim.closed THEN NoCall
                                   ELSE [NoCall EXCEPT !.pc = "enter", !.n = n, !.wait = w]]
    /\ UNCHANGED <<algo, clock, lim, grants>>

\* The closed check of Allow and TryAcquire.
Enter(t) ==
    /\ AtPc(t, "enter")
    /\ IF lim.closed THEN Deny(t) ELSE Goto(t, "now")
    /\ UNCHANGED <<algo, clock, lim, grants, calls, overlap>>

ReadClock(t) ==
    /\ AtPc(t, "now") /\ algo # "sliding"
    /\ call' = [call EXCEPT ![t].now = clock,
                            ![t].pc = IF algo \in {"gcra", "redis"} THEN "load" ELSE "last"]
    /\ UNCHANGED <<algo, clock, lim, grants, calls, overlap>>

\* The loop of Wait: closed, ctx done, or a timer and another Allow.
Poll(t) ==
    /\ AtPc(t, "poll")
    /\ \/ Return(t)                              \* ctx done, or closed
       \/ ~lim.closed /\ Goto(t, "enter")
    /\ UNCHANGED <<algo, clock, lim, grants, calls, overlap>>

Close ==
    /\ ~lim.closed /\ algo # "redis"
    /\ lim' = [lim EXCEPT !.closed = TRUE]
    /\ UNCHANGED <<algo, clock, call, grants, calls, overlap>>

\* The compare-and-swap lost: one more attempt, then deny.
Lost(t, pc) ==
    IF call[t].try = 0 THEN call' = [call EXCEPT ![t].pc = pc, ![t].try = 1] ELSE Deny(t)
-----------------------------------------------------------------------------
(* tokenBucket and leakyBucket: tokens refill up to the cap, water drains  *)
(* down to zero; both charge the level, then move lastTime.                *)
TokenLevel(cur, dt) == Smaller(cur + Bigger(dt, 0), Cap)
TokenFits(level, n) == level >= Cost(n)
TokenNext(level, n) == level - Cost(n)

LeakyLevel(cur, dt) == Bigger(cur - Bigger(dt, 0), 0)
LeakyFits(level, n) == level + Cost(n) <= Cap
LeakyNext(level, n) == level + Cost(n)

Since(t) == call[t].now - call[t].last

\* A clock behind lastTime is lastTime, on the first attempt.
LoadLast(t) ==
    /\ AtPc(t, "last")
    /\ call' = [call EXCEPT ![t].last = lim.last, ![t].pc = "load",
                            ![t].now = IF call[t].try = 0 THEN Bigger(@, lim.last) ELSE @]
    /\ UNCHANGED <<algo, clock, lim, grants, calls, overlap>>

\* Load the level and decide; then swap in what the charge makes of it, if it
\* is still the level that was loaded.
LoadLevel(t, fits) ==
    /\ AtPc(t, "load")
    /\ IF fits THEN call' = [call EXCEPT ![t].cur = lim.level, ![t].pc = "cas"] ELSE Deny(t)
    /\ UNCHANGED <<algo, clock, lim, grants, calls, overlap>>

SwapLevel(t, next) ==
    /\ AtPc(t, "cas")
    /\ IF lim.level = call[t].cur
       THEN /\ lim' = [lim EXCEPT !.level = next]
            /\ Charge(call[t].now, call[t].n)
            /\ Goto(t, "stamp")
       ELSE Lost(t, "last") /\ UNCHANGED <<lim, grants>>
    /\ UNCHANGED <<algo, clock, calls, overlap>>

\* lastTime.CompareAndSwap(last, now), whose result nobody looks at.
Stamp(t) ==
    /\ AtPc(t, "stamp")
    /\ lim' = [lim EXCEPT !.last = IF @ = call[t].last THEN call[t].now ELSE @]
    /\ Return(t)
    /\ UNCHANGED <<algo, clock, grants, calls, overlap>>

\* Allow and TryAcquire, acquire, and Wait of each limiter.
TokenEnter(t) == algo = "token" /\ Enter(t)
TokenWait(t) == algo = "token" /\ Poll(t)

TokenAcquire(t) ==
    /\ algo = "token"
    /\ \/ LoadLast(t) \/ Stamp(t)
       \/ LoadLevel(t, TokenFits(TokenLevel(lim.level, Since(t)), call[t].n))
       \/ SwapLevel(t, TokenNext(TokenLevel(lim.level, Since(t)), call[t].n))

LeakyEnter(t) == algo = "leaky" /\ Enter(t)
LeakyWait(t) == algo = "leaky" /\ Poll(t)

LeakyAcquire(t) ==
    /\ algo = "leaky"
    /\ \/ LoadLast(t) \/ Stamp(t)
       \/ LoadLevel(t, LeakyFits(LeakyLevel(lim.level, Since(t)), call[t].n))
       \/ SwapLevel(t, LeakyNext(LeakyLevel(lim.level, Since(t)), call[t].n))
-----------------------------------------------------------------------------
(* fixedWindow: whoever moves windowStart resets the count, one step later. *)
LoadStart(t) ==
    /\ AtPc(t, "last")
    /\ call' = [call EXCEPT ![t].last = lim.last,
                            ![t].pc = IF call[t].now >= lim.last + Window THEN "advance" ELSE "load"]
    /\ UNCHANGED <<algo, clock, lim, grants, calls, overlap>>

SwapStart(t) ==
    /\ AtPc(t, "advance")
    /\ IF lim.last = call[t].last
       THEN lim' = [lim EXCEPT !.last = call[t].now] /\ Goto(t, "reset")
       ELSE Lost(t, "last") /\ UNCHANGED lim
    /\ UNCHANGED <<algo, clock, grants, calls, overlap>>

ResetCount(t) ==
    /\ AtPc(t, "reset")
    /\ lim' = [lim EXCEPT !.level = 0]
    /\ Goto(t, "load")
    /\ UNCHANGED <<algo, clock, grants, calls, overlap>>

CountFits(count, n) == count + n <= Rate

SwapCount(t) ==
    /\ AtPc(t, "cas")
    /\ IF lim.level = call[t].cur
       THEN /\ lim' = [lim EXCEPT !.level = @ + call[t].n]
            /\ Charge(call[t].now, call[t].n)
            /\ Return(t)
       ELSE Lost(t, "last") /\ UNCHANGED <<lim, grants>>
    /\ UNCHANGED <<algo, clock, calls, overlap>>

FixedEnter(t) == algo = "fixed" /\ Enter(t)
FixedWait(t) == algo = "fixed" /\ Poll(t)

FixedAcquire(t) ==
    /\ algo = "fixed"
    /\ \/ LoadStart(t) \/ SwapStart(t) \/ ResetCount(t) \/ SwapCount(t)
       \/ LoadLevel(t, CountFits(lim.level, call[t].n))
-----------------------------------------------------------------------------
(* gcraLimiter: one atomic, the theoretical arrival time.                  *)
GcraFits(tat, now, n) == Bigger(tat, now) + Cost(n) - now <= Cap

LoadTat(t) ==
    /\ AtPc(t, "load")
    /\ IF GcraFits(lim.level, call[t].now, call[t].n)
       THEN call' = [call EXCEPT ![t].cur = lim.level, ![t].pc = "cas"]
       ELSE Deny(t)
    /\ UNCHANGED <<algo, clock, lim, grants, calls, overlap>>

\* A store where the code compares and swaps.
StoreTat(t) ==
    /\ AtPc(t, "cas")
    /\ lim' = [lim EXCEPT !.level = Bigger(call[t].cur, call[t].now) + Cost(call[t].n)]
    /\ Charge(call[t].now, call[t].n)
    /\ Return(t)
    /\ UNCHANGED <<algo, clock, calls, overlap>>

SwapTat(t) ==
    /\ AtPc(t, "cas")
    /\ IF lim.level = call[t].cur
       THEN /\ lim' = [lim EXCEPT !.level = Bigger(@, call[t].now) + Cost(call[t].n)]
            /\ Charge(call[t].now, call[t].n)
            /\ Return(t)
       ELSE Lost(t, "now") /\ UNCHANGED <<lim, grants>>
    /\ UNCHANGED <<algo, clock, calls, overlap>>

GcraEnter(t) == algo = "gcra" /\ Enter(t)
GcraWait(t) == algo = "gcra" /\ Poll(t)
GcraAcquire(t) == algo = "gcra" /\ (LoadTat(t) \/ SwapTat(t))
-----------------------------------------------------------------------------
(* slidingWindow: a ring of one count per second, under a mutex that also  *)
(* covers the reading of the clock.                                        *)
Expired(sec) ==
    IF sec - lim.last >= Window THEN 0 .. Window - 1
    ELSE {s % Window : s \in lim.last + 1 .. sec}

Advance(sec) ==
    [lim EXCEPT !.counts = [i \in 0 .. Window - 1 |-> IF i \in Expired(sec) THEN 0 ELSE @[i]],
                !.sum = @ - MapThenSumSet(LAMBDA i : lim.counts[i], Expired(sec)),
                !.last = Bigger(@, sec)]

SlidingEnter(t) == algo = "sliding" /\ Enter(t)
SlidingWait(t) == algo = "sliding" /\ Poll(t)

SlidingAcquire(t) ==
    /\ algo = "sliding" /\ AtPc(t, "now")
    /\ LET a == Advance(clock)
           sec == Bigger(clock, a.last)
           n == call[t].n
       IN  IF a.sum + n <= Rate
           THEN /\ lim' = [a EXCEPT !.counts[sec % Window] = @ + n, !.sum = @ + n]
                /\ Charge(sec, n)
                /\ Return(t)
           ELSE lim' = a /\ Deny(t) /\ UNCHANGED grants
    /\ UNCHANGED <<algo, clock, calls, overlap>>
-----------------------------------------------------------------------------
(* rate.Limiter: the script runs on the server when the request arrives,   *)
(* with the client's reading of its clock.                                 *)
Stored(tat) == ((tat + Quantum \div 2) \div Quantum) * Quantum
TTL == Emission * (Burst + 1)
CeilDiv(x, y) == (x + y - 1) \div y

\* {allowed, remaining, retry_after}, and the TAT after the decision.
Script(raw, now, cost) ==
    LET tat == Bigger(raw, now)
        allowed == cost <= Burst /\ tat - now <= Emission * (Burst - cost)
        new == IF allowed THEN tat + Cost(cost) ELSE tat
    IN  [allowed |-> allowed, tat |-> new,
         remaining |-> Smaller(Bigger(Burst - CeilDiv(new - now, Emission), 0), Burst),
         retry |-> IF allowed THEN 0 ELSE Bigger(new - now - Emission * (Burst - cost), 0)]

Live == clock < lim.last
Raw(now) == IF Live THEN lim.level ELSE now

RedisEnter(t) == algo = "redis" /\ Enter(t)

AllowN(t) ==
    /\ algo = "redis" /\ AtPc(t, "load")
    /\ LET r == Script(Raw(call[t].now), call[t].now, call[t].n)
       IN  IF r.allowed
           THEN /\ lim' = [lim EXCEPT !.level = Stored(r.tat), !.last = clock + TTL]
                /\ Charge(call[t].now, call[t].n)
           ELSE UNCHANGED <<lim, grants>>
    /\ Return(t)
    /\ UNCHANGED <<algo, clock, calls, overlap>>
-----------------------------------------------------------------------------
\* Time passes; or NTP sets the clock back (Redis counts its TTLs itself).
Tick ==
    /\ \/ clock < MaxClock /\ clock' = clock + 1
       \/ clock = MaxClock /\ algo # "redis" /\ clock' = clock - 1
    /\ UNCHANGED <<algo, lim, call, grants, calls, overlap>>

Step(t) ==
    \/ ReadClock(t)
    \/ TokenEnter(t) \/ TokenAcquire(t) \/ TokenWait(t)
    \/ LeakyEnter(t) \/ LeakyAcquire(t) \/ LeakyWait(t)
    \/ FixedEnter(t) \/ FixedAcquire(t) \/ FixedWait(t)
    \/ GcraEnter(t) \/ GcraAcquire(t) \/ GcraWait(t)
    \/ SlidingEnter(t) \/ SlidingAcquire(t) \/ SlidingWait(t)
    \/ RedisEnter(t) \/ AllowN(t)

Next ==
    \/ \E t \in Threads, n \in Sizes, w \in BOOLEAN : Start(t, n, w)
    \/ \E t \in Threads : Step(t)
    \/ Close \/ Tick

Fairness == \A t \in Threads : WF_vars(Step(t))
Spec == Init /\ [][Next]_vars
FairSpec == Spec /\ Fairness
-----------------------------------------------------------------------------
TypeOK ==
    /\ algo \in {"token", "leaky", "fixed", "gcra", "sliding", "redis"}
    /\ clock \in 0 .. MaxClock /\ calls \in 0 .. MaxCalls /\ overlap \in BOOLEAN
    /\ lim.level \in 0 .. MaxClock + 2 * Cap + Rate /\ lim.last \in 0 .. MaxClock + TTL
    /\ lim.closed \in BOOLEAN
    /\ lim.sum = MapThenSumSet(LAMBDA i : lim.counts[i], 0 .. Window - 1)
    /\ algo \in {"token", "leaky"} => lim.level <= Cap
    /\ \A t \in Threads : call[t].try \in 0 .. 1 /\ call[t].n \in Sizes \cup {0}

\* Tokens granted by the i-th to the j-th charge.
Granted(i, j) == MapThenSumSet(LAMBDA k : grants[k].n, i .. j)
Span(i, j) ==
    Max({grants[k].at : k \in i .. j} \cup {grants[k].arr : k \in i .. j})
        - Min({grants[k].arr : k \in i .. j})
Runs == {r \in (1 .. Len(grants)) \X (1 .. Len(grants)) : r[1] <= r[2]}

BucketBound(slack) ==
    \A r \in Runs :
        Cost(Granted(r[1], r[2])) <= Cap + Span(r[1], r[2]) + slack * (r[2] - r[1] + 1)

\* No bucket lets more through than its burst and what its rate earns between
\* the first call's arrival and the last one's charge, whatever the clock does;
\* the Redis bucket up to the rounding of the TATs it stores.  For the two
\* buckets that charge the level and move lastTime in separate steps, and for
\* the fixed window, whose reset is a step of its own, this holds while calls
\* do not overlap.  A sliding window never holds more than Rate, even when the
\* clock steps back; a fixed one lets Rate through for each windowStart.
RateBound ==
    CASE algo \in {"token", "leaky"} -> overlap \/ BucketBound(0)
      [] algo = "gcra" -> BucketBound(0)
      [] algo = "redis" -> BucketBound(Quantum \div 2)
      [] algo = "sliding" ->
           \A r \in Runs : grants[r[2]].arr - grants[r[1]].arr < Window
                             => Granted(r[1], r[2]) <= Rate
      [] algo = "fixed" ->
           overlap \/ \A r \in Runs : grants[r[1]].win = grants[r[2]].win
                                        => Granted(r[1], r[2]) <= Rate

\* A denied client that waits exactly RetryAfter is let through, and one that
\* retries any earlier is not, if nobody else comes in between.
RetryAfterExact ==
    algo = "redis" /\ Live =>
        \A now \in 0 .. clock, n \in Sizes :
            LET r == Script(lim.level, now, n)
            IN  ~r.allowed /\ n <= Burst =>
                    /\ Script(lim.level, now + r.retry, n).allowed
                    /\ \A d \in 0 .. r.retry - 1 : ~Script(lim.level, now + d, n).allowed

\* A Close unblocks every Wait.
Unblocked == \A t \in Threads : AtPc(t, "idle")
Closing == lim.closed
CloseUnblocks == Closing ~> Unblocked
=============================================================================
