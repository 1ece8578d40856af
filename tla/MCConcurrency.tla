---------------------------- MODULE MCConcurrency ----------------------------
(***************************************************************************)
(* The components that goroutines share in process: WorkerPool, Pipeline,  *)
(* Adaptive, Batcher, Semaphore, Fanout, WTimer, Debounce, Limiter,        *)
(* TcpClient, UdpClient, Calls, Flows and KafkaConsumer.  They share no    *)
(* state, so every interleaving of two of them projects to one of each     *)
(* alone: a behaviour here exercises the one that `part' names.  The       *)
(* variables of that one are v1, v2, ... in the order in which its module  *)
(* declares them, and the variables it has no use for stay 0.              *)
(*                                                                         *)
(* The lemmas that follow an instance show that its inductive invariant    *)
(* holds initially and that its steps keep it.  The invariants of Fanout,  *)
(* WTimer, Debounce, TcpClient and UdpClient are proved in modules of      *)
(* their own.  The theorems about the whole are below the properties.      *)
(***************************************************************************)
EXTENDS Integers, Sequences, FiniteSets, FiniteSetTheorems, TLAPS

CONSTANTS
    Parts,       \* the components a behaviour may exercise
    Some,        \* interchangeable: jobs, items, users, connections
    Two,         \* interchangeable: closers, subscriptions, callers
    Workers, Producers, Flushers, Publishers, Cancellers, Timers,
    NoConn,
    QueueSize,   \* of the pools and of the pipeline's input
    OutSize,     \* of the pool's results and of the pipeline's output
    PoolSlots, MinPool, MaxPool,      \* workers of the adaptive pool
    MaxAdds,     \* calls of Batcher.Add
    Permits,     \* of the semaphore
    MayClose,    \* whether the semaphore is ever closed
    FanSubs, FanBuffer,               \* subscriptions, and their channels' size
    MaxTime,     \* of the timers' clock, the longest delay
    MaxTimers,   \* timers the debouncer starts
    MaxClock,    \* of the limiters' clock
    MaxCalls,    \* calls of a limiter
    Algorithms,  \* of the limiter
    TcpPool, TcpRetries, TcpCalls,    \* PoolSize, RetryMax and the calls made
    RetryBudgets, DefaultRetries,     \* attempts configured, and by default
    FlowKinds,   \* of Flows
    Messages,    \* of the consumed partition
    ChanCapacity, Sessions, StreamErrors  \* of the consumer's channel; bounds

VARIABLES part, v1, v2, v3, v4, v5, v6, v7, v8, v9, v10, v11, v12, v13

\* Sizes and counts are numbers; the pool starts with workers it has slots for;
\* no connection and no timer is the one that stands for none.
ASSUME CallsAssumption == RetryBudgets \subseteq Nat /\ DefaultRetries \in Nat
ASSUME AdaptiveAssumption == MinPool \in Nat /\ 1 .. MinPool \subseteq PoolSlots
ASSUME TimesAssumption == MaxTimers \in Nat /\ MaxTime \in Nat /\ "no timer" \notin Timers
ASSUME FanoutAssumption == FanBuffer \in Nat
ASSUME TcpAssumption ==
    /\ TcpPool \in Nat /\ TcpRetries \in Nat /\ TcpCalls \in Nat
    /\ NoConn \notin Some
-----------------------------------------------------------------------------
R == INSTANCE Calls WITH Configured <- RetryBudgets, Default <- DefaultRetries, call <- v1

\* The invariant implies what the run checks.
LEMMA CallInvImplies == R!IInv => R!EffectsBounded /\ R!Released
  <1> SUFFICES ASSUME R!IInv PROVE R!EffectsBounded /\ R!Released
    OBVIOUS
  <1>1. /\ v1.effects \in Nat /\ v1.attempt \in Nat /\ v1.budget \in Nat /\ v1.cut \in Nat
        /\ v1.bodies \in Nat
    BY DEF R!IInv, R!Record
  <1>2. R!EffectsBounded
    BY <1>1 DEF R!IInv, R!Attempts, R!EffectsBounded
  <1>3. (v1.bodies = 0 \/ v1.bodies = 1) /\ (v1.pc = "end" => v1.bodies = 0)
    BY Zenon DEF R!IInv, R!Holds
  <1>4. /\ v1.client = "stream" => v1.cancels = IF v1.pc = "end" THEN 1 ELSE 0
        /\ v1.pc = "end" /\ v1.err = "none" => v1.last \in R!Responses \cup {"ok", "eof"}
    BY DEF R!IInv, R!Holds
  <1>5. v1.bodies \in 0 .. 1
    BY <1>3
  <1> QED BY <1>2, <1>3, <1>4, <1>5, Zenon DEF R!Released

\* It holds of a call that has not begun.
LEMMA CallInit == R!Init => R!IInv
  <1> SUFFICES ASSUME R!Init PROVE R!IInv
    OBVIOUS
  <1>1. PICK k \in {"http", "unary", "stream", "retry"}, m \in {"GET", "POST"}, n \in RetryBudgets :
          /\ k # "http" => m = "GET"
          /\ v1 = [client |-> k, method |-> m, budget |-> R!Budget(k, n), pc |-> "begin",
                   attempt |-> 0, last |-> "none", err |-> "none", done |-> FALSE, effects |-> 0,
                   cut |-> 0, bodies |-> 0, cancels |-> 0]
    BY DEF R!Init
  <1>2. R!Budget(k, n) \in Nat /\ (k # "retry" => R!Budget(k, n) # 0)
    BY CallsAssumption DEF R!Budget, R!RetryMax
  <1>3. v1 \in R!Record
    BY <1>1, <1>2 DEF R!Record, R!Outcomes
  <1>4. /\ v1.client = k /\ v1.method = m /\ v1.budget = R!Budget(k, n) /\ v1.pc = "begin"
        /\ v1.attempt = 0 /\ v1.last = "none" /\ v1.effects = 0 /\ v1.cut = 0 /\ v1.bodies = 0
        /\ v1.cancels = 0
    BY <1>1
  <1>5. R!Attempts
    <2>1. k # "http" => m = "GET"
      BY <1>1
    <2>2. v1.budget \in Nat /\ (v1.client # "retry" => v1.budget # 0)
      BY <1>2, <1>4
    <2>3. v1.method = "POST" => v1.client = "http"
      BY <1>1, <1>4, <2>1
    <2>4. v1.attempt = 0 /\ v1.effects = 0 /\ v1.cut = 0 /\ v1.pc = "begin"
      BY <1>4
    <2> QED BY <2>2, <2>3, <2>4 DEF R!Attempts
  <1>6. R!Holds
    BY <1>4 DEF R!Holds, R!Responses
  <1> QED BY <1>3, <1>5, <1>6 DEF R!IInv

\* The shape of a call is kept by each way of leaving an attempt.
LEMMA CallShapes ==
  ASSUME NEW c \in R!Record, NEW e \in R!Outcomes \cup {"refused", "read", "large"}
  PROVE  /\ R!Again(c) \in R!Record /\ R!Leave(c, e) \in R!Record
         /\ R!Retrying(c) \in R!Record /\ [c EXCEPT !.pc = "drain"] \in R!Record
         /\ [c EXCEPT !.pc = "open"] \in R!Record
  <1>1. c.last \in R!Outcomes \cup {"refused", "read", "large"}
    BY Zenon DEF R!Record
  <1>2. c.attempt + 1 \in Nat
    BY DEF R!Record
  <1> QED BY <1>1, <1>2, Zenon DEF R!Again, R!Leave, R!Retrying, R!Record

\* An attempt that was sent keeps it too.
LEMMA CallTried ==
  ASSUME v1 \in R!Record, NEW o \in R!Outcomes, NEW ran \in {0, 1}
  PROVE  R!Tried(o, ran) \in R!Record
  <1>1. v1.effects + ran \in Nat
    BY DEF R!Record
  <1> QED BY <1>1, Zenon DEF R!Tried, R!Record

\* Every step of a call keeps it.
LEMMA CallStep == R!IInv /\ [R!Next]_v1 => R!IInv'
  <1> SUFFICES ASSUME R!IInv, [R!Next]_v1 PROVE R!IInv'
    OBVIOUS
  <1>0. /\ v1 \in R!Record
        /\ v1.effects \in Nat /\ v1.attempt \in Nat /\ v1.budget \in Nat /\ v1.cut \in Nat
        /\ v1.bodies \in Nat /\ v1.cancels \in Nat
    BY DEF R!IInv, R!Record
  <1>1. CASE R!Begin
    <2>1. v1' \in R!Record
      <3>1. (IF v1.client = "stream" THEN 1 ELSE 0) \in Nat
        OBVIOUS
      <3> QED BY <1>0, <1>1, <3>1, Zenon DEF R!Begin, R!Record
    <2>2. R!Attempts'
      BY <1>0, <1>1 DEF R!Begin, R!IInv, R!Record, R!Attempts
    <2>3. R!Holds'
      BY <1>0, <1>1 DEF R!Begin, R!IInv, R!Record, R!Holds
    <2> QED BY <2>1, <2>2, <2>3 DEF R!IInv
  <1>2. CASE R!CtxDone
    <2>1. v1' \in R!Record
      BY <1>0, <1>2 DEF R!CtxDone, R!Record
    <2>2. R!Attempts'
      BY <1>0, <1>2 DEF R!CtxDone, R!IInv, R!Record, R!Attempts
    <2>3. R!Holds'
      BY <1>0, <1>2 DEF R!CtxDone, R!IInv, R!Record, R!Holds
    <2> QED BY <2>1, <2>2, <2>3 DEF R!IInv
  <1>3. ASSUME NEW o \in {"2xx", "4xx", "5xx", "dial", "eof", "reset", "ctx"}, R!HttpAttempt(o)
        PROVE  R!IInv'
    <2>1. PICK ran \in R!Ran(o) :
            LET c == [R!Tried(o, ran) EXCEPT !.cut = IF o = "reset" THEN @ + 1 ELSE @,
                                             !.bodies = IF o \in R!Responses THEN @ + 1 ELSE @]
            IN  v1' = IF ~R!Stops(o) /\ ~R!LastAttempt THEN R!Again(c)
                      ELSE IF o \in R!Responses THEN [c EXCEPT !.pc = "drain"]
                      ELSE R!Leave(c, o)
      BY <1>3 DEF R!HttpAttempt
    <2>2. ran \in {0, 1} /\ (o = "dial" => ran = 0)
      BY DEF R!Ran, R!Responses
    <2>3. v1.client = "http" /\ v1.pc = "attempt"
      BY <1>3 DEF R!HttpAttempt, R!Is
    <2>4. /\ v1'.client = v1.client /\ v1'.method = v1.method /\ v1'.budget = v1.budget
          /\ v1'.attempt = v1.attempt /\ v1'.cancels = v1.cancels /\ v1'.last = o
          /\ v1'.effects = v1.effects + ran
          /\ v1'.cut = (IF o = "reset" THEN v1.cut + 1 ELSE v1.cut)
          /\ v1'.bodies = (IF o \in R!Responses THEN v1.bodies + 1 ELSE v1.bodies)
          /\ \/ v1'.pc = "backoff" /\ ~R!Stops(o) /\ ~R!LastAttempt
             \/ v1'.pc = "drain" /\ o \in R!Responses
             \/ v1'.pc = "end" /\ o \notin R!Responses /\ v1'.err = o
      BY <1>0, <2>1, <2>2 DEF R!Tried, R!Again, R!Leave, R!Record
    <2>5. v1' \in R!Record
      <3> DEFINE t == R!Tried(o, ran)
                 c == [t EXCEPT !.cut = IF o = "reset" THEN @ + 1 ELSE @,
                                !.bodies = IF o \in R!Responses THEN @ + 1 ELSE @]
      <3>1. t \in R!Record /\ o \in R!Outcomes \cup {"refused", "read", "large"}
        BY <1>0, <2>2, CallTried DEF R!Outcomes
      <3> HIDE DEF t
      <3>2. /\ (IF o = "reset" THEN t.cut + 1 ELSE t.cut) \in Nat
            /\ (IF o \in R!Responses THEN t.bodies + 1 ELSE t.bodies) \in Nat
        BY <3>1 DEF R!Record
      <3>3. c \in R!Record
        BY <3>1, <3>2, Zenon DEF R!Record
      <3>4. v1' \in {R!Again(c), [c EXCEPT !.pc = "drain"], R!Leave(c, o)}
        BY <2>1, Zenon DEF t
      <3> HIDE DEF c
      <3> QED BY <3>1, <3>3, <3>4, CallShapes, Zenon
    <2>6. R!Attempts'
      BY <1>0, <2>2, <2>3, <2>4
         DEF R!IInv, R!Attempts, R!Stops, R!ShouldRetry, R!IsIdempotent,
         R!LastAttempt, R!Responses
    <2>7. R!Holds'
      <3>1. v1.bodies = 0
        BY <2>3 DEF R!IInv, R!Holds
      <3>2. v1'.bodies = IF o \in R!Responses THEN 1 ELSE 0
        BY <2>4, <3>1
      <3> QED BY <2>3, <2>4, <3>2 DEF R!Holds, R!Responses, R!Stops, R!ShouldRetry
    <2> QED BY <2>5, <2>6, <2>7 DEF R!IInv
  <1>4. CASE R!HttpBackoff
    <2> DEFINE resp == v1.last \in R!Responses
               c == [v1 EXCEPT !.bodies = IF resp THEN @ - 1 ELSE @]
    <2>1. v1.client = "http" /\ v1.pc = "backoff"
      BY <1>4 DEF R!HttpBackoff, R!Is
    <2>2. v1.bodies = (IF resp THEN 1 ELSE 0) /\ v1.last # "none"
      BY <2>1 DEF R!IInv, R!Holds
    <2>3. c \in R!Record /\ c.bodies = 0
      <3>1. (IF resp THEN v1.bodies - 1 ELSE v1.bodies) = 0
        BY <2>2
      <3>2. c = [v1 EXCEPT !.bodies = 0]
        BY <3>1, Zenon
      <3>3. 0 \in Nat
        OBVIOUS
      <3> QED BY <1>0, <3>2, <3>3, Zenon DEF R!Record
    <2>4. \/ v1' = R!Retrying(c)
          \/ v1' = R!Leave(c, IF resp THEN "ctx" ELSE v1.last)
      BY <1>4 DEF R!HttpBackoff
    <2>5. /\ c.client = v1.client /\ c.method = v1.method /\ c.budget = v1.budget
          /\ c.attempt = v1.attempt /\ c.effects = v1.effects /\ c.cut = v1.cut
          /\ c.cancels = v1.cancels /\ c.last = v1.last
      BY <1>0 DEF R!Record
    <2> HIDE DEF c
    <2>6. /\ v1'.client = v1.client /\ v1'.method = v1.method /\ v1'.budget = v1.budget
          /\ v1'.cancels = v1.cancels /\ v1'.last = v1.last
          /\ v1'.effects = v1.effects /\ v1'.cut = v1.cut /\ v1'.bodies = 0
          /\ \/ v1'.pc = "attempt" /\ v1'.attempt = v1.attempt + 1
             \/ v1'.pc = "end" /\ v1'.attempt = v1.attempt /\ v1'.err # "none"
      <3>1. CASE v1' = R!Retrying(c)
        BY <2>3, <2>5, <3>1 DEF R!Retrying, R!Record
      <3>2. CASE v1' = R!Leave(c, IF resp THEN "ctx" ELSE v1.last)
        BY <2>2, <2>3, <2>5, <3>2 DEF R!Leave, R!Record
      <3> QED BY <2>4, <3>1, <3>2
    <2>7. v1' \in R!Record
      <3>1. (IF resp THEN "ctx" ELSE v1.last) \in R!Outcomes \cup {"refused", "read", "large"}
        BY <1>0 DEF R!Record, R!Outcomes
      <3> QED BY <2>3, <2>4, <3>1, CallShapes, Zenon
    <2>8. R!Attempts'
      <3>1. /\ v1.effects <= v1.attempt + 1
            /\ v1.budget # 0 => v1.attempt + 1 < v1.budget
            /\ v1.method = "POST" => v1.effects <= v1.cut
            /\ v1.budget # 0
        BY <2>1 DEF R!IInv, R!Attempts
      <3>2. v1'.attempt \in Nat /\ v1'.budget \in Nat /\ v1'.effects \in Nat /\ v1'.cut \in Nat
        BY <2>7 DEF R!Record
      <3> QED BY <1>0, <2>1, <2>6, <3>1, <3>2 DEF R!Attempts
    <2>9. R!Holds'
      BY <2>1, <2>6 DEF R!IInv, R!Holds
    <2> QED BY <2>7, <2>8, <2>9 DEF R!IInv
  <1>5. CASE R!HttpDrain
    <2>1. PICK e \in {"none", "read", "large"} : v1' = [R!Leave(v1, e) EXCEPT !.bodies = @ - 1]
      BY <1>5 DEF R!HttpDrain
    <2>2. v1.client = "http" /\ v1.pc = "drain"
      BY <1>5 DEF R!HttpDrain, R!Is
    <2>3. v1.bodies = 1 /\ v1.last \in R!Responses
      BY <2>2 DEF R!IInv, R!Holds
    <2>4. v1' = [v1 EXCEPT !.pc = "end", !.err = e, !.bodies = 0]
      <3>1. R!Leave(v1, e).bodies - 1 = 0
        BY <1>0, <2>3 DEF R!Leave, R!Record
      <3>2. v1' = [R!Leave(v1, e) EXCEPT !.bodies = 0]
        BY <2>1, <3>1, Zenon
      <3> QED BY <1>0, <3>2 DEF R!Leave, R!Record
    <2>5. v1' \in R!Record
      <3>1. e \in R!Outcomes \cup {"refused", "read", "large"}
        BY DEF R!Outcomes
      <3> QED BY <1>0, <2>4, <3>1, Zenon DEF R!Record
    <2>6. R!Attempts'
      BY <1>0, <2>2, <2>4 DEF R!IInv, R!Record, R!Attempts
    <2>7. R!Holds'
      BY <1>0, <2>2, <2>3, <2>4 DEF R!IInv, R!Record, R!Holds
    <2> QED BY <2>5, <2>6, <2>7 DEF R!IInv
  <1>6. ASSUME NEW o \in {"ok", "retryable", "permanent"}, NEW ran \in {0, 1},
               v1.client # "http", v1.pc = "attempt",
               \/ v1' = R!Again(R!Tried(o, ran)) /\ v1.client # "stream" /\ o # "ok" /\ ~R!LastAttempt
               \/ v1' = R!Leave(R!Tried(o, ran), IF o = "ok" THEN "none" ELSE o) /\ v1.client # "stream"
               \/ v1' = [R!Tried(o, ran) EXCEPT !.pc = "open"] /\ v1.client = "stream" /\ o = "ok"
               \/ /\ v1' = [R!Leave(R!Tried(o, ran), o) EXCEPT !.cancels = @ + 1]
                  /\ v1.client = "stream" /\ o # "ok"
        PROVE  R!IInv'
    <2> DEFINE t == R!Tried(o, ran)
    <2>1. t \in R!Record
      BY <1>0, CallTried DEF R!Outcomes
    <2>2. /\ t.client = v1.client /\ t.method = v1.method /\ t.budget = v1.budget
          /\ t.attempt = v1.attempt /\ t.effects = v1.effects + ran /\ t.cut = v1.cut
          /\ t.cancels = v1.cancels /\ t.last = o /\ t.bodies = v1.bodies
      BY <1>0 DEF R!Tried, R!Record
    <2> HIDE DEF t
    <2>3. R!Leave(t, o).cancels = t.cancels /\ t.cancels + 1 \in Nat
      BY <2>1 DEF R!Leave, R!Record
    <2>4. v1' \in R!Record
      <3>1. /\ o \in R!Outcomes \cup {"refused", "read", "large"}
            /\ (IF o = "ok" THEN "none" ELSE o) \in R!Outcomes \cup {"refused", "read", "large"}
        BY DEF R!Outcomes
      <3>2. R!Leave(t, o) \in R!Record
        BY <2>1, <3>1, CallShapes
      <3>3. [R!Leave(t, o) EXCEPT !.cancels = @ + 1] \in R!Record
        BY <2>3, <3>2, Zenon DEF R!Record
      <3> QED BY <1>6, <2>1, <3>1, <3>3, CallShapes, Zenon DEF t
    <2>5. /\ v1'.client = v1.client /\ v1'.method = v1.method /\ v1'.budget = v1.budget
          /\ v1'.attempt = v1.attempt /\ v1'.effects = v1.effects + ran /\ v1'.cut = v1.cut
          /\ v1'.last = o /\ v1'.bodies = v1.bodies
      <3>1. CASE v1' = R!Again(t)
        BY <2>1, <2>2, <3>1 DEF R!Again, R!Record
      <3>2. ASSUME NEW e, v1' = R!Leave(t, e) PROVE <2>5!:
        BY <2>1, <2>2, <3>2 DEF R!Leave, R!Record
      <3>3. CASE v1' = [t EXCEPT !.pc = "open"]
        BY <2>1, <2>2, <3>3 DEF R!Record
      <3>4. CASE v1' = [R!Leave(t, o) EXCEPT !.cancels = @ + 1]
        BY <2>1, <2>2, <3>4 DEF R!Leave, R!Record
      <3> QED BY <1>6, <3>1, <3>2, <3>3, <3>4, Zenon DEF t
    <2>6. \/ v1'.pc = "backoff" /\ v1.client # "stream" /\ o # "ok" /\ ~R!LastAttempt
          \/ v1'.pc = "end" /\ v1.client # "stream" /\ (v1'.err = "none" => o = "ok")
          \/ v1'.pc = "open" /\ v1.client = "stream" /\ o = "ok" /\ v1'.cancels = v1.cancels
          \/ /\ v1'.pc = "end" /\ v1.client = "stream" /\ v1'.err = o
             /\ v1'.cancels = v1.cancels + 1
      BY <1>6, <2>1, <2>2, <2>3 DEF t, R!Again, R!Leave, R!Record
    <2>7. R!Attempts'
      <3>1. v1'.attempt \in Nat /\ v1'.budget \in Nat /\ v1'.effects \in Nat /\ v1'.cut \in Nat
        BY <2>4 DEF R!Record
      <3> QED BY <1>0, <1>6, <2>5, <2>6, <3>1 DEF R!IInv, R!Attempts, R!LastAttempt
    <2>8. R!Holds'
      <3>1. v1.bodies = 0 /\ (v1.client = "stream" => v1.cancels = 0)
        BY <1>6 DEF R!IInv, R!Holds
      <3>2. v1.client = "stream" => v1'.cancels = IF v1'.pc = "end" THEN 1 ELSE 0
        BY <2>6, <3>1
      <3> QED BY <1>6, <2>5, <2>6, <3>1, <3>2 DEF R!Holds, R!Responses
    <2> QED BY <2>4, <2>7, <2>8 DEF R!IInv
  <1>7. CASE v1.pc = "backoff" /\ v1.client \in {"unary", "retry"} /\ v1' = R!Retrying(v1)
    <2>1. v1' \in R!Record
      BY <1>0, <1>7, CallShapes DEF R!Outcomes
    <2>2. R!Attempts'
      BY <1>0, <1>7 DEF R!IInv, R!Attempts, R!Retrying, R!Record
    <2>3. R!Holds'
      BY <1>0, <1>7 DEF R!IInv, R!Holds, R!Retrying, R!Record
    <2> QED BY <2>1, <2>2, <2>3 DEF R!IInv
  <1>8. CASE v1.pc \in {"attempt", "backoff"} /\ v1.client \in {"unary", "retry"} /\ v1' = R!Leave(v1, "ctx")
    <2>1. v1' \in R!Record
      BY <1>0, <1>8, CallShapes DEF R!Outcomes
    <2>2. R!Attempts'
      BY <1>0, <1>8 DEF R!IInv, R!Attempts, R!Leave, R!Record
    <2>3. R!Holds'
      BY <1>0, <1>8 DEF R!IInv, R!Holds, R!Leave, R!Record
    <2> QED BY <2>1, <2>2, <2>3 DEF R!IInv
  <1>9. ASSUME NEW o \in {"ok", "retryable", "permanent"},
               R!UnaryAttempt(o) \/ R!StreamAttempt(o) \/ R!RetryAttempt(o)
        PROVE  R!IInv'
    <2>1. CASE R!UnaryAttempt(o)
      BY <1>6, <2>1 DEF R!UnaryAttempt, R!Is
    <2>2. CASE R!StreamAttempt(o)
      BY <1>6, <2>2 DEF R!StreamAttempt, R!Is
    <2>3. CASE R!RetryAttempt(o) /\ ~v1.done
      BY <1>6, <2>3 DEF R!RetryAttempt, R!Is
    <2>4. CASE R!RetryAttempt(o) /\ v1.done
      BY <1>8, <2>4 DEF R!RetryAttempt, R!Is
    <2> QED BY <1>9, <2>1, <2>2, <2>3, <2>4
  <1>10. CASE R!UnaryBackoff \/ R!RetryBackoff
    BY <1>7, <1>8, <1>10 DEF R!UnaryBackoff, R!RetryBackoff, R!Is
  <1>11. ASSUME NEW o \in {"ok", "eof"}, R!RecvMsg(o) PROVE R!IInv'
    <2>1. CASE v1' = v1
      BY <2>1 DEF R!IInv, R!Record, R!Attempts, R!Holds
    <2>2. CASE v1.pc = "open" /\ v1' = [v1 EXCEPT !.last = "eof", !.pc = "end", !.cancels = @ + 1]
      <3>1. v1' \in R!Record
        <4>1. v1.cancels + 1 \in Nat /\ "eof" \in R!Outcomes
          BY <1>0 DEF R!Outcomes
        <4> QED BY <1>0, <2>2, <4>1, Zenon DEF R!Record
      <3>2. R!Attempts'
        BY <1>0, <2>2 DEF R!IInv, R!Attempts, R!Record
      <3>3. R!Holds'
        BY <1>0, <2>2 DEF R!IInv, R!Holds, R!Record, R!Responses
      <3> QED BY <3>1, <3>2, <3>3 DEF R!IInv
    <2> QED BY <1>11, <2>1, <2>2 DEF R!RecvMsg
  <1>12. CASE UNCHANGED v1
    BY <1>12 DEF R!IInv, R!Record, R!Attempts, R!Holds
  <1> QED BY <1>1, <1>2, <1>3, <1>4, <1>5, <1>9, <1>10, <1>11, <1>12 DEF R!Next
-----------------------------------------------------------------------------
(* KafkaConsumer.                                                          *)
K == INSTANCE KafkaConsumer WITH
        Capacity <- ChanCapacity, MaxSessions <- Sessions, MaxErrors <- StreamErrors,
        kind <- v1, mode <- v2, consume <- v3, closer <- v4, ctxDone <- v5, pos <- v6,
        marked <- v7, committed <- v8, cnt <- v9, handled <- v10, msgCh <- v11, ranger <- v12

\* What is received and not acked or failed is in hand: counts do not overlap.
LEMMA ConsumerImplied == K!IInv => K!CommitsAreEarned
  <1> SUFFICES ASSUME K!IInv PROVE K!CommitsAreEarned
    OBVIOUS
  <1>1. /\ v9.received \in Nat /\ v9.acked \in Nat /\ v9.failed \in Nat
    BY DEF K!IInv, K!Counts
  <1> QED BY <1>1 DEF K!IInv, K!CommitsAreEarned

\* A consumer starts with nothing received, marked or committed.
LEMMA ConsumerInit == K!Init => K!IInv
  <1> SUFFICES ASSUME K!Init PROVE K!IInv
    OBVIOUS
  <1>1. v9 \in K!Counts
    BY DEF K!Init, K!Counts
  <1>2. v9.received = 0 /\ v9.acked = 0 /\ v9.failed = 0
    BY DEF K!Init
  <1> QED BY <1>1, <1>2 DEF K!Init, K!IInv

\* Counting keeps the record of counts, and bumps one of them.
LEMMA Bumped ==
  ASSUME v9 \in K!Counts, NEW f \in {"received", "acked", "failed", "sessions", "errors"}
  PROVE  /\ K!Bump(f) \in K!Counts
         /\ \A g \in {"received", "acked", "failed"} :
               K!Bump(f)[g] = IF g = f THEN v9[g] + 1 ELSE v9[g]
  BY DEF K!Bump, K!Counts

\* The invariant is inductive: a commit reaches only what a nil handler marked.
LEMMA ConsumerStep == K!IInv /\ [K!Next]_(K!vars) => K!IInv'
  <1> SUFFICES ASSUME K!IInv, [K!Next]_(K!vars) PROVE K!IInv'
    OBVIOUS
  <1>0. /\ v6 \in Nat /\ v7 \in Nat /\ v8 \in Nat /\ v9 \in K!Counts
        /\ v9.received \in Nat /\ v9.acked \in Nat /\ v9.failed \in Nat
    BY DEF K!IInv, K!Counts
  <1>1. CASE K!SaramaGroupConsume \/ K!FranzGroupConsume \/ K!SaramaConsume \/ K!FranzConsume
    BY <1>0, <1>1
       DEF K!SaramaGroupConsume, K!FranzGroupConsume, K!SaramaConsume, K!FranzConsume,
       K!FromCommit, K!Begin, K!client, K!IInv
  <1>2. CASE K!Next1
    <2>1. /\ v9' \in K!Counts
          /\ v9'.received = v9.received + 1 /\ v9'.acked = v9.acked /\ v9'.failed = v9.failed
      BY <1>0, <1>2 DEF K!Next1, K!Bump, K!Counts
    <2> QED BY <1>0, <1>2, <2>1 DEF K!Next1, K!client, K!IInv
  <1>3. CASE K!DrainErrors \/ K!PumpError
    <2>1. PICK counted \in BOOLEAN :
            /\ K!StreamError(counted)
            /\ counted => v1 # "saramaGroup" /\ v3 = "poll"
      BY <1>3 DEF K!DrainErrors, K!PumpError
    <2>2. /\ v9' \in K!Counts
          /\ v9'.received = v9.received /\ v9'.acked = v9.acked
          /\ v9'.failed = IF counted THEN v9.failed + 1 ELSE v9.failed
      <3> DEFINE b == K!Bump("errors")
      <3>1. /\ b \in K!Counts
            /\ b.received = v9.received /\ b.acked = v9.acked /\ b.failed = v9.failed
        BY <1>0, Bumped DEF K!Counts
      <3>2. v9' = [b EXCEPT !.failed = IF counted THEN b.failed + 1 ELSE b.failed]
        BY <2>1 DEF K!StreamError
      <3> HIDE DEF b
      <3> QED BY <1>0, <3>1, <3>2 DEF K!Counts
    <2> QED BY <1>0, <2>1, <2>2 DEF K!StreamError, K!client, K!IInv
  <1>4. ASSUME NEW ok \in BOOLEAN, K!Verdict(ok), v7' \in {v7, IF ok THEN v6 ELSE v7}
        PROVE  K!IInv'
    <2>1. /\ v9' \in K!Counts /\ v9'.received = v9.received
          /\ v9'.acked = IF ok THEN v9.acked + 1 ELSE v9.acked
          /\ v9'.failed = IF ok THEN v9.failed ELSE v9.failed + 1
      BY <1>0, <1>4 DEF K!Verdict, K!Bump, K!Counts
    <2>2. /\ v3 = "handle" /\ v3' = "poll"
          /\ v10' = IF ok THEN v10 \cup {v6 - 1} ELSE v10
          /\ UNCHANGED <<v1, v2, v6, v8>>
      BY <1>4 DEF K!Verdict, K!client
    <2> QED BY <1>0, <1>4, <2>1, <2>2 DEF K!IInv
  <1>5. CASE K!Commit
    BY <1>0, <1>5 DEF K!Commit, K!client, K!IInv
  <1>6. CASE K!Rebalance
    <2>1. /\ v9' \in K!Counts
          /\ v9'.received = v9.received /\ v9'.acked = v9.acked /\ v9'.failed = v9.failed
      <3> DEFINE b == K!Bump("sessions")
      <3>1. /\ b \in K!Counts
            /\ b.received = v9.received /\ b.acked = v9.acked /\ b.failed = v9.failed
        BY <1>0, Bumped DEF K!Counts
      <3>2. v9' = [b EXCEPT !.rebalance = IF v1 = "saramaGroup" THEN b.rebalance + 1 ELSE b.rebalance]
        BY <1>6 DEF K!Rebalance
      <3> HIDE DEF b
      <3> QED BY <1>0, <3>1, <3>2 DEF K!Counts
    <2> QED BY <1>0, <1>6, <2>1 DEF K!Rebalance, K!client, K!IInv
  <1>7. CASE K!Crash
    <2>1. /\ v9' \in K!Counts
          /\ v9'.received = 0 /\ v9'.acked = 0 /\ v9'.failed = 0
      <3>1. /\ DOMAIN v9 = {"received", "acked", "failed", "rebalance", "sessions", "errors"}
            /\ v9.sessions + 1 \in Nat /\ v9.errors \in Nat /\ 0 \in Nat
        BY <1>0 DEF K!Counts
      <3>2. [c \in DOMAIN v9 |-> 0] = [received |-> 0, acked |-> 0, failed |-> 0, rebalance |-> 0,
                                      sessions |-> 0, errors |-> 0]
        BY <3>1
      <3>3. v9' = [received |-> 0, acked |-> 0, failed |-> 0, rebalance |-> 0,
                   sessions |-> v9.sessions + 1, errors |-> v9.errors]
        BY <1>7, <3>2 DEF K!Crash
      <3> QED BY <3>1, <3>3 DEF K!Counts
    <2> QED BY <1>0, <1>7, <2>1 DEF K!Crash, K!client, K!IInv
  <1>8. CASE K!SaramaReturns \/ K!FranzReturns \/ K!SaramaFails
    BY <1>0, <1>8 DEF K!SaramaReturns, K!FranzReturns, K!SaramaFails, K!Leave, K!client, K!IInv
  <1>9. CASE K!SaramaMessages \/ K!FranzMessages \/ K!Range \/ K!RangeBreaks \/ K!PumpSend
    BY <1>0, <1>9 DEF K!SaramaMessages, K!FranzMessages, K!Range0, K!Range, K!RangeBreaks,
       K!PumpSend, K!client, K!IInv
  <1>10. CASE K!Close \/ K!Cancel \/ UNCHANGED K!vars
    BY <1>0, <1>10
       DEF K!Close, K!SaramaGroupClose, K!FranzGroupClose, K!SaramaClose, K!FranzClose,
       K!CloseStep, K!Cancel, K!vars, K!IInv
  <1>11. CASE K!Handled
    BY <1>4, <1>11 DEF K!Handled, K!ConsumeClaim, K!FranzGroupHandle, K!SaramaPumpHandle,
       K!FranzPumpHandle
  <1> QED BY <1>1, <1>2, <1>3, <1>5, <1>6, <1>7, <1>8, <1>9, <1>10, <1>11
          DEF K!Next, K!Pump, K!Returns, K!SaramaReceive, K!FranzReceive
-----------------------------------------------------------------------------
(* WorkerPool and Pipeline.                                                *)
W == INSTANCE WorkerPool WITH
        Jobs <- Some, Closers <- Two, ResultSize <- OutSize,
        collectW <- v1, queue <- v2, results <- v3, resultsClosed <- v4, closed <- v5, done <- v6,
        submit <- v7, early <- v8, ran <- v9, worker <- v10, job <- v11, closer <- v12,
        recovered <- v13
P == INSTANCE Pipeline WITH
        Items <- Some, Closers <- Two, InSize <- QueueSize,
        in <- v1, out <- v2, outClosed <- v3, done <- v4, item <- v5, early <- v6, worker <- v7,
        has <- v8, closer <- v9

\* Before a Close the channel of the results is open.
LEMMA PoolInit == W!Init => W!ResultsClosedLast
  BY DEF W!Init, W!ResultsClosedLast

\* Before a Close the output of the pipeline is open.
LEMMA PipeInit == P!Init => P!OutClosedLast
  BY DEF P!Init, P!OutClosedLast

\* A worker that has exited takes no further step, and only a Close that has
\* waited for all of them closes the results.
LEMMA PoolStep == W!ResultsClosedLast /\ [W!Next]_(W!vars) => W!ResultsClosedLast'
  BY DEF W!ResultsClosedLast, W!AllExited, W!vars, W!pool, W!Next, W!SubmitCheck,
     W!SubmitSend, W!Work,
     W!Select, W!DrainQueue, W!Take, W!GotoW, W!SafeCall, W!SendResult, W!Receive, W!Close,
     W!CloseWait, W!GotoC

\* So does the stage of a pipeline, whose Close waits for its workers too.
LEMMA PipeStep == P!OutClosedLast /\ [P!Next]_(P!vars) => P!OutClosedLast'
  BY DEF P!OutClosedLast, P!AllExited, P!vars, P!Next, P!SendCall, P!Send, P!Becomes,
     P!Work, P!Select,
     P!Take, P!Goto, P!Drain, P!Stage, P!SendOut, P!Receive, P!Close, P!CloseOut, P!GotoC
-----------------------------------------------------------------------------
(* Adaptive.                                                               *)
A == INSTANCE Adaptive WITH
        Jobs <- Some, Closers <- Two, Slots <- PoolSlots, MinWorkers <- MinPool,
        MaxWorkers <- MaxPool,
        queue <- v1, closed <- v2, done <- v3, stopChs <- v4, stopped <- v5, worker <- v6,
        job <- v7, scaler <- v8, submit <- v9, ran <- v10, closer <- v11


\* Distinct entries are as many as the sequence is long.
LEMMA ScalerImplied == A!Registered => A!StopChannelsOpen
  <1> SUFFICES ASSUME A!Registered, ~v3 PROVE A!StopChannelsOpen
    BY DEF A!StopChannelsOpen
  <1> DEFINE E == {v4[i] : i \in 1 .. Len(v4)}
             f == [i \in 1 .. Len(v4) |-> v4[i]]
  <1>1. f \in Bijection(1 .. Len(v4), E)
    <2>1. \A i, k \in 1 .. Len(v4) : v4[i] = v4[k] => i = k
      BY DEF A!Registered
    <2>2. f \in [1 .. Len(v4) -> E] /\ \A s \in E : \E i \in 1 .. Len(v4) : f[i] = s
      OBVIOUS
    <2> QED BY <2>1, <2>2 DEF Bijection, Injection, Surjection, IsInjective
  <1>2. Len(v4) \in Nat
    BY DEF A!Registered
  <1>3. Cardinality(E) = Len(v4)
    BY <1>1, <1>2, FS_CountingElements DEF ExistsBijection
  <1>4. \A i \in 1 .. Len(v4) : v4[i] \in A!Live \ v5
    BY DEF A!Registered
  <1> QED BY <1>3, <1>4 DEF Cardinality, A!Cardinality, A!StopChannelsOpen

\* The first workers have a stop channel each.
LEMMA ScalerInit == A!Init => A!Registered
  BY AdaptiveAssumption DEF A!Init, A!Registered, A!Live

\* Growing registers a worker that has no stop channel, shrinking closes the last
\* one and takes it out, under the same lock.
LEMMA ScalerStep == A!Registered /\ [A!Next]_(A!vars) => A!Registered'
  <1> SUFFICES ASSUME A!Registered, [A!Next]_(A!vars) PROVE A!Registered'
    OBVIOUS
  <1>1. CASE A!Tick \/ A!Sample
    BY <1>1 DEF A!Tick, A!Sample, A!Scale, A!Registered, A!Live
  <1>2. CASE A!Grow
    BY <1>2 DEF A!Grow, A!Scale, A!Registered, A!Live
  <1>3. CASE A!Shrink
    BY <1>3 DEF A!Shrink, A!Scale, A!Registered, A!Live
  <1>4. ASSUME NEW w \in PoolSlots, A!Work(w) PROVE A!Registered'
    BY <1>4 DEF A!Work, A!Select, A!DrainQueue, A!Goto, A!Take, A!SafeWork, A!Registered,
       A!Live
  <1>5. ASSUME NEW j \in Some, A!SubmitCheck(j) \/ A!SubmitSend(j) PROVE A!Registered'
    BY <1>5 DEF A!SubmitCheck, A!SubmitSend, A!Registered, A!Live
  <1>6. ASSUME NEW c \in Two, A!Close(c) PROVE A!Registered'
    BY <1>6 DEF A!Close, A!CloseSignal, A!CloseWait, A!CloseLock, A!CloseDrain, A!GotoC,
       A!Registered, A!Live
  <1>7. CASE UNCHANGED A!vars
    BY <1>7 DEF A!vars, A!Registered, A!Live
  <1> QED BY <1>1, <1>2, <1>3, <1>4, <1>5, <1>6, <1>7 DEF A!Next, A!Autoscale
-----------------------------------------------------------------------------
\* Fanout, WTimer, Debounce, TcpClient, UdpClient: the lemmas are in their modules.
F == INSTANCE FanoutProofs WITH
        Subs <- FanSubs, Closers <- Two, BufferSize <- FanBuffer,
        subs <- v1, buf <- v2, closes <- v3, made <- v4, closed <- v5, done <- v6, pub <- v7,
        writer <- v8
T == INSTANCE WTimerProofs WITH
        Closers <- {"owner"}, Delays <- 1 .. MaxTime,
        now <- v1, heap <- v2, when <- v3, interval <- v4, cancelled <- v5, wakeup <- v6,
        closed <- v7, adder <- v8, run <- v9, fired <- v10, closer <- v11
D == INSTANCE Debounce WITH
        Threads <- Some,
        cur <- v1, closed <- v2, timer <- v3, runs <- v4, pc <- v5, local <- v6, owed <- v7
C == INSTANCE TcpClientProofs WITH
        Threads <- Two, Conns <- Some, PoolSize <- TcpPool, RetryMax <- TcpRetries,
        MaxCalls <- TcpCalls,
        conn <- v1, pool <- v2, closed <- v3, closer <- v4, call <- v5, watch <- v6, calls <- v7
U == INSTANCE UdpClientProofs WITH
        Threads <- Two, RetryMax <- 0, MaxCalls <- 2,
        closed <- v1, sock <- v2, net <- v3, call <- v4, watchers <- v5, over <- v6, calls <- v7,
        overlap <- v8, stray <- v9
\* One call that may be repeated: its attempts leave answers and watchers behind.
V == INSTANCE UdpClientProofs WITH
        Threads <- Two, RetryMax <- 1, MaxCalls <- 1,
        closed <- v1, sock <- v2, net <- v3, call <- v4, watchers <- v5, over <- v6, calls <- v7,
        overlap <- v8, stray <- v9

\* What the proofs about WTimer and TcpClient assume of their constants holds.
LEMMA ClientsAssumptions == T!Assumptions /\ C!Assumptions
  <1>1. 1 .. MaxTime \subseteq Nat
    OBVIOUS
  <1> QED BY <1>1, TimesAssumption, TcpAssumption, Zenon
             DEF T!Assumptions, T!NoTimer, C!Assumptions

\* Every part starts in a state that satisfies its invariant.
LEMMA PartsInit ==
    /\ W!Init => W!ResultsClosedLast
    /\ P!Init => P!OutClosedLast
    /\ A!Init => A!Registered
    /\ R!Init => R!IInv
    /\ K!Init => K!IInv
    /\ F!Init => F!IInv
    /\ T!Init => T!IInv
    /\ D!Init => D!IInv
    /\ C!Init => C!IInv
    /\ U!Init => U!IInv
    /\ V!Init => V!IInv
  BY ClientsAssumptions, FanoutAssumption, TimesAssumption, F!InitInv, T!InitInv,
     D!InitInv, C!InitInv, U!InitInv, V!InitInv, PoolInit, PipeInit, ScalerInit, CallInit,
     ConsumerInit, Zenon

\* Every part's steps keep its invariant.
LEMMA PartsStep ==
    /\ W!ResultsClosedLast /\ [W!Next]_(W!vars) => W!ResultsClosedLast'
    /\ P!OutClosedLast /\ [P!Next]_(P!vars) => P!OutClosedLast'
    /\ A!Registered /\ [A!Next]_(A!vars) => A!Registered'
    /\ R!IInv /\ [R!Next]_v1 => R!IInv'
    /\ K!IInv /\ [K!Next]_(K!vars) => K!IInv'
    /\ F!IInv /\ [F!Next]_(F!vars) => F!IInv'
    /\ T!IInv /\ [T!Next]_(T!vars) => T!IInv'
    /\ D!IInv /\ [D!Next]_(D!vars) => D!IInv'
    /\ C!IInv /\ [C!Next]_(C!vars) => C!IInv'
    /\ U!IInv /\ [U!Next]_(U!vars) => U!IInv'
    /\ V!IInv /\ [V!Next]_(V!vars) => V!IInv'
  BY ClientsAssumptions, FanoutAssumption, TimesAssumption, F!StepInv, T!StepInv,
     D!StepInv, C!StepInv, U!StepInv, V!StepInv, PoolStep, PipeStep, ScalerStep, CallStep,
     ConsumerStep, Zenon

\* The invariants imply what the run checks.
LEMMA PartsImplied ==
    /\ A!Registered => A!StopChannelsOpen
    /\ R!IInv => R!EffectsBounded /\ R!Released
    /\ K!IInv => K!CommitsAreEarned
    /\ F!IInv => F!NoSendOnClosed /\ F!RemovedIsClosed
    /\ T!IInv => T!CloseJoins /\ T!NoLostWakeup /\ T!NoTimerLost
    /\ D!IInv => D!NoDoubleRun /\ D!OnePending
    /\ C!IInv => C!ConnsAccounted /\ C!ReplyMatches
    /\ U!IInv => U!ReplyIsOwnOrStray
    /\ V!IInv => V!ReplyIsOwnOrStray
  BY F!InvNoSendOnClosed, F!InvRemovedIsClosed, D!InvNoDoubleRun, C!InvConnsAccounted,
     C!InvReplyMatches, ScalerImplied, CallInvImplies, ConsumerImplied, Zenon
  DEF T!IInv, D!IInv, U!IInv, V!IInv
-----------------------------------------------------------------------------
\* The components whose invariants are model-checked only.
B == INSTANCE Batcher WITH
        Closers <- {"owner"}, MaxSize <- 2, BufferCap <- 1,
        in <- v1, flushCh <- v2, done <- v3, collector <- v4, buf <- v5, flushed <- v6,
        serving <- v7, adds <- v8, sent <- v9, acks <- v10, readers <- v11, pc <- v12, mark <- v13
S == INSTANCE Semaphore WITH
        Threads <- Some, Cap <- Permits, Weights <- 1 .. Permits,
        ch <- v1, closed <- v2, wmu <- v3, pc <- v4, op <- v5, n <- v6, got <- v7, held <- v8
L == INSTANCE Limiter WITH
        Threads <- Two, Burst <- 1, Emission <- 2, Rate <- 1, Window <- 2, Quantum <- 3,
        Sizes <- 1 .. 2,
        algo <- v1, clock <- v2, lim <- v3, call <- v4, grants <- v5, calls <- v6, overlap <- v7
\* The state machine of the tests' shape: a choice in one state, a way back.
Rules == {[from |-> "a", event |-> "x", to |-> "b"], [from |-> "a", event |-> "y", to |-> "c"],
          [from |-> "b", event |-> "y", to |-> "a"]}
G == INSTANCE Flows WITH
        Kinds <- FlowKinds, Threads <- Two, MaxOps <- 4,
        Sources <- 1 .. 2, MaxItems <- 2, MaxConns <- 2, Interval <- 2, Horizon <- 5,
        kind <- v1, cell <- v2, call <- v3, log <- v4, ops <- v5

\* The variables after the n-th, and that they are not used.
After12 == v13
After11 == <<v12, After12>>
After9 == <<v10, v11, After11>>
After8 == <<v9, After9>>
After7 == <<v8, After8>>
After5 == <<v6, v7, After7>>
After1 == <<v2, v3, v4, v5, After5>>
vars == <<part, v1, After1>>

Only12 == v13 = 0
Only11 == v12 = 0 /\ Only12
Only9 == v10 = 0 /\ v11 = 0 /\ Only11
Only8 == v9 = 0 /\ Only9
Only7 == v8 = 0 /\ Only8
Only5 == v6 = 0 /\ v7 = 0 /\ Only7
Only1 == v2 = 0 /\ v3 = 0 /\ v4 = 0 /\ v5 = 0 /\ Only5

In(p) == part = p

Init ==
    /\ part \in Parts
    /\ \/ In("workerpool") /\ W!Init
       \/ In("pipeline") /\ P!Init /\ Only9
       \/ In("adaptive") /\ A!Init /\ Only11
       \/ In("batcher") /\ B!Init
       \/ In("semaphore") /\ S!Init /\ Only8
       \/ In("fanout") /\ F!Init /\ Only8
       \/ In("wtimer") /\ T!Init /\ Only11
       \/ In("debounce") /\ D!Init /\ Only7
       \/ In("limiter") /\ L!Init /\ Only7
       \/ In("tcp") /\ C!Init /\ Only7
       \/ In("udp") /\ U!Init /\ Only9
       \/ In("udpretry") /\ V!Init /\ Only9
       \/ In("calls") /\ R!Init /\ Only1
       \/ In("flows") /\ G!Init /\ Only5
       \/ In("kafka") /\ K!Init /\ Only12

Next ==
    /\ UNCHANGED part
    /\ \/ In("workerpool") /\ W!Next
       \/ In("pipeline") /\ P!Next /\ UNCHANGED After9
       \/ In("adaptive") /\ A!Next /\ UNCHANGED After11
       \/ In("batcher") /\ B!Next
       \/ In("semaphore") /\ S!Next /\ UNCHANGED After8
       \/ In("fanout") /\ F!Next /\ UNCHANGED After8
       \/ In("wtimer") /\ T!Next /\ UNCHANGED After11
       \/ In("debounce") /\ D!Next /\ UNCHANGED After7
       \/ In("limiter") /\ L!Next /\ UNCHANGED After7
       \/ In("tcp") /\ C!Next /\ UNCHANGED After7
       \/ In("udp") /\ U!Next /\ UNCHANGED After9
       \/ In("udpretry") /\ V!Next /\ UNCHANGED After9
       \/ In("calls") /\ R!Next /\ UNCHANGED After1
       \/ In("flows") /\ G!Next /\ UNCHANGED After5
       \/ In("kafka") /\ K!Next /\ UNCHANGED After12

Spec == Init /\ [][Next]_vars

-----------------------------------------------------------------------------
\* The parts' variables have their types.
TypeOK ==
    /\ In("workerpool") => W!TypeOK
    /\ In("pipeline") => P!TypeOK
    /\ In("adaptive") => A!TypeOK
    /\ In("batcher") => B!TypeOK
    /\ In("semaphore") => S!TypeOK
    /\ In("fanout") => F!TypeOK
    /\ In("wtimer") => T!TypeOK
    /\ In("debounce") => D!TypeOK
    /\ In("limiter") => L!TypeOK
    /\ In("tcp") => C!TypeOK
    /\ In("udp") => U!TypeOK
    /\ In("udpretry") => V!TypeOK
    /\ In("calls") => R!TypeOK
    /\ In("kafka") => K!TypeOK

\* WorkerPool: every accepted job is in the queue, with one worker that has yet
\* to run it, or was run exactly once; no other job runs.  Batcher: what was
\* flushed, the batch and the channel are, in this order, exactly the items that
\* Add accepted.  Pipeline: an accepted item waits in the input or with exactly one
\* worker until it is forwarded or dropped by the stage; it is lost only after
\* Close.
ExactlyOnce ==
    /\ In("workerpool") => W!ExactlyOnce
    /\ In("pipeline") => P!NothingLostWhileOpen
    /\ In("batcher") => B!ExactlyOnceInOrder

\* Closing drains.  WorkerPool: when all workers have exited, every job accepted
\* before done was closed has run.  Pipeline: no item accepted before Close is
\* still waiting.  Adaptive: when a Close has returned, every job whose Submit
\* returned nil was run exactly once, also when that Submit raced Close, and no
\* worker is left, not even one that the autoscaler had decided to start.  Batcher:
\* when a Close returns, every item accepted before Close was first called has
\* been flushed; and when a Flush returns because it was acknowledged, every item
\* accepted before it was called.
CloseDrains ==
    /\ In("workerpool") => W!CloseDrains
    /\ In("pipeline") => P!InputDrained
    /\ In("adaptive") => A!AcceptedRuns /\ A!NoWorkersLeft
    /\ In("batcher") => B!CloseFlushesEarlier /\ B!FlushIsABarrier

\* No channel operation panics.  WorkerPool and Pipeline: the results, the output,
\* are closed only when no worker is left that could send on them.  Adaptive: no
\* stop channel is closed twice, as the autoscaler shrinks and grows.  Fanout: a
\* subscriber that a publisher has still to serve has an open channel, although
\* channels are closed outside the lock; and a channel that is out of the map was
\* closed once, or one writer is about to close it, repeated and concurrent
\* Unsubscribe and Close included.  WTimer: when the Close that stopped the wheel
\* returns, no callback runs or will run.
ChannelsSafe ==
    /\ In("workerpool") => W!ResultsClosedLast
    /\ In("pipeline") => P!OutClosedLast
    /\ In("adaptive") => A!StopChannelsOpen
    /\ In("fanout") => F!NoSendOnClosed /\ F!RemovedIsClosed
    /\ In("wtimer") => T!CloseJoins

\* Semaphore: the tokens in the channel and those that goroutines hold, collect,
\* pass back or return add up to the capacity; after Close to no more than it.
\* Matched releases never panic, and the token that a waiting weighted caller took
\* out always fits back in, so that its send does not block.
PermitsConserved == In("semaphore") => S!PermitsConserved /\ S!ReleaseFits

\* WTimer: the goroutine never sleeps past a timer on the heap, or past Close,
\* unless a token is on its way to it; and while the wheel is open, a timer that
\* was added is on the heap, with the goroutine, cancelled, or a one-shot that has
\* fired.
NoLostWakeup == In("wtimer") => T!NoLostWakeup /\ T!NoTimerLost

\* Debounce: fn runs at most once per Call, although Flush and the timer's own
\* goroutine race to run it; and every armed timer is the pending one, or a Flush
\* has taken it out and is about to stop it, so a burst leaves one execution.
NoDoubleRun == In("debounce") => D!NoDoubleRun /\ D!OnePending

\* The limiters: no algorithm lets more through than its burst and what its rate
\* earns in the time between, whatever the clock does; where the charge takes
\* several steps (token and leaky bucket, fixed window), as long as calls do not
\* overlap.  The Redis script's RetryAfter is exact: a client that waits so long is
\* let through, one that comes any earlier is not.
RateBound == In("limiter") => L!RateBound /\ L!RetryAfterExact

\* tcpclient: a connection is checked out by one call or idle in the pool, never
\* both and never twice; no watcher closes an idle one; after Close has drained
\* the pool none is left open but those that calls still hold.
ConnsAccounted == In("tcp") => C!ConnsAccounted

\* tcpclient: the line a call returns answers its own request, not an earlier
\* call's, unless the peer answered a Send over the same connection.  udpclient: so
\* does the datagram, unless calls shared the socket, or the earlier call that it
\* answers was a Send, failed, was repeated, returned another's answer, or had its
\* own duplicated by the network.
ReplyMatches ==
    /\ In("tcp") => C!ReplyMatches
    /\ In("udp") => U!ReplyIsOwnOrStray
    /\ In("udpretry") => V!ReplyIsOwnOrStray

\* httpclient, grpcclient and retry.Do: the server runs a call no more often than
\* the attempts configured, a POST at most once more than the number of sends that
\* were cut off unnoticed, a stream once; every response body is closed, and a
\* stream's timeout is cancelled once, when the stream is over.
EffectsBounded == In("calls") => R!EffectsBounded /\ R!Released

\* fsm, signalbus, syncutil.Merge, the servers, Throttle and PublicIP: transitions
\* never interleave, a signal reaches the handlers connected when it was sent,
\* merged channels lose and reorder nothing, a stopped server has no request in
\* flight, a throttle keeps its interval, and PublicIP gives up only after its
\* retries, no fetch it leaves behind blocking on its channel.
FlowsAgree == In("flows") => G!FlowsAgree

\* The Kafka consumers never commit past a message they were not given, and the
\* message just below a commit is one whose handler returned nil; within a
\* session what was received is acked, failed or in hand.
CommitsAreEarned == In("kafka") => K!CommitsAreEarned

-----------------------------------------------------------------------------
\* The inductive invariant: that of the part that runs.
IInv ==
    /\ In("workerpool") => W!ResultsClosedLast
    /\ In("pipeline") => P!OutClosedLast
    /\ In("adaptive") => A!Registered
    /\ In("fanout") => F!IInv
    /\ In("wtimer") => T!IInv
    /\ In("debounce") => D!IInv
    /\ In("tcp") => C!IInv
    /\ In("udp") => U!IInv
    /\ In("udpretry") => V!IInv
    /\ In("calls") => R!IInv
    /\ In("kafka") => K!IInv

\* Every part starts in a state that satisfies its invariant.
LEMMA WholeInit == Init => IInv
  BY PartsInit DEF Init, In, IInv

\* A step is one of the part that runs, or leaves the variables of that part alone.
LEMMA PartSteps ==
    ASSUME [Next]_vars
    PROVE  /\ part' = part
           /\ In("workerpool") => [W!Next]_(W!vars)
           /\ In("pipeline") => [P!Next]_(P!vars)
           /\ In("adaptive") => [A!Next]_(A!vars)
           /\ In("fanout") => [F!Next]_(F!vars)
           /\ In("wtimer") => [T!Next]_(T!vars)
           /\ In("debounce") => [D!Next]_(D!vars)
           /\ In("tcp") => [C!Next]_(C!vars)
           /\ In("udp") => [U!Next]_(U!vars)
           /\ In("udpretry") => [V!Next]_(V!vars)
           /\ In("calls") => [R!Next]_v1
           /\ In("kafka") => [K!Next]_(K!vars)
  <1>1. CASE Next
    BY <1>1 DEF Next, In
  <1>2. CASE UNCHANGED vars
    BY <1>2 DEF vars, After1, After5, After7, After8, After9, After11, After12, W!vars, W!pool,
       P!vars, A!vars, F!vars, T!vars, D!vars, C!vars, U!vars, V!vars, K!vars
  <1> QED BY <1>1, <1>2

\* No step breaks the invariant.
LEMMA WholeStep == IInv /\ [Next]_vars => IInv'
  BY PartSteps, PartsStep, Zenon DEF In, IInv

\* The invariant implies what the run checks.
LEMMA WholeImplied ==
    IInv => /\ ChannelsSafe /\ NoLostWakeup /\ NoDoubleRun
            /\ ConnsAccounted /\ ReplyMatches
            /\ EffectsBounded /\ CommitsAreEarned
  BY PartsImplied, Zenon
     DEF IInv, ChannelsSafe, NoLostWakeup, NoDoubleRun, ConnsAccounted, ReplyMatches,
         EffectsBounded, CommitsAreEarned

\* Whatever the sizes and the numbers of goroutines, connections, timers and calls:
\* no channel is closed while somebody may send on it, nor twice (workerpool,
\* pipeline, adaptive, fanout); the goroutine of wtimer never sleeps past a timer
\* and loses none; debounce runs fn at most once per Call and once per burst; a
\* connection of tcpclient has one owner, and Close leaves none behind; a call of
\* tcpclient returns the answer to its own request unless a Send was answered over
\* its connection, and so does one of udpclient but for what ReplyMatches excepts
\* (any number of its calls and retries: UdpClientProofs); a server runs a call of httpclient, grpcclient or retry.Do no
\* more often than it may, and what the call took it gives back; the Kafka
\* consumers commit only what their handlers have done.
THEOREM Safety ==
    Spec => /\ []ChannelsSafe /\ []NoLostWakeup /\ []NoDoubleRun
            /\ []ConnsAccounted /\ []ReplyMatches
            /\ []EffectsBounded /\ []CommitsAreEarned
  BY WholeInit, WholeStep, WholeImplied, PTL DEF Spec
-----------------------------------------------------------------------------
\* A step of the part that runs.
Pool(act) == In("workerpool") /\ act /\ UNCHANGED part
Pipe(act) == In("pipeline") /\ act /\ UNCHANGED <<part, After9>>
Scaled(act) == In("adaptive") /\ act /\ UNCHANGED <<part, After11>>
Batch(act) == In("batcher") /\ act /\ UNCHANGED part
Sem(act) == In("semaphore") /\ act /\ UNCHANGED <<part, After8>>
Fan(act) == In("fanout") /\ act /\ UNCHANGED <<part, After8>>
Wheel(act) == In("wtimer") /\ act /\ UNCHANGED <<part, After11>>
Deb(act) == In("debounce") /\ act /\ UNCHANGED <<part, After7>>
Lim(act) == In("limiter") /\ act /\ UNCHANGED <<part, After7>>
Tcp(act) == In("tcp") /\ act /\ UNCHANGED <<part, After7>>
Udp(act) == In("udpretry") /\ act /\ UNCHANGED <<part, After9>>
Flow(act) == In("flows") /\ act /\ UNCHANGED <<part, After5>>
Kafka(act) == In("kafka") /\ act /\ UNCHANGED <<part, After12>>

\* The fairness of each component (its module says why), for the one that runs;
\* a disjunction over parts is one condition for each of them, as `part' is fixed.
FairSpec ==
    /\ Spec
    /\ \A w \in Workers : WF_vars(Pool(W!Work(w)) \/ Pipe(P!Work(w)))
    /\ \A w \in PoolSlots : WF_vars(Scaled(A!Work(w)))
    /\ \A i \in Some :
        /\ WF_vars(\/ Scaled(A!SubmitSend(i))
                   \/ Sem(S!Release(i))
                   \/ Deb(D!Flush(i) \/ D!CloseSet(i)))
        /\ WF_vars(Sem(S!Check(i) \/ S!PutBack(i) \/ S!SendToken(i)))
        /\ SF_vars(\/ Sem(S!TakeLocked(i))
                   \/ Scaled(A!Stopping)
                   \/ Batch(B!Stopping)
                   \/ Kafka(K!Returns))
    /\ WF_vars(\/ Scaled(A!Autoscale)
               \/ Batch(B!Collect)
               \/ Wheel(T!Run)
               \/ Tcp(C!Drain)
               \/ Udp(V!DeadlinePasses)
               \/ Flow(G!MergeAlone)
               \/ Kafka(K!Pump))
    /\ WF_vars(Wheel(T!Tick) \/ Kafka(K!Range))
    /\ WF_vars(\/ Wheel(T!Joining("owner"))
               \/ Batch(B!AwaitCollector("owner") \/ B!FinalDrain("owner"))
               \/ Kafka(K!Closes))
    /\ \A c \in Two :
        /\ WF_vars(\/ Pool(W!Joining(c))
                   \/ Pipe(P!Joining(c))
                   \/ Scaled(A!Joining(c))
                   \/ Fan(F!Write(c))
                   \/ Lim(L!Step(c))
                   \/ Tcp(C!Step(c))
                   \/ Udp(V!Step(c)))
        /\ WF_vars(Tcp(C!Watcher(c)))
    /\ \A p \in Producers : WF_vars(Batch(B!RLock(p) \/ B!Send(p)))
    /\ \A f \in Flushers : WF_vars(Batch(B!Request(f) \/ B!Await(f)))
    /\ \A p \in Publishers : WF_vars(Fan(F!Publish(p)))
    /\ \A w \in Cancellers : WF_vars(Fan(F!Write(w)))
    /\ \A t \in Timers : WF_vars(Wheel(T!AddPush(t) \/ T!AddWake(t)))
    /\ \A i \in D!Ids : WF_vars(Deb(D!Fn(i)))

\* Jobs, items and callers are interchangeable.
INSTANCE TLC
Symmetry == Permutations(Some) \cup Permutations(Two)

\* What a Close in progress, or the caller it releases, waits for.
Closing(c) ==
    \/ In("workerpool") /\ W!Closing(c)
    \/ In("pipeline") /\ P!Closing(c)
    \/ In("adaptive") /\ A!Closing(c)
    \/ In("batcher") /\ B!Closing("owner")
    \/ In("fanout") /\ F!Closing(c)
    \/ In("wtimer") /\ T!Closing("owner")
    \/ In("limiter") /\ L!Closing
    \/ In("flows") /\ G!MergeCancelled
    \/ In("kafka") /\ K!Closing
Returned(c) ==
    \/ In("workerpool") /\ W!Returned(c)
    \/ In("pipeline") /\ P!Returned(c)
    \/ In("adaptive") /\ A!Returned(c)
    \/ In("batcher") /\ \A b \in B!Callers : B!Returned(b)
    \/ In("fanout") /\ F!Returned(c)
    \/ In("wtimer") /\ T!Returned("owner")
    \/ In("limiter") /\ L!Unblocked
    \/ In("flows") /\ G!MergeClosed
    \/ In("kafka") /\ ~K!Ranging

\* Close returns.  The pools, the pipeline and the batcher: also when nobody reads
\* the results or the output, when Submits are blocked on a full queue, and when
\* Adds hold the read lock while they wait for room; the batcher's Adds and
\* Flushes in progress return too.  Fanout and WTimer: although a PublishBlocking
\* holds the lock and waits for a subscriber that does not read, or the wheel's
\* goroutine sleeps.  A limiter's Close unblocks every Wait, a consumer's ends the
\* loop of a caller ranging over Messages(), and a cancelled Merge closes its
\* channel whether or not it is still read.
CloseReturns == \A c \in Two : Closing(c) ~> Returned(c)

\* Who waits to be served, and is.
Waits(i) ==
    \/ In("workerpool") /\ W!Accepted(i)
    \/ In("semaphore") /\ S!Taking(i)
    \/ In("debounce") /\ D!Owing
IsServed(i) ==
    \/ In("workerpool") /\ W!RanOrClosed(i)
    \/ In("semaphore") /\ ~S!Taking(i)
    \/ In("debounce") /\ ~D!Owing
Idle(c) ==
    /\ In("tcp") => C!Idle(c)
    /\ In("udpretry") => V!Idle(c)

\* What was accepted is served.  WorkerPool: while it is open an accepted job is
\* run, also after jobs that panicked.  Semaphore: while it is open, a weighted
\* take that unit callers disturb ends.  Debounce: fn runs after a Call, unless it
\* is cancelled or the debouncer is closed.  WTimer: a timer that was added fires,
\* unless it is cancelled or the wheel is closed.  tcpclient and udpclient: every
\* call returns, as deadlines end its reads and its attempts are bounded.
Served ==
    /\ \A i \in Some : Waits(i) ~> IsServed(i)
    /\ \A t \in Timers : In("wtimer") /\ T!Added(t) ~> In("wtimer") /\ T!FiredOrGone(t)
    /\ \A c \in Two : ~Idle(c) ~> Idle(c)
=============================================================================
