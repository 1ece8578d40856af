------------------------------ MODULE Breaker -------------------------------
(***************************************************************************)
(* The circuit breaker of package breaker.  State, expiry and the half-open*)
(* counters are atomics read without the mutex, so every atomic load, store*)
(* and add is a step of its own; what only b.mu protects (the window) moves*)
(* with the critical section it belongs to.  A goroutine in Execute is at  *)
(* the program point pc[t].                                                *)
(***************************************************************************)
EXTENDS FailureWindow, FiniteSets, TLC

CONSTANTS
    Threads,       \* goroutines that call Execute
    MaxRequests,   \* half-open probes, and successes needed to recover
    MinRequests,   \* calls in the window before the failure rate counts
    FailPercent,   \* FailRate as a percentage
    OpenDuration,  \* seconds from a trip to the first probe
    MaxTime,       \* bound on the clock
    MaxCalls       \* bound on the calls made

ASSUME BreakerAssumption ==
    /\ MaxRequests \in Nat \ {0}
    /\ MinRequests \in Nat \ {0}
    /\ FailPercent \in Int
    /\ OpenDuration \in Nat \ {0}
    /\ MaxTime \in Nat
    /\ MaxCalls \in Nat

None == "none"
ASSUME NoneAssumption == None \notin Threads

VARIABLES
    state, expiry, halfOpenCount, halfOpenSuccess, halfOpenGen,
    win,        \* counts, fails, base, sumTotal, sumFail
    mu,         \* the goroutine that holds b.mu, or None
    now,        \* the clock, in seconds
    calls,      \* the number of calls so far
    pc,         \* where each goroutine is in Execute
    gen,        \* probeGen of each goroutine's call
    guarded,    \* halfOpenSlot of each goroutine's call
    openedAt    \* when the breaker was last stored Open (history variable)

counters == <<halfOpenCount, halfOpenSuccess, halfOpenGen>>
env == <<now, calls>>
local == <<gen, guarded>>
vars == <<state, expiry, counters, win, mu, env, pc, local, openedAt>>

Init ==
    /\ state = "closed"
    /\ expiry = 0
    /\ halfOpenCount = 0 /\ halfOpenSuccess = 0 /\ halfOpenGen = 0
    /\ win = Empty(0)
    /\ mu = None
    /\ now = 0 /\ calls = 0
    /\ pc = [t \in Threads |-> "idle"]
    /\ gen = [t \in Threads |-> 0]
    /\ guarded = [t \in Threads |-> FALSE]
    /\ openedAt = 0

\* t is at point from and goes on at point to.
Move(t, from, to) ==
    /\ pc[t] = from
    /\ pc' = [pc EXCEPT ![t] = to]

\* A step of t that reads shared fields and writes none.
Reads(t, from, to) ==
    /\ Move(t, from, to)
    /\ UNCHANGED <<state, expiry, counters, win, mu, env, local, openedAt>>

Acquire(t) == mu = None /\ mu' = t
Release(t) == mu = t /\ mu' = None

SetState(s) ==
    /\ state' = s
    /\ openedAt' = IF s = "open" THEN now ELSE openedAt

Tick ==
    /\ now < MaxTime
    /\ now' = now + 1
    /\ UNCHANGED <<state, expiry, counters, win, mu, calls, pc, local, openedAt>>

-----------------------------------------------------------------------------
\* beforeCall: the load of state, and what follows in each state.
Enter(t) ==
    /\ calls < MaxCalls
    /\ calls' = calls + 1
    /\ Move(t, "idle", CASE state = "closed" -> "capture"
                         [] state = "open" -> "expiry"
                         [] state = "half" -> "room")
    /\ UNCHANGED <<state, expiry, counters, win, mu, now, local, openedAt>>

CheckExpiry(t) ==
    Reads(t, "expiry", IF now < expiry THEN "idle" ELSE "toHalf")

CheckRoom(t) ==
    Reads(t, "room", IF halfOpenCount < 0 \/ halfOpenCount >= MaxRequests
                     THEN "idle" ELSE "take")

\* halfOpenCount.Add(1), taken back by Undo if the limit is passed.
Take(t) ==
    /\ halfOpenCount' = halfOpenCount + 1
    /\ Move(t, "take", IF halfOpenCount' > MaxRequests THEN "undo" ELSE "capture")
    /\ UNCHANGED <<state, expiry, halfOpenSuccess, halfOpenGen, win, mu, env, local, openedAt>>

Undo(t) ==
    /\ Move(t, "undo", "idle")
    /\ halfOpenCount' = halfOpenCount - 1
    /\ UNCHANGED <<state, expiry, halfOpenSuccess, halfOpenGen, win, mu, env, local, openedAt>>

\* The expiry is not read again under the lock.
ToHalfOpenUnchecked(t) ==
    /\ mu = None
    /\ \/ /\ state # "open"
          /\ Reads(t, "toHalf", "recheck")
       \/ /\ state = "open"
          /\ Acquire(t)
          /\ Move(t, "toHalf", "half1")
          /\ SetState("half")
          /\ UNCHANGED <<expiry, counters, win, env, local>>

\* toHalfOpenOrReject: the checks under the lock, then four stores that
\* goroutines outside the lock see one by one.
ToHalfOpenOrReject(t) ==
    /\ mu = None
    /\ \/ /\ state # "open"
          /\ Reads(t, "toHalf", "recheck")
       \/ /\ state = "open" /\ now < expiry
          /\ Reads(t, "toHalf", "idle")
       \/ /\ state = "open" /\ now >= expiry
          /\ Acquire(t)
          /\ Move(t, "toHalf", "half1")
          /\ SetState("half")
          /\ UNCHANGED <<expiry, counters, win, env, local>>

Recheck(t) ==
    Reads(t, "recheck", IF state = "half" THEN "take" ELSE "idle")

NewEpoch(t) ==
    \/ /\ Move(t, "half1", "half2")
       /\ halfOpenGen' = halfOpenGen + 1
       /\ UNCHANGED <<halfOpenSuccess, halfOpenCount, mu>>
       /\ UNCHANGED <<state, expiry, win, env, local, openedAt>>
    \/ /\ Move(t, "half2", "half3")
       /\ halfOpenSuccess' = 0
       /\ UNCHANGED <<halfOpenGen, halfOpenCount, mu>>
       /\ UNCHANGED <<state, expiry, win, env, local, openedAt>>
    \/ /\ Move(t, "half3", "capture")
       /\ halfOpenCount' = 1
       /\ Release(t)
       /\ UNCHANGED <<halfOpenGen, halfOpenSuccess>>
       /\ UNCHANGED <<state, expiry, win, env, local, openedAt>>

-----------------------------------------------------------------------------
\* The epoch before the current one is captured.
CapturePrevious(t) ==
    /\ \/ Move(t, "capture", "slot")
       \/ Move(t, "capture", "failure")
    /\ gen' = [gen EXCEPT ![t] = halfOpenGen - 1]
    /\ UNCHANGED <<state, expiry, counters, win, mu, env, guarded, openedAt>>

\* probeGen := halfOpenGen.Load(), after admission; a cancelled ctx is a failure.
Capture(t) ==
    /\ \/ Move(t, "capture", "slot")
       \/ Move(t, "capture", "failure")
    /\ gen' = [gen EXCEPT ![t] = halfOpenGen]
    /\ UNCHANGED <<state, expiry, counters, win, mu, env, guarded, openedAt>>

\* halfOpenSlot := state.Load() = StateHalfOpen
CheckSlot(t) ==
    /\ Move(t, "slot", "fn")
    /\ guarded' = [guarded EXCEPT ![t] = (state = "half")]
    /\ UNCHANGED <<state, expiry, counters, win, mu, env, gen, openedAt>>

\* No panic is recorded.
FnUnguarded(t) ==
    \/ Reads(t, "fn", "success")
    \/ Reads(t, "fn", "failure")
    \/ Reads(t, "fn", "idle")

\* fn returns, fails or panics; only a guarded panic is recorded.
Fn(t) ==
    \/ Reads(t, "fn", "success")
    \/ Reads(t, "fn", "failure")
    \/ ~guarded[t] /\ Reads(t, "fn", "idle")

RecordSuccess(t) ==
    Reads(t, "success", CASE state = "half" -> "creditGen"
                          [] state = "closed" -> "windowOk"
                          [] state = "open" -> "idle")

CheckCreditGen(t) ==
    Reads(t, "creditGen", IF halfOpenGen = gen[t] THEN "credit" ELSE "idle")

Credit(t) ==
    /\ halfOpenSuccess' = halfOpenSuccess + 1
    /\ Move(t, "credit", IF halfOpenSuccess' >= MaxRequests THEN "toClosed" ELSE "idle")
    /\ UNCHANGED <<state, expiry, halfOpenCount, halfOpenGen, win, mu, env, local, openedAt>>

RecordFailure(t) ==
    Reads(t, "failure", CASE state = "half" -> "tripGen"
                          [] state = "closed" -> "windowFail"
                          [] state = "open" -> "idle")

CheckTripGen(t) ==
    Reads(t, "tripGen", IF halfOpenGen = gen[t] THEN "toOpen" ELSE "idle")

RecordWindow(t) ==
    /\ mu = None
    /\ \/ Move(t, "windowOk", "idle") /\ win' = Record(win, now, TRUE)
       \/ Move(t, "windowFail", "reread") /\ win' = Record(win, now, FALSE)
    /\ UNCHANGED <<state, expiry, counters, mu, env, local, openedAt>>

Reread(t) ==
    Reads(t, "reread", IF state = "closed" THEN "maybeTrip" ELSE "idle")

RateReached(w) ==
    /\ w.sumTotal >= MinRequests
    /\ IF FailPercent <= 0
       THEN w.sumFail > 0
       ELSE w.sumFail * 100 >= FailPercent * w.sumTotal

\* maybeTrip and tripLocked: the state is stored before the expiry.
MaybeTrip(t) ==
    \/ /\ mu = None /\ state # "closed"
       /\ Reads(t, "maybeTrip", "idle")
    \/ /\ mu = None /\ state = "closed"
       /\ win' = Advance(win, now)
       /\ \/ /\ ~RateReached(win')
             /\ Move(t, "maybeTrip", "idle")
             /\ UNCHANGED <<state, mu, openedAt>>
          \/ /\ RateReached(win')
             /\ Move(t, "maybeTrip", "trip1")
             /\ Acquire(t)
             /\ SetState("open")
       /\ UNCHANGED <<expiry, counters, env, local>>
    \/ /\ Move(t, "trip1", "idle")
       /\ expiry' = now + OpenDuration
       /\ Release(t)
       /\ UNCHANGED <<state, counters, win, env, local, openedAt>>

ToOpen(t) ==
    \/ /\ Move(t, "toOpen", "open1")
       /\ Acquire(t)
       /\ SetState("open")
       /\ UNCHANGED <<expiry, counters, win, env, local>>
    \/ /\ Move(t, "open1", "open2")
       /\ expiry' = now + OpenDuration
       /\ UNCHANGED <<state, counters, win, mu, env, local, openedAt>>
    \/ /\ Move(t, "open2", "open3")
       /\ halfOpenSuccess' = 0
       /\ UNCHANGED <<state, expiry, halfOpenCount, halfOpenGen, win, mu, env, local, openedAt>>
    \/ /\ Move(t, "open3", "idle")
       /\ halfOpenCount' = 0
       /\ Release(t)
       /\ UNCHANGED <<state, expiry, halfOpenSuccess, halfOpenGen, win, env, local, openedAt>>

\* The state is not read again under the lock.
ToClosedUnchecked(t) ==
    \/ /\ Acquire(t)
       /\ Move(t, "toClosed", "closed1")
       /\ win' = Empty(now)
       /\ UNCHANGED <<state, expiry, counters, env, local, openedAt>>
    \/ /\ Move(t, "closed1", "closed2")
       /\ halfOpenSuccess' = 0
       /\ UNCHANGED <<state, expiry, halfOpenCount, halfOpenGen, win, mu, env, local, openedAt>>
    \/ /\ Move(t, "closed2", "closed3")
       /\ halfOpenCount' = 0
       /\ UNCHANGED <<state, expiry, halfOpenSuccess, halfOpenGen, win, mu, env, local, openedAt>>
    \/ /\ Move(t, "closed3", "idle")
       /\ SetState("closed")
       /\ Release(t)
       /\ UNCHANGED <<expiry, counters, win, env, local>>

ToClosed(t) ==
    \/ /\ mu = None /\ state # "half"
       /\ Reads(t, "toClosed", "idle")
    \/ /\ state = "half"
       /\ Acquire(t)
       /\ Move(t, "toClosed", "closed1")
       /\ win' = Empty(now)
       /\ UNCHANGED <<state, expiry, counters, env, local, openedAt>>
    \/ /\ Move(t, "closed1", "closed2")
       /\ halfOpenSuccess' = 0
       /\ UNCHANGED <<state, expiry, halfOpenCount, halfOpenGen, win, mu, env, local, openedAt>>
    \/ /\ Move(t, "closed2", "closed3")
       /\ halfOpenCount' = 0
       /\ UNCHANGED <<state, expiry, halfOpenSuccess, halfOpenGen, win, mu, env, local, openedAt>>
    \/ /\ Move(t, "closed3", "idle")
       /\ SetState("closed")
       /\ Release(t)
       /\ UNCHANGED <<expiry, counters, win, env, local>>

Step(t) ==
    \/ Enter(t) \/ CheckExpiry(t) \/ CheckRoom(t) \/ Take(t) \/ Undo(t)
    \/ ToHalfOpenOrReject(t) \/ Recheck(t) \/ NewEpoch(t)
    \/ Capture(t) \/ CheckSlot(t) \/ Fn(t)
    \/ RecordSuccess(t) \/ CheckCreditGen(t) \/ Credit(t) \/ ToClosed(t)
    \/ RecordFailure(t) \/ CheckTripGen(t) \/ ToOpen(t)
    \/ RecordWindow(t) \/ Reread(t) \/ MaybeTrip(t)

Next == Tick \/ \E t \in Threads : Step(t)

Spec == Init /\ [][Next]_vars

\* The same from an Open breaker whose cool-down is over, as a first call that failed
\* and OpenDuration later leave it.
Tripped ==
    /\ state = "open"
    /\ expiry = OpenDuration /\ now = OpenDuration
    /\ halfOpenCount = 0 /\ halfOpenSuccess = 0 /\ halfOpenGen = 0
    /\ win = Record(Empty(0), 0, FALSE)
    /\ mu = None
    /\ calls = 1
    /\ pc = [t \in Threads |-> "idle"]
    /\ gen = [t \in Threads |-> 0]
    /\ guarded = [t \in Threads |-> FALSE]
    /\ openedAt = 0

TrippedSpec == Tripped /\ [][Next]_vars

\* Goroutines are interchangeable.
Symmetry == Permutations(Threads)

-----------------------------------------------------------------------------
States == {"closed", "open", "half"}

Points ==
    {"idle", "expiry", "room", "take", "undo", "toHalf", "recheck", "half1", "half2",
     "half3", "capture", "slot", "fn", "success", "creditGen", "credit", "toClosed",
     "closed1", "closed2", "closed3", "failure", "tripGen", "toOpen", "open1", "open2",
     "open3", "windowOk", "windowFail", "reread", "maybeTrip", "trip1"}

TypeOK ==
    /\ state \in States
    /\ expiry \in Nat
    /\ halfOpenCount \in Int
    /\ halfOpenSuccess \in Nat
    /\ halfOpenGen \in Nat
    /\ win \in WindowType(Nat, Int)
    /\ mu \in Threads \cup {None}
    /\ now \in Nat /\ calls \in Nat
    /\ pc \in [Threads -> Points]
    /\ gen \in [Threads -> Nat]
    /\ guarded \in [Threads -> BOOLEAN]
    /\ openedAt \in Nat

\* t's call can still credit or trip the current epoch, or t is inside a
\* transition or about to give a slot back.
Settles(t) ==
    \/ pc[t] \in {"capture", "undo", "credit", "toClosed", "toOpen"}
    \/ /\ gen[t] = halfOpenGen
       /\ pc[t] \in {"slot", "fn", "success", "creditGen", "failure", "tripGen"}

\* A probe slot that is taken is given back or decided on: when the slots are all
\* taken, so that new calls are rejected, some call in flight can still decide the
\* epoch or is about to give a slot back, despite panicking, cancelled and stale
\* probes.
SlotsSettle ==
    (state = "half" /\ mu = None /\ halfOpenCount >= MaxRequests)
        => \E t \in Threads : Settles(t)

\* "wedging the breaker in HalfOpen" (breaker.go:225) is what the accounting of
\* slots is to prevent: whenever beforeCall rejects every new call in HalfOpen,
\* which it also does for a negative count (uint32(count) is then huge), some call
\* in flight can still decide the epoch or give a slot back.
NoWedge ==
    (state = "half" /\ mu = None /\ (halfOpenCount < 0 \/ halfOpenCount >= MaxRequests))
        => \E t \in Threads : Settles(t)

\* The cool-down is kept: the breaker goes half-open no sooner than
\* OpenDuration after it was last stored Open, although the state is stored
\* before the expiry and callers read both without the lock.
CooldownKept ==
    [][state = "open" /\ state' = "half" => now >= openedAt + OpenDuration]_vars

\* The breaker closes only from HalfOpen, and it closes with an empty window:
\* a toClosed that lost a race with a trip does nothing, and no call slips
\* into the window between its reset and the store of the state.
RecoveryIsClean ==
    [][state # "closed" /\ state' = "closed"
         => state = "half" /\ win'.sumTotal = 0 /\ win'.sumFail = 0]_vars

=============================================================================
