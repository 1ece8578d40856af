---------------------------- MODULE BreakerProofs ----------------------------
(***************************************************************************)
(* Theorems about Breaker, for every number of goroutines and calls and    *)
(* every setting.  The inductive invariant says what b.mu protects although*)
(* the state and the expiry are read without it.                           *)
(***************************************************************************)
EXTENDS Breaker, FiniteSetTheorems, TLAPS

\* The points at which a goroutine holds b.mu, and those at which the state is
\* already Open and the expiry is still the old one.
Locked == {"half1", "half2", "half3", "closed1", "closed2", "closed3",
           "open1", "open2", "open3", "trip1"}
Storing == {"open1", "trip1"}
Closing == {"closed1", "closed2", "closed3"}

ControlOK ==
    /\ state \in States
    /\ expiry \in Nat
    /\ mu \in Threads \cup {None}
    /\ now \in Nat
    /\ openedAt \in Nat /\ openedAt <= now
    /\ pc \in [Threads -> Points]

\* b.mu is held exactly by the goroutine that is inside a critical section.
LockOK == \A t \in Threads : pc[t] \in Locked <=> mu = t

\* Outside the gap between the two stores, an open breaker's expiry is at least
\* OpenDuration after it was opened.
ExpiryOK ==
    (state = "open" /\ \A t \in Threads : pc[t] \notin Storing)
        => expiry >= openedAt + OpenDuration

\* While toClosed is under way the state stays HalfOpen and the window empty.
ClosingOK ==
    \A t \in Threads : pc[t] \in Closing
        => state = "half" /\ win.sumTotal = 0 /\ win.sumFail = 0

IInv == ControlOK /\ LockOK /\ ExpiryOK /\ ClosingOK

-----------------------------------------------------------------------------
\* A step that leaves the lock, the clock, the state, the expiry and the window
\* alone, and moves a goroutine between points outside the critical sections.
LEMMA OutsideStep ==
  ASSUME IInv, NEW t \in Threads, NEW p \in Points \ Locked,
         pc[t] \notin Locked, pc' = [pc EXCEPT ![t] = p],
         UNCHANGED <<state, expiry, win, mu, now, openedAt>>
  PROVE  IInv'
<1>1. ControlOK' BY DEF IInv, ControlOK
<1>2. LockOK' BY DEF IInv, ControlOK, LockOK
<1>3. ExpiryOK' BY DEF IInv, ControlOK, ExpiryOK, Storing, Locked
<1>4. ClosingOK' BY DEF IInv, ControlOK, ClosingOK, Closing, Locked
<1>5. QED BY <1>1, <1>2, <1>3, <1>4 DEF IInv

\* A step inside a critical section that changes none of these either.
LEMMA InsideStep ==
  ASSUME IInv, NEW t \in Threads, NEW p \in Locked \ Storing,
         pc[t] \in Locked \ Storing, pc' = [pc EXCEPT ![t] = p],
         p \in Closing => pc[t] \in Closing,
         UNCHANGED <<state, expiry, win, mu, now, openedAt>>
  PROVE  IInv'
<1>1. ControlOK' BY DEF IInv, ControlOK, Locked, Points
<1>2. LockOK' BY DEF IInv, ControlOK, LockOK, Locked
<1>3. ExpiryOK' BY DEF IInv, ControlOK, ExpiryOK, Storing, Locked
<1>4. ClosingOK' BY DEF IInv, ControlOK, ClosingOK, Closing, Locked
<1>5. QED BY <1>1, <1>2, <1>3, <1>4 DEF IInv

\* The last step of a critical section, which releases b.mu.
LEMMA LeaveStep ==
  ASSUME IInv, NEW t \in Threads, NEW p \in Points \ Locked,
         pc[t] \in Locked \ Storing, pc' = [pc EXCEPT ![t] = p], Release(t),
         UNCHANGED <<state, expiry, win, now, openedAt>>
  PROVE  IInv'
<1>1. ControlOK' BY DEF IInv, ControlOK, Release
<1>2. LockOK' BY NoneAssumption DEF IInv, ControlOK, LockOK, Release
<1>3. ExpiryOK' BY DEF IInv, ControlOK, ExpiryOK, Storing, Locked
<1>4. ClosingOK' BY DEF IInv, ControlOK, ClosingOK, Closing, Locked
<1>5. QED BY <1>1, <1>2, <1>3, <1>4 DEF IInv

\* The breaker opens: t has taken b.mu and stored Open, not yet the expiry.
LEMMA OpenStep ==
  ASSUME IInv, NEW t \in Threads, NEW p \in Storing,
         pc[t] \notin Locked, pc' = [pc EXCEPT ![t] = p], Acquire(t), SetState("open"),
         UNCHANGED <<expiry, now>>
  PROVE  IInv'
<1>1. ControlOK' BY DEF IInv, ControlOK, Acquire, SetState, States, Points, Storing
<1>2. LockOK' BY NoneAssumption DEF IInv, ControlOK, LockOK, Acquire, Storing, Locked
<1>3. ExpiryOK' BY DEF IInv, ControlOK, ExpiryOK
<1>4. ClosingOK'
  BY NoneAssumption
     DEF IInv, ControlOK, LockOK, ClosingOK, Acquire, Closing, Storing, Locked
<1>5. QED BY <1>1, <1>2, <1>3, <1>4 DEF IInv

\* The store of the expiry, with b.mu kept or released.
LEMMA ExpiryStep ==
  ASSUME IInv, NEW t \in Threads, NEW p \in {"open2", "idle"},
         pc[t] \in Storing, pc' = [pc EXCEPT ![t] = p],
         expiry' = now + OpenDuration,
         IF p = "idle" THEN Release(t) ELSE mu' = mu,
         UNCHANGED <<state, win, now, openedAt>>
  PROVE  IInv'
<1>1. ControlOK' BY BreakerAssumption DEF IInv, ControlOK, Release, Points
<1>2. LockOK' BY NoneAssumption DEF IInv, ControlOK, LockOK, Release, Storing, Locked
<1>3. ExpiryOK' BY BreakerAssumption DEF IInv, ControlOK, ExpiryOK
<1>4. ClosingOK' BY DEF IInv, ControlOK, ClosingOK, Closing
<1>5. QED BY <1>1, <1>2, <1>3, <1>4 DEF IInv

-----------------------------------------------------------------------------
\* beforeCall: the steps of admission that write no protected field.
LEMMA AdmissionSteps ==
  ASSUME IInv, NEW t \in Threads,
         \/ Enter(t) \/ CheckExpiry(t) \/ CheckRoom(t) \/ Take(t) \/ Undo(t) \/ Recheck(t)
  PROVE  IInv'
<1>0. pc \in [Threads -> Points] /\ state \in States BY DEF IInv, ControlOK
<1>1. \E p \in Points \ Locked : pc' = [pc EXCEPT ![t] = p]
  BY <1>0 DEF Enter, CheckExpiry, CheckRoom, Take, Undo, Recheck, Reads, Move, Points,
     Locked,
              States
<1>2. pc[t] \notin Locked
  BY DEF Enter, CheckExpiry, CheckRoom, Take, Undo, Recheck, Reads, Move, Locked
<1>3. UNCHANGED <<state, expiry, win, mu, now, openedAt>>
  BY DEF Enter, CheckExpiry, CheckRoom, Take, Undo, Recheck, Reads, env
<1>4. QED BY <1>1, <1>2, <1>3, OutsideStep

\* Around the call: capturing the epoch, fn, and what the outcome is checked for.
LEMMA CallSteps ==
  ASSUME IInv, NEW t \in Threads,
         \/ Capture(t) \/ CheckSlot(t) \/ Fn(t) \/ RecordSuccess(t) \/ CheckCreditGen(t)
         \/ Credit(t) \/ RecordFailure(t) \/ CheckTripGen(t) \/ Reread(t)
  PROVE  IInv'
<1>0. pc \in [Threads -> Points] /\ state \in States BY DEF IInv, ControlOK
<1>1. \E p \in Points \ Locked : pc' = [pc EXCEPT ![t] = p]
  BY <1>0 DEF Capture, CheckSlot, Fn, RecordSuccess, CheckCreditGen, Credit,
     RecordFailure,
              CheckTripGen, Reread, Reads, Move, Points, Locked, States
<1>2. pc[t] \notin Locked
  BY DEF Capture, CheckSlot, Fn, RecordSuccess, CheckCreditGen, Credit, RecordFailure,
         CheckTripGen, Reread, Reads, Move, Locked
<1>3. UNCHANGED <<state, expiry, win, mu, now, openedAt>>
  BY DEF Capture, CheckSlot, Fn, RecordSuccess, CheckCreditGen, Credit, RecordFailure,
         CheckTripGen, Reread, Reads, env
<1>4. QED BY <1>1, <1>2, <1>3, OutsideStep

\* toHalfOpenOrReject and the start of a probe epoch.
LEMMA HalfOpenSteps ==
  ASSUME IInv, NEW t \in Threads, ToHalfOpenOrReject(t) \/ NewEpoch(t)
  PROVE  IInv'
<1>1. ASSUME NEW p \in {"recheck", "idle"}, Reads(t, "toHalf", p) PROVE IInv'
  <2>1. p \in Points \ Locked BY DEF Points, Locked
  <2>2. pc[t] \notin Locked /\ pc' = [pc EXCEPT ![t] = p] BY <1>1 DEF Reads, Move, Locked
  <2>3. UNCHANGED <<state, expiry, win, mu, now, openedAt>> BY <1>1 DEF Reads, env
  <2>4. QED BY <2>1, <2>2, <2>3, OutsideStep
<1>2. ASSUME Acquire(t), Move(t, "toHalf", "half1"), SetState("half"),
             UNCHANGED <<expiry, counters, win, env, local>>
      PROVE  IInv'
  <2>1. ControlOK'
    BY <1>2 DEF IInv, ControlOK, Acquire, Move, SetState, env, States, Points
  <2>2. LockOK'
    BY <1>2, NoneAssumption DEF IInv, ControlOK, LockOK, Acquire, Move, Locked
  <2>3. ExpiryOK' BY <1>2 DEF ExpiryOK, SetState
  <2>4. ClosingOK'
    BY <1>2, NoneAssumption
    DEF IInv, ControlOK, LockOK, ClosingOK, Acquire, Move, SetState, Closing, Locked
  <2>5. QED BY <2>1, <2>2, <2>3, <2>4 DEF IInv
<1>3. CASE NewEpoch(t)
  <2>1. UNCHANGED <<state, expiry, win, now, openedAt>> BY <1>3 DEF NewEpoch, env
  <2>2. ASSUME NEW p \in {"half2", "half3"}, pc' = [pc EXCEPT ![t] = p], mu' = mu,
               pc[t] \in {"half1", "half2"}
        PROVE  IInv'
    <3>1. p \in Locked \ Storing /\ p \notin Closing BY DEF Locked, Storing, Closing
    <3>2. pc[t] \in Locked \ Storing BY <2>2 DEF Locked, Storing
    <3>3. QED BY <2>1, <2>2, <3>1, <3>2, InsideStep
  <2>3. ASSUME Move(t, "half3", "capture"), Release(t) PROVE IInv'
    <3>1. "capture" \in Points \ Locked BY DEF Points, Locked
    <3>2. pc[t] \in Locked \ Storing BY <2>3 DEF Move, Locked, Storing
    <3>3. QED BY <2>1, <2>3, <3>1, <3>2, LeaveStep DEF Move
  <2>4. QED BY <1>3, <2>2, <2>3 DEF NewEpoch, Move
<1>4. QED BY <1>1, <1>2, <1>3 DEF ToHalfOpenOrReject

\* toOpen.
LEMMA ToOpenSteps ==
  ASSUME IInv, NEW t \in Threads, ToOpen(t)
  PROVE  IInv'
<1>1. CASE Move(t, "toOpen", "open1") /\ Acquire(t) /\ SetState("open")
           /\ UNCHANGED <<expiry, counters, win, env, local>>
  <2>1. "open1" \in Storing /\ pc[t] \notin Locked BY <1>1 DEF Storing, Move, Locked
  <2>2. QED BY <1>1, <2>1, OpenStep DEF Move, env
<1>2. CASE Move(t, "open1", "open2") /\ expiry' = now + OpenDuration
           /\ UNCHANGED <<state, counters, win, mu, env, local, openedAt>>
  <2>1. pc[t] \in Storing BY <1>2 DEF Move, Storing
  <2>2. QED BY <1>2, <2>1, ExpiryStep DEF Move, env
<1>3. CASE Move(t, "open2", "open3")
           /\ UNCHANGED <<state, expiry, halfOpenCount, halfOpenGen, win, mu, env, local, openedAt>>
  <2>1. "open3" \in Locked \ Storing /\ "open3" \notin Closing /\ pc[t] \in Locked \ Storing
    BY <1>3 DEF Move, Locked, Storing, Closing
  <2>2. QED BY <1>3, <2>1, InsideStep DEF Move, env
<1>4. CASE Move(t, "open3", "idle") /\ Release(t)
           /\ UNCHANGED <<state, expiry, halfOpenSuccess, halfOpenGen, win, env, local, openedAt>>
  <2>1. "idle" \in Points \ Locked /\ pc[t] \in Locked \ Storing
    BY <1>4 DEF Move, Points, Locked, Storing
  <2>2. QED BY <1>4, <2>1, LeaveStep DEF Move, env
<1>5. QED BY <1>1, <1>2, <1>3, <1>4 DEF ToOpen

\* toClosed.
LEMMA ToClosedSteps ==
  ASSUME IInv, NEW t \in Threads, ToClosed(t)
  PROVE  IInv'
<1>1. CASE Reads(t, "toClosed", "idle")
  <2>1. "idle" \in Points \ Locked /\ pc[t] \notin Locked BY <1>1 DEF Reads, Move, Points, Locked
  <2>2. QED BY <1>1, <2>1, OutsideStep DEF Reads, Move, env
<1>2. CASE state = "half" /\ Acquire(t) /\ Move(t, "toClosed", "closed1") /\ win' = Empty(now)
           /\ UNCHANGED <<state, expiry, counters, env, local, openedAt>>
  <2>1. ControlOK' BY <1>2 DEF IInv, ControlOK, Acquire, Move, env, Points
  <2>2. LockOK'
    BY <1>2, NoneAssumption DEF IInv, ControlOK, LockOK, Acquire, Move, Locked
  <2>3. ExpiryOK' BY <1>2 DEF ExpiryOK
  <2>4. ClosingOK' BY <1>2 DEF ClosingOK, Empty
  <2>5. QED BY <2>1, <2>2, <2>3, <2>4 DEF IInv
<1>3. ASSUME NEW p \in {"closed2", "closed3"}, pc' = [pc EXCEPT ![t] = p],
             pc[t] \in {"closed1", "closed2"},
             UNCHANGED <<state, expiry, win, mu, env, openedAt>>
      PROVE  IInv'
  <2>1. p \in Locked \ Storing /\ pc[t] \in Locked \ Storing /\ pc[t] \in Closing
    BY <1>3 DEF Locked, Storing, Closing
  <2>2. QED BY <1>3, <2>1, InsideStep DEF env
<1>4. CASE Move(t, "closed3", "idle") /\ SetState("closed") /\ Release(t)
           /\ UNCHANGED <<expiry, counters, win, env, local>>
  <2>1. ControlOK' BY <1>4 DEF IInv, ControlOK, Release, Move, SetState, env, Points, States
  <2>2. LockOK'
    BY <1>4, NoneAssumption DEF IInv, ControlOK, LockOK, Release, Move, Locked
  <2>3. ExpiryOK' BY <1>4 DEF ExpiryOK, SetState
  <2>4. ClosingOK'
    BY <1>4, NoneAssumption
    DEF IInv, ControlOK, LockOK, ClosingOK, Release, Move, Closing, Locked
  <2>5. QED BY <2>1, <2>2, <2>3, <2>4 DEF IInv
<1>5. QED BY <1>1, <1>2, <1>3, <1>4 DEF ToClosed, Move

\* A step outside the critical sections, taken while b.mu is free, may change the
\* window: nobody is inside toClosed.
LEMMA WindowStep ==
  ASSUME IInv, NEW t \in Threads, NEW p \in Points \ Locked,
         mu = None, pc[t] \notin Locked, pc' = [pc EXCEPT ![t] = p],
         UNCHANGED <<state, expiry, mu, now, openedAt>>
  PROVE  IInv'
<1>1. ControlOK' BY DEF IInv, ControlOK
<1>2. LockOK' BY DEF IInv, ControlOK, LockOK
<1>3. ExpiryOK' BY DEF IInv, ControlOK, ExpiryOK, Storing, Locked
<1>4. ClosingOK' BY NoneAssumption DEF IInv, ControlOK, LockOK, ClosingOK, Closing, Locked
<1>5. QED BY <1>1, <1>2, <1>3, <1>4 DEF IInv

\* recordWindow and maybeTrip.
LEMMA WindowSteps ==
  ASSUME IInv, NEW t \in Threads, RecordWindow(t) \/ MaybeTrip(t)
  PROVE  IInv'
<1>1. CASE RecordWindow(t)
  <2>1. \E p \in {"idle", "reread"} : pc' = [pc EXCEPT ![t] = p]
    BY <1>1 DEF RecordWindow, Move
  <2>2. {"idle", "reread"} \subseteq Points \ Locked BY DEF Points, Locked
  <2>3. pc[t] \notin Locked BY <1>1 DEF RecordWindow, Move, Locked
  <2>4. QED BY <1>1, <2>1, <2>2, <2>3, WindowStep DEF RecordWindow, env
<1>2. CASE Reads(t, "maybeTrip", "idle")
  <2>1. "idle" \in Points \ Locked /\ pc[t] \notin Locked
    BY <1>2 DEF Reads, Move, Points, Locked
  <2>2. QED BY <1>2, <2>1, OutsideStep DEF Reads, Move, env
<1>3. CASE mu = None /\ Move(t, "maybeTrip", "idle") /\ UNCHANGED <<state, mu, openedAt>>
           /\ UNCHANGED <<expiry, counters, env, local>>
  <2>1. "idle" \in Points \ Locked /\ pc[t] \notin Locked BY <1>3 DEF Move, Points, Locked
  <2>2. QED BY <1>3, <2>1, WindowStep DEF Move, env
<1>4. CASE Move(t, "maybeTrip", "trip1") /\ Acquire(t) /\ SetState("open")
           /\ UNCHANGED <<expiry, counters, env, local>>
  <2>1. "trip1" \in Storing /\ pc[t] \notin Locked BY <1>4 DEF Storing, Move, Locked
  <2>2. QED BY <1>4, <2>1, OpenStep DEF Move, env
<1>5. CASE Move(t, "trip1", "idle") /\ expiry' = now + OpenDuration /\ Release(t)
           /\ UNCHANGED <<state, counters, win, env, local, openedAt>>
  <2>1. pc[t] \in Storing BY <1>5 DEF Move, Storing
  <2>2. QED BY <1>5, <2>1, ExpiryStep DEF Move, env
<1>6. QED BY <1>1, <1>2, <1>3, <1>4, <1>5 DEF MaybeTrip

\* The inductive invariant holds at the start and every step keeps it.
LEMMA Inductive == Spec => []IInv
<1>1. Init => IInv
  BY NoneAssumption
  DEF Init, IInv, ControlOK, LockOK, ExpiryOK, ClosingOK, States, Points, Locked, Closing
<1>2. ASSUME IInv, Tick PROVE IInv'
  <2>1. ControlOK' BY <1>2 DEF IInv, ControlOK, Tick
  <2>2. LockOK' BY <1>2 DEF IInv, LockOK, Tick
  <2>3. ExpiryOK' BY <1>2 DEF IInv, ExpiryOK, Tick
  <2>4. ClosingOK' BY <1>2 DEF IInv, ClosingOK, Tick
  <2>5. QED BY <2>1, <2>2, <2>3, <2>4 DEF IInv
<1>3. ASSUME IInv, NEW t \in Threads, Step(t) PROVE IInv'
  BY <1>3, AdmissionSteps, CallSteps, HalfOpenSteps, ToOpenSteps, ToClosedSteps,
     WindowSteps
  DEF Step
<1>4. ASSUME IInv, UNCHANGED vars PROVE IInv'
  BY <1>4 DEF vars, env, IInv, ControlOK, LockOK, ExpiryOK, ClosingOK
<1>5. IInv /\ [Next]_vars => IInv' BY <1>2, <1>3, <1>4 DEF Next
<1>6. QED BY <1>1, <1>5, PTL DEF Spec

-----------------------------------------------------------------------------
\* The breaker goes half-open no sooner than OpenDuration after it was last
\* stored Open, whoever reads the state between the two stores of a trip.
THEOREM CooldownIsKept == Spec => CooldownKept
<1>1. ASSUME IInv, NEW t \in Threads, Step(t), state = "open", state' = "half"
      PROVE  now >= openedAt + OpenDuration
  <2>1. ToHalfOpenOrReject(t)
    BY <1>1 DEF Step, Enter, CheckExpiry, CheckRoom, Take, Undo, Recheck, NewEpoch,
       Capture,
                CheckSlot, Fn, RecordSuccess, CheckCreditGen, Credit, ToClosed, RecordFailure,
                CheckTripGen, ToOpen, RecordWindow, Reread, MaybeTrip, Reads, SetState
  <2>2. mu = None /\ now >= expiry BY <1>1, <2>1 DEF ToHalfOpenOrReject, Reads
  <2>3. \A u \in Threads : pc[u] \notin Storing
    BY <1>1, <2>2, NoneAssumption DEF IInv, LockOK, Storing, Locked
  <2>4. expiry >= openedAt + OpenDuration BY <1>1, <2>3 DEF IInv, ExpiryOK
  <2>5. QED BY <1>1, <2>2, <2>4, BreakerAssumption DEF IInv, ControlOK
<1>2. ASSUME IInv, [Next]_vars
      PROVE  [state = "open" /\ state' = "half" => now >= openedAt + OpenDuration]_vars
  BY <1>1, <1>2 DEF Next, Tick, vars
<1>3. QED BY <1>2, Inductive, PTL DEF Spec, CooldownKept

\* The breaker closes only from HalfOpen and with an empty window.
THEOREM RecoveryStartsClean == Spec => RecoveryIsClean
<1>1. ASSUME IInv, NEW t \in Threads, Step(t), state # "closed", state' = "closed"
      PROVE  state = "half" /\ win'.sumTotal = 0 /\ win'.sumFail = 0
  <2>1. pc[t] = "closed3" /\ win' = win
    BY <1>1 DEF Step, Enter, CheckExpiry, CheckRoom, Take, Undo, Recheck, NewEpoch,
       Capture,
                CheckSlot, Fn, RecordSuccess, CheckCreditGen, Credit, ToClosed, RecordFailure,
                CheckTripGen, ToOpen, RecordWindow, Reread, MaybeTrip, Reads, SetState,
                ToHalfOpenOrReject, Move
  <2>2. QED BY <1>1, <2>1 DEF IInv, ClosingOK, Closing
<1>2. ASSUME IInv, [Next]_vars
      PROVE  [state # "closed" /\ state' = "closed"
                => state = "half" /\ win'.sumTotal = 0 /\ win'.sumFail = 0]_vars
  BY <1>1, <1>2 DEF Next, Tick, vars
<1>3. QED BY <1>2, Inductive, PTL DEF Spec, RecoveryIsClean

-----------------------------------------------------------------------------
\* The second invariant is about the probe slots of HalfOpen.  Settlers are the
\* calls that can still decide the epoch or give a slot back.
Settlers == {t \in Threads : Settles(t)}
Opening == {"open1", "open2", "open3", "trip1"}
Starting == {"half1", "half2", "half3"}

CountersOK ==
    /\ halfOpenCount \in Int
    /\ halfOpenSuccess \in Nat
    /\ halfOpenGen \in Nat
    /\ gen \in [Threads -> Nat]
    /\ guarded \in [Threads -> BOOLEAN]
    /\ \A t \in Threads : gen[t] <= halfOpenGen

\* Inside a transition the state is already the one it leads to or still the one
\* it leaves.
PhaseOK ==
    \A t \in Threads : /\ pc[t] \in Opening => state = "open"
                       /\ pc[t] \in Starting => state = "half"

\* A call of the current epoch that runs fn has its panic guard.
GuardOK ==
    (state = "half" /\ \A u \in Threads : pc[u] # "half1")
        => \A t \in Threads : pc[t] = "fn" /\ gen[t] = halfOpenGen => guarded[t]

\* Every slot taken is a success counted or a call that still settles.
SlotsOK ==
    /\ IsFiniteSet(Settlers)
    /\ (state = "half" /\ mu = None)
          => halfOpenCount <= halfOpenSuccess + Cardinality(Settlers)

\* The call that counted the last success needed is on its way to toClosed.
DecidedOK ==
    (state = "half" /\ \A u \in Threads : pc[u] \notin {"half1", "half2"} \cup Closing)
        => halfOpenSuccess < MaxRequests \/ \E t \in Threads : pc[t] = "toClosed"

JInv == CountersOK /\ PhaseOK /\ GuardOK /\ SlotsOK /\ DecidedOK

\* How the number of settlers changes when only t's membership does.
LEMMA CountSettlers ==
  ASSUME NEW A, NEW B, NEW t, IsFiniteSet(A), B \ {t} = A \ {t}
  PROVE  /\ IsFiniteSet(B)
         /\ Cardinality(A) \in Nat /\ Cardinality(B) \in Nat
         /\ Cardinality(B) >= Cardinality(A) - 1
         /\ (t \in A => t \in B) => Cardinality(B) >= Cardinality(A)
         /\ t \notin A /\ t \in B => Cardinality(B) >= Cardinality(A) + 1
<1>1. IsFiniteSet(A \ {t}) BY FS_RemoveElement
<1>2. IsFiniteSet((A \ {t}) \cup {t}) BY <1>1, FS_AddElement
<1>3. B = A \ {t} \/ B = (A \ {t}) \cup {t} OBVIOUS
<1>4. IsFiniteSet(B) BY <1>1, <1>2, <1>3
<1>5. Cardinality(A) \in Nat /\ Cardinality(B) \in Nat BY <1>4, FS_CardinalityType
<1>6. Cardinality(A \ {t}) = IF t \in A THEN Cardinality(A) - 1 ELSE Cardinality(A)
  BY FS_RemoveElement
<1>7. Cardinality(B \ {t}) = IF t \in B THEN Cardinality(B) - 1 ELSE Cardinality(B)
  BY <1>4, FS_RemoveElement
<1>8. QED BY <1>4, <1>5, <1>6, <1>7

\* A step of t that leaves the epoch alone changes t's membership only.
LEMMA SettlersStep ==
  ASSUME NEW t \in Threads, NEW p, pc \in [Threads -> Points], CountersOK,
         pc' = [pc EXCEPT ![t] = p], halfOpenGen' = halfOpenGen,
         gen' \in {gen, [gen EXCEPT ![t] = halfOpenGen]}
  PROVE  /\ Settlers' \ {t} = Settlers \ {t}
         /\ t \in Settlers <=> Settles(t)
         /\ t \in Settlers' <=> Settles(t)'
<1>1. ASSUME NEW u \in Threads, u # t PROVE Settles(u)' <=> Settles(u)
  <2>1. pc'[u] = pc[u] /\ gen'[u] = gen[u] BY <1>1 DEF CountersOK
  <2>2. QED BY <2>1 DEF Settles
<1>2. QED BY <1>1 DEF Settlers

-----------------------------------------------------------------------------
\* A step outside the critical sections that writes no shared counter: it may not
\* drop a call that still settles, nor a decided epoch's toClosed.
LEMMA PlainStep ==
  ASSUME IInv, JInv, NEW t \in Threads, NEW p \in Points \ Locked,
         pc[t] \notin Locked, pc' = [pc EXCEPT ![t] = p],
         UNCHANGED <<state, mu, counters>>,
         gen' \in {gen, [gen EXCEPT ![t] = halfOpenGen]},
         guarded' \in {guarded, [guarded EXCEPT ![t] = (state = "half")]},
         p = "fn" => guarded' = [guarded EXCEPT ![t] = (state = "half")],
         state = "half" => pc[t] # "toClosed",
         state = "half" /\ mu = None /\ Settles(t) => Settles(t)'
  PROVE  JInv'
<1>0. pc \in [Threads -> Points] BY DEF IInv, ControlOK
<1>1. CountersOK'
  <2>1. guarded' \in [Threads -> BOOLEAN] BY Zenon DEF JInv, CountersOK
  <2>2. gen' \in [Threads -> Nat] /\ \A s \in Threads : gen'[s] <= halfOpenGen
    BY DEF JInv, CountersOK
  <2>3. QED BY <2>1, <2>2 DEF JInv, CountersOK, counters
<1>2. PhaseOK' BY <1>0 DEF JInv, PhaseOK, Locked, Opening, Starting
<1>3. GuardOK'
  <2>1. SUFFICES ASSUME state = "half", \A u \in Threads : pc'[u] # "half1",
                        NEW s \in Threads, pc'[s] = "fn", gen'[s] = halfOpenGen
                 PROVE  guarded'[s]
    BY DEF GuardOK, counters
  <2>2. CASE s = t BY <1>0, <2>1, <2>2 DEF JInv, CountersOK
  <2>3. CASE s # t
    <3>1. \A u \in Threads : pc[u] # "half1" BY <1>0, <2>1 DEF Locked
    <3>2. pc[s] = "fn" /\ gen[s] = halfOpenGen /\ guarded'[s] = guarded[s]
      BY <1>0, <2>1, <2>3 DEF JInv, CountersOK
    <3>3. QED BY <2>1, <3>1, <3>2 DEF JInv, GuardOK
  <2>4. QED BY <2>2, <2>3
<1>4. SlotsOK'
  <2>1. Settlers' \ {t} = Settlers \ {t} /\ (t \in Settlers <=> Settles(t))
        /\ (t \in Settlers' <=> Settles(t)')
    BY <1>0, SettlersStep DEF JInv, counters
  <2>2. IsFiniteSet(Settlers) BY DEF JInv, SlotsOK
  <2>3. IsFiniteSet(Settlers') BY <2>1, <2>2, CountSettlers
  <2>4. ASSUME state = "half", mu = None
        PROVE  halfOpenCount <= halfOpenSuccess + Cardinality(Settlers')
    <3>1. Cardinality(Settlers') >= Cardinality(Settlers) /\ Cardinality(Settlers) \in Nat
          /\ Cardinality(Settlers') \in Nat
      BY <2>1, <2>2, <2>4, CountSettlers
    <3>2. halfOpenCount <= halfOpenSuccess + Cardinality(Settlers) BY <2>4 DEF JInv, SlotsOK
    <3>3. QED BY <3>1, <3>2 DEF JInv, CountersOK
  <2>5. QED BY <2>3, <2>4 DEF SlotsOK, counters
<1>5. DecidedOK' BY <1>0 DEF JInv, DecidedOK, Locked, Closing, counters
<1>6. QED BY <1>1, <1>2, <1>3, <1>4, <1>5 DEF JInv

\* A step that takes a slot, gives one back or counts a success.
LEMMA CounterStep ==
  ASSUME IInv, JInv, NEW t \in Threads, Take(t) \/ Undo(t) \/ Credit(t)
  PROVE  JInv'
<1>0. pc \in [Threads -> Points] BY DEF IInv, ControlOK
<1>1. PICK p \in {"idle", "undo", "capture", "toClosed"} : pc' = [pc EXCEPT ![t] = p]
  BY DEF Take, Undo, Credit, Move
<1>2. pc[t] \in {"take", "undo", "credit"} BY DEF Take, Undo, Credit, Move
<1>3. UNCHANGED <<state, mu, halfOpenGen, gen, guarded>> BY DEF Take, Undo, Credit, local
<1>4. CountersOK'
  <2>1. halfOpenCount' \in Int /\ halfOpenSuccess' \in Nat
    BY DEF JInv, CountersOK, Take, Undo, Credit
  <2>2. QED BY <1>3, <2>1 DEF JInv, CountersOK
<1>5. PhaseOK' BY <1>0, <1>1, <1>3 DEF JInv, PhaseOK, Opening, Starting
<1>6. GuardOK' BY <1>0, <1>1, <1>2, <1>3 DEF JInv, GuardOK
<1>7. SlotsOK'
  <2>1. Settlers' \ {t} = Settlers \ {t} /\ (t \in Settlers <=> Settles(t))
        /\ (t \in Settlers' <=> Settles(t)')
    BY <1>0, <1>1, <1>3, SettlersStep DEF JInv
  <2>2. IsFiniteSet(Settlers) BY DEF JInv, SlotsOK
  <2>3. /\ IsFiniteSet(Settlers')
        /\ Cardinality(Settlers) \in Nat /\ Cardinality(Settlers') \in Nat
        /\ Cardinality(Settlers') >= Cardinality(Settlers) - 1
        /\ t \notin Settlers /\ t \in Settlers'
             => Cardinality(Settlers') >= Cardinality(Settlers) + 1
    BY <2>1, <2>2, CountSettlers
  <2>4. ASSUME state = "half", mu = None
        PROVE  halfOpenCount' <= halfOpenSuccess' + Cardinality(Settlers')
    <3>1. halfOpenCount <= halfOpenSuccess + Cardinality(Settlers)
          /\ halfOpenCount \in Int /\ halfOpenSuccess \in Nat
      BY <2>4 DEF JInv, SlotsOK, CountersOK
    <3>2. CASE Take(t)
      <4>1. ~Settles(t) BY <3>2 DEF Take, Move, Settles
      <4>2. Settles(t)' BY <1>0, <3>2 DEF Take, Move, Settles
      <4>3. halfOpenCount' = halfOpenCount + 1 /\ halfOpenSuccess' = halfOpenSuccess
        BY <3>2 DEF Take
      <4>4. QED BY <2>1, <2>3, <3>1, <4>1, <4>2, <4>3
    <3>3. CASE Undo(t)
      <4>1. halfOpenCount' = halfOpenCount - 1 /\ halfOpenSuccess' = halfOpenSuccess
        BY <3>3 DEF Undo
      <4>2. QED BY <2>3, <3>1, <4>1
    <3>4. CASE Credit(t)
      <4>1. halfOpenCount' = halfOpenCount /\ halfOpenSuccess' = halfOpenSuccess + 1
        BY <3>4 DEF Credit
      <4>2. QED BY <2>3, <3>1, <4>1
    <3>5. QED BY <3>2, <3>3, <3>4
  <2>5. QED BY <1>3, <2>3, <2>4 DEF SlotsOK
<1>8. DecidedOK'
  <2>1. CASE Take(t) \/ Undo(t)
    <3>1. halfOpenSuccess' = halfOpenSuccess /\ pc[t] \in {"take", "undo"}
      BY <2>1 DEF Take, Undo, Move
    <3>2. QED BY <1>0, <1>1, <1>3, <3>1 DEF JInv, DecidedOK, Closing
  <2>2. CASE Credit(t)
    <3>1. pc[t] = "credit" /\ halfOpenSuccess' = halfOpenSuccess + 1
          /\ p = IF halfOpenSuccess' >= MaxRequests THEN "toClosed" ELSE "idle"
      BY <1>0, <1>1, <2>2 DEF Credit, Move
    <3>2. CASE halfOpenSuccess' >= MaxRequests
      BY <1>0, <1>1, <3>1, <3>2 DEF DecidedOK
    <3>3. CASE ~(halfOpenSuccess' >= MaxRequests)
      BY <3>1, <3>3, BreakerAssumption DEF DecidedOK, JInv, CountersOK
    <3>4. QED BY <3>2, <3>3
  <2>3. QED BY <2>1, <2>2
<1>9. QED BY <1>4, <1>5, <1>6, <1>7, <1>8 DEF JInv

\* beforeCall up to the slot, and the calls rejected there.
LEMMA AdmissionSlots ==
  ASSUME IInv, JInv, NEW t \in Threads,
         \/ Enter(t) \/ CheckExpiry(t) \/ CheckRoom(t) \/ Recheck(t)
         \/ \E p \in {"recheck", "idle"} : Reads(t, "toHalf", p)
  PROVE  JInv'
<1>0. pc \in [Threads -> Points] /\ state \in States BY DEF IInv, ControlOK
<1>1. \E p \in {"capture", "expiry", "room", "idle", "toHalf", "take", "recheck"} :
        pc' = [pc EXCEPT ![t] = p]
  BY <1>0 DEF Enter, CheckExpiry, CheckRoom, Recheck, Reads, Move, States
<1>2. pc[t] \in {"idle", "expiry", "room", "recheck", "toHalf"}
  BY DEF Enter, CheckExpiry, CheckRoom, Recheck, Reads, Move
<1>3. UNCHANGED <<state, mu, counters, gen, guarded>>
  BY DEF Enter, CheckExpiry, CheckRoom, Recheck, Reads, local
<1>4. pc[t] \notin Locked /\ pc[t] # "toClosed" /\ ~Settles(t) BY <1>2 DEF Settles, Locked
<1>5. {"capture", "expiry", "room", "idle", "toHalf", "take", "recheck"} \subseteq Points \ Locked
  BY DEF Points, Locked
<1>6. QED BY <1>1, <1>3, <1>4, <1>5, PlainStep

\* The outcome of a call that was admitted, up to the counters.
LEMMA OutcomeSlots ==
  ASSUME IInv, JInv, NEW t \in Threads,
         \/ Capture(t) \/ CheckSlot(t) \/ Fn(t) \/ RecordSuccess(t) \/ CheckCreditGen(t)
         \/ RecordFailure(t) \/ CheckTripGen(t)
  PROVE  JInv'
<1>0. pc \in [Threads -> Points] /\ state \in States /\ gen \in [Threads -> Nat]
      /\ guarded \in [Threads -> BOOLEAN]
  BY DEF IInv, ControlOK, JInv, CountersOK
<1>1. CASE Capture(t)
  <2>1. PICK p \in {"slot", "failure"} : pc' = [pc EXCEPT ![t] = p] BY <1>1 DEF Capture, Move
  <2>2. p \in Points \ Locked /\ p # "fn" BY DEF Points, Locked
  <2>3. pc[t] = "capture" /\ pc[t] \notin Locked BY <1>1 DEF Capture, Move, Locked
  <2>4. UNCHANGED <<state, mu, counters, guarded>> /\ gen' = [gen EXCEPT ![t] = halfOpenGen]
    BY <1>1 DEF Capture
  <2>5. Settles(t)' BY <1>0, <2>1, <2>4 DEF Settles, counters
  <2>6. QED BY <2>1, <2>2, <2>3, <2>4, <2>5, PlainStep
<1>2. CASE CheckSlot(t)
  <2>1. pc' = [pc EXCEPT ![t] = "fn"] /\ pc[t] = "slot" BY <1>2 DEF CheckSlot, Move
  <2>2. "fn" \in Points \ Locked /\ pc[t] \notin Locked BY <2>1 DEF Points, Locked
  <2>3. UNCHANGED <<state, mu, counters, gen>>
        /\ guarded' = [guarded EXCEPT ![t] = (state = "half")]
    BY <1>2 DEF CheckSlot
  <2>4. Settles(t) => Settles(t)' BY <1>0, <2>1, <2>3 DEF Settles, counters
  <2>5. QED BY <2>1, <2>2, <2>3, <2>4, PlainStep
<1>3. ASSUME NEW p \in {"success", "failure", "creditGen", "credit", "tripGen", "toOpen",
                        "windowOk", "windowFail", "idle"},
             NEW q \in {"fn", "success", "failure", "creditGen", "tripGen"},
             Reads(t, q, p), state = "half" /\ mu = None /\ Settles(t) => Settles(t)'
      PROVE  JInv'
  <2>1. p \in Points \ Locked /\ p # "fn" BY <1>3 DEF Points, Locked
  <2>2. pc[t] = q /\ pc[t] \notin Locked /\ pc[t] # "toClosed" /\ pc' = [pc EXCEPT ![t] = p]
    BY <1>3 DEF Reads, Move, Locked
  <2>3. UNCHANGED <<state, mu, counters, gen, guarded>> BY <1>3 DEF Reads, local
  <2>4. QED BY <1>3, <2>1, <2>2, <2>3, PlainStep
<1>4. CASE Fn(t)
  <2>1. PICK p \in {"success", "failure", "idle"} :
          Reads(t, "fn", p) /\ (p = "idle" => ~guarded[t])
    BY <1>4 DEF Fn
  <2>2. ASSUME state = "half", mu = None, Settles(t) PROVE Settles(t)'
    <3>1. gen[t] = halfOpenGen /\ pc[t] = "fn" BY <2>1, <2>2 DEF Settles, Reads, Move
    <3>2. \A u \in Threads : pc[u] # "half1"
      BY <2>2, NoneAssumption DEF IInv, LockOK, Locked
    <3>3. guarded[t] BY <2>2, <3>1, <3>2 DEF JInv, GuardOK
    <3>4. p # "idle" BY <2>1, <3>3
    <3>5. QED BY <1>0, <2>1, <3>1, <3>4 DEF Settles, Reads, Move, local, counters
  <2>3. QED BY <1>3, <2>1, <2>2
<1>5. CASE RecordSuccess(t)
  <2>1. PICK p \in {"creditGen", "windowOk", "idle"} :
          Reads(t, "success", p) /\ (state = "half" => p = "creditGen")
    BY <1>0, <1>5 DEF RecordSuccess, States
  <2>2. state = "half" /\ mu = None /\ Settles(t) => Settles(t)'
    BY <1>0, <2>1 DEF Settles, Reads, Move, local, counters
  <2>3. QED BY <1>3, <2>1, <2>2
<1>6. CASE RecordFailure(t)
  <2>1. PICK p \in {"tripGen", "windowFail", "idle"} :
          Reads(t, "failure", p) /\ (state = "half" => p = "tripGen")
    BY <1>0, <1>6 DEF RecordFailure, States
  <2>2. state = "half" /\ mu = None /\ Settles(t) => Settles(t)'
    BY <1>0, <2>1 DEF Settles, Reads, Move, local, counters
  <2>3. QED BY <1>3, <2>1, <2>2
<1>7. CASE CheckCreditGen(t)
  <2>1. PICK p \in {"credit", "idle"} :
          Reads(t, "creditGen", p) /\ (gen[t] = halfOpenGen => p = "credit")
    BY <1>7 DEF CheckCreditGen
  <2>2. state = "half" /\ mu = None /\ Settles(t) => Settles(t)'
    BY <1>0, <2>1 DEF Settles, Reads, Move, local, counters
  <2>3. QED BY <1>3, <2>1, <2>2
<1>8. CASE CheckTripGen(t)
  <2>1. PICK p \in {"toOpen", "idle"} :
          Reads(t, "tripGen", p) /\ (gen[t] = halfOpenGen => p = "toOpen")
    BY <1>8 DEF CheckTripGen
  <2>2. state = "half" /\ mu = None /\ Settles(t) => Settles(t)'
    BY <1>0, <2>1 DEF Settles, Reads, Move, local, counters
  <2>3. QED BY <1>3, <2>1, <2>2
<1>9. QED BY <1>1, <1>2, <1>4, <1>5, <1>6, <1>7, <1>8

\* The window, and the transitions that find the state changed: no settler is lost.
LEMMA WindowSlots ==
  ASSUME IInv, JInv, NEW t \in Threads,
         \/ RecordWindow(t) \/ Reread(t) \/ Reads(t, "maybeTrip", "idle")
         \/ /\ Move(t, "maybeTrip", "idle")
            /\ UNCHANGED <<state, mu, counters, local>>
         \/ state # "half" /\ Reads(t, "toClosed", "idle")
  PROVE  JInv'
<1>0. pc \in [Threads -> Points] BY DEF IInv, ControlOK
<1>1. PICK p \in {"idle", "reread", "maybeTrip"} : pc' = [pc EXCEPT ![t] = p]
  <2>1. CASE RecordWindow(t) BY <2>1 DEF RecordWindow, Move
  <2>2. CASE Reread(t) BY <2>2 DEF Reread, Reads, Move
  <2>3. QED BY <2>1, <2>2 DEF Reads, Move
<1>2. \/ pc[t] \in {"windowOk", "windowFail", "reread", "maybeTrip"}
      \/ pc[t] = "toClosed" /\ state # "half"
  <2>1. CASE RecordWindow(t) BY <2>1 DEF RecordWindow, Move
  <2>2. CASE Reread(t) BY <2>2 DEF Reread, Reads, Move
  <2>3. QED BY <2>1, <2>2 DEF Reads, Move
<1>3. UNCHANGED <<state, mu, counters, gen, guarded>>
  BY DEF RecordWindow, Reread, Reads, local
<1>4. p \in Points \ Locked /\ p # "fn" /\ pc[t] \notin Locked BY <1>2 DEF Points, Locked
<1>5. state = "half" => pc[t] # "toClosed" /\ ~Settles(t) BY <1>2 DEF Settles
<1>6. QED BY <1>1, <1>3, <1>4, <1>5, PlainStep

\* Inside a critical section, or on the way into one, the epoch is not decided:
\* either the state is not HalfOpen or b.mu is held.
LEMMA TransitionStep ==
  ASSUME IInv, IInv', JInv, NEW t \in Threads, NEW p \in Points,
         pc' = [pc EXCEPT ![t] = p],
         gen' = gen, guarded' = guarded,
         halfOpenGen' \in {halfOpenGen, halfOpenGen + 1},
         halfOpenCount' \in Int, halfOpenSuccess' \in Nat,
         PhaseOK', GuardOK', DecidedOK',
         ~Settles(t)',
         state' # "half" \/ mu' # None
  PROVE  JInv'
<1>0. pc \in [Threads -> Points] BY DEF IInv, ControlOK
<1>1. CountersOK' BY DEF JInv, CountersOK
<1>2. ASSUME NEW u \in Threads, Settles(u)' PROVE Settles(u)
  <2>1. u # t BY <1>2
  <2>2. pc'[u] = pc[u] BY <1>0, <2>1
  <2>3. gen[u] <= halfOpenGen /\ gen[u] \in Nat /\ halfOpenGen \in Nat BY DEF JInv, CountersOK
  <2>4. gen'[u] = halfOpenGen' => gen[u] = halfOpenGen BY <2>3
  <2>5. QED BY <1>2, <2>2, <2>4 DEF Settles
<1>3. IsFiniteSet(Settlers')
  <2>1. Settlers' \in SUBSET Settlers BY <1>2 DEF Settlers
  <2>2. QED BY <2>1, FS_Subset DEF JInv, SlotsOK
<1>4. QED BY <1>1, <1>3 DEF JInv, SlotsOK

\* While t is inside a critical section nobody else is.
LEMMA OnlyOneLocked ==
  ASSUME IInv, NEW t \in Threads, mu = None \/ pc[t] \in Locked
  PROVE  \A u \in Threads \ {t} : pc[u] \notin Locked
  BY NoneAssumption DEF IInv, LockOK

\* toHalfOpenOrReject takes b.mu, and the three stores of a new epoch.
LEMMA EpochSlots ==
  ASSUME IInv, IInv', JInv, NEW t \in Threads,
         \/ /\ Acquire(t) /\ Move(t, "toHalf", "half1") /\ SetState("half")
            /\ UNCHANGED <<counters, local>>
         \/ NewEpoch(t)
  PROVE  JInv'
<1>0. pc \in [Threads -> Points] /\ CountersOK /\ t # None
  BY NoneAssumption DEF IInv, ControlOK, JInv
<1>1. CASE /\ Acquire(t) /\ Move(t, "toHalf", "half1") /\ SetState("half")
           /\ UNCHANGED <<counters, local>>
  <2>1. pc' = [pc EXCEPT ![t] = "half1"] /\ pc'[t] = "half1" BY <1>0, <1>1 DEF Move
  <2>2. \A u \in Threads \ {t} : pc'[u] = pc[u] /\ pc[u] \notin Locked
    BY <1>0, <1>1, <2>1, OnlyOneLocked DEF Acquire
  <2>3. PhaseOK' BY <1>1, <2>1, <2>2 DEF PhaseOK, SetState, Opening, Starting, Locked
  <2>4. GuardOK' /\ DecidedOK' BY <2>1 DEF GuardOK, DecidedOK
  <2>5. ~Settles(t)' BY <2>1 DEF Settles
  <2>6. "half1" \in Points BY DEF Points
  <2>7. QED
    BY <1>0, <1>1, <2>1, <2>3, <2>4, <2>5, <2>6, TransitionStep
    DEF Acquire, counters, local, CountersOK
<1>2. CASE Move(t, "half1", "half2") /\ halfOpenGen' = halfOpenGen + 1
           /\ UNCHANGED <<halfOpenSuccess, halfOpenCount, mu>> /\ UNCHANGED <<state, local>>
  <2>1. pc' = [pc EXCEPT ![t] = "half2"] /\ pc'[t] = "half2" /\ pc[t] = "half1"
    BY <1>0, <1>2 DEF Move
  <2>2. mu = t BY <2>1 DEF IInv, LockOK, Locked
  <2>3. PhaseOK' BY <1>0, <1>2, <2>1 DEF JInv, PhaseOK, Opening, Starting
  <2>4. GuardOK'
    <3>1. \A s \in Threads : gen'[s] # halfOpenGen'
      <4>1. \A s \in Threads : gen[s] \in Nat /\ gen[s] <= halfOpenGen /\ halfOpenGen \in Nat
        BY <1>0 DEF CountersOK
      <4>2. QED BY <1>2, <4>1 DEF local
    <3>2. QED BY <3>1 DEF GuardOK
  <2>5. DecidedOK' BY <2>1 DEF DecidedOK
  <2>6. ~Settles(t)' BY <2>1 DEF Settles
  <2>7. "half2" \in Points BY DEF Points
  <2>8. QED
    BY <1>0, <1>2, <2>1, <2>2, <2>3, <2>4, <2>5, <2>6, <2>7, TransitionStep
    DEF local, CountersOK
<1>3. CASE Move(t, "half2", "half3") /\ halfOpenSuccess' = 0
           /\ UNCHANGED <<halfOpenGen, halfOpenCount, mu>> /\ UNCHANGED <<state, local>>
  <2>1. pc' = [pc EXCEPT ![t] = "half3"] /\ pc'[t] = "half3" /\ pc[t] = "half2"
    BY <1>0, <1>3 DEF Move
  <2>2. mu = t BY <2>1 DEF IInv, LockOK, Locked
  <2>3. PhaseOK' BY <1>0, <1>3, <2>1 DEF JInv, PhaseOK, Opening, Starting
  <2>4. GuardOK' BY <1>0, <1>3, <2>1 DEF JInv, GuardOK, local
  <2>5. DecidedOK' BY <1>3, BreakerAssumption DEF DecidedOK
  <2>6. ~Settles(t)' BY <2>1 DEF Settles
  <2>7. "half3" \in Points BY DEF Points
  <2>8. QED
    BY <1>0, <1>3, <2>1, <2>2, <2>3, <2>4, <2>5, <2>6, <2>7, TransitionStep
    DEF local, CountersOK
<1>4. CASE Move(t, "half3", "capture") /\ halfOpenCount' = 1 /\ Release(t)
           /\ UNCHANGED <<halfOpenGen, halfOpenSuccess>> /\ UNCHANGED <<state, local>>
  <2>1. pc' = [pc EXCEPT ![t] = "capture"] /\ pc'[t] = "capture" /\ pc[t] = "half3"
    BY <1>0, <1>4 DEF Move
  <2>2. CountersOK' BY <1>0, <1>4 DEF CountersOK, local
  <2>3. PhaseOK' BY <1>0, <1>4, <2>1 DEF JInv, PhaseOK, Opening, Starting
  <2>4. GuardOK' BY <1>0, <1>4, <2>1 DEF JInv, GuardOK, local
  <2>5. SlotsOK'
    <3>1. Settlers' \ {t} = Settlers \ {t}
      BY <1>0, <1>4, <2>1, SettlersStep DEF local
    <3>2. IsFiniteSet(Settlers) BY DEF JInv, SlotsOK
    <3>3. t \in Settlers' BY <2>1 DEF Settlers, Settles
    <3>4. t \notin Settlers BY <2>1 DEF Settlers, Settles
    <3>5. /\ IsFiniteSet(Settlers')
          /\ Cardinality(Settlers) \in Nat /\ Cardinality(Settlers') \in Nat
          /\ Cardinality(Settlers') >= Cardinality(Settlers) + 1
      BY <3>1, <3>2, <3>3, <3>4, CountSettlers
    <3>6. halfOpenCount' <= halfOpenSuccess' + Cardinality(Settlers')
      BY <1>0, <1>4, <3>5 DEF CountersOK
    <3>7. QED BY <3>5, <3>6 DEF SlotsOK
  <2>6. DecidedOK'
    <3>1. \A u \in Threads \ {t} : pc[u] \notin Locked
      BY <2>1, OnlyOneLocked DEF Locked
    <3>2. \A u \in Threads : pc[u] \notin {"half1", "half2"} \cup Closing
      BY <2>1, <3>1 DEF Locked, Closing
    <3>3. state = "half" => halfOpenSuccess < MaxRequests \/ \E u \in Threads : pc[u] = "toClosed"
      BY <3>2 DEF JInv, DecidedOK
    <3>4. ASSUME NEW u \in Threads, pc[u] = "toClosed" PROVE pc'[u] = "toClosed"
      BY <1>0, <2>1, <3>4
    <3>5. QED BY <1>4, <3>3, <3>4 DEF DecidedOK
  <2>7. QED BY <2>2, <2>3, <2>4, <2>5, <2>6 DEF JInv
<1>5. QED BY <1>1, <1>2, <1>3, <1>4 DEF NewEpoch

\* A step that ends, or stays, outside HalfOpen needs no slot to be accounted for.
LEMMA AwayStep ==
  ASSUME IInv, IInv', JInv, NEW t \in Threads,
         NEW p \in Opening \cup {"idle"},
         pc' = [pc EXCEPT ![t] = p], state' # "half", p \in Opening => state' = "open",
         state' = state \/ \A u \in Threads \ {t} : pc[u] \notin Locked,
         halfOpenCount' \in Int, halfOpenSuccess' \in Nat,
         UNCHANGED <<halfOpenGen, local>>
  PROVE  JInv'
<1>0. pc \in [Threads -> Points] BY DEF IInv, ControlOK
<1>1. PhaseOK' BY <1>0 DEF JInv, PhaseOK, Opening, Starting, Locked
<1>2. GuardOK' /\ DecidedOK' BY DEF GuardOK, DecidedOK
<1>3. ~Settles(t)' BY <1>0 DEF Settles, Opening
<1>4. p \in Points BY DEF Opening, Points
<1>5. QED BY <1>1, <1>2, <1>3, <1>4, TransitionStep DEF local

\* toOpen, and the trip of maybeTrip.
LEMMA OpenSlots ==
  ASSUME IInv, IInv', JInv, NEW t \in Threads,
         \/ ToOpen(t)
         \/ /\ Move(t, "maybeTrip", "trip1") /\ Acquire(t) /\ SetState("open")
            /\ UNCHANGED <<counters, local>>
         \/ Move(t, "trip1", "idle") /\ UNCHANGED <<state, counters, local>>
  PROVE  JInv'
<1>0. pc \in [Threads -> Points] /\ CountersOK BY DEF IInv, ControlOK, JInv
<1>1. UNCHANGED <<halfOpenGen, local>> BY DEF ToOpen, counters
<1>2. halfOpenCount' \in Int /\ halfOpenSuccess' \in Nat
  BY <1>0 DEF ToOpen, counters, CountersOK
<1>3. ASSUME NEW p \in {"open1", "trip1"}, pc' = [pc EXCEPT ![t] = p], Acquire(t),
             SetState("open")
      PROVE  JInv'
  <2>1. \A u \in Threads \ {t} : pc[u] \notin Locked BY <1>3, OnlyOneLocked DEF Acquire
  <2>2. state' = "open" /\ p \in Opening BY <1>3 DEF SetState, Opening
  <2>3. QED BY <1>1, <1>2, <1>3, <2>1, <2>2, AwayStep
<1>4. ASSUME NEW p \in {"open2", "open3", "idle"}, pc' = [pc EXCEPT ![t] = p],
             pc[t] \in Opening, state' = state
      PROVE  JInv'
  <2>1. state = "open" BY <1>4 DEF JInv, PhaseOK
  <2>2. p \in Opening \cup {"idle"} BY DEF Opening
  <2>3. QED BY <1>1, <1>2, <1>4, <2>1, <2>2, AwayStep
<1>5. QED BY <1>3, <1>4 DEF ToOpen, Move, Opening

\* toClosed from the moment it has found the state HalfOpen under b.mu.
LEMMA ClosedSlots ==
  ASSUME IInv, IInv', JInv, NEW t \in Threads,
         ToClosed(t), ~Reads(t, "toClosed", "idle")
  PROVE  JInv'
<1>0. pc \in [Threads -> Points] /\ CountersOK /\ t # None
  BY NoneAssumption DEF IInv, ControlOK, JInv
<1>1. UNCHANGED <<halfOpenGen, gen, guarded>> BY DEF ToClosed, counters, local
<1>2. halfOpenCount' \in Int /\ halfOpenSuccess' \in Nat
  BY <1>0 DEF ToClosed, counters, CountersOK
<1>3. ASSUME NEW p \in Closing, pc' = [pc EXCEPT ![t] = p], state' = state,
             pc[t] \in Closing \/ (pc[t] = "toClosed" /\ Acquire(t)), mu' = t
      PROVE  JInv'
  <2>1. pc'[t] = p /\ p \in Points /\ p \notin Opening \cup Starting \cup {"half1", "fn"}
    BY <1>0, <1>3 DEF Closing, Points, Opening, Starting
  <2>2. PhaseOK' BY <1>0, <1>3, <2>1 DEF JInv, PhaseOK
  <2>3. GuardOK' BY <1>0, <1>1, <1>3, <2>1 DEF JInv, GuardOK, Closing
  <2>4. DecidedOK' BY <2>1 DEF DecidedOK
  <2>5. ~Settles(t)' BY <2>1 DEF Settles, Closing
  <2>6. QED
    BY <1>0, <1>1, <1>2, <1>3, <2>1, <2>2, <2>3, <2>4, <2>5, TransitionStep
<1>4. ASSUME Move(t, "closed3", "idle"), SetState("closed") PROVE JInv'
  <2>1. \A u \in Threads \ {t} : pc[u] \notin Locked
    BY <1>4, OnlyOneLocked DEF Move, Locked
  <2>2. state' = "closed" BY <1>4 DEF SetState
  <2>3. QED BY <1>1, <1>2, <1>4, <2>1, <2>2, AwayStep DEF Move, Opening, local
<1>5. pc[t] \in Closing => mu = t BY DEF IInv, LockOK, Locked, Closing
<1>6. CASE state = "half" /\ Acquire(t) /\ Move(t, "toClosed", "closed1") /\ state' = state
  BY <1>3, <1>6 DEF Move, Acquire, Closing
<1>7. CASE Move(t, "closed1", "closed2") /\ UNCHANGED <<state, mu>>
  BY <1>3, <1>5, <1>7 DEF Move, Closing
<1>8. CASE Move(t, "closed2", "closed3") /\ UNCHANGED <<state, mu>>
  BY <1>3, <1>5, <1>8 DEF Move, Closing
<1>9. QED BY <1>4, <1>6, <1>7, <1>8 DEF ToClosed

\* The slot invariant holds at the start and every step keeps it.
LEMMA SlotsInductive == Spec => []JInv
<1>1. Init => JInv
  <2>1. ASSUME Init PROVE CountersOK /\ PhaseOK /\ GuardOK /\ DecidedOK
    BY <2>1 DEF Init, CountersOK, PhaseOK, GuardOK, DecidedOK, Opening, Starting
  <2>2. ASSUME Init PROVE SlotsOK
    <3>1. Settlers = {} BY <2>2 DEF Init, Settlers, Settles
    <3>2. QED BY <2>2, <3>1, FS_EmptySet DEF SlotsOK, Init
  <2>3. QED BY <2>1, <2>2 DEF JInv
<1>2. ASSUME JInv,
             UNCHANGED <<state, mu, counters, pc, gen, guarded>>
      PROVE  JInv'
  <2>1. Settlers' = Settlers BY <1>2 DEF Settlers, Settles, counters
  <2>2. SlotsOK' BY <1>2, <2>1 DEF JInv, SlotsOK, counters
  <2>3. CountersOK' BY <1>2 DEF JInv, CountersOK, counters
  <2>4. PhaseOK' /\ GuardOK' /\ DecidedOK'
    BY <1>2 DEF JInv, PhaseOK, GuardOK, DecidedOK, counters
  <2>5. QED BY <2>2, <2>3, <2>4 DEF JInv
<1>3. ASSUME IInv, IInv', JInv, NEW t \in Threads, Step(t) PROVE JInv'
  <2>1. CASE ToHalfOpenOrReject(t)
    <3>1. CASE \E p \in {"recheck", "idle"} : Reads(t, "toHalf", p)
      BY <1>3, <3>1, AdmissionSlots
    <3>2. CASE /\ Acquire(t) /\ Move(t, "toHalf", "half1") /\ SetState("half")
               /\ UNCHANGED <<counters, local>>
      BY <1>3, <3>2, EpochSlots
    <3>3. QED BY <2>1, <3>1, <3>2 DEF ToHalfOpenOrReject
  <2>2. CASE ToClosed(t)
    <3>1. CASE Reads(t, "toClosed", "idle")
      <4>1. state # "half"
        <5>1. pc[t] = "toClosed" /\ pc'[t] = "idle"
          BY <1>3, <3>1 DEF Reads, Move, IInv, ControlOK
        <5>2. QED BY <1>3, <2>2, <5>1 DEF ToClosed, Move, IInv, ControlOK
      <4>2. QED BY <1>3, <3>1, <4>1, WindowSlots
    <3>2. CASE ~Reads(t, "toClosed", "idle") BY <1>3, <2>2, <3>2, ClosedSlots
    <3>3. QED BY <3>1, <3>2
  <2>3. CASE MaybeTrip(t)
    <3>1. CASE Reads(t, "maybeTrip", "idle") BY <1>3, <3>1, WindowSlots
    <3>2. CASE Move(t, "maybeTrip", "idle") /\ UNCHANGED <<state, mu, counters, local>>
      BY <1>3, <3>2, WindowSlots
    <3>3. CASE /\ Move(t, "maybeTrip", "trip1") /\ Acquire(t) /\ SetState("open")
               /\ UNCHANGED <<counters, local>>
      BY <1>3, <3>3, OpenSlots
    <3>4. CASE Move(t, "trip1", "idle") /\ UNCHANGED <<state, counters, local>>
      BY <1>3, <3>4, OpenSlots
    <3>5. QED BY <2>3, <3>1, <3>2, <3>3, <3>4 DEF MaybeTrip
  <2>4. CASE Enter(t) \/ CheckExpiry(t) \/ CheckRoom(t) \/ Recheck(t)
    BY <1>3, <2>4, AdmissionSlots
  <2>5. CASE Take(t) \/ Undo(t) \/ Credit(t) BY <1>3, <2>5, CounterStep
  <2>6. CASE NewEpoch(t) BY <1>3, <2>6, EpochSlots
  <2>7. CASE \/ Capture(t) \/ CheckSlot(t) \/ Fn(t) \/ RecordSuccess(t) \/ CheckCreditGen(t)
             \/ RecordFailure(t) \/ CheckTripGen(t)
    BY <1>3, <2>7, OutcomeSlots
  <2>8. CASE RecordWindow(t) \/ Reread(t) BY <1>3, <2>8, WindowSlots
  <2>9. CASE ToOpen(t) BY <1>3, <2>9, OpenSlots
  <2>10. QED
    BY <1>3, <2>1, <2>2, <2>3, <2>4, <2>5, <2>6, <2>7, <2>8, <2>9 DEF Step
<1>4. IInv /\ IInv' /\ JInv /\ [Next]_vars => JInv'
  <2>1. ASSUME JInv, Tick \/ UNCHANGED vars PROVE JInv'
    <3>1. UNCHANGED <<state, mu, counters, pc, gen, guarded>> BY <2>1 DEF Tick, vars, local
    <3>2. QED BY <1>2, <2>1, <3>1
  <2>2. QED BY <1>3, <2>1 DEF Next
<1>5. QED BY <1>1, <1>4, Inductive, PTL DEF Spec

\* Taken slots do not wedge the breaker in HalfOpen, however many goroutines call it
\* and whatever the settings: when every probe slot is taken, some call in flight can
\* still decide the epoch or gives its slot back.  (A count below 0 is not covered:
\* the breaker then rejects all calls with nobody in flight, see NoWedge.)
THEOREM SlotsSettleHolds == Spec => []SlotsSettle
<1>1. ASSUME IInv, JInv, state = "half", mu = None, halfOpenCount >= MaxRequests
      PROVE  \E t \in Threads : Settles(t)
  <2>1. \A u \in Threads : pc[u] \notin Locked BY <1>1, NoneAssumption DEF IInv, LockOK
  <2>2. halfOpenSuccess < MaxRequests \/ \E t \in Threads : pc[t] = "toClosed"
    BY <1>1, <2>1 DEF JInv, DecidedOK, Locked, Closing
  <2>3. CASE \E t \in Threads : pc[t] = "toClosed" BY <2>3 DEF Settles
  <2>4. CASE halfOpenSuccess < MaxRequests
    <3>1. Cardinality(Settlers) \in Nat BY <1>1, FS_CardinalityType DEF JInv, SlotsOK
    <3>2. halfOpenCount <= halfOpenSuccess + Cardinality(Settlers)
      BY <1>1 DEF JInv, SlotsOK
    <3>3. Cardinality(Settlers) # 0
      BY <1>1, <2>4, <3>1, <3>2, BreakerAssumption DEF JInv, CountersOK
    <3>4. Settlers # {} BY <3>3, FS_EmptySet
    <3>5. QED BY <3>4 DEF Settlers
  <2>5. QED BY <2>2, <2>3, <2>4
<1>2. IInv /\ JInv => SlotsSettle BY <1>1 DEF SlotsSettle
<1>3. QED BY <1>2, Inductive, SlotsInductive, PTL

==============================================================================
