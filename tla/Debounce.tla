------------------------------ MODULE Debounce ------------------------------
(***************************************************************************)
(* Package debounce, the Debounce type: Call replaces the pending timer    *)
(* under the mutex, Flush takes it out and stops it outside the mutex, and *)
(* timers that have fired run fn on goroutines of their own, after a look  *)
(* at closed.  Timers are numbered in the order of their creation.         *)
(***************************************************************************)
EXTENDS Naturals, FiniteSets, FiniteSetTheorems, TLAPS

CONSTANTS
    Threads,     \* goroutines that use the debouncer
    MaxTimers    \* bound on the number of timers

VARIABLES
    cur,         \* d.timer, 0 for nil
    closed,      \* d.closed
    timer,       \* the state of every timer that was made
    runs,        \* how often fn ran on behalf of each timer
    pc, local,   \* where each thread is, and the timer that Flush took out
    owed         \* the last Call has been neither served nor withdrawn (history)

vars == <<cur, closed, timer, runs, pc, local, owed>>

Nil == 0
Ids == 1 .. MaxTimers
Made == {i \in Ids : timer[i] # "unused"}

Init ==
    /\ cur = Nil
    /\ closed = FALSE
    /\ timer = [i \in Ids |-> "unused"]
    /\ runs = [i \in Ids |-> 0]
    /\ pc = [t \in Threads |-> "idle"]
    /\ local = [t \in Threads |-> Nil]
    /\ owed = FALSE

Goto(t, from, to) == pc[t] = from /\ pc' = [pc EXCEPT ![t] = to]

\* timer.Stop on timer i (or on none): true exactly if it had not fired yet.
Stop(i, state) == IF i # Nil /\ state[i] = "armed" THEN [state EXCEPT ![i] = "stopped"] ELSE state

-----------------------------------------------------------------------------
CallCheck(t) ==
    /\ Goto(t, "idle", IF closed THEN "idle" ELSE "call")
    /\ UNCHANGED <<cur, closed, timer, runs, local, owed>>

\* Under the mutex the pending timer is stopped and a new one is armed.
Call(t) ==
    /\ Cardinality(Made) < MaxTimers
    /\ Goto(t, "call", "idle")
    /\ cur' = Cardinality(Made) + 1
    /\ timer' = [Stop(cur, timer) EXCEPT ![cur'] = "armed"]
    /\ owed' = ~closed
    /\ UNCHANGED <<closed, runs, local>>

\* Flush takes the timer out under the mutex ...
FlushTake(t) ==
    /\ Goto(t, "idle", "flush")
    /\ local' = [local EXCEPT ![t] = cur]
    /\ cur' = Nil
    /\ UNCHANGED <<closed, timer, runs, owed>>

\* ... and starts fn without asking Stop.
FlushAlways(t) ==
    /\ Goto(t, "flush", "idle")
    /\ IF local[t] # Nil /\ timer[local[t]] \in {"armed", "done"}
       THEN timer' = [timer EXCEPT ![local[t]] = "dispatched"]
       ELSE UNCHANGED timer
    /\ local' = [local EXCEPT ![t] = Nil]
    /\ UNCHANGED <<cur, closed, runs, owed>>

\* ... and, if Stop says that it had not fired, starts fn in its place.
Flush(t) ==
    /\ Goto(t, "flush", "idle")
    /\ IF local[t] # Nil /\ timer[local[t]] = "armed"
       THEN timer' = [timer EXCEPT ![local[t]] = "dispatched"]
       ELSE UNCHANGED timer
    /\ local' = [local EXCEPT ![t] = Nil]
    /\ UNCHANGED <<cur, closed, runs, owed>>

\* Cancel; Close is Cancel and then sets closed.
Cancel(t, from, to) ==
    /\ Goto(t, from, to)
    /\ timer' = Stop(cur, timer)
    /\ cur' = Nil
    /\ owed' = FALSE
    /\ UNCHANGED <<closed, runs, local>>

CloseSet(t) ==
    /\ Goto(t, "close", "closed")
    /\ closed' = TRUE
    /\ owed' = FALSE
    /\ UNCHANGED <<cur, timer, runs, local>>

-----------------------------------------------------------------------------
\* The runtime fires a timer: its goroutine is started.
Expire(i) ==
    /\ timer[i] = "armed"
    /\ timer' = [timer EXCEPT ![i] = "dispatched"]
    /\ UNCHANGED <<cur, closed, runs, pc, local, owed>>

\* The wrapper of fn looks at closed, then calls fn (a panic is recovered).
FnCheck(i) ==
    /\ timer[i] = "dispatched"
    /\ timer' = [timer EXCEPT ![i] = IF closed THEN "done" ELSE "calling"]
    /\ UNCHANGED <<cur, closed, runs, pc, local, owed>>

FnCall(i) ==
    /\ timer[i] = "calling"
    /\ timer' = [timer EXCEPT ![i] = "done"]
    /\ runs' = [runs EXCEPT ![i] = @ + 1]
    /\ owed' = (owed /\ \E k \in Made : k > i)
    /\ UNCHANGED <<cur, closed, pc, local>>

Fn(i) == Expire(i) \/ FnCheck(i) \/ FnCall(i)

Step(t) ==
    \/ CallCheck(t) \/ Call(t)
    \/ FlushTake(t) \/ Flush(t)
    \/ Cancel(t, "idle", "idle")
    \/ Cancel(t, "idle", "close") \/ CloseSet(t)

Next == (\E t \in Threads : Step(t)) \/ (\E i \in Ids : Fn(i))

Spec == Init /\ [][Next]_vars

\* Timers expire and their goroutines run; calls in progress go on.
FairSpec ==
    /\ Spec
    /\ \A i \in Ids : WF_vars(Fn(i))
    /\ \A t \in Threads : WF_vars(Flush(t) \/ CloseSet(t))

-----------------------------------------------------------------------------
TypeOK ==
    /\ cur \in {i \in Ids : timer[i] \notin {"unused", "stopped"}} \cup {Nil}
    /\ closed \in BOOLEAN /\ owed \in BOOLEAN
    /\ timer \in [Ids -> {"unused", "armed", "stopped", "dispatched", "calling", "done"}]
    /\ runs \in [Ids -> Nat]
    /\ pc \in [Threads -> {"idle", "call", "flush", "close", "closed"}]
    /\ local \in [Threads -> Ids \cup {Nil}]

\* Coalescing: every armed timer is the pending one, or a Flush has taken it out
\* and is about to stop it; so a burst of calls leaves one execution pending.
OnePending ==
    \A i \in Ids : timer[i] = "armed" => i = cur \/ \E t \in Threads : local[t] = i

\* fn runs at most once per Call, although Flush and the timer's own goroutine
\* race to run it.
NoDoubleRun == \A i \in Ids : runs[i] <= 1

\* A Call is served: fn runs after it, unless it is cancelled or the debouncer
\* is closed.
Owing == owed
CallServed == Owing ~> ~Owing

-----------------------------------------------------------------------------
(* Both invariants hold for any number of goroutines and timers.  The      *)
(* argument rests on the numbering: Call always arms a timer nobody has    *)
(* seen before, so the one that Flush or the runtime dispatches has never  *)
(* run fn, and one that has run it is done for good.                       *)

\* Timers are numbered in the order of their creation.
Numbered == Made = 1 .. Cardinality(Made)

\* A thread remembers a timer only between the two halves of Flush.
OnlyFlushHolds == \A t \in Threads : pc[t] # "flush" => local[t] = Nil

\* A timer on whose behalf fn ran is done.
RanIsDone == \A i \in Ids : runs[i] = 0 \/ (runs[i] = 1 /\ timer[i] = "done")

IInv ==
    /\ TypeOK
    /\ Numbered
    /\ OnlyFlushHolds
    /\ RanIsDone
    /\ OnePending

-----------------------------------------------------------------------------
\* The timer that Call arms is the next one, and was never used.
LEMMA NextTimer ==
    ASSUME MaxTimers \in Nat, Numbered, Cardinality(Made) < MaxTimers
    PROVE  /\ Cardinality(Made) \in Nat
           /\ Cardinality(Made) + 1 \in Ids
           /\ timer[Cardinality(Made) + 1] = "unused"
  <1>1. IsFiniteSet(Ids)
    BY FS_Interval DEF Ids
  <1>2. Made \subseteq Ids
    BY DEF Made
  <1>3. Cardinality(Made) \in Nat
    BY <1>1, <1>2, FS_Subset, FS_CardinalityType
  <1> DEFINE n == Cardinality(Made)
  <1>4. n + 1 \in Ids /\ n + 1 \notin 1 .. n
    <2> HIDE DEF n
    <2> QED BY <1>3, n < MaxTimers DEF Ids, n
  <1> QED BY <1>3, <1>4 DEF Numbered, Made

\* When one more timer, the next, is in use, the numbering goes on.
LEMMA NumberedGrows ==
    ASSUME MaxTimers \in Nat, Numbered, Cardinality(Made) < MaxTimers,
           Made' = Made \cup {Cardinality(Made) + 1}
    PROVE  Numbered'
  <1> DEFINE n == Cardinality(Made)
  <1>1. n \in Nat
    BY NextTimer
  <1>2. Made = 1 .. n
    BY DEF Numbered
  <1>3. Made' = 1 .. n + 1
    <2> HIDE DEF n
    <2>1. 1 .. n + 1 = (1 .. n) \cup {n + 1}
      BY <1>1
    <2> QED BY <1>2, <2>1, Zenon DEF n
  <1>4. Cardinality(1 .. n + 1) = n + 1
    <2> HIDE DEF n
    <2> QED BY <1>1, FS_Interval
  <1> QED BY <1>3, <1>4, Zenon DEF Numbered

\* The initial state satisfies the invariant.
LEMMA InitInv == MaxTimers \in Nat /\ Init => IInv
  <1> SUFFICES ASSUME MaxTimers \in Nat, Init PROVE IInv
    OBVIOUS
  <1>1. TypeOK
    BY Zenon DEF Init, TypeOK, Ids, Nil
  <1>2. Numbered
    <2>1. Made = {}
      BY DEF Init, Made
    <2> QED BY <2>1, FS_EmptySet DEF Numbered
  <1>3. OnlyFlushHolds /\ RanIsDone /\ OnePending
    BY DEF Init, OnlyFlushHolds, RanIsDone, OnePending
  <1> QED BY <1>1, <1>2, <1>3 DEF IInv

\* Where no timer comes into use the numbering stays.
LEMMA NumberedStays ==
    ASSUME Numbered, \A i \in Ids : timer'[i] = "unused" <=> timer[i] = "unused"
    PROVE  Numbered'
  <1>1. Made' = Made
    BY DEF Made
  <1> QED BY <1>1 DEF Numbered

\* Call stops the pending timer and arms the next one.
LEMMA CallStep ==
    ASSUME MaxTimers \in Nat, IInv, NEW t \in Threads, Call(t)
    PROVE  IInv'
  <1> DEFINE n == Cardinality(Made) + 1
  <1>1. n \in Ids /\ n \in Nat /\ timer[n] = "unused"
    BY NextTimer DEF IInv, Call
  <1>2. cur' = n /\ cur # n /\ n # Nil
    BY <1>1 DEF IInv, TypeOK, Call, Nil, Ids
  <1>3. /\ timer' \in [Ids -> {"unused", "armed", "stopped", "dispatched", "calling", "done"}]
        /\ timer'[n] = "armed"
        /\ \A i \in Ids \ {n} :
              timer'[i] = IF i = cur /\ timer[i] = "armed" THEN "stopped" ELSE timer[i]
    <2> HIDE DEF n
    <2>1. timer' = [Stop(cur, timer) EXCEPT ![n] = "armed"]
      BY <1>2, Zenon DEF Call
    <2> QED BY <1>1, <1>2, <2>1 DEF IInv, TypeOK, Stop, Nil, Ids
  <1> HIDE DEF n
  <1>4. TypeOK'
    BY <1>1, <1>2, <1>3 DEF IInv, TypeOK, Call, Goto
  <1>5. Numbered'
    <2>1. Made' = Made \cup {n}
      BY <1>1, <1>2, <1>3, Zenon DEF Made, IInv, TypeOK, Nil
    <2> QED BY <2>1, NumberedGrows DEF IInv, Call, n
  <1>6. OnlyFlushHolds'
    BY DEF IInv, TypeOK, OnlyFlushHolds, Call, Goto
  <1>7. RanIsDone'
    BY <1>1, <1>2, <1>3 DEF IInv, TypeOK, RanIsDone, Call
  <1>8. OnePending'
    BY <1>1, <1>2, <1>3 DEF IInv, TypeOK, OnePending, Call
  <1> QED BY <1>4, <1>5, <1>6, <1>7, <1>8 DEF IInv

\* The other steps of a thread: they stop, take out or dispatch the pending timer.
LEMMA ThreadStep ==
    ASSUME MaxTimers \in Nat, IInv, NEW t \in Threads, Step(t)
    PROVE  IInv'
  <1> USE DEF Goto
  <1>1. CASE CallCheck(t)
    BY <1>1, NumberedStays
       DEF CallCheck, IInv, TypeOK, OnlyFlushHolds, RanIsDone, OnePending
  <1>2. CASE Call(t)
    BY <1>2, CallStep
  <1>3. CASE FlushTake(t)
    BY <1>3, NumberedStays
       DEF FlushTake, IInv, TypeOK, OnlyFlushHolds, RanIsDone, OnePending
  <1>4. CASE Flush(t)
    BY <1>4, NumberedStays
       DEF Flush, IInv, TypeOK, OnlyFlushHolds, RanIsDone, OnePending, Nil
  <1>5. ASSUME NEW to \in {"idle", "close"}, Cancel(t, "idle", to)
        PROVE  IInv'
    BY <1>5, NumberedStays, Zenon
       DEF Cancel, Stop, IInv, TypeOK, OnlyFlushHolds, RanIsDone,
                                      OnePending, Nil
  <1>6. CASE CloseSet(t)
    BY <1>6, NumberedStays, Zenon
       DEF CloseSet, IInv, TypeOK, OnlyFlushHolds, RanIsDone, OnePending
  <1> QED BY <1>1, <1>2, <1>3, <1>4, <1>5, <1>6 DEF Step

\* A timer that fires, and its goroutine: what was dispatched has not run fn.
LEMMA TimerStep ==
    ASSUME IInv, NEW i \in Ids, Fn(i)
    PROVE  IInv'
  <1>1. CASE Expire(i)
    BY <1>1, NumberedStays DEF Expire, IInv, TypeOK, OnlyFlushHolds, RanIsDone, OnePending
  <1>2. CASE FnCheck(i)
    BY <1>2, NumberedStays
       DEF FnCheck, IInv, TypeOK, OnlyFlushHolds, RanIsDone, OnePending
  <1>3. CASE FnCall(i)
    BY <1>3, NumberedStays DEF FnCall, IInv, TypeOK, OnlyFlushHolds, RanIsDone, OnePending
  <1> QED BY <1>1, <1>2, <1>3 DEF Fn

\* The invariant is inductive.
LEMMA StepInv ==
    ASSUME MaxTimers \in Nat, IInv, [Next]_vars
    PROVE  IInv'
  <1>1. CASE Next
    BY <1>1, ThreadStep, TimerStep DEF Next
  <1>2. CASE UNCHANGED vars
    BY <1>2 DEF vars, IInv, TypeOK, Numbered, Made, OnlyFlushHolds, RanIsDone, OnePending
  <1> QED BY <1>1, <1>2

\* debounce.go: fn runs at most once on behalf of each timer.
LEMMA InvNoDoubleRun == IInv => NoDoubleRun
  BY DEF IInv, RanIsDone, NoDoubleRun
=============================================================================
