---------------------------- MODULE WTimerProofs ----------------------------
(***************************************************************************)
(* The wheel's goroutine misses no wakeup, no timer is lost and Close      *)
(* joins, for any number of timers and Close calls, and for any delays.    *)
(* The goroutine decides to sleep under the lock and falls asleep outside  *)
(* it: the wakeup property has to hold from the decision on, when closed   *)
(* does not matter yet, as it is looked at once more before the sleep.     *)
(***************************************************************************)
EXTENDS WTimer, TLAPS

Assumptions == MaxTime \in Nat /\ Delays \subseteq Nat /\ NoTimer \notin Timers

\* The goroutine has taken a timer off the heap.
Busy == run.at \in {"due", "fire", "again"}

\* The goroutine holds a timer exactly while it is busy.
HoldsTimer == IF Busy THEN run.t \in Timers ELSE run.t = NoTimer

\* Only timers that were pushed are on the heap or with the goroutine, and only
\* those have fired.
Pushed ==
    \A t \in Timers :
        adder[t] \in {"new", "push", "refused"} => t \notin heap /\ run.t # t /\ fired[t] = 0

\* A one-shot on the heap, or on its way to the callback, has not fired; the
\* goroutine is through with a timer when it fired or was cancelled.
FiredLast ==
    /\ \A t \in Timers : interval[t] = 0 /\ t \in heap => fired[t] = 0 /\ run.t # t
    /\ run.at \in {"due", "fire"} => interval[run.t] > 0 \/ fired[run.t] = 0
    /\ run.at = "again" => run.t \in cancelled \/ fired[run.t] > 0

\* A token is there for the goroutine, or somebody is about to send one.
TokenComing == wakeup \/ \E t \in Timers : adder[t] = "wake"

\* What the goroutine found under the lock still holds, or a token is coming.
DecidedRight ==
    /\ run.at = "empty" => TokenComing \/ heap = {}
    /\ run.at = "notDue" => TokenComing \/ \A t \in heap : run.until <= when[t]

IInv ==
    /\ TypeOK
    /\ HoldsTimer
    /\ Pushed
    /\ FiredLast
    /\ DecidedRight
    /\ NoLostWakeup
    /\ NoTimerLost
    /\ CloseJoins

-----------------------------------------------------------------------------
\* The initial state satisfies the invariant.
LEMMA InitInv == Assumptions /\ Init => IInv
  <1> SUFFICES ASSUME Assumptions, Init PROVE IInv
    OBVIOUS
  <1>1. TypeOK
    <2>1. /\ when \in [Timers -> Nat] /\ interval \in [Timers -> Delays \cup {0}]
          /\ fired \in [Timers -> Nat] /\ \A t \in Timers : fired[t] <= 1
      BY DEF Init
    <2>2. run \in [at : {"top"}, t : Timers \cup {NoTimer}, until : Nat]
      BY DEF Init, Loop
    <2>3. /\ adder \in [Timers -> {"new", "push", "wake", "added", "refused"}]
          /\ closer \in [Closers -> {"new", "noop", "wake", "wait", "returned"}]
      BY DEF Init
    <2>4. now \in 0 .. MaxTime /\ heap \subseteq Timers /\ cancelled \subseteq Timers
      BY DEF Init, Assumptions
    <2>5. wakeup \in BOOLEAN /\ closed \in BOOLEAN
      BY Zenon DEF Init
    <2> QED BY <2>1, <2>2, <2>3, <2>4, <2>5 DEF TypeOK
  <1>2. HoldsTimer /\ Pushed /\ FiredLast /\ DecidedRight
    BY DEF Init, Assumptions, Loop, HoldsTimer, Busy, Pushed, FiredLast, DecidedRight
  <1>3. NoLostWakeup /\ NoTimerLost /\ CloseJoins
    BY DEF Init, Loop, NoLostWakeup, NoTimerLost, CloseJoins
  <1> QED BY <1>1, <1>2, <1>3 DEF IInv

\* Intervals, like delays, are numbers.
LEMMA Intervals == ASSUME Assumptions, TypeOK, NEW t \in Timers PROVE interval[t] \in Nat
  <1>1. interval[t] \in Delays \cup {0}
    BY DEF TypeOK
  <1>2. Delays \cup {0} \subseteq Nat
    BY DEF Assumptions
  <1> QED BY <1>1, <1>2

\* Time passes.
LEMMA TickStep == ASSUME Assumptions, IInv, Tick PROVE IInv'
  BY DEF Assumptions, Tick, IInv, TypeOK, HoldsTimer, Busy, Pushed, FiredLast,
     DecidedRight,
         TokenComing, NoLostWakeup, NoTimerLost, CloseJoins

\* add and Cancel: a timer that is pushed has its token on the way.
LEMMA CallerStep ==
    ASSUME Assumptions, IInv, NEW t \in Timers,
           \/ \E delay \in Delays, recurs \in BOOLEAN : AddCheck(t, delay, recurs)
           \/ AddPush(t) \/ AddWake(t) \/ Cancel(t)
    PROVE  IInv'
  <1> USE DEF IInv
  <1>1. ASSUME NEW delay \in Delays, NEW recurs \in BOOLEAN, AddCheck(t, delay, recurs)
        PROVE  IInv'
    <2>1. TypeOK'
      BY <1>1 DEF Assumptions, AddCheck, TypeOK, Pushed
    <2>2. HoldsTimer' /\ Pushed' /\ CloseJoins'
      BY <1>1 DEF AddCheck, TypeOK, HoldsTimer, Busy, Pushed, CloseJoins
    <2>3. FiredLast'
      BY <1>1 DEF AddCheck, TypeOK, HoldsTimer, Busy, Pushed, FiredLast
    <2>4. DecidedRight'
      BY <1>1 DEF AddCheck, TypeOK, Pushed, DecidedRight, TokenComing
    <2>5. NoLostWakeup'
      BY <1>1 DEF AddCheck, TypeOK, Pushed, NoLostWakeup
    <2>6. NoTimerLost'
      BY <1>1 DEF AddCheck, TypeOK, Pushed, NoTimerLost
    <2> QED BY <2>1, <2>2, <2>3, <2>4, <2>5, <2>6
  <1>2. CASE AddPush(t)
    BY <1>2 DEF AddPush, TypeOK, HoldsTimer, Busy, Pushed, FiredLast, DecidedRight,
                TokenComing, NoLostWakeup, NoTimerLost, CloseJoins
  <1>3. CASE AddWake(t)
    BY <1>3 DEF AddWake, TypeOK, HoldsTimer, Busy, Pushed, FiredLast, DecidedRight,
                TokenComing, NoLostWakeup, NoTimerLost, CloseJoins
  <1>4. CASE Cancel(t)
    BY <1>4 DEF Cancel, TypeOK, HoldsTimer, Busy, Pushed, FiredLast, DecidedRight,
                TokenComing, NoLostWakeup, NoTimerLost, CloseJoins
  <1> QED BY <1>1, <1>2, <1>3, <1>4

\* The goroutine under the lock.
LEMMA RunTopStep == ASSUME Assumptions, IInv, RunTop PROVE IInv'
  <1> USE DEF IInv, RunStep, Top
  <1>1. ASSUME NEW t \in cancelled, Top(t), RunStep("top", Loop("top")), heap' = heap \ {t},
               UNCHANGED <<when, wakeup, fired>>
        PROVE  IInv'
    BY <1>1 DEF TypeOK, Loop, HoldsTimer, Busy, Pushed, FiredLast, DecidedRight,
                NoLostWakeup, NoTimerLost, CloseJoins
  <1>2. ASSUME heap = {}, RunStep("top", Loop("empty")), UNCHANGED <<heap, when, wakeup, fired>>
        PROVE  IInv'
    BY <1>2 DEF TypeOK, Loop, HoldsTimer, Busy, Pushed, FiredLast, DecidedRight,
                NoLostWakeup, NoTimerLost, CloseJoins
  <1>3. ASSUME NEW t \in heap \ cancelled, Top(t), when[t] > now,
               RunStep("top", [at |-> "notDue", t |-> NoTimer, until |-> when[t]]),
               UNCHANGED <<heap, when, wakeup, fired>>
        PROVE  IInv'
    BY <1>3 DEF TypeOK, HoldsTimer, Busy, Pushed, FiredLast, DecidedRight,
                NoLostWakeup, NoTimerLost, CloseJoins
  <1>4. ASSUME NEW t \in heap \ cancelled, Top(t), when[t] <= now,
               RunStep("top", [at |-> "due", t |-> t, until |-> 0]), heap' = heap \ {t},
               UNCHANGED <<when, wakeup, fired>>
        PROVE  IInv'
    <2>1. TypeOK'
      BY <1>4 DEF TypeOK
    <2>2. HoldsTimer' /\ Pushed' /\ CloseJoins' /\ DecidedRight' /\ NoLostWakeup'
      BY <1>4 DEF TypeOK, HoldsTimer, Busy, Pushed, CloseJoins, DecidedRight, NoLostWakeup
    <2>3. FiredLast'
      <3>1. t \in Timers /\ interval[t] \in Nat
        BY <1>4, Intervals DEF TypeOK
      <3> QED BY <1>4, <3>1 DEF TypeOK, FiredLast
    <2>4. NoTimerLost'
      BY <1>4 DEF Assumptions, TypeOK, HoldsTimer, Busy, NoTimerLost
    <2> QED BY <2>1, <2>2, <2>3, <2>4
  <1> QED BY <1>1, <1>2, <1>3, <1>4 DEF RunTop

\* The goroutine falls asleep, or returns, and wakes up.
LEMMA RunSleepStep == ASSUME Assumptions, IInv, RunSleep \/ RunWake PROVE IInv'
  <1> USE DEF IInv, RunStep
  <1>1. CASE RunSleep
    <2>1. TypeOK'
      BY <1>1 DEF RunSleep, TypeOK, Loop
    <2>2. HoldsTimer' /\ Pushed' /\ FiredLast' /\ DecidedRight' /\ NoTimerLost' /\ CloseJoins'
      BY <1>1 DEF RunSleep, TypeOK, Loop, HoldsTimer, Busy, Pushed, FiredLast,
         DecidedRight,
                  NoTimerLost, CloseJoins
    <2>3. NoLostWakeup'
      BY <1>1 DEF RunSleep, TypeOK, Loop, DecidedRight, TokenComing, NoLostWakeup
    <2> QED BY <2>1, <2>2, <2>3
  <1>2. CASE RunWake
    <2>1. TypeOK'
      <3>1. /\ run' = Loop("top")
            /\ UNCHANGED <<now, heap, when, interval, cancelled, closed, adder, fired, closer>>
        BY <1>2 DEF RunWake
      <3>2. wakeup' \in BOOLEAN
        BY <1>2, Zenon DEF RunWake, TypeOK
      <3> QED BY <3>1, <3>2 DEF TypeOK, Loop
    <2>2. HoldsTimer' /\ Pushed' /\ FiredLast' /\ DecidedRight' /\ NoTimerLost' /\ CloseJoins'
      BY <1>2 DEF RunWake, TypeOK, Loop, HoldsTimer, Busy, Pushed, FiredLast,
         DecidedRight,
                  NoTimerLost, CloseJoins
    <2>3. NoLostWakeup'
      BY <1>2 DEF RunWake, Loop, NoLostWakeup
    <2> QED BY <2>1, <2>2, <2>3
  <1> QED BY <1>1, <1>2

\* The goroutine fires its timer and, if it recurs, pushes it again.
LEMMA RunFireStep == ASSUME Assumptions, IInv, RunFire \/ RunAgain PROVE IInv'
  <1> USE DEF IInv, RunStep
  <1>1. CASE RunFire
    <2>1. TypeOK'
      BY <1>1 DEF RunFire, TypeOK, HoldsTimer, Busy, FiredLast
    <2>2. HoldsTimer' /\ Pushed' /\ CloseJoins' /\ DecidedRight' /\ NoLostWakeup'
      BY <1>1 DEF RunFire, TypeOK, HoldsTimer, Busy, Pushed, CloseJoins, DecidedRight,
         NoLostWakeup
    <2>3. FiredLast'
      BY <1>1 DEF RunFire, TypeOK, HoldsTimer, Busy, FiredLast
    <2>4. NoTimerLost'
      BY <1>1 DEF RunFire, TypeOK, HoldsTimer, Busy, NoTimerLost
    <2> QED BY <2>1, <2>2, <2>3, <2>4
  <1>2. CASE RunAgain
    <2>0. run.t \in Timers /\ interval[run.t] \in Nat /\ now \in Nat /\ fired[run.t] \in Nat
      <3>1. run.t \in Timers /\ now \in Nat
        BY <1>2 DEF Assumptions, RunAgain, TypeOK, HoldsTimer, Busy
      <3> QED BY <3>1, Intervals DEF TypeOK
    <2>1. TypeOK'
      BY <1>2, <2>0 DEF RunAgain, TypeOK, Loop
    <2>2. HoldsTimer' /\ Pushed' /\ CloseJoins' /\ DecidedRight' /\ NoLostWakeup'
      BY <1>2 DEF Assumptions, RunAgain, TypeOK, Loop, HoldsTimer, Busy, Pushed,
         CloseJoins,
                  DecidedRight, NoLostWakeup
    <2>3. FiredLast'
      BY <1>2 DEF Assumptions, RunAgain, TypeOK, Loop, HoldsTimer, Busy, FiredLast
    <2>4. NoTimerLost'
      <3> SUFFICES ASSUME NEW t \in Timers, adder[t] \in {"wake", "added"}, ~closed
                   PROVE  \/ t \in heap' \cup cancelled
                          \/ interval[t] = 0 /\ fired[t] = 1
        BY <1>2 DEF RunAgain, NoTimerLost
      <3>1. CASE t # run.t
        BY <1>2, <3>1 DEF RunAgain, NoTimerLost
      <3>2. CASE t = run.t
        BY <1>2, <2>0, <3>2 DEF RunAgain, TypeOK, FiredLast
      <3> QED BY <3>1, <3>2
    <2> QED BY <2>1, <2>2, <2>3, <2>4
  <1> QED BY <1>1, <1>2

\* A Close call.
LEMMA CloserStep ==
    ASSUME IInv, NEW c \in Closers, Close(c)
    PROVE  IInv'
  <1> USE DEF IInv, Close, GotoC
  <1>1. TypeOK'
    BY Zenon DEF TypeOK
  <1>2. HoldsTimer' /\ Pushed' /\ FiredLast' /\ NoTimerLost' /\ CloseJoins'
    BY DEF TypeOK, HoldsTimer, Busy, Pushed, FiredLast, NoTimerLost, CloseJoins
  <1>3. DecidedRight'
    BY DEF DecidedRight, TokenComing
  <1>4. NoLostWakeup'
    BY DEF TypeOK, NoLostWakeup
  <1> QED BY <1>1, <1>2, <1>3, <1>4

\* The invariant is inductive.
LEMMA StepInv ==
    ASSUME Assumptions, IInv, [Next]_vars
    PROVE  IInv'
  <1>1. CASE Next
    BY <1>1, TickStep, RunTopStep, RunSleepStep, RunFireStep, CallerStep, CloserStep
       DEF Next, Run
  <1>2. CASE UNCHANGED vars
    BY <1>2 DEF vars, IInv, TypeOK, HoldsTimer, Busy, Pushed, FiredLast, DecidedRight,
                TokenComing, NoLostWakeup, NoTimerLost, CloseJoins
  <1> QED BY <1>1, <1>2
=============================================================================
