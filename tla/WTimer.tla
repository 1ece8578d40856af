------------------------------- MODULE WTimer -------------------------------
(***************************************************************************)
(* Package wtimer: callers push timers on a heap and wake the one goroutine*)
(* that fires them, which sleeps until the earliest is due.  wakeup is a   *)
(* channel of capacity 1 on which sends never block.  The heap is modelled *)
(* as a set: its top is any timer with the least when.                     *)
(***************************************************************************)
EXTENDS Naturals, FiniteSets

CONSTANTS
    Timers,       \* the timers, each added by a call of its own
    Closers,
    Delays,       \* the delays, and the intervals of recurring timers
    MaxTime       \* bound on the clock

VARIABLES
    now,
    heap, when,   \* w.heap, and each timer's when
    interval,     \* each timer's interval, 0 for a one-shot
    cancelled,    \* the timers whose Cancel was called
    wakeup,       \* a token is in w.wakeup
    closed,
    adder,        \* where each call of add is
    run,          \* the goroutine: [at, t, until]
    fired,        \* how often each callback was called
    closer        \* where each Close call is

vars == <<now, heap, when, interval, cancelled, wakeup, closed, adder, run, fired, closer>>

NoTimer == "no timer"
Loop(at) == [at |-> at, t |-> NoTimer, until |-> 0]

Init ==
    /\ now = 0
    /\ heap = {} /\ cancelled = {}
    /\ when = [t \in Timers |-> 0]
    /\ interval = [t \in Timers |-> 0]
    /\ wakeup = FALSE /\ closed = FALSE
    /\ adder = [t \in Timers |-> "new"]
    /\ run = Loop("top")
    /\ fired = [t \in Timers |-> 0]
    /\ closer = [c \in Closers |-> "new"]

Tick ==
    /\ now < MaxTime
    /\ now' = now + 1
    /\ UNCHANGED <<heap, when, interval, cancelled, wakeup, closed, adder, run, fired, closer>>

-----------------------------------------------------------------------------
\* add: the check of closed, the push, and the wake.
AddCheck(t, delay, recurs) ==
    /\ adder[t] = "new" /\ now + delay <= MaxTime
    /\ adder' = [adder EXCEPT ![t] = IF closed THEN "refused" ELSE "push"]
    /\ when' = [when EXCEPT ![t] = IF closed THEN 0 ELSE now + delay]
    /\ interval' = [interval EXCEPT ![t] = IF recurs /\ ~closed THEN delay ELSE 0]
    /\ UNCHANGED <<now, heap, cancelled, wakeup, closed, run, fired, closer>>

AddPush(t) ==
    /\ adder[t] = "push"
    /\ adder' = [adder EXCEPT ![t] = "wake"]
    /\ heap' = heap \cup {t}
    /\ UNCHANGED <<now, when, interval, cancelled, wakeup, closed, run, fired, closer>>

\* No wake at all.
AddWakeNever(t) ==
    /\ adder[t] = "wake"
    /\ adder' = [adder EXCEPT ![t] = "added"]
    /\ UNCHANGED <<now, heap, when, interval, cancelled, wakeup, closed, run, fired, closer>>

\* wake only when the heap was empty.
AddWakeFirstOnly(t) ==
    /\ adder[t] = "wake"
    /\ adder' = [adder EXCEPT ![t] = "added"]
    /\ wakeup' = (wakeup \/ heap = {t})
    /\ UNCHANGED <<now, heap, when, interval, cancelled, closed, run, fired, closer>>

AddWake(t) ==
    /\ adder[t] = "wake"
    /\ adder' = [adder EXCEPT ![t] = "added"]
    /\ wakeup' = TRUE
    /\ UNCHANGED <<now, heap, when, interval, cancelled, closed, run, fired, closer>>

\* The caller got the timer back and cancels it.
Cancel(t) ==
    /\ adder[t] = "added"
    /\ cancelled' = cancelled \cup {t}
    /\ UNCHANGED <<now, heap, when, interval, wakeup, closed, adder, run, fired, closer>>

-----------------------------------------------------------------------------
Top(t) == t \in heap /\ \A u \in heap : when[t] <= when[u]

RunStep(from, next) ==
    /\ run.at = from /\ run' = next
    /\ UNCHANGED <<now, interval, cancelled, closed, adder, closer>>

\* Under the lock: cancelled timers are taken off the top; then the goroutine
\* finds the heap empty, its top not yet due, or a timer to fire.
RunTop ==
    /\ \/ \E t \in cancelled :
            Top(t) /\ RunStep("top", Loop("top")) /\ heap' = heap \ {t}
       \/ heap = {} /\ RunStep("top", Loop("empty")) /\ UNCHANGED heap
       \/ \E t \in heap \ cancelled :
            /\ Top(t) /\ when[t] > now
            /\ RunStep("top", [at |-> "notDue", t |-> NoTimer, until |-> when[t]])
            /\ UNCHANGED heap
       \/ \E t \in heap \ cancelled :
            /\ Top(t) /\ when[t] <= now
            /\ RunStep("top", [at |-> "due", t |-> t, until |-> 0])
            /\ heap' = heap \ {t}
    /\ UNCHANGED <<when, wakeup, fired>>

\* Outside the lock: it returns if the wheel is closed, else it sleeps.
RunSleep ==
    /\ \/ RunStep("empty", Loop(IF closed THEN "exited" ELSE "parked"))
       \/ RunStep("notDue", IF closed THEN Loop("exited") ELSE [run EXCEPT !.at = "sleep"])
    /\ UNCHANGED <<heap, when, wakeup, fired>>

\* It wakes up by a token, or by its timer.
RunWake ==
    /\ \/ wakeup /\ RunStep("parked", Loop("top")) /\ wakeup' = FALSE
       \/ wakeup /\ RunStep("sleep", Loop("top")) /\ wakeup' = FALSE
       \/ now >= run.until /\ RunStep("sleep", Loop("top")) /\ UNCHANGED wakeup
    /\ UNCHANGED <<heap, when, fired>>

\* The look at cancelled, then the callback (a panic is recovered).
RunFire ==
    /\ \/ /\ RunStep("due", [run EXCEPT !.at = IF run.t \in cancelled THEN "again" ELSE "fire"])
          /\ UNCHANGED fired
       \/ /\ RunStep("fire", [run EXCEPT !.at = "again"])
          /\ fired' = [fired EXCEPT ![run.t] = @ + 1]
    /\ UNCHANGED <<heap, when, wakeup>>

\* A recurring timer goes back on the heap.
RunAgain ==
    /\ RunStep("again", Loop("top"))
    /\ IF interval[run.t] > 0 /\ run.t \notin cancelled /\ ~closed
       THEN /\ when' = [when EXCEPT ![run.t] = now + interval[run.t]]
            /\ heap' = heap \cup {run.t}
       ELSE UNCHANGED <<when, heap>>
    /\ UNCHANGED <<wakeup, fired>>

Run == RunTop \/ RunSleep \/ RunWake \/ RunFire \/ RunAgain

-----------------------------------------------------------------------------
GotoC(c, from, to) ==
    /\ closer[c] = from /\ closer' = [closer EXCEPT ![c] = to]
    /\ UNCHANGED <<now, heap, when, interval, cancelled, adder, run, fired>>

\* Close: the call that sets closed wakes the goroutine and waits for it; a later
\* one has nothing to do.
Close(c) ==
    \/ GotoC(c, "new", IF closed THEN "noop" ELSE "wake") /\ closed' = TRUE /\ UNCHANGED wakeup
    \/ GotoC(c, "wake", "wait") /\ wakeup' = TRUE /\ UNCHANGED closed
    \/ run.at = "exited" /\ GotoC(c, "wait", "returned") /\ UNCHANGED <<closed, wakeup>>

Next ==
    \/ Tick
    \/ Run
    \/ \E t \in Timers :
        \/ \E delay \in Delays, recurs \in BOOLEAN : AddCheck(t, delay, recurs)
        \/ AddPush(t) \/ AddWake(t) \/ Cancel(t)
    \/ \E c \in Closers : Close(c)

Spec == Init /\ [][Next]_vars

\* What is left of a Close that has begun.
Joining(c) == closer[c] # "new" /\ Close(c)
\* Time passes, and the goroutine and the calls in progress are scheduled.
FairSpec ==
    /\ Spec
    /\ WF_vars(Tick) /\ WF_vars(Run)
    /\ \A t \in Timers : WF_vars(AddPush(t) \/ AddWake(t))
    /\ \A c \in Closers : WF_vars(Joining(c))

-----------------------------------------------------------------------------
TypeOK ==
    /\ now \in 0 .. MaxTime
    /\ heap \subseteq Timers /\ cancelled \subseteq Timers
    /\ when \in [Timers -> Nat] /\ interval \in [Timers -> Delays \cup {0}]
    /\ wakeup \in BOOLEAN /\ closed \in BOOLEAN
    /\ adder \in [Timers -> {"new", "push", "wake", "added", "refused"}]
    /\ run \in [at : {"top", "empty", "notDue", "parked", "sleep", "due", "fire", "again", "exited"},
                t : Timers \cup {NoTimer}, until : Nat]
    /\ fired \in [Timers -> Nat]
    /\ \A t \in Timers : interval[t] = 0 => fired[t] <= 1
    /\ closer \in [Closers -> {"new", "noop", "wake", "wait", "returned"}]

\* No lost wakeup: the goroutine never sleeps past a timer on the heap, or past
\* Close, unless a token is on its way to it.
NoLostWakeup ==
    run.at \in {"parked", "sleep"} =>
        \/ wakeup
        \/ \E t \in Timers : adder[t] = "wake"
        \/ \E c \in Closers : closer[c] = "wake"
        \/ /\ ~closed
           /\ \A t \in heap : run.at = "sleep" /\ run.until <= when[t]

\* No timer is lost: as long as the wheel is open, a timer that was added is on
\* the heap, with the goroutine, cancelled, or a one-shot that has fired.
NoTimerLost ==
    \A t \in Timers :
        adder[t] \in {"wake", "added"} /\ ~closed =>
            t \in heap \cup cancelled \/ run.t = t \/ (interval[t] = 0 /\ fired[t] = 1)

\* Close joins the goroutine: when the call that closed the wheel returns, no
\* callback runs or will run.
CloseJoins == \A c \in Closers : closer[c] = "returned" => run.at = "exited"

\* Timers fire: a timer that was added fires, unless it is cancelled or the
\* wheel is closed.
Added(t) == adder[t] = "added"
FiredOrGone(t) == fired[t] > 0 \/ t \in cancelled \/ closed
TimersFire == \A t \in Timers : Added(t) ~> FiredOrGone(t)

\* Close returns.
Closing(c) == closer[c] = "wake"
Returned(c) == closer[c] = "returned"
CloseReturns == \A c \in Closers : Closing(c) ~> Returned(c)

=============================================================================
