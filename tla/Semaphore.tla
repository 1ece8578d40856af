----------------------------- MODULE Semaphore ------------------------------
(***************************************************************************)
(* Package semaphore: permits are tokens in a buffered channel.  A unit    *)
(* permit is one receive; a weighted caller holds wmu and receives token by*)
(* token, so unit callers interleave with it.  Every channel operation is  *)
(* a step.                                                                 *)
(***************************************************************************)
EXTENDS Integers, FiniteSetsExt

CONSTANTS
    Threads,     \* goroutines that use the semaphore
    Cap,         \* its capacity
    Weights,     \* the permits they ask for
    MayClose     \* whether Close is called

VARIABLES
    ch,          \* len(s.ch)
    closed,      \* s.closed is closed
    wmu,         \* who holds s.wmu, or None
    pc,          \* where each goroutine is
    op,          \* the call it is in: "acquire" or "try"
    n,           \* the permits it asks for, or still has to release
    got,         \* the tokens takeLocked has received
    held         \* the permits it holds

chan == <<ch, closed>>
call == <<op, n>>
vars == <<chan, wmu, pc, call, got, held>>

None == "none"

Init ==
    /\ ch = Cap
    /\ closed = FALSE
    /\ wmu = None
    /\ pc = [t \in Threads |-> "idle"]
    /\ op = [t \in Threads |-> "acquire"]
    /\ n = [t \in Threads |-> 0]
    /\ got = [t \in Threads |-> 0]
    /\ held = [t \in Threads |-> 0]

Move(t, from, to) ==
    /\ pc[t] = from
    /\ pc' = [pc EXCEPT ![t] = to]

\* A receive that ends t's call: it holds one permit.
TakeUnit(t) ==
    /\ ch > 0
    /\ ch' = ch - 1
    /\ held' = [held EXCEPT ![t] = 1]

\* Acquire: a unit caller polls first, then waits; a weighted one goes for wmu.
\* A goroutine asks only when it holds nothing.
Acquire(t, k) ==
    /\ held[t] = 0
    /\ op' = [op EXCEPT ![t] = "acquire"]
    /\ n' = [n EXCEPT ![t] = k]
    /\ \/ k = 1 /\ Move(t, "idle", "idle") /\ TakeUnit(t)
       \/ k = 1 /\ closed /\ Move(t, "idle", "idle") /\ UNCHANGED <<ch, held>>
       \/ k = 1 /\ ch = 0 /\ ~closed /\ Move(t, "idle", "wait") /\ UNCHANGED <<ch, held>>
       \/ k > 1 /\ Move(t, "idle", "check") /\ UNCHANGED <<ch, held>>
    /\ UNCHANGED <<closed, wmu, got>>

\* The select of a waiting unit caller: a token, Close, or its context.
WaitUnit(t) ==
    /\ Move(t, "wait", "idle")
    /\ \/ TakeUnit(t)
       \/ UNCHANGED <<ch, held>>
    /\ UNCHANGED <<closed, wmu, call, got>>

\* The weighted loop: enough tokens under wmu, or wait for one.
Check(t) ==
    /\ wmu = None
    /\ \/ /\ ch >= n[t]
          /\ Move(t, "check", "take")
          /\ wmu' = t
       \/ /\ ch < n[t]
          /\ Move(t, "check", IF op[t] = "try" THEN "idle" ELSE "waitN")
          /\ UNCHANGED wmu
    /\ UNCHANGED <<chan, call, got, held>>

\* The waiting caller keeps the token it was woken with.
WaitWeightedKeeps(t) ==
    /\ \/ /\ ch > 0
          /\ ch' = ch - 1
          /\ Move(t, "waitN", "check")
       \/ /\ Move(t, "waitN", "idle")
          /\ UNCHANGED ch
    /\ UNCHANGED <<closed, wmu, call, got, held>>

WaitWeighted(t) ==
    /\ \/ /\ ch > 0
          /\ ch' = ch - 1
          /\ Move(t, "waitN", "putBack")
       \/ /\ Move(t, "waitN", "idle")    \* Close, or its context
          /\ UNCHANGED ch
    /\ UNCHANGED <<closed, wmu, call, got, held>>

\* The token is put back under wmu.
PutBackLocked(t) ==
    /\ wmu = None
    /\ ch < Cap
    /\ ch' = ch + 1
    /\ Move(t, "putBack", "check")
    /\ UNCHANGED <<closed, wmu, call, got, held>>

PutBack(t) ==
    /\ ch < Cap
    /\ ch' = ch + 1
    /\ Move(t, "putBack", "check")
    /\ UNCHANGED <<closed, wmu, call, got, held>>

\* takeLocked: one receive; after the last one the caller has its permits.
TakeLocked(t) ==
    /\ ch > 0
    /\ ch' = ch - 1
    /\ IF got[t] + 1 = n[t]
       THEN /\ Move(t, "take", "idle")
            /\ held' = [held EXCEPT ![t] = n[t]]
            /\ got' = [got EXCEPT ![t] = 0]
            /\ wmu' = None
       ELSE /\ Move(t, "take", "take")
            /\ got' = [got EXCEPT ![t] = @ + 1]
            /\ UNCHANGED <<held, wmu>>
    /\ UNCHANGED <<closed, call>>

TryAcquire(t, k) ==
    /\ held[t] = 0
    /\ op' = [op EXCEPT ![t] = "try"]
    /\ n' = [n EXCEPT ![t] = k]
    /\ \/ k = 1 /\ Move(t, "idle", "idle") /\ TakeUnit(t)
       \/ k = 1 /\ ch = 0 /\ Move(t, "idle", "idle") /\ UNCHANGED <<ch, held>>
       \/ k > 1 /\ Move(t, "idle", "check") /\ UNCHANGED <<ch, held>>
    /\ UNCHANGED <<closed, wmu, got>>

\* Release: a no-op once closed, otherwise one non-blocking send per permit.
Release(t) ==
    /\ held[t] > 0
    /\ held' = [held EXCEPT ![t] = 0]
    /\ IF closed
       THEN Move(t, "idle", "idle") /\ UNCHANGED n
       ELSE Move(t, "idle", "send") /\ n' = [n EXCEPT ![t] = held[t]]
    /\ UNCHANGED <<chan, wmu, op, got>>

\* One send too many.
SendTokenExtra(t) ==
    /\ \/ /\ ch < Cap
          /\ ch' = ch + 1
          /\ n' = [n EXCEPT ![t] = @ - 1]
          /\ Move(t, "send", IF n[t] = 0 THEN "idle" ELSE "send")
       \/ /\ ch = Cap
          /\ Move(t, "send", "panic")
          /\ UNCHANGED <<ch, n>>
    /\ UNCHANGED <<closed, wmu, op, got, held>>

SendToken(t) ==
    /\ \/ /\ ch < Cap
          /\ ch' = ch + 1
          /\ n' = [n EXCEPT ![t] = @ - 1]
          /\ Move(t, "send", IF n[t] = 1 THEN "idle" ELSE "send")
       \/ /\ ch = Cap
          /\ Move(t, "send", "panic")
          /\ UNCHANGED <<ch, n>>
    /\ UNCHANGED <<closed, wmu, op, got, held>>

Close ==
    /\ MayClose
    /\ closed' = TRUE
    /\ UNCHANGED <<ch, wmu, pc, call, got, held>>

\* What a goroutine inside a call does next.
Proceed(t) ==
    \/ WaitUnit(t) \/ Check(t) \/ WaitWeighted(t) \/ PutBack(t)
    \/ TakeLocked(t) \/ SendToken(t)

Next ==
    \/ Close
    \/ \E t \in Threads :
        \/ \E k \in Weights : Acquire(t, k) \/ TryAcquire(t, k)
        \/ Release(t)
        \/ Proceed(t)

Spec == Init /\ [][Next]_vars

\* Holders release in the end and calls in progress are scheduled.  A goroutine
\* blocked in takeLocked's receive is first in the channel's queue in the end:
\* receivers are served in order.
FairSpec ==
    /\ Spec
    /\ \A t \in Threads :
        /\ WF_vars(Release(t))
        /\ WF_vars(Check(t) \/ PutBack(t) \/ SendToken(t))
        /\ SF_vars(TakeLocked(t))

-----------------------------------------------------------------------------
TypeOK ==
    /\ ch \in 0 .. Cap
    /\ closed \in BOOLEAN
    /\ wmu \in Threads \cup {None}
    /\ pc \in [Threads -> {"idle", "wait", "check", "waitN", "putBack", "take", "send", "panic"}]
    /\ op \in [Threads -> {"acquire", "try"}]
    /\ n \in [Threads -> 0 .. Cap]
    /\ got \in [Threads -> 0 .. Cap - 1]
    /\ held \in [Threads -> 0 .. Cap]

\* The tokens goroutine t accounts for.
Out(t) ==
    held[t] + got[t] + (IF pc[t] = "putBack" THEN 1 ELSE 0)
        + (IF pc[t] = "send" THEN n[t] ELSE 0)

\* No permit is created or lost: the tokens in the channel and those that
\* goroutines hold, are collecting, passing back or returning add up to the
\* capacity; after Close, when Release drops tokens, to no more than it.
PermitsConserved ==
    LET sum == ch + MapThenSumSet(Out, Threads)
    IN  sum <= Cap /\ (~closed => sum = Cap)

\* Matched releases never panic, and the token that a waiting weighted caller
\* took out always fits back in, so that its send does not block.
ReleaseFits ==
    \A t \in Threads : pc[t] # "panic" /\ (pc[t] = "putBack" => ch < Cap)

\* Comment of takeLocked: a weighted take that unit callers disturb is bounded,
\* there is no deadlock.
Taking(t) == pc[t] = "take"
TakeEnds == \A t \in Threads : Taking(t) ~> ~Taking(t)

=============================================================================
