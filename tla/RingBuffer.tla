----------------------------- MODULE RingBuffer -----------------------------
(***************************************************************************)
(* The bounded blocking queue of package ringbuffer: a circular buffer     *)
(* guarded by one mutex, on which blocked Push and Pop callers share one   *)
(* condition variable.  Every method is one critical section, except that  *)
(* cond.Wait releases the mutex: a caller that waits joins waitSet, every  *)
(* Broadcast empties waitSet, and a woken caller re-runs its loop.         *)
(***************************************************************************)
EXTENDS Integers, Sequences

CONSTANTS
    Threads,     \* the goroutines that call the buffer
    Items,       \* the values they push
    Cap,         \* rb.cap
    Zero         \* the zero value of T

ASSUME CapAssumption == Cap \in Nat \ {0}
ASSUME ZeroAssumption == Zero \notin Items

VARIABLES
    buf,         \* rb.buf
    head,        \* rb.head, the next write position
    tail,        \* rb.tail, the next read position
    count,       \* rb.count
    closed,      \* rb.closed
    waitSet,     \* the goroutines parked in cond.Wait
    call,        \* the blocking call each goroutine is in the middle of
    ret          \* what the call that finished last returned

data == <<buf, head, tail, count>>
vars == <<buf, head, tail, count, closed, waitSet, call, ret>>

Index == 0 .. Cap - 1
Idle == [op |-> "idle", arg |-> Zero]

\* The items in the buffer, oldest first.
Contents == [i \in 1 .. count |-> buf[(tail + i - 1) % Cap]]

Init ==
    /\ buf = [i \in Index |-> Zero]
    /\ head = 0
    /\ tail = 0
    /\ count = 0
    /\ closed = FALSE
    /\ waitSet = {}
    /\ call = [t \in Threads |-> Idle]
    /\ ret = <<>>

-----------------------------------------------------------------------------
\* A call of t ends and returns.
Return(t, op, ok, items) ==
    /\ ret' = [by |-> t, op |-> op, ok |-> ok, items |-> items]
    /\ call' = [call EXCEPT ![t] = Idle]

\* t enters op, or has been woken inside it and re-runs the wait loop.
Running(t, op, arg) ==
    /\ t \notin waitSet
    /\ call[t] \in {Idle, [op |-> op, arg |-> arg]}

Broadcast == waitSet' = {}

\* cond.Wait: t releases the mutex and parks.
Wait(t, op, arg) ==
    /\ waitSet' = waitSet \cup {t}
    /\ call' = [call EXCEPT ![t] = [op |-> op, arg |-> arg]]
    /\ UNCHANGED <<data, closed, ret>>

\* Write with the wrap-around forgotten.
WriteNoWrap(item) ==
    /\ buf' = [buf EXCEPT ![head] = item]
    /\ head' = head + 1
    /\ count' = count + 1
    /\ Broadcast
    /\ UNCHANGED <<tail, closed>>

\* Write without the Broadcast.
WriteSilent(item) ==
    /\ buf' = [buf EXCEPT ![head] = item]
    /\ head' = (head + 1) % Cap
    /\ count' = count + 1
    /\ UNCHANGED <<tail, closed, waitSet>>

Write(item) ==
    /\ buf' = [buf EXCEPT ![head] = item]
    /\ head' = (head + 1) % Cap
    /\ count' = count + 1
    /\ Broadcast
    /\ UNCHANGED <<tail, closed>>

Read ==
    /\ buf' = [buf EXCEPT ![tail] = Zero]
    /\ tail' = (tail + 1) % Cap
    /\ count' = count - 1
    /\ Broadcast
    /\ UNCHANGED <<head, closed>>

Push(t, item) ==
    /\ Running(t, "push", item)
    /\ \/ /\ count = Cap /\ ~closed
          /\ Wait(t, "push", item)
       \/ /\ closed
          /\ Return(t, "push", FALSE, <<>>)
          /\ UNCHANGED <<data, closed, waitSet>>
       \/ /\ count # Cap /\ ~closed
          /\ Write(item)
          /\ Return(t, "push", TRUE, <<>>)

TryPush(t, item) ==
    /\ call[t] = Idle
    /\ \/ /\ count = Cap \/ closed
          /\ Return(t, "trypush", FALSE, <<>>)
          /\ UNCHANGED <<data, closed, waitSet>>
       \/ /\ count # Cap /\ ~closed
          /\ Write(item)
          /\ Return(t, "trypush", TRUE, <<>>)

\* Pop that looks at closed before it looks at count.
PopClosedFirst(t) ==
    /\ Running(t, "pop", Zero)
    /\ \/ /\ count = 0 /\ ~closed
          /\ Wait(t, "pop", Zero)
       \/ /\ closed
          /\ Return(t, "pop", FALSE, <<>>)
          /\ UNCHANGED <<data, closed, waitSet>>
       \/ /\ count # 0 /\ ~closed
          /\ Read
          /\ Return(t, "pop", TRUE, <<buf[tail]>>)

Pop(t) ==
    /\ Running(t, "pop", Zero)
    /\ \/ /\ count = 0 /\ ~closed
          /\ Wait(t, "pop", Zero)
       \/ /\ count = 0 /\ closed
          /\ Return(t, "pop", FALSE, <<>>)
          /\ UNCHANGED <<data, closed, waitSet>>
       \/ /\ count # 0
          /\ Read
          /\ Return(t, "pop", TRUE, <<buf[tail]>>)

TryPop(t) ==
    /\ call[t] = Idle
    /\ \/ /\ count = 0
          /\ Return(t, "trypop", FALSE, <<>>)
          /\ UNCHANGED <<data, closed, waitSet>>
       \/ /\ count # 0
          /\ Read
          /\ Return(t, "trypop", TRUE, <<buf[tail]>>)

\* Drain that leaves the drained slots as they are.
DrainKeepsSlots(t) ==
    /\ call[t] = Idle
    /\ tail' = (tail + count) % Cap
    /\ head' = tail'
    /\ count' = 0
    /\ Broadcast
    /\ Return(t, "drain", TRUE, Contents)
    /\ UNCHANGED <<buf, closed>>

\* The loop clears the count slots from tail on, then head follows tail.
Drain(t) ==
    /\ call[t] = Idle
    /\ buf' = [i \in Index |->
                 IF \E k \in 0 .. count - 1 : i = (tail + k) % Cap THEN Zero ELSE buf[i]]
    /\ tail' = (tail + count) % Cap
    /\ head' = tail'
    /\ count' = 0
    /\ Broadcast
    /\ Return(t, "drain", TRUE, Contents)
    /\ UNCHANGED closed

\* Close without the Broadcast.
CloseSilent(t) ==
    /\ call[t] = Idle
    /\ closed' = TRUE
    /\ Return(t, "close", TRUE, <<>>)
    /\ UNCHANGED <<data, waitSet>>

Close(t) ==
    /\ call[t] = Idle
    /\ closed' = TRUE
    /\ Broadcast
    /\ Return(t, "close", TRUE, <<>>)
    /\ UNCHANGED data

Step(t) ==
    \/ \E item \in Items : Push(t, item) \/ TryPush(t, item)
    \/ Pop(t)
    \/ TryPop(t)
    \/ Drain(t)
    \/ Close(t)

Next == \E t \in Threads : Step(t)

\* A goroutine woken from cond.Wait gets the mutex and re-runs its loop.
Resume(t) == call[t] # Idle /\ Step(t)

Spec == Init /\ [][Next]_vars
FairSpec == Spec /\ \A t \in Threads : WF_vars(Resume(t))

-----------------------------------------------------------------------------
TypeOK ==
    /\ buf \in [Index -> Items \cup {Zero}]
    /\ head \in Index
    /\ tail \in Index
    /\ count \in 0 .. Cap
    /\ closed \in BOOLEAN
    /\ waitSet \subseteq Threads
    /\ call \in [Threads -> [op : {"idle", "push", "pop"}, arg : Items \cup {Zero}]]

\* The three cursors agree, through wrap-around and through Drain's reset of
\* head: the write position is count slots past the read position, exactly
\* the slots between them hold items, and the others were zeroed for the GC.
CursorsAgree ==
    /\ head = (tail + count) % Cap
    /\ \A k \in 0 .. Cap - 1 : (buf[(tail + k) % Cap] \in Items) <=> (k < count)

\* No lost wakeup: a goroutine is parked in cond.Wait only while the condition
\* it waits for is still false, so no Broadcast is missing from any method.
NoLostWakeup ==
    \A t \in waitSet :
        /\ ~closed
        /\ \/ call[t].op = "push" /\ count = Cap
           \/ call[t].op = "pop" /\ count = 0

\* Close releases every blocked caller: a Push or Pop in progress when the
\* buffer is closed returns.
CloseReleases ==
    \A t \in Threads : (closed /\ call[t] # Idle) ~> (call[t] = Idle)

\* The buffer is a FIFO queue with the results that BlockingFifo allows.
Fifo == INSTANCE BlockingFifo WITH queue <- Contents
FifoSpec == Fifo!Spec

\* "TryPop returns an item without blocking.  Returns false if empty or closed."
\* (ringbuffer.go:99): the last call to return was no TryPop that got an item from a
\* closed buffer.
TryPopFailsWhenClosed ==
    closed /\ ret # <<>> => ~(ret.op = "trypop" /\ ret.ok)

=============================================================================
