---------------------------- MODULE BlockingFifo ----------------------------
(***************************************************************************)
(* What package ringbuffer promises: a first-in first-out queue of at most *)
(* Cap items.  A call that does not succeed says why: Push fails only once *)
(* the queue is closed, TryPush also when it is full, Pop only once it is  *)
(* closed and empty, TryPop only when it is empty.  On TryPop the package  *)
(* disagrees with itself: this is what its README says ("false if empty",  *)
(* and after Close "remaining items still poppable", README.md:13 and :24) *)
(* and its fuzz test asserts (fuzz_test.go:15-16); the comment             *)
(* "Returns false if empty or closed" (ringbuffer.go:99) says otherwise,   *)
(* and is RingBuffer's TryPopFailsWhenClosed, which MCClaims refutes.      *)
(***************************************************************************)
EXTENDS Integers, Sequences

CONSTANTS Threads, Items, Cap

VARIABLES queue, closed, ret

vars == <<queue, closed, ret>>

Done(t, op, ok, items) ==
    ret' = [by |-> t, op |-> op, ok |-> ok, items |-> items]

Init ==
    /\ queue = <<>>
    /\ closed = FALSE
    /\ ret = <<>>

Enqueue(t, op, x) ==
    /\ ~closed
    /\ Len(queue) < Cap
    /\ queue' = Append(queue, x)
    /\ Done(t, op, TRUE, <<>>)
    /\ UNCHANGED closed

Dequeue(t, op) ==
    /\ queue # <<>>
    /\ queue' = Tail(queue)
    /\ Done(t, op, TRUE, <<Head(queue)>>)
    /\ UNCHANGED closed

Fails(op) ==
    \/ op = "push" /\ closed
    \/ op = "trypush" /\ (closed \/ Len(queue) = Cap)
    \/ op = "pop" /\ closed /\ queue = <<>>
    \/ op = "trypop" /\ queue = <<>>

Refuse(t, op) ==
    /\ Fails(op)
    /\ Done(t, op, FALSE, <<>>)
    /\ UNCHANGED <<queue, closed>>

DrainAll(t) ==
    /\ queue' = <<>>
    /\ Done(t, "drain", TRUE, queue)
    /\ UNCHANGED closed

CloseIt(t) ==
    /\ closed' = TRUE
    /\ Done(t, "close", TRUE, <<>>)
    /\ UNCHANGED queue

Next ==
    \E t \in Threads :
        \/ \E x \in Items, op \in {"push", "trypush"} : Enqueue(t, op, x)
        \/ \E op \in {"pop", "trypop"} : Dequeue(t, op)
        \/ \E op \in {"push", "trypush", "pop", "trypop"} : Refuse(t, op)
        \/ DrainAll(t)
        \/ CloseIt(t)

Spec == Init /\ [][Next]_vars

=============================================================================
