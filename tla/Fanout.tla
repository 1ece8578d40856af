------------------------------- MODULE Fanout -------------------------------
(***************************************************************************)
(* Package fanout: publishers send to every subscriber's channel under a   *)
(* read lock; Subscribe, Unsubscribe and Close change the map under the    *)
(* write lock, and close the channels after they released it.  As in Go's  *)
(* RWMutex, a writer that waits keeps new readers out.  Messages are only  *)
(* counted: buf[s] is the length of the channel of s.                      *)
(***************************************************************************)
EXTENDS Naturals, FiniteSets

CONSTANTS
    Subs,         \* subscriptions, each made at most once
    Publishers,   \* goroutines that publish
    Cancellers,   \* goroutines that unsubscribe
    Closers,      \* goroutines that call Close
    BufferSize    \* f.bufferSize

VARIABLES
    subs,        \* f.subs
    buf,         \* the number of messages in each subscriber's channel
    closes,      \* how often each channel was closed
    made,        \* the subscriptions that Subscribe returned
    closed, done,
    pub,         \* the publishers: [at, rest], rest the subscribers still to be served
    writer       \* the writers: [at, take], take the channels to be closed

vars == <<subs, buf, closes, made, closed, done, pub, writer>>

Writers == Cancellers \cup Closers
Resting == [at |-> "idle", rest |-> {}]
Doing(at, take) == [at |-> at, take |-> take]

Init ==
    /\ subs = {} /\ made = {}
    /\ buf = [s \in Subs |-> 0]
    /\ closes = [s \in Subs |-> 0]
    /\ closed = FALSE /\ done = FALSE
    /\ pub = [p \in Publishers |-> Resting]
    /\ writer = [w \in Writers |-> Doing("idle", {})]

ReadLocked == \E p \in Publishers : pub[p].at # "idle"
WriterWaits == \E w \in Writers : writer[w].at = "lock"

\* The map changes in one critical section, which needs the lock to be free.
WriteLock == ~ReadLocked

-----------------------------------------------------------------------------
Subscribe(s) ==
    /\ s \notin made /\ WriteLock
    /\ made' = made \cup {s}
    /\ subs' = subs \cup {s}
    /\ UNCHANGED <<buf, closes, closed, done, pub, writer>>

\* Publish and PublishBlocking take the read lock, and look at closed.
PublishCall(p, kind) ==
    /\ pub[p].at = "idle" /\ ~WriterWaits
    /\ ~closed
    /\ pub' = [pub EXCEPT ![p] = [at |-> kind, rest |-> subs]]
    /\ UNCHANGED <<subs, buf, closes, made, closed, done, writer>>

\* One round of the loop: the next subscriber, in the map's random order, gets
\* the message if its channel has room; else Publish drops it.
Deliver(p, s) ==
    /\ s \in pub[p].rest
    /\ \/ /\ buf[s] < BufferSize
          /\ buf' = [buf EXCEPT ![s] = @ + 1]
       \/ /\ buf[s] = BufferSize /\ pub[p].at = "publish"
          /\ UNCHANGED buf
    /\ pub' = [pub EXCEPT ![p].rest = @ \ {s}]
    /\ UNCHANGED <<subs, closes, made, closed, done, writer>>

\* PublishBlocking's other cases: its context is done, or the fanout is.
AbortContext(p) ==
    /\ pub[p].at = "blocking" /\ pub[p].rest # {}
    /\ pub' = [pub EXCEPT ![p] = Resting]
    /\ UNCHANGED <<subs, buf, closes, made, closed, done, writer>>

AbortDone(p) ==
    /\ done /\ pub[p].at = "blocking" /\ pub[p].rest # {}
    /\ pub' = [pub EXCEPT ![p] = Resting]
    /\ UNCHANGED <<subs, buf, closes, made, closed, done, writer>>

PublishReturn(p) ==
    /\ pub[p].at # "idle" /\ pub[p].rest = {}
    /\ pub' = [pub EXCEPT ![p] = Resting]
    /\ UNCHANGED <<subs, buf, closes, made, closed, done, writer>>

\* A subscriber reads its channel.
Receive(s) ==
    /\ buf[s] > 0
    /\ buf' = [buf EXCEPT ![s] = @ - 1]
    /\ UNCHANGED <<subs, closes, made, closed, done, pub, writer>>

-----------------------------------------------------------------------------
UnsubscribeCall(w, s) ==
    /\ writer[w].at = "idle" /\ s \in made
    /\ writer' = [writer EXCEPT ![w] = Doing("lock", {s})]
    /\ UNCHANGED <<subs, buf, closes, made, closed, done, pub>>

\* Unsubscribe without the lock.
UnsubscribeUnlocked(w) ==
    /\ w \in Cancellers /\ writer[w].at = "lock"
    /\ writer' = [writer EXCEPT ![w] = Doing("close", @.take \cap subs)]
    /\ subs' = subs \ writer[w].take
    /\ UNCHANGED <<buf, closes, made, closed, done, pub>>

Unsubscribe(w) ==
    /\ w \in Cancellers /\ writer[w].at = "lock" /\ WriteLock
    /\ writer' = [writer EXCEPT ![w] = Doing("close", @.take \cap subs)]
    /\ subs' = subs \ writer[w].take
    /\ UNCHANGED <<buf, closes, made, closed, done, pub>>

\* Close: the first call closes done and only then waits for the lock.
CloseCall(w) ==
    /\ writer[w].at = "idle"
    /\ closed' = TRUE
    /\ writer' = [writer EXCEPT ![w] = Doing(IF closed THEN "returned" ELSE "signal", {})]
    /\ UNCHANGED <<subs, buf, closes, made, done, pub>>

\* The lock is asked for without closing done.
CloseSignalForgotten(w) ==
    /\ writer[w].at = "signal"
    /\ writer' = [writer EXCEPT ![w] = Doing("lock", {})]
    /\ UNCHANGED <<subs, buf, closes, made, closed, done, pub>>

CloseSignal(w) ==
    /\ writer[w].at = "signal"
    /\ done' = TRUE
    /\ writer' = [writer EXCEPT ![w] = Doing("lock", {})]
    /\ UNCHANGED <<subs, buf, closes, made, closed, pub>>

CloseTake(w) ==
    /\ w \in Closers /\ writer[w].at = "lock" /\ WriteLock
    /\ writer' = [writer EXCEPT ![w] = Doing("close", subs)]
    /\ subs' = {}
    /\ UNCHANGED <<buf, closes, made, closed, done, pub>>

\* Outside the lock the channels that were taken out are closed, one by one.
CloseChannel(w) ==
    /\ writer[w].at = "close"
    /\ \/ \E s \in writer[w].take :
            /\ closes' = [closes EXCEPT ![s] = @ + 1]
            /\ writer' = [writer EXCEPT ![w].take = @ \ {s}]
       \/ /\ writer[w].take = {}
          /\ writer' = [writer EXCEPT ![w] = Doing(IF w \in Closers THEN "returned" ELSE "idle", {})]
          /\ UNCHANGED closes
    /\ UNCHANGED <<subs, buf, made, closed, done, pub>>

-----------------------------------------------------------------------------
Publish(p) == AbortDone(p) \/ PublishReturn(p) \/ \E s \in Subs : Deliver(p, s)
Write(w) == Unsubscribe(w) \/ CloseSignal(w) \/ CloseTake(w) \/ CloseChannel(w)

Next ==
    \/ \E s \in Subs : Subscribe(s) \/ Receive(s)
    \/ \E p \in Publishers :
        PublishCall(p, "publish") \/ PublishCall(p, "blocking") \/ AbortContext(p) \/ Publish(p)
    \/ \E w \in Cancellers, s \in Subs : UnsubscribeCall(w, s)
    \/ \E w \in Closers : CloseCall(w)
    \/ \E w \in Writers : Write(w)

Spec == Init /\ [][Next]_vars

\* Calls in progress go on when they can; nobody needs to read the channels or
\* to cancel a context.
FairSpec ==
    /\ Spec
    /\ \A p \in Publishers : WF_vars(Publish(p))
    /\ \A w \in Writers : WF_vars(Write(w))

-----------------------------------------------------------------------------
TypeOK ==
    /\ subs \subseteq made /\ made \subseteq Subs
    /\ buf \in [Subs -> 0 .. BufferSize]
    /\ closes \in [Subs -> Nat]
    /\ closed \in BOOLEAN /\ done \in BOOLEAN
    /\ pub \in [Publishers -> [at : {"idle", "publish", "blocking"}, rest : SUBSET Subs]]
    /\ writer \in [Writers -> [at : {"idle", "lock", "signal", "close", "returned"},
                               take : SUBSET Subs]]

\* No send on a closed channel: a subscriber that a publisher has still to serve
\* has an open channel, although channels are closed outside the lock.
NoSendOnClosed == \A p \in Publishers : \A s \in pub[p].rest : closes[s] = 0

\* No subscriber is forgotten: a channel that is out of the map was closed, or
\* one writer is about to close it.
RemovedIsClosed ==
    \A s \in made \ subs :
        closes[s] + Cardinality({w \in Writers : writer[w].at = "close" /\ s \in writer[w].take}) = 1

\* Close returns, although a PublishBlocking holds the lock and waits for a
\* subscriber that does not read, with a context that is never cancelled.
Closing(w) == writer[w].at = "signal"
Returned(w) == writer[w].at = "returned"
CloseReturns == \A w \in Closers : Closing(w) ~> Returned(w)

=============================================================================
