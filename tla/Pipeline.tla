------------------------------ MODULE Pipeline ------------------------------
(***************************************************************************)
(* Package pipeline: workers take items from a bounded channel, apply the  *)
(* stage (which forwards, drops, fails or panics) and send what it forwards*)
(* on the output channel.  Close closes done, waits for the workers, which *)
(* drain the input, and closes the output.  Each item has its own Send.    *)
(***************************************************************************)
EXTENDS Naturals, Sequences, FiniteSets

CONSTANTS
    Items, Workers, Closers,
    InSize, OutSize    \* cap(p.in), cap(p.out)

VARIABLES
    in, out,       \* p.in, p.out
    outClosed,
    done,          \* p.done is closed
    item,          \* what has become of each item
    early,         \* the items accepted before done was closed (history)
    worker, has,   \* where each worker is, and the item it has
    closer         \* where each Close call is

vars == <<in, out, outClosed, done, item, early, worker, has, closer>>

NoItem == "no item"

Init ==
    /\ in = <<>> /\ out = <<>> /\ outClosed = FALSE /\ done = FALSE
    /\ item = [i \in Items |-> "new"]
    /\ early = {}
    /\ worker = [w \in Workers |-> "select"]
    /\ has = [w \in Workers |-> NoItem]
    /\ closer = [c \in Closers |-> "new"]

Becomes(i, from, to) == item[i] = from /\ item' = [item EXCEPT ![i] = to]
Goto(w, from, to) == worker[w] = from /\ worker' = [worker EXCEPT ![w] = to]

-----------------------------------------------------------------------------
SendCall(i) ==
    /\ Becomes(i, "new", "sending")
    /\ UNCHANGED <<in, out, outClosed, done, early, worker, has, closer>>

\* Send's select: room in the channel, done, or ctx done.
Send(i) ==
    /\ \/ /\ Len(in) < InSize
          /\ Becomes(i, "sending", "accepted")
          /\ in' = Append(in, i)
          /\ early' = IF done THEN early ELSE early \cup {i}
       \/ /\ Becomes(i, "sending", "refused")
          /\ UNCHANGED <<in, early>>
    /\ UNCHANGED <<out, outClosed, done, worker, has, closer>>

Take(w, from, to) ==
    /\ in # <<>>
    /\ Goto(w, from, to)
    /\ has' = [has EXCEPT ![w] = Head(in)]
    /\ in' = Tail(in)

\* The select of worker: done, or an item.
Select(w) ==
    /\ \/ Take(w, "select", "stage")
       \/ done /\ Goto(w, "select", "drain") /\ UNCHANGED <<in, has>>
    /\ UNCHANGED <<out, outClosed, done, item, early, closer>>

\* The non-blocking receive of drain.
Drain(w) ==
    /\ \/ Take(w, "drain", "drainStage")
       \/ in = <<>> /\ Goto(w, "drain", "exited") /\ UNCHANGED <<in, has>>
    /\ UNCHANGED <<out, outClosed, done, item, early, closer>>

-----------------------------------------------------------------------------
\* process, from the worker's loop or from drain.
Loop(w) == IF worker[w] \in {"stage", "send"} THEN "select" ELSE "drain"

\* The stage runs: its result is forwarded, or the item is dropped (filtered, an
\* error, or a recovered panic).  The first, non-blocking send delivers when
\* there is room.
Stage(w) ==
    /\ worker[w] \in {"stage", "drainStage"}
    /\ \/ /\ item' = [item EXCEPT ![has[w]] = "dropped"]
          /\ worker' = [worker EXCEPT ![w] = Loop(w)]
          /\ has' = [has EXCEPT ![w] = NoItem]
          /\ UNCHANGED out
       \/ /\ Len(out) < OutSize
          /\ out' = Append(out, has[w])
          /\ item' = [item EXCEPT ![has[w]] = "forwarded"]
          /\ worker' = [worker EXCEPT ![w] = Loop(w)]
          /\ has' = [has EXCEPT ![w] = NoItem]
       \/ /\ Len(out) = OutSize
          /\ worker' = [worker EXCEPT ![w] = IF @ = "stage" THEN "send" ELSE "drainSend"]
          /\ UNCHANGED <<item, has, out>>
    /\ UNCHANGED <<in, outClosed, done, early, closer>>

\* The second send blocks for room, and loses the item when done is closed.
SendOut(w) ==
    /\ worker[w] \in {"send", "drainSend"}
    /\ \/ /\ Len(out) < OutSize
          /\ out' = Append(out, has[w])
          /\ item' = [item EXCEPT ![has[w]] = "forwarded"]
       \/ /\ done
          /\ item' = [item EXCEPT ![has[w]] = "lost"]
          /\ UNCHANGED out
    /\ worker' = [worker EXCEPT ![w] = Loop(w)]
    /\ has' = [has EXCEPT ![w] = NoItem]
    /\ UNCHANGED <<in, outClosed, done, early, closer>>

Work(w) == Select(w) \/ Drain(w) \/ Stage(w) \/ SendOut(w)

\* The consumer takes an item from Out.
Receive ==
    /\ out # <<>>
    /\ out' = Tail(out)
    /\ UNCHANGED <<in, outClosed, done, item, early, worker, has, closer>>

-----------------------------------------------------------------------------
AllExited == \A w \in Workers : worker[w] = "exited"

GotoC(c, from, to) ==
    /\ closer[c] = from /\ closer' = [closer EXCEPT ![c] = to]
    /\ UNCHANGED <<in, out, item, early, worker, has>>

CloseOut(c) ==
    /\ AllExited
    /\ GotoC(c, "waiting", "returned") /\ outClosed' = TRUE /\ UNCHANGED done

\* Close under once.Do: a second call returns only when the first has.
Close(c) ==
    \/ ~done /\ GotoC(c, "new", "waiting") /\ done' = TRUE /\ UNCHANGED outClosed
    \/ CloseOut(c)
    \/ outClosed /\ GotoC(c, "new", "returned") /\ UNCHANGED <<done, outClosed>>

Next ==
    \/ \E i \in Items : SendCall(i) \/ Send(i)
    \/ \E w \in Workers : Work(w)
    \/ \E c \in Closers : Close(c)
    \/ Receive

Spec == Init /\ [][Next]_vars

\* What is left of a Close that has begun.
Joining(c) == closer[c] = "waiting" /\ Close(c)
\* Workers and calls of Close are scheduled; nobody needs to read Out.
FairSpec ==
    /\ Spec
    /\ \A w \in Workers : WF_vars(Work(w))
    /\ \A c \in Closers : WF_vars(Joining(c))

-----------------------------------------------------------------------------
TypeOK ==
    /\ in \in Seq(Items) /\ Len(in) <= InSize
    /\ out \in Seq(Items) /\ Len(out) <= OutSize
    /\ outClosed \in BOOLEAN /\ done \in BOOLEAN
    /\ item \in [Items -> {"new", "sending", "accepted", "refused", "dropped", "forwarded", "lost"}]
    /\ early \subseteq Items
    /\ worker \in [Workers -> {"select", "stage", "send", "drain", "drainStage", "drainSend", "exited"}]
    /\ has \in [Workers -> Items \cup {NoItem}]
    /\ closer \in [Closers -> {"new", "waiting", "returned"}]

\* Full delivery while the pipeline is open: an accepted item waits in the input
\* or with exactly one worker until it is forwarded or the stage drops it; it is
\* lost only after done was closed.
NothingLostWhileOpen ==
    \A i \in Items :
        /\ item[i] = "lost" => done
        /\ item[i] = "accepted" <=>
             Cardinality({k \in 1 .. Len(in) : in[k] = i})
               + Cardinality({w \in Workers : has[w] = i}) = 1

\* Close drains the input: when the workers have exited, no item that was accepted
\* before Close is still waiting.
InputDrained == AllExited => \A i \in early : item[i] # "accepted"

\* No send on a closed channel: Out is closed only when no worker is left.
OutClosedLast == outClosed => AllExited

\* Close returns, even when nobody reads Out.
Closing(c) == closer[c] = "waiting"
Returned(c) == closer[c] = "returned"
CloseReturns == \A c \in Closers : Closing(c) ~> Returned(c)

=============================================================================
