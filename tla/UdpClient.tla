------------------------------ MODULE UdpClient -----------------------------
(***************************************************************************)
(* udpclient: calls of one Client over its one connected socket.  The      *)
(* socket's inbox and its read deadline are shared by all calls; each read *)
(* starts a goroutine that moves the deadline to now when the call's ctx   *)
(* ends.  Datagrams are lost, delayed, reordered and duplicated.           *)
(***************************************************************************)
EXTENDS Naturals, Sequences, FiniteSets

CONSTANTS
    Threads,
    RetryMax,
    MaxCalls         \* calls of the client

VARIABLES
    closed,          \* c.closed
    sock,            \* the socket: open, its inbox, and whether its read deadline is past
    net,             \* replies under way: the attempts they answer
    call,            \* the call of each goroutine
    watchers,        \* the ctxWatcher goroutines
    over,            \* the calls whose ctx has ended
    calls, overlap,  \* calls made; whether two were ever under way together
    stray            \* calls that may have left an answer behind: a Send reads none; the
                     \* others failed, were repeated, took another's answer, or had
                     \* theirs duplicated

vars == <<closed, sock, net, call, watchers, over, calls, overlap, stray>>

NoCall == [pc |-> "idle", id |-> 0, kind |-> "none", attempt |-> 0, err |-> "none", reply |-> 0]

Init ==
    /\ closed = FALSE
    /\ sock = [open |-> TRUE, inbox |-> <<>>, past |-> FALSE]
    /\ net = {} /\ watchers = {} /\ over = {} /\ stray = {}
    /\ call = [t \in Threads |-> NoCall]
    /\ calls = 0 /\ overlap = FALSE

At(t, pc) == call[t].pc = pc
\* An error is told apart by where it arose: that is all the code looks at.
Goto(t, pc) == call' = [call EXCEPT ![t].pc = pc]
Fail(t, pc, e) == call' = [call EXCEPT ![t].pc = pc, ![t].err = e]
Tag(t) == [id |-> call[t].id, attempt |-> call[t].attempt]
-----------------------------------------------------------------------------
\* A call begins: on a closed client it returns at once, and an open breaker
\* refuses it.
Begin(t, kind) ==
    /\ At(t, "idle") /\ calls < MaxCalls /\ ~closed
    /\ calls' = calls + 1
    /\ overlap' = (overlap \/ \E u \in Threads : ~At(u, "idle"))
    /\ LET c == [NoCall EXCEPT !.pc = "send", !.id = calls', !.kind = kind]
       IN  call' \in {[call EXCEPT ![t] = c],
                      [call EXCEPT ![t] = [c EXCEPT !.pc = "end", !.err = "rejected"]]}
    /\ UNCHANGED <<closed, sock, net, watchers, over, stray>>

Send(t) == Begin(t, "send")
SendReceive(t) == Begin(t, "recv")

\* An attempt that goes on after its write.
Written(t) == Goto(t, IF call[t].kind = "send" THEN "end" ELSE "arm")
Answers(t, n) == {[id |-> call[t].id, attempt |-> call[t].attempt, copy |-> i] : i \in 1 .. n}

\* A datagram written again although the first write had gone through.
WriteTwice(t) ==
    /\ At(t, "send")
    /\ \/ /\ sock.open /\ Written(t)
          /\ \E n \in 0 .. 2 : net' = net \cup Answers(t, n)
       \/ Fail(t, "failed", "write") /\ UNCHANGED net
    /\ UNCHANGED <<closed, sock, watchers, over, calls, overlap, stray>>

\* The top of an attempt: closed, or a write deadline that the closed socket
\* refuses, which both end the call; the write, which a Close after the check may
\* overtake.  The peer answers, a Send as well as any other datagram; or the request
\* or its answer is lost.
Write(t) ==
    /\ At(t, "send")
    /\ \/ closed /\ Fail(t, "end", "errClosed") /\ UNCHANGED net
       \/ /\ sock.open /\ Written(t)
          /\ \E n \in 0 .. 1 : net' = net \cup Answers(t, n)
       \/ Fail(t, "failed", "write") /\ UNCHANGED net
    /\ UNCHANGED <<closed, sock, watchers, over, calls, overlap, stray>>

\* readCtx: arm the socket's deadline, start the watcher.
Arm(t) ==
    /\ At(t, "arm")
    /\ IF sock.open
       THEN /\ sock' = [sock EXCEPT !.past = FALSE]
            /\ watchers' = watchers \cup {[of |-> Tag(t), done |-> FALSE]}
            /\ Goto(t, "read")
       ELSE Fail(t, "failed", "read") /\ UNCHANGED <<sock, watchers>>
    /\ UNCHANGED <<closed, net, over, calls, overlap, stray>>

\* The Read: a datagram, the deadline, or the socket's end; then close(done).
Read(t) ==
    /\ At(t, "read")
    /\ \/ ~sock.open /\ Fail(t, "failed", "read") /\ UNCHANGED sock
       \/ sock.open /\ sock.past /\ Fail(t, "failed", "read") /\ UNCHANGED sock
       \/ /\ sock.open /\ ~sock.past /\ sock.inbox # <<>>
          /\ call' = [call EXCEPT ![t].pc = "end", ![t].reply = Head(sock.inbox)]
          /\ sock' = [sock EXCEPT !.inbox = Tail(@)]
    /\ watchers' = {IF w.of = Tag(t) THEN [w EXCEPT !.done = TRUE] ELSE w : w \in watchers}
    /\ UNCHANGED <<closed, net, over, calls, overlap, stray>>

\* shouldRetry: all but the client's own errClosed and the caller's ctx.
ShouldRetry(err) == err \notin {"none", "errClosed", "ctx"}

\* After a failed attempt: ctx's error if the read failed and ctx is over; a
\* retry, within the budget.
Decide(t) ==
    /\ At(t, "failed")
    /\ IF call[t].err = "read" /\ call[t].id \in over THEN Fail(t, "end", "ctx")
       ELSE Goto(t, IF call[t].attempt < RetryMax /\ ShouldRetry(call[t].err) THEN "backoff" ELSE "end")
    /\ UNCHANGED <<closed, sock, net, watchers, over, calls, overlap, stray>>

\* retry: sleep, then the next attempt; when ctx ends the sleep, the last error.
Backoff(t) ==
    /\ At(t, "backoff")
    /\ \/ /\ call' = [call EXCEPT ![t].pc = "send", ![t].attempt = @ + 1, ![t].err = "none"]
          /\ stray' = stray \cup {call[t].id}
       \/ call[t].id \in over /\ Goto(t, "end") /\ UNCHANGED stray
    /\ UNCHANGED <<closed, sock, net, watchers, over, calls, overlap>>

\* A call that read its own answer.
LeavesNothing(t) == call[t].kind # "send" /\ call[t].err = "none" /\ call[t].reply = call[t].id

End(t) ==
    /\ At(t, "end")
    /\ call' = [call EXCEPT ![t] = NoCall]
    /\ stray' = IF LeavesNothing(t) THEN stray ELSE stray \cup {call[t].id}
    /\ UNCHANGED <<closed, sock, net, watchers, over, calls, overlap>>
-----------------------------------------------------------------------------
\* ctxWatcher: ctx.Done() puts the socket's deadline at now; `done' ends it.
\* When both are ready the select takes either.
WatcherFires(w) ==
    /\ w.of.id \in over
    /\ sock' = IF sock.open THEN [sock EXCEPT !.past = TRUE] ELSE sock
    /\ watchers' = watchers \ {w}
    /\ UNCHANGED <<closed, net, call, over, calls, overlap, stray>>

WatcherStops(w) ==
    /\ w.done
    /\ watchers' = watchers \ {w}
    /\ UNCHANGED <<closed, sock, net, call, over, calls, overlap, stray>>

\* The caller's cancel, or their deadline: during the call, or after it (a
\* deferred cancel), when only a watcher that is still there can notice.
CtxDone(id) ==
    /\ id \notin over
    /\ (\E t \in Threads : call[t].id = id) \/ (\E w \in watchers : w.of.id = id)
    /\ over' = over \cup {id}
    /\ UNCHANGED <<closed, sock, net, call, watchers, calls, overlap, stray>>

\* ReadTimeout after the deadline was armed; only a read waiting for it notices.
DeadlinePasses ==
    /\ ~sock.past /\ \E t \in Threads : At(t, "read")
    /\ sock' = [sock EXCEPT !.past = TRUE]
    /\ UNCHANGED <<closed, net, call, watchers, over, calls, overlap, stray>>

\* A datagram reaches the socket, a closed one takes none; the network may
\* deliver it once more.
Deliver(r) ==
    /\ sock.open
    /\ sock' = [sock EXCEPT !.inbox = Append(@, r.id)]
    /\ \/ net' = net \ {r} /\ UNCHANGED stray
       \/ r.id \notin stray /\ stray' = stray \cup {r.id} /\ UNCHANGED net
    /\ UNCHANGED <<closed, call, watchers, over, calls, overlap>>

\* Close: the flag, then the socket.
Close ==
    /\ \/ ~closed /\ closed' = TRUE /\ UNCHANGED sock
       \/ /\ closed /\ sock.open /\ UNCHANGED closed
          /\ sock' = [sock EXCEPT !.open = FALSE, !.inbox = <<>>, !.past = FALSE]
    /\ UNCHANGED <<net, call, watchers, over, calls, overlap, stray>>

Step(t) == Write(t) \/ Arm(t) \/ Read(t) \/ Decide(t) \/ Backoff(t) \/ End(t)
Watcher(w) == WatcherFires(w) \/ WatcherStops(w)

Next ==
    \/ \E t \in Threads : Step(t) \/ Send(t) \/ SendReceive(t)
    \/ \E w \in watchers : Watcher(w)
    \/ \E id \in 1 .. MaxCalls : CtxDone(id)
    \/ \E r \in net : Deliver(r)
    \/ DeadlinePasses \/ Close

Fairness == WF_vars(DeadlinePasses) /\ \A t \in Threads : WF_vars(Step(t))
Spec == Init /\ [][Next]_vars
FairSpec == Spec /\ Fairness
-----------------------------------------------------------------------------
TypeOK ==
    /\ closed \in BOOLEAN /\ (sock.open \/ closed)
    /\ calls \in 0 .. MaxCalls /\ over \subseteq 1 .. calls /\ stray \subseteq 1 .. calls
    /\ \A t \in Threads : call[t].attempt \in 0 .. RetryMax /\ call[t].id \in 0 .. calls
    /\ \A w \in watchers : w.of.id \in 1 .. calls

\* A reply answers the call that returns it, unless calls shared the socket, or
\* it answers an earlier call that the network's duplicate, a failure, a repeat or a
\* Send, which reads no answer, left behind, or that itself returned such a reply: a
\* SendReceive that succeeds at its first attempt, with its own answer, leaves
\* nothing behind for the next call.
ReplyIsOwnOrStray ==
    \A t \in Threads :
        At(t, "end") /\ call[t].reply # 0 /\ call[t].reply # call[t].id
            => overlap \/ call[t].reply \in stray

\* What it rests on.  While calls do not overlap, the answers to a call that is
\* not stray are at most one, on its way or in the inbox; and there is one only
\* while that call is under way or has failed.
CallRecord ==
    [pc : {"idle", "send", "arm", "read", "failed", "backoff", "end"}, id : Nat,
     kind : {"none", "send", "recv"}, attempt : Nat,
     err : {"none", "rejected", "errClosed", "write", "read", "ctx"}, reply : Nat]
Shapes ==
    /\ calls \in Nat /\ overlap \in BOOLEAN
    /\ sock \in [open : BOOLEAN, inbox : Seq(Nat), past : BOOLEAN]
    /\ net \subseteq [id : Nat, attempt : Nat, copy : Nat]
    /\ call \in [Threads -> CallRecord]

Inbox(x) == {i \in DOMAIN sock.inbox : sock.inbox[i] = x}
Coming(x) == {r \in net : r.id = x}
Waiting(t) == ~At(t, "idle") /\ ~At(t, "send") /\ (At(t, "end") => ~LeavesNothing(t))

\* The calls as the code leaves them between two steps.
Calling ==
    \A t \in Threads :
        /\ IF At(t, "idle") THEN call[t].id = 0 ELSE call[t].id = calls
        /\ call[t].attempt > 0 => call[t].id \in stray
        /\ call[t].pc \in {"send", "arm", "read"} => call[t].err = "none"
        /\ call[t].pc \in {"arm", "read"} => call[t].kind # "send"
        /\ call[t].pc \in {"failed", "backoff"} => call[t].err # "none"
        /\ call[t].pc # "end" => call[t].reply = 0
        /\ \A u \in Threads : ~At(t, "idle") /\ ~At(u, "idle") => t = u

One(x) ==
    /\ \A r \in Coming(x) : r.attempt = 0 /\ r.copy = 1
    /\ \A i, k \in Inbox(x) : i = k
    /\ Coming(x) = {} \/ Inbox(x) = {}
    /\ Coming(x) # {} \/ Inbox(x) # {} => \E t \in Threads : Waiting(t) /\ call[t].id = x
OneAnswer == \A x \in Nat \ stray : One(x)

IInv == Shapes /\ ReplyIsOwnOrStray /\ (overlap \/ (Calling /\ OneAnswer))

\* Every call returns: a read ends with its deadline, its ctx or the socket.
Idle(t) == At(t, "idle")
CallReturns == \A t \in Threads : ~Idle(t) ~> Idle(t)
=============================================================================
