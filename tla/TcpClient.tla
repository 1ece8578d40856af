------------------------------ MODULE TcpClient -----------------------------
(***************************************************************************)
(* tcpclient: calls of one Client over its connection pool.  Each attempt  *)
(* of a call checks a connection out, or dials one, runs a goroutine that  *)
(* closes the connection when ctx fires, writes and reads, joins that      *)
(* goroutine, and returns the connection to the pool or closes it; then    *)
(* DoWithRetry decides.  The peer answers lines, a Send's among them if it *)
(* likes, sends more than it was asked for, or hangs up.                   *)
(***************************************************************************)
EXTENDS Naturals, Sequences, FiniteSets, Functions

CONSTANTS
    Threads, Conns,     \* Conns bounds the number of dials
    NoConn,             \* what a call that holds none holds
    PoolSize, RetryMax,
    MaxCalls            \* calls of the client

VARIABLES
    conn,      \* the connections: both ends, what the peer owes, what waits to be read, and
               \* whether a Send over it gets an answer, which nobody is going to read
    pool,      \* p.pool: the idle connections
    closed,    \* p.closed
    closer,    \* how far Close has come: "open", "drain", "done"
    call,      \* the call of each goroutine
    watch,     \* the goroutine racing the attempt against ctx: "on", "off"
    calls      \* calls made so far

vars == <<conn, pool, closed, closer, call, watch, calls>>

NoCall == [pc |-> "idle", id |-> 0, kind |-> "", conn |-> NoConn, attempt |-> 0, err |-> "",
           poolable |-> TRUE, done |-> FALSE, reply |-> 0]
Unused == [ours |-> "none", peer |-> "up", owes |-> <<>>, inbox |-> <<>>, unread |-> FALSE]

Init ==
    /\ conn = [c \in Conns |-> Unused]
    /\ pool = <<>> /\ closed = FALSE /\ closer = "open"
    /\ call = [t \in Threads |-> NoCall]
    /\ watch = [t \in Threads |-> "off"]
    /\ calls = 0

At(t, pc) == call[t].pc = pc
Mine(t) == call[t].conn
\* Errors are told apart as far as the code does: "closed" of our own end, ctx's,
\* the breaker's, and "net" for all others (a timeout, an EOF, a reset).
Goto(t, pc) == call' = [call EXCEPT ![t].pc = pc]
Fail(t, pc, e) == call' = [call EXCEPT ![t].pc = pc, ![t].err = e]

\* Close by whoever owns the connection: it is gone, its name is free for a dial.
Discard(c) == [conn EXCEPT ![c] = Unused]

\* shouldRetry: every error but the caller's own ctx.
ShouldRetry(e) == e \notin {"", "ctx"}

\* DoWithRetry after fn has returned e, which looks at nothing that is shared.
Decide(t, e) ==
    LET again == ShouldRetry(e) /\ call[t].attempt < RetryMax
    IN  call' = [call EXCEPT ![t].pc = IF again THEN "backoff" ELSE "end", ![t].conn = NoConn,
                             ![t].poolable = TRUE, ![t].err = e]
-----------------------------------------------------------------------------
\* A call begins; an open breaker refuses it.
Begin(t, kind) ==
    /\ At(t, "idle") /\ calls < MaxCalls
    /\ calls' = calls + 1
    /\ \/ call' = [call EXCEPT ![t] = [NoCall EXCEPT !.pc = "get", !.id = calls', !.kind = kind]]
       \/ call' = [call EXCEPT ![t] = [NoCall EXCEPT !.pc = "end", !.id = calls', !.kind = kind,
                                                     !.err = "rejected"]]
    /\ UNCHANGED <<conn, pool, closed, closer, watch>>

Send(t) == Begin(t, "send")
SendReceive(t) == Begin(t, "all")
SendReceiveLine(t) == Begin(t, "line")

\* ctx is cancelled, or its deadline passes.
CtxDone(t) ==
    /\ call[t].pc \in {"get", "write", "read", "join", "backoff"} /\ ~call[t].done
    /\ call' = [call EXCEPT ![t].done = TRUE]
    /\ UNCHANGED <<conn, pool, closed, closer, watch, calls>>

Use(t, c) ==
    /\ call' = [call EXCEPT ![t].pc = "write", ![t].conn = c, ![t].poolable = TRUE]
    /\ watch' = [watch EXCEPT ![t] = "on"]

\* get: take the oldest idle connection; one idle for too long is closed and
\* the next one taken.
Checkout(t) ==
    /\ At(t, "get") /\ pool # <<>>
    /\ pool' = Tail(pool)
    /\ \/ Use(t, Head(pool)) /\ UNCHANGED conn
       \/ conn' = Discard(Head(pool)) /\ UNCHANGED <<call, watch>>      \* expired
    /\ UNCHANGED <<closed, closer, calls>>

\* get: no idle connection, dial; a dial under a done ctx fails with its error.
Dial(t) ==
    /\ At(t, "get") /\ pool = <<>>
    /\ \/ /\ ~call[t].done
          /\ \E c \in Conns :
                /\ conn[c].ours = "none"
                /\ conn' = [conn EXCEPT ![c].ours = "open"]
                /\ Use(t, c)
       \/ /\ Decide(t, IF call[t].done THEN "ctx" ELSE "net")
          /\ UNCHANGED <<conn, watch>>
    /\ UNCHANGED <<pool, closed, closer, calls>>

\* The watcher: ctx.Done() closes the connection; `done' ends it.  When both
\* are ready the select takes either.
WatcherCloses(t) ==
    /\ watch[t] = "on" /\ call[t].done
    /\ watch' = [watch EXCEPT ![t] = "off"]
    /\ conn' = [conn EXCEPT ![Mine(t)].ours = "closed"]
    /\ UNCHANGED <<pool, closed, closer, call, calls>>

WatcherStops(t) ==
    /\ watch[t] = "on" /\ At(t, "join")
    /\ watch' = [watch EXCEPT ![t] = "off"]
    /\ UNCHANGED <<conn, pool, closed, closer, call, calls>>

\* The write: delivered, timed out half way, or refused by a peer that is gone.
\* What the peer makes of a Send is its own affair: it may answer that, too.
Write(t) ==
    /\ At(t, "write")
    /\ LET c == Mine(t) IN
       \/ /\ conn[c].ours = "closed" /\ Fail(t, "join", "closed") /\ UNCHANGED conn
       \/ /\ conn[c].ours = "open"
          /\ \E answers \in {TRUE, call[t].kind # "send"} :
                conn' = IF conn[c].peer = "up" /\ answers
                        THEN [conn EXCEPT ![c].owes = Append(@, call[t].id),
                                          ![c].unread = @ \/ call[t].kind = "send"]
                        ELSE conn
          /\ Goto(t, IF call[t].kind = "send" THEN "join" ELSE "read")
       \/ /\ conn[c].ours = "open" /\ Fail(t, "join", "net") /\ UNCHANGED conn
    /\ UNCHANGED <<pool, closed, closer, watch, calls>>

\* writeReadLine: the first line; whatever else one Read brought along is lost
\* with the bufio.Reader, so the connection is not pooled.
ReadLine(t) ==
    /\ At(t, "read") /\ call[t].kind = "line"
    /\ LET c == Mine(t) IN
       /\ conn[c].ours = "open" /\ conn[c].inbox # <<>>
       /\ conn' = [conn EXCEPT ![c].inbox = <<>>]
       /\ call' = [call EXCEPT ![t].pc = "join", ![t].reply = Head(conn[c].inbox),
                               ![t].poolable = (Len(conn[c].inbox) = 1)]
    /\ UNCHANGED <<pool, closed, closer, watch, calls>>

\* readAllUntilEOF: everything up to the peer's hanging up.
ReadAll(t) ==
    /\ At(t, "read") /\ call[t].kind = "all"
    /\ LET c == Mine(t) IN
       /\ conn[c].ours = "open" /\ conn[c].peer = "down"
       /\ conn' = [conn EXCEPT ![c].inbox = <<>>]
       /\ call' = [call EXCEPT ![t].pc = "join", ![t].poolable = FALSE]
    /\ UNCHANGED <<pool, closed, closer, watch, calls>>

\* A read that fails: our end closed by the watcher, the peer gone before a
\* newline, or ReadTimeout.
ReadFails(t) ==
    /\ At(t, "read")
    /\ LET c == Mine(t) IN
       \/ conn[c].ours = "closed" /\ Fail(t, "join", "closed")
       \/ /\ conn[c].ours = "open" /\ conn[c].inbox = <<>> /\ conn[c].peer = "down"
          /\ call[t].kind = "line" /\ Fail(t, "join", "net")
       \/ /\ conn[c].ours = "open" /\ conn[c].peer = "up"
          /\ conn[c].inbox = <<>> \/ call[t].kind = "all"
          /\ Fail(t, "join", "net")
    /\ UNCHANGED <<conn, pool, closed, closer, watch, calls>>

\* put, under p.mu.
Put(c) ==
    IF closed \/ Len(pool) >= PoolSize
    THEN conn' = Discard(c) /\ UNCHANGED pool
    ELSE pool' = Append(pool, c) /\ UNCHANGED conn

\* A put that trusts what fn said and does not look at ctx again.
JoinWithoutCtx(t) ==
    /\ At(t, "join") /\ watch[t] = "off"
    /\ IF call[t].err # "" \/ ~call[t].poolable
       THEN conn' = Discard(Mine(t)) /\ UNCHANGED pool
       ELSE Put(Mine(t))
    /\ Decide(t, call[t].err)
    /\ UNCHANGED <<closed, closer, watch, calls>>

\* withConn after fn: wait for the watcher, then close or pool the connection.
\* An error of a connection the watcher tore down becomes ctx's.
Join(t) ==
    /\ At(t, "join") /\ watch[t] = "off"
    /\ IF call[t].err # "" \/ ~call[t].poolable \/ call[t].done
       THEN conn' = Discard(Mine(t)) /\ UNCHANGED pool
       ELSE Put(Mine(t))
    /\ Decide(t, IF call[t].err = "closed" /\ call[t].done THEN "ctx" ELSE call[t].err)
    /\ UNCHANGED <<closed, closer, watch, calls>>

\* The wait before the next attempt; when ctx fires first, the last error.
Backoff(t) ==
    /\ At(t, "backoff")
    /\ \/ call' = [call EXCEPT ![t].pc = "get", ![t].attempt = @ + 1, ![t].err = ""]
       \/ call[t].done /\ Goto(t, "end")
    /\ UNCHANGED <<conn, pool, closed, closer, watch, calls>>

End(t) ==
    /\ At(t, "end")
    /\ call' = [call EXCEPT ![t] = NoCall]
    /\ UNCHANGED <<conn, pool, closed, closer, watch, calls>>
-----------------------------------------------------------------------------
\* Close: no more pooling, then the drain.
Close ==
    /\ closer = "open"
    /\ closed' = TRUE /\ closer' = "drain"
    /\ UNCHANGED <<conn, pool, call, watch, calls>>

Drain ==
    /\ closer = "drain"
    /\ IF pool = <<>> THEN closer' = "done" /\ UNCHANGED <<conn, pool>>
       ELSE /\ conn' = Discard(Head(pool)) /\ pool' = Tail(pool) /\ UNCHANGED closer
    /\ UNCHANGED <<closed, call, watch, calls>>

\* The peer answers the oldest request, maybe with more than was asked for in
\* the same segment; or it hangs up.
PeerReplies(c) ==
    /\ conn[c].ours = "open" /\ conn[c].peer = "up" /\ conn[c].owes # <<>>
    /\ \E more \in {<<>>, <<0>>} :
         conn' = [conn EXCEPT ![c].inbox = @ \o <<Head(conn[c].owes)>> \o more, ![c].owes = Tail(@)]
    /\ UNCHANGED <<pool, closed, closer, call, watch, calls>>

PeerHangsUp(c) ==
    /\ conn[c].ours = "open" /\ conn[c].peer = "up"
    /\ conn' = [conn EXCEPT ![c].peer = "down", ![c].owes = <<>>]
    /\ UNCHANGED <<pool, closed, closer, call, watch, calls>>

Step(t) ==
    \/ Checkout(t) \/ Dial(t) \/ Write(t) \/ ReadLine(t) \/ ReadAll(t) \/ ReadFails(t)
    \/ Join(t) \/ Backoff(t) \/ End(t)
Watcher(t) == WatcherCloses(t) \/ WatcherStops(t)

Next ==
    \/ \E t \in Threads : Step(t) \/ Watcher(t) \/ CtxDone(t)
    \/ \E t \in Threads : Send(t) \/ SendReceive(t) \/ SendReceiveLine(t)
    \/ Close \/ Drain
    \/ \E c \in Conns : PeerReplies(c) \/ PeerHangsUp(c)

Fairness == WF_vars(Drain) /\ \A t \in Threads : WF_vars(Step(t)) /\ WF_vars(Watcher(t))
Spec == Init /\ [][Next]_vars
FairSpec == Spec /\ Fairness
-----------------------------------------------------------------------------
Held == {Mine(t) : t \in Threads} \ {NoConn}

TypeOK ==
    /\ \A c \in Conns : conn[c].ours \in {"none", "open", "closed"} /\ conn[c].peer \in {"up", "down"}
    /\ Len(pool) <= PoolSize /\ Range(pool) \subseteq Conns
    /\ closer \in {"open", "drain", "done"} /\ closed = (closer # "open")
    /\ calls \in 0 .. MaxCalls
    /\ \A t \in Threads : call[t].attempt \in 0 .. RetryMax /\ watch[t] \in {"on", "off"}

\* A connection is checked out by one call or idle in the pool, never both and
\* never twice; an idle one is still open at our end (no watcher closes it any
\* more); and when Close has drained the pool and the calls are over, every
\* connection ever dialled is closed.
ConnsAccounted ==
    /\ IsInjective(pool) /\ Range(pool) \cap Held = {}
    /\ \A s, t \in Threads : s # t /\ Mine(s) # NoConn => Mine(s) # Mine(t)
    /\ \A c \in Range(pool) : conn[c].ours = "open"
    /\ \A c \in Conns : conn[c].ours = "open" => c \in Held \cup Range(pool)
    /\ closer = "done" => pool = <<>>

\* The line a call is about to return answers its own request: not an earlier
\* call's late answer, nor what an earlier read left behind.  The exception is a
\* connection over which the peer answered a Send: writeOnce leaves that answer
\* behind, withConn pools the connection, and from then on every call that gets it
\* may read the answer to the one before.  Send "suits fire-and-forget or
\* request-without-reply protocols" (example_test.go:58-59): this is what becomes of
\* the calls that share its client with one that is not.
ReplyMatches ==
    \A t \in Threads :
        At(t, "join") /\ call[t].kind = "line" /\ call[t].err = "" =>
            call[t].reply = call[t].id \/ conn[Mine(t)].unread

\* Every call returns: the attempts are bounded, and the read and write
\* deadlines end each of them.
Idle(t) == At(t, "idle")
CallReturns == \A t \in Threads : ~Idle(t) ~> Idle(t)
=============================================================================
