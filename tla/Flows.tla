-------------------------------- MODULE Flows -------------------------------
(***************************************************************************)
(* Components that run other people's code: fsm.Machine (actions, hooks),  *)
(* signalbus.Bus (handlers), syncutil.Merge (the channels' other ends),    *)
(* grpcserver and httpserver (requests), debounce.Throttle (fn), and       *)
(* ip.PublicIP (HTTP servers).  `cell' is the object's fields, `call' the  *)
(* goroutines, `log' what was run, in order.                               *)
(***************************************************************************)
EXTENDS Integers, Sequences, FiniteSets, Functions

CONSTANTS
    Kinds, Threads,
    MaxOps,           \* calls made
    Rules,            \* fsm's rules: records of from, event and to
    Sources, MaxItems, \* the channels merged; values sent on each
    MaxConns,         \* requests in flight
    Interval, Horizon \* the throttle's interval; bound on its clock

VARIABLES kind, cell, call, log, ops

vars == <<kind, cell, call, log, ops>>

Idle == [pc |-> "idle"]
Is(k) == kind = k
At(t, pc) == call[t].pc = pc
Becomes(t, c) == call' = [call EXCEPT ![t] = c]
Begin(t, c) == At(t, "idle") /\ ops < MaxOps /\ ops' = ops + 1 /\ Becomes(t, c)
-----------------------------------------------------------------------------
(* fsm.Machine.                                                            *)
\* Send holds sendMu until it returns.
LockSend(t) == /\ cell.sendMu = {} /\ cell' = [cell EXCEPT !.sendMu = {t}]

SendEvent(t, e) ==
    /\ LockSend(t)
    /\ Begin(t, [pc |-> "lookup", event |-> e])
    /\ UNCHANGED log

Unlocked(c) == [c EXCEPT !.sendMu = {}]

\* Under mu: the rule and its guard.  A guard that panics leaves mu locked.
Lookup(t) ==
    /\ At(t, "lookup") /\ ~cell.mu
    /\ LET rules == {r \in Rules : r.from = cell.current /\ r.event = call[t].event}
       IN  \/ \E r \in rules : Becomes(t, [pc |-> "action", from |-> r.from, to |-> r.to]) /\ UNCHANGED cell
           \/ cell' = Unlocked(cell) /\ Becomes(t, Idle)   \* no rule, or the guard said no
           \/ rules # {} /\ cell' = [Unlocked(cell) EXCEPT !.mu = TRUE] /\ Becomes(t, Idle)
    /\ UNCHANGED <<log, ops>>

\* sendMu released for the action.
ActionUnlocked(t) ==
    /\ At(t, "action")
    /\ log' = Append(log, <<"action", call[t].from, call[t].to>>)
    /\ Becomes(t, [call[t] EXCEPT !.pc = "commit"]) /\ cell' = Unlocked(cell)
    /\ UNCHANGED ops

\* The action, outside mu: done, or failed or panicked with nothing changed.
Action(t) ==
    /\ At(t, "action")
    /\ \/ /\ log' = Append(log, <<"action", call[t].from, call[t].to>>)
          /\ Becomes(t, [call[t] EXCEPT !.pc = "commit"]) /\ UNCHANGED cell
       \/ cell' = Unlocked(cell) /\ Becomes(t, Idle) /\ UNCHANGED log
    /\ UNCHANGED ops

\* The new state.
Commit(t) ==
    /\ At(t, "commit") /\ ~cell.mu
    /\ cell' = [cell EXCEPT !.current = call[t].to]
    /\ Becomes(t, [call[t] EXCEPT !.pc = "hooks"]) /\ log' = Append(log, <<"commit", call[t].from, call[t].to>>)
    /\ UNCHANGED ops

\* onExit of the old state, onEnter of the new one and the listeners, in this
\* order, outside mu; one that panics ends them, and Send.
Hooks(t) ==
    /\ At(t, "hooks")
    /\ log' = Append(log, <<"hooks", call[t].from, call[t].to>>)
    /\ cell' = Unlocked(cell) /\ Becomes(t, Idle) /\ UNCHANGED ops

Machine ==
    /\ Is("fsm") /\ UNCHANGED kind
    /\ \E t \in Threads : \/ \E r \in Rules : SendEvent(t, r.event)
                          \/ Lookup(t) \/ Action(t) \/ Commit(t) \/ Hooks(t)

\* Transitions run one after the other, each whole and from where the last ended.
MachineOK ==
    \A i \in DOMAIN log :
        LET e == log[i]
            n == (i - 1) % 3
        IN  /\ e[1] = <<"action", "commit", "hooks">>[n + 1]
            /\ n > 0 => log[i - 1][2] = e[2] /\ log[i - 1][3] = e[3]
            /\ n = 0 => e[2] = IF i = 1 THEN cell.initial ELSE log[i - 1][3]
-----------------------------------------------------------------------------
(* signalbus.Bus, one signal name: `arr' is the slice's backing array and  *)
(* `len' its length; handlers are known by their ids.                      *)
Subs == SubSeq(cell.arr, 1, cell.len)

Connect ==
    /\ ops < MaxOps /\ ops' = ops + 1
    /\ LET id == cell.nextID + 1
       IN  cell' = [arr |-> Append(Subs, id) \o SubSeq(cell.arr, cell.len + 2, Len(cell.arr)),
                    len |-> cell.len + 1, nextID |-> id]
    /\ UNCHANGED <<call, log>>

\* remove: the ones after it move down in the array, the last slot is cleared;
\* the last of a name takes the slice with it.
Gone(ids) == [t \in Threads |-> IF At(t, "dispatch") THEN [call[t] EXCEPT !.gone = @ \cup ids] ELSE call[t]]
RemoveSub(id) ==
    /\ ops < MaxOps /\ ops' = ops + 1
    /\ cell' = IF cell.len = 1 THEN [cell EXCEPT !.arr = <<>>, !.len = 0]
               ELSE [cell EXCEPT !.arr = SelectSeq(Subs, LAMBDA x : x # id) \o <<0>> \o SubSeq(@, cell.len + 1, Len(@)),
                                 !.len = @ - 1]
    /\ call' = Gone({id}) /\ UNCHANGED log

\* Disconnect drops the slice.
Disconnect ==
    /\ ops < MaxOps /\ ops' = ops + 1
    /\ cell' = [cell EXCEPT !.arr = <<>>, !.len = 0]
    /\ call' = Gone(Range(Subs)) /\ UNCHANGED log

\* Send: copy the handlers under the lock, run them without it.
SendSignal(t) ==
    /\ Begin(t, [pc |-> "dispatch", snapshot |-> Subs, ran |-> <<>>, before |-> Range(Subs), gone |-> {}])
    /\ UNCHANGED <<cell, log>>

\* invoke: one handler, which may panic, to no effect on the others; a handler
\* may itself use the bus, the steps of which come in between.
Invoke(t) ==
    /\ At(t, "dispatch")
    /\ IF Len(call[t].ran) = Len(call[t].snapshot)
       THEN Becomes(t, [call[t] EXCEPT !.pc = "sent"])
       ELSE Becomes(t, [call[t] EXCEPT !.ran = Append(@, call[t].snapshot[Len(@) + 1])])
    /\ UNCHANGED <<cell, log, ops>>

Sent(t) == At(t, "sent") /\ Becomes(t, Idle) /\ UNCHANGED <<cell, log, ops>>

Bus ==
    /\ Is("bus") /\ UNCHANGED kind
    /\ \/ Connect \/ Disconnect
       \/ \E id \in Range(Subs) : RemoveSub(id)
       \/ \E t \in Threads : SendSignal(t) \/ Invoke(t) \/ Sent(t)

\* A Send runs each handler that stays connected once, in the order they were
\* connected, and none that was not connected when it began.
BusOK ==
    /\ \A i \in 1 .. cell.len - 1 : cell.arr[i] < cell.arr[i + 1]
    /\ \A t \in Threads : call[t].pc \in {"dispatch", "sent"} =>
          LET c == call[t] IN
          /\ Range(c.ran) \subseteq c.before
          /\ \A i \in 1 .. Len(c.ran) - 1 : c.ran[i] < c.ran[i + 1]
          /\ c.pc = "sent" => c.before \ c.gone \subseteq Range(c.ran)
-----------------------------------------------------------------------------
(* syncutil.Merge: an OrDone goroutine and a multiplex goroutine for each  *)
(* source, unbuffered channels between them and to the consumer.  `log' is *)
(* what the consumer got.                                                  *)
OrDones == {<<"ordone", s>> : s \in Sources}
Multiplexes == {<<"mux", s>> : s \in Sources}
D(s) == <<"ordone", s>>
M(s) == <<"mux", s>>

\* A value, or the close, of the source.
Receive(s) ==
    /\ At(D(s), "idle")
    /\ IF cell.sent[s] < MaxItems
       THEN /\ cell' = [cell EXCEPT !.sent[s] = @ + 1]
            /\ Becomes(D(s), [pc |-> "send", v |-> cell.sent[s] + 1])
       ELSE Becomes(D(s), [pc |-> "gone"]) /\ UNCHANGED cell
    /\ UNCHANGED <<log, ops>>

Handoff(s) ==
    /\ At(D(s), "send") /\ At(M(s), "idle")
    /\ call' = [call EXCEPT ![D(s)] = Idle, ![M(s)] = call[D(s)]]
    /\ UNCHANGED <<cell, log, ops>>

\* range sees the close of OrDone's channel.
MuxEnds(s) == At(M(s), "idle") /\ At(D(s), "gone") /\ Becomes(M(s), [pc |-> "gone"]) /\ UNCHANGED <<cell, log, ops>>

Emit(s) ==
    /\ At(M(s), "send") /\ cell.reading /\ ~cell.closed
    /\ log' = Append(log, <<s, call[M(s)].v>>)
    /\ Becomes(M(s), Idle) /\ UNCHANGED <<cell, ops>>

\* ctx.Done in any of the selects.
Cancelled(g) == cell.done /\ call[g].pc \in {"idle", "send"} /\ (g[1] = "mux" => At(g, "send"))
                /\ Becomes(g, [pc |-> "gone"]) /\ UNCHANGED <<cell, log, ops>>

\* The closer goroutine, after the WaitGroup.
CloseOut ==
    /\ ~cell.closed /\ \A s \in Sources : At(M(s), "gone")
    /\ cell' = [cell EXCEPT !.closed = TRUE] /\ UNCHANGED <<call, log, ops>>

CtxDone == ~cell.done /\ cell' = [cell EXCEPT !.done = TRUE] /\ UNCHANGED <<call, log, ops>>
StopReading == cell.reading /\ cell' = [cell EXCEPT !.reading = FALSE] /\ UNCHANGED <<call, log, ops>>

MergeStep ==
    \/ \E s \in Sources : Receive(s) \/ Handoff(s) \/ MuxEnds(s) \/ Emit(s)
    \/ \E g \in OrDones \cup Multiplexes : Cancelled(g)
    \/ CloseOut
Merge == Is("merge") /\ UNCHANGED kind /\ (MergeStep \/ CtxDone \/ StopReading)

\* The consumer gets each source's values in order with none missing; when the
\* channel closes without ctx it has them all; nobody can still send on it.
MergeOK ==
    /\ \A s \in Sources :
         LET got == SelectSeq(log, LAMBDA e : e[1] = s)
         IN  /\ \A i \in DOMAIN got : got[i][2] = i
             /\ cell.closed /\ ~cell.done => Len(got) = MaxItems
    /\ cell.closed => \A s \in Sources : At(M(s), "gone")
-----------------------------------------------------------------------------
(* grpcserver and httpserver: Start.  The serve goroutine of a call puts   *)
(* its error into a channel of size 1, so that nobody need receive it.     *)
\* grpcserver.Start: only the first goes on; one without a listener fails.
GrpcStart(t) ==
    /\ cell.server = "grpc"
    /\ \E listener \in BOOLEAN :
         Begin(t, IF cell.started \/ ~listener THEN [pc |-> "returned", err |-> "refused", own |-> FALSE]
                  ELSE [pc |-> "select", err |-> "", own |-> FALSE])
    /\ cell' = [cell EXCEPT !.started = TRUE] /\ UNCHANGED log

\* httpserver.Start: a second one finds the address taken, or the server shut down.
HttpStart(t) ==
    /\ cell.server = "http"
    /\ Begin(t, [pc |-> "select", err |-> "", own |-> FALSE])
    /\ cell' = [cell EXCEPT !.started = TRUE] /\ UNCHANGED log

\* The serve goroutine: binds and serves, or is refused at once; it returns because
\* the server is stopping, or because accepting failed.
Serve(t) ==
    /\ call[t].pc \in {"select", "stopping"}
    /\ IF call[t].own
       THEN /\ Becomes(t, [call[t] EXCEPT !.own = FALSE, !.err = "closed"])
            /\ cell' = [cell EXCEPT !.serving = FALSE]
       ELSE /\ call[t].err = ""
            /\ IF cell.draining \/ cell.serving
               THEN Becomes(t, [call[t] EXCEPT !.err = "refused"]) /\ UNCHANGED cell
               ELSE Becomes(t, [call[t] EXCEPT !.own = TRUE]) /\ cell' = [cell EXCEPT !.serving = TRUE]
    /\ UNCHANGED <<log, ops>>

\* select: the goroutine's error, or ctx.
ServeFailed(t) ==
    /\ At(t, "select") /\ call[t].err # ""
    /\ Becomes(t, [call[t] EXCEPT !.pc = "returned"]) /\ UNCHANGED <<cell, log, ops>>

CtxEnds(t) ==
    /\ At(t, "select")
    /\ cell' = [cell EXCEPT !.draining = TRUE]
    /\ Becomes(t, [call[t] EXCEPT !.pc = "stopping"]) /\ UNCHANGED <<log, ops>>

\* GracefulStop, Shutdown: done when no request is left.
Graceful(t) ==
    /\ At(t, "stopping") /\ cell.conns = 0
    /\ Becomes(t, [call[t] EXCEPT !.pc = "stopped"]) /\ UNCHANGED <<cell, log, ops>>

\* After shutdownTO: Stop, Close.
Forced(t) ==
    /\ At(t, "stopping")
    /\ cell' = [cell EXCEPT !.conns = 0]
    /\ Becomes(t, [call[t] EXCEPT !.pc = "stopped"]) /\ UNCHANGED <<log, ops>>

Request ==
    /\ \/ cell.serving /\ ~cell.draining /\ cell.conns < MaxConns /\ cell' = [cell EXCEPT !.conns = @ + 1]
       \/ cell.conns > 0 /\ cell' = [cell EXCEPT !.conns = @ - 1]
    /\ UNCHANGED <<call, log, ops>>

Server ==
    /\ Is("server") /\ UNCHANGED kind
    /\ \/ Request
       \/ \E t \in Threads : \/ GrpcStart(t) \/ HttpStart(t) \/ Serve(t) \/ ServeFailed(t)
                             \/ CtxEnds(t) \/ Graceful(t) \/ Forced(t)

\* A Start that stopped the server leaves no request behind, and grpcserver is
\* stopped by no other Start than the one that serves.
ServerOK ==
    /\ \A t \in Threads : At(t, "stopped") => cell.conns = 0
    /\ cell.server = "grpc" => Cardinality({t \in Threads : call[t].pc \in {"select", "stopping", "stopped"}}) <= 1
-----------------------------------------------------------------------------
(* debounce.Throttle.  The zero time of `last' is longer ago than any      *)
(* interval.  `log' has the times at which a call let fn run.              *)
\* Call and CallBlocking, up to the lock: a look at closed.
ThrottleCall(t) ==
    /\ \E blocking \in BOOLEAN :
          Begin(t, IF cell.closed THEN Idle ELSE [pc |-> "lock", blocking |-> blocking])
    /\ UNCHANGED <<cell, log>>

\* Under mu: at least the interval since the last run, or the call is dropped.
\* Call starts fn on a goroutine of its own, CallBlocking runs it under mu.
Throttled(t) ==
    /\ At(t, "lock") /\ ~cell.mu
    /\ IF cell.now - cell.last >= Interval
       THEN /\ cell' = [cell EXCEPT !.last = cell.now, !.calls = @ + 1, !.mu = call[t].blocking]
            /\ log' = Append(log, cell.now)
            /\ Becomes(t, IF call[t].blocking THEN [pc |-> "fn"] ELSE Idle)
       ELSE Becomes(t, Idle) /\ UNCHANGED <<cell, log>>
    /\ UNCHANGED ops

\* fn returns or panics; the deferred Unlock runs in either case.
FnDone(t) ==
    /\ At(t, "fn") /\ cell' = [cell EXCEPT !.mu = FALSE]
    /\ Becomes(t, Idle) /\ UNCHANGED <<log, ops>>

ThrottleClose == ~cell.closed /\ cell' = [cell EXCEPT !.closed = TRUE] /\ UNCHANGED <<call, log, ops>>
Clock == cell.now < Horizon /\ cell' = [cell EXCEPT !.now = @ + 1] /\ UNCHANGED <<call, log, ops>>

Throttle ==
    /\ Is("throttle") /\ UNCHANGED kind
    /\ \/ Clock \/ ThrottleClose
       \/ \E t \in Threads : ThrottleCall(t) \/ Throttled(t) \/ FnDone(t)

\* Calls that are let through are at least an interval apart, however they race;
\* Calls counts them; and CallBlocking's runs of fn do not overlap.
ThrottleOK ==
    /\ \A i \in 1 .. Len(log) - 1 : log[i + 1] - log[i] >= Interval
    /\ cell.calls = Len(log)
    /\ Cardinality({t \in Threads : At(t, "fn")}) = IF cell.mu THEN 1 ELSE 0
-----------------------------------------------------------------------------
(* ip.PublicIP: up to three rounds, in each of which one goroutine per URL *)
(* fetches an address and sends it on the round's own channel, which has   *)
(* room for all of them.  A goroutine is known by its round and URL; those *)
(* of a round that is over go on.  `log' has what the rounds returned.     *)
Rounds == 1 .. 3
Fetchers == Rounds \X Threads
Blank == "blank"   \* an answer that is empty but for spaces

\* PublicIP's loop: the next round, while there is no address.
NextRound ==
    /\ cell.main = "sleep" /\ cell.round < 3
    /\ cell' = [cell EXCEPT !.main = "select", !.round = @ + 1]
    /\ call' = [f \in Fetchers |-> IF f[1] = cell.round + 1 THEN [pc |-> "get"] ELSE call[f]]
    /\ UNCHANGED <<log, ops>>

\* getPublicIPByHTTPGet sends nothing after an error.  A body that cannot be read,
\* an unknown content type, and JSON without the field give an empty address.
Fetch(f) ==
    /\ At(f, "get")
    /\ \E r \in {"error", Blank} \cup Threads :
         IF r = "error" THEN Becomes(f, [pc |-> "gone"]) /\ UNCHANGED cell
         ELSE /\ Len(cell.chan[f[1]]) < Cardinality(Threads)
              /\ cell' = [cell EXCEPT !.chan[f[1]] = Append(@, r)]
              /\ Becomes(f, [pc |-> "gone"])
    /\ UNCHANGED <<log, ops>>

\* getPublicIPMultiChannel's select: an address ends the round, a blank does not.
TakeAddress ==
    /\ cell.main = "select" /\ cell.chan[cell.round] # <<>>
    /\ LET r == Head(cell.chan[cell.round])
           c == [cell EXCEPT !.chan[cell.round] = Tail(@)]
       IN  IF r = Blank THEN cell' = c /\ UNCHANGED log
           ELSE cell' = [c EXCEPT !.main = "done"] /\ log' = Append(log, r)
    /\ UNCHANGED <<call, ops>>

\* The timer; after the last round PublicIP returns nothing.
RoundTimeout ==
    /\ cell.main = "select"
    /\ cell' = [cell EXCEPT !.main = IF cell.round < 3 THEN "sleep" ELSE "done"]
    /\ log' = Append(log, Blank) /\ UNCHANGED <<call, ops>>

PublicIP ==
    /\ Is("publicip") /\ UNCHANGED kind
    /\ NextRound \/ TakeAddress \/ RoundTimeout \/ \E f \in Fetchers : Fetch(f)

\* PublicIP gives up only after three timeouts and tries no more once it has an
\* address; and no fetch, however late, finds its channel full.
PublicIPOK ==
    /\ cell.main = "done" /\ log[Len(log)] = Blank => Len(log) = 3
    /\ \A i \in 1 .. Len(log) - 1 : log[i] = Blank
    /\ \A n \in Rounds :
         LET left == {t \in Threads : At(<<n, t>>, "get")}
         IN  Len(cell.chan[n]) + Cardinality(left) <= Cardinality(Threads)
-----------------------------------------------------------------------------
Cells(k) ==
    CASE k = "fsm" -> {[sendMu |-> {}, mu |-> FALSE, current |-> r.from, initial |-> r.from] : r \in Rules}
      [] k = "bus" -> {[arr |-> <<>>, len |-> 0, nextID |-> 0]}
      [] k = "merge" -> {[sent |-> [s \in Sources |-> 0], done |-> FALSE, closed |-> FALSE, reading |-> TRUE]}
      [] k = "server" -> {[server |-> s, started |-> FALSE, serving |-> FALSE, draining |-> FALSE, conns |-> 0] : s \in {"grpc", "http"}}
      [] k = "throttle" -> {[now |-> 0, last |-> -Interval, closed |-> FALSE, mu |-> FALSE, calls |-> 0]}
      [] k = "publicip" -> {[main |-> "sleep", round |-> 0, chan |-> [n \in Rounds |-> <<>>]]}

Init ==
    /\ kind \in Kinds /\ cell \in Cells(kind)
    /\ call = [t \in CASE kind = "merge" -> OrDones \cup Multiplexes
                        [] kind = "publicip" -> Fetchers
                        [] OTHER -> Threads |-> Idle]
    /\ log = <<>> /\ ops = 0

Next == Machine \/ Bus \/ Merge \/ Server \/ Throttle \/ PublicIP
Spec == Init /\ [][Next]_vars
MergeAlone == Is("merge") /\ UNCHANGED kind /\ MergeStep
\* Goroutines that can go on do.
FairSpec == Spec /\ WF_vars(MergeAlone)
-----------------------------------------------------------------------------
\* Transitions of a state machine never interleave; a signal reaches the handlers
\* that were connected when it was sent; merged channels lose and reorder nothing;
\* a server that has been stopped has no request in flight; a throttle keeps its
\* interval; PublicIP gives up only after its retries, and no
\* goroutine it leaves behind blocks on its channel.
FlowsAgree ==
    /\ Is("fsm") => MachineOK
    /\ Is("bus") => BusOK
    /\ Is("merge") => MergeOK
    /\ Is("server") => ServerOK
    /\ Is("throttle") => ThrottleOK
    /\ Is("publicip") => PublicIPOK

\* When ctx is cancelled Merge's goroutines all end and its channel closes, whether
\* or not the consumer still reads (syncutil.go: OrDone's and multiplex's selects).
MergeCancelled == Is("merge") /\ cell.done
MergeClosed == Is("merge") /\ cell.closed
CancelEndsMerge == MergeCancelled ~> MergeClosed
=============================================================================
