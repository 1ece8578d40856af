---------------------------- MODULE KafkaConsumer ---------------------------
(***************************************************************************)
(* kafka: the consumer group and the single-partition consumer of both     *)
(* backends, on one partition whose messages are 0 .. Messages - 1.  The   *)
(* client libraries are external: they deliver from a position, commit     *)
(* what was marked, end a session at a rebalance, and report errors.       *)
(***************************************************************************)
EXTENDS Integers, Sequences, FiniteSets

CONSTANTS
    Messages,        \* messages in the partition
    Capacity,        \* of msgCh (64)
    MaxSessions,     \* sessions of a group member, or restarts of it
    MaxErrors        \* errors of the stream

VARIABLES
    kind,            \* "saramaGroup", "franzGroup", "sarama" or "franz" (partition consumers)
    mode,            \* DeliveryMode: "callback" or "channel"
    consume,         \* Consume, or the pump: "idle", "poll", "handle", "send", "end"
    closer,          \* Close: "no", "marked", "once", "done"
    ctxDone,         \* the caller's ctx, or the pump's after pumpCancel
    pos,             \* the next message the client delivers
    marked, committed,  \* offsets marked by the session, and committed at the broker
    cnt,             \* received, acked, failed, rebalance; sessions and errors so far
    handled,         \* messages whose handler returned nil
    msgCh,           \* the channel of Messages(): its state and what is in it
    ranger           \* the caller ranging over Messages()

vars == <<kind, mode, consume, closer, ctxDone, pos, marked, committed, cnt, handled, msgCh, ranger>>

Group == kind \in {"saramaGroup", "franzGroup"}

Init ==
    /\ kind \in {"saramaGroup", "franzGroup", "sarama", "franz"}
    /\ mode \in IF Group THEN {"callback"} ELSE {"callback", "channel"}
    /\ consume = "idle" /\ closer = "no" /\ ctxDone = FALSE
    /\ pos = 0 /\ marked = 0 /\ committed = 0 /\ handled = {}
    /\ cnt = [received |-> 0, acked |-> 0, failed |-> 0, rebalance |-> 0, sessions |-> 0, errors |-> 0]
    /\ msgCh = [state |-> "none", buf |-> <<>>]
    /\ ranger = "idle"

Bump(c) == [cnt EXCEPT ![c] = @ + 1]
client == <<kind, mode, closer, ctxDone>>
delivery == <<msgCh, ranger>>
-----------------------------------------------------------------------------
\* Consume: refused on a closed consumer.
Begin ==
    /\ consume = "idle" /\ mode = "callback" /\ closer = "no"
    /\ consume' = "poll"
    /\ UNCHANGED <<client, committed, cnt, handled, delivery>>

\* A group member starts where the group has committed to.
FromCommit == Begin /\ pos' = committed /\ marked' = committed

SaramaGroupConsume == kind = "saramaGroup" /\ FromCommit
FranzGroupConsume == kind = "franzGroup" /\ FromCommit
SaramaConsume == kind = "sarama" /\ Begin /\ UNCHANGED <<pos, marked>>
FranzConsume == kind = "franz" /\ Begin /\ UNCHANGED <<pos, marked>>

\* One message from the stream, on its way to the handler or to the channel.
Next1 ==
    /\ consume = "poll" /\ pos < Messages
    /\ pos' = pos + 1
    /\ cnt' = Bump("received")
    /\ consume' = IF mode = "callback" THEN "handle" ELSE "send"
    /\ UNCHANGED <<client, marked, committed, handled, delivery>>

\* A closed sarama client delivers nothing more; the loops over franz-go hand out
\* the batch they have polled to its end, whatever ctx and Close do meanwhile.
SaramaReceive == kind \in {"saramaGroup", "sarama"} /\ closer # "done" /\ Next1
FranzReceive == kind \in {"franzGroup", "franz"} /\ Next1

\* An error of the stream, pushed to Errors() if there is room there.
StreamError(counted) ==
    /\ cnt.errors < MaxErrors
    /\ cnt' = [Bump("errors") EXCEPT !.failed = IF counted THEN @ + 1 ELSE @]
    /\ UNCHANGED <<client, consume, pos, marked, committed, handled, delivery>>

\* The group's drainErrors only reports; the loops of the others count as well.
DrainErrors == kind = "saramaGroup" /\ StreamError(FALSE)
PumpError == kind # "saramaGroup" /\ consume = "poll" /\ StreamError(TRUE)

\* The handler returned nil (an ACK), an error, or panicked (a NACK either way).
Verdict(ok) ==
    /\ consume = "handle"
    /\ cnt' = Bump(IF ok THEN "acked" ELSE "failed")
    /\ handled' = IF ok THEN handled \cup {pos - 1} ELSE handled
    /\ consume' = "poll"
    /\ UNCHANGED <<client, pos, committed, delivery>>

\* A claim that marks before it looks at the handler's error.
MarksAnyway(ok) == kind = "saramaGroup" /\ Verdict(ok) /\ marked' = pos

\* MarkMessage and MarkCommitRecords: the group goes on after the message.
ConsumeClaim(ok) == kind = "saramaGroup" /\ Verdict(ok) /\ marked' = IF ok THEN pos ELSE marked
FranzGroupHandle(ok) == kind = "franzGroup" /\ Verdict(ok) /\ marked' = IF ok THEN pos ELSE marked

\* The pumps mark nothing.
SaramaPumpHandle(ok) == kind = "sarama" /\ Verdict(ok) /\ UNCHANGED marked
FranzPumpHandle(ok) == kind = "franz" /\ Verdict(ok) /\ UNCHANGED marked

\* The client's autocommit.
Commit ==
    /\ Group /\ committed < marked
    /\ committed' = marked
    /\ UNCHANGED <<client, consume, pos, marked, cnt, handled, delivery>>

\* A rebalance ends the session, with or without a last commit; sarama's Consume
\* counts it and starts the next one, franz-go's client does so by itself.
Rebalance ==
    /\ Group /\ consume = "poll" /\ ~ctxDone /\ closer = "no" /\ cnt.sessions < MaxSessions
    /\ committed' \in {committed, marked}
    /\ pos' = committed' /\ marked' = committed'
    /\ cnt' = [Bump("sessions") EXCEPT !.rebalance = IF kind = "saramaGroup" THEN @ + 1 ELSE @]
    /\ UNCHANGED <<client, consume, handled, delivery>>

\* The process dies and a new member takes over.
Crash ==
    /\ Group /\ cnt.sessions < MaxSessions /\ consume # "idle" /\ closer = "no" /\ ~ctxDone
    /\ consume' = "idle"
    /\ cnt' = [[c \in DOMAIN cnt |-> 0] EXCEPT !.sessions = cnt.sessions + 1, !.errors = cnt.errors]
    /\ UNCHANGED <<client, pos, marked, committed, handled, delivery>>

\* The loop ends; the pump of channel mode closes the channel.
Leave(why) ==
    /\ consume = "poll" /\ why
    /\ consume' = "end"
    /\ msgCh' = IF mode = "channel" THEN [msgCh EXCEPT !.state = "closed"] ELSE msgCh
    /\ UNCHANGED <<client, pos, marked, committed, cnt, handled, ranger>>

\* A closed sarama client ends its session or stream; a franz-go loop looks at ctx only.
SaramaReturns == kind \in {"saramaGroup", "sarama"} /\ Leave(ctxDone \/ closer = "done")
FranzReturns == kind \in {"franzGroup", "franz"} /\ Leave(ctxDone)

\* A fatal error of the session ends the group's Consume.
SaramaFails == kind = "saramaGroup" /\ Leave(TRUE)
-----------------------------------------------------------------------------
(* Channel mode.                                                           *)
\* Messages(): the first call makes the channel and starts the pump, unless
\* Close has spent the Once; the caller then ranges over what it returns.
Range0 ==
    /\ mode = "channel" /\ ranger = "idle"
    /\ ranger' = "ranging"
    /\ IF msgCh.state = "none" /\ closer \in {"no", "marked"}
       THEN consume' = "poll" /\ msgCh' = [msgCh EXCEPT !.state = "open"]
       ELSE UNCHANGED <<consume, msgCh>>
    /\ UNCHANGED <<client, pos, marked, committed, cnt, handled>>

SaramaMessages == kind = "sarama" /\ Range0
FranzMessages == kind = "franz" /\ Range0

\* A pump that cannot be interrupted on a full channel.
PumpSendDeaf ==
    /\ consume = "send" /\ Len(msgCh.buf) < Capacity
    /\ consume' = "poll" /\ msgCh' = [msgCh EXCEPT !.buf = Append(@, pos - 1)]
    /\ UNCHANGED <<client, pos, marked, committed, cnt, handled, ranger>>

\* out <- msg, or the pump's ctx.
PumpSend ==
    /\ consume = "send"
    /\ \/ /\ Len(msgCh.buf) < Capacity
          /\ consume' = "poll" /\ msgCh' = [msgCh EXCEPT !.buf = Append(@, pos - 1)]
       \/ /\ ctxDone
          /\ consume' = "end" /\ msgCh' = [msgCh EXCEPT !.state = "closed"]
    /\ UNCHANGED <<client, pos, marked, committed, cnt, handled, ranger>>

\* The caller's range: a message, or the end of a closed channel.
Range ==
    /\ ranger = "ranging" /\ msgCh.state # "none"
    /\ \/ msgCh.buf # <<>> /\ msgCh' = [msgCh EXCEPT !.buf = Tail(@)] /\ UNCHANGED ranger
       \/ msgCh.buf = <<>> /\ msgCh.state = "closed" /\ ranger' = "end" /\ UNCHANGED msgCh
    /\ UNCHANGED <<client, consume, pos, marked, committed, cnt, handled>>

\* The caller stops reading, which leaves the pump to block on a full channel.
RangeBreaks ==
    /\ ranger = "ranging" /\ ranger' = "left"
    /\ UNCHANGED <<client, consume, pos, marked, committed, cnt, handled, msgCh>>
-----------------------------------------------------------------------------
\* Close: the flag, then the client; a partition consumer in between spends the
\* Once (waiting for a Messages() in it) and cancels the pump.
Mark == closer = "no" /\ closer' = "marked" /\ UNCHANGED ctxDone
StopPump ==
    /\ closer = "marked" /\ closer' = "once"
    /\ ctxDone' = (ctxDone \/ (mode = "channel" /\ msgCh.state # "none"))
Release(after) == closer = after /\ closer' = "done" /\ UNCHANGED ctxDone
CloseStep(step) == step /\ UNCHANGED <<kind, mode, consume, pos, marked, committed, cnt, handled, delivery>>

SaramaGroupClose == kind = "saramaGroup" /\ CloseStep(Mark \/ Release("marked"))
FranzGroupClose == kind = "franzGroup" /\ CloseStep(Mark \/ Release("marked"))
SaramaClose == kind = "sarama" /\ CloseStep(Mark \/ StopPump \/ Release("once"))
FranzClose == kind = "franz" /\ CloseStep(Mark \/ StopPump \/ Release("once"))
Close == SaramaGroupClose \/ FranzGroupClose \/ SaramaClose \/ FranzClose

\* The caller cancels ctx; channel mode has the pump's own.
Cancel ==
    /\ ~ctxDone /\ mode = "callback" /\ consume # "idle"
    /\ ctxDone' = TRUE
    /\ UNCHANGED <<kind, mode, consume, closer, pos, marked, committed, cnt, handled, delivery>>

Handled ==
    \E ok \in BOOLEAN : ConsumeClaim(ok) \/ FranzGroupHandle(ok) \/ SaramaPumpHandle(ok) \/ FranzPumpHandle(ok)
Returns == SaramaReturns \/ FranzReturns
Pump == SaramaReceive \/ FranzReceive \/ Handled \/ PumpSend \/ Returns

Next ==
    \/ SaramaGroupConsume \/ FranzGroupConsume \/ SaramaConsume \/ FranzConsume
    \/ Pump \/ DrainErrors \/ PumpError \/ SaramaFails \/ Commit \/ Rebalance \/ Crash
    \/ SaramaMessages \/ FranzMessages \/ Range \/ RangeBreaks \/ Close \/ Cancel

\* What is left of a Close that has begun.
Closes == closer # "no" /\ Close
\* The pump and Consume run as goroutines; a closing client and a caller that
\* ranges keep going; the select of a pump whose ctx is over does not ignore it.
Fairness == WF_vars(Pump) /\ WF_vars(Range) /\ WF_vars(Closes) /\ SF_vars(Returns)
Spec == Init /\ [][Next]_vars
FairSpec == Spec /\ Fairness
-----------------------------------------------------------------------------
TypeOK ==
    /\ consume \in {"idle", "poll", "handle", "send", "end"} /\ closer \in {"no", "marked", "once", "done"}
    /\ pos \in 0 .. Messages /\ marked \in 0 .. Messages /\ committed \in 0 .. Messages
    /\ handled \subseteq 0 .. Messages - 1 /\ Len(msgCh.buf) <= Capacity
    /\ \A c \in DOMAIN cnt : cnt[c] \in Nat

\* The group never commits past a message it has not been given, the message just
\* below the commit is one whose handler returned nil; and within a session what
\* was received is acked, failed or in hand.
CommitsAreEarned ==
    /\ committed <= marked \/ consume = "idle"
    /\ marked <= pos
    /\ committed > 0 => committed - 1 \in handled
    /\ mode = "callback"
         => LET hand == IF consume = "handle" THEN 1 ELSE 0
            IN  /\ cnt.received >= cnt.acked + hand
                /\ cnt.received <= cnt.acked + cnt.failed + hand
                /\ kind = "saramaGroup" => cnt.received = cnt.acked + cnt.failed + hand

\* What holds between any two steps, from which it follows: a mark is earned
\* before it is committed, and a crash or a rebalance goes back to an earned one.
Counts == [received : Nat, acked : Nat, failed : Nat, rebalance : Nat, sessions : Nat, errors : Nat]
IInv ==
    /\ pos \in Nat /\ marked \in Nat /\ committed \in Nat /\ cnt \in Counts
    /\ committed <= marked /\ marked <= pos
    /\ marked > 0 => marked - 1 \in handled
    /\ committed > 0 => committed - 1 \in handled
    /\ mode = "callback" =>
         /\ consume = "handle" => /\ cnt.received >= cnt.acked + 1
                                  /\ cnt.received <= cnt.acked + cnt.failed + 1
         /\ consume # "handle" => /\ cnt.received >= cnt.acked
                                  /\ cnt.received <= cnt.acked + cnt.failed
         /\ kind = "saramaGroup" =>
              /\ consume = "handle" => cnt.received = cnt.acked + cnt.failed + 1
              /\ consume # "handle" => cnt.received = cnt.acked + cnt.failed

\* Close ends the pump and a caller ranging over Messages(): "the pump exits to
\* close msgCh" (sarama_partition_consumer.go:189-191).
Ranging == ranger = "ranging"
Closing == closer # "no" /\ Ranging /\ msgCh.state # "none"
CloseEndsRange == Closing ~> ~Ranging
=============================================================================
