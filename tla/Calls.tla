-------------------------------- MODULE Calls -------------------------------
(***************************************************************************)
(* The attempt loops that share nothing but counters: httpclient.Do and    *)
(* DoWithRetry, grpcclient's unary and stream interceptors, and retry.Do.  *)
(* A behaviour is one call: what each attempt comes to, when ctx ends and  *)
(* whether an open breaker refuses the call are the environment's choices. *)
(***************************************************************************)
EXTENDS Naturals, FiniteSets

CONSTANTS
    Configured,   \* values of RetryMax (http, grpc) and of MaxAttempts (retry.Do)
    Default       \* defaultClientOptions().RetryMax

VARIABLE call     \* the call, see Init

\* withDefaults: attempts after the first.
RetryMax(n) == IF n <= 0 THEN Default ELSE n

\* How many attempts a call may make; 0 for no limit, which only retry.Do has.
Budget(k, n) == IF k = "retry" THEN n ELSE RetryMax(n) + 1

Init ==
    \E k \in {"http", "unary", "stream", "retry"}, m \in {"GET", "POST"}, n \in Configured :
            /\ k # "http" => m = "GET"
            /\ call = [client |-> k,
                       method |-> m,        \* the calls of the others are not classified
                       budget |-> Budget(k, n),
                       pc |-> "begin",      \* "attempt", "backoff", "drain", "open", "end"
                       attempt |-> 0,
                       last |-> "none",     \* what the last attempt came to
                       err |-> "none",      \* the error the call returns
                       done |-> FALSE,      \* ctx, or the timeout put on it, is over
                       effects |-> 0,       \* how often the server has run the request
                       cut |-> 0,           \* sent attempts cut off by no EOF
                       bodies |-> 0,        \* response bodies not yet closed
                       cancels |-> 0]       \* calls of the stream's cancel function

Is(k, pc) == call.client = k /\ call.pc = pc

\* RequestTimeout, the caller's deadline or their cancel.
CtxDone ==
    /\ ~call.done /\ call.pc \notin {"begin", "end"}
    /\ call' = [call EXCEPT !.done = TRUE]

\* The call is counted, its timeout armed, its request built (which may fail),
\* and handed to the breaker, if there is one, which may refuse it.
Begin ==
    /\ call.pc = "begin"
    /\ \/ call' = [call EXCEPT !.pc = "attempt"]
       \/ /\ call.client # "retry"
          /\ call' = [call EXCEPT !.pc = "end", !.err = "refused",
                                  !.cancels = IF call.client = "stream" THEN 1 ELSE 0]

\* How an attempt leaves the call: in the loop, waiting to try again; or out of
\* it, with an error or without.
Again(c) == [c EXCEPT !.pc = "backoff", !.err = c.last]
Leave(c, e) == [c EXCEPT !.pc = "end", !.err = e]
Retrying(c) == [c EXCEPT !.pc = "attempt", !.attempt = @ + 1]

LastAttempt == call.budget # 0 /\ call.attempt + 1 = call.budget

\* What an attempt that was sent may have done at the server.
Tried(o, ran) == [call EXCEPT !.last = o, !.effects = @ + ran]
-----------------------------------------------------------------------------
(* httpclient.  An attempt ends in a response, or in an error before or    *)
(* after the request went out.                                             *)
Responses == {"2xx", "4xx", "5xx"}
ShouldRetry(o) == o \in {"5xx", "dial", "eof", "reset"}
IsIdempotent == call.method = "GET"

\* A retry of everything retryable, whatever the method.
StopsAnyMethod(o) == ~ShouldRetry(o)

\* Not retryable, or a POST whose request reached the server.
Stops(o) == ~ShouldRetry(o) \/ (~IsIdempotent /\ o \in Responses \cup {"eof"})

\* What an attempt may have done at the server, by how it ended.
Ran(o) == IF o \in Responses THEN {1} ELSE IF o = "dial" THEN {0} ELSE {0, 1}

HttpAttempt(o) ==
    /\ Is("http", "attempt")
    /\ o = "ctx" => call.done
    /\ \E ran \in Ran(o) :
         LET c == [Tried(o, ran) EXCEPT !.cut = IF o = "reset" THEN @ + 1 ELSE @,
                                        !.bodies = IF o \in Responses THEN @ + 1 ELSE @]
         IN  call' = IF ~Stops(o) /\ ~LastAttempt THEN Again(c)
                     ELSE IF o \in Responses THEN [c EXCEPT !.pc = "drain"]
                     ELSE Leave(c, o)

\* The body of a response that is retried is drained and closed first.  When
\* ctx ends the wait, Do returns the last error or ctx's.
HttpBackoff ==
    /\ Is("http", "backoff")
    /\ LET resp == call.last \in Responses
           c == [call EXCEPT !.bodies = IF resp THEN @ - 1 ELSE @]
       IN  \/ call' = Retrying(c)
           \/ call.done /\ call' = Leave(c, IF resp THEN "ctx" ELSE call.last)

\* drainBody: read up to the cap, and close; a body too long or a read that
\* fails (the timeout may end it) is the call's error.
HttpDrain ==
    /\ Is("http", "drain")
    /\ \E e \in {"none", "read", "large"} :
         call' = [Leave(call, e) EXCEPT !.bodies = @ - 1]
-----------------------------------------------------------------------------
(* grpcclient, unary: only the codes in RetryCodes are retried, and nothing *)
(* is once the call's context is over.                                     *)
UnaryAttempt(o) ==
    /\ Is("unary", "attempt")
    /\ \E ran \in 0 .. 1 :
         LET c == Tried(o, ran)
         IN  call' = IF o = "ok" THEN Leave(c, "none")
                     ELSE IF call.done \/ o # "retryable" \/ LastAttempt THEN Leave(c, o)
                     ELSE Again(c)

UnaryBackoff ==
    /\ Is("unary", "backoff")
    /\ \/ call' = Retrying(call)
       \/ call.done /\ call' = Leave(call, "ctx")

(* grpcclient, stream: opened once, never retried; the timeout's cancel is *)
(* called when the opening fails, or by the RecvMsg that sees the end.     *)
StreamAttempt(o) ==
    /\ Is("stream", "attempt")
    /\ \E ran \in 0 .. 1 :
         LET c == Tried(o, ran)
         IN  call' = IF o = "ok" THEN [c EXCEPT !.pc = "open"]
                     ELSE [Leave(c, o) EXCEPT !.cancels = @ + 1]

\* A RecvMsg that forgets that the stream was over already.
RecvMsgAgain(o) ==
    /\ call.client = "stream" /\ call.pc \in {"open", "end"} /\ call.last \in {"ok", "eof"}
    /\ call.pc = "end" => o = "eof"
    /\ call.err = "none" /\ call.cancels < 2
    /\ call' = IF o = "eof" THEN [call EXCEPT !.last = o, !.pc = "end", !.cancels = @ + 1] ELSE call

\* RecvMsg: a message, or the terminal EOF or error; after that, `done'.
RecvMsg(o) ==
    /\ call.client = "stream" /\ call.pc \in {"open", "end"} /\ call.last \in {"ok", "eof"}
    /\ call.pc = "end" => o = "eof"
    /\ call.err = "none"
    /\ call' = IF o = "eof" /\ call.pc = "open"
               THEN [call EXCEPT !.last = o, !.pc = "end", !.cancels = @ + 1] ELSE call
-----------------------------------------------------------------------------
(* retry.Do: ctx is looked at before each attempt; fn is the caller's.     *)
RetryAttempt(o) ==
    /\ Is("retry", "attempt")
    /\ IF call.done THEN call' = Leave(call, "ctx")
       ELSE \E ran \in 0 .. 1 :
              LET c == Tried(o, ran)
              IN  call' = IF o = "ok" THEN Leave(c, "none")
                          ELSE IF o # "retryable" \/ LastAttempt THEN Leave(c, o) ELSE Again(c)

\* The wait, when the strategy's delay is positive.
RetryBackoff ==
    /\ Is("retry", "backoff")
    /\ \/ call' = Retrying(call)
       \/ call.done /\ call' = Leave(call, "ctx")
-----------------------------------------------------------------------------
\* A call with no limit on its attempts is followed this far.
Bounded == call.budget = 0 => call.attempt <= Default

Next ==
    \/ Begin \/ CtxDone
    \/ \E o \in {"2xx", "4xx", "5xx", "dial", "eof", "reset", "ctx"} : HttpAttempt(o)
    \/ HttpBackoff \/ HttpDrain
    \/ \E o \in {"ok", "retryable", "permanent"} :
          UnaryAttempt(o) \/ StreamAttempt(o) \/ (Bounded /\ RetryAttempt(o))
    \/ UnaryBackoff \/ RetryBackoff
    \/ \E o \in {"ok", "eof"} : RecvMsg(o)

Spec == Init /\ [][Next]_call
-----------------------------------------------------------------------------
TypeOK ==
    /\ call.pc \in {"begin", "attempt", "backoff", "drain", "open", "end"}
    /\ call.attempt \in 0 .. Default + 1 /\ call.effects \in 0 .. Default + 2
    /\ call.done \in BOOLEAN /\ call.cancels \in 0 .. 2

\* A POST runs at the server at most once more than the number of attempts that
\* were cut off, after sending, by something httpclient does not take for "sent
\* but no response" (sentButNoResponse knows EOFs only).  No client has a call
\* run more often than its budget, and a stream is never opened twice.
EffectsBounded ==
    /\ call.method = "POST" => call.effects <= 1 + call.cut
    /\ call.budget # 0 => call.effects <= call.budget
    /\ call.client = "stream" => call.effects <= 1

\* A call that returned no error has an answer to show; and what it acquired is
\* released exactly once: no response body stays open, and a stream's timeout
\* is cancelled when the stream is over, not before.
Released ==
    /\ call.bodies \in 0 .. 1
    /\ call.client = "stream" => call.cancels = (IF call.pc = "end" THEN 1 ELSE 0)
    /\ call.pc = "end" => call.bodies = 0
    /\ call.pc = "end" /\ call.err = "none" => call.last \in Responses \cup {"ok", "eof"}
-----------------------------------------------------------------------------
(* What holds between the steps of a call, from which the two follow.      *)
Outcomes == {"none", "2xx", "4xx", "5xx", "dial", "eof", "reset", "ctx", "ok", "retryable", "permanent"}
Record ==
    [client : {"http", "unary", "stream", "retry"}, method : {"GET", "POST"}, budget : Nat,
     pc : {"begin", "attempt", "backoff", "drain", "open", "end"}, attempt : Nat,
     last : Outcomes, err : Outcomes \cup {"refused", "read", "large"}, done : BOOLEAN,
     effects : Nat, cut : Nat, bodies : Nat, cancels : Nat]

\* The server has run the call at most once per attempt begun, and there is a
\* next attempt only while the budget lasts.
Attempts ==
    /\ call.effects <= call.attempt + 1
    /\ call.pc \in {"begin", "attempt"} => call.effects <= call.attempt
    /\ call.budget # 0 => call.attempt < call.budget
    /\ call.client # "retry" => call.budget # 0
    /\ call.pc = "backoff" /\ call.budget # 0 => call.attempt + 1 < call.budget
    /\ call.method = "POST" => call.client = "http" /\ call.effects <= call.cut + 1
    /\ call.method = "POST" /\ call.pc \in {"begin", "attempt", "backoff"} => call.effects <= call.cut
    /\ call.client = "stream" => call.attempt = 0 /\ call.pc # "backoff"

\* A response body is open from the attempt that brought it to the drain, or to
\* the end of the wait; the stream's cancel function has been called at the end.
Holds ==
    /\ call.bodies = IF call.pc = "drain" \/ (call.pc = "backoff" /\ call.last \in Responses) THEN 1 ELSE 0
    /\ call.client = "stream" => call.cancels = IF call.pc = "end" THEN 1 ELSE 0
    /\ call.pc \in {"drain", "backoff"} => call.client # "stream"
    /\ call.pc = "drain" => call.last \in Responses
    /\ call.pc = "backoff" => call.last # "none"
    /\ call.pc = "open" => call.client = "stream" /\ call.last = "ok"
    /\ call.client = "http" => call.last \notin {"ok", "retryable", "permanent"}
    /\ call.client # "http" => call.last \notin Responses
    /\ call.pc = "end" /\ call.err = "none" => call.last \in Responses \cup {"ok", "eof"}

IInv == call \in Record /\ Attempts /\ Holds
=============================================================================
