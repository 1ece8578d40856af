----------------------------- MODULE RedisLock ------------------------------
(***************************************************************************)
(* Package redislock: clients that lock one Redis key with a random token  *)
(* and a TTL, an optional renewer goroutine per held lock, and Redis as the*)
(* code uses it: SET NX with expiry and two scripts that compare the token.*)
(* Each client makes one Lock or TryLock call and so stands for its token. *)
(* Requests and replies can be lost, and clients can be slow at any point. *)
(***************************************************************************)
EXTENDS Integers, FiniteSets

CONSTANTS
    Clients,
    TTL,          \* lifetime of the key
    WaitTimeout,  \* how long Lock retries
    MaxTime       \* bound on the clock

VARIABLES
    now,
    key, exp,     \* Redis: the stored token (None if there is none), its expiry
    pc,           \* where each client is
    reply,        \* the answer to the command that is under way
    deadline,     \* when its Lock gives up
    sentAt,       \* when it sent that command (history)
    leaseEnd,     \* sentAt + TTL of its last successful command (history)
    renewer,      \* where its renewer goroutine is
    stop, cancelled, lost,   \* l.stop closed, acqCtx cancelled, l.lost closed
    fired,        \* onLost was called
    byRelease     \* the loss that the renewer saw was Release's doing (history)

None == "none"
redis == <<key, exp>>
client == <<pc, reply, deadline, sentAt, leaseEnd>>
signals == <<stop, cancelled, lost, fired, byRelease>>
vars == <<now, redis, client, renewer, signals>>

Init ==
    /\ now = 0
    /\ key = None /\ exp = 0
    /\ pc = [c \in Clients |-> "idle"]
    /\ reply = [c \in Clients |-> None]
    /\ deadline = [c \in Clients |-> 0]
    /\ sentAt = [c \in Clients |-> 0]
    /\ leaseEnd = [c \in Clients |-> 0]
    /\ renewer = [c \in Clients |-> "off"]
    /\ stop = [c \in Clients |-> FALSE]
    /\ cancelled = [c \in Clients |-> FALSE]
    /\ lost = [c \in Clients |-> FALSE]
    /\ fired = [c \in Clients |-> FALSE]
    /\ byRelease = [c \in Clients |-> FALSE]

Tick ==
    /\ now < MaxTime
    /\ now' = now + 1
    /\ UNCHANGED <<redis, client, renewer, signals>>

Goto(c, from, to) == pc[c] = from /\ pc' = [pc EXCEPT ![c] = to]
Renew(c, from, to) == renewer[c] = from /\ renewer' = [renewer EXCEPT ![c] = to]
Answer(c, r) == reply' = [reply EXCEPT ![c] = r]

\* The key is stored with c's token and has not expired.
Holds(c) == key = c /\ now < exp

-----------------------------------------------------------------------------
\* The commands as Redis executes them.

SetNX(c) ==
    IF key # None /\ now < exp
    THEN Answer(c, "taken") /\ UNCHANGED redis
    ELSE Answer(c, "ok") /\ key' = c /\ exp' = now + TTL

\* The release script without the comparison of the token.
ReleaseScriptBlind(c) == key' = None /\ exp' = 0

ReleaseScript(c) ==
    IF Holds(c) THEN key' = None /\ exp' = 0 ELSE UNCHANGED redis

RefreshScript(c) ==
    IF Holds(c)
    THEN Answer(c, "ok") /\ exp' = now + TTL /\ UNCHANGED key
    ELSE Answer(c, "taken") /\ UNCHANGED redis

-----------------------------------------------------------------------------
\* Lock and TryLock (a Lock that gives up after one attempt).
Lock(c, wait) ==
    /\ now + wait <= MaxTime
    /\ Goto(c, "idle", "try")
    /\ deadline' = [deadline EXCEPT ![c] = now + wait]
    /\ sentAt' = [sentAt EXCEPT ![c] = now]
    /\ UNCHANGED <<now, redis, reply, leaseEnd, renewer, signals>>

\* The attempt reaches Redis, or is lost on the way.
TryLock(c) ==
    /\ Goto(c, "try", "reply")
    /\ SetNX(c) \/ (Answer(c, "err") /\ UNCHANGED redis)
    /\ UNCHANGED <<now, deadline, sentAt, leaseEnd, renewer, signals>>

\* The command of c is over.
Received(c) ==
    /\ reply' = [reply EXCEPT ![c] = None]
    /\ sentAt' = [sentAt EXCEPT ![c] = 0]

\* The answer arrives, or is lost.  With WithAutoRenew the lock comes with a
\* renewer.
TryLockReply(c) ==
    /\ Received(c)
    /\ \/ /\ reply[c] = "ok"
          /\ Goto(c, "reply", "held")
          /\ leaseEnd' = [leaseEnd EXCEPT ![c] = sentAt[c] + TTL]
          /\ \E r \in {"off", "select"} : renewer' = [renewer EXCEPT ![c] = r]
          /\ deadline' = [deadline EXCEPT ![c] = 0]
       \/ /\ reply[c] = "taken" /\ now < deadline[c]
          /\ Goto(c, "reply", "retry")
          /\ UNCHANGED <<deadline, leaseEnd, renewer>>
       \/ /\ reply[c] = "taken" => now >= deadline[c]
          /\ Goto(c, "reply", "failed")
          /\ deadline' = [deadline EXCEPT ![c] = 0]
          /\ UNCHANGED <<leaseEnd, renewer>>
    /\ UNCHANGED <<now, redis, signals>>

\* The retry timer fires, or ctx is done.
Retry(c) ==
    /\ \/ /\ Goto(c, "retry", "try")
          /\ sentAt' = [sentAt EXCEPT ![c] = now]
          /\ UNCHANGED deadline
       \/ /\ Goto(c, "retry", "failed")
          /\ deadline' = [deadline EXCEPT ![c] = 0]
          /\ UNCHANGED sentAt
    /\ UNCHANGED <<now, redis, reply, leaseEnd, renewer, signals>>

\* The context of the acquisition is cancelled by its owner.
CancelContext(c) ==
    /\ pc[c] = "held"
    /\ cancelled' = [cancelled EXCEPT ![c] = TRUE]
    /\ UNCHANGED <<now, redis, client, renewer, stop, lost, fired, byRelease>>

\* Release, which may be called again: stop is closed, then the context
\* cancelled, then the script runs or fails to reach Redis.
Release(c) ==
    \/ /\ \/ Goto(c, "held", "release1")
          \/ Goto(c, "released", "release1")
       /\ stop' = [stop EXCEPT ![c] = TRUE]
       /\ leaseEnd' = [leaseEnd EXCEPT ![c] = 0]
       /\ UNCHANGED <<now, redis, reply, deadline, sentAt, renewer>>
       /\ UNCHANGED <<cancelled, lost, fired, byRelease>>
    \/ /\ Goto(c, "release1", "release2")
       /\ cancelled' = [cancelled EXCEPT ![c] = TRUE]
       /\ UNCHANGED <<now, redis, reply, deadline, sentAt, leaseEnd, renewer>>
       /\ UNCHANGED <<stop, lost, fired, byRelease>>
    \/ /\ Goto(c, "release2", "released")
       /\ ReleaseScript(c) \/ UNCHANGED redis
       /\ UNCHANGED <<now, reply, deadline, sentAt, leaseEnd, renewer, signals>>

-----------------------------------------------------------------------------
\* The renewer's select: stop, the context, or a tick that sends a refresh.
RenewerSelect(c) ==
    \/ /\ stop[c]
       /\ Renew(c, "select", "exited")
       /\ UNCHANGED <<now, redis, client, signals>>
    \/ /\ cancelled[c]
       /\ Renew(c, "select", "loss")
       /\ byRelease' = [byRelease EXCEPT ![c] = stop[c]]
       /\ UNCHANGED <<now, redis, client, stop, cancelled, lost, fired>>
    \/ /\ Renew(c, "select", "refresh")
       /\ sentAt' = [sentAt EXCEPT ![c] = now]
       /\ UNCHANGED <<now, redis, pc, reply, deadline, leaseEnd, signals>>

\* The holder of a lock without a renewer calls Refresh itself.
CallRefresh(c) ==
    /\ pc[c] = "held"
    /\ Renew(c, "off", "byHand")
    /\ sentAt' = [sentAt EXCEPT ![c] = now]
    /\ UNCHANGED <<now, redis, pc, reply, deadline, leaseEnd, signals>>

\* The refresh reaches Redis, or does not.
Refresh(c) ==
    /\ Renew(c, "refresh", "refreshed") \/ Renew(c, "byHand", "byHandDone")
    /\ RefreshScript(c) \/ (Answer(c, "err") /\ UNCHANGED redis)
    /\ UNCHANGED <<now, pc, deadline, sentAt, leaseEnd, signals>>

\* Its answer arrives, or is lost, or its context was cancelled under way.
RefreshReply(c) ==
    \/ /\ reply[c] = "ok"
       /\ Renew(c, "refreshed", "select") \/ Renew(c, "byHandDone", "off")
       /\ leaseEnd' = [leaseEnd EXCEPT ![c] = IF stop[c] THEN 0 ELSE sentAt[c] + TTL]
       /\ Received(c)
       /\ UNCHANGED <<now, redis, pc, deadline, signals>>
    \/ /\ Renew(c, "byHandDone", "off")
       /\ Received(c)
       /\ UNCHANGED <<now, redis, pc, deadline, leaseEnd, signals>>
    \/ /\ Renew(c, "refreshed", "loss")
       /\ byRelease' = [byRelease EXCEPT ![c] = stop[c]]
       /\ Received(c)
       /\ UNCHANGED <<now, redis, pc, deadline, leaseEnd, stop, cancelled, lost, fired>>

\* handleLoss without the check of stop.
HandleLossAlways(c) ==
    \/ /\ Renew(c, "loss", "close")
       /\ fired' = [fired EXCEPT ![c] = TRUE]
       /\ UNCHANGED <<now, redis, client, stop, cancelled, lost, byRelease>>
    \/ /\ Renew(c, "close", "exited")
       /\ lost' = [lost EXCEPT ![c] = TRUE]
       /\ UNCHANGED <<now, redis, client, stop, cancelled, fired, byRelease>>

\* handleLoss: not if stop is closed; otherwise onLost, then Lost is closed.
HandleLoss(c) ==
    \/ /\ Renew(c, "loss", IF stop[c] THEN "exited" ELSE "onLost")
       /\ UNCHANGED <<now, redis, client, signals>>
    \/ /\ Renew(c, "onLost", "close")
       /\ fired' = [fired EXCEPT ![c] = TRUE]
       /\ UNCHANGED <<now, redis, client, stop, cancelled, lost, byRelease>>
    \/ /\ Renew(c, "close", "exited")
       /\ lost' = [lost EXCEPT ![c] = TRUE]
       /\ UNCHANGED <<now, redis, client, stop, cancelled, fired, byRelease>>

Renewer(c) == RenewerSelect(c) \/ Refresh(c) \/ RefreshReply(c) \/ HandleLoss(c)
Acquire(c) == TryLock(c) \/ TryLockReply(c) \/ Retry(c)

Next ==
    \/ Tick
    \/ \E c \in Clients :
        \/ Lock(c, WaitTimeout) \/ Lock(c, 0)
        \/ Acquire(c)
        \/ CancelContext(c)
        \/ Release(c)
        \/ CallRefresh(c)
        \/ Renewer(c)

Spec == Init /\ [][Next]_vars

-----------------------------------------------------------------------------
TypeOK ==
    /\ now \in 0 .. MaxTime
    /\ key \in Clients \cup {None}
    /\ exp \in 0 .. MaxTime + TTL
    /\ pc \in [Clients -> {"idle", "try", "reply", "retry", "failed", "held", "release1",
                           "release2", "released"}]
    /\ reply \in [Clients -> {None, "ok", "taken", "err"}]
    /\ renewer \in [Clients -> {"off", "select", "refresh", "refreshed", "byHand",
                                "byHandDone", "loss", "onLost", "close", "exited"}]
    /\ deadline \in [Clients -> Nat] /\ sentAt \in [Clients -> Nat] /\ leaseEnd \in [Clients -> Nat]
    /\ \A f \in {stop, cancelled, lost, fired, byRelease} : f \in [Clients -> BOOLEAN]

\* A client that was told it holds the lock, has not called Release, and is
\* within a TTL of the moment it sent its last successful command.
InLease(c) == pc[c] = "held" /\ now < leaseEnd[c]

\* Mutual exclusion of leases: two clients are never both within a lease that
\* they may rely on, whatever replies were lost and however slow they are.
MutualExclusion == Cardinality({c \in Clients : InLease(c)}) <= 1

\* The token guards the key: a lock disappears from Redis only when it expires
\* or when its own holder has called Release, never by a stale Release of
\* another client.
RemovedByOwner == \A c \in Clients : Holds(c) /\ key' # c => stop[c]
OnlyOwnerRemoves == [][RemovedByOwner]_vars

\* The lease is extended only by a refresh of its own holder, never by that of
\* a client that lost the lock and does not know it yet.
ExtendedByOwner ==
    key # None /\ key' = key /\ now < exp /\ exp' # exp
        => renewer[key] \in {"refresh", "byHand"} /\ renewer'[key] # renewer[key]
OnlyOwnerExtends == [][ExtendedByOwner]_vars

\* A clean Release is no loss: onLost is not called because Release cancelled
\* the renewer's context or deleted the key under an in-flight refresh.
CleanReleaseSilent == \A c \in Clients : fired[c] => ~byRelease[c]

\* The renewer fails closed: it never quits silently, its holder was told of the
\* loss or has called Release.
LossReported == \A c \in Clients : renewer[c] = "exited" => lost[c] \/ stop[c]

=============================================================================
