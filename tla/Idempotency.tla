---------------------------- MODULE Idempotency -----------------------------
(***************************************************************************)
(* Package idempotency: concurrent callers of Do for a key share one run of*)
(* fn (by the leader), and successful results are cached for a TTL.  Entry *)
(* objects outlive their place in the map (followers and the leader keep   *)
(* pointers), so the map holds entry numbers and the objects are kept apart*)
(***************************************************************************)
EXTENDS Integers, FiniteSets, Sequences

CONSTANTS
    Threads, Keys,
    TTL,          \* lifetime of a cached result; 0 = no expiry
    MaxEntries,   \* cap on the cached results; 0 = none
    CacheErrors,  \* whether failed results are cached too
    MaxRuns,      \* bound on the runs of fn
    MaxForgets,   \* bound on the calls of Forget and Clear
    MaxTime       \* bound on the clock

VARIABLES
    entries,   \* c.entries: the entry number of each key, 0 if it has none
    obj,       \* the entry objects, in order of creation
    clock,
    call,      \* each goroutine's call of Do: where it is, its key, the time it
               \* read before it took the lock, and the entry it leads or follows;
               \* since is forgets[key] when Do was called (history)
    forgets    \* Forgets and Clears so far, per key (history)

vars == <<entries, obj, clock, call, forgets>>

Idle == [pc |-> "idle"]

Init ==
    /\ entries = [k \in Keys |-> 0]
    /\ obj = <<>>
    /\ clock = 1
    /\ call = [t \in Threads |-> Idle]
    /\ forgets = [k \in Keys |-> 0]

At(t, point) == call[t].pc = point

Goto(t, point) == call' = [call EXCEPT ![t].pc = point]

Tick ==
    /\ clock < MaxTime
    /\ clock' = clock + 1
    /\ UNCHANGED <<entries, obj, call, forgets>>

-----------------------------------------------------------------------------
Expired(o, time) == o.expiresAt # 0 /\ time > o.expiresAt

Tracked(map) == {k \in Keys : map[k] # 0}
\* Entries in flight count as completed.
CompletedAny(map, o) == Tracked(map)

Completed(map, o) == {k \in Tracked(map) : o[map[k]].completed}
Without(map, S) == [k \in Keys |-> IF k \in S THEN 0 ELSE map[k]]

\* evictLocked: if the map is over its cap, the expired results go, then as
\* many of the oldest completed ones as it takes; leaders are never evicted.
Evict(map, o, time) ==
    LET live == Without(map, {k \in Completed(map, o) : Expired(o[map[k]], time)})
        done == Completed(live, o)
        over == Cardinality(Tracked(live)) - MaxEntries
        Oldest(S) == \A k \in S, l \in done \ S :
                        o[live[k]].expiresAt <= o[live[l]].expiresAt
    IN  CASE MaxEntries = 0 \/ Cardinality(Tracked(map)) <= MaxEntries -> {map}
          [] over <= 0 -> {live}
          [] over > Cardinality(done) -> {Without(live, done)}
          [] OTHER -> {Without(live, S) : S \in {D \in SUBSET done :
                                                  Cardinality(D) = over /\ Oldest(D)}}

\* Do reads the clock before it takes the lock.
Do(t, k) ==
    /\ At(t, "idle")
    /\ call' = [call EXCEPT ![t] = [pc |-> "lock", key |-> k, now |-> clock, e |-> 0,
                                    since |-> forgets[k]]]
    /\ UNCHANGED <<entries, obj, clock, forgets>>

\* The critical section of Do: a cached result, a leader to follow, or lead.
Lookup(t) ==
    /\ At(t, "lock")
    /\ LET k == call[t].key
           cur == entries[k]
           fresh == Len(obj) + 1
       IN  \/ /\ cur # 0 /\ obj[cur].completed /\ ~Expired(obj[cur], call[t].now)
              /\ call' = [call EXCEPT ![t].pc = "done", ![t].e = cur]
              /\ UNCHANGED <<entries, obj>>
           \/ /\ cur # 0 /\ ~obj[cur].completed
              /\ call' = [call EXCEPT ![t].pc = "follow", ![t].e = cur]
              /\ UNCHANGED <<entries, obj>>
           \/ /\ cur # 0 => obj[cur].completed /\ Expired(obj[cur], call[t].now)
              /\ fresh <= MaxRuns
              /\ call' = [call EXCEPT ![t].pc = "lead", ![t].e = fresh]
              /\ obj' = Append(obj, [completed |-> FALSE, ok |-> FALSE, expiresAt |-> 0,
                                     born |-> forgets[k], dropped |-> FALSE])
              /\ entries' \in Evict([entries EXCEPT ![k] = fresh], obj', call[t].now)
    /\ UNCHANGED <<clock, forgets>>

\* The leader's fn has returned, failed or panicked (~ok): its entry is completed
\* and kept, or else its key is deleted.
Finish(t, ok, completed, kept, map) ==
    /\ At(t, "lead")
    /\ Goto(t, "done")
    /\ LET c == call[t]
       IN  /\ obj' = [obj EXCEPT ![c.e].completed = completed, ![c.e].ok = ok,
                        ![c.e].expiresAt = IF kept /\ TTL > 0 THEN clock + TTL ELSE 0]
           /\ entries' = IF kept THEN map ELSE [entries EXCEPT ![c.key] = 0]
    /\ UNCHANGED <<clock, forgets>>

\* The entry is stored again when it completes.
FinishStores(t, ok) ==
    At(t, "lead") /\ Finish(t, ok, TRUE, ok \/ CacheErrors, [entries EXCEPT ![call[t].key] = call[t].e])

FinishLocked(t, ok) == Finish(t, ok, TRUE, ok \/ CacheErrors, entries)

\* A follower sees done closed, or its context is cancelled.
WaitFor(t) ==
    /\ At(t, "follow")
    /\ \/ obj[call[t].e].completed /\ Goto(t, "done")
       \/ call' = [call EXCEPT ![t] = Idle]
    /\ UNCHANGED <<entries, obj, clock, forgets>>

Return(t) ==
    /\ At(t, "done")
    /\ call' = [call EXCEPT ![t] = Idle]
    /\ UNCHANGED <<entries, obj, clock, forgets>>

\* Forget and Clear drop keys from the map; a dropped leader runs on.
Drop(S) ==
    /\ \A k \in S : forgets[k] < MaxForgets
    /\ obj' = [i \in 1 .. Len(obj) |->
                 [obj[i] EXCEPT !.dropped = @ \/ \E k \in S : entries[k] = i]]
    /\ entries' = Without(entries, S)
    /\ forgets' = [k \in Keys |-> IF k \in S THEN forgets[k] + 1 ELSE forgets[k]]
    /\ UNCHANGED <<clock, call>>

Forget(k) == Drop({k})
Clear == Drop(Keys)

Next ==
    \/ Tick
    \/ Clear
    \/ \E k \in Keys : Forget(k)
    \/ \E t \in Threads :
        \/ \E k \in Keys : Do(t, k)
        \/ Lookup(t)
        \/ \E ok \in BOOLEAN : FinishLocked(t, ok)
        \/ WaitFor(t)
        \/ Return(t)

Spec == Init /\ [][Next]_vars

-----------------------------------------------------------------------------
TypeOK ==
    /\ entries \in [Keys -> 0 .. Len(obj)]
    /\ obj \in Seq([completed : BOOLEAN, ok : BOOLEAN, expiresAt : Nat, born : Nat,
                    dropped : BOOLEAN])
    /\ clock \in Nat
    /\ \A t \in Threads :
         call[t] \in {Idle}
            \cup [pc : {"lock"}, key : Keys, now : Nat, e : {0}, since : Nat]
            \cup [pc : {"lead", "follow", "done"}, key : Keys, now : Nat, e : 1 .. Len(obj),
                  since : Nat]
    /\ forgets \in [Keys -> Nat]

\* The leaders of k whose entries nobody dropped.
Running(k) ==
    {t \in Threads : At(t, "lead") /\ call[t].key = k /\ ~obj[call[t].e].dropped}

\* fn runs at most once for concurrent callers of a key, in whatever order they
\* come and go and whatever is evicted, until someone calls Forget or Clear.
AtMostOneRun == \A k \in Keys : forgets[k] = 0 => Cardinality(Running(k)) <= 1

\* Do's doc: fn runs at most once for concurrent callers of a key (runs that
\* Forget or Clear cut loose not counted).
AtMostOneRunEver == \A k \in Keys : Cardinality(Running(k)) <= 1

\* Forget and Clear stick: a Do called after them never gets a result that was
\* computed, or was being computed, when they were called.
ForgetSticks ==
    \A t \in Threads :
        call[t].pc \in {"follow", "done"} => obj[call[t].e].born >= call[t].since

\* A failure is retried: unless errors are cached, the map holds no failed result.
FailuresNotCached ==
    CacheErrors \/ \A k \in Tracked(entries) : obj[entries[k]].completed => obj[entries[k]].ok

\* No follower waits in vain: the entry it waits for is completed or has a leader
\* at work, also when the entry was forgotten or evicted meanwhile.
FollowersHaveLeader ==
    \A t \in Threads :
        At(t, "follow") => \/ obj[call[t].e].completed
                           \/ \E l \in Threads : At(l, "lead") /\ call[l].e = call[t].e

=============================================================================
