-------------------------------- MODULE Cells -------------------------------
(***************************************************************************)
(* One shared cell each, used by several goroutines: backpressure.Gate's   *)
(* counter, syncutil.Promise, health's cached report, hotreload.Buffer's   *)
(* value, and shortlink's store.  `cell' is the object's fields, `call' the *)
(* goroutines, `seen' what has been observed from outside.                 *)
(***************************************************************************)
EXTENDS Integers, Sequences, FiniteSets, FiniteSetsExt, TLC

CONSTANTS
    Kinds, Threads,
    MaxOps,          \* calls made
    Maxima,          \* capacities of the gate
    CacheTTL, CheckTime, MaxClock,   \* of a health report; the longest its checks take
    MaxVersion,      \* of what a hotreload Loader reads
    Codes, Retries   \* shortlink's codes, and collisions retried

VARIABLES kind, cell, call, seen, clock, ops

vars == <<kind, cell, call, seen, clock, ops>>

Idle == [pc |-> "idle"]
Is(k) == kind = k
At(t, pc) == call[t].pc = pc
Becomes(t, c) == call' = [call EXCEPT ![t] = c]
Begin(t, c) == At(t, "idle") /\ ops < MaxOps /\ ops' = ops + 1 /\ Becomes(t, c)
Same == UNCHANGED <<kind, clock>>
-----------------------------------------------------------------------------
(* backpressure.Gate.  `seen' has the goroutines that hold a slot, and     *)
(* whether every admission was within a capacity set during its call.      *)
\* TryAcquire: load the counter, load the capacity, compare and swap.
LoadCurrent(t) ==
    /\ Begin(t, [pc |-> "loaded", cur |-> cell.current, maxima |-> {cell.max}])
    /\ UNCHANGED <<cell, seen>>

LoadMax(t) ==
    /\ At(t, "loaded")
    /\ Becomes(t, IF call[t].cur >= cell.max THEN Idle ELSE [call[t] EXCEPT !.pc = "swap"])
    /\ UNCHANGED <<cell, seen, ops>>

Admit(t) ==
    /\ cell' = [cell EXCEPT !.current = call[t].cur + 1]
    /\ seen' = [holders |-> Append(seen.holders, t), ok |-> seen.ok /\ \E m \in call[t].maxima : cell'.current <= m]
    /\ Becomes(t, Idle)

SwapCurrent(t) ==
    /\ At(t, "swap")
    /\ IF cell.current = call[t].cur THEN Admit(t)
       ELSE /\ Becomes(t, [pc |-> "loaded", cur |-> cell.current, maxima |-> call[t].maxima])
            /\ UNCHANGED <<cell, seen>>
    /\ UNCHANGED ops

\* Release: the loop ends with the swap that finds the counter as it was loaded;
\* with nothing in flight it does nothing.
Release ==
    /\ cell.current > 0
    /\ cell' = [cell EXCEPT !.current = @ - 1]
    /\ seen' = [seen EXCEPT !.holders = Tail(@)]
    /\ UNCHANGED <<call, ops>>

SetMax(m) ==
    /\ m # cell.max /\ ops < MaxOps /\ ops' = ops + 1
    /\ cell' = [cell EXCEPT !.max = Max({m, 0})]
    /\ call' = [t \in Threads |-> IF At(t, "idle") THEN call[t] ELSE [call[t] EXCEPT !.maxima = @ \cup {m}]]
    /\ UNCHANGED seen

Gate ==
    /\ Is("gate") /\ Same
    /\ \/ \E t \in Threads : LoadCurrent(t) \/ LoadMax(t) \/ SwapCurrent(t)
       \/ Release \/ \E m \in Maxima : SetMax(m)

GateOK == cell.current = Len(seen.holders) /\ seen.ok
-----------------------------------------------------------------------------
(* syncutil.Promise: a value is a goroutine's name; `seen' has the results *)
(* of Get.                                                                 *)
\* Set and SetErr: the first wins the flag, the others panic.
Claim(t) ==
    /\ cell' = [cell EXCEPT !.set = TRUE]
    /\ Begin(t, IF cell.set THEN Idle ELSE [pc |-> "claimed"])
    /\ UNCHANGED seen

Publish(t) ==
    /\ At(t, "claimed")
    /\ cell' = [cell EXCEPT !.val = {t}, !.done = TRUE]
    /\ Becomes(t, Idle) /\ UNCHANGED <<seen, ops>>

\* Get, when `done' is closed; when ctx ends it returns ctx's error.
Get(t) ==
    /\ At(t, "idle") /\ cell.done
    /\ seen' = seen \cup {cell.val}
    /\ UNCHANGED <<cell, call, ops>>

Promise == Is("promise") /\ Same /\ \E t \in Threads : Claim(t) \/ Publish(t) \/ Get(t)

PromiseOK ==
    /\ Cardinality(seen) <= 1 /\ \A v \in seen : v = cell.val /\ v # {}
    /\ Cardinality({t \in Threads : At(t, "claimed")}) <= 1
-----------------------------------------------------------------------------
(* health: `healthy' is what a check would find, since when; the cache     *)
(* holds the status and the time it was stored.  `seen' is the status of   *)
(* the last report returned and when it was.                               *)
Returns(t, status) == seen' = [status |-> status, at |-> clock] /\ Becomes(t, Idle)

\* IsReady with a fresh report in the cache.
CacheHit(t) ==
    /\ At(t, "idle") /\ cell.cached # {} /\ clock - cell.cachedAt < CacheTTL
    /\ \E r \in cell.cached : Returns(t, r)
    /\ UNCHANGED <<cell, ops>>

\* Without one: evaluate, outside the lock,
Evaluate(t) ==
    /\ cell.cached = {} \/ clock - cell.cachedAt >= CacheTTL
    /\ Begin(t, [pc |-> "checking", from |-> clock])
    /\ UNCHANGED <<cell, seen>>

Check(t) ==
    /\ At(t, "checking")
    /\ Becomes(t, [call[t] EXCEPT !.pc = "checked"] @@ [status |-> cell.healthy])
    /\ UNCHANGED <<cell, seen, ops>>

\* and store what was found, whatever was stored meanwhile.
StoreReport(t) ==
    /\ At(t, "checked")
    /\ cell' = [cell EXCEPT !.cached = {call[t].status}, !.cachedAt = clock]
    /\ Returns(t, call[t].status) /\ UNCHANGED ops

Dependency == /\ ops < MaxOps /\ ops' = ops + 1
              /\ cell' = [cell EXCEPT !.healthy = ~@, !.since = clock] /\ UNCHANGED <<call, seen>>

Health ==
    /\ Is("health") /\ UNCHANGED kind
    /\ \/ /\ UNCHANGED clock
          /\ Dependency \/ \E t \in Threads : CacheHit(t) \/ Evaluate(t) \/ Check(t) \/ StoreReport(t)
       \/ /\ clock < MaxClock /\ \A t \in Threads : ~At(t, "idle") => clock - call[t].from < CheckTime
          /\ clock' = clock + 1 /\ UNCHANGED <<cell, call, seen, ops>>

\* A report is wrong at most as long as the cache and the checks that filled it allow.
HealthOK == seen.at = clock /\ clock - cell.since >= CacheTTL + CheckTime => seen.status = cell.healthy
-----------------------------------------------------------------------------
(* hotreload.Buffer: the Loader reads a source whose version grows.  The   *)
(* reload goroutine is one of the callers, which recovers a panic, until   *)
(* stop has waited for it.  `seen' is the last version Get returned.       *)
Loop == "loop"
Loaders == Threads \cup {Loop}

\* Reload without the mutex.
LockNothing(t) == At(t, "idle") /\ Becomes(t, [pc |-> "locked"]) /\ UNCHANGED cell

Lock(t) == At(t, "idle") /\ cell.mu = "" /\ cell' = [cell EXCEPT !.mu = t] /\ Becomes(t, [pc |-> "locked"])

Reload(t) ==
    /\ ops < MaxOps /\ ops' = ops + 1
    /\ Lock(t) /\ UNCHANGED seen

\* Load returns a version, an error, or panics.
Load(t) ==
    /\ At(t, "locked")
    /\ \/ Becomes(t, [pc |-> "read", version |-> cell.source]) /\ UNCHANGED cell
       \/ Becomes(t, Idle) /\ cell' = [cell EXCEPT !.mu = ""]
    /\ UNCHANGED <<seen, ops>>

StoreValue(t) ==
    /\ At(t, "read")
    /\ cell' = [cell EXCEPT !.value = call[t].version, !.mu = ""]
    /\ Becomes(t, Idle) /\ UNCHANGED <<seen, ops>>

\* The goroutine sees stopCh or ctx; a tick that is due may be taken first.
LoopEnds == At(Loop, "idle") /\ cell.stopped /\ Becomes(Loop, [pc |-> "gone"]) /\ UNCHANGED <<cell, seen, ops>>

\* stop: close stopCh once, wait for the goroutine.
Stop == ~cell.stopped /\ cell' = [cell EXCEPT !.stopped = TRUE] /\ UNCHANGED <<call, seen, ops>>

GetValue == seen' = Max({seen, cell.value}) /\ UNCHANGED <<cell, call, ops>>

Source == cell.source < MaxVersion /\ cell' = [cell EXCEPT !.source = @ + 1] /\ UNCHANGED <<call, seen, ops>>

Buffer ==
    /\ Is("reload") /\ Same
    /\ \/ \E t \in Loaders : Reload(t) \/ Load(t) \/ StoreValue(t)
       \/ LoopEnds \/ Stop \/ GetValue \/ Source

\* The value never goes back to one older than a reader has seen.
BufferOK == cell.value >= seen
-----------------------------------------------------------------------------
(* shortlink.Shortener: a url is the goroutine that shortens it; `seen' has *)
(* the codes handed out, with their urls.                                  *)
Generate(t) == Begin(t, [pc |-> "draw", attempt |-> 0]) /\ UNCHANGED <<cell, seen>>

\* A random code, and the store's Save; a collision draws again, up to the limit.
Save(t, code) ==
    /\ At(t, "draw")
    /\ IF cell[code] = {}
       THEN cell' = [cell EXCEPT ![code] = {t}] /\ seen' = seen \cup {<<code, t>>} /\ Becomes(t, Idle)
       ELSE /\ Becomes(t, IF call[t].attempt < Retries THEN [call[t] EXCEPT !.attempt = @ + 1]
                          ELSE Idle)
            /\ UNCHANGED <<cell, seen>>
    /\ UNCHANGED ops

Resolve(code) == cell[code]

Shortener == Is("shortlink") /\ Same /\ \E t \in Threads : Generate(t) \/ \E code \in Codes : Save(t, code)

\* Every code resolves to the url it was handed out for.
ShortenerOK == \A l \in seen : Resolve(l[1]) = {l[2]} /\ \A m \in seen : l[1] = m[1] => l = m
-----------------------------------------------------------------------------
NewCell(k) ==
    CASE k = "gate" -> [max |-> Max(Maxima), current |-> 0]
      [] k = "promise" -> [set |-> FALSE, done |-> FALSE, val |-> {}]
      [] k = "health" -> [healthy |-> TRUE, since |-> 0, cached |-> {}, cachedAt |-> 0]
      [] k = "reload" -> [mu |-> "", value |-> 0, source |-> 0, stopped |-> FALSE]
      [] k = "shortlink" -> [c \in Codes |-> {}]

Unseen(k) ==
    CASE k = "gate" -> [holders |-> <<>>, ok |-> TRUE]
      [] k = "promise" -> {}
      [] k = "health" -> [status |-> TRUE, at |-> -1]
      [] k = "reload" -> 0
      [] k = "shortlink" -> {}

Init ==
    /\ kind \in Kinds /\ cell = NewCell(kind) /\ seen = Unseen(kind)
    /\ call = [t \in IF kind = "reload" THEN Loaders ELSE Threads |-> Idle]
    /\ clock = 0 /\ ops = 0

Next == Gate \/ Promise \/ Health \/ Buffer \/ Shortener
Spec == Init /\ [][Next]_vars
-----------------------------------------------------------------------------
\* The gate's counter is the number of slots held and no admission exceeds every
\* capacity of its time; every Get of a promise returns the one value set; a
\* health report is never older than its cache and checks allow; a reloaded value
\* never goes back; a short code is never handed out twice.
CellsAgree ==
    /\ Is("gate") => GateOK
    /\ Is("promise") => PromiseOK
    /\ Is("health") => HealthOK
    /\ Is("reload") => BufferOK
    /\ Is("shortlink") => ShortenerOK
=============================================================================
