------------------------------ MODULE LogAlert ------------------------------
(***************************************************************************)
(* Package log4go, alerting: WebhookWriter forwards records that pass its  *)
(* gate, a RateAlerter, to a WebhookAlertSink; the sink limits the rate,   *)
(* queues the alert, and a daemon goroutine posts it with retries until    *)
(* Close.  Seconds of the wall clock, which may be set back, index the     *)
(* gate's buckets; cooldown and rate limit use the monotonic clock.        *)
(***************************************************************************)
EXTENDS Integers, Sequences, FiniteSets, SequencesExt

CONSTANTS
    Alerts,       \* the records at the writer's level
    Writers,      \* goroutines that log them
    Window,       \* len(a.counts), seconds
    Threshold,    \* a.threshold
    Cooldown,     \* a.cooldown, seconds
    PerSec,       \* w.maxPerSec; 0 is no limit
    Retries,      \* w.maxRetries
    ChCap,        \* the capacity of w.ch
    MaxTime,      \* bound: the clocks' range
    None          \* no alert

VARIABLES
    wall, mono,                  \* the clocks
    counts, base, sum, lastFire, \* the gate
    rCount, rWindow,             \* the sink's rate limit
    ch, quit,                    \* w.ch, and whether w.quit is closed
    at, cur, attempt, retry,     \* the daemon: where, the alert it posts, the attempt,
                                 \* whether it waits for the next one
    closer,                      \* Close
    sending,                     \* what each writer has past the gate and not sent
    events,                      \* history: the second each event was charged to
    seen, skipped, posted,       \* history: alerts that were written, gated, posted,
    unsent,                      \* given up before a request was made
    owed                         \* history: the alerts in w.ch when w.quit was closed

clocks == <<wall, mono>>
gate == <<counts, base, sum, lastFire, events>>
daemon == <<at, cur, attempt, retry>>
vars == <<clocks, gate, rCount, rWindow, ch, quit, daemon, closer, sending, seen, skipped,
          posted, unsent, owed>>

Slots == 0..Window - 1

\* Times that were never set lie far enough back.
Init ==
    /\ wall \in 0..1 /\ mono = 0
    /\ counts = [i \in Slots |-> 0] /\ base = wall /\ sum = 0 /\ lastFire = -Cooldown
    /\ rCount = 0 /\ rWindow = -1
    /\ ch = <<>> /\ quit = FALSE
    /\ at = "wait" /\ cur = None /\ attempt = 0 /\ retry = FALSE
    /\ closer = "idle"
    /\ sending = [w \in Writers |-> None]
    /\ events = <<>> /\ seen = {} /\ skipped = {} /\ posted = {} /\ unsent = {} /\ owed = {}

Tick ==
    /\ mono < MaxTime /\ mono' = mono + 1
    /\ wall' \in {wall + 1} \cup 0..wall
    /\ UNCHANGED <<gate, rCount, rWindow, ch, quit, daemon, closer, sending, seen, skipped,
                   posted, unsent, owed>>

-----------------------------------------------------------------------------
\* The bucket of sec itself is not cleared.
ExpiredLate(sec) ==
    IF sec <= base THEN {}
    ELSE IF sec - base >= Window THEN Slots
    ELSE {s % Window : s \in base + 1..sec - 1}

\* advance to sec: the buckets of the seconds that fell out of the window are
\* cleared and leave the sum; an older sec changes nothing.
Expired(sec) ==
    IF sec <= base THEN {}
    ELSE IF sec - base >= Window THEN Slots
    ELSE {s % Window : s \in base + 1..sec}

Advance(sec) ==
    LET gone == Expired(sec)
        left == [i \in Slots |-> IF i \in gone THEN 0 ELSE counts[i]]
        out[i \in -1..Window - 1] ==
            IF i = -1 THEN 0 ELSE out[i - 1] + (IF i \in gone THEN counts[i] ELSE 0)
    IN [counts |-> left, sum |-> sum - out[Window - 1],
        base |-> IF sec <= base THEN base ELSE sec]

\* Write: RateAlerter.Allow charges the event, to the newest bucket when the clock
\* went back; it lets the alert pass at the threshold and after the cooldown.
Write(w, a) ==
    LET adv == Advance(wall)
        sec == IF wall < adv.base THEN adv.base ELSE wall
        fire == adv.sum + 1 >= Threshold /\ mono - lastFire >= Cooldown
    IN
    /\ a \notin seen /\ sending[w] = None
    /\ seen' = seen \cup {a}
    /\ base' = adv.base
    /\ counts' = [adv.counts EXCEPT ![sec % Window] = @ + 1]
    /\ sum' = adv.sum + 1
    /\ events' = Append(events, sec)
    /\ IF fire
       THEN lastFire' = mono /\ sending' = [sending EXCEPT ![w] = a] /\ UNCHANGED skipped
       ELSE skipped' = skipped \cup {a} /\ UNCHANGED <<lastFire, sending>>
    /\ UNCHANGED <<clocks, rCount, rWindow, ch, quit, daemon, closer, posted, unsent, owed>>

\* WebhookAlertSink.Send: allow, then the queue; it drops when either refuses.
Send(w) ==
    LET fresh == mono - rWindow >= 1
        used == IF fresh THEN 0 ELSE rCount
        ok == PerSec <= 0 \/ used < PerSec
    IN
    /\ sending[w] # None
    /\ rWindow' = IF PerSec > 0 /\ fresh THEN mono ELSE rWindow
    /\ rCount' = IF PerSec <= 0 THEN rCount ELSE IF ok THEN used + 1 ELSE used
    /\ IF ok /\ Len(ch) < ChCap
       THEN ch' = Append(ch, sending[w]) /\ UNCHANGED skipped
       ELSE skipped' = skipped \cup {sending[w]} /\ UNCHANGED ch
    /\ sending' = [sending EXCEPT ![w] = None]
    /\ UNCHANGED <<clocks, gate, quit, daemon, closer, seen, posted, unsent, owed>>

-----------------------------------------------------------------------------
\* The daemon takes an alert; in drainQueue too, until the queue is empty.
Take ==
    /\ at \in {"wait", "drain"} /\ cur = None /\ ch # <<>>
    /\ cur' = Head(ch) /\ ch' = Tail(ch)
    /\ attempt' = 0
    /\ UNCHANGED <<clocks, gate, rCount, rWindow, quit, at, retry, closer, sending, seen, skipped,
                   posted, unsent, owed>>

\* One round of post's loop.  The POST is answered, or has failed for the last time,
\* or is to be retried; a url that does not parse gives no request, for any alert.
Post ==
    /\ cur # None /\ ~retry
    /\ \/ /\ unsent = {} /\ posted' = posted \cup {cur}
          /\ \/ cur' = None /\ UNCHANGED retry
             \/ attempt < Retries /\ retry' = TRUE /\ UNCHANGED cur
          /\ UNCHANGED unsent
       \/ /\ posted = {} /\ unsent' = unsent \cup {cur}
          /\ cur' = None
          /\ UNCHANGED <<posted, retry>>
    /\ UNCHANGED <<clocks, gate, rCount, rWindow, ch, quit, at, attempt, closer, sending, seen, skipped,
                   owed>>

\* The formatter panics; the daemon recovers, counts it, and ends.
Panic ==
    /\ cur # None /\ ~retry /\ attempt = 0
    /\ unsent' = unsent \cup {cur} /\ cur' = None /\ at' = "dead"
    /\ UNCHANGED <<clocks, gate, rCount, rWindow, ch, quit, attempt, retry, closer, sending, seen,
                   skipped, posted, owed>>

\* The wait before a retry: the timer, or w.quit, which ends the alert.
Backoff ==
    /\ retry /\ retry' = FALSE
    /\ \/ attempt' = attempt + 1 /\ UNCHANGED cur
       \/ quit /\ cur' = None /\ UNCHANGED attempt
    /\ UNCHANGED <<clocks, gate, rCount, rWindow, ch, quit, at, closer, sending, seen, skipped,
                   posted, unsent, owed>>

\* w.quit is seen between alerts: drainQueue, then wg.Done.
Quit ==
    /\ cur = None
    /\ \/ at = "wait" /\ quit /\ at' = "drain"
       \/ at = "drain" /\ ch = <<>> /\ at' = "gone"
    /\ UNCHANGED <<clocks, gate, rCount, rWindow, ch, quit, cur, attempt, retry, closer, sending,
                   seen, skipped, posted, unsent, owed>>

\* Close closes w.quit and waits for the daemon.
Close ==
    /\ \/ /\ closer = "idle" /\ closer' = "waiting"
          /\ quit' = TRUE
          /\ owed' = ToSet(ch) \cup ({cur} \ {None})
       \/ /\ closer = "waiting" /\ at \in {"gone", "dead"} /\ closer' = "done"
          /\ UNCHANGED <<quit, owed>>
    /\ UNCHANGED <<clocks, gate, rCount, rWindow, ch, daemon, sending, seen, skipped, posted, unsent>>

Next ==
    \/ Tick
    \/ \E w \in Writers, a \in Alerts : Write(w, a)
    \/ \E w \in Writers : Send(w)
    \/ Take \/ Post \/ Panic \/ Backoff \/ Quit \/ Close

Spec == Init /\ [][Next]_vars

-----------------------------------------------------------------------------
TypeOK ==
    /\ mono \in 0..MaxTime /\ wall \in 0..MaxTime + 1 /\ base \in 0..MaxTime + 1
    /\ counts \in [Slots -> 0..Cardinality(Alerts)]
    /\ sum \in 0..Cardinality(Alerts)
    /\ lastFire \in -Cooldown..MaxTime /\ rWindow \in -1..MaxTime
    /\ PerSec > 0 => rCount \in 0..PerSec
    /\ ch \in SeqOf(Alerts, ChCap)
    /\ at \in {"wait", "drain", "gone", "dead"} /\ cur \in Alerts \cup {None}
    /\ attempt \in 0..Retries /\ retry \in BOOLEAN
    /\ closer \in {"idle", "waiting", "done"} /\ quit \in BOOLEAN
    /\ sending \in [Writers -> Alerts \cup {None}]
    /\ skipped \cup posted \cup unsent \cup owed \subseteq seen /\ seen \subseteq Alerts

\* RateAlerter: the running sum is the number of events charged to the seconds of
\* the window, and the ring holds them, although the clock jumps over the whole
\* window or back.
WindowCount ==
    /\ sum = Cardinality({i \in DOMAIN events : events[i] > base - Window})
    /\ \A k \in 0..Window - 1 :
         counts[(base + Window - k) % Window]
            = Cardinality({i \in DOMAIN events : events[i] = base - k})

\* WebhookAlertSink: when Close returns, every alert that was queued or in a retry
\* when it began was posted at least once, unless the url does not parse or the
\* formatter has ended the daemon.
StopDrains == closer = "done" /\ at # "dead" => owed \subseteq posted \cup unsent

\* No alert that was posted is queued again: only the one in hand is retried.
AtMostOnce ==
    /\ IsInjective(ch) /\ cur \notin ToSet(ch)
    /\ (posted \ {cur}) \cap (ToSet(ch) \cup skipped) = {}

\* As long as the daemon takes alerts from the queue, one that was written is
\* skipped, on its way, posted, or given up for the url.
Accounted ==
    at \in {"wait", "drain"} =>
    seen = skipped \cup posted \cup unsent \cup ToSet(ch) \cup ({cur} \ {None})
           \cup ({sending[w] : w \in Writers} \ {None})
=============================================================================
