------------------------------ MODULE MCLogging ------------------------------
(***************************************************************************)
(* Package log4go: the logger's core, the network, file and Kafka writers  *)
(* and the alert sink.  Each is checked by itself: a behaviour exercises   *)
(* the one that `part' names.  What has the same name in several models is *)
(* one variable here, and a variable that the part does not have stays 0.  *)
(***************************************************************************)
EXTENDS Naturals, FiniteSets, TLC

CONSTANTS
    Parts,                                    \* the parts that are checked
    Records, Producers, Stoppers, QueueCap,   \* the asynchronous writers
    RingCap, FileCap, SpillTypes, FlushBatch, MaxCrashes,
    BatchSize, MinSamples, MaxSends,          \* the Kafka writer
    Window, Threshold, Cooldown, PerSec, Retries, MaxTime,   \* the alert sink
    MaxLoggers, Closers, CoreRecords, Writers,   \* the core
    None

VARIABLES
    part, owed,
    policy, stop, queue, mode, todo, writing, stopper, errored, dropped, lost, offered,
    closing, run, sent, hand, kind, sp, quit, at,
    ring, conn, ovDropped,
    live, out, since, written, refused, crashes,
    batchMode, batch, open, brk, winSent, winErr, probes, sends, accepted,
    wall, mono, counts, base, sum, lastFire, events, rCount, rWindow, ch, cur, attempt, retry,
    closer, sending, seen, skipped, posted, unsent,
    loggerDefault, made, records, c, cloned, once, writers, boot, pc, lg, got, stopped

C == INSTANCE LogCore WITH Records <- CoreRecords, ChanCap <- QueueCap
N == INSTANCE LogNet
F == INSTANCE LogFile
K == INSTANCE LogKafka
A == INSTANCE LogAlert WITH Alerts <- Records, Writers <- Producers, ChCap <- QueueCap

\* The variables by the parts that have them.
async == <<policy, stop, queue, mode, todo, writing, stopper, errored, dropped, lost, offered>>
nVars == <<ring, conn, ovDropped>>
fVars == <<live, out, since, written, refused, crashes>>
kVars == <<batchMode, batch, open, brk, winSent, winErr, probes, sends, accepted>>
aVars == <<wall, mono, counts, base, sum, lastFire, events, rCount, rWindow, ch, cur, attempt,
           retry, closer, sending, seen, skipped, posted, unsent>>
cVars == <<loggerDefault, made, records, c, cloned, once, writers, boot, pc, lg, got,
           stopped>>
vars == <<part, owed, async, closing, run, sent, hand, kind, sp, quit, at,
          nVars, fVars, kVars, aVars, cVars>>

NoAsync ==
    /\ policy = 0 /\ stop = 0 /\ queue = 0 /\ mode = 0 /\ todo = 0 /\ writing = 0 /\ stopper = 0
    /\ errored = 0 /\ dropped = 0 /\ lost = 0 /\ offered = 0
    /\ run = 0 /\ sent = 0 /\ hand = 0 /\ kind = 0 /\ sp = 0
NoNet == ring = 0 /\ conn = 0 /\ ovDropped = 0
NoFile == live = 0 /\ out = 0 /\ since = 0 /\ written = 0 /\ refused = 0 /\ crashes = 0
NoKafka ==
    /\ batchMode = 0 /\ batch = 0 /\ open = 0 /\ brk = 0 /\ winSent = 0 /\ winErr = 0
    /\ probes = 0 /\ sends = 0 /\ accepted = 0
NoAlert ==
    /\ wall = 0 /\ mono = 0 /\ counts = 0 /\ base = 0 /\ sum = 0 /\ lastFire = 0 /\ events = 0
    /\ rCount = 0 /\ rWindow = 0 /\ ch = 0 /\ cur = 0 /\ attempt = 0 /\ retry = 0
    /\ closer = 0 /\ sending = 0 /\ seen = 0 /\ skipped = 0 /\ posted = 0 /\ unsent = 0
NoCore ==
    /\ loggerDefault = 0 /\ made = 0 /\ records = 0 /\ c = 0 /\ cloned = 0 /\ once = 0
    /\ writers = 0 /\ boot = 0 /\ pc = 0 /\ lg = 0 /\ got = 0 /\ stopped = 0

In(p) == part = p

Init ==
    /\ part \in Parts
    /\ \/ /\ In("core") /\ C!Init
          /\ NoAsync /\ NoNet /\ NoFile /\ NoKafka /\ NoAlert
       \/ /\ In("net") /\ N!Init
          /\ kind = 0 /\ sp = 0 /\ quit = 0 /\ at = 0 /\ NoFile /\ NoKafka /\ NoAlert /\ NoCore
       \/ /\ In("file") /\ F!Init
          /\ run = 0 /\ sent = 0 /\ quit = 0 /\ at = 0 /\ NoNet /\ NoKafka /\ NoAlert /\ NoCore
       \/ /\ In("kafka") /\ K!Init
          /\ hand = 0 /\ quit = 0 /\ at = 0 /\ NoNet /\ NoFile /\ NoAlert /\ NoCore
       \/ /\ In("alert") /\ A!Init
          /\ closing = 0 /\ NoAsync /\ NoNet /\ NoFile /\ NoKafka /\ NoCore

Next ==
    /\ UNCHANGED part
    /\ \/ /\ In("core") /\ C!Next
          /\ UNCHANGED <<async, run, sent, hand, kind, sp, nVars, fVars, kVars, aVars>>
       \/ /\ In("net") /\ N!Next
          /\ UNCHANGED <<kind, sp, quit, at, fVars, kVars, aVars, cVars>>
       \/ /\ In("file") /\ F!Next
          /\ UNCHANGED <<run, sent, quit, at, nVars, kVars, aVars, cVars>>
       \/ /\ In("kafka") /\ K!Next
          /\ UNCHANGED <<hand, quit, at, nVars, fVars, aVars, cVars>>
       \/ /\ In("alert") /\ A!Next
          /\ UNCHANGED <<async, closing, run, sent, hand, kind, sp, nVars, fVars, kVars, cVars>>

Spec == Init /\ [][Next]_vars

\* Records and callers are interchangeable.
Symmetry == Permutations(Records)
-----------------------------------------------------------------------------
\* Every part keeps its types, and its channels and stores their capacities.
TypeOK ==
    /\ In("core") => C!TypeOK
    /\ In("net") => N!TypeOK
    /\ In("file") => F!TypeOK
    /\ In("kafka") => K!TypeOK
    /\ In("alert") => A!TypeOK

\* As long as the writer's daemon takes records from the channel, a record that
\* Write was called with waits for it, or was delivered, or a counter or an error
\* shows what became of it: under the policies drop and block nothing disappears
\* unseen, although connections fail and files cannot be rotated.  What is left in
\* the writer when the daemon has ended is StopDrains', and what producers that race
\* Stop, or write after a panic, add to it then is not counted by anything.  An
\* alert is gated, on its way, posted, or given up for a url that does not parse.
Accounted ==
    /\ In("net") => N!Accounted
    /\ In("file") => F!Accounted
    /\ In("kafka") => K!Accounted
    /\ In("alert") => A!Accounted

\* No record waits in two places, and none that was delivered or given up waits:
\* spilling, re-injection, the recovery of a spill file after a crash, and alert
\* retries repeat nothing that was done.
AtMostOnce ==
    /\ In("core") => C!AtMostOnce
    /\ In("net") => N!AtMostOnce
    /\ In("file") => F!AtMostOnce
    /\ In("kafka") => K!AtMostOnce
    /\ In("alert") => A!AtMostOnce

\* Closing drains.  Core: a writer is stopped only after it was given every record
\* that was in the channel when quit was closed, and no bootstrap goroutine is left
\* behind, however log calls that rebuild the package singleton race Close.
\* Writers: when Stop has seen the daemon's quit, nothing that the writer held when
\* Stop began is still in it (Kafka: in batch mode).  Alerts: Close posts what was
\* queued, if the url parses and the formatter does not panic.
StopDrains ==
    /\ In("core") => C!StopDrains /\ C!NoOrphans
    /\ In("net") => N!StopDrains
    /\ In("file") => F!StopDrains
    /\ In("kafka") => K!StopDrains
    /\ In("alert") => A!StopDrains

\* FileWriter: at most FlushBatch records are counted as written and not on disk,
\* until Stop removes the channel.
CrashLossBounded == In("file") => F!CrashLossBounded

\* RateAlerter: the running sum is the number of events in the window, although
\* the clock jumps over the window or back.
WindowCount == In("alert") => A!WindowCount

\* KafkaWriter: an open breaker closes only through half-open, after at least
\* MinSamples sends.
ProbedBeforeClose ==
    [][In("kafka") /\ brk # "closed" /\ brk' = "closed"
         => brk = "half" /\ probes >= MinSamples]_vars

\* KafkaWriter.Stop: it "drains every record still queued in the channel and the
\* entire spill store" (kafka_writer.go:894-895), or at least "a racing producer that
\* slipped a record past closing.Load() is drained here too, so nothing is lost"
\* (:726-727).
StopDrainsQueued == In("kafka") => K!StopDrainsQueued \/ K!RacersDrained

\* drainSpill's promise when the channel is full: "keep the rest in the spiller".
NothingVanishes == In("kafka") => K!NothingVanishes
=============================================================================
