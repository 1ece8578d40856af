------------------------------- MODULE LogCore -------------------------------
(***************************************************************************)
(* Package log4go, Logger: the package singleton and its rebuilding after  *)
(* Close, the records channel, the bootstrap goroutine that hands records  *)
(* to the registered writers, Close, and children made by With.            *)
(*                                                                         *)
(* A logger's root and its child share the channel, quit and c, and have a *)
(* closeOnce and a list of writers each.  A record that the level or the   *)
(* sampling stops changes nothing here and is left out, and so are the     *)
(* flush and rotate timers, which do not touch this state.  Writers are    *)
(* registered by one goroutine (registerOrFail loads and stores the list   *)
(* without a lock), and their Init succeeds.                               *)
(***************************************************************************)
EXTENDS Naturals, Sequences, FiniteSets, SequencesExt

CONSTANTS
    MaxLoggers,   \* bound: how many instances newDefaultLoggerInstance makes
    Records,      \* the records; a call of a log function is named by its record
    Closers,      \* callers of Close
    Writers,
    ChanCap,      \* recordChannelSize
    None

Loggers == 1..MaxLoggers
Handles == {"root", "child"}

VARIABLES
    loggerDefault,
    made,         \* how many instances there are; init() makes the first
    records, quit, c,
    cloned,       \* the instances that have a child
    once,         \* closeOnce of each handle: "no", "running", "done"
    writers,      \* of each handle
    boot,         \* bootstrapLogWriter: "serve", "drain", "exited"
    pc, lg,       \* the log calls: where they are, and their logger
    at, closing,  \* the closers: where in Close, the handle they close
    got,          \* what each writer was given
    stopped,      \* the writers that closeInternal flushed and stopped
    owed          \* <<writer, record>> in the channel when quit was closed

vars == <<loggerDefault, made, records, quit, c, cloned, once, writers, boot,
          pc, lg, at, closing, got, stopped, owed>>
chans == <<records, quit, c>>
callers == <<pc, lg>>
closers == <<at, closing>>

NoHandle == <<None, "root">>

Init ==
    /\ loggerDefault = 1 /\ made = 1
    /\ records = [l \in Loggers |-> <<>>]
    /\ quit = [l \in Loggers |-> FALSE] /\ c = [l \in Loggers |-> FALSE]
    /\ cloned = {}
    /\ once = [h \in Loggers \X Handles |-> "no"]
    /\ writers = [h \in Loggers \X Handles |-> {}]
    /\ boot = [l \in Loggers |-> "serve"]
    /\ pc = [r \in Records |-> "idle"] /\ lg = [r \in Records |-> None]
    /\ at = [k \in Closers |-> "idle"] /\ closing = [k \in Closers |-> NoHandle]
    /\ got = [w \in Writers |-> {}] /\ stopped = {} /\ owed = {}

-----------------------------------------------------------------------------
\* A log function of the package: defaultLogger, then enqueue.
Load(r) ==
    /\ pc[r] = "idle"
    /\ lg' = [lg EXCEPT ![r] = loggerDefault]
    /\ pc' = [pc EXCEPT ![r] = IF loggerDefault = None THEN "create" ELSE "enqueue"]
    /\ UNCHANGED <<loggerDefault, made, chans, cloned, once, writers, boot, closers,
                   got, stopped, owed>>

\* newDefaultLoggerInstance starts the bootstrap goroutine; no writer is registered.
Create(r) ==
    /\ pc[r] = "create"
    /\ made < MaxLoggers /\ made' = made + 1
    /\ lg' = [lg EXCEPT ![r] = made']
    /\ pc' = [pc EXCEPT ![r] = "publish"]
    /\ UNCHANGED <<loggerDefault, chans, cloned, once, writers, boot, closers,
                   got, stopped, owed>>

\* The instance is published with a plain Store.
PublishStore(r) ==
    /\ pc[r] = "publish"
    /\ loggerDefault' = lg[r]
    /\ pc' = [pc EXCEPT ![r] = "enqueue"]
    /\ UNCHANGED <<made, chans, cloned, once, writers, boot, lg, closers,
                   got, stopped, owed>>

\* CompareAndSwap(nil, l).
Publish(r) ==
    /\ pc[r] = "publish"
    /\ \/ /\ loggerDefault = None
          /\ loggerDefault' = lg[r]
          /\ pc' = [pc EXCEPT ![r] = "enqueue"]
       \/ /\ loggerDefault # None
          /\ pc' = [pc EXCEPT ![r] = "discard"]
          /\ UNCHANGED loggerDefault
    /\ UNCHANGED <<made, chans, cloned, once, writers, boot, lg, closers,
                   got, stopped, owed>>

\* The extra instance of the goroutine that lost is closed; it has no writers.
Discard(r) ==
    /\ pc[r] = "discard"
    /\ quit' = [quit EXCEPT ![lg[r]] = TRUE]
    /\ once' = [once EXCEPT ![<<lg[r], "root">>] = "running"]
    /\ pc' = [pc EXCEPT ![r] = "discarded"]
    /\ UNCHANGED <<loggerDefault, made, records, c, cloned, writers, boot, lg,
                   closers, got, stopped, owed>>

\* It waits for the bootstrap goroutine and loads the singleton again, which may
\* be nil by then: the call panics on it.
Reload(r) ==
    /\ pc[r] = "discarded" /\ c[lg[r]]
    /\ c' = [c EXCEPT ![lg[r]] = FALSE]
    /\ once' = [once EXCEPT ![<<lg[r], "root">>] = "done"]
    /\ lg' = [lg EXCEPT ![r] = loggerDefault]
    /\ pc' = [pc EXCEPT ![r] = IF loggerDefault = None THEN "panicked" ELSE "enqueue"]
    /\ UNCHANGED <<loggerDefault, made, records, quit, cloned, writers, boot,
                   closers, got, stopped, owed>>

\* enqueue: both cases may be ready, and then either is taken.
Enqueue(r) ==
    /\ pc[r] = "enqueue"
    /\ \/ /\ Len(records[lg[r]]) < ChanCap
          /\ records' = [records EXCEPT ![lg[r]] = Append(@, r)]
       \/ quit[lg[r]] /\ UNCHANGED records
    /\ pc' = [pc EXCEPT ![r] = "done"]
    /\ lg' = [lg EXCEPT ![r] = None]
    /\ UNCHANGED <<loggerDefault, made, quit, c, cloned, once, writers, boot, closers,
                   got, stopped, owed>>

-----------------------------------------------------------------------------
\* Register on the singleton, and With, whose child keeps the list of that moment.
Register(w) ==
    /\ loggerDefault # None
    /\ \A h \in Loggers \X Handles : w \notin writers[h]
    /\ writers' = [writers EXCEPT ![<<loggerDefault, "root">>] = @ \cup {w}]
    /\ UNCHANGED <<loggerDefault, made, chans, cloned, once, boot, callers, closers,
                   got, stopped, owed>>

Clone ==
    /\ loggerDefault \notin cloned \cup {None}
    /\ cloned' = cloned \cup {loggerDefault}
    /\ writers' = [writers EXCEPT ![<<loggerDefault, "child">>] =
                                        writers[<<loggerDefault, "root">>]]
    /\ UNCHANGED <<loggerDefault, made, chans, once, boot, callers, closers,
                   got, stopped, owed>>

-----------------------------------------------------------------------------
\* bootstrapLogWriter: deliver, which uses the root's list.
Deliver(l) ==
    /\ l <= made /\ boot[l] \in {"serve", "drain"} /\ records[l] # <<>>
    /\ got' = [w \in Writers |-> IF w \in writers[<<l, "root">>]
                                 THEN got[w] \cup {Head(records[l])} ELSE got[w]]
    /\ records' = [records EXCEPT ![l] = Tail(@)]
    /\ UNCHANGED <<loggerDefault, made, quit, c, cloned, once, writers, boot, callers,
                   closers, stopped, owed>>

\* The bootstrap goroutine ends on quit without draining.
RetireAtOnce(l) ==
    /\ l <= made /\ boot[l] = "serve" /\ quit[l]
    /\ boot' = [boot EXCEPT ![l] = "exited"]
    /\ c' = [c EXCEPT ![l] = TRUE]
    /\ UNCHANGED <<loggerDefault, made, records, quit, cloned, once, writers, callers,
                   closers, got, stopped, owed>>

\* quit is closed: drainAndExit, which ends when it finds the channel empty.
Retire(l) ==
    /\ l <= made
    /\ \/ /\ boot[l] = "serve" /\ quit[l]
          /\ boot' = [boot EXCEPT ![l] = "drain"]
          /\ UNCHANGED c
       \/ /\ boot[l] = "drain" /\ records[l] = <<>>
          /\ boot' = [boot EXCEPT ![l] = "exited"]
          /\ c' = [c EXCEPT ![l] = TRUE]
    /\ UNCHANGED <<loggerDefault, made, records, quit, cloned, once, writers, callers,
                   closers, got, stopped, owed>>

-----------------------------------------------------------------------------
\* Close of the package takes the singleton out; Close, Sync, Panic and Fatal of
\* a Logger close the handle they are called on.
CloseSwap(k) ==
    /\ at[k] = "idle" /\ loggerDefault # None
    /\ closing' = [closing EXCEPT ![k] = <<loggerDefault, "root">>]
    /\ loggerDefault' = None
    /\ at' = [at EXCEPT ![k] = "once"]
    /\ UNCHANGED <<made, chans, cloned, once, writers, boot, callers, got, stopped, owed>>

CloseHandle(k, h) ==
    /\ at[k] = "idle" /\ loggerDefault # None
    /\ h = "child" => loggerDefault \in cloned
    /\ closing' = [closing EXCEPT ![k] = <<loggerDefault, h>>]
    /\ at' = [at EXCEPT ![k] = "once"]
    /\ UNCHANGED <<loggerDefault, made, chans, cloned, once, writers, boot, callers,
                   got, stopped, owed>>

\* closeOnce.Do, and in it close(l.quit), which panics on a channel that the other
\* handle has closed: Once counts that as done.
CloseQuit(k) ==
    LET h == closing[k]
        l == h[1]
    IN  /\ at[k] = "once"
        /\ \/ /\ once[h] = "done"
              /\ at' = [at EXCEPT ![k] = "returned"]
              /\ UNCHANGED <<once, quit, owed>>
           \/ /\ once[h] = "no" /\ quit[l]
              /\ once' = [once EXCEPT ![h] = "done"]
              /\ at' = [at EXCEPT ![k] = "panicked"]
              /\ UNCHANGED <<quit, owed>>
           \/ /\ once[h] = "no" /\ ~quit[l]
              /\ once' = [once EXCEPT ![h] = "running"]
              /\ quit' = [quit EXCEPT ![l] = TRUE]
              /\ owed' = owed \cup (writers[<<l, "root">>] \X ToSet(records[l]))
              /\ at' = [at EXCEPT ![k] = "waiting"]
        /\ UNCHANGED <<loggerDefault, made, records, c, cloned, writers, boot, callers,
                       closing, got, stopped>>

\* <-l.c, then the writers of this handle are flushed, stopped and closed.
CloseWriters(k) ==
    LET h == closing[k]
        l == h[1]
    IN  /\ at[k] = "waiting" /\ c[l]
        /\ c' = [c EXCEPT ![l] = FALSE]
        /\ stopped' = stopped \cup writers[h]
        /\ once' = [once EXCEPT ![h] = "done"]
        /\ at' = [at EXCEPT ![k] = "returned"]
        /\ UNCHANGED <<loggerDefault, made, records, quit, cloned, writers, boot, callers,
                       closing, got, owed>>

Next ==
    \/ \E r \in Records :
        \/ Load(r) \/ Create(r) \/ Publish(r) \/ Discard(r) \/ Reload(r) \/ Enqueue(r)
    \/ \E w \in Writers : Register(w)
    \/ Clone
    \/ \E l \in Loggers : Deliver(l) \/ Retire(l)
    \/ \E k \in Closers :
        \/ CloseSwap(k) \/ CloseQuit(k) \/ CloseWriters(k)
        \/ \E h \in Handles : CloseHandle(k, h)

Spec == Init /\ [][Next]_vars

-----------------------------------------------------------------------------
TypeOK ==
    /\ made \in Loggers /\ loggerDefault \in 1..made \cup {None}
    /\ records \in [Loggers -> SeqOf(Records, ChanCap)]
    /\ {quit, c} \subseteq [Loggers -> BOOLEAN] /\ cloned \subseteq 1..made
    /\ once \in [Loggers \X Handles -> {"no", "running", "done"}]
    /\ writers \in [Loggers \X Handles -> SUBSET Writers]
    /\ boot \in [Loggers -> {"serve", "drain", "exited"}]
    /\ pc \in [Records -> {"idle", "create", "publish", "discard", "discarded",
                           "enqueue", "done", "panicked"}]
    /\ lg \in [Records -> Loggers \cup {None}]
    /\ at \in [Closers -> {"idle", "once", "waiting", "returned", "panicked"}]
    /\ closing \in [Closers -> (Loggers \cup {None}) \X Handles]
    /\ got \in [Writers -> SUBSET Records] /\ stopped \subseteq Writers
    /\ owed \subseteq Writers \X Records

\* A writer is stopped only after the bootstrap goroutine that gives it records has
\* exited, and by then it was given every record that was in the channel when quit
\* was closed, although calls go on enqueueing and a child may be what is closed.
StopDrains ==
    /\ \A l \in 1..made, w \in stopped : w \in writers[<<l, "root">>] => boot[l] = "exited"
    /\ \A o \in owed : o[1] \in stopped => o[2] \in got[o[1]]

\* Every instance that was started is the singleton, was told to quit, or is in
\* the hands of a goroutine that will publish or close it: however calls race
\* Close, no bootstrap goroutine is left behind.
NoOrphans ==
    \A l \in 1..made :
        \/ l = loggerDefault \/ quit[l]
        \/ \E r \in Records : lg[r] = l /\ pc[r] \in {"publish", "discard"}
        \/ \E k \in Closers : closing[k] = <<l, "root">> /\ at[k] = "once"

\* No record is given to a writer and still waits in a channel.
AtMostOnce ==
    \A l \in 1..made :
        /\ IsInjective(records[l])
        /\ \A w \in Writers : got[w] \cap ToSet(records[l]) = {}
=============================================================================
