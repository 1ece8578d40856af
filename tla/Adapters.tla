------------------------------ MODULE Adapters ------------------------------
(***************************************************************************)
(* The thin clients over a driver: mongo, etcd, clickhouse, aerospike,     *)
(* redis, postgres, minio and elasticsearch.  New opens the driver's       *)
(* client, most ping it and give it back when the ping fails; Wrap takes   *)
(* the caller's; every operation is counted, handed to the driver, its     *)
(* error counted, an event fired; Close gives back what New opened.  The   *)
(* drivers are external: a call succeeds or fails, and fails once closed.  *)
(***************************************************************************)
EXTENDS Naturals, FiniteSets

CONSTANTS
    Threads,
    Packages,     \* the packages to instantiate
    MaxCalls      \* operations and Close calls of a client

VARIABLES
    kind,         \* the package
    client,       \* the Client: how far New is, own, closed (or closeOnce done), once held
    conn,         \* the driver's client: open, and how often this package closed it
    call,         \* what each goroutine is doing
    cnt,          \* the counters of Metrics
    handler,      \* onEvent is set; `always': it was from the start
    log           \* ghost: calls made, events delivered, by kind and outcome

vars == <<kind, client, conn, call, cnt, handler, log>>

Is(ks) == kind \in ks
NoCall == [pc |-> "idle", op |-> "", err |-> FALSE]
-----------------------------------------------------------------------------
\* The operations of a client: name, the counter they add to (or none), and the
\* kind of their event.
MongoOps ==
    {<<"InsertOne", "inserts", "insert">>, <<"InsertMany", "inserts", "insert">>,
     <<"Find", "finds", "find">>, <<"FindOne", "finds", "find">>,
     <<"UpdateOne", "updates", "update">>, <<"UpdateMany", "updates", "update">>,
     <<"DeleteOne", "deletes", "delete">>, <<"DeleteMany", "deletes", "delete">>}

EtcdOps ==
    {<<"Put", "puts", "put">>, <<"Get", "gets", "get">>, <<"Delete", "deletes", "delete">>,
     <<"Grant", "grants", "grant">>, <<"KeepAlive", "", "keepalive">>,
     <<"Revoke", "", "revoke">>, <<"Watch", "watches", "watch">>, <<"Status", "", "status">>}

MinioOps ==
    {<<"PutObject", "puts", "put">>, <<"GetObject", "gets", "get">>,
     <<"StatObject", "stats", "stat">>, <<"RemoveObject", "removes", "remove">>,
     <<"BucketExists", "", "bucket">>, <<"MakeBucket", "", "bucket">>,
     <<"ListObjects", "", "list">>, <<"PresignedGetObject", "", "presign">>}

ClickhouseOps ==
    {<<"Ping", "pings", "ping">>, <<"Exec", "execs", "exec">>, <<"Query", "queries", "query">>,
     <<"QueryRow", "queries", "query">>, <<"PrepareBatch", "batches", "batch">>}

AerospikeOps ==
    {<<"Put", "puts", "put">>, <<"Get", "gets", "get">>, <<"Delete", "deletes", "delete">>,
     <<"BatchGet", "gets", "get">>}

ElasticsearchOps ==
    {<<"Index", "indexes", "index">>, <<"Search", "searches", "search">>,
     <<"Get", "gets", "get">>, <<"Delete", "deletes", "delete">>}

Ops ==
    CASE kind = "mongo" -> MongoOps
      [] kind = "etcd" -> EtcdOps
      [] kind = "minio" -> MinioOps
      [] kind = "clickhouse" -> ClickhouseOps
      [] kind = "aerospike" -> AerospikeOps
      [] kind = "elasticsearch" -> ElasticsearchOps
      [] OTHER -> {}

\* Operations whose error only shows later, in what they return.
Silent == {"FindOne", "QueryRow", "Watch"}

Counters == {"inserts", "finds", "updates", "deletes", "puts", "gets", "grants", "watches",
             "stats", "removes", "pings", "execs", "queries", "batches", "indexes", "searches",
             "pingErrors", "bytesUploaded", "errors"}
Bump(c, n) == [cnt EXCEPT ![c] = @ + n]

Init ==
    /\ kind \in Packages
    /\ client = [pc |-> "none", own |-> FALSE, closed |-> FALSE, busy |-> FALSE]
    /\ conn = [open |-> FALSE, opened |-> FALSE, closes |-> 0]
    /\ call = [t \in Threads |-> NoCall]
    /\ cnt = [c \in Counters |-> 0]
    /\ handler \in {[on |-> b, always |-> b] : b \in BOOLEAN}
    /\ log = [made |-> {}, n |-> 0, fired |-> {}]

At(t, pc) == call[t].pc = pc
Released == conn' = [conn EXCEPT !.open = FALSE, !.closes = @ + 1]
-----------------------------------------------------------------------------
(* New, one action per package: no address, a driver that does not open,   *)
(* an opened one to ping, or a finished client.                            *)
Opens(pc) ==
    /\ client.pc = "none"
    /\ \/ client' = [client EXCEPT !.pc = "failed"] /\ UNCHANGED conn
       \/ /\ client' = [client EXCEPT !.pc = pc, !.own = TRUE]
          /\ conn' = [conn EXCEPT !.open = TRUE, !.opened = TRUE]
    /\ UNCHANGED <<kind, call, cnt, handler, log>>

\* The ping of New, bounded by ctx's deadline or ten seconds.
PingThen(release) ==
    /\ client.pc = "ping"
    /\ \/ client' = [client EXCEPT !.pc = "ready"] /\ UNCHANGED conn
       \/ /\ client' = [client EXCEPT !.pc = "failed"]
          /\ IF release THEN Released ELSE UNCHANGED conn
    /\ UNCHANGED <<kind, call, cnt, handler, log>>

NewMongo == Is({"mongo"}) /\ (Opens("ping") \/ PingThen(TRUE))
NewEtcd == Is({"etcd"}) /\ (Opens("ping") \/ PingThen(TRUE))
NewClickhouse == Is({"clickhouse"}) /\ (Opens("ping") \/ PingThen(TRUE))
NewPostgres == Is({"postgres"}) /\ (Opens("ping") \/ PingThen(TRUE))
NewMinio == Is({"minio"}) /\ (Opens("ping") \/ PingThen(FALSE))
NewElasticsearch == Is({"elasticsearch"}) /\ (Opens("ping") \/ PingThen(FALSE))
NewAerospike == Is({"aerospike"}) /\ Opens("ready")
NewRedis == Is({"redis"}) /\ Opens("ready")

New == \/ NewMongo \/ NewEtcd \/ NewClickhouse \/ NewPostgres
       \/ NewMinio \/ NewElasticsearch \/ NewAerospike \/ NewRedis

\* Wrap: the caller's client, theirs to close.  postgres has none.
Wrap ==
    /\ kind # "postgres" /\ client.pc = "none"
    /\ client' = [client EXCEPT !.pc = "ready"]
    /\ conn' = [conn EXCEPT !.open = TRUE]
    /\ UNCHANGED <<kind, call, cnt, handler, log>>
-----------------------------------------------------------------------------
\* An operation is counted before the driver has it.
Call(t, o) ==
    /\ client.pc = "ready" /\ At(t, "idle") /\ log.n < MaxCalls
    /\ cnt' = IF o[2] = "" THEN cnt ELSE Bump(o[2], 1)
    /\ call' = [call EXCEPT ![t] = [pc |-> "driver", op |-> o, err |-> FALSE]]
    /\ log' = [log EXCEPT !.n = @ + 1, !.made = @ \cup {<<log.n, o>>}]
    /\ UNCHANGED <<kind, client, conn, handler>>

\* The driver answers; an error is counted, a ping's twice, and so is what a
\* PutObject uploaded (a size below zero, not known, is not).
Return(t) ==
    /\ At(t, "driver")
    /\ LET op == call[t].op[1]
           Fails == IF op \in Silent THEN {FALSE} ELSE IF conn.open THEN BOOLEAN ELSE {TRUE}
       IN  \E err \in Fails, n \in 0 .. 1 :
             /\ n = 0 \/ (op = "PutObject" /\ ~err)
             /\ cnt' = [cnt EXCEPT !["errors"] = IF err THEN @ + 1 ELSE @,
                                   !["pingErrors"] = IF err /\ op = "Ping" THEN @ + 1 ELSE @,
                                   !["bytesUploaded"] = @ + n]
             /\ call' = [call EXCEPT ![t].pc = "fire", ![t].err = err]
    /\ UNCHANGED <<kind, client, conn, handler, log>>

\* fireEvent: the callback that is there now.
FireEvent(t) ==
    /\ At(t, "fire")
    /\ log' = IF handler.on
              THEN [log EXCEPT !.fired = @ \cup {<<Cardinality(@), call[t].op[3], call[t].err>>}]
              ELSE log
    /\ call' = [call EXCEPT ![t] = NoCall]
    /\ UNCHANGED <<kind, client, conn, cnt, handler>>

SetOnEvent(on) ==
    /\ handler.on # on
    /\ handler' = [on |-> on, always |-> FALSE]
    /\ UNCHANGED <<kind, client, conn, call, cnt, log>>
-----------------------------------------------------------------------------
(* Close.                                                                  *)
Enter(t, pc) ==
    /\ client.pc = "ready" /\ At(t, "idle") /\ log.n < MaxCalls
    /\ call' = [call EXCEPT ![t] = [NoCall EXCEPT !.pc = pc]]
    /\ log' = [log EXCEPT !.n = @ + 1]
    /\ UNCHANGED <<kind, conn, cnt, handler>>

\* The flag is looked at, but not taken in the same step.
CloseByLoad(t) ==
    /\ Is({"mongo", "etcd"})
    /\ \/ Enter(t, IF client.own /\ ~client.closed THEN "closing" ELSE "idle") /\ UNCHANGED client
       \/ /\ At(t, "closing") /\ Released
          /\ client' = [client EXCEPT !.closed = TRUE]
          /\ call' = [call EXCEPT ![t] = NoCall]
          /\ UNCHANGED <<kind, cnt, handler, log>>

\* mongo.Disconnect, etcd.Close: not ours, or already taken; else the driver's.
CloseByCas(t) ==
    /\ Is({"mongo", "etcd"})
    /\ \/ /\ Enter(t, IF client.own /\ ~client.closed THEN "closing" ELSE "idle")
          /\ client' = [client EXCEPT !.closed = @ \/ client.own]
       \/ /\ At(t, "closing") /\ Released
          /\ call' = [call EXCEPT ![t] = NoCall]
          /\ UNCHANGED <<kind, client, cnt, handler, log>>

\* clickhouse and aerospike: a Once, in which `own' is looked at; a second
\* caller waits for the first.
CloseOnce(t) ==
    /\ Is({"clickhouse", "aerospike"})
    /\ \/ /\ ~client.busy
          /\ Enter(t, IF client.closed THEN "idle" ELSE "closing")
          /\ client' = [client EXCEPT !.busy = ~client.closed]
       \/ /\ At(t, "closing")
          /\ IF client.own THEN Released ELSE UNCHANGED conn
          /\ client' = [client EXCEPT !.closed = TRUE, !.busy = FALSE]
          /\ call' = [call EXCEPT ![t] = NoCall]
          /\ UNCHANGED <<kind, cnt, handler, log>>

\* redis, when it is its own; postgres, always its own: the driver's Close, each
\* time, which is safe to repeat.
CloseDriver(t) ==
    /\ Is({"redis", "postgres"})
    /\ \/ Enter(t, IF client.own THEN "closing" ELSE "idle") /\ UNCHANGED client
       \/ /\ At(t, "closing") /\ Released
          /\ call' = [call EXCEPT ![t] = NoCall]
          /\ UNCHANGED <<kind, client, cnt, handler, log>>

Close(t) == CloseByCas(t) \/ CloseOnce(t) \/ CloseDriver(t)

Next ==
    \/ New \/ Wrap
    \/ \E b \in BOOLEAN : SetOnEvent(b)
    \/ \E t \in Threads : Return(t) \/ FireEvent(t) \/ Close(t) \/ \E o \in Ops : Call(t, o)

Spec == Init /\ [][Next]_vars
-----------------------------------------------------------------------------
TypeOK ==
    /\ client.pc \in {"none", "ping", "ready", "failed"} /\ conn.closes \in 0 .. MaxCalls
    /\ cnt \in [Counters -> 0 .. MaxCalls] /\ log.n \in 0 .. MaxCalls

\* What New opened is given back: a New that failed leaves no client of the four
\* drivers that hold connections open, the drivers whose Close must not be
\* repeated see it once however many Close calls overlap, and a wrapped client
\* is never closed.  The errors counted and the error events are the same calls,
\* and each call fires one event, of its own kind, if someone listens all along.
AdaptersAgree ==
    /\ ~client.own => conn.closes = 0
    /\ conn.closes > 1 => Is({"redis", "postgres"})
    /\ client.pc = "failed" /\ conn.open => Is({"minio", "elasticsearch"})
    /\ Is({"mongo", "etcd"}) /\ client.closed =>
          ~conn.open \/ \E t \in Threads : At(t, "closing")
    /\ handler.always =>
          LET Pending(k) == {t \in Threads : call[t].pc \in {"driver", "fire"} /\ call[t].op[3] = k}
          IN  /\ \A k \in {m[2][3] : m \in log.made} :
                    Cardinality({m \in log.made : m[2][3] = k})
                        = Cardinality({e \in log.fired : e[2] = k}) + Cardinality(Pending(k))
              /\ cnt["errors"] = Cardinality({e \in log.fired : e[3]})
                                 + Cardinality({t \in Threads : At(t, "fire") /\ call[t].err})
=============================================================================
