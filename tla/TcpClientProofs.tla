-------------------------- MODULE TcpClientProofs ---------------------------
(***************************************************************************)
(* The connections of tcpclient's pool are accounted for, and a line that  *)
(* a call returns answers its own request unless the peer answered a Send  *)
(* over that connection, for any number of goroutines and calls and any    *)
(* sizes of the pool and the retry budget.  Connections have one owner:    *)
(* the pool, or the call that checked them out.  But for an answered Send, *)
(* a pooled one is clean, nothing is owed on it or left to read, so what a *)
(* call reads was sent after its own write.                                *)
(***************************************************************************)
EXTENDS TcpClient, SequenceTheorems, TLAPS

Assumptions == PoolSize \in Nat /\ RetryMax \in Nat /\ MaxCalls \in Nat /\ NoConn \notin Conns

\* The shapes of a connection and of a call.
ConnRecord ==
    [ours : {"none", "open", "closed"}, peer : {"up", "down"}, owes : Seq(Nat), inbox : Seq(Nat),
     unread : BOOLEAN]
Errors == {"", "rejected", "ctx", "net", "closed"}
CallRecord ==
    [pc : {"idle", "get", "write", "read", "join", "backoff", "end"}, id : Nat,
     kind : {"", "send", "all", "line"}, conn : Conns \cup {NoConn}, attempt : 0 .. RetryMax,
     err : Errors, poolable : BOOLEAN, done : BOOLEAN,
     reply : Nat]

Shapes ==
    /\ conn \in [Conns -> ConnRecord]
    /\ call \in [Threads -> CallRecord]
    /\ watch \in [Threads -> {"on", "off"}]
    /\ pool \in Seq(Conns) /\ Len(pool) <= PoolSize
    /\ closer \in {"open", "drain", "done"} /\ closed = (closer # "open")
    /\ calls \in 0 .. MaxCalls

\* A call holds a connection exactly while an attempt uses it, and its watcher
\* runs only then; it waits for another attempt only when one is left.
Using(t) == call[t].pc \in {"write", "read", "join"}
Attempts ==
    \A t \in Threads :
        /\ Using(t) <=> Mine(t) # NoConn
        /\ watch[t] = "on" => Using(t)
        /\ At(t, "backoff") => call[t].attempt < RetryMax /\ call[t].err # ""

Idling == Range(pool)

\* Every connection has one owner, and an owner while it is not closed for good.
Owners ==
    /\ IsInjective(pool)
    /\ \A t \in Threads : Mine(t) \notin Idling
    /\ \A s, t \in Threads : s # t /\ Mine(s) # NoConn => Mine(s) # Mine(t)
    /\ \A c \in Idling : conn[c].ours = "open"
    /\ \A t \in Threads : Using(t) => conn[Mine(t)].ours = "open" \/ call[t].done
    /\ \A c \in Conns : conn[c].ours # "none" <=> c \in Held \cup Idling
    /\ closer = "done" => pool = <<>>

\* Nothing is owed on a connection, and nothing waits to be read from it, unless
\* that goes back to a Send that was answered.
Clean(c) == conn[c].unread \/ (conn[c].owes = <<>> /\ conn[c].inbox = <<>>)

\* What is on a connection belongs to the call that uses it, whose read finds its
\* own answer, alone or with what the peer sent along.
AnswerOf(t) ==
    LET c == conn[Mine(t)]  id == call[t].id
    IN  /\ At(t, "write") => Clean(Mine(t))
        /\ At(t, "read") /\ call[t].kind = "line" =>
             \/ c.unread
             \/ c.owes = <<id>> /\ c.inbox = <<>>
             \/ c.owes = <<>> /\ c.inbox \in {<<>>, <<id>>, <<id, 0>>}
        /\ At(t, "join") /\ call[t].err = "" /\ call[t].poolable => Clean(Mine(t))
        /\ At(t, "join") /\ call[t].err = "" /\ call[t].kind = "line" =>
             call[t].reply = id \/ c.unread

Answers ==
    /\ \A c \in Conns : c \in Idling \/ conn[c].ours = "none" => Clean(c)
    /\ \A t \in Threads : AnswerOf(t)

IInv == Shapes /\ Attempts /\ Owners /\ Answers

-----------------------------------------------------------------------------
\* What is in a sequence of distinct elements when its head is taken off.
LEMMA TailSet ==
    ASSUME NEW S, NEW q \in Seq(S), q # <<>>, IsInjective(q)
    PROVE  /\ Head(q) \in S /\ Head(q) \in Range(q)
           /\ Tail(q) \in Seq(S) /\ Len(Tail(q)) = Len(q) - 1
           /\ Range(Tail(q)) = Range(q) \ {Head(q)}
           /\ IsInjective(Tail(q))
  <1>1. /\ Len(q) \in Nat /\ Len(q) > 0 /\ DOMAIN q = 1 .. Len(q)
        /\ Head(q) = q[1]
        /\ Tail(q) \in Seq(S) /\ Len(Tail(q)) = Len(q) - 1
        /\ DOMAIN Tail(q) = 1 .. Len(q) - 1
        /\ \A i \in 1 .. Len(q) - 1 : Tail(q)[i] = q[i + 1]
    BY HeadTailProperties, LenProperties
  <1>2. \A a, b \in 1 .. Len(q) : q[a] = q[b] => a = b
    BY <1>1 DEF IsInjective
  <1>3. IsInjective(Tail(q))
    BY <1>1, <1>2 DEF IsInjective
  <1>4. Range(Tail(q)) \subseteq Range(q) \ {Head(q)}
    BY <1>1, <1>2 DEF Range
  <1>5. ASSUME NEW x \in Range(q) \ {Head(q)} PROVE x \in Range(Tail(q))
    <2>1. PICK i \in 1 .. Len(q) : x = q[i]
      BY <1>1 DEF Range
    <2>2. i - 1 \in 1 .. Len(q) - 1 /\ (i - 1) + 1 = i
      BY <1>1, <1>5, <2>1
    <2> QED BY <1>1, <2>1, <2>2, Zenon DEF Range
  <1>6. Head(q) \in S /\ Head(q) \in Range(q)
    BY <1>1 DEF Range
  <1> QED BY <1>1, <1>3, <1>4, <1>5, <1>6

\* What is in a sequence of distinct elements when a new one is appended.
LEMMA AppendSet ==
    ASSUME NEW S, NEW q \in Seq(S), NEW c \in S, c \notin Range(q), IsInjective(q)
    PROVE  /\ Append(q, c) \in Seq(S) /\ Len(Append(q, c)) = Len(q) + 1
           /\ Range(Append(q, c)) = Range(q) \cup {c}
           /\ IsInjective(Append(q, c))
  <1>1. /\ Len(q) \in Nat /\ DOMAIN q = 1 .. Len(q)
        /\ Append(q, c) \in Seq(S) /\ Len(Append(q, c)) = Len(q) + 1
        /\ DOMAIN Append(q, c) = 1 .. Len(q) + 1
        /\ \A i \in 1 .. Len(q) : Append(q, c)[i] = q[i]
        /\ Append(q, c)[Len(q) + 1] = c
    BY AppendProperties, LenProperties
  <1>2. \A i \in 1 .. Len(q) : q[i] \in Range(q)
    BY <1>1 DEF Range
  <1>3. Range(Append(q, c)) = Range(q) \cup {c}
    <2>1. Range(Append(q, c)) \subseteq Range(q) \cup {c}
      BY <1>1, <1>2 DEF Range
    <2>2. c \in Range(Append(q, c))
      BY <1>1 DEF Range
    <2>3. Range(q) \subseteq Range(Append(q, c))
      BY <1>1 DEF Range
    <2> QED BY <2>1, <2>2, <2>3
  <1>4. IsInjective(Append(q, c))
    <2>1. \A a, b \in 1 .. Len(q) : q[a] = q[b] => a = b
      BY <1>1 DEF IsInjective
    <2> QED BY <1>1, <1>2, <2>1 DEF IsInjective
  <1> QED BY <1>1, <1>3, <1>4

\* An answer, and what the peer sent along.
LEMMA AnswerAndMore ==
    ASSUME NEW n \in Nat
    PROVE  <<>> \o <<n>> = <<n>> /\ <<n>> \o <<0>> = <<n, 0>>
  <1> DEFINE s == <<n>> \o <<0>>
  <1>1. <<n>> \in Seq(Nat) /\ <<0>> \in Seq(Nat) /\ <<n, 0>> \in Seq(Nat)
    OBVIOUS
  <1>2. s \in Seq(Nat) /\ Len(s) = 2 /\ s[1] = n /\ s[2] = 0
    BY <1>1, ConcatProperties
  <1> HIDE DEF s
  <1>3. Len(<<n, 0>>) = 2 /\ <<n, 0>>[1] = n /\ <<n, 0>>[2] = 0
    OBVIOUS
  <1>4. s = <<n, 0>>
    BY <1>1, <1>2, <1>3, SeqEqual
  <1> QED BY <1>4 DEF s

\* The records that calls and connections start from.
LEMMA Blank ==
    Assumptions =>
        /\ NoCall \in CallRecord /\ NoCall.pc = "idle" /\ NoCall.conn = NoConn
        /\ Unused \in ConnRecord /\ Unused.ours = "none"
  BY DEF Unused, NoCall, ConnRecord, CallRecord, Errors, Assumptions

\* The initial state satisfies the invariant.
LEMMA InitInv == Assumptions /\ Init => IInv
  <1> SUFFICES ASSUME Assumptions, Init PROVE IInv
    OBVIOUS
  <1>2. pool \in Seq(Conns) /\ Len(pool) = 0 /\ Range(pool) = {} /\ IsInjective(pool)
    BY DEF Init, Range, IsInjective
  <1>3. Shapes
    <2>1. conn \in [Conns -> ConnRecord] /\ call \in [Threads -> CallRecord]
      BY Blank DEF Init
    <2>2. calls \in 0 .. MaxCalls /\ watch \in [Threads -> {"on", "off"}] /\ Len(pool) <= PoolSize
      BY <1>2 DEF Init, Assumptions
    <2>3. closer \in {"open", "drain", "done"} /\ closed = (closer # "open")
      BY Zenon DEF Init
    <2> QED BY <1>2, <2>1, <2>2, <2>3 DEF Shapes
  <1>4. Attempts
    BY Blank, Zenon DEF Init, Attempts, Using, Mine, At
  <1>5. Owners
    <2>1. Held = {} /\ \A s \in Threads : Mine(s) = NoConn /\ ~Using(s)
      BY Blank DEF Init, Held, Mine, Using
    <2> QED BY Blank, <1>2, <2>1 DEF Init, Owners, Idling
  <1>6. Answers
    BY Blank, <1>2, Zenon DEF Init, Answers, AnswerOf, Idling, At, Clean, Unused
  <1> QED BY <1>3, <1>4, <1>5, <1>6 DEF IInv

\* Idle connections are connections, and so are the ones in use, which are not idle.
LEMMA IdleConns == ASSUME Shapes PROVE Idling \subseteq Conns
  <1>1. \A i \in DOMAIN pool : pool[i] \in Conns
    BY ElementOfSeq, LenProperties DEF Shapes
  <1> QED BY <1>1 DEF Idling, Range

\* The connection that a call works on is not in the pool.
LEMMA Usable ==
    ASSUME IInv, NEW t \in Threads, Using(t)
    PROVE  Mine(t) \in Conns \ Idling /\ Mine(t) \in Held
  <1>1. call[t] \in CallRecord /\ Mine(t) # NoConn /\ Mine(t) \notin Idling
    BY Zenon DEF IInv, Shapes, Attempts, Owners
  <1>2. Mine(t) \in Conns \cup {NoConn}
    BY <1>1, Zenon DEF CallRecord, Mine
  <1> QED BY <1>1, <1>2 DEF Held

\* A call that does not move keeps its answer when its connection is left alone.
LEMMA AnswerKept ==
    ASSUME NEW t \in Threads, AnswerOf(t), call'[t] = call[t],
           Using(t) => conn'[Mine(t)] = conn[Mine(t)]
    PROVE  AnswerOf(t)'
  BY Zenon DEF AnswerOf, Using, At, Mine, Clean

\* A call begins, waits or ends: it has no connection before or after.
LEMMA OutsideStep ==
    ASSUME Assumptions, IInv, NEW t \in Threads,
           \/ \E kind \in {"send", "all", "line"} : Begin(t, kind)
           \/ Backoff(t) \/ End(t)
    PROVE  IInv'
  <1> USE DEF IInv, At, Mine
  <1> DEFINE Outside(r) == /\ r \in CallRecord /\ r.conn = NoConn
                           /\ r.pc \in {"idle", "get"} \/ (r.pc = "end" /\ r.err # "")
  <1>1. /\ UNCHANGED <<conn, pool, closed, closer, watch>>
        /\ calls' \in 0 .. MaxCalls
        /\ call[t].pc \in {"idle", "backoff", "end"}
    <2>1. calls \in Nat /\ (calls < MaxCalls => calls + 1 \in 0 .. MaxCalls)
      BY DEF Shapes, Assumptions
    <2> QED BY <2>1, Zenon DEF Begin, Backoff, End, Shapes
  <1>2. call[t] \in CallRecord /\ call[t].conn = NoConn
    BY <1>1, Zenon DEF Shapes, Attempts, Using
  <1>3. \E r : Outside(r) /\ call' = [call EXCEPT ![t] = r]
    <2>1. ASSUME NEW kind \in {"send", "all", "line"}, Begin(t, kind)
          PROVE  \E r : Outside(r) /\ call' = [call EXCEPT ![t] = r]
      <3>1. calls + 1 \in Nat
        BY DEF Shapes, Assumptions
      <3>2. /\ Outside([NoCall EXCEPT !.pc = "get", !.id = calls + 1, !.kind = kind])
            /\ Outside([NoCall EXCEPT !.pc = "end", !.id = calls + 1, !.kind = kind,
                                      !.err = "rejected"])
        <4>1. kind \in {"", "send", "all", "line"}
          BY Zenon
        <4> QED BY <3>1, <4>1, Blank, Zenon DEF CallRecord, Errors
      <3> QED BY <2>1, <3>2, Zenon DEF Begin
    <2>2. CASE Backoff(t)
      <3>1. call[t].attempt < RetryMax /\ call[t].err # ""
        BY <2>2, Zenon DEF Backoff, Attempts
      <3>2. /\ Outside([call[t] EXCEPT !.pc = "get", !.attempt = @ + 1, !.err = ""])
            /\ Outside([call[t] EXCEPT !.pc = "end"])
        <4>1. call[t].attempt \in 0 .. RetryMax
          BY <1>2, Zenon DEF CallRecord
        <4>2. RetryMax \in Nat
          BY DEF Assumptions
        <4>3. call[t].attempt < RetryMax
          BY <3>1, Zenon
        <4>4. call[t].attempt + 1 \in 0 .. RetryMax
          BY <4>1, <4>2, <4>3
        <4> QED BY <1>2, <3>1, <4>4, Zenon DEF CallRecord, Errors
      <3> HIDE DEF Outside
      <3> QED BY <2>2, <3>2, Zenon DEF Backoff, Goto, Shapes
    <2>3. CASE End(t)
      <3>1. Outside(NoCall)
        BY Blank, Zenon
      <3> QED BY <2>3, <3>1, Zenon DEF End
    <2> QED BY <2>1, <2>2, <2>3, Zenon
  <1>4. PICK r : Outside(r) /\ call' = [call EXCEPT ![t] = r]
    BY <1>3, Zenon
  <1>5. /\ call' \in [Threads -> CallRecord] /\ call'[t] = r
        /\ \A s \in Threads \ {t} : call'[s] = call[s]
    BY <1>4, Zenon DEF Shapes
  <1>6. Shapes'
    BY <1>1, <1>5 DEF Shapes
  <1>7. Attempts'
    BY <1>1, <1>2, <1>4, <1>5, Zenon DEF Attempts, Using
  <1>8. \A s \in Threads : call'[s].conn = call[s].conn
    BY <1>2, <1>4, <1>5, Zenon
  <1>9. Owners'
    <2>1. \A s \in Threads : Using(s)' => s # t
      BY <1>4, <1>5, Zenon DEF Using
    <2> QED BY <1>1, <1>5, <1>8, <2>1 DEF Owners, Idling, Held, Using
  <1>10. Answers'
    <2>1. \A s \in Threads \ {t} : AnswerOf(s)'
      BY <1>1, <1>5, AnswerKept DEF Answers
    <2>2. AnswerOf(t)'
      BY <1>4, <1>5, Zenon DEF AnswerOf
    <2> QED BY <1>1, <2>1, <2>2 DEF Answers, Idling, Clean
  <1> QED BY <1>6, <1>7, <1>9, <1>10

\* An idle connection is closed: it expired, or Close drains the pool.
LEMMA DiscardHead ==
    ASSUME Assumptions, IInv, pool # <<>>, pool' = Tail(pool), conn' = Discard(Head(pool)),
           UNCHANGED <<closed, closer, call, watch, calls>>
    PROVE  IInv'
  <1> USE DEF IInv, At, Mine
  <1> DEFINE h == Head(pool)
  <1>1. /\ h \in Conns /\ h \in Idling /\ pool' \in Seq(Conns) /\ Len(pool') <= PoolSize
        /\ Idling' = Idling \ {h} /\ IsInjective(pool')
    <2>1. /\ h \in Conns /\ h \in Idling /\ pool' \in Seq(Conns) /\ Len(pool') = Len(pool) - 1
          /\ Idling' = Idling \ {h} /\ IsInjective(pool')
      BY TailSet DEF Shapes, Owners, Idling
    <2>2. Len(pool) \in Nat /\ Len(pool) <= PoolSize
      BY LenProperties DEF Shapes
    <2>3. Len(pool') <= PoolSize
      BY <2>1, <2>2 DEF Assumptions
    <2> QED BY <2>1, <2>3
  <1> HIDE DEF h
  <1>2. /\ conn' \in [Conns -> ConnRecord]
        /\ conn'[h] = Unused /\ \A c \in Conns \ {h} : conn'[c] = conn[c]
    BY <1>1, Blank DEF Discard, Shapes, h
  <1>3. Shapes'
    BY <1>1, <1>2 DEF Shapes
  <1>4. Attempts'
    BY Zenon DEF Attempts, Using
  <1>5. Held' = Held /\ h \notin Held
    BY <1>1 DEF Owners, Held
  <1>6. Owners'
    <2>1. closer' = "done" => pool' = <<>>
      BY DEF Owners
    <2>2. /\ \A s \in Threads : call'[s].conn \notin Idling'
          /\ \A s, u \in Threads : s # u /\ call'[s].conn # NoConn => call'[s].conn # call'[u].conn
      BY <1>1 DEF Owners
    <2>3. \A c \in Idling' : conn'[c].ours = "open"
      BY <1>1, <1>2, IdleConns DEF Owners
    <2>4. \A c \in Conns : conn'[c].ours # "none" <=> c \in Held' \cup Idling'
      BY <1>1, <1>2, <1>5, Blank DEF Owners
    <2>5. \A s \in Threads : Using(s)' => conn'[Mine(s)'].ours = "open" \/ call'[s].done
      BY <1>1, <1>2, Usable DEF Owners, Using
    <2> QED BY <1>1, <2>1, <2>2, <2>3, <2>4, <2>5 DEF Owners
  <1>7. Answers'
    <2>1. \A s \in Threads : Using(s) => Mine(s) \in Conns \ {h}
      BY <1>1, Usable
    <2>2. \A s \in Threads : AnswerOf(s)'
      BY <1>2, <2>1, AnswerKept DEF Answers
    <2>3. Unused.owes = <<>> /\ Unused.inbox = <<>>
      BY DEF Unused
    <2> QED BY <1>1, <1>2, <2>2, <2>3 DEF Answers, Clean
  <1> QED BY <1>3, <1>4, <1>6, <1>7

\* A call gets a connection that nobody else has and that is clean: one from the
\* pool, or a new one.
LEMMA TakeConn ==
    ASSUME Assumptions, IInv, NEW t \in Threads, At(t, "get"), NEW c \in Conns, Use(t, c),
           c \notin Held, Clean(c),
           conn' \in [Conns -> ConnRecord], conn'[c].ours = "open", Clean(c)',
           \A d \in Conns \ {c} : conn'[d] = conn[d],
           pool' \in Seq(Conns), Len(pool') <= PoolSize, IsInjective(pool'),
           Idling' = Idling \ {c}, pool = <<>> => pool' = <<>>,
           UNCHANGED <<closed, closer, calls>>
    PROVE  IInv'
  <1> USE DEF IInv, At, Mine
  <1> DEFINE r == [call[t] EXCEPT !.pc = "write", !.conn = c, !.poolable = TRUE]
  <1>1. call[t] \in CallRecord /\ ~Using(t) /\ call[t].conn = NoConn
    BY Zenon DEF Shapes, Attempts, Using
  <1>2. r \in CallRecord /\ r.pc = "write" /\ r.conn = c
    BY <1>1, Zenon DEF CallRecord
  <1>3. call' = [call EXCEPT ![t] = r]
    BY Zenon DEF Use, Shapes
  <1> HIDE DEF r
  <1>4. /\ call' \in [Threads -> CallRecord] /\ call'[t] = r
        /\ \A s \in Threads \ {t} : call'[s] = call[s]
    BY <1>2, <1>3 DEF Shapes
  <1>5. /\ watch' \in [Threads -> {"on", "off"}]
        /\ \A s \in Threads \ {t} : watch'[s] = watch[s]
    BY DEF Use, Shapes
  <1>6. c # NoConn
    BY DEF Assumptions
  <1>7. \A s \in Threads \ {t} : Using(s) => Mine(s) \in Conns \ {c}
    BY Usable DEF Held
  <1>8. Held' = Held \cup {c}
    BY <1>1, <1>2, <1>4, <1>6 DEF Held
  <1>9. Shapes'
    BY <1>4, <1>5 DEF Shapes
  <1>10. Attempts'
    BY <1>2, <1>4, <1>5, <1>6, ZenonT(30) DEF Attempts, Using
  <1>11. Owners'
    <2>1. closer' = "done" => pool' = <<>>
      BY DEF Owners
    <2>2. \A s \in Threads \ {t} : Mine(s) # c
      BY <1>6 DEF Held
    <2>3. \A s, u \in Threads : s # u /\ Mine(s)' # NoConn => Mine(s)' # Mine(u)'
      BY <1>2, <1>4, <1>6, <2>2 DEF Owners
    <2>4. \A s \in Threads : Mine(s)' \notin Idling'
      BY <1>2, <1>4 DEF Owners
    <2>5. \A d \in Idling' : conn'[d].ours = "open"
      BY IdleConns DEF Owners
    <2>6. \A s \in Threads : Using(s)' => conn'[Mine(s)'].ours = "open" \/ call'[s].done
      BY <1>2, <1>4, <1>7 DEF Owners, Using
    <2>7. \A d \in Conns : conn'[d].ours # "none" <=> d \in Held' \cup Idling'
      BY <1>8 DEF Owners
    <2> QED BY <2>1, <2>3, <2>4, <2>5, <2>6, <2>7 DEF Owners
  <1>12. Answers'
    <2>1. \A s \in Threads \ {t} : AnswerOf(s)'
      BY <1>4, <1>7, AnswerKept DEF Answers
    <2>2. AnswerOf(t)'
      BY <1>2, <1>4, Zenon DEF AnswerOf, Clean
    <2>3. \A d \in Conns : d \in Idling' \/ conn'[d].ours = "none" => Clean(d)'
      BY Zenon DEF Answers, Clean
    <2> QED BY <2>1, <2>2, <2>3 DEF Answers
  <1> QED BY <1>9, <1>10, <1>11, <1>12

\* get, with an idle connection.
LEMMA CheckoutStep ==
    ASSUME Assumptions, IInv, NEW t \in Threads, Checkout(t)
    PROVE  IInv'
  <1>1. pool # <<>> /\ pool' = Tail(pool) /\ At(t, "get") /\ UNCHANGED <<closed, closer, calls>>
    BY DEF Checkout
  <1>2. PICK h \in Conns : h = Head(pool)
    BY <1>1, TailSet DEF IInv, Shapes, Owners
  <1>3. CASE Use(t, h) /\ UNCHANGED conn
    <2>1. /\ h \in Idling /\ pool' \in Seq(Conns) /\ Len(pool') = Len(pool) - 1
          /\ Idling' = Idling \ {h} /\ IsInjective(pool')
      BY <1>1, <1>2, TailSet DEF IInv, Shapes, Owners, Idling
    <2>2. Len(pool) \in Nat /\ Len(pool) <= PoolSize
      BY LenProperties DEF IInv, Shapes
    <2>3. Len(pool') <= PoolSize
      BY <2>1, <2>2 DEF Assumptions
    <2>4. conn \in [Conns -> ConnRecord] /\ conn[h].ours = "open" /\ h \notin Held /\ Clean(h)
      BY <2>1 DEF IInv, Shapes, Owners, Answers, Held
    <2>5. Clean(h)'
      BY <1>3, <2>4 DEF Clean
    <2> QED BY <1>1, <1>3, <2>1, <2>3, <2>4, <2>5, TakeConn
  <1>4. CASE conn' = Discard(h) /\ UNCHANGED <<call, watch>>
    BY <1>1, <1>2, <1>4, DiscardHead
  <1> QED BY <1>2, <1>3, <1>4 DEF Checkout

\* What DoWithRetry's decision makes of the call.
LEMMA DecideCall ==
    ASSUME Assumptions, IInv, NEW t \in Threads, NEW e \in Errors, Decide(t, e)
    PROVE  /\ call' \in [Threads -> CallRecord]
           /\ \A s \in Threads \ {t} : call'[s] = call[s]
           /\ call'[t].conn = NoConn /\ call'[t].err = e /\ call'[t].kind = call[t].kind
           /\ call'[t].id = call[t].id /\ call'[t].reply = call[t].reply
           /\ \/ call'[t].pc = "end"
              \/ call'[t].pc = "backoff" /\ e # "" /\ call'[t].attempt < RetryMax
  <1> DEFINE again == ShouldRetry(e) /\ call[t].attempt < RetryMax
             r == [call[t] EXCEPT !.pc = IF again THEN "backoff" ELSE "end", !.conn = NoConn,
                                  !.poolable = TRUE, !.err = e]
  <1>1. call[t] \in CallRecord
    BY DEF IInv, Shapes
  <1>2. call' = [call EXCEPT ![t] = r]
    BY Zenon DEF Decide, IInv, Shapes
  <1>4. /\ r \in CallRecord
        /\ r.conn = NoConn /\ r.err = e /\ r.kind = call[t].kind /\ r.id = call[t].id
        /\ r.reply = call[t].reply /\ r.attempt = call[t].attempt
        /\ r.pc = IF again THEN "backoff" ELSE "end"
    <2> HIDE DEF again
    <2> QED BY <1>1, Zenon DEF CallRecord
  <1>5. again => e # "" /\ call[t].attempt < RetryMax
    BY Zenon DEF ShouldRetry
  <1> HIDE DEF again, r
  <1> QED BY <1>2, <1>4, <1>5, Zenon DEF IInv, Shapes

\* get: no idle connection.
LEMMA DialStep ==
    ASSUME Assumptions, IInv, NEW t \in Threads, Dial(t)
    PROVE  IInv'
  <1>1. At(t, "get") /\ pool = <<>> /\ UNCHANGED <<pool, closed, closer, calls>>
    BY DEF Dial
  <1>2. ASSUME NEW c \in Conns, conn[c].ours = "none", conn' = [conn EXCEPT ![c].ours = "open"],
               Use(t, c)
        PROVE  IInv'
    <2>1. /\ conn' \in [Conns -> ConnRecord] /\ conn'[c].ours = "open"
          /\ conn'[c].owes = conn[c].owes /\ conn'[c].inbox = conn[c].inbox
          /\ conn'[c].unread = conn[c].unread
          /\ \A d \in Conns \ {c} : conn'[d] = conn[d]
      BY <1>2, Zenon DEF IInv, Shapes, ConnRecord
    <2>2. c \notin Held /\ c \notin Idling /\ Clean(c)
      BY <1>2 DEF IInv, Owners, Answers
    <2>3. Clean(c)'
      BY <2>1, <2>2 DEF Clean
    <2>4. /\ pool' \in Seq(Conns) /\ Len(pool') <= PoolSize /\ IsInjective(pool')
          /\ Idling' = Idling \ {c}
      BY <1>1, <2>2 DEF IInv, Shapes, Owners, Idling
    <2> QED BY <1>1, <1>2, <2>1, <2>2, <2>3, <2>4, TakeConn
  <1>3. ASSUME NEW e \in {"ctx", "net"}, Decide(t, e), UNCHANGED <<conn, watch>>
        PROVE  IInv'
    <2> USE DEF At, Mine
    <2>1. ~Using(t) /\ call[t].conn = NoConn
      BY <1>1, Zenon DEF IInv, Attempts, Using
    <2>2. /\ call' \in [Threads -> CallRecord]
          /\ \A s \in Threads \ {t} : call'[s] = call[s]
          /\ call'[t].conn = NoConn /\ call'[t].err # ""
          /\ \/ call'[t].pc = "end"
             \/ call'[t].pc = "backoff" /\ call'[t].attempt < RetryMax
      <3>1. e \in Errors
        BY Zenon DEF Errors
      <3> QED BY <1>3, <3>1, DecideCall, Zenon
    <2>3. Shapes'
      BY <1>1, <1>3, <2>2, Zenon DEF IInv, Shapes
    <2>4. Attempts'
      BY <1>3, <2>1, <2>2, Zenon DEF IInv, Attempts, Using
    <2>5. Held' = Held /\ Idling' = Idling /\ \A s \in Threads : Mine(s)' = Mine(s)
      BY <1>1, <2>1, <2>2, ZenonT(30) DEF Held, Idling
    <2>6. Owners'
      <3>1. \A s \in Threads : Using(s)' => Using(s) /\ call'[s] = call[s]
        BY <2>2, Zenon DEF Using
      <3> QED BY <1>1, <1>3, <2>5, <3>1 DEF IInv, Owners
    <2>7. AnswerOf(t)' /\ \A s \in Threads \ {t} : AnswerOf(s)'
      BY <1>3, <2>2, AnswerKept, Zenon DEF IInv, Answers, AnswerOf
    <2>8. Answers'
      BY <1>3, <2>5, <2>7 DEF IInv, Answers, Clean
    <2> QED BY <2>3, <2>4, <2>6, <2>8 DEF IInv
  <1> QED BY <1>2, <1>3 DEF Dial

\* After an attempt its connection is closed, or returned to the pool, clean and
\* open, since its watcher is gone and ctx was not done.
LEMMA JoinStep ==
    ASSUME Assumptions, IInv, NEW t \in Threads, Join(t)
    PROVE  IInv'
  <1> USE DEF At, Mine
  <1>1. /\ Using(t) /\ call[t].pc = "join" /\ watch[t] = "off"
        /\ UNCHANGED <<closed, closer, watch, calls>>
    BY Zenon DEF Join, Using
  <1>2. PICK c \in Conns \ Idling : c = call[t].conn /\ c \in Held
    BY <1>1, Usable
  <1>3. PICK e \in Errors : Decide(t, e) /\ (e = "" => call[t].err = "")
    <2>1. call[t] \in CallRecord
      BY DEF IInv, Shapes
    <2>2. call[t].err \in Errors /\ "ctx" \in Errors
      BY <2>1, Zenon DEF CallRecord, Errors
    <2> QED BY <2>2, Zenon DEF Join
  <1>4. /\ call' \in [Threads -> CallRecord]
        /\ \A s \in Threads \ {t} : call'[s] = call[s]
        /\ call'[t].conn = NoConn /\ call'[t].err = e /\ call'[t].kind = call[t].kind
        /\ call'[t].id = call[t].id /\ call'[t].reply = call[t].reply
        /\ \/ call'[t].pc = "end"
           \/ call'[t].pc = "backoff" /\ e # "" /\ call'[t].attempt < RetryMax
    BY <1>3, DecideCall, Zenon
  <1>5. \/ conn' = Discard(c) /\ pool' = pool
        \/ /\ pool' = Append(pool, c) /\ conn' = conn
           /\ ~closed /\ Len(pool) < PoolSize /\ Clean(c) /\ conn[c].ours = "open"
    <2>1. Len(pool) \in Nat /\ PoolSize \in Nat
      BY LenProperties DEF Assumptions, IInv, Shapes
    <2>2. CASE call[t].err # "" \/ ~call[t].poolable \/ call[t].done
      BY <1>2, <2>2, Zenon DEF Join
    <2>3. CASE ~(call[t].err # "" \/ ~call[t].poolable \/ call[t].done)
      <3>1. Clean(c) /\ conn[c].ours = "open"
        BY <1>1, <1>2, <2>3, Zenon DEF IInv, Owners, Answers, AnswerOf
      <3>2. Put(c)
        BY <1>2, <2>3, Zenon DEF Join
      <3> QED BY <2>1, <3>1, <3>2 DEF Put
    <2> QED BY <2>2, <2>3, Zenon
  <1>6. \A s \in Threads \ {t} : call[s].conn # c /\ (Using(s) => call[s].conn \in Conns \ {c})
    BY <1>2, Usable, NoConn \notin Conns DEF IInv, Owners, Assumptions
  <1> DEFINE ConnOf(s) == call[s].conn
  <1>7. c # NoConn /\ \A s \in Threads : ConnOf(s)' = IF s = t THEN NoConn ELSE ConnOf(s)
    BY <1>2, <1>4, Zenon DEF Assumptions
  <1>8. /\ pool' \in Seq(Conns) /\ Len(pool') <= PoolSize /\ IsInjective(pool')
        /\ closer' = "done" => pool' = <<>>
        /\ Idling' \subseteq Idling \cup {c} /\ Idling \subseteq Idling'
        /\ conn' \in [Conns -> ConnRecord]
        /\ \A d \in Conns \ {c} : conn'[d] = conn[d]
        /\ c \in Idling' => conn'[c].ours = "open" /\ Clean(c)'
        /\ c \notin Idling' => conn'[c] = Unused
    <2>1. Len(pool) \in Nat /\ PoolSize \in Nat
      BY LenProperties DEF Assumptions, IInv, Shapes
    <2>2. CASE conn' = Discard(c) /\ pool' = pool
      BY <1>1, <1>2, <2>2, Blank DEF IInv, Shapes, Owners, Idling, Discard
    <2>3. CASE /\ pool' = Append(pool, c) /\ conn' = conn
               /\ ~closed /\ Len(pool) < PoolSize /\ Clean(c) /\ conn[c].ours = "open"
      <3>1. /\ pool' \in Seq(Conns) /\ Len(pool') = Len(pool) + 1
            /\ Idling' = Idling \cup {c} /\ IsInjective(pool')
        BY <1>2, <2>3, AppendSet DEF IInv, Shapes, Owners, Idling
      <3>2. closer' # "done"
        BY <1>1, <2>3, Zenon DEF IInv, Shapes
      <3>3. Clean(c)'
        BY <2>3 DEF Clean
      <3>4. Len(pool') <= PoolSize
        BY <2>1, <2>3, <3>1
      <3> QED BY <2>3, <3>1, <3>2, <3>3, <3>4 DEF IInv, Shapes
    <2> QED BY <1>5, <2>2, <2>3
  <1>9. Shapes'
    BY <1>1, <1>4, <1>8, Zenon DEF IInv, Shapes
  <1>10. Attempts'
    BY <1>1, <1>4, ZenonT(30) DEF IInv, Attempts, Using
  <1>11. Owners'
    <2>1. \A s, u \in Threads : s # u /\ ConnOf(s)' # NoConn => ConnOf(s)' # ConnOf(u)'
      BY <1>7 DEF IInv, Owners
    <2>2. NoConn \notin Idling'
      BY <1>2, <1>8, IdleConns DEF Assumptions, IInv
    <2>3. \A s \in Threads : ConnOf(s)' \notin Idling'
      BY <1>6, <1>7, <1>8, <2>2 DEF IInv, Owners
    <2>4. \A d \in Idling' : conn'[d].ours = "open"
      BY <1>8, IdleConns DEF IInv, Owners
    <2>5. \A s \in Threads : Using(s)' => conn'[ConnOf(s)'].ours = "open" \/ call'[s].done
      <3> SUFFICES ASSUME NEW s \in Threads, Using(s)'
                   PROVE  conn'[ConnOf(s)'].ours = "open" \/ call'[s].done
        OBVIOUS
      <3>1. s # t /\ call'[s] = call[s] /\ Using(s)
        BY <1>4, Zenon DEF Using
      <3>2. conn[call[s].conn].ours = "open" \/ call[s].done
        BY <3>1 DEF IInv, Owners
      <3>3. call[s].conn \in Conns \ {c}
        BY <1>6, <3>1
      <3> QED BY <1>8, <3>1, <3>2, <3>3
    <2>6. Held' = Held \ {c}
      BY <1>2, <1>6, <1>7 DEF Held
    <2>7. \A d \in Conns : conn'[d].ours # "none" <=> d \in Held' \cup Idling'
      BY <1>8, <2>6, Blank DEF IInv, Owners
    <2> QED BY <1>8, <2>1, <2>3, <2>4, <2>5, <2>7, Zenon DEF Owners
  <1>12. Answers'
    <2>1. \A s \in Threads \ {t} : AnswerOf(s)'
      BY <1>4, <1>6, <1>8, AnswerKept, Zenon DEF IInv, Answers
    <2>2. AnswerOf(t)'
      BY <1>1, <1>3, <1>4, Zenon DEF IInv, Answers, AnswerOf
    <2>3. Unused.owes = <<>> /\ Unused.inbox = <<>>
      BY DEF Unused
    <2>4. \A d \in Conns : d \in Idling' \/ conn'[d].ours = "none" => Clean(d)'
      BY <1>8, <2>3 DEF IInv, Answers, Clean
    <2> QED BY <2>1, <2>2, <2>4 DEF Answers
  <1> QED BY <1>9, <1>10, <1>11, <1>12 DEF IInv

\* A step of an attempt, or of its watcher, keeps the connection that the call
\* has, if any, and touches no other.
LEMMA InsideStep ==
    ASSUME Assumptions, IInv, NEW t \in Threads,
           call' \in [Threads -> CallRecord], \A s \in Threads \ {t} : call'[s] = call[s],
           call'[t].conn = call[t].conn, call'[t].attempt = call[t].attempt,
           \/ call'[t].pc = call[t].pc /\ call'[t].err = call[t].err
           \/ Using(t) /\ call'[t].pc \in {"read", "join"},
           conn' \in [Conns -> ConnRecord],
           \A d \in Conns : ~Using(t) \/ d # Mine(t) => conn'[d] = conn[d],
           Using(t) => /\ conn'[Mine(t)].ours # "none"
                       /\ conn'[Mine(t)].ours = "open" \/ call'[t].done,
           AnswerOf(t)',
           watch' \in [Threads -> {"on", "off"}],
           \A s \in Threads : watch'[s] = "on" => watch[s] = "on",
           UNCHANGED <<pool, closed, closer, calls>>
    PROVE  IInv'
  <1> USE DEF At
  <1> DEFINE ConnOf(s) == call[s].conn
  <1>1. \A s \in Threads : ConnOf(s)' = ConnOf(s) /\ (Using(s)' <=> Using(s))
    BY DEF Using
  <1>2. Held' = Held /\ Idling' = Idling
    BY <1>1 DEF Held, Idling, Mine
  <1>3. \A s \in Threads \ {t} : Using(s) => /\ ConnOf(s) \in Conns
                                             /\ conn'[ConnOf(s)] = conn[ConnOf(s)]
    <2> SUFFICES ASSUME NEW s \in Threads \ {t}, Using(s)
                 PROVE  ConnOf(s) \in Conns /\ conn'[ConnOf(s)] = conn[ConnOf(s)]
      OBVIOUS
    <2>1. ConnOf(s) \in Conns
      BY Usable DEF Mine
    <2>2. ~Using(t) \/ ConnOf(s) # ConnOf(t)
      BY <2>1 DEF Assumptions, IInv, Owners, Mine
    <2> QED BY <2>1, <2>2 DEF Mine
  <1>4. Shapes'
    BY DEF IInv, Shapes
  <1>5. Attempts'
    <2>1. ASSUME NEW s \in Threads, call'[s].pc = "backoff"
          PROVE  call'[s].attempt < RetryMax /\ call'[s].err # ""
      <3>1. /\ call[s].pc = "backoff"
            /\ call'[s].attempt = call[s].attempt /\ call'[s].err = call[s].err
        BY <2>1 DEF Using
      <3> QED BY <3>1, ZenonT(30) DEF IInv, Attempts
    <2> QED BY <1>1, <2>1, ZenonT(30) DEF IInv, Attempts, Mine
  <1>6. Owners'
    <2>1. \A d \in Idling : d \in Conns /\ conn'[d] = conn[d]
      BY IdleConns, Zenon DEF IInv, Owners
    <2>2. \A s \in Threads : Using(s)' => conn'[ConnOf(s)'].ours = "open" \/ call'[s].done
      BY <1>1, <1>3 DEF IInv, Owners, Mine
    <2>3. \A d \in Conns : conn'[d].ours # "none" <=> d \in Held' \cup Idling'
      <3> SUFFICES ASSUME NEW d \in Conns PROVE conn'[d].ours # "none" <=> conn[d].ours # "none"
        BY <1>2 DEF IInv, Owners
      <3>1. CASE ~Using(t) \/ d # Mine(t)
        BY <3>1
      <3>2. CASE Using(t) /\ d = Mine(t)
        BY <3>2, Usable DEF IInv, Owners
      <3> QED BY <3>1, <3>2
    <2>4. \A s, u \in Threads : s # u /\ ConnOf(s)' # NoConn => ConnOf(s)' # ConnOf(u)'
      BY <1>1 DEF IInv, Owners, Mine
    <2>5. \A s \in Threads : ConnOf(s)' \notin Idling'
      BY <1>1, <1>2 DEF IInv, Owners, Mine
    <2> QED BY <1>2, <2>1, <2>2, <2>3, <2>4, <2>5, ZenonT(30) DEF IInv, Owners, Mine
  <1>7. Answers'
    <2>1. \A s \in Threads \ {t} : AnswerOf(s)'
      BY <1>3, AnswerKept DEF IInv, Answers, Mine
    <2>2. ASSUME NEW d \in Conns, d \in Idling' \/ conn'[d].ours = "none" PROVE Clean(d)'
      <3>1. ~Using(t) \/ d # Mine(t)
        BY <1>2, <2>2, Usable
      <3> QED BY <1>2, <2>2, <3>1 DEF IInv, Answers, Clean
    <2> QED BY <2>1, <2>2 DEF Answers
  <1> QED BY <1>4, <1>5, <1>6, <1>7 DEF IInv

\* ctx fires, and the watcher acts on it or on the end of the attempt.
LEMMA WatchStep ==
    ASSUME Assumptions, IInv, NEW t \in Threads, CtxDone(t) \/ Watcher(t)
    PROVE  IInv'
  <1> USE DEF At, Mine
  <1>1. AnswerOf(t) /\ conn \in [Conns -> ConnRecord] /\ call \in [Threads -> CallRecord]
        /\ watch \in [Threads -> {"on", "off"}]
    BY DEF IInv, Shapes, Answers
  <1>2. Using(t) => conn[Mine(t)].ours # "none" /\ (conn[Mine(t)].ours = "open" \/ call[t].done)
    BY Usable DEF IInv, Owners
  <1>3. CASE CtxDone(t)
    <2>1. /\ UNCHANGED <<conn, pool, closed, closer, watch, calls>>
          /\ call' = [call EXCEPT ![t].done = TRUE]
      BY <1>3 DEF CtxDone
    <2>2. /\ call' \in [Threads -> CallRecord] /\ \A s \in Threads \ {t} : call'[s] = call[s]
          /\ call'[t] = [call[t] EXCEPT !.done = TRUE]
      <3>1. [call[t] EXCEPT !.done = TRUE] \in CallRecord
        BY <1>1, ZenonT(30) DEF CallRecord
      <3> QED BY <1>1, <2>1, <3>1
    <2>3. /\ call'[t].conn = call[t].conn /\ call'[t].attempt = call[t].attempt
          /\ call'[t].pc = call[t].pc /\ call'[t].err = call[t].err /\ call'[t].done
          /\ call'[t].id = call[t].id /\ call'[t].kind = call[t].kind
          /\ call'[t].poolable = call[t].poolable /\ call'[t].reply = call[t].reply
      <3>1. call[t] \in CallRecord
        BY <1>1
      <3> QED BY <2>2, <3>1, Zenon DEF CallRecord
    <2>4. AnswerOf(t)'
      BY <1>1, <2>1, <2>3, Zenon DEF AnswerOf, Clean
    <2> QED BY <1>1, <1>2, <2>1, <2>2, <2>3, <2>4, InsideStep, Zenon
  <1>4. CASE WatcherStops(t)
    <2>1. /\ UNCHANGED <<conn, pool, closed, closer, call, calls>>
          /\ watch' = [watch EXCEPT ![t] = "off"]
      BY <1>4 DEF WatcherStops
    <2>2. /\ watch' \in [Threads -> {"on", "off"}]
          /\ \A s \in Threads : watch'[s] = "on" => watch[s] = "on"
      BY <1>1, <2>1
    <2>3. AnswerOf(t)'
      BY <1>1, <2>1, Zenon DEF AnswerOf, Clean
    <2> QED BY <1>1, <1>2, <2>1, <2>2, <2>3, InsideStep
  <1>5. CASE WatcherCloses(t)
    <2>1. /\ UNCHANGED <<pool, closed, closer, call, calls>>
          /\ watch[t] = "on" /\ call[t].done /\ watch' = [watch EXCEPT ![t] = "off"]
          /\ conn' = [conn EXCEPT ![Mine(t)].ours = "closed"]
      BY <1>5 DEF WatcherCloses
    <2>2. /\ watch' \in [Threads -> {"on", "off"}]
          /\ \A s \in Threads : watch'[s] = "on" => watch[s] = "on"
      BY <1>1, <2>1
    <2>3. Using(t) /\ Mine(t) \in Conns
      BY <2>1, Usable, Zenon DEF IInv, Attempts
    <2>4. /\ conn' \in [Conns -> ConnRecord]
          /\ \A d \in Conns \ {Mine(t)} : conn'[d] = conn[d]
          /\ conn'[Mine(t)].ours = "closed" /\ conn'[Mine(t)].owes = conn[Mine(t)].owes
          /\ conn'[Mine(t)].inbox = conn[Mine(t)].inbox
          /\ conn'[Mine(t)].unread = conn[Mine(t)].unread
      BY <1>1, <2>1, <2>3, ZenonT(30) DEF ConnRecord
    <2>5. AnswerOf(t)'
      BY <1>1, <2>1, <2>4, Zenon DEF AnswerOf, Clean
    <2> QED BY <1>1, <2>1, <2>2, <2>3, <2>4, <2>5, InsideStep
  <1> QED BY <1>3, <1>4, <1>5 DEF Watcher

\* What the steps of an attempt leave of the call as it was.
SameCall(t, r) ==
    /\ r \in CallRecord /\ call' = [call EXCEPT ![t] = r]
    /\ r.conn = call[t].conn /\ r.attempt = call[t].attempt /\ r.done = call[t].done
    /\ r.id = call[t].id /\ r.kind = call[t].kind

\* An attempt's step that leaves the connection open or closed as it is.
LEMMA AttemptStep ==
    ASSUME Assumptions, IInv, NEW t \in Threads, Using(t), NEW r, SameCall(t, r),
           r.pc \in {"read", "join"}, NEW x \in ConnRecord, x.ours = conn[Mine(t)].ours,
           conn' = [conn EXCEPT ![Mine(t)] = x],
           AnswerOf(t)', UNCHANGED <<pool, closed, closer, watch, calls>>
    PROVE  IInv'
  <1>1. /\ conn \in [Conns -> ConnRecord] /\ call \in [Threads -> CallRecord]
        /\ watch \in [Threads -> {"on", "off"}]
    BY DEF IInv, Shapes
  <1>2. /\ Mine(t) \in Conns /\ conn[Mine(t)].ours # "none"
        /\ conn[Mine(t)].ours = "open" \/ call[t].done
    BY Usable DEF IInv, Owners
  <1>3. /\ conn' \in [Conns -> ConnRecord] /\ conn'[Mine(t)] = x
        /\ \A d \in Conns \ {Mine(t)} : conn'[d] = conn[d]
    BY <1>1, <1>2
  <1>4. /\ call' \in [Threads -> CallRecord] /\ call'[t] = r
        /\ \A s \in Threads \ {t} : call'[s] = call[s]
    BY <1>1 DEF SameCall
  <1>5. r.conn = call[t].conn /\ r.attempt = call[t].attempt /\ r.done = call[t].done
    BY DEF SameCall
  <1> QED BY <1>1, <1>2, <1>3, <1>4, <1>5, InsideStep

\* A write or a read fails, with an error that sends the call to its join.
LEMMA FailStep ==
    ASSUME Assumptions, IInv, NEW t \in Threads, Using(t), NEW e \in Errors \ {""},
           Fail(t, "join", e), UNCHANGED <<conn, pool, closed, closer, watch, calls>>
    PROVE  IInv'
  <1> DEFINE r == [call[t] EXCEPT !.pc = "join", !.err = e]
  <1>1. conn \in [Conns -> ConnRecord] /\ call \in [Threads -> CallRecord] /\ Mine(t) \in Conns
    BY Usable, Zenon DEF IInv, Shapes
  <1>2. /\ r \in CallRecord /\ r.pc = "join" /\ r.err = e
        /\ r.conn = call[t].conn /\ r.attempt = call[t].attempt /\ r.done = call[t].done
        /\ r.id = call[t].id /\ r.kind = call[t].kind
    <2>1. call[t] \in CallRecord
      BY <1>1, Zenon
    <2> QED BY <2>1, Zenon DEF CallRecord
  <1>3. call' = [call EXCEPT ![t] = r]
    BY <1>1, Zenon DEF Fail
  <1> HIDE DEF r
  <1>4. SameCall(t, r)
    BY <1>2, <1>3, Zenon DEF SameCall
  <1>5. AnswerOf(t)'
    BY <1>1, <1>2, <1>3, Zenon DEF AnswerOf, At
  <1>6. conn[Mine(t)] \in ConnRecord /\ conn' = [conn EXCEPT ![Mine(t)] = conn[Mine(t)]]
    BY <1>1, Zenon
  <1> QED BY <1>2, <1>4, <1>5, <1>6, AttemptStep, Zenon

\* The request is written.
LEMMA WriteStep ==
    ASSUME Assumptions, IInv, NEW t \in Threads, Write(t)
    PROVE  IInv'
  <1>1. Using(t) /\ call[t].pc = "write" /\ UNCHANGED <<pool, closed, closer, watch, calls>>
    BY DEF Write, Using, At
  <1>2. conn \in [Conns -> ConnRecord] /\ call \in [Threads -> CallRecord] /\ Mine(t) \in Conns
    BY <1>1, Usable DEF IInv, Shapes
  <1>3. ASSUME NEW e \in {"closed", "net"}, Fail(t, "join", e), UNCHANGED conn
        PROVE  IInv'
    BY <1>1, <1>3, FailStep, Zenon DEF Errors
  <1>4. ASSUME NEW answers \in {TRUE, call[t].kind # "send"},
               Goto(t, IF call[t].kind = "send" THEN "join" ELSE "read"),
               conn' = IF conn[Mine(t)].peer = "up" /\ answers
                       THEN [conn EXCEPT ![Mine(t)].owes = Append(@, call[t].id),
                                         ![Mine(t)].unread = @ \/ call[t].kind = "send"]
                       ELSE conn
        PROVE  IInv'
    <2> DEFINE c == conn[Mine(t)]
               x == conn'[Mine(t)]
               r == [call[t] EXCEPT !.pc = IF call[t].kind = "send" THEN "join" ELSE "read"]
    <2>1. Clean(Mine(t))
      BY <1>1, Zenon DEF IInv, Answers, AnswerOf, At
    <2>2. c \in ConnRecord /\ call[t] \in CallRecord
      BY <1>2
    <2>3. call[t].id \in Nat /\ c.owes \in Seq(Nat) /\ c.unread \in BOOLEAN
      BY <2>2, Zenon DEF CallRecord, ConnRecord
    <2>4. /\ x \in ConnRecord /\ x.ours = c.ours /\ conn' = [conn EXCEPT ![Mine(t)] = x]
          /\ \/ x.unread
             \/ /\ x.inbox = <<>>
                /\ x.owes = <<>> \/ (x.owes = <<call[t].id>> /\ call[t].kind # "send")
      <3> DEFINE owed == Append(c.owes, call[t].id)
                 odd == c.unread \/ call[t].kind = "send"
                 y == [c EXCEPT !.owes = owed, !.unread = odd]
      <3>1. CASE conn' = conn
        BY <1>2, <2>1, <2>2, <3>1 DEF Clean
      <3>2. CASE conn' = [conn EXCEPT ![Mine(t)].owes = owed, ![Mine(t)].unread = odd]
        <4>1. owed \in Seq(Nat) /\ odd \in BOOLEAN /\ (c.owes = <<>> => owed = <<call[t].id>>)
          <5>1. odd \in BOOLEAN
            BY Zenon
          <5>2. owed \in Seq(Nat)
            BY <2>3, AppendProperties
          <5>3. c.owes = <<>> => owed = <<call[t].id>>
            OBVIOUS
          <5> QED BY <5>1, <5>2, <5>3
        <4> HIDE DEF owed
        <4>2. /\ y \in ConnRecord /\ y.ours = c.ours /\ y.inbox = c.inbox /\ y.owes = owed
              /\ y.unread = odd
          BY <2>2, <4>1, Zenon DEF ConnRecord
        <4>3. conn' = [conn EXCEPT ![Mine(t)] = y]
          BY <1>2, <3>2, Zenon
        <4> HIDE DEF y
        <4>4. x = y
          BY <1>2, <4>3
        <4>5. ~odd => call[t].kind # "send" /\ c.owes = <<>> /\ c.inbox = <<>>
          BY <2>1, Zenon DEF Clean
        <4> QED BY <4>1, <4>2, <4>3, <4>4, <4>5, Zenon
      <3> QED BY <1>4, <3>1, <3>2
    <2>6. /\ r \in CallRecord
          /\ r.pc = IF call[t].kind = "send" THEN "join" ELSE "read"
          /\ r.conn = call[t].conn /\ r.attempt = call[t].attempt /\ r.done = call[t].done
          /\ r.id = call[t].id /\ r.kind = call[t].kind
      BY <2>2, Zenon DEF CallRecord
    <2>7. call' = [call EXCEPT ![t] = r]
      BY <1>2, <1>4 DEF Goto
    <2> HIDE DEF r
    <2>8. SameCall(t, r)
      BY <2>6, <2>7 DEF SameCall
    <2>9. AnswerOf(t)'
      <3>1. call'[t] = r /\ Mine(t)' = Mine(t) /\ conn'[Mine(t)] = x
        BY <1>2, <2>6, <2>7 DEF Mine
      <3> HIDE DEF x
      <3> QED BY <2>4, <2>6, <3>1, Zenon DEF AnswerOf, At, Clean
    <2> HIDE DEF x
    <2> QED BY <1>1, <2>4, <2>6, <2>8, <2>9, AttemptStep, Zenon
  <1> QED BY <1>3, <1>4 DEF Write

\* The answer is read, or the read fails.
LEMMA ReadStep ==
    ASSUME Assumptions, IInv, NEW t \in Threads, ReadLine(t) \/ ReadAll(t) \/ ReadFails(t)
    PROVE  IInv'
  <1>1. Using(t) /\ call[t].pc = "read" /\ UNCHANGED <<pool, closed, closer, watch, calls>>
    BY DEF ReadLine, ReadAll, ReadFails, Using, At
  <1>2. conn \in [Conns -> ConnRecord] /\ call \in [Threads -> CallRecord] /\ Mine(t) \in Conns
    BY <1>1, Usable DEF IInv, Shapes
  <1>3. CASE ReadFails(t)
    BY <1>1, <1>3, FailStep, Zenon DEF ReadFails, Errors
  <1>4. ASSUME NEW v \in Nat, NEW b \in BOOLEAN, NEW r,
               r = [call[t] EXCEPT !.pc = "join", !.reply = v, !.poolable = b],
               call' = [call EXCEPT ![t] = r],
               conn' = [conn EXCEPT ![Mine(t)].inbox = <<>>],
               conn[Mine(t)].unread \/ (/\ b => conn[Mine(t)].owes = <<>>
                                        /\ call[t].kind = "line" => v = call[t].id)
        PROVE  IInv'
    <2> DEFINE c == conn[Mine(t)]
               x == [c EXCEPT !.inbox = <<>>]
    <2>1. c \in ConnRecord /\ call[t] \in CallRecord
      BY <1>2
    <2>2. /\ x \in ConnRecord /\ x.ours = c.ours /\ x.inbox = <<>> /\ x.owes = c.owes
          /\ x.unread = c.unread
      <3>1. <<>> \in Seq(Nat)
        OBVIOUS
      <3> QED BY <2>1, <3>1, Zenon DEF ConnRecord
    <2>3. conn' = [conn EXCEPT ![Mine(t)] = x]
      BY <1>2, <1>4
    <2>4. /\ r \in CallRecord /\ r.pc = "join" /\ r.reply = v /\ r.poolable = b
          /\ r.conn = call[t].conn /\ r.attempt = call[t].attempt /\ r.done = call[t].done
          /\ r.id = call[t].id /\ r.kind = call[t].kind
      BY <1>4, <2>1, Zenon DEF CallRecord
    <2> HIDE DEF x
    <2>5. SameCall(t, r)
      BY <1>4, <2>4 DEF SameCall
    <2>6. AnswerOf(t)'
      <3>1. call'[t] = r /\ Mine(t)' = Mine(t) /\ conn'[Mine(t)] = x
        BY <1>2, <1>4, <2>3, <2>4 DEF Mine
      <3> QED BY <1>4, <2>2, <2>4, <3>1, Zenon DEF AnswerOf, At, Clean
    <2> QED BY <1>1, <2>2, <2>3, <2>4, <2>5, <2>6, AttemptStep, Zenon
  <1>5. CASE ReadLine(t)
    <2> DEFINE v == Head(conn[Mine(t)].inbox)
               b == Len(conn[Mine(t)].inbox) = 1
               r == [call[t] EXCEPT !.pc = "join", !.reply = v, !.poolable = b]
    <2>1. conn[Mine(t)] \in ConnRecord /\ call[t] \in CallRecord
      BY <1>2
    <2>2. call[t].id \in Nat
      BY <2>1, Zenon DEF CallRecord
    <2>3. v \in Nat /\ b \in BOOLEAN
      <3>1. conn[Mine(t)].inbox \in Seq(Nat) /\ conn[Mine(t)].inbox # <<>>
        BY <1>5, <2>1, Zenon DEF ReadLine, ConnRecord
      <3> QED BY <3>1, HeadTailProperties
    <2>5. conn[Mine(t)].unread \/ (v = call[t].id /\ conn[Mine(t)].owes = <<>>)
      <3> DEFINE id == call[t].id
      <3>1. AnswerOf(t) /\ conn[Mine(t)].inbox # <<>> /\ call[t].kind = "line"
        BY <1>5 DEF ReadLine, IInv, Answers
      <3>2. \/ conn[Mine(t)].unread
            \/ conn[Mine(t)].owes = <<>> /\ conn[Mine(t)].inbox \in {<<id>>, <<id, 0>>}
        BY <1>1, <3>1 DEF AnswerOf, At
      <3>3. Head(<<id>>) = id /\ Head(<<id, 0>>) = id
        BY <2>2
      <3> QED BY <3>2, <3>3
    <2>4. call' = [call EXCEPT ![t] = r] /\ conn' = [conn EXCEPT ![Mine(t)].inbox = <<>>]
      BY <1>2, <1>5, Zenon DEF ReadLine
    <2> HIDE DEF v, b
    <2> QED BY <1>4, <2>3, <2>4, <2>5, Zenon
  <1>6. CASE ReadAll(t)
    <2> DEFINE v == call[t].reply
               r == [call[t] EXCEPT !.pc = "join", !.reply = v, !.poolable = FALSE]
    <2>1. call[t] \in CallRecord
      BY <1>2
    <2>2. v \in Nat
      BY <2>1, Zenon DEF CallRecord
    <2>3. r = [call[t] EXCEPT !.pc = "join", !.poolable = FALSE]
      BY <2>1, Zenon DEF CallRecord
    <2>4. /\ call' = [call EXCEPT ![t] = r] /\ conn' = [conn EXCEPT ![Mine(t)].inbox = <<>>]
          /\ call[t].kind # "line"
      BY <1>2, <1>6, <2>3, Zenon DEF ReadAll
    <2> HIDE DEF v
    <2> QED BY <1>4, <2>2, <2>4, Zenon
  <1> QED BY <1>3, <1>5, <1>6

\* The peer acts on one open connection.
LEMMA PeerActs ==
    ASSUME Assumptions, IInv, NEW c \in Conns, NEW x \in ConnRecord,
           conn[c].ours = "open", x.ours = "open", conn' = [conn EXCEPT ![c] = x],
           Clean(c) => x.unread \/ (x.owes = <<>> /\ x.inbox = <<>>),
           \A t \in Threads : Using(t) /\ Mine(t) = c => AnswerOf(t)',
           UNCHANGED <<pool, closed, closer, call, watch, calls>>
    PROVE  IInv'
  <1>1. /\ conn' \in [Conns -> ConnRecord] /\ conn'[c] = x
        /\ \A d \in Conns \ {c} : conn'[d] = conn[d]
        /\ \A d \in Conns : conn'[d].ours = conn[d].ours
    BY DEF IInv, Shapes
  <1>2. /\ Held' = Held /\ Idling' = Idling
        /\ \A t \in Threads : Mine(t)' = Mine(t) /\ (Using(t)' <=> Using(t))
    BY DEF Held, Idling, Mine, Using
  <1>3. Shapes'
    BY <1>1 DEF IInv, Shapes
  <1>4. Attempts'
    BY Zenon DEF IInv, Attempts, Using, Mine, At
  <1>5. Owners'
    <2>1. \A d \in Idling' : conn'[d].ours = "open"
      BY <1>1, <1>2, IdleConns DEF IInv, Owners
    <2>2. \A t \in Threads : Using(t)' => conn'[Mine(t)'].ours = "open" \/ call'[t].done
      BY <1>1, <1>2, Usable DEF IInv, Owners
    <2>3. \A d \in Conns : conn'[d].ours # "none" <=> d \in Held' \cup Idling'
      BY <1>1, <1>2 DEF IInv, Owners
    <2>4. /\ IsInjective(pool') /\ (closer' = "done" => pool' = <<>>)
          /\ \A t \in Threads : Mine(t)' \notin Idling'
          /\ \A s, t \in Threads : s # t /\ Mine(s)' # NoConn => Mine(s)' # Mine(t)'
      BY <1>2 DEF IInv, Owners
    <2> QED BY <2>1, <2>2, <2>3, <2>4, Zenon DEF Owners
  <1>6. Answers'
    <2>1. ASSUME NEW t \in Threads PROVE AnswerOf(t)'
      <3>1. CASE Using(t) /\ Mine(t) = c
        BY <3>1
      <3>2. CASE ~(Using(t) /\ Mine(t) = c)
        BY <1>1, <3>2, Usable, AnswerKept DEF IInv, Answers
      <3> QED BY <3>1, <3>2
    <2>2. \A d \in Conns : d \in Idling' \/ conn'[d].ours = "none" => Clean(d)'
      BY <1>1, <1>2, Zenon DEF IInv, Answers, Clean
    <2> QED BY <2>1, <2>2 DEF Answers
  <1> QED BY <1>3, <1>4, <1>5, <1>6 DEF IInv

\* The peer answers what it owes, or hangs up.
LEMMA PeerStep ==
    ASSUME Assumptions, IInv, NEW c \in Conns, PeerReplies(c) \/ PeerHangsUp(c)
    PROVE  IInv'
  <1>1. /\ conn[c].ours = "open" /\ UNCHANGED <<pool, closed, closer, call, watch, calls>>
        /\ conn \in [Conns -> ConnRecord] /\ conn[c] \in ConnRecord
    BY DEF PeerReplies, PeerHangsUp, IInv, Shapes
  <1>2. ASSUME NEW t \in Threads, Using(t), Mine(t) = c, NEW x, conn'[c] = x,
               x.unread = conn[c].unread,
               \/ x.owes = <<>> /\ x.inbox = conn[c].inbox
               \/ /\ conn[c].owes # <<>> /\ x.owes = Tail(conn[c].owes)
                  /\ \E more \in {<<>>, << 0 >>} :
                        x.inbox = conn[c].inbox \o <<Head(conn[c].owes)>> \o more
        PROVE  AnswerOf(t)'
    <2>1. AnswerOf(t) /\ call' = call /\ Mine(t)' = c /\ call[t] \in CallRecord
      BY <1>1, <1>2 DEF IInv, Shapes, Answers, Mine
    <2>2. call[t].id \in Nat
      BY <2>1, Zenon DEF CallRecord
    <2>3. CASE x.owes = <<>> /\ x.inbox = conn[c].inbox
      BY <1>2, <2>1, <2>3, Zenon DEF AnswerOf, At, Clean
    <2>4. ASSUME NEW more \in {<<>>, << 0 >>}, conn[c].owes # <<>>, x.owes = Tail(conn[c].owes),
                 x.inbox = conn[c].inbox \o <<Head(conn[c].owes)>> \o more
          PROVE  AnswerOf(t)'
      <3>1. ASSUME conn[c].owes = <<call[t].id>>, conn[c].inbox = <<>>
            PROVE  x.owes = <<>> /\ x.inbox \in {<<call[t].id>>, <<call[t].id, 0>>}
        <4>1. CASE more = <<>>
          BY <2>2, <2>4, <3>1, <4>1
        <4>2. CASE more = <<0>>
          <5>1. /\ Head(conn[c].owes) = call[t].id /\ Tail(conn[c].owes) = <<>>
                /\ x.inbox = <<>> \o <<call[t].id>> \o <<0>>
            BY <2>2, <2>4, <3>1, <4>2
          <5>2. \A n \in Nat : <<>> \o <<n>> = <<n>> /\ <<n>> \o <<0>> = <<n, 0>>
            BY AnswerAndMore, Zenon
          <5> QED BY <2>2, <2>4, <5>1, <5>2, Zenon
        <4> QED BY <2>4, <4>1, <4>2
      <3> QED BY <1>2, <2>1, <2>4, <3>1, ZenonT(30) DEF AnswerOf, At, Clean
    <2> QED BY <1>2, <2>3, <2>4, ZenonT(30)
  <1>3. CASE PeerHangsUp(c)
    <2> DEFINE x == [conn[c] EXCEPT !.peer = "down", !.owes = <<>>]
    <2>1. /\ x \in ConnRecord /\ x.ours = "open" /\ x.owes = <<>> /\ x.inbox = conn[c].inbox
          /\ x.unread = conn[c].unread
      <3>1. <<>> \in Seq(Nat)
        OBVIOUS
      <3> QED BY <1>1, <3>1, Zenon DEF ConnRecord
    <2>2. conn' = [conn EXCEPT ![c] = x]
      BY <1>1, <1>3, Zenon DEF PeerHangsUp
    <2> HIDE DEF x
    <2>3. conn'[c] = x
      BY <1>1, <2>2
    <2> QED BY <1>1, <1>2, <2>1, <2>2, <2>3, PeerActs, Zenon DEF Clean
  <1>4. CASE PeerReplies(c)
    <2>1. PICK more \in {<<>>, <<0>>} :
              conn' = [conn EXCEPT ![c].inbox = @ \o <<Head(conn[c].owes)>> \o more,
                                   ![c].owes = Tail(@)]
      BY <1>4, ZenonT(30) DEF PeerReplies
    <2> DEFINE x == [conn[c] EXCEPT !.inbox = @ \o <<Head(conn[c].owes)>> \o more,
                                    !.owes = Tail(@)]
    <2>2. conn[c].owes # <<>>
      BY <1>4 DEF PeerReplies
    <2>3. conn[c].owes \in Seq(Nat) /\ conn[c].inbox \in Seq(Nat)
      BY <1>1 DEF ConnRecord
    <2>4. /\ Tail(conn[c].owes) \in Seq(Nat)
          /\ conn[c].inbox \o <<Head(conn[c].owes)>> \o more \in Seq(Nat)
      <3>1. Head(conn[c].owes) \in Nat /\ Tail(conn[c].owes) \in Seq(Nat)
        BY <2>2, <2>3, HeadTailProperties
      <3>2. <<Head(conn[c].owes)>> \in Seq(Nat)
        BY <3>1
      <3>3. <<>> \in Seq(Nat) /\ <<0>> \in Seq(Nat)
        OBVIOUS
      <3>4. more \in Seq(Nat)
        BY <2>1, <3>3, Zenon
      <3> QED BY <2>3, <3>1, <3>2, <3>4, ConcatProperties
    <2>5. /\ x \in ConnRecord /\ x.ours = "open" /\ x.owes = Tail(conn[c].owes)
          /\ x.inbox = conn[c].inbox \o <<Head(conn[c].owes)>> \o more /\ x.unread = conn[c].unread
      BY <1>1, <2>4, Zenon DEF ConnRecord
    <2>6. conn' = [conn EXCEPT ![c] = x]
      BY <1>1, <2>1, Zenon
    <2> HIDE DEF x
    <2>7. conn'[c] = x
      BY <1>1, <2>6
    <2>8. \A t \in Threads : Using(t) /\ Mine(t) = c => AnswerOf(t)'
      BY <1>2, <2>2, <2>5, <2>7, Zenon
    <2> QED BY <1>1, <2>2, <2>5, <2>6, <2>8, PeerActs, Zenon DEF Clean
  <1> QED BY <1>3, <1>4

\* Steps of Close alone, that touch no connection and no call.
LEMMA OnlyCloser ==
    ASSUME IInv, closer' \in {"open", "drain", "done"}, closed' = (closer' # "open"),
           closer' = "done" => pool = <<>>, UNCHANGED <<conn, pool, call, watch, calls>>
    PROVE  IInv'
  <1>1. conn' = conn /\ pool' = pool /\ call' = call /\ watch' = watch /\ calls' = calls
    OBVIOUS
  <1>2. Shapes'
    BY <1>1 DEF IInv, Shapes
  <1>3. Attempts'
    BY <1>1, Zenon DEF IInv, Attempts, Using, Mine, At
  <1>4. Owners'
    BY <1>1 DEF IInv, Owners, Using, Mine, Idling, Held
  <1>5. Answers'
    <2>1. \A t \in Threads : AnswerOf(t)'
      BY <1>1, Zenon DEF IInv, Answers, AnswerOf, Mine, At, Clean
    <2>2. \A c \in Conns : c \in Idling' \/ conn'[c].ours = "none" => Clean(c)'
      BY <1>1 DEF IInv, Answers, Clean, Idling
    <2> QED BY <2>1, <2>2 DEF Answers
  <1> QED BY <1>2, <1>3, <1>4, <1>5 DEF IInv

\* Close, and the drain that follows.
LEMMA CloserStep ==
    ASSUME Assumptions, IInv, Close \/ Drain
    PROVE  IInv'
  <1>1. CASE Close
    BY <1>1, OnlyCloser, Zenon DEF Close
  <1>2. CASE Drain /\ pool = <<>>
    BY <1>2, OnlyCloser DEF Drain, IInv, Shapes
  <1>3. CASE Drain /\ pool # <<>>
    BY <1>3, DiscardHead DEF Drain
  <1> QED BY <1>1, <1>2, <1>3

\* The invariant is inductive.
LEMMA StepInv ==
    ASSUME Assumptions, IInv, [Next]_vars
    PROVE  IInv'
  <1>1. CASE Next
    BY <1>1, OutsideStep, CheckoutStep, DialStep, WriteStep, ReadStep, JoinStep,
       WatchStep,
       CloserStep, PeerStep DEF Next, Step, Send, SendReceive, SendReceiveLine
  <1>2. CASE UNCHANGED vars
    BY <1>2, OnlyCloser DEF vars, IInv, Shapes, Owners
  <1> QED BY <1>1, <1>2

\* Connections are accounted for.
LEMMA InvConnsAccounted == IInv => ConnsAccounted
  <1> SUFFICES ASSUME IInv PROVE ConnsAccounted
    OBVIOUS
  <1>1. Range(pool) \cap Held = {}
    BY DEF IInv, Owners, Held, Idling
  <1> QED BY <1>1 DEF IInv, Owners, Idling, ConnsAccounted

\* The line a call returns answers its own request, unless a Send was answered.
LEMMA InvReplyMatches == IInv => ReplyMatches
  BY Zenon DEF IInv, Answers, AnswerOf, ReplyMatches, At
=============================================================================
