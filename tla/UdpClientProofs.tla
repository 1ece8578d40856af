--------------------------- MODULE UdpClientProofs --------------------------
(***************************************************************************)
(* ReplyIsOwnOrStray for any number of goroutines, calls and attempts.     *)
(* That a reply is the call's own is decided when it is read, by what is   *)
(* in the inbox, and that by what earlier calls have left on its way: the  *)
(* invariant IInv of UdpClient follows the answers from the write to the   *)
(* read.  It says nothing more of states after calls have overlapped.      *)
(***************************************************************************)
EXTENDS UdpClient, Integers, TLAPS

\* Before the first call there are no answers.
LEMMA InitInv == Init => IInv
  <1> SUFFICES ASSUME Init PROVE IInv
    OBVIOUS
  <1>1. Shapes
    <2>1. NoCall \in CallRecord
      BY DEF NoCall, CallRecord
    <2>2. sock \in [open : BOOLEAN, inbox : Seq(Nat), past : BOOLEAN]
      BY DEF Init
    <2> QED BY <2>1, <2>2 DEF Init, Shapes
  <1>2. \A t \in Threads : call[t].pc = "idle" /\ call[t].id = 0 /\ call[t].attempt = 0 /\ call[t].reply = 0
    BY DEF Init, NoCall
  <1>3. Calling
    BY <1>2 DEF Calling, At
  <1>4. OneAnswer
    <2>1. net = {} /\ sock.inbox = <<>>
      BY DEF Init
    <2> QED BY <2>1 DEF OneAnswer, One, Coming, Inbox
  <1>5. ReplyIsOwnOrStray
    BY <1>2 DEF ReplyIsOwnOrStray
  <1> QED BY <1>1, <1>3, <1>4, <1>5 DEF IInv

\* A step of the only call under way, on answers that stay where they are.
LEMMA Moves ==
  ASSUME Shapes, Calling, OneAnswer,
         NEW t \in Threads, NEW c \in CallRecord, call' = [call EXCEPT ![t] = c],
         net' = net, sock'.inbox = sock.inbox, stray \subseteq stray', calls' = calls,
         ~At(t, "idle"), c.pc # "idle", c.id = call[t].id,
         c.attempt > 0 => c.id \in stray',
         c.pc \in {"send", "arm", "read"} => c.err = "none",
         c.pc \in {"arm", "read"} => c.kind # "send",
         c.pc \in {"failed", "backoff"} => c.err # "none",
         c.pc # "end" => c.reply = 0,
         Waiting(t) => \/ c.id \in stray'
                       \/ c.pc # "send" /\ (c.pc = "end" => c.err # "none")
  PROVE  Calling' /\ OneAnswer'
  <1>1. call'[t] = c /\ \A u \in Threads \ {t} : call'[u] = call[u]
    BY DEF Shapes
  <1>2. Calling'
    BY <1>1 DEF Calling, At
  <1>3. ASSUME NEW x \in Nat \ stray' PROVE One(x)'
    <2>1. One(x) /\ Coming(x)' = Coming(x) /\ Inbox(x)' = Inbox(x)
      BY <1>3 DEF OneAnswer, Coming, Inbox
    <2>2. ASSUME NEW u \in Threads, Waiting(u), call[u].id = x PROVE Waiting(t)' /\ call'[t].id = x
      <3>1. u = t
        BY <2>2 DEF Waiting, Calling
      <3> QED BY <1>1, <1>3, <2>2, <3>1 DEF Waiting, LeavesNothing, At
    <2> QED BY <2>1, <2>2 DEF One
  <1> QED BY <1>2, <1>3 DEF OneAnswer

\* A goroutine's step that takes no answer: it fails the attempt, goes on, or
\* repeats it.  What Calling asks of the call's new state is asked only while it
\* holds, that is while calls do not overlap.
LEMMA CallMoves ==
  ASSUME IInv, NEW t \in Threads, NEW c \in CallRecord, call' = [call EXCEPT ![t] = c],
         call[t].pc \in {"send", "arm", "read", "failed", "backoff"},
         c.pc # "idle", c.id = call[t].id, c.reply = call[t].reply,
         net' = net, sock' \in [open : BOOLEAN, inbox : Seq(Nat), past : BOOLEAN],
         sock'.inbox = sock.inbox, stray \subseteq stray', calls' = calls, overlap' = overlap,
         Calling => /\ c.attempt > 0 \/ c.pc = "send" => c.id \in stray'
                    /\ c.pc \in {"send", "arm", "read"} => c.err = "none"
                    /\ c.pc \in {"arm", "read"} => c.kind # "send"
                    /\ c.pc \in {"failed", "backoff"} => c.err # "none"
                    /\ c.pc = "end" => c.err # "none"
  PROVE  IInv'
  <1>3. Shapes'
    <2>1. call' \in [Threads -> CallRecord]
      BY DEF IInv, Shapes
    <2> QED BY <2>1 DEF IInv, Shapes
  <1>4. call'[t] = c /\ \A u \in Threads \ {t} : call'[u] = call[u]
    BY DEF IInv, Shapes
  <1>5. ASSUME ~overlap PROVE Calling' /\ OneAnswer'
    <2>1. Calling /\ OneAnswer /\ Shapes
      BY <1>5 DEF IInv
    <2>2. call[t].reply = 0
      BY <2>1 DEF Calling
    <2> QED BY <2>1, <2>2, Moves DEF At
  <1>6. ReplyIsOwnOrStray'
    <2>1. CASE overlap
      BY <2>1 DEF ReplyIsOwnOrStray
    <2>2. CASE ~overlap
      <3>1. call[t].reply = 0
        BY <2>2 DEF IInv, Calling
      <3>2. call'[t].reply = 0 /\ ReplyIsOwnOrStray
        BY <1>4, <3>1 DEF IInv
      <3>3. SUFFICES ASSUME NEW u \in Threads, call'[u].pc = "end", call'[u].reply # 0,
                            call'[u].reply # call'[u].id
                     PROVE  overlap' \/ call'[u].reply \in stray'
        BY Zenon DEF ReplyIsOwnOrStray, At
      <3>4. u # t /\ call'[u] = call[u]
        BY <1>4, <3>2, <3>3
      <3> QED BY <3>2, <3>3, <3>4 DEF ReplyIsOwnOrStray, At
    <2> QED BY <2>1, <2>2
  <1> QED BY <1>3, <1>5, <1>6 DEF IInv

\* The same for the two ways in which the code moves a call on.
LEMMA Fails ==
  ASSUME IInv, NEW t \in Threads, NEW pc \in {"read", "failed", "backoff", "end"},
         NEW e \in {"none", "rejected", "errClosed", "write", "read", "ctx"},
         Fail(t, pc, e) \/ (Goto(t, pc) /\ e = call[t].err),
         call[t].pc \in {"send", "arm", "read", "failed", "backoff"},
         net' = net, sock' \in [open : BOOLEAN, inbox : Seq(Nat), past : BOOLEAN],
         sock'.inbox = sock.inbox, stray' = stray, calls' = calls, overlap' = overlap,
         Calling => IF pc = "read" THEN e = "none" /\ call[t].kind # "send" ELSE e # "none"
  PROVE  IInv'
  <1>1. call \in [Threads -> CallRecord] /\ call[t] \in CallRecord
    BY DEF IInv, Shapes
  <1> DEFINE c == [call[t] EXCEPT !.pc = pc, !.err = e]
  <1>2. call' = [call EXCEPT ![t] = c]
    <2>1. CASE Fail(t, pc, e)
      BY <1>1, <2>1 DEF Fail
    <2>2. CASE Goto(t, pc) /\ e = call[t].err
      <3>1. c = [call[t] EXCEPT !.pc = pc]
        BY <1>1, <2>2 DEF CallRecord
      <3> QED BY <1>1, <2>2, <3>1 DEF Goto
    <2> QED BY <2>1, <2>2
  <1>3. c \in CallRecord
    BY <1>1, Zenon DEF CallRecord
  <1>4. /\ c.pc = pc /\ c.err = e /\ c.id = call[t].id /\ c.attempt = call[t].attempt
        /\ c.reply = call[t].reply /\ c.kind = call[t].kind
    BY <1>1 DEF CallRecord
  <1> HIDE DEF c
  <1>5. Calling => /\ c.attempt > 0 \/ c.pc = "send" => c.id \in stray'
                   /\ c.pc \in {"send", "arm", "read"} => c.err = "none"
                   /\ c.pc \in {"arm", "read"} => c.kind # "send"
                   /\ c.pc \in {"failed", "backoff"} => c.err # "none"
                   /\ c.pc = "end" => c.err # "none"
    BY <1>4 DEF Calling
  <1> QED BY <1>2, <1>3, <1>4, <1>5, CallMoves

\* What other goroutines, the network and Close do to the deadline, to ctx and to
\* the watchers leaves calls and answers alone.
LEMMA Elsewhere ==
  ASSUME IInv, UNCHANGED <<net, call, calls, overlap, stray>>,
         sock' \in [open : BOOLEAN, inbox : Seq(Nat), past : BOOLEAN], sock'.inbox = sock.inbox
  PROVE  IInv'
  <1>1. Shapes'
    BY DEF IInv, Shapes
  <1>2. ReplyIsOwnOrStray'
    BY DEF IInv, ReplyIsOwnOrStray, At
  <1>3. Calling => Calling'
    BY DEF Calling, At
  <1>4. OneAnswer => OneAnswer'
    BY DEF OneAnswer, One, Coming, Inbox, Waiting, LeavesNothing, At
  <1> QED BY <1>1, <1>2, <1>3, <1>4 DEF IInv

\* A call that begins while none is under way finds no answer that is not stray.
LEMMA BeginInv ==
  ASSUME IInv, NEW t \in Threads, NEW kind \in {"send", "recv"}, Begin(t, kind)
  PROVE  IInv'
  <1> DEFINE c == [NoCall EXCEPT !.pc = "send", !.id = calls', !.kind = kind]
             d == [c EXCEPT !.pc = "end", !.err = "rejected"]
  <1>1. calls' = calls + 1 /\ calls' \in Nat /\ calls \in Nat
    BY DEF Begin, IInv, Shapes
  <1>2. /\ c \in CallRecord /\ c.pc = "send" /\ c.id = calls' /\ c.attempt = 0 /\ c.err = "none" /\ c.reply = 0
        /\ d \in CallRecord /\ d.pc = "end" /\ d.id = calls' /\ d.attempt = 0 /\ d.err = "rejected" /\ d.reply = 0
    BY <1>1 DEF NoCall, CallRecord
  <1>3. call' \in {[call EXCEPT ![t] = c], [call EXCEPT ![t] = d]}
    BY DEF Begin
  <1> HIDE DEF c, d
  <1>4. PICK e \in {c, d} : call' = [call EXCEPT ![t] = e]
    BY <1>3
  <1>5. /\ e \in CallRecord /\ e.pc \in {"send", "end"} /\ e.id = calls' /\ e.attempt = 0
        /\ (e.pc = "send" => e.err = "none") /\ e.reply = 0
    BY <1>2, <1>4
  <1>6. call'[t] = e /\ \A u \in Threads \ {t} : call'[u] = call[u]
    BY <1>4 DEF IInv, Shapes
  <1>7. Shapes'
    <2>1. call' \in [Threads -> CallRecord]
      BY <1>4, <1>5 DEF IInv, Shapes
    <2> QED BY <1>1, <2>1 DEF IInv, Shapes, Begin
  <1>8. ReplyIsOwnOrStray'
    BY <1>5, <1>6 DEF IInv, ReplyIsOwnOrStray, Begin, At
  <1>9. ASSUME ~overlap' PROVE Calling' /\ OneAnswer'
    <2>1. Calling /\ OneAnswer /\ \A u \in Threads : At(u, "idle")
      BY <1>9 DEF IInv, Begin
    <2>2. Calling'
      <3>1. \A u \in Threads \ {t} : call'[u].pc = "idle" /\ call'[u] = call[u]
        BY <1>6, <2>1 DEF At
      <3>2. ASSUME NEW u \in Threads, NEW w \in Threads, ~At(u, "idle")', ~At(w, "idle")' PROVE u = w
        BY <3>1, <3>2 DEF At
      <3>3. ~(e.attempt > 0)
        BY <1>5
      <3>4. ASSUME NEW u \in Threads
            PROVE  /\ IF At(u, "idle")' THEN call'[u].id = 0 ELSE call'[u].id = calls'
                   /\ call'[u].attempt > 0 => call'[u].id \in stray'
                   /\ call'[u].pc \in {"send", "arm", "read"} => call'[u].err = "none"
                   /\ call'[u].pc \in {"arm", "read"} => call'[u].kind # "send"
                   /\ call'[u].pc \in {"failed", "backoff"} => call'[u].err # "none"
                   /\ call'[u].pc # "end" => call'[u].reply = 0
        <4>1. CASE u = t
          BY <1>5, <1>6, <3>3, <4>1 DEF At
        <4>2. CASE u # t
          BY <2>1, <3>1, <4>2 DEF Calling, At, Begin
        <4> QED BY <4>1, <4>2
      <3> QED BY <3>2, <3>4, Zenon DEF Calling
    <2>3. ASSUME NEW x \in Nat \ stray' PROVE One(x)'
      <3>1. One(x) /\ Coming(x)' = Coming(x) /\ Inbox(x)' = Inbox(x)
        BY <2>1, <2>3 DEF OneAnswer, Coming, Inbox, Begin
      <3>2. Coming(x) = {} /\ Inbox(x) = {}
        BY <2>1, <3>1 DEF One, Waiting
      <3> QED BY <3>1, <3>2 DEF One
    <2> QED BY <2>2, <2>3 DEF OneAnswer
  <1> QED BY <1>7, <1>8, <1>9 DEF IInv

\* A call that ends without having read its own answer counts as stray.
LEMMA EndInv ==
  ASSUME IInv, NEW t \in Threads, End(t)
  PROVE  IInv'
  <1>1. NoCall \in CallRecord /\ NoCall.pc = "idle" /\ NoCall.id = 0 /\ NoCall.attempt = 0 /\ NoCall.reply = 0
    BY DEF NoCall, CallRecord
  <1>2. call' \in [Threads -> CallRecord] /\ call'[t] = NoCall /\ \A u \in Threads \ {t} : call'[u] = call[u]
    BY <1>1 DEF IInv, Shapes, End
  <1>3. Shapes'
    BY <1>2 DEF IInv, Shapes, End
  <1>4. ReplyIsOwnOrStray'
    BY <1>1, <1>2 DEF IInv, ReplyIsOwnOrStray, End, At
  <1>5. ASSUME ~overlap' PROVE Calling' /\ OneAnswer'
    <2>1. Calling /\ OneAnswer
      BY <1>5 DEF IInv, End
    <2>2. Calling'
      BY <1>1, <1>2, <2>1 DEF Calling, At, End
    <2>3. ASSUME NEW x \in Nat \ stray' PROVE One(x)'
      <3>1. x \in Nat \ stray
        BY <2>3 DEF End
      <3>2. One(x) /\ Coming(x)' = Coming(x) /\ Inbox(x)' = Inbox(x)
        BY <2>1, <3>1 DEF OneAnswer, Coming, Inbox, End
      <3>3. ASSUME NEW u \in Threads, Waiting(u), call[u].id = x PROVE FALSE
        <4>1. u = t /\ ~LeavesNothing(t)
          BY <2>1, <3>3 DEF Waiting, Calling, End, At
        <4> QED BY <2>3, <3>3, <4>1 DEF End
      <3> QED BY <3>2, <3>3 DEF One
    <2> QED BY <2>2, <2>3 DEF OneAnswer
  <1> QED BY <1>3, <1>4, <1>5 DEF IInv

\* The write puts the only answer there can be on its way.
LEMMA WriteInv ==
  ASSUME IInv, NEW t \in Threads, Write(t)
  PROVE  IInv'
  <1>0. call[t] \in CallRecord /\ call[t].pc = "send"
    BY DEF IInv, Shapes, Write, At
  <1>1. ASSUME NEW pc \in {"failed", "end"}, NEW e \in {"errClosed", "write"}, Fail(t, pc, e), UNCHANGED net
        PROVE  IInv'
    BY <1>0, <1>1, Fails DEF Write, IInv, Shapes
  <1>2. ASSUME Written(t), NEW n \in 0 .. 1, net' = net \cup Answers(t, n) PROVE IInv'
    <2> DEFINE pc == IF call[t].kind = "send" THEN "end" ELSE "arm"
               c == [call[t] EXCEPT !.pc = pc]
    <2>1. call' = [call EXCEPT ![t] = c] /\ c \in CallRecord
      BY <1>0, <1>2 DEF Written, Goto, CallRecord, IInv, Shapes
    <2>2. /\ c.pc = pc /\ c.err = call[t].err /\ c.id = call[t].id /\ c.attempt = call[t].attempt
          /\ c.reply = call[t].reply /\ c.kind = call[t].kind
      BY <1>0 DEF CallRecord
    <2> HIDE DEF c
    <2>3. call' \in [Threads -> CallRecord] /\ call'[t] = c /\ \A u \in Threads \ {t} : call'[u] = call[u]
      BY <2>1 DEF IInv, Shapes
    <2>4. /\ net' \subseteq [id : Nat, attempt : Nat, copy : Nat]
          /\ \A r \in net' \ net : r.id = c.id /\ r.attempt = c.attempt /\ r.copy = 1
      BY <1>0, <1>2, <2>2 DEF Answers, CallRecord, IInv, Shapes
    <2>5. Shapes'
      BY <2>3, <2>4 DEF IInv, Shapes, Write
    <2>6. ASSUME ~overlap PROVE Calling' /\ OneAnswer' /\ call'[t].reply = 0
      <3>1. Calling /\ OneAnswer
        BY <2>6 DEF IInv
      <3>2. c.reply = 0 /\ c.err = "none" /\ (c.attempt > 0 => c.id \in stray) /\ c.id = calls
        BY <1>0, <2>2, <3>1 DEF Calling, At
      <3>3. Calling'
        BY <1>0, <2>2, <2>3, <3>1, <3>2 DEF Calling, At, Write
      <3>4. ASSUME NEW x \in Nat \ stray PROVE One(x)'
        <4>1. One(x) /\ Inbox(x)' = Inbox(x)
          BY <3>1, <3>4 DEF OneAnswer, Inbox, Write
        <4>2. Coming(x) = {} /\ Inbox(x) = {}
          BY <1>0, <3>1, <4>1 DEF One, Waiting, Calling, At
        <4>3. \A r \in Coming(x)' : x = c.id /\ r.attempt = 0 /\ r.copy = 1
          <5> SUFFICES ASSUME NEW r \in Coming(x)' PROVE x = c.id /\ r.attempt = 0 /\ r.copy = 1
            OBVIOUS
          <5>1. r \in net' \ net /\ r.id = x
            BY <4>2 DEF Coming
          <5>2. r.id = c.id /\ r.attempt = c.attempt /\ r.copy = 1 /\ c.attempt \in Nat
            BY <2>1, <2>4, <5>1 DEF CallRecord
          <5> QED BY <3>2, <3>4, <5>1, <5>2
        <4>4. Coming(x)' # {} => Waiting(t)' /\ call'[t].id = x
          BY <2>2, <2>3, <4>3 DEF Waiting, LeavesNothing, At
        <4> QED BY <4>1, <4>2, <4>3, <4>4 DEF One
      <3> QED BY <2>3, <3>2, <3>3, <3>4 DEF OneAnswer, Write
    <2>7. ReplyIsOwnOrStray'
      <3>1. CASE overlap
        BY <3>1 DEF ReplyIsOwnOrStray, Write
      <3>2. CASE ~overlap
        <4>1. call'[t].reply = 0 /\ ReplyIsOwnOrStray
          BY <2>6, <3>2 DEF IInv
        <4> QED BY <2>3, <4>1 DEF ReplyIsOwnOrStray, At, Write
      <3> QED BY <3>1, <3>2
    <2> QED BY <2>5, <2>6, <2>7 DEF IInv, Write
  <1> QED BY <1>1, <1>2 DEF Write

\* The Read that finds a datagram takes the first one; unless that is a stray
\* answer it is the call's own, and the only one.
LEMMA ReadInv ==
  ASSUME IInv, NEW t \in Threads, At(t, "read"), sock.inbox # <<>>,
         call' = [call EXCEPT ![t].pc = "end", ![t].reply = Head(sock.inbox)],
         sock' = [sock EXCEPT !.inbox = Tail(@)], UNCHANGED <<net, calls, overlap, stray>>
  PROVE  IInv'
  <1> DEFINE y == Head(sock.inbox)
             c == [call[t] EXCEPT !.pc = "end", !.reply = y]
  <1>0. call[t] \in CallRecord /\ call[t].pc = "read" /\ sock.inbox \in Seq(Nat) /\ y \in Nat
    BY DEF IInv, Shapes, At
  <1>1. call' = [call EXCEPT ![t] = c] /\ c \in CallRecord
    BY <1>0 DEF CallRecord, IInv, Shapes
  <1>2. /\ c.pc = "end" /\ c.err = call[t].err /\ c.id = call[t].id /\ c.attempt = call[t].attempt
        /\ c.reply = y /\ c.kind = call[t].kind
    BY <1>0 DEF CallRecord
  <1>3. sock' \in [open : BOOLEAN, inbox : Seq(Nat), past : BOOLEAN] /\ sock'.inbox = Tail(sock.inbox)
    <2>1. Tail(sock.inbox) \in Seq(Nat)
      BY <1>0
    <2>2. sock \in [open : BOOLEAN, inbox : Seq(Nat), past : BOOLEAN]
      BY DEF IInv, Shapes
    <2> QED BY <2>1, <2>2, Zenon
  <1> HIDE DEF c
  <1>4. call' \in [Threads -> CallRecord] /\ call'[t] = c /\ \A u \in Threads \ {t} : call'[u] = call[u]
    BY <1>1 DEF IInv, Shapes
  <1>5. Shapes'
    BY <1>3, <1>4 DEF IInv, Shapes
  <1>6. /\ 1 \in Inbox(y)
        /\ \A x : \A i \in Inbox(x)' : i + 1 \in Inbox(x) /\ i \in Nat /\ i # 0
    <2>1. 1 \in Inbox(y)
      BY <1>0 DEF Inbox
    <2>2. ASSUME NEW x, NEW i \in Inbox(x)' PROVE i + 1 \in Inbox(x) /\ i \in Nat /\ i # 0
      <3>1. i \in DOMAIN Tail(sock.inbox) /\ Tail(sock.inbox)[i] = x
        BY <1>3, <2>2 DEF Inbox
      <3> QED BY <1>0, <3>1 DEF Inbox
    <2> QED BY <2>1, <2>2
  <1>7. ASSUME ~overlap PROVE Calling' /\ OneAnswer' /\ (y # c.id => y \in stray)
    <2>1. Calling /\ OneAnswer
      BY <1>7 DEF IInv
    <2>2. c.err = "none" /\ c.kind # "send" /\ (c.attempt > 0 => c.id \in stray) /\ c.id = calls
      BY <1>0, <1>2, <2>1 DEF Calling, At
    <2>3. Calling'
      BY <1>0, <1>2, <1>4, <2>1, <2>2 DEF Calling, At
    <2>4. \A u \in Threads : Waiting(u) => u = t
      BY <1>0, <2>1 DEF Waiting, Calling, At
    <2>5. y # c.id => y \in stray
      BY <1>0, <1>2, <1>6, <2>1, <2>4 DEF OneAnswer, One
    <2>6. ASSUME NEW x \in Nat \ stray PROVE One(x)'
      <3>1. One(x) /\ Coming(x)' = Coming(x)
        BY <2>1, <2>6 DEF OneAnswer, Coming
      <3>2. CASE x = y
        <4>1. Coming(x) = {} /\ \A i \in Inbox(x) : i = 1
          BY <1>6, <3>1, <3>2 DEF One
        <4>2. Inbox(x)' = {}
          BY <1>6, <4>1
        <4> QED BY <3>1, <4>1, <4>2 DEF One
      <3>3. CASE x # y
        <4>1. \A i, k \in Inbox(x)' : i = k
          <5> SUFFICES ASSUME NEW i \in Inbox(x)', NEW k \in Inbox(x)' PROVE i = k
            OBVIOUS
          <5>1. i + 1 = k + 1 /\ i \in Nat /\ k \in Nat
            BY <1>6, <3>1 DEF One
          <5> QED BY <5>1
        <4>2. Inbox(x) = {} => Inbox(x)' = {}
          BY <1>6
        <4>3. Coming(x) # {} \/ Inbox(x) # {} => Waiting(t)' /\ call'[t].id = x
          <5> SUFFICES ASSUME Coming(x) # {} \/ Inbox(x) # {} PROVE Waiting(t)' /\ call'[t].id = x
            OBVIOUS
          <5>1. x = c.id
            BY <1>2, <2>4, <3>1 DEF One
          <5> QED BY <1>2, <1>4, <2>2, <3>3, <5>1 DEF Waiting, LeavesNothing, At
        <4> QED BY <3>1, <4>1, <4>2, <4>3 DEF One
      <3> QED BY <3>2, <3>3
    <2> QED BY <2>3, <2>5, <2>6 DEF OneAnswer
  <1>8. ReplyIsOwnOrStray'
    <2>1. CASE overlap
      BY <2>1 DEF ReplyIsOwnOrStray
    <2>2. CASE ~overlap
      <3>1. (y # c.id => y \in stray) /\ ReplyIsOwnOrStray
        BY <1>7, <2>2 DEF IInv
      <3>2. SUFFICES ASSUME NEW u \in Threads, call'[u].pc = "end", call'[u].reply # 0,
                            call'[u].reply # call'[u].id
                     PROVE  overlap' \/ call'[u].reply \in stray'
        BY Zenon DEF ReplyIsOwnOrStray, At
      <3>3. CASE u = t
        BY <1>2, <1>4, <3>1, <3>2, <3>3
      <3>4. CASE u # t
        BY <1>4, <3>1, <3>2, <3>4 DEF ReplyIsOwnOrStray, At
      <3> QED BY <3>3, <3>4
    <2> QED BY <2>1, <2>2
  <1> QED BY <1>5, <1>7, <1>8 DEF IInv

\* A datagram arrives, and the network may keep a duplicate of it.
LEMMA DeliverInv ==
  ASSUME IInv, NEW r \in net, Deliver(r)
  PROVE  IInv'
  <1> DEFINE s == sock.inbox
  <1>0. s \in Seq(Nat) /\ r.id \in Nat
    BY DEF IInv, Shapes
  <1>1. sock' \in [open : BOOLEAN, inbox : Seq(Nat), past : BOOLEAN] /\ sock'.inbox = Append(s, r.id)
    <2>1. Append(s, r.id) \in Seq(Nat)
      BY <1>0
    <2>2. sock \in [open : BOOLEAN, inbox : Seq(Nat), past : BOOLEAN]
      BY DEF IInv, Shapes
    <2> QED BY <2>1, <2>2, Zenon DEF Deliver
  <1>2. Shapes'
    BY <1>1 DEF IInv, Shapes, Deliver
  <1>3. UNCHANGED <<call, calls, overlap>> /\ stray \subseteq stray' /\ net' \subseteq net
    BY DEF Deliver
  <1>4. ReplyIsOwnOrStray'
    BY <1>3 DEF IInv, ReplyIsOwnOrStray, At
  <1>5. \A x : Inbox(x)' = Inbox(x) \cup (IF x = r.id THEN {Len(s) + 1} ELSE {})
    <2> SUFFICES ASSUME NEW x PROVE Inbox(x)' = Inbox(x) \cup (IF x = r.id THEN {Len(s) + 1} ELSE {})
      OBVIOUS
    <2>1. /\ DOMAIN Append(s, r.id) = DOMAIN s \cup {Len(s) + 1}
          /\ \A i \in DOMAIN s : Append(s, r.id)[i] = s[i]
          /\ Append(s, r.id)[Len(s) + 1] = r.id
      BY <1>0
    <2> QED BY <1>1, <2>1 DEF Inbox
  <1>6. ASSUME ~overlap' PROVE Calling' /\ OneAnswer'
    <2>1. Calling /\ OneAnswer
      BY <1>3, <1>6 DEF IInv
    <2>2. Calling'
      BY <1>3, <2>1 DEF Calling, At
    <2>3. ASSUME NEW x \in Nat \ stray' PROVE One(x)'
      <3>1. One(x) /\ Coming(x)' \subseteq Coming(x) /\ \A u \in Threads : Waiting(u)' = Waiting(u)
        BY <1>3, <2>1, <2>3 DEF OneAnswer, Coming, Waiting, LeavesNothing, At
      <3>2. CASE x # r.id
        <4>1. Inbox(x)' = Inbox(x)
          BY <1>5, <3>2
        <4> QED BY <1>3, <3>1, <4>1 DEF One
      <3>3. CASE x = r.id
        <4>1. r \in Coming(x) /\ net' = net \ {r}
          BY <2>3, <3>3 DEF Coming, Deliver
        <4>2. Inbox(x) = {} /\ Inbox(x)' = {Len(s) + 1}
          BY <1>5, <3>1, <3>3, <4>1 DEF One
        <4>3. Coming(x)' = {}
          <5> SUFFICES ASSUME NEW q \in Coming(x)' PROVE FALSE
            OBVIOUS
          <5>1. q \in Coming(x) /\ q # r /\ q \in net /\ r \in net
            BY <3>1, <4>1 DEF Coming
          <5>2. q.id = r.id /\ q.attempt = r.attempt /\ q.copy = r.copy
            BY <3>1, <3>3, <4>1, <5>1 DEF One, Coming
          <5>3. q \in [id : Nat, attempt : Nat, copy : Nat] /\ r \in [id : Nat, attempt : Nat, copy : Nat]
            BY <5>1 DEF IInv, Shapes
          <5> QED BY <5>1, <5>2, <5>3
        <4> QED BY <1>3, <3>1, <4>1, <4>2, <4>3 DEF One
      <3> QED BY <3>2, <3>3
    <2> QED BY <2>2, <2>3 DEF OneAnswer
  <1> QED BY <1>2, <1>4, <1>6 DEF IInv

\* Close empties the inbox.
LEMMA CloseInv ==
  ASSUME IInv, Close
  PROVE  IInv'
  <1>1. CASE sock' = sock
    BY <1>1, Elsewhere DEF Close, IInv, Shapes
  <1>2. CASE sock' = [sock EXCEPT !.open = FALSE, !.inbox = <<>>, !.past = FALSE]
    <2>1. sock' \in [open : BOOLEAN, inbox : Seq(Nat), past : BOOLEAN] /\ sock'.inbox = <<>>
      <3>1. <<>> \in Seq(Nat) /\ sock \in [open : BOOLEAN, inbox : Seq(Nat), past : BOOLEAN]
        BY DEF IInv, Shapes
      <3> QED BY <1>2, <3>1, Zenon
    <2>2. Shapes' /\ ReplyIsOwnOrStray' /\ overlap' = overlap /\ (Calling => Calling')
      BY <2>1 DEF IInv, Shapes, ReplyIsOwnOrStray, Calling, At, Close
    <2>3. OneAnswer => OneAnswer'
      <3>1. \A x : Inbox(x)' = {} /\ Coming(x)' = Coming(x) /\ (\A u \in Threads : Waiting(u)' = Waiting(u))
        BY <2>1 DEF Inbox, Coming, Waiting, LeavesNothing, At, Close
      <3> QED BY <3>1 DEF OneAnswer, One, Close
    <2> QED BY <2>2, <2>3 DEF IInv
  <1> QED BY <1>1, <1>2 DEF Close

\* A repeated call counts as stray.
LEMMA RepeatInv ==
  ASSUME IInv, NEW t \in Threads, Backoff(t),
         call' = [call EXCEPT ![t].pc = "send", ![t].attempt = @ + 1, ![t].err = "none"],
         stray' = stray \cup {call[t].id}
  PROVE  IInv'
  <1>1. call \in [Threads -> CallRecord] /\ call[t] \in CallRecord /\ call[t].attempt + 1 \in Nat
    BY DEF IInv, Shapes, CallRecord
  <1> DEFINE c == [call[t] EXCEPT !.pc = "send", !.attempt = call[t].attempt + 1, !.err = "none"]
  <1>2. call' = [call EXCEPT ![t] = c]
    BY <1>1 DEF CallRecord
  <1>3. c \in CallRecord
    BY <1>1, Zenon DEF CallRecord
  <1>4. c.pc = "send" /\ c.err = "none" /\ c.id = call[t].id /\ c.reply = call[t].reply
    BY <1>1 DEF CallRecord
  <1> HIDE DEF c
  <1> QED BY <1>2, <1>3, <1>4, CallMoves DEF Backoff, At, IInv, Shapes

\* Every step of the client, of the network and of Close keeps the invariant.
LEMMA StepInv ==
  ASSUME IInv, [Next]_vars
  PROVE  IInv'
  <1>0. sock \in [open : BOOLEAN, inbox : Seq(Nat), past : BOOLEAN] /\ call \in [Threads -> CallRecord]
    BY DEF IInv, Shapes
  <1>1. ASSUME NEW t \in Threads, Arm(t) \/ Decide(t) \/ Backoff(t) PROVE IInv'
    <2>1. call[t].err \in {"none", "rejected", "errClosed", "write", "read", "ctx"}
      BY <1>0 DEF CallRecord
    <2>2. sock' \in {sock, [sock EXCEPT !.past = FALSE]} /\ UNCHANGED <<net, calls, overlap>>
      BY <1>1 DEF Arm, Decide, Backoff
    <2>3. sock' \in [open : BOOLEAN, inbox : Seq(Nat), past : BOOLEAN] /\ sock'.inbox = sock.inbox
      BY <1>0, <2>2
    <2>4. Calling => /\ call[t].pc = "arm" => call[t].err = "none" /\ call[t].kind # "send"
                     /\ call[t].pc \in {"failed", "backoff"} => call[t].err # "none"
      BY DEF Calling
    <2>5. CASE Arm(t)
      BY <2>1, <2>2, <2>3, <2>4, <2>5, Fails DEF Arm, At
    <2>6. CASE Decide(t)
      BY <2>1, <2>2, <2>3, <2>4, <2>6, Fails DEF Decide, At
    <2>7. CASE Backoff(t)
      BY <2>1, <2>2, <2>3, <2>4, <2>7, Fails, RepeatInv DEF Backoff, At
    <2> QED BY <1>1, <2>5, <2>6, <2>7
  <1>2. ASSUME NEW t \in Threads, Read(t) PROVE IInv'
    <2>1. CASE Fail(t, "failed", "read") /\ UNCHANGED sock
      BY <1>0, <1>2, <2>1, Fails DEF Read, At
    <2> QED BY <1>2, <2>1, ReadInv DEF Read
  <1>3. ASSUME NEW w \in watchers, Watcher(w) PROVE IInv'
    BY <1>0, <1>3, Elsewhere DEF Watcher, WatcherFires, WatcherStops
  <1>4. ASSUME NEW id, CtxDone(id) PROVE IInv'
    BY <1>0, <1>4, Elsewhere DEF CtxDone
  <1>5. CASE DeadlinePasses
    BY <1>0, <1>5, Elsewhere DEF DeadlinePasses
  <1>6. CASE UNCHANGED vars
    BY <1>0, <1>6, Elsewhere DEF vars
  <1> QED BY <1>1, <1>2, <1>3, <1>4, <1>5, <1>6, WriteInv, EndInv, BeginInv, DeliverInv,
     CloseInv
      DEF Next, Step, Send, SendReceive

\* Reading an answer that is not one's own takes an overlap of calls, or an
\* earlier call that left it behind: a Send, or a SendReceive that failed, was
\* repeated or whose answer was duplicated (SendReceive, readCtx).
THEOREM ReplyIsOwnOrStrayHolds == Spec => []ReplyIsOwnOrStray
  <1>1. Init => IInv
    BY InitInv
  <1>2. IInv /\ [Next]_vars => IInv'
    BY StepInv
  <1>3. IInv => ReplyIsOwnOrStray
    BY DEF IInv
  <1> QED BY <1>1, <1>2, <1>3, PTL DEF Spec
=============================================================================
