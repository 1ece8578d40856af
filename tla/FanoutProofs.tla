---------------------------- MODULE FanoutProofs ----------------------------
(***************************************************************************)
(* No publisher sends on a closed channel and every channel is closed once,*)
(* for any number of subscribers, publishers and concurrent Unsubscribe    *)
(* and Close calls.  A publisher's list stays inside the map, since the    *)
(* map changes only while no publisher holds the read lock; a channel      *)
(* leaves the map in the hands of exactly one writer, who closes it.       *)
(***************************************************************************)
EXTENDS Fanout, FiniteSetTheorems, TLAPS

\* The writers that have taken s out of the map and have yet to close it.
Takers(s) == {w \in Writers : writer[w].at = "close" /\ s \in writer[w].take}

\* Only who holds the read lock has subscribers to serve, and they are in the map.
ServesMap ==
    \A p \in Publishers : pub[p].rest \subseteq subs /\ (pub[p].at = "idle" => pub[p].rest = {})

\* A channel in the map, or one not yet made, is open, and nobody is to close it;
\* one taken out is closed, or one writer is to close it.
ClosedOnce ==
    \A s \in Subs :
        IF s \in made \ subs
        THEN \/ closes[s] = 1 /\ Takers(s) = {}
             \/ closes[s] = 0 /\ \E w \in Writers : Takers(s) = {w}
        ELSE closes[s] = 0 /\ Takers(s) = {}

IInv == TypeOK /\ ServesMap /\ ClosedOnce

-----------------------------------------------------------------------------
\* The initial state satisfies the invariant.
LEMMA InitInv == BufferSize \in Nat /\ Init => IInv
  <1> SUFFICES ASSUME BufferSize \in Nat, Init PROVE IInv
    OBVIOUS
  <1>1. TypeOK
    <2>1. Resting \in [at : {"idle", "publish", "blocking"}, rest : SUBSET Subs]
      BY DEF Resting
    <2>2. Doing("idle", {}) \in [at : {"idle", "lock", "signal", "close", "returned"},
                                 take : SUBSET Subs]
      BY DEF Doing
    <2>3. subs \subseteq made /\ made \subseteq Subs /\ closed \in BOOLEAN /\ done \in BOOLEAN
      BY Zenon DEF Init
    <2>4. buf \in [Subs -> 0 .. BufferSize] /\ closes \in [Subs -> Nat]
      BY DEF Init
    <2> QED BY <2>1, <2>2, <2>3, <2>4 DEF Init, TypeOK
  <1>2. ServesMap /\ ClosedOnce
    BY DEF Init, ServesMap, ClosedOnce, Takers, Resting, Doing
  <1> QED BY <1>1, <1>2 DEF IInv

\* Publishers touch neither the map nor the channels' ends.
LEMMA PublisherStep ==
    ASSUME BufferSize \in Nat, IInv, NEW p \in Publishers,
           \/ PublishCall(p, "publish") \/ PublishCall(p, "blocking")
           \/ AbortContext(p) \/ Publish(p)
    PROVE  IInv'
  <1>1. UNCHANGED <<subs, closes, made, closed, done, writer>>
    BY DEF PublishCall, AbortContext, Publish, AbortDone, PublishReturn, Deliver
  <1>2. TypeOK'
    BY DEF PublishCall, AbortContext, Publish, AbortDone, PublishReturn, Deliver, Resting,
           IInv, TypeOK
  <1>3. ServesMap'
    BY DEF PublishCall, AbortContext, Publish, AbortDone, PublishReturn, Deliver, Resting,
           IInv, TypeOK, ServesMap
  <1>4. ClosedOnce'
    BY <1>1 DEF IInv, ClosedOnce, Takers
  <1> QED BY <1>2, <1>3, <1>4 DEF IInv

\* Subscribers read and subscribe; the latter waits for the publishers.
LEMMA SubscriberStep ==
    ASSUME BufferSize \in Nat, IInv, NEW s \in Subs, Subscribe(s) \/ Receive(s)
    PROVE  IInv'
  <1>1. TypeOK'
    BY DEF Subscribe, Receive, IInv, TypeOK
  <1>2. ServesMap'
    BY DEF Subscribe, Receive, IInv, TypeOK, ServesMap
  <1>3. ClosedOnce'
    BY DEF Subscribe, Receive, IInv, TypeOK, ClosedOnce, Takers
  <1> QED BY <1>1, <1>2, <1>3 DEF IInv

\* The steps of a writer that leave the map and the channels alone.
LEMMA CallStep ==
    ASSUME IInv, NEW w \in Writers,
           \/ \E s \in Subs : UnsubscribeCall(w, s)
           \/ CloseCall(w) \/ CloseSignal(w)
    PROVE  IInv'
  <1>1. UNCHANGED <<subs, closes, made, pub, buf>>
    BY Zenon DEF UnsubscribeCall, CloseCall, CloseSignal
  <1>2. TypeOK'
    <2>1. ASSUME NEW s \in Subs, UnsubscribeCall(w, s) PROVE TypeOK'
      BY <2>1 DEF UnsubscribeCall, Doing, IInv, TypeOK
    <2>2. CASE CloseCall(w)
      BY <2>2 DEF CloseCall, Doing, IInv, TypeOK
    <2>3. CASE CloseSignal(w)
      BY <2>3 DEF CloseSignal, Doing, IInv, TypeOK
    <2> QED BY <2>1, <2>2, <2>3
  <1>3. ServesMap'
    BY <1>1 DEF IInv, ServesMap
  <1>4. /\ writer[w].at # "close" /\ writer'[w].at # "close"
        /\ \A v \in Writers \ {w} : writer'[v] = writer[v]
    BY DEF UnsubscribeCall, CloseCall, CloseSignal, Doing, IInv, TypeOK
  <1>5. \A s \in Subs : Takers(s)' = Takers(s)
    BY <1>4 DEF Takers
  <1>6. ClosedOnce'
    BY <1>1, <1>5 DEF IInv, ClosedOnce
  <1> QED BY <1>2, <1>3, <1>6 DEF IInv

\* Unsubscribe and Close take channels out of the map while no publisher is at work.
LEMMA TakeStep ==
    ASSUME IInv, NEW w \in Writers, Unsubscribe(w) \/ CloseTake(w)
    PROVE  IInv'
  <1>1. PICK taken \in SUBSET subs :
            subs' = subs \ taken /\ writer' = [writer EXCEPT ![w] = Doing("close", taken)]
    <2>1. CASE Unsubscribe(w)
      <3>1. writer[w].take \cap subs \in SUBSET subs
        OBVIOUS
      <3> QED BY <2>1, <3>1, Zenon DEF Unsubscribe
    <2>2. CASE CloseTake(w)
      <3>1. subs \in SUBSET subs
        OBVIOUS
      <3> QED BY <2>2, <3>1, Zenon DEF CloseTake
    <2> QED BY <2>1, <2>2
  <1>2. /\ UNCHANGED <<buf, closes, made, closed, done, pub>>
        /\ writer[w].at = "lock" /\ WriteLock
    BY DEF Unsubscribe, CloseTake
  <1>3. subs \subseteq made /\ made \subseteq Subs
    BY DEF IInv, TypeOK
  <1>4. TypeOK'
    BY <1>1, <1>2, <1>3 DEF IInv, TypeOK, Doing
  <1>5. ServesMap'
    BY <1>1, <1>2 DEF IInv, ServesMap, WriteLock, ReadLocked
  <1>6. \A s \in Subs : Takers(s)' = IF s \in taken THEN Takers(s) \cup {w} ELSE Takers(s)
    BY <1>1, <1>2 DEF IInv, TypeOK, Takers, Doing
  <1>7. ClosedOnce'
    BY <1>1, <1>2, <1>3, <1>6 DEF IInv, ClosedOnce
  <1> QED BY <1>4, <1>5, <1>7 DEF IInv

\* Closing a channel that was taken out.
LEMMA CloseStep ==
    ASSUME IInv, NEW w \in Writers, CloseChannel(w)
    PROVE  IInv'
  <1>1. UNCHANGED <<subs, buf, made, closed, done, pub>> /\ writer[w].at = "close"
    BY DEF CloseChannel
  <1>2. ServesMap'
    BY <1>1 DEF IInv, ServesMap
  <1>3. ASSUME NEW s \in writer[w].take,
               closes' = [closes EXCEPT ![s] = @ + 1],
               writer' = [writer EXCEPT ![w].take = @ \ {s}]
        PROVE  TypeOK' /\ ClosedOnce'
    <2>1. s \in Subs /\ w \in Takers(s)
      BY <1>1 DEF IInv, TypeOK, Takers
    <2>2. TypeOK'
      BY <1>1, <1>3, <2>1 DEF IInv, TypeOK
    <2>3. \A r \in Subs : Takers(r)' = IF r = s THEN Takers(r) \ {w} ELSE Takers(r)
      BY <1>1, <1>3, <2>1 DEF IInv, TypeOK, Takers
    <2>4. s \in made \ subs /\ closes[s] = 0 /\ Takers(s) = {w}
      BY <2>1 DEF IInv, ClosedOnce
    <2>5. ClosedOnce'
      BY <1>1, <1>3, <2>1, <2>3, <2>4 DEF IInv, TypeOK, ClosedOnce
    <2> QED BY <2>2, <2>5
  <1>4. ASSUME writer[w].take = {}, UNCHANGED closes,
               writer' = [writer EXCEPT ![w] =
                             Doing(IF w \in Closers THEN "returned" ELSE "idle", {})]
        PROVE  TypeOK' /\ ClosedOnce'
    <2>1. TypeOK'
      BY <1>1, <1>4 DEF IInv, TypeOK, Doing
    <2>2. \A r \in Subs : Takers(r)' = Takers(r)
      BY <1>1, <1>4 DEF IInv, TypeOK, Takers, Doing
    <2>3. ClosedOnce'
      BY <1>1, <1>4, <2>2 DEF IInv, ClosedOnce
    <2> QED BY <2>1, <2>3
  <1> QED BY <1>2, <1>3, <1>4 DEF CloseChannel, IInv

\* The invariant is inductive.
LEMMA StepInv ==
    ASSUME BufferSize \in Nat, IInv, [Next]_vars
    PROVE  IInv'
  <1>1. CASE Next
    BY <1>1, PublisherStep, SubscriberStep, CallStep, TakeStep, CloseStep
       DEF Next, Write, Writers
  <1>2. CASE UNCHANGED vars
    BY <1>2 DEF vars, IInv, TypeOK, ServesMap, ClosedOnce, Takers
  <1> QED BY <1>1, <1>2

\* A publisher's next subscriber has an open channel.
LEMMA InvNoSendOnClosed == IInv => NoSendOnClosed
  BY DEF IInv, TypeOK, ServesMap, ClosedOnce, NoSendOnClosed

\* A channel out of the map was closed once, or one writer is about to close it.
LEMMA InvRemovedIsClosed == IInv => RemovedIsClosed
  <1> SUFFICES ASSUME IInv, NEW s \in made \ subs
               PROVE  closes[s] + Cardinality(Takers(s)) = 1
    BY DEF RemovedIsClosed, Takers
  <1>1. s \in Subs
    BY DEF IInv, TypeOK
  <1>2. CASE closes[s] = 1 /\ Takers(s) = {}
    BY <1>2, FS_EmptySet
  <1>3. ASSUME closes[s] = 0, NEW w \in Writers, Takers(s) = {w}
        PROVE  closes[s] + Cardinality(Takers(s)) = 1
    BY <1>3, FS_Singleton
  <1> QED BY <1>1, <1>2, <1>3 DEF IInv, ClosedOnce
=============================================================================
