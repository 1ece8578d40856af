-------------------------- MODULE RingBufferProofs --------------------------
(***************************************************************************)
(* Theorems about RingBuffer, for every set of goroutines and items and    *)
(* every capacity.                                                         *)
(***************************************************************************)
EXTENDS RingBuffer, SequenceTheorems, TLAPS

USE CapAssumption

\* The cursor arithmetic of Write, Read and Drain stays inside the buffer.
LEMMA ModInIndex == \A n \in Nat : n % Cap \in Index
  BY DEF Index

\* The part of TypeOK that the methods' data steps touch.
DataOK ==
    /\ buf \in [Index -> Items \cup {Zero}]
    /\ head \in Index
    /\ tail \in Index
    /\ count \in 0 .. Cap
    /\ closed \in BOOLEAN

CallsOK ==
    /\ waitSet \subseteq Threads
    /\ call \in [Threads -> [op : {"idle", "push", "pop"}, arg : Items \cup {Zero}]]

\* write leaves the cursors in range, and wakes every waiter.
LEMMA WriteTypes ==
  ASSUME DataOK, NEW item \in Items, count # Cap, Write(item)
  PROVE  DataOK' /\ waitSet' = {}
<1>1. head' \in Index
  <2>1. head + 1 \in Nat BY DEF DataOK, Index
  <2>2. QED BY <2>1, ModInIndex DEF Write
<1>2. buf' \in [Index -> Items \cup {Zero}] BY DEF DataOK, Write
<1>3. count' \in 0 .. Cap BY DEF DataOK, Write
<1>4. QED BY <1>1, <1>2, <1>3 DEF DataOK, Write, Broadcast

\* So does read.
LEMMA ReadTypes ==
  ASSUME DataOK, count # 0, Read
  PROVE  DataOK' /\ waitSet' = {}
<1>1. tail' \in Index
  <2>1. tail + 1 \in Nat BY DEF DataOK, Index
  <2>2. QED BY <2>1, ModInIndex DEF Read
<1>2. buf' \in [Index -> Items \cup {Zero}] BY DEF DataOK, Read
<1>3. count' \in 0 .. Cap BY DEF DataOK, Read
<1>4. QED BY <1>1, <1>2, <1>3 DEF DataOK, Read, Broadcast

\* Drain moves tail up to head, round the end of buf if need be.
LEMMA DrainTypes ==
  ASSUME DataOK, NEW t \in Threads, Drain(t)
  PROVE  DataOK' /\ waitSet' = {}
<1>1. tail' \in Index
  <2>1. tail + count \in Nat BY DEF DataOK, Index
  <2>2. QED BY <2>1, ModInIndex DEF Drain
<1>2. buf' \in [Index -> Items \cup {Zero}] BY DEF DataOK, Drain
<1>3. QED BY <1>1, <1>2 DEF DataOK, Drain, Broadcast

\* A thread that changes its own call, and at most joins the wait set itself.
LEMMA CallTypes ==
  ASSUME CallsOK, NEW t \in Threads,
         NEW c \in [op : {"idle", "push", "pop"}, arg : Items \cup {Zero}],
         call' = [call EXCEPT ![t] = c],
         waitSet' \in {{}, waitSet, waitSet \cup {t}}
  PROVE  CallsOK'
  BY DEF CallsOK

\* Between calls a thread has no argument.
LEMMA IdleType == Idle \in [op : {"idle", "push", "pop"}, arg : Items \cup {Zero}]
  BY DEF Idle

\* No method call, and no return from cond.Wait, breaks the types.
LEMMA StepTypes ==
  ASSUME TypeOK, NEW t \in Threads, Step(t)
  PROVE  TypeOK'
<1>0. DataOK /\ CallsOK BY DEF TypeOK, DataOK, CallsOK
<1>1. ASSUME NEW op \in {"push", "pop"}, NEW arg \in Items \cup {Zero}, Wait(t, op, arg)
      PROVE  DataOK' /\ CallsOK'
  <2>1. DataOK' BY <1>0, <1>1 DEF Wait, data, DataOK
  <2>2. CallsOK'
    <3>1. [op |-> op, arg |-> arg] \in [op : {"idle", "push", "pop"}, arg : Items \cup {Zero}]
      OBVIOUS
    <3>2. QED BY <1>0, <1>1, <3>1, CallTypes DEF Wait
  <2>3. QED BY <2>1, <2>2
<1>2. ASSUME NEW op, NEW ok, NEW items, Return(t, op, ok, items),
             DataOK', waitSet' \in {{}, waitSet}
      PROVE  DataOK' /\ CallsOK'
  BY <1>0, <1>2, CallTypes, IdleType DEF Return
<1>3. ASSUME NEW op, NEW ok, NEW items, Return(t, op, ok, items),
             UNCHANGED <<data, closed, waitSet>>
      PROVE  DataOK' /\ CallsOK'
  <2>1. DataOK' BY <1>0, <1>3 DEF data, DataOK
  <2>2. waitSet' = waitSet BY <1>3
  <2>3. QED BY <2>1, <2>2, <1>3, <1>2
<1>4. ASSUME NEW item \in Items, Push(t, item) PROVE DataOK' /\ CallsOK'
  <2>1. CASE Wait(t, "push", item) BY <2>1, <1>1
  <2>2. CASE Return(t, "push", FALSE, <<>>) /\ UNCHANGED <<data, closed, waitSet>>
    BY <2>2, <1>3
  <2>3. CASE count # Cap /\ Write(item) /\ Return(t, "push", TRUE, <<>>)
    BY <2>3, <1>0, <1>2, WriteTypes
  <2>4. QED BY <1>4, <2>1, <2>2, <2>3 DEF Push
<1>5. ASSUME NEW item \in Items, TryPush(t, item) PROVE DataOK' /\ CallsOK'
  <2>1. CASE Return(t, "trypush", FALSE, <<>>) /\ UNCHANGED <<data, closed, waitSet>>
    BY <2>1, <1>3
  <2>2. CASE count # Cap /\ Write(item) /\ Return(t, "trypush", TRUE, <<>>)
    BY <2>2, <1>0, <1>2, WriteTypes
  <2>3. QED BY <1>5, <2>1, <2>2 DEF TryPush
<1>6. CASE Pop(t)
  <2>1. CASE Wait(t, "pop", Zero) BY <2>1, <1>1 DEF TypeOK, DataOK, CallsOK
  <2>2. CASE Return(t, "pop", FALSE, <<>>) /\ UNCHANGED <<data, closed, waitSet>>
    BY <2>2, <1>3 DEF TypeOK, DataOK, CallsOK
  <2>3. CASE count # 0 /\ Read /\ Return(t, "pop", TRUE, <<buf[tail]>>)
    BY <2>3, <1>0, <1>2, ReadTypes DEF TypeOK, DataOK, CallsOK
  <2>4. QED BY <1>6, <2>1, <2>2, <2>3 DEF Pop
<1>7. CASE TryPop(t)
  <2>1. CASE Return(t, "trypop", FALSE, <<>>) /\ UNCHANGED <<data, closed, waitSet>>
    BY <2>1, <1>3 DEF TypeOK, DataOK, CallsOK
  <2>2. CASE count # 0 /\ Read /\ Return(t, "trypop", TRUE, <<buf[tail]>>)
    BY <2>2, <1>0, <1>2, ReadTypes DEF TypeOK, DataOK, CallsOK
  <2>3. QED BY <1>7, <2>1, <2>2 DEF TryPop
<1>8. CASE Drain(t)
  <2>1. DataOK' /\ waitSet' = {} BY <1>0, <1>8, DrainTypes
  <2>2. Return(t, "drain", TRUE, Contents) BY <1>8 DEF Drain
  <2>3. DataOK' /\ CallsOK' BY <2>1, <2>2, <1>2
  <2>4. QED BY <2>3 DEF TypeOK, DataOK, CallsOK
<1>9. CASE Close(t)
  <2>1. DataOK' /\ waitSet' = {} BY <1>0, <1>9 DEF Close, Broadcast, data, DataOK
  <2>2. Return(t, "close", TRUE, <<>>) BY <1>9 DEF Close
  <2>3. DataOK' /\ CallsOK' BY <2>1, <2>2, <1>2
  <2>4. QED BY <2>3 DEF TypeOK, DataOK, CallsOK
<1>10. (DataOK' /\ CallsOK') => TypeOK' BY DEF TypeOK, DataOK, CallsOK
<1>11. QED
  BY <1>4, <1>5, <1>6, <1>7, <1>8, <1>9, <1>10 DEF Step

\* The type invariant.
THEOREM TypeCorrect == Spec => []TypeOK
<1>1. Init => TypeOK
  BY DEF Init, TypeOK, Index, Idle
<1>2. TypeOK /\ [Next]_vars => TypeOK'
  <2>1. ASSUME TypeOK, Next PROVE TypeOK' BY <2>1, StepTypes DEF Next
  <2>2. ASSUME TypeOK, UNCHANGED vars PROVE TypeOK' BY <2>2 DEF vars, TypeOK
  <2>3. QED BY <2>1, <2>2
<1>3. QED BY <1>1, <1>2, PTL DEF Spec

-----------------------------------------------------------------------------
\* A step of Step(t) either wakes every waiter, or leaves count and closed alone
\* and parks at most t itself, on a condition that is false.
LEMMA StepWakes ==
  ASSUME TypeOK, NEW t \in Threads, Step(t)
  PROVE  \/ waitSet' = {}
         \/ /\ UNCHANGED <<count, closed, waitSet>>
            /\ t \notin waitSet \/ call[t] = Idle
            /\ call' = [call EXCEPT ![t] = Idle]
         \/ /\ UNCHANGED <<count, closed>>
            /\ ~closed
            /\ waitSet' = waitSet \cup {t}
            /\ \/ call' = [call EXCEPT ![t] = [op |-> "pop", arg |-> Zero]] /\ count = 0
               \/ \E item \in Items :
                    call' = [call EXCEPT ![t] = [op |-> "push", arg |-> item]] /\ count = Cap
<1>1. ASSUME NEW item \in Items, Push(t, item) \/ TryPush(t, item)
      PROVE  waitSet' = {} \/ UNCHANGED <<count, closed>>
  BY <1>1 DEF Push, TryPush, Wait, Write, Broadcast, data
<1>2. QED
  BY DEF Step, Push, TryPush, Pop, TryPop, Drain, Close, Running, Wait, Return, Write,
         Read, Broadcast, data

\* No method misses a Broadcast: a goroutine parked in cond.Wait has nothing it
\* could do, whatever the number of goroutines and the capacity.
THEOREM NoLostWakeupHolds == Spec => []NoLostWakeup
<1>1. Init => NoLostWakeup BY DEF Init, NoLostWakeup
<1>2. ASSUME TypeOK, NoLostWakeup, NEW t \in Threads, Step(t) PROVE NoLostWakeup'
  BY <1>2, StepWakes DEF NoLostWakeup, TypeOK, Idle
<1>3. TypeOK /\ NoLostWakeup /\ [Next]_vars => NoLostWakeup'
  <2>1. ASSUME NoLostWakeup, UNCHANGED vars PROVE NoLostWakeup'
    BY <2>1 DEF vars, NoLostWakeup
  <2>2. QED BY <1>2, <2>1 DEF Next
<1>4. QED BY <1>1, <1>3, TypeCorrect, PTL DEF Spec

-----------------------------------------------------------------------------
\* A cursor that passes the end of the buffer starts again at its beginning.
LEMMA ModWrap ==
  ASSUME NEW n \in 0 .. 2 * Cap - 1
  PROVE  n % Cap = IF n < Cap THEN n ELSE n - Cap
<1>1. CASE n < Cap BY <1>1
<1>2. CASE n >= Cap BY <1>2
<1>3. QED BY <1>1, <1>2

\* The slots from one position on are all different, and none is left out.
LEMMA SlotsDiffer ==
  ASSUME NEW p \in Index, NEW j \in Index, NEW k \in Index,
         (p + j) % Cap = (p + k) % Cap
  PROVE  j = k
<1>1. p + j \in 0 .. 2 * Cap - 1 /\ p + k \in 0 .. 2 * Cap - 1 BY DEF Index
<1>2. QED BY <1>1, ModWrap DEF Index

\* Adding to a position stays within the arithmetic of ModWrap.
LEMMA SlotBounds ==
  \A p, k \in Index : /\ p + k \in Nat
                      /\ p + k \in 0 .. 2 * Cap - 1
                      /\ p + (k + 1) \in 0 .. 2 * Cap - 1
                      /\ (p + 0) % Cap = p
  BY DEF Index

\* One step of a cursor shifts the numbering of the slots by one.
LEMMA SlotShift ==
  ASSUME NEW p \in Index, NEW k \in Index
  PROVE  /\ (((p + 1) % Cap) + k) % Cap = (p + (k + 1)) % Cap
         /\ (((p + k) % Cap) + 1) % Cap = (p + (k + 1)) % Cap
         /\ (p + Cap) % Cap = p
<1>1. /\ p \in Int /\ p >= 0 /\ p < Cap
      /\ p + 1 \in 0 .. 2 * Cap - 1 /\ p + Cap \in 0 .. 2 * Cap - 1
      /\ k \in Int /\ k >= 0 /\ k < Cap
      /\ p + k \in 0 .. 2 * Cap - 1 /\ p + (k + 1) \in 0 .. 2 * Cap - 1
  BY DEF Index
<1>2. (p + Cap) % Cap = p BY <1>1, ModWrap
<1>3. (((p + 1) % Cap) + k) % Cap = (p + (k + 1)) % Cap
  <2>1. CASE p + 1 < Cap
    <3>1. ((p + 1) % Cap) + k = p + (k + 1) BY <1>1, <2>1, ModWrap
    <3>2. QED BY <3>1
  <2>2. CASE p + 1 = Cap
    <3>1. ((p + 1) % Cap) + k = k BY <1>1, <2>2, ModWrap
    <3>2. k % Cap = k BY <1>1
    <3>3. (p + (k + 1)) % Cap = k BY <1>1, <2>2, ModWrap
    <3>4. QED BY <3>1, <3>2, <3>3
  <2>3. QED BY <1>1, <2>1, <2>2
<1>4. (((p + k) % Cap) + 1) % Cap = (p + (k + 1)) % Cap
  <2>1. CASE p + k < Cap
    <3>1. ((p + k) % Cap) + 1 = p + (k + 1) BY <1>1, <2>1, ModWrap
    <3>2. QED BY <3>1
  <2>2. CASE p + k >= Cap
    <3>1. ((p + k) % Cap) + 1 = p + k + 1 - Cap BY <1>1, <2>2, ModWrap
    <3>2. (p + k + 1 - Cap) % Cap = p + k + 1 - Cap BY <1>1, <2>2
    <3>3. (p + (k + 1)) % Cap = p + (k + 1) - Cap BY <1>1, <2>2, ModWrap
    <3>4. p + k + 1 - Cap = p + (k + 1) - Cap BY <1>1
    <3>5. QED BY <3>1, <3>2, <3>3, <3>4
  <2>3. QED BY <1>1, <2>1, <2>2
<1>5. QED BY <1>2, <1>3, <1>4

\* Write, Read and Drain preserve the agreement of the cursors.
LEMMA WriteAgrees ==
  ASSUME TypeOK, CursorsAgree, NEW item \in Items, count # Cap, Write(item)
  PROVE  CursorsAgree'
<1>1. tail \in Index /\ head \in Index /\ count \in Index /\ buf \in [Index -> Items \cup {Zero}]
  BY DEF TypeOK, Index
<1>2. tail' = tail /\ count' = count + 1 /\ buf' = [buf EXCEPT ![head] = item]
  BY DEF Write
<1>3. head' = (tail' + count') % Cap BY <1>1, <1>2, SlotShift DEF Write, CursorsAgree
<1>4. ASSUME NEW k \in 0 .. Cap - 1
      PROVE  (buf'[(tail' + k) % Cap] \in Items) <=> (k < count')
  <2>0. tail + k \in Nat BY <1>1 DEF Index
  <2>1. (tail + k) % Cap \in Index BY <2>0, ModInIndex
  <2>2. CASE k = count BY <1>1, <1>2, <2>1, <2>2 DEF CursorsAgree, Index
  <2>3. CASE k # count
    <3>1. (tail + k) % Cap # head BY <1>1, <2>3, SlotsDiffer DEF CursorsAgree, Index
    <3>2. buf'[(tail + k) % Cap] = buf[(tail + k) % Cap] BY <1>1, <1>2, <2>1, <3>1
    <3>3. k < count' <=> k < count BY <1>1, <1>2, <2>3 DEF Index
    <3>4. QED BY <1>2, <3>2, <3>3 DEF CursorsAgree
  <2>4. QED BY <2>2, <2>3
<1>5. QED BY <1>3, <1>4 DEF CursorsAgree

\* read takes the oldest item out: what remains lies between the cursors.
LEMMA ReadAgrees ==
  ASSUME TypeOK, CursorsAgree, count # 0, Read
  PROVE  CursorsAgree'
<1>1. tail \in Index /\ count \in 1 .. Cap /\ buf \in [Index -> Items \cup {Zero}]
  BY DEF TypeOK, Index
<1>2. tail' = (tail + 1) % Cap /\ count' = count - 1 /\ head' = head
      /\ buf' = [buf EXCEPT ![tail] = Zero]
  BY DEF Read
<1>3. ASSUME NEW k \in 0 .. Cap - 1
      PROVE  (buf'[(tail' + k) % Cap] \in Items) <=> (k < count')
  <2>1. CASE k = Cap - 1
    <3>1. k \in Index BY DEF Index
    <3>2. (tail' + k) % Cap = tail
      <4>1. k + 1 = Cap BY <2>1
      <4>2. QED BY <1>1, <1>2, <3>1, <4>1, SlotShift
    <3>3. buf'[(tail' + k) % Cap] = Zero BY <1>1, <1>2, <3>2
    <3>4. ~(k < count') BY <1>1, <1>2, <2>1
    <3>5. QED BY <3>3, <3>4, ZeroAssumption
  <2>2. CASE k # Cap - 1
    <3>1. (tail' + k) % Cap = (tail + (k + 1)) % Cap BY <1>1, <1>2, <2>2, SlotShift DEF Index
    <3>0. tail + (k + 1) \in Nat BY <1>1 DEF Index
    <3>2. (tail + (k + 1)) % Cap \in Index BY <3>0, ModInIndex
    <3>3. (tail + 0) % Cap = tail BY <1>1 DEF Index
    <3>4. (tail + (k + 1)) % Cap # tail
      BY <1>1, <2>2, <3>3, SlotsDiffer DEF Index
    <3>5. buf'[(tail' + k) % Cap] = buf[(tail + (k + 1)) % Cap] BY <1>1, <1>2, <3>1, <3>2, <3>4
    <3>6. k + 1 \in 0 .. Cap - 1 BY <2>2
    <3>7. k + 1 < count <=> k < count' BY <1>1, <1>2
    <3>8. QED BY <3>5, <3>6, <3>7 DEF CursorsAgree
  <2>3. QED BY <2>1, <2>2
<1>4. head' = (tail' + count') % Cap
  <2>1. count - 1 \in Index /\ (count - 1) + 1 = count BY <1>1 DEF Index
  <2>2. QED BY <1>1, <1>2, <2>1, SlotShift DEF CursorsAgree
<1>5. QED BY <1>3, <1>4 DEF CursorsAgree

\* Drain leaves nothing between the cursors.
LEMMA DrainAgrees ==
  ASSUME TypeOK, CursorsAgree, NEW t \in Threads, Drain(t)
  PROVE  CursorsAgree'
<1>1. tail \in Index /\ count \in 0 .. Cap /\ buf \in [Index -> Items \cup {Zero}]
  BY DEF TypeOK
<1>2. tail' \in Index /\ head' = tail' /\ count' = 0
  <2>1. tail + count \in Nat BY <1>1 DEF Index
  <2>2. QED BY <2>1, ModInIndex DEF Drain
<1>3. head' = (tail' + count') % Cap
  <2>1. (tail' + 0) % Cap = tail' BY <1>2, SlotBounds
  <2>2. QED BY <1>2, <2>1
<1>4. ASSUME NEW i \in Index PROVE buf'[i] \notin Items
  <2>0. buf'[i] = IF \E k \in 0 .. count - 1 : i = (tail + k) % Cap THEN Zero ELSE buf[i]
    BY DEF Drain
  <2>1. PICK j \in Index : i = (tail + j) % Cap
    <3>1. CASE i >= tail
      <4>1. i - tail \in Index /\ tail + (i - tail) = i BY <1>1, <3>1 DEF Index
      <4>2. i % Cap = i BY DEF Index
      <4>3. QED BY <4>1, <4>2
    <3>2. CASE i < tail
      <4>1. i - tail + Cap \in Index /\ tail + (i - tail + Cap) = i + Cap BY <1>1, <3>2 DEF Index
      <4>2. i + Cap \in 0 .. 2 * Cap - 1 BY DEF Index
      <4>3. (i + Cap) % Cap = i BY <4>2, ModWrap DEF Index
      <4>4. QED BY <4>1, <4>3
    <3>3. QED BY <1>1, <3>1, <3>2 DEF Index
  <2>2. CASE j < count
    <3>1. j \in 0 .. count - 1 BY <1>1, <2>2 DEF Index
    <3>2. QED BY <2>0, <2>1, <3>1, ZeroAssumption
  <2>3. CASE ~(j < count)
    <3>1. buf[i] \notin Items BY <2>1, <2>3 DEF CursorsAgree, Index
    <3>2. QED BY <2>0, <3>1, ZeroAssumption
  <2>4. QED BY <2>2, <2>3
<1>5. \A k \in 0 .. Cap - 1 : (tail' + k) % Cap \in Index
  <2>1. \A k \in 0 .. Cap - 1 : tail' + k \in Nat BY <1>2, SlotBounds DEF Index
  <2>2. QED BY <2>1, ModInIndex
<1>6. \A k \in 0 .. Cap - 1 : buf'[(tail' + k) % Cap] \notin Items BY <1>4, <1>5
<1>7. \A k \in 0 .. Cap - 1 : ~(k < count') BY <1>2
<1>8. QED BY <1>3, <1>6, <1>7 DEF CursorsAgree

\* What a step does to the data: nothing, one Write, one Read or one Drain.
LEMMA StepData ==
  ASSUME NEW t \in Threads, Step(t)
  PROVE  \/ UNCHANGED data
         \/ \E item \in Items : count # Cap /\ Write(item)
         \/ count # 0 /\ Read
         \/ Drain(t)
  BY DEF Step, Push, TryPush, Pop, TryPop, Close, Wait, data

\* The three cursors agree in every state of every run: head is count slots past
\* tail, and exactly the slots between them hold items.
THEOREM CursorsAgreeHolds == Spec => []CursorsAgree
<1>1. Init => CursorsAgree
  <2>1. \A k \in Index : k % Cap = k BY DEF Index
  <2>2. QED BY <2>1, ZeroAssumption DEF Init, CursorsAgree, Index
<1>2. TypeOK /\ CursorsAgree /\ [Next]_vars => CursorsAgree'
  <2>1. ASSUME CursorsAgree, UNCHANGED data PROVE CursorsAgree'
    BY <2>1 DEF data, CursorsAgree
  <2>2. ASSUME TypeOK, CursorsAgree, NEW t \in Threads, Step(t) PROVE CursorsAgree'
    BY <2>1, <2>2, StepData, WriteAgrees, ReadAgrees, DrainAgrees
  <2>3. QED BY <2>1, <2>2 DEF Next, vars, data
<1>3. QED BY <1>1, <1>2, TypeCorrect, PTL DEF Spec

-----------------------------------------------------------------------------
\* Append and Tail, as functions on their domains.
LEMMA AppendIsFunction ==
  ASSUME NEW S, NEW s \in Seq(S), NEW e \in S
  PROVE  Append(s, e) = [i \in 1 .. Len(s) + 1 |-> IF i = Len(s) + 1 THEN e ELSE s[i]]
<1> DEFINE f == [i \in 1 .. Len(s) + 1 |-> IF i = Len(s) + 1 THEN e ELSE s[i]]
<1>1. Len(s) \in Nat OBVIOUS
<1>2. Append(s, e) \in Seq(S) /\ Len(Append(s, e)) = Len(s) + 1 OBVIOUS
<1>3. f \in Seq(S) /\ Len(f) = Len(s) + 1 BY <1>1
<1>4. \A i \in 1 .. Len(s) + 1 : Append(s, e)[i] = f[i] BY <1>1
<1>5. QED BY <1>2, <1>3, <1>4, SeqEqual

\* Tail as a function.
LEMMA TailIsFunction ==
  ASSUME NEW S, NEW s \in Seq(S), s # <<>>
  PROVE  Tail(s) = [i \in 1 .. Len(s) - 1 |-> s[i + 1]]
<1> DEFINE f == [i \in 1 .. Len(s) - 1 |-> s[i + 1]]
<1>1. Len(s) \in Nat \ {0} OBVIOUS
<1>2. Tail(s) \in Seq(S) /\ Len(Tail(s)) = Len(s) - 1 OBVIOUS
<1>3. f \in Seq(S) /\ Len(f) = Len(s) - 1 BY <1>1
<1>4. \A i \in 1 .. Len(s) - 1 : Tail(s)[i] = f[i] BY <1>1
<1>5. QED BY <1>2, <1>3, <1>4, SeqEqual

\* Contents is a sequence of count values.
LEMMA ContentsSeq ==
  ASSUME TypeOK
  PROVE  /\ Contents \in Seq(Items \cup {Zero})
         /\ Len(Contents) = count
         /\ \A i \in 1 .. count : Contents[i] = buf[(tail + i - 1) % Cap]
<1>1. \A i \in 1 .. count : (tail + i - 1) % Cap \in Index
  <2>1. \A i \in 1 .. count : tail + i - 1 \in Nat BY DEF TypeOK, Index
  <2>2. QED BY <2>1, ModInIndex
<1>2. \A i \in 1 .. count : buf[(tail + i - 1) % Cap] \in Items \cup {Zero} BY <1>1 DEF TypeOK
<1>3. count \in Nat BY DEF TypeOK
<1>4. QED BY <1>2, <1>3 DEF Contents

\* A Write appends its item to the contents.
LEMMA WriteAppends ==
  ASSUME TypeOK, TypeOK', CursorsAgree, NEW item \in Items, count # Cap, Write(item)
  PROVE  Contents' = Append(Contents, item)
<1>1. /\ tail \in Index /\ head \in Index /\ count \in Index
      /\ buf \in [Index -> Items \cup {Zero}]
  BY DEF TypeOK, Index
<1>2. /\ tail' = tail /\ count' = count + 1 /\ buf' = [buf EXCEPT ![head] = item]
      /\ head = (tail + count) % Cap
  BY DEF Write, CursorsAgree
<1>3. Contents' = [i \in 1 .. count + 1 |-> buf'[(tail + i - 1) % Cap]]
  BY <1>2 DEF Contents
<1>4. ASSUME NEW i \in 1 .. count + 1
      PROVE  buf'[(tail + i - 1) % Cap] = IF i = count + 1 THEN item ELSE Contents[i]
  <2>1. i - 1 \in Index /\ tail + i - 1 = tail + (i - 1) /\ tail + (i - 1) \in Nat BY <1>1 DEF Index
  <2>2. (tail + (i - 1)) % Cap \in Index BY <2>1, ModInIndex
  <2>3. CASE i = count + 1
    <3>1. i - 1 = count BY <1>1, <2>3 DEF Index
    <3>2. QED BY <1>1, <1>2, <2>1, <2>2, <2>3, <3>1
  <2>4. CASE i # count + 1
    <3>1. i - 1 # count /\ i \in 1 .. count BY <1>1, <2>4 DEF Index
    <3>2. (tail + (i - 1)) % Cap # head BY <1>1, <1>2, <2>1, <3>1, SlotsDiffer
    <3>3. QED BY <1>1, <1>2, <2>1, <2>2, <2>4, <3>1, <3>2, ContentsSeq
  <2>5. QED BY <2>3, <2>4
<1>5. Append(Contents, item) = [i \in 1 .. count + 1 |-> IF i = count + 1 THEN item ELSE Contents[i]]
  <2>1. Contents \in Seq(Items \cup {Zero}) /\ Len(Contents) = count BY ContentsSeq
  <2>2. QED BY <2>1, AppendIsFunction
<1>6. QED BY <1>3, <1>4, <1>5

\* A Read takes the oldest item.
LEMMA ReadTakesHead ==
  ASSUME TypeOK, CursorsAgree, count # 0, Read
  PROVE  /\ Contents # <<>>
         /\ Head(Contents) = buf[tail]
         /\ Contents' = Tail(Contents)
<1>1. /\ tail \in Index /\ count \in 1 .. Cap
      /\ buf \in [Index -> Items \cup {Zero}]
  BY DEF TypeOK, Index
<1>2. /\ tail' = (tail + 1) % Cap /\ count' = count - 1 /\ buf' = [buf EXCEPT ![tail] = Zero]
  BY DEF Read
<1>3. Contents \in Seq(Items \cup {Zero}) /\ Len(Contents) = count BY ContentsSeq
<1>4. Head(Contents) = buf[tail]
  <2>1. tail + 1 - 1 = tail /\ tail % Cap = tail /\ 1 \in 1 .. count BY <1>1 DEF Index
  <2>2. Contents[1] = buf[tail] BY <2>1, ContentsSeq
  <2>3. QED BY <1>1, <1>3, <2>2
<1>5. Contents' = [i \in 1 .. count - 1 |-> buf'[(tail' + i - 1) % Cap]]
  BY <1>2 DEF Contents
<1>6. ASSUME NEW i \in 1 .. count - 1
      PROVE  buf'[(tail' + i - 1) % Cap] = Contents[i + 1]
  <2>1. /\ i - 1 \in Index /\ i \in Index /\ (i - 1) + 1 = i /\ tail + i \in Nat
        /\ tail + (i + 1) - 1 = tail + i /\ i + 1 \in 1 .. count /\ 0 \in Index
    BY <1>1 DEF Index
  <2>2. tail' \in Index
    <3>1. tail + 1 \in Nat BY <1>1 DEF Index
    <3>2. QED BY <1>2, <3>1, ModInIndex
  <2>3. tail' + i - 1 = tail' + (i - 1) BY <2>2 DEF Index
  <2>4. (tail' + (i - 1)) % Cap = (tail + i) % Cap
    <3>1. (((tail + 1) % Cap) + (i - 1)) % Cap = (tail + ((i - 1) + 1)) % Cap
      BY <1>1, <2>1, SlotShift
    <3>2. QED BY <1>2, <2>1, <3>1
  <2>5. (tail + i) % Cap # tail
    <3>1. (tail + 0) % Cap = tail BY <1>1, SlotBounds
    <3>2. (tail + 0) % Cap = (tail + i) % Cap => 0 = i BY <1>1, <2>1, SlotsDiffer
    <3>3. QED BY <3>1, <3>2
  <2>6. (tail + i) % Cap \in Index BY <2>1, ModInIndex
  <2>7. Contents[i + 1] = buf[(tail + i) % Cap] BY <2>1, ContentsSeq
  <2>8. QED BY <1>1, <1>2, <2>3, <2>4, <2>5, <2>6, <2>7
<1>7. Tail(Contents) = [i \in 1 .. count - 1 |-> Contents[i + 1]] BY <1>1, <1>3, TailIsFunction
<1>8. QED BY <1>1, <1>3, <1>4, <1>5, <1>6, <1>7

\* A Drain leaves an empty sequence, and so does the initial state.
LEMMA EmptyContents == ASSUME count = 0 PROVE Contents = <<>>
  BY DEF Contents

\* The contents depend on the ring alone.
LEMMA SameContents == ASSUME UNCHANGED data PROVE Contents' = Contents
  BY DEF data, Contents

\* Every method call, and every trip through cond.Wait, is a step of the queue or
\* leaves it alone.
LEMMA StepRefines ==
  ASSUME TypeOK, TypeOK', CursorsAgree, NEW t \in Threads, Step(t)
  PROVE  Fifo!Next \/ UNCHANGED Fifo!vars
<1>0. Contents \in Seq(Items \cup {Zero}) /\ Len(Contents) = count /\ count \in 0 .. Cap
  BY ContentsSeq DEF TypeOK
<1>1. ASSUME NEW op \in {"push", "trypush"}, NEW item \in Items, ~closed, count # Cap,
             Write(item), Return(t, op, TRUE, <<>>)
      PROVE  Fifo!Next
  <2>1. Fifo!Enqueue(t, op, item)
    <3>1. Len(Contents) < Cap BY <1>0, <1>1
    <3>2. Contents' = Append(Contents, item) BY <1>1, WriteAppends
    <3>3. QED BY <1>1, <3>1, <3>2 DEF Fifo!Enqueue, Fifo!Done, Return, Write
  <2>2. QED BY <2>1 DEF Fifo!Next
<1>2. ASSUME NEW op \in {"pop", "trypop"}, count # 0, Read, Return(t, op, TRUE, <<buf[tail]>>)
      PROVE  Fifo!Next
  <2>1. Fifo!Dequeue(t, op)
    BY <1>2, ReadTakesHead DEF Fifo!Dequeue, Fifo!Done, Return, Read
  <2>2. QED BY <2>1 DEF Fifo!Next
<1>3. ASSUME NEW op \in {"push", "trypush", "pop", "trypop"}, Fifo!Fails(op),
             Return(t, op, FALSE, <<>>), UNCHANGED <<data, closed, waitSet>>
      PROVE  Fifo!Next
  <2>1. Fifo!Refuse(t, op) BY <1>3, SameContents DEF Fifo!Refuse, Fifo!Done, Return
  <2>2. QED BY <2>1 DEF Fifo!Next
<1>4. ASSUME NEW op, NEW arg, Wait(t, op, arg) PROVE UNCHANGED Fifo!vars
  BY <1>4, SameContents DEF Wait, Fifo!vars
<1>5. count = 0 => Contents = <<>> BY EmptyContents
<1>6. CASE \E item \in Items : Push(t, item)
  BY <1>6, <1>1, <1>3, <1>4 DEF Push, Fifo!Fails
<1>7. CASE \E item \in Items : TryPush(t, item)
  BY <1>0, <1>7, <1>1, <1>3 DEF TryPush, Fifo!Fails
<1>8. CASE Pop(t) BY <1>5, <1>8, <1>2, <1>3, <1>4 DEF Pop, Fifo!Fails
<1>9. CASE TryPop(t) BY <1>5, <1>9, <1>2, <1>3 DEF TryPop, Fifo!Fails
<1>10. CASE Drain(t)
  <2>1. Contents' = <<>>
    <3>1. count' = 0 BY <1>10 DEF Drain
    <3>2. QED BY <3>1 DEF Contents
  <2>2. Fifo!DrainAll(t) BY <1>10, <2>1 DEF Drain, Fifo!DrainAll, Fifo!Done, Return
  <2>3. QED BY <2>2 DEF Fifo!Next
<1>11. CASE Close(t)
  <2>1. Fifo!CloseIt(t) BY <1>11, SameContents DEF Close, Fifo!CloseIt, Fifo!Done, Return
  <2>2. QED BY <2>1 DEF Fifo!Next
<1>12. QED BY <1>6, <1>7, <1>8, <1>9, <1>10, <1>11 DEF Step

\* The circular buffer implements the abstract blocking queue: what Push, TryPush,
\* Pop, TryPop, Drain and Close return is what a first-in first-out queue of at
\* most Cap items returns, through every wrap-around and every wakeup.
THEOREM RingBufferIsFifo == Spec => FifoSpec
<1>1. Init => Fifo!Init BY EmptyContents DEF Init, Fifo!Init
<1>2. TypeOK /\ TypeOK' /\ CursorsAgree /\ [Next]_vars => [Fifo!Next]_Fifo!vars
  <2>1. ASSUME UNCHANGED vars PROVE UNCHANGED Fifo!vars
    BY <2>1, SameContents DEF vars, data, Fifo!vars
  <2>2. QED BY <2>1, StepRefines DEF Next
<1>3. QED BY <1>1, <1>2, TypeCorrect, CursorsAgreeHolds, PTL DEF Spec, FifoSpec, Fifo!Spec

=============================================================================
