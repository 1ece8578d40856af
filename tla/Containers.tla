----------------------------- MODULE Containers -----------------------------
(***************************************************************************)
(* The sequential containers queue, stack, ringbuf, the sample ring of     *)
(* kafka's snapshots, bimap, multimap, lru with cache on top, set,         *)
(* priorityqueue, bitset, trie and interval: each is its fields, `obj',    *)
(* next to a mathematical reference, `ref', that an operation moves in     *)
(* step.  `out' says whether the last operation returned what the          *)
(* reference says it should have.                                          *)
(***************************************************************************)
EXTENDS Integers, Sequences, FiniteSets, FiniteSetsExt, SequencesExt, TLC

CONSTANTS
    Kinds,           \* the containers under check
    Keys, Values,
    NoValue,         \* Go's zero value
    Cap,             \* capacity of the rings; initial maxSize of the cache
    MaxLen,          \* elements of the unbounded containers
    TTLs, MaxClock,  \* ttl arguments (0 for none), and the clock's last reading
    Elements,        \* elements of sets, items of the priority queue
    Priorities,
    Word, MaxBit,    \* bits in a word of a bitset (64), and the largest index used
    Segments, MaxDepth,  \* segments of trie keys, and how many a key has
    MaxPoint,        \* intervals have their ends in 0 .. MaxPoint
    Nil

VARIABLES kind, obj, ref, out, clock

vars == <<kind, obj, ref, out, clock>>

None == <<>>
Is(k) == kind = k
Do(o, r, got, want) == obj' = o /\ ref' = r /\ out' = (got = want) /\ UNCHANGED <<kind, clock>>
-----------------------------------------------------------------------------
(* queue: a slice and the index of its front.                              *)
QueueLive(q) == SubSeq(q.items, q.head + 1, Len(q.items))

\* A compaction one element too early.
DequeueEarly(q) ==
    LET h == q.head + 1
        items == [q.items EXCEPT ![h] = NoValue]
    IN  IF h >= Len(items) \div 2 THEN [items |-> SubSeq(items, h + 2, Len(items)), head |-> 0]
        ELSE [items |-> items, head |-> h]

Dequeue(q) ==
    LET h == q.head + 1
        items == [q.items EXCEPT ![h] = NoValue]
    IN  IF h > Len(items) \div 2 THEN [items |-> SubSeq(items, h + 1, Len(items)), head |-> 0]
        ELSE [items |-> items, head |-> h]

QueueFront(q) == IF q.head >= Len(q.items) THEN NoValue ELSE q.items[q.head + 1]
QueueBack(q) == IF q.head >= Len(q.items) THEN NoValue ELSE q.items[Len(q.items)]

Queue ==
    /\ Is("queue")
    /\ \/ \E v \in Values : Len(ref) < MaxLen /\ Do([obj EXCEPT !.items = Append(@, v)], Append(ref, v), None, None)
       \/ obj.head < Len(obj.items) /\ Do(Dequeue(obj), Tail(ref), QueueFront(obj), Head(ref))
       \/ Do([items |-> <<>>, head |-> 0], <<>>, None, None)
       \/ Do(obj, ref, <<QueueFront(obj), QueueBack(obj), Len(obj.items) - obj.head>>,
                       <<IF ref = <<>> THEN NoValue ELSE Head(ref), IF ref = <<>> THEN NoValue ELSE Last(ref), Len(ref)>>)

(* stack: the reference keeps the newest element first.                    *)
StackPop(s) == SubSeq(s, 1, Len(s) - 1)

Stack ==
    /\ Is("stack")
    /\ \/ \E v \in Values : Len(ref) < MaxLen /\ Do(Append(obj, v), <<v>> \o ref, None, None)
       \/ obj # <<>> /\ Do(StackPop(obj), Tail(ref), obj[Len(obj)], Head(ref))
       \/ Do(<<>>, <<>>, None, None)
-----------------------------------------------------------------------------
(* ringbuf: `head' is the oldest element; a full buffer overwrites it.     *)
RingAt(r, i) == r.buf[(r.head + i) % Cap]
RingPush(r, v) ==
    IF r.size < Cap THEN [r EXCEPT !.buf[(r.head + r.size) % Cap] = v, !.size = @ + 1]
    ELSE [r EXCEPT !.buf[r.head] = v, !.head = (@ + 1) % Cap]
RingPop(r) == [r EXCEPT !.buf[r.head] = NoValue, !.head = (@ + 1) % Cap, !.size = @ - 1]
RingSlice(r) == [i \in 1 .. r.size |-> RingAt(r, i - 1)]
EmptyRing == [buf |-> [i \in 0 .. Cap - 1 |-> NoValue], head |-> 0, size |-> 0]
LastCap(s) == IF Len(s) > Cap THEN Tail(s) ELSE s

Ringbuf ==
    /\ Is("ringbuf")
    /\ \/ \E v \in Values : Do(RingPush(obj, v), LastCap(Append(ref, v)), None, None)
       \/ obj.size > 0 /\ Do(RingPop(obj), Tail(ref), RingAt(obj, 0), Head(ref))
       \/ obj.size > 0 /\ Do(obj, ref, RingAt(obj, obj.size - 1), Last(ref))
       \/ Do(EmptyRing, <<>>, None, None)

(* kafka's snapshotHistory: `head' is the next position to write.          *)
Record(h, v) == [buf |-> [h.buf EXCEPT ![h.head] = v], head |-> (h.head + 1) % Cap,
                 size |-> IF h.size < Cap THEN h.size + 1 ELSE h.size]
History(h) == LET start == (h.head + Cap - h.size) % Cap IN [i \in 1 .. h.size |-> h.buf[(start + i - 1) % Cap]]

Snapshots ==
    /\ Is("history")
    /\ \E v \in Values : Do(Record(obj, v), LastCap(Append(ref, v)), None, None)
-----------------------------------------------------------------------------
(* bimap: two maps; the reference is a set of pairs.                       *)
Drop(f, k) == [x \in DOMAIN f \ {k} |-> f[x]]
Put(f, k, v) == [x \in DOMAIN f \cup {k} |-> IF x = k THEN v ELSE f[x]]

Insert(b, k, v) ==
    IF k \in DOMAIN b.forward \/ v \in DOMAIN b.reverse THEN b
    ELSE [forward |-> Put(b.forward, k, v), reverse |-> Put(b.reverse, v, k)]
BiDelete(b, k) ==
    IF k \notin DOMAIN b.forward THEN b
    ELSE [forward |-> Drop(b.forward, k), reverse |-> Drop(b.reverse, b.forward[k])]
DeleteValue(b, v) ==
    IF v \notin DOMAIN b.reverse THEN b
    ELSE [forward |-> Drop(b.forward, b.reverse[v]), reverse |-> Drop(b.reverse, v)]

BiMap ==
    /\ Is("bimap")
    /\ \/ \E k \in Keys, v \in Values :
            LET free == \A p \in ref : p[1] # k /\ p[2] # v
            IN  Do(Insert(obj, k, v), IF free THEN ref \cup {<<k, v>>} ELSE ref, Insert(obj, k, v) # obj, free)
       \/ \E k \in Keys : Do(BiDelete(obj, k), {p \in ref : p[1] # k}, BiDelete(obj, k) # obj, \E p \in ref : p[1] = k)
       \/ \E v \in Values : Do(DeleteValue(obj, v), {p \in ref : p[2] # v}, DeleteValue(obj, v) # obj, \E p \in ref : p[2] = v)

(* multimap: a bucket may be there and empty (AddAll of nothing); the      *)
(* reference has a bucket, perhaps empty, for every key.                   *)
Bucket(m, k) == IF k \in DOMAIN m THEN m[k] ELSE <<>>
AddAll(m, k, vs) == Put(m, k, Bucket(m, k) \o vs)
MultiSet(m, k, vs) == IF vs = <<>> THEN Drop(m, k) ELSE Put(m, k, vs)
Present(m) == {k \in DOMAIN m : Len(m[k]) > 0}
MultiDeleteValue(m, k, v) ==
    LET at == {i \in DOMAIN Bucket(m, k) : Bucket(m, k)[i] = v}
        rest == RemoveAt(Bucket(m, k), CHOOSE i \in at : \A j \in at : i <= j)
    IN  IF at = {} THEN m ELSE IF rest = <<>> THEN Drop(m, k) ELSE Put(m, k, rest)

\* Values without the first v.
WithoutFirst(s, v) == IF v \in ToSet(s) THEN RemoveFirst(s, v) ELSE s

MultiMap ==
    /\ Is("multimap")
    /\ \E k \in Keys :
         \/ \E vs \in {<<>>} \cup {<<v>> : v \in Values} :
              Len(ref[k]) < MaxLen /\ Do(AddAll(obj, k, vs), [ref EXCEPT ![k] = @ \o vs], None, None)
         \/ \E vs \in {<<>>} \cup {<<v>> : v \in Values} : Do(MultiSet(obj, k, vs), [ref EXCEPT ![k] = vs], None, None)
         \/ Do(Drop(obj, k), [ref EXCEPT ![k] = <<>>], None, None)
         \/ \E v \in Values :
              Do(MultiDeleteValue(obj, k, v), [ref EXCEPT ![k] = WithoutFirst(@, v)],
                 MultiDeleteValue(obj, k, v) # obj, v \in ToSet(ref[k]))
-----------------------------------------------------------------------------
(* lru: the list, most recent first, with the index as its set of keys.    *)
(* The reference knows what each key holds and which was used after which. *)
Where(c, k) == CHOOSE i \in DOMAIN c.ll : c.ll[i].key = k
Expired(e) == e.exp # 0 /\ clock > e.exp
RemoveElement(c, k) == [c EXCEPT !.ll = RemoveAt(@, Where(c, k)), !.items = @ \ {k}]
ToFront(c, e) == [c EXCEPT !.ll = <<e>> \o RemoveAt(@, Where(c, e.key))]
Evict(c) == RemoveElement(c, Last(c.ll).key)
EvictNewest(c) == RemoveElement(c, Head(c.ll).key)

LruSet(c, e) ==
    IF e.key \in c.items THEN ToFront(c, e)
    ELSE LET d == [c EXCEPT !.ll = <<e>> \o @, !.items = @ \cup {e.key}]
         IN  IF c.maxSize > 0 /\ Len(d.ll) > c.maxSize THEN Evict(d) ELSE d

LruGet(c, k) ==
    IF k \notin c.items THEN c
    ELSE LET e == c.ll[Where(c, k)] IN IF Expired(e) THEN RemoveElement(c, k) ELSE ToFront(c, e)

\* Peek, and Contains by it: an expired entry goes, the order stays.
Peek(c, k) == IF k \in c.items /\ Expired(c.ll[Where(c, k)]) THEN RemoveElement(c, k) ELSE c

LruDelete(c, k) == IF k \in c.items THEN RemoveElement(c, k) ELSE c
DeleteExpired(c) == [c EXCEPT !.ll = SelectSeq(@, LAMBDA e : ~Expired(e)),
                              !.items = {k \in @ : ~Expired(c.ll[Where(c, k)])}]
Purge(c) == [c EXCEPT !.ll = <<>>, !.items = {}]
Resize(c, n) ==
    LET d == [c EXCEPT !.maxSize = n]
    IN  IF n > 0 /\ Len(c.ll) > n
        THEN [d EXCEPT !.ll = SubSeq(@, 1, n), !.items = {c.ll[i].key : i \in 1 .. n}] ELSE d

\* cache.memStore.Set: ttl 0 takes the store's default, if it has one.
CacheSet(c, k, v, ttl, default) ==
    LET d == IF ttl = 0 /\ default > 0 THEN default ELSE ttl
    IN  LruSet(c, [key |-> k, value |-> v, exp |-> IF d > 0 THEN clock + d ELSE 0])

\* The reference's side: a use, and the keys that do not fit because at least as
\* many as may stay were used after them.
Use(r, k) == {p \in r.after : k \notin {p[1], p[2]}} \cup {<<k, j>> : j \in DOMAIN r.has \ {k}}
Forget(r, S) == [r EXCEPT !.has = [k \in DOMAIN @ \ S |-> @[k]],
                          !.after = {p \in @ : {p[1], p[2]} \cap S = {}}]
Fit(r) == Forget(r, {k \in DOMAIN r.has : r.max > 0 /\ Cardinality({p \in r.after : p[2] = k}) >= r.max})
Store(r, k, v, exp) == Fit([r EXCEPT !.has = Put(@, k, [value |-> v, exp |-> exp]), !.after = Use(r, k)])
Hit(r, k) == k \in DOMAIN r.has /\ ~Expired(r.has[k])
Dead(r) == {k \in DOMAIN r.has : Expired(r.has[k])}
Found(r, k) == IF Hit(r, k) THEN r.has[k].value ELSE NoValue
Got(c, k) == IF k \in c.items THEN c.ll[Where(c, k)].value ELSE NoValue

Lru ==
    /\ Is("lru")
    /\ \/ \E k \in Keys :
            \/ \E v \in Values, ttl \in TTLs, default \in TTLs :
                 LET d == IF ttl = 0 THEN default ELSE ttl
                 IN  Do(CacheSet(obj, k, v, ttl, default),
                        Store(ref, k, v, IF d > 0 THEN clock + d ELSE 0), None, None)
            \/ Do(LruGet(obj, k),
                  IF Hit(ref, k) THEN [ref EXCEPT !.after = Use(ref, k)] ELSE Forget(ref, {k}),
                  Got(LruGet(obj, k), k), Found(ref, k))
            \/ Do(Peek(obj, k), IF Hit(ref, k) THEN ref ELSE Forget(ref, {k}), Got(Peek(obj, k), k), Found(ref, k))
            \/ Do(LruDelete(obj, k), Forget(ref, {k}), None, None)
       \/ Do(DeleteExpired(obj), Forget(ref, Dead(ref)),
             Len(obj.ll) - Len(DeleteExpired(obj).ll), Cardinality(Dead(ref)))
       \/ Do(Purge(obj), Forget(ref, Keys), None, None)
       \/ \E n \in 0 .. Cap : Do(Resize(obj, n), Fit([ref EXCEPT !.max = n]), None, None)
       \/ clock < MaxClock /\ clock' = clock + 1 /\ UNCHANGED <<kind, obj, ref, out>>
-----------------------------------------------------------------------------
-----------------------------------------------------------------------------
(* set.  obj is a pair of sets, the second of them possibly nil.           *)
Union(a, b) == (IF a = Nil THEN {} ELSE a) \cup (IF b = Nil THEN {} ELSE b)
Smaller(a, b) == IF Cardinality(b) < Cardinality(a) THEN <<b, a>> ELSE <<a, b>>
Intersect(a, b) ==
    IF a = Nil \/ b = Nil THEN {} ELSE LET s == Smaller(a, b) IN {v \in s[1] : v \in s[2]}
Difference(a, b) == IF a = Nil THEN {} ELSE {v \in a : b = Nil \/ v \notin b}
SymmetricDifference(a, b) ==
    (IF a = Nil THEN {} ELSE {v \in a : b = Nil \/ v \notin b})
        \cup (IF b = Nil THEN {} ELSE {v \in b : a = Nil \/ v \notin a})
IsSubset(sub, sup) ==
    IF sub = Nil THEN TRUE ELSE IF sup = Nil THEN sub = {} ELSE \A v \in sub : v \in sup
IsDisjoint(a, b) ==
    IF a = Nil \/ b = Nil THEN TRUE ELSE LET s == Smaller(a, b) IN ~\E v \in s[1] : v \in s[2]
Equal(a, b) ==
    IF a = Nil \/ b = Nil THEN a = Nil /\ b = Nil
    ELSE Cardinality(a) = Cardinality(b) /\ \A v \in a : v \in b
RetainAll(a, b) == {v \in a : b # Nil /\ v \in b}
RemoveAll(a, b) == IF b = Nil THEN a ELSE a \ b
Some(s) == IF s = Nil THEN {} ELSE s

Sets ==
    /\ Is("set")
    /\ LET a == obj[1]
           b == obj[2]
           To(s, got, want) == Do(<<s, b>>, <<s, b>>, got, want)
       IN  \/ \E v \in Elements : To(a \cup {v}, None, None) \/ To(a \ {v}, None, None)
           \/ \E v \in a : To(a \ {v}, v \in a, TRUE)
           \/ To(Union(a, b), None, None)
           \/ To(RetainAll(a, b), Cardinality(a) - Cardinality(RetainAll(a, b)), Cardinality(a \ Some(b)))
           \/ To(RemoveAll(a, b), Cardinality(a) - Cardinality(RemoveAll(a, b)), Cardinality(a \cap Some(b)))
           \/ \E c \in SUBSET Elements \cup {Nil} : Do(<<a, c>>, <<a, c>>, None, None)
           \/ Do(obj, ref,
                 <<Intersect(a, b), Difference(b, a), SymmetricDifference(a, b)>>,
                 <<a \cap Some(b), Some(b) \ a, (a \cup Some(b)) \ (a \cap Some(b))>>)
           \/ Do(obj, ref, <<IsSubset(b, a), IsSubset(a, b), IsDisjoint(a, b), Equal(a, b)>>,
                           <<Some(b) \subseteq a, a \subseteq Some(b), a \cap Some(b) = {}, a = b>>)
-----------------------------------------------------------------------------
(* priorityqueue: the heap, and each item's priority and index.            *)
\* container/heap: after Push, Pop or Fix the items are in some heap order, and
\* Swap has kept the index of each.
Arranged(S, prio) ==
    {h \in SetToSeqs(S) : \A i \in DOMAIN h : i > 1 => prio[h[i \div 2]] >= prio[h[i]]}
Indexed(q, h) ==
    [q EXCEPT !.h = h, !.index = [x \in Elements |-> IF x \in ToSet(h)
                                                     THEN (CHOOSE i \in DOMAIN h : h[i] = x) - 1 ELSE @[x]]]

PushItem(q, x, p) ==
    LET r == [q EXCEPT !.prio[x] = p] IN {Indexed(r, h) : h \in Arranged(ToSet(q.h) \cup {x}, r.prio)}

\* A Pop that does not mark the item as gone.
PopKeepsIndex(q) == {Indexed(q, h) : h \in Arranged(ToSet(Tail(q.h)), q.prio)}

PopItem(q) ==
    LET r == [q EXCEPT !.index[Head(q.h)] = -1] IN {Indexed(r, h) : h \in Arranged(ToSet(Tail(q.h)), r.prio)}

UpdateItem(q, x, p) ==
    IF q.index[x] < 0 \/ q.index[x] >= Len(q.h) THEN {q}
    ELSE LET r == [q EXCEPT !.prio[x] = p] IN {Indexed(r, h) : h \in Arranged(ToSet(q.h), r.prio)}

Fresh(q, x) == q.prio[x] = -1

PriorityQueue ==
    /\ Is("priorityqueue")
    /\ \/ \E x \in Elements, p \in Priorities :
            \/ Fresh(obj, x) /\ \E q \in PushItem(obj, x, p) : Do(q, [ref EXCEPT ![x] = p], None, None)
            \/ ~Fresh(obj, x) /\ \E q \in UpdateItem(obj, x, p) :
                 Do(q, IF ref[x] = -1 THEN ref ELSE [ref EXCEPT ![x] = p], None, None)
       \/ obj.h # <<>> /\ \E q \in PopItem(obj) :
            Do(q, [ref EXCEPT ![Head(obj.h)] = -1], obj.prio[Head(obj.h)], Max({ref[x] : x \in Elements}))
-----------------------------------------------------------------------------
(* bitset: words of Word bits, and the number n of bits that Test looks at.*)
Words(n) == (n + Word - 1) \div Word
Grow(b, i) ==
    LET need == (i + Word) \div Word
    IN  IF need <= Len(b.buf) THEN [b EXCEPT !.n = IF i >= @ THEN i + 1 ELSE @]
        ELSE [buf |-> b.buf \o [j \in 1 .. need - Len(b.buf) |-> {}], n |-> i + 1]
SetBit(b, i) == [Grow(b, i) EXCEPT !.buf[i \div Word + 1] = @ \cup {i % Word}]
ClearBit(b, i) == IF i >= b.n THEN b ELSE [b EXCEPT !.buf[i \div Word + 1] = @ \ {i % Word}]
Test(b, i) == i < b.n /\ i % Word \in b.buf[i \div Word + 1]
BitsOf(b) == UNION {{(j - 1) * Word + k : k \in b.buf[j]} : j \in DOMAIN b.buf}
UnionBits(b, o) ==
    LET g == IF Len(o.buf) > Len(b.buf) THEN Grow(b, o.n - 1) ELSE b
    IN  [g EXCEPT !.buf = [j \in DOMAIN g.buf |-> g.buf[j] \cup (IF j \in DOMAIN o.buf THEN o.buf[j] ELSE {})]]
IntersectBits(b, o) ==
    [b EXCEPT !.buf = [j \in DOMAIN b.buf |-> IF j \in DOMAIN o.buf THEN b.buf[j] \cap o.buf[j] ELSE {}]]
NewBits(n) == [buf |-> [j \in 1 .. Words(n) |-> {}], n |-> n]

\* Test and Clear do not look beyond n, which Union may leave behind: a bit that
\* is there and is not looked at is TestSeesEveryBit's matter.
BitSet ==
    /\ Is("bitset")
    /\ LET a == obj[1]
           o == obj[2]
           To(b, s, got, want) == Do(<<b, o>>, <<s, ref[2]>>, got, want)
       IN  \/ \E i \in 0 .. MaxBit : \/ To(SetBit(a, i), ref[1] \cup {i}, None, None)
                                     \/ /\ i \in ref[1] => i < a.n
                                        /\ \/ To(ClearBit(a, i), ref[1] \ {i}, None, None)
                                           \/ To(a, ref[1], Test(a, i), i \in ref[1])
           \/ To(UnionBits(a, o), ref[1] \cup ref[2], None, None)
           \/ To(IntersectBits(a, o), ref[1] \cap ref[2], None, None)
           \/ Do(<<o, a>>, <<ref[2], ref[1]>>, None, None)
-----------------------------------------------------------------------------
(* trie: its nodes, by path, each with the value it holds or Nil.          *)
Paths == UNION {[1 .. d -> Segments] : d \in 0 .. MaxDepth}
Children(t, p) == {q \in DOMAIN t.node : Len(q) = Len(p) + 1 /\ IsPrefix(p, q)}

TrieInsert(t, key, v) ==
    [node |-> [p \in DOMAIN t.node \cup Prefixes(key) |->
                 IF p = key THEN v ELSE IF p \in DOMAIN t.node THEN t.node[p] ELSE Nil],
     count |-> IF key \in DOMAIN t.node /\ t.node[key] # Nil THEN t.count ELSE t.count + 1]

\* The nodes a Delete prunes: up from the key while nothing hangs below and
\* nothing is held.
Pruned(t, key) ==
    {p \in Prefixes(key) \ {<<>>} :
        \A q \in Prefixes(key) : IsPrefix(p, q) =>
            /\ q = key \/ t.node[q] = Nil
            /\ Children(t, q) \subseteq Prefixes(key)}

\* Deleting the empty key takes the root's value and leaves the count.
TrieDelete(t, key) ==
    IF key \notin DOMAIN t.node \/ t.node[key] = Nil THEN t
    ELSE IF key = <<>> THEN [t EXCEPT !.node[key] = Nil]
    ELSE [node |-> [p \in DOMAIN t.node \ Pruned(t, key) |-> IF p = key THEN Nil ELSE t.node[p]],
          count |-> t.count - 1]

TrieGet(t, key) == IF key \in DOMAIN t.node THEN t.node[key] ELSE Nil

\* The descent stops at the first missing child and keeps the last value seen.
LongestPrefix(t, q) ==
    LET hits == {p \in Prefixes(q) : Prefixes(p) \subseteq DOMAIN t.node /\ t.node[p] # Nil}
    IN  IF hits = {} THEN Nil ELSE CHOOSE p \in hits : \A o \in hits : Len(o) <= Len(p)

KeysWithPrefix(t, p) == {q \in DOMAIN t.node : IsPrefix(p, q) /\ t.node[q] # Nil}

\* How often the empty key is deleted.
MaxRoot == 2
Held == {k \in Paths : ref.has[k] # Nil}
BestOf(q) == {k \in Held : IsPrefix(k, q)}

Trie ==
    /\ Is("trie")
    /\ \E k \in Paths :
         \/ Do(TrieInsert(obj, k, "v"), [ref EXCEPT !.has[k] = "v"], None, None)
         \/ /\ k = <<>> => ref.root < MaxRoot
            /\ Do(TrieDelete(obj, k),
                  [has |-> [ref.has EXCEPT ![k] = Nil],
                   root |-> IF k = <<>> /\ ref.has[k] # Nil THEN ref.root + 1 ELSE ref.root],
                  TrieDelete(obj, k) # obj, k \in Held)
         \/ Do(obj, ref, <<TrieGet(obj, k), KeysWithPrefix(obj, k)>>, <<ref.has[k], {q \in Held : IsPrefix(k, q)}>>)
         \/ Do(obj, ref, LongestPrefix(obj, k),
               IF BestOf(k) = {} THEN Nil ELSE CHOOSE p \in BestOf(k) : \A o \in BestOf(k) : IsPrefix(o, p))
-----------------------------------------------------------------------------
(* interval: [start, end).                                                 *)
Intervals == {i \in (0 .. MaxPoint) \X (0 .. MaxPoint) : i[1] < i[2]}
Points(i) == i[1] .. i[2] - 1
Overlaps(i, j) == i[1] < j[2] /\ j[1] < i[2]
Touches(i, j) == i[2] = j[1] \/ j[2] = i[1]
IUnion(i, j) == IF ~Overlaps(i, j) /\ ~Touches(i, j) THEN Nil ELSE <<Min({i[1], j[1]}), Max({i[2], j[2]})>>
IIntersect(i, j) ==
    LET s == Max({i[1], j[1]})
        e == Min({i[2], j[2]})
    IN  IF s >= e THEN Nil ELSE <<s, e>>

\* One round of Merge's loop, over the intervals sorted by their start.
MergeInto(m, cur) ==
    IF m = <<>> THEN <<cur>>
    ELSE LET last == m[Len(m)]
         IN  IF cur[1] <= last[2] THEN [m EXCEPT ![Len(m)] = <<last[1], Max({last[2], cur[2]})>>]
             ELSE Append(m, cur)
Merge(s) == FoldLeft(MergeInto, <<>>, s)

PointsOf(s) == UNION {Points(s[i]) : i \in DOMAIN s}
Apart(s) == \A i \in DOMAIN s : i > 1 => s[i - 1][2] < s[i][1]

\* The intervals come in any order that sorts them (the sort is not stable).
IntervalMerge ==
    /\ Is("interval")
    /\ \/ \E i \in Intervals : Len(obj) < 3 /\ (obj # <<>> => obj[Len(obj)][1] <= i[1])
            /\ Do(Append(obj, i), ref, None, None)
       \/ Do(obj, ref, <<PointsOf(Merge(obj)), Apart(Merge(obj))>>, <<PointsOf(obj), TRUE>>)
       \/ /\ Len(obj) = 2
          /\ LET i == obj[1]
                 j == obj[2]
                 u == IUnion(i, j)
                 n == IIntersect(i, j)
             IN  Do(obj, ref,
                    <<IF n = Nil THEN {} ELSE Points(n), Overlaps(i, j), IF u = Nil THEN Nil ELSE Points(u)>>,
                    <<Points(i) \cap Points(j), Points(i) \cap Points(j) # {},
                      IF i[2] < j[1] \/ j[2] < i[1] THEN Nil ELSE Points(i) \cup Points(j)>>)
-----------------------------------------------------------------------------

Init ==
    /\ kind \in Kinds
    /\ clock = 0 /\ out = TRUE
    /\ CASE Is("queue") -> obj = [items |-> <<>>, head |-> 0] /\ ref = <<>>
         [] Is("stack") -> obj = <<>> /\ ref = <<>>
         [] Is("ringbuf") \/ Is("history") -> obj = EmptyRing /\ ref = <<>>
         [] Is("bimap") -> obj = [forward |-> <<>>, reverse |-> <<>>] /\ ref = {}
         [] Is("multimap") -> obj = <<>> /\ ref = [k \in Keys |-> <<>>]
         [] Is("lru") -> /\ obj = [ll |-> <<>>, items |-> {}, maxSize |-> Cap]
                         /\ ref = [has |-> <<>>, after |-> {}, max |-> Cap]
         [] Is("set") -> \E b \in {Nil, {}} : obj = <<{}, b>> /\ ref = obj
         [] Is("priorityqueue") ->
              /\ ref = [x \in Elements |-> -1]
              /\ obj = [h |-> <<>>, prio |-> ref, index |-> ref]
         [] Is("bitset") -> \E n, m \in 1 .. MaxBit : obj = <<NewBits(n), NewBits(m)>> /\ ref = <<{}, {}>>
         [] Is("trie") -> /\ obj = [node |-> (<<>> :> Nil), count |-> 0]
                          /\ ref = [has |-> [k \in Paths |-> Nil], root |-> 0]
         [] Is("interval") -> obj = <<>> /\ ref = <<>>

Next ==
    \/ Queue \/ Stack \/ Ringbuf \/ Snapshots \/ BiMap \/ MultiMap \/ Lru
    \/ Sets \/ PriorityQueue \/ BitSet \/ Trie \/ IntervalMerge

Spec == Init /\ [][Next]_vars

\* The container holds what the reference holds, in the reference's order.
Same ==
    CASE Is("queue") -> QueueLive(obj) = ref
      [] Is("stack") -> Reverse(obj) = ref
      [] Is("ringbuf") -> RingSlice(obj) = ref
      [] Is("history") -> History(obj) = ref
      [] Is("bimap") -> /\ ref = {<<k, obj.forward[k]>> : k \in DOMAIN obj.forward}
                        /\ ref = {<<obj.reverse[v], v>> : v \in DOMAIN obj.reverse}
      [] Is("multimap") -> /\ \A k \in Keys : Bucket(obj, k) = ref[k]
                           /\ Present(obj) = {k \in Keys : ref[k] # <<>>}
      [] Is("lru") -> /\ obj.items = DOMAIN ref.has /\ Len(obj.ll) = Cardinality(obj.items)
                      /\ obj.maxSize > 0 => Len(obj.ll) <= obj.maxSize
                      /\ \A i \in DOMAIN obj.ll :
                           LET e == obj.ll[i] IN ref.has[e.key] = [value |-> e.value, exp |-> e.exp]
                      /\ \A i, j \in DOMAIN obj.ll : i < j => <<obj.ll[i].key, obj.ll[j].key>> \in ref.after
      [] Is("set") -> obj = ref
      [] Is("priorityqueue") ->
           /\ ToSet(obj.h) = {x \in Elements : ref[x] # -1}
           /\ \A x \in Elements : ref[x] # -1 => obj.prio[x] = ref[x]
           /\ \A x \in Elements : IF ref[x] = -1 THEN obj.index[x] = -1 ELSE obj.h[obj.index[x] + 1] = x
      [] Is("bitset") -> BitsOf(obj[1]) = ref[1] /\ BitsOf(obj[2]) = ref[2]
      [] Is("trie") -> /\ Held = {p \in DOMAIN obj.node : obj.node[p] # Nil}
                       /\ \A p \in DOMAIN obj.node \ {<<>>} : obj.node[p] = Nil => Children(obj, p) # {}
                       /\ ref.root = 0 => obj.count = Cardinality(Held)
      [] Is("interval") -> TRUE

\* After any sequence of operations a container agrees with its reference, and
\* the last operation returned what the reference says: the queue's compaction,
\* the rings' wrap-around, bimap's two maps and lru's list and index never drift,
\* the heap's indices point at their items, a trie keeps no dead branch, and its
\* count is its keys' unless the empty key was deleted (LenIsKeys).
ContainersAgree == Same /\ out

\* "Len returns the number of keys in the trie." (trie.go:198), after Delete("") too.
LenIsKeys == Is("trie") => obj.count = Cardinality(Held)

\* "Union sets all bits that are in other." (bitset.go:89) and "Test reports whether
\* bit i is present." (bitset.go:57): Test sees every bit that Set and Union have set.
TestSeesEveryBit == Is("bitset") => \A i \in 0 .. MaxBit : Test(obj[1], i) <=> i \in ref[1]
=============================================================================
