------------------------------- MODULE LogEmit ------------------------------
(***************************************************************************)
(* log4go on the caller's side of the records channel: child loggers and   *)
(* their fields, base fields, levels and sampling ("tree"), goroutines     *)
(* that change base fields ("base"), timed sampling sessions ("session"),  *)
(* the cached time stamp ("stamp"), a configuration applied to a logger    *)
(* ("setup"), what fields and records are written as ("render"), context   *)
(* extractors ("extract"), the webhook and console writers ("hook") and    *)
(* the sharded logger ("shard").  `obj' is the loggers' fields, `call' the *)
(* goroutines, `ref' what a reader expects, `out' whether the last result  *)
(* met it.                                                                 *)
(***************************************************************************)
EXTENDS Integers, Sequences, FiniteSets, FiniteSetsExt, SequencesExt

CONSTANTS
    Kinds, Threads,
    Keys,               \* of fields; a field's value is a number
    Levels, TraceIds,   \* lower levels are more severe; trace id 0 stands for none
    MaxLoggers, MaxOps, MaxClock

VARIABLES kind, obj, call, ref, out, ops

vars == <<kind, obj, call, ref, out, ops>>

Is(k) == kind = k
Count == ops < MaxOps /\ ops' = ops + 1
Do(o, r, ok) == obj' = o /\ ref' = r /\ out' = ok /\ UNCHANGED <<kind, call>>
Field(k, v) == [key |-> k, val |-> v]
-----------------------------------------------------------------------------
(* Base fields, a slice replaced as a whole.                               *)
\* SetBaseField: in the place of the key it has, or at the end.
Upsert(s, f) ==
    IF \E i \in DOMAIN s : s[i].key = f.key
    THEN [s EXCEPT ![CHOOSE i \in DOMAIN s : s[i].key = f.key /\ \A j \in 1 .. i - 1 : s[j].key # f.key] = f]
    ELSE Append(s, f)
RemoveBase(s, k) == SelectSeq(s, LAMBDA f : f.key # k)

\* deliverRecordToWriter and mergeLoggerFields: base fields first, then the logger's.
RecordFields(base, fields) == base \o fields
MergeLoggerFields(base, fields, extra) == base \o fields \o extra

\* The value a key has in a JSON object that is read the usual way: the last one.
ValueOf(fields, k) ==
    LET at == {i \in DOMAIN fields : fields[i].key = k} IN IF at = {} THEN 0 ELSE fields[Max(at)].val
-----------------------------------------------------------------------------
(* Sampling.                                                               *)
\* A sampler whose period does not start after the burst.
AllowFromStart(s, n) == n <= s.initial \/ n % s.thereafter = 0

\* Sampler.allow for the n-th record of a level.
AllowNth(s, n) == n <= s.initial \/ (n - s.initial) % s.thereafter = 0

\* What is not positive counts as 0 and 1; both: no sampling.
NewSampler(initial, thereafter) ==
    IF initial <= 0 /\ thereafter <= 0 THEN <<>>
    ELSE <<[initial |-> Max({initial, 0}), thereafter |-> IF thereafter <= 0 THEN 1 ELSE thereafter]>>

\* The id-based strategies; an id that is not there is kept.
RatioKeeps(half, id) == id = 0 \/ id < half
TailKeeps(m, keep, id) == m = 0 \/ id = 0 \/ id % m < keep
Strategies == {<<"full">>, <<"ratio", 2>>, <<"tail", 2, 1>>}
ShouldLog(s, id) ==
    CASE s[1] = "full" -> TRUE
      [] s[1] = "ratio" -> RatioKeeps(s[2], id)
      [] s[1] = "tail" -> TailKeeps(s[2], s[3], id)
-----------------------------------------------------------------------------
(* "tree": a logger is the fields that matter here; samplers are shared by *)
(* pointer, `counts' being the records each was asked for and let pass.    *)
Root == [level |-> Max(Levels), fields |-> <<>>, sampler |-> 0, strategy |-> <<"full">>, drop |-> FALSE, priority |-> -1]

Loggers == DOMAIN obj.loggers
\* A clone l, whose chain of fields is r.
Extend(l, r) == [o |-> [obj EXCEPT !.loggers = Append(@, l)], r |-> [ref EXCEPT !.chain = Append(@, r)]]

\* withField, WithFields, WithAttrs: a clone with a copy of the fields, extended.
WithField(i, f) ==
    /\ Len(obj.loggers) < MaxLoggers
    /\ LET x == Extend([obj.loggers[i] EXCEPT !.fields = Append(@, f)], Append(ref.chain[i], f))
       IN  Do(x.o, x.r, TRUE)

\* attachContextFields: what the extractors find in ctx.
ContextFields(id) == IF id = 0 THEN <<>> ELSE <<Field("trace_id", id)>>

\* WithContext: the context's fields, and the verdict on the request's id.
WithContext(i, id) ==
    /\ Len(obj.loggers) < MaxLoggers
    /\ LET l == obj.loggers[i]
           x == Extend([l EXCEPT !.fields = @ \o ContextFields(id),
                                 !.drop = IF l.strategy = <<"full">> THEN @ ELSE ~ShouldLog(l.strategy, id)],
                       ref.chain[i] \o ContextFields(id))
       IN  Do(x.o, x.r, TRUE)

\* A sampler for logger i of o: SetSampling's own, WithSampling's for a clone.
Sampled(o, i, initial, thereafter) ==
    LET s == NewSampler(initial, thereafter)
    IN  [o EXCEPT !.samplers = @ \o s,
                  !.counts = @ \o [x \in DOMAIN s |-> [l \in Levels |-> [asked |-> 0, kept |-> 0]]],
                  !.loggers[i].sampler = IF s = <<>> THEN 0 ELSE Len(o.samplers) + 1]

SetSampling(i, initial, thereafter) ==
    Len(obj.samplers) < 2 /\ Do(Sampled(obj, i, initial, thereafter), ref, TRUE)

WithSampling(i, initial, thereafter) ==
    /\ Len(obj.samplers) < 2 /\ Len(obj.loggers) < MaxLoggers
    /\ LET x == Extend(obj.loggers[i], ref.chain[i])
       IN  Do(Sampled(x.o, Len(x.o.loggers), initial, thereafter), x.r, TRUE)

SetStrategy(i, s) == Do([obj EXCEPT !.loggers[i].strategy = s], ref, TRUE)
SetLevel(i, lvl) == Do([obj EXCEPT !.loggers[i].level = lvl], ref, TRUE)
SetPriorityLevel(i, lvl) == Do([obj EXCEPT !.loggers[i].priority = lvl], ref, TRUE)

SetBase(f) == Do([obj EXCEPT !.base = Upsert(@, f)], [ref EXCEPT !.base = [@ EXCEPT ![f.key] = f.val]], TRUE)
DropBase(k) == Do([obj EXCEPT !.base = RemoveBase(@, k)], [ref EXCEPT !.base = [@ EXCEPT ![k] = 0]], TRUE)

\* The level, then the request's verdict, then the sampler, which counts only what
\* gets that far.
Passes(l, lvl) == lvl <= l.level /\ ~(l.drop /\ lvl > l.priority)
Deliver(i, lvl) ==
    LET l == obj.loggers[i]
        s == l.sampler
        n == IF s = 0 THEN 0 ELSE obj.counts[s][lvl].asked + 1
        kept == Passes(l, lvl) /\ (s = 0 \/ AllowNth(obj.samplers[s], n))
    IN  [kept |-> kept,
         counts |-> IF s = 0 \/ ~Passes(l, lvl) THEN obj.counts
                    ELSE [obj.counts EXCEPT ![s][lvl] = [asked |-> n, kept |-> @.kept + (IF kept THEN 1 ELSE 0)]]]

\* The most specific field of a name is the one that is read.
Expected(i, k) == LET own == ValueOf(ref.chain[i], k) IN IF own # 0 \/ k = "trace_id" THEN own ELSE ref.base[k]
FieldsRight(i, fields) == \A k \in Keys \cup {"trace_id"} : ValueOf(fields, k) = Expected(i, k)

Emit(i, lvl) ==
    LET d == Deliver(i, lvl)
    IN  Do([obj EXCEPT !.counts = d.counts], ref, d.kept => FieldsRight(i, RecordFields(obj.base, obj.loggers[i].fields)))

\* SlogHandler.Handle: the level only; the attributes of the call come last.
Handle(i, lvl, f) ==
    Do(obj, ref, lvl <= obj.loggers[i].level =>
                   ValueOf(MergeLoggerFields(obj.base, obj.loggers[i].fields, <<f>>), f.key) = f.val)

Tree ==
    /\ Is("tree") /\ Count
    /\ \E i \in Loggers :
          \/ \E k \in Keys, v \in 1 .. 2 : WithField(i, Field(k, v)) \/ SetBase(Field(k, v)) \/ Handle(i, Min(Levels), Field(k, v))
          \/ \E k \in Keys : DropBase(k)
          \/ \E id \in TraceIds : WithContext(i, id)
          \/ \E n, m \in 0 .. 2 : SetSampling(i, n, m) \/ WithSampling(i, n, m)
          \/ \E s \in Strategies : SetStrategy(i, s)
          \/ \E lvl \in Levels : SetLevel(i, lvl) \/ SetPriorityLevel(i, lvl) \/ Emit(i, lvl)

\* A sampler lets the burst pass and one in each period after it.
TreeOK ==
    \A s \in DOMAIN obj.samplers, lvl \in Levels :
        LET c == obj.counts[s][lvl]
            x == obj.samplers[s]
        IN  c.kept = IF c.asked <= x.initial THEN c.asked ELSE x.initial + ((c.asked - x.initial) \div x.thereafter)
-----------------------------------------------------------------------------
(* "base": SetBaseField and RemoveBaseField load the slice and store a new *)
(* one; nothing makes the two one step.                                    *)
Step(t, c) == call' = [call EXCEPT ![t] = c]

LoadBase(t) ==
    /\ call[t].pc = "idle" /\ Count
    /\ \E k \in Keys, v \in 0 .. 1 :
         /\ v = 0 => RemoveBase(obj.base, k) # obj.base    \* else there is nothing to store
         /\ Step(t, [pc |-> "store", cur |-> obj.base, key |-> k, val |-> v])
    /\ UNCHANGED <<kind, obj, ref, out>>

StoreBase(t) ==
    LET c == call[t] IN
    /\ c.pc = "store"
    /\ obj' = [obj EXCEPT !.base = IF c.val = 0 THEN RemoveBase(c.cur, c.key) ELSE Upsert(c.cur, Field(c.key, c.val))]
    /\ ref' = [raced |-> ref.raced \/ obj.base # c.cur,
               kept |-> \A k \in Keys \ {c.key} : ValueOf(obj'.base, k) = ValueOf(obj.base, k)]
    /\ Step(t, [pc |-> "idle"])
    /\ out' = (IsInjective([i \in DOMAIN obj'.base |-> obj'.base[i].key]) /\ (ref'.raced \/ ref'.kept))
    /\ UNCHANGED <<kind, ops>>

Base == Is("base") /\ \E t \in Threads : LoadBase(t) \/ StoreBase(t)
-----------------------------------------------------------------------------
(* "session": SetSamplingStrategyFor remembers the strategy it replaced;   *)
(* a strategy is the session that installed it, 0 the one from before.     *)
StartSession(t) ==
    /\ call[t].pc = "idle" /\ Count
    /\ Step(t, [pc |-> "on", prev |-> obj.strategy])
    /\ obj' = [obj EXCEPT !.strategy = ops']
    /\ ref' = (ref \/ \E u \in Threads : call[u].pc # "idle")    \* sessions have overlapped
    /\ UNCHANGED <<kind, out>>

\* The timer, or stop: once; a timer that has gone off is followed by a stop that
\* puts the old strategy back a second time.
EndSession(t) ==
    /\ call[t].pc \in {"on", "expired"}
    /\ obj' = [obj EXCEPT !.strategy = call[t].prev]
    /\ \/ Step(t, [pc |-> "idle"])
       \/ call[t].pc = "on" /\ Step(t, [call[t] EXCEPT !.pc = "expired"])
    /\ UNCHANGED <<kind, ref, out, ops>>

Session == Is("session") /\ \E t \in Threads : StartSession(t) \/ EndSession(t)

\* Sessions that do not overlap leave nothing behind.
SessionOK == ~ref /\ (\A t \in Threads : call[t].pc # "on") => obj.strategy = 0
-----------------------------------------------------------------------------
(* "stamp": the formatted second is cached in two atomics, the second and  *)
(* the string.  `ref' says whether two records were ever made together.    *)
ReadStamp(t) ==
    /\ call[t].pc = "idle" /\ Count
    /\ Step(t, [pc |-> "compare", now |-> ref.clock, str |-> obj.str])
    /\ ref' = [ref EXCEPT !.torn = @ \/ \E u \in Threads : call[u].pc # "idle"]
    /\ UNCHANGED <<kind, obj, out>>

CompareStamp(t) ==
    LET c == call[t]
        hit == c.str # 0 /\ obj.sec = c.now
    IN  /\ c.pc = "compare"
        /\ Step(t, IF hit THEN [pc |-> "idle"] ELSE [c EXCEPT !.pc = "second"])
        /\ ref' = [ref EXCEPT !.right = hit => c.str = c.now]
        /\ out' = (ref'.right \/ ref.torn)
        /\ UNCHANGED <<kind, obj, ops>>

StoreSecond(t) ==
    /\ call[t].pc = "second"
    /\ obj' = [obj EXCEPT !.sec = call[t].now]
    /\ Step(t, [call[t] EXCEPT !.pc = "string"])
    /\ UNCHANGED <<kind, ref, out, ops>>

StoreString(t) ==
    /\ call[t].pc = "string"
    /\ obj' = [obj EXCEPT !.str = call[t].now]
    /\ Step(t, [pc |-> "idle"])
    /\ UNCHANGED <<kind, ref, out, ops>>

NextSecond == ref.clock < MaxClock /\ ref' = [ref EXCEPT !.clock = @ + 1] /\ UNCHANGED <<kind, obj, call, out, ops>>

Stamp == Is("stamp") /\ (NextSecond \/ \E t \in Threads : ReadStamp(t) \/ CompareStamp(t) \/ StoreSecond(t) \/ StoreString(t))
-----------------------------------------------------------------------------
(* "setup": applyConfig.  A writer is enabled with a level of its own, or  *)
(* with one that is no level's name (-1), and then has the global one;     *)
(* `ref' is the level the logger had before.                               *)
Writers == {"console", "file", "kafka"}
LevelOf(flag, default) == IF flag = -1 THEN default ELSE flag

\* The logger's level admits what any writer wants, and is set first; writers are
\* registered in order until one fails to start, the global level when none does.
ApplyConfig(enabled, flag, global, fails) ==
    LET lvl == [w \in Writers |-> LevelOf(flag[w], global)]
        order == SelectSeq(<<"console", "file", "kafka">>, LAMBDA w : w \in enabled)
        bad == {i \in DOMAIN order : order[i] \in fails}
        upTo == IF bad = {} THEN Len(order) ELSE Min(bad) - 1
    IN  [level |-> Max({lvl[w] : w \in enabled} \cup {0}),
         writers |-> obj.writers \o SubSeq(order, 1, upTo),
         global |-> IF bad = {} THEN global ELSE obj.global,
         err |-> bad # {}]

Setup ==
    /\ Is("setup") /\ Count /\ ops < 2
    /\ \E enabled \in SUBSET Writers, flag \in [Writers -> Levels \cup {-1}], global \in Levels, fails \in SUBSET {"file", "kafka"} :
         LET o == ApplyConfig(enabled, flag, global, fails)
         IN  Do(o, obj.level,
                IF fails \cap enabled # {} THEN o.err /\ o.global = obj.global
                ELSE /\ ~o.err /\ o.global = global /\ enabled \subseteq ToSet(o.writers)
                     /\ \A w \in enabled : LevelOf(flag[w], global) <= o.level)
-----------------------------------------------------------------------------
(* "render": what fields and records become.  A Go value is its type and a *)
(* number that stands for it, in a word of three bits where the type has a *)
(* width; NonFinite is a float that is not a number or not finite, and an  *)
(* error or any value is 0 (fine), Fails or Panics.  RenderTime has times. *)
Half == 4
NonFinite == 9
Fails == 1
Panics == 2
GoValues ==
    [t : {"int", "int64", "int32", "duration"}, v : {-4, -1, 0, 3}] \cup [t : {"uint64", "uint8"}, v : {0, 3, 4, 7}]
    \cup [t : {"float64", "complex"}, v : {0, 2, NonFinite}] \cup [t : {"string", "bytes", "bool"}, v : {0, 1}]
    \cup [t : {"error", "any"}, v : {0, Fails, Panics}] \cup {[t |-> "nil", v |-> 0]}

\* fieldOf: all integers share one signed word; bytes and complex numbers become texts.
FieldOf(g) ==
    CASE g.t = "int32" -> [kind |-> "int64", i |-> g.v]
      [] g.t \in {"uint64", "uint8"} -> [kind |-> "uint", i |-> IF g.v >= Half THEN g.v - 2 * Half ELSE g.v]
      [] g.t = "complex" -> [kind |-> "string", i |-> g.v]
      [] g.t = "nil" -> [kind |-> "any", i |-> g.v]
      [] OTHER -> [kind |-> g.t, i |-> g.v]

\* slogAttrToField: what slog has no case for, unsigned numbers too, is left to the codec.
SlogAttrToField(g) ==
    [kind |-> IF g.t \in {"string", "int64", "float64", "bool", "duration"} THEN g.t ELSE "any", i |-> g.v]

Unsigned(i) == IF i < 0 THEN i + 2 * Half ELSE i
\* field.value: as wide as its kind.
Value(f) == IF f.kind = "uint" THEN Unsigned(f.i) ELSE f.i

\* safeErrorString and safeJSONMarshal: no text after a panic or an error.
SafeErrorString(f) == IF f.i = Panics THEN <<>> ELSE <<"text", f.i>>
SafeJSONMarshal(f) == IF f.i \in {Fails, Panics} THEN <<>> ELSE <<"text", f.i>>

\* <<>> is what is written as null, and in logfmt as -.
AppendFieldJSON(f) ==
    CASE f.kind \in {"string", "bytes"} -> <<"quoted", f.i>>
      [] f.kind \in {"int", "int64", "duration"} -> <<"number", f.i>>
      [] f.kind = "uint" -> <<"number", Unsigned(f.i)>>
      [] f.kind = "bool" -> <<"bool", f.i>>
      [] f.kind = "float64" -> IF f.i = NonFinite THEN <<>> ELSE <<"number", f.i>>
      [] f.kind = "error" -> SafeErrorString(f)
      [] f.kind = "any" -> SafeJSONMarshal(f)

AppendFieldLogfmt(f) ==
    CASE f.kind \in {"string", "bytes"} -> <<"value", f.i>>
      [] f.kind \in {"int", "int64", "duration"} -> <<"number", f.i>>
      [] f.kind = "uint" -> <<"number", Unsigned(f.i)>>
      [] f.kind = "bool" -> <<"bool", f.i>>
      [] f.kind = "float64" -> IF f.i = NonFinite THEN <<>> ELSE <<"number", f.i>>
      [] f.kind = "error" -> SafeErrorString(f)
      [] f.kind = "any" -> SafeJSONMarshal(f)

\* A value comes back as it went in, and is null or - only when it has no text.
NoText(g) == g \in [t : {"float64"}, v : {NonFinite}] \cup [t : {"any"}, v : {Fails, Panics}] \cup [t : {"error"}, v : {Panics}]
RenderField(g) ==
    LET f == FieldOf(g)
        panics == IF g.t \in {"error", "any"} /\ g.v = Panics THEN 2 ELSE 0    \* once in each format
    IN  Do([obj EXCEPT !.panics = @ + panics], ref,
           /\ Value(f) = g.v
           /\ \A x \in {AppendFieldJSON(f), AppendFieldLogfmt(f)} : IF NoText(g) THEN x = <<>> ELSE x[2] = g.v
           /\ SlogAttrToField(g).kind # "any" => AppendFieldJSON(SlogAttrToField(g)) = AppendFieldJSON(f))

\* What a character becomes in a JSON string, and in a quoted logfmt value; "control"
\* and "bell" are two without a short form, whose last two digits tell them apart.
Chars == {"a", "n", "u", "x", "quote", "backslash", "newline", "return", "tab", "backspace", "feed", "control", "bell"}
JSONShort == [newline |-> "n", return |-> "r", tab |-> "t", backspace |-> "b", feed |-> "f"]
LogfmtShort == [newline |-> "n", return |-> "r", tab |-> "t"]
AppendJSONStringContent(c) ==
    CASE c \in {"quote", "backslash"} -> <<"backslash", c>>
      [] c \in DOMAIN JSONShort -> <<"backslash", JSONShort[c]>>
      [] c \in {"control", "bell"} -> <<"backslash", "u", "0", "0", c>>
      [] OTHER -> <<c>>
AppendLogfmtValue(c) ==
    CASE c \in {"quote", "backslash"} -> <<"backslash", c>>
      [] c \in DOMAIN LogfmtShort -> <<"backslash", LogfmtShort[c]>>
      [] c \in {"backspace", "feed", "control", "bell"} -> <<"backslash", "x", c>>
      [] OTHER -> <<c>>

\* A text can be read back in one way only, and nothing in it ends it or its line.
RenderChars(c, d) ==
    Do(obj, ref, \A x \in {<<AppendJSONStringContent(c), AppendJSONStringContent(d)>>, <<AppendLogfmtValue(c), AppendLogfmtValue(d)>>} :
                    (c # d => ~IsPrefix(x[1], x[2])) /\ x[1][1] \notin {"quote", "newline", "return", "control", "bell"})

\* appendISOTimeUTC: Go's division cuts toward 0, time.Unix carries the rest.
Nano == 1000000000
Nanos == {-1500000001, -Nano, -1, 0, 999, 1000, 123456789, 1999999999}
AppendISOTimeUTC(n) ==
    LET sign == IF n < 0 THEN -1 ELSE 1
        sec == sign * ((sign * n) \div Nano)
        nsec == n - sec * Nano
        micros == (IF nsec < 0 THEN nsec + Nano ELSE nsec) \div 1000
    IN  [sec |-> IF nsec < 0 THEN sec - 1 ELSE sec, micros |-> [i \in 1 .. 6 |-> (micros \div (10 ^ (6 - i))) % 10]]

RenderTime(n) ==
    LET t == AppendISOTimeUTC(n)
    IN  Do(obj, ref, t.sec = n \div Nano /\ FoldLeft(LAMBDA s, d : 10 * s + d, 0, t.micros) = (n % Nano) \div 1000)

\* slogToLog4goLevel, with ERROR = 3, WARNING = 4, INFO = 6, DEBUG = 7, TRACE = 8.
SlogToLog4goLevel(sl) == CASE sl >= 8 -> 3 [] sl >= 4 -> 4 [] sl >= 0 -> 6 [] sl >= -4 -> 7 [] OTHER -> 8
RenderLevel(a, b) == Do(obj, ref, a <= b => SlogToLog4goLevel(a) >= SlogToLog4goLevel(b))

(* A record has the fields f and its own keys, all with the value Own; a   *)
(* file only when its caller was looked up.                                *)
Own == 9
Shown(keys, file) ==
    LET there == SelectSeq(keys, LAMBDA k : k # "file" \/ file) IN [i \in DOMAIN there |-> Field(there[i], Own)]
At(s, k) == {i \in DOMAIN s : s[i].key = k}

\* Record.JSON: the fields are an object of their own, `nested'.
RecordJSON(f, file) == [top |-> Shown(<<"unix_nano", "seq", "time", "level", "msg", "file">>, file), nested |-> f]
\* Record.Logfmt: all on one line.
Logfmt(f, file) == Shown(<<"time", "level", "msg", "file">>, file) \o f
\* Record.String: the fields, if there are any, as an object at the end (FieldsJSON).
RecordString(f) == Shown(<<"seq", "time", "level", "file", "msg">>, TRUE) \o (IF f = <<>> THEN <<>> ELSE <<Field("fields", f)>>)

\* The Kafka payload: the record's fields rf, and the writer's ExtraFields ef, a map.
Reserved == <<"unix_nano", "seq", "level", "file", "message", "timestamp", "now">>
KafkaReservedKey(k) == k \in ToSet(Reserved)
FirstOfEach(s) == FoldLeft(LAMBDA acc, f : IF At(acc, f.key) = {} THEN Append(acc, f) ELSE acc, <<>>, s)
UserFields(rf, ef) == IF ef = <<>> THEN rf ELSE IF rf = <<>> THEN ef ELSE FirstOfEach(rf \o ef)

AppendRoutingField(k, fields, fallback) ==
    IF At(fields, k) # {} THEN <<fields[Min(At(fields, k))]>>
    ELSE IF fallback # 0 THEN <<Field(k, fallback)>> ELSE <<>>

MarshalPayload(user, file, fallback) ==
    Shown(Reserved, file) \o AppendRoutingField("server_ip", user, 0) \o AppendRoutingField("es_index", user, fallback)
    \o SelectSeq(user, LAMBDA f : ~KafkaReservedKey(f.key) /\ f.key \notin {"server_ip", "es_index"})

\* KafkaCodecProto.Encode: own and routing keys have numbers of their own, and all
\* the fields, whatever their names, are a list beside them.
EncodeProto(user, file, fallback) ==
    [top |-> Shown(Reserved, file) \o (IF fallback = 0 THEN <<>> ELSE <<Field("es_index", fallback)>>), nested |-> user]

\* A record's own keys are there once and are its own; a routing key is there at most
\* once, a field before the writer's fallback; ExtraFields never take the place of a
\* record's field, and a field that is read has a value that the record or they gave it.
RenderRecord(rf, ef, file, fallback) ==
    LET user == UserFields(rf, ef)
        p == MarshalPayload(user, file, fallback)
        j == RecordJSON(rf, file)
        b == EncodeProto(user, file, fallback)
        given(k) == IF At(rf, k) # {} THEN {rf[i].val : i \in At(rf, k)} ELSE {ef[i].val : i \in At(ef, k)}
    IN  Do(obj, ref,
           /\ \A k \in ToSet(Reserved) : {p[i] : i \in At(p, k)} \subseteq {Field(k, Own)} /\ Cardinality(At(p, k)) = IF k # "file" \/ file THEN 1 ELSE 0
           /\ Cardinality(At(p, "es_index")) <= 1
           /\ given("es_index") = {} => ValueOf(p, "es_index") = fallback
           /\ \A k \in {"k1", "es_index"} : given(k) # {} => ValueOf(p, k) \in given(k)
           /\ ef = <<>> => ValueOf(p, "k1") = ValueOf(rf, "k1")
           /\ \A x \in {j.top, b.top} : \A i \in DOMAIN x : At(x, x[i].key) = {i} /\ x[i].val \in {Own, fallback}
           /\ ValueOf(b.nested, "k1") = ValueOf(p, "k1")
           /\ ValueOf(j.nested, "k1") = ValueOf(Logfmt(rf, file), "k1")
           /\ LET l == Logfmt(rf, file) IN l[Min(At(l, "level"))].val = Own
           /\ Len(RecordString(rf)) = 5 <=> rf = <<>>)

PayloadFields == [key : {"k1", "level", "es_index"}, val : 1 .. 2]
Extras == {<<>>, <<Field("k1", 3)>>, <<Field("es_index", 3)>>, <<Field("k1", 3), Field("es_index", 3)>>}
Render ==
    /\ Is("render") /\ Count /\ ops < 1
    /\ \/ \E g \in GoValues : RenderField(g)
       \/ \E c, d \in Chars : RenderChars(c, d)
       \/ \E n \in Nanos : RenderTime(n)
       \/ \E a, b \in -5 .. 9 : RenderLevel(a, b)
       \/ \E rf \in {<<>>} \cup {<<f>> : f \in PayloadFields} \cup (PayloadFields \X PayloadFields), ef \in Extras,
             file \in BOOLEAN, fallback \in {0, 4} : RenderRecord(rf, ef, file, fallback)
-----------------------------------------------------------------------------
(* "extract": a stack of context extractors that is copied when one is     *)
(* added; an extractor gives one key a value, or nothing (0).              *)
AddContextExtractor(k, v) ==
    /\ Count /\ obj' = [obj EXCEPT !.stack = Append(@, Field(k, v))]
    /\ UNCHANGED <<kind, call, ref, out>>

LoadExtractors(t) ==
    /\ call[t].pc = "idle" /\ Count
    /\ Step(t, [pc |-> "run", fns |-> obj.stack, i |-> 1, merged |-> [k \in Keys |-> 0]])
    /\ UNCHANGED <<kind, obj, ref, out>>

\* One extractor at a time; the result is that of the stack as it was loaded.
RunContextExtractors(t) ==
    LET c == call[t] IN
    /\ c.pc = "run"
    /\ IF c.i > Len(c.fns)
       THEN /\ Step(t, [pc |-> "idle"])
            /\ out' = /\ IsPrefix(c.fns, obj.stack)
                      /\ \A k \in Keys : c.merged[k] = ValueOf(SelectSeq(c.fns, LAMBDA f : f.val # 0), k)
       ELSE /\ Step(t, [c EXCEPT !.i = @ + 1,
                                 !.merged = IF c.fns[c.i].val = 0 THEN @ ELSE [@ EXCEPT ![c.fns[c.i].key] = c.fns[c.i].val]])
            /\ UNCHANGED out
    /\ UNCHANGED <<kind, obj, ref, ops>>

Extract ==
    /\ Is("extract")
    /\ \/ \E k \in Keys, v \in 0 .. 2 : AddContextExtractor(k, v)
       \/ \E t \in Threads : LoadExtractors(t) \/ RunContextExtractors(t)
-----------------------------------------------------------------------------
(* "hook": the webhook writer and a console or io.Writer beside it.  A     *)
(* filter is "none", or a list of field and keyword matches (or nil) that  *)
(* AllOf, AnyOf or the negation of one of them combines.                   *)
Matches == {<<"nil">>, <<"field", "k1", 1>>, <<"keyword", "w">>, <<"keyword", "empty">>}
\* FieldValue: the first field of a name.
FieldValue(r, k) == IF At(r.fields, k) = {} THEN <<>> ELSE <<r.fields[Min(At(r.fields, k))].val>>
MatchField(r, k, want) == FieldValue(r, k) = <<want>>
MatchFieldIn(r, k, wants) == FieldValue(r, k) # <<>> /\ FieldValue(r, k)[1] \in wants
MatchKeyword(r, w) == w # "empty" /\ w \in r.words
MatchKeywordIn(r, ws) == (ws \ {"empty"}) \cap r.words # {}
Holds(m, r) == IF m[1] = "field" THEN MatchField(r, m[2], m[3]) ELSE MatchKeyword(r, m[2])
AllOf(ms, r) == \A m \in ms : m # <<"nil">> => Holds(m, r)
AnyOf(ms, r) == \E m \in ms : m # <<"nil">> /\ Holds(m, r)
NotMatch(m, r) == m = <<"nil">> \/ ~Holds(m, r)

Filters == {[op |-> "none", of |-> {}]} \cup [op : {"all", "any", "notAny"}, of : SUBSET Matches]
Accepts(f, r) ==
    CASE f.op = "none" -> TRUE
      [] f.op = "all" -> AllOf(f.of, r)
      [] f.op = "any" -> AnyOf(f.of, r)
      [] f.op = "notAny" -> \A m \in f.of : NotMatch(m, r)    \* AllOf of NotMatches

\* recordAlertLevel, for the levels ERROR = 3 and WARNING = 4.
RecordAlertLevel(lvl) == IF lvl <= 3 THEN "error" ELSE IF lvl <= 4 THEN "warn" ELSE "info"

\* The level, the filter and the gate, in this order; the gate counts what it is asked.
WebhookWrite(r, gate) ==
    LET due == r.level <= obj.level /\ Accepts(obj.filter, r)
        sent == due /\ (obj.gated => gate)
    IN  [obj EXCEPT !.sent = IF sent THEN Append(@, RecordAlertLevel(r.level)) ELSE @,
                    !.skipped = IF sent THEN @ ELSE @ + 1,
                    !.asked = IF due /\ obj.gated THEN @ + 1 ELSE @]

\* ConsoleWriter.Write and IOWriter.Write: what a console buffers, Flush shows.
ConsoleWrite(o, r, id) ==
    IF o.paused \/ r.level > o.level THEN o
    ELSE IF o.buffered THEN [o EXCEPT !.buf = Append(@, id)] ELSE [o EXCEPT !.shown = Append(@, id)]

Records == [level : {3, 4, 6}, fields : {<<>>, <<Field("k1", 1)>>, <<Field("k1", 2), Field("k1", 1)>>}, words : {{}, {"w"}}]
HookWrite(r, gate) ==
    LET o == ConsoleWrite(WebhookWrite(r, gate), r, ops')
        due == r.level <= obj.level /\ Accepts(obj.filter, r)
    IN  Do(o, [ref EXCEPT !.writes = @ + 1, !.due = IF due THEN @ + 1 ELSE @,
                          !.wanted = IF obj.paused \/ r.level > obj.level THEN @ ELSE Append(@, ops')],
           /\ Len(o.sent) > Len(obj.sent) => due
           /\ \A f \in SUBSET Matches : AnyOf(f, r) <=> ~Accepts([op |-> "notAny", of |-> f], r)
           /\ MatchFieldIn(r, "k1", 1 .. 2) <=> \E v \in 1 .. 2 : MatchField(r, "k1", v)
           /\ MatchKeywordIn(r, {"w", "empty"}) <=> AnyOf({<<"keyword", "w">>, <<"keyword", "empty">>}, r))

PauseOrResume == Do([obj EXCEPT !.paused = ~@], ref, TRUE)
Flush == Do([obj EXCEPT !.shown = @ \o obj.buf, !.buf = <<>>], ref, TRUE)

\* NewWebhookWriter and NewConsoleWriterWithOptions; a level that is no level's name
\* is ERROR for the one, DEBUG for the other: here both are given.
NewWriters(f, gated, buffered, lvl) ==
    ops = 0 /\ Do([obj EXCEPT !.filter = f, !.gated = gated, !.buffered = buffered, !.level = lvl], ref, TRUE)

Hook ==
    /\ Is("hook") /\ Count
    /\ \/ \E f \in Filters, gated, buffered \in BOOLEAN, lvl \in {3, 6} : NewWriters(f, gated, buffered, lvl)
       \/ ops > 0 /\ \E r \in Records, gate \in BOOLEAN : HookWrite(r, gate)
       \/ ops > 0 /\ (PauseOrResume \/ Flush)

\* Every record is sent or skipped, the gate is asked for those that are due alone,
\* and a console shows what it was given in order.
HookOK ==
    /\ obj.gated => obj.asked = ref.due
    /\ ~obj.gated => Len(obj.sent) = ref.due
    /\ Len(obj.sent) <= ref.due /\ Len(obj.sent) + obj.skipped = ref.writes
    /\ obj.shown \o obj.buf = ref.wanted
-----------------------------------------------------------------------------
(* "shard": ShardLogger.  A writer is a number, private to the shard that  *)
(* registered it if it has state.                                          *)
AutoShardCount(procs) == Max({2, procs \div 2})
NewShardLogger(n, procs) ==
    LET shards == IF n <= 0 THEN AutoShardCount(procs) ELSE n
    IN  obj.n = 0 /\ Do([obj EXCEPT !.n = shards, !.count = [i \in 1 .. shards |-> 0], !.writers = [i \in 1 .. shards |-> {}]], ref, TRUE)

\* Register panics when shards would share a writer with state.
Register(stateful) ==
    IF obj.n > 1 /\ stateful THEN Do(obj, ref, TRUE)
    ELSE Do([obj EXCEPT !.writers = [i \in DOMAIN @ |-> @[i] \cup {<<ops', stateful>>}]], ref, TRUE)

RegisterFunc(stateful) ==
    Do([obj EXCEPT !.writers = [i \in DOMAIN @ |-> @[i] \cup {<<ops' * 10 + i, stateful>>}]], ref, TRUE)

\* pick adds to the counter and takes the rest; the record goes to that shard later.
Pick(t) ==
    /\ call[t].pc = "idle"
    /\ obj' = [obj EXCEPT !.rr = @ + 1]
    /\ Step(t, [pc |-> "log", shard |-> ((obj.rr + 1) % obj.n) + 1])
    /\ UNCHANGED <<kind, ref, out>>

LogOnShard(t) ==
    /\ call[t].pc = "log"
    /\ obj' = [obj EXCEPT !.count[call[t].shard] = @ + 1]
    /\ Step(t, [pc |-> "idle"])
    /\ UNCHANGED <<kind, ref, out, ops>>

Shard ==
    /\ Is("shard")
    /\ \/ Count /\ \E n \in 0 .. 3, procs \in {1, 4, 8} : NewShardLogger(n, procs)
       \/ Count /\ obj.n > 0 /\ \E stateful \in BOOLEAN : Register(stateful) \/ RegisterFunc(stateful)
       \/ Count /\ obj.n > 0 /\ \E t \in Threads : Pick(t)
       \/ \E t \in Threads : LogOnShard(t)

\* Shards get the same number of records, up to one, whoever logs; a writer with state
\* belongs to one of them.
ShardOK ==
    LET load(i) == obj.count[i] + Cardinality({t \in Threads : call[t].pc = "log" /\ call[t].shard = i})
    IN  \A i, j \in 1 .. obj.n : load(i) <= load(j) + 1 /\ (i # j => \A w \in obj.writers[i] \cap obj.writers[j] : ~w[2])
-----------------------------------------------------------------------------
Init ==
    /\ kind \in Kinds /\ out = TRUE /\ ops = 0
    /\ call = [t \in Threads |-> [pc |-> "idle"]]
    /\ obj = CASE kind = "tree" -> [loggers |-> <<Root>>, base |-> <<>>, samplers |-> <<>>, counts |-> <<>>]
               [] kind = "base" -> [base |-> <<>>]
               [] kind = "session" -> [strategy |-> 0]
               [] kind = "stamp" -> [sec |-> 0, str |-> 0]
               [] kind = "setup" -> [level |-> 0, writers |-> <<>>, global |-> Max(Levels), err |-> FALSE]
               [] kind = "render" -> [panics |-> 0]
               [] kind = "extract" -> [stack |-> <<>>]
               [] kind = "hook" -> [filter |-> [op |-> "none", of |-> {}], gated |-> FALSE, level |-> 0, sent |-> <<>>, skipped |-> 0,
                                    asked |-> 0, paused |-> FALSE, buffered |-> FALSE, buf |-> <<>>, shown |-> <<>>]
               [] kind = "shard" -> [n |-> 0, rr |-> 0, count |-> <<>>, writers |-> <<>>]
    /\ ref = CASE kind = "tree" -> [chain |-> <<<<>>>>, base |-> [k \in Keys |-> 0]]
               [] kind = "stamp" -> [clock |-> 1, torn |-> FALSE, right |-> TRUE]
               [] kind = "base" -> [raced |-> FALSE, kept |-> TRUE]
               [] kind = "setup" -> 0
               [] kind = "hook" -> [writes |-> 0, due |-> 0, wanted |-> <<>>]
               [] OTHER -> FALSE

Next == Tree \/ Base \/ Session \/ Stamp \/ Setup \/ Render \/ Extract \/ Hook \/ Shard
Spec == Init /\ [][Next]_vars
-----------------------------------------------------------------------------
\* A record has the fields of its logger, its logger's ancestors and the base, the
\* most specific first, whatever other loggers were derived; samplers keep their
\* rate; changes of base fields that do not overlap leave other keys alone, sampling
\* sessions that do not overlap leave nothing behind, and a cached time stamp is right
\* unless two records were made at once (what happens when they do overlap: the
\* statements below).  Once a configuration is applied no writer misses its level, and
\* one that failed leaves the package's level alone.
\* A field's value survives every format, a record's own keys are not replaced by
\* fields of the same name; context extractors merge in order, from the stack as it
\* was; what a webhook sends has passed level, filter and gate; shards share records
\* evenly and no writer with state.
EmitAgrees ==
    /\ out
    /\ (Is("tree") => TreeOK) /\ (Is("session") => SessionOK) /\ (Is("hook") => HookOK) /\ (Is("shard") => ShardOK)

\* "a mid-config failure leaves the package-level filter and the running logger
\* unchanged" (config.go:42-43): it keeps the level it had.
FailedSetupKeepsLevel == Is("setup") /\ obj.err => obj.level = ref

\* "temporarily installs s for duration, then auto-reverts to the previous strategy
\* [...] A new call overrides any active session. Safe under concurrency."
\* (log.go:1266-1270): when all sessions are over, the strategy is that from before.
SessionsRevert == Is("session") /\ (\A t \in Threads : call[t].pc # "on") => obj.strategy = 0

\* A cached stamp is for "same-second records" (log.go:1475): a record's time is the
\* second it was made in.
StampIsOfItsSecond == Is("stamp") => ref.right

\* "never has implicit side effects on other keys" (log.go:845-846): a SetBaseField or
\* RemoveBaseField leaves the values of other keys alone.
OtherKeysUntouched == Is("base") => ref.kept
=============================================================================
