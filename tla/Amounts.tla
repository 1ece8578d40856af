------------------------------ MODULE Amounts -------------------------------
(***************************************************************************)
(* The arithmetic of money, decimal, base62, backoff and the retry delays, *)
(* over words of a small width; and that of choosing among candidates:     *)
(* loadbalance, consistenthash, auction, and budget's pacer, which chooses *)
(* whether to spend.  `obj' is what the code holds after a sequence of     *)
(* operations, `ref' the exact value, or what has happened since the       *)
(* candidates last changed, and `out' says whether the last operation      *)
(* returned what exact arithmetic says, or made the choice it should have. *)
(***************************************************************************)
EXTENDS Integers, Sequences, FiniteSets, FiniteSetsExt, SequencesExt

CONSTANTS
    Kinds,
    Half,            \* integers are -Half .. Half - 1, as int64 is for Half = 2^63
    Operands,        \* second operands, factors and divisors
    Ratios,          \* the ratio lists of Allocate
    MaxScale, MaxValue,    \* of decimals
    Alphabets, Word,       \* base62's alphabets, of any size, and the width of its ids
    Jitters, Bases, Maxima, MaxAttempt,
    Nodes,           \* candidates
    Weights,         \* of the balancer's entries; 0 stands for any weight that is not positive
    MaxChanges,      \* of the balancer's entries
    Scores,          \* hash values
    Prices, MaxBids, \* of an auction
    Curves,          \* the pacer's weights per bucket
    Budget, Period, Tolerance   \* the pacer's total, its period in ticks, and its tolerance in percent

VARIABLES kind, obj, ref, out

vars == <<kind, obj, ref, out>>

Is(k) == kind = k
Do(o, r, got, want) == obj' = o /\ ref' = r /\ out' = (got = want) /\ UNCHANGED kind
Check(got, want) == Do(obj, ref, got, want)
Pick(o, r, ok) == Do(o, r, ok, TRUE)
SumOf(f, S) == MapThenSumSet(LAMBDA x : f[x], S)

Fits(x) == -Half <= x /\ x < Half
Wrap(x) == ((x + Half) % (2 * Half)) - Half
AbsOf(x) == IF x < 0 THEN -x ELSE x
Quo(a, b) == IF (a < 0) = (b < 0) THEN AbsOf(a) \div AbsOf(b) ELSE -(AbsOf(a) \div AbsOf(b))
Rem(a, b) == a - b * Quo(a, b)
Pow(b, n) == FoldLeft(LAMBDA x, y : x * b, 1, [i \in 1 .. n |-> i])
Overflow == Half     \* an error: no amount is Half
-----------------------------------------------------------------------------
(* money: amounts in minor units, with the code's own overflow tests.      *)
AddChecked(a, b) == LET s == Wrap(a + b) IN IF (s > a) # (b > 0) THEN Overflow ELSE s

\* a - b as the sum with -b, which wraps for the smallest b.
SubByNegation(a, b) == LET s == Wrap(a + Wrap(-b)) IN IF (s > a) # (Wrap(-b) > 0) THEN Overflow ELSE s

SubChecked(a, b) ==
    LET d == Wrap(a - b) IN IF (a < 0) # (b < 0) /\ (a < 0) # (d < 0) THEN Overflow ELSE d

MulChecked(a, b) ==
    IF a = 0 \/ b = 0 THEN 0
    ELSE IF a = -Half /\ b = -1 THEN Overflow
    ELSE LET p == Wrap(a * b) IN IF Quo(p, b) # a THEN Overflow ELSE p

Modes == {"halfup", "halfeven", "down", "up"}

\* Whether the truncated quotient q moves a step away from zero.
RoundDir(rem, divisor, mode, q) ==
    LET twice == Wrap(2 * Wrap(AbsOf(rem)))
        div == Wrap(AbsOf(divisor))
    IN  /\ rem # 0
        /\ CASE mode = "down" -> FALSE
             [] mode = "up" -> TRUE
             [] mode = "halfeven" -> IF twice # div THEN twice > div ELSE Rem(q, 2) # 0
             [] mode = "halfup" -> twice >= div

Div(a, divisor, mode) ==
    LET q == Quo(a, divisor)
        away == IF (a < 0) # (divisor < 0) THEN q - 1 ELSE q + 1
    IN  IF a = -Half /\ divisor = -1 THEN Overflow
        ELSE IF RoundDir(Rem(a, divisor), divisor, mode, q) THEN away ELSE q

\* What a rounding mode means: the nearest integer to n/d, and which one at a tie.
Rounded(n, d, mode) ==
    LET q == Quo(n, d)
        away == IF (n < 0) # (d < 0) THEN q - 1 ELSE q + 1
        near(x, y) == AbsOf(n - x * d) < AbsOf(n - y * d)
    IN  CASE q * d = n -> q
          [] mode = "down" -> q
          [] mode = "up" -> away
          [] near(q, away) -> q
          [] near(away, q) -> away
          [] mode = "halfup" -> away
          [] mode = "halfeven" -> IF q % 2 = 0 THEN q ELSE away

\* FromMajor: whole and fraction of the same sign, scaled by the decimals, with
\* every product checked and the last sum not.
Scaled(whole, decimals) ==
    FoldLeft(LAMBDA x, i : IF x = Overflow THEN x ELSE MulChecked(x, 10), whole, [i \in 1 .. decimals |-> i])
NotLowest(x) == IF x = -Half THEN Overflow ELSE x
FromMajor(whole, frac, decimals) ==
    LET minor == Scaled(whole, decimals)
    IN  IF minor = Overflow THEN Overflow
        ELSE NotLowest(Wrap(IF whole < 0 \/ frac < 0 THEN minor - AbsOf(frac) ELSE minor + frac))

\* Parse: the digits of the whole and of the fraction, then the sign.
Parse(neg, whole, frac, decimals) ==
    LET minor == Scaled(whole, decimals)
        sum == Wrap(minor + frac)
    IN  IF minor = Overflow THEN Overflow ELSE NotLowest(IF neg THEN Wrap(-sum) ELSE sum)

\* String: sign, whole and fraction of the magnitude.
MoneyString(a, decimals) ==
    [neg |-> a < 0, whole |-> AbsOf(a) \div Pow(10, decimals), frac |-> AbsOf(a) % Pow(10, decimals)]

\* Allocate: truncated shares, then the remainder unit by unit to the largest
\* fraction, the first of them; `left' holds the fractions' numerators.
Shares(a, ratios) ==
    LET total == MapThenSumSet(LAMBDA i : ratios[i], DOMAIN ratios)
        share == [i \in DOMAIN ratios |-> Quo(a * ratios[i], total)]
        rest == a - MapThenSumSet(LAMBDA i : share[i], DOMAIN share)
        step == IF rest < 0 THEN -1 ELSE 1
        best(left) == Min({i \in DOMAIN left : \A j \in DOMAIN left : left[j] <= left[i]})
        give(s, n) == LET b == best(s.left)
                      IN  [out |-> [s.out EXCEPT ![b] = @ + step], left |-> [s.left EXCEPT ![b] = @ - step * total]]
    IN  FoldLeft(give, [out |-> share, left |-> [i \in DOMAIN ratios |-> a * ratios[i] - share[i] * total]],
                 [n \in 1 .. AbsOf(rest) |-> n]).out
Allocate(a, ratios) ==
    IF \E i \in DOMAIN ratios : MulChecked(a, ratios[i]) = Overflow THEN <<>> ELSE Shares(a, ratios)

\* A share is less than one unit from the exact one.
Proportional(a, ratios, shares) ==
    LET total == SumOf(ratios, DOMAIN ratios)
    IN  \A i \in DOMAIN ratios : AbsOf(shares[i] * total - a * ratios[i]) < total

\* No unit is lost; of an amount that is not negative the shares are proportional.
Fair(a, ratios, shares) == SumOf(shares, DOMAIN shares) = a /\ (a >= 0 => Proportional(a, ratios, shares))

Negate(a) == Wrap(-a)
Abs(a) == IF a < 0 THEN Wrap(-a) ELSE a
Cmp(a, b) == IF a < b THEN -1 ELSE IF a > b THEN 1 ELSE 0

\* The outcome of an operation: the new amount, or the old one and the error.
Becomes(got, exact) ==
    Do(IF got = Overflow THEN obj ELSE got, IF got = Overflow THEN ref ELSE exact,
       got, IF Fits(exact) THEN exact ELSE Overflow)

\* What FromMajor and Parse should make of an exact value.
Reported(exact) == IF Fits(exact) /\ exact # -Half THEN exact ELSE Overflow

\* The inputs for which a sum or a product that is not checked wraps.  What the
\* code makes of them is not what it documents (FromMajorReports, ParseReports,
\* DivRounds), so the operations below are compared on the others.
SumWraps(whole, frac) == Fits(10 * whole) /\ ~Fits(10 * whole + frac)
TwiceWraps(a, divisor) == divisor = -Half \/ 2 * AbsOf(Rem(a, divisor)) >= Half

\* Negate, Abs and String are not for -Half ("all misbehave on it", money.go:76).
Money ==
    /\ Is("money")
    /\ \/ \E b \in Operands : Becomes(AddChecked(obj, b), obj + b)
       \/ \E b \in Operands \cup {obj} : Becomes(SubChecked(obj, b), obj - b)
       \/ \E b \in Operands : Becomes(MulChecked(obj, b), obj * b)
       \/ \E b \in Operands \ {0}, mode \in Modes :
            ~TwiceWraps(obj, b) /\ Becomes(Div(obj, b, mode), Rounded(obj, b, mode))
       \/ obj # -Half /\ (Becomes(Negate(obj), -obj) \/ Becomes(Abs(obj), AbsOf(obj)))
       \/ \E b \in Operands : Check(Cmp(obj, b), IF obj = b THEN 0 ELSE (obj - b) \div AbsOf(obj - b))
       \/ \E r \in Ratios : LET s == Allocate(obj, r) IN s # <<>> /\ Check(Fair(obj, r, s), TRUE)
       \/ \E d \in 0 .. 2 :
            /\ obj # -Half
            /\ LET s == MoneyString(obj, d) IN Check(Parse(s.neg, s.whole, s.frac, d), obj)
       \/ \E whole \in {x \in Operands : x >= 0}, frac \in 0 .. 9, s \in {1, -1} :
            /\ ~SumWraps(s * whole, s * frac)
            /\ \/ Check(FromMajor(s * whole, s * frac, 1), Reported(s * (10 * whole + frac)))
               \/ Check(Parse(s < 0, whole, frac, 1), Reported(s * (10 * whole + frac)))
-----------------------------------------------------------------------------
(* decimal: integers of any size; `ref' is the value in units of the       *)
(* smallest scale.                                                         *)
DecAdd(d, e) == [d EXCEPT !.value = @ + e.value]
DecSub(d, e) == [d EXCEPT !.value = @ - e.value]
DecMul(d, n) == [d EXCEPT !.value = @ * n]
MulDecimal(d, e) == [value |-> d.value * e.value, scale |-> d.scale + e.scale]
DecDiv(d, n) == [d EXCEPT !.value = Quo(@, n)]
DecNegate(d) == [d EXCEPT !.value = -@]
DecAbs(d) == [d EXCEPT !.value = AbsOf(@)]
Rescale(d, s) ==
    IF s < 0 \/ s = d.scale THEN d
    ELSE IF s > d.scale THEN [value |-> d.value * Pow(10, s - d.scale), scale |-> s]
    ELSE [value |-> Quo(d.value, Pow(10, d.scale - s)), scale |-> s]

Digits(n) ==
    LET len == Min({l \in 1 .. 8 : n < Pow(10, l)}) IN [i \in 1 .. len |-> (n \div Pow(10, len - i)) % 10]
NumberOf(ds) == FoldLeft(LAMBDA x, y : 10 * x + y, 0, ds)
Zeros(n) == [i \in 1 .. n |-> 0]

\* String pads to one digit before the point; Parse pads the fraction to the scale.
DecString(d) ==
    LET ds == Digits(AbsOf(d.value))
        str == IF d.scale <= 0 THEN ds ELSE Zeros(d.scale + 1 - Len(ds)) \o ds
    IN  [neg |-> d.value < 0, whole |-> SubSeq(str, 1, Len(str) - d.scale),
         frac |-> SubSeq(str, Len(str) - d.scale + 1, Len(str))]
ErrParse == [value |-> 0, scale |-> -1]
DecParse(s, scale) ==
    IF scale < 0 \/ Len(s.frac) > scale THEN ErrParse
    ELSE LET v == NumberOf(s.whole \o s.frac \o Zeros(scale - Len(s.frac)))
         IN  [value |-> IF s.neg THEN -v ELSE v, scale |-> scale]

\* The value of a decimal in units of the smallest scale.
Units(d) == d.value * Pow(10, MaxScale - d.scale)
Small(d) == AbsOf(d.value) <= MaxValue /\ d.scale <= MaxScale
DecBecomes(d, exact) == Small(d) /\ Do(d, Units(d), Units(d), exact)

\* Truncation to a multiple of u: towards zero, by less than u.
TruncTo(x, u) == u * Quo(x, u)

Decimal ==
    /\ Is("decimal")
    /\ \/ \E b \in Operands :
            LET e == [value |-> b, scale |-> obj.scale] IN DecBecomes(DecAdd(obj, e), ref + Units(e))
       \/ \E b \in Operands :
            LET e == [value |-> b, scale |-> obj.scale] IN DecBecomes(DecSub(obj, e), ref - Units(e))
       \/ \E b \in Operands : DecBecomes(DecMul(obj, b), ref * b)
       \/ \E b \in Operands, s \in 0 .. MaxScale - obj.scale :
            DecBecomes(MulDecimal(obj, [value |-> b, scale |-> s]), (ref * b) \div Pow(10, s))
       \/ \E b \in Operands \ {0} : DecBecomes(DecDiv(obj, b), TruncTo(Quo(ref, b), Pow(10, MaxScale - obj.scale)))
       \/ DecBecomes(DecNegate(obj), -ref) \/ DecBecomes(DecAbs(obj), AbsOf(ref))
       \/ \E s \in 0 .. MaxScale : DecBecomes(Rescale(obj, s), TruncTo(ref, Pow(10, MaxScale - s)))
       \/ \E s \in obj.scale .. MaxScale :
            Check(Units(DecParse(DecString(obj), s)), ref)
       \/ obj.scale > 0 /\ Check(DecParse(DecString(obj), obj.scale - 1), ErrParse)
-----------------------------------------------------------------------------
(* base62, over alphabets of any size.                                     *)
ErrInvalid == Word   \* no id is Word
Encode(id, alphabet) ==
    LET n == Len(alphabet)
        len == Min({l \in 1 .. 12 : id < Pow(n, l)})
    IN  [i \in 1 .. len |-> alphabet[((id \div Pow(n, len - i)) % n) + 1]]

\* The table: the last position of each symbol; a symbol seen twice is refused.
Unique(alphabet) == \A i, j \in DOMAIN alphabet : alphabet[i] = alphabet[j] => i = j
DecodeTable(alphabet) ==
    [c \in ToSet(alphabet) |-> Max({i \in DOMAIN alphabet : alphabet[i] = c}) - 1]
DecodeWithTable(s, table, n) ==
    IF s = <<>> \/ \E i \in DOMAIN s : s[i] \notin DOMAIN table THEN ErrInvalid
    ELSE FoldLeft(LAMBDA x, c : (x * n + table[c]) % Word, 0, s)
DecodeWithAlphabet(s, alphabet) ==
    IF ~Unique(alphabet) THEN ErrInvalid ELSE DecodeWithTable(s, DecodeTable(alphabet), Len(alphabet))

\* What the symbols say, place by place; a symbol's digit is its place in the alphabet.
PlaceValue(s, alphabet) ==
    LET digit(c) == CHOOSE d \in 0 .. Len(alphabet) - 1 : alphabet[d + 1] = c
    IN  MapThenSumSet(LAMBDA i : digit(s[i]) * Pow(Len(alphabet), Len(s) - i), DOMAIN s)

\* An id is encoded with one alphabet and decoded with another, or the same.
Base62 ==
    /\ Is("base62")
    /\ \E a, b \in Alphabets :
         /\ Unique(a)
         /\ LET got == DecodeWithAlphabet(Encode(obj, a), b)
            IN  Do((obj + 1) % Word, (obj + 1) % Word,
                   got, IF ~Unique(b) \/ ToSet(Encode(obj, a)) \ ToSet(b) # {} THEN ErrInvalid
                        ELSE IF a = b THEN obj ELSE PlaceValue(Encode(obj, a), b) % Word)
-----------------------------------------------------------------------------
(* backoff.Backoff: `ref' is the number of delays since the last Reset.    *)
\* randRange: from lo to hi, both included.
RandRange(lo, hi) == IF hi <= lo THEN {lo} ELSE lo .. hi

\* advance: doubled (WithFactor(2)) until it reaches the maximum.
AdvanceRaw(b) == IF b.raw >= b.max \/ 2 * b.raw >= b.max THEN b.max ELSE 2 * b.raw

\* A decorrelated delay that forgets the maximum.
DelaysUncapped(b) ==
    IF b.jitter = "decorrelated" THEN RandRange(b.base, Max({b.base, Wrap(3 * b.last)})) ELSE {b.raw}

\* computeLocked: the delays Next may return.
Delays(b) ==
    CASE b.jitter = "decorrelated" ->
            {Min({d, b.max}) : d \in RandRange(b.base, Max({b.base, Wrap(3 * b.last)}))}
      [] b.jitter = "full" -> RandRange(0, b.raw)
      [] b.jitter = "equal" -> {b.raw \div 2 + d : d \in RandRange(0, b.raw \div 2)}
      [] b.jitter = "none" -> {b.raw}

NextDelay(b, d) ==
    [b EXCEPT !.attempt = @ + 1,
              !.raw = IF b.jitter = "decorrelated" THEN @ ELSE AdvanceRaw(b),
              !.last = IF b.jitter = "decorrelated" THEN d ELSE @]

\* New: the base is not negative, and the maximum no smaller.
NewBackoff(jitter, base, max, n) ==
    LET b == Max({base, 0})
    IN  [jitter |-> jitter, base |-> b, max |-> Max({max, b}), maxAttempts |-> n, attempt |-> 0, raw |-> b, last |-> b]
ResetBackoff(b) == [b EXCEPT !.attempt = 0, !.raw = b.base, !.last = b.base]

\* The delay the attempt is due before jitter: base * 2^attempt, at most max.
Due(b, attempt) == Min({b.max, b.base * Pow(2, attempt)})

Backoff ==
    /\ Is("backoff")
    /\ \/ /\ obj.maxAttempts = 0 \/ obj.attempt < obj.maxAttempts
          /\ ref < MaxAttempt
          /\ \E d \in Delays(obj) :
               Do(NextDelay(obj, d), ref + 1,
                  /\ 0 <= d /\ d <= obj.max
                  /\ obj.jitter # "decorrelated" => d <= Due(obj, ref)
                  /\ obj.jitter = "none" => d = Due(obj, ref)
                  /\ obj.jitter = "equal" => d >= Due(obj, ref) \div 2, TRUE)
       \/ Do(ResetBackoff(obj), 0, 0, 0)
-----------------------------------------------------------------------------
(* The delays between attempts, before jitter: retryDelay, of which        *)
(* httpclient, grpcclient, tcpclient and udpclient have a copy each, and   *)
(* retry.ExponentialBackoff.                                               *)
Doubled(attempt, min, max) ==
    FoldLeft(LAMBDA x, i : IF x >= max THEN x ELSE IF Wrap(2 * x) <= x THEN max ELSE Wrap(2 * x),
             min, [i \in 1 .. attempt |-> i])
RetryDelay(attempt, min, max) == IF min <= 0 \/ max <= 0 THEN 0 ELSE Min({max, Doubled(attempt, min, max)})
HttpRetryDelay(attempt, min, max) == RetryDelay(attempt, min, max)
GrpcRetryDelay(attempt, min, max) == RetryDelay(attempt, min, max)
TcpRetryDelay(attempt, min, max) == RetryDelay(attempt, min, max)
UdpRetryDelay(attempt, min, max) == RetryDelay(attempt, min, max)

\* A shift instead of repeated doubling; 30 is as far as a shift is tried.
ExponentialBackoff(attempt, base, max) ==
    LET d == Wrap(base * Pow(2, attempt - 1)) IN IF attempt > 30 \/ d > max \/ d <= 0 THEN max ELSE d

\* The shift is exact as long as it does not leave the word.
Delay ==
    /\ Is("delay") /\ obj < MaxAttempt
    /\ \E min \in Bases, max \in Maxima :
         LET due == IF min <= 0 \/ max <= 0 THEN 0 ELSE Min({max, min * Pow(2, obj)})
         IN  Do(obj + 1, ref,
                /\ HttpRetryDelay(obj, min, max) = due /\ GrpcRetryDelay(obj, min, max) = due
                /\ TcpRetryDelay(obj, min, max) = due /\ UdpRetryDelay(obj, min, max) = due
                /\ min > 0 /\ max > 0 /\ Fits(min * Pow(2, obj)) => ExponentialBackoff(obj + 1, min, max) = due, TRUE)
-----------------------------------------------------------------------------
-----------------------------------------------------------------------------
(* loadbalance.                                                            *)
Indices(b) == DOMAIN b.entries
IndexOf(b, v) == {i \in Indices(b) : b.entries[i].value = v}

\* addLocked: an entry that is there gets the new weight and starts over.
AddEntry(b, v, weight) ==
    LET w == IF weight <= 0 THEN 1 ELSE weight
        at == IndexOf(b, v)
        i == CHOOSE j \in at : TRUE
    IN  IF at = {} THEN [b EXCEPT !.entries = Append(@, [value |-> v, weight |-> w, current |-> 0]),
                                  !.totalWeight = @ + w]
        ELSE [b EXCEPT !.entries[i] = [value |-> v, weight |-> w, current |-> 0],
                       !.totalWeight = (@ - b.entries[i].weight) + w]

RemoveEntry(b, v) ==
    [b EXCEPT !.entries = SelectSeq(@, LAMBDA e : e.value # v),
              !.totalWeight = @ - MapThenSumSet(LAMBDA i : b.entries[i].weight, IndexOf(b, v))]

\* nextRoundRobin and nextSWRR: the position taken, and the balancer after it.
NextRoundRobin(b) ==
    LET i == IF b.rrIdx >= Len(b.entries) THEN 0 ELSE b.rrIdx IN [at |-> i + 1, b |-> [b EXCEPT !.rrIdx = i + 1]]

\* The last of the largest instead of the first, and no deduction.
NextGreedy(b) ==
    LET e == [i \in Indices(b) |-> [b.entries[i] EXCEPT !.current = @ + b.entries[i].weight]]
        best == Max({i \in Indices(b) : \A j \in Indices(b) : e[j].current <= e[i].current})
    IN  [at |-> best, b |-> [b EXCEPT !.entries = [e EXCEPT ![best].current = 0]]]

NextSWRR(b) ==
    LET e == [i \in Indices(b) |-> [b.entries[i] EXCEPT !.current = @ + b.entries[i].weight]]
        best == Min({i \in Indices(b) : \A j \in Indices(b) : e[j].current <= e[i].current})
    IN  [at |-> best, b |-> [b EXCEPT !.entries = [e EXCEPT ![best].current = @ - b.totalWeight]]]

\* nextWeightedRandom: the entry for the random number r.
WeightedRandom(b, r) ==
    LET upTo(i) == MapThenSumSet(LAMBDA j : b.entries[j].weight, 1 .. i)
    IN  Min({i \in Indices(b) : r < upTo(i)} \cup {Len(b.entries)})

NextPick(b) == IF b.strategy = "rr" THEN NextRoundRobin(b) ELSE NextSWRR(b)

\* `ref': the positions taken since the entries last changed, whether all
\* current weights were 0 then, and how often they have changed.
Fresh(b, n) == [picks |-> <<>>, level |-> \A i \in Indices(b) : b.entries[i].current = 0, changes |-> n]
Changed(b) == ref.changes < MaxChanges /\ Pick(b, Fresh(b, ref.changes + 1), TRUE)

\* Round robin takes all before it takes one again; smooth round robin takes each
\* in proportion to its weight, and no random number belongs to two entries.
PickOK(b, r) ==
    /\ b.strategy = "rr" =>
         \A i, j \in DOMAIN r.picks : i < j /\ j < i + Len(b.entries) => r.picks[i] # r.picks[j]
    /\ b.strategy = "swrr" /\ r.level /\ Len(r.picks) = b.totalWeight =>
         \A e \in Indices(b) : Cardinality({i \in DOMAIN r.picks : r.picks[i] = e}) = b.entries[e].weight
    /\ b.strategy = "random" =>
         \A e \in Indices(b) : Cardinality({x \in 0 .. b.totalWeight - 1 : WeightedRandom(b, x) = e}) = b.entries[e].weight

Balancer ==
    /\ Is("balancer")
    /\ \/ \E v \in Nodes, w \in Weights : Changed(AddEntry(obj, v, w))
       \/ \E v \in Nodes : Changed(RemoveEntry(obj, v))
       \/ /\ obj.entries # <<>> /\ Len(ref.picks) < obj.totalWeight
          /\ IF obj.strategy = "random" THEN Pick(obj, ref, PickOK(obj, ref))
             ELSE LET p == NextPick(obj)
                      r == [ref EXCEPT !.picks = Append(@, p.at)]
                  IN  Pick(p.b, r, PickOK(p.b, r))

BalancerOK == obj.totalWeight = MapThenSumSet(LAMBDA i : obj.entries[i].weight, Indices(obj))
-----------------------------------------------------------------------------
(* consistenthash: rendezvous hashing; `score' is the hash of node and key *)
(* for one key.                                                            *)
AppendDedup(m, n) == IF n \in ToSet(m.nodes) THEN m ELSE [m EXCEPT !.nodes = Append(@, n)]
RemoveNode(m, n) == [m EXCEPT !.nodes = SelectSeq(@, LAMBDA x : x # n)]

\* Get: the first node with the highest score.
Get(m) ==
    LET i == Min({j \in DOMAIN m.nodes : \A k \in DOMAIN m.nodes : m.score[m.nodes[k]] <= m.score[m.nodes[j]]})
    IN  m.nodes[i]

\* GetN: n rounds of a selection sort.
GetN(m, n) ==
    LET swap(s, i) ==
            LET top == Min({j \in i .. Len(s) : \A k \in i .. Len(s) : m.score[s[k]] <= m.score[s[j]]})
            IN  [s EXCEPT ![i] = s[top], ![top] = s[i]]
        rounds == Min({n, Len(m.nodes)})
    IN  SubSeq(FoldLeft(swap, m.nodes, [i \in 1 .. rounds |-> i]), 1, rounds)

\* Replicas: as many as there are, all different, the best ones, best first.
ReplicasOK(m, n) ==
    LET r == GetN(m, n)
        rest == ToSet(m.nodes) \ ToSet(r)
    IN  /\ Len(r) = Min({n, Len(m.nodes)}) /\ Cardinality(ToSet(r)) = Len(r)
        /\ r # <<>> => r[1] = Get(m)
        /\ \A i \in 1 .. Len(r) - 1 : m.score[r[i]] >= m.score[r[i + 1]]
        /\ \A x \in rest : \A i \in DOMAIN r : m.score[r[i]] >= m.score[x]

\* Only the keys of a node that leaves move, and only to a node that comes.
Hash ==
    /\ Is("hash")
    /\ \/ \E n \in Nodes :
            LET m == AppendDedup(obj, n) IN Pick(m, ref, obj.nodes = <<>> \/ Get(m) \in {Get(obj), n})
       \/ \E n \in Nodes :
            LET m == RemoveNode(obj, n)
            IN  Pick(m, ref, obj.nodes = <<>> \/ m.nodes = <<>> \/ Get(obj) = n \/ Get(m) = Get(obj))
       \/ \E n \in 1 .. Cardinality(Nodes) : Pick(obj, ref, ReplicasOK(obj, n))
-----------------------------------------------------------------------------
(* auction: `obj' is the list of prices bid; `ref' its length.             *)
ValidBids(bids, floor) ==
    SortSeq(SelectSeq([i \in DOMAIN bids |-> [at |-> i, price |-> bids[i]]], LAMBDA b : b.price >= floor),
            LAMBDA x, y : x.price > y.price \/ (x.price = y.price /\ x.at < y.at))
ClearingPrice(valid, i, floor) ==
    IF i + 1 <= Len(valid) /\ valid[i + 1].price > floor THEN valid[i + 1].price ELSE floor
Resolve(bids, floor) ==
    LET v == ValidBids(bids, floor)
    IN  IF v = <<>> THEN [winner |-> 0, clearing |-> 0] ELSE [winner |-> v[1].at, clearing |-> ClearingPrice(v, 1, floor)]
ResolveMultiSlot(bids, floor, slots) ==
    LET v == ValidBids(bids, floor)
    IN  [i \in 1 .. Min({slots, Len(v)}) |-> [winner |-> v[i].at, clearing |-> ClearingPrice(v, i, floor)]]

\* The winner's own price does not matter as long as they win: they pay the price
\* at which they would still have won.
Truthful(bids, floor) ==
    LET r == Resolve(bids, floor)
        raised(p) == [bids EXCEPT ![r.winner] = p]
    IN  r.winner # 0 =>
          /\ r.clearing >= floor /\ r.clearing <= bids[r.winner]
          /\ \A p \in Prices : IF p > r.clearing THEN Resolve(raised(p), floor) = r
                               ELSE p < r.clearing => Resolve(raised(p), floor).winner # r.winner

SlotsOK(bids, floor, slots) ==
    LET m == ResolveMultiSlot(bids, floor, slots)
    IN  /\ \A i, j \in DOMAIN m : i < j => m[i].clearing >= m[j].clearing /\ m[i].winner # m[j].winner
        /\ \A i \in DOMAIN m : m[i].clearing >= floor /\ m[i].clearing <= bids[m[i].winner]
        /\ m # <<>> => m[1] = Resolve(bids, floor)

Auction ==
    /\ Is("auction")
    /\ \/ \E p \in Prices : Len(obj) < MaxBids /\ Pick(Append(obj, p), Len(obj) + 1, TRUE)
       \/ \E floor \in Prices, slots \in 1 .. MaxBids : Pick(obj, ref, Truthful(obj, floor) /\ SlotsOK(obj, floor, slots))
-----------------------------------------------------------------------------
(* budget's pacer: fractions are kept as numerators over `Whole'; `ref' is *)
(* the time within the period.                                             *)
Buckets(p) == Len(p)
Positive(w) == [i \in DOMAIN w |-> Max({w[i], 0})]

\* buildCurve: negative weights count 0, all of them 0 count as even.
CurveWeights(w) == IF SumOf(Positive(w), DOMAIN w) <= 0 THEN [i \in DOMAIN w |-> 1] ELSE Positive(w)
Whole(w) == SumOf(CurveWeights(w), DOMAIN w) * Period

\* targetFraction: the cumulated weight of the buckets passed, and part of this one.
TargetFraction(w, t) ==
    LET c == CurveWeights(w)
        i == (t * Buckets(w)) \div Period
    IN  MapThenSumSet(LAMBDA j : c[j], 1 .. i) * Period + c[i + 1] * (t * Buckets(w) - i * Period)

\* Deviation, as a pair: how much the spend is over plan, and the plan.
Planned(w, t) == TargetFraction(w, t) * Budget
Over(w, spend, t) == spend * Whole(w) - Planned(w, t)
OffPlan(w, spend, t) == Planned(w, t) > 0 /\ 100 * Over(w, spend, t) > Tolerance * Planned(w, t)
ShouldThrottle(w, spend, t) == spend >= Budget \/ OffPlan(w, spend, t)

\* PaceRatio in hundredths of the plan: 1 on plan, then down to 0.
PaceRatio(w, spend, t) ==
    IF spend >= Budget THEN 0
    ELSE IF ~OffPlan(w, spend, t) THEN 100
    ELSE Max({0, 100 - ((100 * Over(w, spend, t)) \div Planned(w, t) - Tolerance)})

Pacer ==
    /\ Is("pacer")
    /\ \/ ref + 1 < Period /\ Pick(obj, ref + 1, TargetFraction(obj, ref) <= TargetFraction(obj, ref + 1))
       \/ \E spend \in 0 .. Budget :
            Pick(obj, ref,
               /\ TargetFraction(obj, ref) <= Whole(obj)
               /\ ShouldThrottle(obj, spend, ref) \/ PaceRatio(obj, spend, ref) = 100
               /\ spend < Budget => PaceRatio(obj, spend + 1, ref) <= PaceRatio(obj, spend, ref)
               /\ ShouldThrottle(obj, spend, ref) => \A more \in spend .. Budget : ShouldThrottle(obj, more, ref))
-----------------------------------------------------------------------------

Start(k) ==
    CASE k = "money" -> Operands \ {-Half}
      [] k = "decimal" -> {[value |-> v, scale |-> s] : v \in Operands, s \in 0 .. MaxScale}
      [] k = "base62" -> {0}
      [] k = "backoff" -> {NewBackoff(j, b, m, n) : j \in Jitters, b \in Bases, m \in Maxima, n \in {0, 2}}
      [] k = "delay" -> {0}
      [] k = "balancer" -> {[entries |-> <<>>, totalWeight |-> 0, rrIdx |-> 0, strategy |-> s]
                              : s \in {"rr", "swrr", "random"}}
      [] k = "hash" -> {[nodes |-> <<>>, score |-> s] : s \in [Nodes -> Scores]}
      [] k = "auction" -> {<<>>}
      [] k = "pacer" -> Curves

Init ==
    /\ kind \in Kinds
    /\ obj \in Start(kind)
    /\ ref = CASE kind = "decimal" -> Units(obj)
               [] kind \in {"money", "base62", "delay"} -> obj
               [] kind = "balancer" -> Fresh(obj, 0)
               [] kind = "hash" -> <<>>
               [] kind \in {"backoff", "auction", "pacer"} -> 0
    /\ kind = "decimal" => Small(obj)
    /\ out = TRUE

Next ==
    \/ Money \/ Decimal \/ Base62 \/ Backoff \/ Delay
    \/ Balancer \/ Hash \/ Auction \/ Pacer
Spec == Init /\ [][Next]_vars
-----------------------------------------------------------------------------
\* After any sequence of operations the amount held is the exact one, Add, Sub and
\* Mul report an error exactly when a result does not fit, and so do FromMajor and
\* Parse unless their last, unchecked sum is what leaves the word; rounding obeys its
\* mode unless twice the remainder leaves the word, Allocate loses no unit and its
\* shares of what is not negative are proportional, what String or Encode wrote is
\* read back, and no delay exceeds its exponential value or the maximum, wherever
\* doubling it leaves the word.
\* Round robin is fair and weighted round robin proportional from any membership
\* changes on; a hash ring moves only the keys it must and its replicas are the
\* best nodes; a second-price auction charges what the winner needed to win; the
\* pacer's plan never decreases and throttling is monotone in what was spent.
AmountsAgree ==
    /\ out
    /\ Is("money") => obj = ref
    /\ Is("decimal") => Units(obj) = ref
    /\ Is("balancer") => BalancerOK
    /\ Is("backoff") => obj.attempt = ref /\ (obj.jitter # "decorrelated" => obj.raw = Due(obj, ref))

\* "ErrOverflow is returned when a result does not fit in int64 minor units."
\* (money.go:38): by FromMajor, whose last sum (:143) is not checked.
FromMajorReports ==
    Is("money") => \A whole \in {x \in Operands : x >= 0}, frac \in 0 .. 9 :
                     FromMajor(whole, frac, 1) = Reported(10 * whole + frac)

\* The same of Parse, whose last sum (:201) is not checked either.
ParseReports ==
    Is("money") => \A whole \in {x \in Operands : x >= 0}, frac \in 0 .. 9, neg \in BOOLEAN :
                     Parse(neg, whole, frac, 1) = Reported(IF neg THEN -(10 * whole + frac) ELSE 10 * whole + frac)

\* "Div divides the amount by an integer divisor, rounding the remainder."
\* (money.go:310), in the mode it was given: absRem*2 (:525, :536) may wrap.
DivRounds ==
    Is("money") /\ obj # -Half =>
        \A b \in Operands \ {0, -Half}, mode \in Modes : Div(obj, b, mode) = Rounded(obj, b, mode)

\* "Allocate splits m into len(ratios) parts proportional to the ratios" (money.go:371).
AllocateIsProportional ==
    Is("money") => \A r \in Ratios :
        LET s == Allocate(obj, r) IN s = <<>> \/ Proportional(obj, r, s)
=============================================================================
