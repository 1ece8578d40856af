----------------------------- MODULE Algorithms -----------------------------
(***************************************************************************)
(* Pure functions, each checked against a reference definition on every    *)
(* input of a small domain: bit (words of Width bits), number's truncation *)
(* of decimal texts, ip's matching and conversions, datetime's boundaries  *)
(* and ranges, stats, sliceutil and iterx.  A behaviour is one input.      *)
(***************************************************************************)
EXTENDS Integers, Sequences, FiniteSets, SequencesExt, Bitwise

CONSTANTS
    Kinds,       \* which of the packages
    Width,       \* bits of a machine word
    Lens         \* calendars: for each, the units each of its days lasts

VARIABLES kind, arg, out

vars == <<kind, arg, out>>

Init == kind \in Kinds /\ arg = <<>> /\ out = TRUE

\* The inputs of a package, for a behaviour that is about it; and one of them:
\* what was asked, and whether the answer is the reference's.
Inputs(k, S) == IF kind = k /\ arg = <<>> THEN S ELSE {}
Try(a, agrees) == arg' = <<a>> /\ out' = agrees /\ UNCHANGED kind

Least(a, b) == IF a < b THEN a ELSE b
Prefix(s, n) == SubSeq(s, 1, Least(n, Len(s)))
Rest(s, n) == SubSeq(s, Len(s) - n + 1, Len(s))
-----------------------------------------------------------------------------
(* bit.  A word is a number below 2^Width; sg says whether its type is     *)
(* signed, which decides what a right shift fills in.                      *)
Top == 2 ^ (Width - 1)
Words == 0 .. 2 * Top - 1
Wrap(n) == n % (2 * Top)
Value(sg, x) == IF sg /\ x >= Top THEN x - 2 * Top ELSE x
Shr(sg, x, k) == Wrap(Value(sg, x) \div 2 ^ Least(k, Width))
Sign(x) == Shr(TRUE, x, Width - 1)

HasOppositeSigns(sg, x, y) == Value(sg, x ^^ y) < 0
BitMin(x, y) == LET d == Wrap(x - y) IN Wrap(y + (d & Sign(d)))
BitMax(x, y) == LET d == Wrap(x - y) IN Wrap(x - (d & Sign(d)))
BitAbs(x) == Wrap((x ^^ Sign(x)) - Sign(x))
CountOneBit[x \in Nat] == IF x = 0 THEN 0 ELSE 1 + CountOneBit[x & (x - 1)]
OneBitAtMost(x) == x & Wrap(x - 1) = 0
IsPowerOfTwo(sg, x) == Value(sg, x) > 0 /\ OneBitAtMost(x)
RightOneBitNum(x) == x & Wrap((2 * Top - 1 - x) + 1)

\* num |= num >> 1, 2, 4, 8, 16, 32
Smear(sg, x) == FoldLeft(LAMBDA n, i : n | Shr(sg, n, i), x, <<1, 2, 4, 8, 16, 32>>)

LeftOneBitNum(sg, x) ==
    IF OneBitAtMost(x) THEN x ELSE Shr(sg, Wrap(Smear(sg, x) + 1), 1)

NextHighestPowerOfTwo(sg, x) ==
    IF OneBitAtMost(x) THEN x ELSE Wrap(Smear(sg, Wrap(x - 1)) + 1)

Swap(p) == LET a == p[1] ^^ p[2]
               b == p[2] ^^ a
           IN  <<a ^^ b, b>>

BitSum[p \in Nat \X Nat] ==
    IF p[2] = 0 THEN p[1] ELSE BitSum[<<p[1] ^^ p[2], Wrap(2 * (p[1] & p[2]))>>]

MaxBits[n \in Int] == IF n < 1 THEN 0 ELSE 1 + MaxBits[n \div 2]

Bit(sg, x, k) == Shr(sg, x, k) & 1
One(k) == IF k < Width THEN 2 ^ k ELSE 0
ReverseBit(x, k) == x ^^ One(k)
SetBit(x, k) == x | One(k)
UnsetBit(x, k) == x & (2 * Top - 1 - One(k))

\* The positions of the ones, which everything here is about.
Ones(x) == {i \in 0 .. Width - 1 : (x \div 2 ^ i) % 2 = 1}
Extreme(S, Better(_, _)) == CHOOSE i \in S : \A j \in S : i = j \/ Better(i, j)

\* What a word of the package's functions should be.  The subtracting Min and
\* Max are right while x - y fits, as they warn; the next power of two is right as
\* long as the type has it, and the left-most one below the type's last power
\* (LeftOneBitIsLeftmost).
BitsAgree(sg, x, y) ==
    LET v == Value(sg, x)
        w == Value(sg, y)
        sv == Value(TRUE, x)
        sw == Value(TRUE, y)
    IN  /\ HasOppositeSigns(sg, x, y) <=> (sg /\ (v < 0) # (w < 0))
        /\ sv - sw \in -Top .. Top - 1 =>
             /\ Value(TRUE, BitMin(x, y)) = Least(sv, sw)
             /\ Value(TRUE, BitMax(x, y)) = -Least(-sv, -sw)
        /\ sv # -Top => Value(TRUE, BitAbs(x)) = IF sv < 0 THEN -sv ELSE sv
        /\ CountOneBit[x] = Cardinality(Ones(x))
        /\ IsPowerOfTwo(sg, x) <=> (v > 0 /\ Cardinality(Ones(x)) = 1)
        /\ x # 0 => Ones(RightOneBitNum(x)) = {Extreme(Ones(x), LAMBDA i, j : i < j)}
        /\ v > 0 /\ v < (IF sg THEN Top \div 2 ELSE Top)
             => Ones(LeftOneBitNum(sg, x)) = {Extreme(Ones(x), LAMBDA i, j : i > j)}
        /\ v > 0 /\ v <= (IF sg THEN Top \div 2 ELSE Top)
             => LET p == NextHighestPowerOfTwo(sg, x)
                IN  Cardinality(Ones(p)) = 1 /\ p >= x /\ p < 2 * x
        /\ Swap(<<x, y>>) = <<y, x>>
        /\ BitSum[<<x, y>>] = Wrap(x + y)
        /\ v >= 0 => MaxBits[v] = Cardinality({i \in 0 .. Width : 2 ^ i <= v})
        /\ y <= Width =>
             /\ Bit(sg, x, y) = IF y \in Ones(x) \/ (y = Width /\ v < 0) THEN 1 ELSE 0
             /\ y < Width => /\ Ones(SetBit(x, y)) = Ones(x) \cup {y}
                             /\ Ones(UnsetBit(x, y)) = Ones(x) \ {y}
                             /\ ReverseBit(ReverseBit(x, y), y) = x
             /\ y = Width => SetBit(x, y) = x /\ UnsetBit(x, y) = x

TryBits == \E a \in Inputs("bit", BOOLEAN \X Words \X Words) : Try(a, BitsAgree(a[1], a[2], a[3]))
-----------------------------------------------------------------------------
(* number.  fmt.Sprint's text of a float, split by the regular expression: *)
(* sign, the digits before and after the point, and the exponent, which is *)
(* there for large and small magnitudes only.                              *)
Zeros(n) == [i \in 1 .. n |-> 0]
Digits(ds) == FoldLeft(LAMBDA n, d : 10 * n + d, 0, ds)

\* RestoreToRealNumberStr: the digits without an exponent.
Restore(t) ==
    IF t.exp = 0 THEN <<t.int, t.frac>>
    ELSE IF t.exp > 0
         THEN IF t.exp < Len(t.frac)
              THEN <<t.int \o Prefix(t.frac, t.exp), Rest(t.frac, Len(t.frac) - t.exp)>>
              ELSE <<t.int \o t.frac \o Zeros(t.exp - Len(t.frac)), <<>>>>
         ELSE IF -t.exp >= Len(t.int)
              THEN <<<<0>>, Zeros(-t.exp - Len(t.int)) \o t.int \o t.frac>>
              ELSE <<<<>>, t.frac>>

\* RoundTruncStr: cut, or fill up with zeros, after the point or before it.
RoundTruncStr(t, precision) ==
    LET int == Restore(t)[1]
        frac == Restore(t)[2]
    IN  IF precision > 0
        THEN <<int, IF precision < Len(frac) THEN Prefix(frac, precision)
                    ELSE frac \o Zeros(precision - Len(frac))>>
        ELSE IF -precision < Len(int)
             THEN <<Prefix(int, Len(int) + precision) \o Zeros(-precision), <<>>>>
             ELSE <<<<0>>, <<>>>>

\* The value of a text, in units of the last of Places decimals.
Places == 4
Units(p) == Digits(p[1]) * 10 ^ Places + Digits(p[2]) * 10 ^ (Places - Len(p[2]))

\* RoundTrunc: the same text parsed again; an integer keeps its value when no
\* digit before the point is to go.
RoundTrunc(t, precision, isInt) ==
    IF isInt /\ precision >= 0 THEN Units(Restore(t)) ELSE Units(RoundTruncStr(t, precision))

Magnitude(t) ==
    LET n == Digits(t.int \o t.frac)
        e == Places + t.exp - Len(t.frac)
    IN  n * 10 ^ e

Texts ==
    {t \in [int : {<<0>>, <<3>>, <<1, 9>>}, frac : {<<>>, <<5>>, <<0, 7>>}, exp : -2 .. 3] :
        /\ t.exp # 0 => Len(t.int) = 1 /\ t.int # <<0>>    \* d.ddde+xx
        /\ t.int = <<0>> => t.frac # <<>>}

\* The text without an exponent has the same value, and the truncated one is
\* the multiple of 10^-precision next to it on the side of zero.
TruncAgrees(t, precision) ==
    LET m == Magnitude(t)
        unit == 10 ^ (Places - precision)
    IN  /\ Units(Restore(t)) = m
        /\ Units(RoundTruncStr(t, precision)) = (m \div unit) * unit
        /\ t.exp = 0 /\ t.frac = <<>> => RoundTrunc(t, precision, TRUE) = (m \div unit) * unit

TryTrunc == \E a \in Inputs("trunc", Texts \X (-3 .. Places)) : Try(a, TruncAgrees(a[1], a[2]))
-----------------------------------------------------------------------------
(* ip.  An address is a sequence of bytes, here of ByteBits bits; a short  *)
(* one has V4 of them and a long one V6, and a short one written long has  *)
(* the prefix V4InV6.                                                      *)
ByteBits == 2
V4 == 1
V6 == 3
V4InV6 == <<0, 3>>

To4(ip) == IF Len(ip) = V4 THEN ip
           ELSE IF Len(ip) = V6 /\ Prefix(ip, V6 - V4) = V4InV6 THEN Rest(ip, V4) ELSE <<>>
To16(ip) == IF Len(ip) = V4 THEN V4InV6 \o ip ELSE IF Len(ip) = V6 THEN ip ELSE <<>>

CIDRMask(ones, bytes) ==
    [i \in 1 .. bytes |->
        LET left == ones - ByteBits * (i - 1)
        IN  2 ^ ByteBits - 2 ^ (ByteBits - (IF left < 0 THEN 0 ELSE Least(left, ByteBits)))]
Masked(ip, m) == [i \in DOMAIN ip |-> ip[i] & m[i]]

\* net's IPNet.Contains for the network ParseCIDR makes of an address and a
\* prefix length: the masked address, kept long if it was.
NetContains(ones, net, ip) ==
    LET nn == Masked(net, CIDRMask(ones, Len(net)))
        n == IF To4(nn) # <<>> THEN To4(nn) ELSE nn
        m == Rest(CIDRMask(ones, Len(net)), Len(n))
        p == IF To4(ip) # <<>> THEN To4(ip) ELSE ip
    IN  Len(p) = Len(n) /\ Masked(n, m) = Masked(p, m)

InRangeIPNet(ones, net, ip) == ip # <<>> /\ NetContains(ones, net, ip)

CIDRContains(ones, net, ip, format) ==
    /\ ones \in 0 .. ByteBits * Len(net)
    /\ Len(ip) \in {V4, V6} /\ Len(net) \in {V4, V6}
    /\ LET p == IF format /\ To4(ip) # <<>> THEN To4(ip) ELSE ip
           n == IF To4(net) # <<>> THEN To4(net) ELSE net
           m == Rest(CIDRMask(ones, Len(net)), Len(n))
       IN  IF ones = ByteBits * Len(net) /\ Len(p) = Len(n) THEN p = n
           ELSE Len(p) = Len(n) /\ Masked(n, m) = Masked(p, m)

\* The mixed lists: an address, or a network with its prefix length put first.
\* The index of the first that matches, or 0.
InRangeMixedIPsOrCIDRs(list, ip) ==
    LET p == IF To4(ip) # <<>> THEN To4(ip) ELSE ip
        match(e) == IF Len(e) \in {V4 + 1, V6 + 1} THEN CIDRContains(e[1], Tail(e), p, FALSE)
                    ELSE CIDRContains(ByteBits * Len(e), e, p, FALSE)
    IN  IF Len(ip) \notin {V4, V6} THEN 0 ELSE SelectInSeq(list, match)

FastInRangeMixedIPsOrCIDRs(list, ip) ==
    LET match(e) == \/ Len(e) = Len(ip) /\ e = ip
                    \/ /\ Len(e) = Len(ip) + 1 /\ e[1] <= ByteBits * Len(ip)
                       /\ LET m == CIDRMask(e[1], Len(ip))
                          IN  Masked(Tail(e), m) = Masked(ip, m)
    IN  IF Len(ip) \notin {V4, V6} THEN 0 ELSE SelectInSeq(list, match)

\* bytes.Compare(a, b) <= 0
AtMost(a, b) ==
    LET n == Least(Len(a), Len(b))
    IN  \/ Prefix(a, n) = Prefix(b, n) /\ Len(a) <= Len(b)
        \/ \E i \in 1 .. n : Prefix(a, i - 1) = Prefix(b, i - 1) /\ a[i] < b[i]

InRangeIP(start, end, ip) == ip # <<>> /\ AtMost(start, ip) /\ AtMost(ip, end)
InRangeIPv6(start, end, ip) == ip # <<>> /\ InRangeIP(To16(start), To16(end), To16(ip))

\* MaskIPToCIDR: the prefix length of a mask, -1 for one that is not one.
HammingWeight[n \in Nat] == IF n = 0 THEN 0 ELSE 1 + HammingWeight[n & (n - 1)]
MaskIPToCIDR(mask) ==
    LET ones == FoldLeft(LAMBDA n, b : n + HammingWeight[b], 0, mask)
    IN  IF Len(mask) \in {V4, V6} /\ CIDRMask(ones, Len(mask)) = mask THEN ones ELSE -1

\* big.Int's bytes and back.
Base == 2 ^ ByteBits
BytesOf[n \in Nat] == IF n = 0 THEN <<>> ELSE Append(BytesOf[n \div Base], n % Base)
BytesIPToNumber(ip) ==
    IF Len(ip) \in {V4, V6} THEN FoldLeft(LAMBDA n, b : Base * n + b, 0, ip) ELSE 0
CopyByteFromRight(src, size) ==
    IF Len(src) >= size THEN Rest(src, size) ELSE Zeros(size - Len(src)) \o src

NumberToIP(n, flag) ==
    LET ib == BytesOf[n]
        size == IF flag = 4 \/ (flag # 6 /\ Len(ib) <= V4) THEN V4 ELSE V6
    IN  IF n < 0 \/ Len(ib) > size THEN <<>> ELSE CopyByteFromRight(ib, size)

\* Addresses, long ones that are short ones among them, and networks' prefix
\* lengths from below 0 to beyond the last.
Bytes == 0 .. Base - 1
Long == {<<0, 3, b>> : b \in Bytes} \cup {<<0, 0, b>> : b \in Bytes} \cup {<<2, 1, b>> : b \in Bytes}
Addresses == {<<b>> : b \in Bytes} \cup Long
Minimal(ip) == Len(ip) = V4 \/ To4(ip) = <<>>

\* The first bits of two addresses written long.
BitsOf(ip) == FlattenSeq([i \in DOMAIN ip |-> [k \in 1 .. ByteBits |->
                            (ip[i] \div 2 ^ (ByteBits - k)) % 2]])
SameBits(n, a, b) == Prefix(BitsOf(To16(a)), n) = Prefix(BitsOf(To16(b)), n)

\* An address is in a network when it is of the network's family and has its
\* first bits.  net's own Contains and the two list searches say the same, the
\* fast one for lists and addresses kept as short as can be, and net's except
\* for a long network whose mask covers less than the prefix it is short by.
MatchAgrees(ones, net, ip, format) ==
    LET short == ByteBits * (V6 - V4)
        prefix == IF Len(net) = V4 THEN short + ones ELSE ones
        fits == ones \in 0 .. ByteBits * Len(net)
        inside == /\ fits /\ (To4(net) = <<>>) = (Len(ip) = V6 /\ (format => To4(ip) = <<>>))
                  /\ SameBits(prefix, net, ip)
        entry == <<ones>> \o net
    IN  /\ CIDRContains(ones, net, ip, format) <=> inside
        /\ fits /\ format /\ (Minimal(net) \/ ones >= short) => (InRangeIPNet(ones, net, ip) <=> inside)
        /\ fits /\ format => InRangeMixedIPsOrCIDRs(<<<<>>, entry>>, ip) = IF inside THEN 2 ELSE 0
        /\ fits /\ Minimal(net) /\ Minimal(ip) =>
             FastInRangeMixedIPsOrCIDRs(<<<<>>, entry>>, ip) = InRangeMixedIPsOrCIDRs(<<<<>>, entry>>, ip)

\* Ranges, numbers and masks: the order of the bytes is the order of the
\* numbers, a number made from an address gives it back, and a mask has a prefix
\* length exactly if it is that length's mask.
ConversionAgrees(a, b, c) ==
    /\ InRangeIPv6(a, b, c) <=> BytesIPToNumber(To16(c)) \in BytesIPToNumber(To16(a)) .. BytesIPToNumber(To16(b))
    /\ Len(a) = Len(c) /\ Len(b) = Len(c) => (InRangeIP(a, b, c) <=> InRangeIPv6(a, b, c))
    /\ NumberToIP(BytesIPToNumber(c), IF Len(c) = V4 THEN 4 ELSE 6) = c
    /\ BytesIPToNumber(NumberToIP(BytesIPToNumber(c), 0)) = BytesIPToNumber(c)
    /\ LET n == MaskIPToCIDR(c)
       IN  \A k \in 0 .. ByteBits * Len(c) : n = k <=> CIDRMask(k, Len(c)) = c

TryIP ==
    \/ \E a \in Inputs("ip", (-1 .. ByteBits * V6 + 1) \X Addresses \X Addresses \X BOOLEAN) :
          Try(a, MatchAgrees(a[1], a[2], a[3], a[4]))
    \/ \E a \in Inputs("ip", Addresses \X Addresses \X Addresses) :
          Try(a, ConversionAgrees(a[1], a[2], a[3]))
-----------------------------------------------------------------------------
(* ip's texts: _toIPv6String puts "::" for the longest run of two or more  *)
(* zero groups, and ToCIDRStr makes a network of a text with "*" parts.    *)
Groups == 5
RunAt(g, i) == Cardinality({j \in i .. Groups : \A k \in i .. j : g[k] = 0})

\* The groups in front of the "::" and those behind it; all in front without.
ToIPv6String(g) ==
    LET best == FoldLeft(LAMBDA b, i : IF RunAt(g, i) > b[2] THEN <<i, RunAt(g, i)>> ELSE b,
                         <<0, 0>>, [i \in 1 .. Groups |-> i])
    IN  IF best[2] <= 1 THEN [front |-> g, back |-> <<>>]
        ELSE [front |-> Prefix(g, best[1] - 1), back |-> Rest(g, Groups + 1 - best[1] - best[2])]

ToCIDRStr(parts) ==
    LET all == parts \o [i \in 1 .. 4 - Len(parts) |-> "0"]
        star == SelectInSeq(all, LAMBDA p : p = "*")
        seen == IF star = 0 THEN all ELSE Prefix(all, star - 1)
    IN  IF Len(parts) \notin 2 .. 4 \/ Contains(seen, "300") THEN <<>>
        ELSE <<[i \in 1 .. 4 |-> IF all[i] = "*" THEN "0" ELSE all[i]], 8 * Len(seen)>>

\* The text reads back as the address, its "::" stands for a longest run, the
\* first of them, and never for a single group.
TextAgrees(g) ==
    LET t == ToIPv6String(g)
        gap == Groups - Len(t.front) - Len(t.back)
    IN  /\ t.front \o Zeros(gap) \o t.back = g
        /\ gap # 1
        /\ \A i \in 1 .. Groups : RunAt(g, i) > 1 => RunAt(g, i) <= gap
        /\ \A i \in 1 .. Len(t.front) : gap > 0 => RunAt(g, i) < gap

\* The network of a fuzzy address covers what the parts before the first "*"
\* fix; a part no address has is refused, unless a "*" comes before it.
FuzzyAgrees(parts) ==
    LET r == ToCIDRStr(parts)
        fixed == {i \in 1 .. Len(parts) : \A j \in 1 .. i : parts[j] # "*"}
    IN  IF Len(parts) \notin 2 .. 4 \/ \E i \in fixed : parts[i] = "300" THEN r = <<>>
        ELSE /\ r[2] = IF Contains(parts, "*") THEN 8 * Cardinality(fixed) ELSE 32
             /\ \A i \in fixed : r[1][i] = parts[i]
             /\ \A i \in 1 .. 4 : r[1][i] = "300" => i \notin fixed

TryText ==
    \/ \E g \in Inputs("text", [1 .. Groups -> 0 .. 2]) : Try(g, TextAgrees(g))
    \/ \E parts \in Inputs("text", SeqOf({"*", "7", "300"}, 5)) : Try(parts, FuzzyAgrees(parts))
-----------------------------------------------------------------------------
(* datetime.  Days are numbered, and a calendar gives the units each lasts *)
(* (Day of them, one fewer or more when the clock is set forward or back); *)
(* months and weeks are short ones.  A time is a day and the units into    *)
(* it, or -1 for 23:59:59.999999999, a unit before the next midnight.      *)
Day == 4
Week == 3
MonthLens == <<2, 3, 1>>
MaxRange == 5                      \* maxRangeEntries

Midnight(lens, d) == FoldLeft(LAMBDA n, l : n + l, 0, Prefix(lens, d))
Instant(lens, t) == Midnight(lens, IF t.at < 0 THEN t.day + 1 ELSE t.day) + t.at
StartTime(t) == [day |-> t.day, at |-> 0]
EndTime(t) == [day |-> t.day, at |-> -1]

MonthStart(m) == FoldLeft(LAMBDA n, l : n + l, 0, Prefix(MonthLens, m - 1))
Month(d) == CHOOSE m \in 1 .. Len(MonthLens) : d \in MonthStart(m) .. MonthStart(m) + MonthLens[m] - 1
DayOfMonth(d) == d - MonthStart(Month(d)) + 1

\* time's AddDate: months first, then the days of the month run over.
AddDate(t, months, days) ==
    [t EXCEPT !.day = MonthStart(Month(t.day) + months) + (DayOfMonth(t.day) - 1) + days]

FirstDateTimeOfMonth(t) == StartTime(AddDate(t, 0, 1 - DayOfMonth(t.day)))
LastDateTimeOfMonth(t) == AddDate(EndTime(AddDate(t, 0, 1 - DayOfMonth(t.day))), 1, -1)

\* A week may begin before the calendar's first day, or end after its last.
Later(t, days) == [t EXCEPT !.day = @ + days]
FirstDateTimeOfWeek(t, first) == StartTime(Later(t, -(((t.day % Week) - first + Week) % Week)))
LastDateTimeOfWeek(t, first) == EndTime(Later(FirstDateTimeOfWeek(t, first), Week - 1))

\* The two midnights as UTC's, where every day has its Day units.
DeltaDateDays(s, e) == (e.day * Day - s.day * Day) \div Day

Before(lens, a, b) == Instant(lens, a) < Instant(lens, b)
Ordered(lens, a, b) == IF Before(lens, b, a) THEN <<b, a>> ELSE <<a, b>>

RangeTime(lens, s, e, interval) ==
    LET r == Ordered(lens, s, e)
        delta == (Instant(lens, r[2]) - Instant(lens, r[1])) \div interval + 1
    IN  IF interval <= 0 \/ delta > MaxRange THEN <<>>
        ELSE [i \in 1 .. delta |-> Instant(lens, r[1]) + interval * (i - 1)]

RangeDateStr(lens, s, e) ==
    LET r == Ordered(lens, s, e)
        delta == (Instant(lens, EndTime(r[2])) - Instant(lens, StartTime(r[1]))) \div Day + 1
    IN  IF delta > MaxRange THEN <<>> ELSE [i \in 1 .. delta |-> r[1].day + i - 1]

\* The dates from one time to another.
Dates(lo, hi) == [i \in 1 .. hi.day - lo.day + 1 |-> lo.day + i - 1]

Times(lens) == {t \in [day : 0 .. Len(lens) - 1, at : 0 .. Day] : t.at < lens[t.day + 1]}

\* The boundaries of the month and the week of a time are around it and at
\* their ends; the days between two times count dates whatever the clock did;
\* a range of times goes by equal steps and stops at the end; and a range of
\* dates has the dates from one to the other, unless the clock was set back in
\* between (DatesAreBetween).
DatesAgree(lens, s, e, n) ==
    LET lo == Ordered(lens, s, e)[1]
        hi == Ordered(lens, s, e)[2]
        days == hi.day - lo.day + 1
        longer == Midnight(lens, hi.day + 1) - Midnight(lens, lo.day) > days * Day
        dates == RangeDateStr(lens, s, e)
        times == RangeTime(lens, s, e, n)
        first == FirstDateTimeOfMonth(s).day
        last == LastDateTimeOfMonth(s).day
        week == FirstDateTimeOfWeek(s, n % Week)
    IN  /\ s.day \in first .. last /\ Month(first) = Month(s.day) /\ Month(last) = Month(s.day)
        /\ last - first + 1 = MonthLens[Month(s.day)]
        /\ s.day \in week.day .. LastDateTimeOfWeek(s, n % Week).day
        /\ week.day % Week = n % Week
        /\ DeltaDateDays(s, e) = e.day - s.day /\ DeltaDateDays(e, s) = -DeltaDateDays(s, e)
        /\ ~longer => dates = IF days > MaxRange THEN <<>> ELSE Dates(lo, hi)
        /\ n > 0 /\ times # <<>> =>
             /\ times[1] = Instant(lens, lo) /\ Last(times) \in Instant(lens, hi) - n + 1 .. Instant(lens, hi)
             /\ \A i \in 2 .. Len(times) : times[i] = times[i - 1] + n
        /\ n = 0 => times = <<>>

TryDates ==
    \E lens \in Inputs("date", Lens) : \E s, e \in Times(lens), n \in 0 .. 2 :
        Try(<<lens, s, e, n>>, DatesAgree(lens, s, e, n))
-----------------------------------------------------------------------------
(* stats, on whole numbers: what the code divides by is kept as a factor.  *)
Sum(s) == FoldLeft(LAMBDA n, v : n + v, 0, s)
Sorted(s) == SortSeq(s, LAMBDA a, b : a < b)

\* Twice the median, a hundred times the percentile, n^3 times the variance.
Median(s) ==
    LET n == Len(s)
        mid == n \div 2
    IN  IF n % 2 = 0 THEN Sorted(s)[mid] + Sorted(s)[mid + 1] ELSE 2 * Sorted(s)[mid + 1]

Percentile(s, p) ==
    LET rank == p * (Len(s) - 1)
        lo == rank \div 100
        frac == rank % 100
    IN  IF frac = 0 THEN 100 * Sorted(s)[lo + 1]
        ELSE 100 * Sorted(s)[lo + 1] + frac * (Sorted(s)[lo + 2] - Sorted(s)[lo + 1])

Variance(s) == FoldLeft(LAMBDA n, v : n + (Len(s) * v - Sum(s)) * (Len(s) * v - Sum(s)), 0, s)

\* Mode ranges over a map, in any order.
Freq(s, v) == Cardinality({i \in DOMAIN s : s[i] = v})
Mode(s, order) ==
    FoldLeft(LAMBDA b, v : IF Freq(s, v) > b[2] \/ (Freq(s, v) = b[2] /\ v < b[1])
                           THEN <<v, Freq(s, v)>> ELSE b, <<s[1], 0>>, order)[1]

\* The mode is the least of the most frequent values whatever order the map is
\* read in; the median is the 50th percentile and has as many values on either
\* side; percentiles never fall and run from the least to the greatest value.
StatsAgree(s) ==
    LET most == {v \in ToSet(s) : \A w \in ToSet(s) : Freq(s, w) <= Freq(s, v)}
    IN  /\ \A order \in SetToSeqs(ToSet(s)) :
             Mode(s, order) \in most /\ \A v \in most : Mode(s, order) <= v
        /\ Percentile(s, 50) = 50 * Median(s)
        /\ Cardinality({i \in DOMAIN s : 2 * s[i] < Median(s)})
             = Cardinality({i \in DOMAIN s : 2 * s[i] > Median(s)})
           \/ \E i \in DOMAIN s : 2 * s[i] = Median(s)
        /\ \A p, q \in {0, 25, 40, 50, 90, 100} : p <= q => Percentile(s, p) <= Percentile(s, q)
        /\ \A i \in DOMAIN s : 100 * s[i] \in Percentile(s, 0) .. Percentile(s, 100)
        /\ Variance(s) = Len(s) * (Len(s) * FoldLeft(LAMBDA n, v : n + v * v, 0, s) - Sum(s) * Sum(s))

TryStats == \E s \in Inputs("stats", SeqOf({-1, 0, 2}, 4) \ {<<>>}) : Try(s, StatsAgree(s))
-----------------------------------------------------------------------------
(* sliceutil.  A part of a slice is a view of the same array: where it     *)
(* begins, ends, and how far an append may write before it must move.      *)
Elems(s, v) == SubSeq(s, v.lo, v.hi)

\* What is left of the array when somebody appends to a view.
AfterAppend(s, v, x) == IF v.hi < v.cap THEN [s EXCEPT ![v.hi + 1] = x] ELSE s

Chunk(s, size) ==
    IF size <= 0 \/ s = <<>> THEN <<>>
    ELSE [i \in 1 .. (Len(s) + size - 1) \div size |->
            LET end == Least(i * size, Len(s)) IN [lo |-> (i - 1) * size + 1, hi |-> end, cap |-> end]]

Window(s, n) ==
    IF n <= 0 \/ n > Len(s) THEN <<>>
    ELSE [i \in 1 .. Len(s) - n + 1 |-> [lo |-> i, hi |-> i + n - 1, cap |-> i + n - 1]]

Flatten(ss) == FoldLeft(LAMBDA all, s : all \o s, <<>>, ss)
Deduplicate(s) == FoldLeft(LAMBDA d, v : IF Contains(d, v) THEN d ELSE Append(d, v), <<>>, s)
Partition(s, pred) ==
    FoldLeft(LAMBDA p, v : IF pred[v] THEN <<Append(p[1], v), p[2]>> ELSE <<p[1], Append(p[2], v)>>,
             <<<<>>, <<>>>>, s)
GroupBy(s, key) ==
    LET old(m, k) == IF k \in DOMAIN m THEN m[k] ELSE <<>>
    IN  FoldLeft(LAMBDA m, v : [k \in DOMAIN m \cup {key[v]} |->
                    IF k = key[v] THEN Append(old(m, k), v) ELSE m[k]], [k \in {} |-> <<>>], s)

\* Chunks put together are the slice, all but the last are full, and windows
\* are every stretch of their length; an append to any of them leaves the
\* slice, and so its neighbours, alone; groups and halves keep every element.
SlicesAgree(s, n) ==
    LET chunks == Chunk(s, n)
        windows == Window(s, n)
        views == ToSet(chunks) \cup ToSet(windows)
        even(v) == v % 2 = 0
        isEven == [v \in ToSet(s) |-> even(v)]
        groups == GroupBy(s, isEven)
    IN  /\ n > 0 => Flatten([i \in DOMAIN chunks |-> Elems(s, chunks[i])]) = s
        /\ \A i \in DOMAIN chunks : Len(Elems(s, chunks[i])) = n \/ (i = Len(chunks) /\ n > 0)
        /\ n > 0 => {Elems(s, w) : w \in ToSet(windows)} = {t \in SubSeqs(s) : Len(t) = n}
        /\ \A v \in views : AfterAppend(s, v, 9) = s
        /\ ToSet(Deduplicate(s)) = ToSet(s) /\ IsInjective(Deduplicate(s))
        /\ Partition(s, isEven) = <<SelectSeq(s, even), SelectSeq(s, LAMBDA v : ~even(v))>>
        /\ \A k \in DOMAIN groups : groups[k] = SelectSeq(s, LAMBDA v : even(v) = k)
        /\ {v \in ToSet(s) : even(v) \notin DOMAIN groups} = {}

TrySlices ==
    \E a \in Inputs("slice", SeqOf(1 .. 3, 4) \X (-1 .. 5)) : Try(a, SlicesAgree(a[1], a[2]))
-----------------------------------------------------------------------------
(* iterx.  A loop over a source that hands what it makes to a consumer who *)
(* stops at the want-th value: what came out, and how many values of the   *)
(* source were taken.                                                      *)
Fresh == [out |-> <<>>, pulled |-> 0, more |-> TRUE]

Yield(r, v, want) == [r EXCEPT !.out = Append(@, v), !.more = Len(r.out) + 1 < want]

Loop(Body(_, _), r, src) ==
    FoldLeft(LAMBDA q, v : IF q.more THEN Body([q EXCEPT !.pulled = @ + 1], v) ELSE q, r, src)

Map(src, f, want) == Loop(LAMBDA r, v : Yield(r, f[v], want), Fresh, src)
Filter(src, pred, want) == Loop(LAMBDA r, v : IF pred[v] THEN Yield(r, v, want) ELSE r, Fresh, src)

Take(src, n, want) ==
    IF n <= 0 THEN Fresh
    ELSE Loop(LAMBDA r, v : LET y == Yield(r, v, want) IN [y EXCEPT !.more = @ /\ Len(y.out) < n],
              Fresh, src)

Drop(src, n, want) == Loop(LAMBDA r, v : IF r.pulled <= n THEN r ELSE Yield(r, v, want), Fresh, src)
Chain(a, b, want) ==
    LET yields(r, v) == Yield(r, v, want) IN Loop(yields, Loop(yields, Fresh, a), b)

\* The values of a drive the loop, b is pulled along.
ZipSeq(a, b, want) ==
    Loop(LAMBDA r, v : IF r.pulled > Len(b) THEN [r EXCEPT !.more = FALSE]
                       ELSE Yield(r, <<v, b[r.pulled]>>, want), Fresh, a)

\* Range, on words: i += step may run past the largest one.
Short(i, end, step) == (step > 0 /\ i < end) \/ (step < 0 /\ i > end)
Counted(start, end, step, want) ==
    FoldLeft(LAMBDA r, k :
                 IF r.more /\ Short(r.i, end, step)
                 THEN [Yield(r, r.i, want) EXCEPT !.i = Value(TRUE, Wrap(r.i + step))] ELSE r,
             [out |-> <<>>, more |-> TRUE, i |-> start], [k \in 1 .. want |-> k]).out

\* A combinator yields the first `want' values of what it stands for and takes
\* no value of its source beyond the one that gave the last.  A Zip asks both its
\* sources for every pair: the first may be one ahead when the second has ended.
ItersAgree(a, b, n, want) ==
    LET odd(v) == v % 2 = 1
        twice == [v \in ToSet(a) |-> 2 * v]
        odds == SelectSeq(a, odd)
        part == Filter(a, [v \in ToSet(a) |-> odd(v)], want)
        pairs == [i \in 1 .. Least(Len(a), Len(b)) |-> <<a[i], b[i]>>]
        zipped == ZipSeq(a, b, want)
    IN  /\ Map(a, twice, want).out = Prefix([i \in DOMAIN a |-> twice[a[i]]], want)
        /\ Map(a, twice, want).pulled = Least(Len(a), want)
        /\ part.out = Prefix(odds, want)
        /\ part.pulled = IF Len(odds) < want THEN Len(a)
                         ELSE Extreme({k \in DOMAIN a : Len(SelectSeq(Prefix(a, k), odd)) = want},
                                      LAMBDA i, j : i < j)
        /\ Take(a, n, want).out = Prefix(Prefix(a, n), want)
        /\ Take(a, n, want).pulled = Len(Take(a, n, want).out)
        /\ Drop(a, n, want).out = Prefix(SubSeq(a, n + 1, Len(a)), want)
        /\ Chain(a, b, want).out = Prefix(a \o b, want)
        /\ Chain(a, b, want).pulled = Len(Chain(a, b, want).out)
        /\ zipped.out = Prefix(pairs, want)
        /\ zipped.pulled <= Len(zipped.out) + 1 /\ (zipped.pulled > Len(zipped.out) => Len(zipped.out) = Len(b))

\* Range counts from start to before end, unless the step over the end leaves the
\* words (RangeStaysInside).
Counts(start, end, step, want) ==
    SelectSeq([k \in 1 .. want |-> start + (k - 1) * step], LAMBDA v : Short(v, end, step))
CountAgrees(start, end, step, want) ==
    end + step \in -Top .. Top - 1 => Counted(start, end, step, want) = Counts(start, end, step, want)

TryIters ==
    \/ \E a \in Inputs("iter", SeqOf(1 .. 2, 3) \X {<<>>, <<7>>, <<7, 8>>} \X (0 .. 3) \X (1 .. 4)) :
          Try(a, ItersAgree(a[1], a[2], a[3], a[4]))
    \/ \E a \in Inputs("iter", (-Top .. Top - 1) \X (-Top .. Top - 1) \X (-3 .. 3)) :
          Try(a, CountAgrees(a[1], a[2], a[3], 4))
-----------------------------------------------------------------------------
Next == TryBits \/ TryTrunc \/ TryIP \/ TryText \/ TryDates \/ TryStats \/ TrySlices \/ TryIters

\* Every function agrees with its reference on the input it was tried on.
AlgorithmsAgree == out

\* "LeftOneBitNum returns the number represented by the leftmost one in the binary
\* representation" (bit.go:83), also when that is the word's last power.
LeftOneBitIsLeftmost ==
    kind = "bit" /\ arg # <<>> =>
        LET x == arg[1][2]
        IN  x # 0 => Ones(LeftOneBitNum(FALSE, x)) = {Extreme(Ones(x), LAMBDA i, j : i > j)}

\* "RangeDateStr returns the range time string, between the start and end"
\* (datetime.go:339): no date beyond the end.
DatesAreBetween ==
    kind = "date" /\ arg # <<>> =>
        LET r == Ordered(arg[1][1], arg[1][2], arg[1][3])
            dates == RangeDateStr(arg[1][1], arg[1][2], arg[1][3])
        IN  dates = <<>> \/ dates = Dates(r[1], r[2])

\* "Range yields integers from start (inclusive) to end (exclusive), stepping by
\* step." (iterx.go:127): what it counts does not come back from the other end.
RangeStaysInside ==
    kind = "iter" /\ arg # <<>> /\ Len(arg[1]) = 3 =>
        Counted(arg[1][1], arg[1][2], arg[1][3], 4) = Counts(arg[1][1], arg[1][2], arg[1][3], 4)
=============================================================================
