--------------------------- MODULE FailureWindow ----------------------------
(***************************************************************************)
(* The sliding window in which a closed breaker counts calls: two rings of *)
(* one bucket per second (all calls, failed calls) with running sums.  A   *)
(* window is a record, the operators are the code's updates of it.         *)
(***************************************************************************)
EXTENDS Integers, FiniteSetsExt

CONSTANT Secs      \* len(b.counts): the window's length in seconds

ASSUME SecsAssumption == Secs \in Nat \ {0}

Buckets == 0 .. Secs - 1
NoCalls == [i \in Buckets |-> 0]

Empty(sec) ==
    [counts |-> NoCalls, fails |-> NoCalls, base |-> sec, sumTotal |-> 0, sumFail |-> 0]

\* The buckets that the loop over base+1 .. sec clears.
Expired(w, sec) == {i \in Buckets : \E s \in w.base + 1 .. sec : s % Secs = i}

Total(ring, S) == MapThenSumSet(LAMBDA i : ring[i], S)

Cleared(ring, S) == [i \in Buckets |-> IF i \in S THEN 0 ELSE ring[i]]

Roll(w, sec, S) ==
    [counts |-> Cleared(w.counts, S), fails |-> Cleared(w.fails, S), base |-> sec,
     sumTotal |-> w.sumTotal - Total(w.counts, S),
     sumFail |-> w.sumFail - Total(w.fails, S)]

\* A regressed clock clears everything, as a ring that trusts the clock would.
AdvanceTrusting(w, sec) ==
    CASE sec = w.base -> w
      [] sec < w.base \/ sec - w.base >= Secs -> Roll(w, sec, Buckets)
      [] OTHER -> Roll(w, sec, Expired(w, sec))

Advance(w, sec) ==
    CASE sec <= w.base -> w
      [] sec - w.base >= Secs -> Roll(w, sec, Buckets)
      [] OTHER -> Roll(w, sec, Expired(w, sec))

\* The second the call is charged to: base if the clock regressed.
Charged(w, sec) == IF sec < w.base THEN w.base ELSE sec

Record(w, sec, success) ==
    LET a == Advance(w, sec)
        i == Charged(a, sec) % Secs
        f == IF success THEN 0 ELSE 1
    IN  [a EXCEPT !.counts[i] = @ + 1, !.sumTotal = @ + 1,
                  !.fails[i] = @ + f, !.sumFail = @ + f]

WindowType(T, N) ==
    [counts : [Buckets -> N], fails : [Buckets -> N], base : T, sumTotal : N, sumFail : N]

=============================================================================
