---------------------------- MODULE WindowLedger ----------------------------
(***************************************************************************)
(* The breaker's sliding window against a ledger of every call: any        *)
(* sequence of recordWindow, maybeTrip's advance and toClosed's reset, at  *)
(* seconds that may stand still, jump ahead or, after a clock adjustment,  *)
(* go back.                                                                *)
(***************************************************************************)
EXTENDS FailureWindow

CONSTANTS MaxSec,     \* bound on the clock
          MaxRecords  \* bound on the calls recorded

VARIABLES win,
          ledger      \* the calls and failures charged to each second since the last reset

vars == <<win, ledger>>

Times == 0 .. MaxSec
Blank == [s \in Times |-> [total |-> 0, fail |-> 0]]

Init ==
    /\ \E sec \in Times : win = Empty(sec)
    /\ ledger = Blank

RecordCall(sec, success) ==
    /\ MapThenSumSet(LAMBDA s : ledger[s].total, Times) < MaxRecords
    /\ win' = Record(win, sec, success)
    /\ ledger' = [ledger EXCEPT ![Charged(win, sec)] =
                    [total |-> @.total + 1, fail |-> @.fail + IF success THEN 0 ELSE 1]]

AdvanceOnly(sec) ==
    /\ win' = Advance(win, sec)
    /\ UNCHANGED ledger

Reset(sec) ==
    /\ win' = Empty(sec)
    /\ ledger' = Blank

Next ==
    \E sec \in Times :
        \/ \E success \in BOOLEAN : RecordCall(sec, success)
        \/ AdvanceOnly(sec)
        \/ Reset(sec)

Spec == Init /\ [][Next]_vars

-----------------------------------------------------------------------------
TypeOK ==
    /\ win \in WindowType(Times, 0 .. MaxRecords)
    /\ ledger \in [Times -> [total : 0 .. MaxRecords, fail : 0 .. MaxRecords]]

\* The seconds the window covers.
Covered == {s \in Times : win.base - Secs < s /\ s <= win.base}

\* The running sums are exactly the calls, and the failures, of the last Secs
\* seconds: advance drops every expired bucket and no live one, after idle gaps
\* longer and shorter than the window and when the clock has gone back.
WindowExact ==
    /\ win.sumTotal = MapThenSumSet(LAMBDA s : ledger[s].total, Covered)
    /\ win.sumFail = MapThenSumSet(LAMBDA s : ledger[s].fail, Covered)
    /\ \A s \in Covered : win.counts[s % Secs] = ledger[s].total
                          /\ win.fails[s % Secs] = ledger[s].fail

=============================================================================
