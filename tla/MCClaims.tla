------------------------------- MODULE MCClaims ------------------------------
(***************************************************************************)
(* What comments of the code say and the code does not do, one statement   *)
(* after the other.  A behaviour is about the statement that `claim'       *)
(* numbers: it starts in an initial state of the statement's component and *)
(* takes that component's steps.  Once it has reached a state where the    *)
(* statement is false it may go on with the next statement, in an initial  *)
(* state of that one's component.  So a behaviour that reaches statement n *)
(* has a counterexample to each of the statements before, and the          *)
(* components are those of MCServices and RingBuffer, as they are.         *)
(***************************************************************************)
EXTENDS MCServices, Sequences

VARIABLE claim          \* the number of the statement the behaviour is about

B == INSTANCE RingBuffer WITH
        Threads <- Clients, Items <- Labels, Cap <- 1, Zero <- Nil,
        buf <- v1, head <- v2, tail <- v3, count <- v4, closed <- v5, waitSet <- v6,
        call <- v7, ret <- v8

Statements == 1 .. 19

\* The n-th statement; the comment it quotes is beside its definition.
Holds(n) ==
    CASE n = 1 -> A!FromMajorReports
      [] n = 2 -> A!ParseReports
      [] n = 3 -> A!DivRounds
      [] n = 4 -> A!AllocateIsProportional
      [] n = 5 -> X!LeftOneBitIsLeftmost
      [] n = 6 -> X!DatesAreBetween
      [] n = 7 -> X!RangeStaysInside
      [] n = 8 -> C!LenIsKeys
      [] n = 9 -> C!TestSeesEveryBit
      [] n = 10 -> B!TryPopFailsWhenClosed
      [] n = 11 -> G!FailedSetupKeepsLevel
      [] n = 12 -> G!SessionsRevert
      [] n = 13 -> G!StampIsOfItsSecond
      [] n = 14 -> G!OtherKeysUntouched
      [] n = 15 -> H!StopIsComplete
      [] n = 16 -> I!AtMostOneRunEver
      [] n = 17 -> W!CountIsExact
      [] n = 18 -> K!BatchMaxIsLargest
      [] n = 19 -> K!InFlightIsBuffered

\* The component of the n-th statement, and the values its variables start with.
Component(n) ==
    CASE n \in 1 .. 4 -> "amounts"
      [] n \in 5 .. 7 -> "algorithms"
      [] n \in 8 .. 9 -> "containers"
      [] n = 10 -> "ringbuffer"
      [] n \in 11 .. 14 -> "emit"
      [] n = 15 -> "shutdown"
      [] n = 16 -> "idempotency"
      [] n = 17 -> "windows"
      [] n \in 18 .. 19 -> "producer"

Money(x) == <<"money", x, x, TRUE>>
Pure(package) == <<package, <<>>, TRUE>>
Emit(kind, obj, ref) == <<kind, obj, [t \in Clients |-> [pc |-> "idle"]], ref, TRUE, 0>>

Starts(n) ==
    CASE n \in 1 .. 2 -> {Money(0)}
      [] n = 3 -> {Money(100)}
      [] n = 4 -> {Money(-2)}
      [] n = 5 -> {Pure("bit")}
      [] n = 6 -> {Pure("date")}
      [] n = 7 -> {Pure("iter")}
      [] n = 8 -> {<<"trie", [node |-> (<<>> :> Nil), count |-> 0],
                     [has |-> [k \in C!Paths |-> Nil], root |-> 0], TRUE, 0>>}
      [] n = 9 -> {<<"bitset", <<C!NewBits(1), C!NewBits(4)>>, <<{}, {}>>, TRUE, 0>>}
      [] n = 10 -> {<<[i \in B!Index |-> Nil], 0, 0, 0, FALSE, {},
                      [t \in Clients |-> B!Idle], <<>>>>}
      [] n = 11 -> {Emit("setup", [level |-> 0, writers |-> <<>>, global |-> 2, err |-> FALSE], 0)}
      [] n = 12 -> {Emit("session", [strategy |-> 0], FALSE)}
      [] n = 13 -> {Emit("stamp", [sec |-> 0, str |-> 0], [clock |-> 1, torn |-> FALSE, right |-> TRUE])}
      [] n = 14 -> {Emit("base", [base |-> <<>>], [raced |-> FALSE, kept |-> TRUE])}
      [] n = 15 -> {<<d, 0, H!None, FALSE, H!At("new", <<>>, <<>>), {}>> : d \in [H!Comps -> H!DepLists]}
      [] n = 16 -> {<<[k \in Keys |-> 0], <<>>, 1, [t \in Clients |-> I!Idle], [k \in Keys |-> 0]>>}
      [] n = 17 -> {<<"freqcap", o, W!Empty("freqcap"), TRUE, 0>> : o \in W!New("freqcap")}
      [] n \in 18 .. 19 ->
           {<<"sarama", FALSE, "no", 0,
              [enqueued |-> 0, success |-> 0, failed |-> 0, batchMax |-> 0, delivered |-> 0],
              [t \in Clients |-> K!NoOp], 0, [seen |-> {0}, calls |-> 0],
              [limit |-> 0, alike |-> TRUE, scrape |-> K!NoScrape, sane |-> TRUE]>>}

\* The i-th variable of a component that starts with s; 0 when it has fewer.
Nth(s, i) == IF i <= Len(s) THEN s[i] ELSE 0

\* These are initial states of the component, as its own module has them.
Started == IF In("ringbuffer") THEN B!Init /\ Only8 ELSE Init

Begin(n, s) ==
    /\ part = Component(n)
    /\ v1 = Nth(s, 1) /\ v2 = Nth(s, 2) /\ v3 = Nth(s, 3) /\ v4 = Nth(s, 4) /\ v5 = Nth(s, 5)
    /\ v6 = Nth(s, 6) /\ v7 = Nth(s, 7) /\ v8 = Nth(s, 8) /\ v9 = Nth(s, 9) /\ v10 = Nth(s, 10)
    /\ v11 = Nth(s, 11) /\ v12 = Nth(s, 12) /\ v13 = Nth(s, 13) /\ v14 = Nth(s, 14)
    /\ Started

ClaimsInit == claim = 1 /\ \E s \in Starts(1) : Begin(1, s)

\* The statement is refuted, and the next one's turn begins.
Refute ==
    /\ claim + 1 \in Statements /\ ~Holds(claim)
    /\ claim' = claim + 1
    /\ \E s \in Starts(claim + 1) :
        /\ part' = Component(claim + 1)
        /\ v1' = Nth(s, 1) /\ v2' = Nth(s, 2) /\ v3' = Nth(s, 3) /\ v4' = Nth(s, 4)
        /\ v5' = Nth(s, 5) /\ v6' = Nth(s, 6) /\ v7' = Nth(s, 7) /\ v8' = Nth(s, 8)
        /\ v9' = Nth(s, 9) /\ v10' = Nth(s, 10) /\ v11' = Nth(s, 11) /\ v12' = Nth(s, 12)
        /\ v13' = Nth(s, 13) /\ v14' = Nth(s, 14)
        /\ Started'

Step ==
    /\ UNCHANGED claim
    /\ \/ Next
       \/ In("ringbuffer") /\ B!Next /\ UNCHANGED <<part, After8>>

ClaimsNext == Step \/ Refute
ClaimsSpec == ClaimsInit /\ [][ClaimsNext]_<<vars, claim>>

\* At least one of the statements that comments of the code make, quoted beside
\* Holds' operands, is true of the code: the last one is, when all the others have
\* been refuted.
SomeStatementHolds == claim + 1 \in Statements \/ Holds(claim)
=============================================================================
