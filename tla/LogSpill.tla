------------------------------ MODULE LogSpill ------------------------------
(***************************************************************************)
(* Package log4go, kafka_overflow.go: the bounded stores that take the     *)
(* records an asynchronous writer has no room for.  A store is a ring in   *)
(* memory and a file of framed records, of which the kind uses one or      *)
(* both.  A ring's or a file's operation is one critical section.  A       *)
(* chain's Push and Drain lock its two stores one after the other; they    *)
(* are one step here: a Drain that falls between the two halves of a Push  *)
(* only decides which of the stores has the record.                        *)
(***************************************************************************)
EXTENDS Naturals, Sequences, SequencesExt

CONSTANTS
    RingCap,   \* RingSpiller.capv
    FileCap    \* FileSpiller.maxBytes, in records

\* The stores as they are made; FileSpiller.open appends to what is there.
Empty == [ring |-> <<>>, file |-> <<>>]
Opened(file) == [Empty EXCEPT !.file = file]

\* RingSpiller.Push: a full ring overwrites its oldest record.
RingPush(ring, r) ==
    Append(IF Len(ring) < RingCap THEN ring ELSE Tail(ring), r)

\* PushNoOverwrite's and FileSpiller.Push's results: both refuse when full.
RingHasRoom(ring) == Len(ring) < RingCap
FileHasRoom(file) == Len(file) < FileCap

\* Push's result: the ring alone never refuses.
PushFits(kind, sp) ==
    CASE kind = "ring" -> TRUE
      [] kind = "file" -> FileHasRoom(sp.file)
      [] kind = "chain" -> RingHasRoom(sp.ring) \/ FileHasRoom(sp.file)
      [] OTHER -> FALSE

\* The store after Push; a chain fills its ring before its file.
Pushed(kind, sp, r) ==
    IF kind = "ring" \/ (kind = "chain" /\ RingHasRoom(sp.ring))
    THEN [sp EXCEPT !.ring = RingPush(@, r)]
    ELSE IF PushFits(kind, sp) THEN [sp EXCEPT !.file = Append(@, r)] ELSE sp

\* decodeSpillFile: the records before the first frame that is cut short.  A whole
\* frame is what Push wrote, so it decodes; which fields a codec keeps is left out.
Torn == "torn"
decodeSpillFile(file) ==
    LET whole == {n \in 0 .. Len(file) : \A i \in 1 .. n : file[i] # Torn}
    IN  SubSeq(file, 1, CHOOSE n \in whole : \A k \in whole : k <= n)

\* What the ring's, the file's and the chain's Drain return.  They leave the store
\* Empty: the ring is reset, the file renamed aside and a new one opened.
RingDrain(ring) == ring
FileDrain(file) == decodeSpillFile(file)
Drain(sp) == RingDrain(sp.ring) \o FileDrain(sp.file)
Stored(sp) == sp.ring \o sp.file

\* The stores that a crash can leave: the ring is gone, and so is what the file's
\* bufio.Writer had not passed on (Push does not flush), a suffix that may begin
\* within a frame.
AfterCrash(sp) ==
    {Opened(f) : f \in Prefixes(sp.file)}
    \cup {Opened(Append(f, Torn)) : f \in Prefixes(sp.file) \ {sp.file}}
=============================================================================
