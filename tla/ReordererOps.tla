---------------------------- MODULE ReordererOps ----------------------------
(***************************************************************************)
(* The operations of tunnel.Reorderer (internal/tunnel/reorder.go) as      *)
(* functions from a reorderer to a reorderer.  Both ends of a split        *)
(* connection use it: CentralServer for the frames that travel up, and     *)
(* PacketSplitter.RelayUpstreamToClient for the frames that travel back.   *)
(*                                                                         *)
(* A reorderer is a record                                                 *)
(*    nextSeq       the sequence number to be delivered next               *)
(*    buffer        the sequence numbers whose payload is buffered; the    *)
(*                  Go map from number to payload is abstracted to its     *)
(*                  domain, because a sender gives every payload of a      *)
(*                  connection a number of its own                         *)
(*    waitingSince  the gap timer: "zero" (not running), "recent"          *)
(*                  (running for less than gapTimeout) or "expired"        *)
(***************************************************************************)
EXTENDS Integers

CONSTANT SeqSpace      \* 2^32 in the code: sequence numbers are uint32

ASSUME SeqSpaceAssumption == SeqSpace \in Nat /\ SeqSpace > 1

SeqNum == 0 .. SeqSpace - 1
Timer  == {"zero", "recent", "expired"}
NoData == -1           \* Next() returned nil

ReordererType ==
    [nextSeq : SeqNum, buffer : SUBSET SeqNum, waitingSince : Timer]

\* NewReorderer() is NewReordererAt(0).
NewReordererAt(startSeq) ==
    [nextSeq |-> startSeq, buffer |-> {}, waitingSince |-> "zero"]

\* Mutant of Insert: late and repeated frames are buffered too.
InsertLate(r, seq) == [r EXCEPT !.buffer = @ \cup {seq}]

Insert(r, seq) ==
    IF seq < r.nextSeq THEN r ELSE [r EXCEPT !.buffer = @ \cup {seq}]

-----------------------------------------------------------------------------
(* Next(), case by case.                                                   *)

Ready(r) == r.nextSeq \in r.buffer

\* Mutants of Take: nextSeq is not advanced; the gap timer keeps running.
TakeStays(r) ==
    [r EXCEPT !.buffer = @ \ {r.nextSeq}, !.waitingSince = "zero"]
TakeKeepsTimer(r) ==
    [r EXCEPT !.buffer = @ \ {r.nextSeq}, !.nextSeq = (@ + 1) % SeqSpace]

\* Delete nextSeq from the buffer, advance (uint32 arithmetic), stop the timer.
Take(r) ==
    [nextSeq      |-> (r.nextSeq + 1) % SeqSpace,
     buffer       |-> r.buffer \ {r.nextSeq},
     waitingSince |-> "zero"]

IsLowest(r, m) == m \in r.buffer /\ \A b \in r.buffer : m <= b

\* Mutant of skipToLowest: the gap is never left.
skipNowhere(r) == r

skipToLowest(r) ==
    LET m == CHOOSE x \in r.buffer : IsLowest(r, x)
    IN  IF r.buffer # {} /\ m > r.nextSeq THEN [r EXCEPT !.nextSeq = m] ELSE r

\* The gap timer has run out: lines 66-76 are reached.
GapExpired(r) == ~Ready(r) /\ r.buffer # {} /\ r.waitingSince = "expired"

\* The reorderer after skipToLowest() and the reset of the timer.
Skipped(r) == [skipToLowest(r) EXCEPT !.waitingSince = "zero"]

Next(r) ==
    CASE Ready(r)         -> Take(r)
      [] GapExpired(r)    -> IF Ready(Skipped(r)) THEN Take(Skipped(r)) ELSE Skipped(r)
      [] ~Ready(r) /\ r.buffer = {}
                          -> [r EXCEPT !.waitingSince = "zero"]
      [] ~Ready(r) /\ r.buffer # {} /\ r.waitingSince = "zero"
                          -> [r EXCEPT !.waitingSince = "recent"]
      [] ~Ready(r) /\ r.buffer # {} /\ r.waitingSince = "recent"
                          -> r

\* Mutant of Data: after a skip, the payload is looked up under the old nextSeq.
DataUnskipped(r) ==
    IF Ready(r) \/ GapExpired(r) THEN r.nextSeq ELSE NoData

\* The payload Next() returns, named by its sequence number.
Data(r) ==
    CASE Ready(r)      -> r.nextSeq
      [] GapExpired(r) -> IF Ready(Skipped(r)) THEN Skipped(r).nextSeq ELSE NoData
      [] OTHER         -> NoData

-----------------------------------------------------------------------------
(* The loop "for { data := Next(); if data == nil { break }; ... }" that    *)
(* every user of the reorderer runs.  It returns the consecutive payloads  *)
(* DrainFrom(r) .. DrainTo(r) - 1.  After a first delivery the timer is     *)
(* zero, so a second gap only restarts it: one drain skips at most one gap.*)
(* Sequence numbers are assumed not to wrap within the run.                *)

DrainFrom(r) ==
    CASE Ready(r)      -> r.nextSeq
      [] GapExpired(r) -> Skipped(r).nextSeq
      [] OTHER         -> r.nextSeq

\* n is the end of the run of buffered numbers that starts at DrainFrom(r).
IsDrainEnd(r, n) ==
    /\ n \in DrainFrom(r) .. SeqSpace
    /\ n \notin r.buffer
    /\ \A i \in DrainFrom(r) .. n - 1 : i \in r.buffer

DrainTo(r) ==
    IF Ready(r) \/ GapExpired(r)
    THEN CHOOSE n \in DrainFrom(r) .. SeqSpace : IsDrainEnd(r, n)
    ELSE DrainFrom(r)

Drained(r) == DrainFrom(r) .. DrainTo(r) - 1

\* Mutant of Drain: the call of Next() that ends the loop is left out.
DrainNoTimer(r) ==
    IF Drained(r) = {} THEN r
    ELSE [nextSeq      |-> DrainTo(r) % SeqSpace,
          buffer       |-> r.buffer \ Drained(r),
          waitingSince |-> "zero"]

Drain(r) ==
    IF Drained(r) = {} THEN Next(r)
    ELSE LET rest == r.buffer \ Drained(r)
         IN  [nextSeq      |-> DrainTo(r) % SeqSpace,
              buffer       |-> rest,
              waitingSince |-> IF rest = {} THEN "zero" ELSE "recent"]
=============================================================================
