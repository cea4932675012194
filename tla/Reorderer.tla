----------------------------- MODULE Reorderer -----------------------------
(***************************************************************************)
(* One tunnel.Reorderer and its single user.  Frames reach it in any       *)
(* order, late, repeated or never; the user calls Next() whenever it       *)
(* likes.  The user of a reorderer owns it (a goroutine in                 *)
(* RelayUpstreamToClient, the holder of connState.mu in the central        *)
(* server), so calls do not overlap.                                       *)
(***************************************************************************)
EXTENDS ReordererOps, Sequences

CONSTANTS StartSeq,    \* argument of NewReordererAt
          Frames       \* sequence numbers the peer may send

\* No sequence number is the last of the number space, so that nextSeq does
\* not wrap: the code would need 2^32 frames on one connection to get there.
ASSUME FramesAssumption ==
    /\ StartSeq \in 0 .. SeqSpace - 2
    /\ Frames \subseteq 0 .. SeqSpace - 2

VARIABLES
    r,          \* the reorderer
    out,        \* history: the payloads returned by Next(), in order
    skipped,    \* history: the sequence numbers given up on
    inserted,   \* history: the frames handed to Insert
    waitingFor  \* history: the value of nextSeq when the gap timer was started

vars == <<r, out, skipped, inserted, waitingFor>>

Init ==
    /\ r = NewReordererAt(StartSeq)
    /\ out = << >>
    /\ skipped = {}
    /\ inserted = {}
    /\ waitingFor = StartSeq

InsertFrame(seq) ==
    /\ r' = Insert(r, seq)
    /\ inserted' = inserted \cup {seq}
    /\ UNCHANGED <<out, skipped, waitingFor>>

CallNext ==
    /\ r' = Next(r)
    /\ out' = IF Data(r) = NoData THEN out ELSE Append(out, Data(r))
    /\ skipped' = IF GapExpired(r)
                  THEN skipped \cup (r.nextSeq .. skipToLowest(r).nextSeq - 1)
                  ELSE skipped
    /\ waitingFor' = IF r.waitingSince = "zero" /\ Next(r).waitingSince = "recent"
                     THEN r.nextSeq ELSE waitingFor
    /\ UNCHANGED inserted

\* gapTimeout passes on the wall clock while the timer runs.
GapElapses ==
    /\ r.waitingSince = "recent"
    /\ r' = [r EXCEPT !.waitingSince = "expired"]
    /\ UNCHANGED <<out, skipped, inserted, waitingFor>>

NextStep ==
    \/ \E seq \in Frames : InsertFrame(seq)
    \/ CallNext
    \/ GapElapses

Spec == Init /\ [][NextStep]_vars

\* gapTicker calls Next() every 500 ms whether or not a frame arrives, and
\* time passes.
Fairness == WF_vars(CallNext) /\ WF_vars(GapElapses)

FairSpec == Spec /\ Fairness

-----------------------------------------------------------------------------
Delivered == {out[i] : i \in 1 .. Len(out)}

\* Types; and only frames that were sent are buffered or come out.
TypeOK ==
    /\ r \in ReordererType
    /\ r.buffer \subseteq Frames
    /\ out \in Seq(Frames)
    /\ skipped \subseteq 0 .. SeqSpace - 2
    /\ inserted \subseteq Frames
    /\ waitingFor \in SeqNum

\* "delivers them in sequence order": whatever the order of arrival, the
\* repetitions and the gaps given up on, payloads come out in increasing
\* sequence order, each at most once.
InOrderOnce ==
    \A i, j \in 1 .. Len(out) : i < j => out[i] < out[j]

\* The reorder buffer implements a stream with holes: what Next() returns was
\* inserted, comes in increasing order and is never taken back.
Stream == INSTANCE OrderedStream WITH Chunks <- Frames, sent <- inserted, received <- out

ImplementsStream == Stream!Spec

\* Every number below nextSeq was either delivered or skipped, never both,
\* and a number that is buffered is still to come: a gap skip never throws
\* away a frame that has arrived in time.
Accounted ==
    /\ StartSeq <= r.nextSeq
    /\ Delivered \cup skipped = StartSeq .. r.nextSeq - 1
    /\ Delivered \cap skipped = {}
    /\ Delivered \cup r.buffer \subseteq inserted
    /\ \A b \in r.buffer : b >= r.nextSeq

\* A running gap timer always belongs to the frame that is missing now: the
\* grace period of one gap is never charged to a later one.
FreshGrace == r.waitingSince # "zero" => waitingFor = r.nextSeq

\* "it is skipped to prevent permanent stalls": a buffered frame is
\* eventually delivered, even if the frames before it never come.
NoPermanentStall ==
    \A seq \in Frames : (seq \in r.buffer) ~> (seq \in Delivered)
=============================================================================
