--------------------------- MODULE OrderedStream ---------------------------
(***************************************************************************)
(* What a reader behind a reorder buffer may rely on: a stream of numbered *)
(* chunks with holes.  Chunks may be lost for good, but those that come    *)
(* out were sent, in increasing order, each once, and none is taken back.  *)
(***************************************************************************)
EXTENDS Integers, Sequences

CONSTANT Chunks

VARIABLES sent,      \* the chunks that have been sent
          received   \* the chunks that have come out, in order

Init == sent = {} /\ received = << >>

Send ==
    /\ \E c \in Chunks : sent' = sent \cup {c}
    /\ UNCHANGED received

\* One or more chunks come out after the ones before them.
Deliver ==
    /\ Len(received') > Len(received)
    /\ \A i \in 1 .. Len(received) : received'[i] = received[i]
    /\ \A i \in 1 .. Len(received') : received'[i] \in sent
    /\ \A i, j \in 1 .. Len(received') : i < j => received'[i] < received'[j]
    /\ UNCHANGED sent

Next == Send \/ Deliver

Spec == Init /\ [][Next]_<<sent, received>>
=============================================================================
