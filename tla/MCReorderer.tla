---------------------------- MODULE MCReorderer ----------------------------
(* Reorderer for TLC, and the reference definition of the drain loop.      *)
EXTENDS Reorderer

\* Next() called until it returns nil: the loop itself.
IteratedNext[x \in ReordererType] ==
    IF Data(x) = NoData THEN [r |-> Next(x), data |-> {}]
    ELSE LET rest == IteratedNext[Next(x)]
         IN  [r |-> rest.r, data |-> {Data(x)} \cup rest.data]

\* The closed form Drain/Drained used by CentralServer is what the loop
\* around Next() computes (upstream.go 137-143, 285-291).
DrainIsIteratedNext ==
    IteratedNext[r] = [r |-> Drain(r), data |-> Drained(r)]
=============================================================================
