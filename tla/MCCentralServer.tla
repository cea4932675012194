-------------------------- MODULE MCCentralServer --------------------------
(* CentralServer for TLC. *)
EXTENDS CentralServer

CONSTANTS s1, s2, c1, c2

\* The sources are interchangeable (safety runs only).
SourceSymmetry == Permutations(Sources)

\* Data with losses; data and a FIN; tunnels that break.
DataOrDeath == {[events |-> {"gap", "loss"}, data |-> 3],
                [events |-> {"gap", "loss", "FIN"}, data |-> 2],
                [events |-> {"FIN", "death"}, data |-> 1]}
EveryFailure == {[events |-> AllEvents, data |-> 1]}
DataOnly == {[events |-> {}, data |-> 2]}
=============================================================================
