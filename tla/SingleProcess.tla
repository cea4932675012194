--------------------------- MODULE SingleProcess ---------------------------
(***************************************************************************)
(* What an Instance promises the rest of the program: it runs one process  *)
(* at a time.  A process is only ever started when the one before it has   *)
(* exited (they listen on the same port).                                  *)
(***************************************************************************)
EXTENDS Integers

CONSTANTS Objects,   \* the Instance objects
          First      \* the one NewManager and StartAll have started

VARIABLES running,   \* the processes of each object that run
          count      \* the number of processes each object has started

Init ==
    /\ running = [i \in Objects |-> IF i = First THEN {1} ELSE {}]
    /\ count = [i \in Objects |-> IF i = First THEN 1 ELSE 0]

Start(i) ==
    /\ running[i] = {}
    /\ count' = [count EXCEPT ![i] = @ + 1]
    /\ running' = [running EXCEPT ![i] = {count[i] + 1}]

Exit(i) ==
    /\ running[i] # {}
    /\ running' = [running EXCEPT ![i] = {}]
    /\ UNCHANGED count

Next == \E i \in Objects : Start(i) \/ Exit(i)

Spec == Init /\ [][Next]_<<running, count>>
=============================================================================
