------------------------------ MODULE Balancer ------------------------------
(***************************************************************************)
(* How an instance is picked: the balancers of internal/balancer, called   *)
(* by the handlers of connections (concurrently, on the instances healthy  *)
(* then), and pickInstance of a PacketSplitter (internal/tunnel), called   *)
(* for every chunk on the instances the connection began with.             *)
(*                                                                         *)
(* What a pick reads one item at a time while others write it (health,     *)
(* loads, the unlocked counters of WeightedRoundRobin) is one step per     *)
(* item; pings do not change during a behaviour.                           *)
(***************************************************************************)
EXTENDS SeqOps, FiniteSetsExt, Functions

CONSTANTS
    N,        \* number of instances
    Pickers,  \* goroutines that pick
    MaxLoad,  \* bound: connections of an instance
    MaxWait,  \* bound: picks counted in wait
    Period,   \* counters that are only used modulo the length of a list are kept modulo this
    Scenes    \* [strategy, pickers, flaps, pings] of a behaviour

Insts == 1 .. N
Unknown == 1000   \* math.MaxInt64 - 1: more than any ping

\* The strategies New knows, and pickInstance of a PacketSplitter.
Strategies == {"round_robin", "random", "least_load", "least_ping", "weighted_rr", "splitter"}

ASSUME BalancerAssumption ==
    /\ N \in Nat \ {0} /\ MaxLoad \in Nat /\ MaxWait \in Nat
    /\ Period \in Nat /\ N <= Period /\ \A k \in Insts : Period % k = 0
    /\ \A s \in Scenes : /\ s.strategy \in Strategies /\ s.flaps \in BOOLEAN
                         /\ s.pickers \subseteq Pickers /\ IsFiniteSet(s.pickers)
                         /\ \A i \in Insts : s.pings[i] \in 0 .. Unknown - 1
                         \* pickInstance has the lock of its PacketSplitter throughout
                         /\ s.strategy = "splitter" => \A p, q \in s.pickers : p = q

VARIABLES
    scene,
    healthy,  \* Instance.IsHealthy
    load,     \* Instance.ActiveConns (counted under least_load only)
    current,  \* RoundRobin.counter, WeightedRoundRobin.current, PacketSplitter.current
    counter,  \* the counter of the two weighted ones
    pick,     \* the calls in progress
    wait,     \* history: picks (up to MaxWait) that began and ended since each instance
              \* was picked last, or became healthy
    run       \* history: the latest instance, how often in a row, and whether the
              \* health of the instances stood still meanwhile

balancerVars == <<scene, healthy, load, current, counter, pick, wait, run>>

-----------------------------------------------------------------------------
(* Weights: inversely proportional to the ping, at least 1                 *)

MaxPing(list) == Max({1} \cup {scene.pings[list[k]] : k \in DOMAIN list})

Weight(list, i, unknown) ==
    LET ping == IF scene.pings[i] <= 0 THEN unknown ELSE scene.pings[i]
    IN  Max({MaxPing(list) \div ping, 1})

recalcWeights(list)  == [i \in Range(list) |-> Weight(list, i, MaxPing(list))]
computeWeights(list) == [i \in Range(list) |-> Weight(list, i, Unknown)]

All == [i \in Insts |-> i]

W(i) == CASE scene.strategy = "splitter"    -> recalcWeights(All)[i]
          [] scene.strategy = "weighted_rr" -> computeWeights(All)[i]
          [] OTHER -> 1

-----------------------------------------------------------------------------
\* history: up, the instances healthy all through the call; still, no health has changed
NoPick == [pc |-> "idle", list |-> << >>, k |-> 0, best |-> 0, val |-> 0,
           up |-> {}, still |-> TRUE]

BalancerInit ==
    /\ scene \in Scenes
    /\ healthy = [i \in Insts |-> TRUE]
    /\ load = [i \in Insts |-> 0]
    /\ current = 0 /\ counter = 0
    /\ pick = [p \in Pickers |-> NoPick]
    /\ wait = [i \in Insts |-> 0]
    /\ run = [inst |-> 0, n |-> 0, still |-> FALSE]

\* The health checker, a crash or a restart.
Flap(i) ==
    /\ scene.flaps
    /\ healthy' = [healthy EXCEPT ![i] = ~ @]
    /\ wait' = [wait EXCEPT ![i] = 0]
    /\ run' = [run EXCEPT !.still = FALSE]
    /\ pick' = [p \in Pickers |-> [pick[p] EXCEPT !.still = FALSE, !.up = @ \ {i}]]
    /\ UNCHANGED <<scene, load, current, counter>>

\* The call returns i; its caller counts the connection later (IncrConns).
Returns(p, i) ==
    /\ pick' = [pick EXCEPT ![p] =
                  IF scene.strategy = "least_load" THEN [NoPick EXCEPT !.pc = "count", !.best = i]
                  ELSE NoPick]
    /\ wait' = [j \in Insts |-> IF j = i \/ j \notin pick[p].up THEN 0
                               ELSE Min({wait[j] + 1, MaxWait})]
    /\ run' = IF run.inst = i THEN [run EXCEPT !.n = Min({@, W(i)}) + 1]
              ELSE [inst |-> i, n |-> 1, still |-> pick[p].still]

\* No healthy instance: the connection ends before a balancer is called.
Begin(p) ==
    /\ pick[p].pc = "idle" /\ p \in scene.pickers
    /\ LET list == IF scene.strategy = "splitter" THEN All
                   ELSE Filter(All, {i \in Insts : healthy[i]})
       IN  /\ list # << >>
           /\ pick' = [pick EXCEPT ![p] = [NoPick EXCEPT !.pc = scene.strategy, !.list = list,
                                              !.up = {i \in Insts : healthy[i]}]]
    /\ UNCHANGED <<scene, healthy, load, current, counter, wait, run>>

At(p, strategy) == pick[p].pc = strategy

-----------------------------------------------------------------------------
(* roundrobin.go, random.go                                                *)

RoundRobinPick(p) ==
    /\ At(p, "round_robin")
    /\ current' = (current + 1) % Period
    /\ Returns(p, pick[p].list[(current % Len(pick[p].list)) + 1])
    /\ UNCHANGED <<scene, healthy, load, counter>>

RandomPick(p) ==
    /\ At(p, "random")
    /\ \E i \in Range(pick[p].list) : Returns(p, i)
    /\ UNCHANGED <<scene, healthy, load, current, counter>>

-----------------------------------------------------------------------------
(* leastload.go, leastping.go: the first of the least, read one by one     *)

Least(p, strategy, val) ==
    /\ At(p, strategy)
    /\ LET k == pick[p].k + 1
           i == pick[p].list[k]
       IN  IF k > Len(pick[p].list)
           THEN Returns(p, pick[p].best)
           ELSE /\ pick' = [pick EXCEPT ![p].k = k,
                              ![p].best = IF pick[p].best = 0 \/ val[i] < pick[p].val THEN i ELSE @,
                              ![p].val = IF pick[p].best = 0 \/ val[i] < pick[p].val THEN val[i] ELSE @]
                /\ UNCHANGED <<wait, run>>
    /\ UNCHANGED <<scene, healthy, load, current, counter>>

\* Mutant: the least load starts at 0, so none is less and the first is taken.
LeastLoadPickFirst(p) == Least(p, "least_load", [i \in Insts |-> 0])

LeastLoadPick(p) == Least(p, "least_load", load)

LeastPingPick(p) ==
    Least(p, "least_ping", [i \in Insts |-> IF scene.pings[i] <= 0 THEN Unknown ELSE scene.pings[i]])

IncrConns(p) ==
    /\ pick[p].pc = "count" /\ load[pick[p].best] < MaxLoad
    /\ load' = [load EXCEPT ![pick[p].best] = @ + 1]
    /\ pick' = [pick EXCEPT ![p] = NoPick]
    /\ UNCHANGED <<scene, healthy, current, counter, wait, run>>

-----------------------------------------------------------------------------
(* weighted_rr.go: no lock                                                 *)

\* One attempt reads current and counter; k counts the attempts.
WeightedRead(p) ==
    /\ At(p, "weighted_rr")
    /\ LET n == Len(pick[p].list)
       IN  IF n = 1 \/ pick[p].k = 2 * n
           THEN Returns(p, pick[p].list[1])
           ELSE /\ pick' = [pick EXCEPT ![p].pc = "attempt", ![p].val = counter,
                              ![p].best = pick[p].list[(current % n) + 1]]
                /\ UNCHANGED <<wait, run>>
    /\ UNCHANGED <<scene, healthy, load, current, counter>>

\* counter++ works on the value that was compared or on the one it finds.
WeightedWrite(p) ==
    /\ pick[p].pc = "attempt"
    /\ IF pick[p].val < computeWeights(pick[p].list)[pick[p].best]
       THEN /\ counter' \in {pick[p].val + 1, counter + 1}
            /\ Returns(p, pick[p].best)
            /\ UNCHANGED current
       ELSE /\ counter' = 0
            /\ current' = (current + 1) % Period
            /\ pick' = [pick EXCEPT ![p].pc = "weighted_rr", ![p].k = @ + 1]
            /\ UNCHANGED <<wait, run>>
    /\ UNCHANGED <<scene, healthy, load>>

-----------------------------------------------------------------------------
(* splitter.go: pickInstance, under its lock                               *)

\* Mutant: an unhealthy instance's turn is left to the next one.
SplitterAttemptKeeps(p) ==
    /\ At(p, "splitter") /\ pick[p].k < 2 * N
    /\ LET turn == counter >= recalcWeights(All)[current + 1]
           cur  == IF turn THEN (current + 1) % N ELSE current
           cnt  == IF turn THEN 1 ELSE counter + 1
       IN  IF healthy[cur + 1]
           THEN Returns(p, cur + 1) /\ current' = cur /\ counter' = cnt
           ELSE /\ current' = (cur + 1) % N /\ counter' = cnt
                /\ pick' = [pick EXCEPT ![p].k = @ + 1]
                /\ UNCHANGED <<wait, run>>
    /\ UNCHANGED <<scene, healthy, load>>

\* Mutant: a full turn resets the counter and stays.
SplitterAttemptStays(p) ==
    /\ At(p, "splitter") /\ pick[p].k < 2 * N
    /\ LET turn == counter >= recalcWeights(All)[current + 1]
       IN  IF healthy[current + 1]
           THEN /\ Returns(p, current + 1) /\ UNCHANGED current
                /\ counter' = IF turn THEN 1 ELSE counter + 1
           ELSE /\ current' = (current + 1) % N /\ counter' = 0
                /\ pick' = [pick EXCEPT ![p].k = @ + 1]
                /\ UNCHANGED <<wait, run>>
    /\ UNCHANGED <<scene, healthy, load>>

SplitterAttempt(p) ==
    /\ At(p, "splitter") /\ pick[p].k < 2 * N
    /\ LET turn == counter >= recalcWeights(All)[current + 1]
           cur  == IF turn THEN (current + 1) % N ELSE current
           cnt  == IF turn THEN 1 ELSE counter + 1
       IN  IF healthy[cur + 1]
           THEN Returns(p, cur + 1) /\ current' = cur /\ counter' = cnt
           ELSE /\ current' = (cur + 1) % N /\ counter' = 0
                /\ pick' = [pick EXCEPT ![p].k = @ + 1]
                /\ UNCHANGED <<wait, run>>
    /\ UNCHANGED <<scene, healthy, load>>

\* All attempts failed: the first healthy one in order, or nil.
SplitterFallback(p) ==
    /\ At(p, "splitter") /\ pick[p].k >= 2 * N
    /\ LET i == pick[p].k - 2 * N + 1
       IN  IF i > N
           THEN pick' = [pick EXCEPT ![p].pc = "nil"] /\ UNCHANGED <<wait, run>>
           ELSE IF healthy[i] THEN Returns(p, i)
           ELSE pick' = [pick EXCEPT ![p].k = @ + 1] /\ UNCHANGED <<wait, run>>
    /\ UNCHANGED <<scene, healthy, load, current, counter>>

\* RelayClientToUpstream returns; another connection begins.
SplitterNil(p) ==
    /\ pick[p].pc = "nil"
    /\ pick' = [pick EXCEPT ![p] = NoPick]
    /\ current' = 0 /\ counter' = 0
    /\ wait' = [i \in Insts |-> 0] /\ run' = [inst |-> 0, n |-> 0, still |-> FALSE]
    /\ UNCHANGED <<scene, healthy, load>>

BalancerNext ==
    \/ \E i \in Insts : Flap(i)
    \/ \E p \in Pickers :
          \/ Begin(p) \/ RoundRobinPick(p) \/ RandomPick(p)
          \/ LeastLoadPick(p) \/ LeastPingPick(p) \/ IncrConns(p)
          \/ WeightedRead(p) \/ WeightedWrite(p)
          \/ SplitterAttempt(p) \/ SplitterFallback(p) \/ SplitterNil(p)

BalancerSpec == BalancerInit /\ [][BalancerNext]_balancerVars

-----------------------------------------------------------------------------
(* Properties                                                              *)

\* Types; no instance is loaded beyond the bound, no pick is out of its list.
BalancerTypeOK ==
    /\ healthy \in [Insts -> BOOLEAN] /\ load \in [Insts -> 0 .. MaxLoad]
    /\ current \in 0 .. Period - 1 /\ counter \in Nat
    /\ \A p \in Pickers : pick[p].best \in 0 .. N /\ Range(pick[p].list) \subseteq Insts
    /\ wait \in [Insts -> Nat]

\* One picker at a time, or an atomic counter.
Ordered ==
    \/ scene.strategy = "splitter"
    \/ ~ scene.flaps /\ scene.strategy = "round_robin"
    \/ ~ scene.flaps /\ scene.strategy = "weighted_rr" /\ Cardinality(scene.pickers) = 1

\* An instance that stays healthy is picked again after at most as many picks as the
\* others' weights together: for a PacketSplitter however the health of the others
\* changes, even while it looks at them, for the balancers as long as the list stays.
NoStarvation ==
    Ordered => \A i \in Insts : wait[i] <= MapThenSumSet(W, Insts \ {i})

\* With ever more connections and none that ends, handlers that read the loads at the
\* same time upset the balance by no more than one connection each.
LoadsStayEven ==
    /\ BalancerTypeOK
    /\ scene.strategy = "least_load" /\ ~ scene.flaps =>
          \A i, j \in Insts : load[i] - load[j] <= Cardinality(scene.pickers)

\* When the turn passes on, the instance has had exactly its weight of picks in a row,
\* unless health changed meanwhile.
ExactShare ==
    [][Ordered /\ run.still /\ run'.inst # run.inst => run.n = W(run.inst)]_balancerVars
=============================================================================
