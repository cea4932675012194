-------------------------- MODULE TunnelPool_proofs --------------------------
(***************************************************************************)
(* Proof that no open connection escapes the pool, for every number of     *)
(* instances, connections and callers of SendFrame.                        *)
(***************************************************************************)
EXTENDS TunnelPool, CommonLemmas

ConnType == [inst : Insts \cup {Nil}, closed : BOOLEAN, dead : BOOLEAN, stale : BOOLEAN]

\* The parts of OpenIsPooled: what is open is listed; what is listed is listed
\* once, under its own instance.
OpenListed ==
    \A c \in Conns : (tc[c].inst # Nil /\ ~tc[c].closed) => c \in ToSet(conns[tc[c].inst])
ListedOnce ==
    \A i \in Insts : \A j, k \in 1 .. Len(conns[i]) :
       /\ conns[i][j] = conns[i][k] => j = k
       /\ tc[conns[i][j]].inst = i

\* A caller of SendFrame that is not done has a connection to try.
TryHasConn == \A s \in Senders : sender[s].pc = "try" => sender[s].left # << >>

\* The inductive invariant.
Inv == TypeOK /\ OpenListed /\ ListedOnce /\ TryHasConn

LEMMA InvPooled == Inv <=> OpenIsPooled /\ TryHasConn
BY DEF Inv, OpenIsPooled, OpenListed, ListedOnce

LEMMA InitInv == Init => Inv
<1> SUFFICES ASSUME Init PROVE Inv
  OBVIOUS
<1> USE TunnelPoolAssumption DEF Init
<1>1. TypeOK
  <2>1. << >> \in Seq(Conns) /\ Len(<< >>) = 0
    OBVIOUS
  <2>2. conns \in [Insts -> Seq(Conns)] /\ \A i \in Insts : Len(conns[i]) <= ConnsPerInstance
    BY <2>1
  <2>3. tc \in [Conns -> ConnType]
    BY DEF NotDialled, ConnType
  <2>4. sender \in [Senders -> [pc : {"idle", "try"}, left : Seq(Conns)]]
    BY <2>1 DEF IdleSender
  <2>5. refresher \in [pc : {"select", "snapshot", "lock", "dial", "done"}, healthy : SUBSET Insts]
    OBVIOUS
  <2> QED BY <2>2, <2>3, <2>4, <2>5 DEF TypeOK, ConnType
<1>2. OpenListed /\ ListedOnce /\ TryHasConn
  BY DEF OpenListed, ListedOnce, TryHasConn, NotDialled, IdleSender
<1> QED BY <1>1, <1>2 DEF Inv

\* Closing connections, and what the network does to them, moves none of them.
LEMMA PoolKept ==
    ASSUME Inv, conns' = conns, tc' \in [Conns -> ConnType],
           \A c \in Conns : tc'[c].inst = tc[c].inst /\ (tc[c].closed => tc'[c].closed)
    PROVE  OpenListed' /\ ListedOnce'
<1>1. OpenListed'
  BY DEF Inv, OpenListed, ToSet
<1>2. ASSUME NEW i \in Insts, NEW j \in 1 .. Len(conns[i]) PROVE conns[i][j] \in Conns
  BY DEF Inv, TypeOK
<1>3. ListedOnce'
  BY <1>2 DEF Inv, ListedOnce
<1> QED BY <1>1, <1>3

LEMMA CloseType ==
    ASSUME NEW x \in ConnType
    PROVE  close(x) \in ConnType /\ close(x).inst = x.inst /\ close(x).closed
BY DEF close, ConnType

\* What CloseConns does to every connection.
LEMMA CloseConnsFacts ==
    ASSUME TypeOK, NEW S
    PROVE  /\ CloseConns(S) \in [Conns -> ConnType]
           /\ \A c \in Conns : /\ CloseConns(S)[c].inst = tc[c].inst
                               /\ tc[c].closed => CloseConns(S)[c].closed
                               /\ c \in S => CloseConns(S)[c].closed
<1>1. \A c \in Conns : tc[c] \in ConnType
  BY DEF TypeOK, ConnType
<1> QED BY <1>1, CloseType DEF CloseConns

-----------------------------------------------------------------------------
(* The actions                                                             *)

\* Steps that leave the lists, the connections and the senders alone.
LEMMA ListsUntouched ==
    ASSUME Inv, UNCHANGED <<conns, tc, sender>>, TypeOK'
    PROVE  Inv'
<1>1. OpenListed' /\ TryHasConn'
  BY DEF Inv, OpenListed, TryHasConn
<1>2. ListedOnce'
  BY DEF Inv, ListedOnce
<1> QED BY <1>1, <1>2 DEF Inv

LEMMA RefresherKeeps ==
    ASSUME Inv, RefTick \/ RefStopped \/ RefSnapshot \/ RefDone \/ \E i \in Insts : DialFails(i)
    PROVE  Inv'
<1>1. UNCHANGED <<events, conns, tc, sender>>
  BY DEF RefTick, RefStopped, RefSnapshot, RefDone, DialFails
<1>2. refresher' \in [pc : {"select", "snapshot", "lock", "dial", "done"}, healthy : SUBSET Insts]
  <2>1. refresher \in [pc : {"select", "snapshot", "lock", "dial", "done"}, healthy : SUBSET Insts]
        /\ healthy \subseteq Insts
    BY DEF Inv, TypeOK
  <2>2. CASE RefTick \/ RefStopped
    BY <2>1, <2>2 DEF RefTick, RefStopped, RefGoto
  <2>3. CASE RefSnapshot \/ RefDone
    BY <2>1, <2>3 DEF RefSnapshot, RefDone
  <2>4. CASE \E i \in Insts : DialFails(i)
    BY <2>1, <2>4 DEF DialFails
  <2> QED BY <2>2, <2>3, <2>4
<1>3. UNCHANGED <<events, healthy, loop, stopCh>> /\ mu' \in BOOLEAN /\ ready' \in BOOLEAN
      /\ stopper' \in {"starting", "idle", "lock", "wait", "done"}
  BY DEF Inv, TypeOK, RefTick, RefStopped, RefSnapshot, RefDone, DialFails
<1>4. TypeOK'
  BY <1>1, <1>2, <1>3 DEF Inv, TypeOK
<1> QED BY <1>1, <1>4, ListsUntouched

LEMMA OtherKeeps ==
    ASSUME Inv,
           \/ \E c \in Conns : LoopCheck(c)
           \/ StopBegin \/ StopDone \/ \E i \in Insts : HealthChange(i)
    PROVE  Inv'
<1>1. UNCHANGED <<events, conns, tc, sender>>
  BY DEF LoopCheck, StopBegin, StopDone, HealthChange
<1>2. TypeOK'
  BY DEF Inv, TypeOK, LoopCheck, StopBegin, StopDone, HealthChange
<1> QED BY <1>1, <1>2, ListsUntouched

\* Steps of a readLoop or of the network on one connection.
LEMMA ConnKeeps ==
    ASSUME Inv, NEW c \in Conns, LoopFrame(c) \/ LoopError(c) \/ Dies(c) \/ GoesStale(c)
    PROVE  Inv'
<1>1. tc \in [Conns -> ConnType] /\ tc[c] \in ConnType
  BY DEF Inv, TypeOK, ConnType
<1>2. close(tc[c]) \in ConnType /\ close(tc[c]).inst = tc[c].inst /\ close(tc[c]).closed
  BY <1>1, CloseType
<1>3. tc' \in [Conns -> ConnType]
  <2>1. \A f \in {"stale", "dead"} : \A b \in BOOLEAN : [tc[c] EXCEPT ![f] = b] \in ConnType
    BY <1>1 DEF ConnType
  <2>2. \E x \in ConnType : tc' = [tc EXCEPT ![c] = x]
    BY <1>2, <2>1 DEF LoopFrame, LoopError, Dies, GoesStale
  <2> QED BY <1>1, <2>2
<1>4. \A d \in Conns : tc'[d].inst = tc[d].inst /\ (tc[d].closed => tc'[d].closed)
  BY <1>1, <1>2 DEF LoopFrame, LoopError, Dies, GoesStale, ConnType
<1>5. UNCHANGED <<events, healthy, conns, mu, refresher, sender, stopCh, stopper, ready>>
  BY DEF LoopFrame, LoopError, Dies, GoesStale
<1>6. loop' \in [Conns -> {"none", "check", "read", "done"}]
  BY DEF Inv, TypeOK, LoopFrame, LoopError, Dies, GoesStale
<1>7. TypeOK'
  BY <1>3, <1>5, <1>6 DEF Inv, TypeOK, ConnType
<1>8. TryHasConn'
  BY <1>5 DEF Inv, TryHasConn
<1> QED BY <1>3, <1>4, <1>5, <1>7, <1>8, PoolKept DEF Inv

\* Phase 1 of a refresh: what is dropped has been closed.
LEMMA PruneKeeps == Inv /\ Prune => Inv'
<1> SUFFICES ASSUME Inv, Prune PROVE Inv'
  OBVIOUS
<1> DEFINE K == {c \in Conns : Keep(c)}
           D == UNION {ToSet(conns[i]) \ ToSet(conns'[i]) : i \in Insts}
<1>1. TypeOK /\ OpenListed /\ ListedOnce /\ TryHasConn
  BY DEF Inv
<1>2. conns' = [i \in Insts |-> IF i \in refresher.healthy THEN Filter(conns[i], K) ELSE << >>]
  BY DEF Prune
<1>3. tc' = CloseConns(D)
  BY DEF Prune
<1>4. UNCHANGED <<events, healthy, loop, sender, stopCh, stopper, ready>> /\ mu' = TRUE
      /\ refresher' = [refresher EXCEPT !.pc = "dial"]
  BY DEF Prune, RefGoto
<1> HIDE DEF K, D
<1>5. \A i \in Insts : conns[i] \in Seq(Conns) /\ Len(conns[i]) <= ConnsPerInstance
  BY <1>1 DEF TypeOK
<1>6. \A i \in Insts : /\ conns'[i] \in Seq(Conns) /\ Len(conns'[i]) <= ConnsPerInstance
                       /\ ToSet(conns'[i]) \subseteq ToSet(conns[i])
                       /\ \A j, k \in 1 .. Len(conns'[i]) : conns'[i][j] = conns'[i][k] => j = k
  <2> TAKE i \in Insts
  <2>1. CASE i \in refresher.healthy
    <3>1. conns'[i] = Filter(conns[i], K)
      BY <1>2, <2>1
    <3>2. \A j, k \in 1 .. Len(conns[i]) : conns[i][j] = conns[i][k] => j = k
      BY <1>1 DEF ListedOnce
    <3>3. /\ conns'[i] \in Seq(Conns) /\ Len(conns'[i]) <= Len(conns[i])
          /\ ToSet(conns'[i]) = ToSet(conns[i]) \cap K
          /\ \A j, k \in 1 .. Len(conns'[i]) : conns'[i][j] = conns'[i][k] => j = k
      BY <1>5, <3>1, <3>2, FilterFacts
    <3>4. Len(conns'[i]) \in Nat /\ Len(conns[i]) \in Nat /\ ConnsPerInstance \in Nat
      BY <1>5, <3>3, TunnelPoolAssumption
    <3> QED BY <1>5, <3>3, <3>4
  <2>2. CASE i \notin refresher.healthy
    <3>1. conns'[i] = << >>
      BY <1>2, <2>2
    <3>2. << >> \in Seq(Conns) /\ Len(<< >>) = 0 /\ ToSet(<< >>) = {}
      BY DEF ToSet
    <3> QED BY <3>1, <3>2, TunnelPoolAssumption
  <2> QED BY <2>1, <2>2
<1>7. tc' \in [Conns -> ConnType]
  BY <1>1, <1>3, CloseConnsFacts
<1>8. \A c \in Conns : /\ tc'[c].inst = tc[c].inst
                       /\ tc[c].closed => tc'[c].closed
                       /\ c \in D => tc'[c].closed
  BY <1>1, <1>3, CloseConnsFacts
<1>9. TypeOK'
  <2>1. conns' \in [Insts -> Seq(Conns)]
    BY <1>2, <1>6
  <2> QED BY <1>1, <1>4, <1>6, <1>7, <2>1 DEF TypeOK, ConnType
<1>10. OpenListed'
  <2> SUFFICES ASSUME NEW c \in Conns, tc'[c].inst # Nil, ~tc'[c].closed
               PROVE  c \in ToSet(conns'[tc'[c].inst])
    BY DEF OpenListed
  <2>1. tc[c].inst # Nil /\ ~tc[c].closed /\ c \notin D /\ tc'[c].inst = tc[c].inst
    BY <1>8
  <2>2. c \in ToSet(conns[tc[c].inst]) /\ tc[c].inst \in Insts
    BY <1>1, <2>1 DEF OpenListed, TypeOK
  <2> QED BY <2>1, <2>2 DEF D
<1>11. ListedOnce'
  <2> SUFFICES ASSUME NEW i \in Insts, NEW j \in 1 .. Len(conns'[i])
               PROVE  tc'[conns'[i][j]].inst = i
    BY <1>6 DEF ListedOnce
  <2>1. conns'[i][j] \in ToSet(conns'[i])
    BY <1>6 DEF ToSet
  <2>2. PICK k \in 1 .. Len(conns[i]) : conns[i][k] = conns'[i][j]
    <3>1. conns'[i][j] \in ToSet(conns[i])
      BY <1>6, <2>1
    <3>2. DOMAIN conns[i] = 1 .. Len(conns[i])
      BY <1>5
    <3> QED BY <3>1, <3>2 DEF ToSet
  <2>3. tc[conns[i][k]].inst = i /\ conns[i][k] \in Conns
    BY <1>1, <1>5 DEF ListedOnce
  <2> QED BY <1>8, <2>2, <2>3
<1>12. TryHasConn'
  BY <1>1, <1>4 DEF TryHasConn
<1> QED BY <1>9, <1>10, <1>11, <1>12 DEF Inv

\* Phase 2: the connection that is dialled is listed nowhere yet.
LEMMA DialKeeps ==
    ASSUME Inv, NEW i \in Insts, Dial(i) PROVE Inv'
<1>1. TypeOK /\ OpenListed /\ ListedOnce /\ TryHasConn
  BY DEF Inv
<1>2. PICK c \in Conns : /\ FreshConn(c)
                         /\ tc' = [tc EXCEPT ![c].inst = i]
                         /\ conns' = [conns EXCEPT ![i] = Append(@, c)]
                         /\ loop' = [loop EXCEPT ![c] = "check"]
  BY DEF Dial
<1>3. UNCHANGED <<events, healthy, mu, refresher, sender, stopCh, stopper, ready>>
      /\ Len(conns[i]) < ConnsPerInstance
  BY DEF Dial, NeedsConn
<1>4. tc \in [Conns -> ConnType] /\ conns \in [Insts -> Seq(Conns)] /\ tc[c].inst = Nil
  BY <1>1, <1>2 DEF TypeOK, ConnType, FreshConn
<1>5. tc' \in [Conns -> ConnType]
  BY <1>2, <1>4 DEF ConnType
<1>6. /\ \A d \in Conns \ {c} : tc'[d] = tc[d]
      /\ tc'[c].inst = i
      /\ \A m \in Insts \ {i} : conns'[m] = conns[m]
      /\ conns'[i] = Append(conns[i], c) /\ conns' \in [Insts -> Seq(Conns)]
  BY <1>2, <1>4 DEF ConnType
<1>7. \A m \in Insts : \A j \in 1 .. Len(conns[m]) : conns[m][j] \in Conns \ {c}
  BY <1>1, <1>4, TunnelPoolAssumption DEF ListedOnce
<1>8. /\ Len(conns'[i]) = Len(conns[i]) + 1 /\ Len(conns[i]) \in Nat
      /\ \A j \in 1 .. Len(conns[i]) : conns'[i][j] = conns[i][j]
      /\ conns'[i][Len(conns[i]) + 1] = c
  BY <1>4, <1>6
<1>9. TypeOK'
  <2>1. \A m \in Insts : Len(conns'[m]) <= ConnsPerInstance
    <3>1. ConnsPerInstance \in Nat /\ \A m \in Insts : Len(conns[m]) <= ConnsPerInstance
      BY <1>1, TunnelPoolAssumption DEF TypeOK
    <3>2. Len(conns'[i]) <= ConnsPerInstance
      BY <1>3, <1>8, <3>1
    <3> QED BY <1>6, <3>1, <3>2
  <2>2. loop' \in [Conns -> {"none", "check", "read", "done"}]
    BY <1>1, <1>2 DEF TypeOK
  <2> QED BY <1>1, <1>3, <1>5, <1>6, <2>1, <2>2 DEF TypeOK, ConnType
<1>10. OpenListed'
  <2> SUFFICES ASSUME NEW d \in Conns, tc'[d].inst # Nil, ~tc'[d].closed
               PROVE  d \in ToSet(conns'[tc'[d].inst])
    BY DEF OpenListed
  <2>1. DOMAIN conns'[i] = 1 .. Len(conns[i]) + 1 /\ DOMAIN conns[i] = 1 .. Len(conns[i])
    BY <1>4, <1>6, <1>8
  <2>2. CASE d = c
    <3>1. c \in ToSet(conns'[i])
      BY <1>8, <2>1 DEF ToSet
    <3> QED BY <1>6, <2>2, <3>1
  <2>3. CASE d # c
    <3>1. tc'[d] = tc[d] /\ tc[d].inst \in Insts /\ d \in ToSet(conns[tc[d].inst])
      BY <1>1, <1>4, <1>6, <2>3 DEF OpenListed, ConnType
    <3>2. CASE tc[d].inst = i
      <4>1. PICK j \in 1 .. Len(conns[i]) : conns[i][j] = d
        BY <2>1, <3>1, <3>2 DEF ToSet
      <4>2. conns'[i][j] = d /\ j \in DOMAIN conns'[i]
        BY <1>8, <2>1, <4>1
      <4> QED BY <3>1, <3>2, <4>2 DEF ToSet
    <3>3. CASE tc[d].inst # i
      BY <1>6, <3>1, <3>3
    <3> QED BY <3>2, <3>3
  <2> QED BY <2>2, <2>3
<1>11. ListedOnce'
  <2> SUFFICES ASSUME NEW m \in Insts, NEW j \in 1 .. Len(conns'[m]), NEW k \in 1 .. Len(conns'[m])
               PROVE  /\ conns'[m][j] = conns'[m][k] => j = k
                      /\ tc'[conns'[m][j]].inst = m
    BY DEF ListedOnce
  <2>1. CASE m # i
    <3>1. conns'[m] = conns[m]
      BY <1>6, <2>1
    <3>2. j \in 1 .. Len(conns[m]) /\ k \in 1 .. Len(conns[m])
      BY <3>1
    <3>3. conns[m][j] \in Conns \ {c}
      BY <1>7, <3>2
    <3>4. (conns[m][j] = conns[m][k] => j = k) /\ tc[conns[m][j]].inst = m
      BY <1>1, <3>2 DEF ListedOnce
    <3>5. tc'[conns[m][j]] = tc[conns[m][j]]
      BY <1>6, <3>3
    <3> QED BY <3>1, <3>4, <3>5
  <2>2. CASE m = i
    <3>1. (j \in 1 .. Len(conns[i]) \/ j = Len(conns[i]) + 1)
          /\ (k \in 1 .. Len(conns[i]) \/ k = Len(conns[i]) + 1)
      BY <1>8, <2>2
    <3>2. conns'[i][j] = conns'[i][k] => j = k
      BY <1>1, <1>7, <1>8, <3>1 DEF ListedOnce
    <3>3. tc'[conns'[i][j]].inst = i
      <4>1. CASE j = Len(conns[i]) + 1
        BY <1>6, <1>8, <4>1
      <4>2. CASE j \in 1 .. Len(conns[i])
        BY <1>1, <1>6, <1>7, <1>8, <4>2 DEF ListedOnce
      <4> QED BY <3>1, <4>1, <4>2
    <3> QED BY <2>2, <3>2, <3>3
  <2> QED BY <2>1, <2>2
<1>12. TryHasConn'
  BY <1>1, <1>3 DEF TryHasConn
<1> QED BY <1>9, <1>10, <1>11, <1>12 DEF Inv

LEMMA SendBeginKeeps ==
    ASSUME Inv, NEW s \in Senders, NEW i \in Insts, SendBegin(s, i) PROVE Inv'
<1> DEFINE n == Len(conns[i])
           SenderType == [pc : {"idle", "try"}, left : Seq(Conns)]
<1>1. conns[i] \in Seq(Conns) /\ n \in Nat /\ sender \in [Senders -> SenderType]
  BY DEF Inv, TypeOK
<1>2. UNCHANGED <<events, healthy, conns, tc, loop, mu, refresher, stopCh, stopper, ready>>
  BY DEF SendBegin
<1>3. sender' = sender \/ \E x \in SenderType : x.left # << >> /\ sender' = [sender EXCEPT ![s] = x]
  <2>1. CASE n = 0
    BY <2>1 DEF SendBegin
  <2>2. CASE n # 0
    <3>1. PICK k \in 0 .. n - 1 : sender' = [sender EXCEPT ![s] =
             [pc |-> "try", left |-> [j \in 1 .. n |-> conns[i][((k + j) % n) + 1]]]]
      BY <2>2 DEF SendBegin
    <3> DEFINE lst == [j \in 1 .. n |-> conns[i][((k + j) % n) + 1]]
    <3>2. \A j \in 1 .. n : ((k + j) % n) + 1 \in 1 .. n
      <4> HIDE DEF n
      <4> QED BY <1>1, <2>2
    <3>3. lst \in [1 .. n -> Conns]
      BY <1>1, <3>2
    <3>4. lst \in Seq(Conns) /\ Len(lst) = n
      <4> HIDE DEF lst, n
      <4> QED BY <1>1, <3>3
    <3>5. lst # << >>
      BY <2>2, <3>4
    <3> DEFINE x == [pc |-> "try", left |-> lst]
    <3>6. sender' = [sender EXCEPT ![s] = x]
      BY <3>1
    <3> HIDE DEF lst
    <3>7. x \in SenderType /\ x.left # << >>
      BY <3>4, <3>5
    <3> HIDE DEF x
    <3> QED BY <3>6, <3>7
  <2> QED BY <2>1, <2>2
<1>4. sender' \in [Senders -> SenderType]
  BY <1>1, <1>3
<1>5. TypeOK'
  BY <1>2, <1>4 DEF Inv, TypeOK
<1>6. OpenListed' /\ ListedOnce'
  BY <1>2 DEF Inv, OpenListed, ListedOnce
<1>7. TryHasConn'
  BY <1>1, <1>3 DEF Inv, TryHasConn
<1> QED BY <1>5, <1>6, <1>7 DEF Inv

LEMMA SendTryKeeps ==
    ASSUME Inv, NEW s \in Senders, SendTry(s) PROVE Inv'
<1> DEFINE left == sender[s].left
           c == Head(left)
           SenderType == [pc : {"idle", "try"}, left : Seq(Conns)]
           next == IF Len(left) = 1 THEN IdleSender ELSE [sender[s] EXCEPT !.left = Tail(@)]
<1>1. sender \in [Senders -> SenderType] /\ tc \in [Conns -> ConnType] /\ sender[s].pc = "try"
  BY DEF Inv, TypeOK, ConnType, SendTry
<1>2. left \in Seq(Conns) /\ left # << >>
  BY <1>1 DEF Inv, TryHasConn
<1>3. c \in Conns /\ Len(left) \in Nat \ {0} /\ Tail(left) \in Seq(Conns)
      /\ Len(Tail(left)) = Len(left) - 1
  BY <1>2
<1>4. UNCHANGED <<events, healthy, conns, loop, mu, refresher, stopCh, stopper, ready>>
  BY DEF SendTry
<1>5. sender' \in {[sender EXCEPT ![s] = next], [sender EXCEPT ![s] = IdleSender]}
  BY DEF SendTry
<1>6. tc' = tc \/ tc' = [tc EXCEPT ![c] = close(@)]
  BY DEF SendTry
<1>7. IdleSender \in SenderType /\ IdleSender.pc = "idle"
  BY DEF IdleSender
<1>8. next \in SenderType /\ (next.pc = "try" => next.left # << >>)
  <2>1. CASE Len(left) = 1
    BY <1>7, <2>1
  <2>2. CASE Len(left) # 1
    <3>1. Tail(left) # << >>
      <4> DEFINE rest == Tail(left)
      <4>1. Len(rest) \in Nat \ {0} /\ rest \in Seq(Conns)
        <5> HIDE DEF left
        <5> QED BY <1>3, <2>2
      <4> HIDE DEF rest
      <4>2. rest # << >>
        BY <4>1
      <4> QED BY <4>2 DEF rest
    <3>2. next = [sender[s] EXCEPT !.left = Tail(@)]
      BY <2>2
    <3> QED BY <1>1, <1>3, <3>1, <3>2
  <2> QED BY <2>1, <2>2
<1> HIDE DEF next, c, left
<1>9. sender' \in [Senders -> SenderType]
  BY <1>1, <1>5, <1>7, <1>8
<1>10. tc[c] \in ConnType
  BY <1>1, <1>3
<1>11. close(tc[c]) \in ConnType /\ close(tc[c]).inst = tc[c].inst /\ close(tc[c]).closed
  BY <1>10, CloseType
<1>12. tc' \in [Conns -> ConnType]
       /\ \A d \in Conns : tc'[d].inst = tc[d].inst /\ (tc[d].closed => tc'[d].closed)
  BY <1>1, <1>6, <1>11
<1>13. TypeOK'
  BY <1>4, <1>9, <1>12 DEF Inv, TypeOK, ConnType
<1>14. OpenListed' /\ ListedOnce'
  BY <1>4, <1>12, PoolKept
<1>15. TryHasConn'
  BY <1>1, <1>5, <1>7, <1>8 DEF Inv, TryHasConn
<1> QED BY <1>13, <1>14, <1>15 DEF Inv

\* Stop() closes what is listed, and that is everything that is open.
LEMMA StopConnsKeeps == Inv /\ StopConns => Inv'
<1> SUFFICES ASSUME Inv, StopConns PROVE Inv'
  OBVIOUS
<1> DEFINE D == UNION {ToSet(conns[i]) : i \in Insts}
<1>1. TypeOK /\ OpenListed /\ ListedOnce /\ TryHasConn
  BY DEF Inv
<1>2. tc' = CloseConns(D) /\ conns' = [i \in Insts |-> << >>] /\ stopper' = "wait"
      /\ UNCHANGED <<events, healthy, loop, mu, refresher, sender, stopCh, ready>>
  BY DEF StopConns
<1> HIDE DEF D
<1>3. tc' \in [Conns -> ConnType]
      /\ \A c \in Conns : /\ tc'[c].inst = tc[c].inst
                          /\ tc[c].closed => tc'[c].closed
                          /\ c \in D => tc'[c].closed
  BY <1>1, <1>2, CloseConnsFacts
<1>4. << >> \in Seq(Conns) /\ Len(<< >>) = 0
  OBVIOUS
<1>5. conns' \in [Insts -> Seq(Conns)] /\ \A i \in Insts : conns'[i] = << >> /\ Len(conns'[i]) = 0
  BY <1>2, <1>4
<1>6. TypeOK'
  BY <1>1, <1>2, <1>3, <1>5, TunnelPoolAssumption DEF TypeOK, ConnType
<1>7. OpenListed'
  <2>1. \A c \in Conns : tc[c].inst # Nil /\ ~tc[c].closed => c \in D
    BY <1>1 DEF OpenListed, TypeOK, D
  <2> QED BY <1>3, <2>1 DEF OpenListed
<1>8. ListedOnce'
  BY <1>5 DEF ListedOnce
<1>9. TryHasConn'
  BY <1>1, <1>2 DEF TryHasConn
<1> QED BY <1>6, <1>7, <1>8, <1>9 DEF Inv

-----------------------------------------------------------------------------
LEMMA NextInv == Inv /\ [NextStep]_vars => Inv'
<1> SUFFICES ASSUME Inv, [NextStep]_vars PROVE Inv'
  OBVIOUS
<1>1. CASE RefStep
  BY <1>1, RefresherKeeps, PruneKeeps, DialKeeps DEF RefStep
<1>2. CASE \E c \in Conns : LoopCheck(c) \/ LoopFrame(c) \/ LoopError(c) \/ Dies(c) \/ GoesStale(c)
  BY <1>2, OtherKeeps, ConnKeeps
<1>3. CASE \E s \in Senders : SendTry(s) \/ \E i \in Insts : SendBegin(s, i)
  BY <1>3, SendTryKeeps, SendBeginKeeps
<1>4. CASE StopBegin \/ StopConns \/ StopDone \/ \E i \in Insts : HealthChange(i)
  BY <1>4, OtherKeeps, StopConnsKeeps
<1>5. CASE UNCHANGED vars
  <2>1. UNCHANGED <<conns, tc, sender>> /\ TypeOK'
    BY <1>5 DEF vars, Inv, TypeOK
  <2> QED BY <2>1, ListsUntouched
<1> QED BY <1>1, <1>2, <1>3, <1>4, <1>5 DEF NextStep

\* The inductive invariant holds: the types, the bound on the connections of
\* an instance, the two parts of OpenIsPooled, and that SendFrame never takes
\* the head of an empty list.
THEOREM Invariance == Spec => []Inv
BY InitInv, NextInv, PTL DEF Spec

\* pool.go: whatever the refresher, the readLoops, the callers of SendFrame and
\* Stop() do, an open connection is listed once, under its own instance, so
\* that a later refresh or Stop() finds and closes it; and no instance has
\* more than ConnsPerInstance connections.
THEOREM NoConnEscapes == Spec => []OpenIsPooled
<1>1. Inv => OpenIsPooled
  BY InvPooled
<1> QED BY <1>1, Invariance, PTL
=============================================================================
