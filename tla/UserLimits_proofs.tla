-------------------------- MODULE UserLimits_proofs --------------------------
(***************************************************************************)
(* Proofs that the counters of connections and of addresses are exact and  *)
(* that the data quota charges each chunk once, for every number of        *)
(* connections and addresses, every limit and every mode.                  *)
(***************************************************************************)
EXTENDS UserLimits, CommonLemmas

\* A connection that was accepted has an address, and only one that relays has
\* chunks that are not charged yet.
ConnShape ==
    \A c \in Conns : /\ conn[c].pc # "idle" => conn[c].ip \in IPs
                     /\ conn[c].pc # "relay" => conn[c].n = 0

\* What is still to be charged was relayed since the last reset.
PendingMoved == Pending <= moved

\* The inductive invariant.
Inv == CountsMatchConns /\ QuotaIsExact /\ ConnShape /\ PendingMoved

Open == {c \in Conns : conn[c].pc # "idle"}

-----------------------------------------------------------------------------
(* Cardinalities of the sets that the counters stand for.                  *)

LEMMA FiniteOpen == IsFiniteSet(Open)
BY UserLimitsAssumption, FS_Subset DEF Open

LEMMA FiniteMarked == ASSUME NEW ip PROVE IsFiniteSet(Marked(ip))
BY UserLimitsAssumption, FS_Subset DEF Marked

LEMMA FiniteRelayed == IsFiniteSet(Relayed)
<1>1. IsFiniteSet(1 .. MaxMoved)
  BY UserLimitsAssumption, FS_Interval
<1>2. IsFiniteSet(Conns \X (1 .. MaxMoved))
  BY <1>1, UserLimitsAssumption, FS_Product
<1> QED BY <1>2, FS_Subset DEF Relayed

\* Chunks are pending only in modes that charge at the end.
LEMMA PendingNat == Pending \in Nat
BY FiniteRelayed, FS_CardinalityType DEF Pending

-----------------------------------------------------------------------------
LEMMA InitInv == Init => Inv
<1> SUFFICES ASSUME Init PROVE Inv
  OBVIOUS
<1> USE UserLimitsAssumption
<1>1. TypeOK /\ ConnShape
  BY DEF Init, TypeOK, ConnShape, Idle
<1>2. Cardinality({c \in Conns : conn[c].pc # "idle"}) = 0
  <2>1. {c \in Conns : conn[c].pc # "idle"} = {}
    BY DEF Init, Idle
  <2> QED BY <2>1, FS_EmptySet
<1>3. \A ip \in IPs : Cardinality(Marked(ip)) = 0
  <2>1. \A ip \in IPs : Marked(ip) = {}
    BY DEF Init, Idle, Marked
  <2> QED BY <2>1, FS_EmptySet
<1>4. CountsMatchConns
  BY <1>1, <1>2, <1>3 DEF Init, CountsMatchConns
<1>5. Relayed = {}
  BY DEF Init, Idle, Relayed
<1>6. Pending = 0
  BY <1>5, FS_EmptySet DEF Pending
<1> QED BY <1>1, <1>4, <1>6 DEF Init, Inv, QuotaIsExact, PendingMoved

-----------------------------------------------------------------------------
(* What steps leave alone.                                                 *)

\* A step that relays and charges nothing keeps the quota.
LEMMA QuotaKept ==
    ASSUME Inv, Relayed' = Relayed, UNCHANGED <<mode, usedBytes, moved>>
    PROVE  QuotaIsExact' /\ PendingMoved'
BY DEF Inv, QuotaIsExact, PendingMoved, Pending, CountsAtEnd, ChargedTwice

\* A connection that moves on, other than by starting or ending to relay.
LEMMA GotoKeeps ==
    ASSUME Inv, NEW c \in Conns, NEW pc \in {"ips", "mark", "close"}, Goto(c, pc),
           conn[c].pc \in {"auth", "ips"}
    PROVE  /\ conn' \in [Conns -> [pc : {"idle", "auth", "ips", "mark", "relay", "disconnect", "close"},
                                   ip : IPs \cup {NoIP}, n : 0 .. MaxMoved]]
           /\ ConnShape'
           /\ Open' = Open
           /\ \A ip \in IPs : Marked(ip)' = Marked(ip)
           /\ Relayed' = Relayed
<1> USE DEF Inv, CountsMatchConns, TypeOK, ConnShape, Goto
<1>1. conn' \in [Conns -> [pc : {"idle", "auth", "ips", "mark", "relay", "disconnect", "close"},
                           ip : IPs \cup {NoIP}, n : 0 .. MaxMoved]]
  OBVIOUS
<1>2. \A d \in Conns : /\ conn'[d].ip = conn[d].ip /\ conn'[d].n = conn[d].n
                       /\ d # c => conn'[d] = conn[d]
                       /\ conn'[c].pc = pc
  OBVIOUS
<1>3. ConnShape'
  BY <1>2
<1>4. Open' = Open
  BY <1>2 DEF Open
<1>5. \A ip \in IPs : Marked(ip)' = Marked(ip)
  BY <1>2 DEF Marked
<1>6. Relayed' = Relayed
  BY <1>2 DEF Relayed
<1> QED BY <1>1, <1>3, <1>4, <1>5, <1>6

\* The counters stay right when nothing is counted.
LEMMA CountsKept ==
    ASSUME CountsMatchConns, TypeOK', Open' = Open,
           \A ip \in IPs : Marked(ip)' = Marked(ip),
           \A ip \in IPs : cooldownIPs[ip] = "out" => cooldownIPs'[ip] = "out",
           UNCHANGED <<activeConns, activeIPs>>
    PROVE  CountsMatchConns'
<1> USE DEF CountsMatchConns
<1>1. Cardinality(Open') = activeConns'
  BY DEF Open
<1>2. \A ip \in IPs : /\ activeIPs'[ip] = Cardinality(Marked(ip)')
                      /\ activeIPs'[ip] > 0 => cooldownIPs'[ip] = "out"
  OBVIOUS
<1> QED BY <1>1, <1>2 DEF Open

-----------------------------------------------------------------------------
(* The actions.                                                            *)

LEMMA CheckInv ==
    ASSUME Inv, NEW c \in Conns, AuthFails(c) \/ CheckQuota(c) \/ CheckConnect(c)
    PROVE  Inv'
<1>1. PICK pc \in {"ips", "mark", "close"} : Goto(c, pc) /\ conn[c].pc \in {"auth", "ips"}
  BY DEF AuthFails, CheckQuota, CheckConnect
<1>2. /\ UNCHANGED <<mode, activeConns, activeIPs, usedBytes, moved>>
      /\ cooldownIPs' \in [IPs -> {"in", "over", "out"}]
      /\ \A ip \in IPs : cooldownIPs[ip] = "out" => cooldownIPs'[ip] = "out"
  BY DEF AuthFails, CheckQuota, CheckConnect, Inv, CountsMatchConns, TypeOK
<1>3. TypeOK'
  BY <1>1, <1>2, GotoKeeps DEF Inv, CountsMatchConns, TypeOK
<1>4. CountsMatchConns'
  BY <1>1, <1>2, <1>3, GotoKeeps, CountsKept DEF Inv
<1> QED BY <1>1, <1>2, <1>4, GotoKeeps, QuotaKept DEF Inv

LEMMA AcceptInv == ASSUME Inv, NEW c \in Conns, NEW ip \in IPs, Accept(c, ip) PROVE Inv'
<1> USE DEF Inv, CountsMatchConns, TypeOK, ConnShape, Accept
<1>1. TypeOK'
  BY UserLimitsAssumption
<1>2. /\ \A d \in Conns : d # c => conn'[d] = conn[d]
      /\ conn'[c].pc = "auth" /\ conn'[c].ip = ip /\ conn'[c].n = 0
      /\ conn[c].n = 0
  OBVIOUS
<1>3. ConnShape'
  BY <1>2
<1>4. Open' = Open \cup {c} /\ c \notin Open
  BY <1>2 DEF Open
<1>5. Cardinality(Open') = Cardinality(Open) + 1
  BY <1>4, FiniteOpen, FS_AddElement
<1>6. \A p \in IPs : Marked(p)' = Marked(p)
  BY <1>2 DEF Marked
<1>7. CountsMatchConns'
  <2>1. activeConns' = Cardinality(Open')
    BY <1>5 DEF Open
  <2>2. activeConns' <= maxConnections
    BY UserLimitsAssumption
  <2>3. \A p \in IPs : /\ activeIPs'[p] = Cardinality(Marked(p)')
                       /\ activeIPs'[p] > 0 => cooldownIPs'[p] = "out"
    BY <1>6
  <2> QED BY <1>1, <2>1, <2>2, <2>3 DEF Open
<1>8. Relayed' = Relayed
  BY <1>2 DEF Relayed
<1> QED BY <1>3, <1>7, <1>8, QuotaKept

LEMMA MarkConnectInv == ASSUME Inv, NEW c \in Conns, MarkConnect(c) PROVE Inv'
<1> USE DEF Inv, CountsMatchConns, TypeOK, ConnShape, MarkConnect, Goto
<1> DEFINE ip == conn[c].ip
<1>0. ip \in IPs
  OBVIOUS
<1>1. TypeOK'
  BY <1>0
<1>2. /\ \A d \in Conns : /\ conn'[d].ip = conn[d].ip /\ conn'[d].n = conn[d].n
                          /\ d # c => conn'[d] = conn[d]
      /\ conn'[c].pc = "relay" /\ conn[c].n = 0
  OBVIOUS
<1>3. ConnShape'
  BY <1>2
<1>4. Open' = Open
  BY <1>2 DEF Open
<1>5. Marked(ip)' = Marked(ip) \cup {c} /\ c \notin Marked(ip)
  BY <1>2 DEF Marked
<1>6. Cardinality(Marked(ip)') = Cardinality(Marked(ip)) + 1
  BY <1>5, FiniteMarked, FS_AddElement
<1>7. \A p \in IPs \ {ip} : Marked(p)' = Marked(p)
  BY <1>2 DEF Marked
<1>8. CountsMatchConns'
  <2>1. activeConns' = Cardinality(Open')
    BY <1>4 DEF Open
  <2>2. ASSUME NEW p \in IPs
        PROVE  /\ activeIPs'[p] = Cardinality(Marked(p)')
               /\ activeIPs'[p] > 0 => cooldownIPs'[p] = "out"
    BY <1>0, <1>6, <1>7
  <2> QED BY <1>1, <2>1, <2>2 DEF Open
<1>9. Relayed' = Relayed
  BY <1>2 DEF Relayed
<1> QED BY <1>3, <1>8, <1>9, QuotaKept

LEMMA MarkDisconnectInv == ASSUME Inv, NEW c \in Conns, MarkDisconnect(c) PROVE Inv'
<1> DEFINE ip == conn[c].ip
<1>0. ip \in IPs /\ activeIPs[ip] = Cardinality(Marked(ip))
  BY DEF Inv, CountsMatchConns, ConnShape, MarkDisconnect
<1>2. /\ \A d \in Conns : /\ conn'[d].ip = conn[d].ip /\ conn'[d].n = conn[d].n
                          /\ d # c => conn'[d] = conn[d]
      /\ conn'[c].pc = "close" /\ conn[c].n = 0
  BY DEF Inv, CountsMatchConns, TypeOK, ConnShape, MarkDisconnect, Goto
<1>3. ConnShape'
  BY <1>2 DEF Inv, ConnShape, MarkDisconnect
<1>4. Open' = Open
  BY <1>2 DEF Open, MarkDisconnect
<1>5. Marked(ip)' = Marked(ip) \ {c} /\ c \in Marked(ip)
  BY <1>2 DEF Marked, MarkDisconnect
<1>6. /\ Cardinality(Marked(ip)') = Cardinality(Marked(ip)) - 1
      /\ Cardinality(Marked(ip)') \in Nat
  <2>1. IsFiniteSet(Marked(ip)')
    BY <1>5, FiniteMarked, FS_RemoveElement
  <2> QED BY <1>5, <2>1, FiniteMarked, FS_RemoveElement, FS_CardinalityType
<1>1. TypeOK'
  <2>1. activeIPs[ip] - 1 \in Nat
    BY <1>0, <1>6
  <2>2. activeIPs' \in [IPs -> Nat]
    BY <1>0, <2>1 DEF Inv, CountsMatchConns, TypeOK, MarkDisconnect
  <2>3. cooldownIPs' \in [IPs -> {"in", "over", "out"}]
    BY <1>0 DEF Inv, CountsMatchConns, TypeOK, MarkDisconnect
  <2>4. conn' \in [Conns -> [pc : {"idle", "auth", "ips", "mark", "relay", "disconnect", "close"},
                             ip : IPs \cup {NoIP}, n : 0 .. MaxMoved]]
    BY DEF Inv, CountsMatchConns, TypeOK, MarkDisconnect, Goto
  <2> QED BY <2>2, <2>3, <2>4 DEF Inv, CountsMatchConns, TypeOK, MarkDisconnect
<1>7. \A p \in IPs \ {ip} : Marked(p)' = Marked(p)
  BY <1>2 DEF Marked, MarkDisconnect
<1>8. CountsMatchConns'
  <2>1. activeConns' = Cardinality(Open')
    BY <1>4 DEF Open, Inv, CountsMatchConns, MarkDisconnect
  <2>2. ASSUME NEW p \in IPs
        PROVE  /\ activeIPs'[p] = Cardinality(Marked(p)')
               /\ activeIPs'[p] > 0 => cooldownIPs'[p] = "out"
    <3>1. CASE p # ip
      BY <1>0, <1>7, <3>1 DEF Inv, CountsMatchConns, TypeOK, MarkDisconnect
    <3>2. CASE p = ip
      BY <1>0, <1>2, <1>6, <3>2 DEF Inv, CountsMatchConns, TypeOK, MarkDisconnect
    <3> QED BY <3>1, <3>2
  <2> QED BY <1>1, <2>1, <2>2 DEF Open, Inv, CountsMatchConns, MarkDisconnect
<1>9. Relayed' = Relayed
  BY <1>2 DEF Relayed
<1> QED BY <1>3, <1>8, <1>9, QuotaKept DEF Inv, MarkDisconnect

LEMMA CloseInv == ASSUME Inv, NEW c \in Conns, Close(c) PROVE Inv'
<1>1. /\ \A d \in Conns : d # c => conn'[d] = conn[d]
      /\ conn[c].pc = "close" /\ conn[c].n = 0
      /\ conn'[c] = Idle
      /\ conn' \in [Conns -> [pc : {"idle", "auth", "ips", "mark", "relay", "disconnect", "close"},
                              ip : IPs \cup {NoIP}, n : 0 .. MaxMoved]]
  BY UserLimitsAssumption DEF Inv, CountsMatchConns, TypeOK, ConnShape, Close, Idle
<1>2. ConnShape'
  BY <1>1 DEF Inv, ConnShape, Idle
<1>3. Open' = Open \ {c} /\ c \in Open
  BY <1>1 DEF Open, Idle
<1>4. Cardinality(Open') = Cardinality(Open) - 1 /\ Cardinality(Open') \in Nat
  <2>1. IsFiniteSet(Open')
    BY <1>3, FiniteOpen, FS_RemoveElement
  <2> QED BY <1>3, <2>1, FiniteOpen, FS_RemoveElement, FS_CardinalityType
<1>5. activeConns' = Cardinality(Open') /\ activeConns' <= activeConns
  BY <1>4 DEF Inv, CountsMatchConns, TypeOK, Open, Close
<1>6. \A ip \in IPs : Marked(ip)' = Marked(ip)
  BY <1>1, UserLimitsAssumption DEF Marked, Idle
<1>7. TypeOK'
  BY <1>1, <1>4, <1>5 DEF Inv, CountsMatchConns, TypeOK, Close
<1>8. CountsMatchConns'
  <2>1. \A ip \in IPs : /\ activeIPs'[ip] = Cardinality(Marked(ip)')
                        /\ activeIPs'[ip] > 0 => cooldownIPs'[ip] = "out"
    BY <1>6 DEF Inv, CountsMatchConns, Close
  <2>2. activeConns' <= maxConnections
    BY <1>5, <1>7, UserLimitsAssumption DEF Inv, CountsMatchConns, TypeOK
  <2> QED BY <1>5, <1>7, <2>1, <2>2 DEF CountsMatchConns, Open
<1>9. Relayed' = Relayed
  BY <1>1 DEF Relayed, Idle
<1> QED BY <1>2, <1>8, <1>9, QuotaKept DEF Inv, Close

\* A chunk more is relayed: one pair more is pending.
LEMMA RelayInv == ASSUME Inv, NEW c \in Conns, Relay(c) PROVE Inv'
<1> DEFINE n == conn[c].n + 1
<1>1. /\ \A d \in Conns : /\ conn'[d].ip = conn[d].ip /\ conn'[d].pc = conn[d].pc
                          /\ d # c => conn'[d] = conn[d]
      /\ conn'[c].n = n /\ n \in 1 .. MaxMoved /\ conn[c].pc = "relay"
      /\ conn' \in [Conns -> [pc : {"idle", "auth", "ips", "mark", "relay", "disconnect", "close"},
                              ip : IPs \cup {NoIP}, n : 0 .. MaxMoved]]
  BY UserLimitsAssumption DEF Inv, CountsMatchConns, TypeOK, Relay
<1>2. moved' = moved + 1 /\ moved' \in 0 .. MaxMoved /\ usedBytes' = Counted(1) /\ usedBytes' \in Nat
  BY UserLimitsAssumption DEF Inv, CountsMatchConns, TypeOK, Relay, Counted
<1>3. TypeOK'
  BY <1>1, <1>2 DEF Inv, CountsMatchConns, TypeOK, Relay
<1>4. ConnShape'
  BY <1>1 DEF Inv, ConnShape
<1>5. Open' = Open /\ \A ip \in IPs : Marked(ip)' = Marked(ip)
  BY <1>1 DEF Open, Marked
<1>6. CountsMatchConns'
  BY <1>3, <1>5, CountsKept DEF Inv, Relay
<1>7. Relayed' = Relayed \cup {<<c, n>>} /\ <<c, n>> \notin Relayed
  <2>1. conn[c].n \in Int /\ n = conn[c].n + 1
    BY <1>1 DEF Inv, CountsMatchConns, TypeOK
  <2>2. <<c, n>> \notin Relayed
    BY <2>1 DEF Relayed
  <2>3. ASSUME NEW d \in Conns, NEW i \in 1 .. MaxMoved
        PROVE  i <= conn'[d].n <=> (i <= conn[d].n \/ (d = c /\ i = n))
    BY <1>1, <2>1
  <2>4. ASSUME NEW x PROVE x \in Relayed' <=> x \in Relayed \cup {<<c, n>>}
    BY <1>1, <2>3 DEF Relayed
  <2> QED BY <2>2, <2>4
<1>8. Cardinality(Relayed') = Cardinality(Relayed) + 1
  BY <1>7, FiniteRelayed, FS_AddElement
<1>9. PendingMoved' /\ QuotaIsExact'
  <2>1. mode' = mode
    BY DEF Relay
  <2>2. Pending' = IF CountsAtEnd THEN Pending + 1 ELSE 0
    BY <1>8, <2>1 DEF Pending, CountsAtEnd
  <2>3. PendingMoved'
    BY <1>2, <1>3, <2>2, PendingNat DEF Inv, CountsMatchConns, TypeOK, PendingMoved
  <2>4. ~ChargedTwice => (CountsAtEnd <=> ~mode.needsRateLimit)
    BY UserLimitsAssumption DEF ChargedTwice, CountsAtEnd, Inv, CountsMatchConns, TypeOK
  <2>5. QuotaIsExact'
    BY <1>2, <2>1, <2>2, <2>4, PendingNat
    DEF Inv, CountsMatchConns, TypeOK, QuotaIsExact, ChargedTwice, Counted, Pending
  <2> QED BY <2>3, <2>5
<1> QED BY <1>4, <1>6, <1>9 DEF Inv

\* The chunks of a connection are as many as it has relayed.
LEMMA ChunksOf ==
    ASSUME TypeOK, NEW c \in Conns
    PROVE  /\ {c} \X (1 .. conn[c].n) \subseteq Relayed
           /\ Cardinality({c} \X (1 .. conn[c].n)) = conn[c].n
<1>1. conn[c].n \in Nat /\ conn[c].n <= MaxMoved
  BY UserLimitsAssumption DEF TypeOK
<1>2. IsFiniteSet(1 .. conn[c].n) /\ Cardinality(1 .. conn[c].n) = conn[c].n
  <2>1. ASSUME NEW m \in Nat PROVE IsFiniteSet(1 .. m) /\ Cardinality(1 .. m) = m
    <3>1. IsFiniteSet(1 .. m) /\ Cardinality(1 .. m) = IF 1 > m THEN 0 ELSE m - 1 + 1
      BY FS_Interval
    <3> QED BY <3>1
  <2> QED BY <1>1, <2>1
<1>3. IsFiniteSet({c}) /\ Cardinality({c}) = 1
  BY FS_Singleton
<1>4. Cardinality({c} \X (1 .. conn[c].n)) = 1 * conn[c].n
  BY <1>2, <1>3, FS_Product
<1>5. {c} \X (1 .. conn[c].n) \subseteq Relayed
  BY <1>1, UserLimitsAssumption DEF Relayed
<1> QED BY <1>1, <1>4, <1>5

\* The relay ends: what was pending is charged.
LEMMA RelayEndsInv == ASSUME Inv, NEW c \in Conns, RelayEnds(c) PROVE Inv'
<1> DEFINE n == conn[c].n
           mine == {c} \X (1 .. n)
<1>1. /\ \A d \in Conns : /\ conn'[d].ip = conn[d].ip
                          /\ d # c => conn'[d] = conn[d]
      /\ conn'[c].n = 0 /\ conn'[c].pc = "disconnect" /\ conn[c].pc = "relay"
      /\ conn' \in [Conns -> [pc : {"idle", "auth", "ips", "mark", "relay", "disconnect", "close"},
                              ip : IPs \cup {NoIP}, n : 0 .. MaxMoved]]
  <2>1. /\ conn' = [conn EXCEPT ![c].pc = "disconnect", ![c].n = 0]
        /\ conn[c].pc = "relay"
    BY DEF RelayEnds
  <2>2. conn \in [Conns -> [pc : {"idle", "auth", "ips", "mark", "relay", "disconnect", "close"},
                            ip : IPs \cup {NoIP}, n : 0 .. MaxMoved]]
    BY DEF Inv, CountsMatchConns, TypeOK
  <2>3. 0 \in 0 .. MaxMoved
    BY UserLimitsAssumption
  <2>4. conn' \in [Conns -> [pc : {"idle", "auth", "ips", "mark", "relay", "disconnect", "close"},
                             ip : IPs \cup {NoIP}, n : 0 .. MaxMoved]]
    BY <2>1, <2>2, <2>3
  <2>5. /\ \A d \in Conns : conn'[d].ip = conn[d].ip /\ (d # c => conn'[d] = conn[d])
        /\ conn'[c].n = 0 /\ conn'[c].pc = "disconnect"
    BY <2>1, <2>2
  <2> QED BY <2>1, <2>4, <2>5
<1>2. /\ usedBytes' = IF CountsAtEnd THEN usedBytes + n ELSE usedBytes
      /\ n \in Nat /\ usedBytes \in Nat /\ usedBytes' \in Nat /\ mode' = mode /\ moved' = moved
  BY UserLimitsAssumption DEF Inv, CountsMatchConns, TypeOK, RelayEnds
<1>3. TypeOK'
  BY <1>1, <1>2 DEF Inv, CountsMatchConns, TypeOK, RelayEnds
<1>4. ConnShape'
  BY <1>1 DEF Inv, ConnShape
<1>5. Open' = Open /\ \A ip \in IPs : Marked(ip)' = Marked(ip)
  BY <1>1 DEF Open, Marked
<1>6. CountsMatchConns'
  BY <1>3, <1>5, CountsKept DEF Inv, RelayEnds
<1>7. Relayed' = Relayed \ mine
  <2>1. ASSUME NEW d \in Conns, NEW i \in 1 .. MaxMoved
        PROVE  i <= conn'[d].n <=> (i <= conn[d].n /\ ~(d = c /\ i \in 1 .. n))
    BY <1>1, <1>2
  <2>2. ASSUME NEW x PROVE x \in Relayed' <=> x \in Relayed \ mine
    BY <1>1, <2>1 DEF Relayed
  <2> QED BY <2>2
<1>8. Cardinality(Relayed') = Cardinality(Relayed) - n
  <2>1. Relayed \cap mine = mine /\ Cardinality(mine) = n
    BY ChunksOf DEF Inv, CountsMatchConns
  <2>2. Cardinality(Relayed \ mine) = Cardinality(Relayed) - Cardinality(Relayed \cap mine)
    BY FiniteRelayed, FS_Difference
  <2> QED BY <1>7, <2>1, <2>2
<1>9. PendingMoved' /\ QuotaIsExact'
  <2>1. Pending' = IF CountsAtEnd THEN Pending - n ELSE Pending
    BY <1>2, <1>8 DEF Pending, CountsAtEnd
  <2> QED BY <1>2, <2>1, PendingNat
    DEF Inv, CountsMatchConns, TypeOK, PendingMoved, QuotaIsExact, ChargedTwice
<1> QED BY <1>4, <1>6, <1>9 DEF Inv

LEMMA ResetInv == ASSUME Inv, ResetUsedBytes PROVE Inv'
<1>1. moved' = Pending /\ usedBytes' = 0 /\ UNCHANGED <<mode, conn, activeConns, activeIPs, cooldownIPs>>
  BY DEF ResetUsedBytes
<1>2. Pending' = Pending /\ Open' = Open /\ \A ip \in IPs : Marked(ip)' = Marked(ip)
  BY <1>1 DEF Pending, CountsAtEnd, Relayed, Open, Marked
<1>3. TypeOK'
  BY <1>1, PendingNat, UserLimitsAssumption DEF Inv, CountsMatchConns, TypeOK, PendingMoved
<1>4. CountsMatchConns'
  BY <1>1, <1>2, <1>3, CountsKept DEF Inv
<1> QED BY <1>1, <1>2, <1>4, PendingNat DEF Inv, ConnShape, PendingMoved, QuotaIsExact

LEMMA CooldownInv == ASSUME Inv, NEW ip \in IPs, CooldownElapses(ip) PROVE Inv'
<1>1. /\ UNCHANGED <<mode, conn, activeConns, activeIPs, usedBytes, moved>>
      /\ cooldownIPs' \in [IPs -> {"in", "over", "out"}]
      /\ \A p \in IPs : cooldownIPs[p] = "out" => cooldownIPs'[p] = "out"
  BY DEF CooldownElapses, Inv, CountsMatchConns, TypeOK
<1>2. Relayed' = Relayed /\ Open' = Open /\ \A p \in IPs : Marked(p)' = Marked(p)
  BY <1>1 DEF Relayed, Open, Marked
<1>3. TypeOK'
  BY <1>1 DEF Inv, CountsMatchConns, TypeOK
<1>4. CountsMatchConns'
  BY <1>1, <1>2, <1>3, CountsKept DEF Inv
<1> QED BY <1>1, <1>2, <1>4, QuotaKept DEF Inv, ConnShape

LEMMA StutterInv == ASSUME Inv, UNCHANGED vars PROVE Inv'
BY DEF Inv, vars, CountsMatchConns, TypeOK, Marked, QuotaIsExact, ChargedTwice, ConnShape,
       PendingMoved, Pending, CountsAtEnd, Relayed

-----------------------------------------------------------------------------
\* The counters, the shape of connections and the quota are as stated in every
\* reachable state of the servers and the user.
THEOREM Invariance == Spec => []Inv
<1>1. Inv /\ [NextStep]_vars => Inv'
  <2> SUFFICES ASSUME Inv, [NextStep]_vars PROVE Inv'
    OBVIOUS
  <2>1. ASSUME NEW c \in Conns, ConnStep(c) PROVE Inv'
    BY <2>1, CheckInv, MarkConnectInv, RelayInv, RelayEndsInv, MarkDisconnectInv, CloseInv
    DEF ConnStep
  <2>2. ASSUME NEW c \in Conns, NEW ip \in IPs, Accept(c, ip) PROVE Inv'
    BY <2>2, AcceptInv
  <2>3. ASSUME NEW ip \in IPs, CooldownElapses(ip) PROVE Inv'
    BY <2>3, CooldownInv
  <2> QED BY <2>1, <2>2, <2>3, ResetInv, StutterInv DEF NextStep
<1> QED BY <1>1, InitInv, PTL DEF Spec

\* activeConns and activeIPs count exactly the connections they stand for and
\* stay within the cap, on every path out of handleConnection.
THEOREM CountersExact == Spec => []CountsMatchConns
<1>1. Inv => CountsMatchConns
  BY DEF Inv
<1> QED BY <1>1, Invariance, PTL

\* Every chunk is charged to the quota exactly once, at once or when its relay
\* ends, wherever resets fall; except where two wrappers charge it.
THEOREM QuotaExact == Spec => []QuotaIsExact
<1>1. Inv => QuotaIsExact
  BY DEF Inv
<1> QED BY <1>1, Invariance, PTL
=============================================================================
