------------------------ MODULE CentralServer_proofs ------------------------
(***************************************************************************)
(* Proofs about the central server, for every number of tunnels, client    *)
(* connections and connStates, every capacity and every environment:       *)
(* a connState is registered exactly while its context is live, no chunk   *)
(* is in two hands at once, and a dead tunnel is forgotten.                *)
(***************************************************************************)
EXTENDS CentralServer, CommonLemmas

HandlerType ==
    [pc : HandlerPC, conn : ConnIDs \cup {Nil}, t : States \cup {Nil}, seq : SeqNum,
     lo : SeqNum, hi : SeqNum, served : SUBSET ConnIDs]
RelayType == [pc : RelayPC, lo : SeqNum, hi : SeqNum, victim : States \cup {Nil}]
ClientType == [seq : SeqNum, closed : BOOLEAN]

\* The types alone.  (That the pointers TypeOK speaks of are not nil follows
\* from Pointers and Locks below.)
Types ==
    /\ conns \in [ConnIDs -> States \cup {Nil}]
    /\ csLock \in {"free", "cleaner"} \cup Sources
    /\ st \in [States -> StateType]
    /\ wq \in [States -> Seq(SeqNum)]
    /\ up \in [States -> {"none", "open", "eof", "closed"}]
    /\ written \in [States -> Seq(SeqNum)]
    /\ handler \in [Sources -> HandlerType]
    /\ relay \in [States -> RelayType]
    /\ writer \in [States -> {"none", "run", "drain", "done"}]
    /\ cleaner \in ConnIDs \cup {Nil}
    /\ inbox \in [Sources -> Seq(Frame)]
    /\ alive \in [Sources -> BOOLEAN]
    /\ client \in [ConnIDs -> ClientType]

\* Sequence numbers stay clear of the end of the number space.
Numbers ==
    /\ env \in Environments
    /\ \A c \in ConnIDs : client[c].seq \in 0 .. env.data + 1
    /\ \A s \in Sources : handler[s].seq \in FrameSeq
    /\ \A s \in Sources : \A i \in 1 .. Len(inbox[s]) : inbox[s][i].seq \in FrameSeq
    /\ \A t \in States : SaneReorderer(st[t].reord)

\* What the locals of a handler and of a relay are, where they are live.
HandlerOK(h) ==
    /\ h.pc \in {"data", "push", "fin", "finPush", "delete", "cancel", "orphan"} => h.conn \in ConnIDs
    /\ h.pc \in {"data", "push", "fin", "finPush", "cancel"} => h.t \in States /\ st[h.t].conn = h.conn
    /\ IF h.pc \in {"push", "finPush"} THEN h.lo < h.hi ELSE h.lo = 0 /\ h.hi = 0
RelayOK(t, x) ==
    /\ x.pc # "none" => st[t].conn \in ConnIDs
    /\ x.pc = "cancel" => x.victim \in States /\ st[x.victim].conn \in ConnIDs
    /\ IF x.pc = "flush" THEN x.lo < x.hi ELSE x.lo = 0 /\ x.hi = 0
Pointers ==
    /\ \A s \in Sources : HandlerOK(handler[s])
    /\ \A t \in States : RelayOK(t, relay[t])
    /\ \A c \in ConnIDs : conns[c] # Nil => st[conns[c]].conn = c
    /\ \A t \in States : st[t].conn = Nil => st[t].reord.nextSeq = 0

\* Who holds cs.mu over several steps, and what its holder is about to delete.
Locks ==
    /\ csLock = "cleaner" <=> cleaner # Nil
    /\ \A s \in Sources : csLock = s <=> handler[s].pc \in {"cleanup", "orphan"}
    /\ cleaner # Nil => conns[cleaner] # Nil /\ st[conns[cleaner]].cancelled
    /\ \A s \in Sources : handler[s].pc = "orphan" =>
          conns[handler[s].conn] # Nil /\ st[conns[handler[s].conn]].cancelled

BaseInv == Types /\ Numbers /\ Pointers /\ Locks

\* The second conjunct of RegisteredIffLive; and what is about to be cancelled
\* has been removed.
Live ==
    \A t \in States : st[t].conn # Nil =>
       IF conns[st[t].conn] = t THEN st[t].cancelled => DeletePending(t)
       ELSE st[t].cancelled \/ CancelPending(t)
CancelledRemoved ==
    /\ \A s \in Sources : handler[s].pc = "cancel" => conns[handler[s].conn] # handler[s].t
    /\ \A t \in States : relay[t].pc = "cancel" =>
          conns[st[relay[t].victim].conn] # relay[t].victim
LiveInv == Live /\ CancelledRemoved

\* ChunkInOnePlace, with the batches of the handlers below nextSeq too.
Past(t) == ToSet(written[t]) \cup ToSet(wq[t])
ChunkOK(t) ==
    /\ Distinct(written[t]) /\ Distinct(wq[t])
    /\ ToSet(written[t]) \cap ToSet(wq[t]) = {}
    /\ RelayBatch(t) \cap Past(t) = {}
    /\ \A s \in Sources :
          /\ HandlerBatch(s, t) \cap (Past(t) \cup RelayBatch(t)) = {}
          /\ \A s2 \in Sources \ {s} : HandlerBatch(s, t) \cap HandlerBatch(s2, t) = {}
          /\ \A x \in HandlerBatch(s, t) : x < st[t].reord.nextSeq
    /\ \A x \in Past(t) \cup RelayBatch(t) : x < st[t].reord.nextSeq
ChunkInv == \A t \in States : ChunkOK(t)

\* No source is listed twice; a handler has served whatever lists its tunnel;
\* a SYN comes before the other frames of its connection on the same tunnel,
\* and before that tunnel is listed.
SourcesDistinct == \A t \in States : Distinct(st[t].sources)
ListedServed ==
    /\ \A s \in Sources : \A c \in ConnIDs :
          (conns[c] # Nil /\ s \in ToSet(st[conns[c]].sources)) => c \in handler[s].served
    /\ \A s \in Sources : /\ handler[s].pc = "gone" => handler[s].served = {}
                          /\ handler[s].pc = "data" => handler[s].conn \in handler[s].served
SynFirst ==
    \A s \in Sources : \A j \in 1 .. Len(inbox[s]) : inbox[s][j].flag = "SYN" =>
       /\ \A i \in 1 .. j - 1 : inbox[s][i].conn # inbox[s][j].conn
       /\ \A t \in States : st[t].conn = inbox[s][j].conn => s \notin ToSet(st[t].sources)
       /\ handler[s].pc = "data" => handler[s].conn # inbox[s][j].conn
Unheard ==
    \A c \in ConnIDs : client[c].seq = 0 =>
       /\ \A s \in Sources : \A i \in 1 .. Len(inbox[s]) : inbox[s][i].conn # c
       /\ \A t \in States : st[t].conn # c
SourceInv == SourcesDistinct /\ ListedServed /\ SynFirst /\ Unheard
-----------------------------------------------------------------------------
(* Types, and what the helpers of the actions do to a goroutine.           *)

LEMMA NilNot ==
    /\ Nil \notin ConnIDs /\ Nil \notin States /\ Nil \notin Sources
    /\ "free" \notin Sources /\ "cleaner" \notin Sources
BY CentralServerAssumption DEF States

LEMMA BaseTypeOK == BaseInv => TypeOK
<1> SUFFICES ASSUME BaseInv PROVE TypeOK
  OBVIOUS
<1>1. \A s \in Sources :
         /\ handler[s].pc \in {"data", "push", "fin", "finPush", "cancel"} => handler[s].t # Nil
         /\ handler[s].pc = "orphan" => conns[handler[s].conn] # Nil
  BY NilNot DEF BaseInv, Pointers, HandlerOK, Locks
<1>2. \A t \in States : relay[t].pc = "cancel" => relay[t].victim # Nil
  BY NilNot DEF BaseInv, Pointers, RelayOK
<1>3. cleaner # Nil => conns[cleaner] # Nil
  BY DEF BaseInv, Locks
<1> QED BY <1>1, <1>2, <1>3 DEF BaseInv, Types, TypeOK, HandlerType, RelayType, ClientType

LEMMA HandlerPCs ==
    \A p \in {"read", "data", "push", "fin", "finPush", "delete", "cancel", "cleanup", "orphan",
              "gone"} : p \in HandlerPC
BY DEF HandlerPC

LEMMA RelayPCs ==
    \A p \in {"none", "connect", "install", "flush", "check", "read", "send", "close", "fin", "rst",
              "delete", "cancel", "done"} : p \in RelayPC
BY DEF RelayPC

LEMMA ZeroSeq == 0 \in SeqNum /\ 0 \in FrameSeq
BY SeqSpaceAssumption DEF SeqNum, FrameSeq

\* A step that gives handler s the locals x, connState t the record x, or
\* relay t the locals x.
LEMMA SetHandler ==
    ASSUME Types, NEW s \in Sources, NEW x \in HandlerType, handler' = [handler EXCEPT ![s] = x]
    PROVE  /\ handler' \in [Sources -> HandlerType] /\ handler'[s] = x
           /\ \A r \in Sources \ {s} : handler'[r] = handler[r]
BY DEF Types

LEMMA SetState ==
    ASSUME Types, NEW t \in States, NEW x \in StateType, st' = [st EXCEPT ![t] = x]
    PROVE  /\ st' \in [States -> StateType] /\ st'[t] = x
           /\ \A u \in States \ {t} : st'[u] = st[u]
BY DEF Types

LEMMA SetRelay ==
    ASSUME Types, NEW t \in States, NEW x \in RelayType, relay' = [relay EXCEPT ![t] = x]
    PROVE  /\ relay' \in [States -> RelayType] /\ relay'[t] = x
           /\ \A u \in States \ {t} : relay'[u] = relay[u]
BY DEF Types

LEMMA RestingFacts ==
    ASSUME Types, NEW s \in Sources
    PROVE  /\ Resting(s) \in HandlerType
           /\ Resting(s).pc = "read" /\ Resting(s).conn = Nil /\ Resting(s).t = Nil
           /\ Resting(s).seq = 0 /\ Resting(s).lo = 0 /\ Resting(s).hi = 0
           /\ Resting(s).served = handler[s].served
<1>1. handler[s].served \in SUBSET ConnIDs
  BY DEF Types, HandlerType
<1> QED BY <1>1, HandlerPCs, ZeroSeq DEF Resting, IdleHandler, HandlerType

LEMMA GotoFacts ==
    ASSUME Types, NEW s \in Sources, NEW p \in HandlerPC, Goto(s, p)
    PROVE  /\ handler' \in [Sources -> HandlerType]
           /\ \A r \in Sources \ {s} : handler'[r] = handler[r]
           /\ handler'[s].pc = p /\ handler'[s].lo = 0 /\ handler'[s].hi = 0
           /\ handler'[s].served = handler[s].served
           /\ IF p = "read" THEN handler'[s].conn = Nil /\ handler'[s].t = Nil /\ handler'[s].seq = 0
              ELSE /\ handler'[s].conn = handler[s].conn /\ handler'[s].t = handler[s].t
                   /\ handler'[s].seq = handler[s].seq
<1> DEFINE y == [handler[s] EXCEPT !.pc = p, !.lo = 0, !.hi = 0]
           x == IF p = "read" THEN Resting(s) ELSE y
<1>1. handler[s] \in HandlerType
  BY DEF Types
<1>2. handler' = [handler EXCEPT ![s] = x]
  BY DEF Goto
<1>3. /\ y \in HandlerType /\ y.pc = p /\ y.lo = 0 /\ y.hi = 0 /\ y.served = handler[s].served
      /\ y.conn = handler[s].conn /\ y.t = handler[s].t /\ y.seq = handler[s].seq
  BY <1>1, ZeroSeq DEF HandlerType
<1> HIDE DEF y
<1>4. CASE p = "read"
  <2>1. x = Resting(s)
    BY <1>4
  <2> HIDE DEF x
  <2> QED BY <1>2, <1>4, <2>1, RestingFacts, SetHandler
<1>5. CASE p # "read"
  <2>1. x = y
    BY <1>5
  <2> HIDE DEF x
  <2> QED BY <1>2, <1>3, <1>5, <2>1, SetHandler
<1> QED BY <1>4, <1>5

LEMMA GotoPushFacts ==
    ASSUME Types, NEW s \in Sources, NEW p \in HandlerPC \ {"read"}, NEW exit \in HandlerPC,
           NEW lo \in SeqNum, NEW hi \in SeqNum, lo <= hi, GotoPush(s, p, exit, lo, hi)
    PROVE  /\ handler' \in [Sources -> HandlerType]
           /\ \A r \in Sources \ {s} : handler'[r] = handler[r]
           /\ handler'[s].served = handler[s].served
           /\ handler'[s].pc \in {p, exit}
           /\ IF handler'[s].pc = "read"
              THEN handler'[s].conn = Nil /\ handler'[s].t = Nil /\ handler'[s].seq = 0
              ELSE /\ handler'[s].conn = handler[s].conn /\ handler'[s].t = handler[s].t
                   /\ handler'[s].seq = handler[s].seq
           /\ \/ lo = hi /\ handler'[s].pc = exit /\ handler'[s].lo = 0 /\ handler'[s].hi = 0
              \/ lo < hi /\ handler'[s].pc = p /\ handler'[s].lo = lo /\ handler'[s].hi = hi
<1>1. CASE lo = hi
  <2>1. Goto(s, exit)
    BY <1>1 DEF GotoPush
  <2> QED BY <1>1, <2>1, GotoFacts
<1>2. CASE lo # hi
  <2> DEFINE x == [handler[s] EXCEPT !.pc = p, !.lo = lo, !.hi = hi]
  <2>1. handler[s] \in HandlerType
    BY DEF Types
  <2>2. handler' = [handler EXCEPT ![s] = x]
    BY <1>2 DEF GotoPush
  <2>3. /\ x \in HandlerType /\ x.pc = p /\ x.lo = lo /\ x.hi = hi /\ x.served = handler[s].served
        /\ x.conn = handler[s].conn /\ x.t = handler[s].t /\ x.seq = handler[s].seq
    BY <2>1 DEF HandlerType
  <2>4. lo < hi
    BY <1>2, Bounds
  <2> HIDE DEF x
  <2> QED BY <2>2, <2>3, <2>4, SetHandler
<1> QED BY <1>1, <1>2

\* What ReadFrame leaves in the locals of the handler.
LEMMA ReceivedFacts ==
    ASSUME Types, NEW s \in Sources, inbox[s] # << >>, NEW p \in HandlerPC,
           NEW v \in States \cup {Nil}
    PROVE  LET f == Head(inbox[s])
               x == Received(s, p, v)
           IN  /\ f \in Frame /\ x \in HandlerType
               /\ x.pc = p /\ x.lo = 0 /\ x.hi = 0
               /\ x.served = handler[s].served \cup {f.conn}
               /\ IF p = "read" THEN x.conn = Nil /\ x.t = Nil /\ x.seq = 0
                  ELSE x.conn = f.conn /\ x.t = v /\ x.seq = f.seq
<1> DEFINE f == Head(inbox[s])
           h == [Resting(s) EXCEPT !.served = @ \cup {f.conn}]
           y == [h EXCEPT !.pc = p, !.conn = f.conn, !.t = v, !.seq = f.seq]
<1>1. f \in Frame
  <2>1. inbox[s] \in Seq(Frame)
    BY DEF Types
  <2> QED BY <2>1, HeadTailFacts
<1>2. f.conn \in ConnIDs /\ f.seq \in SeqNum
  BY <1>1 DEF Frame
<1>3. Received(s, p, v) = IF p = "read" THEN h ELSE y
  BY DEF Received
<1> HIDE DEF f
<1>4. /\ h \in HandlerType /\ h.pc = "read" /\ h.lo = 0 /\ h.hi = 0
      /\ h.conn = Nil /\ h.t = Nil /\ h.seq = 0 /\ h.served = handler[s].served \cup {f.conn}
  <2> DEFINE g == Resting(s)
  <2>1. g \in HandlerType /\ g.pc = "read" /\ g.conn = Nil /\ g.t = Nil /\ g.seq = 0
        /\ g.lo = 0 /\ g.hi = 0 /\ g.served = handler[s].served
    BY RestingFacts
  <2> HIDE DEF g
  <2>2. h = [g EXCEPT !.served = g.served \cup {f.conn}]
    BY DEF g
  <2> HIDE DEF h
  <2> QED BY <1>2, <2>1, <2>2 DEF HandlerType
<1> HIDE DEF h
<1>5. /\ y \in HandlerType /\ y.pc = p /\ y.lo = 0 /\ y.hi = 0 /\ y.served = h.served
      /\ y.conn = f.conn /\ y.t = v /\ y.seq = f.seq
  BY <1>2, <1>4 DEF HandlerType
<1> HIDE DEF y
<1>6. CASE p = "read"
  BY <1>1, <1>3, <1>4, <1>6 DEF f
<1>7. CASE p # "read"
  BY <1>1, <1>3, <1>4, <1>5, <1>7 DEF f
<1> QED BY <1>6, <1>7

LEMMA RelayGotoFacts ==
    ASSUME Types, NEW t \in States, NEW p \in RelayPC, RelayGoto(t, p)
    PROVE  /\ relay' \in [States -> RelayType]
           /\ \A u \in States \ {t} : relay'[u] = relay[u]
           /\ relay'[t].pc = p /\ relay'[t].lo = 0 /\ relay'[t].hi = 0 /\ relay'[t].victim = Nil
<1> DEFINE x == [IdleRelay EXCEPT !.pc = p]
<1>1. relay' = [relay EXCEPT ![t] = x]
  BY DEF RelayGoto
<1>2. x \in RelayType /\ x.pc = p /\ x.lo = 0 /\ x.hi = 0 /\ x.victim = Nil
  BY ZeroSeq DEF IdleRelay, RelayType
<1> HIDE DEF x
<1> QED BY <1>1, <1>2, SetRelay

LEMMA RelayGotoFlushFacts ==
    ASSUME Types, NEW t \in States, NEW lo \in SeqNum, NEW hi \in SeqNum, lo <= hi,
           RelayGotoFlush(t, lo, hi)
    PROVE  /\ relay' \in [States -> RelayType]
           /\ \A u \in States \ {t} : relay'[u] = relay[u]
           /\ \/ lo = hi /\ relay'[t].pc = "check" /\ relay'[t].lo = 0 /\ relay'[t].hi = 0
              \/ lo < hi /\ relay'[t].pc = "flush" /\ relay'[t].lo = lo /\ relay'[t].hi = hi
<1>1. CASE lo = hi
  BY <1>1, RelayGotoFacts, RelayPCs DEF RelayGotoFlush
<1>2. CASE lo # hi
  <2> DEFINE x == [relay[t] EXCEPT !.pc = "flush", !.lo = lo, !.hi = hi]
  <2>1. relay' = [relay EXCEPT ![t] = x] /\ relay[t] \in RelayType
    BY <1>2 DEF RelayGotoFlush, Types
  <2>2. x \in RelayType /\ x.pc = "flush" /\ x.lo = lo /\ x.hi = hi
    BY <2>1, RelayPCs DEF RelayType
  <2>3. lo < hi
    BY <1>2, Bounds
  <2> HIDE DEF x
  <2> QED BY <2>1, <2>2, <2>3, SetRelay
<1> QED BY <1>1, <1>2

-----------------------------------------------------------------------------
(* What suffices for a step to preserve the types and the pointers.        *)

\* No connState loses its ConnID or its cancellation, and no reorderer goes
\* back.
StKept ==
    /\ st' \in [States -> StateType]
    /\ \A u \in States :
          /\ st[u].conn # Nil => /\ st'[u].conn = st[u].conn
                                 /\ st[u].cancelled => st'[u].cancelled
          /\ SaneReorderer(st'[u].reord) /\ st[u].reord.nextSeq <= st'[u].reord.nextSeq
          /\ st'[u].conn = Nil => st'[u].reord.nextSeq = 0

LEMMA StFields ==
    ASSUME Types, NEW u \in States
    PROVE  /\ st[u] \in StateType /\ st[u].reord \in ReordererType
           /\ st[u].reord.nextSeq \in SeqNum /\ st[u].reord.nextSeq \in Int
           /\ st[u].sources \in Seq(Sources)
<1>1. st[u] \in StateType
  BY DEF Types
<1>2. st[u].reord \in ReordererType /\ st[u].sources \in Seq(Sources)
  BY <1>1 DEF StateType
<1>3. st[u].reord.nextSeq \in SeqNum
  BY <1>2 DEF ReordererType
<1>4. st[u].reord.nextSeq \in Int
  BY <1>3, SeqSpaceAssumption DEF SeqNum
<1> QED BY <1>1, <1>2, <1>3, <1>4

LEMMA StSame == ASSUME BaseInv, UNCHANGED st PROVE StKept
<1>1. \A u \in States : st[u].reord.nextSeq \in Int
  BY StFields DEF BaseInv
<1> QED BY <1>1 DEF BaseInv, Types, Numbers, Pointers, StKept

LEMMA StSet ==
    ASSUME BaseInv, NEW t \in States, NEW x \in StateType, st' = [st EXCEPT ![t] = x],
           st[t].conn # Nil => x.conn = st[t].conn /\ (st[t].cancelled => x.cancelled),
           SaneReorderer(x.reord), st[t].reord.nextSeq <= x.reord.nextSeq,
           x.conn = Nil => x.reord.nextSeq = 0
    PROVE  StKept /\ st'[t] = x /\ \A u \in States \ {t} : st'[u] = st[u]
<1>1. /\ st' \in [States -> StateType] /\ st'[t] = x
      /\ \A u \in States \ {t} : st'[u] = st[u]
  BY SetState DEF BaseInv
<1>2. \A u \in States : st[u].reord.nextSeq \in Int
  BY StFields DEF BaseInv
<1>3. \A u \in States : SaneReorderer(st[u].reord) /\ (st[u].conn = Nil => st[u].reord.nextSeq = 0)
  BY DEF BaseInv, Numbers, Pointers
<1> QED BY <1>1, <1>2, <1>3 DEF StKept

\* Handler s, relay t, goes on with sensible locals; the others wait.
HandlerMoved(s) ==
    /\ handler' \in [Sources -> HandlerType]
    /\ \A r \in Sources \ {s} : handler'[r] = handler[r]
    /\ handler'[s].seq \in FrameSeq /\ HandlerOK(handler'[s])
RelayMoved(t) ==
    /\ relay' \in [States -> RelayType]
    /\ \A u \in States \ {t} : relay'[u] = relay[u]
    /\ RelayOK(t, relay[t])'

\* A step of handler s, of relay t, or of neither.
SomeHandler == UNCHANGED handler \/ \E s \in Sources : HandlerMoved(s)
SomeRelay == UNCHANGED relay \/ \E t \in States : RelayMoved(t)

LEMMA BaseKept ==
    ASSUME BaseInv, Types', Locks', StKept, SomeHandler, SomeRelay, UNCHANGED env,
           \A c \in ConnIDs : client'[c].seq \in 0 .. env.data + 1,
           \A s \in Sources : \A i \in 1 .. Len(inbox'[s]) : inbox'[s][i].seq \in FrameSeq,
           \A c \in ConnIDs : conns'[c] \in {conns[c], Nil} \/ st'[conns'[c]].conn = c
    PROVE  BaseInv'
<1>1. Numbers'
  <2>1. \A s \in Sources : handler'[s].seq \in FrameSeq
    BY DEF BaseInv, Numbers, SomeHandler, HandlerMoved
  <2> QED BY <2>1 DEF BaseInv, Numbers, StKept
<1>2. Pointers'
  <2>1. ASSUME NEW s \in Sources PROVE HandlerOK(handler[s])'
    <3>1. HandlerOK(handler'[s])
      BY DEF BaseInv, Pointers, SomeHandler, HandlerMoved
    <3> QED BY <3>1, NilNot DEF HandlerOK, StKept
  <2>2. ASSUME NEW t \in States PROVE RelayOK(t, relay[t])'
    <3>1. \/ RelayOK(t, relay[t])'
          \/ RelayOK(t, relay[t]) /\ relay'[t] = relay[t]
      <4>1. RelayOK(t, relay[t])
        BY DEF BaseInv, Pointers
      <4>2. CASE UNCHANGED relay
        BY <4>1, <4>2
      <4>3. CASE ~UNCHANGED relay
        <5>1. PICK v \in States : RelayMoved(v)
          BY <4>3 DEF SomeRelay
        <5>2. CASE v = t
          <6>1. RelayOK(v, relay[v])'
            BY <5>1 DEF RelayMoved
          <6>2. RelayOK(t, relay[t])'
            BY <5>2, <6>1 DEF RelayOK
          <6> QED BY <6>2
        <5>3. CASE v # t
          BY <4>1, <5>1, <5>3 DEF RelayMoved
        <5> QED BY <5>2, <5>3
      <4> QED BY <4>2, <4>3
    <3> QED BY <3>1, NilNot DEF RelayOK, StKept
  <2>3. \A c \in ConnIDs : conns'[c] # Nil => st'[conns'[c]].conn = c
    <3> SUFFICES ASSUME NEW c \in ConnIDs, conns'[c] = conns[c], conns[c] # Nil
                 PROVE  st'[conns[c]].conn = c
      OBVIOUS
    <3>1. conns[c] \in States /\ st[conns[c]].conn = c /\ c # Nil
      BY NilNot DEF BaseInv, Types, Pointers
    <3> QED BY <3>1 DEF StKept
  <2> QED BY <2>1, <2>2, <2>3 DEF Pointers, StKept
<1> QED BY <1>1, <1>2 DEF BaseInv

\* While cs.mu is free no cleanup is under way.
LEMMA FreeLock ==
    ASSUME BaseInv, csLock = "free"
    PROVE  cleaner = Nil /\ \A s \in Sources : handler[s].pc \notin {"cleanup", "orphan"}
BY NilNot DEF BaseInv, Locks

\* Who holds cs.mu, and the map under it, change only in its critical sections.
LEMMA LocksKept ==
    ASSUME BaseInv, StKept, UNCHANGED <<csLock, cleaner>>, csLock = "free" \/ UNCHANGED conns,
           \A s \in Sources : \/ handler'[s] = handler[s]
                              \/ /\ handler[s].pc \notin {"cleanup", "orphan"}
                                 /\ handler'[s].pc \notin {"cleanup", "orphan"}
    PROVE  Locks'
<1>1. CASE csLock = "free"
  BY <1>1, FreeLock DEF BaseInv, Locks
<1>2. CASE UNCHANGED conns
  <2>1. \A c \in ConnIDs : conns[c] # Nil => conns[c] \in States /\ st[conns[c]].conn # Nil
    BY NilNot DEF BaseInv, Types, Pointers
  <2>2. \A s \in Sources : handler[s].pc = "orphan" => handler[s].conn \in ConnIDs
    BY DEF BaseInv, Pointers, HandlerOK
  <2>3. cleaner \in ConnIDs \cup {Nil}
    BY DEF BaseInv, Types
  <2>4. cleaner' # Nil => conns'[cleaner'] # Nil /\ st'[conns'[cleaner']].cancelled
    BY <1>2, <2>1, <2>3 DEF BaseInv, Locks, StKept
  <2>5. ASSUME NEW s \in Sources, handler'[s].pc = "orphan"
        PROVE  conns'[handler'[s].conn] # Nil /\ st'[conns'[handler'[s].conn]].cancelled
    BY <1>2, <2>1, <2>2, <2>5 DEF BaseInv, Locks, StKept
  <2>6. \A s \in Sources : csLock' = s <=> handler'[s].pc \in {"cleanup", "orphan"}
    BY DEF BaseInv, Locks
  <2> QED BY <2>4, <2>5, <2>6 DEF BaseInv, Locks
<1> QED BY <1>1, <1>2

-----------------------------------------------------------------------------
(* Steps that touch neither the map, nor a context, nor a chunk.           *)

ContextsKept ==
    \A u \in States : st'[u].conn = st[u].conn /\ st'[u].cancelled = st[u].cancelled
SourcesShrink ==
    \A u \in States : /\ ToSet(st'[u].sources) \subseteq ToSet(st[u].sources)
                      /\ Distinct(st[u].sources) => Distinct(st'[u].sources)
RelayCalm(t) ==
    \/ relay'[t] = relay[t]
    \/ /\ relay[t].pc \notin {"none", "cancel"} /\ relay'[t].pc \notin {"none", "flush", "cancel"}
       /\ relay'[t].lo = 0 /\ relay'[t].hi = 0
Calm ==
    /\ StKept /\ ContextsKept /\ SourcesShrink
    /\ \A t \in States : RelayCalm(t)
    /\ UNCHANGED <<conns, csLock, wq, written, handler, cleaner, inbox, client, env>>

LEMMA CalmBase ==
    ASSUME BaseInv, Calm, relay' \in [States -> RelayType],
           up' \in [States -> {"none", "open", "eof", "closed"}],
           writer' \in [States -> {"none", "run", "drain", "done"}],
           alive' \in [Sources -> BOOLEAN]
    PROVE  BaseInv'
<1>1. Types'
  BY DEF BaseInv, Types, Calm, StKept
<1>2. Locks'
  BY LocksKept DEF Calm
<1>3. ASSUME NEW t \in States PROVE RelayOK(t, relay[t])'
  <2>1. RelayOK(t, relay[t])
    BY DEF BaseInv, Pointers
  <2>2. CASE relay'[t] = relay[t]
    BY <2>1, <2>2, NilNot DEF RelayOK, Calm, StKept
  <2>3. CASE relay'[t] # relay[t]
    BY <2>1, <2>3, NilNot DEF RelayOK, Calm, StKept, RelayCalm
  <2> QED BY <2>2, <2>3
<1>4. \A s \in Sources : HandlerOK(handler[s])'
  <2>1. \A s \in Sources : HandlerOK(handler[s])
    BY DEF BaseInv, Pointers
  <2> QED BY <2>1, NilNot DEF HandlerOK, Calm, StKept
<1>5. ASSUME NEW c \in ConnIDs, conns'[c] # Nil PROVE st'[conns'[c]].conn = c
  <2>1. conns[c] \in States /\ st[conns[c]].conn = c /\ conns' = conns
    BY <1>5 DEF BaseInv, Types, Pointers, Calm
  <2> QED BY <2>1 DEF Calm, ContextsKept
<1>6. Numbers'
  BY DEF BaseInv, Numbers, Calm, StKept
<1>7. Pointers'
  BY <1>3, <1>4, <1>5 DEF Pointers, Calm, StKept
<1> QED BY <1>1, <1>2, <1>6, <1>7 DEF BaseInv

\* st is left alone, or gets a record with the same context, reorderer and
\* sources.
LEMMA StCalm ==
    ASSUME BaseInv, UNCHANGED st PROVE StKept /\ ContextsKept /\ SourcesShrink
BY StSame DEF ContextsKept, SourcesShrink

LEMMA StTouched ==
    ASSUME BaseInv, NEW t \in States, NEW x \in StateType, st' = [st EXCEPT ![t] = x],
           x.conn = st[t].conn, x.cancelled = st[t].cancelled, x.sources = st[t].sources,
           SaneReorderer(x.reord), x.reord.nextSeq = st[t].reord.nextSeq
    PROVE  StKept /\ ContextsKept /\ SourcesShrink
<1>1. st[t].reord.nextSeq <= x.reord.nextSeq
  BY StFields DEF BaseInv
<1>2. x.conn = Nil => x.reord.nextSeq = 0
  BY DEF BaseInv, Pointers
<1>3. StKept /\ st'[t] = x /\ \A u \in States \ {t} : st'[u] = st[u]
  BY <1>1, <1>2, StSet
<1> QED BY <1>3 DEF ContextsKept, SourcesShrink

\* Nothing but the health of a tunnel or of an upstream, or the phase of a
\* writer, changes.
LEMMA AsideSteps ==
    ASSUME BaseInv, \/ \E s \in Sources : TunnelDies(s)
                    \/ \E t \in States : PeerCloses(t) \/ WriterCancelled(t)
                    \/ UNCHANGED vars
    PROVE  BaseInv' /\ Calm
<1>1. UNCHANGED <<conns, csLock, st, wq, written, handler, relay, cleaner, inbox, client, env>>
  BY DEF TunnelDies, PeerCloses, WriterCancelled, serverVars, envVars, vars
<1>2. alive' \in [Sources -> BOOLEAN]
  BY DEF BaseInv, Types, TunnelDies, PeerCloses, WriterCancelled, envVars, vars
<1>3. up' \in [States -> {"none", "open", "eof", "closed"}]
  BY DEF BaseInv, Types, TunnelDies, PeerCloses, WriterCancelled, serverVars, vars
<1>4. writer' \in [States -> {"none", "run", "drain", "done"}]
  BY DEF BaseInv, Types, TunnelDies, PeerCloses, WriterCancelled, serverVars, vars
<1>5. Calm
  BY <1>1, StCalm DEF Calm, RelayCalm
<1>6. relay' \in [States -> RelayType]
  BY <1>1 DEF BaseInv, Types
<1> QED BY <1>2, <1>3, <1>4, <1>5, <1>6, CalmBase

\* Time passes: only a timer, an age or idleness changes.
LEMMA TimeSteps ==
    ASSUME BaseInv, NEW t \in States, TimeStep(t)
    PROVE  BaseInv' /\ Calm
<1>1. UNCHANGED <<conns, csLock, wq, up, written, handler, relay, writer, cleaner, inbox, alive,
                  client, env>>
  BY DEF TimeStep, GapElapses, Ages, GoesIdle, envVars
<1>2. st[t] \in StateType /\ st[t].reord \in ReordererType /\ SaneReorderer(st[t].reord)
  BY StFields DEF BaseInv, Numbers
<1>3. StKept /\ ContextsKept /\ SourcesShrink
  <2>1. CASE GapElapses(t)
    <3> DEFINE y == [st[t].reord EXCEPT !.waitingSince = "expired"]
               x == [st[t] EXCEPT !.reord = y]
    <3>1. st' = [st EXCEPT ![t] = x]
      BY <2>1 DEF GapElapses
    <3>2. y \in ReordererType /\ SaneReorderer(y) /\ y.nextSeq = st[t].reord.nextSeq
      BY <1>2 DEF ReordererType, Timer, SaneReorderer
    <3> HIDE DEF y
    <3>3. /\ x \in StateType /\ x.conn = st[t].conn /\ x.cancelled = st[t].cancelled
          /\ x.sources = st[t].sources /\ x.reord = y
      BY <1>2, <3>2 DEF StateType
    <3> HIDE DEF x
    <3> QED BY <3>1, <3>2, <3>3, StTouched
  <2>2. CASE Ages(t)
    <3> DEFINE x == [st[t] EXCEPT !.age = @ + 1]
    <3>1. st' = [st EXCEPT ![t] = x] /\ st[t].age < 2
      BY <2>2 DEF Ages
    <3>2. st[t].age + 1 \in 0 .. 2
      BY <1>2, <3>1 DEF StateType
    <3>3. /\ x \in StateType /\ x.conn = st[t].conn /\ x.cancelled = st[t].cancelled
          /\ x.sources = st[t].sources /\ x.reord = st[t].reord
      BY <1>2, <3>2 DEF StateType
    <3> HIDE DEF x
    <3> QED BY <1>2, <3>1, <3>3, StTouched
  <2>3. CASE GoesIdle(t)
    <3> DEFINE x == [st[t] EXCEPT !.idle = TRUE]
    <3>1. st' = [st EXCEPT ![t] = x]
      BY <2>3 DEF GoesIdle
    <3>2. /\ x \in StateType /\ x.conn = st[t].conn /\ x.cancelled = st[t].cancelled
          /\ x.sources = st[t].sources /\ x.reord = st[t].reord
      BY <1>2 DEF StateType
    <3> HIDE DEF x
    <3> QED BY <1>2, <3>1, <3>2, StTouched
  <2> QED BY <2>1, <2>2, <2>3 DEF TimeStep
<1>4. Calm
  BY <1>1, <1>3 DEF Calm, RelayCalm
<1> QED BY <1>1, <1>4, CalmBase DEF BaseInv, Types

\* The relay waits, reads, sends or closes: it drains, pushes and removes
\* nothing.
LEMMA RelayCalmSteps ==
    ASSUME BaseInv, NEW t \in States,
           \/ ConnectOK(t) \/ ConnectFails(t) \/ CheckContext(t) \/ ReadUpstreamFails(t)
           \/ CloseUpstream(t)
    PROVE  BaseInv' /\ Calm
<1>1. UNCHANGED <<conns, csLock, st, wq, written, handler, writer, cleaner, inbox, alive, client, env>>
  BY DEF ConnectOK, ConnectFails, CheckContext, ReadUpstreamFails, CloseUpstream, envVars
<1>2. up' \in [States -> {"none", "open", "eof", "closed"}]
  BY DEF BaseInv, Types, ConnectOK, ConnectFails, CheckContext, ReadUpstreamFails, CloseUpstream
<1>3. PICK p \in {"install", "rst", "close", "read", "fin"} : RelayGoto(t, p)
  BY DEF ConnectOK, ConnectFails, CheckContext, ReadUpstreamFails, CloseUpstream
<1>4. relay[t].pc \notin {"none", "cancel"}
  BY DEF ConnectOK, ConnectFails, CheckContext, ReadUpstreamFails, CloseUpstream
<1>5. /\ relay' \in [States -> RelayType]
      /\ \A u \in States \ {t} : relay'[u] = relay[u]
      /\ relay'[t].pc = p /\ relay'[t].lo = 0 /\ relay'[t].hi = 0
  BY <1>3, RelayGotoFacts, RelayPCs DEF BaseInv
<1>6. Calm
  BY <1>1, <1>4, <1>5, StCalm DEF Calm, RelayCalm
<1> QED BY <1>1, <1>2, <1>5, <1>6, CalmBase DEF BaseInv, Types

LEMMA ReadUpstreamStep ==
    ASSUME BaseInv, NEW t \in States, ReadUpstream(t)
    PROVE  BaseInv' /\ Calm
<1>1. UNCHANGED <<conns, csLock, wq, up, written, handler, writer, cleaner, inbox, alive, client, env>>
  BY DEF ReadUpstream, envVars
<1>2. st[t] \in StateType /\ SaneReorderer(st[t].reord)
  BY StFields DEF BaseInv, Numbers
<1> DEFINE x == [st[t] EXCEPT !.txSeq = @ + 1, !.idle = FALSE]
<1>3. st' = [st EXCEPT ![t] = x] /\ st[t].txSeq < MaxReverse
  BY DEF ReadUpstream
<1>4. st[t].txSeq + 1 \in 0 .. MaxReverse
  BY <1>2, <1>3, CentralServerAssumption DEF StateType
<1>5. /\ x \in StateType /\ x.conn = st[t].conn /\ x.cancelled = st[t].cancelled
      /\ x.sources = st[t].sources /\ x.reord = st[t].reord
  BY <1>2, <1>4 DEF StateType
<1> HIDE DEF x
<1>6. StKept /\ ContextsKept /\ SourcesShrink
  BY <1>2, <1>3, <1>5, StTouched
<1>7. /\ relay' \in [States -> RelayType]
      /\ \A u \in States \ {t} : relay'[u] = relay[u]
      /\ relay'[t].pc = "send" /\ relay'[t].lo = 0 /\ relay'[t].hi = 0
  BY RelayGotoFacts, RelayPCs DEF BaseInv, ReadUpstream
<1>8. Calm
  BY <1>1, <1>6, <1>7 DEF Calm, RelayCalm, ReadUpstream
<1> QED BY <1>1, <1>7, <1>8, CalmBase DEF BaseInv, Types

\* sendFrame may only drop sources.
LEMMA RelaySendStep ==
    ASSUME BaseInv, NEW t \in States, RelaySend(t)
    PROVE  BaseInv' /\ Calm
<1>1. UNCHANGED <<conns, csLock, wq, up, written, handler, writer, cleaner, inbox, alive, client, env>>
  BY DEF RelaySend, envVars
<1>2. st[t].conn \in ConnIDs
  BY DEF BaseInv, Pointers, RelayOK, RelaySend
<1>3. StKept /\ ContextsKept /\ SourcesShrink
  <2>1. CASE conns[st[t].conn] = Nil
    BY <2>1, StCalm DEF RelaySend, sendFrame
  <2>2. CASE conns[st[t].conn] # Nil
    <3> DEFINE v == conns[st[t].conn]
    <3>1. v \in States
      BY <1>2, <2>2 DEF BaseInv, Types
    <3>2. PICK failed : st' = [st EXCEPT ![v].sources = Filter(@, Sources \ failed)]
      BY <2>2 DEF RelaySend, sendFrame
    <3> HIDE DEF v
    <3>3. /\ st[v] \in StateType /\ SaneReorderer(st[v].reord) /\ st[v].sources \in Seq(Sources)
          /\ st[v].reord.nextSeq \in Int
      BY <3>1, StFields DEF BaseInv, Numbers
    <3> DEFINE q == Filter(st[v].sources, Sources \ failed)
               x == [st[v] EXCEPT !.sources = q]
    <3>4. /\ q \in Seq(Sources) /\ ToSet(q) \subseteq ToSet(st[v].sources)
          /\ Distinct(st[v].sources) => Distinct(q)
      <4> DEFINE s == st[v].sources
      <4>1. s \in Seq(Sources)
        BY <3>3
      <4> HIDE DEF s
      <4>2. /\ Filter(s, Sources \ failed) \in Seq(Sources)
            /\ ToSet(Filter(s, Sources \ failed)) = ToSet(s) \cap (Sources \ failed)
            /\ Distinct(s) => Distinct(Filter(s, Sources \ failed))
        BY <4>1, FilterFacts, Zenon DEF Distinct
      <4> QED BY <4>2 DEF s
    <3>5. st' = [st EXCEPT ![v] = x]
      BY <3>2
    <3> HIDE DEF q
    <3>6. /\ x \in StateType /\ x.conn = st[v].conn /\ x.cancelled = st[v].cancelled
          /\ x.sources = q /\ x.reord = st[v].reord
      BY <3>3, <3>4 DEF StateType
    <3> HIDE DEF x
    <3>7. st[v].conn = Nil => st[v].reord.nextSeq = 0
      BY <3>1 DEF BaseInv, Pointers
    <3>8. StKept /\ st'[v] = x /\ \A u \in States \ {v} : st'[u] = st[u]
      <4>1. st[v].reord.nextSeq <= x.reord.nextSeq /\ SaneReorderer(x.reord)
        BY <3>3, <3>6
      <4> QED BY <3>1, <3>5, <3>6, <3>7, <4>1, StSet
    <3> QED BY <3>1, <3>4, <3>6, <3>8 DEF ContextsKept, SourcesShrink
  <2> QED BY <2>1, <2>2
<1>4. PICK p \in {"check", "delete"} : RelayGoto(t, p)
  BY DEF RelaySend
<1>5. /\ relay' \in [States -> RelayType]
      /\ \A u \in States \ {t} : relay'[u] = relay[u]
      /\ relay'[t].pc = p /\ relay'[t].lo = 0 /\ relay'[t].hi = 0
  BY <1>4, RelayGotoFacts, RelayPCs DEF BaseInv
<1>6. relay[t].pc \notin {"none", "cancel"}
  BY DEF RelaySend
<1>7. Calm
  BY <1>1, <1>3, <1>5, <1>6 DEF Calm, RelayCalm
<1> QED BY <1>1, <1>5, <1>7, CalmBase DEF BaseInv, Types

CalmStep ==
    \/ \E s \in Sources : TunnelDies(s)
    \/ \E t \in States :
          \/ PeerCloses(t) \/ WriterCancelled(t) \/ TimeStep(t) \/ PeerStep(t)
          \/ CheckContext(t) \/ ReadUpstreamFails(t) \/ CloseUpstream(t) \/ RelaySend(t)
    \/ UNCHANGED vars

LEMMA CalmSteps == ASSUME BaseInv, CalmStep PROVE BaseInv' /\ Calm
BY AsideSteps, TimeSteps, RelayCalmSteps, ReadUpstreamStep, RelaySendStep DEF CalmStep, PeerStep

-----------------------------------------------------------------------------
(* What the other steps do, and that they preserve BaseInv.                *)

LEMMA ServerUntouched ==
    ASSUME BaseInv, Types', UNCHANGED <<conns, csLock, st, handler, relay, cleaner, env>>,
           \A c \in ConnIDs : client'[c].seq \in 0 .. env.data + 1,
           \A s \in Sources : \A i \in 1 .. Len(inbox'[s]) : inbox'[s][i].seq \in FrameSeq
    PROVE  BaseInv'
<1>1. StKept
  BY StSame
<1>2. Locks'
  BY <1>1, LocksKept
<1> QED BY <1>1, <1>2, BaseKept DEF SomeHandler, SomeRelay

\* A writer takes the head of its queue, or discards it, or discards the queue.
LEMMA WriterSteps ==
    ASSUME BaseInv, NEW t \in States, WriterTakes(t) \/ WriterGivesUp(t) \/ WriterDrains(t)
    PROVE  /\ BaseInv'
           /\ UNCHANGED <<conns, csLock, st, handler, relay, cleaner, inbox, client, env>>
           /\ \A u \in States \ {t} : wq'[u] = wq[u] /\ written'[u] = written[u]
           /\ \/ /\ wq[t] # << >> /\ wq'[t] = Tail(wq[t])
                 /\ written'[t] \in {written[t], Append(written[t], Head(wq[t]))}
              \/ wq'[t] \in {<< >>, wq[t]} /\ written'[t] = written[t]
<1>1. UNCHANGED <<conns, csLock, st, up, handler, relay, cleaner, inbox, alive, client, env>>
  BY DEF WriterTakes, WriterGivesUp, WriterDrains, envVars
<1>2. wq[t] \in Seq(SeqNum) /\ written[t] \in Seq(SeqNum)
  BY DEF BaseInv, Types
<1>3. wq[t] # << >> => Tail(wq[t]) \in Seq(SeqNum) /\ Head(wq[t]) \in SeqNum
  BY <1>2, HeadTailFacts
<1>4. wq[t] # << >> => Append(written[t], Head(wq[t])) \in Seq(SeqNum)
  BY <1>2, <1>3, AppendFacts
<1>5. PICK q, w :
         /\ wq' = [wq EXCEPT ![t] = q] /\ written' = [written EXCEPT ![t] = w]
         /\ \/ /\ wq[t] # << >> /\ q = Tail(wq[t])
               /\ w \in {written[t], Append(written[t], Head(wq[t]))}
            \/ q \in {<< >>, wq[t]} /\ w = written[t]
  <2>1. CASE WriterTakes(t)
    BY <2>1 DEF WriterTakes, WriteSucceeds
  <2>2. CASE WriterGivesUp(t)
    <3>1. written' = [written EXCEPT ![t] = written[t]]
      BY <2>2 DEF WriterGivesUp, WriteFails, BaseInv, Types
    <3> QED BY <2>2, <3>1 DEF WriterGivesUp
  <2>3. CASE WriterDrains(t)
    <3>1. written = [written EXCEPT ![t] = written[t]] /\ wq = [wq EXCEPT ![t] = wq[t]]
      BY DEF BaseInv, Types
    <3> QED BY <2>3, <3>1 DEF WriterDrains, WriteSucceeds, WriteFails
  <2> QED BY <2>1, <2>2, <2>3
<1>6. q \in Seq(SeqNum) /\ w \in Seq(SeqNum)
  <2>1. << >> \in Seq(SeqNum)
    OBVIOUS
  <2> QED BY <1>2, <1>3, <1>4, <1>5, <2>1
<1>7. /\ wq' \in [States -> Seq(SeqNum)] /\ written' \in [States -> Seq(SeqNum)]
      /\ wq'[t] = q /\ written'[t] = w
      /\ \A u \in States \ {t} : wq'[u] = wq[u] /\ written'[u] = written[u]
  BY <1>5, <1>6 DEF BaseInv, Types
<1>8. writer' \in [States -> {"none", "run", "drain", "done"}]
  BY DEF BaseInv, Types, WriterTakes, WriterGivesUp, WriterDrains
<1>9. Types'
  BY <1>1, <1>7, <1>8 DEF BaseInv, Types
<1>10. BaseInv'
  BY <1>1, <1>9, ServerUntouched DEF BaseInv, Numbers
<1> QED BY <1>1, <1>5, <1>7, <1>10

\* A client step appends a frame f of connection c to the inboxes of the
\* tunnels in S; the first frame of a connection is its SYN.
FrameSent(c) ==
    \E S \in SUBSET Sources, f \in Frame :
       /\ f.conn = c
       /\ \/ f.flag = "SYN" /\ client[c].seq = 0
          \/ f.flag # "SYN" /\ client[c].seq # 0
       /\ \A s \in S : inbox'[s] = Append(inbox[s], f)
       /\ \A s \in Sources \ S : inbox'[s] = inbox[s]
       /\ client'[c].seq # 0 /\ \A d \in ConnIDs \ {c} : client'[d] = client[d]

LEMMA DataBound == BaseInv => env.data \in Nat /\ env.data + 2 < SeqSpace
BY CentralServerAssumption DEF BaseInv, Numbers

LEMMA ClientSends ==
    ASSUME BaseInv, NEW c \in ConnIDs, UNCHANGED serverVars, UNCHANGED <<alive, env>>,
           NEW S \in SUBSET Sources, NEW g \in {"SYN", "DATA", "FIN", "RST"},
           NEW n \in 0 .. env.data + 1, NEW y \in ClientType,
           inbox' = [s \in Sources |->
                       IF s \in S THEN Append(inbox[s], [conn |-> c, flag |-> g, seq |-> n])
                       ELSE inbox[s]],
           client' = [client EXCEPT ![c] = y], y.seq \in 1 .. env.data + 1,
           \/ g = "SYN" /\ client[c].seq = 0
           \/ g # "SYN" /\ client[c].seq # 0
    PROVE  BaseInv' /\ FrameSent(c)
<1>2. env.data \in Nat /\ env.data + 2 < SeqSpace
  BY DataBound
<1> DEFINE f == [conn |-> c, flag |-> g, seq |-> n]
<1>5. n \in FrameSeq /\ n \in SeqNum
  BY <1>2, SeqSpaceAssumption DEF FrameSeq, SeqNum
<1>6. f \in Frame /\ f.conn = c /\ f.flag = g /\ f.seq = n
  BY <1>5 DEF Frame
<1>7. inbox' = [s \in Sources |-> IF s \in S THEN Append(inbox[s], f) ELSE inbox[s]]
  OBVIOUS
<1> HIDE DEF f
<1>8. \A s \in Sources : inbox[s] \in Seq(Frame)
  BY DEF BaseInv, Types
<1>9. \A s \in Sources : Append(inbox[s], f) \in Seq(Frame)
  BY <1>6, <1>8
<1>10. inbox' \in [Sources -> Seq(Frame)]
  BY <1>7, <1>8, <1>9
<1>11. ASSUME NEW s \in Sources, NEW i \in 1 .. Len(inbox'[s]) PROVE inbox'[s][i].seq \in FrameSeq
  <2>1. \A j \in 1 .. Len(inbox[s]) : inbox[s][j].seq \in FrameSeq
    BY DEF BaseInv, Numbers
  <2>2. CASE s \in S
    <3>1. inbox'[s] = Append(inbox[s], f)
      BY <1>7, <2>2
    <3>2. inbox[s] \in Seq(Frame)
      BY <1>8
    <3>3. /\ Len(Append(inbox[s], f)) = Len(inbox[s]) + 1 /\ Len(inbox[s]) \in Nat
          /\ \A j \in 1 .. Len(inbox[s]) : Append(inbox[s], f)[j] = inbox[s][j]
          /\ Append(inbox[s], f)[Len(inbox[s]) + 1] = f
      BY <3>2
    <3> QED BY <1>5, <1>6, <1>11, <2>1, <3>1, <3>3
  <2>3. CASE s \notin S
    BY <1>7, <1>11, <2>1, <2>3
  <2> QED BY <2>2, <2>3
<1>12. client' \in [ConnIDs -> ClientType] /\ client'[c] = y /\ \A d \in ConnIDs \ {c} : client'[d] = client[d]
  BY DEF BaseInv, Types
<1>13. \A d \in ConnIDs : client'[d].seq \in 0 .. env.data + 1
  BY <1>2, <1>12 DEF BaseInv, Numbers
<1>14. Types'
  BY <1>10, <1>12 DEF BaseInv, Types, serverVars
<1>15. BaseInv'
  BY <1>11, <1>13, <1>14, ServerUntouched DEF serverVars
<1>16. client'[c].seq # 0
  BY <1>2, <1>12
<1>17. /\ f.conn = c
       /\ \/ f.flag = "SYN" /\ client[c].seq = 0
          \/ f.flag # "SYN" /\ client[c].seq # 0
       /\ \A s \in S : inbox'[s] = Append(inbox[s], f)
       /\ \A s \in Sources \ S : inbox'[s] = inbox[s]
       /\ client'[c].seq # 0 /\ \A d \in ConnIDs \ {c} : client'[d] = client[d]
  BY <1>6, <1>7, <1>12, <1>16
<1> QED BY <1>6, <1>15, <1>17 DEF FrameSent

LEMMA ClientSteps ==
    ASSUME BaseInv, NEW c \in ConnIDs, ClientStep(c)
    PROVE  BaseInv' /\ UNCHANGED serverVars /\ UNCHANGED env /\ FrameSent(c)
<1>1. UNCHANGED serverVars /\ UNCHANGED <<alive, env>>
  BY DEF ClientStep, SendSYN, SendData, SendClose
<1>2. /\ client[c] \in ClientType /\ client[c].seq \in 0 .. env.data + 1
      /\ env.data \in Nat /\ env.data + 2 < SeqSpace
  BY DataBound DEF BaseInv, Types, Numbers
<1>3. CASE SendSYN(c)
  <2> DEFINE n == 0
             g == "SYN"
             y == [client[c] EXCEPT !.seq = 1]
  <2>1. y \in ClientType /\ y.seq = 1
    BY <1>2, SeqSpaceAssumption DEF ClientType, SeqNum
  <2>2. client' = [client EXCEPT ![c] = y] /\ client[c].seq = 0
    BY <1>3 DEF SendSYN
  <2>3. PICK S \in SUBSET Sources : inbox' = [s \in Sources |->
              IF s \in S THEN Append(inbox[s], [conn |-> c, flag |-> g, seq |-> n])
              ELSE inbox[s]]
    BY <1>3 DEF SendSYN
  <2>4. n \in 0 .. env.data + 1 /\ 1 \in 1 .. env.data + 1
    BY <1>2
  <2>5. /\ g \in {"SYN", "DATA", "FIN", "RST"} /\ y.seq \in 1 .. env.data + 1
        /\ g = "SYN" /\ client[c].seq = 0
    BY <2>1, <2>2, <2>4
  <2> HIDE DEF y, n, g
  <2> QED BY <1>1, <2>1, <2>2, <2>3, <2>4, <2>5, ClientSends
<1>4. CASE SendData(c)
  <2> DEFINE n == client[c].seq
             y == [client[c] EXCEPT !.seq = n + 1]
  <2>1. client' = [client EXCEPT ![c] = y] /\ n \in 1 .. env.data
    BY <1>4 DEF SendData
  <2>2. n + 1 \in SeqNum /\ n + 1 \in 1 .. env.data + 1 /\ n \in 0 .. env.data + 1 /\ n # 0
    <3> HIDE DEF n
    <3> QED BY <1>2, <2>1, SeqSpaceAssumption DEF SeqNum
  <2>3. y \in ClientType /\ y.seq = n + 1
    BY <1>2, <2>2 DEF ClientType
  <2>4. \E S \in SUBSET Sources : inbox' = [s \in Sources |->
              IF s \in S THEN Append(inbox[s], [conn |-> c, flag |-> "DATA", seq |-> n])
              ELSE inbox[s]]
    <3> DEFINE f == [conn |-> c, flag |-> "DATA", seq |-> n]
    <3>1. inbox = [s \in Sources |-> inbox[s]]
      BY DEF BaseInv, Types
    <3>2. UNCHANGED inbox \/ \E r \in Sources : inbox' = [inbox EXCEPT ![r] = Append(@, f)]
      BY <1>4 DEF SendData
    <3> HIDE DEF f
    <3>3. CASE UNCHANGED inbox
      <4> DEFINE E == {}
      <4>1. E \in SUBSET Sources /\ \A s \in Sources : s \notin E
        OBVIOUS
      <4> HIDE DEF E
      <4>2. inbox' = [s \in Sources |-> IF s \in E THEN Append(inbox[s], f) ELSE inbox[s]]
        BY <3>1, <3>3, <4>1
      <4> QED BY <4>1, <4>2 DEF f
    <3>4. ASSUME NEW r \in Sources, inbox' = [inbox EXCEPT ![r] = Append(@, f)]
          PROVE  \E S \in SUBSET Sources :
                    inbox' = [s \in Sources |-> IF s \in S THEN Append(inbox[s], f) ELSE inbox[s]]
      <4>1. inbox' = [s \in Sources |-> IF s \in {r} THEN Append(inbox[s], f) ELSE inbox[s]]
        BY <3>1, <3>4
      <4> QED BY <4>1
    <3> QED BY <3>2, <3>3, <3>4 DEF f
  <2>5. PICK S \in SUBSET Sources : inbox' = [s \in Sources |->
              IF s \in S THEN Append(inbox[s], [conn |-> c, flag |-> "DATA", seq |-> n])
              ELSE inbox[s]]
    BY <2>4
  <2> HIDE DEF y, n
  <2>6. client[c].seq # 0
    BY <2>2 DEF n
  <2> QED BY <1>1, <2>1, <2>2, <2>3, <2>5, <2>6, ClientSends
<1>5. ASSUME NEW g \in {"FIN", "RST"}, SendClose(c, g) PROVE BaseInv' /\ FrameSent(c)
  <2> DEFINE n == client[c].seq
             y == [client[c] EXCEPT !.closed = TRUE]
  <2>1. n > 0 /\ client' = [client EXCEPT ![c] = y]
    BY <1>5 DEF SendClose
  <2>2. y \in ClientType /\ y.seq = n
    BY <1>2 DEF ClientType
  <2>3. PICK S \in SUBSET Sources : inbox' = [s \in Sources |->
              IF s \in S THEN Append(inbox[s], [conn |-> c, flag |-> g, seq |-> n])
              ELSE inbox[s]]
    BY <1>5 DEF SendClose
  <2>4. n \in 0 .. env.data + 1 /\ n \in 1 .. env.data + 1 /\ client[c].seq # 0
    BY <1>2, <2>1
  <2>5. g \in {"SYN", "DATA", "FIN", "RST"} /\ g # "SYN"
    OBVIOUS
  <2> HIDE DEF y, n
  <2> QED BY <1>1, <2>1, <2>2, <2>3, <2>4, <2>5, ClientSends
<1> QED BY <1>1, <1>3, <1>4, <1>5 DEF ClientStep

\* Handler s has read a frame, counted its connection as served and goes on
\* at the head of the loop or with the frame.
FrameRead(s) ==
    /\ handler[s].pc = "read" /\ inbox[s] # << >>
    /\ inbox'[s] = Tail(inbox[s]) /\ \A r \in Sources \ {s} : inbox'[r] = inbox[r]
    /\ \A r \in Sources \ {s} : handler'[r] = handler[r]
    /\ handler'[s].pc \in {"read", "data", "fin", "delete"}
    /\ handler'[s].lo = 0 /\ handler'[s].hi = 0
    /\ handler'[s].served = handler[s].served \cup {Head(inbox[s]).conn}
    /\ handler'[s].pc # "read" => handler'[s].conn = Head(inbox[s]).conn
    /\ UNCHANGED client

LEMMA ReadFrameFacts ==
    ASSUME BaseInv, NEW s \in Sources, inbox[s] # << >>, inbox' = [inbox EXCEPT ![s] = Tail(@)]
    PROVE  /\ Head(inbox[s]).conn \in ConnIDs /\ Head(inbox[s]).seq \in FrameSeq
           /\ inbox' \in [Sources -> Seq(Frame)]
           /\ inbox'[s] = Tail(inbox[s]) /\ \A r \in Sources \ {s} : inbox'[r] = inbox[r]
           /\ \A r \in Sources : \A i \in 1 .. Len(inbox'[r]) : inbox'[r][i].seq \in FrameSeq
<1>1. inbox[s] \in Seq(Frame)
  BY DEF BaseInv, Types
<1>2. /\ Tail(inbox[s]) \in Seq(Frame) /\ Head(inbox[s]) \in Frame
      /\ Len(inbox[s]) \in Nat \ {0} /\ Len(Tail(inbox[s])) = Len(inbox[s]) - 1
      /\ \A i \in 1 .. Len(inbox[s]) - 1 : Tail(inbox[s])[i] = inbox[s][i + 1]
      /\ Head(inbox[s]) = inbox[s][1]
  BY <1>1, HeadTailProperties
<1>3. /\ inbox' \in [Sources -> Seq(Frame)]
      /\ inbox'[s] = Tail(inbox[s]) /\ \A r \in Sources \ {s} : inbox'[r] = inbox[r]
  BY <1>2 DEF BaseInv, Types
<1>4. \A r \in Sources : \A i \in 1 .. Len(inbox[r]) : inbox[r][i].seq \in FrameSeq
  BY DEF BaseInv, Numbers
<1>5. \A i \in 1 .. Len(Tail(inbox[s])) : Tail(inbox[s])[i].seq \in FrameSeq
  BY <1>2, <1>4
<1>6. 1 \in 1 .. Len(inbox[s]) /\ Head(inbox[s]).conn \in ConnIDs
  BY <1>2 DEF Frame
<1> QED BY <1>2, <1>3, <1>4, <1>5, <1>6

\* The frames that are looked up, or whose ConnID is to be removed.
LEMMA LookupSteps ==
    ASSUME BaseInv, NEW s \in Sources,
           \/ DispatchLookup(s, "DATA", "data") \/ DispatchLookup(s, "FIN", "fin") \/ handleRST(s)
    PROVE  /\ BaseInv' /\ FrameRead(s)
           /\ UNCHANGED <<conns, csLock, st, wq, written, relay, cleaner>>
<1>1. /\ UNCHANGED <<conns, csLock, st, wq, up, written, relay, writer, cleaner, alive, client, env>>
      /\ handler[s].pc = "read" /\ inbox[s] # << >> /\ inbox' = [inbox EXCEPT ![s] = Tail(@)]
  BY DEF DispatchLookup, handleRST, ReadFrame
<1> DEFINE f == Head(inbox[s])
<1>2. /\ f.conn \in ConnIDs /\ f.seq \in FrameSeq /\ inbox' \in [Sources -> Seq(Frame)]
      /\ inbox'[s] = Tail(inbox[s]) /\ \A r \in Sources \ {s} : inbox'[r] = inbox[r]
      /\ \A r \in Sources : \A i \in 1 .. Len(inbox'[r]) : inbox'[r][i].seq \in FrameSeq
  BY <1>1, ReadFrameFacts
<1> HIDE DEF f
<1>3. PICK p \in {"read", "data", "fin", "delete"}, v \in States \cup {Nil} :
         /\ handler' = [handler EXCEPT ![s] = Received(s, p, v)]
         /\ p \in {"data", "fin"} => v = conns[f.conn] /\ v # Nil
  <2>1. CASE handleRST(s)
    BY <2>1 DEF handleRST
  <2>2. ASSUME NEW g, NEW q \in {"data", "fin"}, DispatchLookup(s, g, q)
        PROVE  \E p \in {"read", "data", "fin", "delete"}, v \in States \cup {Nil} :
                  /\ handler' = [handler EXCEPT ![s] = Received(s, p, v)]
                  /\ p \in {"data", "fin"} => v = conns[f.conn] /\ v # Nil
    <3>1. conns[f.conn] \in States \cup {Nil}
      BY <1>2 DEF BaseInv, Types
    <3>2. handler' = [handler EXCEPT ![s] =
                        Received(s, IF conns[f.conn] = Nil THEN "read" ELSE q, conns[f.conn])]
      BY <2>2 DEF DispatchLookup, f
    <3>3. CASE conns[f.conn] = Nil
      <4>1. handler' = [handler EXCEPT ![s] = Received(s, "read", conns[f.conn])]
        BY <3>2, <3>3
      <4> QED BY <3>1, <4>1
    <3>4. CASE conns[f.conn] # Nil
      <4>1. handler' = [handler EXCEPT ![s] = Received(s, q, conns[f.conn])]
        BY <3>2, <3>4
      <4> QED BY <3>1, <3>4, <4>1
    <3> QED BY <3>3, <3>4
  <2> QED BY <2>1, <2>2
<1>4. p \in HandlerPC
  BY HandlerPCs
<1> DEFINE x == Received(s, p, v)
<1>5. /\ x \in HandlerType /\ x.pc = p /\ x.lo = 0 /\ x.hi = 0
      /\ x.served = handler[s].served \cup {f.conn}
      /\ p = "read" => x.conn = Nil /\ x.t = Nil /\ x.seq = 0
      /\ p # "read" => x.conn = f.conn /\ x.t = v /\ x.seq = f.seq
  BY <1>1, <1>4, ReceivedFacts DEF BaseInv, f
<1> HIDE DEF x
<1>6. /\ handler' \in [Sources -> HandlerType] /\ handler'[s] = x
      /\ \A r \in Sources \ {s} : handler'[r] = handler[r]
  BY <1>3, <1>5, SetHandler DEF BaseInv, x
<1>7. HandlerOK(x) /\ x.seq \in FrameSeq
  <2>1. p \in {"data", "fin"} => v \in States /\ st[v].conn = f.conn
    BY <1>2, <1>3 DEF BaseInv, Types, Pointers
  <2>2. x.pc \in {"read", "data", "fin", "delete"}
    BY <1>5
  <2> QED BY <1>2, <1>5, <2>1, <2>2, ZeroSeq DEF HandlerOK
<1>8. FrameRead(s)
  BY <1>1, <1>2, <1>5, <1>6 DEF FrameRead, f
<1>9. StKept
  BY <1>1, StSame
<1>10. Locks'
  BY <1>1, <1>6, <1>8, <1>9, LocksKept DEF FrameRead
<1>11. Types'
  BY <1>1, <1>2, <1>6 DEF BaseInv, Types
<1>12. SomeHandler /\ SomeRelay
  BY <1>1, <1>6, <1>7 DEF SomeHandler, SomeRelay, HandlerMoved
<1>13. BaseInv'
  BY <1>1, <1>2, <1>9, <1>10, <1>11, <1>12, BaseKept DEF BaseInv, Numbers
<1> QED BY <1>1, <1>8, <1>13

\* A SYN adds a source to a connState, or allocates and registers one.
SynAdds(s, v) ==
    /\ conns[Head(inbox[s]).conn] = v
    /\ UNCHANGED <<conns, relay>> /\ ContextsKept
    /\ st'[v].sources = Append(st[v].sources, s)
    /\ \A u \in States \ {v} : st'[u] = st[u]
SynCreates(s, v) ==
    /\ conns[Head(inbox[s]).conn] = Nil
    /\ conns' = [conns EXCEPT ![Head(inbox[s]).conn] = v]
    /\ st[v].conn = Nil /\ st'[v].conn = Head(inbox[s]).conn
    /\ st'[v].sources = <<s>> /\ ~st'[v].cancelled
    /\ \A u \in States \ {v} : st'[u] = st[u] /\ relay'[u] = relay[u]
    /\ relay'[v].pc = "connect" /\ relay'[v].lo = 0 /\ relay'[v].hi = 0

LEMMA SynStep ==
    ASSUME BaseInv, NEW s \in Sources, handleSYN(s)
    PROVE  /\ BaseInv' /\ StKept /\ FrameRead(s) /\ handler'[s].pc = "read"
           /\ Head(inbox[s]).flag = "SYN" /\ Head(inbox[s]).conn \in ConnIDs
           /\ csLock = "free" /\ UNCHANGED <<csLock, wq, written, cleaner>>
           /\ \E v \in States : SynAdds(s, v) \/ SynCreates(s, v)
<1>1. /\ UNCHANGED <<csLock, wq, up, written, writer, cleaner, alive, client, env>>
      /\ handler[s].pc = "read" /\ inbox[s] # << >> /\ inbox' = [inbox EXCEPT ![s] = Tail(@)]
      /\ handler' = [handler EXCEPT ![s] = Received(s, "read", Nil)]
      /\ csLock = "free" /\ Head(inbox[s]).flag = "SYN"
  BY DEF handleSYN, ReadFrame
<1> DEFINE f == Head(inbox[s])
<1>2. /\ f.conn \in ConnIDs /\ f.seq \in FrameSeq /\ inbox' \in [Sources -> Seq(Frame)]
      /\ inbox'[s] = Tail(inbox[s]) /\ \A r \in Sources \ {s} : inbox'[r] = inbox[r]
      /\ \A r \in Sources : \A i \in 1 .. Len(inbox'[r]) : inbox'[r][i].seq \in FrameSeq
  BY <1>1, ReadFrameFacts
<1> DEFINE x == Received(s, "read", Nil)
<1>3. /\ x \in HandlerType /\ x.pc = "read" /\ x.lo = 0 /\ x.hi = 0
      /\ x.served = handler[s].served \cup {f.conn} /\ x.conn = Nil /\ x.t = Nil /\ x.seq = 0
  BY <1>1, HandlerPCs, ReceivedFacts DEF BaseInv
<1> HIDE DEF f, x
<1>4. /\ handler' \in [Sources -> HandlerType] /\ handler'[s] = x
      /\ \A r \in Sources \ {s} : handler'[r] = handler[r]
  BY <1>1, <1>3, SetHandler DEF BaseInv, x
<1>5. HandlerMoved(s)
  BY <1>3, <1>4, ZeroSeq DEF HandlerMoved, HandlerOK
<1>6. FrameRead(s)
  BY <1>1, <1>2, <1>3, <1>4 DEF FrameRead, f
<1>7. \E v \in States :
         /\ SynAdds(s, v) \/ SynCreates(s, v)
         /\ StKept /\ conns' \in [ConnIDs -> States \cup {Nil}] /\ SomeRelay
         /\ relay' \in [States -> RelayType]
         /\ \A c \in ConnIDs : conns'[c] \in {conns[c], Nil} \/ st'[conns'[c]].conn = c
  <2>1. CASE conns[f.conn] # Nil
    <3> DEFINE v == conns[f.conn]
               q == Append(st[v].sources, s)
               y == [st[v] EXCEPT !.sources = q]
    <3>1. v \in States /\ st[v].conn = f.conn
      BY <1>2, <2>1 DEF BaseInv, Types, Pointers
    <3>2. st' = [st EXCEPT ![v] = y] /\ UNCHANGED <<conns, relay>>
      BY <2>1 DEF handleSYN, f
    <3> HIDE DEF v
    <3>3. /\ st[v] \in StateType /\ SaneReorderer(st[v].reord) /\ st[v].sources \in Seq(Sources)
          /\ st[v].reord.nextSeq \in Int /\ (st[v].conn = Nil => st[v].reord.nextSeq = 0)
      BY <3>1, StFields DEF BaseInv, Numbers, Pointers
    <3>4. q \in Seq(Sources)
      BY <3>3
    <3> HIDE DEF q
    <3>5. /\ y \in StateType /\ y.conn = st[v].conn /\ y.cancelled = st[v].cancelled
          /\ y.sources = q /\ y.reord = st[v].reord
      BY <3>3, <3>4 DEF StateType
    <3> HIDE DEF y
    <3>6. st[v].reord.nextSeq <= y.reord.nextSeq /\ SaneReorderer(y.reord)
      BY <3>3, <3>5
    <3>7. StKept /\ st'[v] = y /\ \A u \in States \ {v} : st'[u] = st[u]
      BY <3>1, <3>2, <3>3, <3>5, <3>6, StSet
    <3>8. ContextsKept
      BY <3>1, <3>5, <3>7 DEF ContextsKept
    <3>9. SynAdds(s, v)
      BY <3>2, <3>5, <3>7, <3>8 DEF SynAdds, f, v, q
    <3> QED BY <3>1, <3>2, <3>7, <3>9 DEF BaseInv, Types, SomeRelay
  <2>2. CASE conns[f.conn] = Nil
    <3>1. PICK v \in States :
             /\ st[v].conn = Nil /\ st' = [st EXCEPT ![v] = NewState(f.conn, s, f.seq + 1)]
             /\ conns' = [conns EXCEPT ![f.conn] = v]
             /\ relay' = [relay EXCEPT ![v].pc = "connect"]
      BY <2>2 DEF handleSYN, FreshState, f
    <3> DEFINE r == NewReordererAt(f.seq + 1)
               y == NewState(f.conn, s, f.seq + 1)
               z == [relay[v] EXCEPT !.pc = "connect"]
    <3>2. f.seq + 1 \in SeqNum /\ f.seq + 1 >= 0
      BY <1>2, SeqSpaceAssumption DEF FrameSeq, SeqNum
    <3>3. /\ r \in ReordererType /\ SaneReorderer(r) /\ r.nextSeq = f.seq + 1
      BY <3>2 DEF NewReordererAt, ReordererType, Timer, SaneReorderer
    <3>4. /\ y.conn = f.conn /\ y.reord = r /\ y.sources = <<s>> /\ ~y.cancelled
          /\ y \in StateType
      <4>1. <<s>> \in Seq(Sources) /\ 0 \in 0 .. MaxReverse /\ 0 \in 0 .. 2
        BY CentralServerAssumption
      <4> HIDE DEF r
      <4> QED BY <1>2, <3>3, <4>1 DEF NewState, StateType, r
    <3>5. st[v].reord.nextSeq = 0 /\ f.conn # Nil
      BY <1>2, <3>1, NilNot DEF BaseInv, Pointers
    <3>6. st[v].reord.nextSeq <= y.reord.nextSeq
      BY <3>2, <3>3, <3>4, <3>5
    <3> HIDE DEF y, r
    <3>7. StKept /\ st'[v] = y /\ \A u \in States \ {v} : st'[u] = st[u]
      <4>1. st' = [st EXCEPT ![v] = y]
        BY <3>1 DEF y
      <4> QED BY <3>1, <3>3, <3>4, <3>5, <3>6, <4>1, StSet
    <3>8. relay[v] \in RelayType /\ relay[v].lo = 0 /\ relay[v].hi = 0
      <4>1. relay[v] \in RelayType /\ RelayOK(v, relay[v])
        BY DEF BaseInv, Types, Pointers
      <4> QED BY <3>1, <4>1, NilNot DEF RelayOK
    <3>9. z \in RelayType /\ z.pc = "connect" /\ z.lo = 0 /\ z.hi = 0
      BY <3>8, RelayPCs DEF RelayType
    <3> HIDE DEF z
    <3>10. /\ relay' \in [States -> RelayType] /\ relay'[v] = z
           /\ \A u \in States \ {v} : relay'[u] = relay[u]
      <4>1. relay' = [relay EXCEPT ![v] = z]
        BY <3>1 DEF z
      <4> QED BY <3>9, <4>1, SetRelay DEF BaseInv
    <3>11. RelayOK(v, relay[v])'
      BY <1>2, <3>4, <3>7, <3>9, <3>10 DEF RelayOK
    <3>12. RelayMoved(v)
      BY <3>10, <3>11 DEF RelayMoved
    <3>13. SynCreates(s, v)
      BY <2>2, <3>1, <3>4, <3>7, <3>9, <3>10 DEF SynCreates, f
    <3>14. /\ conns' \in [ConnIDs -> States \cup {Nil}] /\ conns'[f.conn] = v
           /\ \A c \in ConnIDs \ {f.conn} : conns'[c] = conns[c]
      BY <1>2, <3>1 DEF BaseInv, Types
    <3>15. \A c \in ConnIDs : conns'[c] \in {conns[c], Nil} \/ st'[conns'[c]].conn = c
      BY <3>4, <3>7, <3>14
    <3> QED BY <3>7, <3>10, <3>12, <3>13, <3>14, <3>15 DEF SomeRelay
  <2> QED BY <2>1, <2>2
<1>8. Locks'
  BY <1>1, <1>4, <1>3, <1>7, LocksKept
<1>9. Types'
  BY <1>1, <1>2, <1>4, <1>7 DEF BaseInv, Types, StKept
<1>10. BaseInv'
  BY <1>1, <1>2, <1>5, <1>7, <1>8, <1>9, BaseKept DEF BaseInv, Numbers, SomeHandler
<1> QED BY <1>1, <1>2, <1>3, <1>4, <1>6, <1>7, <1>10 DEF f

\* What handler s takes out of the reorderer of its connState was not below
\* nextSeq, and is below it afterwards.
BatchTaken(s) ==
    \/ handler'[s].lo = 0 /\ handler'[s].hi = 0
    \/ /\ handler'[s].t = handler[s].t
       /\ st[handler[s].t].reord.nextSeq <= handler'[s].lo
       /\ handler'[s].hi <= st'[handler[s].t].reord.nextSeq

\* A handler step after which only its own locals and its connState differ.
HandlerLocal(s) ==
    /\ BaseInv' /\ StKept /\ ContextsKept
    /\ UNCHANGED <<conns, csLock, wq, written, relay, cleaner, inbox, client, env>>
    /\ \A r \in Sources \ {s} : handler'[r] = handler[r]
    /\ \A u \in States \ {handler[s].t} : st'[u] = st[u]
    /\ handler'[s].served = handler[s].served

\* What suffices for a step of handler s under state.mu, or without a lock.
LEMMA HandlerLocalBase ==
    ASSUME BaseInv, NEW s \in Sources, StKept, HandlerMoved(s),
           handler[s].pc \notin {"cleanup", "orphan"},
           handler'[s].pc \notin {"cleanup", "orphan"},
           wq' \in [States -> Seq(SeqNum)],
           UNCHANGED <<conns, csLock, up, written, relay, writer, cleaner, envVars>>
    PROVE  BaseInv'
<1>1. Locks'
  BY LocksKept DEF HandlerMoved
<1>2. Types'
  BY DEF BaseInv, Types, StKept, HandlerMoved, envVars
<1> QED BY <1>1, <1>2, BaseKept DEF BaseInv, Numbers, SomeHandler, SomeRelay, envVars

LEMMA DataStep ==
    ASSUME BaseInv, NEW s \in Sources, handleData(s)
    PROVE  /\ HandlerLocal(s) /\ BatchTaken(s)
           /\ handler[s].pc = "data" /\ handler[s].t \in States
           /\ st[handler[s].t].conn = handler[s].conn
           /\ handler'[s].pc \in {"read", "push"}
           /\ st'[handler[s].t].sources = IF s \in ToSet(st[handler[s].t].sources)
                                          THEN st[handler[s].t].sources
                                          ELSE Append(st[handler[s].t].sources, s)
<1> DEFINE h == handler[s]
           v == h.t
           r == Insert(st[v].reord, h.seq)
           q == IF s \in ToSet(st[v].sources) THEN st[v].sources ELSE Append(st[v].sources, s)
<1>1. /\ h.pc = "data" /\ v \in States /\ st[v].conn = h.conn /\ h.conn \in ConnIDs
      /\ h.seq \in FrameSeq
  BY DEF handleData, BaseInv, Pointers, HandlerOK, Numbers
<1>2. UNCHANGED <<conns, csLock, wq, up, written, relay, writer, cleaner, envVars>>
  BY DEF handleData
<1>3. \/ /\ st' = [st EXCEPT ![v].reord = r, ![v].sources = q, ![v].idle = FALSE]
         /\ Goto(s, "read")
      \/ /\ st' = [st EXCEPT ![v].reord = Drain(r), ![v].sources = q, ![v].idle = FALSE]
         /\ GotoPush(s, "push", "read", DrainFrom(r), DrainTo(r))
  BY DEF handleData
<1> HIDE DEF v, r, q
<1>4. /\ st[v] \in StateType /\ SaneReorderer(st[v].reord) /\ st[v].sources \in Seq(Sources)
      /\ st[v].reord \in ReordererType /\ st[v].reord.nextSeq \in Int
      /\ (st[v].conn = Nil => st[v].reord.nextSeq = 0)
  BY <1>1, StFields DEF BaseInv, Numbers, Pointers
<1>5. r \in ReordererType /\ SaneReorderer(r) /\ r.nextSeq = st[v].reord.nextSeq
  BY <1>1, <1>4, InsertSpec DEF r
<1>6. q \in Seq(Sources)
  BY <1>4 DEF q
<1>7. /\ DrainFrom(r) \in SeqNum /\ DrainTo(r) \in SeqNum
      /\ r.nextSeq <= DrainFrom(r) /\ DrainFrom(r) <= DrainTo(r)
      /\ Drain(r) \in ReordererType /\ SaneReorderer(Drain(r)) /\ Drain(r).nextSeq = DrainTo(r)
  BY <1>5, DrainRange, DrainSpec
<1>8. ASSUME NEW rr \in {r, Drain(r)},
             st' = [st EXCEPT ![v].reord = rr, ![v].sources = q, ![v].idle = FALSE]
      PROVE  /\ StKept /\ ContextsKept /\ \A u \in States \ {v} : st'[u] = st[u]
             /\ st'[v].reord = rr /\ st'[v].sources = q
  <2> DEFINE x == [st[v] EXCEPT !.reord = rr, !.sources = q, !.idle = FALSE]
  <2>1. rr \in ReordererType /\ SaneReorderer(rr) /\ st[v].reord.nextSeq <= rr.nextSeq
    <3>1. DrainTo(r) \in Int /\ DrainFrom(r) \in Int
      BY <1>7, SeqSpaceAssumption DEF SeqNum
    <3>2. r.nextSeq <= DrainTo(r)
      BY <1>4, <1>5, <1>7, <3>1
    <3> QED BY <1>4, <1>5, <1>7, <3>2
  <2>2. st' = [st EXCEPT ![v] = x]
    BY <1>8
  <2>3. /\ x \in StateType /\ x.conn = st[v].conn /\ x.cancelled = st[v].cancelled
        /\ x.sources = q /\ x.reord = rr
    BY <1>4, <1>6, <2>1 DEF StateType
  <2>4. x.conn # Nil
    BY <1>1, <2>3, NilNot
  <2> HIDE DEF x
  <2>5. StKept /\ st'[v] = x /\ \A u \in States \ {v} : st'[u] = st[u]
    BY <1>1, <2>1, <2>2, <2>3, <2>4, StSet
  <2> QED BY <1>1, <2>3, <2>5 DEF ContextsKept
<1>9. StKept /\ ContextsKept /\ (\A u \in States \ {v} : st'[u] = st[u]) /\ st'[v].sources = q
  BY <1>3, <1>8
<1>10. /\ handler' \in [Sources -> HandlerType]
       /\ \A u \in Sources \ {s} : handler'[u] = handler[u]
       /\ handler'[s].served = handler[s].served
       /\ handler'[s].pc \in {"read", "push"}
       /\ handler'[s].seq \in FrameSeq
       /\ handler'[s].pc = "push" =>
             /\ handler'[s].conn = h.conn /\ handler'[s].t = v
             /\ handler'[s].lo < handler'[s].hi
             /\ r.nextSeq <= handler'[s].lo /\ handler'[s].hi = st'[v].reord.nextSeq
       /\ handler'[s].pc = "read" => handler'[s].lo = 0 /\ handler'[s].hi = 0
  <2>1. CASE Goto(s, "read")
    BY <2>1, GotoFacts, HandlerPCs, ZeroSeq DEF BaseInv
  <2>2. CASE ~Goto(s, "read")
    <3>1. GotoPush(s, "push", "read", DrainFrom(r), DrainTo(r)) /\ st'[v].reord = Drain(r)
      BY <1>3, <1>8, <2>2
    <3>2. "push" \in HandlerPC \ {"read"} /\ "read" \in HandlerPC
      BY HandlerPCs
    <3>3. /\ handler' \in [Sources -> HandlerType]
          /\ \A u \in Sources \ {s} : handler'[u] = handler[u]
          /\ handler'[s].served = handler[s].served
          /\ handler'[s].pc \in {"read", "push"}
          /\ IF handler'[s].pc = "read" THEN handler'[s].seq = 0
             ELSE /\ handler'[s].conn = handler[s].conn /\ handler'[s].t = handler[s].t
                  /\ handler'[s].seq = handler[s].seq
          /\ \/ handler'[s].pc = "read" /\ handler'[s].lo = 0 /\ handler'[s].hi = 0
             \/ /\ DrainFrom(r) < DrainTo(r) /\ handler'[s].pc = "push"
                /\ handler'[s].lo = DrainFrom(r) /\ handler'[s].hi = DrainTo(r)
      BY <1>7, <3>1, <3>2, GotoPushFacts DEF BaseInv
    <3> QED BY <1>1, <1>7, <3>1, <3>3, ZeroSeq DEF v
  <2> QED BY <2>1, <2>2
<1>11. HandlerMoved(s)
  <2>1. HandlerOK(handler'[s])
    BY <1>1, <1>10 DEF HandlerOK
  <2> QED BY <1>10, <2>1 DEF HandlerMoved
<1>12. BaseInv'
  <2>1. wq' \in [States -> Seq(SeqNum)]
    BY <1>2 DEF BaseInv, Types
  <2> QED BY <1>1, <1>2, <1>9, <1>10, <1>11, <2>1, HandlerLocalBase
<1>13. HandlerLocal(s)
  BY <1>2, <1>9, <1>10, <1>12 DEF HandlerLocal, envVars, v
<1>14. BatchTaken(s)
  <2>1. CASE handler'[s].pc = "read"
    BY <1>10, <2>1 DEF BatchTaken
  <2>2. CASE handler'[s].pc = "push"
    <3>1. handler'[s].hi \in Int
      BY <1>10, SeqSpaceAssumption DEF HandlerType, SeqNum
    <3>2. handler'[s].hi <= st'[v].reord.nextSeq
      BY <1>10, <2>2, <3>1
    <3> QED BY <1>5, <1>10, <2>2, <3>2 DEF BatchTaken, v
  <2> QED BY <1>10, <2>1, <2>2
<1> QED BY <1>1, <1>9, <1>10, <1>13, <1>14 DEF v, q

LEMMA FinStep ==
    ASSUME BaseInv, NEW s \in Sources, handleFIN(s)
    PROVE  /\ HandlerLocal(s) /\ BatchTaken(s) /\ SourcesShrink
           /\ handler[s].pc = "fin" /\ handler[s].t \in States
           /\ handler'[s].pc \in {"finPush", "delete"}
<1> DEFINE h == handler[s]
           v == h.t
           r == st[v].reord
<1>1. /\ h.pc = "fin" /\ v \in States /\ st[v].conn = h.conn /\ h.conn \in ConnIDs
      /\ h.seq \in FrameSeq
  BY DEF handleFIN, BaseInv, Pointers, HandlerOK, Numbers
<1>2. UNCHANGED <<conns, csLock, wq, up, written, relay, writer, cleaner, envVars>>
  BY DEF handleFIN
<1>3. \/ UNCHANGED st /\ Goto(s, "delete")
      \/ /\ st' = [st EXCEPT ![v].reord = Drain(r), ![v].writeCh = FALSE]
         /\ GotoPush(s, "finPush", "delete", DrainFrom(r), DrainTo(r))
  BY DEF handleFIN
<1> HIDE DEF v, r
<1>4. /\ st[v] \in StateType /\ SaneReorderer(r) /\ r \in ReordererType /\ r.nextSeq \in Int
  BY <1>1, StFields DEF BaseInv, Numbers, Pointers, r
<1>5. /\ DrainFrom(r) \in SeqNum /\ DrainTo(r) \in SeqNum
      /\ r.nextSeq <= DrainFrom(r) /\ DrainFrom(r) <= DrainTo(r)
      /\ Drain(r) \in ReordererType /\ SaneReorderer(Drain(r)) /\ Drain(r).nextSeq = DrainTo(r)
  BY <1>4, DrainRange, DrainSpec
<1>6. /\ StKept /\ ContextsKept /\ SourcesShrink /\ \A u \in States \ {v} : st'[u] = st[u]
      /\ (UNCHANGED st /\ Goto(s, "delete")) \/ st'[v].reord = Drain(r)
  <2>1. CASE UNCHANGED st /\ Goto(s, "delete")
    BY <2>1, StCalm
  <2>2. CASE st' = [st EXCEPT ![v].reord = Drain(r), ![v].writeCh = FALSE]
    <3> DEFINE x == [st[v] EXCEPT !.reord = Drain(r), !.writeCh = FALSE]
    <3>1. r.nextSeq <= Drain(r).nextSeq
      <4>1. DrainTo(r) \in Int /\ DrainFrom(r) \in Int
        BY <1>5, SeqSpaceAssumption DEF SeqNum
      <4> QED BY <1>4, <1>5, <4>1
    <3>2. st' = [st EXCEPT ![v] = x]
      BY <2>2
    <3>3. /\ x \in StateType /\ x.conn = st[v].conn /\ x.cancelled = st[v].cancelled
          /\ x.sources = st[v].sources /\ x.reord = Drain(r)
      BY <1>4, <1>5 DEF StateType
    <3>4. x.conn # Nil
      BY <1>1, <3>3, NilNot
    <3> HIDE DEF x
    <3>5. StKept /\ st'[v] = x /\ \A u \in States \ {v} : st'[u] = st[u]
      BY <1>1, <1>5, <3>1, <3>2, <3>3, <3>4, StSet DEF r
    <3> QED BY <1>1, <3>3, <3>5 DEF ContextsKept, SourcesShrink
  <2> QED BY <1>3, <2>1, <2>2
<1>7. /\ handler' \in [Sources -> HandlerType]
      /\ \A u \in Sources \ {s} : handler'[u] = handler[u]
      /\ handler'[s].served = handler[s].served
      /\ handler'[s].pc \in {"finPush", "delete"}
      /\ handler'[s].conn = h.conn /\ handler'[s].t = v /\ handler'[s].seq = h.seq
      /\ handler'[s].pc = "finPush" =>
            /\ handler'[s].lo < handler'[s].hi
            /\ r.nextSeq <= handler'[s].lo /\ handler'[s].hi = st'[v].reord.nextSeq
      /\ handler'[s].pc = "delete" => handler'[s].lo = 0 /\ handler'[s].hi = 0
  <2>1. CASE Goto(s, "delete")
    BY <2>1, GotoFacts, HandlerPCs DEF BaseInv, v
  <2>2. CASE ~Goto(s, "delete")
    <3>1. GotoPush(s, "finPush", "delete", DrainFrom(r), DrainTo(r)) /\ st'[v].reord = Drain(r)
      BY <1>3, <1>6, <2>2
    <3>2. "finPush" \in HandlerPC \ {"read"} /\ "delete" \in HandlerPC
      BY HandlerPCs
    <3>3. /\ handler' \in [Sources -> HandlerType]
          /\ \A u \in Sources \ {s} : handler'[u] = handler[u]
          /\ handler'[s].served = handler[s].served
          /\ handler'[s].pc \in {"finPush", "delete"}
          /\ handler'[s].conn = handler[s].conn /\ handler'[s].t = handler[s].t
          /\ handler'[s].seq = handler[s].seq
          /\ \/ handler'[s].pc = "delete" /\ handler'[s].lo = 0 /\ handler'[s].hi = 0
             \/ /\ DrainFrom(r) < DrainTo(r) /\ handler'[s].pc = "finPush"
                /\ handler'[s].lo = DrainFrom(r) /\ handler'[s].hi = DrainTo(r)
      BY <1>5, <3>1, <3>2, GotoPushFacts DEF BaseInv
    <3> QED BY <1>1, <1>5, <3>1, <3>3 DEF v
  <2> QED BY <2>1, <2>2
<1>8. HandlerMoved(s)
  <2>1. HandlerOK(handler'[s])
    BY <1>1, <1>7 DEF HandlerOK
  <2> QED BY <1>1, <1>7, <2>1 DEF HandlerMoved
<1>9. BaseInv'
  <2>1. wq' \in [States -> Seq(SeqNum)]
    BY <1>2 DEF BaseInv, Types
  <2> QED BY <1>1, <1>2, <1>6, <1>7, <1>8, <2>1, HandlerLocalBase
<1>10. HandlerLocal(s)
  BY <1>2, <1>6, <1>7, <1>9 DEF HandlerLocal, envVars, v
<1>11. BatchTaken(s)
  <2>1. CASE handler'[s].pc = "delete"
    BY <1>7, <2>1 DEF BatchTaken
  <2>2. CASE handler'[s].pc = "finPush"
    <3>1. handler'[s].hi \in Int
      BY <1>7, SeqSpaceAssumption DEF HandlerType, SeqNum
    <3>2. handler'[s].hi <= st'[v].reord.nextSeq
      BY <1>7, <2>2, <3>1
    <3> QED BY <1>7, <2>2, <3>2 DEF BatchTaken, v, r
  <2> QED BY <1>7, <2>1, <2>2
<1> QED BY <1>1, <1>6, <1>7, <1>10, <1>11 DEF v

\* select { case writeCh <- data: default: }
LEMMA EnqueueFacts ==
    ASSUME NEW q \in Seq(SeqNum), NEW n \in SeqNum
    PROVE  Enqueue(q, n) \in Seq(SeqNum) /\ Enqueue(q, n) \in {q, Append(q, n)}
BY AppendFacts DEF Enqueue

\* The lowest chunk of a batch goes to the queue or is dropped.
LEMMA PushStep ==
    ASSUME BaseInv, NEW s \in Sources, PushChunk(s)
    PROVE  /\ BaseInv'
           /\ UNCHANGED <<conns, csLock, st, written, relay, cleaner, inbox, client, env>>
           /\ handler[s].pc \in {"push", "finPush"} /\ handler[s].t \in States
           /\ handler[s].lo \in SeqNum /\ handler[s].lo < handler[s].hi
           /\ wq'[handler[s].t] \in {wq[handler[s].t], Append(wq[handler[s].t], handler[s].lo)}
           /\ \A u \in States \ {handler[s].t} : wq'[u] = wq[u]
           /\ \A r \in Sources \ {s} : handler'[r] = handler[r]
           /\ handler'[s].served = handler[s].served
           /\ handler'[s].pc \in {"push", "finPush", "read", "delete"}
           /\ \/ handler'[s].lo = 0 /\ handler'[s].hi = 0
              \/ /\ handler'[s].t = handler[s].t /\ handler'[s].hi = handler[s].hi
                 /\ handler'[s].lo = handler[s].lo + 1
<1> DEFINE h == handler[s]
           v == h.t
           p == h.pc
           exit == IF h.pc = "push" THEN "read" ELSE "delete"
<1>1. /\ p \in {"push", "finPush"} /\ v \in States /\ st[v].conn = h.conn /\ h.conn \in ConnIDs
      /\ h.seq \in FrameSeq /\ h.lo < h.hi
  BY DEF PushChunk, BaseInv, Pointers, HandlerOK, Numbers
<1>2. UNCHANGED <<conns, csLock, st, up, written, relay, writer, cleaner, envVars>>
  BY DEF PushChunk
<1>3. wq' = [wq EXCEPT ![v] = Enqueue(@, h.lo)] /\ GotoPush(s, p, exit, h.lo + 1, h.hi)
  BY DEF PushChunk
<1>4. h.lo \in SeqNum /\ h.hi \in SeqNum
  BY DEF BaseInv, Types, HandlerType
<1>5. h.lo + 1 \in SeqNum /\ h.lo + 1 <= h.hi
  BY <1>1, <1>4, SeqSpaceAssumption DEF SeqNum
<1>6. /\ exit \in {"read", "delete"} /\ exit \in HandlerPC /\ p \in HandlerPC \ {"read"}
      /\ p = "finPush" => exit = "delete"
  BY <1>1, HandlerPCs
<1>7. v \in States /\ wq[v] \in Seq(SeqNum)
  BY <1>1 DEF BaseInv, Types
<1> HIDE DEF v, p, exit
<1>8. /\ wq' \in [States -> Seq(SeqNum)] /\ wq'[v] \in {wq[v], Append(wq[v], h.lo)}
      /\ \A u \in States \ {v} : wq'[u] = wq[u]
  <2>1. Enqueue(wq[v], h.lo) \in Seq(SeqNum) /\ Enqueue(wq[v], h.lo) \in {wq[v], Append(wq[v], h.lo)}
    BY <1>4, <1>7, EnqueueFacts
  <2> QED BY <1>3, <1>7, <2>1 DEF BaseInv, Types
<1>9. /\ handler' \in [Sources -> HandlerType]
      /\ \A u \in Sources \ {s} : handler'[u] = handler[u]
      /\ handler'[s].served = handler[s].served
      /\ handler'[s].pc \in {p, exit}
      /\ IF handler'[s].pc = "read"
         THEN handler'[s].conn = Nil /\ handler'[s].t = Nil /\ handler'[s].seq = 0
         ELSE /\ handler'[s].conn = h.conn /\ handler'[s].t = v /\ handler'[s].seq = h.seq
      /\ \/ handler'[s].pc = exit /\ handler'[s].lo = 0 /\ handler'[s].hi = 0
         \/ /\ h.lo + 1 < h.hi /\ handler'[s].pc = p /\ handler'[s].lo = h.lo + 1
            /\ handler'[s].hi = h.hi
  BY <1>3, <1>4, <1>5, <1>6, GotoPushFacts DEF BaseInv, v
<1>10. HandlerOK(handler'[s]) /\ handler'[s].seq \in FrameSeq
  BY <1>1, <1>6, <1>9, ZeroSeq DEF HandlerOK
<1>11. HandlerMoved(s)
  BY <1>9, <1>10 DEF HandlerMoved
<1>12. BaseInv'
  <2>1. StKept
    BY <1>2, StSame
  <2>2. handler[s].pc \notin {"cleanup", "orphan"} /\ handler'[s].pc \notin {"cleanup", "orphan"}
    BY <1>1, <1>6, <1>9 DEF p
  <2> QED BY <1>2, <1>8, <1>11, <2>1, <2>2, HandlerLocalBase
<1>13. handler'[s].pc \in {"push", "finPush", "read", "delete"}
  BY <1>1, <1>6, <1>9
<1>14. \/ handler'[s].lo = 0 /\ handler'[s].hi = 0
       \/ /\ handler'[s].t = v /\ handler'[s].hi = h.hi
          /\ handler'[s].lo = h.lo + 1
  BY <1>1, <1>6, <1>9
<1> QED BY <1>1, <1>2, <1>4, <1>8, <1>9, <1>12, <1>13, <1>14 DEF v, p, envVars

\* removeConn, under cs.mu: a ConnID is forgotten.
Forgotten(c) ==
    /\ conns' \in [ConnIDs -> States \cup {Nil}]
    /\ conns'[c] = Nil /\ \A d \in ConnIDs \ {c} : conns'[d] = conns[d]
    /\ StKept /\ SourcesShrink

LEMMA RemoveFacts ==
    ASSUME BaseInv, NEW c \in ConnIDs, removeConnDelete(c)
    PROVE  csLock = "free" /\ Forgotten(c) /\ ContextsKept
<1>1. csLock = "free" /\ conns' = [conns EXCEPT ![c] = Nil]
  BY DEF removeConnDelete
<1>2. /\ conns' \in [ConnIDs -> States \cup {Nil}]
      /\ conns'[c] = Nil /\ \A d \in ConnIDs \ {c} : conns'[d] = conns[d]
  BY <1>1 DEF BaseInv, Types
<1>3. StKept /\ SourcesShrink /\ ContextsKept
  <2>1. CASE conns[c] = Nil
    <3>1. UNCHANGED st
      BY <2>1 DEF removeConnDelete
    <3> QED BY <3>1, StCalm
  <2>2. CASE conns[c] # Nil
    <3> DEFINE v == conns[c]
               x == [st[v] EXCEPT !.gone = "removeConn"]
    <3>1. v \in States
      BY <2>2 DEF BaseInv, Types
    <3>2. st' = [st EXCEPT ![v] = x]
      BY <2>2 DEF removeConnDelete
    <3> HIDE DEF v
    <3>3. st[v] \in StateType /\ SaneReorderer(st[v].reord)
      BY <3>1, StFields DEF BaseInv, Numbers
    <3>4. /\ x \in StateType /\ x.conn = st[v].conn /\ x.cancelled = st[v].cancelled
          /\ x.sources = st[v].sources /\ x.reord = st[v].reord
      BY <3>3 DEF StateType
    <3> HIDE DEF x
    <3> QED BY <3>1, <3>2, <3>3, <3>4, StTouched
  <2> QED BY <2>1, <2>2
<1> QED BY <1>1, <1>2, <1>3 DEF Forgotten

\* removeConn, cs.mu released: the context of v is cancelled.
Cancelled(v) ==
    /\ st'[v].cancelled /\ st'[v].conn = st[v].conn
    /\ \A u \in States \ {v} : st'[u] = st[u]
    /\ StKept /\ SourcesShrink

LEMMA CancelFacts ==
    ASSUME BaseInv, NEW v \in States, st[v].conn \in ConnIDs, removeConnCancel(v)
    PROVE  Cancelled(v)
<1> DEFINE x == [st[v] EXCEPT !.cancelled = TRUE]
<1>1. st' = [st EXCEPT ![v] = x]
  BY DEF removeConnCancel
<1>2. st[v] \in StateType /\ SaneReorderer(st[v].reord) /\ st[v].reord.nextSeq \in Int
  BY StFields DEF BaseInv, Numbers
<1>3. /\ x \in StateType /\ x.conn = st[v].conn /\ x.cancelled
      /\ x.sources = st[v].sources /\ x.reord = st[v].reord
  BY <1>2 DEF StateType
<1> HIDE DEF x
<1>4. st[v].reord.nextSeq <= x.reord.nextSeq /\ SaneReorderer(x.reord) /\ x.conn # Nil
  BY <1>2, <1>3, NilNot
<1>5. StKept /\ st'[v] = x /\ \A u \in States \ {v} : st'[u] = st[u]
  BY <1>1, <1>3, <1>4, StSet
<1> QED BY <1>3, <1>5 DEF Cancelled, SourcesShrink

\* Handler s removes a ConnID.
LEMMA HandlerDeleteStep ==
    ASSUME BaseInv, NEW s \in Sources, HandlerDelete(s)
    PROVE  /\ BaseInv' /\ csLock = "free" /\ handler[s].conn \in ConnIDs
           /\ Forgotten(handler[s].conn) /\ ContextsKept
           /\ handler[s].pc = "delete"
           /\ UNCHANGED <<csLock, wq, written, relay, cleaner, inbox, client, env>>
           /\ \A r \in Sources \ {s} : handler'[r] = handler[r]
           /\ handler'[s].served = handler[s].served
           /\ handler'[s].lo = 0 /\ handler'[s].hi = 0
           /\ IF conns[handler[s].conn] = Nil THEN handler'[s].pc = "read"
              ELSE /\ handler'[s].pc = "cancel" /\ handler'[s].conn = handler[s].conn
                   /\ handler'[s].t = conns[handler[s].conn]
<1> DEFINE h == handler[s]
           c == h.conn
           v == conns[c]
<1>1. h.pc = "delete" /\ c \in ConnIDs /\ h.seq \in FrameSeq /\ h.lo = 0 /\ h.hi = 0
  BY DEF HandlerDelete, BaseInv, Pointers, HandlerOK, Numbers
<1>2. UNCHANGED <<csLock, wq, up, written, relay, writer, cleaner, envVars>>
  BY DEF HandlerDelete
<1>3. csLock = "free" /\ Forgotten(c) /\ ContextsKept
  BY <1>1, RemoveFacts DEF HandlerDelete
<1>4. v \in States \cup {Nil} /\ (v # Nil => st[v].conn = c)
  BY <1>1 DEF BaseInv, Types, Pointers
<1>5. IF v = Nil THEN Goto(s, "read")
      ELSE handler' = [handler EXCEPT ![s].pc = "cancel", ![s].t = v]
  BY DEF HandlerDelete
<1> HIDE DEF v, c
<1>6. /\ handler' \in [Sources -> HandlerType]
      /\ \A r \in Sources \ {s} : handler'[r] = handler[r]
      /\ handler'[s].served = handler[s].served
      /\ handler'[s].lo = 0 /\ handler'[s].hi = 0 /\ handler'[s].seq \in FrameSeq
      /\ IF v = Nil THEN handler'[s].pc = "read"
         ELSE handler'[s].pc = "cancel" /\ handler'[s].conn = c /\ handler'[s].t = v
  <2>1. CASE v = Nil
    BY <1>5, <2>1, GotoFacts, HandlerPCs, ZeroSeq DEF BaseInv
  <2>2. CASE v # Nil
    <3> DEFINE x == [handler[s] EXCEPT !.pc = "cancel", !.t = v]
    <3>1. handler' = [handler EXCEPT ![s] = x] /\ handler[s] \in HandlerType
      BY <1>5, <2>2 DEF BaseInv, Types
    <3>2. /\ x \in HandlerType /\ x.pc = "cancel" /\ x.t = v /\ x.conn = handler[s].conn
          /\ x.seq = handler[s].seq /\ x.lo = handler[s].lo /\ x.hi = handler[s].hi
          /\ x.served = handler[s].served
      BY <1>4, <3>1, HandlerPCs DEF HandlerType
    <3> HIDE DEF x
    <3> QED BY <1>1, <2>2, <3>1, <3>2, SetHandler DEF BaseInv, c
  <2> QED BY <2>1, <2>2
<1>7. HandlerOK(handler'[s])
  BY <1>1, <1>4, <1>6 DEF HandlerOK
<1>8. Locks'
  BY <1>1, <1>2, <1>3, <1>6, LocksKept DEF Forgotten
<1>9. Types'
  BY <1>2, <1>3, <1>6 DEF BaseInv, Types, Forgotten, StKept, envVars
<1>10. BaseInv'
  <2>1. SomeHandler
    BY <1>6, <1>7 DEF SomeHandler, HandlerMoved
  <2>2. \A d \in ConnIDs : conns'[d] \in {conns[d], Nil}
    BY <1>3 DEF Forgotten
  <2> QED BY <1>2, <1>3, <1>8, <1>9, <2>1, <2>2, BaseKept
          DEF BaseInv, Numbers, Forgotten, SomeRelay, envVars
<1> QED BY <1>1, <1>2, <1>3, <1>6, <1>10 DEF v, c, envVars

LEMMA HandlerCancelStep ==
    ASSUME BaseInv, NEW s \in Sources, HandlerCancel(s)
    PROVE  /\ BaseInv' /\ Cancelled(handler[s].t) /\ handler[s].t \in States
           /\ handler[s].pc = "cancel" /\ handler'[s].pc = "read"
           /\ st[handler[s].t].conn = handler[s].conn /\ handler[s].conn \in ConnIDs
           /\ UNCHANGED <<conns, csLock, wq, written, relay, cleaner, inbox, client, env>>
           /\ \A r \in Sources \ {s} : handler'[r] = handler[r]
           /\ handler'[s].served = handler[s].served
           /\ handler'[s].lo = 0 /\ handler'[s].hi = 0
<1>1. /\ handler[s].pc = "cancel" /\ handler[s].conn \in ConnIDs /\ handler[s].t \in States
      /\ st[handler[s].t].conn = handler[s].conn
  BY DEF HandlerCancel, BaseInv, Pointers, HandlerOK
<1>2. UNCHANGED <<conns, csLock, wq, up, written, relay, writer, cleaner, envVars>>
  BY DEF HandlerCancel
<1>3. Cancelled(handler[s].t)
  BY <1>1, CancelFacts DEF HandlerCancel
<1>4. /\ handler' \in [Sources -> HandlerType]
      /\ \A r \in Sources \ {s} : handler'[r] = handler[r]
      /\ handler'[s].served = handler[s].served /\ handler'[s].pc = "read"
      /\ handler'[s].lo = 0 /\ handler'[s].hi = 0 /\ handler'[s].seq = 0
  BY GotoFacts, HandlerPCs DEF BaseInv, HandlerCancel
<1>5. HandlerMoved(s)
  BY <1>4, ZeroSeq DEF HandlerMoved, HandlerOK
<1>6. BaseInv'
  BY <1>1, <1>2, <1>3, <1>4, <1>5, HandlerLocalBase DEF Cancelled, BaseInv, Types
<1> QED BY <1>1, <1>2, <1>3, <1>4, <1>6 DEF envVars

\* While handler s cleans up nobody else does.
LEMMA HeldLock ==
    ASSUME BaseInv, NEW s \in Sources, handler[s].pc \in {"cleanup", "orphan"}
    PROVE  /\ csLock = s /\ cleaner = Nil
           /\ \A r \in Sources \ {s} : handler[r].pc \notin {"cleanup", "orphan"}
BY NilNot DEF BaseInv, Locks

LEMMA ReadErrorStep ==
    ASSUME BaseInv, NEW s \in Sources, ReadError(s)
    PROVE  /\ BaseInv' /\ handler[s].pc = "read" /\ handler'[s].pc = "cleanup"
           /\ UNCHANGED <<conns, st, wq, written, relay, cleaner, client, env>>
           /\ \A r \in Sources \ {s} : handler'[r] = handler[r] /\ inbox'[r] = inbox[r]
           /\ inbox'[s] = << >> /\ handler'[s].served = handler[s].served
           /\ handler'[s].lo = 0 /\ handler'[s].hi = 0
<1>1. /\ UNCHANGED <<conns, st, wq, up, written, relay, writer, cleaner, alive, client, env>>
      /\ handler[s].pc = "read" /\ csLock = "free" /\ csLock' = s
      /\ inbox' = [inbox EXCEPT ![s] = << >>] /\ Goto(s, "cleanup")
  BY DEF ReadError
<1>2. /\ handler' \in [Sources -> HandlerType]
      /\ \A r \in Sources \ {s} : handler'[r] = handler[r]
      /\ handler'[s].served = handler[s].served /\ handler'[s].pc = "cleanup"
      /\ handler'[s].lo = 0 /\ handler'[s].hi = 0 /\ handler'[s].seq = handler[s].seq
  BY <1>1, GotoFacts, HandlerPCs DEF BaseInv
<1>3. HandlerMoved(s)
  BY <1>2 DEF HandlerMoved, HandlerOK, BaseInv, Numbers
<1>4. /\ inbox' \in [Sources -> Seq(Frame)] /\ inbox'[s] = << >>
      /\ \A r \in Sources \ {s} : inbox'[r] = inbox[r]
  BY <1>1 DEF BaseInv, Types
<1>5. \A r \in Sources : \A i \in 1 .. Len(inbox'[r]) : inbox'[r][i].seq \in FrameSeq
  <2>1. Len(<< >>) = 0
    OBVIOUS
  <2> QED BY <1>4, <2>1 DEF BaseInv, Numbers
<1>6. Locks'
  <2>1. cleaner = Nil /\ \A r \in Sources : handler[r].pc \notin {"cleanup", "orphan"}
    BY <1>1, FreeLock
  <2> QED BY <1>1, <1>2, <2>1, NilNot DEF Locks
<1>7. Types'
  BY <1>1, <1>2, <1>4 DEF BaseInv, Types
<1>8. BaseInv'
  BY <1>1, <1>3, <1>5, <1>6, <1>7, StSame, BaseKept DEF BaseInv, Numbers, SomeHandler, SomeRelay
<1> QED BY <1>1, <1>2, <1>4, <1>8

LEMMA HandlerExitStep ==
    ASSUME BaseInv, NEW s \in Sources, HandlerExit(s)
    PROVE  /\ BaseInv' /\ handler[s].pc = "cleanup" /\ handler'[s].pc = "gone"
           /\ UNCHANGED <<conns, st, wq, written, relay, cleaner, inbox, client, env>>
           /\ \A r \in Sources \ {s} : handler'[r] = handler[r]
           /\ handler[s].served = {} /\ handler'[s].served = {}
           /\ handler'[s].lo = 0 /\ handler'[s].hi = 0
<1>1. /\ UNCHANGED <<conns, st, wq, up, written, relay, writer, cleaner, envVars>>
      /\ handler[s].pc = "cleanup" /\ csLock' = "free" /\ handler[s].served = {}
      /\ Goto(s, "gone")
  BY DEF HandlerExit
<1>2. /\ handler' \in [Sources -> HandlerType]
      /\ \A r \in Sources \ {s} : handler'[r] = handler[r]
      /\ handler'[s].served = handler[s].served /\ handler'[s].pc = "gone"
      /\ handler'[s].lo = 0 /\ handler'[s].hi = 0 /\ handler'[s].seq = handler[s].seq
  BY <1>1, GotoFacts, HandlerPCs DEF BaseInv
<1>3. HandlerMoved(s)
  BY <1>2 DEF HandlerMoved, HandlerOK, BaseInv, Numbers
<1>4. Locks'
  <2>1. cleaner = Nil /\ \A r \in Sources \ {s} : handler[r].pc \notin {"cleanup", "orphan"}
    BY <1>1, HeldLock
  <2> QED BY <1>1, <1>2, <2>1, NilNot DEF Locks
<1>5. Types'
  BY <1>1, <1>2 DEF BaseInv, Types, envVars
<1>6. BaseInv'
  BY <1>1, <1>3, <1>4, <1>5, StSame, BaseKept
     DEF BaseInv, Numbers, SomeHandler, SomeRelay, envVars
<1> QED BY <1>1, <1>2, <1>6 DEF envVars

\* Handler s drops its tunnel from connection c, or finds it orphaned.
LEMMA CleanupStep ==
    ASSUME BaseInv, NEW s \in Sources, NEW c \in ConnIDs, cleanupSource(s, c)
    PROVE  /\ BaseInv' /\ StKept /\ SourcesShrink /\ handler[s].pc = "cleanup"
           /\ UNCHANGED <<conns, csLock, wq, written, relay, cleaner, inbox, client, env>>
           /\ \A r \in Sources \ {s} : handler'[r] = handler[r]
           /\ handler'[s].lo = 0 /\ handler'[s].hi = 0
           /\ \/ /\ handler'[s].pc = "cleanup" /\ handler'[s].served = handler[s].served \ {c}
                 /\ ContextsKept
                 /\ conns[c] # Nil /\ Distinct(st[conns[c]].sources) =>
                       s \notin ToSet(st'[conns[c]].sources)
              \/ /\ handler'[s].pc = "orphan" /\ handler'[s].served = handler[s].served
                 /\ conns[c] # Nil /\ handler'[s].conn = c
                 /\ Cancelled(conns[c])
<1>1. handler[s].pc = "cleanup" /\ handler[s].lo = 0 /\ handler[s].hi = 0 /\ handler[s] \in HandlerType
      /\ handler[s].seq \in FrameSeq
  BY DEF cleanupSource, BaseInv, Pointers, HandlerOK, Types, Numbers
<1>2. UNCHANGED <<conns, csLock, wq, up, written, relay, writer, cleaner, envVars>>
  BY DEF cleanupSource
<1> DEFINE x == [handler[s] EXCEPT !.served = @ \ {c}]
           y == [handler[s] EXCEPT !.pc = "orphan", !.conn = c]
           v == conns[c]
           left == RemoveFirst(st[v].sources, s)
           z == [st[v] EXCEPT !.sources = left, !.cancelled = @ \/ left = << >>]
<1>3. \/ UNCHANGED st /\ v = Nil /\ handler' = [handler EXCEPT ![s] = x]
      \/ v # Nil /\ st' = [st EXCEPT ![v] = z] /\ left # << >> /\ handler' = [handler EXCEPT ![s] = x]
      \/ v # Nil /\ st' = [st EXCEPT ![v] = z] /\ left = << >> /\ handler' = [handler EXCEPT ![s] = y]
  BY DEF cleanupSource
<1>4. v \in States \cup {Nil} /\ (v # Nil => st[v].conn = c)
  BY DEF BaseInv, Types, Pointers
<1>5. /\ x \in HandlerType /\ x.pc = "cleanup" /\ x.lo = 0 /\ x.hi = 0
      /\ x.served = handler[s].served \ {c} /\ x.seq = handler[s].seq
  BY <1>1 DEF HandlerType
<1>6. /\ y \in HandlerType /\ y.pc = "orphan" /\ y.lo = 0 /\ y.hi = 0 /\ y.conn = c
      /\ y.served = handler[s].served /\ y.seq = handler[s].seq
  BY <1>1, HandlerPCs DEF HandlerType
<1>7. HandlerOK(x) /\ HandlerOK(y)
  BY <1>5, <1>6 DEF HandlerOK
<1> HIDE DEF x, y, v
<1>8. /\ handler' \in [Sources -> HandlerType] /\ handler'[s] \in {x, y}
      /\ \A r \in Sources \ {s} : handler'[r] = handler[r]
      /\ handler' = [handler EXCEPT ![s] = x] => handler'[s] = x
      /\ handler' = [handler EXCEPT ![s] = y] => handler'[s] = y
  <2>1. CASE handler' = [handler EXCEPT ![s] = x]
    BY <1>5, <1>6, <2>1 DEF BaseInv, Types
  <2>2. CASE handler' = [handler EXCEPT ![s] = y]
    BY <1>5, <1>6, <2>2 DEF BaseInv, Types
  <2> QED BY <1>3, <2>1, <2>2
<1>9. HandlerMoved(s)
  BY <1>1, <1>5, <1>6, <1>7, <1>8 DEF HandlerMoved
<1>10. ASSUME v # Nil, st' = [st EXCEPT ![v] = z]
       PROVE  /\ StKept /\ SourcesShrink /\ \A u \in States \ {v} : st'[u] = st[u]
              /\ st'[v].conn = st[v].conn /\ st'[v].cancelled = (st[v].cancelled \/ left = << >>)
              /\ Distinct(st[v].sources) => s \notin ToSet(st'[v].sources)
  <2>1. /\ v \in States /\ st[v] \in StateType /\ SaneReorderer(st[v].reord)
        /\ st[v].reord.nextSeq \in Int /\ st[v].sources \in Seq(Sources)
    BY <1>4, <1>10, StFields DEF BaseInv, Numbers
  <2>2. /\ left \in Seq(Sources) /\ ToSet(left) \subseteq ToSet(st[v].sources)
        /\ Distinct(st[v].sources) => Distinct(left) /\ ToSet(left) = ToSet(st[v].sources) \ {s}
    BY <2>1, RemoveFirstFacts
  <2> HIDE DEF left
  <2>3. /\ z \in StateType /\ z.conn = st[v].conn /\ z.cancelled = (st[v].cancelled \/ left = << >>)
        /\ z.sources = left /\ z.reord = st[v].reord
    BY <2>1, <2>2 DEF StateType
  <2> HIDE DEF z
  <2>4. /\ st[v].reord.nextSeq <= z.reord.nextSeq /\ SaneReorderer(z.reord) /\ z.conn # Nil
        /\ st[v].cancelled => z.cancelled
    <3>1. st[v].cancelled => z.cancelled
      BY <2>3, Zenon
    <3> QED BY <1>4, <1>10, <2>1, <2>3, <3>1, NilNot
  <2>5. StKept /\ st'[v] = z /\ \A u \in States \ {v} : st'[u] = st[u]
    BY <1>10, <2>1, <2>3, <2>4, StSet
  <2> QED BY <2>1, <2>2, <2>3, <2>5 DEF SourcesShrink
<1>11. StKept /\ SourcesShrink
  BY <1>3, <1>10, StCalm
<1>12. CASE handler'[s] = x
  <2>1. ContextsKept /\ (v # Nil /\ Distinct(st[v].sources) => s \notin ToSet(st'[v].sources))
    <3>1. CASE v = Nil
      BY <1>3, <3>1, StCalm
    <3>2. CASE v # Nil
      <4>1. left # << >> /\ st' = [st EXCEPT ![v] = z]
        BY <1>3, <1>5, <1>6, <1>8, <1>12, <3>2
      <4>2. st[v].cancelled \in BOOLEAN
        BY <1>4, <3>2, StFields DEF BaseInv, StateType
      <4> HIDE DEF left, z
      <4> QED BY <1>10, <3>2, <4>1, <4>2 DEF ContextsKept
    <3> QED BY <3>1, <3>2
  <2>2. Locks'
    <3>1. csLock = s /\ cleaner = Nil /\ \A r \in Sources \ {s} : handler[r].pc \notin {"cleanup", "orphan"}
      BY <1>1, HeldLock
    <3> QED BY <1>2, <1>5, <1>8, <1>12, <3>1, NilNot DEF Locks
  <2>3. Types'
    BY <1>2, <1>8, <1>11 DEF BaseInv, Types, StKept, envVars
  <2>4. BaseInv'
    BY <1>2, <1>9, <1>11, <2>2, <2>3, BaseKept DEF BaseInv, Numbers, SomeHandler, SomeRelay, envVars
  <2> QED BY <1>1, <1>2, <1>5, <1>8, <1>11, <1>12, <2>1, <2>4 DEF envVars, v
<1>13. CASE handler'[s] = y
  <2>1. v # Nil /\ left = << >> /\ st' = [st EXCEPT ![v] = z]
    BY <1>3, <1>5, <1>6, <1>8, <1>13
  <2>2. Cancelled(v)
    <3> HIDE DEF left, z
    <3> QED BY <1>10, <1>11, <2>1 DEF Cancelled
  <2>3. Locks'
    <3>1. csLock = s /\ cleaner = Nil /\ \A r \in Sources \ {s} : handler[r].pc \notin {"cleanup", "orphan"}
      BY <1>1, HeldLock
    <3>2. conns'[c] = v
      BY <1>2 DEF v
    <3> QED BY <1>2, <1>6, <1>8, <1>13, <2>1, <2>2, <3>1, <3>2, NilNot DEF Locks, Cancelled
  <2>4. Types'
    BY <1>2, <1>8, <1>11 DEF BaseInv, Types, StKept, envVars
  <2>5. BaseInv'
    BY <1>2, <1>9, <1>11, <2>3, <2>4, BaseKept DEF BaseInv, Numbers, SomeHandler, SomeRelay, envVars
  <2> QED BY <1>1, <1>2, <1>6, <1>8, <1>11, <1>13, <2>1, <2>2, <2>5 DEF envVars, v
<1> QED BY <1>8, <1>12, <1>13

LEMMA CloseDeleteFacts ==
    ASSUME BaseInv, NEW c \in ConnIDs, conns[c] # Nil, closeAndDelete(c)
    PROVE  Forgotten(c) /\ ContextsKept /\ up' \in [States -> {"none", "open", "eof", "closed"}]
<1> DEFINE v == conns[c]
           x == [st[v] EXCEPT !.gone = "cleanup"]
<1>1. v \in States
  BY DEF BaseInv, Types
<1>2. /\ st' = [st EXCEPT ![v] = x] /\ conns' = [conns EXCEPT ![c] = Nil]
      /\ up' = [up EXCEPT ![v] = IF st[v].target THEN "closed" ELSE @]
  BY DEF closeAndDelete
<1> HIDE DEF v
<1>3. st[v] \in StateType /\ SaneReorderer(st[v].reord)
  BY <1>1, StFields DEF BaseInv, Numbers
<1>4. /\ x \in StateType /\ x.conn = st[v].conn /\ x.cancelled = st[v].cancelled
      /\ x.sources = st[v].sources /\ x.reord = st[v].reord
  BY <1>3 DEF StateType
<1> HIDE DEF x
<1>5. StKept /\ ContextsKept /\ SourcesShrink
  BY <1>1, <1>2, <1>3, <1>4, StTouched
<1>6. up' \in [States -> {"none", "open", "eof", "closed"}]
  BY <1>1, <1>2 DEF BaseInv, Types
<1>7. /\ conns' \in [ConnIDs -> States \cup {Nil}]
      /\ conns'[c] = Nil /\ \A d \in ConnIDs \ {c} : conns'[d] = conns[d]
  BY <1>2 DEF BaseInv, Types
<1> QED BY <1>5, <1>6, <1>7 DEF Forgotten

LEMMA CloseOrphanStep ==
    ASSUME BaseInv, NEW s \in Sources, CloseOrphan(s)
    PROVE  /\ BaseInv' /\ handler[s].conn \in ConnIDs /\ conns[handler[s].conn] # Nil
           /\ st[conns[handler[s].conn]].cancelled
           /\ Forgotten(handler[s].conn) /\ ContextsKept
           /\ handler[s].pc = "orphan" /\ handler'[s].pc = "cleanup"
           /\ UNCHANGED <<csLock, wq, written, relay, cleaner, inbox, client, env>>
           /\ \A r \in Sources \ {s} : handler'[r] = handler[r]
           /\ handler'[s].served = handler[s].served \ {handler[s].conn}
           /\ handler'[s].lo = 0 /\ handler'[s].hi = 0
<1> DEFINE c == handler[s].conn
           x == [handler[s] EXCEPT !.pc = "cleanup", !.served = @ \ {c}]
<1>1. /\ handler[s].pc = "orphan" /\ c \in ConnIDs /\ conns[c] # Nil /\ st[conns[c]].cancelled
      /\ handler[s].lo = 0 /\ handler[s].hi = 0 /\ handler[s] \in HandlerType
      /\ handler[s].seq \in FrameSeq
  BY DEF CloseOrphan, BaseInv, Pointers, HandlerOK, Types, Numbers, Locks
<1>2. /\ UNCHANGED <<csLock, wq, written, relay, writer, cleaner, envVars>>
      /\ handler' = [handler EXCEPT ![s] = x]
  BY DEF CloseOrphan
<1>3. Forgotten(c) /\ ContextsKept /\ up' \in [States -> {"none", "open", "eof", "closed"}]
  BY <1>1, CloseDeleteFacts DEF CloseOrphan
<1>4. /\ x \in HandlerType /\ x.pc = "cleanup" /\ x.lo = 0 /\ x.hi = 0
      /\ x.served = handler[s].served \ {c} /\ x.seq = handler[s].seq
  BY <1>1, HandlerPCs DEF HandlerType
<1> HIDE DEF x
<1>5. /\ handler' \in [Sources -> HandlerType] /\ handler'[s] = x
      /\ \A r \in Sources \ {s} : handler'[r] = handler[r]
  BY <1>2, <1>4, SetHandler DEF BaseInv
<1>6. HandlerMoved(s)
  BY <1>1, <1>4, <1>5 DEF HandlerMoved, HandlerOK
<1>7. Locks'
  <2>1. csLock = s /\ cleaner = Nil /\ \A r \in Sources \ {s} : handler[r].pc \notin {"cleanup", "orphan"}
    BY <1>1, HeldLock
  <2> QED BY <1>2, <1>4, <1>5, <2>1, NilNot DEF Locks
<1>8. Types'
  BY <1>2, <1>3, <1>5 DEF BaseInv, Types, Forgotten, StKept, envVars
<1>9. BaseInv'
  <2>1. \A d \in ConnIDs : conns'[d] \in {conns[d], Nil}
    BY <1>3 DEF Forgotten
  <2> QED BY <1>2, <1>3, <1>6, <1>7, <1>8, <2>1, BaseKept
          DEF BaseInv, Numbers, Forgotten, SomeHandler, SomeRelay, envVars
<1> QED BY <1>1, <1>2, <1>3, <1>4, <1>5, <1>9 DEF envVars

LEMMA CleanupLoopStep ==
    ASSUME BaseInv, NEW c \in ConnIDs, cleanupLoop(c)
    PROVE  /\ BaseInv' /\ conns[c] \in States /\ Cancelled(conns[c]) /\ cleaner = Nil /\ cleaner' = c
           /\ UNCHANGED <<conns, wq, written, handler, relay, inbox, client, env>>
<1>1. /\ cleaner = Nil /\ csLock = "free" /\ conns[c] # Nil /\ csLock' = "cleaner" /\ cleaner' = c
      /\ removeConnCancel(conns[c])
      /\ UNCHANGED <<conns, wq, up, written, handler, relay, writer, envVars>>
  BY DEF cleanupLoop, removeConnCancel
<1>2. conns[c] \in States /\ st[conns[c]].conn = c
  BY <1>1 DEF BaseInv, Types, Pointers
<1>3. Cancelled(conns[c])
  BY <1>1, <1>2, CancelFacts
<1>4. Locks'
  <2>1. \A r \in Sources : handler[r].pc \notin {"cleanup", "orphan"}
    BY <1>1, FreeLock
  <2> QED BY <1>1, <1>3, <2>1, NilNot DEF Locks, Cancelled
<1>5. Types'
  BY <1>1, <1>3 DEF BaseInv, Types, Cancelled, StKept, envVars
<1>6. BaseInv'
  BY <1>1, <1>3, <1>4, <1>5, BaseKept
     DEF BaseInv, Numbers, Cancelled, SomeHandler, SomeRelay, envVars
<1> QED BY <1>1, <1>2, <1>3, <1>6 DEF envVars

LEMMA CloseStaleStep ==
    ASSUME BaseInv, CloseStale
    PROVE  /\ BaseInv' /\ cleaner \in ConnIDs /\ conns[cleaner] # Nil /\ st[conns[cleaner]].cancelled
           /\ Forgotten(cleaner) /\ ContextsKept /\ cleaner' = Nil
           /\ UNCHANGED <<wq, written, handler, relay, inbox, client, env>>
<1>1. /\ cleaner # Nil /\ closeAndDelete(cleaner) /\ cleaner' = Nil /\ csLock' = "free"
      /\ UNCHANGED <<wq, written, handler, relay, writer, envVars>>
  BY DEF CloseStale
<1>2. cleaner \in ConnIDs /\ conns[cleaner] # Nil /\ st[conns[cleaner]].cancelled /\ csLock = "cleaner"
  BY <1>1 DEF BaseInv, Types, Locks
<1>3. Forgotten(cleaner) /\ ContextsKept /\ up' \in [States -> {"none", "open", "eof", "closed"}]
  BY <1>1, <1>2, CloseDeleteFacts
<1>4. Locks'
  <2>1. \A r \in Sources : handler[r].pc \notin {"cleanup", "orphan"}
    BY <1>2, NilNot DEF BaseInv, Locks
  <2> QED BY <1>1, <2>1, NilNot DEF Locks
<1>5. Types'
  BY <1>1, <1>3 DEF BaseInv, Types, Forgotten, StKept, envVars
<1>6. BaseInv'
  <2>1. \A d \in ConnIDs : conns'[d] \in {conns[d], Nil}
    BY <1>3 DEF Forgotten
  <2> QED BY <1>1, <1>3, <1>4, <1>5, <2>1, BaseKept
          DEF BaseInv, Numbers, Forgotten, SomeHandler, SomeRelay, envVars
<1> QED BY <1>1, <1>2, <1>3, <1>6 DEF envVars

\* What suffices for a step of relay t.
LEMMA RelayLocalBase ==
    ASSUME BaseInv, NEW t \in States, StKept, RelayMoved(t),
           \/ UNCHANGED conns
           \/ /\ csLock = "free" /\ conns' \in [ConnIDs -> States \cup {Nil}]
              /\ \A c \in ConnIDs : conns'[c] \in {conns[c], Nil},
           wq' \in [States -> Seq(SeqNum)],
           writer' \in [States -> {"none", "run", "drain", "done"}],
           UNCHANGED <<csLock, up, written, handler, cleaner, envVars>>
    PROVE  BaseInv'
<1>1. Locks'
  BY LocksKept
<1>2. Types'
  BY DEF BaseInv, Types, StKept, RelayMoved, envVars
<1> QED BY <1>1, <1>2, BaseKept DEF BaseInv, Numbers, SomeHandler, SomeRelay, envVars

LEMMA InstallStep ==
    ASSUME BaseInv, NEW t \in States, Install(t)
    PROVE  /\ BaseInv' /\ StKept /\ ContextsKept /\ SourcesShrink
           /\ UNCHANGED <<conns, csLock, wq, written, handler, cleaner, inbox, client, env>>
           /\ \A u \in States \ {t} : relay'[u] = relay[u] /\ st'[u] = st[u]
           /\ relay[t].pc = "install" /\ relay'[t].pc \in {"check", "flush"}
           /\ \/ relay'[t].lo = 0 /\ relay'[t].hi = 0
              \/ /\ st[t].reord.nextSeq <= relay'[t].lo
                 /\ relay'[t].hi <= st'[t].reord.nextSeq
<1> DEFINE r == st[t].reord
           x == [st[t] EXCEPT !.target = TRUE, !.writeCh = TRUE, !.reord = Drain(r)]
<1>1. /\ relay[t].pc = "install" /\ st' = [st EXCEPT ![t] = x]
      /\ RelayGotoFlush(t, DrainFrom(r), DrainTo(r)) /\ writer' = [writer EXCEPT ![t] = "run"]
      /\ UNCHANGED <<conns, csLock, wq, up, written, handler, cleaner, envVars>>
  BY DEF Install
<1>2. st[t].conn \in ConnIDs
  BY <1>1 DEF BaseInv, Pointers, RelayOK
<1> HIDE DEF r
<1>3. st[t] \in StateType /\ SaneReorderer(r) /\ r \in ReordererType /\ r.nextSeq \in Int
  BY StFields DEF BaseInv, Numbers, r
<1>4. /\ DrainFrom(r) \in SeqNum /\ DrainTo(r) \in SeqNum
      /\ r.nextSeq <= DrainFrom(r) /\ DrainFrom(r) <= DrainTo(r)
      /\ Drain(r) \in ReordererType /\ SaneReorderer(Drain(r)) /\ Drain(r).nextSeq = DrainTo(r)
  BY <1>3, DrainRange, DrainSpec
<1>5. DrainTo(r) \in Int /\ DrainFrom(r) \in Int
  BY <1>4, SeqSpaceAssumption DEF SeqNum
<1>6. r.nextSeq <= Drain(r).nextSeq
  BY <1>3, <1>4, <1>5
<1>7. /\ x \in StateType /\ x.conn = st[t].conn /\ x.cancelled = st[t].cancelled
      /\ x.sources = st[t].sources /\ x.reord = Drain(r)
  BY <1>3, <1>4 DEF StateType
<1>8. x.conn # Nil
  BY <1>2, <1>7, NilNot
<1> HIDE DEF x
<1>9. StKept /\ st'[t] = x /\ \A u \in States \ {t} : st'[u] = st[u]
  BY <1>1, <1>4, <1>6, <1>7, <1>8, StSet DEF r
<1>10. ContextsKept /\ SourcesShrink
  BY <1>7, <1>9 DEF ContextsKept, SourcesShrink
<1>11. /\ relay' \in [States -> RelayType]
       /\ \A u \in States \ {t} : relay'[u] = relay[u]
       /\ \/ relay'[t].pc = "check" /\ relay'[t].lo = 0 /\ relay'[t].hi = 0
          \/ /\ DrainFrom(r) < DrainTo(r) /\ relay'[t].pc = "flush"
             /\ relay'[t].lo = DrainFrom(r) /\ relay'[t].hi = DrainTo(r)
  BY <1>1, <1>4, RelayGotoFlushFacts DEF BaseInv
<1>12. RelayOK(t, relay[t])'
  BY <1>2, <1>7, <1>9, <1>11 DEF RelayOK
<1>13. writer' \in [States -> {"none", "run", "drain", "done"}] /\ wq' \in [States -> Seq(SeqNum)]
  BY <1>1 DEF BaseInv, Types
<1>14. BaseInv'
  <2>1. RelayMoved(t)
    BY <1>11, <1>12 DEF RelayMoved
  <2> QED BY <1>1, <1>9, <1>13, <2>1, RelayLocalBase
<1>15. \/ relay'[t].lo = 0 /\ relay'[t].hi = 0
       \/ st[t].reord.nextSeq <= relay'[t].lo /\ relay'[t].hi <= st'[t].reord.nextSeq
  <2>1. DrainTo(r) <= st'[t].reord.nextSeq
    BY <1>4, <1>5, <1>7, <1>9
  <2> QED BY <1>4, <1>11, <2>1 DEF r
<1> QED BY <1>1, <1>9, <1>10, <1>11, <1>14, <1>15 DEF envVars

LEMMA FlushStep ==
    ASSUME BaseInv, NEW t \in States, Flush(t)
    PROVE  /\ BaseInv'
           /\ UNCHANGED <<conns, csLock, st, written, handler, cleaner, inbox, client, env>>
           /\ \A u \in States \ {t} : relay'[u] = relay[u] /\ wq'[u] = wq[u]
           /\ relay[t].pc = "flush" /\ relay'[t].pc \in {"check", "flush"}
           /\ relay[t].lo \in SeqNum /\ relay[t].lo < relay[t].hi
           /\ wq'[t] \in {wq[t], Append(wq[t], relay[t].lo)}
           /\ \/ relay'[t].lo = 0 /\ relay'[t].hi = 0
              \/ relay'[t].lo = relay[t].lo + 1 /\ relay'[t].hi = relay[t].hi
<1> DEFINE x == relay[t]
<1>1. /\ x.pc = "flush" /\ wq' = [wq EXCEPT ![t] = Enqueue(@, x.lo)]
      /\ RelayGotoFlush(t, x.lo + 1, x.hi)
      /\ UNCHANGED <<conns, csLock, st, up, written, handler, writer, cleaner, envVars>>
  BY DEF Flush
<1>2. st[t].conn \in ConnIDs /\ x.lo < x.hi
  BY <1>1 DEF BaseInv, Pointers, RelayOK
<1>3. x.lo \in SeqNum /\ x.hi \in SeqNum /\ wq[t] \in Seq(SeqNum)
  BY DEF BaseInv, Types, RelayType
<1>4. x.lo + 1 \in SeqNum /\ x.lo + 1 <= x.hi
  BY <1>2, <1>3, SeqSpaceAssumption DEF SeqNum
<1>5. /\ wq' \in [States -> Seq(SeqNum)] /\ wq'[t] \in {wq[t], Append(wq[t], x.lo)}
      /\ \A u \in States \ {t} : wq'[u] = wq[u]
  <2>1. Enqueue(wq[t], x.lo) \in Seq(SeqNum) /\ Enqueue(wq[t], x.lo) \in {wq[t], Append(wq[t], x.lo)}
    BY <1>3, EnqueueFacts
  <2> QED BY <1>1, <2>1 DEF BaseInv, Types
<1>6. /\ relay' \in [States -> RelayType]
      /\ \A u \in States \ {t} : relay'[u] = relay[u]
      /\ \/ relay'[t].pc = "check" /\ relay'[t].lo = 0 /\ relay'[t].hi = 0
         \/ /\ x.lo + 1 < x.hi /\ relay'[t].pc = "flush"
            /\ relay'[t].lo = x.lo + 1 /\ relay'[t].hi = x.hi
  BY <1>1, <1>3, <1>4, RelayGotoFlushFacts DEF BaseInv
<1>7. RelayOK(t, relay[t])'
  BY <1>1, <1>2, <1>6 DEF RelayOK
<1>8. BaseInv'
  <2>1. RelayMoved(t)
    BY <1>6, <1>7 DEF RelayMoved
  <2>2. StKept
    BY <1>1, StSame
  <2>3. writer' \in [States -> {"none", "run", "drain", "done"}]
    BY <1>1 DEF BaseInv, Types
  <2> QED BY <1>1, <1>5, <2>1, <2>2, <2>3, RelayLocalBase
<1> QED BY <1>1, <1>2, <1>3, <1>5, <1>6, <1>8 DEF envVars

\* Relay t removes its ConnID.
LEMMA RelayDeleteStep ==
    ASSUME BaseInv, NEW t \in States, RelayDelete(t)
    PROVE  /\ BaseInv' /\ csLock = "free" /\ st[t].conn \in ConnIDs
           /\ Forgotten(st[t].conn) /\ ContextsKept
           /\ UNCHANGED <<csLock, wq, written, handler, cleaner, inbox, client, env>>
           /\ \A u \in States \ {t} : relay'[u] = relay[u]
           /\ relay[t].pc = "delete" /\ relay'[t].lo = 0 /\ relay'[t].hi = 0
           /\ relay'[t].victim = conns[st[t].conn]
           /\ relay'[t].pc = IF conns[st[t].conn] = Nil THEN "done" ELSE "cancel"
<1> DEFINE c == st[t].conn
           v == conns[c]
           p == IF v = Nil THEN "done" ELSE "cancel"
           x == [relay[t] EXCEPT !.pc = p, !.victim = v]
<1>1. /\ relay[t].pc = "delete" /\ removeConnDelete(c) /\ relay' = [relay EXCEPT ![t] = x]
      /\ UNCHANGED <<csLock, wq, up, written, handler, writer, cleaner, envVars>>
  BY DEF RelayDelete
<1>2. c \in ConnIDs /\ relay[t].lo = 0 /\ relay[t].hi = 0 /\ relay[t] \in RelayType
  BY <1>1 DEF BaseInv, Pointers, RelayOK, Types
<1>3. csLock = "free" /\ Forgotten(c) /\ ContextsKept
  BY <1>1, <1>2, RemoveFacts
<1>4. v \in States \cup {Nil} /\ (v # Nil => v \in States /\ st[v].conn = c)
  BY <1>2 DEF BaseInv, Types, Pointers
<1>5. p \in RelayPC /\ p \in {"done", "cancel"} /\ (p = "cancel" => v # Nil)
  BY RelayPCs
<1> HIDE DEF v, c, p
<1>6. x \in RelayType /\ x.pc = p /\ x.victim = v /\ x.lo = 0 /\ x.hi = 0
  BY <1>2, <1>4, <1>5 DEF RelayType
<1> HIDE DEF x
<1>7. /\ relay' \in [States -> RelayType] /\ relay'[t] = x
      /\ \A u \in States \ {t} : relay'[u] = relay[u]
  BY <1>1, <1>6, SetRelay DEF BaseInv
<1>8. RelayOK(t, relay[t])'
  <2>1. st'[t].conn = c /\ (v # Nil => st'[v].conn = c)
    BY <1>3, <1>4 DEF ContextsKept, c
  <2> QED BY <1>2, <1>4, <1>5, <1>6, <1>7, <2>1 DEF RelayOK
<1>9. BaseInv'
  <2>1. RelayMoved(t)
    BY <1>7, <1>8 DEF RelayMoved
  <2>2. /\ wq' \in [States -> Seq(SeqNum)]
        /\ writer' \in [States -> {"none", "run", "drain", "done"}]
    BY <1>1 DEF BaseInv, Types
  <2>3. \A d \in ConnIDs : conns'[d] \in {conns[d], Nil}
    BY <1>3 DEF Forgotten
  <2> QED BY <1>1, <1>3, <2>1, <2>2, <2>3, RelayLocalBase DEF Forgotten
<1> QED BY <1>1, <1>2, <1>3, <1>6, <1>7, <1>9 DEF envVars, v, c, p

LEMMA RelayCancelStep ==
    ASSUME BaseInv, NEW t \in States, RelayCancel(t)
    PROVE  /\ BaseInv' /\ relay[t].victim \in States /\ Cancelled(relay[t].victim)
           /\ st[relay[t].victim].conn \in ConnIDs
           /\ UNCHANGED <<conns, csLock, wq, written, handler, cleaner, inbox, client, env>>
           /\ \A u \in States \ {t} : relay'[u] = relay[u]
           /\ relay[t].pc = "cancel" /\ relay'[t].pc = "done"
           /\ relay'[t].lo = 0 /\ relay'[t].hi = 0
<1>1. /\ relay[t].pc = "cancel" /\ removeConnCancel(relay[t].victim) /\ RelayGoto(t, "done")
      /\ UNCHANGED <<conns, csLock, wq, up, written, handler, writer, cleaner, envVars>>
  BY DEF RelayCancel
<1>2. relay[t].victim \in States /\ st[relay[t].victim].conn \in ConnIDs /\ st[t].conn \in ConnIDs
  BY <1>1 DEF BaseInv, Pointers, RelayOK
<1>3. Cancelled(relay[t].victim)
  BY <1>1, <1>2, CancelFacts
<1>4. /\ relay' \in [States -> RelayType]
      /\ \A u \in States \ {t} : relay'[u] = relay[u]
      /\ relay'[t].pc = "done" /\ relay'[t].lo = 0 /\ relay'[t].hi = 0
  BY <1>1, RelayGotoFacts, RelayPCs DEF BaseInv
<1>5. RelayOK(t, relay[t])'
  <2>1. st'[t].conn \in ConnIDs
    BY <1>2, <1>3 DEF Cancelled
  <2> QED BY <1>4, <2>1 DEF RelayOK
<1>6. BaseInv'
  <2>1. RelayMoved(t)
    BY <1>4, <1>5 DEF RelayMoved
  <2>2. /\ wq' \in [States -> Seq(SeqNum)]
        /\ writer' \in [States -> {"none", "run", "drain", "done"}]
    BY <1>1 DEF BaseInv, Types
  <2> QED BY <1>1, <1>3, <2>1, <2>2, RelayLocalBase DEF Cancelled
<1> QED BY <1>1, <1>2, <1>3, <1>4, <1>6 DEF envVars

-----------------------------------------------------------------------------
(* Types and pointers.                                                     *)

LEMMA BaseInit == Init => BaseInv
<1> SUFFICES ASSUME Init PROVE BaseInv
  OBVIOUS
<1> DEFINE r == NewReordererAt(0)
<1>1. r \in ReordererType /\ SaneReorderer(r) /\ r.nextSeq = 0
  BY ZeroSeq DEF NewReordererAt, ReordererType, Timer, SaneReorderer
<1>2. /\ Unallocated \in StateType /\ Unallocated.conn = Nil /\ Unallocated.reord = r
  <2>1. << >> \in Seq(Sources) /\ 0 \in 0 .. MaxReverse /\ 0 \in 0 .. 2
    BY CentralServerAssumption
  <2> HIDE DEF r
  <2> QED BY <1>1, <2>1 DEF Unallocated, StateType, r
<1>3. IdleHandler \in HandlerType /\ IdleHandler.pc = "read" /\ IdleHandler.seq = 0
      /\ IdleHandler.lo = 0 /\ IdleHandler.hi = 0
  BY ZeroSeq, HandlerPCs DEF IdleHandler, HandlerType
<1>4. IdleRelay \in RelayType /\ IdleRelay.pc = "none" /\ IdleRelay.lo = 0 /\ IdleRelay.hi = 0
  BY ZeroSeq, RelayPCs DEF IdleRelay, RelayType
<1>5. [seq |-> 0, closed |-> FALSE] \in ClientType
  BY ZeroSeq DEF ClientType
<1> HIDE DEF r
<1>6. Types
  <2>1. << >> \in Seq(SeqNum) /\ << >> \in Seq(Frame)
    OBVIOUS
  <2>2. st \in [States -> StateType]
    BY <1>2 DEF Init
  <2>3. handler \in [Sources -> HandlerType]
    BY <1>3 DEF Init
  <2>4. relay \in [States -> RelayType]
    BY <1>4 DEF Init
  <2>5. client \in [ConnIDs -> ClientType]
    BY <1>5 DEF Init
  <2> QED BY <2>1, <2>2, <2>3, <2>4, <2>5 DEF Init, Types
<1>7. Numbers
  <2>1. env \in Environments /\ env.data \in Nat
    BY CentralServerAssumption DEF Init
  <2>2. \A c \in ConnIDs : client[c].seq \in 0 .. env.data + 1
    BY <2>1 DEF Init
  <2>3. \A s \in Sources : handler[s].seq \in FrameSeq
    BY <1>3, ZeroSeq DEF Init
  <2>4. \A s \in Sources : \A i \in 1 .. Len(inbox[s]) : inbox[s][i].seq \in FrameSeq
    BY DEF Init
  <2>5. \A t \in States : SaneReorderer(st[t].reord)
    BY <1>1, <1>2 DEF Init
  <2> QED BY <2>1, <2>2, <2>3, <2>4, <2>5 DEF Numbers
<1>8. Pointers
  <2>1. \A s \in Sources : HandlerOK(handler[s])
    BY <1>3 DEF Init, HandlerOK
  <2>2. \A t \in States : RelayOK(t, relay[t])
    BY <1>4 DEF Init, RelayOK
  <2>3. \A t \in States : st[t].reord.nextSeq = 0
    BY <1>1, <1>2 DEF Init
  <2> QED BY <2>1, <2>2, <2>3 DEF Init, Pointers
<1>9. Locks
  BY <1>3, NilNot DEF Init, Locks
<1> QED BY <1>6, <1>7, <1>8, <1>9 DEF BaseInv

\* The steps, in the groups of the lemmas above.
LookupStep(s) ==
    DispatchLookup(s, "DATA", "data") \/ DispatchLookup(s, "FIN", "fin") \/ handleRST(s)
QueueStep(t) == WriterTakes(t) \/ WriterGivesUp(t) \/ WriterDrains(t)

LEMMA StepCases ==
    ASSUME [NextStep]_vars
    PROVE  \/ CalmStep
           \/ \E c \in ConnIDs : ClientStep(c)
           \/ \E t \in States : QueueStep(t)
           \/ \E s \in Sources :
                 \/ handleSYN(s) \/ LookupStep(s) \/ handleData(s) \/ handleFIN(s) \/ PushChunk(s)
                 \/ HandlerDelete(s) \/ HandlerCancel(s) \/ ReadError(s) \/ CloseOrphan(s)
                 \/ HandlerExit(s) \/ \E c \in ConnIDs : cleanupSource(s, c)
           \/ \E t \in States : Install(t) \/ Flush(t) \/ RelayDelete(t) \/ RelayCancel(t)
           \/ CloseStale \/ \E c \in ConnIDs : cleanupLoop(c)
<1>1. CASE UNCHANGED vars
  BY <1>1 DEF CalmStep
<1>2. ASSUME NEW s \in Sources, TunnelDies(s) \/ HandlerStep(s)
      PROVE  \/ CalmStep
             \/ handleSYN(s) \/ LookupStep(s) \/ handleData(s) \/ handleFIN(s) \/ PushChunk(s)
             \/ HandlerDelete(s) \/ HandlerCancel(s) \/ ReadError(s) \/ CloseOrphan(s)
             \/ HandlerExit(s) \/ \E c \in ConnIDs : cleanupSource(s, c)
  BY <1>2 DEF HandlerStep, CalmStep, LookupStep
<1>3. ASSUME NEW t \in States,
             \/ PeerCloses(t) \/ TimeStep(t) \/ RelayStep(t) \/ PeerStep(t) \/ WriterStep(t)
      PROVE  \/ CalmStep \/ QueueStep(t)
             \/ Install(t) \/ Flush(t) \/ RelayDelete(t) \/ RelayCancel(t)
  BY <1>3 DEF RelayStep, WriterStep, CalmStep, QueueStep
<1> QED BY <1>1, <1>2, <1>3 DEF NextStep, CleanerStep

LEMMA BaseNext == ASSUME BaseInv, [NextStep]_vars PROVE BaseInv'
<1>1. CASE CalmStep
  BY <1>1, CalmSteps
<1>2. ASSUME NEW c \in ConnIDs, ClientStep(c) PROVE BaseInv'
  BY <1>2, ClientSteps
<1>3. ASSUME NEW t \in States, QueueStep(t) PROVE BaseInv'
  BY <1>3, WriterSteps DEF QueueStep
<1>4. ASSUME NEW s \in Sources,
             \/ handleSYN(s) \/ LookupStep(s) \/ handleData(s) \/ handleFIN(s) \/ PushChunk(s)
             \/ HandlerDelete(s) \/ HandlerCancel(s) \/ ReadError(s) \/ CloseOrphan(s)
             \/ HandlerExit(s) \/ \E c \in ConnIDs : cleanupSource(s, c)
      PROVE  BaseInv'
  <2>1. CASE \/ handleSYN(s) \/ LookupStep(s) \/ handleData(s) \/ handleFIN(s) \/ PushChunk(s)
    BY <2>1, SynStep, LookupSteps, DataStep, FinStep, PushStep DEF LookupStep, HandlerLocal
  <2>2. CASE \/ HandlerDelete(s) \/ HandlerCancel(s) \/ ReadError(s) \/ CloseOrphan(s)
             \/ HandlerExit(s) \/ \E c \in ConnIDs : cleanupSource(s, c)
    BY <2>2, HandlerDeleteStep, HandlerCancelStep, ReadErrorStep, CloseOrphanStep,
       HandlerExitStep, CleanupStep
  <2> QED BY <1>4, <2>1, <2>2
<1>5. ASSUME NEW t \in States, Install(t) \/ Flush(t) \/ RelayDelete(t) \/ RelayCancel(t)
      PROVE  BaseInv'
  BY <1>5, InstallStep, FlushStep, RelayDeleteStep, RelayCancelStep
<1>6. ASSUME CloseStale \/ \E c \in ConnIDs : cleanupLoop(c) PROVE BaseInv'
  BY <1>6, CloseStaleStep, CleanupLoopStep
<1> QED BY <1>1, <1>2, <1>3, <1>4, <1>5, <1>6, StepCases

-----------------------------------------------------------------------------
(* A connState has one life.                                               *)

\* One that is in use stays with its connection; what was removed from
\* cs.conns is not put back, what was cancelled stays cancelled, and nextSeq
\* does not go back.
OneLife(t) ==
    st[t].conn # Nil =>
       /\ st'[t].conn = st[t].conn
       /\ conns[st[t].conn] # t => conns'[st[t].conn] # t
       /\ st[t].cancelled => st'[t].cancelled
       /\ st[t].reord.nextSeq <= st'[t].reord.nextSeq

\* A step that registers nothing.
LEMMA OneLifeKept ==
    ASSUME BaseInv, StKept, \A c \in ConnIDs : conns'[c] \in {conns[c], Nil},
           NEW t \in States
    PROVE  OneLife(t)
<1> SUFFICES ASSUME st[t].conn # Nil PROVE OneLife(t)
  BY DEF OneLife
<1>1. st[t].conn \in ConnIDs /\ t # Nil
  <2>1. st[t].conn \in ConnIDs \cup {Nil}
    BY DEF BaseInv, Types, StateType
  <2> QED BY <2>1, NilNot
<1>2. conns[st[t].conn] # t => conns'[st[t].conn] # t
  BY <1>1
<1> QED BY <1>2 DEF OneLife, StKept

LEMMA OneLifeSyn ==
    ASSUME BaseInv, NEW s \in Sources, handleSYN(s), NEW t \in States PROVE OneLife(t)
<1>1. PICK v \in States : SynAdds(s, v) \/ SynCreates(s, v)
  BY SynStep
<1>2. StKept
  BY SynStep
<1>3. CASE SynAdds(s, v)
  BY <1>2, <1>3, OneLifeKept DEF SynAdds
<1>4. CASE SynCreates(s, v)
  <2>1. st[t].conn # Nil => t # v
    BY <1>4 DEF SynCreates
  <2>2. conns \in [ConnIDs -> States \cup {Nil}] /\ st[t].conn \in ConnIDs \cup {Nil}
    BY DEF BaseInv, Types, StateType
  <2>3. st[t].conn # Nil /\ conns[st[t].conn] # t => conns'[st[t].conn] # t
    BY <1>4, <2>1, <2>2 DEF SynCreates
  <2> QED BY <1>2, <2>3 DEF OneLife, StKept
<1> QED BY <1>1, <1>3, <1>4

LEMMA OneLifeNext ==
    ASSUME BaseInv, [NextStep]_vars, NEW t \in States PROVE OneLife(t)
<1>1. ASSUME StKept, \A c \in ConnIDs : conns'[c] \in {conns[c], Nil} PROVE OneLife(t)
  BY <1>1, OneLifeKept
<1>2. UNCHANGED st => StKept
  BY StSame
<1>3. CASE CalmStep
  BY <1>1, <1>3, CalmSteps DEF Calm
<1>4. ASSUME NEW c \in ConnIDs, ClientStep(c) PROVE OneLife(t)
  BY <1>1, <1>2, <1>4, ClientSteps DEF serverVars
<1>5. ASSUME NEW u \in States, QueueStep(u) PROVE OneLife(t)
  BY <1>1, <1>2, <1>5, WriterSteps DEF QueueStep
<1>6. ASSUME NEW s \in Sources, LookupStep(s) \/ PushChunk(s) \/ ReadError(s) \/ HandlerExit(s)
      PROVE  OneLife(t)
  BY <1>1, <1>2, <1>6, LookupSteps, PushStep, ReadErrorStep, HandlerExitStep DEF LookupStep
<1>7. ASSUME NEW s \in Sources, handleData(s) \/ handleFIN(s) PROVE OneLife(t)
  BY <1>1, <1>7, DataStep, FinStep DEF HandlerLocal
<1>8. ASSUME NEW s \in Sources, HandlerDelete(s) \/ CloseOrphan(s) PROVE OneLife(t)
  BY <1>1, <1>8, HandlerDeleteStep, CloseOrphanStep DEF Forgotten
<1>9. ASSUME NEW s \in Sources, HandlerCancel(s) PROVE OneLife(t)
  BY <1>1, <1>9, HandlerCancelStep DEF Cancelled
<1>10. ASSUME NEW s \in Sources, NEW c \in ConnIDs, cleanupSource(s, c) PROVE OneLife(t)
  BY <1>1, <1>10, CleanupStep
<1>11. ASSUME NEW u \in States, Install(u) \/ Flush(u) PROVE OneLife(t)
  BY <1>1, <1>2, <1>11, InstallStep, FlushStep
<1>12. ASSUME NEW u \in States, RelayDelete(u) \/ RelayCancel(u) PROVE OneLife(t)
  BY <1>1, <1>12, RelayDeleteStep, RelayCancelStep DEF Forgotten, Cancelled
<1>13. CASE CloseStale
  BY <1>1, <1>13, CloseStaleStep DEF Forgotten
<1>14. ASSUME NEW c \in ConnIDs, cleanupLoop(c) PROVE OneLife(t)
  BY <1>1, <1>14, CleanupLoopStep DEF Cancelled
<1> QED BY <1>3, <1>4, <1>5, <1>6, <1>7, <1>8, <1>9, <1>10, <1>11, <1>12, <1>13, <1>14,
          OneLifeSyn, StepCases

\* Goroutines keep pointers to connStates across unlocks, and connections of
\* the same ConnID come and go meanwhile; no step makes a connState that was
\* removed, or cancelled, serve a connection again, or turns its stream back.
THEOREM ConnStateLivesOnce == Spec => [][\A t \in States : OneLife(t)]_vars
<1>1. BaseInv /\ [NextStep]_vars => BaseInv'
  BY BaseNext
<1>2. BaseInv /\ [NextStep]_vars => [\A t \in States : OneLife(t)]_vars
  BY OneLifeNext
<1> QED BY <1>1, <1>2, BaseInit, PTL DEF Spec

-----------------------------------------------------------------------------
(* A connState is registered exactly while its context is live.            *)

\* No pending cancellation, or deletion, is lost or begun.
CancelsKept ==
    /\ \A s \in Sources : handler[s].pc = "cancel" \/ handler'[s].pc = "cancel" =>
                             handler'[s] = handler[s]
    /\ \A t \in States : relay[t].pc = "cancel" \/ relay'[t].pc = "cancel" =>
                            relay'[t] = relay[t]
DeletesKept ==
    /\ UNCHANGED cleaner
    /\ \A s \in Sources : handler[s].pc = "orphan" => handler'[s] = handler[s]

LEMMA LiveKept ==
    ASSUME BaseInv, LiveInv, ContextsKept, UNCHANGED conns, CancelsKept, DeletesKept
    PROVE  LiveInv'
<1>1. ASSUME NEW t \in States, st'[t].conn # Nil
      PROVE  IF conns'[st'[t].conn] = t THEN st'[t].cancelled => DeletePending(t)'
             ELSE st'[t].cancelled \/ CancelPending(t)'
  <2>1. IF conns[st[t].conn] = t THEN st[t].cancelled => DeletePending(t)
        ELSE st[t].cancelled \/ CancelPending(t)
    BY <1>1 DEF LiveInv, Live, ContextsKept
  <2>2. DeletePending(t) => DeletePending(t)'
    BY DEF DeletePending, DeletesKept
  <2>3. CancelPending(t) => CancelPending(t)'
    BY DEF CancelPending, CancelsKept
  <2> QED BY <2>1, <2>2, <2>3 DEF ContextsKept
<1>2. CancelledRemoved'
  <2>1. \A t \in States : relay[t].pc = "cancel" => relay[t].victim \in States
    BY DEF BaseInv, Pointers, RelayOK
  <2> QED BY <2>1 DEF LiveInv, CancelledRemoved, CancelsKept, ContextsKept
<1> QED BY <1>1, <1>2 DEF LiveInv, Live

\* A new connState is registered with a live context.
LEMMA LiveSyn ==
    ASSUME BaseInv, LiveInv, NEW s \in Sources, handleSYN(s) PROVE LiveInv'
<1> DEFINE c == Head(inbox[s]).conn
<1>1. /\ c \in ConnIDs /\ csLock = "free" /\ UNCHANGED cleaner
      /\ handler[s].pc = "read" /\ handler'[s].pc = "read"
      /\ \A r \in Sources \ {s} : handler'[r] = handler[r]
  BY SynStep DEF FrameRead
<1>2. PICK v \in States : SynAdds(s, v) \/ SynCreates(s, v)
  BY SynStep
<1>3. CASE SynAdds(s, v)
  BY <1>1, <1>3, LiveKept DEF SynAdds, CancelsKept, DeletesKept
<1>4. CASE SynCreates(s, v)
  <2>1. /\ conns[c] = Nil /\ conns' = [conns EXCEPT ![c] = v] /\ st[v].conn = Nil
        /\ st'[v].conn = c /\ ~st'[v].cancelled /\ relay'[v].pc = "connect"
        /\ \A u \in States \ {v} : st'[u] = st[u] /\ relay'[u] = relay[u]
    BY <1>4 DEF SynCreates
  <2> HIDE DEF c
  <2>2. conns'[c] = v /\ \A d \in ConnIDs \ {c} : conns'[d] = conns[d]
    BY <1>1, <2>1 DEF BaseInv, Types
  <2>3. \A u \in States : ~DeletePending(u)
    BY <1>1, FreeLock DEF DeletePending
  <2>4. relay[v].pc # "cancel"
    BY <2>1, NilNot DEF BaseInv, Pointers, RelayOK
  <2>5. ASSUME NEW u \in States \ {v} PROVE CancelPending(u) => CancelPending(u)'
    BY <1>1, <2>1, <2>4 DEF CancelPending
  <2>6. Live'
    <3> SUFFICES ASSUME NEW u \in States, st'[u].conn # Nil
                 PROVE  IF conns'[st'[u].conn] = u THEN st'[u].cancelled => DeletePending(u)'
                        ELSE st'[u].cancelled \/ CancelPending(u)'
      BY DEF Live
    <3>1. CASE u = v
      BY <2>1, <2>2, <3>1
    <3>2. CASE u # v
      <4>1. st'[u] = st[u] /\ st[u].conn \in ConnIDs
        BY <2>1, <3>2, StFields DEF BaseInv, StateType
      <4>2. IF conns[st[u].conn] = u THEN ~st[u].cancelled ELSE st[u].cancelled \/ CancelPending(u)
        BY <2>3, <4>1 DEF LiveInv, Live
      <4>3. conns'[st[u].conn] = u <=> conns[st[u].conn] = u
        BY <2>1, <2>2, <3>2, <4>1, NilNot
      <4> QED BY <2>5, <3>2, <4>1, <4>2, <4>3
    <3> QED BY <3>1, <3>2
  <2>7. ASSUME NEW r \in Sources, handler'[r].pc = "cancel"
        PROVE  conns'[handler'[r].conn] # handler'[r].t
    <3>1. /\ handler'[r] = handler[r] /\ handler[r].conn \in ConnIDs /\ handler[r].t \in States
          /\ st[handler[r].t].conn = handler[r].conn
      BY <1>1, <2>7 DEF BaseInv, Pointers, HandlerOK
    <3>2. handler[r].t # v
      BY <2>1, <3>1, NilNot
    <3> QED BY <2>2, <2>7, <3>1, <3>2 DEF LiveInv, CancelledRemoved
  <2>8. ASSUME NEW u \in States, relay'[u].pc = "cancel"
        PROVE  conns'[st'[relay'[u].victim].conn] # relay'[u].victim
    <3>1. relay'[u] = relay[u]
      BY <2>1, <2>8
    <3>2. /\ relay[u].victim \in States /\ st[relay[u].victim].conn \in ConnIDs
      BY <2>8, <3>1 DEF BaseInv, Pointers, RelayOK
    <3>3. relay[u].victim # v /\ st'[relay[u].victim] = st[relay[u].victim]
      BY <2>1, <3>2, NilNot
    <3> QED BY <2>2, <2>8, <3>1, <3>2, <3>3 DEF LiveInv, CancelledRemoved
  <2> QED BY <2>6, <2>7, <2>8 DEF LiveInv, CancelledRemoved
<1> QED BY <1>2, <1>3, <1>4

\* A connState is removed that is cancelled, or that somebody goes on to cancel.
LEMMA LiveForgotten ==
    ASSUME BaseInv, LiveInv, NEW c \in ConnIDs, Forgotten(c), ContextsKept,
           \A s \in Sources : handler[s].pc = "cancel" => handler'[s] = handler[s],
           \A t \in States : relay[t].pc = "cancel" => relay'[t] = relay[t],
           \A t \in States : conns[c] = t => st[t].cancelled \/ CancelPending(t)',
           \A t \in States : DeletePending(t) /\ st[t].conn # c => DeletePending(t)',
           \A s \in Sources : handler'[s].pc = "cancel" =>
              \/ handler'[s] = handler[s]
              \/ handler'[s].conn = c /\ handler'[s].t # Nil,
           \A t \in States : relay'[t].pc = "cancel" =>
              \/ relay'[t] = relay[t]
              \/ relay'[t].victim \in States /\ st[relay'[t].victim].conn = c
    PROVE  LiveInv'
<1>1. conns'[c] = Nil /\ \A d \in ConnIDs \ {c} : conns'[d] = conns[d]
  BY DEF Forgotten
<1>2. \A t \in States : CancelPending(t) => CancelPending(t)'
  BY DEF CancelPending
<1>3. Live'
  <2> SUFFICES ASSUME NEW t \in States, st'[t].conn # Nil
               PROVE  IF conns'[st'[t].conn] = t THEN st'[t].cancelled => DeletePending(t)'
                      ELSE st'[t].cancelled \/ CancelPending(t)'
    BY DEF Live
  <2>1. st'[t].conn = st[t].conn /\ st'[t].cancelled = st[t].cancelled /\ st[t].conn \in ConnIDs
    BY StFields DEF ContextsKept, BaseInv, StateType
  <2>2. IF conns[st[t].conn] = t THEN st[t].cancelled => DeletePending(t)
        ELSE st[t].cancelled \/ CancelPending(t)
    BY <2>1 DEF LiveInv, Live
  <2>3. CASE st[t].conn = c
    <3>1. conns'[st'[t].conn] # t
      BY <1>1, <2>1, <2>3, NilNot
    <3>2. st[t].cancelled \/ CancelPending(t)'
      BY <1>2, <2>2, <2>3
    <3> QED BY <2>1, <3>1, <3>2
  <2>4. CASE st[t].conn # c
    BY <1>1, <1>2, <2>1, <2>2, <2>4
  <2> QED BY <2>3, <2>4
<1>4. ASSUME NEW s \in Sources, handler'[s].pc = "cancel" PROVE conns'[handler'[s].conn] # handler'[s].t
  <2>1. CASE handler'[s] = handler[s]
    <3>1. handler[s].conn \in ConnIDs /\ handler[s].t \in States
      BY <1>4, <2>1 DEF BaseInv, Pointers, HandlerOK
    <3> QED BY <1>1, <1>4, <2>1, <3>1, NilNot DEF LiveInv, CancelledRemoved
  <2>2. CASE handler'[s] # handler[s]
    BY <1>1, <1>4, <2>2
  <2> QED BY <2>1, <2>2
<1>5. ASSUME NEW t \in States, relay'[t].pc = "cancel"
      PROVE  conns'[st'[relay'[t].victim].conn] # relay'[t].victim
  <2>1. CASE relay'[t] = relay[t]
    <3>1. relay[t].victim \in States /\ st[relay[t].victim].conn \in ConnIDs
      BY <1>5, <2>1 DEF BaseInv, Pointers, RelayOK
    <3> QED BY <1>1, <1>5, <2>1, <3>1, NilNot DEF LiveInv, CancelledRemoved, ContextsKept
  <2>2. CASE relay'[t] # relay[t]
    BY <1>1, <1>5, <2>2, NilNot DEF ContextsKept
  <2> QED BY <2>1, <2>2
<1> QED BY <1>3, <1>4, <1>5 DEF LiveInv, CancelledRemoved

\* The context of v is cancelled: it has been removed, or is about to be.
LEMMA LiveCancelled ==
    ASSUME BaseInv, LiveInv, NEW v \in States, st[v].conn # Nil, Cancelled(v), UNCHANGED conns,
           conns[st[v].conn] = v => DeletePending(v)',
           \A s \in Sources : handler[s].pc = "cancel" => handler'[s] = handler[s] \/ handler[s].t = v,
           \A t \in States : relay[t].pc = "cancel" => relay'[t] = relay[t] \/ relay[t].victim = v,
           \A s \in Sources : handler'[s].pc = "cancel" => handler'[s] = handler[s],
           \A t \in States : relay'[t].pc = "cancel" => relay'[t] = relay[t],
           \A t \in States : DeletePending(t) => DeletePending(t)'
    PROVE  LiveInv'
<1>1. st'[v].cancelled /\ st'[v].conn = st[v].conn /\ \A u \in States \ {v} : st'[u] = st[u]
  BY DEF Cancelled
<1>2. \A t \in States \ {v} : CancelPending(t) => CancelPending(t)'
  BY DEF CancelPending
<1>3. Live'
  <2> SUFFICES ASSUME NEW t \in States, st'[t].conn # Nil
               PROVE  IF conns'[st'[t].conn] = t THEN st'[t].cancelled => DeletePending(t)'
                      ELSE st'[t].cancelled \/ CancelPending(t)'
    BY DEF Live
  <2>1. CASE t = v
    BY <1>1, <2>1
  <2>2. CASE t # v
    <3>1. IF conns[st[t].conn] = t THEN st[t].cancelled => DeletePending(t)
          ELSE st[t].cancelled \/ CancelPending(t)
      BY <1>1, <2>2 DEF LiveInv, Live
    <3> QED BY <1>1, <1>2, <2>2, <3>1
  <2> QED BY <2>1, <2>2
<1>4. CancelledRemoved'
  <2>1. \A t \in States : relay[t].pc = "cancel" => relay[t].victim \in States
    BY DEF BaseInv, Pointers, RelayOK
  <2> QED BY <1>1, <2>1 DEF LiveInv, CancelledRemoved
<1> QED BY <1>3, <1>4 DEF LiveInv

\* Steps of a handler that neither remove nor cancel.
LEMMA LiveHandler ==
    ASSUME BaseInv, LiveInv, NEW s \in Sources,
           \/ LookupStep(s) \/ handleData(s) \/ handleFIN(s) \/ PushChunk(s) \/ ReadError(s)
           \/ HandlerExit(s)
    PROVE  LiveInv'
<1>1. /\ UNCHANGED <<conns, relay, cleaner>> /\ ContextsKept
      /\ \A r \in Sources \ {s} : handler'[r] = handler[r]
      /\ handler[s].pc \notin {"cancel", "orphan"} /\ handler'[s].pc \notin {"cancel", "orphan"}
  <2>1. CASE LookupStep(s)
    BY <2>1, LookupSteps, StCalm DEF LookupStep, FrameRead
  <2>2. CASE handleData(s)
    BY <2>2, DataStep DEF HandlerLocal
  <2>3. CASE handleFIN(s)
    BY <2>3, FinStep DEF HandlerLocal
  <2>4. CASE PushChunk(s)
    BY <2>4, PushStep, StCalm
  <2>5. CASE ReadError(s)
    BY <2>5, ReadErrorStep, StCalm
  <2>6. CASE HandlerExit(s)
    BY <2>6, HandlerExitStep, StCalm
  <2> QED BY <2>1, <2>2, <2>3, <2>4, <2>5, <2>6
<1> QED BY <1>1, LiveKept DEF CancelsKept, DeletesKept

LEMMA LiveDelete ==
    ASSUME BaseInv, LiveInv, NEW s \in Sources, HandlerDelete(s)
    PROVE  LiveInv'
<1> DEFINE c == handler[s].conn
<1>1. /\ c \in ConnIDs /\ csLock = "free" /\ Forgotten(c) /\ ContextsKept
      /\ handler[s].pc = "delete" /\ UNCHANGED relay
      /\ \A r \in Sources \ {s} : handler'[r] = handler[r]
      /\ IF conns[c] = Nil THEN handler'[s].pc = "read"
         ELSE handler'[s].pc = "cancel" /\ handler'[s].conn = c /\ handler'[s].t = conns[c]
  BY HandlerDeleteStep
<1> HIDE DEF c
<1>2. \A t \in States : ~DeletePending(t)
  BY <1>1, FreeLock DEF DeletePending
<1>3. ASSUME NEW t \in States, conns[c] = t PROVE CancelPending(t)'
  <2>1. handler'[s].pc = "cancel" /\ handler'[s].t = t
    BY <1>1, <1>3, NilNot
  <2> QED BY <2>1 DEF CancelPending
<1>4. ASSUME NEW r \in Sources, handler'[r].pc = "cancel"
      PROVE  handler'[r] = handler[r] \/ (handler'[r].conn = c /\ handler'[r].t # Nil)
  BY <1>1, <1>4
<1> QED BY <1>1, <1>2, <1>3, <1>4, LiveForgotten

LEMMA LiveOrphan ==
    ASSUME BaseInv, LiveInv, NEW s \in Sources, CloseOrphan(s)
    PROVE  LiveInv'
<1> DEFINE c == handler[s].conn
<1>1. /\ c \in ConnIDs /\ conns[c] # Nil /\ st[conns[c]].cancelled /\ Forgotten(c) /\ ContextsKept
      /\ handler[s].pc = "orphan" /\ handler'[s].pc = "cleanup" /\ UNCHANGED <<relay, cleaner>>
      /\ \A r \in Sources \ {s} : handler'[r] = handler[r]
  BY CloseOrphanStep
<1>2. ASSUME NEW t \in States, DeletePending(t) PROVE st[t].conn = c
  <2>1. cleaner = Nil /\ \A r \in Sources \ {s} : handler[r].pc # "orphan"
    BY <1>1, HeldLock
  <2>2. conns[c] = t
    BY <1>2, <2>1 DEF DeletePending
  <2> QED BY <1>1, <2>2 DEF BaseInv, Pointers
<1> HIDE DEF c
<1>3. /\ \A r \in Sources : handler[r].pc = "cancel" \/ handler'[r].pc = "cancel" => handler'[r] = handler[r]
      /\ \A t \in States : conns[c] = t => st[t].cancelled
  BY <1>1
<1> QED BY <1>1, <1>2, <1>3, LiveForgotten

LEMMA LiveRelayDelete ==
    ASSUME BaseInv, LiveInv, NEW t \in States, RelayDelete(t)
    PROVE  LiveInv'
<1> DEFINE c == st[t].conn
<1>1. /\ c \in ConnIDs /\ csLock = "free" /\ Forgotten(c) /\ ContextsKept
      /\ relay[t].pc = "delete" /\ UNCHANGED handler
      /\ \A u \in States \ {t} : relay'[u] = relay[u]
      /\ relay'[t].victim = conns[c] /\ relay'[t].pc = IF conns[c] = Nil THEN "done" ELSE "cancel"
  BY RelayDeleteStep
<1> HIDE DEF c
<1>2. \A u \in States : ~DeletePending(u)
  BY <1>1, FreeLock DEF DeletePending
<1>3. ASSUME NEW u \in States, conns[c] = u PROVE CancelPending(u)'
  <2>1. relay'[t].pc = "cancel" /\ relay'[t].victim = u
    BY <1>1, <1>3, NilNot
  <2> QED BY <2>1 DEF CancelPending
<1>4. ASSUME NEW u \in States, relay'[u].pc = "cancel"
      PROVE  relay'[u] = relay[u] \/ (relay'[u].victim \in States /\ st[relay'[u].victim].conn = c)
  <2>1. u = t => conns[c] # Nil
    BY <1>1, <1>4
  <2>2. conns[c] # Nil => conns[c] \in States /\ st[conns[c]].conn = c
    BY <1>1 DEF BaseInv, Types, Pointers
  <2> QED BY <1>1, <2>1, <2>2
<1> QED BY <1>1, <1>2, <1>3, <1>4, LiveForgotten

LEMMA LiveStale ==
    ASSUME BaseInv, LiveInv, CloseStale
    PROVE  LiveInv'
<1> DEFINE c == cleaner
<1>1. /\ c \in ConnIDs /\ conns[c] # Nil /\ st[conns[c]].cancelled /\ Forgotten(c) /\ ContextsKept
      /\ UNCHANGED <<handler, relay>>
  BY CloseStaleStep
<1>2. ASSUME NEW t \in States, DeletePending(t) PROVE st[t].conn = c
  <2>1. \A r \in Sources : handler[r].pc # "orphan"
    BY <1>1, NilNot DEF BaseInv, Locks
  <2>2. conns[c] = t
    BY <1>2, <2>1 DEF DeletePending
  <2> QED BY <1>1, <2>2 DEF BaseInv, Pointers
<1> HIDE DEF c
<1> QED BY <1>1, <1>2, LiveForgotten

LEMMA LiveCancels ==
    ASSUME BaseInv, LiveInv,
           \/ \E s \in Sources : HandlerCancel(s)
           \/ \E t \in States : RelayCancel(t)
           \/ \E c \in ConnIDs : cleanupLoop(c)
    PROVE  LiveInv'
<1>1. ASSUME NEW s \in Sources, HandlerCancel(s) PROVE LiveInv'
  <2> DEFINE v == handler[s].t
  <2>1. /\ v \in States /\ Cancelled(v) /\ st[v].conn = handler[s].conn /\ handler[s].conn \in ConnIDs
        /\ handler[s].pc = "cancel" /\ handler'[s].pc = "read"
        /\ UNCHANGED <<conns, relay, cleaner>> /\ \A r \in Sources \ {s} : handler'[r] = handler[r]
    BY <1>1, HandlerCancelStep
  <2>2. conns[st[v].conn] # v /\ st[v].conn # Nil
    BY <2>1, NilNot DEF LiveInv, CancelledRemoved
  <2>3. \A t \in States : DeletePending(t) => DeletePending(t)'
    BY <2>1 DEF DeletePending
  <2>4. \A r \in Sources : handler[r].pc = "cancel" => handler'[r] = handler[r] \/ handler[r].t = v
    BY <2>1
  <2> HIDE DEF v
  <2>5. \A r \in Sources : handler'[r].pc = "cancel" => handler'[r] = handler[r]
    BY <2>1
  <2> QED BY <2>1, <2>2, <2>3, <2>4, <2>5, LiveCancelled
<1>2. ASSUME NEW t \in States, RelayCancel(t) PROVE LiveInv'
  <2> DEFINE v == relay[t].victim
  <2>1. /\ v \in States /\ Cancelled(v) /\ st[v].conn \in ConnIDs
        /\ relay[t].pc = "cancel" /\ relay'[t].pc = "done"
        /\ UNCHANGED <<conns, handler, cleaner>> /\ \A u \in States \ {t} : relay'[u] = relay[u]
    BY <1>2, RelayCancelStep
  <2>2. conns[st[v].conn] # v /\ st[v].conn # Nil
    BY <2>1, NilNot DEF LiveInv, CancelledRemoved
  <2>3. \A u \in States : DeletePending(u) => DeletePending(u)'
    BY <2>1 DEF DeletePending
  <2>4. \A u \in States : relay[u].pc = "cancel" => relay'[u] = relay[u] \/ relay[u].victim = v
    BY <2>1
  <2> HIDE DEF v
  <2>5. \A u \in States : relay'[u].pc = "cancel" => relay'[u] = relay[u]
    BY <2>1
  <2> QED BY <2>1, <2>2, <2>3, <2>4, <2>5, LiveCancelled
<1>3. ASSUME NEW c \in ConnIDs, cleanupLoop(c) PROVE LiveInv'
  <2>1. /\ conns[c] \in States /\ Cancelled(conns[c]) /\ cleaner = Nil /\ cleaner' = c
        /\ UNCHANGED <<conns, handler, relay>>
    BY <1>3, CleanupLoopStep
  <2>2. PICK v \in States : v = conns[c]
    BY <2>1
  <2>3. st[v].conn = c /\ c # Nil
    BY <2>2, NilNot DEF BaseInv, Pointers
  <2>4. \A u \in States : DeletePending(u) => DeletePending(u)'
    BY <2>1 DEF DeletePending
  <2>5. DeletePending(v)'
    BY <2>1, <2>2, <2>3 DEF DeletePending
  <2> QED BY <2>1, <2>2, <2>3, <2>4, <2>5, LiveCancelled
<1> QED BY <1>1, <1>2, <1>3

LEMMA LiveCleanup ==
    ASSUME BaseInv, LiveInv, NEW s \in Sources, NEW c \in ConnIDs, cleanupSource(s, c)
    PROVE  LiveInv'
<1>1. /\ UNCHANGED <<conns, relay, cleaner>> /\ handler[s].pc = "cleanup"
      /\ \A r \in Sources \ {s} : handler'[r] = handler[r]
  BY CleanupStep
<1>2. CASE handler'[s].pc = "cleanup"
  <2>1. ContextsKept
    BY <1>2, CleanupStep
  <2> QED BY <1>1, <1>2, <2>1, LiveKept DEF CancelsKept, DeletesKept
<1>3. CASE handler'[s].pc = "orphan"
  <2>1. conns[c] # Nil /\ handler'[s].conn = c /\ Cancelled(conns[c])
    BY <1>3, CleanupStep
  <2>2. PICK v \in States : v = conns[c]
    BY <2>1 DEF BaseInv, Types
  <2>3. st[v].conn = c /\ c # Nil
    BY <2>1, <2>2, NilNot DEF BaseInv, Pointers
  <2>4. DeletePending(v)'
    BY <1>1, <1>3, <2>1, <2>2 DEF DeletePending
  <2>5. \A u \in States : DeletePending(u) => DeletePending(u)'
    BY <1>1 DEF DeletePending
  <2>6. \A r \in Sources : handler[r].pc = "cancel" \/ handler'[r].pc = "cancel" => handler'[r] = handler[r]
    BY <1>1, <1>3
  <2> QED BY <1>1, <2>1, <2>2, <2>3, <2>4, <2>5, <2>6, LiveCancelled
<1> QED BY <1>2, <1>3, CleanupStep

LEMMA LiveNext == ASSUME BaseInv, LiveInv, [NextStep]_vars PROVE LiveInv'
<1>1. CASE CalmStep
  <2>1. Calm
    BY <1>1, CalmSteps
  <2>2. CancelsKept /\ DeletesKept
    BY <2>1 DEF Calm, RelayCalm, CancelsKept, DeletesKept
  <2> QED BY <2>1, <2>2, LiveKept DEF Calm
<1>2. ASSUME UNCHANGED <<conns, st, handler, relay, cleaner>> PROVE LiveInv'
  BY <1>2, StCalm, LiveKept DEF CancelsKept, DeletesKept
<1>3. ASSUME NEW c \in ConnIDs, ClientStep(c) PROVE LiveInv'
  BY <1>2, <1>3, ClientSteps DEF serverVars
<1>4. ASSUME NEW t \in States, QueueStep(t) PROVE LiveInv'
  BY <1>2, <1>4, WriterSteps DEF QueueStep
<1>5. ASSUME NEW t \in States, Install(t) \/ Flush(t) PROVE LiveInv'
  <2>1. /\ UNCHANGED <<conns, handler, cleaner>> /\ ContextsKept
        /\ \A u \in States \ {t} : relay'[u] = relay[u]
        /\ relay[t].pc # "cancel" /\ relay'[t].pc # "cancel"
    <3>1. CASE Install(t)
      BY <3>1, InstallStep
    <3>2. CASE Flush(t)
      BY <3>2, FlushStep, StCalm
    <3> QED BY <1>5, <3>1, <3>2
  <2> QED BY <2>1, LiveKept DEF CancelsKept, DeletesKept
<1> QED BY <1>1, <1>3, <1>4, <1>5, StepCases, LiveSyn, LiveHandler, LiveDelete, LiveOrphan,
          LiveRelayDelete, LiveStale, LiveCancels, LiveCleanup

LEMMA LiveInit == Init => LiveInv
<1> SUFFICES ASSUME Init PROVE LiveInv
  OBVIOUS
<1>1. (\A t \in States : st[t].conn = Nil) /\ (\A s \in Sources : handler[s].pc = "read")
      /\ \A t \in States : relay[t].pc = "none"
  BY DEF Init, Unallocated, IdleHandler, IdleRelay
<1> QED BY <1>1 DEF LiveInv, Live, CancelledRemoved

\* A connState is in cs.conns exactly while its context is live, whatever
\* the handlers, the relays, cleanupSource and cleanupLoop do in between; and
\* no goroutine dereferences a nil connState (TypeOK is part of the property).
THEOREM Registration == Spec => []RegisteredIffLive
<1>1. Init => BaseInv /\ LiveInv
  BY BaseInit, LiveInit
<1>2. BaseInv /\ LiveInv /\ [NextStep]_vars => (BaseInv /\ LiveInv)'
  BY BaseNext, LiveNext
<1>3. BaseInv /\ LiveInv => RegisteredIffLive
  BY BaseTypeOK DEF LiveInv, Live, RegisteredIffLive
<1> QED BY <1>1, <1>2, <1>3, PTL DEF Spec

-----------------------------------------------------------------------------
(* No chunk is in two places.                                              *)

LEMMA ChunkTypes ==
    ASSUME BaseInv, NEW t \in States
    PROVE  /\ Past(t) \subseteq Int /\ RelayBatch(t) \subseteq Int
           /\ \A s \in Sources : HandlerBatch(s, t) \subseteq Int
           /\ wq[t] \in Seq(SeqNum) /\ written[t] \in Seq(SeqNum)
           /\ st[t].reord.nextSeq \in Int
<1>1. wq[t] \in Seq(SeqNum) /\ written[t] \in Seq(SeqNum)
  BY DEF BaseInv, Types
<1>2. SeqNum \subseteq Int
  BY SeqSpaceAssumption DEF SeqNum
<1>3. ToSet(wq[t]) \subseteq SeqNum /\ ToSet(written[t]) \subseteq SeqNum
  BY <1>1 DEF ToSet
<1>4. st[t].reord.nextSeq \in Int
  BY StFields DEF BaseInv
<1>5. RelayBatch(t) \subseteq Int /\ \A s \in Sources : HandlerBatch(s, t) \subseteq Int
  BY DEF RelayBatch, HandlerBatch
<1> QED BY <1>1, <1>2, <1>3, <1>4, <1>5 DEF Past

\* Chunks are dropped, or move from the queue to the upstream.
LEMMA ChunkShrinks ==
    ASSUME BaseInv, BaseInv', NEW t \in States, ChunkOK(t),
           Distinct(written'[t]), Distinct(wq'[t]), ToSet(written'[t]) \cap ToSet(wq'[t]) = {},
           Past(t)' \subseteq Past(t), RelayBatch(t)' \subseteq RelayBatch(t),
           \A s \in Sources : HandlerBatch(s, t)' \subseteq HandlerBatch(s, t),
           st[t].reord.nextSeq <= st'[t].reord.nextSeq
    PROVE  ChunkOK(t)'
<1>1. /\ Past(t) \subseteq Int /\ RelayBatch(t) \subseteq Int
      /\ \A s \in Sources : HandlerBatch(s, t) \subseteq Int
      /\ st[t].reord.nextSeq \in Int
  BY ChunkTypes
<1>2. st'[t].reord.nextSeq \in Int
  BY ChunkTypes DEF BaseInv, Types, StateType, ReordererType, SeqNum
<1>3. \A x \in Past(t)' \cup RelayBatch(t)' : x < st'[t].reord.nextSeq
  BY <1>1, <1>2 DEF ChunkOK
<1>4. ASSUME NEW s \in Sources
      PROVE  /\ HandlerBatch(s, t)' \cap (Past(t)' \cup RelayBatch(t)') = {}
             /\ \A s2 \in Sources \ {s} : HandlerBatch(s, t)' \cap HandlerBatch(s2, t)' = {}
             /\ \A x \in HandlerBatch(s, t)' : x < st'[t].reord.nextSeq
  BY <1>1, <1>2 DEF ChunkOK
<1>5. RelayBatch(t)' \cap Past(t)' = {}
  BY DEF ChunkOK
<1> QED BY <1>3, <1>4, <1>5 DEF ChunkOK

LEMMA BatchShrinks ==
    ASSUME NEW t \in States
    PROVE  /\ \A s \in Sources :
                 handler'[s] = handler[s] \/ (handler'[s].lo = 0 /\ handler'[s].hi = 0)
                    => HandlerBatch(s, t)' \subseteq HandlerBatch(s, t)
           /\ relay'[t] = relay[t] \/ (relay'[t].lo = 0 /\ relay'[t].hi = 0)
                 => RelayBatch(t)' \subseteq RelayBatch(t)
<1>1. 0 .. 0 - 1 = {}
  OBVIOUS
<1>2. ASSUME NEW s \in Sources, handler'[s] = handler[s]
      PROVE  HandlerBatch(s, t)' \subseteq HandlerBatch(s, t)
  BY <1>2 DEF HandlerBatch
<1>3. ASSUME NEW s \in Sources, handler'[s].lo = 0, handler'[s].hi = 0
      PROVE  HandlerBatch(s, t)' \subseteq HandlerBatch(s, t)
  BY <1>1, <1>3 DEF HandlerBatch
<1>4. relay'[t] = relay[t] => RelayBatch(t)' \subseteq RelayBatch(t)
  BY DEF RelayBatch
<1>5. relay'[t].lo = 0 /\ relay'[t].hi = 0 => RelayBatch(t)' \subseteq RelayBatch(t)
  BY <1>1 DEF RelayBatch
<1> QED BY <1>2, <1>3, <1>4, <1>5

\* The queue of t is left alone, and no goroutine takes chunks of t.
LEMMA ChunkKept ==
    ASSUME BaseInv, BaseInv', NEW t \in States, ChunkOK(t),
           wq'[t] = wq[t], written'[t] = written[t],
           st[t].reord.nextSeq <= st'[t].reord.nextSeq,
           RelayBatch(t)' \subseteq RelayBatch(t),
           \A s \in Sources : HandlerBatch(s, t)' \subseteq HandlerBatch(s, t)
    PROVE  ChunkOK(t)'
<1>1. Past(t)' = Past(t)
  BY DEF Past
<1>2. Distinct(written'[t]) /\ Distinct(wq'[t]) /\ ToSet(written'[t]) \cap ToSet(wq'[t]) = {}
  BY DEF ChunkOK
<1> QED BY <1>1, <1>2, ChunkShrinks

\* A step that moves no chunk of any connState.
LEMMA ChunksStay ==
    ASSUME BaseInv, BaseInv', ChunkInv, StKept, UNCHANGED <<wq, written>>,
           \A s \in Sources : handler'[s] = handler[s] \/ (handler'[s].lo = 0 /\ handler'[s].hi = 0),
           \A t \in States : relay'[t] = relay[t] \/ (relay'[t].lo = 0 /\ relay'[t].hi = 0)
    PROVE  ChunkInv'
<1> SUFFICES ASSUME NEW t \in States PROVE ChunkOK(t)'
  BY DEF ChunkInv
<1>1. st[t].reord.nextSeq <= st'[t].reord.nextSeq /\ ChunkOK(t)
  BY DEF StKept, ChunkInv
<1>2. RelayBatch(t)' \subseteq RelayBatch(t)
      /\ \A s \in Sources : HandlerBatch(s, t)' \subseteq HandlerBatch(s, t)
  BY BatchShrinks
<1> QED BY <1>1, <1>2, ChunkKept

\* Chunk x is taken out of a batch and queued.
LEMMA ChunkMoved ==
    ASSUME BaseInv, BaseInv', NEW t \in States, ChunkOK(t), NEW x \in SeqNum,
           x \notin Past(t), x < st[t].reord.nextSeq,
           wq'[t] = Append(wq[t], x), written'[t] = written[t], st'[t] = st[t],
           RelayBatch(t)' \subseteq RelayBatch(t) \ {x},
           \A s \in Sources : HandlerBatch(s, t)' \subseteq HandlerBatch(s, t) \ {x}
    PROVE  ChunkOK(t)'
<1>1. wq[t] \in Seq(SeqNum)
  BY ChunkTypes
<1>2. ToSet(wq'[t]) = ToSet(wq[t]) \cup {x} /\ Distinct(wq'[t])
  <2>1. x \notin ToSet(wq[t]) /\ Distinct(wq[t])
    BY DEF Past, ChunkOK
  <2> QED BY <1>1, <2>1, AppendFacts
<1>3. Past(t)' = Past(t) \cup {x}
  BY <1>2 DEF Past
<1>4. Distinct(written'[t]) /\ ToSet(written'[t]) \cap ToSet(wq'[t]) = {}
  BY <1>2 DEF ChunkOK, Past
<1>5. RelayBatch(t)' \cap Past(t)' = {}
  BY <1>3 DEF ChunkOK
<1>6. ASSUME NEW s \in Sources
      PROVE  /\ HandlerBatch(s, t)' \cap (Past(t)' \cup RelayBatch(t)') = {}
             /\ \A s2 \in Sources \ {s} : HandlerBatch(s, t)' \cap HandlerBatch(s2, t)' = {}
             /\ \A y \in HandlerBatch(s, t)' : y < st'[t].reord.nextSeq
  BY <1>3 DEF ChunkOK
<1>7. \A y \in Past(t)' \cup RelayBatch(t)' : y < st'[t].reord.nextSeq
  BY <1>3 DEF ChunkOK
<1> QED BY <1>2, <1>4, <1>5, <1>6, <1>7 DEF ChunkOK

\* A handler takes the chunks that a drain hands out: all of them are new.
LEMMA ChunksTaken ==
    ASSUME BaseInv, BaseInv', ChunkInv, NEW s \in Sources, handler[s].t \in States,
           BatchTaken(s), StKept, UNCHANGED <<wq, written, relay>>,
           \A r \in Sources \ {s} : handler'[r] = handler[r]
    PROVE  ChunkInv'
<1> SUFFICES ASSUME NEW t \in States PROVE ChunkOK(t)'
  BY DEF ChunkInv
<1>1. st[t].reord.nextSeq <= st'[t].reord.nextSeq /\ ChunkOK(t)
  BY DEF StKept, ChunkInv
<1>2. /\ RelayBatch(t)' = RelayBatch(t) /\ Past(t)' = Past(t)
      /\ \A r \in Sources \ {s} : HandlerBatch(r, t)' = HandlerBatch(r, t)
  BY DEF RelayBatch, Past, HandlerBatch
<1>3. CASE (handler'[s].lo = 0 /\ handler'[s].hi = 0) \/ handler'[s].t # t
  <2>1. HandlerBatch(s, t)' \subseteq HandlerBatch(s, t)
    <3>1. CASE handler'[s].lo = 0 /\ handler'[s].hi = 0
      BY <3>1, BatchShrinks
    <3>2. CASE handler'[s].t # t
      BY <3>2 DEF HandlerBatch
    <3> QED BY <1>3, <3>1, <3>2
  <2>2. \A r \in Sources : HandlerBatch(r, t)' \subseteq HandlerBatch(r, t)
    BY <1>2, <2>1
  <2> QED BY <1>1, <1>2, <2>2, ChunkKept
<1>4. CASE ~(handler'[s].lo = 0 /\ handler'[s].hi = 0) /\ handler'[s].t = t
  <2> DEFINE n == st[t].reord.nextSeq
             m == st'[t].reord.nextSeq
  <2>1. handler[s].t = t /\ n <= handler'[s].lo /\ handler'[s].hi <= m
    BY <1>4 DEF BatchTaken
  <2>2. n \in Int /\ handler'[s].lo \in Int /\ handler'[s].hi \in Int /\ m \in Int
    <3>1. SeqNum \subseteq Int
      BY SeqSpaceAssumption DEF SeqNum
    <3>2. handler'[s] \in HandlerType /\ st'[t].reord \in ReordererType
      BY DEF BaseInv, Types, StateType
    <3> QED BY <3>1, <3>2, StFields DEF BaseInv, HandlerType, ReordererType
  <2>3. HandlerBatch(s, t)' = handler'[s].lo .. handler'[s].hi - 1
    BY <1>4 DEF HandlerBatch
  <2>4. \A x \in HandlerBatch(s, t)' : n <= x /\ x < m /\ x \in Int
    <3> HIDE DEF n, m
    <3> QED BY <2>1, <2>2, <2>3
  <2>5. /\ Past(t) \subseteq Int /\ RelayBatch(t) \subseteq Int
        /\ \A r \in Sources : HandlerBatch(r, t) \subseteq Int
    BY ChunkTypes
  <2>6. /\ \A x \in Past(t) \cup RelayBatch(t) : x < n
        /\ \A r \in Sources : \A x \in HandlerBatch(r, t) : x < n
    BY <1>1 DEF ChunkOK
  <2>7. HandlerBatch(s, t)' \cap (Past(t)' \cup RelayBatch(t)') = {}
    <3> HIDE DEF n, m
    <3> QED BY <1>2, <2>2, <2>4, <2>5, <2>6
  <2>8. \A r \in Sources \ {s} : HandlerBatch(s, t)' \cap HandlerBatch(r, t)' = {}
    <3> HIDE DEF n, m
    <3> QED BY <1>2, <2>2, <2>4, <2>5, <2>6
  <2>9. /\ \A x \in Past(t)' \cup RelayBatch(t)' : x < m
        /\ \A r \in Sources : \A x \in HandlerBatch(r, t)' : x < m
    <3>1. n <= m
      BY <1>1
    <3> HIDE DEF n, m
    <3> QED BY <1>2, <2>2, <2>4, <2>5, <2>6, <3>1
  <2>10. /\ Distinct(written'[t]) /\ Distinct(wq'[t]) /\ ToSet(written'[t]) \cap ToSet(wq'[t]) = {}
         /\ RelayBatch(t)' \cap Past(t)' = {}
    BY <1>1, <1>2 DEF ChunkOK
  <2>11. ASSUME NEW r \in Sources
         PROVE  /\ HandlerBatch(r, t)' \cap (Past(t)' \cup RelayBatch(t)') = {}
                /\ \A r2 \in Sources \ {r} : HandlerBatch(r, t)' \cap HandlerBatch(r2, t)' = {}
    <3>1. CASE r = s
      BY <2>7, <2>8, <3>1
    <3>2. CASE r # s
      BY <1>1, <1>2, <2>8, <3>2 DEF ChunkOK
    <3> QED BY <3>1, <3>2
  <2> QED BY <2>9, <2>10, <2>11 DEF ChunkOK
<1> QED BY <1>3, <1>4

\* connectUpstream takes the chunks that were buffered before it connected.
LEMMA ChunkInstall ==
    ASSUME BaseInv, ChunkInv, NEW v \in States, Install(v)
    PROVE  ChunkInv'
<1>1. /\ BaseInv' /\ StKept /\ UNCHANGED <<wq, written, handler>>
      /\ \A u \in States \ {v} : relay'[u] = relay[u]
      /\ \/ relay'[v].lo = 0 /\ relay'[v].hi = 0
         \/ st[v].reord.nextSeq <= relay'[v].lo /\ relay'[v].hi <= st'[v].reord.nextSeq
  BY InstallStep
<1> SUFFICES ASSUME NEW t \in States PROVE ChunkOK(t)'
  BY DEF ChunkInv
<1>2. st[t].reord.nextSeq <= st'[t].reord.nextSeq /\ ChunkOK(t)
  BY <1>1 DEF StKept, ChunkInv
<1>3. Past(t)' = Past(t) /\ \A r \in Sources : HandlerBatch(r, t)' = HandlerBatch(r, t)
  BY <1>1 DEF Past, HandlerBatch
<1>4. CASE relay'[t] = relay[t] \/ (relay'[t].lo = 0 /\ relay'[t].hi = 0)
  BY <1>1, <1>2, <1>3, <1>4, BatchShrinks, ChunkKept
<1>5. CASE t = v /\ st[t].reord.nextSeq <= relay'[t].lo /\ relay'[t].hi <= st'[t].reord.nextSeq
  <2> DEFINE n == st[t].reord.nextSeq
             m == st'[t].reord.nextSeq
  <2>1. n \in Int /\ relay'[t].lo \in Int /\ relay'[t].hi \in Int /\ m \in Int
    <3>1. SeqNum \subseteq Int
      BY SeqSpaceAssumption DEF SeqNum
    <3>2. relay'[t] \in RelayType /\ st'[t].reord \in ReordererType
      BY <1>1 DEF BaseInv, Types, StateType
    <3> QED BY <3>1, <3>2, StFields DEF BaseInv, RelayType, ReordererType
  <2>2. n <= relay'[t].lo /\ relay'[t].hi <= m /\ n <= m
    BY <1>2, <1>5
  <2>3. /\ Past(t) \subseteq Int /\ \A r \in Sources : HandlerBatch(r, t) \subseteq Int
    BY ChunkTypes
  <2>4. /\ \A x \in Past(t) : x < n
        /\ \A r \in Sources : \A x \in HandlerBatch(r, t) : x < n
    BY <1>2 DEF ChunkOK
  <2>5. \A x \in RelayBatch(t)' : n <= x /\ x < m /\ x \in Int
    <3>1. RelayBatch(t)' = relay'[t].lo .. relay'[t].hi - 1
      BY DEF RelayBatch
    <3> HIDE DEF n, m
    <3> QED BY <2>1, <2>2, <3>1
  <2>6. RelayBatch(t)' \cap Past(t)' = {}
    <3> HIDE DEF n, m
    <3> QED BY <1>3, <2>1, <2>3, <2>4, <2>5
  <2>7. /\ \A x \in Past(t)' \cup RelayBatch(t)' : x < m
        /\ \A r \in Sources : \A x \in HandlerBatch(r, t)' : x < m
    <3> HIDE DEF n, m
    <3> QED BY <1>3, <2>1, <2>2, <2>3, <2>4, <2>5
  <2>8. ASSUME NEW r \in Sources
        PROVE  /\ HandlerBatch(r, t)' \cap (Past(t)' \cup RelayBatch(t)') = {}
               /\ \A r2 \in Sources \ {r} : HandlerBatch(r, t)' \cap HandlerBatch(r2, t)' = {}
    <3>1. HandlerBatch(r, t)' \cap RelayBatch(t)' = {}
      <4> HIDE DEF n, m
      <4> QED BY <1>3, <2>1, <2>3, <2>4, <2>5
    <3> QED BY <1>2, <1>3, <3>1 DEF ChunkOK
  <2>9. Distinct(written'[t]) /\ Distinct(wq'[t]) /\ ToSet(written'[t]) \cap ToSet(wq'[t]) = {}
    BY <1>1, <1>2 DEF ChunkOK
  <2> QED BY <2>6, <2>7, <2>8, <2>9 DEF ChunkOK
<1> QED BY <1>1, <1>4, <1>5

\* What is left of a batch after its first chunk.
LEMMA BatchRest ==
    ASSUME NEW lo \in SeqNum, NEW hi \in SeqNum, lo < hi
    PROVE  /\ lo \in lo .. hi - 1
           /\ (lo + 1) .. hi - 1 \subseteq (lo .. hi - 1) \ {lo}
BY SeqSpaceAssumption DEF SeqNum

LEMMA ChunkPush ==
    ASSUME BaseInv, ChunkInv, NEW s \in Sources, PushChunk(s)
    PROVE  ChunkInv'
<1> DEFINE x == handler[s].lo
           v == handler[s].t
<1>1. /\ BaseInv' /\ UNCHANGED <<st, written, relay>> /\ v \in States
      /\ x \in SeqNum /\ x < handler[s].hi
      /\ wq'[v] \in {wq[v], Append(wq[v], x)} /\ \A u \in States \ {v} : wq'[u] = wq[u]
      /\ \A r \in Sources \ {s} : handler'[r] = handler[r]
      /\ \/ handler'[s].lo = 0 /\ handler'[s].hi = 0
         \/ handler'[s].t = v /\ handler'[s].hi = handler[s].hi /\ handler'[s].lo = x + 1
  BY PushStep
<1>2. handler[s].hi \in SeqNum
  BY DEF BaseInv, Types, HandlerType
<1>3. HandlerBatch(s, v) = x .. handler[s].hi - 1
  BY DEF HandlerBatch
<1>4. x \in HandlerBatch(s, v)
  BY <1>1, <1>2, <1>3, BatchRest
<1> HIDE DEF x, v
<1> SUFFICES ASSUME NEW t \in States PROVE ChunkOK(t)'
  BY DEF ChunkInv
<1>5. ChunkOK(t) /\ st[t].reord.nextSeq <= st'[t].reord.nextSeq /\ RelayBatch(t)' = RelayBatch(t)
      /\ \A r \in Sources \ {s} : HandlerBatch(r, t)' = HandlerBatch(r, t)
  <2>1. st[t].reord.nextSeq \in Int
    BY ChunkTypes
  <2> QED BY <1>1, <2>1 DEF ChunkInv, RelayBatch, HandlerBatch
<1>6. HandlerBatch(s, t)' \subseteq HandlerBatch(s, t) /\ (t = v => x \notin HandlerBatch(s, t)')
  <2>1. CASE handler'[s].lo = 0 /\ handler'[s].hi = 0
    <3>1. HandlerBatch(s, t)' = {}
      <4>1. 0 .. 0 - 1 = {}
        OBVIOUS
      <4> QED BY <2>1, <4>1 DEF HandlerBatch
    <3> QED BY <3>1
  <2>2. CASE handler'[s].t = v /\ handler'[s].hi = handler[s].hi /\ handler'[s].lo = x + 1
    <3>1. CASE t = v
      <4>1. HandlerBatch(s, t)' = (x + 1) .. handler[s].hi - 1
        BY <2>2, <3>1 DEF HandlerBatch
      <4> QED BY <1>1, <1>2, <1>3, <3>1, <4>1, BatchRest
    <3>2. CASE t # v
      BY <2>2, <3>2 DEF HandlerBatch
    <3> QED BY <3>1, <3>2
  <2> QED BY <1>1, <2>1, <2>2
<1>7. CASE wq'[t] = wq[t]
  <2>1. \A r \in Sources : HandlerBatch(r, t)' \subseteq HandlerBatch(r, t)
    BY <1>5, <1>6
  <2> QED BY <1>1, <1>5, <1>7, <2>1, ChunkKept
<1>8. CASE t = v /\ wq'[t] = Append(wq[t], x)
  <2>1. x \notin Past(t) /\ x \notin RelayBatch(t) /\ x < st[t].reord.nextSeq
    BY <1>4, <1>5, <1>8 DEF ChunkOK
  <2>2. \A r \in Sources : HandlerBatch(r, t)' \subseteq HandlerBatch(r, t) \ {x}
    <3>1. \A r \in Sources \ {s} : x \notin HandlerBatch(r, t)
      BY <1>4, <1>5, <1>8 DEF ChunkOK
    <3> QED BY <1>5, <1>6, <1>8, <3>1
  <2> QED BY <1>1, <1>5, <1>8, <2>1, <2>2, ChunkMoved
<1> QED BY <1>1, <1>7, <1>8

LEMMA ChunkFlush ==
    ASSUME BaseInv, ChunkInv, NEW v \in States, Flush(v)
    PROVE  ChunkInv'
<1> DEFINE x == relay[v].lo
<1>1. /\ BaseInv' /\ UNCHANGED <<st, written, handler>>
      /\ x \in SeqNum /\ x < relay[v].hi
      /\ wq'[v] \in {wq[v], Append(wq[v], x)}
      /\ \A u \in States \ {v} : relay'[u] = relay[u] /\ wq'[u] = wq[u]
      /\ \/ relay'[v].lo = 0 /\ relay'[v].hi = 0
         \/ relay'[v].lo = x + 1 /\ relay'[v].hi = relay[v].hi
  BY FlushStep
<1>2. relay[v].hi \in SeqNum
  BY DEF BaseInv, Types, RelayType
<1>3. RelayBatch(v) = x .. relay[v].hi - 1
  BY DEF RelayBatch
<1>4. x \in RelayBatch(v)
  BY <1>1, <1>2, <1>3, BatchRest
<1> HIDE DEF x
<1> SUFFICES ASSUME NEW t \in States PROVE ChunkOK(t)'
  BY DEF ChunkInv
<1>5. ChunkOK(t) /\ st[t].reord.nextSeq <= st'[t].reord.nextSeq
      /\ \A r \in Sources : HandlerBatch(r, t)' = HandlerBatch(r, t)
  <2>1. st[t].reord.nextSeq \in Int
    BY ChunkTypes
  <2> QED BY <1>1, <2>1 DEF ChunkInv, HandlerBatch
<1>6. RelayBatch(t)' \subseteq RelayBatch(t) /\ (t = v => x \notin RelayBatch(t)')
  <2>1. CASE t # v
    BY <1>1, <2>1 DEF RelayBatch
  <2>2. CASE t = v /\ relay'[v].lo = 0 /\ relay'[v].hi = 0
    <3>1. RelayBatch(t)' = {}
      <4>1. 0 .. 0 - 1 = {}
        OBVIOUS
      <4> QED BY <2>2, <4>1 DEF RelayBatch
    <3> QED BY <3>1
  <2>3. CASE t = v /\ relay'[v].lo = x + 1 /\ relay'[v].hi = relay[v].hi
    <3>1. RelayBatch(t)' = (x + 1) .. relay[v].hi - 1
      BY <2>3 DEF RelayBatch
    <3> QED BY <1>1, <1>2, <1>3, <2>3, <3>1, BatchRest
  <2> QED BY <1>1, <2>1, <2>2, <2>3
<1>7. CASE wq'[t] = wq[t]
  BY <1>1, <1>5, <1>6, <1>7, ChunkKept
<1>8. CASE t = v /\ wq'[t] = Append(wq[t], x)
  <2>1. x \notin Past(t) /\ x < st[t].reord.nextSeq /\ \A r \in Sources : x \notin HandlerBatch(r, t)
    BY <1>4, <1>5, <1>8 DEF ChunkOK
  <2> QED BY <1>1, <1>5, <1>6, <1>8, <2>1, ChunkMoved
<1> QED BY <1>1, <1>7, <1>8

LEMMA ChunkWriter ==
    ASSUME BaseInv, ChunkInv, NEW v \in States, QueueStep(v)
    PROVE  ChunkInv'
<1>1. /\ BaseInv' /\ UNCHANGED <<st, handler, relay>>
      /\ \A u \in States \ {v} : wq'[u] = wq[u] /\ written'[u] = written[u]
      /\ \/ /\ wq[v] # << >> /\ wq'[v] = Tail(wq[v])
            /\ written'[v] \in {written[v], Append(written[v], Head(wq[v]))}
         \/ wq'[v] \in {<< >>, wq[v]} /\ written'[v] = written[v]
  BY WriterSteps DEF QueueStep
<1> SUFFICES ASSUME NEW t \in States PROVE ChunkOK(t)'
  BY DEF ChunkInv
<1>2. ChunkOK(t) /\ st[t].reord.nextSeq <= st'[t].reord.nextSeq
      /\ RelayBatch(t)' = RelayBatch(t)
      /\ \A r \in Sources : HandlerBatch(r, t)' = HandlerBatch(r, t)
  <2>1. st[t].reord.nextSeq \in Int
    BY ChunkTypes
  <2> QED BY <1>1, <2>1 DEF ChunkInv, RelayBatch, HandlerBatch
<1>3. CASE wq'[t] = wq[t] /\ written'[t] = written[t]
  BY <1>1, <1>2, <1>3, ChunkKept
<1>4. CASE wq'[t] = << >> /\ written'[t] = written[t]
  <2>1. ToSet(wq'[t]) = {} /\ Distinct(wq'[t])
    BY <1>4 DEF ToSet, Distinct
  <2>2. Distinct(written'[t]) /\ Past(t)' \subseteq Past(t)
    BY <1>2, <1>4, <2>1 DEF ChunkOK, Past
  <2> QED BY <1>1, <1>2, <2>1, <2>2, ChunkShrinks
<1>5. CASE /\ wq[t] # << >> /\ wq'[t] = Tail(wq[t])
           /\ written'[t] \in {written[t], Append(written[t], Head(wq[t]))}
  <2> DEFINE x == Head(wq[t])
  <2>1. wq[t] \in Seq(SeqNum) /\ written[t] \in Seq(SeqNum)
    BY ChunkTypes
  <2>2. /\ x \in SeqNum /\ ToSet(wq[t]) = {x} \cup ToSet(wq'[t])
        /\ Distinct(wq'[t]) /\ x \notin ToSet(wq'[t])
    <3>1. Distinct(wq[t])
      BY <1>2 DEF ChunkOK
    <3> QED BY <1>5, <2>1, <3>1, HeadTailFacts
  <2> HIDE DEF x
  <2>3. x \notin ToSet(written[t]) /\ Distinct(written[t])
        /\ ToSet(written[t]) \cap ToSet(wq'[t]) = {}
    BY <1>2, <2>2 DEF ChunkOK
  <2>4. Distinct(written'[t]) /\ ToSet(written'[t]) \subseteq ToSet(written[t]) \cup {x}
    <3>1. CASE written'[t] = written[t]
      BY <2>3, <3>1
    <3>2. CASE written'[t] = Append(written[t], x)
      BY <2>1, <2>2, <2>3, <3>2, AppendFacts
    <3> QED BY <1>5, <3>1, <3>2 DEF x
  <2>5. Past(t)' \subseteq Past(t) /\ ToSet(written'[t]) \cap ToSet(wq'[t]) = {}
    BY <2>2, <2>3, <2>4 DEF Past
  <2> QED BY <1>1, <1>2, <2>2, <2>4, <2>5, ChunkShrinks
<1> QED BY <1>1, <1>3, <1>4, <1>5

\* Steps of a handler that push nothing.
LEMMA ChunkHandler ==
    ASSUME BaseInv, ChunkInv, NEW s \in Sources,
           \/ handleSYN(s) \/ LookupStep(s) \/ handleData(s) \/ handleFIN(s) \/ HandlerDelete(s)
           \/ HandlerCancel(s) \/ ReadError(s) \/ CloseOrphan(s) \/ HandlerExit(s)
           \/ \E c \in ConnIDs : cleanupSource(s, c)
    PROVE  ChunkInv'
<1>1. CASE handleSYN(s)
  <2>1. /\ BaseInv' /\ StKept /\ FrameRead(s) /\ UNCHANGED <<wq, written>>
        /\ \E v \in States : SynAdds(s, v) \/ SynCreates(s, v)
    BY <1>1, SynStep
  <2>2. \A t \in States : relay'[t] = relay[t] \/ (relay'[t].lo = 0 /\ relay'[t].hi = 0)
    BY <2>1 DEF SynAdds, SynCreates
  <2> QED BY <2>1, <2>2, ChunksStay DEF FrameRead
<1>2. CASE handleData(s)
  BY <1>2, DataStep, ChunksTaken DEF HandlerLocal
<1>3. CASE handleFIN(s)
  BY <1>3, FinStep, ChunksTaken DEF HandlerLocal
<1>4. CASE \/ LookupStep(s) \/ HandlerDelete(s) \/ HandlerCancel(s) \/ ReadError(s)
           \/ CloseOrphan(s) \/ HandlerExit(s) \/ \E c \in ConnIDs : cleanupSource(s, c)
  <2>1. /\ BaseInv' /\ StKept /\ UNCHANGED <<wq, written, relay>>
        /\ \A r \in Sources \ {s} : handler'[r] = handler[r]
        /\ handler'[s].lo = 0 /\ handler'[s].hi = 0
    <3>1. CASE LookupStep(s)
      BY <3>1, LookupSteps, StSame DEF LookupStep, FrameRead
    <3>2. CASE HandlerDelete(s)
      BY <3>2, HandlerDeleteStep DEF Forgotten
    <3>3. CASE HandlerCancel(s)
      BY <3>3, HandlerCancelStep DEF Cancelled
    <3>4. CASE ReadError(s)
      BY <3>4, ReadErrorStep, StSame
    <3>5. CASE CloseOrphan(s)
      BY <3>5, CloseOrphanStep DEF Forgotten
    <3>6. CASE HandlerExit(s)
      BY <3>6, HandlerExitStep, StSame
    <3>7. ASSUME NEW c \in ConnIDs, cleanupSource(s, c)
          PROVE  /\ BaseInv' /\ StKept /\ UNCHANGED <<wq, written, relay>>
                 /\ \A r \in Sources \ {s} : handler'[r] = handler[r]
                 /\ handler'[s].lo = 0 /\ handler'[s].hi = 0
      BY <3>7, CleanupStep
    <3> QED BY <1>4, <3>1, <3>2, <3>3, <3>4, <3>5, <3>6, <3>7
  <2> QED BY <2>1, ChunksStay
<1> QED BY <1>1, <1>2, <1>3, <1>4

LEMMA ChunkNext == ASSUME BaseInv, ChunkInv, [NextStep]_vars PROVE ChunkInv'
<1>1. CASE CalmStep
  <2>1. BaseInv' /\ Calm
    BY <1>1, CalmSteps
  <2> QED BY <2>1, ChunksStay DEF Calm, RelayCalm
<1>2. ASSUME NEW c \in ConnIDs, ClientStep(c) PROVE ChunkInv'
  BY <1>2, ClientSteps, StSame, ChunksStay DEF serverVars
<1>3. ASSUME NEW t \in States, RelayDelete(t) \/ RelayCancel(t) PROVE ChunkInv'
  <2>1. /\ BaseInv' /\ StKept /\ UNCHANGED <<wq, written, handler>>
        /\ \A u \in States \ {t} : relay'[u] = relay[u]
        /\ relay'[t].lo = 0 /\ relay'[t].hi = 0
    <3>1. CASE RelayDelete(t)
      BY <3>1, RelayDeleteStep DEF Forgotten
    <3>2. CASE RelayCancel(t)
      BY <3>2, RelayCancelStep DEF Cancelled
    <3> QED BY <1>3, <3>1, <3>2
  <2> QED BY <2>1, ChunksStay
<1>4. ASSUME CloseStale PROVE ChunkInv'
  BY <1>4, CloseStaleStep, ChunksStay DEF Forgotten
<1>5. ASSUME NEW c \in ConnIDs, cleanupLoop(c) PROVE ChunkInv'
  BY <1>5, CleanupLoopStep, ChunksStay DEF Cancelled
<1> QED BY <1>1, <1>2, <1>3, <1>4, <1>5, StepCases, ChunkWriter, ChunkHandler, ChunkPush,
          ChunkInstall, ChunkFlush

LEMMA ChunkInit == Init => ChunkInv
<1> SUFFICES ASSUME Init, NEW t \in States PROVE ChunkOK(t)
  BY DEF ChunkInv
<1>1. 0 .. 0 - 1 = {}
  OBVIOUS
<1>2. ToSet(wq[t]) = {} /\ ToSet(written[t]) = {} /\ Distinct(wq[t]) /\ Distinct(written[t])
  BY DEF Init, ToSet, Distinct
<1>3. RelayBatch(t) = {} /\ \A s \in Sources : HandlerBatch(s, t) = {}
  BY <1>1 DEF Init, RelayBatch, HandlerBatch, IdleHandler, IdleRelay
<1> QED BY <1>2, <1>3 DEF ChunkOK, Past

\* Whatever handlers, relay and writer do between draining under state.mu and
\* pushing after it: no chunk is in two hands, queued or written twice, and
\* every chunk handed out lies below nextSeq.
THEOREM ChunksUnique == Spec => []ChunkInOnePlace
<1>1. Init => BaseInv /\ ChunkInv
  BY BaseInit, ChunkInit
<1>2. BaseInv /\ ChunkInv /\ [NextStep]_vars => (BaseInv /\ ChunkInv)'
  BY BaseNext, ChunkNext
<1>3. ASSUME BaseInv, ChunkInv PROVE ChunkInOnePlace
  <2> SUFFICES ASSUME NEW t \in States
               PROVE  LET past == written[t] \o wq[t]
                      IN  /\ \A i, j \in 1 .. Len(past) : past[i] = past[j] => i = j
                          /\ \A s \in Sources :
                                /\ HandlerBatch(s, t) \cap (ToSet(past) \cup RelayBatch(t)) = {}
                                /\ \A s2 \in Sources \ {s} :
                                      HandlerBatch(s, t) \cap HandlerBatch(s2, t) = {}
                          /\ RelayBatch(t) \cap ToSet(past) = {}
                          /\ \A x \in ToSet(past) \cup RelayBatch(t) : x < st[t].reord.nextSeq
    BY DEF ChunkInOnePlace
  <2>1. ChunkOK(t)
    BY <1>3 DEF ChunkInv
  <2>2. PICK past : past = written[t] \o wq[t]
    OBVIOUS
  <2>3. ToSet(past) = Past(t) /\ Distinct(past)
    <3>1. wq[t] \in Seq(SeqNum) /\ written[t] \in Seq(SeqNum)
      BY <1>3, ChunkTypes
    <3>2. Distinct(written[t]) /\ Distinct(wq[t]) /\ ToSet(written[t]) \cap ToSet(wq[t]) = {}
      BY <2>1 DEF ChunkOK
    <3> QED BY <2>2, <3>1, <3>2, ConcatDistinct DEF Past
  <2> QED BY <2>1, <2>2, <2>3 DEF ChunkOK, Distinct
<1> QED BY <1>1, <1>2, <1>3, PTL DEF Spec

-----------------------------------------------------------------------------
(* A dead tunnel is forgotten.                                             *)

\* Nothing is listed, sent or received; a handler that forgets a connection it
\* has served is no longer listed by it.
LEMMA SourceKept ==
    ASSUME BaseInv, BaseInv', SourceInv, SourcesShrink, UNCHANGED client,
           \A u \in States : st'[u].conn = st[u].conn,
           \A c \in ConnIDs : conns'[c] \in {conns[c], Nil},
           \A r \in Sources : inbox'[r] \in {inbox[r], << >>},
           \A r \in Sources :
              \/ handler'[r] = handler[r]
              \/ /\ handler'[r].pc # "data"
                 /\ handler'[r].pc = "gone" => handler'[r].served = {}
                 /\ \A c \in handler[r].served \ handler'[r].served :
                       conns'[c] # Nil => r \notin ToSet(st'[conns'[c]].sources)
    PROVE  SourceInv'
<1>1. SourcesDistinct'
  BY DEF SourceInv, SourcesDistinct, SourcesShrink
<1>2. \A c \in ConnIDs : conns'[c] # Nil => conns'[c] = conns[c] /\ conns[c] \in States
  BY DEF BaseInv, Types
<1>3. ListedServed'
  <2>1. ASSUME NEW s \in Sources, NEW c \in ConnIDs, conns'[c] # Nil,
               s \in ToSet(st'[conns'[c]].sources)
        PROVE  c \in handler'[s].served
    <3>1. conns'[c] = conns[c] /\ conns[c] \in States /\ conns[c] # Nil
      BY <1>2, <2>1
    <3>2. s \in ToSet(st[conns[c]].sources)
      BY <2>1, <3>1 DEF SourcesShrink
    <3>3. c \in handler[s].served
      BY <3>1, <3>2 DEF SourceInv, ListedServed
    <3> QED BY <2>1, <3>3
  <2>2. ASSUME NEW s \in Sources
        PROVE  /\ handler'[s].pc = "gone" => handler'[s].served = {}
               /\ handler'[s].pc = "data" => handler'[s].conn \in handler'[s].served
    BY DEF SourceInv, ListedServed
  <2> QED BY <2>1, <2>2 DEF ListedServed
<1>4. SynFirst'
  <2> SUFFICES ASSUME NEW s \in Sources, NEW j \in 1 .. Len(inbox'[s]), inbox'[s][j].flag = "SYN"
               PROVE  /\ \A i \in 1 .. j - 1 : inbox'[s][i].conn # inbox'[s][j].conn
                      /\ \A t \in States :
                            st'[t].conn = inbox'[s][j].conn => s \notin ToSet(st'[t].sources)
                      /\ handler'[s].pc = "data" => handler'[s].conn # inbox'[s][j].conn
    BY DEF SynFirst
  <2>1. inbox'[s] = inbox[s]
    <3>1. inbox'[s] # << >>
      OBVIOUS
    <3> QED BY <3>1
  <2>2. /\ \A i \in 1 .. j - 1 : inbox[s][i].conn # inbox[s][j].conn
        /\ \A t \in States : st[t].conn = inbox[s][j].conn => s \notin ToSet(st[t].sources)
        /\ handler[s].pc = "data" => handler[s].conn # inbox[s][j].conn
    BY <2>1 DEF SourceInv, SynFirst
  <2> QED BY <2>1, <2>2 DEF SourcesShrink
<1>5. Unheard'
  <2>1. ASSUME NEW c \in ConnIDs, client[c].seq = 0, NEW s \in Sources,
               NEW i \in 1 .. Len(inbox'[s])
        PROVE  inbox'[s][i].conn # c
    <3>1. inbox'[s] # << >>
      OBVIOUS
    <3> QED BY <2>1, <3>1 DEF SourceInv, Unheard
  <2> QED BY <2>1 DEF SourceInv, Unheard
<1> QED BY <1>1, <1>3, <1>4, <1>5 DEF SourceInv

\* A client sends: its SYN is the first that is heard of the connection.
LEMMA SourceClient ==
    ASSUME BaseInv, SourceInv, NEW c \in ConnIDs, ClientStep(c)
    PROVE  SourceInv'
<1>1. FrameSent(c) /\ UNCHANGED <<conns, st, handler>>
  BY ClientSteps DEF serverVars
<1>2. PICK S \in SUBSET Sources, f \in Frame :
         /\ f.conn = c
         /\ \/ f.flag = "SYN" /\ client[c].seq = 0
            \/ f.flag # "SYN" /\ client[c].seq # 0
         /\ \A s \in S : inbox'[s] = Append(inbox[s], f)
         /\ \A s \in Sources \ S : inbox'[s] = inbox[s]
         /\ client'[c].seq # 0 /\ \A d \in ConnIDs \ {c} : client'[d] = client[d]
  BY <1>1 DEF FrameSent
<1>3. \A s \in Sources : inbox[s] \in Seq(Frame)
  BY DEF BaseInv, Types
<1>4. ASSUME NEW s \in Sources, NEW i \in 1 .. Len(inbox'[s])
      PROVE  \/ i \in 1 .. Len(inbox[s]) /\ inbox'[s][i] = inbox[s][i]
             \/ i = Len(inbox[s]) + 1 /\ inbox'[s][i] = f
  <2>1. CASE s \in S
    <3>1. inbox'[s] = Append(inbox[s], f) /\ inbox[s] \in Seq(Frame)
      BY <1>2, <1>3, <2>1
    <3> QED BY <3>1
  <2>2. CASE s \notin S
    BY <1>2, <2>2
  <2> QED BY <2>1, <2>2
<1>5. SourcesDistinct' /\ ListedServed'
  BY <1>1 DEF SourceInv, SourcesDistinct, ListedServed
<1>6. SynFirst'
  <2> SUFFICES ASSUME NEW s \in Sources, NEW j \in 1 .. Len(inbox'[s]), inbox'[s][j].flag = "SYN"
               PROVE  /\ \A i \in 1 .. j - 1 : inbox'[s][i].conn # inbox'[s][j].conn
                      /\ \A t \in States :
                            st[t].conn = inbox'[s][j].conn => s \notin ToSet(st[t].sources)
                      /\ handler[s].pc = "data" => handler[s].conn # inbox'[s][j].conn
    BY <1>1 DEF SynFirst
  <2>1. Len(inbox[s]) \in Nat /\ Len(inbox'[s]) \in Nat
    <3>1. inbox'[s] \in Seq(Frame)
      BY ClientSteps DEF BaseInv, Types
    <3> QED BY <1>3, <3>1
  <2>2. CASE j \in 1 .. Len(inbox[s]) /\ inbox'[s][j] = inbox[s][j]
    <3>1. /\ \A i \in 1 .. j - 1 : inbox[s][i].conn # inbox[s][j].conn
          /\ \A t \in States : st[t].conn = inbox[s][j].conn => s \notin ToSet(st[t].sources)
          /\ handler[s].pc = "data" => handler[s].conn # inbox[s][j].conn
      BY <2>2 DEF SourceInv, SynFirst
    <3>2. ASSUME NEW i \in 1 .. j - 1 PROVE inbox'[s][i] = inbox[s][i]
      <4>1. i \in 1 .. Len(inbox'[s]) /\ i # Len(inbox[s]) + 1
        BY <2>1, <2>2
      <4> QED BY <1>4, <4>1
    <3> QED BY <2>2, <3>1, <3>2
  <2>3. CASE j = Len(inbox[s]) + 1 /\ inbox'[s][j] = f
    <3>1. client[c].seq = 0
      BY <1>2, <2>3
    <3>2. /\ \A i \in 1 .. Len(inbox[s]) : inbox[s][i].conn # c
          /\ \A t \in States : st[t].conn # c
      BY <3>1 DEF SourceInv, Unheard
    <3>3. ASSUME NEW i \in 1 .. j - 1 PROVE inbox'[s][i].conn # c
      <4>1. i \in 1 .. Len(inbox'[s]) /\ i # Len(inbox[s]) + 1
        BY <2>1, <2>3
      <4> QED BY <1>4, <3>2, <4>1
    <3>4. handler[s].pc = "data" => handler[s].conn # c
      BY <3>2 DEF BaseInv, Pointers, HandlerOK
    <3> QED BY <1>2, <2>3, <3>2, <3>3, <3>4
  <2> QED BY <1>4, <2>2, <2>3
<1>7. Unheard'
  <2> SUFFICES ASSUME NEW d \in ConnIDs, client'[d].seq = 0
               PROVE  /\ \A s \in Sources : \A i \in 1 .. Len(inbox'[s]) : inbox'[s][i].conn # d
                      /\ \A t \in States : st[t].conn # d
    BY <1>1 DEF Unheard
  <2>1. d # c /\ client[d].seq = 0
    BY <1>2
  <2>2. /\ \A s \in Sources : \A i \in 1 .. Len(inbox[s]) : inbox[s][i].conn # d
        /\ \A t \in States : st[t].conn # d
    BY <2>1 DEF SourceInv, Unheard
  <2> QED BY <1>2, <1>4, <2>1, <2>2
<1> QED BY <1>5, <1>6, <1>7 DEF SourceInv

\* A handler reads a frame: no SYN behind it is of the same connection.
LEMMA SourceRead ==
    ASSUME BaseInv, BaseInv', SourceInv, NEW s \in Sources, FrameRead(s)
    PROVE  /\ \A r \in Sources : \A j \in 1 .. Len(inbox'[r]) : inbox'[r][j].flag = "SYN" =>
                 /\ \A i \in 1 .. j - 1 : inbox'[r][i].conn # inbox'[r][j].conn
                 /\ \A t \in States : st[t].conn = inbox'[r][j].conn => r \notin ToSet(st[t].sources)
                 /\ handler'[r].pc = "data" => handler'[r].conn # inbox'[r][j].conn
                 /\ r = s => inbox'[r][j].conn # Head(inbox[s]).conn
           /\ \A c \in ConnIDs : client'[c].seq = 0 =>
                 /\ \A r \in Sources : \A i \in 1 .. Len(inbox'[r]) : inbox'[r][i].conn # c
                 /\ \A t \in States : st[t].conn # c
                 /\ Head(inbox[s]).conn # c
           /\ \A r \in Sources : /\ handler'[r].pc = "gone" => handler'[r].served = {}
                                 /\ handler'[r].pc = "data" => handler'[r].conn \in handler'[r].served
                                 /\ handler[r].served \subseteq handler'[r].served
<1> DEFINE f == Head(inbox[s])
<1>1. /\ inbox[s] # << >> /\ inbox'[s] = Tail(inbox[s]) /\ UNCHANGED client
      /\ \A r \in Sources \ {s} : inbox'[r] = inbox[r] /\ handler'[r] = handler[r]
      /\ handler'[s].pc \in {"read", "data", "fin", "delete"}
      /\ handler'[s].served = handler[s].served \cup {f.conn}
      /\ handler'[s].pc # "read" => handler'[s].conn = f.conn
  BY DEF FrameRead
<1>2. inbox[s] \in Seq(Frame)
  BY DEF BaseInv, Types
<1>3. f = inbox[s][1] /\ 1 \in 1 .. Len(inbox[s]) /\ Len(inbox[s]) \in Nat
  BY <1>1, <1>2
<1>4. ASSUME NEW j \in 1 .. Len(inbox'[s])
      PROVE  j + 1 \in 1 .. Len(inbox[s]) /\ inbox'[s][j] = inbox[s][j + 1] /\ j \in Nat
  BY <1>1, <1>2
<1> HIDE DEF f
<1>5. ASSUME NEW r \in Sources, NEW j \in 1 .. Len(inbox'[r]), inbox'[r][j].flag = "SYN"
      PROVE  /\ \A i \in 1 .. j - 1 : inbox'[r][i].conn # inbox'[r][j].conn
             /\ \A t \in States : st[t].conn = inbox'[r][j].conn => r \notin ToSet(st[t].sources)
             /\ handler'[r].pc = "data" => handler'[r].conn # inbox'[r][j].conn
             /\ r = s => inbox'[r][j].conn # f.conn
  <2>1. CASE r # s
    <3>1. inbox'[r] = inbox[r] /\ handler'[r] = handler[r]
      BY <1>1, <2>1
    <3> QED BY <1>5, <2>1, <3>1 DEF SourceInv, SynFirst
  <2>2. CASE r = s
    <3>1. j + 1 \in 1 .. Len(inbox[s]) /\ inbox'[s][j] = inbox[s][j + 1] /\ j \in Nat
      BY <1>4, <2>2
    <3>2. /\ \A i \in 1 .. (j + 1) - 1 : inbox[s][i].conn # inbox[s][j + 1].conn
          /\ \A t \in States : st[t].conn = inbox[s][j + 1].conn => s \notin ToSet(st[t].sources)
      BY <1>5, <2>2, <3>1 DEF SourceInv, SynFirst
    <3>3. 1 \in 1 .. (j + 1) - 1
      BY <1>3, <2>2, <3>1
    <3>4. f.conn # inbox[s][j + 1].conn
      BY <1>3, <3>2, <3>3
    <3>5. ASSUME NEW i \in 1 .. j - 1 PROVE inbox'[s][i].conn # inbox'[s][j].conn
      <4>1. i \in 1 .. Len(inbox'[s])
        BY <2>2
      <4>2. inbox'[s][i] = inbox[s][i + 1] /\ i + 1 \in 1 .. (j + 1) - 1
        BY <1>4, <3>1, <4>1
      <4> QED BY <3>1, <3>2, <4>2
    <3>6. handler'[s].pc = "data" => handler'[s].conn = f.conn
      BY <1>1
    <3> QED BY <2>2, <3>1, <3>2, <3>4, <3>5, <3>6
  <2> QED BY <2>1, <2>2
<1>6. ASSUME NEW c \in ConnIDs, client'[c].seq = 0
      PROVE  /\ \A r \in Sources : \A i \in 1 .. Len(inbox'[r]) : inbox'[r][i].conn # c
             /\ \A t \in States : st[t].conn # c
             /\ f.conn # c
  <2>1. /\ \A r \in Sources : \A i \in 1 .. Len(inbox[r]) : inbox[r][i].conn # c
        /\ \A t \in States : st[t].conn # c
    BY <1>1, <1>6 DEF SourceInv, Unheard
  <2>2. ASSUME NEW r \in Sources, NEW i \in 1 .. Len(inbox'[r]) PROVE inbox'[r][i].conn # c
    <3>1. CASE r = s
      BY <1>4, <2>1, <3>1
    <3>2. CASE r # s
      BY <1>1, <2>1, <3>2
    <3> QED BY <3>1, <3>2
  <2> QED BY <1>3, <2>1, <2>2
<1>7. ASSUME NEW r \in Sources
      PROVE  /\ handler'[r].pc = "gone" => handler'[r].served = {}
             /\ handler'[r].pc = "data" => handler'[r].conn \in handler'[r].served
             /\ handler[r].served \subseteq handler'[r].served
  BY <1>1 DEF SourceInv, ListedServed
<1> QED BY <1>5, <1>6, <1>7 DEF f

LEMMA SourceLookup ==
    ASSUME BaseInv, SourceInv, NEW s \in Sources, LookupStep(s)
    PROVE  SourceInv'
<1>1. BaseInv' /\ FrameRead(s) /\ UNCHANGED <<conns, st>>
  BY LookupSteps DEF LookupStep
<1>2. SourcesDistinct' /\ ListedServed'
  BY <1>1, SourceRead DEF SourceInv, SourcesDistinct, ListedServed
<1>3. SynFirst'
  BY <1>1, SourceRead DEF SynFirst
<1>4. Unheard'
  BY <1>1, SourceRead DEF Unheard
<1> QED BY <1>2, <1>3, <1>4 DEF SourceInv

\* A SYN lists its tunnel, which was not listed before.
LEMMA SourceSyn ==
    ASSUME BaseInv, SourceInv, NEW s \in Sources, handleSYN(s)
    PROVE  SourceInv'
<1> DEFINE c == Head(inbox[s]).conn
<1>1. /\ BaseInv' /\ FrameRead(s) /\ Head(inbox[s]).flag = "SYN" /\ c \in ConnIDs
      /\ \E v \in States : SynAdds(s, v) \/ SynCreates(s, v)
  BY SynStep
<1>2. PICK v \in States : SynAdds(s, v) \/ SynCreates(s, v)
  BY <1>1
<1>3. /\ \A r \in Sources : handler[r].served \subseteq handler'[r].served
      /\ c \in handler'[s].served
  BY <1>1, SourceRead DEF FrameRead
<1>4. inbox[s] # << >> /\ inbox[s] \in Seq(Frame)
  BY <1>1 DEF FrameRead, BaseInv, Types
<1>5. Head(inbox[s]) = inbox[s][1] /\ 1 \in 1 .. Len(inbox[s])
  BY <1>4
<1>6. /\ st'[v].conn = c /\ \A u \in States \ {v} : st'[u] = st[u]
      /\ \A d \in ConnIDs : conns'[d] = conns[d] \/ (d = c /\ conns'[d] = v)
  <2>1. CASE SynAdds(s, v)
    <3>1. conns[c] = v /\ UNCHANGED conns /\ st'[v].conn = st[v].conn
          /\ \A u \in States \ {v} : st'[u] = st[u]
      BY <2>1 DEF SynAdds, ContextsKept
    <3>2. st[v].conn = c
      BY <1>1, <3>1, NilNot DEF BaseInv, Pointers
    <3> QED BY <3>1, <3>2
  <2>2. CASE SynCreates(s, v)
    <3>1. conns' = [conns EXCEPT ![c] = v] /\ conns \in [ConnIDs -> States \cup {Nil}]
      BY <2>2 DEF SynCreates, BaseInv, Types
    <3> QED BY <1>1, <2>2, <3>1 DEF SynCreates
  <2> QED BY <1>2, <2>1, <2>2
<1>7. /\ Distinct(st'[v].sources)
      /\ \/ ToSet(st'[v].sources) = {s}
         \/ /\ ToSet(st'[v].sources) = ToSet(st[v].sources) \cup {s}
            /\ st[v].conn = c /\ conns[c] = v
  <2>1. CASE SynAdds(s, v)
    <3>1. conns[c] = v /\ st'[v].sources = Append(st[v].sources, s)
      BY <2>1 DEF SynAdds
    <3>2. st[v].conn = c
      BY <1>1, <3>1, NilNot DEF BaseInv, Pointers
    <3>3. s \notin ToSet(st[v].sources)
      BY <1>1, <1>5, <3>2 DEF SourceInv, SynFirst
    <3>4. st[v].sources \in Seq(Sources) /\ Distinct(st[v].sources)
      BY StFields DEF BaseInv, SourceInv, SourcesDistinct
    <3> QED BY <3>1, <3>2, <3>3, <3>4, AppendFacts
  <2>2. CASE SynCreates(s, v)
    <3>1. st'[v].sources = <<s>>
      BY <2>2 DEF SynCreates
    <3>2. ToSet(<<s>>) = {s}
      BY DEF ToSet
    <3>3. Distinct(<<s>>)
      BY DEF Distinct
    <3> QED BY <3>1, <3>2, <3>3
  <2> QED BY <1>2, <2>1, <2>2
<1>8. \A d \in ConnIDs \ {c} : conns[d] # v
  <2>1. CASE SynAdds(s, v)
    <3>1. conns[c] = v
      BY <2>1 DEF SynAdds
    <3> QED BY <1>1, <3>1, NilNot DEF BaseInv, Pointers
  <2>2. CASE SynCreates(s, v)
    BY <2>2, NilNot DEF SynCreates, BaseInv, Pointers
  <2> QED BY <1>2, <2>1, <2>2
<1> HIDE DEF c
<1>9. SourcesDistinct'
  BY <1>6, <1>7 DEF SourceInv, SourcesDistinct
<1>10. ListedServed'
  <2>1. ASSUME NEW r \in Sources, NEW d \in ConnIDs, conns'[d] # Nil,
               r \in ToSet(st'[conns'[d]].sources)
        PROVE  d \in handler'[r].served
    <3>1. CASE conns'[d] = v
      <4>1. d = c
        BY <1>6, <1>8, <3>1
      <4>2. r = s \/ (r \in ToSet(st[v].sources) /\ conns[c] = v)
        BY <1>7, <2>1, <3>1
      <4>3. (r \in ToSet(st[v].sources) /\ conns[c] = v) => c \in handler[r].served
        BY <1>1, NilNot DEF SourceInv, ListedServed
      <4> QED BY <1>3, <4>1, <4>2, <4>3
    <3>2. CASE conns'[d] # v
      <4>1. conns'[d] = conns[d] /\ conns[d] \in States
        BY <1>6, <2>1, <3>2 DEF BaseInv, Types
      <4>2. r \in ToSet(st[conns[d]].sources)
        BY <1>6, <2>1, <3>2, <4>1
      <4> QED BY <1>3, <2>1, <4>1, <4>2 DEF SourceInv, ListedServed
    <3> QED BY <3>1, <3>2
  <2> QED BY <1>1, <2>1, SourceRead DEF ListedServed
<1>11. SynFirst'
  <2> SUFFICES ASSUME NEW r \in Sources, NEW j \in 1 .. Len(inbox'[r]), inbox'[r][j].flag = "SYN"
               PROVE  /\ \A i \in 1 .. j - 1 : inbox'[r][i].conn # inbox'[r][j].conn
                      /\ \A t \in States :
                            st'[t].conn = inbox'[r][j].conn => r \notin ToSet(st'[t].sources)
                      /\ handler'[r].pc = "data" => handler'[r].conn # inbox'[r][j].conn
    BY DEF SynFirst
  <2>1. /\ \A i \in 1 .. j - 1 : inbox'[r][i].conn # inbox'[r][j].conn
        /\ \A t \in States : st[t].conn = inbox'[r][j].conn => r \notin ToSet(st[t].sources)
        /\ handler'[r].pc = "data" => handler'[r].conn # inbox'[r][j].conn
        /\ r = s => inbox'[r][j].conn # c
    BY <1>1, SourceRead DEF c
  <2> QED BY <1>6, <1>7, <2>1
<1>12. Unheard'
  BY <1>1, <1>6, SourceRead DEF Unheard, c
<1> QED BY <1>9, <1>10, <1>11, <1>12 DEF SourceInv

\* A data frame lists its tunnel, if it was not listed.
LEMMA SourceData ==
    ASSUME BaseInv, SourceInv, NEW s \in Sources, handleData(s)
    PROVE  SourceInv'
<1>1. /\ BaseInv' /\ ContextsKept /\ UNCHANGED <<conns, inbox, client>>
      /\ \A r \in Sources \ {s} : handler'[r] = handler[r]
      /\ handler'[s].served = handler[s].served
      /\ \A u \in States \ {handler[s].t} : st'[u] = st[u]
      /\ handler[s].pc = "data" /\ handler[s].t \in States
      /\ st[handler[s].t].conn = handler[s].conn /\ handler'[s].pc \in {"read", "push"}
      /\ st'[handler[s].t].sources = IF s \in ToSet(st[handler[s].t].sources)
                                     THEN st[handler[s].t].sources
                                     ELSE Append(st[handler[s].t].sources, s)
  BY DataStep DEF HandlerLocal
<1>2. PICK v \in States : v = handler[s].t
  BY <1>1
<1>3. ToSet(st'[v].sources) = ToSet(st[v].sources) \cup {s} /\ Distinct(st'[v].sources)
  <2>1. st[v].sources \in Seq(Sources) /\ Distinct(st[v].sources)
    BY StFields DEF BaseInv, SourceInv, SourcesDistinct
  <2>2. CASE s \in ToSet(st[v].sources)
    BY <1>1, <1>2, <2>1, <2>2
  <2>3. CASE s \notin ToSet(st[v].sources)
    <3>1. st'[v].sources = Append(st[v].sources, s)
      BY <1>1, <1>2, <2>3
    <3> QED BY <2>1, <2>3, <3>1, AppendFacts
  <2> QED BY <2>2, <2>3
<1>4. \A u \in States \ {v} : st'[u] = st[u]
  BY <1>1, <1>2
<1>5. handler[s].conn \in handler[s].served /\ st[v].conn = handler[s].conn
  BY <1>1, <1>2 DEF SourceInv, ListedServed
<1>6. SourcesDistinct'
  BY <1>3, <1>4 DEF SourceInv, SourcesDistinct
<1>7. ListedServed'
  <2>1. ASSUME NEW r \in Sources, NEW d \in ConnIDs, conns[d] # Nil,
               r \in ToSet(st'[conns[d]].sources)
        PROVE  d \in handler[r].served
    <3>1. conns[d] \in States /\ st[conns[d]].conn = d
      BY <2>1 DEF BaseInv, Types, Pointers
    <3>2. CASE r \in ToSet(st[conns[d]].sources)
      BY <2>1, <3>2 DEF SourceInv, ListedServed
    <3>3. CASE r \notin ToSet(st[conns[d]].sources)
      <4>1. conns[d] = v /\ r = s
        BY <1>3, <1>4, <2>1, <3>1, <3>3
      <4> QED BY <1>5, <3>1, <4>1
    <3> QED BY <3>2, <3>3
  <2>2. \A r \in Sources : handler'[r].served = handler[r].served
    BY <1>1
  <2>3. ASSUME NEW r \in Sources
        PROVE  /\ handler'[r].pc = "gone" => handler'[r].served = {}
               /\ handler'[r].pc = "data" => handler'[r].conn \in handler'[r].served
    BY <1>1 DEF SourceInv, ListedServed
  <2> QED BY <1>1, <2>1, <2>2, <2>3 DEF ListedServed
<1>8. SynFirst'
  <2> SUFFICES ASSUME NEW r \in Sources, NEW j \in 1 .. Len(inbox[r]), inbox[r][j].flag = "SYN"
               PROVE  /\ \A i \in 1 .. j - 1 : inbox[r][i].conn # inbox[r][j].conn
                      /\ \A t \in States :
                            st'[t].conn = inbox[r][j].conn => r \notin ToSet(st'[t].sources)
                      /\ handler'[r].pc = "data" => handler'[r].conn # inbox[r][j].conn
    BY <1>1 DEF SynFirst
  <2>1. /\ \A i \in 1 .. j - 1 : inbox[r][i].conn # inbox[r][j].conn
        /\ \A t \in States : st[t].conn = inbox[r][j].conn => r \notin ToSet(st[t].sources)
        /\ handler[r].pc = "data" => handler[r].conn # inbox[r][j].conn
    BY DEF SourceInv, SynFirst
  <2>2. ASSUME NEW t \in States, st'[t].conn = inbox[r][j].conn PROVE r \notin ToSet(st'[t].sources)
    <3>1. st[t].conn = inbox[r][j].conn
      BY <1>1, <2>2 DEF ContextsKept
    <3> QED BY <1>1, <1>3, <1>4, <1>5, <2>1, <3>1
  <2>3. handler'[r].pc = "data" => handler'[r].conn # inbox[r][j].conn
    BY <1>1, <2>1
  <2> QED BY <2>1, <2>2, <2>3
<1>9. Unheard'
  BY <1>1 DEF ContextsKept, SourceInv, Unheard
<1> QED BY <1>6, <1>7, <1>8, <1>9 DEF SourceInv

\* Steps of a handler, after the read, that list no tunnel.
LEMMA SourceHandler ==
    ASSUME BaseInv, SourceInv, NEW s \in Sources,
           \/ handleFIN(s) \/ PushChunk(s) \/ HandlerDelete(s) \/ HandlerCancel(s) \/ ReadError(s)
           \/ HandlerExit(s)
    PROVE  SourceInv'
<1>1. /\ BaseInv' /\ SourcesShrink /\ UNCHANGED client
      /\ \A u \in States : st'[u].conn = st[u].conn
      /\ \A c \in ConnIDs : conns'[c] \in {conns[c], Nil}
      /\ \A r \in Sources : inbox'[r] \in {inbox[r], << >>}
      /\ \A r \in Sources \ {s} : handler'[r] = handler[r]
      /\ handler'[s].served = handler[s].served /\ handler'[s].pc # "data"
      /\ handler'[s].pc = "gone" => handler'[s].served = {}
  <2>1. CASE handleFIN(s)
    BY <2>1, FinStep DEF HandlerLocal, ContextsKept
  <2>2. CASE PushChunk(s)
    BY <2>2, PushStep, StCalm
  <2>3. CASE HandlerDelete(s)
    BY <2>3, HandlerDeleteStep DEF Forgotten, ContextsKept
  <2>4. CASE HandlerCancel(s)
    BY <2>4, HandlerCancelStep DEF Cancelled
  <2>5. CASE ReadError(s)
    BY <2>5, ReadErrorStep, StCalm
  <2>6. CASE HandlerExit(s)
    BY <2>6, HandlerExitStep, StCalm
  <2> QED BY <2>1, <2>2, <2>3, <2>4, <2>5, <2>6
<1>2. \A r \in Sources : handler[r].served \ handler'[r].served = {}
  BY <1>1
<1> QED BY <1>1, <1>2, SourceKept

\* One connection of cleanupSource.
LEMMA SourceCleanup ==
    ASSUME BaseInv, SourceInv, NEW s \in Sources, NEW c \in ConnIDs, cleanupSource(s, c)
    PROVE  SourceInv'
<1>1. /\ BaseInv' /\ SourcesShrink /\ UNCHANGED <<conns, inbox, client>>
      /\ \A r \in Sources \ {s} : handler'[r] = handler[r]
      /\ handler'[s].pc \in {"cleanup", "orphan"}
  BY CleanupStep
<1>2. \A u \in States : st'[u].conn = st[u].conn
  <2>1. ContextsKept \/ (conns[c] # Nil /\ Cancelled(conns[c]))
    BY CleanupStep
  <2> QED BY <2>1 DEF ContextsKept, Cancelled
<1>3. ASSUME NEW d \in handler[s].served \ handler'[s].served, conns[d] # Nil
      PROVE  s \notin ToSet(st'[conns[d]].sources)
  <2>1. d = c /\ (Distinct(st[conns[c]].sources) => s \notin ToSet(st'[conns[c]].sources))
    BY <1>3, CleanupStep
  <2>2. conns[c] \in States
    BY <1>3, <2>1 DEF BaseInv, Types
  <2> QED BY <2>1, <2>2 DEF SourceInv, SourcesDistinct
<1> QED BY <1>1, <1>2, <1>3, SourceKept

LEMMA SourceOrphan ==
    ASSUME BaseInv, SourceInv, NEW s \in Sources, CloseOrphan(s)
    PROVE  SourceInv'
<1>1. /\ BaseInv' /\ Forgotten(handler[s].conn) /\ ContextsKept /\ UNCHANGED <<inbox, client>>
      /\ \A r \in Sources \ {s} : handler'[r] = handler[r]
      /\ handler'[s].pc = "cleanup"
      /\ handler'[s].served = handler[s].served \ {handler[s].conn}
  BY CloseOrphanStep
<1>2. /\ SourcesShrink /\ \A u \in States : st'[u].conn = st[u].conn
      /\ \A c \in ConnIDs : conns'[c] \in {conns[c], Nil}
  BY <1>1 DEF Forgotten, ContextsKept
<1>3. \A d \in handler[s].served \ handler'[s].served : conns'[d] = Nil
  BY <1>1 DEF Forgotten
<1> QED BY <1>1, <1>2, <1>3, SourceKept

LEMMA SourceNext == ASSUME BaseInv, SourceInv, [NextStep]_vars PROVE SourceInv'
<1>1. ASSUME BaseInv', SourcesShrink, UNCHANGED <<handler, inbox, client>>,
             \A u \in States : st'[u].conn = st[u].conn,
             \A c \in ConnIDs : conns'[c] \in {conns[c], Nil}
      PROVE  SourceInv'
  BY <1>1, SourceKept
<1>2. CASE CalmStep
  <2>1. BaseInv' /\ Calm
    BY <1>2, CalmSteps
  <2> QED BY <1>1, <2>1 DEF Calm, ContextsKept
<1>3. ASSUME NEW t \in States, QueueStep(t) PROVE SourceInv'
  BY <1>1, <1>3, WriterSteps, StCalm DEF QueueStep
<1>4. ASSUME NEW t \in States, Install(t) \/ Flush(t) \/ RelayDelete(t) \/ RelayCancel(t)
      PROVE  SourceInv'
  <2>1. CASE Install(t)
    BY <1>1, <2>1, InstallStep DEF ContextsKept
  <2>2. CASE Flush(t)
    BY <1>1, <2>2, FlushStep, StCalm
  <2>3. CASE RelayDelete(t)
    BY <1>1, <2>3, RelayDeleteStep DEF Forgotten, ContextsKept
  <2>4. CASE RelayCancel(t)
    BY <1>1, <2>4, RelayCancelStep DEF Cancelled
  <2> QED BY <1>4, <2>1, <2>2, <2>3, <2>4
<1>5. CASE CloseStale
  BY <1>1, <1>5, CloseStaleStep DEF Forgotten, ContextsKept
<1>6. ASSUME NEW c \in ConnIDs, cleanupLoop(c) PROVE SourceInv'
  BY <1>1, <1>6, CleanupLoopStep DEF Cancelled
<1> QED BY <1>2, <1>3, <1>4, <1>5, <1>6, StepCases, SourceClient, SourceSyn, SourceLookup,
          SourceData, SourceHandler, SourceCleanup, SourceOrphan

LEMMA SourceInit == Init => SourceInv
<1> SUFFICES ASSUME Init PROVE SourceInv
  OBVIOUS
<1>1. \A t \in States : st[t].conn = Nil /\ st[t].sources = << >>
  BY DEF Init, Unallocated
<1>2. \A s \in Sources : inbox[s] = << >> /\ handler[s].pc = "read"
  BY DEF Init, IdleHandler
<1>3. SourcesDistinct
  BY <1>1 DEF SourcesDistinct, Distinct
<1>4. ListedServed
  BY <1>2 DEF Init, ListedServed
<1>5. SynFirst /\ Unheard
  BY <1>1, <1>2, NilNot DEF SynFirst, Unheard
<1> QED BY <1>3, <1>4, <1>5 DEF SourceInv

\* When the handler of a broken tunnel has gone, no registered connState lists
\* that tunnel, although SYNs and data frames list tunnels all the time and
\* cleanupSource walks the connections the handler served one by one.
THEOREM DeadTunnelsUnlisted == Spec => []DeadSourceForgotten
<1>1. Init => BaseInv /\ SourceInv
  BY BaseInit, SourceInit
<1>2. BaseInv /\ SourceInv /\ [NextStep]_vars => (BaseInv /\ SourceInv)'
  BY BaseNext, SourceNext
<1>3. BaseInv /\ SourceInv => DeadSourceForgotten
  BY DEF SourceInv, ListedServed, DeadSourceForgotten
<1> QED BY <1>1, <1>2, <1>3, PTL DEF Spec
=============================================================================
