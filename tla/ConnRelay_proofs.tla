-------------------------- MODULE ConnRelay_proofs --------------------------
(***************************************************************************)
(* Proof that activeConns counts the relays of an instance, and that an    *)
(* SSH client that can still serve a connection is never closed, for every *)
(* number of instances, connections and restarts.                          *)
(***************************************************************************)
EXTENDS ConnRelay, CommonLemmas

InstType == [proc : Procs, up : BOOLEAN, healthy : BOOLEAN, cancelled : SUBSET Procs]
ClientType == [proc : Procs \cup {0}, lost : BOOLEAN, closed : BOOLEAN]
ConnType ==
    [pc : ConnPC, offered : SUBSET Insts, inst : Insts \cup {Nil}, via : Conns \cup {Nil},
     proc : Procs \cup {0}, client : {"open", "eof", "closed"},
     up : {"none", "open", "eof", "closed"}, tx : {"none", "run", "done"},
     rx : {"none", "run", "done"}, watch : {"none", "read", "wait", "done"},
     wctx : Procs \cup {0}]

\* What holds of a handler by itself: past Pick it has an instance, and so has
\* the watcher it leaves behind; past LookUp or DialSSH it has a client; when
\* it is done its sockets are closed.
OneOK(c) ==
    /\ c.pc \notin {"new", "pick", "done"} \/ c.watch = "read" => c.inst \in Insts
    /\ c.pc \in {"keepalive", "store", "channel"} => c.via # Nil
    /\ c.pc \in {"new", "pick"} => c.via = Nil
    /\ c.pc = "done" => c.client = "closed" /\ c.up \in {"none", "closed"}
HandlerOK == \A k \in Conns : OneOK(conn[k])

\* The handlers IncrConns has counted and DecrConns has not.
Relaying(k) == conn[k].pc \in {"enter", "relay"}
Relays(i) == {k \in Conns : conn[k].inst = i /\ Relaying(k)}
Counted == \A i \in Insts : active[i] = Cardinality(Relays(i))

\* A handler that may have dialled an SSH client, and will dial no other.
Dialled(x) == conn[x].pc \in {"store", "channel", "incr", "enter", "relay", "done"}

\* A client that is used or cached has been dialled, to the same instance.
UsedDialled ==
    \A k \in Conns : conn[k].via # Nil =>
       Dialled(conn[k].via) /\ conn[conn[k].via].inst = conn[k].inst
CachedDialled ==
    \A i \in Insts : cache[i] # Nil => Dialled(cache[i]) /\ conn[cache[i]].inst = i

\* Nobody can be served by a client whose session is lost or whose process,
\* of the instance it was dialled to, has ended.
Useless(x) == client[x].lost \/ ~Runs(conn[x].inst, client[x].proc)

\* A client belongs to a process its instance has had, and a closed one is
\* useless, for ever.
ClientOK ==
    \A x \in Conns :
       /\ client[x].proc # 0 \/ client[x].closed =>
             /\ Dialled(x) /\ conn[x].inst \in Insts
             /\ client[x].proc <= inst[conn[x].inst].proc
       /\ client[x].closed => Useless(x)

\* The inductive invariant.
Inv == TypeOK /\ HandlerOK /\ Counted /\ UsedDialled /\ CachedDialled /\ ClientOK

LEMMA InvTypes ==
    ASSUME TypeOK
    PROVE  /\ inst \in [Insts -> InstType] /\ active \in [Insts -> Nat]
           /\ cache \in [Insts -> Conns \cup {Nil}] /\ client \in [Conns -> ClientType]
           /\ conn \in [Conns -> ConnType]
BY DEF TypeOK, InstType, ClientType, ConnType

LEMMA TypesInv ==
    ASSUME scene \in Scenes, inst \in [Insts -> InstType], active \in [Insts -> Nat],
           cache \in [Insts -> Conns \cup {Nil}], client \in [Conns -> ClientType],
           conn \in [Conns -> ConnType]
    PROVE  TypeOK
BY DEF TypeOK, InstType, ClientType, ConnType

LEMMA InvImplies == Inv => RelaysCounted /\ LiveClientNeverClosed
<1> SUFFICES ASSUME Inv PROVE RelaysCounted /\ LiveClientNeverClosed
  OBVIOUS
<1>1. RelaysCounted
  BY DEF Inv, Counted, Relays, Relaying, HandlerOK, OneOK, RelaysCounted
<1>2. LiveClientNeverClosed
  <2> SUFFICES ASSUME NEW k \in Conns, conn[k].via # Nil, client[conn[k].via].closed
               PROVE  client[conn[k].via].lost \/ ~Runs(conn[k].inst, client[conn[k].via].proc)
    BY DEF LiveClientNeverClosed
  <2>1. conn[k].via \in Conns
    BY InvTypes DEF Inv, ConnType
  <2> QED BY <2>1 DEF Inv, UsedDialled, ClientOK, Useless
<1> QED BY <1>1, <1>2

LEMMA InitInv == Init => Inv
<1> SUFFICES ASSUME Init PROVE Inv
  OBVIOUS
<1>1. conn \in [Conns -> ConnType] /\ \A k \in Conns : conn[k] = NewConn
  BY DEF Init, NewConn, ConnType, ConnPC
<1>2. TypeOK
  <2>1. inst \in [Insts -> InstType]
    BY ConnRelayAssumption DEF Init, InstType, Procs
  <2>2. client \in [Conns -> ClientType]
    BY DEF Init, ClientType
  <2> QED BY <1>1, <2>1, <2>2, TypesInv DEF Init
<1>3. HandlerOK /\ UsedDialled
  BY <1>1 DEF HandlerOK, OneOK, UsedDialled, NewConn
<1>4. CachedDialled /\ ClientOK
  BY DEF Init, CachedDialled, ClientOK
<1>5. Counted
  <2>1. \A i \in Insts : Relays(i) = {}
    BY <1>1 DEF Relays, Relaying, NewConn
  <2> QED BY <2>1, FS_EmptySet DEF Counted, Init
<1> QED BY <1>2, <1>3, <1>4, <1>5 DEF Inv

-----------------------------------------------------------------------------
(* Steps of the instances                                                  *)

\* A lifecycle number only grows, and a process that has ended stays ended.
LEMMA InstSteps ==
    ASSUME Inv, NEW i \in Insts, Health(i) \/ Crash(i) \/ Reaped(i) \/ Stop(i) \/ Start(i)
    PROVE  Inv'
<1>1. UNCHANGED <<scene, active, cache, client, conn>>
  BY DEF Health, Crash, Reaped, Stop, Start
<1>2. inst \in [Insts -> InstType] /\ inst[i] \in InstType /\ MaxStarts \in Nat
  BY InvTypes, ConnRelayAssumption DEF Inv
<1>3. /\ inst' \in [Insts -> InstType]
      /\ inst[i].proc <= inst'[i].proc
      /\ inst'[i].up => inst[i].up \/ inst[i].proc < inst'[i].proc
      /\ \A j \in Insts \ {i} : inst'[j] = inst[j]
  <2>1. inst[i].proc \in Nat
    BY <1>2 DEF InstType, Procs
  <2>2. ASSUME NEW x \in InstType, inst' = [inst EXCEPT ![i] = x],
               x.proc = inst[i].proc, x.up => inst[i].up
        PROVE  /\ inst' \in [Insts -> InstType] /\ inst[i].proc <= inst'[i].proc
               /\ inst'[i].up => inst[i].up \/ inst[i].proc < inst'[i].proc
               /\ \A j \in Insts \ {i} : inst'[j] = inst[j]
    BY <1>2, <2>1, <2>2
  <2>3. CASE Health(i) \/ Reaped(i)
    <3>1. PICK b \in BOOLEAN : inst' = [inst EXCEPT ![i] = [inst[i] EXCEPT !.healthy = b]]
      BY <1>2, <2>3 DEF Health, Reaped, InstType
    <3> DEFINE x == [inst[i] EXCEPT !.healthy = b]
    <3>2. x \in InstType /\ x.proc = inst[i].proc /\ x.up = inst[i].up
      BY <1>2 DEF InstType
    <3>3. inst' = [inst EXCEPT ![i] = x]
      BY <3>1
    <3> HIDE DEF x
    <3> QED BY <2>2, <3>2, <3>3
  <2>4. CASE Crash(i)
    <3> DEFINE x == [inst[i] EXCEPT !.up = FALSE]
    <3>1. x \in InstType /\ x.proc = inst[i].proc /\ x.up = FALSE
      BY <1>2 DEF InstType
    <3>2. inst' = [inst EXCEPT ![i] = x]
      BY <2>4 DEF Crash
    <3> HIDE DEF x
    <3> QED BY <2>2, <3>1, <3>2
  <2>5. CASE Stop(i)
    BY <1>2, <2>5 DEF Stop, InstType, Procs
  <2>6. CASE Start(i)
    BY <1>2, <2>6 DEF Start, InstType, Procs
  <2> QED BY <2>3, <2>4, <2>5, <2>6
<1>4. TypeOK'
  <2>1. inst' \in [Insts -> [proc : Procs, up : BOOLEAN, healthy : BOOLEAN, cancelled : SUBSET Procs]]
    BY <1>3 DEF InstType
  <2> QED BY <1>1, <2>1 DEF Inv, TypeOK
<1>5. HandlerOK' /\ UsedDialled' /\ CachedDialled'
  BY <1>1 DEF Inv, HandlerOK, UsedDialled, CachedDialled, Dialled
<1>6. Counted'
  BY <1>1 DEF Inv, Counted, Relays, Relaying
<1>7. ClientOK'
  <2> SUFFICES ASSUME NEW x \in Conns, client[x].proc # 0 \/ client[x].closed
               PROVE  /\ Dialled(x)' /\ conn[x].inst \in Insts
                      /\ client[x].proc <= inst'[conn[x].inst].proc
                      /\ client[x].closed => Useless(x)'
    BY <1>1 DEF ClientOK
  <2>1. /\ Dialled(x) /\ conn[x].inst \in Insts
        /\ client[x].proc <= inst[conn[x].inst].proc
        /\ client[x].closed => Useless(x)
    BY DEF Inv, ClientOK
  <2>2. Dialled(x)'
    BY <1>1, <2>1 DEF Dialled
  <2>3. client[x].proc \in Nat /\ \A j \in Insts : inst[j].proc \in Nat /\ inst'[j].proc \in Nat
    BY <1>2, <1>3, InvTypes, ConnRelayAssumption DEF Inv, ClientType, InstType, Procs
  <2>4. conn[x].inst # i => inst'[conn[x].inst] = inst[conn[x].inst]
    BY <1>3, <2>1
  <2>5. client[x].proc <= inst'[conn[x].inst].proc
    BY <1>3, <2>1, <2>3, <2>4
  <2>6. client[x].closed => Useless(x)'
    BY <1>1, <1>3, <2>1, <2>3, <2>4 DEF Runs, Useless
  <2> QED BY <2>1, <2>2, <2>5, <2>6
<1> QED BY <1>4, <1>5, <1>6, <1>7 DEF Inv

-----------------------------------------------------------------------------
(* Steps of one connection                                                 *)

\* What a step may do to the connection k it belongs to: no other changes; the
\* instance is set once, by Pick; a handler that has dialled will dial no
\* other client; it uses the client it had, the cached one or its own.
Changes(k) ==
    /\ conn' \in [Conns -> ConnType]
    /\ \A j \in Conns \ {k} : conn'[j] = conn[j]
    /\ OneOK(conn'[k])
    /\ conn'[k].inst = conn[k].inst \/ conn[k].pc = "pick"
    /\ Dialled(k) => Dialled(k)'
    /\ \/ conn'[k].via = conn[k].via
       \/ /\ conn[k].inst \in Insts /\ conn'[k].inst = conn[k].inst
          /\ conn'[k].via = cache[conn[k].inst]
       \/ conn'[k].via = k /\ Dialled(k)'

LEMMA ChangesKeep ==
    ASSUME Inv, NEW k \in Conns, Changes(k)
    PROVE  /\ HandlerOK' /\ UsedDialled'
           /\ \A x \in Conns : Dialled(x) => Dialled(x)' /\ conn'[x].inst = conn[x].inst
<1>1. HandlerOK'
  BY DEF Inv, HandlerOK, Changes
<1>2. \A x \in Conns : Dialled(x) => Dialled(x)' /\ conn'[x].inst = conn[x].inst
  BY DEF Changes, Dialled
<1>3. UsedDialled'
  <2> SUFFICES ASSUME NEW j \in Conns, conn'[j].via # Nil
               PROVE  Dialled(conn[j].via)' /\ conn'[conn'[j].via].inst = conn'[j].inst
    BY DEF UsedDialled
  <2>1. ASSUME NEW x \in Conns, conn'[j].via = x, Dialled(x), conn[x].inst = conn'[j].inst
        PROVE  Dialled(conn[j].via)' /\ conn'[conn'[j].via].inst = conn'[j].inst
    BY <1>2, <2>1 DEF Dialled
  <2>2. CASE conn'[j].via = conn[j].via
    <3>1. conn[j].via \in Conns
      BY <2>2, InvTypes DEF Inv, ConnType
    <3>2. Dialled(conn[j].via) /\ conn[conn[j].via].inst = conn[j].inst
      BY <2>2 DEF Inv, UsedDialled
    <3>3. conn'[j].inst = conn[j].inst
      BY <2>2 DEF Inv, HandlerOK, OneOK, Changes
    <3> QED BY <2>1, <2>2, <3>1, <3>2, <3>3
  <2>3. CASE j = k /\ conn[k].inst \in Insts /\ conn'[k].inst = conn[k].inst
             /\ conn'[k].via = cache[conn[k].inst]
    <3>1. cache[conn[k].inst] \in Conns
      BY <2>3, InvTypes DEF Inv
    <3>2. Dialled(cache[conn[k].inst]) /\ conn[cache[conn[k].inst]].inst = conn[k].inst
      BY <2>3 DEF Inv, CachedDialled
    <3> QED BY <2>1, <2>3, <3>1, <3>2
  <2>4. CASE j = k /\ conn'[k].via = k /\ Dialled(k)'
    BY <2>4 DEF Dialled
  <2> QED BY <2>2, <2>3, <2>4 DEF Changes
<1> QED BY <1>1, <1>2, <1>3

\* A step that neither enters the counted part of the handler nor leaves it.
LEMMA CountKept ==
    ASSUME Inv, NEW k \in Conns, Changes(k), Relaying(k)' <=> Relaying(k), active' = active
    PROVE  Counted'
<1>1. \A j \in Conns : Relaying(j)' <=> Relaying(j)
  BY DEF Changes, Relaying
<1>2. \A j \in Conns : Relaying(j) => conn'[j].inst = conn[j].inst
  BY DEF Changes, Relaying
<1>3. \A i \in Insts : Relays(i)' = Relays(i)
  BY <1>1, <1>2 DEF Relays
<1> QED BY <1>3 DEF Inv, Counted

LEMMA ClientsKept ==
    ASSUME Inv, NEW k \in Conns, Changes(k), UNCHANGED <<inst, client>>
    PROVE  ClientOK'
<1> SUFFICES ASSUME NEW x \in Conns, client[x].proc # 0 \/ client[x].closed
             PROVE  /\ Dialled(x)' /\ conn'[x].inst \in Insts
                    /\ client[x].proc <= inst[conn'[x].inst].proc
                    /\ client[x].closed => Useless(x)'
  BY DEF ClientOK
<1>1. /\ Dialled(x) /\ conn[x].inst \in Insts
      /\ client[x].proc <= inst[conn[x].inst].proc
      /\ client[x].closed => Useless(x)
  BY DEF Inv, ClientOK
<1>2. Dialled(x)' /\ conn'[x].inst = conn[x].inst
  BY <1>1, ChangesKeep
<1>3. Useless(x)' <=> Useless(x)
  BY <1>2 DEF Runs, Useless
<1> QED BY <1>1, <1>2, <1>3

LEMMA CacheKept ==
    ASSUME Inv, NEW k \in Conns, Changes(k), cache' = cache
    PROVE  CachedDialled'
<1>1. \A i \in Insts : cache[i] # Nil => cache[i] \in Conns
  BY InvTypes DEF Inv
<1> QED BY <1>1, ChangesKeep DEF Inv, CachedDialled, Dialled

\* A step that changes nothing but the connection.
LEMMA ConnOnly ==
    ASSUME Inv, NEW k \in Conns, Changes(k), Relaying(k)' <=> Relaying(k),
           UNCHANGED <<scene, inst, active, cache, client>>
    PROVE  Inv'
<1>1. TypeOK'
  <2>1. conn' \in [Conns -> ConnType]
    BY DEF Changes
  <2> QED BY <2>1 DEF Inv, TypeOK, ConnType
<1> QED BY <1>1, ChangesKeep, CountKept, ClientsKept, CacheKept DEF Inv

\* A step that gives the connection k the record x.
LEMMA SetConn ==
    ASSUME Inv, NEW k \in Conns, NEW x \in ConnType, conn' = [conn EXCEPT ![k] = x]
    PROVE  /\ conn' \in [Conns -> ConnType] /\ conn'[k] = x
           /\ \A j \in Conns \ {k} : conn'[j] = conn[j]
           /\ conn[k] \in ConnType /\ OneOK(conn[k])
BY InvTypes DEF Inv, HandlerOK

LEMMA PCs ==
    \A p \in {"new", "pick", "dial", "negotiate", "look", "keepalive", "delete", "dialSSH",
              "store", "channel", "incr", "enter", "relay", "done"} : p \in ConnPC
BY DEF ConnPC

LEMMA Conn1 == ASSUME Inv, NEW k \in Conns PROVE conn[k] \in ConnType
BY InvTypes DEF Inv

\* The error paths.
LEMMA FailChanges ==
    ASSUME Inv, NEW k \in Conns, Fail(k), ~Relaying(k)
    PROVE  Changes(k) /\ (Relaying(k)' <=> Relaying(k))
<1> DEFINE u == IF conn[k].up = "none" THEN "none" ELSE "closed"
           x == [conn[k] EXCEPT !.pc = "done", !.client = "closed", !.up = u]
<1>1. conn' = [conn EXCEPT ![k] = x]
  BY DEF Fail
<1>2. u \in {"none", "closed"}
  OBVIOUS
<1> HIDE DEF u
<1>3. x \in ConnType
  BY <1>2, PCs, Conn1 DEF ConnType
<1>4. /\ x.pc = "done" /\ x.client = "closed" /\ x.up = u
      /\ x.inst = conn[k].inst /\ x.via = conn[k].via /\ x.watch = conn[k].watch
  BY Conn1 DEF ConnType
<1> HIDE DEF x
<1> QED BY <1>1, <1>2, <1>3, <1>4, SetConn DEF Changes, OneOK, Dialled, Relaying

LEMMA SnapshotKeeps ==
    ASSUME Inv, NEW k \in Conns, Snapshot(k) PROVE Inv'
<1> DEFINE h == {i \in Insts : inst[i].healthy}
           x == [conn[k] EXCEPT !.pc = "pick", !.offered = h]
<1>1. conn[k].pc = "new" /\ UNCHANGED <<scene, inst, active, cache, client>>
  BY DEF Snapshot
<1>2. CASE Fail(k)
  BY <1>1, <1>2, FailChanges, ConnOnly DEF Relaying
<1>3. CASE ~Fail(k)
  <2>1. conn' = [conn EXCEPT ![k] = x]
    BY <1>3 DEF Snapshot
  <2>2. h \in SUBSET Insts
    OBVIOUS
  <2> HIDE DEF h
  <2>3. x \in ConnType
    BY <2>2, PCs, Conn1 DEF ConnType
  <2>4. x.pc = "pick" /\ x.inst = conn[k].inst /\ x.via = conn[k].via /\ x.watch = conn[k].watch
    BY Conn1 DEF ConnType
  <2> HIDE DEF x
  <2>5. Changes(k) /\ (Relaying(k)' <=> Relaying(k))
    BY <1>1, <2>1, <2>3, <2>4, SetConn DEF Changes, OneOK, Dialled, Relaying
  <2> QED BY <1>1, <2>5, ConnOnly
<1> QED BY <1>2, <1>3

LEMMA PickKeeps ==
    ASSUME Inv, NEW k \in Conns, Pick(k) PROVE Inv'
<1>1. conn[k].pc = "pick" /\ UNCHANGED <<scene, inst, active, cache, client>>
  BY DEF Pick
<1> DEFINE p == IF scene.server = "ssh" THEN "look" ELSE "dial"
<1>2. PICK i \in conn[k].offered :
         conn' = [conn EXCEPT ![k].inst = i, ![k].offered = {}, ![k].pc = p]
  BY DEF Pick
<1>3. p \in {"look", "dial"} /\ i \in Insts
  BY Conn1 DEF ConnType
<1> DEFINE x == [conn[k] EXCEPT !.inst = i, !.offered = {}, !.pc = p]
<1>4. conn' = [conn EXCEPT ![k] = x]
  BY <1>2
<1> HIDE DEF p
<1>5. x \in ConnType
  BY <1>3, PCs, Conn1 DEF ConnType
<1>6. x.pc = p /\ x.inst = i /\ x.via = conn[k].via /\ x.watch = conn[k].watch
  BY Conn1 DEF ConnType
<1> HIDE DEF x
<1>7. Changes(k) /\ (Relaying(k)' <=> Relaying(k))
  BY <1>1, <1>3, <1>4, <1>5, <1>6, SetConn DEF Changes, OneOK, Dialled, Relaying
<1> QED BY <1>1, <1>7, ConnOnly

LEMMA DialKeeps ==
    ASSUME Inv, NEW k \in Conns, Dial(k) PROVE Inv'
<1>1. conn[k].pc = "dial" /\ UNCHANGED <<scene, inst, active, cache, client>>
  BY DEF Dial
<1>2. CASE Fail(k)
  BY <1>1, <1>2, FailChanges, ConnOnly DEF Relaying
<1>3. CASE ~Fail(k)
  <2> DEFINE n == inst[conn[k].inst].proc
             x == [conn[k] EXCEPT !.pc = "negotiate", !.up = "open", !.proc = n]
  <2>1. conn' = [conn EXCEPT ![k] = x]
    BY <1>3 DEF Dial
  <2>2. conn[k].inst \in Insts /\ n \in Procs
    BY <1>1, InvTypes DEF Inv, HandlerOK, OneOK, InstType
  <2> HIDE DEF n
  <2>3. x \in ConnType
    BY <2>2, PCs, Conn1 DEF ConnType
  <2>4. x.pc = "negotiate" /\ x.inst = conn[k].inst /\ x.via = conn[k].via
    BY Conn1 DEF ConnType
  <2> HIDE DEF x
  <2>5. Changes(k) /\ (Relaying(k)' <=> Relaying(k))
    BY <1>1, <2>1, <2>2, <2>3, <2>4, SetConn DEF Changes, OneOK, Dialled, Relaying
  <2> QED BY <1>1, <2>5, ConnOnly
<1> QED BY <1>2, <1>3

\* A step of the handler that changes its program counter only.
LEMMA GotoChanges ==
    ASSUME Inv, NEW k \in Conns, NEW p \in ConnPC \ {"new", "pick", "done"}, Goto(k, p),
           conn[k].inst \in Insts,
           p \in {"keepalive", "store", "channel"} => conn[k].via # Nil,
           Dialled(k) => p \in {"store", "channel", "incr", "enter", "relay"}
    PROVE  /\ Changes(k) /\ conn'[k].pc = p
           /\ conn'[k].inst = conn[k].inst /\ conn'[k].via = conn[k].via
<1> DEFINE x == [conn[k] EXCEPT !.pc = p]
<1>1. conn' = [conn EXCEPT ![k] = x]
  BY DEF Goto
<1>2. x \in ConnType
  BY Conn1 DEF ConnType
<1>3. x.pc = p /\ x.inst = conn[k].inst /\ x.via = conn[k].via
  BY Conn1 DEF ConnType
<1> HIDE DEF x
<1> QED BY <1>1, <1>2, <1>3, SetConn DEF Changes, OneOK, Dialled

LEMMA NegotiateKeeps ==
    ASSUME Inv, NEW k \in Conns, Negotiate(k) \/ NegotiateFails(k) PROVE Inv'
<1>1. conn[k].pc = "negotiate" /\ UNCHANGED <<scene, inst, active, cache, client>>
      /\ (Goto(k, "incr") \/ Fail(k))
  BY DEF Negotiate, NegotiateFails
<1>2. CASE Fail(k)
  BY <1>1, <1>2, FailChanges, ConnOnly DEF Relaying
<1>3. CASE Goto(k, "incr")
  <2>1. conn[k].inst \in Insts
    BY <1>1 DEF Inv, HandlerOK, OneOK
  <2>2. Changes(k) /\ conn'[k].pc = "incr"
    BY <1>1, <1>3, <2>1, GotoChanges, PCs DEF Dialled
  <2> QED BY <1>1, <2>2, ConnOnly DEF Relaying
<1> QED BY <1>1, <1>2, <1>3

LEMMA AnsweredKeeps ==
    ASSUME Inv, NEW k \in Conns, Answered(k) PROVE Inv'
<1>1. conn[k].pc = "keepalive" /\ UNCHANGED <<scene, inst, active, cache, client>>
      /\ Goto(k, "channel")
  BY DEF Answered
<1>2. conn[k].inst \in Insts /\ conn[k].via # Nil
  BY <1>1 DEF Inv, HandlerOK, OneOK
<1>3. Changes(k) /\ conn'[k].pc = "channel"
  BY <1>1, <1>2, GotoChanges, PCs
<1> QED BY <1>1, <1>3, ConnOnly DEF Relaying

LEMMA LookUpKeeps ==
    ASSUME Inv, NEW k \in Conns, LookUp(k) PROVE Inv'
<1> DEFINE v == cache[conn[k].inst]
           p == IF v = Nil THEN "dialSSH" ELSE "keepalive"
           x == [conn[k] EXCEPT !.via = v, !.pc = p]
<1>1. conn[k].pc = "look" /\ UNCHANGED <<scene, inst, active, cache, client>>
  BY DEF LookUp
<1>2. conn[k].inst \in Insts /\ v \in Conns \cup {Nil}
  BY <1>1, InvTypes DEF Inv, HandlerOK, OneOK
<1>3. conn' = [conn EXCEPT ![k] = x]
  BY DEF LookUp
<1>4. (p = "dialSSH" /\ v = Nil) \/ (p = "keepalive" /\ v # Nil)
  OBVIOUS
<1>5. x.pc = p /\ x.via = v /\ x.inst = conn[k].inst
  BY Conn1 DEF ConnType
<1> HIDE DEF p
<1>6. x \in ConnType
  <2> HIDE DEF v
  <2> QED BY <1>2, <1>4, PCs, Conn1 DEF ConnType
<1> HIDE DEF x
<1>7. Changes(k) /\ (Relaying(k)' <=> Relaying(k))
  BY <1>1, <1>2, <1>3, <1>4, <1>5, <1>6, SetConn DEF Changes, OneOK, Dialled, Relaying
<1> QED BY <1>1, <1>7, ConnOnly

LEMMA OpenChannelKeeps ==
    ASSUME Inv, NEW k \in Conns, OpenChannel(k) PROVE Inv'
<1>1. conn[k].pc = "channel" /\ UNCHANGED <<scene, inst, active, cache, client>>
  BY DEF OpenChannel
<1>2. CASE Fail(k)
  BY <1>1, <1>2, FailChanges, ConnOnly DEF Relaying
<1>3. CASE ~Fail(k)
  <2> DEFINE n == client[conn[k].via].proc
             x == [conn[k] EXCEPT !.pc = "incr", !.up = "open", !.proc = n]
  <2>1. conn' = [conn EXCEPT ![k] = x]
    BY <1>3 DEF OpenChannel
  <2>2. conn[k].inst \in Insts /\ conn[k].via # Nil
    BY <1>1 DEF Inv, HandlerOK, OneOK
  <2>3. n \in Procs \cup {0}
    BY <2>2, Conn1, InvTypes DEF Inv, ConnType, ClientType
  <2> HIDE DEF n
  <2>4. x \in ConnType
    BY <2>3, PCs, Conn1 DEF ConnType
  <2>5. x.pc = "incr" /\ x.inst = conn[k].inst /\ x.via = conn[k].via
    BY Conn1 DEF ConnType
  <2> HIDE DEF x
  <2>6. Changes(k) /\ (Relaying(k)' <=> Relaying(k))
    BY <1>1, <2>1, <2>2, <2>4, <2>5, SetConn DEF Changes, OneOK, Dialled, Relaying
  <2> QED BY <1>1, <2>6, ConnOnly
<1> QED BY <1>2, <1>3

LEMMA EnterRelayKeeps ==
    ASSUME Inv, NEW k \in Conns, EnterRelay(k) PROVE Inv'
<1> DEFINE w == IF scene.server = "ssh" THEN "read" ELSE "wait"
           n == IF scene.server = "ssh" THEN 0 ELSE inst[conn[k].inst].proc
           x == [conn[k] EXCEPT !.pc = "relay", !.tx = "run", !.rx = "run", !.watch = w, !.wctx = n]
<1>1. conn[k].pc = "enter" /\ UNCHANGED <<scene, inst, active, cache, client>>
  BY DEF EnterRelay
<1>2. conn[k].inst \in Insts /\ w \in {"read", "wait"} /\ n \in Procs \cup {0}
  BY <1>1, InvTypes DEF Inv, HandlerOK, OneOK, InstType
<1>3. conn' = [conn EXCEPT ![k] = x]
  BY DEF EnterRelay
<1> HIDE DEF w, n
<1>4. x \in ConnType
  BY <1>2, PCs, Conn1 DEF ConnType
<1>5. x.pc = "relay" /\ x.inst = conn[k].inst /\ x.via = conn[k].via
  BY Conn1 DEF ConnType
<1> HIDE DEF x
<1>6. Changes(k) /\ (Relaying(k)' <=> Relaying(k))
  BY <1>1, <1>2, <1>3, <1>4, <1>5, SetConn DEF Changes, OneOK, Dialled, Relaying
<1> QED BY <1>1, <1>6, ConnOnly

\* The copiers, the watcher and the two ends: the program counter stays.
LEMMA CopierKeeps ==
    ASSUME Inv, NEW k \in Conns,
           TxEnds(k) \/ TxWriteFails(k) \/ RxEnds(k) \/ RxWriteFails(k)
    PROVE  Inv'
<1>1. UNCHANGED <<scene, inst, active, cache, client>>
  BY DEF TxEnds, TxWriteFails, RxEnds, RxWriteFails
<1>2. PICK x \in {[conn[k] EXCEPT !.tx = "done"], [conn[k] EXCEPT !.rx = "done"]} :
         conn' = [conn EXCEPT ![k] = x]
  BY DEF TxEnds, TxWriteFails, RxEnds, RxWriteFails
<1>3. x \in ConnType
  BY <1>2, Conn1 DEF ConnType
<1>4. /\ x.pc = conn[k].pc /\ x.inst = conn[k].inst /\ x.via = conn[k].via
      /\ x.watch = conn[k].watch /\ x.client = conn[k].client /\ x.up = conn[k].up
  BY <1>2, Conn1 DEF ConnType
<1>5. Changes(k) /\ (Relaying(k)' <=> Relaying(k))
  BY <1>2, <1>3, <1>4, SetConn DEF Changes, OneOK, Dialled, Relaying
<1> QED BY <1>1, <1>5, ConnOnly

LEMMA EndsKeep ==
    ASSUME Inv, NEW k \in Conns, ClientEOF(k) \/ TargetEOF(k) PROVE Inv'
<1>1. UNCHANGED <<scene, inst, active, cache, client>>
  BY DEF ClientEOF, TargetEOF
<1>2. conn[k].pc # "done"
  BY DEF ClientEOF, TargetEOF, Inv, HandlerOK, OneOK
<1>3. PICK x \in {[conn[k] EXCEPT !.client = "eof"], [conn[k] EXCEPT !.up = "eof"]} :
         conn' = [conn EXCEPT ![k] = x]
  BY DEF ClientEOF, TargetEOF
<1>4. x \in ConnType
  BY <1>3, Conn1 DEF ConnType
<1>5. /\ x.pc = conn[k].pc /\ x.inst = conn[k].inst /\ x.via = conn[k].via
      /\ x.watch = conn[k].watch
  BY <1>3, Conn1 DEF ConnType
<1>6. Changes(k) /\ (Relaying(k)' <=> Relaying(k))
  BY <1>2, <1>3, <1>4, <1>5, SetConn DEF Changes, OneOK, Dialled, Relaying
<1> QED BY <1>1, <1>6, ConnOnly

LEMMA WatcherKeeps ==
    ASSUME Inv, NEW k \in Conns, WatcherStep(k) PROVE Inv'
<1> DEFINE n == inst[conn[k].inst].proc
           r == [conn[k] EXCEPT !.watch = "wait", !.wctx = n]
           f == [conn[k] EXCEPT !.watch = "done", !.client = "closed", !.up = "closed"]
<1>1. UNCHANGED <<scene, inst, active, cache, client>>
  BY DEF WatcherStep, WatchReads, WatchFires
<1>2. CASE WatchReads(k)
  <2>1. conn' = [conn EXCEPT ![k] = r] /\ conn[k].watch = "read"
    BY <1>2 DEF WatchReads
  <2>2. n \in Procs
    BY <2>1, InvTypes DEF Inv, HandlerOK, OneOK, InstType
  <2> HIDE DEF n
  <2>3. r \in ConnType
    BY <2>2, Conn1 DEF ConnType
  <2>4. /\ r.pc = conn[k].pc /\ r.inst = conn[k].inst /\ r.via = conn[k].via
        /\ r.watch = "wait" /\ r.client = conn[k].client /\ r.up = conn[k].up
    BY Conn1 DEF ConnType
  <2> HIDE DEF r
  <2>5. Changes(k) /\ (Relaying(k)' <=> Relaying(k))
    BY <2>1, <2>3, <2>4, SetConn DEF Changes, OneOK, Dialled, Relaying
  <2> QED BY <1>1, <2>5, ConnOnly
<1>3. CASE WatchFires(k)
  <2>1. conn' = [conn EXCEPT ![k] = f]
    BY <1>3 DEF WatchFires
  <2>2. f \in ConnType
    BY Conn1 DEF ConnType
  <2>3. /\ f.pc = conn[k].pc /\ f.inst = conn[k].inst /\ f.via = conn[k].via
        /\ f.watch = "done" /\ f.client = "closed" /\ f.up = "closed"
    BY Conn1 DEF ConnType
  <2> HIDE DEF f
  <2>4. Changes(k) /\ (Relaying(k)' <=> Relaying(k))
    BY <2>1, <2>2, <2>3, SetConn DEF Changes, OneOK, Dialled, Relaying
  <2> QED BY <1>1, <2>4, ConnOnly
<1> QED BY <1>2, <1>3 DEF WatcherStep

-----------------------------------------------------------------------------
(* Steps that count                                                        *)

LEMMA RelaysFinite ==
    ASSUME NEW i PROVE IsFiniteSet(Relays(i)) /\ Cardinality(Relays(i)) \in Nat
<1>1. Relays(i) \in SUBSET Conns
  BY DEF Relays
<1> QED BY <1>1, ConnRelayAssumption, FS_Subset, FS_CardinalityType

LEMMA IncrConnsKeeps ==
    ASSUME Inv, NEW k \in Conns, IncrConns(k) PROVE Inv'
<1> DEFINE i == conn[k].inst
<1>1. conn[k].pc = "incr" /\ Goto(k, "enter") /\ UNCHANGED <<scene, inst, cache, client>>
      /\ active' = [active EXCEPT ![i] = @ + 1]
  BY DEF IncrConns
<1>2. i \in Insts /\ active \in [Insts -> Nat]
  BY <1>1, InvTypes DEF Inv, HandlerOK, OneOK
<1>3. Changes(k) /\ conn'[k].pc = "enter" /\ conn'[k].inst = i
  BY <1>1, <1>2, GotoChanges, PCs
<1>4. \A j \in Conns \ {k} : conn'[j] = conn[j]
  BY <1>3 DEF Changes
<1>5. k \notin Relays(i) /\ Relays(i)' = Relays(i) \cup {k}
  <2>1. \A j \in Conns : j \in {m \in Conns : conn'[m].inst = conn[k].inst
                                              /\ conn'[m].pc \in {"enter", "relay"}}
                         <=> j \in Relays(i) \/ j = k
    BY <1>1, <1>3, <1>4 DEF Relays, Relaying
  <2> QED BY <1>1, <1>3, <2>1 DEF Relays, Relaying
<1>6. \A j \in Insts \ {i} : Relays(j)' = Relays(j)
  BY <1>1, <1>3, <1>4 DEF Relays, Relaying
<1>7. Cardinality(Relays(i) \cup {k}) = Cardinality(Relays(i)) + 1
  BY <1>5, RelaysFinite, FS_AddElement
<1>8. Counted'
  BY <1>1, <1>2, <1>3, <1>5, <1>6, <1>7 DEF Inv, Counted
<1>9. TypeOK'
  <2>1. active' \in [Insts -> Nat] /\ conn' \in [Conns -> ConnType]
    BY <1>1, <1>2, <1>3 DEF Changes
  <2> QED BY <1>1, <2>1 DEF Inv, TypeOK, ConnType
<1> QED BY <1>1, <1>3, <1>8, <1>9, ChangesKeep, ClientsKept, CacheKept DEF Inv

LEMMA LeaveKeeps ==
    ASSUME Inv, NEW k \in Conns, Leave(k) PROVE Inv'
<1> DEFINE i == conn[k].inst
           x == [conn[k] EXCEPT !.pc = "done", !.client = "closed", !.up = "closed"]
<1>1. conn[k].pc = "relay" /\ UNCHANGED <<scene, inst, cache, client>>
      /\ active' = [active EXCEPT ![i] = @ - 1] /\ conn' = [conn EXCEPT ![k] = x]
  BY DEF Leave
<1>2. i \in Insts /\ active \in [Insts -> Nat]
  BY <1>1, InvTypes DEF Inv, HandlerOK, OneOK
<1>3. x \in ConnType
  BY PCs, Conn1 DEF ConnType
<1>4. /\ x.pc = "done" /\ x.client = "closed" /\ x.up = "closed"
      /\ x.inst = i /\ x.via = conn[k].via /\ x.watch = conn[k].watch
  BY Conn1 DEF ConnType
<1> HIDE DEF x
<1>5. Changes(k) /\ conn'[k] = x /\ \A j \in Conns \ {k} : conn'[j] = conn[j]
  BY <1>1, <1>3, <1>4, SetConn DEF Changes, OneOK, Dialled
<1>6. k \in Relays(i) /\ \A j \in Insts \ {i} : Relays(j)' = Relays(j)
  BY <1>1, <1>4, <1>5 DEF Relays, Relaying
<1>7. {m \in Conns : conn'[m].inst = i /\ conn'[m].pc \in {"enter", "relay"}} = Relays(i) \ {k}
  BY <1>1, <1>4, <1>5 DEF Relays, Relaying
<1>8. \A a \in Insts : a = i => Relays(a)' = Relays(a) \ {k}
  BY <1>7 DEF Relays, Relaying
<1>9. Cardinality(Relays(i) \ {k}) = Cardinality(Relays(i)) - 1 /\ Cardinality(Relays(i)) \in Nat
      /\ Cardinality(Relays(i) \ {k}) \in Nat
  <2>1. Cardinality(Relays(i) \ {k}) = Cardinality(Relays(i)) - 1
    BY <1>6, RelaysFinite, FS_RemoveElement
  <2>2. IsFiniteSet(Relays(i) \ {k})
    BY RelaysFinite, FS_Difference
  <2> QED BY <2>1, <2>2, RelaysFinite, FS_CardinalityType
<1>10. \A a \in Insts : active'[a] = Cardinality(Relays(a)') /\ active'[a] \in Nat
  <2>1. \A a \in Insts : active[a] = Cardinality(Relays(a))
    BY DEF Inv, Counted
  <2> QED BY <1>1, <1>2, <1>6, <1>8, <1>9, <2>1
<1>11. Counted'
  BY <1>10 DEF Counted
<1>12. TypeOK'
  <2>1. active' \in [Insts -> Nat] /\ conn' \in [Conns -> ConnType]
    BY <1>1, <1>2, <1>5, <1>10 DEF Changes
  <2> QED BY <1>1, <2>1 DEF Inv, TypeOK, ConnType
<1> QED BY <1>1, <1>5, <1>11, <1>12, ChangesKeep, ClientsKept, CacheKept DEF Inv

-----------------------------------------------------------------------------
(* Steps on the SSH clients                                                *)

\* A session that is lost stays lost.
LEMMA SessionLostKeeps ==
    ASSUME Inv, NEW x \in Conns, SessionLost(x) PROVE Inv'
<1>1. /\ client[x].proc # 0 /\ client' = [client EXCEPT ![x].lost = TRUE]
      /\ UNCHANGED <<scene, inst, active, cache, conn>>
  BY DEF SessionLost
<1>2. /\ client' \in [Conns -> ClientType]
      /\ \A y \in Conns : /\ client'[y].proc = client[y].proc /\ client'[y].closed = client[y].closed
                          /\ client[y].lost => client'[y].lost
  BY <1>1, InvTypes DEF Inv, ClientType
<1>3. ClientOK'
  BY <1>1, <1>2 DEF Inv, ClientOK, Useless, Runs, Dialled
<1>4. TypeOK'
  BY <1>1, <1>2 DEF Inv, TypeOK, ClientType
<1> QED BY <1>1, <1>3, <1>4 DEF Inv, HandlerOK, UsedDialled, CachedDialled, Dialled, Counted, Relays,
                              Relaying

\* Only a client whose session is lost, or whose process has ended, is closed.
LEMMA KeepaliveFailsKeeps ==
    ASSUME Inv, NEW k \in Conns, KeepaliveFails(k) PROVE Inv'
<1> DEFINE v == conn[k].via
<1>1. conn[k].pc = "keepalive" /\ ~Works(v) /\ client' = [client EXCEPT ![v].closed = TRUE]
      /\ Goto(k, "delete") /\ UNCHANGED <<scene, inst, active, cache>>
  BY DEF KeepaliveFails
<1>2. conn[k].inst \in Insts /\ v \in Conns /\ client \in [Conns -> ClientType]
  BY <1>1, Conn1, InvTypes DEF Inv, HandlerOK, OneOK, ConnType
<1>3. Changes(k) /\ conn'[k].pc = "delete" /\ conn'[k].inst = conn[k].inst
  BY <1>1, <1>2, GotoChanges, PCs DEF Dialled
<1>4. Dialled(v) /\ conn[v].inst = conn[k].inst
  BY <1>2, ConnRelayAssumption DEF Inv, UsedDialled
<1>5. \A y \in Conns : Dialled(y) => Dialled(y)' /\ conn'[y].inst = conn[y].inst
  BY <1>3, ChangesKeep
<1>6. /\ client' \in [Conns -> ClientType] /\ client'[v].closed
      /\ client'[v].proc = client[v].proc /\ client'[v].lost = client[v].lost
      /\ \A y \in Conns \ {v} : client'[y] = client[y]
  BY <1>1, <1>2 DEF ClientType
<1>7. ClientOK'
  <2>1. client[v].proc \in Nat /\ inst[conn[v].inst].proc \in Nat
        /\ client[v].proc <= inst[conn[v].inst].proc
    <3>1. client[v].proc \in Nat /\ inst[conn[v].inst].proc \in Nat
      BY <1>2, <1>4, InvTypes, ConnRelayAssumption DEF Inv, ClientType, InstType, Procs
    <3> QED BY <1>2, <3>1 DEF Inv, ClientOK
  <2>2. Useless(v)
    BY <1>1, <1>2, <1>4 DEF Works, Inv, ClientOK, Useless
  <2>3. ASSUME NEW y \in Conns, client'[y].proc # 0 \/ client'[y].closed
        PROVE  /\ Dialled(y) /\ conn[y].inst \in Insts
               /\ client'[y].proc <= inst[conn[y].inst].proc
               /\ client'[y].closed => client'[y].lost \/ ~Runs(conn[y].inst, client'[y].proc)
    <3>1. CASE y = v
      BY <1>2, <1>4, <1>6, <2>1, <2>2, <3>1 DEF Useless
    <3>2. CASE y # v
      BY <1>6, <2>3, <3>2 DEF Inv, ClientOK, Useless
    <3> QED BY <3>1, <3>2
  <2> QED BY <1>1, <1>5, <2>3 DEF ClientOK, Runs, Useless
<1>8. TypeOK'
  <2>1. conn' \in [Conns -> ConnType]
    BY <1>3 DEF Changes
  <2> QED BY <1>1, <1>6, <2>1 DEF Inv, TypeOK, ConnType, ClientType
<1>9. Counted'
  BY <1>1, <1>3, CountKept DEF Relaying
<1> QED BY <1>1, <1>3, <1>7, <1>8, <1>9, ChangesKeep, CacheKept DEF Inv

LEMMA DeleteStoreKeep ==
    ASSUME Inv, NEW k \in Conns, Delete(k) \/ Store(k) PROVE Inv'
<1>1. conn[k].pc \in {"delete", "store"} /\ UNCHANGED <<scene, inst, active, client>>
  BY DEF Delete, Store
<1>2. conn[k].inst \in Insts /\ (conn[k].pc = "store" => conn[k].via # Nil)
      /\ cache \in [Insts -> Conns \cup {Nil}]
  BY <1>1, InvTypes DEF Inv, HandlerOK, OneOK
<1>3. Changes(k) /\ conn'[k].pc \in {"dialSSH", "channel"} /\ conn'[k].inst = conn[k].inst
      /\ (Store(k) => conn'[k].pc = "channel")
  <2>1. CASE Delete(k)
    <3>1. conn[k].pc = "delete" /\ Goto(k, "dialSSH")
      BY <2>1 DEF Delete
    <3> QED BY <1>2, <2>1, <3>1, GotoChanges, PCs DEF Dialled, Store
  <2>2. CASE Store(k)
    <3>1. conn[k].pc = "store" /\ Goto(k, "channel")
      BY <2>2 DEF Store
    <3> QED BY <1>2, <2>2, <3>1, GotoChanges, PCs
  <2> QED BY <2>1, <2>2
<1>4. PICK v \in {Nil, k} : cache' = [cache EXCEPT ![conn[k].inst] = v] /\ (v # Nil => Store(k))
  BY DEF Delete, Store
<1>5. CachedDialled'
  <2>1. \A i \in Insts : cache[i] # Nil => cache[i] \in Conns
    BY <1>2
  <2>2. v # Nil => Dialled(k)' /\ conn'[k].inst = conn[k].inst
    BY <1>3, <1>4 DEF Dialled
  <2>3. ASSUME NEW i \in Insts, cache'[i] # Nil
        PROVE  Dialled(cache[i])' /\ conn'[cache'[i]].inst = i
    <3>1. CASE i = conn[k].inst
      <4>1. cache'[i] = v
        BY <1>2, <1>4, <3>1
      <4> QED BY <1>4, <2>2, <2>3, <3>1, <4>1 DEF Dialled
    <3>2. CASE i # conn[k].inst
      <4>1. cache'[i] = cache[i] /\ cache[i] \in Conns
        BY <1>2, <1>4, <2>1, <2>3, <3>2
      <4>2. Dialled(cache[i]) /\ conn[cache[i]].inst = i
        BY <2>3, <4>1 DEF Inv, CachedDialled
      <4> QED BY <1>3, <4>1, <4>2, ChangesKeep DEF Dialled
    <3> QED BY <3>1, <3>2
  <2> QED BY <2>3 DEF CachedDialled
<1>6. TypeOK'
  <2>1. conn' \in [Conns -> ConnType]
    BY <1>3 DEF Changes
  <2>2. cache' \in [Insts -> Conns \cup {Nil}]
    BY <1>2, <1>4
  <2> QED BY <1>1, <2>1, <2>2 DEF Inv, TypeOK, ConnType
<1>7. Counted'
  BY <1>1, <1>3, CountKept DEF Relaying
<1> QED BY <1>1, <1>3, <1>5, <1>6, <1>7, ChangesKeep, ClientsKept DEF Inv

\* The handler that dials has not dialled before: nobody uses its client yet.
LEMMA DialSSHKeeps ==
    ASSUME Inv, NEW k \in Conns, DialSSH(k) PROVE Inv'
<1> DEFINE i == conn[k].inst
           n == inst[i].proc
           x == [conn[k] EXCEPT !.pc = "store", !.via = k]
<1>1. conn[k].pc = "dialSSH" /\ UNCHANGED <<scene, inst, active, cache>>
  BY DEF DialSSH
<1>2. CASE Fail(k) /\ UNCHANGED client
  BY <1>1, <1>2, FailChanges, ConnOnly DEF Relaying
<1>3. CASE ~(Fail(k) /\ UNCHANGED client)
  <2>1. client' = [client EXCEPT ![k].proc = n] /\ conn' = [conn EXCEPT ![k] = x]
    BY <1>3 DEF DialSSH
  <2>2. i \in Insts /\ n \in Procs /\ n \in Nat /\ client \in [Conns -> ClientType]
    BY <1>1, InvTypes, ConnRelayAssumption DEF Inv, HandlerOK, OneOK, InstType, Procs
  <2>3. x \in ConnType
    BY PCs, Conn1 DEF ConnType
  <2>4. x.pc = "store" /\ x.via = k /\ x.inst = i
    BY Conn1 DEF ConnType
  <2> HIDE DEF x
  <2>5. Changes(k) /\ conn'[k] = x /\ (Relaying(k)' <=> Relaying(k))
    BY <1>1, <2>1, <2>2, <2>3, <2>4, SetConn, ConnRelayAssumption
    DEF Changes, OneOK, Dialled, Relaying
  <2>6. ~client[k].closed
    BY <1>1 DEF Inv, ClientOK, Dialled
  <2>7. client' \in [Conns -> ClientType] /\ client'[k].proc = n /\ client'[k].closed = client[k].closed
        /\ \A y \in Conns \ {k} : client'[y] = client[y]
    <3> HIDE DEF n
    <3> QED BY <2>1, <2>2 DEF ClientType
  <2>8. ClientOK'
    <3>1. ASSUME NEW y \in Conns, y # k, client[y].proc # 0 \/ client[y].closed
          PROVE  /\ Dialled(y)' /\ conn'[y].inst \in Insts
                 /\ client[y].proc <= inst[conn'[y].inst].proc
                 /\ client[y].closed => client[y].lost \/ ~Runs(conn'[y].inst, client[y].proc)
      BY <2>5, <3>1, ChangesKeep DEF Inv, ClientOK, Useless
    <3>2. Dialled(k)' /\ conn'[k].inst = i
      BY <2>4, <2>5 DEF Dialled
    <3>3. ASSUME NEW y \in Conns, client'[y].proc # 0 \/ client'[y].closed
          PROVE  /\ Dialled(y)' /\ conn'[y].inst \in Insts
                 /\ client'[y].proc <= inst[conn'[y].inst].proc
                 /\ client'[y].closed => client'[y].lost \/ ~Runs(conn'[y].inst, client'[y].proc)
      <4>1. CASE y = k
        BY <2>2, <2>6, <2>7, <3>2, <4>1
      <4>2. CASE y # k
        BY <2>7, <3>1, <3>3, <4>2
      <4> QED BY <4>1, <4>2
    <3> QED BY <1>1, <3>3 DEF ClientOK, Runs, Useless
  <2>9. TypeOK'
    <3>1. conn' \in [Conns -> ConnType]
      BY <2>5 DEF Changes
    <3> QED BY <1>1, <2>7, <3>1 DEF Inv, TypeOK, ConnType, ClientType
  <2> QED BY <1>1, <2>5, <2>8, <2>9, ChangesKeep, CountKept, CacheKept DEF Inv
<1> QED BY <1>2, <1>3

-----------------------------------------------------------------------------
LEMMA NextInv == Inv /\ [NextStep]_vars => Inv'
<1> SUFFICES ASSUME Inv, [NextStep]_vars PROVE Inv'
  OBVIOUS
<1>1. CASE \E i \in Insts : Health(i) \/ Crash(i) \/ Reaped(i) \/ Stop(i) \/ Start(i)
  BY <1>1, InstSteps
<1>5. CASE \E x \in Conns : SessionLost(x)
  BY <1>5, SessionLostKeeps
<1>2. ASSUME NEW k \in Conns, HandlerStep(k) PROVE Inv'
  BY <1>2, SnapshotKeeps, PickKeeps, DialKeeps, NegotiateKeeps, IncrConnsKeeps, EnterRelayKeeps,
     LeaveKeeps, LookUpKeeps, KeepaliveFailsKeeps, DeleteStoreKeep, DialSSHKeeps, OpenChannelKeeps
  DEF HandlerStep
<1>3. ASSUME NEW k \in Conns, ConnStep(k) PROVE Inv'
  BY <1>2, <1>3, NegotiateKeeps, AnsweredKeeps, CopierKeeps, WatcherKeeps, EndsKeep DEF ConnStep
<1>4. CASE UNCHANGED vars
  BY <1>4 DEF vars, Inv, TypeOK, HandlerOK, Counted, Relays, Relaying, UsedDialled, CachedDialled,
              ClientOK, Useless, Dialled, Runs
<1> QED BY <1>1, <1>3, <1>4, <1>5 DEF NextStep

\* The inductive invariant holds, in both servers and whatever the instances do.
THEOREM Invariance == Spec => []Inv
BY InitInv, NextInv, PTL DEF Spec

\* relay.go, ssh.go: activeConns is the number of relays of the instance, on
\* every path out of the handler, and a handler that is done has closed both
\* sockets.
THEOREM RelayCountExact == Spec => []RelaysCounted
<1>1. Inv => RelaysCounted
  BY InvImplies
<1> QED BY <1>1, Invariance, PTL

\* ssh.go, getSSHClient: a shared client is closed only when its session is
\* lost or the process it was dialled through has ended, however handlers,
\* restarts and lost sessions interleave.
THEOREM LiveClientsStay == Spec => []LiveClientNeverClosed
<1>1. Inv => LiveClientNeverClosed
  BY InvImplies
<1> QED BY <1>1, Invariance, PTL
=============================================================================
