--------------------------- MODULE CentralServer ---------------------------
(***************************************************************************)
(* The central server (cmd/centralserver): it reads frames from many       *)
(* tunnel connections ("sources"), reassembles each client connection and  *)
(* relays it to a SOCKS upstream.                                          *)
(*                                                                         *)
(* Goroutines and the granularity of their steps:                          *)
(*   handler s   handleFrameConn of source s: reads a frame and dispatches *)
(*   relay t     connectUpstream/relayUpstreamToTunnel of connState t      *)
(*   writer t    upstreamWriter of connState t                             *)
(*   cleaner     cleanupLoop                                               *)
(* A section under connState.mu is one step; what the code does after      *)
(* unlocking is a step of its own, one per channel send.  cs.mu is the     *)
(* variable csLock, held over several steps where the code holds it so.    *)
(* The clients, the tunnels and the upstream are the environment; the      *)
(* constant Environments says what a behaviour may meet of it.             *)
(***************************************************************************)
EXTENDS ReordererOps, SeqOps, SequencesExt

CONSTANTS
    Sources,      \* tunnel TCP connections (sourceConn objects)
    ConnIDs,      \* client connection identifiers
    MaxStates,    \* bound: connState objects ever allocated
    MaxReverse,   \* bound: chunks the upstream sends back per connState
    QueueCap,     \* capacity of writeCh (256 in the code)
    Environments, \* which events a behaviour may have, and how many data frames
    Nil

AllEvents == {"FIN", "RST", "loss", "death", "writeErr", "connectErr", "eof",
              "gap", "age"}

ASSUME CentralServerAssumption ==
    /\ MaxStates \in Nat /\ MaxReverse \in Nat
    /\ QueueCap \in Nat \ {0}
    /\ \A e \in Environments : /\ e.events \subseteq AllEvents
                               /\ e.data \in Nat /\ e.data + 2 < SeqSpace
    /\ Nil \notin ConnIDs \cup Sources \cup (1 .. MaxStates)
    /\ {"free", "cleaner"} \cap Sources = {}

States == 1 .. MaxStates

VARIABLES
    conns,     \* cs.conns: ConnID -> connState
    csLock,    \* who holds cs.mu over more than one step
    st,        \* the connState objects
    wq,        \* contents of the channel made for connState t
    up,        \* upstream connection after the handshake: none, open,
               \* eof (closed by the peer) or closed (by the server)
    written,   \* what the upstream has received on behalf of connState t
    handler,   \* per source: frame handler goroutine
    relay,     \* per connState: connectUpstream goroutine
    writer,    \* per connState: upstreamWriter goroutine
    cleaner,   \* cleanupLoop goroutine: the ConnID it is closing, or Nil
    inbox,     \* frames in flight on each tunnel connection
    alive,     \* tunnel connection not broken
    client,    \* per ConnID: the far end, a PacketSplitter
    env        \* the environment of this behaviour

vars == <<conns, csLock, st, wq, up, written, handler, relay, writer, cleaner,
          inbox, alive, client, env>>
serverVars == <<conns, csLock, st, wq, up, written, handler, relay, writer, cleaner>>
envVars    == <<inbox, alive, client, env>>

Frame == [conn : ConnIDs, flag : {"SYN", "DATA", "FIN", "RST"}, seq : SeqNum]

\* connState. "gone" is a history field: how the object left cs.conns.
NewState(c, s, seq) ==
    [conn |-> c, reord |-> NewReordererAt(seq), sources |-> <<s>>,
     target |-> FALSE, writeCh |-> FALSE, cancelled |-> FALSE, txSeq |-> 0,
     age |-> 0, idle |-> FALSE, gone |-> "no"]

Unallocated ==
    [conn |-> Nil, reord |-> NewReordererAt(0), sources |-> << >>,
     target |-> FALSE, writeCh |-> FALSE, cancelled |-> FALSE, txSeq |-> 0,
     age |-> 0, idle |-> FALSE, gone |-> "no"]

IdleHandler == [pc |-> "read", conn |-> Nil, t |-> Nil, seq |-> 0, lo |-> 0, hi |-> 0,
                served |-> {}]
IdleRelay == [pc |-> "none", lo |-> 0, hi |-> 0, victim |-> Nil]

Init ==
    /\ conns = [c \in ConnIDs |-> Nil]
    /\ csLock = "free"
    /\ st = [t \in States |-> Unallocated]
    /\ wq = [t \in States |-> << >>]
    /\ up = [t \in States |-> "none"]
    /\ written = [t \in States |-> << >>]
    /\ handler = [s \in Sources |-> IdleHandler]
    /\ relay = [t \in States |-> IdleRelay]
    /\ writer = [t \in States |-> "none"]
    /\ cleaner = Nil
    /\ inbox = [s \in Sources |-> << >>]
    /\ alive = [s \in Sources |-> TRUE]
    /\ client = [c \in ConnIDs |-> [seq |-> 0, closed |-> FALSE]]
    /\ env \in Environments

-----------------------------------------------------------------------------
(* The environment: PacketSplitter at the far end, tunnels, upstream, time.*)

\* SendSYN: one SYN per instance; only some of the instances may get it.
SendSYN(c) ==
    /\ client[c].seq = 0
    /\ \E S \in SUBSET {s \in Sources : alive[s]} :
          /\ S # {}
          /\ inbox' = [s \in Sources |->
                IF s \in S THEN Append(inbox[s], [conn |-> c, flag |-> "SYN", seq |-> 0])
                ELSE inbox[s]]
    /\ client' = [client EXCEPT ![c].seq = 1]
    /\ UNCHANGED <<serverVars, alive, env>>

\* RelayClientToUpstream: the next chunk goes over one tunnel, or over none
\* when both attempts fail; its sequence number is used up either way.
SendData(c) ==
    /\ client[c].seq \in 1 .. env.data
    /\ ~client[c].closed
    /\ \/ \E s \in Sources :
             /\ alive[s]
             /\ inbox' = [inbox EXCEPT ![s] =
                   Append(@, [conn |-> c, flag |-> "DATA", seq |-> client[c].seq])]
       \/ "loss" \in env.events /\ UNCHANGED inbox
    /\ client' = [client EXCEPT ![c].seq = @ + 1]
    /\ UNCHANGED <<serverVars, alive, env>>

\* Close: a FIN to every instance, each over one of its tunnels.  (No client
\* in the repository sends RST; the server handles it all the same.)
SendClose(c, flag) ==
    /\ flag \in env.events
    /\ client[c].seq > 0 /\ ~client[c].closed
    /\ \E S \in SUBSET {s \in Sources : alive[s]} :
          /\ S # {}
          /\ inbox' = [s \in Sources |->
                IF s \in S
                THEN Append(inbox[s], [conn |-> c, flag |-> flag, seq |-> client[c].seq])
                ELSE inbox[s]]
    /\ client' = [client EXCEPT ![c].closed = TRUE]
    /\ UNCHANGED <<serverVars, alive, env>>

\* A tunnel connection breaks.
TunnelDies(s) ==
    /\ "death" \in env.events /\ alive[s]
    /\ alive' = [alive EXCEPT ![s] = FALSE]
    /\ UNCHANGED <<serverVars, inbox, client, env>>

\* The upstream closes its end.
PeerCloses(t) ==
    /\ "eof" \in env.events /\ up[t] = "open"
    /\ up' = [up EXCEPT ![t] = "eof"]
    /\ UNCHANGED <<conns, csLock, st, wq, written, handler, relay, writer, cleaner, envVars>>

\* gapTimeout passes while the gap timer of connState t runs.
GapElapses(t) ==
    /\ "gap" \in env.events /\ st[t].reord.waitingSince = "recent"
    /\ st' = [st EXCEPT ![t].reord.waitingSince = "expired"]
    /\ UNCHANGED <<conns, csLock, wq, up, written, handler, relay, writer, cleaner, envVars>>

Registered(t) == st[t].conn # Nil /\ conns[st[t].conn] = t

\* Time since created passes 30 s (age 1), then 60 s (age 2).  Only the
\* cleanup loop looks at the clock, and only at registered connStates.
Ages(t) ==
    /\ "age" \in env.events /\ Registered(t) /\ st[t].age < 2
    /\ st' = [st EXCEPT ![t].age = @ + 1]
    /\ UNCHANGED <<conns, csLock, wq, up, written, handler, relay, writer, cleaner, envVars>>

\* Time since lastActive passes 60 s.
GoesIdle(t) ==
    /\ "age" \in env.events /\ Registered(t) /\ st[t].age = 2 /\ ~st[t].idle
    /\ st' = [st EXCEPT ![t].idle = TRUE]
    /\ UNCHANGED <<conns, csLock, wq, up, written, handler, relay, writer, cleaner, envVars>>

-----------------------------------------------------------------------------
(* Operations shared by the goroutines.                                    *)

\* select { case writeCh <- data: default: }
Enqueue(q, data) == IF Len(q) < QueueCap THEN Append(q, data) ELSE q

\* sendFrame: try the sources in turn, from any start; the ones whose write
\* fails are removed, and the frame is lost if all fail.
sendFrame(c) ==
    /\ csLock = "free"
    /\ IF conns[c] = Nil THEN UNCHANGED st
       ELSE LET t == conns[c]
            IN  \E failed \in SUBSET {s \in ToSet(st[t].sources) :
                                         ~alive[s] \/ "writeErr" \in env.events} :
                   st' = [st EXCEPT ![t].sources = Filter(@, Sources \ failed)]

\* removeConn, first half, under cs.mu: forget the ConnID.
removeConnDelete(c) ==
    /\ csLock = "free"
    /\ conns' = [conns EXCEPT ![c] = Nil]
    /\ st' = IF conns[c] = Nil THEN st ELSE [st EXCEPT ![conns[c]].gone = "removeConn"]

\* removeConn, second half, cs.mu released: cancel the context of the victim.
removeConnCancel(t) == st' = [st EXCEPT ![t].cancelled = TRUE]

\* Mutant of closeAndDelete: the target is left to the cancelled context.
deleteOnly(c) ==
    /\ conns' = [conns EXCEPT ![c] = Nil]
    /\ st' = [st EXCEPT ![conns[c]].gone = "cleanup"]
    /\ UNCHANGED up

\* What cleanupSource and cleanupLoop do with a connState they drop, after
\* cancelling its context: close the target if there is one, and delete.
closeAndDelete(c) ==
    LET t == conns[c]
    IN  /\ up' = [up EXCEPT ![t] = IF st[t].target THEN "closed" ELSE @]
        /\ conns' = [conns EXCEPT ![c] = Nil]
        /\ st' = [st EXCEPT ![t].gone = "cleanup"]

-----------------------------------------------------------------------------
(* handler s                                                               *)

Resting(s) == [IdleHandler EXCEPT !.served = handler[s].served]

\* Go on at pc; back at the head of the read loop the locals are dead.
Goto(s, pc) ==
    handler' = [handler EXCEPT ![s] =
                  IF pc = "read" THEN Resting(s) ELSE [@ EXCEPT !.pc = pc, !.lo = 0, !.hi = 0]]

\* Enter a loop that pushes the chunks lo .. hi - 1, and then goes on at exit.
GotoPush(s, pc, exit, lo, hi) ==
    IF lo = hi THEN Goto(s, exit)
    ELSE handler' = [handler EXCEPT ![s].pc = pc, ![s].lo = lo, ![s].hi = hi]

\* ReadFrame returns the next frame; servedIDs is updated before dispatch.
ReadFrame(s, flag) ==
    /\ handler[s].pc = "read"
    /\ inbox[s] # << >>
    /\ Head(inbox[s]).flag = flag
    /\ inbox' = [inbox EXCEPT ![s] = Tail(@)]
    /\ UNCHANGED <<alive, client, env>>

\* Mutant of Received: servedIDs is not updated.
ReceivedUnserved(s, pc, t) ==
    LET f == Head(inbox[s])
    IN  IF pc = "read" THEN Resting(s)
        ELSE [Resting(s) EXCEPT !.pc = pc, !.conn = f.conn, !.t = t, !.seq = f.seq]

Received(s, pc, t) ==
    LET f == Head(inbox[s])
        h == [Resting(s) EXCEPT !.served = @ \cup {f.conn}]
    IN  IF pc = "read" THEN h
        ELSE [h EXCEPT !.pc = pc, !.conn = f.conn, !.t = t, !.seq = f.seq]

\* The lowest connState object not yet in use.
FreshState(t) == st[t].conn = Nil /\ \A u \in States : u < t => st[u].conn # Nil

\* The return on a bad payload is left out: the SYNs of the splitters decode
\* as long as no frame is cut short (FramesIntact of module Wire).
handleSYN(s) ==
    /\ ReadFrame(s, "SYN")
    /\ csLock = "free"
    /\ LET f == Head(inbox[s])
       IN  \/ /\ conns[f.conn] # Nil
              /\ st' = [st EXCEPT ![conns[f.conn]].sources = Append(@, s)]
              /\ UNCHANGED <<conns, relay>>
           \/ /\ conns[f.conn] = Nil
              /\ \E t \in States :
                    /\ FreshState(t)
                    /\ st' = [st EXCEPT ![t] = NewState(f.conn, s, f.seq + 1)]
                    /\ conns' = [conns EXCEPT ![f.conn] = t]
                    /\ relay' = [relay EXCEPT ![t].pc = "connect"]
    /\ handler' = [handler EXCEPT ![s] = Received(s, "read", Nil)]
    /\ UNCHANGED <<csLock, wq, up, written, writer, cleaner>>

\* handleData and handleFIN look the connState up under cs.mu and go on with
\* the pointer after releasing it; handleRST goes straight to removeConn.
DispatchLookup(s, flag, pc) ==
    /\ ReadFrame(s, flag)
    /\ csLock = "free"
    /\ LET t == conns[Head(inbox[s]).conn]
       IN  handler' = [handler EXCEPT ![s] = Received(s, IF t = Nil THEN "read" ELSE pc, t)]
    /\ UNCHANGED <<conns, csLock, st, wq, up, written, relay, writer, cleaner>>

handleRST(s) ==
    /\ ReadFrame(s, "RST")
    /\ handler' = [handler EXCEPT ![s] = Received(s, "delete", Nil)]
    /\ UNCHANGED <<conns, csLock, st, wq, up, written, relay, writer, cleaner>>

\* The locked section of handleData.
handleData(s) ==
    /\ handler[s].pc = "data"
    /\ LET h   == handler[s]
           r   == Insert(st[h.t].reord, h.seq)
           src == IF s \in ToSet(st[h.t].sources) THEN st[h.t].sources
                  ELSE Append(st[h.t].sources, s)
       IN  \/ /\ ~st[h.t].writeCh
              /\ st' = [st EXCEPT ![h.t].reord = r, ![h.t].sources = src, ![h.t].idle = FALSE]
              /\ Goto(s, "read")
           \/ /\ st[h.t].writeCh
              /\ st' = [st EXCEPT ![h.t].reord = Drain(r), ![h.t].sources = src,
                                  ![h.t].idle = FALSE]
              /\ GotoPush(s, "push", "read", DrainFrom(r), DrainTo(r))
    /\ UNCHANGED <<conns, csLock, wq, up, written, relay, writer, cleaner, envVars>>

\* Mutant of handleFIN: what it pushes stays in the reorderer, and writeCh set.
handleFINPeeks(s) ==
    /\ handler[s].pc = "fin"
    /\ LET h == handler[s]
           r == st[h.t].reord
       IN  IF st[h.t].writeCh
           THEN GotoPush(s, "finPush", "delete", DrainFrom(r), DrainTo(r))
           ELSE Goto(s, "delete")
    /\ UNCHANGED <<conns, csLock, st, wq, up, written, relay, writer, cleaner, envVars>>

\* The locked section of handleFIN.
handleFIN(s) ==
    /\ handler[s].pc = "fin"
    /\ LET h == handler[s]
           r == st[h.t].reord
       IN  \/ /\ ~st[h.t].writeCh
              /\ Goto(s, "delete")
              /\ UNCHANGED st
           \/ /\ st[h.t].writeCh
              /\ st' = [st EXCEPT ![h.t].reord = Drain(r), ![h.t].writeCh = FALSE]
              /\ GotoPush(s, "finPush", "delete", DrainFrom(r), DrainTo(r))
    /\ UNCHANGED <<conns, csLock, wq, up, written, relay, writer, cleaner, envVars>>

\* One iteration of the loops that send drained chunks to writeCh, after
\* state.mu was released.
PushChunk(s) ==
    /\ handler[s].pc \in {"push", "finPush"}
    /\ LET h == handler[s]
       IN  /\ wq' = [wq EXCEPT ![h.t] = Enqueue(@, h.lo)]
           /\ GotoPush(s, h.pc, IF h.pc = "push" THEN "read" ELSE "delete", h.lo + 1, h.hi)
    /\ UNCHANGED <<conns, csLock, st, up, written, relay, writer, cleaner, envVars>>

\* removeConn(frame.ConnID) at the end of handleFIN and handleRST: by ConnID,
\* whatever connState that names by now.
HandlerDelete(s) ==
    /\ handler[s].pc = "delete"
    /\ removeConnDelete(handler[s].conn)
    /\ LET t == conns[handler[s].conn]
       IN  IF t = Nil THEN Goto(s, "read")
           ELSE handler' = [handler EXCEPT ![s].pc = "cancel", ![s].t = t]
    /\ UNCHANGED <<csLock, wq, up, written, relay, writer, cleaner, envVars>>

HandlerCancel(s) ==
    /\ handler[s].pc = "cancel"
    /\ removeConnCancel(handler[s].t)
    /\ Goto(s, "read")
    /\ UNCHANGED <<conns, csLock, wq, up, written, relay, writer, cleaner, envVars>>

\* ReadFrame fails: the deferred cleanupSource takes cs.mu.  Frames still in
\* flight are lost.
ReadError(s) ==
    /\ handler[s].pc = "read" /\ ~alive[s]
    /\ csLock = "free"
    /\ csLock' = s
    /\ Goto(s, "cleanup")
    /\ inbox' = [inbox EXCEPT ![s] = << >>]
    /\ UNCHANGED <<conns, st, wq, up, written, relay, writer, cleaner, alive, client, env>>

\* Mutant of cleanupSource: a connState without sources is closed and deleted,
\* but not cancelled.
cleanupNoCancel(s, c) ==
    /\ handler[s].pc = "cleanup" /\ c \in handler[s].served
    /\ IF conns[c] = Nil
       THEN /\ handler' = [handler EXCEPT ![s].served = @ \ {c}]
            /\ UNCHANGED st
       ELSE LET left == RemoveFirst(st[conns[c]].sources, s)
            IN  /\ st' = [st EXCEPT ![conns[c]].sources = left]
                /\ handler' = IF left = << >>
                              THEN [handler EXCEPT ![s].pc = "orphan", ![s].conn = c]
                              ELSE [handler EXCEPT ![s].served = @ \ {c}]
    /\ UNCHANGED <<conns, csLock, wq, up, written, relay, writer, cleaner, envVars>>

\* One iteration of cleanupSource, up to and including cancel().
cleanupSource(s, c) ==
    /\ handler[s].pc = "cleanup" /\ c \in handler[s].served
    /\ \/ /\ conns[c] = Nil
          /\ handler' = [handler EXCEPT ![s].served = @ \ {c}]
          /\ UNCHANGED st
       \/ /\ conns[c] # Nil
          /\ LET t    == conns[c]
                 left == RemoveFirst(st[t].sources, s)
             IN  /\ st' = [st EXCEPT ![t].sources = left,
                                     ![t].cancelled = @ \/ left = << >>]
                 /\ handler' = IF left = << >>
                               THEN [handler EXCEPT ![s].pc = "orphan", ![s].conn = c]
                               ELSE [handler EXCEPT ![s].served = @ \ {c}]
    /\ UNCHANGED <<conns, csLock, wq, up, written, relay, writer, cleaner, envVars>>

\* The rest of the iteration: an orphaned connState is closed and deleted.
CloseOrphan(s) ==
    /\ handler[s].pc = "orphan"
    /\ closeAndDelete(handler[s].conn)
    /\ handler' = [handler EXCEPT ![s].pc = "cleanup", ![s].served = @ \ {handler[s].conn}]
    /\ UNCHANGED <<csLock, wq, written, relay, writer, cleaner, envVars>>

HandlerExit(s) ==
    /\ handler[s].pc = "cleanup" /\ handler[s].served = {}
    /\ csLock' = "free"
    /\ Goto(s, "gone")
    /\ UNCHANGED <<conns, st, wq, up, written, relay, writer, cleaner, envVars>>

HandlerStep(s) ==
    \/ handleSYN(s)
    \/ DispatchLookup(s, "DATA", "data")
    \/ DispatchLookup(s, "FIN", "fin")
    \/ handleRST(s)
    \/ handleData(s)
    \/ handleFIN(s)
    \/ PushChunk(s)
    \/ HandlerDelete(s)
    \/ HandlerCancel(s)
    \/ ReadError(s)
    \/ \E c \in ConnIDs : cleanupSource(s, c)
    \/ CloseOrphan(s)
    \/ HandlerExit(s)

-----------------------------------------------------------------------------
(* relay t                                                                 *)

RelayGoto(t, pc) == relay' = [relay EXCEPT ![t] = [IdleRelay EXCEPT !.pc = pc]]

\* The flush loop over the chunks lo .. hi - 1.
RelayGotoFlush(t, lo, hi) ==
    IF lo = hi THEN RelayGoto(t, "check")
    ELSE relay' = [relay EXCEPT ![t].pc = "flush", ![t].lo = lo, ![t].hi = hi]

\* connectUpstream up to the end of the SOCKS5 handshake.  The handshake has
\* no read deadline: the upstream decides if and when it ends.  Until then
\* the upstream connection is known to this goroutine only.
ConnectOK(t) ==
    /\ relay[t].pc = "connect"
    /\ up' = [up EXCEPT ![t] = "open"]
    /\ RelayGoto(t, "install")
    /\ UNCHANGED <<conns, csLock, st, wq, written, handler, writer, cleaner, envVars>>

\* The dial, the write or read of the handshake fails, or CONNECT is rejected.
ConnectFails(t) ==
    /\ relay[t].pc = "connect" /\ "connectErr" \in env.events
    /\ RelayGoto(t, "rst")
    /\ UNCHANGED <<conns, csLock, st, wq, up, written, handler, writer, cleaner, envVars>>

\* Publish target and writeCh and drain what has arrived, under state.mu;
\* then start the writer.
Install(t) ==
    /\ relay[t].pc = "install"
    /\ LET r == st[t].reord
       IN  /\ st' = [st EXCEPT ![t].target = TRUE, ![t].writeCh = TRUE, ![t].reord = Drain(r)]
           /\ RelayGotoFlush(t, DrainFrom(r), DrainTo(r))
    /\ writer' = [writer EXCEPT ![t] = "run"]
    /\ UNCHANGED <<conns, csLock, wq, up, written, handler, cleaner, envVars>>

\* One iteration of the flush loop.
Flush(t) ==
    /\ relay[t].pc = "flush"
    /\ wq' = [wq EXCEPT ![t] = Enqueue(@, relay[t].lo)]
    /\ RelayGotoFlush(t, relay[t].lo + 1, relay[t].hi)
    /\ UNCHANGED <<conns, csLock, st, up, written, handler, writer, cleaner, envVars>>

\* The ctx.Done() test at the head of the relay loop.
CheckContext(t) ==
    /\ relay[t].pc = "check"
    /\ RelayGoto(t, IF st[t].cancelled THEN "close" ELSE "read")
    /\ UNCHANGED <<conns, csLock, st, wq, up, written, handler, writer, cleaner, envVars>>

\* upstream.Read returns data: it gets the next reverse sequence number.
ReadUpstream(t) ==
    /\ relay[t].pc = "read" /\ up[t] = "open"
    /\ st[t].txSeq < MaxReverse
    /\ st' = [st EXCEPT ![t].txSeq = @ + 1, ![t].idle = FALSE]
    /\ RelayGoto(t, "send")
    /\ UNCHANGED <<conns, csLock, wq, up, written, handler, writer, cleaner, envVars>>

\* upstream.Read returns an error: the peer or the server closed.
ReadUpstreamFails(t) ==
    /\ relay[t].pc = "read" /\ up[t] \in {"eof", "closed"}
    /\ RelayGoto(t, "close")
    /\ UNCHANGED <<conns, csLock, st, wq, up, written, handler, writer, cleaner, envVars>>

\* The deferred teardown begins with upstream.Close().
CloseUpstream(t) ==
    /\ relay[t].pc = "close"
    /\ up' = [up EXCEPT ![t] = "closed"]
    /\ RelayGoto(t, "fin")
    /\ UNCHANGED <<conns, csLock, st, wq, written, handler, writer, cleaner, envVars>>

\* sendFrame, of data, of the FIN of the teardown, of the RST of a failure.
RelaySend(t) ==
    /\ relay[t].pc \in {"send", "fin", "rst"}
    /\ sendFrame(st[t].conn)
    /\ RelayGoto(t, IF relay[t].pc = "send" THEN "check" ELSE "delete")
    /\ UNCHANGED <<conns, csLock, wq, up, written, handler, writer, cleaner, envVars>>

RelayDelete(t) ==
    /\ relay[t].pc = "delete"
    /\ removeConnDelete(st[t].conn)
    /\ LET v == conns[st[t].conn]
       IN  relay' = [relay EXCEPT ![t].pc = IF v = Nil THEN "done" ELSE "cancel",
                                  ![t].victim = v]
    /\ UNCHANGED <<csLock, wq, up, written, handler, writer, cleaner, envVars>>

RelayCancel(t) ==
    /\ relay[t].pc = "cancel"
    /\ removeConnCancel(relay[t].victim)
    /\ RelayGoto(t, "done")
    /\ UNCHANGED <<conns, csLock, wq, up, written, handler, writer, cleaner, envVars>>

\* The steps the relay takes by itself, as opposed to waiting for the peer.
RelayStep(t) ==
    \/ Install(t) \/ Flush(t) \/ CheckContext(t)
    \/ ReadUpstreamFails(t) \/ CloseUpstream(t) \/ RelaySend(t)
    \/ RelayDelete(t) \/ RelayCancel(t)

PeerStep(t) == ConnectOK(t) \/ ConnectFails(t) \/ ReadUpstream(t)

-----------------------------------------------------------------------------
(* writer t                                                                *)

WriteSucceeds(t) ==
    /\ up[t] \in {"open", "eof"}
    /\ written' = [written EXCEPT ![t] = Append(@, Head(wq[t]))]

WriteFails(t) ==
    /\ up[t] \in {"eof", "closed"} \/ "writeErr" \in env.events
    /\ UNCHANGED written

\* Receive a chunk and write it.
WriterTakes(t) ==
    /\ writer[t] = "run" /\ wq[t] # << >>
    /\ WriteSucceeds(t)
    /\ wq' = [wq EXCEPT ![t] = Tail(@)]
    /\ UNCHANGED <<conns, csLock, st, up, handler, relay, writer, cleaner, envVars>>

\* The write fails: discard what is queued and exit.
WriterGivesUp(t) ==
    /\ writer[t] = "run" /\ wq[t] # << >>
    /\ WriteFails(t)
    /\ wq' = [wq EXCEPT ![t] = << >>]
    /\ writer' = [writer EXCEPT ![t] = "done"]
    /\ UNCHANGED <<conns, csLock, st, up, handler, relay, cleaner, envVars>>

\* ctx.Done(): select may choose it whenever the context is cancelled.
WriterCancelled(t) ==
    /\ writer[t] = "run" /\ st[t].cancelled
    /\ writer' = [writer EXCEPT ![t] = "drain"]
    /\ UNCHANGED <<conns, csLock, st, wq, up, written, handler, relay, cleaner, envVars>>

\* The best-effort drain after cancellation.
WriterDrains(t) ==
    /\ writer[t] = "drain"
    /\ \/ /\ wq[t] # << >>
          /\ WriteSucceeds(t) \/ WriteFails(t)
          /\ wq' = [wq EXCEPT ![t] = Tail(@)]
          /\ UNCHANGED writer
       \/ /\ wq[t] = << >>
          /\ writer' = [writer EXCEPT ![t] = "done"]
          /\ UNCHANGED <<wq, written>>
    /\ UNCHANGED <<conns, csLock, st, up, handler, relay, cleaner, envVars>>

WriterStep(t) ==
    WriterTakes(t) \/ WriterGivesUp(t) \/ WriterCancelled(t) \/ WriterDrains(t)

-----------------------------------------------------------------------------
(* cleaner                                                                 *)

\* Mutant of shouldClean: connections whose client fell silent are kept.
shouldCleanBroken(t) ==
    \/ ~st[t].target /\ st[t].age = 2
    \/ st[t].sources = << >> /\ st[t].age >= 1

shouldClean(t) ==
    \/ ~st[t].target /\ st[t].age = 2
    \/ st[t].sources = << >> /\ st[t].age >= 1
    \/ st[t].idle

\* A tick finds a stale connection: decide under state.mu, release it, cancel.
\* cs.mu stays held.  (A tick that finds none has no effect; several stale
\* connections in one tick are several ticks here.)
cleanupLoop(c) ==
    /\ cleaner = Nil /\ csLock = "free"
    /\ conns[c] # Nil /\ shouldClean(conns[c])
    /\ csLock' = "cleaner"
    /\ cleaner' = c
    /\ st' = [st EXCEPT ![conns[c]].cancelled = TRUE]
    /\ UNCHANGED <<conns, wq, up, written, handler, relay, writer, envVars>>

CloseStale ==
    /\ cleaner # Nil
    /\ closeAndDelete(cleaner)
    /\ cleaner' = Nil
    /\ csLock' = "free"
    /\ UNCHANGED <<wq, written, handler, relay, writer, envVars>>

CleanerStep == CloseStale \/ \E c \in ConnIDs : cleanupLoop(c)

-----------------------------------------------------------------------------
ClientStep(c) == SendSYN(c) \/ SendData(c) \/ SendClose(c, "FIN") \/ SendClose(c, "RST")

TimeStep(t) == GapElapses(t) \/ Ages(t) \/ GoesIdle(t)

NextStep ==
    \/ \E c \in ConnIDs : ClientStep(c)
    \/ \E s \in Sources : TunnelDies(s) \/ HandlerStep(s)
    \/ \E t \in States : \/ PeerCloses(t) \/ TimeStep(t)
                         \/ RelayStep(t) \/ PeerStep(t) \/ WriterStep(t)
    \/ CleanerStep

Spec == Init /\ [][NextStep]_vars

\* Every goroutine that can run does run, and time passes.  Nothing is
\* assumed of the client, of the tunnels' health or of the upstream, which
\* may stay silent for ever.
Fairness ==
    /\ \A s \in Sources : WF_vars(HandlerStep(s))
    /\ \A t \in States : /\ WF_vars(RelayStep(t))
                         /\ WF_vars(WriterStep(t))
                         /\ WF_vars(TimeStep(t))
    /\ WF_vars(CleanerStep)

FairSpec == Spec /\ Fairness

-----------------------------------------------------------------------------
(* Properties.                                                             *)

HandlerPC == {"read", "data", "push", "fin", "finPush", "delete", "cancel",
              "cleanup", "orphan", "gone"}
RelayPC == {"none", "connect", "install", "flush", "check", "read",
            "send", "close", "fin", "rst", "delete", "cancel", "done"}

StateType ==
    [conn : ConnIDs \cup {Nil}, reord : ReordererType, sources : Seq(Sources),
     target : BOOLEAN, writeCh : BOOLEAN, cancelled : BOOLEAN,
     txSeq : 0 .. MaxReverse, age : 0 .. 2, idle : BOOLEAN,
     gone : {"no", "removeConn", "cleanup"}]

\* Types; and the connState pointers that goroutines carry across an unlock,
\* and are about to dereference, are not nil.
TypeOK ==
    /\ conns \in [ConnIDs -> States \cup {Nil}]
    /\ csLock \in {"free", "cleaner"} \cup Sources
    /\ st \in [States -> StateType]
    /\ wq \in [States -> Seq(SeqNum)]
    /\ up \in [States -> {"none", "open", "eof", "closed"}]
    /\ written \in [States -> Seq(SeqNum)]
    /\ handler \in [Sources -> [pc : HandlerPC, conn : ConnIDs \cup {Nil},
                                t : States \cup {Nil}, seq : SeqNum,
                                lo : SeqNum, hi : SeqNum, served : SUBSET ConnIDs]]
    /\ relay \in [States -> [pc : RelayPC, lo : SeqNum, hi : SeqNum,
                             victim : States \cup {Nil}]]
    /\ writer \in [States -> {"none", "run", "drain", "done"}]
    /\ cleaner \in ConnIDs \cup {Nil}
    /\ inbox \in [Sources -> Seq(Frame)]
    /\ alive \in [Sources -> BOOLEAN]
    /\ client \in [ConnIDs -> [seq : SeqNum, closed : BOOLEAN]]
    /\ \A s \in Sources :
          /\ handler[s].pc \in {"data", "push", "fin", "finPush", "cancel"} => handler[s].t # Nil
          /\ handler[s].pc = "orphan" => conns[handler[s].conn] # Nil
    /\ \A t \in States : relay[t].pc = "cancel" => relay[t].victim # Nil
    /\ cleaner # Nil => conns[cleaner] # Nil

\* The chunks of connState t that a goroutine has drained but not yet pushed.
HandlerBatch(s, t) ==
    IF handler[s].t = t THEN handler[s].lo .. handler[s].hi - 1 ELSE {}
RelayBatch(t) == relay[t].lo .. relay[t].hi - 1

\* Chunks are drained under state.mu and pushed and written after it is
\* released, by several goroutines.  No chunk is in two hands at once, is
\* queued or written twice, or is pushed again after it was written.
ChunkInOnePlace ==
    \A t \in States :
       LET past == written[t] \o wq[t]
       IN  /\ \A i, j \in 1 .. Len(past) : past[i] = past[j] => i = j
           /\ \A s \in Sources :
                 /\ HandlerBatch(s, t) \cap (ToSet(past) \cup RelayBatch(t)) = {}
                 /\ \A s2 \in Sources \ {s} : HandlerBatch(s, t) \cap HandlerBatch(s2, t) = {}
           /\ RelayBatch(t) \cap ToSet(past) = {}
           /\ \A x \in ToSet(past) \cup RelayBatch(t) : x < st[t].reord.nextSeq

\* A goroutine that is about to cancel the context of t.
CancelPending(t) ==
    \/ \E s \in Sources : handler[s].pc = "cancel" /\ handler[s].t = t
    \/ \E u \in States : relay[u].pc = "cancel" /\ relay[u].victim = t

\* A cleanup that holds cs.mu between cancelling t and deleting it.
DeletePending(t) ==
    \/ cleaner # Nil /\ conns[cleaner] = t
    \/ \E s \in Sources : handler[s].pc = "orphan" /\ conns[handler[s].conn] = t

\* A connState is registered in cs.conns exactly while its context is live:
\* one that was removed has been cancelled, or is about to be, so that its
\* goroutines are told to stop; and no cancelled one stays registered to
\* swallow frames, except while a cleanup holding cs.mu deletes it.  (With the
\* types of all variables.)
RegisteredIffLive ==
    /\ TypeOK
    /\ \A t \in States : st[t].conn # Nil =>
          IF conns[st[t].conn] = t THEN st[t].cancelled => DeletePending(t)
          ELSE st[t].cancelled \/ CancelPending(t)

\* Once the handler of a broken tunnel has finished cleanupSource, no
\* registered connState lists that tunnel: sendFrame will not pick it.
DeadSourceForgotten ==
    \A s \in Sources : handler[s].pc = "gone" =>
       \A c \in ConnIDs : conns[c] # Nil => s \notin ToSet(st[conns[c]].sources)

\* A connState dropped by cleanupSource or cleanupLoop has its upstream
\* closed, although they read state.target without the lock that
\* connectUpstream holds to set it.  (While connectUpstream is still shaking
\* hands it waits for the upstream.)
CleanedUpstreamCloses ==
    \A t \in States :
       (st[t].gone = "cleanup" /\ relay[t].pc # "connect")
          ~> (up[t] \in {"none", "closed"})

\* No connState stays in cs.conns for ever: when its client falls silent, for
\* want of a FIN, of live tunnels or of an upstream, cleanupLoop removes it.
QuietConnRemoved ==
    \A t \in States : Registered(t) ~> ~Registered(t)

-----------------------------------------------------------------------------
(* What comments in the code say of it, and the code does not do.          *)

\* reorder.go: a Reorderer "delivers them in sequence order", and the upstream
\* is written in the order of delivery.  The chunks are pushed to writeCh after
\* state.mu is released, so two handlers, or a handler and the flush of
\* connectUpstream, push in either order.
UpstreamInOrder ==
    \A t \in States : \A i, j \in 1 .. Len(written[t]) :
       i < j => written[t][i] < written[t][j]

\* protocol.go: FIN means "connection closed gracefully".  When a FIN has
\* removed a connection, no data the client sent before it is still on its
\* way on another tunnel.
GracefulFIN ==
    \A t \in States : st[t].gone = "removeConn" =>
       \A s \in Sources :
          /\ handler[s].pc = "data" => handler[s].t # t
          /\ \A i \in 1 .. Len(inbox[s]) :
                inbox[s][i].flag = "DATA" => inbox[s][i].conn # st[t].conn

\* upstream.go, handleSYN: "Another instance's SYN -> just register additional
\* source".  One client connection has one connState, however late the SYNs
\* of the other instances arrive.
OneStatePerConnection ==
    \A t, u \in States : st[t].conn # Nil /\ st[t].conn = st[u].conn => t = u

\* upstream.go, handleFIN: "removeConn cancels ctx -> upstreamWriter exits ->
\* upstream closed by relayUpstreamToTunnel".
RemovedUpstreamCloses ==
    \A t \in States :
       (st[t].gone = "removeConn" /\ up[t] = "open") ~> (up[t] = "closed")

\* reorder.go: a missing frame "is skipped to prevent permanent stalls".  When
\* gapTimeout has passed on a connected connState, the frame buffered behind
\* the gap leaves the buffer.
GapIsSkipped ==
    \A t \in States : \A seq \in 1 .. env.data :
       (/\ Registered(t) /\ st[t].writeCh
        /\ st[t].reord.waitingSince = "expired" /\ seq \in st[t].reord.buffer)
       ~> (seq \notin st[t].reord.buffer)
=============================================================================
