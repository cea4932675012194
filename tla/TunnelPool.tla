----------------------------- MODULE TunnelPool -----------------------------
(***************************************************************************)
(* tunnel.TunnelPool: the persistent connections to every healthy          *)
(* instance (internal/tunnel/pool.go, tunnelconn.go).                      *)
(*                                                                         *)
(* Goroutines: the refresher (the ticker loop of Start), one readLoop per  *)
(* connection, the callers of SendFrame, and the caller of Stop.  p.mu is  *)
(* the variable mu: refreshConnections holds it while it dials.  The race  *)
(* on TunnelConn.closed, read without tc.mu, is harmless here: a write to  *)
(* a closed connection fails as well, and so it is not modelled apart.     *)
(***************************************************************************)
EXTENDS SeqOps, SequencesExt

CONSTANTS
    Insts,            \* instances (not in ssh mode)
    ConnsPerInstance, \* 8 in the code
    MaxConns,         \* bound: connections ever dialled
    Senders,          \* bound: concurrent callers of SendFrame
    EventSets,        \* the sets of environment events a behaviour may have
    Nil

ASSUME TunnelPoolAssumption ==
    /\ ConnsPerInstance \in Nat \ {0} /\ MaxConns \in Nat
    /\ \A E \in EventSets : E \subseteq {"health", "death", "stale", "dialErr", "stop"}
    /\ Nil \notin Insts

Conns == 1 .. MaxConns

VARIABLES
    events,    \* the environment events of this behaviour
    healthy,   \* instances mgr.HealthyInstances() returns
    conns,     \* p.conns
    tc,        \* TunnelConn objects: instance (Nil: not dialled), closed,
               \* dead (the network connection is broken), stale (written to
               \* and nothing read for staleThreshold)
    loop,      \* readLoop of each connection
    mu,        \* p.mu is held for writing by the refresher
    refresher, \* the ticker goroutine: pc and the healthy instances it saw
    sender,    \* SendFrame: instance, snapshot still to be tried
    stopCh,    \* closed
    stopper,   \* pc of Start() and Stop()
    ready      \* p.ready is closed

vars == <<events, healthy, conns, tc, loop, mu, refresher, sender, stopCh, stopper, ready>>

NotDialled == [inst |-> Nil, closed |-> FALSE, dead |-> FALSE, stale |-> FALSE]
IdleSender == [pc |-> "idle", left |-> << >>]

\* Start() is called.  The refreshConnections it makes itself is the
\* refresher's first round; Start() has returned when that is over.
Init ==
    /\ events \in EventSets
    /\ healthy = Insts
    /\ conns = [i \in Insts |-> << >>]
    /\ tc = [c \in Conns |-> NotDialled]
    /\ loop = [c \in Conns |-> "none"]
    /\ mu = FALSE
    /\ refresher = [pc |-> "snapshot", healthy |-> {}]
    /\ sender = [s \in Senders |-> IdleSender]
    /\ stopCh = FALSE /\ stopper = "starting" /\ ready = FALSE

-----------------------------------------------------------------------------
(* refreshConnections                                                      *)

RefGoto(pc) == refresher' = [refresher EXCEPT !.pc = pc]

\* select over stopCh and the ticker: with both ready, either is taken.
RefTick ==
    /\ refresher.pc = "select"
    /\ RefGoto("snapshot")
    /\ UNCHANGED <<events, healthy, conns, tc, loop, mu, sender, stopCh, stopper, ready>>

RefStopped ==
    /\ refresher.pc = "select" /\ stopCh
    /\ RefGoto("done")
    /\ UNCHANGED <<events, healthy, conns, tc, loop, mu, sender, stopCh, stopper, ready>>

\* HealthyInstances() is called before p.mu is taken.
RefSnapshot ==
    /\ refresher.pc = "snapshot"
    /\ refresher' = [pc |-> "lock", healthy |-> healthy]
    /\ UNCHANGED <<events, healthy, conns, tc, loop, mu, sender, stopCh, stopper, ready>>

\* Mutant of Keep: only closed connections leave.
KeepStale(c) == ~tc[c].closed

\* The connections that stay: not closed, not stale.
Keep(c) == ~tc[c].closed /\ ~tc[c].stale

\* tc.close(); what the network does with a closed connection is forgotten.
close(x) == [x EXCEPT !.closed = TRUE, !.dead = FALSE, !.stale = FALSE]

CloseConns(S) == [c \in Conns |-> IF c \in S THEN close(tc[c]) ELSE tc[c]]

\* Mutant of Prune: stale connections are dropped without being closed.
PruneLeaks ==
    /\ refresher.pc = "lock"
    /\ mu' = TRUE
    /\ conns' = [i \in Insts |->
          IF i \in refresher.healthy THEN Filter(conns[i], {c \in Conns : Keep(c)}) ELSE << >>]
    /\ RefGoto("dial")
    /\ UNCHANGED <<events, healthy, tc, loop, sender, stopCh, stopper, ready>>

\* Phase 1: close and drop the connections of instances that are not healthy,
\* and the closed and stale ones.
Prune ==
    /\ refresher.pc = "lock"
    /\ mu' = TRUE
    /\ conns' = [i \in Insts |->
          IF i \in refresher.healthy THEN Filter(conns[i], {c \in Conns : Keep(c)}) ELSE << >>]
    /\ tc' = CloseConns(UNION {ToSet(conns[i]) \ ToSet(conns'[i]) : i \in Insts})
    /\ RefGoto("dial")
    /\ UNCHANGED <<events, healthy, loop, sender, stopCh, stopper, ready>>

NeedsConn(i) == i \in refresher.healthy /\ Len(conns[i]) < ConnsPerInstance

FreshConn(c) == tc[c].inst = Nil /\ \A d \in Conns : d < c => tc[d].inst # Nil

\* Phase 2: dial one more connection, and start its readLoop.
Dial(i) ==
    /\ refresher.pc = "dial" /\ NeedsConn(i)
    /\ \E c \in Conns :
          /\ FreshConn(c)
          /\ tc' = [tc EXCEPT ![c].inst = i]
          /\ conns' = [conns EXCEPT ![i] = Append(@, c)]
          /\ loop' = [loop EXCEPT ![c] = "check"]
    /\ UNCHANGED <<events, healthy, mu, refresher, sender, stopCh, stopper, ready>>

\* A dial fails: that instance is left alone until the next tick.
DialFails(i) ==
    /\ refresher.pc = "dial" /\ NeedsConn(i)
    /\ "dialErr" \in events \/ \A c \in Conns : tc[c].inst # Nil
    /\ refresher' = [refresher EXCEPT !.healthy = @ \ {i}]
    /\ UNCHANGED <<events, healthy, conns, tc, loop, mu, sender, stopCh, stopper, ready>>

\* Signal readiness, release p.mu.
RefDone ==
    /\ refresher.pc = "dial" /\ \A i \in Insts : ~NeedsConn(i)
    /\ ready' = (ready \/ \E i \in Insts : conns[i] # << >>)
    /\ mu' = FALSE
    /\ refresher' = [pc |-> "select", healthy |-> {}]
    /\ stopper' = IF stopper = "starting" THEN "idle" ELSE stopper
    /\ UNCHANGED <<events, healthy, conns, tc, loop, sender, stopCh>>

RefStep ==
    \/ RefTick \/ RefStopped \/ RefSnapshot \/ Prune \/ RefDone
    \/ \E i \in Insts : Dial(i) \/ DialFails(i)

-----------------------------------------------------------------------------
(* readLoop                                                                *)

\* Mutant of LoopCheck: no stopCh test.
LoopCheckBlind(c) ==
    /\ loop[c] = "check"
    /\ loop' = [loop EXCEPT ![c] = "read"]
    /\ UNCHANGED <<events, healthy, conns, tc, mu, refresher, sender, stopCh, stopper, ready>>

\* The stopCh test at the head of the loop.
LoopCheck(c) ==
    /\ loop[c] = "check"
    /\ loop' = [loop EXCEPT ![c] = IF stopCh THEN "done" ELSE "read"]
    /\ UNCHANGED <<events, healthy, conns, tc, mu, refresher, sender, stopCh, stopper, ready>>

\* ReadFrame returns a frame: lastRead is renewed, the frame is dispatched.
LoopFrame(c) ==
    /\ loop[c] = "read" /\ ~tc[c].closed /\ ~tc[c].dead
    /\ tc' = [tc EXCEPT ![c].stale = FALSE]
    /\ loop' = [loop EXCEPT ![c] = "check"]
    /\ UNCHANGED <<events, healthy, conns, mu, refresher, sender, stopCh, stopper, ready>>

\* ReadFrame fails: close and return.
LoopError(c) ==
    /\ loop[c] = "read" /\ (tc[c].closed \/ tc[c].dead)
    /\ tc' = [tc EXCEPT ![c] = close(@)]
    /\ loop' = [loop EXCEPT ![c] = "done"]
    /\ UNCHANGED <<events, healthy, conns, mu, refresher, sender, stopCh, stopper, ready>>

-----------------------------------------------------------------------------
(* SendFrame                                                               *)

\* The slice is read under p.mu and used after it is released, from a start
\* the round-robin counter determines.
SendBegin(s, i) ==
    /\ sender[s].pc = "idle" /\ ~mu /\ stopper # "starting"
    /\ LET n == Len(conns[i])
       IN  IF n = 0 THEN UNCHANGED sender
           ELSE \E k \in 0 .. n - 1 :
                   sender' = [sender EXCEPT ![s] =
                      [pc |-> "try", left |-> [j \in 1 .. n |-> conns[i][((k + j) % n) + 1]]]]
    /\ UNCHANGED <<events, healthy, conns, tc, loop, mu, refresher, stopCh, stopper, ready>>

\* One round of the loop: skip a closed connection; a failed write closes it;
\* a successful one, or the end of the list, ends the call.
SendTry(s) ==
    /\ sender[s].pc = "try"
    /\ LET c    == Head(sender[s].left)
           next == IF Len(sender[s].left) = 1 THEN IdleSender
                   ELSE [sender[s] EXCEPT !.left = Tail(@)]
       IN  \/ /\ tc[c].closed
              /\ sender' = [sender EXCEPT ![s] = next]
              /\ UNCHANGED tc
           \/ /\ ~tc[c].closed /\ (tc[c].dead \/ tc[c].stale)
              /\ sender' = [sender EXCEPT ![s] = next]
              /\ tc' = [tc EXCEPT ![c] = close(@)]
           \/ /\ ~tc[c].closed
              /\ sender' = [sender EXCEPT ![s] = IdleSender]
              /\ UNCHANGED tc
    /\ UNCHANGED <<events, healthy, conns, loop, mu, refresher, stopCh, stopper, ready>>

-----------------------------------------------------------------------------
(* Stop                                                                    *)

StopBegin ==
    /\ "stop" \in events /\ stopper = "idle"
    /\ stopCh' = TRUE /\ stopper' = "lock"
    /\ UNCHANGED <<events, healthy, conns, tc, loop, mu, refresher, sender, ready>>

\* Under p.mu: close every connection, empty the map.
StopConns ==
    /\ stopper = "lock" /\ ~mu
    /\ tc' = CloseConns(UNION {ToSet(conns[i]) : i \in Insts})
    /\ conns' = [i \in Insts |-> << >>]
    /\ stopper' = "wait"
    /\ UNCHANGED <<events, healthy, loop, mu, refresher, sender, stopCh, ready>>

\* wg.Wait()
StopDone ==
    /\ stopper = "wait"
    /\ refresher.pc = "done"
    /\ \A c \in Conns : loop[c] \in {"none", "done"}
    /\ stopper' = "done"
    /\ UNCHANGED <<events, healthy, conns, tc, loop, mu, refresher, sender, stopCh, ready>>

-----------------------------------------------------------------------------
(* The environment: instances, network, time.                              *)

HealthChange(i) ==
    /\ "health" \in events
    /\ healthy' = IF i \in healthy THEN healthy \ {i} ELSE healthy \cup {i}
    /\ UNCHANGED <<events, conns, tc, loop, mu, refresher, sender, stopCh, stopper, ready>>

Dies(c) ==
    /\ "death" \in events /\ tc[c].inst # Nil /\ ~tc[c].closed /\ ~tc[c].dead
    /\ tc' = [tc EXCEPT ![c].dead = TRUE]
    /\ UNCHANGED <<events, healthy, conns, loop, mu, refresher, sender, stopCh, stopper, ready>>

\* Written to once, and nothing read for staleThreshold.
GoesStale(c) ==
    /\ "stale" \in events /\ tc[c].inst # Nil
    /\ ~tc[c].closed /\ ~tc[c].dead /\ ~tc[c].stale
    /\ tc' = [tc EXCEPT ![c].stale = TRUE]
    /\ UNCHANGED <<events, healthy, conns, loop, mu, refresher, sender, stopCh, stopper, ready>>

NextStep ==
    \/ RefStep
    \/ \E c \in Conns : LoopCheck(c) \/ LoopFrame(c) \/ LoopError(c) \/ Dies(c) \/ GoesStale(c)
    \/ \E s \in Senders : SendTry(s) \/ \E i \in Insts : SendBegin(s, i)
    \/ StopBegin \/ StopConns \/ StopDone
    \/ \E i \in Insts : HealthChange(i)

Spec == Init /\ [][NextStep]_vars

\* Goroutines run and the ticker ticks.  A silent connection never returns
\* from ReadFrame (there is no deadline), so no fairness is assumed of frames
\* arriving.  The select of the ticker loop does not prefer the ticker to a
\* closed stopCh for ever, and p.mu is handed to a waiting Stop().
Fairness ==
    /\ WF_vars(RefStep) /\ SF_vars(RefStopped)
    /\ \A c \in Conns : WF_vars(LoopCheck(c) \/ LoopError(c))
    /\ \A s \in Senders : WF_vars(SendTry(s))
    /\ SF_vars(StopConns) /\ WF_vars(StopDone)

FairSpec == Spec /\ Fairness

-----------------------------------------------------------------------------
\* Types; and an instance never has more than ConnsPerInstance connections.
TypeOK ==
    /\ events \in EventSets
    /\ healthy \subseteq Insts
    /\ conns \in [Insts -> Seq(Conns)]
    /\ tc \in [Conns -> [inst : Insts \cup {Nil}, closed : BOOLEAN, dead : BOOLEAN,
                         stale : BOOLEAN]]
    /\ loop \in [Conns -> {"none", "check", "read", "done"}]
    /\ mu \in BOOLEAN
    /\ refresher \in [pc : {"select", "snapshot", "lock", "dial", "done"},
                      healthy : SUBSET Insts]
    /\ sender \in [Senders -> [pc : {"idle", "try"}, left : Seq(Conns)]]
    /\ stopCh \in BOOLEAN /\ stopper \in {"starting", "idle", "lock", "wait", "done"}
    /\ ready \in BOOLEAN
    /\ \A i \in Insts : Len(conns[i]) <= ConnsPerInstance

\* No connection escapes the pool: one that is open is listed, once, under
\* its own instance, where refreshConnections and Stop will find it.
\* (With the types of all variables.)
OpenIsPooled ==
    /\ TypeOK
    /\ \A c \in Conns : (tc[c].inst # Nil /\ ~tc[c].closed) => c \in ToSet(conns[tc[c].inst])
    /\ \A i \in Insts : \A j, k \in 1 .. Len(conns[i]) :
          /\ conns[i][j] = conns[i][k] => j = k
          /\ tc[conns[i][j]].inst = i

\* A connection of an instance that is not healthy.
Unhealthy(c) == tc[c].inst # Nil /\ tc[c].inst \notin healthy

\* It is closed, refreshConnections has dropped it and its readLoop has ended.
\* A refresh that Stop() overtakes may leave connections behind.
Left(c) ==
    /\ loop[c] = "done"
    /\ stopCh \/ (tc[c].closed /\ \A i \in Insts : c \notin ToSet(conns[i]))

\* "When one dies, it's replaced on the next refresh": a connection that is
\* closed, broken, stale or of an unhealthy instance leaves the pool, unless it
\* recovers (a frame arrives, the instance is healthy again), and its readLoop,
\* which has no deadline, ends.
DeadLeaves ==
    \A c \in Conns :
       /\ (tc[c].closed \/ tc[c].dead) ~> Left(c)
       /\ tc[c].stale ~> (Left(c) \/ ~tc[c].stale)
       /\ Unhealthy(c) ~> (Left(c) \/ ~Unhealthy(c))

\* Stop() returns: it is not kept waiting by a readLoop without a deadline,
\* nor by connections dialled while it was under way.
StopReturns == stopCh ~> (stopper = "done")
=============================================================================
