----------------------------- MODULE ConnRelay -----------------------------
(***************************************************************************)
(* Connections relayed whole over one instance: handleConnectionLevel and  *)
(* relay of the SOCKS5 server (internal/proxy/relay.go), and the SSH       *)
(* server with its cache of SSH clients (internal/proxy/ssh.go), against   *)
(* instances that crash, are stopped and start again (engine/instance.go). *)
(*                                                                         *)
(* Goroutines: the handler of each connection, its two copiers and the     *)
(* watcher of the instance's ConnCtx.  What each reads and later uses (the *)
(* list of healthy instances, the cached SSH client, ConnCtx) is a step of *)
(* its own.  Authentication and accounting of users are in UserLimits; the *)
(* choice of the balancer is left open (see Balancer).                     *)
(***************************************************************************)
EXTENDS Integers, FiniteSets

CONSTANTS
    Insts,      \* instances
    Conns,      \* client connections
    MaxStarts,  \* bound: processes of an instance
    Scenes,     \* the servers and the events of the environment a behaviour may have
    Nil

AllEvents == {"crash", "stop", "health", "refuse", "drop", "clientEOF", "targetEOF", "idle"}

ASSUME ConnRelayAssumption ==
    /\ MaxStarts \in Nat \ {0} /\ IsFiniteSet(Conns)
    /\ Nil \notin Conns \cup Insts
    /\ \A s \in Scenes : s.server \in {"socks", "ssh"} /\ s.events \subseteq AllEvents

VARIABLES
    scene,
    inst,    \* instances: number of the process, whether it runs, whether it
             \* is healthy, and which lifecycles' ConnCtx have been cancelled
    active,  \* Instance.activeConns
    cache,   \* SSHServer.sshClients
    client,  \* the SSH client dialled by the handler of each connection: its
             \* process, whether the session is lost, whether it is closed
    conn     \* handlers, their copiers, watchers and sockets

vars == <<scene, inst, active, cache, client, conn>>

Procs == 1 .. MaxStarts

\* client, up: the two sockets; wctx: the lifecycle whose ConnCtx is watched.
NewConn ==
    [pc |-> "new", offered |-> {}, inst |-> Nil, via |-> Nil, proc |-> 0,
     client |-> "open", up |-> "none", tx |-> "none", rx |-> "none",
     watch |-> "none", wctx |-> 0]

Init ==
    /\ scene \in Scenes
    /\ inst = [i \in Insts |-> [proc |-> 1, up |-> TRUE, healthy |-> TRUE, cancelled |-> {}]]
    /\ active = [i \in Insts |-> 0]
    /\ cache = [i \in Insts |-> Nil]
    /\ client = [k \in Conns |-> [proc |-> 0, lost |-> FALSE, closed |-> FALSE]]
    /\ conn = [k \in Conns |-> NewConn]

-----------------------------------------------------------------------------
(* The environment                                                         *)

May(e) == e \in scene.events

\* The health checker: its verdict may be late, in either direction.
Health(i) ==
    /\ May("health")
    /\ inst' = [inst EXCEPT ![i].healthy = ~@]
    /\ UNCHANGED <<scene, active, cache, client, conn>>

\* The process exits by itself; nothing cancels ConnCtx.
Crash(i) ==
    /\ May("crash") /\ inst[i].up
    /\ inst' = [inst EXCEPT ![i].up = FALSE]
    /\ UNCHANGED <<scene, active, cache, client, conn>>

\* The supervisor's WaitForExit marks it dead.
Reaped(i) ==
    /\ ~inst[i].up /\ inst[i].healthy
    /\ inst' = [inst EXCEPT ![i].healthy = FALSE]
    /\ UNCHANGED <<scene, active, cache, client, conn>>

\* Stop(): cancel the ConnCtx of this lifecycle, kill the process.
Stop(i) ==
    /\ May("stop") /\ inst[i].proc \notin inst[i].cancelled
    /\ inst' = [inst EXCEPT ![i].up = FALSE, ![i].healthy = FALSE,
                            ![i].cancelled = @ \cup {inst[i].proc}]
    /\ UNCHANGED <<scene, active, cache, client, conn>>

\* Start(): a fresh ConnCtx; the old one is forgotten, cancelled or not.
Start(i) ==
    /\ ~inst[i].up /\ inst[i].proc < MaxStarts
    /\ inst' = [inst EXCEPT ![i].proc = @ + 1, ![i].up = TRUE, ![i].healthy = FALSE]
    /\ UNCHANGED <<scene, active, cache, client, conn>>

Runs(i, n) == inst[i].up /\ inst[i].proc = n

\* The client, or the target, closes its end.
ClientEOF(k) ==
    /\ May("clientEOF") /\ conn[k].client = "open"
    /\ conn' = [conn EXCEPT ![k].client = "eof"]
    /\ UNCHANGED <<scene, inst, active, cache, client>>

TargetEOF(k) ==
    /\ May("targetEOF") /\ conn[k].up = "open"
    /\ conn' = [conn EXCEPT ![k].up = "eof"]
    /\ UNCHANGED <<scene, inst, active, cache, client>>

\* The SSH server ends the session of a client, or its connection breaks.
SessionLost(x) ==
    /\ May("drop") /\ client[x].proc # 0 /\ ~client[x].lost
    /\ client' = [client EXCEPT ![x].lost = TRUE]
    /\ UNCHANGED <<scene, inst, active, cache, conn>>

-----------------------------------------------------------------------------
(* The handler                                                             *)

Goto(k, pc) == conn' = [conn EXCEPT ![k].pc = pc]

\* An error is reported to the client; the deferred calls close what is open.
Fail(k) ==
    conn' = [conn EXCEPT ![k].pc = "done", ![k].client = "closed",
                         ![k].up = IF @ = "none" THEN "none" ELSE "closed"]

\* HealthyInstances, and the instances of the server's mode among them.
Snapshot(k) ==
    /\ conn[k].pc = "new"
    /\ LET healthy == {i \in Insts : inst[i].healthy}
       IN  IF healthy = {} THEN Fail(k)
           ELSE conn' = [conn EXCEPT ![k].pc = "pick", ![k].offered = healthy]
    /\ UNCHANGED <<scene, inst, active, cache, client>>

\* balancer.Pick
Pick(k) ==
    /\ conn[k].pc = "pick"
    /\ \E i \in conn[k].offered :
          conn' = [conn EXCEPT ![k].inst = i, ![k].offered = {},
                               ![k].pc = IF scene.server = "ssh" THEN "look" ELSE "dial"]
    /\ UNCHANGED <<scene, inst, active, cache, client>>

\* inst.Dial(): it may fail, or time out, although the process runs.
Dial(k) ==
    /\ conn[k].pc = "dial"
    /\ LET i == conn[k].inst
       IN  \/ /\ inst[i].up
              /\ conn' = [conn EXCEPT ![k].pc = "negotiate", ![k].up = "open",
                                     ![k].proc = inst[i].proc]
           \/ (~inst[i].up \/ May("refuse")) /\ Fail(k)
    /\ UNCHANGED <<scene, inst, active, cache, client>>

UpAlive(k) == conn[k].up = "open" /\ Runs(conn[k].inst, conn[k].proc)

\* The pipelined SOCKS5 exchange: it has no deadline, so an answer is an event
\* of the environment; a broken connection is an error.
Negotiate(k) ==
    /\ conn[k].pc = "negotiate" /\ UpAlive(k)
    /\ \/ Goto(k, "incr")
       \/ May("refuse") /\ Fail(k)
    /\ UNCHANGED <<scene, inst, active, cache, client>>

NegotiateFails(k) ==
    /\ conn[k].pc = "negotiate" /\ ~UpAlive(k)
    /\ Fail(k)
    /\ UNCHANGED <<scene, inst, active, cache, client>>

IncrConns(k) ==
    /\ conn[k].pc = "incr"
    /\ active' = [active EXCEPT ![conn[k].inst] = @ + 1]
    /\ Goto(k, "enter")
    /\ UNCHANGED <<scene, inst, cache, client>>

\* relay(inst.ConnCtx, ...): the context is the one of now, not of the dial.
\* The SSH server reads it in the watcher.
EnterRelay(k) ==
    /\ conn[k].pc = "enter"
    /\ conn' = [conn EXCEPT ![k].pc = "relay", ![k].tx = "run", ![k].rx = "run",
                            ![k].watch = IF scene.server = "ssh" THEN "read" ELSE "wait",
                            ![k].wctx = IF scene.server = "ssh" THEN 0
                                        ELSE inst[conn[k].inst].proc]
    /\ UNCHANGED <<scene, inst, active, cache, client>>

\* Mutant of Leave: DecrConns is forgotten when the instance has stopped.
LeaveUncounted(k) ==
    /\ conn[k].pc = "relay" /\ conn[k].tx = "done" /\ conn[k].rx = "done"
    /\ active' = IF inst[conn[k].inst].up THEN [active EXCEPT ![conn[k].inst] = @ - 1] ELSE active
    /\ conn' = [conn EXCEPT ![k].pc = "done", ![k].client = "closed", ![k].up = "closed"]
    /\ UNCHANGED <<scene, inst, cache, client>>

\* Both copiers are done: DecrConns, and both sockets are closed.
Leave(k) ==
    /\ conn[k].pc = "relay" /\ conn[k].tx = "done" /\ conn[k].rx = "done"
    /\ active' = [active EXCEPT ![conn[k].inst] = @ - 1]
    /\ conn' = [conn EXCEPT ![k].pc = "done", ![k].client = "closed", ![k].up = "closed"]
    /\ UNCHANGED <<scene, inst, cache, client>>

-----------------------------------------------------------------------------
(* getSSHClient.  A client is named after the connection that dialled it.  *)

Works(x) ==
    /\ ~client[x].lost /\ ~client[x].closed
    /\ \E i \in Insts : conn[x].inst = i /\ Runs(i, client[x].proc)

\* Look in the cache, under RLock.
LookUp(k) ==
    /\ conn[k].pc = "look"
    /\ LET x == cache[conn[k].inst]
       IN  conn' = [conn EXCEPT ![k].via = x, ![k].pc = IF x = Nil THEN "dialSSH" ELSE "keepalive"]
    /\ UNCHANGED <<scene, inst, active, cache, client>>

\* The keepalive is answered (it may never be), or the session or the process
\* behind it is gone: Close().
Answered(k) ==
    /\ conn[k].pc = "keepalive" /\ Works(conn[k].via)
    /\ Goto(k, "channel")
    /\ UNCHANGED <<scene, inst, active, cache, client>>

\* Mutant of KeepaliveFails: the broken client stays in the cache.
KeepaliveFailsKept(k) ==
    /\ conn[k].pc = "keepalive" /\ ~Works(conn[k].via)
    /\ client' = [client EXCEPT ![conn[k].via].closed = TRUE]
    /\ conn' = [conn EXCEPT ![k].pc = "done", ![k].client = "closed"]
    /\ UNCHANGED <<scene, inst, active, cache>>

KeepaliveFails(k) ==
    /\ conn[k].pc = "keepalive" /\ ~Works(conn[k].via)
    /\ client' = [client EXCEPT ![conn[k].via].closed = TRUE]
    /\ Goto(k, "delete")
    /\ UNCHANGED <<scene, inst, active, cache>>

\* delete(s.sshClients, id), whatever is there by now.
Delete(k) ==
    /\ conn[k].pc = "delete"
    /\ cache' = [cache EXCEPT ![conn[k].inst] = Nil]
    /\ Goto(k, "dialSSH")
    /\ UNCHANGED <<scene, inst, active, client>>

\* Dial, keys and handshake.  The handshake may fail, or take for ever.
DialSSH(k) ==
    /\ conn[k].pc = "dialSSH"
    /\ LET i == conn[k].inst
       IN  \/ /\ inst[i].up
              /\ client' = [client EXCEPT ![k].proc = inst[i].proc]
              /\ conn' = [conn EXCEPT ![k].pc = "store", ![k].via = k]
           \/ /\ ~inst[i].up \/ May("refuse")
              /\ Fail(k)
              /\ UNCHANGED client
    /\ UNCHANGED <<scene, inst, active, cache>>

\* Mutant of Store: the client that is replaced is closed.
StoreAndClose(k) ==
    /\ conn[k].pc = "store"
    /\ cache' = [cache EXCEPT ![conn[k].inst] = k]
    /\ client' = IF cache[conn[k].inst] = Nil THEN client
                 ELSE [client EXCEPT ![cache[conn[k].inst]].closed = TRUE]
    /\ Goto(k, "channel")
    /\ UNCHANGED <<scene, inst, active>>

\* s.sshClients[id] = client, over what another handler may have stored.
Store(k) ==
    /\ conn[k].pc = "store"
    /\ cache' = [cache EXCEPT ![conn[k].inst] = k]
    /\ Goto(k, "channel")
    /\ UNCHANGED <<scene, inst, active, client>>

\* sshClient.Dial("tcp", target)
OpenChannel(k) ==
    /\ conn[k].pc = "channel"
    /\ \/ /\ Works(conn[k].via)
          /\ conn' = [conn EXCEPT ![k].pc = "incr", ![k].up = "open",
                                  ![k].proc = client[conn[k].via].proc]
       \/ (~Works(conn[k].via) \/ May("refuse")) /\ Fail(k)
    /\ UNCHANGED <<scene, inst, active, cache, client>>

-----------------------------------------------------------------------------
(* The relay                                                               *)

\* The other end of the upstream socket is gone.
UpBroken(k) ==
    \/ conn[k].up # "open" \/ ~Runs(conn[k].inst, conn[k].proc)
    \/ scene.server = "ssh" /\ (client[conn[k].via].lost \/ client[conn[k].via].closed)

\* external: an SSH channel has no deadlines, so that idleConn fails at once.
NoDeadline == scene.server = "ssh"

\* Mutant of TxEnds: the client's connection has no idle timeout.
TxEndsNoTimeout(k) ==
    /\ conn[k].tx = "run" /\ conn[k].client # "open"
    /\ conn' = [conn EXCEPT ![k].tx = "done"]
    /\ UNCHANGED <<scene, inst, active, cache, client>>

\* client -> upstream.  It ends when reading from the client does (end of
\* file, closed, idle), or when what the client sends cannot be written.  The
\* SOCKS5 relay then closes the upstream for writing, which ends nothing here.
TxEnds(k) ==
    /\ conn[k].tx = "run"
    /\ \/ conn[k].client # "open"
       \/ May("idle")
    /\ conn' = [conn EXCEPT ![k].tx = "done"]
    /\ UNCHANGED <<scene, inst, active, cache, client>>

\* The client sends, which is up to it, and the write fails.
TxWriteFails(k) ==
    /\ conn[k].tx = "run" /\ conn[k].client = "open"
    /\ UpBroken(k) \/ NoDeadline
    /\ conn' = [conn EXCEPT ![k].tx = "done"]
    /\ UNCHANGED <<scene, inst, active, cache, client>>

\* upstream -> client, likewise.
RxEnds(k) ==
    /\ conn[k].rx = "run"
    /\ UpBroken(k) \/ NoDeadline \/ May("idle")
    /\ conn' = [conn EXCEPT ![k].rx = "done"]
    /\ UNCHANGED <<scene, inst, active, cache, client>>

\* The target sends, and the client is gone.
RxWriteFails(k) ==
    /\ conn[k].rx = "run" /\ ~UpBroken(k) /\ conn[k].client # "open"
    /\ conn' = [conn EXCEPT ![k].rx = "done"]
    /\ UNCHANGED <<scene, inst, active, cache, client>>

\* The SSH server's watcher evaluates inst.ConnCtx when it runs.
WatchReads(k) ==
    /\ conn[k].watch = "read"
    /\ conn' = [conn EXCEPT ![k].watch = "wait", ![k].wctx = inst[conn[k].inst].proc]
    /\ UNCHANGED <<scene, inst, active, cache, client>>

Cancelled(k) == conn[k].watch = "wait" /\ conn[k].wctx \in inst[conn[k].inst].cancelled

\* Mutant of WatchFires: the client's connection is left open.
WatchFiresUpstream(k) ==
    /\ Cancelled(k)
    /\ conn' = [conn EXCEPT ![k].watch = "done", ![k].up = "closed"]
    /\ UNCHANGED <<scene, inst, active, cache, client>>

\* ConnCtx.Done(): close both sockets.
WatchFires(k) ==
    /\ Cancelled(k)
    /\ conn' = [conn EXCEPT ![k].watch = "done", ![k].client = "closed", ![k].up = "closed"]
    /\ UNCHANGED <<scene, inst, active, cache, client>>

-----------------------------------------------------------------------------
HandlerStep(k) ==
    \/ Snapshot(k) \/ Pick(k) \/ Dial(k) \/ NegotiateFails(k) \/ IncrConns(k) \/ EnterRelay(k)
    \/ Leave(k) \/ LookUp(k) \/ KeepaliveFails(k) \/ Delete(k) \/ DialSSH(k) \/ Store(k)
    \/ OpenChannel(k)

WatcherStep(k) == WatchReads(k) \/ WatchFires(k)

ConnStep(k) ==
    \/ HandlerStep(k) \/ Negotiate(k) \/ Answered(k) \/ TxEnds(k) \/ TxWriteFails(k)
    \/ RxEnds(k) \/ RxWriteFails(k) \/ WatcherStep(k) \/ ClientEOF(k) \/ TargetEOF(k)

NextStep ==
    \/ \E i \in Insts : Health(i) \/ Crash(i) \/ Reaped(i) \/ Stop(i) \/ Start(i)
    \/ \E x \in Conns : SessionLost(x)
    \/ \E k \in Conns : ConnStep(k)

Spec == Init /\ [][NextStep]_vars

\* Goroutines run, timers fire.  Answers to the SOCKS5 and SSH exchanges, what
\* clients and targets do, and the events are not assumed to happen.
Fairness ==
    \A k \in Conns : /\ WF_vars(HandlerStep(k)) /\ WF_vars(WatcherStep(k))
                     /\ WF_vars(TxEnds(k)) /\ WF_vars(RxEnds(k))

FairSpec == Spec /\ Fairness

-----------------------------------------------------------------------------
ConnPC == {"new", "pick", "dial", "negotiate", "look", "keepalive", "delete", "dialSSH",
           "store", "channel", "incr", "enter", "relay", "done"}

\* Types; and DecrConns never takes a count below zero.
TypeOK ==
    /\ scene \in Scenes
    /\ inst \in [Insts -> [proc : Procs, up : BOOLEAN, healthy : BOOLEAN,
                           cancelled : SUBSET Procs]]
    /\ active \in [Insts -> Nat]
    /\ cache \in [Insts -> Conns \cup {Nil}]
    /\ client \in [Conns -> [proc : Procs \cup {0}, lost : BOOLEAN, closed : BOOLEAN]]
    /\ conn \in [Conns ->
          [pc : ConnPC, offered : SUBSET Insts, inst : Insts \cup {Nil}, via : Conns \cup {Nil},
           proc : Procs \cup {0}, client : {"open", "eof", "closed"},
           up : {"none", "open", "eof", "closed"}, tx : {"none", "run", "done"},
           rx : {"none", "run", "done"}, watch : {"none", "read", "wait", "done"},
           wctx : Procs \cup {0}]]

\* activeConns, which least_load balances by, counts exactly the relays of an
\* instance, on every path out of the handler and whatever happened to the
\* instance meanwhile; a handler that is done has closed both sockets.
RelaysCounted ==
    /\ TypeOK
    /\ \A i \in Insts :
          active[i] = Cardinality({k \in Conns : conn[k].inst = i
                                                  /\ conn[k].pc \in {"enter", "relay"}})
    /\ \A k \in Conns :
          conn[k].pc = "done" => conn[k].client = "closed" /\ conn[k].up \in {"none", "closed"}

\* SSH clients are shared by connections that do not know of each other: one
\* is only ever closed, by the handler that found it broken, when it can serve
\* nobody any more, because its session is lost or its process has ended.
LiveClientNeverClosed ==
    \A k \in Conns :
       (/\ conn[k].pc \in {"channel", "incr", "enter", "relay"} /\ conn[k].via # Nil
        /\ client[conn[k].via].closed)
       => client[conn[k].via].lost \/ ~Runs(conn[k].inst, client[conn[k].via].proc)

\* A cached SSH client whose session or process is gone leaves the cache once a
\* handler has tried it, although handlers store and delete without looking
\* again.
BrokenClientForgotten ==
    \A k, x \in Conns : \A i \in Insts :
       (/\ conn[k].pc = "keepalive" /\ conn[k].inst = i /\ conn[k].via = x
        /\ cache[i] = x /\ ~Works(x))
       ~> (cache[i] # x)

\* "If the instance is stopped (context cancelled), close both connections so
\* the relay goroutines unblock and exit" (relay.go): a relay that watches a
\* cancelled ConnCtx ends, with a client and a target that stay silent, and
\* without the help of the idle timeout.
StopEndsRelay ==
    \A k \in Conns : (conn[k].pc = "relay" /\ Cancelled(k)) ~> (conn[k].pc = "done")

\* "stuck connections are cleaned up" (relay.go): a silent relay ends, also one
\* whose watcher waits for the context of another lifecycle.
SilentRelayEnds ==
    \A k \in Conns : (May("idle") /\ conn[k].pc = "relay") ~> (conn[k].pc = "done")

-----------------------------------------------------------------------------
(* What comments in the code say of it, and the code does not do.          *)

\* instance.go: "ConnCtx is cancelled when the instance is stopped, killing all
\* in-flight relays".  A connection dialled before the stop whose relay is
\* entered after the next Start() watches the new context.
StopKillsRelays ==
    \A k \in Conns : \A i \in Insts :
       (conn[k].pc = "relay" /\ conn[k].inst = i /\ conn[k].proc \in inst[i].cancelled)
       ~> (conn[k].pc = "done")

\* ssh.go: "a SOCKS5 proxy that tunnels connections through SSH".  A relay ends
\* for a reason; but idleConn sets a deadline before each Read and Write, which
\* the connection of an SSH channel refuses, and no byte is relayed.
RelayEndsForAReason ==
    \A k \in Conns :
       conn[k].rx = "done" => May("idle") \/ conn[k].client # "open" \/ UpBroken(k)

=============================================================================
