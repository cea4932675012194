----------------------------- MODULE UserLimits -----------------------------
(***************************************************************************)
(* Admission and accounting in the SOCKS5 and SSH servers: the connection  *)
(* cap of their ListenAndServe (internal/proxy/socks5.go, ssh.go), and the *)
(* IP limit, cooldown and data quota of one user (internal/users).         *)
(*                                                                         *)
(* Goroutines: the accept loop, one handleConnection per connection and    *)
(* the handler of the web interface's reset.  A section under User.mu, or  *)
(* an atomic operation, is one step.  Sizes are counted in chunks.         *)
(***************************************************************************)
EXTENDS Integers, FiniteSets

CONSTANTS
    Conns,          \* bound: client connections at a time
    IPs,            \* client addresses
    maxConnections,
    ipLimit,        \* 0: unlimited
    dataLimit,      \* 0: unlimited
    Modes,          \* how the servers and the user may be configured
    MaxMoved,       \* bound: chunks of a connection, and in all without a reset
    NoIP

ASSUME UserLimitsAssumption ==
    /\ maxConnections \in Nat /\ ipLimit \in Nat /\ dataLimit \in Nat /\ MaxMoved \in Nat
    /\ Modes \subseteq [packetSplit : BOOLEAN, needsRateLimit : BOOLEAN]
    /\ NoIP \notin IPs /\ IsFiniteSet(Conns)

VARIABLES
    mode,        \* packetSplit: handlePacketSplit relays, not handleConnectionLevel
                 \* nor the SSH server; needsRateLimit: the user has a limiter
    conn,        \* connections: pc, address, chunks relayed
    activeConns, \* Server.activeConns
    activeIPs,   \* User.activeIPs; absent is 0
    cooldownIPs, \* User.cooldownIPs: the address is "in", "over" (more than
                 \* 10 s ago, not yet removed) or "out" of cooldown
    usedBytes,   \* User.usedBytes
    moved        \* history: chunks relayed for the user that no reset forgave

vars == <<mode, conn, activeConns, activeIPs, cooldownIPs, usedBytes, moved>>

Idle == [pc |-> "idle", ip |-> NoIP, n |-> 0]

Init ==
    /\ mode \in Modes
    /\ conn = [c \in Conns |-> Idle]
    /\ activeConns = 0
    /\ activeIPs = [ip \in IPs |-> 0]
    /\ cooldownIPs = [ip \in IPs |-> "out"]
    /\ usedBytes = 0 /\ moved = 0

Goto(c, pc) == conn' = [conn EXCEPT ![c].pc = pc]

-----------------------------------------------------------------------------
\* The accept loop of either server lets a connection in; at the cap it closes it at once.
Accept(c, ip) ==
    /\ conn[c].pc = "idle"
    /\ activeConns < maxConnections
    /\ activeConns' = activeConns + 1
    /\ conn' = [conn EXCEPT ![c] = [pc |-> "auth", ip |-> ip, n |-> 0]]
    /\ UNCHANGED <<mode, activeIPs, cooldownIPs, usedBytes, moved>>

\* The greeting or the authentication fails.
AuthFails(c) ==
    /\ conn[c].pc = "auth"
    /\ Goto(c, "close")
    /\ UNCHANGED <<mode, activeConns, activeIPs, cooldownIPs, usedBytes, moved>>

ActiveIPs == {ip \in IPs : activeIPs[ip] > 0}

QuotaExceeded == dataLimit > 0 /\ usedBytes >= dataLimit

\* What the IP limit says to a connection from ip, expired cooldowns aside.
Allowed(ip) ==
    \/ activeIPs[ip] > 0
    \/ cooldownIPs[ip] # "in" /\ Cardinality(ActiveIPs) < ipLimit

\* CheckConnect first looks at the data quota, without a lock.
CheckQuota(c) ==
    /\ conn[c].pc = "auth"
    /\ Goto(c, IF QuotaExceeded THEN "close" ELSE IF ipLimit = 0 THEN "mark" ELSE "ips")
    /\ UNCHANGED <<mode, activeConns, activeIPs, cooldownIPs, usedBytes, moved>>

\* CheckConnect under u.mu: the expired cooldowns are removed, then the IP
\* limit is looked at.
CheckConnect(c) ==
    /\ conn[c].pc = "ips"
    /\ cooldownIPs' = [ip \in IPs |->
          IF cooldownIPs[ip] = "over" THEN "out" ELSE cooldownIPs[ip]]
    /\ Goto(c, IF Allowed(conn[c].ip) THEN "mark" ELSE "close")
    /\ UNCHANGED <<mode, activeConns, activeIPs, usedBytes, moved>>

\* Mutant of MarkConnect: an address that comes back stays in cooldown.
MarkConnectCold(c) ==
    /\ conn[c].pc = "mark"
    /\ activeIPs' = [activeIPs EXCEPT ![conn[c].ip] = @ + 1]
    /\ Goto(c, "relay")
    /\ UNCHANGED <<mode, activeConns, cooldownIPs, usedBytes, moved>>

MarkConnect(c) ==
    /\ conn[c].pc = "mark"
    /\ activeIPs' = [activeIPs EXCEPT ![conn[c].ip] = @ + 1]
    /\ cooldownIPs' = [cooldownIPs EXCEPT ![conn[c].ip] = "out"]
    /\ Goto(c, "relay")
    /\ UNCHANGED <<mode, activeConns, usedBytes, moved>>

\* The readers and writers of a rate-limited user count what they pass on.
Counted(n) == IF mode.needsRateLimit THEN usedBytes + n ELSE usedBytes

\* A chunk is relayed, in either direction.  (A wrapped reader counts a chunk
\* when it is read: one that is then lost with its connection is counted too.)
Relay(c) ==
    /\ conn[c].pc = "relay" /\ moved < MaxMoved /\ conn[c].n < MaxMoved
    /\ moved' = moved + 1
    /\ conn' = [conn EXCEPT ![c].n = @ + 1]
    /\ usedBytes' = Counted(1)
    /\ UNCHANGED <<mode, activeConns, activeIPs, cooldownIPs>>

\* Mutant of CountsAtEnd: the test is inverted.
CountsWrapped == mode.needsRateLimit

\* relay() and the SSH server count what was not wrapped; handlePacketSplit
\* counts everything.
CountsAtEnd == mode.packetSplit \/ ~mode.needsRateLimit

\* The relay ends and adds to the data quota; also, with nothing relayed, the
\* exits of the CONNECT request, the choice of an instance and the dial.
RelayEnds(c) ==
    /\ conn[c].pc = "relay"
    /\ usedBytes' = IF CountsAtEnd THEN usedBytes + conn[c].n ELSE usedBytes
    /\ conn' = [conn EXCEPT ![c].pc = "disconnect", ![c].n = 0]
    /\ UNCHANGED <<mode, activeConns, activeIPs, cooldownIPs, moved>>

MarkDisconnect(c) ==
    /\ conn[c].pc = "disconnect"
    /\ activeIPs' = [activeIPs EXCEPT ![conn[c].ip] = @ - 1]
    /\ cooldownIPs' = IF activeIPs[conn[c].ip] = 1 /\ ipLimit > 0
                      THEN [cooldownIPs EXCEPT ![conn[c].ip] = "in"] ELSE cooldownIPs
    /\ Goto(c, "close")
    /\ UNCHANGED <<mode, activeConns, usedBytes, moved>>

\* The deferred Close() and activeConns.Add(-1).
Close(c) ==
    /\ conn[c].pc = "close"
    /\ activeConns' = activeConns - 1
    /\ conn' = [conn EXCEPT ![c] = Idle]
    /\ UNCHANGED <<mode, activeIPs, cooldownIPs, usedBytes, moved>>

\* The chunks that open connections have relayed, by connection and number, and
\* how many of them will be charged at the end.
Relayed == {x \in Conns \X (1 .. MaxMoved) : x[2] <= conn[x[1]].n}

Pending == IF CountsAtEnd THEN Cardinality(Relayed) ELSE 0

\* handleUserAction("reset"): what is already charged is forgiven.
ResetUsedBytes ==
    /\ usedBytes > 0
    /\ usedBytes' = 0
    /\ moved' = Pending
    /\ UNCHANGED <<mode, conn, activeConns, activeIPs, cooldownIPs>>

\* Ten seconds pass since the address disconnected.
CooldownElapses(ip) ==
    /\ cooldownIPs[ip] = "in"
    /\ cooldownIPs' = [cooldownIPs EXCEPT ![ip] = "over"]
    /\ UNCHANGED <<mode, conn, activeConns, activeIPs, usedBytes, moved>>

ConnStep(c) ==
    \/ AuthFails(c) \/ CheckQuota(c) \/ CheckConnect(c) \/ MarkConnect(c) \/ Relay(c) \/ RelayEnds(c)
    \/ MarkDisconnect(c) \/ Close(c)

NextStep ==
    \/ \E c \in Conns : ConnStep(c) \/ \E ip \in IPs : Accept(c, ip)
    \/ \E ip \in IPs : CooldownElapses(ip)
    \/ ResetUsedBytes

Spec == Init /\ [][NextStep]_vars

-----------------------------------------------------------------------------
\* Types; and no address has fewer than zero connections.
TypeOK ==
    /\ mode \in Modes
    /\ conn \in [Conns -> [pc : {"idle", "auth", "ips", "mark", "relay", "disconnect", "close"},
                           ip : IPs \cup {NoIP}, n : 0 .. MaxMoved]]
    /\ activeConns \in Nat
    /\ activeIPs \in [IPs -> Nat]
    /\ cooldownIPs \in [IPs -> {"in", "over", "out"}]
    /\ usedBytes \in Nat /\ moved \in 0 .. MaxMoved

\* The connections of address ip between MarkConnect and MarkDisconnect.
Marked(ip) == {c \in Conns : conn[c].ip = ip /\ conn[c].pc \in {"relay", "disconnect"}}

\* The proxy never serves more than maxConnections, and its count is exact on
\* every path out of handleConnection; activeIPs counts the live connections of
\* each address, however connects and disconnects interleave, and an address that
\* has some is not cooling down, so that it is not turned away by its own earlier
\* disconnect.
CountsMatchConns ==
    /\ TypeOK
    /\ activeConns = Cardinality({c \in Conns : conn[c].pc # "idle"})
    /\ activeConns <= maxConnections
    /\ \A ip \in IPs :
          /\ activeIPs[ip] = Cardinality(Marked(ip))
          /\ activeIPs[ip] > 0 => cooldownIPs[ip] = "out"

\* Packet splitting charges a rate-limited user twice: the wrapped reader and
\* writer count each chunk, and handlePacketSplit adds them all at the end.
ChargedTwice == mode.packetSplit /\ mode.needsRateLimit

\* "total bytes consumed" (user.go): whichever way a relay charges the quota,
\* and however resets fall among the relays, each chunk is charged once, at
\* once or at the latest when its relay ends.
QuotaIsExact == ~ChargedTwice => usedBytes + Pending = moved

-----------------------------------------------------------------------------
(* What comments in the code say of it, and the code does not do.          *)

\* user.go: ipLimit is the "max concurrent IPs".
IPLimitHeld == ipLimit > 0 => Cardinality(ActiveIPs) <= ipLimit

\* user.go: usedBytes is the "total bytes consumed".
BytesConsumed == usedBytes <= moved
=============================================================================
