# SlipStream-Plus in TLA+

TLA+ models of SlipStream-Plus, TLC configurations that check them on small
instances, and TLAPS proofs of the properties that hold for every size.

SlipStream-Plus runs several `slipstream-client` processes ("instances"), each a
TCP tunnel, keeps them alive, and spreads SOCKS5 traffic over the healthy ones. In
*packet-split* mode it cuts each connection into frames, sends them over all the
tunnels, and a *central server* at the far end puts them in order again and talks
to the real upstream. `PROJECT.json` lists components, runs, mutants, hazards,
findings and the source lines behind each definition.

## Inventory

| Component | State | Operations | Hard part |
|---|---|---|---|
| Reorder buffer (`tunnel/reorder.go`) | `nextSeq`, `buffer`, `waitingSince` | `Insert`, `Next`, `skipToLowest` | late, repeated and missing frames; whose gap the timer measures |
| Central server (`cmd/centralserver`) | `cs.conns`; per connection a `connState` (reorderer, sources, target, writeCh, context) | `handleSYN/Data/FIN/RST`, `connectUpstream`, `relayUpstreamToTunnel`, `upstreamWriter`, `cleanupSource`, `cleanupLoop` | one goroutine per tunnel, two per connection and a cleaner share `connState` and release locks between reading and acting |
| Packet splitter (`tunnel/splitter.go`, `proxy/relay.go`) | `txSeq`, incoming channel, context | `SendSYN`, two relays, `Close` | two relays, a watcher and the pool's `readLoop`s; a `Read` and a `Write` of the client that may block; channel closing |
| Tunnel pool (`tunnel/pool.go`, `tunnelconn.go`) | `p.conns`, `closed`, `stopCh`, `ready` | `Start`, `refreshConnections`, `SendFrame`, `readLoop`, `Stop` | connections die and are replaced while in use; reads without deadline |
| Instances and supervisors (`engine`) | process handle `cmd`, `state`, `mu`; the manager's context and wait group | `Start`, `Stop`, `WaitForExit`, `supervise`, `RestartInstance`, `Shutdown`, `Reload` | restart races stop; who waits for whom |
| Health checker (`health/checker.go`) | failure counts | `checkAll`, `checkOne` | results applied long after the question was asked |
| User limits (`users`, `proxy/socks5.go`, `ssh.go`) | `activeConns`, `activeIPs`, `cooldownIPs`, `usedBytes` | accept, `CheckConnect`, `MarkConnect`, `MarkDisconnect`, byte counting, `ResetUsedBytes` | check and mark are separate; two ways of counting; resets during relays |
| Connection-level relay and SSH proxy (`proxy/relay.go`, `ssh.go`, `idle.go`) | two sockets and a watcher per connection; the cache of SSH clients; the instance's `activeConns` and `ConnCtx` | pick, dial, negotiate, relay; `getSSHClient` | instances restart, and SSH sessions are lost, between any two steps; SSH clients are shared by connections that do not know of each other |
| Frame format (`tunnel/protocol.go`) | ConnID counter, write lock | `WriteFrame`, `ReadFrame`, SYN payload | frames of several connections share a stream; partial writes; detection of the protocol by its first byte |
| Load balancers, `pickInstance` | counters, weights | `Pick` | shared without lock; health and loads change during a pick |
| Configuration (`config`) | the file | `Load`, `Validate`, `ExpandInstances`, `Save` | port ranges and replicas; a file cut short |
| Web interface and start-up (`gui`, `main.go`) | `s.cfg`, `s.userMgr`, `s.checker`; each dashboard's copy of the configuration | configuration, users, reload, restart; `main` | HTTP handlers share everything without a lock; file, memory and processes must agree |

Interactions: the SOCKS5 front end admits a connection (user limits) and relays it
whole over an instance the balancer picks, or hands it to the splitter, which sends
through the pool; the pool takes its instances from
the manager, whose instances the health checker marks and restarts. Frames cross
the tunnels to the central server and back; the pool's `readLoop`s hand the
reverse frames to the splitter's channel, and its reorder buffer writes the client.
The web interface changes the configuration and drives the manager and the checker.

## Modules

| Module | Models | Composes |
|---|---|---|
| `ReordererOps` | the operations of a `Reorderer` as operators on a record, and the drain loop in closed form, for `CentralServer`, which drains under a lock | |
| `SeqOps` | the loop that keeps some elements of a slice, in order | |
| `OrderedStream` | abstract: a stream of numbered chunks with holes | |
| `Reorderer` | one buffer under any sequence of calls; implements `OrderedStream` | `ReordererOps` |
| `CentralServer` | every goroutine of the central server, with the splitter, the tunnels and the upstream as environment | `ReordererOps`, `SeqOps` |
| `PacketSplit` | the client's half of one split connection, with readLoops; the pool's sending and the central server as environment; each `client.Write` of a drain is a step; what the client is written implements `OrderedStream` | `ReordererOps` |
| `TunnelPool` | the pool's connections, refresher, readLoops, senders and `Stop` | `SeqOps` |
| `Wire` | the bytes on one tunnel connection: writers that share it, refused and partial writes, and the reader at either end | `SeqOps` |
| `SingleProcess` | abstract: one process at a time | |
| `Supervisor` | one instance id: its processes, supervisor, probes, restarts, `Shutdown`, `Reload` (one object per generation); implements `SingleProcess` | |
| `Balancer` | all strategies and `pickInstance`, with concurrent pickers | `SeqOps` |
| `ConnRelay` | connections relayed whole, by the SOCKS5 and by the SSH server | |
| `UserLimits` | one user, several connections, several addresses | |
| `ConfigOps` | `ParsePorts`, `ExpandInstances`, `Validate` as operators | |
| `Admin` | web interface, configuration file and `main` | `ConfigOps`, `SeqOps` |
| `MC*` | model values and symmetry for TLC; `MCReorderer` also the reference definition of the drain loop | |
| `CommonLemmas` | lemmas that the proofs cite: finite sets and least elements, sequences, their concatenation and their elements' ranks, sums over sets, `SeqOps`, `ReordererOps` | |
| `*_proofs` | theorems | |

The proofs about `Wire`, `Balancer` and `Admin` stand beside those of `Reorderer`,
`PacketSplit` and `Supervisor`, in modules that extend both; so that the names do not
clash, those three modules have prefixed ones (`WireSpec`, `BalancerSpec`, `AdminSpec`,
`wireVars`, ...).

A step of a model is one section under a lock, one channel operation, one
blocking call or one atomic operation; wherever the code lets go of a lock and
uses what it read under it, there is a step boundary. Conventions:

- A goroutine is a function from its identity to a program counter and its live
  locals (`handler`, `relay`, `sup`, `probe`, ...). A pointer carried across an
  unlock is a field (`handler[s].t`, `relay[t].victim`).
- Payloads are their sequence numbers; `waitingSince` is `zero`, `recent` or
  `expired`; ages pass the thresholds that the code compares them with, in order.
- `Events` (`EventSets`, `Environments`, `Scenes`, `Starts`, `Modes`) is the set of
  environment events, or of whole settings, a configuration allows, so that each
  behaviour explores what a question needs. `Init` chooses among them; they bound
  the environment, not the code.
- `Mutant of X` marks a plausible bug; no specification uses it. It shows that the
  property can fail.
- `out`, `written`, `sent`, `skipped`, `verified`, `procFails`, `moved`, `gone`,
  `wait`, `run`, `dispatched`, `cut`, `mixed`, `calm`, `clash`, `fresh` and
  `accepted` are history: no guard reads them.

Simplifications: `sendFrame` is one step in which any of the sources whose write
may fail are removed, so the model drops sources in combinations that one
rotation would not. A tunnel of `CentralServer` has one `sourceConn`. Several
stale connections found in one tick of `cleanupLoop` are several ticks. In
`TunnelPool` a connection may go stale whether or not it has been written to, and
the unsynchronised read of `tc.closed` is harmless: a write to a connection closed
meanwhile fails and closes it again. `Supervisor` has one administrative operation
at a time; `Admin` has them overlap, with the processes of one list of instances as
one "epoch". Frames with an empty payload, ACKs and keepalives are left out. In
`Wire` a header has three bytes and a port one. In `Balancer` pings do not change,
and counters used only modulo the length of a list are kept modulo `Period`. In
`ConnRelay` an SSH connection refuses deadlines, as the library's channels do; a
session lost and a connection to the SSH server broken are one event. `handleSYN` of
`CentralServer` has no bad payload: the SYNs of the splitters decode (`FramesIntact`). In
`Admin` the text of the file is a configuration, empty, or a mixture that does not
parse; a struct assignment is two steps, the users first.

## Runs that pass

| Run | Question | Bounds |
|---|---|---|
| `Reorderer` | order, accounting, gap timer, progress; `OrderedStream`; drain loop against its reference | 7 frames of 10 numbers, start 1: a late frame, runs, two gaps, frames behind them, each any number of times |
| `Central` | no chunk in two hands; `cs.conns` against contexts; dead tunnels forgotten | 2 tunnels, 1 ConnID, 2 connStates (a late SYN), a queue of 1; 3 chunks with losses, 2 with losses and a FIN, or 1 with a FIN and tunnels that break |
| `CentralLive` | teardown is complete (liveness) | 1 tunnel, 1 connection, 1 chunk each way, every failure |
| `Supervisor` | no running process is lost; `SingleProcess`; restart happens; `Shutdown` and `Reload` end | 2 processes of each of 2 generations; restart requests with reloads, or probes with 2 failures instead of 3 |
| `PacketSplit` | `OrderedStream` at the client; nothing after the FIN; both directions end; silent connections end unless blocked in `Write` | 2 tunnels, 2 chunks up, 2 down, channel of 1, every way to end, writes that fail or never return |
| `Pool` | no open connection escapes the pool; closed, broken and stale connections and those of unhealthy instances leave; `Stop` returns | 2 instances, 1 connection each, 2 dials (both instances, or one twice); changes of health or a `Stop` |
| `Wire` | frames and targets arrive as written | 2 writers with a SYN and a data frame, IPv4, IPv6 and domain targets, 4 ConnIDs of which one looks like SOCKS5, each fault, a chunk over the limit |
| `Balancer` | no starvation, even loads, exact shares | 3 instances with pings 2, 5 and unknown (weights 2, 1, 1), 2 pickers where the code has several, health that changes; waits counted to 4, one more than any bound |
| `ConnRelay` | loads counted; SSH clients closed only when useless; relays end | 1 instance with 2 processes, 2 connections, SOCKS5 or SSH; crashes, stops, refused dials and negotiations, lost sessions, silence, a few of them at a time |
| `UserLimits` | counters, cooldown and quota | 4 connections, 3 addresses, caps 3 and 2, 3 chunks, resets, all four modes |
| `Admin` | ports of what runs; file, memory and processes agree; boots; users kept; restart ends | 2 dashboards with 2 requests or faults, or 1 with 3; and, without requests, every port specification up to port 5 with 0 to 3 replicas, alone and in pairs |

Two of everything is enough for a race between two actors, and each bound is at
least what the interesting case needs: a queue of one overflows with two chunks,
two connStates are one more than a connection should have, four connections meet
a cap of three and three addresses a cap of two, a second dial replaces the first
connection, a second process the first, one dashboard's requests follow one another
and two dashboards' overlap. The `Reorderer` run
holds the longer patterns of gaps, which the composed runs need not repeat. `Pool` has
changes of health and a `Stop` in separate behaviours to keep the run short; with all
events in one (166840 states) it finds no error either. All
systems are bounded by their constants and stop when the environment has used
them up, so deadlock is not checked; that the goroutines are not stuck is what
the liveness properties say.

The properties, by what could go wrong:

- *Data.* `InOrderOnce`, `Accounted`, `FreshGrace`, `NoPermanentStall`,
  `ImplementsStream` (buffer); `ChunkInOnePlace` (chunks drained under the lock and
  pushed outside it are never duplicated between handlers, flush, queue and
  upstream); `ClientStream`, `FINIsLast` (splitter); `FramesIntact`
  (frames and the targets of SYNs), `FramesArrive` (bytes on a tunnel).
- *Life of connections.* `RegisteredIffLive` (what `cs.conns` holds has a live
  context and what it lost has been, or is being, cancelled: so a removal
  that hits the wrong `connState` is still complete), `DeadSourceForgotten`,
  `CleanedUpstreamCloses`, `QuietConnRemoved`,
  `EitherEndsBoth` (also when the download is blocked in a `Write` or the upload in a
  `Read` of the client), `SilentConnEnds` (a relayed connection ends by the idle limit;
  excepted is a download that stays in `Write` for ever, where the limit is not
  tested), `OpenIsPooled`, `DeadLeaves` (closed and broken connections leave the pool
  and their readLoops end; so do stale ones and those of an unhealthy instance, unless
  a frame arrives or the instance recovers first), `StopReturns`,
  `RelaysCounted`, `LiveClientNeverClosed` (a shared SSH client is closed only when its
  session is lost or its process has ended), `BrokenClientForgotten`,
  `StopEndsRelay`, `SilentRelayEnds`.
- *Processes.* `ProcessReachable`, `OneProcessAtATime`, `SupervisedRestarts`,
  `AdminFinishes`.
- *Balance.* `NoStarvation`, `LoadsStayEven`, `ExactShare`. They say for which
  strategies and under which interference (`Ordered`): a round robin over a list
  that changes may pass an instance over again and again, and a
  `WeightedRoundRobin`, which has no lock, promises nothing to concurrent pickers.
- *Limits.* `CountsMatchConns` (caps, counters and cooldown map), `QuotaIsExact`.
- *Administration.* `RunningPorts`, `InSync`, `AcceptedConfigBoots`, `UsersKept`,
  `RestartFinishes`. The conditions in them (`calm`, `fresh`, `clash`) say exactly
  which overlaps the code does not survive.

The type invariants of `Reorderer` (in `Invariance`), `Supervisor` and `PacketSplit` are
properties, and theorems, of their own. In the other modules they are a conjunct of
another property: of `RegisteredIffLive`, `OpenIsPooled`, `CountsMatchConns`,
`RelaysCounted`, `LoadsStayEven`, `FramesIntact` and `RunningPorts`.

Three properties are refinements: `Reorderer!ImplementsStream` maps the numbers
inserted to `sent` and the payloads that came out to `received`; `ClientStream`
does the same for a whole client side, from the reverse chunks the central server
sent over all tunnels to what was written to the client; `OneProcessAtATime` maps
the objects of `Supervisor` to `SingleProcess`. The forward direction does not
implement `OrderedStream`: that is `CentralOrder`.

## A run that shows a disagreement

It states what a comment in the source says; TLC finds a behaviour of the code that
contradicts it. `PROJECT.json` ("findings") quotes the lines.

| Run | Property | What happens |
|---|---|---|
| `CentralOrder` | `UpstreamInOrder` | chunks are pushed to `writeCh` after the lock is released, in either order |

## Further disagreements

The modules state more expectations of this kind, which the code does not meet
either. No run repeats them; each is seen by adding the property to a
configuration of its MC module with the constants given.

| Property | Constants | What happens | What the source says |
|---|---|---|---|
| `ShutdownKillsAll` (`Supervisor`) | events shutdown, crash | a supervisor past its context test starts a process after `Shutdown` stopped the instance | "this kills all child processes and frees ports" (`handlers.go:141`), "cancel context FIRST" (`manager.go:202`) |
| `NoSendOnClosedChannel` (`PacketSplit`) | 1 tunnel | a readLoop sends on a channel closed since it was looked up, which panics | "frames from any connection reach the right handler" (`pool.go:287`) |
| `IdleConnEnds` (`PacketSplit`) | 1 tunnel, no events, `FairSpec` | a client that stays connected and reads nothing keeps the download in `client.Write`, which has no deadline: the idle limit is never tested, and the handler waits in `wg.Wait` for ever | "Detect idle connections (no data for idleLimit → give up)" (`splitter.go:126`) |
| `GracefulFIN` (`CentralServer`) | 2 sources, events FIN | a FIN overtakes data on another tunnel, which is dropped | FIN is "connection closed gracefully" (`protocol.go:27`) |
| `OneStatePerConnection` (`CentralServer`) | 2 sources, events FIN | a SYN after the FIN creates the connection again | "Another instance's SYN → just register additional source" (`upstream.go:20`) |
| `RemovedUpstreamCloses` (`CentralServer`) | 1 source, events FIN, `FairSpec` | a silent upstream is never closed after a FIN | "upstream closed by relayUpstreamToTunnel" (`upstream.go:338`) |
| `GapIsSkipped` (`CentralServer`) | events gap, loss, age, `FairSpec` | `Next` is called only when frames arrive: the gap timeout alone delivers nothing | skipped "to prevent permanent stalls from lost frames" (`reorder.go:6`) |
| `HealthyIsVerified` (`Supervisor`) | no end-to-end probe, events crash, check | an old probe marks a new process healthy | "HEALTHY only after a successful tunnel probe" (`checker.go:15`) |
| `RestartAfterEnoughFailures` (`Supervisor`) | 3 failures, events check | failures carry over from the previous process and other kinds of probe | "Tunnel probe fails 3 consecutive times" (`checker.go:18`) |
| `RestartHitsProbedInstance` (`Supervisor`) | 2 generations, events check, reload | a probe from before a reload restarts the new instance | "Stop health checker before reload to prevent race conditions" (`handlers.go:90`) |
| `AdminFinishes` (`Supervisor`) | `KillWorks = FALSE` (Windows) | nothing kills the process that `Stop` waits for | "killed via cmd.Process.Kill() in Stop()" (`proc_windows.go:15`) |
| `ReverseGraceful` (`PacketSplit`) | 2 reverse chunks | the reverse FIN overtakes reverse data | as for `GracefulFIN` |
| `IPLimitHeld` (`UserLimits`) | `ipLimit = 1` | two addresses pass the check before either is counted | "max concurrent IPs" (`user.go:27`) |
| `BytesConsumed` (`UserLimits`) | all modes | rate-limited users in packet-split mode are charged twice (`relay.go:80-94` and `:117`) | "total bytes consumed" (`user.go:21`) |
| `StopKillsRelays` (`ConnRelay`) | events stop, `FairSpec` | a connection dialled before a stop whose relay begins after the next start watches the new context | "ConnCtx is cancelled when the instance is stopped, killing all in-flight relays" (`instance.go:48`) |
| `RelayEndsForAReason` (`ConnRelay`) | SSH server | `idleConn` sets a deadline before each read and write, which an SSH channel refuses: no byte is relayed | "tunnels connections through SSH" (`ssh.go:22`) |
| `FramesIntact` without `~mixed` (`Wire`) | central side, timeout | after a write cut short by its deadline other connections write to the same source, and the reader is misaligned | "so that concurrent WriteFrame calls from different ConnIDs don't interleave bytes" (`state.go:14`) |

Other disagreements are visible in the models' definitions without a property:

- *Users edited in the dashboard* reach `s.userMgr` of the web interface, never the
  proxy's manager (`boot` of `Admin` does not change), so that additions, limits and
  resets have no effect until a restart; `README-en.md:42` and `:44` offer them live.
- *A reload* does not change the balancer (`README-en.md:46`: "Toggle strategies
  dynamically on the fly without stopping the daemon"), and its health checker is
  not told of `packet_split` (`handlers.go:103`, against `main.go:81`).
- *A reload that overlaps a restart or a reload* leaves a list of instances nobody
  stops: `m.wg.Wait` never returns (`manager.go:199`, `:213`).
- *A kill or the exec of a restart in the middle of a save* leaves an empty file, and
  `main` ends in `log.Fatalf`.
- *A dashboard with an old copy* of the configuration posts the users of then over
  the ones of now (`dashboard.go:479`); after a refused `submitInstance` its copy
  keeps the refused entry.
- *`Validate`* does not check single and base ports against 65535 (`expand.go:27`,
  `:89`), accepts a missing `slipstream_binary` that `main` refuses (`main.go:45`),
  and refuses the strategy `weighted_rr` that `balancer.New` has.
- *Mixed mode* serves the SSH instances only (`main.go:159`).
- *`os.Executable` failing* during a restart leaves everything stopped
  (`handlers.go:146`).

## Fairness

Only what the Go runtime and the passing of time guarantee:

- weak fairness of each goroutine's own steps (`HandlerStep`, `RelayStep`,
  `WriterStep`, `DownStep`, `RefStep`, ...) and of timers (`TimeStep`,
  `GapElapses`, `GoesIdle`, `DownTick`);
- strong fairness where goroutines contend for a mutex (`SupStep`, `AdminStep`,
  `ProbeStep`, `StopConns`): a `sync.Mutex` in starvation mode hands itself to
  the goroutine that has waited longest;
- strong fairness of a `select` branch that is ready again and again
  (`RefStopped`, the `ctx.Done()` branch of the back-off), as Go chooses among
  ready branches at random;
- `SupervisedRestarts` assumes that a `Start()` tried for ever succeeds once;
- in `ConnRelay`, `Wire` and `Admin` weak fairness of handlers, watchers, copiers
  (whose idle timer is part of their step), readers, writers and the goroutine of a
  restart. The answers to a negotiation, a keepalive or an SSH handshake, which have
  no deadline in the code, are not assumed to come.

Nothing is assumed of clients, of upstreams answering, of frames arriving or of
processes crashing. In particular a `Read` without a deadline may block for ever, and
so may a `Write` to a client that does not read (`WriteReturns` and `WriteFails` of
`PacketSplit` have no fairness; only our own `Close` is sure to end a `Write`,
`WriteWakes`): the leaks found above depend on that, and so do the exceptions for the
handshake in `CleanedUpstreamCloses` and for `Write` in `SilentConnEnds`. A readLoop of
`TunnelPool`, one sequential goroutine, has one condition for both its ways to go on.

## Proofs

| Module | Theorem: property | For every |
|---|---|---|
| `Reorderer_proofs` | `DeliversInOrder`: `InOrderOnce`; `AccountsForAll`: `Accounted`; `GraceIsFresh`: `FreshGrace`; `RefinesOrderedStream`: `ImplementsStream`; `DrainClosedForm`: `DrainIsIteratedNext` | sequence space, start, set of arriving frames |
| (`Wire`) | `FramesStayIntact`: `FramesIntact` | number of senders, ConnIDs, payload size, chunk, target, fault, reader |
| `CentralServer_proofs` | `Registration`: `RegisteredIffLive`; `ChunksUnique`: `ChunkInOnePlace`; `DeadTunnelsUnlisted`: `DeadSourceForgotten`; `ConnStateLivesOnce` | number of tunnels, ConnIDs and connStates, queue length, chunks, environment |
| `PacketSplit_proofs` | `NothingAfterFIN`: `FINIsLast`; `RefinesStream`: `ClientStream`; `TypeCorrect`: `TypeOK` | number of tunnels and chunks, channel size, environment |
| (`Balancer`) | `BalancerLoadsStayEven`: `LoadsStayEven`; `NoneStarves`: `NoStarvation`; `SharesAreExact`: `ExactShare` | number of instances, pickers, connections; pings; changes of health |
| `TunnelPool_proofs` | `NoConnEscapes`: `OpenIsPooled` | number of instances, connections, senders |
| `Supervisor_proofs` | `TypeCorrect`: `TypeOK`; `ProcessNeverLost`: `ProcessReachable`; `RefinesSingleProcess`: `OneProcessAtATime` | number of generations, processes, probes, failures; with and without a working kill |
| (`Admin`) | `ConfigurationInSync`: `InSync`; `AcceptedConfigsBoot`: `AcceptedConfigBoots`; `UsersAreKept`: `UsersKept`; `PortsAreRight`: `RunningPorts` | configuration, user, entry, number of dashboards and requests |
| `UserLimits_proofs` | `CountersExact`: `CountsMatchConns`; `QuotaExact`: `QuotaIsExact` | number of connections and addresses, caps, quota, mode |
| `ConnRelay_proofs` | `RelayCountExact`: `RelaysCounted`; `LiveClientsStay`: `LiveClientNeverClosed` | number of instances, connections, restarts; either server |

With these every safety property, every action property and every refinement that a
run checks is a theorem too. Each module proves first that its inductive invariant
holds (`Invariance`; in `CentralServer_proofs`, for the reverse direction of
`PacketSplit_proofs` and for `Admin` there are several, each used by the next).

They rest on the named assumptions of the modules: constants are naturals of the
right sign, the special values (`Nil`, `NoIP`) are not members of the sets they
are used beside, the set of connections of `UserLimits` and of `ConnRelay` is
finite (their counters are compared with cardinalities), and sequence numbers do
not wrap within the bounds on the frames sent. `WireAssumption` and
`RequestsAssumption` give the types of sizes, faults and targets, and say that 0 is
no ConnID that looks like SOCKS5; `AdminAssumption` gives the types of the
configurations. `BalancerAssumption` bounds pings by what stands for no ping, lets
`Period` be a multiple of every length a list can have, and has one caller of
`pickInstance` at a time, which holds the lock of its splitter throughout.

One theorem has a hypothesis: `UsersAreKept` is about starts whose file names no user
twice (`UniqueStarts`), as the ones TLC starts from. With a name twice it is false: an
edit in the dashboard changes the first entry of that name and leaves the other.

*Reorderer.* The invariant is the conjunction of the four checked ones; none is
inductive alone. `InOrderOnce` needs to know that everything delivered is below
`nextSeq`, which is part of `Accounted`; `Accounted` needs that `skipToLowest`
goes to the least buffered number, hence that nothing buffered is below
`nextSeq`; `FreshGrace` needs the types. Each of `InsertFrame`, `CallNext` and
`GapElapses` is a step of the proof, with one sub-step per conjunct; what `Next`
and `Data` return in each of their cases are lemmas. The refinement follows from the
same invariant: `StreamStep` shows that a call of `Next` that returns data appends
to what came out a number that was inserted and is above all before it.

*CentralServer.* All three properties start from `BaseInv`: types; sequence numbers
clear of the end of their range, with nothing buffered below `nextSeq`
(`Numbers`); a pointer a goroutine carries across an unlock points to a connState
of the connection it works for (`Pointers`); and whoever holds `cs.mu` over
several steps is about to delete a registered, cancelled connState (`Locks`).

- `RegisteredIffLive` also needs `CancelledRemoved`: what a handler or a relay is
  about to cancel is no longer registered. The deletion and the cancellation are
  two steps, and between them another SYN may register a new connState; that this
  cannot be the one about to be cancelled is what the conjunct says.
- `ChunkInOnePlace` is about chunks that have left the reorderer. It becomes
  inductive by saying where they came from: everything in a batch, a queue or
  upstream is below `nextSeq`. A drain hands out numbers from `nextSeq` on
  (`DrainRange` of `CommonLemmas`), which are therefore new, and moves `nextSeq` past
  them (`DrainSpec`).
- `DeadSourceForgotten` needs that the tunnel's handler knows what to clean up:
  whatever lists a tunnel is in `served` of its handler (`ListedServed`). `handleData`
  lists the tunnel without noting it, so this holds only because a tunnel's first
  frame of a connection is its SYN (`SynFirst`, and `Unheard` for connections whose
  client has sent nothing yet); and one removal suffices because no tunnel is
  listed twice (`SourcesDistinct`).

From `BaseInv` alone follows an action property, `ConnStateLivesOnce`: a connState that
was removed from `cs.conns` is not registered again, one that was cancelled stays
cancelled, and its `nextSeq` does not go back. It holds of every step because only
`handleSYN` registers, and always a new connState; so a goroutine that comes back
with an old pointer after an unlock works on a connState no later connection uses.

*TunnelPool.* What is open is listed under its instance, what is listed is listed
once (`OpenListed`, `ListedOnce`), and a sender that goes on has a connection to try
(`TryHasConn`). The lemmas on `Filter` say what the refresher keeps; they rest on a
counting argument (`RankSurjective`), not on recursion.

*UserLimits.* The counters are cardinalities, so each step adds or removes one
element of a finite set. `CountsMatchConns` needs that a connection that was
accepted has an address (`ConnShape`). `QuotaIsExact` needs that what is still to
be charged was relayed since the last reset (`PendingMoved`), so that a charge
never exceeds what was moved.

*ConnRelay.* `RelaysCounted` compares the counter with the set of handlers between
`IncrConns` and `DecrConns` (`Counted`), each of which has an instance
(`HandlerOK`). `LiveClientNeverClosed` is about clients shared through the cache: a
client used or cached was dialled to the same instance (`UsedDialled`,
`CachedDialled`), belongs to a process the instance has had, and once closed serves
nobody, because its session is lost or its process has ended (`ClientOK`, `Useless`);
neither comes back (`SessionLostKeeps` and the steps of the instances).

*Supervisor.* `ProcessReachable` says that an instance's running process is the
one `inst.cmd` names. `Start` overwrites `cmd`, so it must not be called while a
process runs. That is not in the state it tests; it follows from who may call it:
`SupervisorOwns` says that a supervisor between the exit of its process and
`Start` owns an instance without process. `FutureEmpty` says the same of
generations not yet current, for `Reload`'s `Start`, and `ReloadBounded` keeps
`gen + 1` in range. `Stop` sets `cmd` to nil only once the process is dead. The
refinement of `SingleProcess` uses the same facts: each `Start` finds no process
running, which is the guard of the abstract one.

*PacketSplit.* `FINIsLast` needs that the upload relay has ended when the handler
sends the FIN (`UploadInRelay`), that every number sent is below `txSeq`
(`SentBelow`), and that `txSeq` is too small to wrap (`NoWrap`). The reverse direction
has an invariant of its own, `StreamInv`: every data frame on a tunnel, in the hands
of a readLoop or in the channel carries a number the central server has used
(`ReverseSent`), so does what is buffered (`Buffered`), what was written is
increasing and below `nextSeq` (`OutInOrder`), and the chunk in `client.Write`, which has
left the buffer, lies between the two (`Pending`). `RoundKeeps` shows this of one
round of a drain loop, whichever branch it is in, and `StreamStep` that every step is one
of `OrderedStream`: `RemoteData` sends, a `Write` that returns delivers (`DownDelivers`),
and all other steps change nothing the stream shows.

*The drain loop.* `CentralServer` drains a buffer in one step, by a closed form
(`Drain`, `Drained`). That this is what calling `Next` until it returns nil leaves is an
induction over the loop. It is done by a least counterexample (`LeastExists`): a round
that returns data takes a frame out, so the loop is defined on every buffer of at most
`n` frames for every `n` (`Loopable`), and a smallest buffer on which loop and closed
form differ would have a predecessor on which they agree.

*Wire.* The bytes in flight always are the bytes of the frames not yet read. The
invariant `InStep` says it: what the reader holds of a header and what is on the stream,
put together, are a tail of the bytes of some frame and then the whole frames after it,
except for the last, of which only a part may have been written. The lemmas on
`Aligned` say how this moves when the reader takes bytes from the front and a writer
puts bytes at the end. `FramesSent` says which frames a writer can have written,
`HandedOn` that the reader has passed on exactly those before its place; a SYN then
decodes to its target by a lemma on the three forms of address.

*Balancer, loads.* A least-load pick reads the loads one by one while others count; as
loads only grow here, what a scan has read is at most the load of now (`Scanned`). As
long as some instance has a load of `L` or less, only callers that have read another
one at `L` or less can still add to it (`Chosen`). So what an instance has above `L`,
and what it may yet get, is at most one for each caller (`Share`).

*Balancer, turns.* The strategies that take turns differ in how they keep their place:
one counter, an index and a counter without a lock, or both with unhealthy instances
passed over. `TurnOK` says what they share, for the instance `c` whose turn it is after
`n` picks of it. An instance that has stayed healthy has waited at most for the weights
of the instances whose turn came since its own (`Passed`) and for those `n`; it lies in
a set that grows by one with every turn, and its weights are summed by the lemmas on
`Total`. And the latest run of picks is the turn in progress, a whole turn after which
only unhealthy instances came, or of the only healthy one. There are two moves:
`TurnMoves` (the turn is used up, or its instance unhealthy) and `TurnServes` (a pick).
Every action is a sequence of them. The fallback of `pickInstance` is the exception:
it is reached only when nobody has stayed healthy, because each failed attempt brings
the turn of those that have one nearer (`CallOK`, by `Ahead`), and there are more attempts
than instances.

*Admin, file and memory.* `InSync` and `AcceptedConfigBoots` share an invariant: types
(`Typed`), at most one request in progress while `calm` (`One`), and, for each step of
each request, how file, memory, processes and checker stand to each other (`Sync`,
`Phase`). It needs that a configuration with its defaults is left alone by `Load` and
is accepted again (`Fixed`), because what is saved is what was in memory, and comes
back through `Load`.

*Admin, users.* `Kept` follows each dashboard's copy (`Told`) and what its next request
will write (`Made`) as long as no request carries users from an old copy (`fresh`); then
whenever none is in progress users in memory, in the manager and in the answers are the
same (`Shown`).

*Admin, ports.* What `ExpandInstances` returns is the concatenation of one block per
entry (`FlattenBlocks`), in which the entry's offered ports are taken in order
(`SlotsExpand`); `Validate` refuses what would give two blocks a port. `Ran` says that
every list of instances that was ever made comes from a configuration that was
accepted, and `Numbers` that lists are not mixed up when restarts and reloads overlap.

Only model-checked are the liveness properties: fairness and `ENABLED` are outside the
prover. What recursive functions compute for every input cannot be proved by the
library's induction theorems, which no installed prover can instantiate; where it
mattered (the drain loop, the concatenation of blocks, sums) it was proved from the
least counterexample instead.

## Not modelled

- The bytes of SOCKS5 and of the health probes, and what probes ask of the tunnel:
  the models use their outcome.
- The central server's SOCKS5 passthrough, `closeAll` at exit, `sourceMap`.
- Status, bandwidth history, pages and basic authentication of the dashboard; the
  embedded binary; socket options. They are I/O without state other parts read.
- The rate limiter's timing; statistics of instances.
- Wrap-around of sequence numbers: kept in the definitions (`% SeqSpace`), not
  reached by the runs.
- A composition of both ends of a split connection in one module: each end has the
  other as an environment that may do all the other does, and more.

## Plan

Done: `ReordererOps` and `Reorderer` first, because everything else is built on
them; then `CentralServer`, `Supervisor`, `PacketSplit`, `TunnelPool`,
`UserLimits`; then `ConnRelay`, `Balancer`, `Wire`, `ConfigOps` and `Admin`, and the
abstract `OrderedStream` and `SingleProcess` with the refinements; proofs of every
safety property, action property and refinement of all of them.

Left to do:

1. Further action properties from the invariants at hand, as `ConnStateLivesOnce` of
   `CentralServer_proofs`: a connection of the pool, once closed, is not listed again.
2. That every chunk the central server holds or has written was sent by the client
   of its connection, from `SynFirst` and `Numbers`.
3. Both ends of a split connection in one module, each taking the place of the
   other's environment.
