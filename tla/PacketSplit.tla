---------------------------- MODULE PacketSplit ----------------------------
(***************************************************************************)
(* The client's half of one split connection: handlePacketSplit            *)
(* (internal/proxy/relay.go), its PacketSplitter and the readLoops of the  *)
(* TunnelPool that deliver frames to it (internal/tunnel).                 *)
(*                                                                         *)
(* Goroutines: handler (handlePacketSplit itself), upload                  *)
(* (RelayClientToUpstream), download (RelayUpstreamToClient), the watcher  *)
(* that closes the client connection when the context is cancelled, and    *)
(* one readLoop per tunnel.  The client, the tunnels and the central       *)
(* server are the environment.  How an instance is picked and whether      *)
(* SendFrame succeeds is left open: see TunnelPool.                        *)
(***************************************************************************)
EXTENDS ReordererOps, Sequences, SequencesExt

CONSTANTS
    Tunnels,      \* tunnel connections, one readLoop each
    MaxUp,        \* bound: chunks the client sends
    MaxReverse,   \* bound: data frames the central server sends back
    BufCap,       \* capacity of the incoming channel (256 in the code)
    Events        \* environment events that may happen

ASSUME PacketSplitAssumption ==
    /\ MaxUp \in Nat /\ MaxReverse \in Nat /\ BufCap \in Nat \ {0}
    /\ MaxUp + 2 < SeqSpace /\ MaxReverse + 1 < SeqSpace
    /\ Events \subseteq {"clientEOF", "loss", "RST", "writeErr", "synErr", "noInstance"}

VARIABLES
    handler,    \* pc of handlePacketSplit
    upload,     \* pc of RelayClientToUpstream
    download,   \* RelayUpstreamToClient: at the select, or in client.Write in
                \* the drain loop of one of its branches
    writing,    \* the chunk in client.Write
    ctxDone,    \* the context of the connection is cancelled
    client,     \* clientConn: open, eof (the peer finished) or closed (by us)
    txSeq,      \* ps.txSeq
    sent,       \* history: frames handed to a tunnel, in order
    registered, \* pool.handlers has an entry for the connection
    chClosed,   \* the incoming channel is closed
    incoming,   \* contents of the incoming channel
    reorderer,  \* local to RelayUpstreamToClient
    idle,       \* more than idleLimit since lastActivity
    out,        \* history: reverse chunks written to the client
    loop,       \* readLoop of each tunnel: the frame it is about to send, or none
    inbox,      \* reverse frames in flight on each tunnel
    remote,     \* the central server: next reverse number, whether it has closed
    panicked    \* a goroutine sent on a closed channel

vars == <<handler, upload, download, writing, ctxDone, client, txSeq, sent, registered, chClosed,
          incoming, reorderer, idle, out, loop, inbox, remote, panicked>>
upVars   == <<upload, txSeq, sent>>
downVars == <<download, writing, reorderer, idle, out>>
chanVars == <<registered, chClosed, incoming>>
poolVars == <<loop, inbox, remote, panicked>>

NoFrame == [flag |-> "none", seq |-> 0]
Flags   == {"SYN", "DATA", "FIN", "RST"}
Frame   == [flag : Flags, seq : SeqNum]

Init ==
    /\ handler = "start" /\ upload = "none" /\ download = "none" /\ writing = NoData
    /\ ctxDone = FALSE /\ client = "open"
    /\ txSeq = 0 /\ sent = << >>
    /\ registered = FALSE /\ chClosed = FALSE /\ incoming = << >>
    /\ reorderer = NewReordererAt(0) /\ idle = FALSE /\ out = << >>
    /\ loop = [n \in Tunnels |-> NoFrame]
    /\ inbox = [n \in Tunnels |-> << >>]
    /\ remote = [seq |-> 0, closed |-> FALSE]
    /\ panicked = FALSE

-----------------------------------------------------------------------------
(* handler                                                                 *)

\* txSeq.Add(1) - 1 and SendFrame of a frame with that number.
Emit(flag) ==
    /\ txSeq' = (txSeq + 1) % SeqSpace
    /\ sent' = Append(sent, [flag |-> flag, seq |-> txSeq])

\* The number is used up, but no tunnel took the frame.
EmitLost ==
    /\ txSeq' = (txSeq + 1) % SeqSpace
    /\ UNCHANGED sent

\* No tunnel is connected or no instance is healthy: the client is told so.
Refuse ==
    /\ handler = "start" /\ "noInstance" \in Events
    /\ handler' = "done"
    /\ UNCHANGED <<ctxDone, client, upVars, downVars, chanVars, poolVars>>

\* NewPacketSplitter registers the connection.
RegisterConn ==
    /\ handler = "start"
    /\ registered' = TRUE
    /\ handler' = "syn"
    /\ UNCHANGED <<ctxDone, client, upVars, downVars, chClosed, incoming, poolVars>>

\* SendSYN to every instance; if one takes it the relays start.
SendSYN ==
    /\ handler = "syn"
    /\ Emit("SYN")
    /\ handler' = "relay" /\ upload' = "check" /\ download' = "select"
    /\ UNCHANGED <<ctxDone, client, writing, reorderer, idle, out, chanVars, poolVars>>

SendSYNFails ==
    /\ handler = "syn" /\ "synErr" \in Events
    /\ EmitLost
    /\ handler' = "fin"
    /\ UNCHANGED <<upload, ctxDone, client, downVars, chanVars, poolVars>>

\* Mutant of WaitBoth: one direction is enough to go on.
WaitEither ==
    /\ handler = "relay"
    /\ upload = "done" \/ download = "done"
    /\ handler' = "fin"
    /\ UNCHANGED <<ctxDone, client, upVars, downVars, chanVars, poolVars>>

\* wg.Wait(); the deferred splitter.Close() follows.
WaitBoth ==
    /\ handler = "relay"
    /\ upload = "done" /\ download = "done"
    /\ handler' = "fin"
    /\ UNCHANGED <<ctxDone, client, upVars, downVars, chanVars, poolVars>>

\* Close(): FIN to every instance; each may or may not take it.
SendFIN ==
    /\ handler = "fin"
    /\ Emit("FIN") \/ EmitLost
    /\ handler' = "unregister"
    /\ UNCHANGED <<upload, ctxDone, client, downVars, chanVars, poolVars>>

\* UnregisterConn: LoadAndDelete, then close(ch).
UnregisterConn ==
    /\ handler = "unregister"
    /\ registered' = FALSE
    /\ handler' = "closeCh"
    /\ UNCHANGED <<ctxDone, client, upVars, downVars, chClosed, incoming, poolVars>>

CloseChannel ==
    /\ handler = "closeCh"
    /\ chClosed' = TRUE
    /\ handler' = "done"
    /\ UNCHANGED <<ctxDone, client, upVars, downVars, registered, incoming, poolVars>>

HandlerStep ==
    \/ Refuse \/ RegisterConn \/ SendSYN \/ SendSYNFails
    \/ WaitBoth \/ SendFIN \/ UnregisterConn \/ CloseChannel

\* Mutant of Watch: cancellation does not reach the client connection.
WatchIdle == ctxDone /\ client = "closed" /\ UNCHANGED vars

\* go func() { <-ctx.Done(); clientConn.Close() }()
Watch ==
    /\ ctxDone /\ client # "closed"
    /\ client' = "closed"
    /\ UNCHANGED <<handler, ctxDone, upVars, downVars, chanVars, poolVars>>

-----------------------------------------------------------------------------
(* upload                                                                  *)

\* The context test at the head of the loop.  The goroutine that returns
\* also cancels the context.
UpCheck ==
    /\ upload = "check"
    /\ upload' = IF ctxDone THEN "done" ELSE "read"
    /\ UNCHANGED <<handler, ctxDone, client, txSeq, sent, downVars, chanVars, poolVars>>

\* client.Read returns a chunk: it goes to the picked instance, if that fails
\* to another one, and if that fails too it is lost with its number.
UpChunk ==
    /\ upload = "read" /\ client = "open"
    /\ txSeq <= MaxUp
    /\ Emit("DATA") \/ ("loss" \in Events /\ EmitLost)
    /\ upload' = "check"
    /\ UNCHANGED <<handler, ctxDone, client, downVars, chanVars, poolVars>>

\* client.Read fails.
UpEnds ==
    /\ upload = "read" /\ client # "open"
    /\ upload' = "done"
    /\ ctxDone' = TRUE
    /\ UNCHANGED <<handler, client, txSeq, sent, downVars, chanVars, poolVars>>

\* A chunk is read, but no instance is healthy: it is dropped, unnumbered.
UpNoInstance ==
    /\ upload = "read" /\ client = "open"
    /\ "noInstance" \in Events
    /\ upload' = "done"
    /\ ctxDone' = TRUE
    /\ UNCHANGED <<handler, client, txSeq, sent, downVars, chanVars, poolVars>>

-----------------------------------------------------------------------------
(* download                                                                *)

\* The branches of the select, each with a drain loop of its own: the loop in
\* which client.Write is called.
Loops == {"tick", "data", "fin"}

DownEnds == download' = "done" /\ ctxDone' = TRUE

\* Mutant of GivesUp: no idle limit.
GivesUpNever(branch) == branch = "fin"

\* What follows the loop: the idle test of a tick, the return after a FIN.
GivesUp(branch) == branch = "fin" \/ (branch = "tick" /\ idle')

\* The next round of the loop on reorderer r: Next() returns a payload, and
\* Write is called with it; or it returns nil, and the loop is over.
NextRound(branch, r) ==
    /\ reorderer' = Next(r) /\ writing' = Data(r)
    /\ \/ Data(r) # NoData /\ download' = branch /\ UNCHANGED ctxDone
       \/ Data(r) = NoData /\ GivesUp(branch) /\ DownEnds
       \/ Data(r) = NoData /\ ~GivesUp(branch) /\ download' = "select" /\ UNCHANGED ctxDone

\* case <-ctx.Done()
DownCancelled ==
    /\ download = "select" /\ ctxDone
    /\ DownEnds
    /\ UNCHANGED <<handler, client, upVars, writing, reorderer, idle, out, chanVars, poolVars>>

\* case <-gapTicker.C: drain, then give up if nothing has come for long.
DownTick ==
    /\ download = "select"
    /\ UNCHANGED <<idle, out>>
    /\ NextRound("tick", reorderer)
    /\ UNCHANGED <<handler, client, upVars, chanVars, poolVars>>

ReceiveFrame(flags) ==
    /\ download = "select" /\ incoming # << >>
    /\ Head(incoming).flag \in flags
    /\ incoming' = Tail(incoming)
    /\ idle' = FALSE
    /\ UNCHANGED <<registered, chClosed>>

\* Mutant of DownData: the payload is written as it comes.
DownDataUnordered ==
    /\ ReceiveFrame({"DATA"})
    /\ out' = Append(out, Head(incoming).seq)
    /\ UNCHANGED <<handler, client, ctxDone, download, writing, reorderer, upVars, poolVars>>

\* case frame := <-ps.incoming, a data frame.
DownData ==
    /\ ReceiveFrame({"DATA"})
    /\ NextRound("data", Insert(reorderer, Head(incoming).seq))
    /\ UNCHANGED <<handler, client, out, upVars, poolVars>>

\* A FIN or RST: drain what is in order and return.
DownFIN ==
    /\ ReceiveFrame({"FIN", "RST"})
    /\ NextRound("fin", reorderer)
    /\ UNCHANGED <<handler, client, out, upVars, poolVars>>

\* client.Write returns.  It has no deadline: it may block for as long as the
\* client does not read.  A tick takes what it wrote for activity.
WriteReturns ==
    /\ download \in Loops /\ client # "closed"
    /\ out' = Append(out, writing)
    /\ idle' = (download # "tick" /\ idle)
    /\ NextRound(download, reorderer)
    /\ UNCHANGED <<handler, client, upVars, chanVars, poolVars>>

\* It fails, as it does once the connection is closed: the relay returns, but
\* after a FIN the error is not looked at.
WriteFails ==
    /\ download \in Loops
    /\ client # "open" \/ "writeErr" \in Events
    /\ \/ download = "fin" /\ NextRound("fin", reorderer)
       \/ download # "fin" /\ DownEnds /\ writing' = NoData /\ UNCHANGED reorderer
    /\ idle' = (download # "tick" /\ idle)
    /\ UNCHANGED <<handler, client, out, upVars, chanVars, poolVars>>

WriteWakes == client = "closed" /\ WriteFails

DownStep == DownCancelled \/ DownTick \/ DownData \/ DownFIN \/ WriteWakes

-----------------------------------------------------------------------------
(* readLoop n                                                              *)

\* ReadFrame, then handlers.Load: without a handler the frame is dropped.
LoopRead(n) ==
    /\ loop[n] = NoFrame /\ inbox[n] # << >>
    /\ inbox' = [inbox EXCEPT ![n] = Tail(@)]
    /\ loop' = IF registered THEN [loop EXCEPT ![n] = Head(inbox[n])] ELSE loop
    /\ UNCHANGED <<handler, ctxDone, client, upVars, downVars, chanVars, remote, panicked>>

\* select { case ch <- frame: default: }, which panics if ch is closed.
LoopSend(n) ==
    /\ loop[n] # NoFrame
    /\ loop' = [loop EXCEPT ![n] = NoFrame]
    /\ incoming' = IF chClosed \/ Len(incoming) >= BufCap THEN incoming
                   ELSE Append(incoming, loop[n])
    /\ panicked' = (panicked \/ chClosed)
    /\ UNCHANGED <<handler, ctxDone, client, upVars, downVars, registered, chClosed,
                   inbox, remote>>

-----------------------------------------------------------------------------
(* The environment.                                                        *)

\* The client finishes or disappears.
ClientEOF ==
    /\ "clientEOF" \in Events /\ client = "open"
    /\ client' = "eof"
    /\ UNCHANGED <<handler, ctxDone, upVars, downVars, chanVars, poolVars>>

\* The central server has been told of the connection.
Known == sent # << >> /\ Head(sent).flag = "SYN"

\* It sends the next chunk over some tunnel, or loses it.
RemoteData ==
    /\ Known /\ ~remote.closed /\ remote.seq < MaxReverse
    /\ \/ \E n \in Tunnels :
             inbox' = [inbox EXCEPT ![n] = Append(@, [flag |-> "DATA", seq |-> remote.seq])]
       \/ "loss" \in Events /\ UNCHANGED inbox
    /\ remote' = [remote EXCEPT !.seq = @ + 1]
    /\ UNCHANGED <<handler, ctxDone, client, upVars, downVars, chanVars, loop, panicked>>

\* It closes: one FIN, or RST, over some tunnel, number 0.
RemoteClose(flag) ==
    /\ Known /\ ~remote.closed
    /\ flag \in {"FIN"} \cup (Events \cap {"RST"})
    /\ \E n \in Tunnels :
          inbox' = [inbox EXCEPT ![n] = Append(@, [flag |-> flag, seq |-> 0])]
    /\ remote' = [remote EXCEPT !.closed = TRUE]
    /\ UNCHANGED <<handler, ctxDone, client, upVars, downVars, chanVars, loop, panicked>>

\* gapTimeout, and idleLimit, pass.
GapElapses ==
    /\ download = "select" /\ reorderer.waitingSince = "recent"
    /\ reorderer' = [reorderer EXCEPT !.waitingSince = "expired"]
    /\ UNCHANGED <<handler, ctxDone, client, upVars, download, writing, idle, out, chanVars,
                   poolVars>>

\* Nothing comes; or frames do, while the relay is in Write.
GoesIdle ==
    /\ ~idle
    /\ download \in Loops \/ (download = "select" /\ incoming = << >>)
    /\ idle' = TRUE
    /\ UNCHANGED <<handler, ctxDone, client, upVars, download, writing, reorderer, out, chanVars,
                   poolVars>>

NextStep ==
    \/ HandlerStep \/ Watch
    \/ UpCheck \/ UpChunk \/ UpEnds \/ UpNoInstance
    \/ DownStep \/ WriteReturns \/ WriteFails
    \/ \E n \in Tunnels : LoopRead(n) \/ LoopSend(n)
    \/ ClientEOF \/ RemoteData \/ RemoteClose("FIN") \/ RemoteClose("RST")
    \/ GapElapses \/ GoesIdle

Spec == Init /\ [][NextStep]_vars

\* Goroutines run and time passes.  The client may stay silent for ever, and
\* read nothing for ever: neither a Read that has nothing to return nor a Write
\* is assumed to end before we close the connection.
Fairness ==
    /\ WF_vars(HandlerStep) /\ WF_vars(Watch)
    /\ WF_vars(UpCheck) /\ WF_vars(UpEnds)
    /\ WF_vars(DownStep)
    /\ \A n \in Tunnels : WF_vars(LoopRead(n)) /\ WF_vars(LoopSend(n))
    /\ WF_vars(GapElapses) /\ WF_vars(GoesIdle)

FairSpec == Spec /\ Fairness

-----------------------------------------------------------------------------
\* Types; and only numbers the central server has used are written out.
TypeOK ==
    /\ handler \in {"start", "syn", "relay", "fin", "unregister", "closeCh", "done"}
    /\ upload \in {"none", "check", "read", "done"}
    /\ download \in {"none", "select", "done"} \cup Loops
    /\ writing \in SeqNum \cup {NoData} /\ (writing # NoData <=> download \in Loops)
    /\ ctxDone \in BOOLEAN /\ client \in {"open", "eof", "closed"}
    /\ txSeq \in SeqNum /\ sent \in Seq(Frame)
    /\ registered \in BOOLEAN /\ chClosed \in BOOLEAN
    /\ incoming \in Seq(Frame) /\ Len(incoming) <= BufCap
    /\ reorderer \in ReordererType /\ idle \in BOOLEAN
    /\ out \in Seq(0 .. MaxReverse - 1)
    /\ loop \in [Tunnels -> Frame \cup {NoFrame}]
    /\ inbox \in [Tunnels -> Seq(Frame)]
    /\ remote \in [seq : SeqNum, closed : BOOLEAN]
    /\ panicked \in BOOLEAN

\* Whatever the tunnels reorder, lose or drop at a full channel, the client
\* sees the stream with holes that one reorder buffer promises: the reverse
\* chunks it is written were sent, in sequence order, each at most once.
Stream == INSTANCE OrderedStream
          WITH Chunks <- SeqNum, sent <- 0 .. remote.seq - 1, received <- out

ClientStream == Stream!Spec

\* The frames of a connection are numbered in the order they are sent, from
\* several goroutines, and nothing follows the FIN: the central server never
\* sees data numbered after it.
FINIsLast ==
    \A i, j \in 1 .. Len(sent) : i < j =>
       sent[i].seq < sent[j].seq /\ sent[i].flag # "FIN"

\* When one direction of a relayed connection has ended, the other ends too,
\* even if it is blocked in a Read of the client, or in a Write to a client
\* that does not read: nothing is leaked.
EitherEndsBoth ==
    (upload = "done" \/ download = "done") ~> (handler = "done")

\* "Detect idle connections": a connection whose tunnels have fallen silent
\* does not stay for ever, even if the client says nothing; unless the client
\* reads nothing for ever either, for Write has no deadline and the idle limit
\* is tested only when it has returned.
SilentConnEnds ==
    \/ <>[](download \in Loops)
    \/ (handler = "relay") ~> (handler = "done")

-----------------------------------------------------------------------------
(* What comments in the code say of it, and the code does not do.          *)

\* splitter.go: "Detect idle connections (no data for idleLimit -> give up)".  A
\* client that stays connected and does not read keeps the download in Write.
IdleConnEnds == (handler = "relay") ~> (handler = "done")

\* pool.go, readLoop: "frames from any connection reach the right handler".
\* A frame is not sent to a channel its handler has closed, which panics.
NoSendOnClosedChannel == ~panicked

\* protocol.go: FIN means "connection closed gracefully".  When the download
\* ends although the client is still there, no reverse data is on its way.
ReverseGraceful ==
    (remote.closed /\ client = "open" /\ download = "done" /\ upload # "done") =>
       /\ reorderer.buffer = {}
       /\ \A n \in Tunnels : \A i \in 1 .. Len(inbox[n]) : inbox[n][i].flag # "DATA"
=============================================================================
