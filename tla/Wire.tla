-------------------------------- MODULE Wire --------------------------------
(***************************************************************************)
(* Frames on one tunnel connection, byte by byte: WriteFrame, ReadFrame    *)
(* and the SYN payload (internal/tunnel/protocol.go), several connections  *)
(* that write through one TunnelConn (tunnelconn.go, SendFrame of pool.go) *)
(* or one sourceConn (cmd/centralserver/state.go), and the two readers:    *)
(* handleIncoming of the central server, which first tells frames from     *)
(* SOCKS5 by one byte (server.go), and the client's readLoop (pool.go).    *)
(*                                                                         *)
(* Sizes are scaled down: a header is ConnID, SeqNum and Length of one     *)
(* byte each (11 bytes in all in the code; Flags follow from SeqNum), a    *)
(* port one byte, an IPv4 address one and an IPv6 address two.             *)
(***************************************************************************)
EXTENDS Integers, Sequences, SequencesExt, FiniteSets, SeqOps

CONSTANTS
    Writers,         \* connections that share the tunnel
    MaxPayloadSize,  \* 8192 in the code
    IDSpace,         \* number of connection IDs: 2^32 in the code
    SocksIDs,        \* the IDs whose first byte is 0x05
    Requests,        \* the targets [atyp, addr, port] the connections may ask for
    Scenes           \* [side, faults, chunk]: who writes, what may fail, size of a data chunk

HeaderSize == 3
MinSYN     == 3      \* 4 in the code

ASSUME WireAssumption ==
    /\ MaxPayloadSize \in Nat /\ IDSpace \in Nat \ {0, 1} /\ 0 \notin SocksIDs
    /\ \A s \in Scenes : /\ s.side \in {"client", "central"} /\ s.chunk \in Nat \ {0}
                         /\ s.faults \subseteq {"timeout", "cut", "idle"}

VARIABLES
    scene,
    nextID,      \* ConnIDGenerator.counter
    writer,      \* the goroutines that send: pc, ConnID, target, next sequence number
    mutex,       \* writeMu: the holder, or none
    closed,      \* TunnelConn.closed
    stream,      \* bytes on the way
    eof,         \* nothing follows the bytes on the way
    reader,      \* the reading goroutine: pc and the header it has read
    written,     \* history: frames written completely, in order
    dispatched,  \* history: frames the reader handed on, in order
    cut,         \* history: a frame was written in part
    mixed        \* history: and then another frame after it

wireVars == <<scene, nextID, writer, mutex, closed, stream, eof, reader,
              written, dispatched, cut, mixed>>

-----------------------------------------------------------------------------
(* protocol.go                                                             *)

EncodeSYNPayload(t) == <<t.atyp>> \o t.addr \o <<t.port>>

AddrLen(p) == CASE p[1] = 1 -> 1
                [] p[1] = 3 -> 1 + p[2]
                [] p[1] = 4 -> 2

NoTarget == [atyp |-> 0]

DecodeSYNPayload(p) ==
    IF Len(p) < MinSYN \/ p[1] \notin {1, 3, 4} THEN NoTarget
    ELSE IF Len(p) < 1 + AddrLen(p) + 1 THEN NoTarget
    ELSE [atyp |-> p[1], addr |-> SubSeq(p, 2, 1 + AddrLen(p)), port |-> p[2 + AddrLen(p)]]

\* A target as handleConnection reads it: the address is as long as its type says.
Target ==
    {t \in [atyp : {1, 3, 4}, addr : Seq(Nat), port : Nat] :
        t.addr # << >> /\ Len(t.addr) = AddrLen(EncodeSYNPayload(t))}

ASSUME RequestsAssumption == Requests \subseteq [Writers -> Target]

Frame == [id : Nat, seq : Nat, payload : Seq(Nat)]

Bytes(f) == <<f.id, f.seq, Len(f.payload)>> \o f.payload

\* A random start below IDSpace \div 2, never 0 unless there is no randomness.
WireInit ==
    /\ scene \in Scenes
    /\ nextID \in 0 .. (IDSpace \div 2) - 1
    /\ \E r \in Requests :
          writer = [w \in Writers |-> [pc |-> "new", id |-> 0, seq |-> 0, target |-> r[w]]]
    /\ mutex = "none" /\ closed = FALSE
    /\ stream = << >> /\ eof = FALSE
    /\ reader = [pc |-> IF scene.side = "client" THEN "first" ELSE "loop", hdr |-> << >>]
    /\ written = << >> /\ dispatched = << >> /\ cut = FALSE /\ mixed = FALSE

history == <<written, dispatched, cut, mixed>>

-----------------------------------------------------------------------------
(* Writing: one frame with sequence number 0 (SYN), then one of data       *)

FrameOf(w) ==
    [id |-> writer[w].id, seq |-> writer[w].seq,
     payload |-> IF writer[w].seq = 0 THEN EncodeSYNPayload(writer[w].target)
                 ELSE [k \in 1 .. scene.chunk |-> 1]]

\* ConnIDGenerator.Next, for a new connection
Open(w) ==
    /\ writer[w].pc = "new"
    /\ nextID' = (nextID + 1) % IDSpace
    /\ writer' = [writer EXCEPT ![w].pc = "send", ![w].id = nextID']
    /\ UNCHANGED <<scene, mutex, closed, stream, eof, reader, history>>

\* SendFrame looks at tc.closed without a lock; sendFrame has no such test.
SendFrame(w) ==
    /\ writer[w].pc = "send"
    /\ IF scene.side = "client" /\ closed
       THEN writer' = [writer EXCEPT ![w].pc = "done"]
       ELSE writer' = [writer EXCEPT ![w].pc = "lock"]
    /\ UNCHANGED <<scene, nextID, mutex, closed, stream, eof, reader, history>>

\* writeMu; writeFrame looks at tc.closed again.
Lock(w) ==
    /\ writer[w].pc = "lock" /\ mutex = "none"
    /\ IF scene.side = "client" /\ closed
       THEN writer' = [writer EXCEPT ![w].pc = "failed"] /\ UNCHANGED mutex
       ELSE writer' = [writer EXCEPT ![w].pc = "write"] /\ mutex' = w
    /\ UNCHANGED <<scene, nextID, closed, stream, eof, reader, history>>

\* WriteFrame: the whole frame in one write.
Write(w) ==
    /\ writer[w].pc = "write"
    /\ Len(FrameOf(w).payload) <= MaxPayloadSize /\ ~ eof
    /\ mutex' = "none"
    /\ stream' = stream \o Bytes(FrameOf(w))
    /\ written' = Append(written, FrameOf(w))
    /\ mixed' = cut
    /\ writer' = [writer EXCEPT ![w].pc = IF writer[w].seq = 0 THEN "send" ELSE "done",
                                ![w].seq = 1]
    /\ UNCHANGED <<scene, nextID, closed, eof, reader, dispatched, cut>>

\* The frame is refused, the connection is broken, or the deadline expires when only the
\* first bytes have been taken.
WriteFails(w) ==
    /\ writer[w].pc = "write"
    /\ mutex' = "none"
    /\ writer' = [writer EXCEPT ![w].pc = "failed"]
    /\ \/ /\ Len(FrameOf(w).payload) > MaxPayloadSize \/ eof
          /\ UNCHANGED <<stream, cut, mixed>>
       \/ /\ "timeout" \in scene.faults /\ Len(FrameOf(w).payload) <= MaxPayloadSize /\ ~ eof
          /\ \E k \in {0, 1, HeaderSize, Len(Bytes(FrameOf(w))) - 1} :
                /\ stream' = stream \o SubSeq(Bytes(FrameOf(w)), 1, k)
                /\ cut' = (cut \/ k > 0)
                /\ mixed' = (mixed \/ (cut /\ k > 0))
    /\ UNCHANGED <<scene, nextID, closed, eof, reader, written, dispatched>>

\* SendFrame closes the TunnelConn, for every connection; sendFrame only takes the
\* source out of the sources of its own connection.
Failed(w) ==
    /\ writer[w].pc = "failed"
    /\ writer' = [writer EXCEPT ![w].pc = "done"]
    /\ IF scene.side = "client" THEN closed' = TRUE /\ eof' = TRUE
       ELSE UNCHANGED <<closed, eof>>
    /\ UNCHANGED <<scene, nextID, mutex, stream, reader, history>>

-----------------------------------------------------------------------------
(* The network                                                             *)

\* The instance or the path dies: what was on the way may be lost.
Cut ==
    /\ "cut" \in scene.faults /\ ~ eof
    /\ eof' = TRUE
    /\ \E k \in 0 .. Len(stream) : stream' = SubSeq(stream, 1, k)
    /\ UNCHANGED <<scene, nextID, writer, mutex, closed, reader, history>>

-----------------------------------------------------------------------------
(* Reading                                                                 *)

ReaderGoes(pc, hdr, k) ==
    /\ reader' = [pc |-> pc, hdr |-> hdr]
    /\ stream' = SubSeq(stream, k + 1, Len(stream))

quiet == <<scene, nextID, writer, mutex, closed>>

\* Mutant: the byte that was looked at is not part of the header.
FirstByteDropped ==
    /\ reader.pc = "first" /\ stream # << >>
    /\ ReaderGoes(IF Head(stream) \in SocksIDs THEN "socks" ELSE "rest", << >>, 1)
    /\ UNCHANGED <<quiet, eof, history>>

\* handleIncoming
FirstByte ==
    /\ reader.pc = "first" /\ stream # << >>
    /\ ReaderGoes(IF Head(stream) \in SocksIDs THEN "socks" ELSE "rest", <<Head(stream)>>, 1)
    /\ UNCHANGED <<quiet, eof, history>>

\* No byte in ten seconds: the connection is closed, whatever is written to it then.
FirstByteTimeout ==
    /\ "idle" \in scene.faults
    /\ reader.pc = "first" /\ stream = << >> /\ ~ eof
    /\ reader' = [pc |-> "ended", hdr |-> << >>]
    /\ eof' = TRUE
    /\ UNCHANGED <<quiet, stream, history>>

\* io.ReadFull of a header, or of what the first byte left of it
ReadHeader ==
    /\ reader.pc \in {"rest", "loop"}
    /\ LET need == HeaderSize - Len(reader.hdr)
       IN  /\ Len(stream) >= need
           /\ ReaderGoes(IF reader.pc = "rest" THEN "firstBody" ELSE "body",
                         reader.hdr \o SubSeq(stream, 1, need), need)
    /\ UNCHANGED <<quiet, eof, history>>

\* Mutant: waits for a byte more than the payload has.
ReadBodyWaits ==
    /\ reader.pc \in {"firstBody", "body"}
    /\ reader.hdr[3] <= MaxPayloadSize /\ Len(stream) > reader.hdr[3]
    /\ ReaderGoes("loop", << >>, reader.hdr[3])
    /\ dispatched' = Append(dispatched, [id |-> reader.hdr[1], seq |-> reader.hdr[2],
                                         payload |-> SubSeq(stream, 1, reader.hdr[3])])
    /\ UNCHANGED <<quiet, eof, written, cut, mixed>>

\* The first frame is parsed by parseHeader, the others by ReadFrame; the client's
\* readLoop skips ConnID 0.
ReadBody ==
    /\ reader.pc \in {"firstBody", "body"}
    /\ reader.hdr[3] <= MaxPayloadSize /\ Len(stream) >= reader.hdr[3]
    /\ ReaderGoes("loop", << >>, reader.hdr[3])
    /\ dispatched' =
          IF scene.side = "central" /\ reader.hdr[1] = 0 THEN dispatched
          ELSE Append(dispatched, [id |-> reader.hdr[1], seq |-> reader.hdr[2],
                                   payload |-> SubSeq(stream, 1, reader.hdr[3])])
    /\ UNCHANGED <<quiet, eof, written, cut, mixed>>

\* A length that is too large, or the end of the stream: ReadFrame ends the loop, and
\* parseHeader returns nil, which the loop takes for nothing.
ReadError ==
    /\ \/ reader.pc \in {"first", "rest", "loop"} /\ eof
          /\ Len(stream) < IF reader.pc = "first" THEN 1 ELSE HeaderSize - Len(reader.hdr)
       \/ reader.pc \in {"firstBody", "body"} /\ reader.hdr[3] > MaxPayloadSize
       \/ reader.pc \in {"firstBody", "body"} /\ eof /\ Len(stream) < reader.hdr[3]
    /\ IF reader.pc = "firstBody"
       THEN ReaderGoes("loop", << >>, IF reader.hdr[3] > MaxPayloadSize THEN 0 ELSE Len(stream))
            /\ UNCHANGED eof
       ELSE reader' = [pc |-> "ended", hdr |-> << >>] /\ eof' = TRUE /\ UNCHANGED stream
    /\ UNCHANGED <<quiet, history>>

Reader == FirstByte \/ ReadHeader \/ ReadBody \/ ReadError

Writer(w) == Open(w) \/ SendFrame(w) \/ Lock(w) \/ Write(w) \/ WriteFails(w) \/ Failed(w)

WireNext == (\E w \in Writers : Writer(w)) \/ Reader \/ FirstByteTimeout \/ Cut

WireSpec == WireInit /\ [][WireNext]_wireVars

\* Goroutines are scheduled.
WireFairSpec == WireSpec /\ WF_wireVars(Reader) /\ \A w \in Writers : WF_wireVars(Writer(w))

-----------------------------------------------------------------------------
(* Properties                                                              *)

\* Types; and a reader never holds more than a header.
WireTypeOK ==
    /\ nextID \in 0 .. IDSpace - 1 /\ mutex \in Writers \cup {"none"}
    /\ \A w \in Writers : writer[w].pc \in {"new", "send", "lock", "write", "failed", "done"}
    /\ reader.pc \in {"first", "rest", "firstBody", "loop", "body", "socks", "ended"}
    /\ Len(reader.hdr) <= HeaderSize /\ closed \in BOOLEAN /\ eof \in BOOLEAN

Handed == Filter(written, {f \in Frame : scene.side = "client" \/ f.id # 0})

\* What the reader hands on is what was written, in that order, and the target the
\* central server decodes from a SYN is the one the client asked for: connections that
\* share the tunnel, tunnels that break and frames that are refused never misalign it,
\* and a frame written only in part is not seen, as long as nothing was written after it.
FramesIntact ==
    /\ WireTypeOK
    /\ ~ mixed => /\ IsPrefix(dispatched, Handed)
                  /\ \A k \in DOMAIN dispatched : dispatched[k].seq = 0 =>
                        \E w \in Writers :
                           /\ writer[w].id = dispatched[k].id
                           /\ DecodeSYNPayload(dispatched[k].payload) = writer[w].target

\* A frame that was written completely arrives, unless the tunnel breaks, is taken for
\* SOCKS5 or carries a frame written in part.
FramesArrive ==
    \A k \in 1 .. 2 * Cardinality(Writers) :
        Len(Handed) >= k ~> \/ Len(dispatched) >= k
                            \/ eof \/ cut \/ reader.pc = "socks"
=============================================================================
