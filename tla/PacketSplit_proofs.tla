------------------------- MODULE PacketSplit_proofs -------------------------
(***************************************************************************)
(* Proof that the frames of a split connection are numbered in the order   *)
(* they are sent and that its FIN is the last of them, for every number of *)
(* tunnels and of chunks the number space allows, whatever is lost; and,   *)
(* of the choice of an instance (module Balancer), that least_load keeps   *)
(* the loads even for every number of handlers, and that the strategies    *)
(* that take turns starve nobody and give each instance its exact share.   *)
(***************************************************************************)
EXTENDS PacketSplit, Balancer, CommonLemmas

SentType ==
    /\ handler \in {"start", "syn", "relay", "fin", "unregister", "closeCh", "done"}
    /\ upload \in {"none", "check", "read", "done"}
    /\ txSeq \in Nat
    /\ sent \in Seq(Frame)

\* The upload goroutine is at work only while the handler waits for it.
UploadInRelay == upload \in {"check", "read"} => handler = "relay"

\* txSeq does not wrap: how far it can be at each point of the handler.
NoWrap ==
    /\ handler \in {"start", "syn"} => txSeq = 0
    /\ handler \in {"relay", "fin"} => txSeq <= MaxUp + 1
    /\ txSeq <= MaxUp + 2

\* What was sent is numbered below txSeq, and a FIN is only sent on the way out.
SentBelow ==
    \A i \in 1 .. Len(sent) :
       /\ sent[i].seq < txSeq
       /\ sent[i].flag = "FIN" => handler \in {"unregister", "closeCh", "done"}

\* The inductive invariant.
Inv == SentType /\ UploadInRelay /\ NoWrap /\ SentBelow /\ FINIsLast

LEMMA InitInv == Init => Inv
<1> SUFFICES ASSUME Init PROVE Inv
  OBVIOUS
<1>1. sent = << >> /\ Len(sent) = 0
  BY DEF Init
<1>2. SentType /\ UploadInRelay
  BY <1>1 DEF Init, SentType, UploadInRelay
<1>3. NoWrap
  BY PacketSplitAssumption DEF Init, NoWrap
<1>4. SentBelow /\ FINIsLast
  BY <1>1 DEF SentBelow, FINIsLast
<1> QED BY <1>2, <1>3, <1>4 DEF Inv

\* The sequence number does not wrap below the top of its range.
LEMMA NextSmall ==
    ASSUME NEW a \in Nat, NEW b \in Nat, a < b - 1
    PROVE  (a + 1) % b = a + 1
  OBVIOUS

\* Sending a frame with the next number, where no FIN has been sent.
LEMMA EmitKeepsOrder ==
    ASSUME Inv, NEW flag \in Flags, Emit(flag),
           txSeq < SeqSpace - 1,
           handler \notin {"unregister", "closeCh", "done"},
           flag = "FIN" => handler' \in {"unregister", "closeCh", "done"}
    PROVE  txSeq' = txSeq + 1 /\ sent' \in Seq(Frame) /\ SentBelow' /\ FINIsLast'
<1> USE SeqSpaceAssumption
<1> DEFINE f == [flag |-> flag, seq |-> txSeq]
<1>1. txSeq \in Nat /\ sent \in Seq(Frame) /\ Len(sent) \in Nat
  BY DEF Inv, SentType
<1>2. txSeq' = txSeq + 1
  BY <1>1, NextSmall DEF Emit
<1>3. f \in Frame
  BY <1>1 DEF Frame, SeqNum
<1>4. sent' = Append(sent, f)
  BY DEF Emit
<1> HIDE DEF f
<1>5. /\ sent' \in Seq(Frame) /\ Len(sent') = Len(sent) + 1
      /\ \A i \in 1 .. Len(sent) : sent'[i] = sent[i]
      /\ sent'[Len(sent) + 1] = f
  BY <1>1, <1>3, <1>4
<1>6. f.seq = txSeq /\ f.flag = flag
  BY DEF f
<1>7. \A i \in 1 .. Len(sent) : sent[i].seq < txSeq /\ sent[i].flag # "FIN" /\ sent[i].seq \in Nat
  <2>1. \A i \in 1 .. Len(sent) : sent[i] \in Frame
    BY <1>1
  <2> QED BY <2>1 DEF Inv, SentBelow, Frame, SeqNum
<1>8. SentBelow'
  <2> SUFFICES ASSUME NEW i \in 1 .. Len(sent')
               PROVE  /\ sent'[i].seq < txSeq'
                      /\ sent'[i].flag = "FIN" => handler' \in {"unregister", "closeCh", "done"}
    BY DEF SentBelow
  <2>1. CASE i \in 1 .. Len(sent)
    BY <1>1, <1>2, <1>5, <1>7, <2>1
  <2>2. CASE i = Len(sent) + 1
    BY <1>1, <1>2, <1>5, <1>6, <2>2
  <2> QED BY <1>1, <1>5, <2>1, <2>2
<1>9. FINIsLast'
  <2> SUFFICES ASSUME NEW i \in 1 .. Len(sent'), NEW j \in 1 .. Len(sent'), i < j
               PROVE  sent'[i].seq < sent'[j].seq /\ sent'[i].flag # "FIN"
    BY DEF FINIsLast
  <2>1. i \in 1 .. Len(sent)
    BY <1>1, <1>5
  <2>2. CASE j \in 1 .. Len(sent)
    BY <1>5, <2>1, <2>2 DEF Inv, FINIsLast
  <2>3. CASE j = Len(sent) + 1
    BY <1>5, <1>6, <1>7, <2>1, <2>3
  <2> QED BY <1>1, <1>5, <2>2, <2>3
<1> QED BY <1>2, <1>5, <1>8, <1>9

\* A number is used up without a frame.
LEMMA EmitLostKeepsOrder ==
    ASSUME Inv, EmitLost, txSeq < SeqSpace - 1,
           handler \notin {"unregister", "closeCh", "done"}
    PROVE  txSeq' = txSeq + 1 /\ sent' \in Seq(Frame) /\ SentBelow' /\ FINIsLast'
<1> USE SeqSpaceAssumption
<1>1. txSeq' = txSeq + 1 /\ sent' = sent
  BY NextSmall DEF EmitLost, Inv, SentType
<1>2. \A i \in 1 .. Len(sent) : sent[i] \in Frame
  BY DEF Inv, SentType
<1>3. SentBelow'
  BY <1>1, <1>2 DEF Inv, SentBelow, SentType, Frame, SeqNum
<1> QED BY <1>1, <1>3 DEF Inv, FINIsLast, SentType

-----------------------------------------------------------------------------
LEMMA StepInv == Inv /\ [NextStep]_vars => Inv'
<1> SUFFICES ASSUME Inv, [NextStep]_vars PROVE Inv'
  OBVIOUS
<1> USE PacketSplitAssumption, SeqSpaceAssumption
<1>0. /\ handler \in {"start", "syn", "relay", "fin"} => txSeq < SeqSpace - 1
      /\ {"SYN", "DATA", "FIN"} \subseteq Flags
      /\ MaxUp \in Nat /\ txSeq \in Nat
  BY DEF Inv, NoWrap, SentType, Flags
<1>1. CASE SendSYN
  <2>1. txSeq' = txSeq + 1 /\ sent' \in Seq(Frame) /\ SentBelow' /\ FINIsLast'
    BY <1>0, <1>1, EmitKeepsOrder DEF SendSYN
  <2> QED BY <1>0, <1>1, <2>1 DEF SendSYN, Inv, SentType, UploadInRelay, NoWrap
<1>2. CASE SendSYNFails
  <2>1. txSeq' = txSeq + 1 /\ sent' \in Seq(Frame) /\ SentBelow' /\ FINIsLast'
    BY <1>0, <1>2, EmitLostKeepsOrder DEF SendSYNFails
  <2> QED BY <1>0, <1>2, <2>1 DEF SendSYNFails, Inv, SentType, UploadInRelay, NoWrap
<1>3. CASE WaitBoth
  BY <1>0, <1>3 DEF WaitBoth, upVars, Inv, SentType, UploadInRelay, NoWrap, SentBelow, FINIsLast
<1>4. CASE SendFIN
  <2>1. txSeq' = txSeq + 1 /\ sent' \in Seq(Frame) /\ SentBelow' /\ FINIsLast'
    BY <1>0, <1>4, EmitKeepsOrder, EmitLostKeepsOrder DEF SendFIN
  <2> QED BY <1>0, <1>4, <2>1 DEF SendFIN, Inv, SentType, UploadInRelay, NoWrap
<1>5. CASE Refuse \/ RegisterConn \/ UnregisterConn \/ CloseChannel
  BY <1>0, <1>5 DEF Refuse, RegisterConn, UnregisterConn, CloseChannel, upVars, Inv, SentType, UploadInRelay, NoWrap,
                    SentBelow, FINIsLast
<1>6. CASE UpCheck \/ UpEnds \/ UpNoInstance
  BY <1>0, <1>6 DEF UpCheck, UpEnds, UpNoInstance, Inv, SentType, UploadInRelay, NoWrap,
                    SentBelow, FINIsLast
<1>7. CASE UpChunk
  <2>1. handler = "relay" /\ handler' = "relay"
    BY <1>7 DEF UpChunk, Inv, UploadInRelay
  <2>2. txSeq' = txSeq + 1 /\ sent' \in Seq(Frame) /\ SentBelow' /\ FINIsLast'
    BY <1>0, <1>7, <2>1, EmitKeepsOrder, EmitLostKeepsOrder DEF UpChunk
  <2> QED BY <1>0, <1>7, <2>1, <2>2 DEF UpChunk, Inv, SentType, UploadInRelay, NoWrap
<1>8. ASSUME UNCHANGED <<handler, upVars>> PROVE Inv'
  BY <1>8 DEF upVars, Inv, SentType, UploadInRelay, NoWrap, SentBelow, FINIsLast
<1>9. CASE Watch \/ DownStep \/ WriteReturns \/ WriteFails \/ ClientEOF \/ RemoteData \/ RemoteClose("FIN") \/ RemoteClose("RST")
              \/ GapElapses \/ GoesIdle \/ UNCHANGED vars
              \/ \E n \in Tunnels : LoopRead(n) \/ LoopSend(n)
  <2>1. UNCHANGED <<handler, upVars>>
    BY <1>9 DEF Watch, DownStep, DownCancelled, DownTick, DownData, DownFIN, WriteWakes,
                WriteReturns, WriteFails, ClientEOF, RemoteData, RemoteClose, GapElapses, GoesIdle, LoopRead, LoopSend, vars, upVars
  <2> QED BY <1>8, <2>1
<1> QED BY <1>1, <1>2, <1>3, <1>4, <1>5, <1>6, <1>7, <1>9 DEF NextStep, HandlerStep

\* The inductive invariant holds in every reachable state.
THEOREM Invariance == Spec => []Inv
<1> QED BY InitInv, StepInv, PTL DEF Spec

\* The frames of a connection carry increasing numbers in the order they are
\* sent, by whichever goroutine, and none is sent after the FIN.
THEOREM NothingAfterFIN == Spec => []FINIsLast
<1>1. Inv => FINIsLast
  BY DEF Inv
<1> QED BY Invariance, <1>1, PTL

-----------------------------------------------------------------------------
(* The reverse direction: what the client is written.                      *)

\* The central server has used the numbers below remote.seq, and every data
\* frame on its way to the client carries one of them.
SentFrame == {f \in Frame : f.flag = "DATA" => f.seq < remote.seq}

ReverseSent ==
    /\ remote \in [seq : SeqNum, closed : BOOLEAN] /\ remote.seq <= MaxReverse
    /\ incoming \in Seq(SentFrame) /\ Len(incoming) <= BufCap
    /\ loop \in [Tunnels -> SentFrame \cup {NoFrame}]
    /\ inbox \in [Tunnels -> Seq(SentFrame)]

\* So does everything buffered, at or above nextSeq.
Buffered ==
    /\ reorderer \in ReordererType /\ SaneReorderer(reorderer)
    /\ \A b \in reorderer.buffer : b < remote.seq

\* What was written lies below nextSeq, in increasing order.
OutInOrder ==
    /\ out \in Seq(Nat)
    /\ \A i \in 1 .. Len(out) : out[i] < reorderer.nextSeq /\ out[i] < remote.seq
    /\ \A i, j \in 1 .. Len(out) : i < j => out[i] < out[j]

\* The chunk in client.Write comes after what was written, and has left the
\* reorderer; there is one only while the relays run.
Pending ==
    /\ writing \in SeqNum \cup {NoData}
    /\ writing # NoData <=> download \in Loops
    /\ writing # NoData => /\ writing < reorderer.nextSeq /\ writing < remote.seq
                           /\ \A i \in 1 .. Len(out) : out[i] < writing
    /\ handler \in {"start", "syn"} => download = "none"

\* The types that remain, to make up TypeOK.
FlagTypes ==
    /\ download \in {"none", "select", "done"} \cup Loops
    /\ ctxDone \in BOOLEAN /\ client \in {"open", "eof", "closed"}
    /\ registered \in BOOLEAN /\ chClosed \in BOOLEAN
    /\ idle \in BOOLEAN /\ panicked \in BOOLEAN

\* The inductive invariant of the reverse direction.
StreamInv == FlagTypes /\ ReverseSent /\ Buffered /\ OutInOrder /\ Pending

LEMMA ReverseNumbers ==
    ASSUME StreamInv
    PROVE  /\ remote.seq \in Nat /\ remote.seq <= MaxReverse /\ MaxReverse \in Nat
           /\ MaxReverse + 1 < SeqSpace /\ SeqSpace \in Nat
           /\ reorderer \in ReordererType /\ reorderer.nextSeq \in Nat
<1>1. remote.seq \in SeqNum /\ reorderer \in ReordererType
  BY DEF StreamInv, ReverseSent, Buffered
<1>2. reorderer.nextSeq \in SeqNum
  BY <1>1 DEF ReordererType
<1> QED BY <1>1, <1>2, PacketSplitAssumption, Bounds DEF StreamInv, ReverseSent

LEMMA StreamInit == Init => StreamInv /\ Stream!Init
<1> SUFFICES ASSUME Init PROVE StreamInv /\ Stream!Init
  OBVIOUS
<1> USE PacketSplitAssumption, SeqSpaceAssumption DEF Init
<1>1. FlagTypes
  BY DEF FlagTypes
<1>2. ReverseSent
  <2>1. remote \in [seq : SeqNum, closed : BOOLEAN] /\ remote.seq = 0
    BY DEF SeqNum
  <2>2. incoming \in Seq(SentFrame) /\ Len(incoming) = 0
    OBVIOUS
  <2> QED BY <2>1, <2>2 DEF ReverseSent
<1>3. reorderer \in ReordererType /\ reorderer.buffer = {}
  BY DEF NewReordererAt, ReordererType, SeqNum, Timer
<1>4. Buffered
  BY <1>3 DEF Buffered, SaneReorderer
<1>5. OutInOrder
  BY DEF OutInOrder
<1>6. Pending
  BY DEF Pending, Loops, NoData
<1>7. Stream!Init
  BY DEF Stream!Init
<1> QED BY <1>1, <1>2, <1>4, <1>5, <1>6, <1>7 DEF StreamInv

\* What one call of Next() does to a reorderer whose numbers cannot wrap.
LEMMA NextFacts ==
    ASSUME NEW r \in ReordererType, SaneReorderer(r)
    PROVE  /\ Next(r) \in ReordererType /\ SaneReorderer(Next(r))
           /\ Next(r).buffer \subseteq r.buffer
           /\ Data(r) = NoData => Next(r).nextSeq = r.nextSeq
           /\ Data(r) # NoData => /\ Data(r) \in r.buffer /\ Data(r) >= r.nextSeq
                                  /\ Next(r).nextSeq = Data(r) + 1
<1>1. /\ r.nextSeq \in SeqNum /\ r.buffer \subseteq FrameSeq /\ \A b \in r.buffer : b >= r.nextSeq
      /\ r = [nextSeq |-> r.nextSeq, buffer |-> r.buffer, waitingSince |-> r.waitingSince]
      /\ r.waitingSince \in Timer
  BY DEF ReordererType, SaneReorderer
\* Taking the least number, m, out.
<1>2. ASSUME NEW y \in ReordererType, NEW m \in r.buffer, y.nextSeq = m, y.buffer = r.buffer,
             \A b \in r.buffer : b >= m
      PROVE  /\ Take(y) \in ReordererType /\ SaneReorderer(Take(y)) /\ Take(y).nextSeq = m + 1
             /\ Take(y).buffer \subseteq r.buffer
  <2>1. m \in Nat /\ m + 1 \in SeqNum /\ SeqSpace \in Nat /\ m < SeqSpace - 1
    BY <1>1, Bounds DEF FrameSeq, SeqNum
  <2>2. (m + 1) % SeqSpace = m + 1
    BY <2>1, NextSmall
  <2>3. Take(y) = [nextSeq |-> m + 1, buffer |-> r.buffer \ {m}, waitingSince |-> "zero"]
    BY <1>2, <2>2 DEF Take
  <2>4. Take(y) \in ReordererType
    BY <2>1, <2>3, <1>1, Bounds DEF ReordererType, Timer
  <2>5. \A b \in r.buffer \ {m} : b >= m + 1
    <3>1. \A b \in r.buffer : b \in Nat
      BY <1>1, Bounds
    <3> QED BY <1>2, <2>1, <3>1
  <2> QED BY <1>1, <2>3, <2>4, <2>5 DEF SaneReorderer
<1>3. CASE Ready(r)
  <2>1. Data(r) = r.nextSeq /\ Next(r) = Take(r) /\ r.nextSeq \in r.buffer
    BY <1>3 DEF GapExpired, Data, Next, Ready
  <2> QED BY <1>1, <1>2, <2>1, Bounds DEF NoData
<1>4. CASE GapExpired(r)
  <2>1. /\ Skipped(r).nextSeq \in r.buffer /\ Skipped(r).nextSeq > r.nextSeq
        /\ \A b \in r.buffer : b >= Skipped(r).nextSeq
    <3>1. r.buffer # {} /\ r.nextSeq \notin r.buffer
      BY <1>4 DEF GapExpired, Ready
    <3>2. Skipped(r).nextSeq \in r.buffer /\ Skipped(r).nextSeq > r.nextSeq
      BY <3>1, SkipSpec
    <3>3. \A b \in r.buffer : b >= DrainFrom(r)
      BY <1>4, DrainRange
    <3>4. DrainFrom(r) = Skipped(r).nextSeq
      BY <1>4 DEF DrainFrom, GapExpired
    <3> QED BY <3>2, <3>3, <3>4
  <2>2. Skipped(r) \in ReordererType /\ Skipped(r).buffer = r.buffer
    <3> DEFINE m == CHOOSE z \in r.buffer : IsLowest(r, z)
    <3>1. skipToLowest(r) = [r EXCEPT !.nextSeq = m] \/ skipToLowest(r) = r
      BY DEF skipToLowest
    <3>2. Skipped(r).buffer = r.buffer /\ DOMAIN Skipped(r) = DOMAIN r
          /\ Skipped(r) = [nextSeq |-> Skipped(r).nextSeq, buffer |-> r.buffer,
                           waitingSince |-> "zero"]
      <4> HIDE DEF m
      <4> QED BY <1>1, <3>1 DEF Skipped
    <3>3. Skipped(r).nextSeq \in SeqNum
      BY <1>1, <2>1, Bounds
    <3> QED BY <1>1, <3>2, <3>3, Bounds DEF ReordererType, Timer
  <2>3. Ready(Skipped(r))
    BY <2>1, <2>2 DEF Ready
  <2>4. ~Ready(r)
    BY <1>4 DEF GapExpired
  <2>5. Data(r) = Skipped(r).nextSeq
    BY <1>4, <2>3, <2>4 DEF Data
  <2>6. Next(r) = Take(Skipped(r))
    <3>1. r.buffer # {} /\ r.waitingSince = "expired"
      BY <1>4 DEF GapExpired
    <3> QED BY <1>4, <2>3, <2>4, <3>1 DEF Next
  <2>7. Skipped(r).nextSeq \in Nat /\ r.nextSeq \in Nat
    BY <1>1, <2>1, Bounds
  <2> QED BY <1>2, <2>1, <2>2, <2>5, <2>6, <2>7 DEF NoData
<1>5. CASE ~Ready(r) /\ ~GapExpired(r)
  <2>1. Data(r) = NoData
    BY <1>5 DEF Data
  <2>2. \E t \in Timer : Next(r) = [r EXCEPT !.waitingSince = t]
    <3>1. CASE r.buffer = {}
      BY <1>5, <3>1 DEF Next, Timer
    <3>2. CASE r.buffer # {} /\ r.waitingSince = "zero"
      BY <1>5, <3>2 DEF Next, Timer
    <3>3. CASE r.buffer # {} /\ r.waitingSince = "recent"
      <4>1. Next(r) = r
        BY <1>5, <3>3 DEF Next
      <4> QED BY <1>1, <4>1
    <3>4. r.buffer # {} => r.waitingSince # "expired"
      BY <1>5 DEF GapExpired
    <3> QED BY <1>1, <3>1, <3>2, <3>3, <3>4 DEF Timer
  <2> QED BY <1>1, <2>1, <2>2 DEF ReordererType, SaneReorderer
<1> QED BY <1>3, <1>4, <1>5

\* A round of a drain loop of reorderer r, when everything written is below its
\* nextSeq.
LEMMA RoundKeeps ==
    ASSUME StreamInv, NEW r \in ReordererType, SaneReorderer(r), \A b \in r.buffer : b < remote.seq,
           NEW branch \in Loops, NextRound(branch, r),
           out' \in Seq(Nat),
           \A i \in 1 .. Len(out') : out'[i] < r.nextSeq /\ out'[i] < remote.seq,
           \A i, j \in 1 .. Len(out') : i < j => out'[i] < out'[j],
           download # "none", UNCHANGED <<remote, handler>>
    PROVE  Buffered' /\ OutInOrder' /\ Pending'
<1>1. /\ Next(r) \in ReordererType /\ SaneReorderer(Next(r)) /\ Next(r).buffer \subseteq r.buffer
      /\ Data(r) = NoData => Next(r).nextSeq = r.nextSeq
      /\ Data(r) # NoData => /\ Data(r) \in r.buffer /\ Data(r) >= r.nextSeq
                             /\ Next(r).nextSeq = Data(r) + 1
  BY NextFacts
<1>2. reorderer' = Next(r) /\ writing' = Data(r)
  BY DEF NextRound
<1> DEFINE d == Data(r)
           x == Next(r)
<1> HIDE DEF d, x
<1>3. Buffered'
  BY <1>1, <1>2 DEF Buffered, x
<1>4. /\ r.nextSeq \in Nat /\ remote.seq \in Nat /\ \A b \in r.buffer : b \in SeqNum /\ b \in Nat
  BY ReverseNumbers, Bounds DEF ReordererType
<1>5. \A i \in 1 .. Len(out') : out'[i] \in Nat
  OBVIOUS
<1>6. /\ d = NoData => x.nextSeq = r.nextSeq
      /\ d # NoData => /\ d \in SeqNum /\ d \in Nat /\ d < remote.seq /\ d >= r.nextSeq
                       /\ x.nextSeq = d + 1
  BY <1>1, <1>4 DEF d, x
<1>7. OutInOrder'
  <2>1. \A i \in 1 .. Len(out') : out'[i] < x.nextSeq
    BY <1>4, <1>5, <1>6
  <2> QED BY <1>2, <2>1 DEF OutInOrder, x
<1>8. /\ d # NoData => download' = branch
      /\ d = NoData => download' \in {"select", "done"}
  BY DEF NextRound, DownEnds, d
<1>9. handler \notin {"start", "syn"}
  BY DEF StreamInv, Pending
<1>10. d # NoData => /\ d < x.nextSeq /\ d < remote.seq
                     /\ \A i \in 1 .. Len(out') : out'[i] < d
  BY <1>4, <1>5, <1>6
<1>11. writing' = d /\ reorderer' = x
  BY <1>2 DEF d, x
<1>12. d \in SeqNum \cup {NoData} /\ (d # NoData <=> download' \in Loops)
  BY <1>6, <1>8 DEF Loops
<1>13. Pending'
  BY <1>9, <1>10, <1>11, <1>12 DEF Pending
<1> QED BY <1>3, <1>7, <1>13

\* Every step of the download goes on with the reorderer as it is, or with the
\* frame received, and delivers what Write has taken.
LEMMA DownDelivers ==
    ASSUME StreamInv, DownTick \/ DownData \/ DownFIN \/ WriteReturns \/ WriteFails
    PROVE  Buffered' /\ OutInOrder' /\ Pending' /\ (out' = out \/ Stream!Deliver)
<1>0. /\ reorderer \in ReordererType /\ SaneReorderer(reorderer) /\ out \in Seq(Nat)
      /\ \A b \in reorderer.buffer : b < remote.seq
      /\ \A i \in 1 .. Len(out) : out[i] < reorderer.nextSeq /\ out[i] < remote.seq
      /\ \A i, j \in 1 .. Len(out) : i < j => out[i] < out[j]
      /\ {"tick", "data", "fin"} = Loops
  BY DEF StreamInv, Buffered, OutInOrder, Loops
<1>1. UNCHANGED <<remote, handler>> /\ download # "none"
  BY DEF DownTick, DownData, DownFIN, ReceiveFrame, WriteReturns, WriteFails, poolVars, Loops
<1>2. CASE DownTick
  BY <1>0, <1>1, <1>2, RoundKeeps DEF DownTick
<1>3. CASE DownData
  <2> DEFINE q == Head(incoming).seq
             r == Insert(reorderer, q)
  <2>1. q \in SeqNum /\ q < remote.seq
    <3>1. Head(incoming) \in SentFrame
      BY <1>3, HeadTailProperties DEF DownData, ReceiveFrame, StreamInv, ReverseSent
    <3> QED BY <1>3, <3>1 DEF SentFrame, Frame, DownData, ReceiveFrame
  <2>2. q \in FrameSeq
    BY <2>1, ReverseNumbers DEF FrameSeq, SeqNum
  <2>3. NextRound("data", r) /\ UNCHANGED out
    BY <1>3 DEF DownData
  <2> HIDE DEF q
  <2>4. r \in ReordererType /\ SaneReorderer(r) /\ r.nextSeq = reorderer.nextSeq
        /\ r.buffer \subseteq reorderer.buffer \cup {q}
    BY <1>0, <2>2, InsertSpec
  <2> HIDE DEF r
  <2>5. \A b \in r.buffer : b < remote.seq
    BY <1>0, <2>1, <2>4
  <2> QED BY <1>0, <1>1, <2>3, <2>4, <2>5, RoundKeeps
<1>4. CASE DownFIN
  BY <1>0, <1>1, <1>4, RoundKeeps DEF DownFIN
<1>5. CASE WriteReturns
  <2>1. /\ writing \in SeqNum /\ writing \in Nat
        /\ writing < reorderer.nextSeq /\ writing < remote.seq
        /\ \A i \in 1 .. Len(out) : out[i] < writing
    BY <1>5, Bounds DEF WriteReturns, StreamInv, Pending
  <2>2. /\ out' \in Seq(Nat) /\ Len(out') = Len(out) + 1 /\ Len(out) \in Nat
        /\ \A i \in 1 .. Len(out) : out'[i] = out[i]
        /\ out'[Len(out) + 1] = writing
    BY <1>0, <1>5, <2>1 DEF WriteReturns
  <2>3. ASSUME NEW i \in 1 .. Len(out')
        PROVE  \/ i \in 1 .. Len(out) /\ out'[i] = out[i]
               \/ i = Len(out) + 1 /\ out'[i] = writing
    BY <2>2
  <2>4. \A i \in 1 .. Len(out') : out'[i] < reorderer.nextSeq /\ out'[i] < remote.seq
    BY <1>0, <2>1, <2>3
  <2>5. ASSUME NEW i \in 1 .. Len(out'), NEW j \in 1 .. Len(out'), i < j
        PROVE  out'[i] < out'[j]
    <3>1. i \in 1 .. Len(out) /\ out'[i] = out[i]
      BY <2>2, <2>5
    <3>2. CASE j \in 1 .. Len(out)
      BY <1>0, <2>2, <2>5, <3>1, <3>2
    <3>3. CASE j = Len(out) + 1
      BY <2>1, <2>2, <3>1, <3>3
    <3> QED BY <2>3, <3>2, <3>3
  <2>6. download \in Loops /\ NextRound(download, reorderer)
    BY <1>5 DEF WriteReturns
  <2>7. Buffered' /\ OutInOrder' /\ Pending'
    BY <1>0, <1>1, <2>2, <2>4, <2>5, <2>6, RoundKeeps
  <2>8. \A i \in 1 .. Len(out') : out'[i] \in 0 .. remote.seq - 1
    <3>1. \A i \in 1 .. Len(out') : out'[i] \in Nat
      BY <2>2
    <3> QED BY <2>4, <3>1, ReverseNumbers
  <2>9. Stream!Deliver
    BY <1>1, <2>2, <2>5, <2>8 DEF Stream!Deliver
  <2> QED BY <2>7, <2>9
<1>6. CASE WriteFails
  <2>1. UNCHANGED out
    BY <1>6 DEF WriteFails
  <2>2. CASE download = "fin" /\ NextRound("fin", reorderer)
    BY <1>0, <1>1, <2>1, <2>2, RoundKeeps
  <2>3. CASE DownEnds /\ writing' = NoData /\ UNCHANGED reorderer
    <3>1. Buffered' /\ OutInOrder'
      BY <1>1, <2>1, <2>3 DEF StreamInv, Buffered, OutInOrder
    <3>2. handler \notin {"start", "syn"}
      BY <1>1 DEF StreamInv, Pending
    <3>3. Pending'
      BY <1>1, <2>3, <3>2 DEF Pending, DownEnds, Loops
    <3> QED BY <2>1, <3>1, <3>3
  <2> QED BY <1>6, <2>2, <2>3 DEF WriteFails
<1> QED BY <1>2, <1>3, <1>4, <1>5, <1>6

\* All other steps write nothing and leave the buffer alone.
LEMMA NotDrained ==
    ASSUME StreamInv, UNCHANGED <<out, writing>>, remote.seq' \in Nat, remote.seq' >= remote.seq,
           reorderer' \in {reorderer, [reorderer EXCEPT !.waitingSince = "expired"]},
           \/ UNCHANGED download /\ (handler' \in {"start", "syn"} => handler \in {"start", "syn"})
           \/ download \in {"none", "select"} /\ download' \in {"select", "done"}
              /\ handler' \notin {"start", "syn"}
    PROVE  Buffered' /\ OutInOrder' /\ Pending'
<1>1. /\ reorderer' \in ReordererType
      /\ reorderer'.nextSeq = reorderer.nextSeq /\ reorderer'.buffer = reorderer.buffer
  BY ReverseNumbers DEF ReordererType, Timer
<1>2. \A b \in reorderer.buffer : b \in Nat
  BY ReverseNumbers, Bounds DEF ReordererType
<1>3. Buffered'
  BY <1>1, <1>2, ReverseNumbers DEF StreamInv, Buffered, SaneReorderer
<1>4. \A i \in 1 .. Len(out) : out[i] \in Nat
  BY DEF StreamInv, OutInOrder
<1>5. OutInOrder'
  BY <1>1, <1>4, ReverseNumbers DEF StreamInv, OutInOrder
<1>6. Pending
  BY DEF StreamInv
<1>7. writing # NoData => writing \in Nat
  BY <1>6, Bounds DEF Pending
<1>8. download' \in Loops <=> download \in Loops
  BY DEF Loops
<1>9. handler' \in {"start", "syn"} => download' = "none"
  BY <1>6 DEF Pending
<1>10. writing # NoData => writing < reorderer'.nextSeq /\ writing < remote.seq'
  BY <1>1, <1>6, <1>7, ReverseNumbers DEF Pending
<1>11. Pending'
  BY <1>6, <1>8, <1>9, <1>10 DEF Pending
<1> QED BY <1>3, <1>5, <1>11

\* Sequences over a set are sequences over a larger one.
LEMMA SeqMonotone ==
    ASSUME NEW A, NEW B, A \subseteq B, NEW q \in Seq(A) PROVE q \in Seq(B)
<1>1. Len(q) \in Nat /\ \A i \in 1 .. Len(q) : q[i] \in B
  OBVIOUS
<1>2. q = [i \in 1 .. Len(q) |-> q[i]]
  OBVIOUS
<1> QED BY <1>1, <1>2

\* A frame enters or leaves a queue, or the central server sends one more.
LEMMA QueueStep ==
    ASSUME StreamInv, [NextStep]_vars
    PROVE  ReverseSent' /\ remote.seq' \in {remote.seq, remote.seq + 1}
<1> USE PacketSplitAssumption
<1>0. /\ remote \in [seq : SeqNum, closed : BOOLEAN] /\ remote.seq <= MaxReverse
      /\ incoming \in Seq(SentFrame) /\ Len(incoming) <= BufCap
      /\ loop \in [Tunnels -> SentFrame \cup {NoFrame}]
      /\ inbox \in [Tunnels -> Seq(SentFrame)]
  BY DEF StreamInv, ReverseSent
<1>1. UNCHANGED remote => SentFrame' = SentFrame
  BY DEF SentFrame
<1>2. CASE UNCHANGED <<incoming, loop, inbox, remote>>
  BY <1>0, <1>1, <1>2 DEF ReverseSent
<1>3. CASE DownData \/ DownFIN
  <2>1. incoming # << >> /\ incoming' = Tail(incoming) /\ UNCHANGED <<loop, inbox, remote>>
    BY <1>3 DEF DownData, DownFIN, ReceiveFrame, poolVars
  <2>2. incoming' \in Seq(SentFrame) /\ Len(incoming') = Len(incoming) - 1 /\ Len(incoming) \in Nat
    BY <1>0, <2>1, HeadTailProperties
  <2>3. Len(incoming') <= BufCap
    BY <1>0, <2>2
  <2> QED BY <1>0, <1>1, <2>1, <2>2, <2>3 DEF ReverseSent
<1>4. ASSUME NEW n \in Tunnels, LoopRead(n) PROVE ReverseSent' /\ UNCHANGED remote
  <2>1. inbox[n] \in Seq(SentFrame) /\ inbox[n] # << >> /\ UNCHANGED <<incoming, remote>>
    BY <1>0, <1>4 DEF LoopRead, chanVars
  <2>2. Tail(inbox[n]) \in Seq(SentFrame) /\ Head(inbox[n]) \in SentFrame
    BY <2>1, HeadTailProperties
  <2>3. inbox' \in [Tunnels -> Seq(SentFrame)]
    BY <1>0, <1>4, <2>2 DEF LoopRead
  <2>4. loop' \in [Tunnels -> SentFrame \cup {NoFrame}]
    BY <1>0, <1>4, <2>2 DEF LoopRead
  <2> QED BY <1>0, <1>1, <2>1, <2>3, <2>4 DEF ReverseSent
<1>5. ASSUME NEW n \in Tunnels, LoopSend(n) PROVE ReverseSent' /\ UNCHANGED remote
  <2>1. loop[n] \in SentFrame /\ UNCHANGED <<inbox, remote>>
    BY <1>0, <1>5 DEF LoopSend
  <2>2. loop' \in [Tunnels -> SentFrame \cup {NoFrame}]
    BY <1>0, <1>5 DEF LoopSend
  <2>3. incoming' \in Seq(SentFrame) /\ Len(incoming') <= BufCap
    <3>1. CASE incoming' = incoming
      BY <1>0, <3>1
    <3>2. CASE incoming' = Append(incoming, loop[n]) /\ ~(Len(incoming) >= BufCap)
      <4>1. incoming' \in Seq(SentFrame) /\ Len(incoming') = Len(incoming) + 1 /\ Len(incoming) \in Nat
        BY <1>0, <2>1, <3>2
      <4> QED BY <3>2, <4>1
    <3> QED BY <1>5, <3>1, <3>2 DEF LoopSend
  <2> QED BY <1>0, <1>1, <2>1, <2>2, <2>3 DEF ReverseSent
<1>6. ASSUME remote' \in [seq : SeqNum, closed : BOOLEAN], remote.seq' <= MaxReverse,
             remote.seq' \in {remote.seq, remote.seq + 1}, NEW f \in SentFrame',
             UNCHANGED inbox \/ \E n \in Tunnels : inbox' = [inbox EXCEPT ![n] = Append(@, f)],
             UNCHANGED <<incoming, loop>>
      PROVE  ReverseSent'
  <2>1. SentFrame \subseteq SentFrame'
    <3>1. remote.seq \in Nat /\ remote.seq' \in Nat /\ \A g \in Frame : g.seq \in Nat
      BY <1>0, <1>6, Bounds DEF Frame
    <3> QED BY <1>6, <3>1 DEF SentFrame
  <2>2. incoming \in Seq(SentFrame') /\ inbox \in [Tunnels -> Seq(SentFrame')]
    <3>1. \A n \in Tunnels : inbox[n] \in Seq(SentFrame')
      BY <1>0, <2>1, SeqMonotone
    <3>2. incoming \in Seq(SentFrame')
      BY <1>0, <2>1, SeqMonotone
    <3> QED BY <1>0, <3>1, <3>2
  <2>3. loop' \in [Tunnels -> SentFrame' \cup {NoFrame}]
    BY <1>0, <1>6, <2>1
  <2>4. inbox' \in [Tunnels -> Seq(SentFrame')]
    <3>1. CASE UNCHANGED inbox
      BY <2>2, <3>1
    <3>2. CASE \E n \in Tunnels : inbox' = [inbox EXCEPT ![n] = Append(@, f)]
      <4>1. PICK n \in Tunnels : inbox' = [inbox EXCEPT ![n] = Append(@, f)]
        BY <3>2
      <4>2. Append(inbox[n], f) \in Seq(SentFrame')
        BY <1>6, <2>2
      <4> QED BY <2>2, <4>1, <4>2
    <3> QED BY <1>6, <3>1, <3>2
  <2> QED BY <1>0, <1>6, <2>2, <2>3, <2>4 DEF ReverseSent
<1>7. CASE RemoteData
  <2> DEFINE f == [flag |-> "DATA", seq |-> remote.seq]
  <2>1. remote.seq < MaxReverse /\ remote' = [remote EXCEPT !.seq = @ + 1]
    BY <1>7 DEF RemoteData
  <2>2. remote.seq + 1 \in SeqNum /\ remote.seq \in Nat
    BY <2>1, ReverseNumbers DEF SeqNum
  <2>3. /\ remote' \in [seq : SeqNum, closed : BOOLEAN]
        /\ remote.seq' = remote.seq + 1
    BY <1>0, <2>1, <2>2
  <2>4. remote.seq' <= MaxReverse
    BY <2>1, <2>2, <2>3
  <2>5. f \in SentFrame'
    <3>1. f \in Frame /\ f.seq = remote.seq
      BY <1>0 DEF Frame, Flags
    <3> QED BY <2>2, <2>3, <3>1 DEF SentFrame
  <2>6. /\ UNCHANGED inbox \/ \E n \in Tunnels : inbox' = [inbox EXCEPT ![n] = Append(@, f)]
        /\ UNCHANGED <<incoming, loop>>
    BY <1>7 DEF RemoteData, chanVars
  <2> HIDE DEF f
  <2> QED BY <1>6, <2>3, <2>4, <2>5, <2>6
<1>8. ASSUME NEW flag \in {"FIN", "RST"}, RemoteClose(flag)
      PROVE  ReverseSent' /\ remote.seq' = remote.seq
  <2> DEFINE f == [flag |-> flag, seq |-> 0]
  <2>1. remote' \in [seq : SeqNum, closed : BOOLEAN] /\ remote.seq' = remote.seq
    BY <1>0, <1>8 DEF RemoteClose
  <2>2. f \in SentFrame'
    <3>1. 0 \in SeqNum
      BY Bounds DEF SeqNum
    <3> QED BY <3>1 DEF SentFrame, Frame, Flags
  <2>3. /\ \E n \in Tunnels : inbox' = [inbox EXCEPT ![n] = Append(@, f)]
        /\ UNCHANGED <<incoming, loop>>
    BY <1>8 DEF RemoteClose, chanVars
  <2> HIDE DEF f
  <2> QED BY <1>0, <1>6, <2>1, <2>2, <2>3
<1>9. CASE HandlerStep \/ Watch \/ UpCheck \/ UpChunk \/ UpEnds \/ UpNoInstance
           \/ DownCancelled \/ DownTick \/ WriteReturns \/ WriteFails
           \/ ClientEOF \/ GapElapses \/ GoesIdle \/ UNCHANGED vars
  <2>1. UNCHANGED <<incoming, loop, inbox, remote>>
    BY <1>9 DEF HandlerStep, Refuse, RegisterConn, SendSYN, SendSYNFails, WaitBoth, SendFIN,
         UnregisterConn, CloseChannel, Watch, UpCheck, UpChunk, UpEnds, UpNoInstance,
         DownCancelled, DownTick, WriteReturns, WriteFails, ClientEOF,
         GapElapses, GoesIdle, vars, chanVars, poolVars
  <2> QED BY <1>2, <2>1
<1> QED BY <1>2, <1>3, <1>4, <1>5, <1>7, <1>8, <1>9 DEF NextStep, DownStep, WriteWakes

LEMMA FlagStep == ASSUME StreamInv, [NextStep]_vars PROVE FlagTypes'
<1>0. FlagTypes
  BY DEF StreamInv
<1> USE DEF FlagTypes
<1>1. CASE Refuse \/ RegisterConn \/ SendSYN \/ SendSYNFails \/ WaitBoth \/ SendFIN
           \/ UnregisterConn \/ CloseChannel
  BY <1>0, <1>1 DEF Refuse, RegisterConn, SendSYN, SendSYNFails, WaitBoth, SendFIN, UnregisterConn, CloseChannel,
                    downVars, chanVars, poolVars
<1>2. CASE Watch \/ UpCheck \/ UpChunk \/ UpEnds \/ UpNoInstance \/ ClientEOF
  BY <1>0, <1>2 DEF Watch, UpCheck, UpChunk, UpEnds, UpNoInstance, ClientEOF,
                    downVars, chanVars, poolVars
<1>3. ASSUME NEW branch \in Loops, NEW r, NextRound(branch, r)
      PROVE  download' \in {"none", "select", "done"} \cup Loops /\ ctxDone' \in BOOLEAN
  BY <1>0, <1>3 DEF NextRound, DownEnds
<1>4. CASE DownCancelled \/ DownTick \/ DownData \/ DownFIN \/ WriteReturns \/ WriteFails
  <2>1. download' \in {"none", "select", "done"} \cup Loops /\ ctxDone' \in BOOLEAN
    <3>1. {"tick", "data", "fin"} = Loops
      BY DEF Loops
    <3>2. CASE DownCancelled
      BY <3>2 DEF DownCancelled, DownEnds
    <3>3. CASE DownTick \/ DownData \/ DownFIN \/ WriteReturns
      BY <1>3, <3>1, <3>3 DEF DownTick, DownData, DownFIN, WriteReturns
    <3>4. CASE WriteFails
      BY <1>3, <3>1, <3>4 DEF WriteFails, DownEnds
    <3> QED BY <1>4, <3>2, <3>3, <3>4
  <2>2. UNCHANGED <<client, registered, chClosed, panicked>> /\ idle' \in BOOLEAN
    BY <1>0, <1>4 DEF DownCancelled, DownTick, DownData, DownFIN, ReceiveFrame, WriteReturns,
                      WriteFails, chanVars, poolVars
  <2> QED BY <1>0, <2>1, <2>2
<1>5. ASSUME NEW n \in Tunnels, LoopRead(n) \/ LoopSend(n) PROVE FlagTypes'
  <2>1. (panicked \/ chClosed) \in BOOLEAN
    OBVIOUS
  <2>2. panicked' \in BOOLEAN
    BY <1>0, <1>5, <2>1 DEF LoopRead, LoopSend
  <2> QED BY <1>0, <1>5, <2>2 DEF LoopRead, LoopSend, downVars, chanVars
<1>6. CASE RemoteData \/ RemoteClose("FIN") \/ RemoteClose("RST") \/ GapElapses \/ GoesIdle
           \/ UNCHANGED vars
  BY <1>0, <1>6 DEF RemoteData, RemoteClose, GapElapses, GoesIdle, vars, downVars, chanVars, poolVars
<1> QED BY <1>1, <1>2, <1>4, <1>5, <1>6 DEF NextStep, HandlerStep, DownStep, WriteWakes

\* Only the download writes to the client.
LEMMA OtherSteps ==
    ASSUME StreamInv, [NextStep]_vars,
           ~(DownTick \/ DownData \/ DownFIN \/ WriteReturns \/ WriteFails)
    PROVE  /\ UNCHANGED <<out, writing>>
           /\ reorderer' \in {reorderer, [reorderer EXCEPT !.waitingSince = "expired"]}
           /\ \/ UNCHANGED download /\ (handler' \in {"start", "syn"} => handler \in {"start", "syn"})
              \/ download \in {"none", "select"} /\ download' \in {"select", "done"}
                 /\ handler' \notin {"start", "syn"}
<1>0. handler \in {"start", "syn"} => download = "none"
  BY DEF StreamInv, Pending
<1>1. CASE HandlerStep
  BY <1>0, <1>1 DEF HandlerStep, Refuse, RegisterConn, SendSYN, SendSYNFails, WaitBoth, SendFIN,
              UnregisterConn, CloseChannel, downVars
<1>2. CASE Watch \/ UpCheck \/ UpChunk \/ UpEnds \/ UpNoInstance \/ ClientEOF
  BY <1>2 DEF Watch, UpCheck, UpChunk, UpEnds, UpNoInstance, ClientEOF, downVars
<1>3. CASE DownCancelled \/ GapElapses \/ GoesIdle \/ UNCHANGED vars
  BY <1>0, <1>3 DEF DownCancelled, DownEnds, GapElapses, GoesIdle, vars
<1>4. CASE RemoteData \/ RemoteClose("FIN") \/ RemoteClose("RST")
           \/ \E n \in Tunnels : LoopRead(n) \/ LoopSend(n)
  BY <1>4 DEF RemoteData, RemoteClose, LoopRead, LoopSend, downVars
<1> QED BY <1>1, <1>2, <1>3, <1>4 DEF NextStep, DownStep, WriteWakes

\* Every step keeps the invariant, and is a step of the abstract stream: a
\* chunk is sent, chunks are delivered, or nothing changes.
LEMMA StreamStep ==
    StreamInv /\ [NextStep]_vars =>
       StreamInv' /\ [Stream!Next]_<<0 .. remote.seq - 1, out>>
<1> SUFFICES ASSUME StreamInv, [NextStep]_vars
             PROVE  StreamInv' /\ [Stream!Next]_<<0 .. remote.seq - 1, out>>
  OBVIOUS
<1>1. FlagTypes' /\ ReverseSent' /\ remote.seq' \in {remote.seq, remote.seq + 1}
  BY FlagStep, QueueStep
<1>2. CASE DownTick \/ DownData \/ DownFIN \/ WriteReturns \/ WriteFails
  <2>1. Buffered' /\ OutInOrder' /\ Pending' /\ (out' = out \/ Stream!Deliver)
    BY <1>2, DownDelivers
  <2>2. UNCHANGED remote
    BY <1>2 DEF DownTick, DownData, DownFIN, WriteReturns, WriteFails, poolVars
  <2> QED BY <1>1, <2>1, <2>2 DEF StreamInv, Stream!Next
<1>3. CASE ~(DownTick \/ DownData \/ DownFIN \/ WriteReturns \/ WriteFails)
  <2>1. UNCHANGED out /\ Buffered' /\ OutInOrder' /\ Pending'
    <3>1. remote.seq' \in Nat /\ remote.seq' >= remote.seq
      BY <1>1, ReverseNumbers
    <3> QED BY <1>3, <3>1, OtherSteps, NotDrained
  <2>2. CASE remote.seq' = remote.seq
    BY <1>1, <2>1, <2>2 DEF StreamInv
  <2>3. CASE remote.seq' = remote.seq + 1
    <3>1. (0 .. remote.seq - 1)' = (0 .. remote.seq - 1) \cup {remote.seq}
      BY <2>3, ReverseNumbers
    <3>2. remote.seq \in SeqNum
      BY DEF StreamInv, ReverseSent
    <3>3. Stream!Send
      BY <2>1, <3>1, <3>2 DEF Stream!Send
    <3> QED BY <1>1, <2>1, <3>3 DEF StreamInv, Stream!Next
  <2> QED BY <1>1, <2>2, <2>3
<1> QED BY <1>2, <1>3

\* The inductive invariant of the reverse direction holds in every reachable state.
THEOREM StreamInvariance == Spec => []StreamInv
<1>1. Init => StreamInv
  BY StreamInit
<1>2. StreamInv /\ [NextStep]_vars => StreamInv'
  BY StreamStep
<1> QED BY <1>1, <1>2, PTL DEF Spec

\* Whatever the tunnels reorder, lose or drop at a full channel, and whenever
\* the client or the server closes, the client is written a stream with holes:
\* reverse chunks that were sent, in sequence order, each at most once.
THEOREM RefinesStream == Spec => ClientStream
<1>1. Init => Stream!Init
  BY StreamInit
<1>2. StreamInv /\ [NextStep]_vars => [Stream!Next]_<<0 .. remote.seq - 1, out>>
  BY StreamStep
<1> QED BY <1>1, <1>2, StreamInvariance, PTL DEF Spec, ClientStream, Stream!Spec

\* Types, and what the counters may hold: no number has wrapped, the incoming
\* channel stays within its capacity, and only numbers the central server has
\* used are written out.
THEOREM TypeCorrect == Spec => []TypeOK
<1>1. ASSUME Inv, StreamInv PROVE TypeOK
  <2> USE PacketSplitAssumption, SeqSpaceAssumption
  <2>1. /\ handler \in {"start", "syn", "relay", "fin", "unregister", "closeCh", "done"}
        /\ upload \in {"none", "check", "read", "done"}
        /\ sent \in Seq(Frame)
    BY <1>1 DEF Inv, SentType
  <2>2. txSeq \in SeqNum
    BY <1>1 DEF Inv, SentType, NoWrap, SeqNum
  <2>3. SentFrame \subseteq Frame
    BY DEF SentFrame
  <2>4. incoming \in Seq(Frame) /\ Len(incoming) <= BufCap
    BY <1>1, <2>3, SeqMonotone DEF StreamInv, ReverseSent
  <2>5. inbox \in [Tunnels -> Seq(Frame)]
    <3>1. inbox \in [Tunnels -> Seq(SentFrame)]
      BY <1>1 DEF StreamInv, ReverseSent
    <3>2. \A n \in Tunnels : inbox[n] \in Seq(Frame)
      BY <2>3, <3>1, SeqMonotone
    <3> QED BY <3>1, <3>2
  <2>6. loop \in [Tunnels -> Frame \cup {NoFrame}]
    BY <1>1, <2>3 DEF StreamInv, ReverseSent
  <2>7. out \in Seq(0 .. MaxReverse - 1)
    <3>1. out \in Seq(Nat) /\ \A i \in 1 .. Len(out) : out[i] \in Nat /\ out[i] < remote.seq
      BY <1>1 DEF StreamInv, OutInOrder
    <3>2. \A i \in 1 .. Len(out) : out[i] \in 0 .. MaxReverse - 1
      BY <1>1, <3>1, ReverseNumbers
    <3> QED BY <3>1, <3>2
  <2>8. reorderer \in ReordererType /\ remote \in [seq : SeqNum, closed : BOOLEAN] /\ FlagTypes
        /\ writing \in SeqNum \cup {NoData} /\ (writing # NoData <=> download \in Loops)
    BY <1>1 DEF StreamInv, Buffered, ReverseSent, Pending
  <2> QED BY <2>1, <2>2, <2>4, <2>5, <2>6, <2>7, <2>8 DEF TypeOK, FlagTypes
<1> QED BY <1>1, Invariance, StreamInvariance, PTL

-----------------------------------------------------------------------------
(* Balancer: least_load and the number of handlers that call it.           *)

LEMMA BMin ==
    ASSUME NEW a \in Nat, NEW b \in Nat
    PROVE  Min({a, b}) \in Nat /\ Min({a, b}) <= a /\ Min({a, b}) <= b /\ (a <= b => Min({a, b}) = a)
<1>1. \E x \in {a, b} : \A y \in {a, b} : x <= y
  OBVIOUS
<1>2. Min({a, b}) \in {a, b} /\ \A y \in {a, b} : Min({a, b}) <= y
  BY <1>1 DEF Min
<1> QED BY <1>2

LEMMA ProperSubset ==
    ASSUME NEW S, IsFiniteSet(S), NEW T \in SUBSET S, T # S
    PROVE  Cardinality(T) + 1 <= Cardinality(S)
<1>1. IsFiniteSet(T) /\ Cardinality(T) <= Cardinality(S) /\ Cardinality(T) # Cardinality(S)
  BY FS_Subset
<1>2. Cardinality(S) \in Nat /\ Cardinality(T) \in Nat
  BY <1>1, FS_CardinalityType
<1> QED BY <1>1, <1>2

PickType ==
    [pc : {"idle", "count", "attempt", "nil"} \cup Strategies, list : Seq(Insts), k : Nat,
     best : 0 .. N, val : Nat, up : SUBSET Insts, still : BOOLEAN]

\* What holds of a call by itself: a caller of this scene makes it, it runs the
\* strategy of the scene on a list that is not empty, a scan has a best exactly
\* when it has begun, and what is to be counted is an instance.
PickOK(p, r) ==
    /\ r.pc # "idle" => p \in scene.pickers
    /\ r.pc \in Strategies => r.pc = scene.strategy /\ r.list # << >>
    /\ r.pc = "attempt" => scene.strategy = "weighted_rr" /\ r.list # << >>
    /\ r.pc = "count" => scene.strategy = "least_load" /\ r.best # 0 /\ r.val = 0
    /\ r.pc = "nil" => scene.strategy = "splitter"
    /\ r.pc \in {"least_load", "least_ping"} => r.k <= Len(r.list) /\ (r.k = 0 <=> r.best = 0)

Typed ==
    /\ scene \in Scenes
    /\ healthy \in [Insts -> BOOLEAN] /\ load \in [Insts -> 0 .. MaxLoad]
    /\ current \in 0 .. Period - 1 /\ counter \in Nat
    /\ wait \in [Insts -> Nat]
    /\ pick \in [Pickers -> PickType]
    /\ \A p \in Pickers : PickOK(p, pick[p])

LEMMA PickFields ==
    ASSUME NEW r \in PickType
    PROVE  /\ r.pc \in {"idle", "count", "attempt", "nil"} \cup Strategies
           /\ r.list \in Seq(Insts) /\ r.k \in Nat /\ r.best \in 0 .. N /\ r.val \in Nat
           /\ r.up \in SUBSET Insts /\ r.still \in BOOLEAN
BY DEF PickType

LEMMA NoPickFields ==
    ASSUME N \in Nat
    PROVE  /\ NoPick \in PickType /\ NoPick.pc = "idle" /\ NoPick.list = << >>
           /\ NoPick.k = 0 /\ NoPick.best = 0 /\ NoPick.val = 0
BY DEF PickType, NoPick

\* One call moves.
LEMMA PickMoves ==
    ASSUME Typed, NEW p \in Pickers, NEW r \in PickType, PickOK(p, r), UNCHANGED scene,
           pick' = [pick EXCEPT ![p] = r]
    PROVE  /\ (scene \in Scenes)'
           /\ (pick \in [Pickers -> PickType])'
           /\ (\A q \in Pickers : PickOK(q, pick[q]))'
<1>1. pick' \in [Pickers -> PickType] /\ \A q \in Pickers : pick'[q] = IF q = p THEN r ELSE pick[q]
  BY DEF Typed
<1>2. \A q \in Pickers : PickOK(q, pick'[q])
  BY <1>1 DEF Typed
<1>3. scene' = scene
  OBVIOUS
<1>4. ASSUME NEW q \in Pickers PROVE PickOK(q, pick[q])'
  BY <1>2, <1>3 DEF PickOK
<1> QED BY <1>1, <1>3, <1>4 DEF Typed, PickType

LEMMA ReturnsStep ==
    ASSUME BalancerAssumption, Typed, NEW p \in Pickers, NEW i, Returns(p, i),
           p \in scene.pickers, scene.strategy = "least_load" => i \in Insts
    PROVE  /\ wait' \in [Insts -> Nat]
           /\ \E r \in PickType : PickOK(p, r) /\ pick' = [pick EXCEPT ![p] = r]
           /\ scene.strategy = "least_load" =>
                 /\ pick'[p].pc = "count" /\ pick'[p].best = i /\ pick'[p].val = 0
           /\ \A q \in Pickers : q # p => pick'[q] = pick[q]
<1>0. N \in Nat /\ MaxWait \in Nat
  BY DEF BalancerAssumption
<1>1. wait' \in [Insts -> Nat]
  <2>1. \A j \in Insts : Min({wait[j] + 1, MaxWait}) \in Nat
    <3> SUFFICES ASSUME NEW j \in Insts PROVE Min({wait[j] + 1, MaxWait}) \in Nat
      OBVIOUS
    <3>1. wait[j] + 1 \in Nat
      BY DEF Typed
    <3> HIDE DEF Typed
    <3> QED BY <1>0, <3>1, BMin
  <2> QED BY <2>1 DEF Returns
<1>2. CASE scene.strategy = "least_load"
  <2> DEFINE r == [NoPick EXCEPT !.pc = "count", !.best = i]
  <2>1. r \in PickType /\ r.pc = "count" /\ r.best = i /\ r.val = 0
    <3>1. NoPick \in PickType /\ NoPick.val = 0
      BY <1>0, NoPickFields
    <3>2. i \in 0 .. N
      BY <1>0, <1>2 DEF Insts
    <3> QED BY <3>1, <3>2 DEF PickType
  <2>2. pick' = [pick EXCEPT ![p] = r]
    BY <1>2 DEF Returns
  <2> HIDE DEF r
  <2>3. i # 0
    BY <1>2, <1>0 DEF Insts
  <2>4. PickOK(p, r)
    BY <1>2, <2>1, <2>3 DEF PickOK, Strategies
  <2> QED BY <1>1, <1>2, <2>1, <2>2, <2>4 DEF Typed
<1>3. CASE scene.strategy # "least_load"
  <2>1. pick' = [pick EXCEPT ![p] = NoPick]
    BY <1>3 DEF Returns
  <2>2. PickOK(p, NoPick)
    BY <1>0, NoPickFields DEF PickOK, Strategies
  <2> QED BY <1>0, <1>1, <1>3, <2>1, <2>2, NoPickFields DEF Typed
<1> QED BY <1>2, <1>3

-----------------------------------------------------------------------------
\* The type part is preserved by every action.

LEMMA SettingFacts ==
    ASSUME BalancerAssumption, Typed
    PROVE  /\ scene.strategy \in Strategies /\ scene.flaps \in BOOLEAN
           /\ scene.pickers \subseteq Pickers /\ IsFiniteSet(scene.pickers)
           /\ N \in Nat /\ N > 0 /\ MaxLoad \in Nat /\ Period \in Nat /\ N <= Period
<1>1. /\ scene.strategy \in Strategies /\ scene.flaps \in BOOLEAN
      /\ scene.pickers \subseteq Pickers /\ IsFiniteSet(scene.pickers)
  BY DEF BalancerAssumption, Typed
<1>2. N \in Nat /\ N > 0 /\ MaxLoad \in Nat /\ Period \in Nat /\ N <= Period
  BY DEF BalancerAssumption
<1> QED BY <1>1, <1>2

LEMMA AllFacts ==
    ASSUME BalancerAssumption
    PROVE  All \in Seq(Insts) /\ Len(All) = N /\ All # << >> /\ ToSet(All) = Insts
<1>1. N \in Nat /\ N > 0
  BY DEF BalancerAssumption
<1>2. All \in [1 .. N -> Insts] /\ \A i \in 1 .. N : All[i] = i
  BY DEF All, Insts
<1>3. All \in Seq(Insts) /\ Len(All) = N
  BY <1>1, <1>2
<1>4. ToSet(All) = Insts
  BY <1>2 DEF ToSet, Insts
<1> HIDE DEF All
<1> QED BY <1>1, <1>3, <1>4

LEMMA InitTyped ==
    ASSUME BalancerAssumption, BalancerInit PROVE Typed
<1>1. scene \in Scenes /\ N \in Nat /\ N > 0 /\ MaxLoad \in Nat /\ Period \in Nat /\ N <= Period
  BY DEF BalancerAssumption, BalancerInit
<1>2. pick \in [Pickers -> PickType] /\ \A p \in Pickers : pick[p] = NoPick
  BY <1>1, NoPickFields DEF BalancerInit
<1>3. \A p \in Pickers : PickOK(p, pick[p])
  BY <1>1, <1>2, NoPickFields DEF PickOK, Strategies
<1>4. healthy \in [Insts -> BOOLEAN] /\ load \in [Insts -> 0 .. MaxLoad] /\ wait \in [Insts -> Nat]
  BY <1>1 DEF BalancerInit
<1>5. current \in 0 .. Period - 1 /\ counter \in Nat
  BY <1>1 DEF BalancerInit
<1> QED BY <1>1, <1>2, <1>3, <1>4, <1>5 DEF Typed

LEMMA FlapTyped ==
    ASSUME BalancerAssumption, Typed, NEW i \in Insts, Flap(i) PROVE Typed'
<1>1. /\ healthy' \in [Insts -> BOOLEAN] /\ wait' \in [Insts -> Nat]
      /\ UNCHANGED <<scene, load, current, counter>>
  BY DEF Typed, Flap
<1>2. ASSUME NEW p \in Pickers
      PROVE  /\ [pick[p] EXCEPT !.still = FALSE, !.up = @ \ {i}] \in PickType
             /\ PickOK(p, [pick[p] EXCEPT !.still = FALSE, !.up = @ \ {i}])
  <2> DEFINE r == [pick[p] EXCEPT !.still = FALSE, !.up = @ \ {i}]
  <2>1. pick[p] \in PickType /\ PickOK(p, pick[p])
    BY DEF Typed
  <2>2. /\ r \in PickType /\ r.pc = pick[p].pc /\ r.list = pick[p].list /\ r.k = pick[p].k
        /\ r.best = pick[p].best /\ r.val = pick[p].val
    BY <2>1 DEF PickType
  <2> HIDE DEF r
  <2>3. PickOK(p, r)
    BY <2>1, <2>2 DEF PickOK
  <2> QED BY <2>2, <2>3 DEF r
<1>3. pick' \in [Pickers -> PickType] /\ \A p \in Pickers : PickOK(p, pick'[p])
  BY <1>2 DEF Flap
<1>4. (\A p \in Pickers : PickOK(p, pick[p]))'
  BY <1>1, <1>3 DEF PickOK
<1> QED BY <1>1, <1>3, <1>4 DEF Typed, PickType

LEMMA BeginPick ==
    ASSUME BalancerAssumption, Typed, NEW p \in Pickers, Begin(p)
    PROVE  /\ \E r \in PickType : PickOK(p, r) /\ pick' = [pick EXCEPT ![p] = r]
           /\ pick'[p].pc = scene.strategy /\ pick'[p].best = 0 /\ pick'[p].k = 0
           /\ (\A i \in Insts : healthy[i]) => ToSet(pick'[p].list) = Insts
<1>1. PICK list : /\ list # << >>
                  /\ \/ list = All
                     \/ list = Filter(All, {i \in Insts : healthy[i]})
                  /\ pick' = [pick EXCEPT ![p] = [NoPick EXCEPT !.pc = scene.strategy, !.list = list,
                                                    !.up = {i \in Insts : healthy[i]}]]
  BY DEF Begin
<1>2. list \in Seq(Insts) /\ ((\A i \in Insts : healthy[i]) => ToSet(list) = Insts)
  <2> DEFINE S == {i \in Insts : healthy[i]}
  <2>1. Filter(All, S) \in Seq(Insts) /\ ToSet(Filter(All, S)) = ToSet(All) \cap S
    BY AllFacts, FilterFacts
  <2>2. (\A i \in Insts : healthy[i]) => S = Insts
    OBVIOUS
  <2> HIDE DEF S
  <2>3. list = All \/ list = Filter(All, S)
    BY <1>1 DEF S
  <2> QED BY <2>1, <2>2, <2>3, AllFacts
<1> DEFINE r == [NoPick EXCEPT !.pc = scene.strategy, !.list = list,
                                 !.up = {i \in Insts : healthy[i]}]
<1>3. /\ r \in PickType /\ r.pc = scene.strategy /\ r.list = list /\ r.k = 0 /\ r.best = 0
  <2>1. NoPick \in PickType /\ NoPick.k = 0 /\ NoPick.best = 0
    BY SettingFacts, NoPickFields
  <2>2. scene.strategy \in Strategies /\ {i \in Insts : healthy[i]} \in SUBSET Insts
    BY SettingFacts
  <2> QED BY <1>2, <2>1, <2>2 DEF PickType
<1>4. pick' = [pick EXCEPT ![p] = r]
  BY <1>1
<1> HIDE DEF r
<1>5. p \in scene.pickers /\ scene.strategy \in Strategies
  BY SettingFacts DEF Begin
<1>6. Len(list) \in Nat
  BY <1>2
<1>7. PickOK(p, r)
  BY <1>1, <1>3, <1>5, <1>6 DEF PickOK, Strategies
<1>8. pick'[p] = r
  BY <1>4 DEF Typed
<1> QED BY <1>2, <1>3, <1>4, <1>7, <1>8

LEMMA BeginTyped ==
    ASSUME BalancerAssumption, Typed, NEW p \in Pickers, Begin(p) PROVE Typed'
<1>1. PICK r \in PickType : PickOK(p, r) /\ pick' = [pick EXCEPT ![p] = r]
  BY BeginPick
<1>2. UNCHANGED <<scene, healthy, load, current, counter, wait, run>>
  BY DEF Begin
<1>3. /\ (scene \in Scenes)' /\ (pick \in [Pickers -> PickType])'
      /\ (\A q \in Pickers : PickOK(q, pick[q]))'
  BY <1>1, <1>2, PickMoves
<1> QED BY <1>2, <1>3 DEF Typed, PickType

LEMMA MovesTyped ==
    ASSUME Typed, NEW p \in Pickers, NEW r \in PickType, PickOK(p, r),
           pick' = [pick EXCEPT ![p] = r], UNCHANGED <<scene, healthy>>,
           load' \in [Insts -> 0 .. MaxLoad], current' \in 0 .. Period - 1, counter' \in Nat,
           wait' \in [Insts -> Nat]
    PROVE  Typed'
<1>1. /\ (scene \in Scenes)' /\ (pick \in [Pickers -> PickType])'
      /\ (\A q \in Pickers : PickOK(q, pick[q]))'
  BY PickMoves
<1> QED BY <1>1 DEF Typed, PickType

\* A call that returns, with what it leaves in the counters.
LEMMA ReturnsTyped ==
    ASSUME BalancerAssumption, Typed, NEW p \in Pickers, NEW i, Returns(p, i),
           p \in scene.pickers, scene.strategy = "least_load" => i \in Insts,
           UNCHANGED <<scene, healthy, load>>, current' \in 0 .. Period - 1, counter' \in Nat
    PROVE  Typed'
<1>1. wait' \in [Insts -> Nat]
  BY ReturnsStep
<1>2. PICK r \in PickType : PickOK(p, r) /\ pick' = [pick EXCEPT ![p] = r]
  BY ReturnsStep
<1>3. load' \in [Insts -> 0 .. MaxLoad]
  BY DEF Typed
<1> QED BY <1>1, <1>2, <1>3, MovesTyped

LEMMA RoundRobinTyped ==
    ASSUME BalancerAssumption, Typed, NEW p \in Pickers, RoundRobinPick(p) PROVE Typed'
<1>1. PICK i : Returns(p, i)
  BY DEF RoundRobinPick
<1>2. scene.strategy = "round_robin" /\ p \in scene.pickers
  BY DEF Typed, PickOK, RoundRobinPick, At, Strategies
<1>3. current' \in 0 .. Period - 1
  <2>1. current \in Nat /\ Period \in Nat /\ Period > 0
    BY SettingFacts DEF Typed
  <2> QED BY <2>1 DEF RoundRobinPick
<1>4. counter' \in Nat /\ UNCHANGED <<scene, healthy, load>>
  BY DEF Typed, RoundRobinPick
<1> QED BY <1>1, <1>2, <1>3, <1>4, ReturnsTyped

LEMMA RandomTyped ==
    ASSUME BalancerAssumption, Typed, NEW p \in Pickers, RandomPick(p) PROVE Typed'
<1>1. PICK i : Returns(p, i)
  BY DEF RandomPick
<1>2. scene.strategy = "random" /\ p \in scene.pickers
  BY DEF Typed, PickOK, RandomPick, At, Strategies
<1>3. current' \in 0 .. Period - 1 /\ counter' \in Nat /\ UNCHANGED <<scene, healthy, load>>
  BY DEF Typed, RandomPick
<1> QED BY <1>1, <1>2, <1>3, ReturnsTyped

\* A scan of the list either reads one more instance or returns the best.
LEMMA LeastCases ==
    ASSUME BalancerAssumption, Typed, NEW p \in Pickers,
           NEW s \in {"least_load", "least_ping"}, NEW val,
           \A i \in Insts : val[i] \in Nat, Least(p, s, val)
    PROVE  /\ scene.strategy = s /\ p \in scene.pickers /\ pick[p].pc = s
           /\ UNCHANGED <<scene, healthy, load, current, counter>>
           /\ \/ /\ pick[p].k = Len(pick[p].list) /\ pick[p].best \in Insts
                 /\ Returns(p, pick[p].best)
              \/ /\ pick[p].k < Len(pick[p].list) /\ UNCHANGED <<wait, run>>
                 /\ \E i \in Insts, r \in PickType :
                      /\ i = pick[p].list[pick[p].k + 1]
                      /\ PickOK(p, r) /\ pick' = [pick EXCEPT ![p] = r]
                      /\ r.pc = s /\ r.list = pick[p].list /\ r.k = pick[p].k + 1
                      /\ \/ r.best = i /\ r.val = val[i] /\ (pick[p].best = 0 \/ val[i] < pick[p].val)
                         \/ /\ r.best = pick[p].best /\ r.val = pick[p].val
                            /\ pick[p].best # 0 /\ pick[p].val <= val[i]
<1>1. pick[p] \in PickType /\ PickOK(p, pick[p]) /\ pick[p].pc = s
  BY DEF Typed, Least, At
<1>2. scene.strategy = s /\ p \in scene.pickers
  BY <1>1 DEF PickOK, Strategies
<1>3. /\ pick[p].list \in Seq(Insts) /\ Len(pick[p].list) \in Nat /\ pick[p].list # << >>
      /\ pick[p].k \in Nat /\ pick[p].best \in 0 .. N /\ pick[p].val \in Nat /\ N \in Nat
  BY <1>1, SettingFacts, PickFields DEF PickOK, Strategies
<1>4. pick[p].k <= Len(pick[p].list) /\ (pick[p].k = 0 <=> pick[p].best = 0)
  BY <1>1 DEF PickOK
<1>5. UNCHANGED <<scene, healthy, load, current, counter>>
  BY DEF Least
<1>6. CASE pick[p].k + 1 > Len(pick[p].list)
  <2>1. Returns(p, pick[p].best)
    BY <1>6 DEF Least
  <2>2. Len(pick[p].list) > 0
    BY <1>3
  <2>3. pick[p].k = Len(pick[p].list) /\ pick[p].best \in Insts
    BY <1>3, <1>4, <1>6, <2>2 DEF Insts
  <2> QED BY <1>1, <1>2, <1>5, <2>1, <2>3
<1>7. CASE ~ (pick[p].k + 1 > Len(pick[p].list))
  <2> DEFINE i == pick[p].list[pick[p].k + 1]
             less == pick[p].best = 0 \/ val[i] < pick[p].val
             b == IF less THEN i ELSE pick[p].best
             v == IF less THEN val[i] ELSE pick[p].val
             r == [pick[p] EXCEPT !.k = pick[p].k + 1, !.best = b, !.val = v]
  <2>1. pick[p].k < Len(pick[p].list) /\ pick[p].k + 1 \in 1 .. Len(pick[p].list)
    BY <1>3, <1>7
  <2>2. i \in Insts /\ val[i] \in Nat
    BY <1>3, <2>1
  <2>3. UNCHANGED <<wait, run>>
    BY <1>7 DEF Least
  <2>4. pick' = [pick EXCEPT ![p].k = pick[p].k + 1, ![p].best = b, ![p].val = v]
    BY <1>7 DEF Least
  <2>5. pick' = [pick EXCEPT ![p] = r]
    <3> HIDE DEF b, v
    <3> QED BY <1>1, <2>4 DEF Typed, PickType
  <2>6. b \in Insts /\ b \in 0 .. N /\ b # 0 /\ v \in Nat
    <3>1. b \in 1 .. N /\ v \in Nat
      BY <1>3, <2>2 DEF Insts
    <3> HIDE DEF b, v
    <3> QED BY <1>3, <3>1 DEF Insts
  <2>7. \/ b = i /\ v = val[i] /\ (pick[p].best = 0 \/ val[i] < pick[p].val)
        \/ b = pick[p].best /\ v = pick[p].val /\ pick[p].best # 0 /\ pick[p].val <= val[i]
    BY <1>3, <2>2
  <2> HIDE DEF i, b, v
  <2>8. /\ r \in PickType /\ r.pc = s /\ r.list = pick[p].list /\ r.k = pick[p].k + 1
        /\ r.best = b /\ r.val = v
    <3>1. pick[p].k + 1 \in Nat
      BY <1>3
    <3> QED BY <1>1, <2>6, <3>1 DEF PickType
  <2> HIDE DEF r
  <2>9. PickOK(p, r)
    BY <1>1, <1>2, <1>3, <2>1, <2>6, <2>8 DEF PickOK, Strategies
  <2>10. i \in Insts /\ i = pick[p].list[pick[p].k + 1]
    BY <2>2 DEF i
  <2> QED BY <1>1, <1>2, <1>5, <2>1, <2>3, <2>5, <2>7, <2>8, <2>9, <2>10
<1> QED BY <1>6, <1>7

LEMMA LeastTyped ==
    ASSUME BalancerAssumption, Typed, NEW p \in Pickers,
           NEW s \in {"least_load", "least_ping"}, NEW val,
           \A i \in Insts : val[i] \in Nat, Least(p, s, val)
    PROVE  Typed'
<1>1. /\ UNCHANGED <<scene, healthy, load, current, counter>> /\ p \in scene.pickers
      /\ \/ pick[p].best \in Insts /\ Returns(p, pick[p].best)
         \/ /\ UNCHANGED <<wait, run>>
            /\ \E r \in PickType : PickOK(p, r) /\ pick' = [pick EXCEPT ![p] = r]
  BY LeastCases
<1>2. /\ current' \in 0 .. Period - 1 /\ counter' \in Nat /\ load' \in [Insts -> 0 .. MaxLoad]
      /\ wait \in [Insts -> Nat]
  BY <1>1 DEF Typed
<1>3. CASE pick[p].best \in Insts /\ Returns(p, pick[p].best)
  BY <1>1, <1>2, <1>3, ReturnsTyped
<1>4. CASE UNCHANGED wait /\ \E r \in PickType : PickOK(p, r) /\ pick' = [pick EXCEPT ![p] = r]
  BY <1>1, <1>2, <1>4, MovesTyped
<1> QED BY <1>1, <1>3, <1>4

LEMMA LeastLoadTyped ==
    ASSUME BalancerAssumption, Typed, NEW p \in Pickers, LeastLoadPick(p) PROVE Typed'
<1>1. \A i \in Insts : load[i] \in Nat
  BY SettingFacts DEF Typed
<1> QED BY <1>1, LeastTyped DEF LeastLoadPick

LEMMA LeastPingTyped ==
    ASSUME BalancerAssumption, Typed, NEW p \in Pickers, LeastPingPick(p) PROVE Typed'
<1> DEFINE val == [i \in Insts |-> IF scene.pings[i] <= 0 THEN Unknown ELSE scene.pings[i]]
<1>1. \A i \in Insts : scene.pings[i] \in 0 .. Unknown - 1
  BY DEF Typed, BalancerAssumption
<1>2. ASSUME NEW i \in Insts PROVE val[i] \in Nat
  <2>1. scene.pings[i] \in 0 .. Unknown - 1 /\ Unknown \in Nat
    BY <1>1 DEF Unknown
  <2>2. scene.pings[i] \in Nat
    BY <2>1
  <2> QED BY <2>1, <2>2
<1>3. Least(p, "least_ping", val)
  BY DEF LeastPingPick
<1> HIDE DEF val
<1> QED BY <1>2, <1>3, LeastTyped

LEMMA IncrFacts ==
    ASSUME BalancerAssumption, Typed, NEW p \in Pickers, IncrConns(p)
    PROVE  /\ scene.strategy = "least_load" /\ p \in scene.pickers /\ pick[p].pc = "count"
           /\ pick[p].best \in Insts
           /\ load' = [load EXCEPT ![pick[p].best] = load[pick[p].best] + 1]
           /\ load' \in [Insts -> 0 .. MaxLoad]
           /\ pick' = [pick EXCEPT ![p] = NoPick] /\ PickOK(p, NoPick) /\ NoPick \in PickType
           /\ UNCHANGED <<scene, healthy, current, counter, wait, run>>
<1>1. pick[p] \in PickType /\ PickOK(p, pick[p]) /\ pick[p].pc = "count"
  BY DEF Typed, IncrConns
<1>2. scene.strategy = "least_load" /\ p \in scene.pickers /\ pick[p].best # 0
  BY <1>1 DEF PickOK, Strategies
<1>3. pick[p].best \in Insts /\ MaxLoad \in Nat
  BY <1>1, <1>2, SettingFacts, PickFields DEF Insts
<1>4. load[pick[p].best] \in 0 .. MaxLoad /\ load[pick[p].best] < MaxLoad
  BY <1>3 DEF Typed, IncrConns
<1>5. load[pick[p].best] + 1 \in 0 .. MaxLoad
  BY <1>3, <1>4
<1>6. load' = [load EXCEPT ![pick[p].best] = load[pick[p].best] + 1]
  BY <1>3 DEF Typed, IncrConns
<1>7. load' \in [Insts -> 0 .. MaxLoad]
  BY <1>5, <1>6 DEF Typed
<1>8. PickOK(p, NoPick) /\ NoPick \in PickType
  BY SettingFacts, NoPickFields DEF PickOK, Strategies
<1>9. pick' = [pick EXCEPT ![p] = NoPick] /\ UNCHANGED <<scene, healthy, current, counter, wait, run>>
  BY DEF IncrConns
<1> QED BY <1>1, <1>2, <1>3, <1>6, <1>7, <1>8, <1>9

LEMMA IncrTyped ==
    ASSUME BalancerAssumption, Typed, NEW p \in Pickers, IncrConns(p) PROVE Typed'
<1>1. /\ load' \in [Insts -> 0 .. MaxLoad] /\ pick' = [pick EXCEPT ![p] = NoPick]
      /\ PickOK(p, NoPick) /\ NoPick \in PickType
      /\ UNCHANGED <<scene, healthy, current, counter, wait, run>>
  BY IncrFacts
<1>2. current' \in 0 .. Period - 1 /\ counter' \in Nat /\ wait' \in [Insts -> Nat]
  BY <1>1 DEF Typed
<1> QED BY <1>1, <1>2, MovesTyped

LEMMA WeightedReadTyped ==
    ASSUME BalancerAssumption, Typed, NEW p \in Pickers, WeightedRead(p) PROVE Typed'
<1> DEFINE n == Len(pick[p].list)
           i == pick[p].list[(current % n) + 1]
           r == [pick[p] EXCEPT !.pc = "attempt", !.val = counter, !.best = i]
<1>1. pick[p] \in PickType /\ PickOK(p, pick[p]) /\ pick[p].pc = "weighted_rr"
  BY DEF Typed, WeightedRead, At
<1>2. scene.strategy = "weighted_rr" /\ p \in scene.pickers /\ pick[p].list # << >>
  BY <1>1 DEF PickOK, Strategies
<1>3. UNCHANGED <<scene, healthy, load, current, counter>>
  BY DEF WeightedRead
<1>4. /\ current' \in 0 .. Period - 1 /\ counter' \in Nat /\ load' \in [Insts -> 0 .. MaxLoad]
      /\ wait \in [Insts -> Nat] /\ current \in Nat /\ counter \in Nat
  BY <1>3, SettingFacts DEF Typed
<1>5. CASE Returns(p, pick[p].list[1])
  BY <1>2, <1>3, <1>4, <1>5, ReturnsTyped
<1>6. CASE /\ pick' = [pick EXCEPT ![p].pc = "attempt", ![p].val = counter, ![p].best = i]
           /\ UNCHANGED <<wait, run>>
  <2>1. pick[p].list \in Seq(Insts) /\ n \in Nat /\ n > 0
    BY <1>1, <1>2, PickFields
  <2>2. (current % n) + 1 \in 1 .. n
    <3> HIDE DEF n
    <3> QED BY <1>4, <2>1
  <2>3. i \in 0 .. N
    <3>1. i \in Insts
      BY <2>1, <2>2
    <3> HIDE DEF i
    <3> QED BY <3>1, SettingFacts DEF Insts
  <2> HIDE DEF i
  <2>4. pick' = [pick EXCEPT ![p] = r]
    BY <1>1, <1>6 DEF Typed, PickType
  <2>5. r \in PickType /\ r.pc = "attempt" /\ r.list = pick[p].list
    BY <1>1, <1>4, <2>3 DEF PickType
  <2> HIDE DEF r
  <2>6. PickOK(p, r)
    BY <1>2, <2>5 DEF PickOK, Strategies
  <2> QED BY <1>3, <1>4, <1>6, <2>4, <2>5, <2>6, MovesTyped
<1> QED BY <1>5, <1>6 DEF WeightedRead

LEMMA WeightedWriteTyped ==
    ASSUME BalancerAssumption, Typed, NEW p \in Pickers, WeightedWrite(p) PROVE Typed'
<1> DEFINE r == [pick[p] EXCEPT !.pc = "weighted_rr", !.k = @ + 1]
<1>1. pick[p] \in PickType /\ PickOK(p, pick[p]) /\ pick[p].pc = "attempt"
  BY DEF Typed, WeightedWrite
<1>2. scene.strategy = "weighted_rr" /\ p \in scene.pickers /\ pick[p].list # << >>
  BY <1>1 DEF PickOK, Strategies
<1>3. UNCHANGED <<scene, healthy, load>> /\ pick[p].val \in Nat /\ pick[p].k \in Nat
  BY <1>1, PickFields DEF WeightedWrite
<1>4. /\ load' \in [Insts -> 0 .. MaxLoad] /\ wait \in [Insts -> Nat]
      /\ current \in Nat /\ counter \in Nat /\ current \in 0 .. Period - 1 /\ Period \in Nat /\ Period > 0
  BY <1>3, SettingFacts DEF Typed
<1>5. CASE /\ counter' \in {pick[p].val + 1, counter + 1}
           /\ Returns(p, pick[p].best) /\ UNCHANGED current
  <2>1. counter' \in Nat /\ current' \in 0 .. Period - 1
    BY <1>3, <1>4, <1>5
  <2> QED BY <1>2, <1>3, <1>5, <2>1, ReturnsTyped
<1>6. CASE /\ counter' = 0 /\ current' = (current + 1) % Period
           /\ pick' = [pick EXCEPT ![p].pc = "weighted_rr", ![p].k = @ + 1]
           /\ UNCHANGED <<wait, run>>
  <2>1. counter' \in Nat /\ current' \in 0 .. Period - 1 /\ pick[p].k + 1 \in Nat
    BY <1>3, <1>4, <1>6
  <2>2. pick' = [pick EXCEPT ![p] = r]
    BY <1>1, <1>6 DEF Typed, PickType
  <2>3. r \in PickType /\ r.pc = "weighted_rr" /\ r.list = pick[p].list
    BY <1>1, <2>1 DEF PickType, Strategies
  <2> HIDE DEF r
  <2>4. PickOK(p, r)
    BY <1>2, <2>3 DEF PickOK, Strategies
  <2> QED BY <1>3, <1>4, <1>6, <2>1, <2>2, <2>3, <2>4, MovesTyped
<1> QED BY <1>5, <1>6 DEF WeightedWrite

\* One more attempt of pickInstance.
LEMMA SplitterMoves ==
    ASSUME BalancerAssumption, Typed, NEW p \in Pickers, pick[p].pc = "splitter",
           UNCHANGED <<scene, healthy, load, wait>>, current' \in 0 .. Period - 1, counter' \in Nat,
           pick' = [pick EXCEPT ![p].k = @ + 1]
    PROVE  Typed'
<1> DEFINE r == [pick[p] EXCEPT !.k = @ + 1]
<1>1. pick[p] \in PickType /\ PickOK(p, pick[p]) /\ pick[p].k \in Nat
  BY PickFields DEF Typed
<1>2. pick' = [pick EXCEPT ![p] = r]
  BY <1>1 DEF Typed, PickType
<1>3. r \in PickType /\ r.pc = "splitter" /\ r.list = pick[p].list
  <2>1. pick[p].k + 1 \in Nat
    BY <1>1
  <2> QED BY <1>1, <2>1 DEF PickType
<1> HIDE DEF r
<1>4. PickOK(p, r)
  BY <1>1, <1>3 DEF PickOK, Strategies
<1>5. load' \in [Insts -> 0 .. MaxLoad] /\ wait' \in [Insts -> Nat]
  BY DEF Typed
<1> QED BY <1>2, <1>3, <1>4, <1>5, MovesTyped

LEMMA SplitterAttemptTyped ==
    ASSUME BalancerAssumption, Typed, NEW p \in Pickers, SplitterAttempt(p) PROVE Typed'
<1>1. pick[p].pc = "splitter" /\ scene.strategy = "splitter" /\ p \in scene.pickers
  BY DEF Typed, PickOK, SplitterAttempt, At, Strategies
<1>2. PICK turn \in BOOLEAN :
        LET cur == IF turn THEN (current + 1) % N ELSE current
            cnt == IF turn THEN 1 ELSE counter + 1
        IN  IF healthy[cur + 1]
            THEN Returns(p, cur + 1) /\ current' = cur /\ counter' = cnt
            ELSE /\ current' = (cur + 1) % N /\ counter' = 0
                 /\ pick' = [pick EXCEPT ![p].k = @ + 1]
                 /\ UNCHANGED <<wait, run>>
  BY DEF SplitterAttempt
<1> DEFINE cur == IF turn THEN (current + 1) % N ELSE current
           cnt == IF turn THEN 1 ELSE counter + 1
<1>3. UNCHANGED <<scene, healthy, load>>
  BY DEF SplitterAttempt
<1>4. /\ current \in Nat /\ current < Period /\ counter \in Nat
      /\ N \in Nat /\ N > 0 /\ N <= Period /\ Period \in Nat
  BY SettingFacts DEF Typed
<1>5. cnt \in Nat /\ cur \in 0 .. Period - 1
  BY <1>4
<1>6. CASE Returns(p, cur + 1) /\ current' = cur /\ counter' = cnt
  <2> HIDE DEF cur, cnt
  <2> QED BY <1>1, <1>3, <1>5, <1>6, ReturnsTyped
<1>7. CASE /\ current' = (cur + 1) % N /\ counter' = 0
           /\ pick' = [pick EXCEPT ![p].k = @ + 1] /\ UNCHANGED <<wait, run>>
  <2> HIDE DEF cur, cnt
  <2>1. current' \in 0 .. Period - 1 /\ counter' \in Nat
    BY <1>4, <1>5, <1>7
  <2> QED BY <1>1, <1>3, <1>7, <2>1, SplitterMoves
<1> QED BY <1>2, <1>6, <1>7

LEMMA SplitterFallbackTyped ==
    ASSUME BalancerAssumption, Typed, NEW p \in Pickers, SplitterFallback(p) PROVE Typed'
<1> DEFINE i == pick[p].k - 2 * N + 1
           r == [pick[p] EXCEPT !.pc = "nil"]
<1>1. pick[p].pc = "splitter" /\ scene.strategy = "splitter" /\ p \in scene.pickers
  BY DEF Typed, PickOK, SplitterFallback, At, Strategies
<1>2. UNCHANGED <<scene, healthy, load, current, counter>>
  BY DEF SplitterFallback
<1>3. /\ current' \in 0 .. Period - 1 /\ counter' \in Nat /\ load' \in [Insts -> 0 .. MaxLoad]
      /\ wait \in [Insts -> Nat] /\ pick[p] \in PickType
  BY <1>2 DEF Typed
<1>4. CASE pick' = [pick EXCEPT ![p].pc = "nil"] /\ UNCHANGED <<wait, run>>
  <2>1. pick' = [pick EXCEPT ![p] = r]
    BY <1>3, <1>4 DEF Typed, PickType
  <2>2. r \in PickType /\ r.pc = "nil"
    BY <1>3 DEF PickType
  <2> HIDE DEF r
  <2>3. PickOK(p, r)
    BY <1>1, <2>2 DEF PickOK, Strategies
  <2> QED BY <1>2, <1>3, <1>4, <2>1, <2>2, <2>3, MovesTyped
<1>5. CASE Returns(p, i)
  <2> HIDE DEF i
  <2> QED BY <1>1, <1>2, <1>3, <1>5, ReturnsTyped
<1>6. CASE pick' = [pick EXCEPT ![p].k = @ + 1] /\ UNCHANGED <<wait, run>>
  BY <1>1, <1>2, <1>3, <1>6, SplitterMoves
<1> QED BY <1>4, <1>5, <1>6 DEF SplitterFallback

LEMMA SplitterNilTyped ==
    ASSUME BalancerAssumption, Typed, NEW p \in Pickers, SplitterNil(p) PROVE Typed'
<1>1. UNCHANGED <<scene, healthy, load>> /\ pick' = [pick EXCEPT ![p] = NoPick]
  BY DEF SplitterNil
<1>2. Period \in Nat /\ Period > 0 /\ N \in Nat
  BY SettingFacts
<1>3. /\ current' \in 0 .. Period - 1 /\ counter' \in Nat /\ wait' \in [Insts -> Nat]
      /\ load' \in [Insts -> 0 .. MaxLoad]
  BY <1>2 DEF Typed, SplitterNil
<1>4. PickOK(p, NoPick) /\ NoPick \in PickType
  BY <1>2, NoPickFields DEF PickOK, Strategies
<1> QED BY <1>1, <1>3, <1>4, MovesTyped

LEMMA StutterTyped ==
    ASSUME Typed, UNCHANGED balancerVars PROVE Typed'
<1>1. UNCHANGED <<scene, healthy, load, current, counter, pick, wait>>
  BY DEF balancerVars
<1>2. \A p \in Pickers : PickOK(p, pick[p])' = PickOK(p, pick[p])
  BY <1>1 DEF PickOK
<1> QED BY <1>1, <1>2 DEF Typed, PickType

LEMMA TypedNext ==
    ASSUME BalancerAssumption, Typed, [BalancerNext]_balancerVars PROVE Typed'
<1>1. ASSUME NEW i \in Insts, Flap(i) PROVE Typed'
  BY <1>1, FlapTyped
<1>2. ASSUME NEW p \in Pickers,
             \/ Begin(p) \/ RoundRobinPick(p) \/ RandomPick(p)
             \/ LeastLoadPick(p) \/ LeastPingPick(p) \/ IncrConns(p)
             \/ WeightedRead(p) \/ WeightedWrite(p)
             \/ SplitterAttempt(p) \/ SplitterFallback(p) \/ SplitterNil(p)
      PROVE  Typed'
  BY <1>2, BeginTyped, RoundRobinTyped, RandomTyped, LeastLoadTyped, LeastPingTyped, IncrTyped,
     WeightedReadTyped, WeightedWriteTyped, SplitterAttemptTyped, SplitterFallbackTyped, SplitterNilTyped
<1> QED BY <1>1, <1>2, StutterTyped DEF BalancerNext

-----------------------------------------------------------------------------
\* The argument for even loads.  Without flaps every scan goes over all
\* instances, and loads only grow: what a scan has read is at most the load now.
Calm == scene.strategy = "least_load" /\ ~ scene.flaps
AllUp == \A i \in Insts : healthy[i]
Scanned ==
    \A p \in Pickers : pick[p].pc = "least_load" =>
       /\ ToSet(pick[p].list) = Insts
       /\ \A n \in 1 .. pick[p].k : pick[p].val <= load[pick[p].list[n]]

\* The handlers that are about to choose i, or have chosen it and not counted,
\* and have read (a call that returned: 0) no more than L.
Chosen(i, L) ==
    {p \in scene.pickers : pick[p].pc \in {"least_load", "count"} /\ pick[p].best = i /\ pick[p].val <= L}

\* As long as some instance j has a load of L or less, only handlers that read i at
\* L or less can still add to i: so above L, what i has and what it may get is at
\* most one for each handler.
Share ==
    \A i, j \in Insts, L \in Nat :
       load[j] <= L /\ L < load[i] =>
          Cardinality(Chosen(i, L)) + load[i] - L <= Cardinality(scene.pickers)

Even == Calm => AllUp /\ Scanned /\ Share

LEMMA ChosenFacts ==
    ASSUME BalancerAssumption, Typed, NEW i, NEW L
    PROVE  /\ IsFiniteSet(Chosen(i, L)) /\ Cardinality(Chosen(i, L)) \in Nat
           /\ Cardinality(scene.pickers) \in Nat
           /\ \A p \in scene.pickers : p \notin Chosen(i, L) =>
                 Cardinality(Chosen(i, L)) + 1 <= Cardinality(scene.pickers)
<1>1. IsFiniteSet(scene.pickers) /\ Cardinality(scene.pickers) \in Nat
  BY SettingFacts, FS_CardinalityType
<1>2. Chosen(i, L) \in SUBSET scene.pickers
  BY DEF Chosen
<1>3. IsFiniteSet(Chosen(i, L)) /\ Cardinality(Chosen(i, L)) \in Nat
  BY <1>1, <1>2, FS_Subset, FS_CardinalityType
<1>4. ASSUME NEW p \in scene.pickers, p \notin Chosen(i, L)
      PROVE  Cardinality(Chosen(i, L)) + 1 <= Cardinality(scene.pickers)
  <2>1. Chosen(i, L) # scene.pickers
    BY <1>4
  <2> QED BY <1>1, <1>2, <2>1, ProperSubset
<1> QED BY <1>1, <1>3, <1>4

LEMMA LoadTypes ==
    ASSUME BalancerAssumption, Typed PROVE \A i \in Insts : load[i] \in Nat
BY SettingFacts DEF Typed

\* A step that counts nothing and adds nobody to Chosen keeps the shares.
LEMMA ShareKept ==
    ASSUME BalancerAssumption, Typed, Share, UNCHANGED <<scene, load>>,
           \A i, j \in Insts, L \in Nat :
              load[j] <= L /\ L < load[i] => Chosen(i, L)' \subseteq Chosen(i, L)
    PROVE  Share'
<1> SUFFICES ASSUME NEW i \in Insts, NEW j \in Insts, NEW L \in Nat, load[j] <= L, L < load[i]
             PROVE  Cardinality(Chosen(i, L)') + load[i] - L <= Cardinality(scene.pickers)
  BY DEF Share, Insts
<1>1. Chosen(i, L)' \in SUBSET Chosen(i, L)
  OBVIOUS
<1>2. IsFiniteSet(Chosen(i, L)) /\ Cardinality(Chosen(i, L)) \in Nat /\ Cardinality(scene.pickers) \in Nat
  BY ChosenFacts
<1>3. IsFiniteSet(Chosen(i, L)') /\ Cardinality(Chosen(i, L)') <= Cardinality(Chosen(i, L))
  BY <1>1, <1>2, FS_Subset
<1>4. Cardinality(Chosen(i, L)') \in Nat
  BY <1>3, FS_CardinalityType
<1>5. Cardinality(Chosen(i, L)) + load[i] - L <= Cardinality(scene.pickers)
  BY DEF Share
<1>6. load[i] \in Nat
  BY LoadTypes
<1> QED BY <1>2, <1>3, <1>4, <1>5, <1>6

LEMMA BeginEven ==
    ASSUME BalancerAssumption, Typed, Even, Calm, NEW p \in Pickers, Begin(p) PROVE Even'
<1>1. UNCHANGED <<scene, healthy, load>>
  BY DEF Begin
<1>2. PICK r \in PickType : pick' = [pick EXCEPT ![p] = r]
  BY BeginPick
<1>3. /\ pick'[p].pc = "least_load" /\ pick'[p].best = 0 /\ pick'[p].k = 0
      /\ ToSet(pick'[p].list) = Insts
  BY BeginPick DEF Even, Calm, AllUp
<1>4. \A q \in Pickers : q # p => pick'[q] = pick[q]
  BY <1>2 DEF Typed
<1>5. AllUp'
  BY <1>1 DEF Even, AllUp, Insts
<1>6. Scanned'
  <2> SUFFICES ASSUME NEW q \in Pickers, pick'[q].pc = "least_load"
               PROVE  /\ ToSet(pick'[q].list) = Insts
                      /\ \A n \in 1 .. pick'[q].k : pick'[q].val <= load[pick'[q].list[n]]
    BY <1>1 DEF Scanned, Insts
  <2>1. CASE q = p
    BY <1>3, <2>1
  <2>2. CASE q # p
    BY <1>4, <2>2 DEF Even, Scanned
  <2> QED BY <2>1, <2>2
<1>7. \A i \in Insts, L \in Nat : Chosen(i, L)' \subseteq Chosen(i, L)
  <2>1. \A i \in Insts : i # 0
    BY SettingFacts DEF Insts
  <2>2. scene.pickers \subseteq Pickers
    BY SettingFacts
  <2> QED BY <1>1, <1>3, <1>4, <2>1, <2>2 DEF Chosen
<1>8. Share'
  BY <1>1, <1>7, ShareKept DEF Even
<1> QED BY <1>5, <1>6, <1>8 DEF Even

LEMMA LeastLoadEven ==
    ASSUME BalancerAssumption, Typed, Even, Calm, NEW p \in Pickers, LeastLoadPick(p) PROVE Even'
<1>0. Least(p, "least_load", load) /\ \A i \in Insts : load[i] \in Nat
  BY LoadTypes DEF LeastLoadPick
<1>1. /\ UNCHANGED <<scene, healthy, load>> /\ p \in scene.pickers /\ pick[p].pc = "least_load"
      /\ scene.strategy = "least_load"
      /\ \/ /\ pick[p].k = Len(pick[p].list) /\ pick[p].best \in Insts
            /\ Returns(p, pick[p].best)
         \/ \E i \in Insts, r \in PickType :
              /\ i = pick[p].list[pick[p].k + 1]
              /\ PickOK(p, r) /\ pick' = [pick EXCEPT ![p] = r]
              /\ r.pc = "least_load" /\ r.list = pick[p].list /\ r.k = pick[p].k + 1
              /\ \/ r.best = i /\ r.val = load[i] /\ (pick[p].best = 0 \/ load[i] < pick[p].val)
                 \/ /\ r.best = pick[p].best /\ r.val = pick[p].val
                    /\ pick[p].best # 0 /\ pick[p].val <= load[i]
  BY <1>0, LeastCases
<1>2. AllUp'
  BY <1>1 DEF Even, AllUp, Insts
<1>3. /\ ToSet(pick[p].list) = Insts
      /\ \A n \in 1 .. pick[p].k : pick[p].val <= load[pick[p].list[n]]
  BY <1>1 DEF Even, Scanned
<1>4. /\ pick[p] \in PickType /\ pick[p].val \in Nat /\ pick[p].k \in Nat
      /\ pick[p].list \in Seq(Insts) /\ PickOK(p, pick[p])
  BY PickFields DEF Typed
<1>5. scene.pickers \subseteq Pickers
  BY SettingFacts
<1>6. CASE /\ pick[p].k = Len(pick[p].list) /\ pick[p].best \in Insts
           /\ Returns(p, pick[p].best)
  <2>1. /\ pick'[p].pc = "count" /\ pick'[p].best = pick[p].best /\ pick'[p].val = 0
        /\ \A q \in Pickers : q # p => pick'[q] = pick[q]
    BY <1>1, <1>6, ReturnsStep
  <2>2. Scanned'
    <3> SUFFICES ASSUME NEW q \in Pickers, pick'[q].pc = "least_load"
                 PROVE  /\ ToSet(pick'[q].list) = Insts
                        /\ \A n \in 1 .. pick'[q].k : pick'[q].val <= load[pick'[q].list[n]]
      BY <1>1 DEF Scanned, Insts
    <3>1. q # p
      BY <2>1
    <3> QED BY <2>1, <3>1 DEF Even, Scanned
  <2>3. \A j \in Insts : pick[p].val <= load[j]
    <3>1. \A j \in Insts : \E n \in 1 .. Len(pick[p].list) : pick[p].list[n] = j
      BY <1>3, <1>4 DEF ToSet
    <3> QED BY <1>3, <1>6, <3>1
  <2>4. ASSUME NEW i \in Insts, NEW j \in Insts, NEW L \in Nat, load[j] <= L, L < load[i]
        PROVE  Chosen(i, L)' \subseteq Chosen(i, L)
    <3>1. pick[p].val <= L
      BY <1>0, <1>4, <2>3, <2>4
    <3> QED BY <1>1, <1>5, <2>1, <3>1 DEF Chosen
  <2>5. Share'
    BY <1>1, <2>4, ShareKept DEF Even
  <2> QED BY <1>2, <2>2, <2>5 DEF Even
<1>7. CASE \E i \in Insts, r \in PickType :
              /\ i = pick[p].list[pick[p].k + 1]
              /\ PickOK(p, r) /\ pick' = [pick EXCEPT ![p] = r]
              /\ r.pc = "least_load" /\ r.list = pick[p].list /\ r.k = pick[p].k + 1
              /\ \/ r.best = i /\ r.val = load[i] /\ (pick[p].best = 0 \/ load[i] < pick[p].val)
                 \/ /\ r.best = pick[p].best /\ r.val = pick[p].val
                    /\ pick[p].best # 0 /\ pick[p].val <= load[i]
  <2>1. PICK i \in Insts, r \in PickType :
              /\ i = pick[p].list[pick[p].k + 1]
              /\ PickOK(p, r) /\ pick' = [pick EXCEPT ![p] = r]
              /\ r.pc = "least_load" /\ r.list = pick[p].list /\ r.k = pick[p].k + 1
              /\ \/ r.best = i /\ r.val = load[i] /\ (pick[p].best = 0 \/ load[i] < pick[p].val)
                 \/ /\ r.best = pick[p].best /\ r.val = pick[p].val
                    /\ pick[p].best # 0 /\ pick[p].val <= load[i]
    BY <1>7
  <2>2. pick'[p] = r /\ \A q \in Pickers : q # p => pick'[q] = pick[q]
    BY <2>1 DEF Typed
  <2>3. \A n \in 1 .. r.k : r.val <= load[r.list[n]]
    <3> SUFFICES ASSUME NEW n \in 1 .. pick[p].k + 1 PROVE r.val <= load[pick[p].list[n]]
      BY <2>1
    <3>1. load[i] \in Nat
      BY <1>0
    <3>2. CASE n = pick[p].k + 1
      BY <2>1, <3>1, <3>2
    <3>3. CASE n # pick[p].k + 1
      <4>1. n \in 1 .. pick[p].k
        BY <1>4, <3>3
      <4>2. pick[p].val <= load[pick[p].list[n]]
        BY <1>3, <4>1
      <4>3. pick[p].best # 0
        <5>1. pick[p].k # 0
          BY <1>4, <4>1
        <5> QED BY <1>1, <1>4, <5>1 DEF PickOK
      <4>4. r.val <= pick[p].val /\ r.val \in Nat
        BY <1>4, <2>1, <3>1, <4>3
      <4>5. load[pick[p].list[n]] \in Nat
        <5>1. pick[p].k <= Len(pick[p].list) /\ Len(pick[p].list) \in Nat
          BY <1>1, <1>4 DEF PickOK
        <5>2. pick[p].list[n] \in Insts
          BY <1>4, <4>1, <5>1
        <5> QED BY <1>0, <5>2
      <4> QED BY <1>4, <4>2, <4>4, <4>5
    <3> QED BY <3>2, <3>3
  <2>4. Scanned'
    <3> SUFFICES ASSUME NEW q \in Pickers, pick'[q].pc = "least_load"
                 PROVE  /\ ToSet(pick'[q].list) = Insts
                        /\ \A n \in 1 .. pick'[q].k : pick'[q].val <= load[pick'[q].list[n]]
      BY <1>1 DEF Scanned, Insts
    <3>1. CASE q = p
      BY <1>3, <2>1, <2>2, <2>3, <3>1
    <3>2. CASE q # p
      BY <2>2, <3>2 DEF Even, Scanned
    <3> QED BY <3>1, <3>2
  <2>5. ASSUME NEW h \in Insts, NEW j \in Insts, NEW L \in Nat, load[j] <= L, L < load[h]
        PROVE  Chosen(h, L)' \subseteq Chosen(h, L)
    <3>1. ASSUME r.best = h, r.val <= L PROVE pick[p].best = h /\ pick[p].val <= L
      <4>1. load[h] \in Nat /\ ~ (load[h] <= L)
        BY <1>0, <2>5
      <4> QED BY <2>1, <3>1, <4>1
    <3> QED BY <1>1, <1>5, <2>2, <3>1 DEF Chosen
  <2>6. Share'
    BY <1>1, <2>5, ShareKept DEF Even
  <2> QED BY <1>2, <2>4, <2>6 DEF Even
<1> QED BY <1>1, <1>6, <1>7

LEMMA IncrEven ==
    ASSUME BalancerAssumption, Typed, Even, Calm, NEW p \in Pickers, IncrConns(p) PROVE Even'
<1> DEFINE b == pick[p].best
<1>1. /\ p \in scene.pickers /\ pick[p].pc = "count" /\ b \in Insts
      /\ load' = [load EXCEPT ![b] = load[b] + 1]
      /\ pick' = [pick EXCEPT ![p] = NoPick] /\ UNCHANGED <<scene, healthy>>
  BY IncrFacts
<1>2. /\ \A i \in Insts : load[i] \in Nat
      /\ \A i \in Insts : load'[i] = IF i = b THEN load[b] + 1 ELSE load[i]
  BY <1>1, LoadTypes DEF Typed
<1>3. pick'[p].pc = "idle" /\ \A q \in Pickers : q # p => pick'[q] = pick[q]
  BY <1>1, SettingFacts, NoPickFields DEF Typed
<1>4. pick[p] \in PickType /\ scene.pickers \subseteq Pickers
  BY SettingFacts DEF Typed
<1> HIDE DEF b
<1>5. AllUp'
  BY <1>1 DEF Even, AllUp, Insts
<1>6. Scanned'
  <2> SUFFICES ASSUME NEW q \in Pickers, pick'[q].pc = "least_load"
               PROVE  /\ ToSet(pick'[q].list) = Insts
                      /\ \A n \in 1 .. pick'[q].k : pick'[q].val <= load'[pick'[q].list[n]]
    BY DEF Scanned, Insts
  <2>1. pick'[q] = pick[q] /\ pick[q].pc = "least_load"
    BY <1>3
  <2>2. /\ ToSet(pick[q].list) = Insts
        /\ \A n \in 1 .. pick[q].k : pick[q].val <= load[pick[q].list[n]]
    BY <2>1 DEF Even, Scanned
  <2>3. /\ pick[q] \in PickType /\ pick[q].list \in Seq(Insts) /\ pick[q].val \in Nat
        /\ pick[q].k \in Nat /\ pick[q].k <= Len(pick[q].list)
    BY <2>1, PickFields DEF Typed, PickOK
  <2>4. ASSUME NEW n \in 1 .. pick[q].k PROVE pick[q].val <= load'[pick[q].list[n]]
    <3>1. n \in 1 .. Len(pick[q].list)
      BY <2>3
    <3>2. pick[q].list[n] \in Insts
      BY <2>3, <3>1
    <3>3. load[pick[q].list[n]] \in Nat /\ load'[pick[q].list[n]] \in Nat
          /\ load[pick[q].list[n]] <= load'[pick[q].list[n]]
      BY <1>2, <3>2
    <3> QED BY <2>2, <2>3, <3>3
  <2> QED BY <2>1, <2>2, <2>4
<1>7. Share'
  <2> SUFFICES ASSUME NEW i \in Insts, NEW j \in Insts, NEW L \in Nat, load'[j] <= L, L < load'[i]
               PROVE  Cardinality(Chosen(i, L)') + load'[i] - L <= Cardinality(scene.pickers)
    BY <1>1 DEF Share, Insts
  <2> DEFINE C == Chosen(i, L)
             D == Chosen(i, L)'
             P == Cardinality(scene.pickers)
  <2>1. load[j] <= L /\ load[i] \in Nat /\ load[j] \in Nat
    BY <1>2
  <2>2. D \in SUBSET C /\ p \notin D
    BY <1>1, <1>3, <1>4 DEF Chosen
  <2>3. IsFiniteSet(C) /\ Cardinality(C) \in Nat /\ P \in Nat
    BY ChosenFacts
  <2>4. IsFiniteSet(D) /\ Cardinality(D) \in Nat /\ Cardinality(D) <= Cardinality(C)
    <3> HIDE DEF C, D
    <3> QED BY <2>2, <2>3, FS_Subset, FS_CardinalityType
  <2>5. Cardinality(D) + 1 <= P
    <3>1. D \in SUBSET scene.pickers /\ D # scene.pickers
      BY <1>1, <2>2 DEF Chosen
    <3>2. IsFiniteSet(scene.pickers)
      BY SettingFacts
    <3> HIDE DEF C, D
    <3> QED BY <3>1, <3>2, ProperSubset
  <2>6. CASE i # b
    <3>1. load'[i] = load[i]
      BY <1>2, <2>6
    <3>2. Cardinality(C) + load[i] - L <= P
      BY <2>1, <3>1 DEF Even, Share
    <3> HIDE DEF C, D, P
    <3>3. Cardinality(D) + load'[i] - L <= P
      BY <2>1, <2>3, <2>4, <3>1, <3>2
    <3> QED BY <3>3 DEF D, P
  <2>7. CASE i = b /\ load[i] <= L
    <3>1. load'[i] = L + 1
      BY <1>2, <2>1, <2>7
    <3> HIDE DEF C, D, P
    <3>2. Cardinality(D) + load'[i] - L <= P
      BY <2>3, <2>4, <2>5, <3>1
    <3> QED BY <3>2 DEF D, P
  <2>8. CASE i = b /\ L < load[i]
    <3>1. load'[i] = load[i] + 1
      BY <1>2, <2>8
    <3>2. Cardinality(C) + load[i] - L <= P
      BY <2>1, <2>8 DEF Even, Share
    <3>3. Cardinality(D) + 1 <= Cardinality(C)
      <4>1. pick[p].val <= L
        <5>1. pick[p].val = 0
          BY <1>1 DEF Typed, PickOK
        <5> QED BY <5>1
      <4>2. p \in C
        BY <1>1, <2>8, <4>1 DEF Chosen, b
      <4> HIDE DEF C, D
      <4> QED BY <2>2, <2>3, <4>2, ProperSubset
    <3> HIDE DEF C, D, P
    <3>4. Cardinality(D) + load'[i] - L <= P
      BY <2>1, <2>3, <2>4, <3>1, <3>2, <3>3
    <3> QED BY <3>4 DEF D, P
  <2> QED BY <2>1, <2>6, <2>7, <2>8
<1> QED BY <1>5, <1>6, <1>7 DEF Even

LEMMA EvenNext ==
    ASSUME BalancerAssumption, Typed, Even, [BalancerNext]_balancerVars PROVE Even'
<1>1. scene' = scene
  BY DEF BalancerNext, balancerVars, Flap, Begin, RoundRobinPick, RandomPick, LeastLoadPick,
         LeastPingPick, Least, IncrConns, WeightedRead, WeightedWrite,
         SplitterAttempt, SplitterFallback, SplitterNil
<1>2. CASE ~ Calm
  BY <1>1, <1>2 DEF Even, Calm
<1>3. CASE Calm
  <2>1. ASSUME NEW p \in Pickers, Begin(p) PROVE Even'
    BY <1>3, <2>1, BeginEven
  <2>2. ASSUME NEW p \in Pickers, LeastLoadPick(p) PROVE Even'
    BY <1>3, <2>2, LeastLoadEven
  <2>3. ASSUME NEW p \in Pickers, IncrConns(p) PROVE Even'
    BY <1>3, <2>3, IncrEven
  <2>4. CASE UNCHANGED balancerVars
    <3>1. UNCHANGED <<healthy, load, pick>>
      BY <2>4 DEF balancerVars
    <3>2. \A i \in Insts, L \in Nat : Chosen(i, L)' = Chosen(i, L)
      BY <1>1, <3>1 DEF Chosen
    <3>3. Share'
      BY <1>1, <1>3, <3>1, <3>2, ShareKept DEF Even
    <3> QED BY <1>1, <1>3, <3>1, <3>3 DEF Even, AllUp, Scanned, Insts
  <2>5. ASSUME NEW p \in Pickers
        PROVE  pick[p].pc \in {"idle", "least_load", "count"}
    <3>1. pick[p] \in PickType /\ PickOK(p, pick[p]) /\ scene.strategy = "least_load"
      BY <1>3 DEF Typed, Calm
    <3>2. pick[p].pc \in {"idle", "count", "attempt", "nil"} \cup Strategies
      BY <3>1, PickFields
    <3> QED BY <3>1, <3>2 DEF PickOK
  <2>6. \A i \in Insts : ~ Flap(i)
    BY <1>3 DEF Flap, Calm
  <2>7. \A p \in Pickers :
          /\ ~ RoundRobinPick(p) /\ ~ RandomPick(p) /\ ~ LeastPingPick(p)
          /\ ~ WeightedRead(p) /\ ~ WeightedWrite(p)
          /\ ~ SplitterAttempt(p) /\ ~ SplitterFallback(p) /\ ~ SplitterNil(p)
    BY <2>5 DEF RoundRobinPick, RandomPick, LeastPingPick, Least, WeightedRead,
                WeightedWrite, SplitterAttempt, SplitterFallback, SplitterNil, At
  <2> QED BY <2>1, <2>2, <2>3, <2>4, <2>6, <2>7 DEF BalancerNext
<1> QED BY <1>2, <1>3

LEMMA InitEven ==
    ASSUME BalancerAssumption, BalancerInit PROVE Even
<1>1. N \in Nat /\ \A p \in Pickers : pick[p] = NoPick
  BY DEF BalancerAssumption, BalancerInit
<1>2. AllUp /\ \A i \in Insts : load[i] = 0
  BY DEF AllUp, BalancerInit
<1>3. Scanned
  BY <1>1, NoPickFields DEF Scanned
<1>4. Share
  BY <1>2 DEF Share
<1> QED BY <1>2, <1>3, <1>4 DEF Even

LEMMA EvenLoads ==
    ASSUME BalancerAssumption, Typed, Even PROVE LoadsStayEven
<1>1. BalancerTypeOK
  <2>1. ASSUME NEW p \in Pickers PROVE pick[p].best \in 0 .. N /\ Range(pick[p].list) \subseteq Insts
    <3>1. pick[p] \in PickType
      BY DEF Typed
    <3>2. pick[p].best \in 0 .. N /\ pick[p].list \in Seq(Insts)
      BY <3>1, PickFields
    <3> QED BY <3>2 DEF Range
  <2> QED BY <2>1 DEF Typed, BalancerTypeOK
<1>2. ASSUME Calm, NEW i \in Insts, NEW j \in Insts
      PROVE  load[i] - load[j] <= Cardinality(scene.pickers)
  <2>1. /\ load[i] \in Nat /\ load[j] \in Nat /\ Cardinality(scene.pickers) \in Nat
        /\ Cardinality(Chosen(i, load[j])) \in Nat
    BY LoadTypes, ChosenFacts
  <2>2. load[j] < load[i] =>
           Cardinality(Chosen(i, load[j])) + load[i] - load[j] <= Cardinality(scene.pickers)
    BY <1>2, <2>1 DEF Even, Share
  <2>3. load[i] - load[j] <= Cardinality(scene.pickers)
    BY <2>1, <2>2
  <2> QED BY <2>3
<1> QED BY <1>1, <1>2 DEF LoadsStayEven, Calm

\* leastload.go, IncrConns: with connections that only come, on instances that stay, the
\* loads least_load reads before others have counted theirs never put one instance more
\* connections ahead of another than there are handlers.
THEOREM BalancerLoadsStayEven == BalancerSpec => []LoadsStayEven
<1> DEFINE Inv2 == Typed /\ Even
<1>1. BalancerInit => Inv2
  BY BalancerAssumption, InitTyped, InitEven
<1>2. Inv2 /\ [BalancerNext]_balancerVars => Inv2'
  BY BalancerAssumption, TypedNext, EvenNext
<1>3. Inv2 => LoadsStayEven
  BY BalancerAssumption, EvenLoads
<1> QED BY <1>1, <1>2, <1>3, PTL DEF BalancerSpec

-----------------------------------------------------------------------------
(* Turns: the instances take turns in their order, each for its weight.    *)

\* The instance after c; how many turns after that of i the turn of c comes, and
\* how many after that of c the turn of i; whose turns came since that of i.
After(c) == IF c = N THEN 1 ELSE c + 1
Dist(i, c) == IF c > i THEN c - i ELSE N - i + c
Ahead(c, i) == IF i >= c THEN i - c ELSE N - c + i
Passed(i, c) == {j \in Insts : Dist(i, j) < Dist(i, c)}

LEMMA AfterFacts ==
    ASSUME N \in Nat \ {0}, NEW c \in Insts
    PROVE  /\ After(c) \in Insts
           /\ Dist(c, After(c)) = 1
           /\ N > 1 => After(c) # c
           /\ \A i \in Insts : Dist(i, c) \in 1 .. N /\ (Dist(i, c) = N <=> c = i)
           /\ \A i \in Insts : i # c => Dist(i, After(c)) = Dist(i, c) + 1
           /\ \A i, j \in Insts : Dist(i, j) = Dist(i, c) => j = c
           /\ \A i \in Insts : Ahead(c, i) \in 0 .. N - 1
           /\ \A i \in Insts : i # c => Ahead(After(c), i) = Ahead(c, i) - 1
<1>1. N \in Nat /\ N > 0 /\ c \in 1 .. N
  BY DEF Insts
<1>2. After(c) \in 1 .. N /\ Dist(c, After(c)) = 1 /\ (N > 1 => After(c) # c)
  BY <1>1 DEF After, Dist
<1>3. ASSUME NEW i \in 1 .. N
      PROVE  /\ Dist(i, c) \in 1 .. N /\ (Dist(i, c) = N <=> c = i)
             /\ i # c => Dist(i, After(c)) = Dist(i, c) + 1
             /\ Ahead(c, i) \in 0 .. N - 1
             /\ i # c => Ahead(After(c), i) = Ahead(c, i) - 1
             /\ \A j \in 1 .. N : Dist(i, j) = Dist(i, c) => j = c
  BY <1>1 DEF After, Dist, Ahead
<1> QED BY <1>2, <1>3 DEF Insts

LEMMA PassedFacts ==
    ASSUME N \in Nat \ {0}, NEW c \in Insts, NEW i \in Insts
    PROVE  /\ Passed(i, c) \in SUBSET Insts
           /\ Passed(i, i) = Insts \ {i}
           /\ c # i => c \notin Passed(i, c) /\ Passed(i, After(c)) = Passed(i, c) \cup {c}
           /\ c # i => Passed(i, c) \cup {c} \in SUBSET (Insts \ {i})
           /\ Passed(c, After(c)) = {}
<1>1. \A j \in Insts : /\ Dist(i, j) \in 1 .. N /\ (Dist(i, j) = N <=> j = i)
                       /\ (Dist(i, j) = Dist(i, c) => j = c)
                       /\ Dist(c, j) \in 1 .. N
  BY AfterFacts
<1>2. /\ After(c) \in Insts /\ Dist(c, After(c)) = 1
      /\ i # c => Dist(i, After(c)) = Dist(i, c) + 1
  BY AfterFacts
<1>3. N \in Nat
  OBVIOUS
<1>4. Passed(i, i) = Insts \ {i}
  BY <1>1, <1>3 DEF Passed
<1>5. ASSUME c # i
      PROVE  /\ c \notin Passed(i, c) /\ Passed(i, After(c)) = Passed(i, c) \cup {c}
             /\ Passed(i, c) \cup {c} \in SUBSET (Insts \ {i})
  <2>1. \A j \in Insts : Dist(i, j) < Dist(i, After(c)) <=> Dist(i, j) < Dist(i, c) \/ j = c
    BY <1>1, <1>2, <1>3, <1>5
  <2>2. Passed(i, After(c)) = Passed(i, c) \cup {c}
    BY <2>1 DEF Passed
  <2>3. c \notin Passed(i, c) /\ i \notin Passed(i, c)
    BY <1>1, <1>3 DEF Passed
  <2> QED BY <1>5, <2>2, <2>3 DEF Passed
<1>6. Passed(c, After(c)) = {}
  BY <1>1, <1>2, <1>3 DEF Passed
<1> QED BY <1>4, <1>5, <1>6 DEF Passed

\* current, counted round, is a place of the list.
LEMMA ModAfter ==
    ASSUME NEW n \in Nat \ {0}, NEW a \in Nat
    PROVE  /\ (a % n) + 1 \in 1 .. n
           /\ ((a + 1) % n) + 1 = IF (a % n) + 1 = n THEN 1 ELSE (a % n) + 2
<1>1. PICK q, r : q = a \div n /\ r = a % n
  OBVIOUS
<1>2. q \in Nat /\ r \in 0 .. n - 1 /\ a = n * q + r
  BY <1>1
<1>3. CASE r + 1 = n
  <2>1. a + 1 = n * (q + 1)
    BY <1>2, <1>3
  <2>2. (a + 1) % n = 0
    BY <1>2, <2>1
  <2> QED BY <1>1, <1>2, <1>3, <2>2
<1>4. CASE r + 1 # n
  <2>1. a + 1 = n * q + (r + 1) /\ r + 1 \in 0 .. n - 1
    BY <1>2, <1>4
  <2>2. (a + 1) % n = r + 1
    BY <1>2, <2>1
  <2> QED BY <1>1, <1>2, <1>4, <2>2
<1> QED BY <1>3, <1>4

-----------------------------------------------------------------------------
(* Weights are positive.                                                   *)

Weights == [i \in Insts |-> W(i)]

LEMMA MaxFacts ==
    ASSUME NEW S \in SUBSET Nat, S # {}, NEW b \in Nat, \A x \in S : x <= b
    PROVE  Max(S) \in S /\ \A x \in S : x <= Max(S)
<1> DEFINE U == {u \in Nat : \A x \in S : x <= u}
<1>1. PICK m \in U : \A u \in U : m <= u
  <2>1. U \in SUBSET Nat /\ b \in U
    OBVIOUS
  <2> HIDE DEF U
  <2> QED BY <2>1, LeastExists
<1>2. m \in S
  <2> SUFFICES ASSUME m \notin S PROVE FALSE
    OBVIOUS
  <2>1. \A x \in S : x \in Nat /\ m \in Nat /\ x <= m /\ x # m
    OBVIOUS
  <2>0. PICK y \in S : TRUE
    OBVIOUS
  <2>2. y \in Nat /\ m \in Nat /\ y < m
    BY <2>1
  <2>3. m - 1 \in U /\ ~ (m <= m - 1)
    BY <2>1, <2>2
  <2> QED BY <1>1, <2>3
<1>3. \E x \in S : \A y \in S : x >= y
  BY <1>2
<1>4. Max(S) \in S /\ \A y \in S : Max(S) >= y
  BY <1>3 DEF Max
<1> QED BY <1>4

LEMMA MaxPingFacts ==
    ASSUME BalancerAssumption, Typed
    PROVE  MaxPing(All) \in Nat \ {0} /\ Range(All) = Insts
           /\ \A i \in Insts : scene.pings[i] \in 0 .. Unknown - 1
<1>1. \A i \in Insts : scene.pings[i] \in 0 .. Unknown - 1
  BY DEF BalancerAssumption, Typed
<1>2. Range(All) = Insts /\ DOMAIN All = Insts /\ \A k \in Insts : All[k] = k
  BY DEF Range, All
<1> DEFINE S == {1} \cup {scene.pings[All[k]] : k \in DOMAIN All}
<1>3. S \in SUBSET Nat /\ 1 \in S /\ \A x \in S : x <= 1000
  <2>1. ASSUME NEW k \in DOMAIN All
        PROVE  scene.pings[All[k]] \in Nat /\ scene.pings[All[k]] <= 1000
    <3>1. All[k] \in Insts
      BY <1>2, <2>1
    <3>2. PICK x : x = scene.pings[All[k]]
      OBVIOUS
    <3>3. x \in 0 .. Unknown - 1
      BY <1>1, <3>1, <3>2
    <3>4. x \in Nat /\ x <= 1000
      BY <3>3 DEF Unknown
    <3> QED BY <3>2, <3>4
  <2> QED BY <2>1
<1>4. MaxPing(All) = Max(S)
  BY DEF MaxPing
<1> HIDE DEF S
<1>5. Max(S) \in S /\ \A x \in S : x <= Max(S)
  <2>1. PICK b \in Nat : b = 1000
    OBVIOUS
  <2>2. S # {} /\ \A x \in S : x <= b
    BY <1>3, <2>1
  <2> QED BY <1>3, <2>2, MaxFacts
<1>6. Max(S) \in Nat /\ 1 <= Max(S)
  BY <1>3, <1>5
<1> QED BY <1>1, <1>2, <1>4, <1>6

LEMMA WeightPositive ==
    ASSUME BalancerAssumption, Typed, NEW i \in Insts, NEW u \in Nat \ {0}
    PROVE  Weight(All, i, u) \in Nat \ {0}
<1> DEFINE ping == IF scene.pings[i] <= 0 THEN u ELSE scene.pings[i]
<1>1. ping \in Nat \ {0}
  BY MaxPingFacts
<1>2. PICK q \in Nat : q = MaxPing(All) \div ping
  <2>1. \A a \in Nat, b \in Nat \ {0} : a \div b \in Nat
    OBVIOUS
  <2> HIDE DEF ping
  <2> QED BY <1>1, <2>1, MaxPingFacts
<1>3. Weight(All, i, u) = Max({q, 1})
  BY <1>2 DEF Weight
<1>4. \E b \in Nat : \A x \in {q, 1} : x <= b
  <2>1. CASE q <= 1
    BY <2>1
  <2>2. CASE ~ (q <= 1)
    BY <2>2
  <2> QED BY <2>1, <2>2
<1>5. Max({q, 1}) \in {q, 1} /\ 1 <= Max({q, 1})
  <2>1. PICK S : S = {q, 1}
    OBVIOUS
  <2>2. S \in SUBSET Nat /\ S # {} /\ 1 \in S
    BY <2>1
  <2>3. PICK b \in Nat : \A x \in S : x <= b
    BY <1>4, <2>1
  <2>4. Max(S) \in S /\ \A x \in S : x <= Max(S)
    BY <2>2, <2>3, MaxFacts
  <2> QED BY <2>1, <2>2, <2>4
<1> QED BY <1>3, <1>5

LEMMA WeightsFacts ==
    ASSUME BalancerAssumption, Typed
    PROVE  /\ Weights \in [Insts -> Nat \ {0}] /\ \A i \in Insts : Weights[i] = W(i)
           /\ scene.strategy = "round_robin" => \A i \in Insts : Weights[i] = 1
           /\ scene.strategy = "splitter" => \A i \in Insts : recalcWeights(All)[i] = Weights[i]
           /\ scene.strategy = "weighted_rr" => \A i \in Insts : computeWeights(All)[i] = Weights[i]
<1>1. Unknown \in Nat \ {0} /\ MaxPing(All) \in Nat \ {0} /\ Range(All) = Insts
  BY MaxPingFacts DEF Unknown
<1>2. \A i \in Insts : /\ recalcWeights(All)[i] \in Nat \ {0}
                       /\ computeWeights(All)[i] \in Nat \ {0}
  BY <1>1, WeightPositive DEF recalcWeights, computeWeights
<1>3. \A i \in Insts : W(i) \in Nat \ {0}
  BY <1>2 DEF W
<1> QED BY <1>3 DEF Weights, W

\* NoStarvation sums W itself.
LEMMA WaitBound ==
    ASSUME NEW S \in SUBSET Insts, IsFiniteSet(S)
    PROVE  MapThenSumSet(W, S) = Total(Weights, S)
<1> DEFINE Rec(f) == f = [s \in SUBSET S |-> IF s = {} THEN 0 ELSE W(First(s)) + f[s \ {First(s)}]]
<1> DEFINE f == CHOOSE f : Rec(f)
<1>1. \A s \in SUBSET S : s # {} => W(First(s)) = Weights[First(s)]
  <2> SUFFICES ASSUME NEW s \in SUBSET S, s # {} PROVE W(First(s)) = Weights[First(s)]
    OBVIOUS
  <2>1. First(s) \in Insts
    BY FirstIn
  <2> QED BY <2>1 DEF Weights
<1>2. PICK g : Sums(g, Weights, S) /\ Total(Weights, S) = g[S]
  BY TotalSums
<1>3. \E e : Rec(e)
  <2> DEFINE e == [s \in SUBSET S |-> g[s]]
  <2>1. \A s \in SUBSET S : e[s] = IF s = {} THEN 0 ELSE Weights[First(s)] + g[s \ {First(s)}]
    BY <1>2 DEF Sums
  <2>2. \A s \in SUBSET S : s # {} => g[s \ {First(s)}] = e[s \ {First(s)}]
    OBVIOUS
  <2>3. \A s \in SUBSET S : e[s] = IF s = {} THEN 0 ELSE W(First(s)) + e[s \ {First(s)}]
    BY <1>1, <2>1, <2>2
  <2>4. e = [s \in SUBSET S |-> e[s]]
    OBVIOUS
  <2> HIDE DEF e
  <2>5. Rec(e)
    BY <2>3, <2>4
  <2> QED BY <2>5
<1>4. Rec(f)
  <2> HIDE DEF Rec
  <2> QED BY <1>3
<1>5. MapThenSumSet(W, S) = f[S]
  BY DEF MapThenSumSet, MapThenFoldSet, First
<1> HIDE DEF f
<1>6. Sums(f, Weights, S)
  <2>1. \A s \in SUBSET S : f[s] = IF s = {} THEN 0 ELSE W(First(s)) + f[s \ {First(s)}]
    BY <1>4
  <2> QED BY <1>1, <2>1 DEF Sums
<1>7. f[S] = g[S]
  BY <1>2, <1>6, SumsAgree
<1> QED BY <1>2, <1>5, <1>7

-----------------------------------------------------------------------------
(* What holds when c has had n picks of its turn: how long each instance   *)
(* has waited (wt), and how the latest run r of picks stands.              *)

RunType == [inst : 0 .. N, n : Nat, still : BOOLEAN]

WaitOK(w, h, c, n, wt) ==
    \A i \in Insts :
       /\ wt[i] <= Total(w, Insts \ {i})
       /\ h[i] => /\ wt[i] <= Total(w, Passed(i, c)) + (IF c = i THEN 0 ELSE n)
                  /\ c = i /\ n > 0 => wt[i] = 0

\* A run without a change of health is a turn that goes on, or one that is complete and
\* after which no instance could be picked, or all picks fall to the only one left.
InTurn(h, c, n, r)     == r.inst = c /\ n > 0 /\ r.n = n
TurnDone(w, h, c, n, r) == n = 0 /\ r.n = w[r.inst] /\ \A j \in Passed(r.inst, c) : ~ h[j]
Alone(h, r)            == \A j \in Insts : h[j] => j = r.inst

RunOK(w, h, c, n, r) ==
    /\ r \in RunType
    /\ n > 0 => r.inst = c
    /\ r.still => /\ r.inst \in Insts /\ h[r.inst]
                  /\ InTurn(h, c, n, r) \/ TurnDone(w, h, c, n, r) \/ Alone(h, r)

TurnOK(w, h, c, n, wt, r) ==
    c \in Insts /\ n \in 0 .. w[c] /\ WaitOK(w, h, c, n, wt) /\ RunOK(w, h, c, n, r)

LEMMA TotalInsts ==
    ASSUME N \in Nat \ {0}, NEW w \in [Insts -> Nat \ {0}]
    PROVE  /\ IsFiniteSet(Insts) /\ w \in [Insts -> Nat] /\ Total(w, {}) = 0
           /\ \A S \in SUBSET Insts : Total(w, S) \in Nat
           /\ \A T \in SUBSET Insts : \A S \in SUBSET T : Total(w, S) <= Total(w, T)
           /\ \A S \in SUBSET Insts : \A x \in Insts \ S : Total(w, S \cup {x}) = Total(w, S) + w[x]
<1>1. IsFiniteSet(Insts) /\ w \in [Insts -> Nat]
  BY IntervalCardinality DEF Insts
<1>2. /\ Total(w, {}) = 0
      /\ \A S \in SUBSET Insts : Total(w, S) \in Nat
  BY <1>1, TotalFacts
<1>3. \A T \in SUBSET Insts : \A S \in SUBSET T : Total(w, S) <= Total(w, T)
  BY <1>1, TotalGrows
<1>4. ASSUME NEW S \in SUBSET Insts, NEW x \in Insts \ S
      PROVE Total(w, S \cup {x}) = Total(w, S) + w[x]
  BY <1>1, TotalAdd
<1> QED BY <1>1, <1>2, <1>3, <1>4

LEMMA TurnMoves ==
    ASSUME N \in Nat \ {0}, NEW w \in [Insts -> Nat \ {0}], NEW h \in [Insts -> BOOLEAN],
           NEW c, NEW n, NEW wt \in [Insts -> Nat], NEW r, TurnOK(w, h, c, n, wt, r), n = w[c] \/ ~ h[c]
    PROVE  TurnOK(w, h, After(c), 0, wt, r)
<1>1. c \in Insts /\ n \in Nat /\ n <= w[c] /\ w[c] \in Nat /\ w[c] > 0
  BY DEF TurnOK
<1>2. After(c) \in Insts /\ 0 \in 0 .. w[After(c)]
  BY <1>1, AfterFacts
<1>3. ASSUME NEW i \in Insts
      PROVE  /\ wt[i] <= Total(w, Insts \ {i})
             /\ h[i] => wt[i] <= Total(w, Passed(i, After(c)))
  <2>1. /\ wt[i] <= Total(w, Insts \ {i})
        /\ h[i] => wt[i] <= Total(w, Passed(i, c)) + (IF c = i THEN 0 ELSE n)
        /\ h[i] /\ c = i /\ n > 0 => wt[i] = 0
    BY DEF TurnOK, WaitOK
  <2>2. CASE i # c
    <3>1. /\ c \in Insts \ Passed(i, c) /\ Passed(i, After(c)) = Passed(i, c) \cup {c}
          /\ Passed(i, c) \in SUBSET Insts
      BY <1>1, <2>2, PassedFacts
    <3>2. Total(w, Passed(i, After(c))) = Total(w, Passed(i, c)) + w[c] /\ Total(w, Passed(i, c)) \in Nat
      BY <3>1, TotalInsts
    <3> QED BY <1>1, <2>1, <2>2, <3>2
  <2>3. CASE i = c
    <3>1. h[i] => wt[i] = 0
      BY <1>1, <2>1, <2>3
    <3>2. Passed(i, After(c)) \in SUBSET Insts
      BY DEF Passed
    <3>3. Total(w, Passed(i, After(c))) \in Nat
      BY <3>2, TotalInsts
    <3> QED BY <2>1, <3>1, <3>3
  <2> QED BY <2>2, <2>3
<1>4. WaitOK(w, h, After(c), 0, wt)
  <2>1. \A i \in Insts : Total(w, Passed(i, After(c))) \in Nat
    <3>1. \A i \in Insts : Passed(i, After(c)) \in SUBSET Insts
      BY DEF Passed
    <3> QED BY <3>1, TotalInsts
  <2> SUFFICES ASSUME NEW i \in Insts
               PROVE  /\ wt[i] <= Total(w, Insts \ {i})
                      /\ h[i] => wt[i] <= Total(w, Passed(i, After(c))) + (IF After(c) = i THEN 0 ELSE 0)
    BY DEF WaitOK
  <2>2. PICK x \in Nat : x = Total(w, Passed(i, After(c)))
    BY <2>1
  <2> QED BY <1>3, <2>2
<1>5. RunOK(w, h, c, n, r)
  BY DEF TurnOK
<1>6. r \in RunType
  BY <1>5 DEF RunOK
<1>7. ASSUME r.still
      PROVE  /\ r.inst \in Insts /\ h[r.inst]
             /\ TurnDone(w, h, After(c), 0, r) \/ Alone(h, r)
  <2>1. r.inst \in Insts /\ h[r.inst] /\ (InTurn(h, c, n, r) \/ TurnDone(w, h, c, n, r) \/ Alone(h, r))
    BY <1>5, <1>7 DEF RunOK
  <2>2. CASE InTurn(h, c, n, r)
    <3>1. r.inst = c /\ r.n = w[c]
      BY <2>1, <2>2 DEF InTurn
    <3>2. Passed(c, After(c)) = {}
      BY <1>1, PassedFacts
    <3> QED BY <2>1, <3>1, <3>2 DEF TurnDone
  <2>3. CASE TurnDone(w, h, c, n, r)
    <3>1. ~ h[c]
      BY <1>1, <2>3 DEF TurnDone
    <3>2. r.inst # c
      BY <2>1, <3>1
    <3>3. Passed(r.inst, After(c)) = Passed(r.inst, c) \cup {c}
      BY <1>1, <2>1, <3>2, PassedFacts
    <3> QED BY <2>1, <2>3, <3>1, <3>3 DEF TurnDone
  <2> QED BY <2>1, <2>2, <2>3
<1>8. RunOK(w, h, After(c), 0, r)
  BY <1>6, <1>7 DEF RunOK
<1> QED BY <1>2, <1>4, <1>8 DEF TurnOK

\* What the history says of the waits and of the run when i is picked.
Served(i, up, wt, wt2) ==
    \A j \in Insts : IF j = i \/ j \notin up THEN wt2[j] = 0 ELSE wt2[j] <= wt[j] + 1

Ran(w, i, still, r, r2) ==
    r2 = IF r.inst = i THEN [r EXCEPT !.n = Min({@, w[i]}) + 1] ELSE [inst |-> i, n |-> 1, still |-> still]

LEMMA RanFacts ==
    ASSUME N \in Nat \ {0}, NEW w \in [Insts -> Nat \ {0}], NEW i \in Insts, NEW still \in BOOLEAN,
           NEW r \in RunType, NEW r2, Ran(w, i, still, r, r2)
    PROVE  /\ r2 \in RunType /\ r2.inst = i
           /\ r.inst = i => r2.still = r.still /\ (r.n <= w[i] => r2.n = r.n + 1)
           /\ r.inst # i => r2.still = still /\ r2.n = 1
<1>1. r.inst \in 0 .. N /\ r.n \in Nat /\ r.still \in BOOLEAN /\ w[i] \in Nat /\ i \in 0 .. N
  BY DEF RunType, Insts
<1>2. PICK m \in Nat : m = Min({r.n, w[i]})
  BY <1>1, BMin
<1>3. r.n <= w[i] => m = r.n
  BY <1>1, <1>2, BMin
<1>4. CASE r.inst = i
  <2>1. r2 = [r EXCEPT !.n = m + 1] /\ m + 1 \in Nat
    BY <1>2, <1>4 DEF Ran
  <2> QED BY <1>1, <1>3, <1>4, <2>1 DEF RunType
<1>5. CASE r.inst # i
  <2>1. r2 = [inst |-> i, n |-> 1, still |-> still]
    BY <1>5 DEF Ran
  <2> QED BY <1>1, <1>5, <2>1 DEF RunType
<1> QED BY <1>4, <1>5

LEMMA TurnServes ==
    ASSUME N \in Nat \ {0}, NEW w \in [Insts -> Nat \ {0}], NEW h \in [Insts -> BOOLEAN],
           NEW c, NEW n, NEW wt \in [Insts -> Nat], NEW r, TurnOK(w, h, c, n, wt, r), n < w[c], h[c],
           NEW up, \A i \in Insts : i \in up => h[i], NEW wt2 \in [Insts -> Nat], Served(c, up, wt, wt2),
           NEW still \in BOOLEAN, NEW r2, Ran(w, c, still, r, r2)
    PROVE  TurnOK(w, h, c, n + 1, wt2, r2)
<1>1. c \in Insts /\ n \in Nat /\ n + 1 <= w[c] /\ w[c] \in Nat /\ n + 1 \in 0 .. w[c]
  BY DEF TurnOK
<1>2. ASSUME NEW i \in Insts
      PROVE  /\ wt2[i] <= Total(w, Insts \ {i})
             /\ h[i] => /\ wt2[i] <= Total(w, Passed(i, c)) + (IF c = i THEN 0 ELSE n + 1)
                        /\ c = i => wt2[i] = 0
  <2>1. h[i] => wt[i] <= Total(w, Passed(i, c)) + (IF c = i THEN 0 ELSE n)
    BY DEF TurnOK, WaitOK
  <2>2. /\ Passed(i, c) \in SUBSET Insts
        /\ c # i => c \notin Passed(i, c) /\ Passed(i, c) \cup {c} \in SUBSET (Insts \ {i})
    BY <1>1, PassedFacts
  <2>3. Total(w, Passed(i, c)) \in Nat /\ Total(w, Insts \ {i}) \in Nat /\ wt[i] \in Nat
    BY <2>2, TotalInsts
  <2>4. CASE i = c \/ i \notin up
    <3>1. wt2[i] = 0
      BY <2>4 DEF Served
    <3> QED BY <1>1, <2>3, <3>1
  <2>5. CASE i # c /\ i \in up
    <3>1. wt2[i] <= wt[i] + 1 /\ h[i] /\ wt2[i] \in Nat
      BY <2>5 DEF Served
    <3>2. wt2[i] <= Total(w, Passed(i, c)) + (n + 1)
      BY <1>1, <2>1, <2>3, <2>5, <3>1
    <3>3. Total(w, Passed(i, c) \cup {c}) = Total(w, Passed(i, c)) + w[c]
      BY <1>1, <2>2, <2>5, TotalInsts
    <3>4. Insts \ {i} \in SUBSET Insts
      OBVIOUS
    <3>5. Total(w, Passed(i, c) \cup {c}) <= Total(w, Insts \ {i})
      BY <2>2, <2>5, <3>4, TotalInsts
    <3> QED BY <1>1, <2>3, <2>5, <3>1, <3>2, <3>3, <3>5
  <2> QED BY <2>4, <2>5
<1>3. WaitOK(w, h, c, n + 1, wt2)
  BY <1>2 DEF WaitOK
<1>4. RunOK(w, h, c, n, r) /\ r \in RunType
  BY DEF TurnOK, RunOK
<1>5. /\ r2 \in RunType /\ r2.inst = c
      /\ r.inst = c => r2.still = r.still /\ (r.n <= w[c] => r2.n = r.n + 1)
      /\ r.inst # c => r2.still = still /\ r2.n = 1
  BY <1>1, <1>4, RanFacts
<1>6. r.still => InTurn(h, c, n, r) \/ TurnDone(w, h, c, n, r) \/ Alone(h, r)
  BY <1>4 DEF RunOK
<1>7. ASSUME r2.still PROVE InTurn(h, c, n + 1, r2) \/ Alone(h, r2)
  <2>1. CASE r.inst = c
    <3>1. r2.still = r.still /\ r2.inst = r.inst
      BY <1>5, <2>1
    <3>2. CASE InTurn(h, c, n, r)
      BY <1>1, <1>5, <2>1, <3>2 DEF InTurn
    <3>3. CASE TurnDone(w, h, c, n, r)
      <4>1. Passed(c, c) = Insts \ {c}
        BY <1>1, PassedFacts
      <4> QED BY <1>5, <2>1, <3>3, <4>1 DEF TurnDone, Alone
    <3>4. CASE Alone(h, r)
      BY <3>1, <3>4 DEF Alone
    <3> QED BY <1>6, <1>7, <3>1, <3>2, <3>3, <3>4
  <2>2. CASE r.inst # c
    <3>1. n = 0
      BY <1>1, <1>4, <2>2 DEF RunOK
    <3> QED BY <1>5, <2>2, <3>1 DEF InTurn
  <2> QED BY <2>1, <2>2
<1>8. RunOK(w, h, c, n + 1, r2)
  BY <1>1, <1>5, <1>7 DEF RunOK
<1> QED BY <1>1, <1>3, <1>8 DEF TurnOK

\* A run without a change of health that ends has had its turn.
LEMMA TurnEnds ==
    ASSUME NEW w, NEW h, NEW c, NEW n, NEW wt, NEW r, TurnOK(w, h, c, n, wt, r), h[c],
           r.still, r.inst # c
    PROVE  r.n = w[r.inst]
<1>1. c \in Insts /\ RunOK(w, h, c, n, r)
  BY DEF TurnOK
<1>2. InTurn(h, c, n, r) \/ TurnDone(w, h, c, n, r) \/ Alone(h, r)
  BY <1>1 DEF RunOK
<1>3. ~ InTurn(h, c, n, r) /\ ~ Alone(h, r)
  BY <1>1 DEF InTurn, Alone
<1> QED BY <1>2, <1>3 DEF TurnDone

\* A call that passes no turn: all waits are over, and no run without a change of
\* health ends.
LEMMA TurnReset ==
    ASSUME N \in Nat \ {0}, NEW w \in [Insts -> Nat \ {0}], NEW h, NEW c \in Insts,
           NEW wt \in [Insts -> Nat], \A i \in Insts : wt[i] = 0,
           NEW r \in RunType, r.still => r.inst \in Insts /\ h[r.inst] /\ Alone(h, r)
    PROVE  TurnOK(w, h, c, 0, wt, r)
<1>1. 0 \in 0 .. w[c]
  OBVIOUS
<1>2. \A i \in Insts : Total(w, Insts \ {i}) \in Nat /\ Total(w, Passed(i, c)) \in Nat
  <2>1. \A i \in Insts : Insts \ {i} \in SUBSET Insts /\ Passed(i, c) \in SUBSET Insts
    BY DEF Passed
  <2> QED BY <2>1, TotalInsts
<1>3. WaitOK(w, h, c, 0, wt)
  BY <1>2 DEF WaitOK
<1>4. RunOK(w, h, c, 0, r)
  BY DEF RunOK
<1> QED BY <1>1, <1>3, <1>4 DEF TurnOK

LEMMA TurnSole ==
    ASSUME N = 1, NEW w \in [Insts -> Nat \ {0}], NEW h, NEW c, NEW n, NEW wt, NEW r,
           TurnOK(w, h, c, n, wt, r), h[c],
           NEW wt2 \in [Insts -> Nat], \A i \in Insts : wt2[i] = 0, NEW r2 \in RunType, r2.inst = c
    PROVE  /\ TurnOK(w, h, c, n, wt2, r2)
           /\ r.still => r.inst = c
<1>1. Insts = {1} /\ c = 1 /\ n \in 0 .. w[c] /\ N \in Nat \ {0} /\ n \in Nat
  <2>1. Insts = {1}
    BY DEF Insts
  <2> QED BY <2>1 DEF TurnOK
<1>2. \A i \in Insts : Total(w, Insts \ {i}) \in Nat /\ Total(w, Passed(i, c)) \in Nat
  <2>1. \A i \in Insts : Insts \ {i} \in SUBSET Insts /\ Passed(i, c) \in SUBSET Insts
    BY DEF Passed
  <2> QED BY <1>1, <2>1, TotalInsts
<1>3. WaitOK(w, h, c, n, wt2)
  BY <1>1, <1>2 DEF WaitOK
<1>4. RunOK(w, h, c, n, r2)
  BY <1>1 DEF RunOK, Alone
<1>5. r.still => r.inst = c
  BY <1>1 DEF TurnOK, RunOK
<1> QED BY <1>1, <1>3, <1>4, <1>5 DEF TurnOK

\* The health of i changes.
LEMMA TurnFlap ==
    ASSUME NEW w, NEW h \in [Insts -> BOOLEAN], NEW h2, NEW i \in Insts, h2 = [h EXCEPT ![i] = ~ @],
           NEW c, NEW n, NEW wt \in [Insts -> Nat], NEW r, TurnOK(w, h, c, n, wt, r),
           N \in Nat \ {0}, w \in [Insts -> Nat \ {0}]
    PROVE  TurnOK(w, h2, c, n, [wt EXCEPT ![i] = 0], [r EXCEPT !.still = FALSE])
<1>1. c \in Insts /\ n \in 0 .. w[c] /\ WaitOK(w, h, c, n, wt) /\ RunOK(w, h, c, n, r) /\ n \in Nat
  BY DEF TurnOK
<1>2. PICK wt2 : wt2 = [wt EXCEPT ![i] = 0]
  OBVIOUS
<1>3. \A j \in Insts : wt2[j] = IF j = i THEN 0 ELSE wt[j]
  BY <1>2
<1>4. \A j \in Insts : Total(w, Insts \ {j}) \in Nat /\ Total(w, Passed(j, c)) \in Nat
  <2>1. \A j \in Insts : Insts \ {j} \in SUBSET Insts /\ Passed(j, c) \in SUBSET Insts
    BY DEF Passed
  <2> QED BY <2>1, TotalInsts
<1>5. WaitOK(w, h2, c, n, wt2)
  <2> SUFFICES ASSUME NEW j \in Insts
               PROVE  /\ wt2[j] <= Total(w, Insts \ {j})
                      /\ h2[j] => /\ wt2[j] <= Total(w, Passed(j, c)) + (IF c = j THEN 0 ELSE n)
                                  /\ c = j /\ n > 0 => wt2[j] = 0
    BY DEF WaitOK
  <2>1. CASE j = i
    <3>1. PICK a, b \in Nat : a = Total(w, Insts \ {j}) /\ b = Total(w, Passed(j, c))
      BY <1>4
    <3> QED BY <1>1, <1>3, <2>1, <3>1
  <2>2. CASE j # i
    <3>1. h2[j] = h[j] /\ wt2[j] = wt[j]
      BY <1>3, <2>2
    <3> QED BY <1>1, <3>1 DEF WaitOK
  <2> QED BY <2>1, <2>2
<1>6. RunOK(w, h2, c, n, [r EXCEPT !.still = FALSE])
  <2>1. r \in RunType /\ (n > 0 => r.inst = c)
    BY <1>1 DEF RunOK
  <2>2. [r EXCEPT !.still = FALSE] \in RunType /\ ~ [r EXCEPT !.still = FALSE].still
        /\ [r EXCEPT !.still = FALSE].inst = r.inst
    BY <2>1 DEF RunType
  <2> QED BY <2>1, <2>2 DEF RunOK
<1> QED BY <1>1, <1>2, <1>5, <1>6 DEF TurnOK

-----------------------------------------------------------------------------
(* What holds of the turns under the strategies that have an order.        *)

\* What a call has seen: with which health it began, how far it is from the turn of each
\* instance that has stayed healthy, and what it has read.
CallOK(s, h, cur, cnt, still, r) ==
    r.pc # "idle" =>
       /\ r.up \subseteq {i \in Insts : h[i]}
       /\ still => r.still
       /\ s # "splitter" => r.still
       /\ r.pc # "nil" => r.list = All
       /\ r.k > 0 => cnt = 0
       /\ r.pc = "splitter" => /\ r.still => r.up = {i \in Insts : h[i]}
                               /\ \A i \in r.up : r.k + Ahead(cur + 1, i) <= N
       /\ r.pc = "nil" /\ r.still => \A i \in Insts : ~ h[i]
       /\ r.pc \in {"weighted_rr", "attempt"} => r.k <= 1
       /\ r.pc = "attempt" => r.val = cnt /\ r.best = (cur % N) + 1

Turn == TurnOK(Weights, healthy, (current % N) + 1, counter, wait, run)

Counters ==
    /\ scene.strategy = "round_robin" => counter = 0
    /\ scene.strategy = "splitter" => current < N
    /\ scene.strategy # "splitter" => \A i \in Insts : healthy[i]

Calls == \A p \in Pickers : CallOK(scene.strategy, healthy, current, counter, run.still, pick[p])

Fair == Ordered => Turn /\ Counters /\ Calls

\* A step that ends a run without a change of health ends a whole turn.
ShareStep == run.still /\ run'.inst # run.inst => run.n = Weights[run.inst]

LEMMA WeightsSame == ASSUME UNCHANGED scene PROVE Weights' = Weights
BY DEF Weights, W, recalcWeights, computeWeights, Weight, MaxPing

LEMMA TurnSame ==
    ASSUME UNCHANGED scene, TurnOK(Weights, healthy', (current' % N) + 1, counter', wait', run') PROVE Turn'
BY WeightsSame DEF Turn

LEMMA OneCaller ==
    ASSUME BalancerAssumption, Typed, Ordered, scene.strategy # "round_robin",
           NEW p \in Pickers, p \in scene.pickers, NEW q \in Pickers, q # p
    PROVE  pick[q].pc = "idle"
<1>1. \A x, y \in scene.pickers : x = y
  <2>1. CASE scene.strategy = "splitter"
    BY <2>1 DEF BalancerAssumption, Typed
  <2>2. CASE scene.strategy # "splitter"
    <3>1. Cardinality(scene.pickers) = 1 /\ IsFiniteSet(scene.pickers)
      BY <2>2, SettingFacts DEF Ordered
    <3>2. PICK x : scene.pickers = {x}
      BY <3>1, FS_Singleton
    <3> QED BY <3>2
  <2> QED BY <2>1, <2>2
<1> QED BY <1>1 DEF Typed, PickOK

LEMMA CallsStep ==
    ASSUME BalancerAssumption, Typed, Ordered, Counters, Calls, NEW p \in Pickers, p \in scene.pickers,
           NEW r, pick' = [pick EXCEPT ![p] = r], UNCHANGED <<scene, healthy>>,
           CallOK(scene.strategy, healthy, current', counter', run'.still, r),
           scene.strategy = "round_robin" => counter' = 0
    PROVE  Calls'
<1>1. \A q \in Pickers : pick'[q] = IF q = p THEN r ELSE pick[q]
  BY DEF Typed
<1>2. ASSUME NEW q \in Pickers, q # p
      PROVE  CallOK(scene.strategy, healthy, current', counter', run'.still, pick[q])
  <2>1. CASE scene.strategy = "round_robin"
    <3>1. CallOK(scene.strategy, healthy, current, counter, run.still, pick[q]) /\ PickOK(q, pick[q])
      BY DEF Calls, Typed
    <3> QED BY <2>1, <3>1 DEF CallOK, PickOK, Strategies
  <2>2. CASE scene.strategy # "round_robin"
    BY <1>2, <2>2, OneCaller DEF CallOK
  <2> QED BY <2>1, <2>2
<1>3. \A q \in Pickers : CallOK(scene.strategy, healthy, current', counter', run'.still, pick'[q])
  BY <1>1, <1>2
<1> QED BY <1>3 DEF Calls

LEMMA ReturnsFacts ==
    ASSUME BalancerAssumption, Typed, Ordered, NEW p \in Pickers, p \in scene.pickers,
           NEW i \in Insts, Returns(p, i), run \in RunType
    PROVE  /\ pick' = [pick EXCEPT ![p] = NoPick]
           /\ wait' \in [Insts -> Nat] /\ Served(i, pick[p].up, wait, wait')
           /\ Ran(Weights, i, pick[p].still, run, run')
           /\ pick[p].still \in BOOLEAN
<1>1. pick' = [pick EXCEPT ![p] = NoPick]
  BY DEF Returns, Ordered
<1>2. wait' \in [Insts -> Nat]
  BY ReturnsStep
<1>3. ASSUME NEW j \in Insts
      PROVE  IF j = i \/ j \notin pick[p].up THEN wait'[j] = 0 ELSE wait'[j] <= wait[j] + 1
  <2>1. wait[j] + 1 \in Nat /\ MaxWait \in Nat
    BY DEF Typed, BalancerAssumption
  <2>2. Min({wait[j] + 1, MaxWait}) <= wait[j] + 1
    BY <2>1, BMin
  <2> QED BY <2>2 DEF Returns
<1>4. Ran(Weights, i, pick[p].still, run, run')
  <2>1. Weights[i] = W(i)
    BY DEF Weights
  <2> QED BY <2>1 DEF Returns, Ran
<1>5. pick[p].still \in BOOLEAN
  BY PickFields DEF Typed
<1> QED BY <1>1, <1>2, <1>3, <1>4, <1>5 DEF Served

LEMMA TurnTypes ==
    ASSUME BalancerAssumption, Typed, Turn
    PROVE  /\ N \in Nat \ {0} /\ Weights \in [Insts -> Nat \ {0}] /\ healthy \in [Insts -> BOOLEAN]
           /\ wait \in [Insts -> Nat] /\ run \in RunType /\ current \in Nat /\ counter \in Nat
           /\ (current % N) + 1 \in Insts
           /\ ((current + 1) % N) + 1 = After((current % N) + 1)
           /\ (((current + 1) % Period) % N) + 1 = After((current % N) + 1)
           /\ current < N => current % N = current
<1>1. /\ N \in Nat \ {0} /\ Weights \in [Insts -> Nat \ {0}] /\ healthy \in [Insts -> BOOLEAN]
      /\ wait \in [Insts -> Nat] /\ counter \in Nat
  BY WeightsFacts, SettingFacts DEF Typed
<1>2. Period \in Nat /\ Period > 0 /\ Period % N = 0 /\ current \in Nat /\ current < Period
  BY SettingFacts DEF Typed, BalancerAssumption, Insts
<1>3. run \in RunType
  BY DEF Turn, TurnOK, RunOK
<1>4. (current % N) + 1 \in 1 .. N /\ ((current + 1) % N) + 1 = After((current % N) + 1)
  <2>1. /\ (current % N) + 1 \in 1 .. N
        /\ ((current + 1) % N) + 1 = IF (current % N) + 1 = N THEN 1 ELSE (current % N) + 2
    BY <1>1, <1>2, ModAfter
  <2> QED BY <1>1, <1>2, <2>1 DEF After
<1>5. (((current + 1) % Period) % N) + 1 = ((current + 1) % N) + 1
  <2>1. CASE current + 1 < Period
    BY <1>2, <2>1
  <2>2. CASE ~ (current + 1 < Period)
    <3>1. current + 1 = Period /\ (current + 1) % Period = 0
      BY <1>2, <2>2
    <3> QED BY <1>1, <1>2, <3>1
  <2> QED BY <2>1, <2>2
<1>6. current < N => current % N = current
  BY <1>1, <1>2
<1> QED BY <1>1, <1>2, <1>3, <1>4, <1>5, <1>6 DEF Insts

LEMMA BeginFair ==
    ASSUME BalancerAssumption, Typed, Ordered, Turn, Counters, Calls, NEW p \in Pickers, Begin(p)
    PROVE  Turn' /\ Counters' /\ Calls' /\ ShareStep
<1>1. PICK list :
        /\ list = IF scene.strategy = "splitter" THEN All ELSE Filter(All, {i \in Insts : healthy[i]})
        /\ pick' = [pick EXCEPT ![p] = [NoPick EXCEPT !.pc = scene.strategy, !.list = list,
                                          !.up = {i \in Insts : healthy[i]}]]
  BY DEF Begin
<1>2. UNCHANGED <<scene, healthy, load, current, counter, wait, run>> /\ p \in scene.pickers
  BY DEF Begin
<1>3. Turn' /\ Counters' /\ ShareStep
  BY <1>2, TurnSame DEF Turn, Counters, ShareStep
<1>4. list = All
  <2>1. CASE scene.strategy = "splitter"
    BY <1>1, <2>1
  <2>2. CASE scene.strategy # "splitter"
    <3>1. {i \in Insts : healthy[i]} = Insts
      BY <2>2 DEF Counters
    <3>2. list = Filter(All, Insts)
      BY <1>1, <2>2, <3>1
    <3>3. All \in Seq(Insts) /\ \A i \in 1 .. Len(All) : All[i] \in Insts
      BY AllFacts
    <3> QED BY <3>2, <3>3, FilterAll
  <2> QED BY <2>1, <2>2
<1> DEFINE r == [NoPick EXCEPT !.pc = scene.strategy, !.list = list, !.up = {i \in Insts : healthy[i]}]
<1>5. pick' = [pick EXCEPT ![p] = r]
  BY <1>1
<1>6. /\ r.up = {i \in Insts : healthy[i]} /\ r.still /\ r.k = 0 /\ r.list = All /\ r.pc = scene.strategy
  BY <1>4 DEF NoPick
<1> HIDE DEF r
<1>7. scene.strategy \in {"splitter", "round_robin", "weighted_rr"}
  BY DEF Ordered
<1>8. scene.strategy = "splitter" => \A i \in Insts : 0 + Ahead(current + 1, i) <= N
  <2> SUFFICES ASSUME scene.strategy = "splitter", NEW i \in Insts PROVE 0 + Ahead(current + 1, i) <= N
    OBVIOUS
  <2>1. current + 1 \in Insts
    BY TurnTypes DEF Counters
  <2>2. Ahead(current + 1, i) \in 0 .. N - 1 /\ N \in Nat
    BY <2>1, TurnTypes, AfterFacts
  <2> QED BY <2>2
<1>9. CallOK(scene.strategy, healthy, current', counter', run'.still, r)
  BY <1>2, <1>6, <1>7, <1>8 DEF CallOK
<1>10. Calls'
  BY <1>2, <1>5, <1>9, CallsStep DEF Counters
<1> QED BY <1>3, <1>10

LEMMA PickServes ==
    ASSUME BalancerAssumption, Typed, Ordered, Turn, NEW p \in Pickers, p \in scene.pickers,
           NEW c, NEW n, TurnOK(Weights, healthy, c, n, wait, run), n < Weights[c], healthy[c],
           pick[p].up \subseteq {i \in Insts : healthy[i]}, Returns(p, c)
    PROVE  /\ pick' = [pick EXCEPT ![p] = NoPick] /\ wait' \in [Insts -> Nat]
           /\ TurnOK(Weights, healthy, c, n + 1, wait', run') /\ ShareStep
<1>1. c \in Insts
  BY DEF TurnOK
<1>2. /\ pick' = [pick EXCEPT ![p] = NoPick] /\ wait' \in [Insts -> Nat]
      /\ Served(c, pick[p].up, wait, wait') /\ Ran(Weights, c, pick[p].still, run, run')
      /\ pick[p].still \in BOOLEAN
  BY <1>1, TurnTypes, ReturnsFacts
<1>3. /\ N \in Nat \ {0} /\ Weights \in [Insts -> Nat \ {0}] /\ healthy \in [Insts -> BOOLEAN]
      /\ wait \in [Insts -> Nat]
  BY TurnTypes
<1>4. PICK up, still, r2 : up = pick[p].up /\ still = pick[p].still /\ r2 = run'
  OBVIOUS
<1>5. (\A i \in Insts : i \in up => healthy[i]) /\ still \in BOOLEAN
  BY <1>2, <1>4
<1>6. Served(c, up, wait, wait') /\ Ran(Weights, c, still, run, r2)
  BY <1>2, <1>4
<1>7. TurnOK(Weights, healthy, c, n + 1, wait', r2)
  BY <1>2, <1>3, <1>5, <1>6, TurnServes, Z3
<1>8. r2.inst = c
  BY <1>1, <1>3, <1>5, <1>6, RanFacts, TurnTypes
<1>9. run.still /\ r2.inst # run.inst => run.n = Weights[run.inst]
  BY <1>8, TurnEnds
<1> QED BY <1>2, <1>4, <1>7, <1>9 DEF ShareStep

LEMMA RoundRobinFair ==
    ASSUME BalancerAssumption, Typed, Ordered, Turn, Counters, Calls, NEW p \in Pickers, RoundRobinPick(p)
    PROVE  Turn' /\ Counters' /\ Calls' /\ ShareStep
<1> DEFINE c == (current % N) + 1
<1>1. /\ pick[p].pc = "round_robin" /\ scene.strategy = "round_robin" /\ p \in scene.pickers
      /\ pick[p].list = All /\ pick[p].up \subseteq {i \in Insts : healthy[i]}
  <2>1. pick[p].pc = "round_robin" /\ scene.strategy = "round_robin" /\ p \in scene.pickers
    BY DEF RoundRobinPick, At, Typed, PickOK, Strategies
  <2> QED BY <2>1 DEF Calls, CallOK
<1>2. UNCHANGED <<scene, healthy, load, counter>> /\ current' = (current + 1) % Period
  BY DEF RoundRobinPick
<1>3. c \in Insts /\ Returns(p, c)
  <2>1. Returns(p, All[(current % Len(All)) + 1]) /\ Len(All) = N
    BY <1>1, AllFacts DEF RoundRobinPick
  <2>2. c \in Insts
    BY TurnTypes
  <2>3. All[c] = c
    BY <2>2 DEF All
  <2> QED BY <2>1, <2>2, <2>3
<1>5. counter = 0 /\ healthy[c] /\ Weights[c] = 1
  <2> HIDE DEF c
  <2> QED BY <1>1, <1>3, WeightsFacts DEF Counters
<1>6. TurnOK(Weights, healthy, c, counter, wait, run) /\ counter < Weights[c]
  BY <1>5 DEF Turn
<1>7. /\ pick' = [pick EXCEPT ![p] = NoPick] /\ wait' \in [Insts -> Nat]
      /\ TurnOK(Weights, healthy, c, 1, wait', run') /\ ShareStep
  <2> HIDE DEF c
  <2>1. /\ pick' = [pick EXCEPT ![p] = NoPick] /\ wait' \in [Insts -> Nat]
        /\ TurnOK(Weights, healthy, c, counter + 1, wait', run') /\ ShareStep
    BY <1>1, <1>3, <1>5, <1>6, PickServes
  <2> QED BY <1>5, <2>1
<1>8. TurnOK(Weights, healthy, After(c), 0, wait', run')
  <2> HIDE DEF c
  <2> QED BY <1>5, <1>7, TurnTypes, TurnMoves
<1>9. (current' % N) + 1 = After(c)
  BY <1>2, TurnTypes
<1>10. Turn'
  BY <1>2, <1>5, <1>8, <1>9, TurnSame
<1>11. Counters'
  BY <1>1, <1>2 DEF Counters
<1>12. Calls'
  <2>1. CallOK(scene.strategy, healthy, current', counter', run'.still, NoPick)
    BY DEF CallOK, NoPick
  <2> QED BY <1>1, <1>2, <1>5, <1>7, <2>1, CallsStep
<1> QED BY <1>7, <1>10, <1>11, <1>12

\* A step that changes nothing the turns are about.
LEMMA NoTurn ==
    ASSUME Turn, UNCHANGED <<scene, healthy, current, counter, wait, run>>
    PROVE  Turn' /\ ShareStep
BY TurnSame DEF Turn, ShareStep

LEMMA IdleOK ==
    ASSUME NEW s, NEW h, NEW cur, NEW cnt, NEW still PROVE CallOK(s, h, cur, cnt, still, NoPick)
BY DEF CallOK, NoPick

LEMMA WeightedReadFair ==
    ASSUME BalancerAssumption, Typed, Ordered, Turn, Counters, Calls, NEW p \in Pickers, WeightedRead(p)
    PROVE  Turn' /\ Counters' /\ Calls' /\ ShareStep
<1> DEFINE c == (current % N) + 1
<1>1. /\ pick[p].pc = "weighted_rr" /\ scene.strategy = "weighted_rr" /\ p \in scene.pickers
      /\ pick[p] \in PickType
  BY DEF WeightedRead, At, Typed, PickOK, Strategies
<1>2. CallOK(scene.strategy, healthy, current, counter, run.still, pick[p])
  BY DEF Calls
<1>3. /\ pick[p].list = All /\ pick[p].up \subseteq {i \in Insts : healthy[i]} /\ pick[p].k \in Nat
      /\ pick[p].k <= 1 /\ pick[p].still /\ (pick[p].k > 0 => counter = 0)
  BY <1>1, <1>2, PickFields DEF CallOK
<1>4. UNCHANGED <<scene, healthy, load, current, counter>>
  BY DEF WeightedRead
<1>5. Len(All) = N /\ N \in Nat \ {0} /\ c \in Insts /\ \A i \in Insts : All[i] = i
  BY AllFacts, TurnTypes DEF All
<1>6. Counters'
  BY <1>4 DEF Counters
<1>7. CASE /\ pick' = [pick EXCEPT ![p].pc = "attempt", ![p].val = counter, ![p].best = c]
           /\ UNCHANGED <<wait, run>>
  <2> DEFINE r == [pick[p] EXCEPT !.pc = "attempt", !.val = counter, !.best = c]
  <2>1. pick' = [pick EXCEPT ![p] = r]
    BY <1>1, <1>7 DEF Typed, PickType
  <2>2. /\ r.pc = "attempt" /\ r.val = counter /\ r.best = c /\ r.up = pick[p].up /\ r.list = pick[p].list
        /\ r.k = pick[p].k /\ r.still = pick[p].still
    BY <1>1 DEF PickType
  <2> HIDE DEF r
  <2>3. CallOK(scene.strategy, healthy, current', counter', run'.still, r)
    BY <1>3, <1>4, <1>7, <2>2 DEF CallOK
  <2>4. Calls'
    BY <1>1, <1>4, <2>1, <2>3, CallsStep
  <2> QED BY <1>4, <1>6, <1>7, <2>4, NoTurn
<1>8. CASE N = 1 /\ Returns(p, 1)
  <2>1. Insts = {1} /\ c = 1
    BY <1>5, <1>8 DEF Insts
  <2>2. /\ pick' = [pick EXCEPT ![p] = NoPick] /\ wait' \in [Insts -> Nat]
        /\ Served(1, pick[p].up, wait, wait') /\ Ran(Weights, 1, pick[p].still, run, run')
        /\ pick[p].still \in BOOLEAN
    BY <1>1, <1>8, <2>1, TurnTypes, ReturnsFacts
  <2>3. \A i \in Insts : wait'[i] = 0
    BY <2>1, <2>2 DEF Served
  <2>4. PICK still, r2 : still = pick[p].still /\ r2 = run'
    OBVIOUS
  <2>5. r2 \in RunType /\ r2.inst = 1
    <3>1. still \in BOOLEAN /\ Ran(Weights, 1, still, run, r2) /\ 1 \in Insts
      BY <2>1, <2>2, <2>4
    <3> QED BY <3>1, RanFacts, TurnTypes
  <2>6. TurnOK(Weights, healthy, 1, counter, wait, run) /\ healthy[1] /\ Weights \in [Insts -> Nat \ {0}]
    BY <1>1, <2>1, TurnTypes DEF Turn, Counters
  <2>7. TurnOK(Weights, healthy, 1, counter, wait', r2) /\ (run.still => run.inst = 1)
    BY <1>8, <2>2, <2>3, <2>5, <2>6, TurnSole, Z3
  <2>8. Turn'
    BY <1>4, <2>1, <2>4, <2>7, TurnSame
  <2>9. ShareStep
    BY <2>4, <2>5, <2>7 DEF ShareStep
  <2>10. Calls'
    BY <1>1, <1>4, <2>2, CallsStep, IdleOK
  <2> QED BY <1>6, <2>8, <2>9, <2>10
<1>9. (N = 1 /\ Returns(p, 1)) \/ (/\ pick' = [pick EXCEPT ![p].pc = "attempt", ![p].val = counter, ![p].best = c]
                               /\ UNCHANGED <<wait, run>>)
  <2>1. pick[p].k # 2 * Len(pick[p].list)
    BY <1>3, <1>5
  <2>2. All[c] = c /\ All[1] = 1
    BY <1>5 DEF Insts
  <2> QED BY <1>3, <1>5, <2>1, <2>2 DEF WeightedRead
<1> QED BY <1>7, <1>8, <1>9

LEMMA WeightedWriteFair ==
    ASSUME BalancerAssumption, Typed, Ordered, Turn, Counters, Calls, NEW p \in Pickers, WeightedWrite(p)
    PROVE  Turn' /\ Counters' /\ Calls' /\ ShareStep
<1> DEFINE c == (current % N) + 1
<1>1. /\ pick[p].pc = "attempt" /\ scene.strategy = "weighted_rr" /\ p \in scene.pickers
      /\ pick[p] \in PickType
  BY DEF WeightedWrite, Typed, PickOK
<1>2. CallOK(scene.strategy, healthy, current, counter, run.still, pick[p])
  BY DEF Calls
<1>3. /\ pick[p].list = All /\ pick[p].up \subseteq {i \in Insts : healthy[i]} /\ pick[p].k \in Nat
      /\ pick[p].k <= 1 /\ pick[p].still /\ (pick[p].k > 0 => counter = 0)
      /\ pick[p].val = counter /\ pick[p].best = c
  BY <1>1, <1>2, PickFields DEF CallOK
<1>4. UNCHANGED <<scene, healthy, load>>
  BY DEF WeightedWrite
<1>5. c \in Insts /\ computeWeights(All)[c] = Weights[c] /\ healthy[c]
  BY <1>1, TurnTypes, WeightsFacts DEF Counters
<1>6. TurnOK(Weights, healthy, c, counter, wait, run) /\ counter \in Nat /\ Weights[c] \in Nat \ {0}
  BY <1>5, TurnTypes DEF Turn
<1>7. Counters'
  BY <1>1, <1>4 DEF Counters
<1> HIDE DEF c
<1>8. CASE counter < Weights[c] /\ counter' = counter + 1 /\ Returns(p, c) /\ UNCHANGED current
  <2>1. /\ pick' = [pick EXCEPT ![p] = NoPick]
        /\ TurnOK(Weights, healthy, c, counter + 1, wait', run') /\ ShareStep
    BY <1>1, <1>3, <1>5, <1>6, <1>8, PickServes
  <2>2. Turn'
    BY <1>4, <1>8, <2>1, TurnSame DEF c
  <2>3. Calls'
    BY <1>1, <1>4, <2>1, CallsStep, IdleOK
  <2> QED BY <1>7, <2>1, <2>2, <2>3
<1>9. CASE /\ ~ (counter < Weights[c]) /\ counter' = 0 /\ current' = (current + 1) % Period
           /\ pick' = [pick EXCEPT ![p].pc = "weighted_rr", ![p].k = @ + 1]
           /\ UNCHANGED <<wait, run>>
  <2> DEFINE r == [pick[p] EXCEPT !.pc = "weighted_rr", !.k = @ + 1]
  <2>1. pick' = [pick EXCEPT ![p] = r]
    BY <1>1, <1>9 DEF Typed, PickType
  <2>2. /\ r.pc = "weighted_rr" /\ r.up = pick[p].up /\ r.list = pick[p].list
        /\ r.k = pick[p].k + 1 /\ r.still = pick[p].still
    BY <1>1 DEF PickType
  <2>3. pick[p].k = 0
    BY <1>3, <1>6, <1>9
  <2> HIDE DEF r
  <2>4. CallOK(scene.strategy, healthy, current', counter', run'.still, r)
    BY <1>1, <1>3, <1>9, <2>2, <2>3 DEF CallOK
  <2>5. Calls'
    BY <1>1, <1>4, <2>1, <2>4, CallsStep
  <2>6. counter = Weights[c]
    BY <1>6, <1>9 DEF TurnOK
  <2>7. TurnOK(Weights, healthy, After(c), 0, wait, run)
    BY <1>6, <2>6, TurnTypes, TurnMoves
  <2>8. (current' % N) + 1 = After(c)
    BY <1>9, TurnTypes DEF c
  <2>9. Turn'
    BY <1>4, <1>9, <2>7, <2>8, TurnSame
  <2> QED BY <1>7, <1>9, <2>5, <2>9 DEF ShareStep
<1> QED BY <1>3, <1>5, <1>8, <1>9 DEF WeightedWrite

\* Where pickInstance looks, when the turn of the current instance is over or not.
LEMMA SplitterTurn ==
    ASSUME BalancerAssumption, Typed, Ordered, Turn, Counters, Calls, NEW p \in Pickers, SplitterAttempt(p)
    PROVE  \E cur \in 0 .. N - 1, m \in Nat :
              /\ TurnOK(Weights, healthy, cur + 1, m, wait, run) /\ m < Weights[cur + 1]
              /\ \A i \in pick[p].up : pick[p].k + Ahead(cur + 1, i) <= N
              /\ IF healthy[cur + 1]
                 THEN Returns(p, cur + 1) /\ current' = cur /\ counter' = m + 1
                 ELSE /\ current' = (cur + 1) % N /\ counter' = 0
                      /\ pick' = [pick EXCEPT ![p].k = @ + 1] /\ UNCHANGED <<wait, run>>
<1>1. /\ pick[p].pc = "splitter" /\ scene.strategy = "splitter" /\ pick[p].k \in Nat
  BY PickFields DEF SplitterAttempt, At, Typed, PickOK, Strategies
<1>2. /\ N \in Nat \ {0} /\ current \in Nat /\ current < N /\ current + 1 \in Insts
      /\ TurnOK(Weights, healthy, current + 1, counter, wait, run)
      /\ counter \in Nat /\ \A i \in Insts : Weights[i] \in Nat \ {0}
      /\ ((current + 1) % N) + 1 = After(current + 1)
  <2>1. current < N /\ current % N = current
    BY <1>1, TurnTypes DEF Counters
  <2> QED BY <2>1, TurnTypes DEF Turn
<1>3. recalcWeights(All)[current + 1] = Weights[current + 1]
  BY <1>1, <1>2, WeightsFacts
<1>4. /\ pick[p].up \subseteq Insts /\ (pick[p].k > 0 => counter = 0)
      /\ \A i \in pick[p].up : pick[p].k + Ahead(current + 1, i) <= N
  <2>1. CallOK(scene.strategy, healthy, current, counter, run.still, pick[p])
    BY DEF Calls
  <2> QED BY <1>1, <2>1 DEF CallOK
<1>5. CASE counter >= Weights[current + 1]
  <2>1. PICK cur : cur = (current + 1) % N
    OBVIOUS
  <2>2. cur \in 0 .. N - 1 /\ cur + 1 = After(current + 1)
    BY <1>2, <2>1
  <2>3. counter = Weights[current + 1] /\ pick[p].k = 0
    BY <1>1, <1>2, <1>4, <1>5 DEF TurnOK
  <2>4. TurnOK(Weights, healthy, cur + 1, 0, wait, run)
    BY <1>2, <2>2, <2>3, TurnTypes, TurnMoves
  <2>5. cur + 1 \in Insts /\ 0 < Weights[cur + 1]
    BY <1>2, <2>4 DEF TurnOK
  <2>6. \A i \in Insts : Ahead(cur + 1, i) \in 0 .. N - 1
    BY <1>2, <2>5, AfterFacts
  <2>7. \A i \in pick[p].up : pick[p].k + Ahead(cur + 1, i) <= N
    BY <1>2, <1>4, <2>3, <2>6
  <2>8. IF healthy[cur + 1]
        THEN Returns(p, cur + 1) /\ current' = cur /\ counter' = 0 + 1
        ELSE /\ current' = (cur + 1) % N /\ counter' = 0
             /\ pick' = [pick EXCEPT ![p].k = @ + 1] /\ UNCHANGED <<wait, run>>
    BY <1>3, <1>5, <2>1 DEF SplitterAttempt
  <2> QED BY <2>2, <2>4, <2>5, <2>7, <2>8
<1>6. CASE ~ (counter >= Weights[current + 1])
  <2>1. counter < Weights[current + 1] /\ current \in 0 .. N - 1
    BY <1>2, <1>6
  <2>2. IF healthy[current + 1]
        THEN Returns(p, current + 1) /\ current' = current /\ counter' = counter + 1
        ELSE /\ current' = (current + 1) % N /\ counter' = 0
             /\ pick' = [pick EXCEPT ![p].k = @ + 1] /\ UNCHANGED <<wait, run>>
    BY <1>3, <1>6 DEF SplitterAttempt
  <2> QED BY <1>2, <1>4, <2>1, <2>2
<1> QED BY <1>5, <1>6

LEMMA SplitterAttemptFair ==
    ASSUME BalancerAssumption, Typed, Ordered, Turn, Counters, Calls, NEW p \in Pickers, SplitterAttempt(p)
    PROVE  Turn' /\ Counters' /\ Calls' /\ ShareStep
<1>1. PICK cur \in 0 .. N - 1, m \in Nat :
              /\ TurnOK(Weights, healthy, cur + 1, m, wait, run) /\ m < Weights[cur + 1]
              /\ \A i \in pick[p].up : pick[p].k + Ahead(cur + 1, i) <= N
              /\ IF healthy[cur + 1]
                 THEN Returns(p, cur + 1) /\ current' = cur /\ counter' = m + 1
                 ELSE /\ current' = (cur + 1) % N /\ counter' = 0
                      /\ pick' = [pick EXCEPT ![p].k = @ + 1] /\ UNCHANGED <<wait, run>>
  BY SplitterTurn
<1>2. /\ pick[p].pc = "splitter" /\ scene.strategy = "splitter" /\ p \in scene.pickers
      /\ pick[p] \in PickType /\ pick[p].k \in Nat
  BY PickFields DEF SplitterAttempt, At, Typed, PickOK, Strategies
<1>3. CallOK(scene.strategy, healthy, current, counter, run.still, pick[p])
  BY DEF Calls
<1>4. UNCHANGED <<scene, healthy, load>>
  BY DEF SplitterAttempt
<1>5. N \in Nat \ {0} /\ cur \in Nat /\ cur < N /\ cur + 1 \in Insts
  BY <1>1, TurnTypes DEF TurnOK
<1>6. CASE healthy[cur + 1]
  <2>1. Returns(p, cur + 1) /\ current' = cur /\ counter' = m + 1
    BY <1>1, <1>6
  <2>2. pick[p].up \subseteq {i \in Insts : healthy[i]}
    BY <1>2, <1>3 DEF CallOK
  <2>3. /\ pick' = [pick EXCEPT ![p] = NoPick]
        /\ TurnOK(Weights, healthy, cur + 1, m + 1, wait', run') /\ ShareStep
    BY <1>1, <1>2, <1>6, <2>1, <2>2, PickServes
  <2>4. current' % N = cur
    BY <1>5, <2>1
  <2>5. Turn'
    BY <1>4, <2>1, <2>3, <2>4, TurnSame
  <2>6. Counters'
    BY <1>2, <1>4, <1>5, <2>1 DEF Counters
  <2>7. Calls'
    BY <1>2, <1>4, <2>3, CallsStep, IdleOK
  <2> QED BY <2>3, <2>5, <2>6, <2>7
<1>7. CASE ~ healthy[cur + 1]
  <2>1. /\ current' = (cur + 1) % N /\ counter' = 0
        /\ pick' = [pick EXCEPT ![p].k = @ + 1] /\ UNCHANGED <<wait, run>>
    BY <1>1, <1>7
  <2>2. TurnOK(Weights, healthy, After(cur + 1), 0, wait, run)
    BY <1>1, <1>7, TurnTypes, TurnMoves
  <2>3. current' + 1 = After(cur + 1) /\ current' \in Nat /\ current' < N
    <3>1. cur % N = cur
      BY <1>5
    <3>2. ((cur + 1) % N) + 1 = IF (cur % N) + 1 = N THEN 1 ELSE (cur % N) + 2
      BY <1>5, ModAfter
    <3>3. (cur + 1) % N \in 0 .. N - 1
      BY <1>5
    <3> QED BY <1>5, <2>1, <3>1, <3>2, <3>3 DEF After
  <2>4. current' % N = current'
    <3>1. \A a \in Nat : a < N => a % N = a
      BY <1>5
    <3> QED BY <2>3, <3>1
  <2>5. Turn' /\ ShareStep
    BY <1>4, <2>1, <2>2, <2>3, <2>4, TurnSame DEF ShareStep
  <2>6. Counters'
    BY <1>2, <1>4, <2>3 DEF Counters
  <2> DEFINE r == [pick[p] EXCEPT !.k = @ + 1]
  <2>7. pick' = [pick EXCEPT ![p] = r]
    BY <1>2, <2>1 DEF Typed, PickType
  <2>8. /\ r.pc = pick[p].pc /\ r.up = pick[p].up /\ r.list = pick[p].list
        /\ r.k = pick[p].k + 1 /\ r.still = pick[p].still
    BY <1>2 DEF PickType
  <2> HIDE DEF r
  <2>9. \A i \in pick[p].up : pick[p].k + 1 + Ahead(current' + 1, i) <= N
    <3> SUFFICES ASSUME NEW i \in pick[p].up PROVE pick[p].k + 1 + Ahead(current' + 1, i) <= N
      OBVIOUS
    <3>1. i \in Insts /\ i # cur + 1
      BY <1>2, <1>3, <1>7 DEF CallOK
    <3>2. Ahead(cur + 1, i) \in 0 .. N - 1 /\ Ahead(current' + 1, i) = Ahead(cur + 1, i) - 1
      BY <1>5, <2>3, <3>1, AfterFacts
    <3>3. pick[p].k + Ahead(cur + 1, i) <= N
      BY <1>1
    <3> QED BY <1>2, <1>5, <3>2, <3>3
  <2>10. CallOK(scene.strategy, healthy, current', counter', run'.still, r)
    BY <1>2, <1>3, <2>1, <2>8, <2>9 DEF CallOK
  <2>11. Calls'
    BY <1>2, <1>4, <2>7, <2>10, CallsStep
  <2> QED BY <2>5, <2>6, <2>11
<1> QED BY <1>6, <1>7

\* When all attempts have failed, no instance has stayed healthy.
LEMMA SplitterFallbackFair ==
    ASSUME BalancerAssumption, Typed, Ordered, Turn, Counters, Calls, NEW p \in Pickers, SplitterFallback(p)
    PROVE  Turn' /\ Counters' /\ Calls' /\ ShareStep
<1>1. /\ pick[p].pc = "splitter" /\ scene.strategy = "splitter" /\ p \in scene.pickers
      /\ pick[p] \in PickType /\ pick[p].k \in Nat /\ pick[p].k >= 2 * N
  BY PickFields DEF SplitterFallback, At, Typed, PickOK, Strategies
<1>2. CallOK(scene.strategy, healthy, current, counter, run.still, pick[p])
  BY DEF Calls
<1>3. UNCHANGED <<scene, healthy, load, current, counter>>
  BY DEF SplitterFallback
<1>4. /\ N \in Nat \ {0} /\ current \in Nat /\ current + 1 \in Insts /\ current % N = current
      /\ TurnOK(Weights, healthy, current + 1, counter, wait, run)
  <2>1. current < N /\ current % N = current
    BY <1>1, TurnTypes DEF Counters
  <2> QED BY <2>1, TurnTypes DEF Turn
<1>5. pick[p].up = {}
  <2> SUFFICES ASSUME NEW i \in pick[p].up PROVE FALSE
    OBVIOUS
  <2>1. i \in Insts /\ pick[p].k + Ahead(current + 1, i) <= N
    BY <1>1, <1>2 DEF CallOK
  <2>2. Ahead(current + 1, i) \in 0 .. N - 1
    BY <1>4, <2>1, AfterFacts
  <2> QED BY <1>1, <1>4, <2>1, <2>2
<1>6. counter = 0 /\ (run.still => pick[p].still) /\ (pick[p].still => \A i \in Insts : ~ healthy[i])
  <2>1. pick[p].k > 0
    BY <1>1, <1>4
  <2>2. pick[p].still => pick[p].up = {i \in Insts : healthy[i]}
    BY <1>1, <1>2 DEF CallOK
  <2> QED BY <1>1, <1>2, <1>5, <2>1, <2>2 DEF CallOK
<1>7. Counters'
  BY <1>3 DEF Counters
<1>8. ASSUME NEW r, pick' = [pick EXCEPT ![p] = r], UNCHANGED <<wait, run>>,
             r.up = {}, r.still = pick[p].still, r.list = pick[p].list, r.pc \in {"splitter", "nil"}
      PROVE  Turn' /\ Counters' /\ Calls' /\ ShareStep
  <2>1. r.still => {} = {i \in Insts : healthy[i]}
    BY <1>6, <1>8
  <2>2. CallOK(scene.strategy, healthy, current', counter', run'.still, r)
    BY <1>1, <1>2, <1>3, <1>6, <1>8, <2>1 DEF CallOK
  <2>3. Calls'
    BY <1>1, <1>3, <1>8, <2>2, CallsStep
  <2> QED BY <1>3, <1>7, <1>8, <2>3, NoTurn
<1>9. CASE pick' = [pick EXCEPT ![p].pc = "nil"] /\ UNCHANGED <<wait, run>>
  <2> DEFINE r == [pick[p] EXCEPT !.pc = "nil"]
  <2>1. pick' = [pick EXCEPT ![p] = r]
    BY <1>1, <1>9 DEF Typed, PickType
  <2>2. r.up = {} /\ r.still = pick[p].still /\ r.list = pick[p].list /\ r.pc = "nil"
    BY <1>1, <1>5 DEF PickType
  <2> HIDE DEF r
  <2> QED BY <1>8, <1>9, <2>1, <2>2
<1>10. CASE pick' = [pick EXCEPT ![p].k = @ + 1] /\ UNCHANGED <<wait, run>>
  <2> DEFINE r == [pick[p] EXCEPT !.k = @ + 1]
  <2>1. pick' = [pick EXCEPT ![p] = r]
    BY <1>1, <1>10 DEF Typed, PickType
  <2>2. r.up = {} /\ r.still = pick[p].still /\ r.list = pick[p].list /\ r.pc = "splitter"
    BY <1>1, <1>5 DEF PickType
  <2> HIDE DEF r
  <2> QED BY <1>8, <1>10, <2>1, <2>2
<1>11. ASSUME NEW i \in Insts, healthy[i], Returns(p, i) PROVE Turn' /\ Counters' /\ Calls' /\ ShareStep
  <2>1. /\ pick' = [pick EXCEPT ![p] = NoPick] /\ wait' \in [Insts -> Nat]
        /\ Served(i, pick[p].up, wait, wait') /\ Ran(Weights, i, pick[p].still, run, run')
        /\ pick[p].still \in BOOLEAN
    BY <1>1, <1>11, TurnTypes, ReturnsFacts
  <2>2. ~ pick[p].still /\ ~ run.still
    BY <1>6, <1>11
  <2>3. \A j \in Insts : wait'[j] = 0
    BY <1>5, <2>1 DEF Served
  <2>4. PICK still, r2 : still = pick[p].still /\ r2 = run'
    OBVIOUS
  <2>5. r2 \in RunType /\ (~ r2.still)
    <3>1. still \in BOOLEAN /\ Ran(Weights, i, still, run, r2)
      BY <2>1, <2>4
    <3>2. /\ r2 \in RunType /\ run.inst = i => r2.still = run.still
          /\ run.inst # i => r2.still = still
      BY <3>1, RanFacts, TurnTypes
    <3>3. r2 \in RunType
      BY <3>1, RanFacts, TurnTypes
    <3> QED BY <2>2, <2>4, <3>2, <3>3
  <2>6. TurnOK(Weights, healthy, current + 1, 0, wait', r2)
    BY <1>4, <2>1, <2>3, <2>5, TurnTypes, TurnReset
  <2>7. Turn'
    BY <1>3, <1>4, <1>6, <2>4, <2>6, TurnSame
  <2>8. ShareStep
    BY <2>2 DEF ShareStep
  <2>9. Calls'
    BY <1>1, <1>3, <2>1, CallsStep, IdleOK
  <2> QED BY <1>7, <2>7, <2>8, <2>9
<1>12. CASE pick[p].k - 2 * N + 1 > N
  BY <1>9, <1>12 DEF SplitterFallback
<1>13. CASE ~ (pick[p].k - 2 * N + 1 > N)
  <2>1. pick[p].k - 2 * N + 1 \in 1 .. N
    BY <1>1, <1>4, <1>13
  <2>2. pick[p].k - 2 * N + 1 \in Insts
    BY <2>1 DEF Insts
  <2> QED BY <1>10, <1>11, <1>13, <2>2 DEF SplitterFallback
<1> QED BY <1>12, <1>13

\* Nobody has waited, and no run has begun.
LEMMA TurnBegins ==
    ASSUME N \in Nat \ {0}, NEW w \in [Insts -> Nat \ {0}], NEW h
    PROVE  TurnOK(w, h, (0 % N) + 1, 0, [i \in Insts |-> 0], [inst |-> 0, n |-> 0, still |-> FALSE])
<1>1. PICK wt, r : wt = [i \in Insts |-> 0] /\ r = [inst |-> 0, n |-> 0, still |-> FALSE]
  OBVIOUS
<1>2. (0 % N) + 1 \in Insts
  BY DEF Insts
<1>3. wt \in [Insts -> Nat] /\ \A i \in Insts : wt[i] = 0
  BY <1>1
<1>4. r \in RunType /\ ~ r.still
  BY <1>1 DEF RunType
<1>5. TurnOK(w, h, (0 % N) + 1, 0, wt, r)
  BY <1>2, <1>3, <1>4, TurnReset
<1> QED BY <1>1, <1>5

LEMMA SplitterNilFair ==
    ASSUME BalancerAssumption, Typed, Ordered, Turn, Counters, Calls, NEW p \in Pickers, SplitterNil(p)
    PROVE  Turn' /\ Counters' /\ Calls' /\ ShareStep
<1>1. scene.strategy = "splitter" /\ p \in scene.pickers
  BY DEF SplitterNil, Typed, PickOK
<1>2. /\ UNCHANGED <<scene, healthy, load>> /\ pick' = [pick EXCEPT ![p] = NoPick]
      /\ current' = 0 /\ counter' = 0
      /\ wait' = [i \in Insts |-> 0] /\ run' = [inst |-> 0, n |-> 0, still |-> FALSE]
  BY DEF SplitterNil
<1>3. TurnOK(Weights, healthy, (0 % N) + 1, 0, wait', run')
  BY <1>2, TurnTypes, TurnBegins
<1>4. Turn'
  BY <1>2, <1>3, TurnSame
<1>5. Counters'
  BY <1>1, <1>2, TurnTypes DEF Counters
<1>6. Calls'
  BY <1>1, <1>2, CallsStep, IdleOK
<1>7. ShareStep
  <2>1. CallOK(scene.strategy, healthy, current, counter, run.still, pick[p]) /\ pick[p].pc = "nil"
    BY DEF Calls, SplitterNil
  <2>2. run.still => \A i \in Insts : ~ healthy[i]
    BY <2>1 DEF CallOK
  <2>3. run.still => run.inst \in Insts /\ healthy[run.inst]
    BY DEF Turn, TurnOK, RunOK
  <2> QED BY <2>2, <2>3 DEF ShareStep
<1> QED BY <1>4, <1>5, <1>6, <1>7

LEMMA FlapFair ==
    ASSUME BalancerAssumption, Typed, Ordered, Turn, Counters, Calls, NEW i \in Insts, Flap(i)
    PROVE  Turn' /\ Counters' /\ Calls' /\ ShareStep
<1>1. scene.strategy = "splitter"
  BY DEF Flap, Ordered
<1>2. /\ UNCHANGED <<scene, load, current, counter>>
      /\ healthy' = [healthy EXCEPT ![i] = ~ @] /\ wait' = [wait EXCEPT ![i] = 0]
      /\ run' = [run EXCEPT !.still = FALSE]
      /\ pick' = [p \in Pickers |-> [pick[p] EXCEPT !.still = FALSE, !.up = @ \ {i}]]
  BY DEF Flap
<1>3. Turn'
  <2>1. TurnOK(Weights, healthy, (current % N) + 1, counter, wait, run)
    BY DEF Turn
  <2>2. TurnOK(Weights, healthy', (current % N) + 1, counter, [wait EXCEPT ![i] = 0], [run EXCEPT !.still = FALSE])
    BY <1>2, <2>1, TurnTypes, TurnFlap
  <2> QED BY <1>2, <2>2, TurnSame
<1>4. Counters'
  BY <1>1, <1>2 DEF Counters
<1>5. run.still \in BOOLEAN /\ ~ run'.still /\ run'.inst = run.inst
  BY <1>2, TurnTypes DEF RunType
<1>6. \A j \in Insts : j # i => healthy'[j] = healthy[j]
  BY <1>2, TurnTypes
<1>7. ASSUME NEW p \in Pickers
      PROVE  CallOK(scene.strategy, healthy', current, counter, run'.still, pick'[p])
  <2>1. CallOK(scene.strategy, healthy, current, counter, run.still, pick[p]) /\ pick[p] \in PickType
        /\ PickOK(p, pick[p])
    BY DEF Calls, Typed
  <2>2. PICK r : r = [pick[p] EXCEPT !.still = FALSE, !.up = @ \ {i}]
    OBVIOUS
  <2>3. /\ r.pc = pick[p].pc /\ r.up = pick[p].up \ {i} /\ r.list = pick[p].list /\ r.k = pick[p].k
        /\ ~ r.still /\ r.val = pick[p].val /\ r.best = pick[p].best
    BY <2>1, <2>2 DEF PickType
  <2>4. pick'[p] = r
    BY <1>2, <2>2
  <2>5. CallOK(scene.strategy, healthy', current, counter, run'.still, r)
    BY <1>1, <1>5, <1>6, <2>1, <2>3 DEF CallOK
  <2> QED BY <2>4, <2>5
<1>8. Calls'
  BY <1>2, <1>7 DEF Calls
<1>9. ShareStep
  BY <1>5 DEF ShareStep
<1> QED BY <1>3, <1>4, <1>8, <1>9

LEMMA FairNext ==
    ASSUME BalancerAssumption, Typed, Fair, [BalancerNext]_balancerVars
    PROVE  Fair' /\ (Ordered => ShareStep)
<1>1. UNCHANGED scene
  BY DEF BalancerNext, balancerVars, Flap, Begin, RoundRobinPick, RandomPick, LeastLoadPick,
     LeastPingPick, Least, IncrConns, WeightedRead, WeightedWrite, SplitterAttempt, SplitterFallback, SplitterNil
<1>2. Ordered' = Ordered
  BY <1>1 DEF Ordered
<1> SUFFICES ASSUME Ordered PROVE Turn' /\ Counters' /\ Calls' /\ ShareStep
  BY <1>2 DEF Fair
<1>3. Turn /\ Counters /\ Calls
  BY DEF Fair
<1>4. ASSUME NEW i \in Insts, Flap(i) PROVE Turn' /\ Counters' /\ Calls' /\ ShareStep
  BY <1>3, <1>4, FlapFair
<1>5. ASSUME NEW p \in Pickers,
             \/ Begin(p) \/ RoundRobinPick(p) \/ WeightedRead(p) \/ WeightedWrite(p)
             \/ SplitterAttempt(p) \/ SplitterFallback(p) \/ SplitterNil(p)
      PROVE  Turn' /\ Counters' /\ Calls' /\ ShareStep
  BY <1>3, <1>5, BeginFair, RoundRobinFair, WeightedReadFair, WeightedWriteFair,
     SplitterAttemptFair, SplitterFallbackFair, SplitterNilFair
<1>6. ASSUME NEW p \in Pickers, RandomPick(p) \/ LeastLoadPick(p) \/ LeastPingPick(p) \/ IncrConns(p)
      PROVE  FALSE
  <2>1. pick[p].pc \in {"random", "least_load", "least_ping", "count"} /\ PickOK(p, pick[p])
    BY <1>6 DEF RandomPick, LeastLoadPick, LeastPingPick, Least, IncrConns, At, Typed
  <2>2. scene.strategy \in {"random", "least_load", "least_ping"}
    BY <2>1 DEF PickOK, Strategies
  <2> QED BY <2>2 DEF Ordered
<1>7. CASE UNCHANGED balancerVars
  <2>1. UNCHANGED <<scene, healthy, load, current, counter, pick, wait, run>>
    BY <1>7 DEF balancerVars
  <2>2. Calls'
    BY <1>3, <2>1 DEF Calls
  <2>3. Counters'
    BY <1>3, <2>1 DEF Counters
  <2> QED BY <1>3, <2>1, <2>2, <2>3, NoTurn
<1> QED BY <1>4, <1>5, <1>6, <1>7 DEF BalancerNext

LEMMA InitFair ==
    ASSUME BalancerAssumption, BalancerInit PROVE Fair
<1>1. Typed
  BY InitTyped
<1>2. N \in Nat \ {0} /\ Weights \in [Insts -> Nat \ {0}]
  BY <1>1, WeightsFacts, SettingFacts
<1>3. /\ current = 0 /\ counter = 0 /\ wait = [i \in Insts |-> 0]
      /\ run = [inst |-> 0, n |-> 0, still |-> FALSE]
      /\ healthy = [i \in Insts |-> TRUE] /\ \A p \in Pickers : pick[p] = NoPick
  BY DEF BalancerInit
<1>4. TurnOK(Weights, healthy, (0 % N) + 1, 0, wait, run)
  BY <1>2, <1>3, TurnBegins
<1>5. Turn
  BY <1>3, <1>4 DEF Turn
<1>6. Counters
  BY <1>2, <1>3 DEF Counters
<1>7. Calls
  <2>1. CallOK(scene.strategy, healthy, current, counter, run.still, NoPick)
    BY IdleOK
  <2>2. \A p \in Pickers : pick[p] = NoPick
    BY <1>3
  <2> QED BY <2>1, <2>2 DEF Calls
<1> QED BY <1>5, <1>6, <1>7 DEF Fair

LEMMA FairWaits ==
    ASSUME BalancerAssumption, Typed, Fair PROVE NoStarvation
<1> SUFFICES ASSUME Ordered, NEW i \in Insts PROVE wait[i] <= MapThenSumSet(W, Insts \ {i})
  BY DEF NoStarvation
<1>1. wait[i] <= Total(Weights, Insts \ {i})
  BY DEF Fair, Turn, TurnOK, WaitOK
<1>2. Insts \ {i} \in SUBSET Insts /\ IsFiniteSet(Insts \ {i})
  <2>1. IsFiniteSet(Insts)
    BY WeightsFacts, SettingFacts, TotalInsts
  <2> QED BY <2>1, FS_Subset
<1>3. MapThenSumSet(W, Insts \ {i}) = Total(Weights, Insts \ {i})
  BY <1>2, WaitBound
<1> QED BY <1>1, <1>3

\* However the health of the instances changes, an instance that stays healthy is picked
\* again after at most as many picks as the others' weights together (roundrobin.go,
\* weighted_rr.go, pickInstance).
THEOREM NoneStarves == BalancerSpec => []NoStarvation
<1> DEFINE Inv3 == Typed /\ Fair
<1>1. BalancerInit => Inv3
  BY BalancerAssumption, InitTyped, InitFair
<1>2. Inv3 /\ [BalancerNext]_balancerVars => Inv3'
  BY BalancerAssumption, TypedNext, FairNext
<1>3. Inv3 => NoStarvation
  BY BalancerAssumption, FairWaits
<1> QED BY <1>1, <1>2, <1>3, PTL DEF BalancerSpec

\* A turn that ends without a change of health has been exactly as long as the weight
\* of its instance.
THEOREM SharesAreExact == BalancerSpec => ExactShare
<1> DEFINE Inv3 == Typed /\ Fair
<1>1. BalancerInit => Inv3
  BY BalancerAssumption, InitTyped, InitFair
<1>2. Inv3 /\ [BalancerNext]_balancerVars => Inv3'
  BY BalancerAssumption, TypedNext, FairNext
<1>3. Inv3 /\ [BalancerNext]_balancerVars =>
        [Ordered /\ run.still /\ run'.inst # run.inst => run.n = W(run.inst)]_balancerVars
  <2> SUFFICES ASSUME Typed, Fair, [BalancerNext]_balancerVars, Ordered, run.still, run'.inst # run.inst
               PROVE  run.n = W(run.inst)
    OBVIOUS
  <2>1. run.n = Weights[run.inst]
    BY BalancerAssumption, FairNext DEF ShareStep
  <2>2. run.inst \in Insts
    BY DEF Fair, Turn, TurnOK, RunOK
  <2> QED BY <2>1, <2>2 DEF Weights
<1> QED BY <1>1, <1>2, <1>3, PTL DEF BalancerSpec, ExactShare
=============================================================================
