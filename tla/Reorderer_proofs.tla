-------------------------- MODULE Reorderer_proofs --------------------------
(***************************************************************************)
(* Proofs that a Reorderer delivers in order, each frame at most once,     *)
(* accounts for every sequence number and never charges the grace period   *)
(* of one gap to another, for every number space, start and set of frames; *)
(* and that the closed form of the drain loop (Drain, Drained), which the  *)
(* models of the central server and of the splitter use, is what calling   *)
(* Next() until it returns nil computes.  And that the frames on a tunnel  *)
(* (module Wire) are read as they were written, for every number of        *)
(* senders, every payload and every way of cutting it.                     *)
(***************************************************************************)
EXTENDS MCReorderer, Wire, CommonLemmas

\* A non-empty buffer has a lowest sequence number, and skipToLowest finds it.
LEMMA LowestExists ==
    ASSUME NEW x \in ReordererType, x.buffer # {}
    PROVE  \E m \in x.buffer : IsLowest(x, m)
<1>1. x.buffer \in SUBSET Nat
  BY SeqSpaceAssumption DEF ReordererType, SeqNum
<1> QED BY <1>1, LeastExists DEF IsLowest

\* What skipToLowest does to a reorderer that waits for a missing frame: it
\* moves nextSeq to the lowest buffered number and changes nothing else.
LEMMA SkipToLowestSpec ==
    ASSUME NEW x \in ReordererType, x.buffer # {}, x.nextSeq \notin x.buffer,
           \A b \in x.buffer : b >= x.nextSeq
    PROVE  \E m \in x.buffer :
              /\ m > x.nextSeq
              /\ \A b \in x.buffer : m <= b
              /\ skipToLowest(x) = [x EXCEPT !.nextSeq = m]
<1> DEFINE m == CHOOSE z \in x.buffer : IsLowest(x, z)
<1>1. m \in x.buffer /\ IsLowest(x, m)
  BY LowestExists
<1>2. m \in Int /\ x.nextSeq \in Int /\ m # x.nextSeq /\ m >= x.nextSeq
  BY <1>1, SeqSpaceAssumption DEF ReordererType, SeqNum
<1>3. m > x.nextSeq
  BY <1>2
<1>4. skipToLowest(x) = [x EXCEPT !.nextSeq = m]
  BY <1>3 DEF skipToLowest
<1> QED BY <1>1, <1>3, <1>4 DEF IsLowest

-----------------------------------------------------------------------------
\* The inductive invariant: none of its parts is inductive alone.  In-order
\* delivery needs that everything delivered is below nextSeq (Accounted), and
\* that in turn needs that nothing buffered lies below nextSeq and that
\* nextSeq does not wrap (TypeOK).
Inv == TypeOK /\ InOrderOnce /\ Accounted /\ FreshGrace

LEMMA InitInv == Init => Inv
<1> SUFFICES ASSUME Init PROVE Inv
  OBVIOUS
<1>1. StartSeq \in SeqNum
  BY SeqSpaceAssumption, FramesAssumption DEF SeqNum
<1>2. TypeOK
  BY <1>1 DEF Init, TypeOK, NewReordererAt, ReordererType, Timer
<1>3. InOrderOnce
  BY DEF Init, InOrderOnce
<1>4. Delivered = {}
  BY DEF Init, Delivered
<1>5. Accounted
  BY <1>1, <1>4 DEF Init, Accounted, NewReordererAt, SeqNum
<1>6. FreshGrace
  BY DEF Init, FreshGrace, NewReordererAt
<1> QED BY <1>2, <1>3, <1>5, <1>6 DEF Inv

\* What one call of Next() does, case by case: either it returns nil and
\* moves nothing but the timer, or it delivers the lowest buffered number.
LEMMA NextSpec ==
    ASSUME NEW x \in ReordererType, x.buffer \subseteq Frames,
           \A b \in x.buffer : b >= x.nextSeq
    PROVE  \/ /\ Data(x) = NoData
              /\ ~GapExpired(x)
              /\ Next(x) \in ReordererType
              /\ Next(x).nextSeq = x.nextSeq
              /\ Next(x).buffer = x.buffer
              /\ \/ Next(x).waitingSince = "zero"
                 \/ Next(x).waitingSince = x.waitingSince
                 \/ x.waitingSince = "zero" /\ Next(x).waitingSince = "recent"
           \/ /\ Data(x) \in x.buffer
              /\ Data(x) >= x.nextSeq
              /\ \A b \in x.buffer : Data(x) <= b
              /\ Next(x) \in ReordererType
              /\ Next(x).nextSeq = Data(x) + 1
              /\ Next(x).buffer = x.buffer \ {Data(x)}
              /\ Next(x).waitingSince = "zero"
              /\ ~GapExpired(x) => Data(x) = x.nextSeq
              /\ GapExpired(x) => skipToLowest(x).nextSeq = Data(x)
<1> USE SeqSpaceAssumption, FramesAssumption
<1>0. /\ x.nextSeq \in SeqNum /\ x.buffer \in SUBSET SeqNum /\ x.waitingSince \in Timer
      /\ x = [nextSeq |-> x.nextSeq, buffer |-> x.buffer, waitingSince |-> x.waitingSince]
  BY DEF ReordererType
<1>1. CASE Ready(x)
  <2>1. ~GapExpired(x) /\ Data(x) = x.nextSeq /\ Next(x) = Take(x)
    BY <1>1 DEF GapExpired, Data, Next
  <2>2. x.nextSeq \in Frames /\ (x.nextSeq + 1) % SeqSpace = x.nextSeq + 1
    BY <1>0, <1>1 DEF Ready, SeqNum
  <2>3. x.nextSeq + 1 \in SeqNum
    BY <1>0, <2>2 DEF SeqNum
  <2> QED BY <1>0, <1>1, <2>1, <2>2, <2>3 DEF Take, Ready, ReordererType, SeqNum, Timer
<1>2. CASE GapExpired(x)
  <2>1. PICK m \in x.buffer : /\ m > x.nextSeq
                              /\ \A b \in x.buffer : m <= b
                              /\ skipToLowest(x) = [x EXCEPT !.nextSeq = m]
    BY <1>2, SkipToLowestSpec DEF GapExpired, Ready
  <2>a. skipToLowest(x) = [nextSeq |-> m, buffer |-> x.buffer, waitingSince |-> x.waitingSince]
    BY <1>0, <2>1
  <2>2. Skipped(x) = [nextSeq |-> m, buffer |-> x.buffer, waitingSince |-> "zero"]
    BY <2>a DEF Skipped
  <2>3. Ready(Skipped(x))
    BY <2>2 DEF Ready
  <2>4. ~Ready(x)
    BY <1>2 DEF GapExpired
  <2>5. Data(x) = m /\ Next(x) = Take(Skipped(x))
    <3>1. x.buffer # {} /\ x.waitingSince = "expired"
      BY <1>2 DEF GapExpired
    <3>2. Data(x) = m
      BY <1>2, <2>2, <2>3, <2>4 DEF Data
    <3>3. Next(x) = Take(Skipped(x))
      BY <1>2, <2>3, <2>4, <3>1 DEF Next
    <3> QED BY <3>2, <3>3
  <2>6. m \in Frames /\ (m + 1) % SeqSpace = m + 1 /\ m + 1 \in SeqNum
    BY <1>0 DEF SeqNum
  <2>7. Next(x) = [nextSeq |-> m + 1, buffer |-> x.buffer \ {m}, waitingSince |-> "zero"]
    <3>1. Skipped(x).nextSeq = m /\ Skipped(x).buffer = x.buffer
      BY <2>2
    <3>2. Take(Skipped(x)) = [nextSeq |-> (m + 1) % SeqSpace, buffer |-> x.buffer \ {m},
                              waitingSince |-> "zero"]
      BY <3>1 DEF Take
    <3> QED BY <2>5, <2>6, <3>2
  <2>8. skipToLowest(x).nextSeq = m
    BY <1>0, <2>1
  <2> QED BY <1>0, <1>2, <2>1, <2>5, <2>6, <2>7, <2>8 DEF ReordererType, SeqNum, Timer
<1>3. CASE ~Ready(x) /\ ~GapExpired(x)
  <2>1. Data(x) = NoData
    BY <1>3 DEF Data
  <2>2. CASE x.buffer = {}
    <3>1. Next(x) = [x EXCEPT !.waitingSince = "zero"]
      BY <1>3, <2>2 DEF Next
    <3> QED BY <1>0, <1>3, <2>1, <3>1 DEF ReordererType, Timer
  <2>3. CASE x.buffer # {} /\ x.waitingSince = "zero"
    <3>1. Next(x) = [x EXCEPT !.waitingSince = "recent"]
      BY <1>3, <2>3 DEF Next
    <3> QED BY <1>0, <1>3, <2>1, <2>3, <3>1 DEF ReordererType, Timer
  <2>4. CASE x.buffer # {} /\ x.waitingSince = "recent"
    <3>1. Next(x) = x
      BY <1>3, <2>4 DEF Next
    <3> QED BY <1>0, <1>3, <2>1, <3>1
  <2>5. x.buffer # {} => x.waitingSince # "expired"
    BY <1>3 DEF GapExpired
  <2> QED BY <1>0, <2>2, <2>3, <2>4, <2>5 DEF Timer
<1> QED BY <1>1, <1>2, <1>3

LEMMA InsertInv == ASSUME Inv, NEW seq \in Frames, InsertFrame(seq) PROVE Inv'
<1> USE SeqSpaceAssumption, FramesAssumption DEF Inv
<1>1. seq \in SeqNum /\ r.nextSeq \in SeqNum
  BY DEF TypeOK, ReordererType, SeqNum
<1>2. /\ r' \in ReordererType /\ r'.nextSeq = r.nextSeq
      /\ r'.waitingSince = r.waitingSince
      /\ r'.buffer = r.buffer \/ (seq >= r.nextSeq /\ r'.buffer = r.buffer \cup {seq})
  BY <1>1 DEF InsertFrame, Insert, TypeOK, ReordererType, SeqNum
<1>3. TypeOK'
  BY <1>2 DEF TypeOK, InsertFrame
<1>4. InOrderOnce'
  BY DEF InsertFrame, InOrderOnce
<1>5. Delivered' = Delivered
  BY DEF InsertFrame, Delivered
<1>6. Accounted'
  BY <1>1, <1>2, <1>5 DEF InsertFrame, Accounted, SeqNum
<1>7. FreshGrace'
  BY <1>2 DEF InsertFrame, FreshGrace
<1> QED BY <1>3, <1>4, <1>6, <1>7

LEMMA CallNextInv == ASSUME Inv, CallNext PROVE Inv'
<1> USE SeqSpaceAssumption, FramesAssumption DEF Inv
<1>0. /\ r \in ReordererType /\ r.buffer \subseteq Frames
      /\ \A b \in r.buffer : b >= r.nextSeq
      /\ r.nextSeq \in SeqNum /\ r.buffer \in SUBSET SeqNum
      /\ out \in Seq(Frames) /\ r' = Next(r)
  BY DEF TypeOK, Accounted, CallNext, ReordererType
<1>1. CASE Data(r) = NoData
  <2>1. /\ ~GapExpired(r)
        /\ r' \in ReordererType
        /\ r'.nextSeq = r.nextSeq /\ r'.buffer = r.buffer
        /\ \/ r'.waitingSince = "zero"
           \/ r'.waitingSince = r.waitingSince
           \/ r.waitingSince = "zero" /\ r'.waitingSince = "recent"
    BY <1>0, <1>1, NextSpec DEF NoData, SeqNum
  <2>2. out' = out /\ skipped' = skipped /\ inserted' = inserted
    BY <1>1, <2>1 DEF CallNext
  <2>3. TypeOK'
    BY <1>0, <2>1, <2>2 DEF TypeOK, CallNext
  <2>4. InOrderOnce'
    BY <2>2 DEF InOrderOnce
  <2>5. Delivered' = Delivered
    BY <2>2 DEF Delivered
  <2>6. Accounted'
    BY <2>1, <2>2, <2>5 DEF Accounted
  <2>7. FreshGrace'
    BY <1>0, <2>1 DEF FreshGrace, CallNext
  <2> QED BY <2>3, <2>4, <2>6, <2>7
<1>2. CASE Data(r) # NoData
  <2> DEFINE d == Data(r)
  <2>1. /\ d \in r.buffer /\ d >= r.nextSeq /\ \A b \in r.buffer : d <= b
        /\ r' \in ReordererType
        /\ r'.nextSeq = d + 1 /\ r'.buffer = r.buffer \ {d}
        /\ r'.waitingSince = "zero"
        /\ ~GapExpired(r) => d = r.nextSeq
        /\ GapExpired(r) => skipToLowest(r).nextSeq = d
    BY <1>0, <1>2, NextSpec
  <2>2. d \in Frames /\ d \in 0 .. SeqSpace - 2 /\ r.nextSeq \in Int
    BY <1>0, <2>1 DEF SeqNum
  <2>3. out' = Append(out, d) /\ inserted' = inserted
    BY <1>2 DEF CallNext
  <2>4. skipped' = skipped \cup (r.nextSeq .. d - 1)
    BY <2>1, <2>2 DEF CallNext
  <2>5. /\ Len(out') = Len(out) + 1 /\ out'[Len(out) + 1] = d
        /\ \A i \in 1 .. Len(out) : out'[i] = out[i]
        /\ out' \in Seq(Frames) /\ Len(out) \in Nat
    BY <1>0, <2>2, <2>3
  <2>6. Delivered' = Delivered \cup {d}
    <3>1. \A i \in 1 .. Len(out') : i \in 1 .. Len(out) \/ i = Len(out) + 1
      BY <2>5
    <3>2. Len(out) + 1 \in 1 .. Len(out') /\ 1 .. Len(out) \subseteq 1 .. Len(out')
      BY <2>5
    <3> QED BY <2>5, <3>1, <3>2 DEF Delivered
  <2>7. TypeOK'
    <3>1. r'.buffer \subseteq Frames
      BY <1>0, <2>1
    <3>2. skipped' \subseteq 0 .. SeqSpace - 2
      <4>1. r.nextSeq .. d - 1 \subseteq 0 .. SeqSpace - 2
        BY <1>0, <2>2 DEF SeqNum
      <4> QED BY <2>4, <4>1 DEF TypeOK
    <3>3. waitingFor' = waitingFor
      BY <1>0, <2>1 DEF CallNext
    <3> QED BY <2>1, <2>3, <2>5, <3>1, <3>2, <3>3 DEF TypeOK
  <2>8. InOrderOnce'
    <3> SUFFICES ASSUME NEW i \in 1 .. Len(out'), NEW j \in 1 .. Len(out'), i < j
                 PROVE  out'[i] < out'[j]
      BY DEF InOrderOnce
    <3>1. i \in 1 .. Len(out)
      BY <2>5
    <3>2. CASE j \in 1 .. Len(out)
      BY <2>5, <3>1, <3>2 DEF InOrderOnce
    <3>3. CASE j = Len(out) + 1
      <4>1. out[i] \in StartSeq .. r.nextSeq - 1
        BY <3>1 DEF Accounted, Delivered
      <4> QED BY <2>1, <2>2, <2>5, <3>1, <3>3, <4>1
    <3> QED BY <2>5, <3>2, <3>3
  <2>9. Accounted'
    <3>1. StartSeq <= r.nextSeq /\ StartSeq <= r'.nextSeq
      BY <2>1, <2>2 DEF Accounted
    <3>2. Delivered' \cup skipped' = StartSeq .. r'.nextSeq - 1
      BY <2>1, <2>2, <2>4, <2>6, <3>1 DEF Accounted
    <3>3. Delivered' \cap skipped' = {}
      BY <2>1, <2>2, <2>4, <2>6 DEF Accounted
    <3>4. Delivered' \cup r'.buffer \subseteq inserted'
      BY <2>1, <2>3, <2>6 DEF Accounted
    <3>5. \A b \in r'.buffer : b >= r'.nextSeq
      BY <1>0, <2>1, <2>2 DEF SeqNum
    <3> QED BY <3>1, <3>2, <3>3, <3>4, <3>5 DEF Accounted
  <2>10. FreshGrace'
    BY <2>1 DEF FreshGrace
  <2> QED BY <2>7, <2>8, <2>9, <2>10
<1> QED BY <1>1, <1>2

LEMMA GapElapsesInv == ASSUME Inv, GapElapses PROVE Inv'
<1> USE DEF Inv
<1>1. /\ r' \in ReordererType /\ r'.nextSeq = r.nextSeq /\ r'.buffer = r.buffer
      /\ r.waitingSince # "zero"
  BY DEF GapElapses, TypeOK, ReordererType, Timer
<1>2. TypeOK'
  BY <1>1 DEF GapElapses, TypeOK
<1>3. InOrderOnce' /\ Delivered' = Delivered
  BY DEF GapElapses, InOrderOnce, Delivered
<1>4. Accounted'
  BY <1>1, <1>3 DEF GapElapses, Accounted
<1>5. FreshGrace'
  BY <1>1 DEF GapElapses, FreshGrace
<1> QED BY <1>2, <1>3, <1>4, <1>5

LEMMA StepInv == Inv /\ [NextStep]_vars => Inv'
<1> SUFFICES ASSUME Inv, [NextStep]_vars PROVE Inv'
  OBVIOUS
<1>1. ASSUME NEW seq \in Frames, InsertFrame(seq) PROVE Inv'
  BY <1>1, InsertInv
<1>2. CASE CallNext
  BY <1>2, CallNextInv
<1>3. CASE GapElapses
  BY <1>3, GapElapsesInv
<1>4. CASE UNCHANGED vars
  BY <1>4 DEF Inv, vars, TypeOK, InOrderOnce, Accounted, FreshGrace, Delivered
<1> QED BY <1>1, <1>2, <1>3, <1>4 DEF NextStep

\* All four invariants of a reorderer hold in every reachable state.
THEOREM Invariance == Spec => []Inv
<1> QED BY InitInv, StepInv, PTL DEF Spec

\* Payloads leave a reorderer in increasing sequence order, each at most
\* once, whatever arrives and however often Next() is called.
THEOREM DeliversInOrder == Spec => []InOrderOnce
<1>1. Inv => InOrderOnce
  BY DEF Inv
<1> QED BY Invariance, <1>1, PTL

\* Every sequence number passed was delivered or skipped, and no frame that
\* has arrived is skipped.
THEOREM AccountsForAll == Spec => []Accounted
<1>1. Inv => Accounted
  BY DEF Inv
<1> QED BY Invariance, <1>1, PTL

\* A running gap timer belongs to the frame that is missing now.
THEOREM GraceIsFresh == Spec => []FreshGrace
<1>1. Inv => FreshGrace
  BY DEF Inv
<1> QED BY Invariance, <1>1, PTL

-----------------------------------------------------------------------------
\* A step of a reorderer is a step of the stream with holes, or a stutter.
LEMMA StreamStep ==
    Inv /\ Inv' /\ [NextStep]_vars => [Stream!Next]_<<inserted, out>>
<1> SUFFICES ASSUME Inv, Inv', [NextStep]_vars
             PROVE  [Stream!Next]_<<inserted, out>>
  OBVIOUS
<1>1. ASSUME NEW seq \in Frames, InsertFrame(seq) PROVE Stream!Send
  BY <1>1 DEF InsertFrame, Stream!Send
<1>2. CASE CallNext /\ Data(r) = NoData
  BY <1>2 DEF CallNext
<1>3. CASE CallNext /\ Data(r) # NoData
  <2>1. out \in Seq(Frames) /\ out' = Append(out, Data(r)) /\ inserted' = inserted
    BY <1>3 DEF Inv, TypeOK, CallNext
  <2>2. out' \in Seq(Frames) /\ InOrderOnce'
    BY DEF Inv, TypeOK
  <2>3. Len(out') > Len(out) /\ \A i \in 1 .. Len(out) : out'[i] = out[i]
    <3>1. Len(out) \in Nat /\ Len(out') = Len(out) + 1
      BY <2>1, <2>2
    <3>2. ASSUME NEW i \in 1 .. Len(out) PROVE out'[i] = out[i]
      BY <2>1, <2>2
    <3> QED BY <3>1, <3>2
  <2>4. \A i \in 1 .. Len(out') : out'[i] \in inserted
    BY <2>1 DEF Inv, Accounted, Delivered
  <2>5. \A i, j \in 1 .. Len(out') : i < j => out'[i] < out'[j]
    BY <2>2 DEF InOrderOnce
  <2> QED BY <2>1, <2>3, <2>4, <2>5 DEF Stream!Next, Stream!Deliver
<1>4. CASE GapElapses
  BY <1>4 DEF GapElapses
<1>5. CASE UNCHANGED vars
  BY <1>5 DEF vars
<1> QED BY <1>1, <1>2, <1>3, <1>4, <1>5 DEF NextStep, Stream!Next

\* A reorderer implements the stream with holes its readers rely on.
THEOREM RefinesOrderedStream == Spec => ImplementsStream
<1>1. Init => Stream!Init
  BY DEF Init, Stream!Init
<1> QED BY Invariance, StreamStep, <1>1, PTL DEF Spec, ImplementsStream, Stream!Spec

-----------------------------------------------------------------------------
\* The loop around Next() ends, whatever the buffer holds: each call that returns
\* a payload takes it out.

LEMMA NextTakes ==
    ASSUME NEW x \in ReordererType, Data(x) # NoData
    PROVE  /\ Next(x) \in ReordererType
           /\ Data(x) \in x.buffer /\ Next(x).buffer = x.buffer \ {Data(x)}
<1>1. /\ x.nextSeq \in SeqNum /\ x.buffer \in SUBSET SeqNum
      /\ x = [nextSeq |-> x.nextSeq, buffer |-> x.buffer, waitingSince |-> x.waitingSince]
  BY DEF ReordererType
<1>2. ASSUME NEW y \in ReordererType, Ready(y)
      PROVE  Take(y) \in ReordererType /\ y.nextSeq \in y.buffer /\ Take(y).buffer = y.buffer \ {y.nextSeq}
  <2>1. y.nextSeq \in SeqNum /\ y.buffer \in SUBSET SeqNum
    BY DEF ReordererType
  <2>2. (y.nextSeq + 1) % SeqSpace \in SeqNum
    BY <2>1, SeqSpaceAssumption DEF SeqNum
  <2> QED BY <1>2, <2>1, <2>2 DEF Take, Ready, ReordererType, Timer
<1>3. CASE Ready(x)
  <2>1. Data(x) = x.nextSeq /\ Next(x) = Take(x)
    BY <1>3 DEF GapExpired, Data, Next
  <2> QED BY <1>2, <1>3, <2>1
<1>4. CASE GapExpired(x)
  <2>1. PICK y : y = Skipped(x)
    OBVIOUS
  <2>2. Ready(y) /\ Data(x) = y.nextSeq /\ Next(x) = Take(y)
    BY <1>4, <2>1 DEF Data, Next, GapExpired
  <2>3. PICK s : s = skipToLowest(x)
    OBVIOUS
  <2>4. s \in ReordererType /\ s.buffer = x.buffer
    <3>1. PICK m : m = CHOOSE z \in x.buffer : IsLowest(x, z)
      OBVIOUS
    <3>2. CASE x.buffer # {} /\ m > x.nextSeq
      <4>1. m \in x.buffer
        BY <3>1, <3>2, LowestExists
      <4>2. s = [x EXCEPT !.nextSeq = m]
        BY <2>3, <3>1, <3>2 DEF skipToLowest
      <4> QED BY <1>1, <4>1, <4>2 DEF ReordererType
    <3>3. CASE ~ (x.buffer # {} /\ m > x.nextSeq)
      BY <2>3, <3>1, <3>3 DEF skipToLowest
    <3> QED BY <3>2, <3>3
  <2>5. y \in ReordererType /\ y.buffer = x.buffer
    BY <2>1, <2>3, <2>4 DEF Skipped, ReordererType, Timer
  <2> QED BY <1>2, <2>2, <2>5
<1> QED BY <1>3, <1>4 DEF Data

\* The reorderers with at most n numbers buffered.
Level(n) == {x \in ReordererType : Cardinality(x.buffer) <= n}

LEMMA BufferSize ==
    ASSUME NEW x \in ReordererType
    PROVE  /\ IsFiniteSet(x.buffer) /\ Cardinality(x.buffer) \in Nat
           /\ Cardinality(x.buffer) <= SeqSpace
<1>1. SeqSpace \in Nat /\ 0 \in Int /\ SeqSpace - 1 \in Int /\ ~ (0 > SeqSpace - 1)
  BY SeqSpaceAssumption
<1>2. IsFiniteSet(SeqNum) /\ Cardinality(SeqNum) = SeqSpace - 1 - 0 + 1
  BY <1>1, FS_Interval DEF SeqNum
<1>3. x.buffer \subseteq SeqNum
  BY DEF ReordererType
<1> QED BY <1>1, <1>2, <1>3, FS_Subset, FS_CardinalityType

LEMMA NextSmaller ==
    ASSUME NEW x \in ReordererType, Data(x) # NoData
    PROVE  /\ Next(x) \in ReordererType
           /\ Cardinality(Next(x).buffer) = Cardinality(x.buffer) - 1
<1>1. /\ Next(x) \in ReordererType
      /\ Data(x) \in x.buffer /\ Next(x).buffer = x.buffer \ {Data(x)}
  BY NextTakes
<1>2. IsFiniteSet(x.buffer)
  BY BufferSize
<1> QED BY <1>1, <1>2, FS_RemoveElement

\* A function from reorderers that runs the loop, on the ones in S.
Loops(g, S) ==
    g = [x \in S |-> IF Data(x) = NoData THEN [r |-> Next(x), data |-> {}]
                     ELSE [r |-> g[Next(x)].r, data |-> {Data(x)} \cup g[Next(x)].data]]

Loopable(n) == \E g : Loops(g, Level(n))

LEMMA LoopsFirst == Loopable(0)
<1>1. ASSUME NEW x \in Level(0) PROVE Data(x) = NoData
  <2>1. x \in ReordererType /\ Cardinality(x.buffer) = 0
    BY BufferSize DEF Level
  <2>2. ASSUME Data(x) # NoData PROVE FALSE
    <3>1. Cardinality(Next(x).buffer) = Cardinality(x.buffer) - 1 /\ Next(x) \in ReordererType
      BY <2>1, <2>2, NextSmaller
    <3>2. Cardinality(Next(x).buffer) \in Nat
      BY <3>1, BufferSize
    <3> QED BY <2>1, <3>1, <3>2
  <2> QED BY <2>2
<1>2. PICK g : g = [x \in Level(0) |-> [r |-> Next(x), data |-> {}]]
  OBVIOUS
<1>3. Loops(g, Level(0))
  BY <1>1, <1>2, Zenon DEF Loops
<1> QED BY <1>3 DEF Loopable

LEMMA LoopsNext ==
    ASSUME NEW n \in Nat, Loopable(n)
    PROVE  Loopable(n + 1)
<1>1. PICK g : Loops(g, Level(n))
  BY DEF Loopable
<1> DEFINE Body(f, x) ==
      IF Data(x) = NoData THEN [r |-> Next(x), data |-> {}]
      ELSE [r |-> f[Next(x)].r, data |-> {Data(x)} \cup f[Next(x)].data]
<1>2. PICK h : h = [x \in Level(n + 1) |-> Body(g, x)]
  OBVIOUS
<1>3. \A x \in Level(n) : g[x] = Body(g, x) /\ x \in Level(n + 1) /\ h[x] = Body(g, x)
  <2>1. \A x \in Level(n) : g[x] = Body(g, x)
    BY <1>1 DEF Loops
  <2>2. \A x \in Level(n) : x \in Level(n + 1)
    BY BufferSize DEF Level
  <2> QED BY <1>2, <2>1, <2>2
<1>4. ASSUME NEW x \in Level(n + 1), Data(x) # NoData PROVE h[Next(x)] = g[Next(x)]
  <2>1. x \in ReordererType /\ Cardinality(x.buffer) <= n + 1
    BY DEF Level
  <2>2. Next(x) \in Level(n)
    BY <1>4, <2>1, NextSmaller, BufferSize DEF Level
  <2> QED BY <1>3, <2>2
<1>5. \A x \in Level(n + 1) : Body(g, x) = Body(h, x)
  BY <1>4
<1>6. h = [x \in Level(n + 1) |-> Body(h, x)]
  BY <1>2, <1>5
<1> QED BY <1>6 DEF Loops, Loopable

LEMMA LoopsAll == \E g : Loops(g, ReordererType)
<1> DEFINE Bad == {n \in Nat : ~ Loopable(n)}
<1>1. Bad = {}
  <2> SUFFICES ASSUME Bad # {} PROVE FALSE
    OBVIOUS
  <2>1. PICK n \in Bad : \A b \in Bad : n <= b
    <3>1. Bad \in SUBSET Nat
      OBVIOUS
    <3> HIDE DEF Bad
    <3> QED BY <3>1, LeastExists
  <2>2. n # 0
    BY LoopsFirst
  <2>3. n - 1 \in Nat /\ n - 1 \notin Bad /\ n - 1 + 1 = n
    BY <2>1, <2>2
  <2>4. Loopable(n - 1 + 1)
    BY <2>3, LoopsNext
  <2> QED BY <2>1, <2>3, <2>4
<1>2. Loopable(SeqSpace)
  BY <1>1, SeqSpaceAssumption
<1>3. Level(SeqSpace) = ReordererType
  BY BufferSize DEF Level
<1> QED BY <1>2, <1>3 DEF Loopable

LEMMA IteratedNextLoops ==
    ASSUME NEW x \in ReordererType
    PROVE  /\ Data(x) = NoData => IteratedNext[x] = [r |-> Next(x), data |-> {}]
           /\ Data(x) # NoData =>
                 IteratedNext[x] = [r |-> IteratedNext[Next(x)].r,
                                    data |-> {Data(x)} \cup IteratedNext[Next(x)].data]
<1>1. Loops(IteratedNext, ReordererType)
  BY LoopsAll DEF Loops, IteratedNext
<1> QED BY <1>1 DEF Loops

-----------------------------------------------------------------------------
\* The closed form satisfies the equations of the loop.

Sane(x) == x \in ReordererType /\ x.buffer \subseteq Frames /\ \A b \in x.buffer : b >= x.nextSeq

LEMMA SaneIsSane ==
    ASSUME NEW x, Sane(x)
    PROVE  x \in ReordererType /\ SaneReorderer(x)
BY FramesAssumption DEF Sane, SaneReorderer, FrameSeq

\* A run of buffered numbers has one end.
LEMMA OneEnd ==
    ASSUME NEW d \in Int, NEW e \in Int, NEW f \in Int, NEW S,
           d < e, e \notin S, d .. e - 1 \subseteq S,
           d < f, f \notin S, d .. f - 1 \subseteq S
    PROVE  e = f
<1>1. ~ (e < f)
  <2> SUFFICES ASSUME e < f PROVE FALSE
    OBVIOUS
  <2>1. e \in d .. f - 1
    OBVIOUS
  <2> QED BY <2>1
<1>2. ~ (f < e)
  <2> SUFFICES ASSUME f < e PROVE FALSE
    OBVIOUS
  <2>1. f \in d .. e - 1
    OBVIOUS
  <2> QED BY <2>1
<1> QED BY <1>1, <1>2

LEMMA DrainEnds ==
    ASSUME NEW x, Sane(x), Data(x) = NoData
    PROVE  Drained(x) = {} /\ Drain(x) = Next(x)
<1>1. x \in ReordererType /\ SaneReorderer(x) /\ x.nextSeq \in SeqNum
  BY SaneIsSane DEF ReordererType
<1>2. \A b \in x.buffer : b \in Nat /\ b # NoData
  <2>1. \A b \in x.buffer : b \in Nat
    BY <1>1, Bounds DEF SaneReorderer
  <2> QED BY <2>1 DEF NoData
<1>3. ~GapExpired(x)
  BY <1>1, <1>2, NextSpec DEF Sane
<1>4. ~Ready(x)
  <2> SUFFICES ASSUME Ready(x) PROVE FALSE
    OBVIOUS
  <2>1. Data(x) = x.nextSeq
    BY <1>3 DEF Data
  <2> QED BY <1>2, <2>1 DEF Ready
<1>5. DrainFrom(x) = x.nextSeq /\ DrainTo(x) = x.nextSeq /\ x.nextSeq \in Int
  BY <1>1, <1>3, <1>4, DrainRange, SeqSpaceAssumption DEF SeqNum
<1>6. x.nextSeq .. x.nextSeq - 1 = {}
  BY <1>5
<1>7. Drained(x) = {}
  BY <1>5, <1>6 DEF Drained
<1> QED BY <1>7 DEF Drain

LEMMA DrainGoesOn ==
    ASSUME NEW x, Sane(x), Data(x) # NoData
    PROVE  /\ Sane(Next(x))
           /\ Drained(x) = {Data(x)} \cup Drained(Next(x))
           /\ Drain(x) = Drain(Next(x))
<1> USE SeqSpaceAssumption
<1>1. PICK m : m = Data(x)
  OBVIOUS
<1>2. PICK y : y = Next(x)
  OBVIOUS
<1>3. /\ m \in x.buffer /\ \A b \in x.buffer : m <= b
      /\ y \in ReordererType /\ y.nextSeq = m + 1 /\ y.buffer = x.buffer \ {m}
      /\ y.waitingSince = "zero"
      /\ ~GapExpired(x) => m = x.nextSeq
      /\ GapExpired(x) => skipToLowest(x).nextSeq = m
  BY <1>1, <1>2, NextSpec DEF Sane
<1>4. x.buffer \subseteq SeqNum /\ m \in Nat /\ m <= SeqSpace - 2 /\ SeqNum \subseteq Nat
  <2>1. m \in FrameSeq /\ x.buffer \subseteq FrameSeq
    BY <1>3, SaneIsSane DEF SaneReorderer
  <2>2. FrameSeq \subseteq SeqNum /\ SeqNum \subseteq Nat
    BY Bounds
  <2>3. m \in Nat /\ m <= SeqSpace - 2
    BY <2>1 DEF FrameSeq
  <2> QED BY <2>1, <2>2, <2>3
<1>5. Sane(y)
  <2>1. ASSUME NEW b \in y.buffer PROVE b >= y.nextSeq
    <3>1. b \in Nat /\ m <= b /\ b # m
      BY <1>3, <1>4
    <3> QED BY <1>3, <1>4, <3>1
  <2> QED BY <1>3, <2>1 DEF Sane
<1>6. x \in ReordererType /\ SaneReorderer(x) /\ SaneReorderer(y)
  BY <1>5, SaneIsSane
<1>7. Ready(x) \/ GapExpired(x)
  BY DEF Data
<1>8. DrainFrom(x) = m
  <2>1. CASE Ready(x)
    BY <1>3, <2>1 DEF DrainFrom, GapExpired
  <2>2. CASE GapExpired(x)
    <3>1. ~Ready(x)
      BY <2>2 DEF GapExpired
    <3>2. skipToLowest(x) \in ReordererType
      <4>1. PICK z : z = CHOOSE k \in x.buffer : IsLowest(x, k)
        OBVIOUS
      <4>2. z \in x.buffer
        BY <1>3, <1>6, <4>1, LowestExists
      <4>3. z \in SeqNum
        BY <1>4, <4>2
      <4>4. skipToLowest(x) \in {[x EXCEPT !.nextSeq = z], x}
        BY <4>1 DEF skipToLowest
      <4> QED BY <1>6, <4>3, <4>4 DEF ReordererType
    <3>3. PICK s : s = skipToLowest(x)
      OBVIOUS
    <3>4. Skipped(x).nextSeq = s.nextSeq
      BY <3>2, <3>3 DEF Skipped, ReordererType
    <3> QED BY <1>3, <2>2, <3>1, <3>3, <3>4 DEF DrainFrom
  <2> QED BY <1>7, <2>1, <2>2
<1>9. PICK e : e = DrainTo(x)
  OBVIOUS
<1>10. e \in Nat /\ m < e /\ e \notin x.buffer /\ m .. e - 1 \subseteq x.buffer /\ Drained(x) = m .. e - 1
  <2>1. Drained(x) = m .. e - 1
    BY <1>8, <1>9 DEF Drained
  <2> QED BY <1>4, <1>6, <1>7, <1>8, <1>9, <2>1, DrainRange
<1>11. ~GapExpired(y)
  BY <1>3 DEF GapExpired
<1>12. Drained(x) # {} /\ m \in Drained(x)
  BY <1>4, <1>10
<1>13. Drain(x) = [nextSeq |-> e % SeqSpace, buffer |-> x.buffer \ Drained(x),
                   waitingSince |-> IF x.buffer \ Drained(x) = {} THEN "zero" ELSE "recent"]
  BY <1>9, <1>12 DEF Drain
<1>14. CASE Ready(y)
  <2>1. DrainFrom(y) = m + 1
    BY <1>3, <1>11, <1>14 DEF DrainFrom
  <2>2. PICK f : f = DrainTo(y)
    OBVIOUS
  <2>3. /\ f \in Nat /\ m + 1 < f /\ f \notin y.buffer
        /\ m + 1 .. f - 1 \subseteq y.buffer /\ Drained(y) = m + 1 .. f - 1
    <3>1. Drained(y) = m + 1 .. f - 1
      BY <2>1, <2>2 DEF Drained
    <3> QED BY <1>3, <1>4, <1>6, <1>14, <2>1, <2>2, <3>1, DrainRange
  <2>4. f # m /\ f \notin x.buffer /\ m < f
    BY <1>3, <1>4, <2>3
  <2>5. m .. f - 1 \subseteq x.buffer
    <3> SUFFICES ASSUME NEW i \in m .. f - 1 PROVE i \in x.buffer
      OBVIOUS
    <3>1. i = m \/ i \in m + 1 .. f - 1
      BY <1>4, <2>3
    <3> QED BY <1>3, <2>3, <3>1
  <2>6. e = f
    BY <1>4, <1>10, <2>3, <2>4, <2>5, OneEnd
  <2>7. Drained(x) = {m} \cup Drained(y)
    BY <1>4, <1>10, <2>3, <2>6
  <2>8. y.buffer \ Drained(y) = x.buffer \ Drained(x)
    BY <1>3, <2>7
  <2>9. Drained(y) # {}
    <3>1. m + 1 \in Drained(y)
      BY <1>4, <2>3
    <3> QED BY <3>1
  <2>10. Drain(y) = Drain(x)
    BY <1>13, <2>2, <2>6, <2>8, <2>9 DEF Drain
  <2> QED BY <1>1, <1>2, <1>5, <2>7, <2>10
<1>15. CASE ~Ready(y)
  <2>1. m + 1 \notin x.buffer
    BY <1>3, <1>4, <1>15 DEF Ready
  <2>2. m .. m + 1 - 1 = {m}
    BY <1>4
  <2>3. e = m + 1
    BY <1>3, <1>4, <1>10, <2>1, <2>2, OneEnd
  <2>4. Drained(x) = {m}
    BY <1>10, <2>2, <2>3, SMTT(30)
  <2>5. Data(y) = NoData
    BY <1>11, <1>15 DEF Data
  <2>6. Drained(y) = {} /\ Drain(y) = Next(y)
    BY <1>5, <2>5, DrainEnds
  <2>7. (m + 1) % SeqSpace = m + 1
    BY <1>4
  <2>8. y = [nextSeq |-> m + 1, buffer |-> x.buffer \ {m}, waitingSince |-> "zero"]
    BY <1>3 DEF ReordererType
  <2>9. Next(y) = [nextSeq |-> m + 1, buffer |-> x.buffer \ {m},
                   waitingSince |-> IF x.buffer \ {m} = {} THEN "zero" ELSE "recent"]
    <3>1. CASE y.buffer = {}
      <4>1. Next(y) = [y EXCEPT !.waitingSince = "zero"]
        BY <1>11, <1>15, <3>1 DEF Next
      <4> QED BY <2>8, <3>1, <4>1
    <3>2. CASE y.buffer # {}
      <4>1. Next(y) = [y EXCEPT !.waitingSince = "recent"]
        BY <1>3, <1>11, <1>15, <3>2 DEF Next
      <4> QED BY <2>8, <3>2, <4>1
    <3> QED BY <3>1, <3>2
  <2>10. Drain(x) = Drain(y)
    BY <1>13, <2>3, <2>4, <2>6, <2>7, <2>9
  <2> QED BY <1>1, <1>2, <1>5, <2>4, <2>6, <2>10
<1> QED BY <1>14, <1>15

-----------------------------------------------------------------------------
ClosedForm(x) == IteratedNext[x] = [r |-> Drain(x), data |-> Drained(x)]

LEMMA ClosedFormHolds == \A x : Sane(x) => ClosedForm(x)
<1> DEFINE Wrong(n) == \E x : Sane(x) /\ ~ClosedForm(x) /\ Cardinality(x.buffer) = n
           Bad == {n \in Nat : Wrong(n)}
<1>1. ASSUME NEW x, Sane(x), ~ClosedForm(x)
      PROVE  /\ Sane(Next(x)) /\ ~ClosedForm(Next(x))
             /\ Cardinality(Next(x).buffer) = Cardinality(x.buffer) - 1
  <2>1. x \in ReordererType
    BY <1>1 DEF Sane
  <2>2. Data(x) # NoData
    <3> SUFFICES ASSUME Data(x) = NoData PROVE FALSE
      OBVIOUS
    <3>1. IteratedNext[x] = [r |-> Next(x), data |-> {}]
      BY <2>1, IteratedNextLoops
    <3>2. Drained(x) = {} /\ Drain(x) = Next(x)
      BY <1>1, DrainEnds
    <3> QED BY <1>1, <3>1, <3>2 DEF ClosedForm
  <2>3. IteratedNext[x] = [r |-> IteratedNext[Next(x)].r,
                           data |-> {Data(x)} \cup IteratedNext[Next(x)].data]
    BY <2>1, <2>2, IteratedNextLoops
  <2>4. /\ Sane(Next(x)) /\ Drained(x) = {Data(x)} \cup Drained(Next(x))
        /\ Drain(x) = Drain(Next(x))
    BY <1>1, <2>2, DrainGoesOn
  <2>5. ~ClosedForm(Next(x))
    <3> SUFFICES ASSUME ClosedForm(Next(x)) PROVE FALSE
      OBVIOUS
    <3>1. /\ IteratedNext[Next(x)].r = Drain(Next(x))
          /\ IteratedNext[Next(x)].data = Drained(Next(x))
      BY DEF ClosedForm
    <3> QED BY <1>1, <2>3, <2>4, <3>1 DEF ClosedForm
  <2>6. Cardinality(Next(x).buffer) = Cardinality(x.buffer) - 1
    BY <2>1, <2>2, NextSmaller
  <2> QED BY <2>4, <2>5, <2>6
<1>2. Bad = {}
  <2> SUFFICES ASSUME Bad # {} PROVE FALSE
    OBVIOUS
  <2>1. PICK n \in Bad : \A b \in Bad : n <= b
    <3>1. Bad \in SUBSET Nat
      OBVIOUS
    <3> HIDE DEF Bad
    <3> QED BY <3>1, LeastExists
  <2>2. PICK x : Sane(x) /\ ~ClosedForm(x) /\ Cardinality(x.buffer) = n
    BY <2>1
  <2>3. /\ Sane(Next(x)) /\ ~ClosedForm(Next(x))
        /\ Cardinality(Next(x).buffer) = n - 1
    BY <1>1, <2>2
  <2>4. Cardinality(Next(x).buffer) \in Nat
    BY <2>3, BufferSize DEF Sane
  <2>5. n - 1 \in Nat /\ ~ (n <= n - 1) /\ n \in Nat
    BY <2>1, <2>3, <2>4
  <2>6. n - 1 \in Bad
    BY <2>3, <2>5
  <2> QED BY <2>1, <2>5, <2>6
<1>3. ASSUME NEW x, Sane(x) PROVE Cardinality(x.buffer) \in Nat
  BY <1>3, BufferSize DEF Sane
<1> QED BY <1>2, <1>3

\* The closed form of the drain loop that the central server and the splitter
\* use is what calling Next() until it returns nil computes, in every
\* reachable state of a reorderer (upstream.go 137-143 and 285-291,
\* splitter.go 185-190, reorder.go Next).
THEOREM DrainClosedForm == Spec => []DrainIsIteratedNext
<1>1. Inv => DrainIsIteratedNext
  <2>1. Inv => Sane(r)
    BY DEF Inv, TypeOK, Accounted, Sane
  <2> QED BY <2>1, ClosedFormHolds DEF ClosedForm, DrainIsIteratedNext
<1> QED BY Invariance, <1>1, PTL

-----------------------------------------------------------------------------
(* Wire: the frames on one tunnel connection.  First the bytes of a frame, *)
(* and of a SYN payload.                                                   *)

FrameLen(f) == 3 + Len(f.payload)

\* What WriteFrame puts at each place.
LEMMA BytesFacts ==
    ASSUME NEW f \in Frame
    PROVE  /\ Bytes(f) \in Seq(Nat) /\ Len(Bytes(f)) = FrameLen(f)
           /\ FrameLen(f) \in Nat /\ Len(f.payload) \in Nat
           /\ Bytes(f)[1] = f.id /\ Bytes(f)[2] = f.seq /\ Bytes(f)[3] = Len(f.payload)
           /\ \A j \in 1 .. Len(f.payload) : Bytes(f)[3 + j] = f.payload[j]
<1>1. f.id \in Nat /\ f.seq \in Nat /\ f.payload \in Seq(Nat) /\ Len(f.payload) \in Nat
  BY DEF Frame
<1> DEFINE h == <<f.id, f.seq, Len(f.payload)>>
<1>2. h \in Seq(Nat) /\ Len(h) = 3 /\ h[1] = f.id /\ h[2] = f.seq /\ h[3] = Len(f.payload)
  BY <1>1
<1>3. Bytes(f) = h \o f.payload
  BY DEF Bytes
<1> HIDE DEF h
<1>4. PICK p : p = f.payload
  OBVIOUS
<1>5. PICK c : c = h \o p
  OBVIOUS
<1>6. /\ c \in Seq(Nat) /\ Len(c) = Len(h) + Len(p)
      /\ \A i \in 1 .. Len(h) : c[i] = h[i]
      /\ \A j \in 1 .. Len(p) : c[Len(h) + j] = p[j]
  BY <1>1, <1>2, <1>4, <1>5, ConcatNat
<1>7. c[1] = h[1] /\ c[2] = h[2] /\ c[3] = h[3]
  BY <1>2, <1>6
<1>8. Bytes(f) = c /\ FrameLen(f) = 3 + Len(p) /\ f.payload = p /\ Len(p) \in Nat
  BY <1>1, <1>3, <1>4, <1>5 DEF FrameLen
<1>9. Len(c) = FrameLen(f) /\ FrameLen(f) \in Nat
  BY <1>2, <1>6, <1>8
<1>10. \A j \in 1 .. Len(p) : c[3 + j] = p[j]
  BY <1>2, <1>6
<1>11. c[1] = f.id /\ c[2] = f.seq /\ c[3] = Len(f.payload)
  BY <1>2, <1>7
<1> QED BY <1>1, <1>6, <1>8, <1>9, <1>10, <1>11

\* The central server decodes the target that the client encoded.
LEMMA DecodesTarget ==
    ASSUME NEW t \in Target
    PROVE  /\ EncodeSYNPayload(t) \in Seq(Nat)
           /\ DecodeSYNPayload(EncodeSYNPayload(t)) = t
<1> DEFINE p == EncodeSYNPayload(t)
           q == <<t.atyp>> \o t.addr
<1>1. /\ t.atyp \in {1, 3, 4} /\ t.addr \in Seq(Nat) /\ t.port \in Nat
      /\ t.addr # << >> /\ Len(t.addr) = AddrLen(p)
      /\ t = [atyp |-> t.atyp, addr |-> t.addr, port |-> t.port]
  BY DEF Target
<1>2. /\ q \in Seq(Nat) /\ Len(q) = 1 + Len(t.addr) /\ q[1] = t.atyp
      /\ Len(t.addr) \in Nat \ {0}
      /\ \A i \in 1 .. Len(t.addr) : q[1 + i] = t.addr[i]
  BY <1>1
<1>3. p = q \o <<t.port>>
  BY DEF EncodeSYNPayload
<1> HIDE DEF p, q
<1>4. /\ p \in Seq(Nat) /\ Len(p) = 2 + Len(t.addr) /\ p[2 + Len(t.addr)] = t.port
      /\ \A i \in 1 .. 1 + Len(t.addr) : p[i] = q[i]
  <2>1. p = Append(q, t.port)
    BY <1>1, <1>2, <1>3
  <2>2. /\ Append(q, t.port) \in Seq(Nat) /\ Len(Append(q, t.port)) = Len(q) + 1
        /\ Append(q, t.port)[Len(q) + 1] = t.port
        /\ \A i \in 1 .. Len(q) : Append(q, t.port)[i] = q[i]
    BY <1>1, <1>2
  <2>3. Len(q) + 1 = 2 + Len(t.addr)
    BY <1>2
  <2> QED BY <1>2, <2>1, <2>2, <2>3
<1>5. p[1] = t.atyp
  BY <1>2, <1>4
<1>6. SubSeq(p, 2, 1 + Len(t.addr)) = t.addr
  <2>1. PICK a, l : a = t.addr /\ l = Len(a)
    OBVIOUS
  <2>2. /\ a \in Seq(Nat) /\ l \in Nat /\ Len(p) = 2 + l /\ p \in Seq(Nat)
        /\ \A i \in 1 .. 1 + l : p[i] = q[i]
        /\ \A i \in 1 .. l : q[1 + i] = a[i]
    BY <1>1, <1>2, <1>4, <2>1
  <2>3. PICK s : s = SubSeq(p, 2, 1 + l)
    OBVIOUS
  <2>4. s \in Seq(Nat) /\ Len(s) = l /\ \A i \in 1 .. l : s[i] = p[1 + i]
    BY <2>2, <2>3
  <2>5. ASSUME NEW i \in 1 .. Len(s) PROVE s[i] = a[i]
    <3>1. i \in 1 .. l /\ 1 + i \in 1 .. 1 + l
      BY <2>2, <2>4
    <3> QED BY <2>2, <2>4, <3>1
  <2>6. s = a
    BY <2>1, <2>2, <2>4, <2>5, SeqEqual
  <2> QED BY <2>1, <2>3, <2>6
<1>7. ~ (Len(p) < MinSYN \/ p[1] \notin {1, 3, 4}) /\ ~ (Len(p) < 1 + AddrLen(p) + 1)
  <2>1. PICK l, a : l = Len(t.addr) /\ a = t.atyp
    OBVIOUS
  <2>2. l \in Nat /\ l # 0 /\ Len(p) = 2 + l /\ p[1] = a /\ AddrLen(p) = l /\ a \in {1, 3, 4}
    BY <1>1, <1>2, <1>4, <1>5, <2>1
  <2>3. Len(p) >= 3 /\ ~ (2 + l < 1 + l + 1)
    BY <2>2
  <2> QED BY <2>2, <2>3 DEF MinSYN
<1>8. DecodeSYNPayload(p) = [atyp |-> p[1], addr |-> SubSeq(p, 2, 1 + AddrLen(p)),
                               port |-> p[2 + AddrLen(p)]]
  BY <1>7 DEF DecodeSYNPayload
<1>9. DecodeSYNPayload(p) = t
  BY <1>1, <1>4, <1>5, <1>6, <1>8
<1> QED BY <1>4, <1>9 DEF p

-----------------------------------------------------------------------------
(* A sequence of frames, their bytes one after the other, and how far the  *)
(* reader is.                                                              *)

\* D holds bytes of the frames fs from frame n + 1 on; off[k] is where frame k
\* begins.
Aligned(fs, off, n, D) ==
    /\ off \in [1 .. Len(fs) -> Nat]
    /\ \A j, k \in 1 .. Len(fs) : j <= k => off[j] <= off[k]
    /\ \A k \in 1 .. Len(fs) - 1 : off[k + 1] = off[k] + FrameLen(fs[k])
    /\ \A k \in n + 1 .. Len(fs) : \A i \in 1 .. FrameLen(fs[k]) :
          off[k] - off[n + 1] + i <= Len(D) => D[off[k] - off[n + 1] + i] = Bytes(fs[k])[i]

\* Where byte i of a frame that begins at a lies, seen from b.
LEMMA Span ==
    ASSUME NEW a \in Nat, NEW b \in Nat, b <= a, NEW L \in Nat, NEW i \in 1 .. L,
           NEW c \in Nat, a - b + i <= c
    PROVE  a - b + i \in 1 .. c
OBVIOUS

\* What is lost is the end.
LEMMA AlignedShrinks ==
    ASSUME NEW fs \in Seq(Frame), NEW off, NEW n \in Nat, n < Len(fs), NEW D \in Seq(Nat),
           Aligned(fs, off, n, D), NEW E \in Seq(Nat), Len(E) <= Len(D),
           \A i \in 1 .. Len(E) : E[i] = D[i]
    PROVE  Aligned(fs, off, n, E)
<1> SUFFICES ASSUME NEW k \in n + 1 .. Len(fs), NEW i \in 1 .. FrameLen(fs[k]),
                    off[k] - off[n + 1] + i <= Len(E)
             PROVE  E[off[k] - off[n + 1] + i] = Bytes(fs[k])[i]
  BY DEF Aligned
<1>1. k \in 1 .. Len(fs) /\ n + 1 \in 1 .. Len(fs) /\ n + 1 <= k
  OBVIOUS
<1>2. off[k] \in Nat /\ off[n + 1] \in Nat /\ off[n + 1] <= off[k]
  BY <1>1 DEF Aligned
<1>3. FrameLen(fs[k]) \in Nat
  BY <1>1, BytesFacts
<1>4. off[k] - off[n + 1] + i \in 1 .. Len(E)
  <2>1. Len(E) \in Nat
    OBVIOUS
  <2> QED BY <1>2, <1>3, <2>1, Span
<1>5. off[k] - off[n + 1] + i <= Len(D)
  BY <1>4
<1>6. D[off[k] - off[n + 1] + i] = Bytes(fs[k])[i]
  BY <1>5 DEF Aligned
<1> QED BY <1>4, <1>6

\* A frame is taken off.
LEMMA AlignedTakes ==
    ASSUME NEW fs \in Seq(Frame), NEW off, NEW n \in Nat, n + 1 < Len(fs), NEW D \in Seq(Nat),
           Aligned(fs, off, n, D), FrameLen(fs[n + 1]) <= Len(D)
    PROVE  Aligned(fs, off, n + 1, SubSeq(D, FrameLen(fs[n + 1]) + 1, Len(D)))
<1> DEFINE L == FrameLen(fs[n + 1])
           E == SubSeq(D, L + 1, Len(D))
<1>1. n + 1 \in 1 .. Len(fs) /\ n + 2 \in 1 .. Len(fs) /\ n + 1 \in 1 .. Len(fs) - 1
  OBVIOUS
<1>2. L \in Nat /\ L <= Len(D)
  BY <1>1, BytesFacts
<1>3. /\ off[n + 1] \in Nat /\ off[n + 2] \in Nat /\ off[n + 1 + 1] = off[n + 1] + L
      /\ n + 1 + 1 = n + 2
  BY <1>1 DEF Aligned
<1> HIDE DEF L
<1>4. E \in Seq(Nat) /\ Len(E) = Len(D) - L /\ \A i \in 1 .. Len(D) - L : E[i] = D[L + i]
  BY <1>2
<1> HIDE DEF E
<1>5. ASSUME NEW k \in n + 1 + 1 .. Len(fs), NEW i \in 1 .. FrameLen(fs[k]),
             off[k] - off[n + 1 + 1] + i <= Len(E)
      PROVE  E[off[k] - off[n + 1 + 1] + i] = Bytes(fs[k])[i]
  <2>1. k \in 1 .. Len(fs) /\ n + 2 <= k /\ k \in n + 1 .. Len(fs)
    OBVIOUS
  <2>2. off[k] \in Nat /\ off[n + 2] <= off[k]
    BY <1>1, <2>1 DEF Aligned
  <2>3. FrameLen(fs[k]) \in Nat
    BY <2>1, BytesFacts
  <2>4. off[k] - off[n + 2] + i \in 1 .. Len(D) - L
    <3>1. Len(E) \in Nat /\ off[k] - off[n + 2] + i <= Len(E)
      BY <1>3, <1>4, <1>5
    <3>2. off[k] - off[n + 2] + i \in 1 .. Len(E)
      BY <1>3, <2>2, <2>3, <3>1, Span
    <3> QED BY <1>4, <3>2
  <2>5. E[off[k] - off[n + 2] + i] = D[L + (off[k] - off[n + 2] + i)]
    BY <1>4, <2>4
  <2>6. L + (off[k] - off[n + 2] + i) = off[k] - off[n + 1] + i
    BY <1>2, <1>3, <2>2, <2>3
  <2>7. off[k] - off[n + 1] + i <= Len(D)
    BY <1>2, <2>4, <2>6
  <2>8. D[off[k] - off[n + 1] + i] = Bytes(fs[k])[i]
    BY <2>1, <2>7 DEF Aligned
  <2> QED BY <1>3, <2>5, <2>6, <2>8
<1>6. Aligned(fs, off, n + 1, E)
  BY <1>5 DEF Aligned
<1> QED BY <1>6 DEF E, L

\* Bytes of a frame follow the last complete frame.
LEMMA AlignedGrows ==
    ASSUME NEW ws \in Seq(Frame), NEW t \in Frame, NEW f \in Frame, NEW off,
           NEW n \in 0 .. Len(ws), NEW D \in Seq(Nat),
           Aligned(Append(ws, t), off, n, D), Len(D) = off[Len(ws) + 1] - off[n + 1],
           NEW b \in 0 .. FrameLen(f)
    PROVE  Aligned(Append(ws, f), off, n, D \o SubSeq(Bytes(f), 1, b))
<1> DEFINE m == Len(ws) + 1
           fs == Append(ws, t)
           gs == Append(ws, f)
           X == SubSeq(Bytes(f), 1, b)
           E == D \o X
<1>1. /\ fs \in Seq(Frame) /\ Len(fs) = m /\ gs \in Seq(Frame) /\ Len(gs) = m /\ m \in Nat
      /\ \A k \in 1 .. m - 1 : fs[k] = gs[k] /\ gs[k] \in Frame
      /\ gs[m] = f
  OBVIOUS
<1>2. Bytes(f) \in Seq(Nat) /\ Len(Bytes(f)) = FrameLen(f) /\ FrameLen(f) \in Nat
  BY BytesFacts
<1>3. X \in Seq(Nat) /\ Len(X) = b /\ \A i \in 1 .. b : X[i] = Bytes(f)[i]
  BY <1>2
<1> HIDE DEF X
<1>4. /\ E \in Seq(Nat) /\ Len(E) = Len(D) + b /\ Len(D) \in Nat /\ b \in Nat
      /\ \A i \in 1 .. Len(D) : E[i] = D[i]
      /\ \A i \in 1 .. b : E[Len(D) + i] = X[i]
  <2>1. /\ E \in Seq(Nat) /\ Len(E) = Len(D) + Len(X) /\ Len(D) \in Nat
        /\ \A i \in 1 .. Len(D) : E[i] = D[i]
        /\ \A i \in 1 .. Len(X) : E[Len(D) + i] = X[i]
    BY <1>3, ConcatNat
  <2>2. b \in Nat
    BY <1>2
  <2> QED BY <1>3, <2>1, <2>2
<1>5. /\ off \in [1 .. m -> Nat] /\ \A j, k \in 1 .. m : j <= k => off[j] <= off[k]
      /\ \A k \in 1 .. m - 1 : off[k + 1] = off[k] + FrameLen(fs[k])
      /\ \A k \in n + 1 .. m : \A i \in 1 .. FrameLen(fs[k]) :
          off[k] - off[n + 1] + i <= Len(D) => D[off[k] - off[n + 1] + i] = Bytes(fs[k])[i]
  BY <1>1 DEF Aligned
<1>6. Len(D) = off[m] - off[n + 1] /\ n + 1 \in 1 .. m /\ off[n + 1] \in Nat /\ off[m] \in Nat
  BY <1>1, <1>5
<1> HIDE DEF fs, gs, m, E
<1>7. \A k \in 1 .. m - 1 : off[k + 1] = off[k] + FrameLen(gs[k])
  BY <1>1, <1>5
<1>8. ASSUME NEW k \in n + 1 .. m, NEW i \in 1 .. FrameLen(gs[k]),
             off[k] - off[n + 1] + i <= Len(E)
      PROVE  E[off[k] - off[n + 1] + i] = Bytes(gs[k])[i]
  <2>1. CASE k = m
    <3>0. i \in 1 .. FrameLen(f) /\ off[m] - off[n + 1] + i <= Len(D) + b
      BY <1>1, <1>4, <1>8, <2>1
    <3>1. i \in Nat \ {0} /\ i <= b
      BY <1>2, <1>4, <1>6, <3>0
    <3>2. E[Len(D) + i] = Bytes(f)[i]
      BY <1>3, <1>4, <3>1
    <3> QED BY <1>1, <1>6, <2>1, <3>2
  <2>2. CASE k # m
    <3>1. k \in 1 .. m - 1 /\ k + 1 \in 1 .. m /\ k + 1 <= m /\ m \in 1 .. m /\ k \in 1 .. m /\ n + 1 <= k
      BY <1>1, <1>6, <2>2
    <3>2. fs[k] = gs[k] /\ FrameLen(gs[k]) \in Nat
      BY <1>1, <3>1, BytesFacts
    <3>3. off[k + 1] = off[k] + FrameLen(gs[k]) /\ off[k + 1] <= off[m] /\ off[k] \in Nat
          /\ off[n + 1] <= off[k]
      BY <1>5, <1>6, <1>7, <3>1
    <3>4. off[k] - off[n + 1] + i \in 1 .. Len(D)
      <4>1. PICK L : L = FrameLen(gs[k])
        OBVIOUS
      <4>2. i \in 1 .. L /\ L \in Nat
        BY <3>2, <4>1
      <4>3. off[k] + L <= off[m]
        BY <3>3, <4>1
      <4>4. PICK p, q : p = off[k] /\ q = off[n + 1]
        OBVIOUS
      <4>5. p \in Nat /\ q \in Nat /\ q <= p /\ p + L <= off[m]
        BY <1>6, <3>3, <4>3, <4>4
      <4>6. Len(D) = off[m] - q /\ off[m] \in Nat
        BY <1>6, <4>4
      <4>7. p - q + i <= Len(D)
        BY <4>2, <4>5, <4>6
      <4>8. Len(D) \in Nat
        OBVIOUS
      <4> QED BY <4>2, <4>4, <4>5, <4>7, <4>8, Span
    <3>5. D[off[k] - off[n + 1] + i] = Bytes(gs[k])[i]
      <4>1. i \in 1 .. FrameLen(fs[k]) /\ off[k] - off[n + 1] + i <= Len(D)
        BY <3>2, <3>4
      <4> QED BY <1>5, <3>2, <4>1
    <3> QED BY <1>4, <3>4, <3>5
  <2> QED BY <2>1, <2>2
<1>9. Aligned(gs, off, n, E)
  BY <1>1, <1>5, <1>7, <1>8 DEF Aligned
<1> QED BY <1>9 DEF gs, E, X

\* One more frame, of which nothing is there yet.
LEMMA AlignedExtends ==
    ASSUME NEW fs \in Seq(Frame), NEW t \in Frame, NEW off, NEW n \in Nat, n < Len(fs),
           NEW D \in Seq(Nat), Aligned(fs, off, n, D),
           Len(D) = off[Len(fs)] - off[n + 1] + FrameLen(fs[Len(fs)])
    PROVE  \E o : /\ Aligned(Append(fs, t), o, n, D)
                  /\ Len(D) = o[Len(fs) + 1] - o[n + 1]
<1> DEFINE m == Len(fs)
           gs == Append(fs, t)
<1>1. m \in Nat \ {0} /\ n + 1 \in 1 .. m /\ m \in 1 .. m /\ fs[m] \in Frame
  OBVIOUS
<1>2. /\ gs \in Seq(Frame) /\ Len(gs) = m + 1
      /\ \A k \in 1 .. m : gs[k] = fs[k] /\ fs[k] \in Frame
      /\ gs[m + 1] = t
  OBVIOUS
<1>3. /\ off \in [1 .. m -> Nat] /\ \A j, k \in 1 .. m : j <= k => off[j] <= off[k]
      /\ \A k \in 1 .. m - 1 : off[k + 1] = off[k] + FrameLen(fs[k])
      /\ \A k \in n + 1 .. m : \A i \in 1 .. FrameLen(fs[k]) :
          off[k] - off[n + 1] + i <= Len(D) => D[off[k] - off[n + 1] + i] = Bytes(fs[k])[i]
  BY DEF Aligned
<1>4. FrameLen(fs[m]) \in Nat
  BY <1>1, BytesFacts
<1> HIDE DEF gs, m
<1>5. PICK o : o = [k \in 1 .. m + 1 |-> IF k = m + 1 THEN off[m] + FrameLen(fs[m]) ELSE off[k]]
  OBVIOUS
<1>6. /\ o \in [1 .. m + 1 -> Nat] /\ o[m + 1] = off[m] + FrameLen(fs[m])
      /\ \A k \in 1 .. m : o[k] = off[k] /\ off[k] \in Nat
  BY <1>1, <1>3, <1>4, <1>5
<1>7. ASSUME NEW j \in 1 .. m + 1, NEW k \in 1 .. m + 1, j <= k PROVE o[j] <= o[k]
  <2>1. CASE k \in 1 .. m
    BY <1>1, <1>3, <1>6, <1>7, <2>1
  <2>2. CASE k = m + 1 /\ j \in 1 .. m
    <3>1. off[j] <= off[m] /\ off[j] \in Nat /\ off[m] \in Nat
      BY <1>1, <1>3, <1>6, <2>2
    <3> QED BY <1>4, <1>6, <2>2, <3>1
  <2>3. CASE k = m + 1 /\ j = m + 1
    BY <1>6, <2>3
  <2> QED BY <1>1, <2>1, <2>2, <2>3
<1>8. ASSUME NEW k \in 1 .. m + 1 - 1 PROVE o[k + 1] = o[k] + FrameLen(gs[k])
  <2>1. k \in 1 .. m /\ gs[k] = fs[k] /\ o[k] = off[k]
    BY <1>1, <1>2, <1>6
  <2>2. CASE k = m
    BY <1>6, <2>1, <2>2
  <2>3. CASE k # m
    <3>1. k \in 1 .. m - 1 /\ k + 1 \in 1 .. m
      BY <1>1, <2>1, <2>3
    <3> QED BY <1>3, <1>6, <2>1, <3>1
  <2> QED BY <2>2, <2>3
<1>9. Len(D) = o[m + 1] - o[n + 1]
  BY <1>1, <1>3, <1>4, <1>6 DEF m
<1>10. ASSUME NEW k \in n + 1 .. m + 1, NEW i \in 1 .. FrameLen(gs[k]),
              o[k] - o[n + 1] + i <= Len(D)
       PROVE  D[o[k] - o[n + 1] + i] = Bytes(gs[k])[i]
  <2>1. k # m + 1
    <3> SUFFICES ASSUME k = m + 1 PROVE FALSE
      OBVIOUS
    <3>0. gs[k] = t /\ FrameLen(t) \in Nat
      BY <1>2, BytesFacts
    <3>1. i \in Nat \ {0}
      <4>1. i \in 1 .. FrameLen(t)
        BY <3>0
      <4> QED BY <3>0, <4>1
    <3>2. o[m + 1] \in Nat /\ o[n + 1] \in Nat
      BY <1>1, <1>6
    <3> QED BY <1>9, <1>10, <3>1, <3>2
  <2>2. k \in 1 .. m /\ k \in n + 1 .. m
    BY <1>1, <2>1
  <2>3. gs[k] = fs[k] /\ o[k] = off[k] /\ o[n + 1] = off[n + 1]
    BY <1>1, <1>2, <1>6, <2>2
  <2>4. i \in 1 .. FrameLen(fs[k]) /\ off[k] - off[n + 1] + i <= Len(D)
    BY <1>10, <2>3
  <2>5. D[off[k] - off[n + 1] + i] = Bytes(fs[k])[i]
    BY <1>3, <2>2, <2>4, Zenon
  <2> QED BY <2>3, <2>5
<1>11. Aligned(gs, o, n, D)
  <2>1. Len(gs) = m + 1
    BY <1>2
  <2>2. o \in [1 .. Len(gs) -> Nat] /\ \A j, k \in 1 .. Len(gs) : j <= k => o[j] <= o[k]
    BY <1>6, <1>7, <2>1
  <2>3. ASSUME NEW k \in 1 .. Len(gs) - 1 PROVE o[k + 1] = o[k] + FrameLen(gs[k])
    <3>1. k \in 1 .. m + 1 - 1
      BY <1>1, <2>1
    <3> QED BY <1>8, <3>1
  <2>4. \A k \in n + 1 .. Len(gs) : \A i \in 1 .. FrameLen(gs[k]) :
          o[k] - o[n + 1] + i <= Len(D) => D[o[k] - o[n + 1] + i] = Bytes(gs[k])[i]
    BY <1>10, <2>1, Zenon
  <2> QED BY <2>2, <2>3, <2>4 DEF Aligned
<1> QED BY <1>9, <1>11 DEF gs, m

-----------------------------------------------------------------------------
(* The inductive invariant of Wire.                                        *)

WriterPcs == {"new", "send", "lock", "write", "failed", "done"}
ReaderPcs == {"first", "rest", "firstBody", "loop", "body", "socks", "ended"}

WriterType == [pc : WriterPcs, id : 0 .. IDSpace - 1, seq : {0, 1}, target : Target]

WireTypes ==
    /\ scene \in Scenes /\ nextID \in 0 .. IDSpace - 1 /\ mutex \in Writers \cup {"none"}
    /\ writer \in [Writers -> WriterType]
    /\ closed \in BOOLEAN /\ eof \in BOOLEAN /\ cut \in BOOLEAN /\ mixed \in BOOLEAN
    /\ mixed => cut
    /\ stream \in Seq(Nat) /\ written \in Seq(Frame) /\ dispatched \in Seq(Frame)
    /\ reader \in [pc : ReaderPcs, hdr : Seq(Nat)]
    /\ reader.pc \in {"first", "loop", "ended"} => reader.hdr = << >>
    /\ reader.pc \in {"rest", "socks"} => Len(reader.hdr) = 1
    /\ reader.pc \in {"firstBody", "body"} => Len(reader.hdr) = 3

\* A frame that was written has the ID of a connection, and the target of the same
\* connection if it is a SYN.
SentBy(ws, f) ==
    \E w \in Writers : /\ ws[w].pc # "new" /\ ws[w].id = f.id
                       /\ f.seq = 0 => f.payload = EncodeSYNPayload(ws[w].target)
FramesSent ==
    \A k \in 1 .. Len(written) : Len(written[k].payload) <= MaxPayloadSize /\ SentBy(writer, written[k])

\* The frames the reader hands on: readLoop skips ConnID 0.
Kept == {f \in Frame : scene.side = "client" \/ f.id # 0}

HandedOn ==
    ~ mixed => /\ Len(dispatched) <= Len(Filter(written, Kept))
               /\ \A j \in 1 .. Len(dispatched) : dispatched[j] = Filter(written, Kept)[j]

\* The header that was read and the bytes on the way are frame n + 1 and those that
\* follow it, of the last of which, tail, only part bytes were written.
Ahead == reader.hdr \o stream

Reads(tail, n, off, part) ==
    /\ tail \in Frame /\ Len(tail.payload) <= MaxPayloadSize
    /\ n \in 0 .. Len(written) /\ part \in 0 .. FrameLen(tail) - 1
    /\ Aligned(Append(written, tail), off, n, Ahead)
    /\ Len(Ahead) <= off[Len(written) + 1] - off[n + 1] + part
    /\ ~ eof => Len(Ahead) = off[Len(written) + 1] - off[n + 1] + part
    /\ ~ cut => part = 0
    /\ Len(dispatched) = Rank(written, Kept, n)

InStep ==
    ~ mixed /\ reader.pc \notin {"socks", "ended"} =>
        \E tail, n, off, part : Reads(tail, n, off, part)

WireInv == WireTypes /\ FramesSent /\ HandedOn /\ InStep

WireAssumed == WireAssumption /\ RequestsAssumption

\* At first nothing is on the way.
LEMMA WireInvInit == ASSUME WireAssumed, WireInit PROVE WireInv
<1> USE DEF WireAssumed
<1>1. IDSpace \in Nat \ {0, 1} /\ (IDSpace \div 2) - 1 <= IDSpace - 1 /\ MaxPayloadSize \in Nat
  BY DEF WireAssumption
<1>2. PICK rec \in Requests :
         writer = [w \in Writers |-> [pc |-> "new", id |-> 0, seq |-> 0, target |-> rec[w]]]
  BY DEF WireInit
<1>3. \A w \in Writers : rec[w] \in Target
  BY DEF RequestsAssumption
<1>4. writer \in [Writers -> WriterType]
  BY <1>1, <1>2, <1>3 DEF WriterPcs, WriterType
<1>5. /\ stream = << >> /\ written = << >> /\ dispatched = << >> /\ reader.hdr = << >>
      /\ reader \in [pc : {"first", "loop"}, hdr : {<< >>}]
      /\ ~ cut /\ ~ mixed /\ ~ eof /\ ~ closed
  BY DEF WireInit
<1>6. nextID \in 0 .. IDSpace - 1
  <2>1. nextID \in 0 .. (IDSpace \div 2) - 1 /\ IDSpace \div 2 \in Int
    BY <1>1 DEF WireInit
  <2> QED BY <1>1, <2>1
<1>7. WireTypes
  <2>1. scene \in Scenes /\ mutex \in Writers \cup {"none"} /\ closed \in BOOLEAN
        /\ eof \in BOOLEAN /\ cut \in BOOLEAN /\ mixed \in BOOLEAN
    BY DEF WireInit
  <2>2. << >> \in Seq(Nat) /\ << >> \in Seq(Frame)
    OBVIOUS
  <2>3. /\ reader \in [pc : ReaderPcs, hdr : Seq(Nat)]
        /\ reader.pc \in {"first", "loop", "ended"} => reader.hdr = << >>
        /\ reader.pc \in {"rest", "socks"} => Len(reader.hdr) = 1
        /\ reader.pc \in {"firstBody", "body"} => Len(reader.hdr) = 3
    BY <1>5, <2>2 DEF ReaderPcs
  <2> QED BY <1>4, <1>5, <1>6, <2>1, <2>2, <2>3 DEF WireTypes
<1>8. FramesSent
  BY <1>5 DEF FramesSent
<1>9. HandedOn
  <2>1. << >> \in Seq(Frame)
    OBVIOUS
  <2>2. Len(Filter(written, Kept)) \in Nat
    BY <1>5, <2>1, FilterFacts
  <2> QED BY <1>5, <2>2 DEF HandedOn
<1>10. InStep
  <2>1. PICK tail : tail = [id |-> 0, seq |-> 0, payload |-> << >>]
    OBVIOUS
  <2>2. tail \in Frame /\ Len(tail.payload) = 0 /\ FrameLen(tail) = 3
    BY <2>1 DEF Frame, FrameLen
  <2>3. PICK off : off = [k \in 1 .. 1 |-> 0]
    OBVIOUS
  <2>4. Ahead = << >>
    BY <1>5 DEF Ahead
  <2>5. Append(written, tail) = <<tail>> /\ Len(<<tail>>) = 1
    BY <1>5
  <2>6. Aligned(<<tail>>, off, 0, << >>)
    <3>1. off \in [1 .. 1 -> Nat] /\ off[1] = 0 /\ <<tail>>[1] = tail
      BY <2>3
    <3>2. ASSUME NEW k \in 0 + 1 .. 1, NEW i \in 1 .. FrameLen(<<tail>>[k]), off[k] - off[0 + 1] + i <= Len(<< >>)
          PROVE  FALSE
      <4>1. k = 1 /\ i \in 1 .. 3
        BY <2>2, <3>1
      <4> QED BY <3>1, <3>2, <4>1
    <3> QED BY <2>5, <3>1, <3>2 DEF Aligned
  <2>7. Rank(written, Kept, 0) = 0
    <3>1. << >> \in Seq(Frame)
      OBVIOUS
    <3> QED BY <1>5, <3>1, RankZero
  <2>8. Reads(tail, 0, off, 0)
    BY <1>1, <1>5, <2>2, <2>3, <2>4, <2>5, <2>6, <2>7 DEF Reads
  <2> QED BY <2>8 DEF InStep
<1> QED BY <1>7, <1>8, <1>9, <1>10 DEF WireInv

\* A connection that has an ID keeps it, and its target.
KeepsIDs ==
    \A w \in Writers : writer[w].pc # "new" =>
        writer'[w].pc # "new" /\ writer'[w].id = writer[w].id /\ writer'[w].target = writer[w].target

\* A frame stays the frame of its connection.
LEMMA SentByKept ==
    ASSUME KeepsIDs, NEW f, SentBy(writer, f) PROVE SentBy(writer', f)
<1>1. PICK w \in Writers : /\ writer[w].pc # "new" /\ writer[w].id = f.id
                           /\ f.seq = 0 => f.payload = EncodeSYNPayload(writer[w].target)
  BY DEF SentBy
<1>2. writer'[w].pc # "new" /\ writer'[w].id = f.id /\ writer'[w].target = writer[w].target
  BY <1>1 DEF KeepsIDs
<1> QED BY <1>1, <1>2 DEF SentBy

\* Steps that neither write nor read, such as the end of the connection.
LEMMA NothingMoves ==
    ASSUME WireInv, WireTypes', KeepsIDs,
           UNCHANGED <<scene, written, dispatched, cut, mixed, stream, reader>>, eof => eof'
    PROVE  WireInv'
<1>1. FramesSent'
  <2> SUFFICES ASSUME NEW k \in 1 .. Len(written')
               PROVE  Len(written'[k].payload) <= MaxPayloadSize /\ SentBy(writer', written'[k])
    BY DEF FramesSent
  <2>1. written' = written /\ k \in 1 .. Len(written)
    OBVIOUS
  <2>2. Len(written[k].payload) <= MaxPayloadSize /\ SentBy(writer, written[k])
    BY <2>1 DEF WireInv, FramesSent
  <2> QED BY <2>1, <2>2, SentByKept
<1>2. Kept' = Kept /\ Ahead' = Ahead
  BY DEF Kept, Ahead
<1>3. HandedOn'
  BY <1>2 DEF WireInv, HandedOn
<1>4. InStep'
  <2> SUFFICES ASSUME ~ mixed', reader'.pc \notin {"socks", "ended"}
               PROVE  \E tail, n, off, part : Reads(tail, n, off, part)'
    BY DEF InStep
  <2>1. PICK tail, n, off, part : Reads(tail, n, off, part)
    BY DEF WireInv, InStep
  <2>2. Reads(tail, n, off, part)'
    BY <1>2, <2>1 DEF Reads
  <2> QED BY <2>2
<1> QED BY <1>1, <1>3, <1>4 DEF WireInv

-----------------------------------------------------------------------------
(* Writers.                                                                *)

\* A connection gets its ID before it sends a frame.
LEMMA OpenInv ==
    ASSUME WireAssumed, WireInv, NEW w \in Writers, Open(w) PROVE WireInv'
<1>1. IDSpace \in Nat \ {0, 1}
  BY DEF WireAssumed, WireAssumption
<1>2. (nextID + 1) % IDSpace \in 0 .. IDSpace - 1
  BY <1>1 DEF WireInv, WireTypes
<1>3. /\ nextID' = (nextID + 1) % IDSpace /\ writer[w].pc = "new"
      /\ writer' = [writer EXCEPT ![w].pc = "send", ![w].id = nextID']
  BY DEF Open
<1>4. WireTypes'
  <2>1. writer' \in [Writers -> WriterType]
    <3>1. PICK x : x = [writer[w] EXCEPT !.pc = "send", !.id = nextID']
      OBVIOUS
    <3>2. writer[w] \in WriterType /\ writer \in [Writers -> WriterType]
      BY DEF WireInv, WireTypes
    <3>3. x \in WriterType
      BY <1>2, <1>3, <3>1, <3>2 DEF WriterType, WriterPcs
    <3>4. writer' = [writer EXCEPT ![w] = x]
      BY <1>3, <3>1, <3>2
    <3> QED BY <3>2, <3>3, <3>4
  <2> QED BY <1>2, <1>3, <2>1 DEF WireInv, WireTypes, Open, history
<1>5. KeepsIDs
  BY <1>3 DEF KeepsIDs, WireInv, WireTypes
<1> QED BY <1>4, <1>5, NothingMoves DEF Open, history

\* A step of a writer that changes nothing of it but its pc.
LEMMA Moves ==
    ASSUME WireInv, NEW w \in Writers, writer[w].pc # "new", NEW pc \in WriterPcs \ {"new"},
           writer' = [writer EXCEPT ![w].pc = pc]
    PROVE  /\ KeepsIDs
           /\ writer' \in [Writers -> WriterType]
<1>1. writer \in [Writers -> WriterType]
  BY DEF WireInv, WireTypes
<1> QED BY <1>1 DEF KeepsIDs, WriterType

LEMMA SendFrameInv ==
    ASSUME WireInv, NEW w \in Writers, SendFrame(w) PROVE WireInv'
<1>1. PICK pc \in {"done", "lock"} : writer' = [writer EXCEPT ![w].pc = pc]
  BY DEF SendFrame
<1>2. writer[w].pc # "new" /\ pc \in WriterPcs \ {"new"}
  BY DEF SendFrame, WriterPcs
<1>3. WireTypes' /\ KeepsIDs
  <2>1. KeepsIDs /\ writer' \in [Writers -> WriterType]
    BY <1>1, <1>2, Moves
  <2> QED BY <2>1 DEF WireInv, WireTypes, SendFrame, history
<1> QED BY <1>3, NothingMoves DEF SendFrame, history

LEMMA LockInv ==
    ASSUME WireInv, NEW w \in Writers, Lock(w) PROVE WireInv'
<1>1. PICK pc \in {"failed", "write"} : writer' = [writer EXCEPT ![w].pc = pc]
  BY DEF Lock
<1>2. writer[w].pc # "new" /\ pc \in WriterPcs \ {"new"}
  BY DEF Lock, WriterPcs
<1>3. WireTypes' /\ KeepsIDs
  <2>1. KeepsIDs /\ writer' \in [Writers -> WriterType]
    BY <1>1, <1>2, Moves
  <2>2. mutex' \in Writers \cup {"none"}
    BY DEF WireInv, WireTypes, Lock
  <2> QED BY <2>1, <2>2 DEF WireInv, WireTypes, Lock, history
<1> QED BY <1>3, NothingMoves DEF Lock, history

LEMMA FailedInv ==
    ASSUME WireInv, NEW w \in Writers, Failed(w) PROVE WireInv'
<1>1. writer' = [writer EXCEPT ![w].pc = "done"] /\ writer[w].pc # "new"
  BY DEF Failed
<1>2. WireTypes' /\ KeepsIDs
  <2>1. KeepsIDs /\ writer' \in [Writers -> WriterType]
    BY <1>1, Moves DEF WriterPcs
  <2>2. closed' \in BOOLEAN /\ eof' \in BOOLEAN
    BY DEF WireInv, WireTypes, Failed
  <2> QED BY <2>1, <2>2 DEF WireInv, WireTypes, Failed, history
<1>3. eof => eof'
  BY DEF Failed
<1> QED BY <1>2, <1>3, NothingMoves DEF Failed, history

\* What a writer writes is a frame that holds at least four bytes.
LEMMA FrameOfFacts ==
    ASSUME WireAssumed, WireInv, NEW w \in Writers
    PROVE  /\ FrameOf(w) \in Frame /\ FrameLen(FrameOf(w)) >= 4
           /\ FrameOf(w).id = writer[w].id
           /\ FrameOf(w).seq = 0 =>
                 FrameOf(w).payload = EncodeSYNPayload(writer[w].target)
<1>1. /\ writer[w].id \in 0 .. IDSpace - 1 /\ writer[w].seq \in {0, 1}
      /\ writer[w].target \in Target
  BY DEF WireInv, WireTypes, WriterType
<1>2. IDSpace \in Nat /\ scene.chunk \in Nat \ {0}
  BY DEF WireAssumed, WireAssumption, WireInv, WireTypes
<1>3. PICK p : p = EncodeSYNPayload(writer[w].target)
  OBVIOUS
<1>4. p \in Seq(Nat) /\ p # << >>
  <2>1. p \in Seq(Nat) /\ DecodeSYNPayload(p) = writer[w].target
    BY <1>1, <1>3, DecodesTarget
  <2>2. writer[w].target.atyp \in {1, 3, 4}
    BY <1>1 DEF Target
  <2>3. p # << >>
    <3> SUFFICES ASSUME p = << >> PROVE FALSE
      OBVIOUS
    <3>1. Len(p) < MinSYN
      BY DEF MinSYN
    <3>2. writer[w].target = NoTarget
      BY <2>1, <3>1 DEF DecodeSYNPayload
    <3> QED BY <2>2, <3>2 DEF NoTarget
  <2> QED BY <2>1, <2>3
<1>5. PICK d : d = [k \in 1 .. scene.chunk |-> 1]
  OBVIOUS
<1>6. d \in Seq(Nat) /\ Len(d) = scene.chunk
  BY <1>2, <1>5
<1>7. PICK q : q = IF writer[w].seq = 0 THEN p ELSE d
  OBVIOUS
<1>8. q \in Seq(Nat) /\ Len(q) \in Nat \ {0}
  BY <1>2, <1>4, <1>6, <1>7
<1>9. FrameOf(w) = [id |-> writer[w].id, seq |-> writer[w].seq, payload |-> q]
  BY <1>3, <1>5, <1>7 DEF FrameOf
<1>10. writer[w].id \in Nat /\ writer[w].seq \in Nat
  BY <1>1, <1>2
<1> QED BY <1>3, <1>7, <1>8, <1>9, <1>10 DEF Frame, FrameLen

\* A frame written completely takes the place of the tail, and an empty one follows it,
\* of which nothing was written.
LEMMA WriteInv ==
    ASSUME WireAssumed, WireInv, NEW w \in Writers, Write(w) PROVE WireInv'
<1>1. PICK f : f = FrameOf(w)
  OBVIOUS
<1>2. /\ f \in Frame /\ FrameLen(f) \in Nat /\ Bytes(f) \in Seq(Nat)
      /\ Len(Bytes(f)) = FrameLen(f) /\ f.id = writer[w].id
      /\ f.seq = 0 => f.payload = EncodeSYNPayload(writer[w].target)
  BY <1>1, FrameOfFacts, BytesFacts
<1>3. /\ Len(f.payload) <= MaxPayloadSize /\ ~ eof /\ writer[w].pc = "write"
      /\ mutex' = "none" /\ stream' = stream \o Bytes(f) /\ written' = Append(written, f)
      /\ mixed' = cut
      /\ UNCHANGED <<scene, nextID, closed, eof, reader, dispatched, cut>>
  BY <1>1 DEF Write
<1>4. /\ stream \in Seq(Nat) /\ written \in Seq(Frame) /\ dispatched \in Seq(Frame)
      /\ reader.hdr \in Seq(Nat) /\ cut \in BOOLEAN
      /\ mixed => cut
  BY DEF WireInv, WireTypes
<1>5. PICK pc \in {"send", "done"} : writer' = [writer EXCEPT ![w].pc = pc, ![w].seq = 1]
  BY DEF Write
<1>6. KeepsIDs /\ writer' \in [Writers -> WriterType]
  <2>1. PICK x : x = [writer[w] EXCEPT !.pc = pc, !.seq = 1]
    OBVIOUS
  <2>2. writer[w] \in WriterType /\ writer \in [Writers -> WriterType]
    BY DEF WireInv, WireTypes
  <2>3. /\ x \in WriterType /\ x.pc # "new" /\ x.id = writer[w].id
        /\ x.target = writer[w].target
    BY <2>1, <2>2 DEF WriterType, WriterPcs
  <2>4. writer' = [writer EXCEPT ![w] = x]
    BY <1>5, <2>1, <2>2
  <2> QED BY <2>2, <2>3, <2>4 DEF KeepsIDs
<1>7. WireTypes'
  <2>1. stream' \in Seq(Nat)
    BY <1>2, <1>3, <1>4
  <2>2. written' \in Seq(Frame)
    BY <1>2, <1>3, <1>4
  <2> QED BY <1>3, <1>6, <2>1, <2>2 DEF WireInv, WireTypes
<1>8. FramesSent'
  <2> SUFFICES ASSUME NEW k \in 1 .. Len(written')
               PROVE  Len(written'[k].payload) <= MaxPayloadSize /\ SentBy(writer', written'[k])
    BY DEF FramesSent
  <2>0. k \in 1 .. Len(written) \/ (k = Len(written) + 1 /\ written'[k] = f)
    BY <1>2, <1>3, <1>4
  <2>1. CASE k = Len(written) + 1 /\ written'[k] = f
    <3>1. writer'[w].pc # "new" /\ writer'[w].id = f.id /\ writer'[w].target = writer[w].target
      BY <1>2, <1>3, <1>6 DEF KeepsIDs
    <3>2. \E v \in Writers : /\ writer'[v].pc # "new" /\ writer'[v].id = f.id
                             /\ f.seq = 0 => f.payload = EncodeSYNPayload(writer'[v].target)
      BY <1>2, <3>1
    <3> QED BY <1>3, <2>1, <3>2 DEF SentBy
  <2>2. CASE k \in 1 .. Len(written)
    <3>1. written'[k] = written[k]
      BY <1>2, <1>3, <1>4, <2>2
    <3>2. Len(written[k].payload) <= MaxPayloadSize /\ SentBy(writer, written[k])
      BY <2>2 DEF WireInv, FramesSent
    <3> QED BY <1>6, <3>1, <3>2, SentByKept
  <2> QED BY <2>0, <2>1, <2>2
<1>9. PICK K : K = Kept
  OBVIOUS
<1>10. /\ Kept' = K
       /\ Len(Filter(written, K)) <= Len(Filter(written', K))
       /\ \A n \in 1 .. Len(Filter(written, K)) : Filter(written', K)[n] = Filter(written, K)[n]
       /\ \A n \in 0 .. Len(written) : Rank(written', K, n) = Rank(written, K, n)
  <2>1. Kept' = K
    BY <1>3, <1>9 DEF Kept
  <2>2. PICK ws, a : ws = written /\ a = Append(ws, f)
    OBVIOUS
  <2>3. /\ Len(Filter(ws, K)) <= Len(Filter(a, K))
        /\ \A n \in 1 .. Len(Filter(ws, K)) : Filter(a, K)[n] = Filter(ws, K)[n]
        /\ \A n \in 0 .. Len(ws) : Rank(a, K, n) = Rank(ws, K, n)
    <3>1. PICK T : T = Frame
      OBVIOUS
    <3>2. ws \in Seq(T) /\ f \in T
      BY <1>2, <1>4, <2>2, <3>1
    <3> QED BY <2>2, <3>2, FilterAppend
  <2>4. ws = written /\ a = written'
    BY <1>3, <2>2
  <2> QED BY <2>1, <2>3, <2>4
<1>11. HandedOn'
  <2> SUFFICES ASSUME ~ mixed'
               PROVE  /\ Len(dispatched') <= Len(Filter(written', K))
                      /\ \A j \in 1 .. Len(dispatched') : dispatched'[j] = Filter(written', K)[j]
    BY <1>10 DEF HandedOn
  <2>0. ~ mixed /\ dispatched' = dispatched
    <3>1. mixed' = cut /\ dispatched' = dispatched
      BY <1>3
    <3>2. ~ cut
      BY <3>1, Zenon
    <3> QED BY <1>4, <3>1, <3>2, Zenon
  <2>1. /\ Len(dispatched) <= Len(Filter(written, K)) /\ dispatched' = dispatched
        /\ \A j \in 1 .. Len(dispatched) : dispatched[j] = Filter(written, K)[j]
    BY <1>9, <2>0 DEF WireInv, HandedOn
  <2>2. /\ Len(dispatched) \in Nat /\ Len(Filter(written, K)) \in Nat
        /\ Len(Filter(written', K)) \in Nat
    <3>1. Filter(written, K) \in Seq(Frame) /\ Filter(written', K) \in Seq(Frame)
      BY <1>4, <1>7, FilterFacts DEF WireTypes
    <3> QED BY <1>4, <3>1
  <2>3. \A j \in 1 .. Len(dispatched) : j \in 1 .. Len(Filter(written, K))
    BY <2>1, <2>2
  <2> QED BY <1>10, <2>1, <2>2, <2>3
<1>12. InStep'
  <2> SUFFICES ASSUME ~ mixed', reader'.pc \notin {"socks", "ended"}
               PROVE  \E tail, n, off, part : Reads(tail, n, off, part)'
    BY DEF InStep
  <2>1. ~ cut /\ ~ mixed
    <3>1. mixed' = cut
      BY <1>3
    <3>2. ~ cut
      BY <3>1, Zenon
    <3> QED BY <1>4, <3>2, Zenon
  <2>2. PICK t, n, off, part : Reads(t, n, off, part)
    BY <1>3, <2>1 DEF WireInv, InStep
  <2>3. /\ t \in Frame /\ Len(t.payload) <= MaxPayloadSize
        /\ n \in 0 .. Len(written) /\ part = 0
        /\ Aligned(Append(written, t), off, n, Ahead)
        /\ Len(Ahead) = off[Len(written) + 1] - off[n + 1] + part
        /\ Len(dispatched) = Rank(written, K, n)
    BY <1>3, <1>9, <2>1, <2>2 DEF Reads
  <2>4. off[Len(written) + 1] \in Nat /\ off[n + 1] \in Nat
    <3>1. Len(Append(written, t)) = Len(written) + 1 /\ Len(written) \in Nat
      BY <1>4, <2>3
    <3>2. n + 1 \in 1 .. Len(written) + 1 /\ Len(written) + 1 \in 1 .. Len(written) + 1
      BY <2>3, <3>1
    <3> QED BY <2>3, <3>1, <3>2 DEF Aligned
  <2>5. Len(Ahead) = off[Len(written) + 1] - off[n + 1]
    BY <2>3, <2>4
  <2>6. PICK h, D : h = reader.hdr /\ D = h \o stream
    OBVIOUS
  <2>7. h \in Seq(Nat) /\ D \in Seq(Nat) /\ D = Ahead
    <3>1. h \in Seq(Nat)
      BY <1>4, <2>6
    <3> QED BY <1>4, <2>6, <3>1, ConcatNat DEF Ahead
  <2>8. PICK E : E = D \o SubSeq(Bytes(f), 1, FrameLen(f))
    OBVIOUS
  <2>9. FrameLen(f) \in 0 .. FrameLen(f)
    BY <1>2
  <2>10. Aligned(Append(written, f), off, n, E)
    BY <1>2, <1>4, <2>3, <2>5, <2>7, <2>8, <2>9, AlignedGrows
  <2>11. SubSeq(Bytes(f), 1, FrameLen(f)) = Bytes(f)
    BY <1>2, SubSeqFull
  <2>12. E \in Seq(Nat) /\ Len(E) = Len(D) + FrameLen(f) /\ E = D \o Bytes(f)
    <3>1. PICK b : b = Bytes(f)
      OBVIOUS
    <3>2. b \in Seq(Nat) /\ Len(b) = FrameLen(f) /\ E = D \o b
      BY <1>2, <2>8, <2>11, <3>1
    <3>3. D \o b \in Seq(Nat) /\ Len(D \o b) = Len(D) + Len(b)
      BY <2>7, <3>2, ConcatNat
    <3> QED BY <3>1, <3>2, <3>3
  <2>13. Ahead' = E
    <3>1. PICK b : b = Bytes(f)
      OBVIOUS
    <3>2. Ahead' = h \o (stream \o b) /\ b \in Seq(Nat)
      BY <1>2, <1>3, <2>6, <3>1 DEF Ahead
    <3>3. h \o (stream \o b) = (h \o stream) \o b
      <4>1. b \in Seq(Nat) /\ h \in Seq(Nat) /\ stream \in Seq(Nat)
        BY <1>4, <2>7, <3>2
      <4> QED BY <4>1, ConcatAssocNat, Zenon
    <3> QED BY <2>6, <2>12, <3>1, <3>2, <3>3
  <2>14. PICK fs : fs = written'
    OBVIOUS
  <2>15. /\ fs \in Seq(Frame) /\ fs = Append(written, f) /\ Len(fs) = Len(written) + 1
         /\ fs[Len(fs)] = f /\ n \in Nat /\ n < Len(fs) /\ Len(written) \in Nat
    BY <1>2, <1>3, <1>4, <2>3, <2>14
  <2>16. Len(E) = off[Len(fs)] - off[n + 1] + FrameLen(fs[Len(fs)])
    BY <2>5, <2>7, <2>12, <2>15
  <2>17. PICK o : Aligned(Append(fs, t), o, n, E) /\ Len(E) = o[Len(fs) + 1] - o[n + 1]
    BY <2>3, <2>10, <2>12, <2>15, <2>16, AlignedExtends
  <2>18. o[Len(fs) + 1] \in Nat /\ o[n + 1] \in Nat
    <3>1. Len(Append(fs, t)) = Len(fs) + 1 /\ Len(fs) \in Nat
      BY <2>3, <2>15
    <3>2. n + 1 \in 1 .. Len(fs) + 1 /\ Len(fs) + 1 \in 1 .. Len(fs) + 1
      BY <2>15, <3>1
    <3> QED BY <2>17, <3>1, <3>2 DEF Aligned
  <2>19. /\ Len(E) <= o[Len(fs) + 1] - o[n + 1] + 0 /\ Len(E) = o[Len(fs) + 1] - o[n + 1] + 0
         /\ n \in 0 .. Len(fs) /\ 0 \in 0 .. FrameLen(t) - 1
         /\ Len(dispatched') = Rank(fs, K, n)
    <3>1. FrameLen(t) \in Nat /\ FrameLen(t) >= 3
      BY <2>3, BytesFacts DEF FrameLen
    <3>2. Len(dispatched') = Rank(fs, K, n)
      BY <1>3, <1>10, <2>3, <2>14
    <3> QED BY <2>12, <2>15, <2>17, <2>18, <3>1, <3>2
  <2>20. Reads(t, n, o, 0)'
    BY <1>10, <2>3, <2>13, <2>14, <2>17, <2>19 DEF Reads
  <2> QED BY <2>20
<1> QED BY <1>7, <1>8, <1>11, <1>12 DEF WireInv

\* Frames that were sent stay sent when nothing is written.
LEMMA SentStays ==
    ASSUME FramesSent, KeepsIDs, written' = written PROVE FramesSent'
<1> SUFFICES ASSUME NEW k \in 1 .. Len(written')
             PROVE  Len(written'[k].payload) <= MaxPayloadSize /\ SentBy(writer', written'[k])
  BY DEF FramesSent
<1>1. k \in 1 .. Len(written)
  OBVIOUS
<1>2. Len(written[k].payload) <= MaxPayloadSize /\ SentBy(writer, written[k])
  BY <1>1 DEF FramesSent
<1> QED BY <1>1, <1>2, SentByKept

\* A frame written in part becomes the tail; anything written after it mixes the stream.
LEMMA WriteFailsInv ==
    ASSUME WireAssumed, WireInv, NEW w \in Writers, WriteFails(w) PROVE WireInv'
<1>1. /\ writer' = [writer EXCEPT ![w].pc = "failed"] /\ writer[w].pc # "new"
      /\ mutex' = "none"
      /\ UNCHANGED <<scene, nextID, closed, eof, reader, written, dispatched>>
  BY DEF WriteFails
<1>2. KeepsIDs /\ writer' \in [Writers -> WriterType]
  BY <1>1, Moves DEF WriterPcs
<1>3. CASE UNCHANGED <<stream, cut, mixed>>
  <2>1. WireTypes'
    BY <1>1, <1>2, <1>3 DEF WireInv, WireTypes
  <2> QED BY <1>1, <1>2, <1>3, <2>1, NothingMoves
<1>4. ASSUME NEW k \in {0, 1, HeaderSize, Len(Bytes(FrameOf(w))) - 1},
             ~ eof, Len(FrameOf(w).payload) <= MaxPayloadSize,
             stream' = stream \o SubSeq(Bytes(FrameOf(w)), 1, k),
             cut' = (cut \/ k > 0), mixed' = (mixed \/ (cut /\ k > 0))
      PROVE  WireInv'
  <2>1. PICK f, b : f = FrameOf(w) /\ b = Bytes(f)
    OBVIOUS
  <2>2. /\ f \in Frame /\ FrameLen(f) \in Nat /\ FrameLen(f) >= 4
        /\ b \in Seq(Nat) /\ Len(b) = FrameLen(f)
    BY <2>1, FrameOfFacts, BytesFacts
  <2>3. k \in 0 .. FrameLen(f) - 1 /\ k \in 0 .. FrameLen(f) /\ k \in Nat
    BY <1>4, <2>1, <2>2 DEF HeaderSize
  <2>4. PICK x : x = SubSeq(b, 1, k)
    OBVIOUS
  <2>5. x \in Seq(Nat) /\ Len(x) = k
    BY <2>2, <2>3, <2>4
  <2>6. stream' = stream \o x /\ stream \in Seq(Nat)
    BY <1>4, <2>1, <2>4 DEF WireInv, WireTypes
  <2>7. stream' \in Seq(Nat)
    BY <2>5, <2>6, ConcatNat
  <2>8. cut' \in BOOLEAN /\ mixed' \in BOOLEAN /\ (mixed' => cut')
    <3>1. cut \in BOOLEAN /\ mixed \in BOOLEAN /\ (mixed => cut)
      BY DEF WireInv, WireTypes
    <3> QED BY <1>4, <3>1, Zenon
  <2>9. WireTypes'
    BY <1>1, <1>2, <2>7, <2>8 DEF WireInv, WireTypes
  <2>10. FramesSent'
    BY <1>1, <1>2, SentStays DEF WireInv
  <2>11. Kept' = Kept
    BY <1>1 DEF Kept
  <2>12. ~ mixed' => ~ mixed
    BY <1>4, Zenon
  <2>13. HandedOn'
    BY <1>1, <2>11, <2>12 DEF WireInv, HandedOn
  <2>14. CASE k = 0
    <3>1. x = << >> /\ stream' = stream
      BY <2>2, <2>4, <2>5, <2>6, <2>14
    <3>2. ~ (k > 0)
      BY <2>14
    <3>3. cut' = cut /\ mixed' = mixed
      <4>1. cut \in BOOLEAN /\ mixed \in BOOLEAN
        BY DEF WireInv, WireTypes
      <4> QED BY <1>4, <3>2, <4>1, Zenon
    <3> QED BY <1>1, <1>2, <2>9, <3>1, <3>3, NothingMoves
  <2>15. CASE k # 0
    <3>1. k > 0
      BY <2>3, <2>15
    <3>2. ~ mixed' => ~ cut
      BY <1>4, <3>1, Zenon
    <3>3. InStep'
      <4> SUFFICES ASSUME ~ mixed', reader'.pc \notin {"socks", "ended"}
                   PROVE  \E tail, n, off, part : Reads(tail, n, off, part)'
        BY DEF InStep
      <4>1. PICK t, n, off, part : Reads(t, n, off, part)
        BY <1>1, <2>12 DEF WireInv, InStep
      <4>2. /\ t \in Frame /\ n \in 0 .. Len(written) /\ part = 0
            /\ Aligned(Append(written, t), off, n, Ahead)
            /\ Len(Ahead) = off[Len(written) + 1] - off[n + 1] + part
            /\ Len(dispatched) = Rank(written, Kept, n)
            /\ written \in Seq(Frame) /\ reader.hdr \in Seq(Nat)
        BY <1>4, <3>2, <4>1 DEF Reads, WireInv, WireTypes
      <4>3. off[Len(written) + 1] \in Nat /\ off[n + 1] \in Nat
        <5>1. Len(Append(written, t)) = Len(written) + 1 /\ Len(written) \in Nat
          BY <4>2
        <5>2. n + 1 \in 1 .. Len(written) + 1 /\ Len(written) + 1 \in 1 .. Len(written) + 1
          BY <4>2, <5>1
        <5> QED BY <4>2, <5>1, <5>2 DEF Aligned
      <4>4. PICK h, D : h = reader.hdr /\ D = h \o stream
        OBVIOUS
      <4>5. h \in Seq(Nat) /\ D \in Seq(Nat) /\ D = Ahead
        <5>1. h \in Seq(Nat)
          BY <4>2, <4>4
        <5> QED BY <2>6, <4>4, <5>1, ConcatNat DEF Ahead
      <4>6. Len(D) = off[Len(written) + 1] - off[n + 1]
        BY <4>2, <4>3, <4>5
      <4>7. Aligned(Append(written, f), off, n, D \o x)
        BY <2>1, <2>2, <2>3, <2>4, <4>2, <4>5, <4>6, AlignedGrows
      <4>8. Ahead' = D \o x
        <5>1. Ahead' = h \o (stream \o x)
          BY <1>1, <2>6, <4>4 DEF Ahead
        <5>2. h \in Seq(Nat) /\ stream \in Seq(Nat) /\ x \in Seq(Nat)
          BY <2>5, <2>6, <4>5
        <5>3. h \o (stream \o x) = (h \o stream) \o x
          BY <5>2, ConcatAssocNat, Zenon
        <5> QED BY <4>4, <5>1, <5>3
      <4>9. Len(D \o x) = Len(D) + k
        BY <2>5, <4>5, ConcatNat
      <4>10. Len(f.payload) <= MaxPayloadSize
        BY <1>4, <2>1
      <4>11. Len(D \o x) = off[Len(written) + 1] - off[n + 1] + k
        BY <4>6, <4>9
      <4>12. cut'
        BY <1>4, <3>1, Zenon
      <4>13. Len(D \o x) <= off[Len(written) + 1] - off[n + 1] + k
        BY <2>3, <4>3, <4>11
      <4>14. Reads(f, n, off, k)'
        BY <1>1, <2>2, <2>3, <2>11, <4>2, <4>7, <4>8, <4>10, <4>11, <4>12, <4>13 DEF Reads
      <4> QED BY <4>14
    <3> QED BY <2>9, <2>10, <2>13, <3>3 DEF WireInv
  <2> QED BY <2>14, <2>15
<1>5. \/ UNCHANGED <<stream, cut, mixed>>
      \/ \E k \in {0, 1, HeaderSize, Len(Bytes(FrameOf(w))) - 1} :
            /\ ~ eof /\ Len(FrameOf(w).payload) <= MaxPayloadSize
            /\ stream' = stream \o SubSeq(Bytes(FrameOf(w)), 1, k)
            /\ cut' = (cut \/ k > 0)
            /\ mixed' = (mixed \/ (cut /\ k > 0))
  BY DEF WriteFails
<1> QED BY <1>3, <1>4, <1>5

-----------------------------------------------------------------------------
(* The network and the reader.                                             *)

\* A step that leaves what was written and handed on alone, after which the reader
\* has ended or still is where it was.
LEMMA ReaderStep ==
    ASSUME WireInv, WireTypes', UNCHANGED <<scene, writer, written, dispatched, cut, mixed>>,
           \/ reader'.pc \in {"socks", "ended"}
           \/ /\ reader.pc \notin {"socks", "ended"}
              /\ eof => eof'
              /\ Len(Ahead') <= Len(Ahead) /\ \A i \in 1 .. Len(Ahead') : Ahead'[i] = Ahead[i]
              /\ ~ eof' => Len(Ahead') = Len(Ahead)
    PROVE  WireInv'
<1>1. KeepsIDs
  BY DEF KeepsIDs
<1>2. FramesSent'
  BY <1>1, SentStays DEF WireInv
<1>3. Kept' = Kept
  BY DEF Kept
<1>4. HandedOn'
  BY <1>3 DEF WireInv, HandedOn
<1>5. InStep'
  <2> SUFFICES ASSUME ~ mixed', reader'.pc \notin {"socks", "ended"}
               PROVE  \E tail, n, off, part : Reads(tail, n, off, part)'
    BY DEF InStep
  <2>1. PICK t, n, off, part : Reads(t, n, off, part)
    BY DEF WireInv, InStep
  <2>2. /\ t \in Frame /\ n \in 0 .. Len(written) /\ part \in Int
        /\ Aligned(Append(written, t), off, n, Ahead)
        /\ Len(Ahead) <= off[Len(written) + 1] - off[n + 1] + part
        /\ ~ eof => Len(Ahead) = off[Len(written) + 1] - off[n + 1] + part
        /\ written \in Seq(Frame)
    BY <2>1 DEF Reads, WireInv, WireTypes
  <2>3. off[Len(written) + 1] \in Nat /\ off[n + 1] \in Nat
    <3>1. Len(Append(written, t)) = Len(written) + 1 /\ Len(written) \in Nat
      BY <2>2
    <3>2. n + 1 \in 1 .. Len(written) + 1 /\ Len(written) + 1 \in 1 .. Len(written) + 1
      BY <2>2, <3>1
    <3> QED BY <2>2, <3>1, <3>2 DEF Aligned
  <2>4. PICK D, E : D = Ahead /\ E = Ahead'
    OBVIOUS
  <2>5. D \in Seq(Nat) /\ E \in Seq(Nat)
    <3>1. PICK h, g : h = reader.hdr /\ g = reader'.hdr
      OBVIOUS
    <3>2. h \in Seq(Nat) /\ stream \in Seq(Nat) /\ g \in Seq(Nat) /\ stream' \in Seq(Nat)
      BY <3>1 DEF WireInv, WireTypes
    <3>3. D = h \o stream /\ E = g \o stream'
      BY <2>4, <3>1 DEF Ahead
    <3> QED BY <3>2, <3>3, ConcatNat
  <2>6. /\ eof => eof'
        /\ Len(E) <= Len(D) /\ \A i \in 1 .. Len(E) : E[i] = D[i]
        /\ ~ eof' => Len(E) = Len(D)
    BY <2>4
  <2>7. Aligned(Append(written, t), off, n, E)
    <3>1. Append(written, t) \in Seq(Frame) /\ n < Len(Append(written, t)) /\ n \in Nat
      BY <2>2
    <3> QED BY <2>2, <2>4, <2>5, <2>6, <3>1, AlignedShrinks
  <2>8. Len(D) \in Nat /\ Len(E) \in Nat
    BY <2>5
  <2>9. Len(E) <= off[Len(written) + 1] - off[n + 1] + part
    BY <2>2, <2>3, <2>4, <2>6, <2>8
  <2>10. ~ eof' => Len(E) = off[Len(written) + 1] - off[n + 1] + part
    BY <2>2, <2>4, <2>6
  <2>11. Reads(t, n, off, part)'
    BY <1>3, <2>1, <2>4, <2>7, <2>9, <2>10 DEF Reads
  <2> QED BY <2>11
<1> QED BY <1>2, <1>4, <1>5 DEF WireInv

\* The network loses an end of what was on the way.
LEMMA CutInv ==
    ASSUME WireInv, Cut PROVE WireInv'
<1>1. PICK k \in 0 .. Len(stream) : stream' = SubSeq(stream, 1, k)
  BY DEF Cut
<1>2. eof' = TRUE /\ UNCHANGED <<scene, nextID, writer, mutex, closed, reader,
                                 written, dispatched, cut, mixed>>
  BY DEF Cut, history
<1>3. stream \in Seq(Nat) /\ reader.hdr \in Seq(Nat)
  BY DEF WireInv, WireTypes
<1>4. /\ stream' \in Seq(Nat) /\ Len(stream') = k /\ k \in Nat /\ k <= Len(stream)
      /\ \A i \in 1 .. k : stream'[i] = stream[i]
  BY <1>1, <1>3
<1>5. WireTypes'
  BY <1>2, <1>4 DEF WireInv, WireTypes
<1>6. PICK h, s : h = reader.hdr /\ s = stream'
  OBVIOUS
<1>7. /\ h \in Seq(Nat) /\ s \in Seq(Nat) /\ Len(s) = k /\ Ahead = h \o stream
      /\ Ahead' = h \o s /\ \A i \in 1 .. k : s[i] = stream[i]
  BY <1>2, <1>3, <1>4, <1>6 DEF Ahead
<1>8. /\ Len(h \o s) = Len(h) + k /\ Len(h \o stream) = Len(h) + Len(stream) /\ Len(h) \in Nat
      /\ Len(stream) \in Nat
      /\ \A i \in 1 .. Len(h) : (h \o s)[i] = h[i] /\ (h \o stream)[i] = h[i]
      /\ \A i \in 1 .. k : (h \o s)[Len(h) + i] = s[i]
      /\ \A i \in 1 .. Len(stream) : (h \o stream)[Len(h) + i] = stream[i]
  BY <1>3, <1>7, ConcatNat
<1>9. PICK D, E : D = h \o stream /\ E = h \o s
  OBVIOUS
<1>10. Len(E) <= Len(D)
  BY <1>4, <1>8, <1>9
<1>11. ASSUME NEW i \in 1 .. Len(E) PROVE E[i] = D[i]
  <2>1. CASE i \in 1 .. Len(h)
    BY <1>8, <1>9, <2>1
  <2>2. CASE i \notin 1 .. Len(h)
    <3>1. PICK j : j = i - Len(h)
      OBVIOUS
    <3>2. j \in 1 .. k /\ j \in 1 .. Len(stream) /\ i = Len(h) + j
      BY <1>4, <1>8, <1>9, <2>2, <3>1
    <3> QED BY <1>7, <1>8, <1>9, <3>2
  <2> QED BY <2>1, <2>2
<1>12. CASE reader.pc \in {"socks", "ended"}
  BY <1>2, <1>5, <1>12, ReaderStep
<1>13. CASE reader.pc \notin {"socks", "ended"}
  BY <1>2, <1>5, <1>7, <1>9, <1>10, <1>11, <1>13, ReaderStep
<1> QED BY <1>12, <1>13

\* Bytes that move from the stream to the header.
LEMMA Consumes ==
    ASSUME WireInv, NEW k \in 0 .. Len(stream),
           reader'.hdr = reader.hdr \o SubSeq(stream, 1, k),
           stream' = SubSeq(stream, k + 1, Len(stream))
    PROVE  /\ Ahead' = Ahead /\ stream' \in Seq(Nat) /\ reader'.hdr \in Seq(Nat)
           /\ Len(reader'.hdr) = Len(reader.hdr) + k
<1>1. PICK h, a, b : h = reader.hdr /\ a = SubSeq(stream, 1, k) /\ b = SubSeq(stream, k + 1, Len(stream))
  OBVIOUS
<1>2. h \in Seq(Nat) /\ stream \in Seq(Nat)
  BY <1>1 DEF WireInv, WireTypes
<1>3. a \in Seq(Nat) /\ Len(a) = k /\ b \in Seq(Nat) /\ stream = a \o b
  BY <1>1, <1>2, SplitNat
<1>4. Ahead = h \o (a \o b)
  BY <1>1, <1>3 DEF Ahead
<1>5. Ahead' = (h \o a) \o b /\ reader'.hdr = h \o a /\ stream' = b
  BY <1>1 DEF Ahead
<1>6. h \o (a \o b) = (h \o a) \o b
  BY <1>2, <1>3, ConcatAssocNat, Zenon
<1>7. h \o a \in Seq(Nat) /\ Len(h \o a) = Len(h) + Len(a)
  BY <1>2, <1>3, ConcatNat
<1> QED BY <1>1, <1>3, <1>4, <1>5, <1>6, <1>7

\* The reader took k bytes and looks for a frame at the same place.
LEMMA SameAhead ==
    ASSUME WireInv, WireTypes', UNCHANGED <<scene, writer, written, dispatched, cut, mixed, eof>>,
           Ahead' = Ahead, reader.pc \notin {"socks", "ended"}
    PROVE  WireInv'
<1>1. PICK D : D = Ahead
  OBVIOUS
<1>2. D \in Seq(Nat)
  <2>1. PICK h : h = reader.hdr
    OBVIOUS
  <2>2. h \in Seq(Nat) /\ stream \in Seq(Nat) /\ D = h \o stream
    BY <1>1, <2>1 DEF WireInv, WireTypes, Ahead
  <2> QED BY <2>2, ConcatNat
<1>3. Len(D) <= Len(D)
  <2>1. Len(D) \in Nat
    BY <1>2
  <2> QED BY <2>1
<1>4. Len(Ahead') <= Len(Ahead) /\ Len(Ahead') = Len(Ahead)
  BY <1>1, <1>3
<1>5. \A i \in 1 .. Len(Ahead') : Ahead'[i] = Ahead[i]
  OBVIOUS
<1> QED BY <1>4, <1>5, ReaderStep

\* The byte that was looked at becomes the first of the header.
LEMMA FirstByteInv ==
    ASSUME WireInv, FirstByte PROVE WireInv'
<1>1. /\ reader.pc = "first" /\ stream # << >>
      /\ UNCHANGED <<scene, nextID, writer, mutex, closed, eof, written, dispatched, cut, mixed>>
  BY DEF FirstByte, quiet, history
<1>2. PICK pc \in {"socks", "rest"} : reader' = [pc |-> pc, hdr |-> <<Head(stream)>>]
  BY DEF FirstByte, ReaderGoes
<1>3. stream' = SubSeq(stream, 1 + 1, Len(stream))
  BY DEF FirstByte, ReaderGoes
<1>4. stream \in Seq(Nat) /\ reader.hdr = << >> /\ 1 \in 0 .. Len(stream)
  BY <1>1 DEF WireInv, WireTypes
<1>5. SubSeq(stream, 1, 1) = <<Head(stream)>>
  <2>1. PICK a, b : a = SubSeq(stream, 1, 1) /\ b = <<Head(stream)>>
    OBVIOUS
  <2>2. a \in Seq(Nat) /\ Len(a) = 1 /\ a[1] = stream[1]
    BY <1>4, <2>1
  <2>3. Head(stream) = stream[1] /\ Head(stream) \in Nat
    BY <1>1, <1>4
  <2>4. b \in Seq(Nat) /\ Len(b) = 1 /\ b[1] = stream[1]
    BY <2>1, <2>3
  <2>5. \A i \in 1 .. Len(a) : a[i] = b[i]
    BY <2>2, <2>4
  <2> QED BY <2>1, <2>2, <2>4, <2>5, SeqEqual
<1>6. reader'.hdr = reader.hdr \o SubSeq(stream, 1, 1)
  <2>1. SubSeq(stream, 1, 1) \in Seq(Nat)
    BY <1>4
  <2>2. << >> \o SubSeq(stream, 1, 1) = SubSeq(stream, 1, 1)
    BY <2>1
  <2> QED BY <1>2, <1>4, <1>5, <2>2
<1>7. /\ Ahead' = Ahead /\ stream' \in Seq(Nat) /\ reader'.hdr \in Seq(Nat)
      /\ Len(reader'.hdr) = Len(reader.hdr) + 1
  BY <1>3, <1>4, <1>6, Consumes
<1>8. Len(reader'.hdr) = 1
  BY <1>4, <1>7
<1>9. WireTypes'
  <2>1. reader' \in [pc : ReaderPcs, hdr : Seq(Nat)] /\ reader'.pc \in {"socks", "rest"}
    BY <1>2, <1>7 DEF ReaderPcs
  <2> QED BY <1>1, <1>7, <1>8, <2>1 DEF WireInv, WireTypes
<1> QED BY <1>1, <1>7, <1>9, SameAhead

LEMMA FirstByteTimeoutInv ==
    ASSUME WireInv, FirstByteTimeout PROVE WireInv'
<1>1. /\ reader' = [pc |-> "ended", hdr |-> << >>] /\ eof' = TRUE
      /\ UNCHANGED <<scene, nextID, writer, mutex, closed, stream, written, dispatched, cut, mixed>>
  BY DEF FirstByteTimeout, quiet, history
<1>2. WireTypes'
  <2>1. << >> \in Seq(Nat)
    OBVIOUS
  <2>2. reader' \in [pc : ReaderPcs, hdr : Seq(Nat)] /\ reader'.pc = "ended" /\ reader'.hdr = << >>
    BY <1>1, <2>1 DEF ReaderPcs
  <2> QED BY <1>1, <2>2 DEF WireInv, WireTypes
<1> QED BY <1>1, <1>2, ReaderStep

\* The rest of a header, or a whole one.
LEMMA ReadHeaderInv ==
    ASSUME WireInv, ReadHeader PROVE WireInv'
<1> DEFINE need == 3 - Len(reader.hdr)
<1>1. /\ reader.pc \in {"rest", "loop"} /\ Len(stream) >= need
      /\ UNCHANGED <<scene, nextID, writer, mutex, closed, eof, written, dispatched, cut, mixed>>
      /\ stream' = SubSeq(stream, need + 1, Len(stream))
  BY DEF ReadHeader, ReaderGoes, HeaderSize, quiet, history
<1>2. PICK pc \in {"firstBody", "body"} :
         reader' = [pc |-> pc, hdr |-> reader.hdr \o SubSeq(stream, 1, need)]
  BY DEF ReadHeader, ReaderGoes, HeaderSize
<1>3. need \in 0 .. Len(stream) /\ Len(reader.hdr) \in Nat
  <2>1. Len(reader.hdr) \in {0, 1}
    <3>1. reader.pc = "loop" => reader.hdr = << >>
      BY DEF WireInv, WireTypes
    <3>2. reader.pc = "rest" => Len(reader.hdr) = 1
      BY DEF WireInv, WireTypes
    <3> QED BY <1>1, <3>1, <3>2
  <2>2. Len(stream) \in Nat
    BY DEF WireInv, WireTypes
  <2>3. need \in Nat /\ Len(reader.hdr) \in Nat
    <3>1. PICK l : l = Len(reader.hdr)
      OBVIOUS
    <3>2. l \in {0, 1} /\ need = 3 - l
      BY <2>1, <3>1
    <3>3. l \in Nat /\ 3 - l \in Nat
      BY <3>2
    <3> HIDE DEF need
    <3> QED BY <3>1, <3>2, <3>3
  <2>4. need <= Len(stream)
    BY <1>1, <2>2, <2>3
  <2> HIDE DEF need
  <2> QED BY <2>2, <2>3, <2>4
<1>4. PICK k : k = need
  OBVIOUS
<1>5. /\ k \in 0 .. Len(stream) /\ reader'.hdr = reader.hdr \o SubSeq(stream, 1, k)
      /\ stream' = SubSeq(stream, k + 1, Len(stream)) /\ Len(reader.hdr) + k = 3
  <2>1. Len(reader.hdr) + k = 3
    BY <1>3, <1>4
  <2>2. reader'.hdr = reader.hdr \o SubSeq(stream, 1, need)
    BY <1>2
  <2> HIDE DEF need
  <2> QED BY <1>1, <1>3, <1>4, <2>1, <2>2
<1>6. /\ Ahead' = Ahead /\ stream' \in Seq(Nat) /\ reader'.hdr \in Seq(Nat)
      /\ Len(reader'.hdr) = 3
  BY <1>5, Consumes
<1>7. WireTypes'
  <2>1. reader' \in [pc : ReaderPcs, hdr : Seq(Nat)] /\ reader'.pc \in {"firstBody", "body"}
    BY <1>2, <1>6 DEF ReaderPcs
  <2> QED BY <1>1, <1>6, <2>1 DEF WireInv, WireTypes
<1> QED BY <1>1, <1>6, <1>7, SameAhead

\* A header that was read is the one of frame n + 1, and when the bytes of its payload
\* are there, that frame was written completely.
HeaderOfNext(h) ==
    \E t, n, off, part, g :
       /\ Reads(t, n, off, part) /\ g = Append(written, t)[n + 1]
       /\ g \in Frame /\ Len(g.payload) <= MaxPayloadSize
       /\ h[1] = g.id /\ h[2] = g.seq /\ h[3] = Len(g.payload)
       /\ Len(stream) >= h[3] =>
             /\ n < Len(written) /\ g = written[n + 1]
             /\ SubSeq(stream, 1, h[3]) = g.payload

LEMMA HeaderMatches ==
    ASSUME WireInv, reader.pc \in {"firstBody", "body"}, ~ mixed
    PROVE  HeaderOfNext(reader.hdr)
<1>00. PICK h : h = reader.hdr
  OBVIOUS
<1>0. PICK t, n, off, part : Reads(t, n, off, part)
  BY DEF WireInv, InStep
<1>1. /\ t \in Frame /\ Len(t.payload) <= MaxPayloadSize
      /\ n \in 0 .. Len(written) /\ part \in 0 .. FrameLen(t) - 1
      /\ Aligned(Append(written, t), off, n, Ahead)
      /\ Len(Ahead) <= off[Len(written) + 1] - off[n + 1] + part
  BY <1>0 DEF Reads
<1>2. /\ written \in Seq(Frame) /\ stream \in Seq(Nat) /\ h \in Seq(Nat) /\ Len(h) = 3
  BY <1>00 DEF WireInv, WireTypes
<1>3. PICK gs, g : gs = Append(written, t) /\ g = gs[n + 1]
  OBVIOUS
<1>4. /\ gs \in Seq(Frame) /\ Len(gs) = Len(written) + 1 /\ Len(written) \in Nat
      /\ n + 1 \in 1 .. Len(gs) /\ g = gs[n + 1] /\ g \in Frame
      /\ n < Len(written) => g = written[n + 1]
      /\ n = Len(written) => g = t
  BY <1>1, <1>2, <1>3
<1>5. PICK D : D = h \o stream
  OBVIOUS
<1>6. /\ D \in Seq(Nat) /\ Len(D) = 3 + Len(stream) /\ Ahead = D /\ Len(stream) \in Nat
      /\ D[1] = h[1] /\ D[2] = h[2] /\ D[3] = h[3]
      /\ \A j \in 1 .. Len(stream) : D[3 + j] = stream[j]
  <2>1. /\ D \in Seq(Nat) /\ Len(D) = Len(h) + Len(stream) /\ Len(stream) \in Nat
        /\ \A i \in 1 .. Len(h) : D[i] = h[i]
        /\ \A i \in 1 .. Len(stream) : D[Len(h) + i] = stream[i]
    BY <1>2, <1>5, ConcatNat
  <2>2. 1 \in 1 .. Len(h) /\ 2 \in 1 .. Len(h) /\ 3 \in 1 .. Len(h)
    BY <1>2
  <2>3. D[1] = h[1] /\ D[2] = h[2] /\ D[3] = h[3]
    BY <2>1, <2>2
  <2>4. Ahead = D
    BY <1>00, <1>5 DEF Ahead
  <2>5. Len(D) = 3 + Len(stream) /\ \A j \in 1 .. Len(stream) : D[3 + j] = stream[j]
    BY <1>2, <2>1
  <2> QED BY <2>1, <2>3, <2>4, <2>5
<1>7. /\ Bytes(g)[1] = g.id /\ Bytes(g)[2] = g.seq /\ Bytes(g)[3] = Len(g.payload)
      /\ \A j \in 1 .. Len(g.payload) : Bytes(g)[3 + j] = g.payload[j]
      /\ FrameLen(g) = 3 + Len(g.payload) /\ Len(g.payload) \in Nat /\ FrameLen(t) \in Nat
  BY <1>1, <1>4, BytesFacts DEF FrameLen
<1>8. off[n + 1] \in Nat
  BY <1>1, <1>3, <1>4 DEF Aligned
<1>9. ASSUME NEW i \in 1 .. FrameLen(g), i <= Len(D) PROVE D[i] = Bytes(g)[i]
  <2>1. n + 1 \in n + 1 .. Len(gs) /\ i \in 1 .. FrameLen(gs[n + 1])
    BY <1>1, <1>4
  <2>2. i \in Nat
    BY <1>7
  <2>3. off[n + 1] - off[n + 1] + i = i
    BY <1>8, <2>2
  <2>4. D[off[n + 1] - off[n + 1] + i] = Bytes(gs[n + 1])[i]
    BY <1>1, <1>3, <1>6, <1>9, <2>1, <2>3 DEF Aligned
  <2> QED BY <1>4, <2>3, <2>4
<1>10. h[1] = g.id /\ h[2] = g.seq /\ h[3] = Len(g.payload)
  <2>1. /\ 1 \in 1 .. FrameLen(g) /\ 2 \in 1 .. FrameLen(g) /\ 3 \in 1 .. FrameLen(g)
        /\ 1 <= Len(D) /\ 2 <= Len(D) /\ 3 <= Len(D)
    <3>1. PICK l, p, m : l = Len(D) /\ p = Len(g.payload) /\ m = Len(stream)
      OBVIOUS
    <3>2. m \in Nat /\ p \in Nat /\ l = 3 + m /\ FrameLen(g) = 3 + p
      BY <1>6, <1>7, <3>1
    <3> QED BY <3>1, <3>2
  <2>2. D[1] = Bytes(g)[1] /\ D[2] = Bytes(g)[2] /\ D[3] = Bytes(g)[3]
    BY <1>9, <2>1
  <2> QED BY <1>6, <1>7, <2>2
<1>11. Len(g.payload) <= MaxPayloadSize
  <2>1. CASE n = Len(written)
    BY <1>1, <1>4, <2>1
  <2>2. CASE n # Len(written)
    <3>1. n < Len(written) /\ n + 1 \in 1 .. Len(written)
      BY <1>1, <1>4, <2>2
    <3> QED BY <1>4, <3>1 DEF WireInv, FramesSent
  <2> QED BY <2>1, <2>2
<1>12. ASSUME Len(stream) >= h[3]
       PROVE  n < Len(written) /\ SubSeq(stream, 1, h[3]) = g.payload
  <2>0. PICK q, m : q = Len(g.payload) /\ m = Len(stream)
    OBVIOUS
  <2>1. Len(D) >= FrameLen(g) /\ q <= m /\ h[3] = q
    <3>1. m \in Nat /\ q \in Nat /\ Len(D) = 3 + m /\ FrameLen(g) = 3 + q /\ h[3] = q
      BY <1>6, <1>7, <1>10, <2>0
    <3>2. m >= q
      BY <1>12, <2>0, <3>1
    <3> QED BY <3>1, <3>2
  <2>2. n < Len(written)
    <3> SUFFICES ASSUME n = Len(written) PROVE FALSE
      BY <1>1, <1>4
    <3>1. Len(D) <= part /\ part \in Int
      <4>1. off[Len(written) + 1] = off[n + 1]
        OBVIOUS
      <4>2. Len(D) <= off[n + 1] - off[n + 1] + part
        BY <1>1, <1>6, <4>1
      <4>3. part \in Int
        BY <1>1, <1>7
      <4> QED BY <1>8, <4>2, <4>3
    <3>2. part < FrameLen(g) /\ FrameLen(g) \in Nat /\ Len(D) \in Nat
      BY <1>1, <1>4, <1>6, <1>7
    <3> QED BY <2>1, <3>1, <3>2
  <2>3. PICK l, p, s : l = h[3] /\ p = g.payload /\ s = SubSeq(stream, 1, l)
    OBVIOUS
  <2>4. p \in Seq(Nat) /\ l = Len(p) /\ l \in 0 .. Len(stream)
    <3>1. p \in Seq(Nat)
      BY <1>4, <2>3 DEF Frame
    <3>2. l = q /\ q = Len(p) /\ q \in Nat /\ q <= Len(stream) /\ Len(stream) \in Nat
      BY <1>6, <1>7, <2>0, <2>1, <2>3
    <3> QED BY <3>1, <3>2
  <2>5. s \in Seq(Nat) /\ Len(s) = l /\ \A i \in 1 .. l : s[i] = stream[i]
    BY <1>2, <2>3, <2>4, SplitNat
  <2>6. ASSUME NEW j \in 1 .. l PROVE s[j] = p[j]
    <3>1. /\ j \in 1 .. Len(stream) /\ 3 + j \in 1 .. FrameLen(g) /\ 3 + j <= Len(D)
          /\ j \in 1 .. Len(g.payload)
      <4>1. /\ l \in Nat /\ l <= Len(stream) /\ Len(stream) \in Nat /\ j \in Nat
            /\ Len(D) = 3 + Len(stream) /\ FrameLen(g) = 3 + l /\ Len(g.payload) = l
        <5>1. PICK c : c = Len(stream)
          OBVIOUS
        <5>2. c \in Nat /\ Len(D) = 3 + c /\ l \in 0 .. c /\ j \in 1 .. l
          BY <1>6, <2>4, <5>1
        <5>3. Len(g.payload) = l /\ FrameLen(g) = 3 + l
          BY <1>7, <2>3, <2>4
        <5> QED BY <5>1, <5>2, <5>3
      <4> QED BY <4>1
    <3>2. D[3 + j] = Bytes(g)[3 + j]
      BY <1>9, <3>1
    <3> QED BY <1>6, <1>7, <2>3, <2>5, <3>1, <3>2
  <2>7. s = p
    BY <2>4, <2>5, <2>6, SeqEqual
  <2> QED BY <2>2, <2>3, <2>7
<1>13. g = Append(written, t)[n + 1] /\ (Len(stream) >= h[3] => g = written[n + 1])
  BY <1>3, <1>4, <1>12
<1> QED BY <1>00, <1>0, <1>4, <1>10, <1>11, <1>12, <1>13 DEF HeaderOfNext

\* The effect of ReadBody, with the header named.
LEMMA ReadBodyFacts ==
    ASSUME WireInv, ReadBody, NEW h, h = reader.hdr
    PROVE  /\ reader.pc \in {"firstBody", "body"} /\ h \in Seq(Nat) /\ Len(h) = 3
           /\ h[1] \in Nat /\ h[2] \in Nat /\ h[3] \in 0 .. Len(stream) /\ Len(stream) >= h[3]
           /\ reader' = [pc |-> "loop", hdr |-> << >>]
           /\ stream' = SubSeq(stream, h[3] + 1, Len(stream))
           /\ UNCHANGED <<scene, nextID, writer, mutex, closed, eof, written, cut, mixed>>
           /\ dispatched' =
                IF scene.side = "central" /\ h[1] = 0 THEN dispatched
                ELSE Append(dispatched, [id |-> h[1], seq |-> h[2],
                                         payload |-> SubSeq(stream, 1, h[3])])
<1>1. /\ reader.pc \in {"firstBody", "body"} /\ Len(stream) >= h[3]
      /\ UNCHANGED <<scene, nextID, writer, mutex, closed, eof, written, cut, mixed>>
      /\ dispatched' =
           IF scene.side = "central" /\ h[1] = 0 THEN dispatched
           ELSE Append(dispatched, [id |-> h[1], seq |-> h[2],
                                    payload |-> SubSeq(stream, 1, h[3])])
  BY DEF ReadBody, quiet
<1>2. reader' = [pc |-> "loop", hdr |-> << >>] /\ stream' = SubSeq(stream, h[3] + 1, Len(stream))
  BY DEF ReadBody, ReaderGoes
<1>3. h \in Seq(Nat) /\ Len(h) = 3 /\ stream \in Seq(Nat)
  BY <1>1 DEF WireInv, WireTypes
<1>4. h[1] \in Nat /\ h[2] \in Nat /\ h[3] \in Nat
  BY <1>3
<1>5. h[3] \in 0 .. Len(stream)
  <2>1. Len(stream) \in Nat
    BY <1>3
  <2> QED BY <1>1, <1>4, <2>1
<1> QED BY <1>1, <1>2, <1>3, <1>4, <1>5

LEMMA ReadBodyTypes == ASSUME WireInv, ReadBody PROVE WireTypes'
<1>1. PICK h : h = reader.hdr
  OBVIOUS
<1>2. /\ h[1] \in Nat /\ h[2] \in Nat /\ h[3] \in 0 .. Len(stream)
      /\ reader' = [pc |-> "loop", hdr |-> << >>]
      /\ stream' = SubSeq(stream, h[3] + 1, Len(stream))
      /\ UNCHANGED <<scene, nextID, writer, mutex, closed, eof, written, cut, mixed>>
      /\ \/ dispatched' = dispatched
         \/ dispatched' = Append(dispatched, [id |-> h[1], seq |-> h[2],
                                              payload |-> SubSeq(stream, 1, h[3])])
  BY <1>1, ReadBodyFacts
<1>3. stream \in Seq(Nat) /\ dispatched \in Seq(Frame)
  BY DEF WireInv, WireTypes
<1>4. stream' \in Seq(Nat) /\ SubSeq(stream, 1, h[3]) \in Seq(Nat)
  BY <1>2, <1>3, SplitNat
<1>5. PICK x : x = [id |-> h[1], seq |-> h[2], payload |-> SubSeq(stream, 1, h[3])]
  OBVIOUS
<1>6. dispatched' \in Seq(Frame)
  <2>1. x \in Frame
    BY <1>2, <1>4, <1>5 DEF Frame
  <2>2. dispatched' = dispatched \/ dispatched' = Append(dispatched, x)
    BY <1>2, <1>5
  <2> QED BY <1>3, <2>1, <2>2
<1>7. reader' \in [pc : ReaderPcs, hdr : Seq(Nat)] /\ reader'.pc = "loop" /\ reader'.hdr = << >>
  <2>1. << >> \in Seq(Nat)
    OBVIOUS
  <2> QED BY <1>2, <2>1 DEF ReaderPcs
<1> QED BY <1>2, <1>4, <1>6, <1>7 DEF WireInv, WireTypes

\* The frame read is handed on, unless it is one that is skipped.
LEMMA ReadBodyHands ==
    ASSUME WireAssumed, WireInv, ReadBody, NEW n \in 0 .. Len(written) - 1,
           Len(dispatched) = Rank(written, Kept, n), ~ mixed,
           reader.hdr[1] = written[n + 1].id, reader.hdr[2] = written[n + 1].seq,
           SubSeq(stream, 1, reader.hdr[3]) = written[n + 1].payload
    PROVE  HandedOn' /\ Len(dispatched') = Rank(written', Kept', n + 1)
<1>1. PICK h : h = reader.hdr
  OBVIOUS
<1>2. /\ UNCHANGED <<scene, written, mixed>>
      /\ dispatched' =
           IF scene.side = "central" /\ h[1] = 0 THEN dispatched
           ELSE Append(dispatched, [id |-> h[1], seq |-> h[2],
                                    payload |-> SubSeq(stream, 1, h[3])])
  BY <1>1, ReadBodyFacts
<1>3. PICK g : g = written[n + 1]
  OBVIOUS
<1>4. /\ written \in Seq(Frame) /\ dispatched \in Seq(Frame) /\ scene \in Scenes
      /\ Len(written) \in Nat /\ n + 1 \in 1 .. Len(written) /\ g \in Frame /\ n \in 0 .. Len(written)
  <2>1. written \in Seq(Frame) /\ dispatched \in Seq(Frame) /\ scene \in Scenes
    BY DEF WireInv, WireTypes
  <2>2. Len(written) \in Nat
    BY <2>1
  <2>3. n + 1 \in 1 .. Len(written) /\ n \in 0 .. Len(written)
    BY <2>2
  <2> QED BY <1>3, <2>1, <2>2, <2>3
<1>5. [id |-> h[1], seq |-> h[2], payload |-> SubSeq(stream, 1, h[3])] = g
  BY <1>1, <1>3, <1>4 DEF Frame
<1>6. scene.side \in {"client", "central"}
  BY <1>4 DEF WireAssumed, WireAssumption
<1>7. dispatched' = IF g \in Kept THEN Append(dispatched, g) ELSE dispatched
  <2>1. h[1] = g.id
    BY <1>1, <1>3
  <2>2. g \in Kept <=> ~ (scene.side = "central" /\ h[1] = 0)
    BY <1>4, <1>6, <2>1 DEF Kept
  <2> QED BY <1>2, <1>5, <2>2
<1>8. Kept' = Kept
  BY <1>2 DEF Kept
<1>9. Rank(written, Kept, n + 1) = IF g \in Kept THEN Len(dispatched) + 1 ELSE Len(dispatched)
  <2>1. PICK s, K : s = written /\ K = Kept
    OBVIOUS
  <2>2. s \in Seq(Frame) /\ n \in Nat /\ n < Len(s)
    BY <1>4, <2>1
  <2>3. PICK m : m = n + 1
    OBVIOUS
  <2>4. Rank(s, K, m) = IF s[m] \in K THEN Rank(s, K, n) + 1 ELSE Rank(s, K, n)
    BY <2>2, <2>3, RankNext
  <2> QED BY <1>3, <2>1, <2>3, <2>4
<1>10. PICK F : F = Filter(written, Kept)
  OBVIOUS
<1>11. /\ Len(dispatched) <= Len(F) /\ \A j \in 1 .. Len(dispatched) : dispatched[j] = F[j]
  BY <1>10 DEF WireInv, HandedOn
<1>12. CASE g \in Kept
  <2>1. n + 1 \in Places(written, Kept)
    BY <1>3, <1>4, <1>12 DEF Places
  <2>2. Len(dispatched) + 1 \in 1 .. Len(F) /\ F[Len(dispatched) + 1] = g
    BY <1>3, <1>4, <1>9, <1>10, <1>12, <2>1, FilterAtRank
  <2>3. dispatched' = Append(dispatched, g)
    BY <1>7, <1>12
  <2>4. /\ Len(dispatched') = Len(dispatched) + 1 /\ Len(dispatched) \in Nat
        /\ \A j \in 1 .. Len(dispatched) : dispatched'[j] = dispatched[j]
        /\ dispatched'[Len(dispatched) + 1] = g
    BY <1>4, <2>3
  <2>5. ASSUME NEW j \in 1 .. Len(dispatched') PROVE dispatched'[j] = F[j]
    <3>1. CASE j = Len(dispatched) + 1
      BY <2>2, <2>4, <3>1
    <3>2. CASE j # Len(dispatched) + 1
      <4>1. j \in 1 .. Len(dispatched)
        BY <2>4, <3>2
      <4> QED BY <1>11, <2>4, <4>1
    <3> QED BY <3>1, <3>2
  <2>6. Len(dispatched') <= Len(F)
    <3>1. F \in Seq(Frame)
      BY <1>4, <1>10, FilterAtRank
    <3>2. Len(F) \in Nat
      BY <3>1
    <3> QED BY <2>2, <2>4, <3>2
  <2>7. HandedOn'
    BY <1>2, <1>8, <1>10, <2>5, <2>6 DEF HandedOn
  <2>8. Rank(written', Kept', n + 1) = Len(dispatched) + 1
    BY <1>2, <1>8, <1>9, <1>12
  <2> QED BY <2>4, <2>7, <2>8
<1>13. CASE g \notin Kept
  <2>1. dispatched' = dispatched
    BY <1>7, <1>13
  <2>2. HandedOn'
    BY <1>2, <1>8, <1>10, <1>11, <2>1 DEF HandedOn
  <2>3. Rank(written', Kept', n + 1) = Len(dispatched)
    BY <1>2, <1>8, <1>9, <1>13
  <2> QED BY <2>1, <2>2, <2>3
<1> QED BY <1>12, <1>13

\* The bytes of the frame read are off the tunnel: what is ahead begins with the next.
LEMMA ReadBodyTakes ==
    ASSUME WireInv, ReadBody, NEW q, q = reader.hdr[3]
    PROVE  /\ Ahead' = SubSeq(Ahead, q + 4, Len(Ahead)) /\ q \in Nat
           /\ Ahead \in Seq(Nat) /\ Ahead' \in Seq(Nat) /\ q + 3 <= Len(Ahead)
           /\ Len(Ahead') = Len(Ahead) - (q + 3)
<1>1. PICK h, D : h = reader.hdr /\ D = Ahead
  OBVIOUS
<1>2. /\ h \in Seq(Nat) /\ Len(h) = 3 /\ h[3] \in 0 .. Len(stream)
      /\ reader' = [pc |-> "loop", hdr |-> << >>]
      /\ stream' = SubSeq(stream, h[3] + 1, Len(stream))
  BY <1>1, ReadBodyFacts
<1>3. h[3] = q
  BY <1>1
<1>4. stream \in Seq(Nat) /\ Len(stream) \in Nat
  BY DEF WireInv, WireTypes
<1>5. PICK m : m = Len(stream)
  OBVIOUS
<1>6. q \in Nat /\ q <= m /\ m \in Nat
  BY <1>2, <1>3, <1>4, <1>5
<1>7. /\ D \in Seq(Nat) /\ Len(D) = 3 + m
      /\ \A i \in 1 .. m : D[3 + i] = stream[i]
  <2>1. D = h \o stream
    BY <1>1 DEF Ahead
  <2>2. /\ D \in Seq(Nat) /\ Len(D) = Len(h) + Len(stream)
        /\ \A i \in 1 .. Len(stream) : D[Len(h) + i] = stream[i]
    BY <1>2, <1>4, <2>1, ConcatNat
  <2> QED BY <1>2, <1>5, <2>2
<1>8. /\ stream' \in Seq(Nat) /\ Len(stream') = m - q
      /\ \A i \in 1 .. m - q : stream'[i] = stream[q + i]
  <2>1. q \in 0 .. Len(stream) /\ stream' = SubSeq(stream, q + 1, Len(stream))
    BY <1>2, <1>3
  <2>2. /\ stream' \in Seq(Nat) /\ Len(stream') = Len(stream) - q
        /\ \A i \in 1 .. Len(stream) - q : stream'[i] = stream[q + i]
    BY <1>4, <2>1, SplitNat
  <2> QED BY <1>5, <2>2
<1>9. PICK E : E = stream'
  OBVIOUS
<1>10. Ahead' = E
  <2>1. Ahead' = << >> \o E
    BY <1>2, <1>9 DEF Ahead
  <2> QED BY <1>8, <1>9, <2>1
<1>11. q + 3 \in 0 .. Len(D)
  BY <1>6, <1>7
<1>12. PICK S : S = SubSeq(D, (q + 3) + 1, Len(D))
  OBVIOUS
<1>13. /\ S \in Seq(Nat) /\ Len(S) = Len(D) - (q + 3)
       /\ \A i \in 1 .. Len(D) - (q + 3) : S[i] = D[(q + 3) + i]
  BY <1>7, <1>11, <1>12, SplitNat
<1>14. Len(S) = m - q /\ Len(E) = m - q
  BY <1>6, <1>7, <1>8, <1>9, <1>13
<1>15. ASSUME NEW i \in 1 .. Len(E) PROVE E[i] = S[i]
  <2>1. i \in 1 .. m - q /\ i \in 1 .. Len(D) - (q + 3)
    BY <1>6, <1>7, <1>14
  <2>2. q + i \in 1 .. m /\ (q + 3) + i = 3 + (q + i)
    <3>1. m - q \in Nat
      BY <1>6
    <3>2. i \in Nat /\ 1 <= i /\ i <= m - q
      BY <2>1, <3>1
    <3> QED BY <1>6, <3>2
  <2>3. E[i] = stream[q + i] /\ S[i] = D[(q + 3) + i]
    BY <1>8, <1>9, <1>13, <2>1
  <2> QED BY <1>7, <2>2, <2>3
<1>16. E = S
  BY <1>8, <1>9, <1>13, <1>14, <1>15, SeqEqual
<1>17. (q + 3) + 1 = q + 4
  BY <1>6
<1>18. q + 3 <= Len(D)
  BY <1>6, <1>7
<1>19. Ahead' = SubSeq(D, q + 4, Len(D)) /\ Ahead' \in Seq(Nat) /\ Len(Ahead') = Len(D) - (q + 3)
  BY <1>10, <1>12, <1>13, <1>16, <1>17
<1> QED BY <1>1, <1>6, <1>7, <1>18, <1>19

\* The reader takes one frame, which is the next that was written.
LEMMA ReadBodyInv ==
    ASSUME WireAssumed, WireInv, ReadBody PROVE WireInv'
<1>1. WireTypes'
  BY ReadBodyTypes
<1>2. PICK h : h = reader.hdr
  OBVIOUS
<1>3. /\ reader.pc \in {"firstBody", "body"} /\ Len(stream) >= h[3]
      /\ reader' = [pc |-> "loop", hdr |-> << >>]
      /\ UNCHANGED <<scene, writer, eof, written, cut, mixed>>
  BY <1>2, ReadBodyFacts
<1>4. FramesSent'
  <2>1. KeepsIDs
    BY <1>3 DEF KeepsIDs
  <2> QED BY <1>3, <2>1, SentStays DEF WireInv
<1>5. CASE mixed
  <2>1. mixed'
    BY <1>3, <1>5
  <2> QED BY <1>1, <1>4, <2>1 DEF WireInv, HandedOn, InStep
<1>6. CASE ~ mixed
  <2>1. PICK t, n, off, part, g :
              /\ Reads(t, n, off, part) /\ g = Append(written, t)[n + 1]
              /\ g \in Frame /\ Len(g.payload) <= MaxPayloadSize
              /\ h[1] = g.id /\ h[2] = g.seq /\ h[3] = Len(g.payload)
              /\ Len(stream) >= h[3] =>
                    /\ n < Len(written) /\ g = written[n + 1]
                    /\ SubSeq(stream, 1, h[3]) = g.payload
    <3>1. HeaderOfNext(reader.hdr)
      BY <1>3, <1>6, HeaderMatches
    <3> QED BY <1>2, <3>1 DEF HeaderOfNext
  <2>2. /\ t \in Frame /\ Len(t.payload) <= MaxPayloadSize /\ n \in 0 .. Len(written)
        /\ part \in 0 .. FrameLen(t) - 1
        /\ Aligned(Append(written, t), off, n, Ahead)
        /\ Len(Ahead) <= off[Len(written) + 1] - off[n + 1] + part
        /\ ~ eof => Len(Ahead) = off[Len(written) + 1] - off[n + 1] + part
        /\ ~ cut => part = 0
        /\ Len(dispatched) = Rank(written, Kept, n)
    BY <2>1 DEF Reads
  <2>3. PICK fs : fs = Append(written, t)
    OBVIOUS
  <2>4. /\ g \in Frame /\ g = fs[n + 1]
        /\ h[1] = g.id /\ h[2] = g.seq /\ h[3] = Len(g.payload)
        /\ n < Len(written) /\ g = written[n + 1] /\ SubSeq(stream, 1, h[3]) = g.payload
    BY <1>3, <2>1, <2>3
  <2>5. /\ written \in Seq(Frame) /\ Len(written) \in Nat /\ n \in Nat
        /\ fs \in Seq(Frame) /\ Len(fs) = Len(written) + 1
    BY <2>2, <2>3 DEF WireInv, WireTypes
  <2>6. n \in 0 .. Len(written) - 1 /\ n + 1 \in 0 .. Len(written) /\ n + 1 < Len(fs)
        /\ n + 1 \in Nat
    BY <2>4, <2>5
  <2>7. HandedOn' /\ Len(dispatched') = Rank(written', Kept', n + 1)
    BY <1>2, <1>6, <2>2, <2>4, <2>6, ReadBodyHands
  <2>8. PICK q, D, E : q = h[3] /\ D = Ahead /\ E = Ahead'
    OBVIOUS
  <2>9. /\ E = SubSeq(D, q + 4, Len(D)) /\ q \in Nat /\ D \in Seq(Nat) /\ E \in Seq(Nat)
        /\ q + 3 <= Len(D) /\ Len(E) = Len(D) - (q + 3)
    BY <1>2, <2>8, ReadBodyTakes
  <2>10. FrameLen(fs[n + 1]) = q + 3 /\ FrameLen(fs[n + 1]) + 1 = q + 4
    <3>1. FrameLen(g) = 3 + q
      BY <2>4, <2>8 DEF FrameLen
    <3> QED BY <2>4, <2>9, <3>1
  <2>11. Aligned(fs, off, n + 1, E)
    BY <2>2, <2>3, <2>5, <2>6, <2>8, <2>9, <2>10, AlignedTakes
  <2>12. PICK a, b, c : a = off[n + 1] /\ b = off[n + 2] /\ c = off[Len(written) + 1]
    OBVIOUS
  <2>13. a \in Nat /\ b = a + (q + 3) /\ c \in Nat
    <3>1. n + 1 \in 1 .. Len(fs) /\ n + 1 \in 1 .. Len(fs) - 1 /\ Len(written) + 1 \in 1 .. Len(fs)
          /\ n + 1 + 1 = n + 2
      BY <2>5, <2>6
    <3> QED BY <2>2, <2>3, <2>10, <2>12, <3>1 DEF Aligned
  <2>14. part \in Int /\ Len(D) \in Nat
    <3>1. FrameLen(t) \in Nat
      BY <2>2, BytesFacts
    <3> QED BY <2>2, <2>9, <3>1
  <2>15. Len(E) <= c - b + part
    <3>1. Len(D) <= c - a + part
      BY <2>2, <2>8, <2>12
    <3> QED BY <2>9, <2>13, <2>14, <3>1
  <2>16. ~ eof => Len(E) = c - b + part
    <3> SUFFICES ASSUME ~ eof PROVE Len(E) = c - b + part
      OBVIOUS
    <3>1. Len(D) = c - a + part
      BY <2>2, <2>8, <2>12
    <3> QED BY <2>9, <2>13, <2>14, <3>1
  <2>17. Reads(t, n + 1, off, part)'
    <3>1. n + 1 + 1 = n + 2
      BY <2>5
    <3> QED BY <1>3, <2>2, <2>3, <2>6, <2>7, <2>8, <2>11, <2>12, <2>15, <2>16, <3>1 DEF Reads
  <2>18. InStep'
    BY <2>17 DEF InStep
  <2> QED BY <1>1, <1>4, <2>7, <2>18 DEF WireInv
<1> QED BY <1>5, <1>6

\* No header asks for too much, unless the stream is mixed; a payload cut short leaves
\* nothing behind it.
LEMMA ReadErrorInv ==
    ASSUME WireAssumed, WireInv, ReadError PROVE WireInv'
<1>1. UNCHANGED <<scene, nextID, writer, mutex, closed, written, dispatched, cut, mixed>>
  BY DEF ReadError, quiet, history
<1>2. MaxPayloadSize \in Nat
  BY DEF WireAssumed, WireAssumption
<1>3. CASE reader.pc # "firstBody"
  <2>1. reader' = [pc |-> "ended", hdr |-> << >>] /\ eof' = TRUE /\ stream' = stream
    BY <1>3 DEF ReadError
  <2>2. << >> \in Seq(Nat)
    OBVIOUS
  <2>3. reader' \in [pc : ReaderPcs, hdr : Seq(Nat)] /\ reader'.pc = "ended" /\ reader'.hdr = << >>
    BY <2>1, <2>2 DEF ReaderPcs
  <2>4. WireTypes'
    BY <1>1, <2>1, <2>3 DEF WireInv, WireTypes
  <2> QED BY <1>1, <2>3, <2>4, ReaderStep
<1>4. CASE reader.pc = "firstBody"
  <2>1. PICK q, k : q = reader.hdr[3] /\ k = IF q > MaxPayloadSize THEN 0 ELSE Len(stream)
    OBVIOUS
  <2>2. /\ reader' = [pc |-> "loop", hdr |-> << >>] /\ eof' = eof
        /\ stream' = SubSeq(stream, k + 1, Len(stream))
        /\ q > MaxPayloadSize \/ eof
    BY <1>4, <2>1 DEF ReadError, ReaderGoes
  <2>3. reader.hdr \in Seq(Nat) /\ Len(reader.hdr) = 3 /\ stream \in Seq(Nat) /\ Len(stream) \in Nat
    BY <1>4 DEF WireInv, WireTypes
  <2>4. q \in Nat /\ k \in 0 .. Len(stream)
    BY <2>1, <2>3
  <2>5. stream' \in Seq(Nat) /\ Len(stream') = Len(stream) - k
    BY <2>2, <2>3, <2>4, SplitNat
  <2>6. reader' \in [pc : ReaderPcs, hdr : Seq(Nat)] /\ reader'.pc = "loop" /\ reader'.hdr = << >>
    <3>1. << >> \in Seq(Nat)
      OBVIOUS
    <3> QED BY <2>2, <3>1 DEF ReaderPcs
  <2>7. WireTypes'
    BY <1>1, <2>2, <2>5, <2>6 DEF WireInv, WireTypes
  <2>8. CASE q > MaxPayloadSize
    <3>1. mixed
      <4> SUFFICES ASSUME ~ mixed PROVE FALSE
        OBVIOUS
      <4>1. HeaderOfNext(reader.hdr)
        BY <1>4, HeaderMatches
      <4>2. PICK g : Len(g.payload) <= MaxPayloadSize /\ reader.hdr[3] = Len(g.payload)
        BY <4>1 DEF HeaderOfNext
      <4>3. q <= MaxPayloadSize
        BY <2>1, <4>2
      <4> QED BY <1>2, <2>4, <2>8, <4>3
    <3>2. KeepsIDs
      BY <1>1 DEF KeepsIDs
    <3>3. FramesSent'
      BY <1>1, <3>2, SentStays DEF WireInv
    <3>4. mixed'
      BY <1>1, <3>1
    <3> QED BY <2>7, <3>3, <3>4 DEF WireInv, HandedOn, InStep
  <2>9. CASE ~ (q > MaxPayloadSize)
    <3>1. k = Len(stream) /\ eof
      BY <2>1, <2>2, <2>9
    <3>2. Len(stream') = 0
      BY <2>3, <2>5, <3>1
    <3>3. PICK E : E = stream'
      OBVIOUS
    <3>4. E \in Seq(Nat) /\ Len(E) = 0 /\ Ahead' = << >> \o E
      BY <2>5, <2>6, <3>2, <3>3 DEF Ahead
    <3>5. Len(Ahead') = 0
      BY <3>4
    <3>6. Len(Ahead) \in Nat
      <4>1. PICK h : h = reader.hdr
        OBVIOUS
      <4>2. h \in Seq(Nat) /\ Ahead = h \o stream
        BY <2>3, <4>1 DEF Ahead
      <4>3. Len(h \o stream) = Len(h) + Len(stream) /\ Len(h) \in Nat
        BY <2>3, <4>2, ConcatNat
      <4> QED BY <2>3, <4>2, <4>3
    <3>7. Len(Ahead') <= Len(Ahead) /\ \A i \in 1 .. Len(Ahead') : Ahead'[i] = Ahead[i]
      <4>1. PICK a, b : a = Len(Ahead') /\ b = Len(Ahead)
        OBVIOUS
      <4>2. a = 0 /\ b \in Nat
        BY <3>5, <3>6, <4>1
      <4>3. a <= b /\ 1 .. a = {}
        BY <4>2
      <4> QED BY <4>1, <4>3
    <3> QED BY <1>1, <1>4, <2>2, <2>7, <3>1, <3>7, ReaderStep
  <2> QED BY <2>8, <2>9
<1> QED BY <1>3, <1>4

\* Every step keeps the invariant.
LEMMA WireInvNext ==
    ASSUME WireAssumed, WireInv, [WireNext]_wireVars PROVE WireInv'
<1>1. CASE UNCHANGED wireVars
  <2>1. /\ UNCHANGED <<scene, nextID, writer, mutex, closed, stream, eof, reader,
                       written, dispatched, cut, mixed>>
    BY <1>1 DEF wireVars
  <2>2. WireTypes'
    BY <2>1 DEF WireInv, WireTypes
  <2>3. KeepsIDs
    BY <2>1 DEF KeepsIDs
  <2> QED BY <2>1, <2>2, <2>3, NothingMoves
<1>2. ASSUME NEW w \in Writers, Writer(w) PROVE WireInv'
  BY <1>2, OpenInv, SendFrameInv, LockInv, WriteInv, WriteFailsInv, FailedInv DEF Writer
<1>3. CASE Reader
  BY <1>3, FirstByteInv, ReadHeaderInv, ReadBodyInv, ReadErrorInv DEF Reader
<1> QED BY <1>1, <1>2, <1>3, FirstByteTimeoutInv, CutInv DEF WireNext

\* Handed is the filter of the frames written by Kept.
LEMMA HandedFilter == Handed = Filter(written, Kept)
BY DEF Handed, Kept

\* What was handed on is what was written, and a SYN carries the target asked for.
LEMMA WireInvIntact ==
    ASSUME WireAssumed, WireInv PROVE FramesIntact
<1>1. WireTypeOK
  <2>1. /\ nextID \in 0 .. IDSpace - 1 /\ mutex \in Writers \cup {"none"}
        /\ closed \in BOOLEAN /\ eof \in BOOLEAN
        /\ reader.pc \in ReaderPcs /\ reader.hdr \in Seq(Nat)
    BY DEF WireInv, WireTypes
  <2>2. \A w \in Writers : writer[w].pc \in WriterPcs
    BY DEF WireInv, WireTypes, WriterType
  <2>3. Len(reader.hdr) <= 3
    <3>1. reader.pc \in {"first", "loop", "ended"} => reader.hdr = << >>
      BY DEF WireInv, WireTypes
    <3>2. reader.pc \in {"rest", "socks"} => Len(reader.hdr) = 1
      BY DEF WireInv, WireTypes
    <3>3. reader.pc \in {"firstBody", "body"} => Len(reader.hdr) = 3
      BY DEF WireInv, WireTypes
    <3>4. PICK l : l = Len(reader.hdr)
      OBVIOUS
    <3>5. l = 0 \/ l = 1 \/ l = 3
      <4>1. reader.pc \in {"first", "loop", "ended"} => l = 0
        BY <3>1, <3>4
      <4>2. /\ reader.pc \in {"rest", "socks"} => l = 1
            /\ reader.pc \in {"firstBody", "body"} => l = 3
        BY <3>2, <3>3, <3>4
      <4>3. \/ reader.pc \in {"first", "loop", "ended"}
            \/ reader.pc \in {"rest", "socks"}
            \/ reader.pc \in {"firstBody", "body"}
        BY <2>1 DEF ReaderPcs
      <4> QED BY <4>1, <4>2, <4>3
    <3>6. l <= 3
      <4>1. CASE l = 0
        BY <4>1
      <4>2. CASE l = 1
        BY <4>2
      <4>3. CASE l = 3
        BY <4>3
      <4> QED BY <3>5, <4>1, <4>2, <4>3
    <3> QED BY <3>4, <3>6, Zenon
  <2> QED BY <2>1, <2>2, <2>3 DEF WireTypeOK, HeaderSize, WriterPcs, ReaderPcs
<1> SUFFICES ASSUME ~ mixed
             PROVE  /\ IsPrefix(dispatched, Handed)
                    /\ \A k \in DOMAIN dispatched : dispatched[k].seq = 0 =>
                          \E w \in Writers :
                             /\ writer[w].id = dispatched[k].id
                             /\ DecodeSYNPayload(dispatched[k].payload) = writer[w].target
  BY <1>1 DEF FramesIntact
<1>2. PICK F : F = Filter(written, Kept)
  OBVIOUS
<1>3. /\ written \in Seq(Frame) /\ dispatched \in Seq(Frame)
      /\ writer \in [Writers -> WriterType]
  BY DEF WireInv, WireTypes
<1>4. F \in Seq(Frame)
  BY <1>2, <1>3, FilterFacts
<1>5. Len(dispatched) <= Len(F) /\ \A j \in 1 .. Len(dispatched) : dispatched[j] = F[j]
  BY <1>2 DEF WireInv, HandedOn
<1>6. IsPrefix(dispatched, Handed)
  <2>1. PICK l, d : l = Len(dispatched) /\ d = dispatched
    OBVIOUS
  <2>2. PICK a, b : a = SubSeq(d, 1, l) /\ b = SubSeq(F, 1, l)
    OBVIOUS
  <2>3. l \in Nat /\ l <= Len(F) /\ Len(F) \in Nat /\ d \in Seq(Frame) /\ l = Len(d)
        /\ \A j \in 1 .. l : d[j] = F[j]
    BY <1>3, <1>4, <1>5, <2>1
  <2>4. a \in Seq(Frame) /\ Len(a) = l /\ \A j \in 1 .. l : a[j] = d[j]
    BY <2>2, <2>3
  <2>5. b \in Seq(Frame) /\ Len(b) = l /\ \A j \in 1 .. l : b[j] = F[j]
    BY <1>4, <2>2, <2>3
  <2>6. a = b
    <3>1. \A j \in 1 .. Len(a) : a[j] = b[j]
      BY <2>3, <2>4, <2>5
    <3> QED BY <2>4, <2>5, <3>1, SeqEqual
  <2>7. Handed = F
    BY <1>2, HandedFilter
  <2> QED BY <1>5, <2>1, <2>2, <2>6, <2>7 DEF IsPrefix
<1>7. ASSUME NEW k \in DOMAIN dispatched, dispatched[k].seq = 0
      PROVE  \E w \in Writers :
                /\ writer[w].id = dispatched[k].id
                /\ DecodeSYNPayload(dispatched[k].payload) = writer[w].target
  <2>1. k \in 1 .. Len(dispatched) /\ Len(dispatched) \in Nat
    BY <1>3
  <2>2. k \in 1 .. Len(F) /\ dispatched[k] = F[k]
    <3>1. Len(F) \in Nat
      BY <1>4
    <3> QED BY <1>5, <2>1, <3>1
  <2>3. PICK i \in Places(written, Kept) : F[k] = written[i]
    BY <1>2, <1>3, <2>2, FilterAtRank
  <2>4. i \in 1 .. Len(written)
    BY DEF Places
  <2>5. SentBy(writer, written[i])
    BY <2>4 DEF WireInv, FramesSent
  <2>6. PICK f : f = dispatched[k]
    OBVIOUS
  <2>7. f = written[i] /\ f.seq = 0
    BY <1>7, <2>2, <2>3, <2>6
  <2>8. PICK w \in Writers : /\ writer[w].id = f.id
                             /\ f.payload = EncodeSYNPayload(writer[w].target)
    BY <2>5, <2>7 DEF SentBy
  <2>9. writer[w].target \in Target
    BY <1>3 DEF WriterType
  <2>10. DecodeSYNPayload(f.payload) = writer[w].target
    BY <2>8, <2>9, DecodesTarget
  <2> QED BY <2>6, <2>8, <2>10
<1> QED BY <1>6, <1>7

-----------------------------------------------------------------------------
\* protocol.go, pool.go, server.go: connections that share a tunnel, deadlines that end in
\* the middle of a frame, a tunnel that dies and the byte that tells frames from SOCKS5
\* never misalign the stream. As long as nothing is written after a frame cut short, the
\* frames that handleIncoming and readLoop hand on are a prefix of those written, without
\* the ones of ConnID 0 that readLoop skips, and a SYN decodes to the target asked for.
THEOREM FramesStayIntact == WireSpec => []FramesIntact
<1>1. WireAssumed
  BY WireAssumption, RequestsAssumption DEF WireAssumed
<1>2. WireInit => WireInv
  BY <1>1, WireInvInit
<1>3. WireInv /\ [WireNext]_wireVars => WireInv'
  BY <1>1, WireInvNext
<1>4. WireInv => FramesIntact
  BY <1>1, WireInvIntact
<1> QED BY <1>2, <1>3, <1>4, PTL DEF WireSpec
=============================================================================
