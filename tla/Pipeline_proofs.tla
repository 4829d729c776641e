--------------------------- MODULE Pipeline_proofs ---------------------------
(***************************************************************************)
(* Safety of the packet pipeline for any number of packets and exceptions: *)
(* it implements PacketChannel, keeps the order of capture, and captures   *)
(* at most two packets once it was told to stop.                           *)
(*                                                                         *)
(* All three rest on the view that the packets not yet handled are one     *)
(* sequence, batch \o queue: draining the queue does not change it, and    *)
(* handling, raising and stopping remove a part of its front.              *)
(***************************************************************************)
EXTENDS Pipeline, SequenceTheorems, TLAPS

Pending == batch \o queue

-----------------------------------------------------------------------------
(* Sequences.                                                              *)

\* Appending to the second part of a concatenation appends to the whole.
LEMMA AppendToSecond ==
  ASSUME NEW S, NEW s \in Seq(S), NEW t \in Seq(S), NEW e \in S
  PROVE  s \o Append(t, e) = Append(s \o t, e)
<1>1. Append(t, e) = t \o <<e>> /\ Append(s \o t, e) = (s \o t) \o <<e>>
  BY AppendIsConcat, ConcatProperties
<1>2. <<e>> \in Seq(S)
  OBVIOUS
<1> QED BY <1>1, <1>2, ConcatAssociative

\* Moving the head of the second part to the end of the first changes nothing.
LEMMA MoveHead ==
  ASSUME NEW S, NEW s \in Seq(S), NEW t \in Seq(S), t # <<>>
  PROVE  Append(s, Head(t)) \o Tail(t) = s \o t
<1>1. Head(t) \in S /\ Tail(t) \in Seq(S) /\ <<Head(t)>> \in Seq(S)
  BY HeadTailProperties
<1>2. Append(s, Head(t)) = s \o <<Head(t)>>
  BY <1>1, AppendIsConcat
<1>3. (s \o <<Head(t)>>) \o Tail(t) = s \o (<<Head(t)>> \o Tail(t))
  BY <1>1, ConcatAssociative
<1>4. <<Head(t)>> \o Tail(t) = t
  <2> DEFINE u == <<Head(t)>> \o Tail(t)
  <2>1. Len(Tail(t)) = Len(t) - 1 /\ Len(t) \in Nat \ {0}
    BY HeadTailProperties, EmptySeq
  <2>2. /\ u \in Seq(S)
        /\ Len(u) = 1 + Len(Tail(t))
        /\ \A i \in 1..1 + Len(Tail(t)) :
             u[i] = IF i <= 1 THEN <<Head(t)>>[i] ELSE Tail(t)[i - 1]
    BY <1>1, ConcatProperties, Len(<<Head(t)>>) = 1
  <2>3. \A i \in 1..Len(t) : u[i] = t[i]
    BY <2>1, <2>2, HeadTailProperties
  <2> QED BY <2>1, <2>2, <2>3, SeqEqual
<1> QED BY <1>2, <1>3, <1>4

\* The head and the tail of a concatenation whose first part is not empty.
LEMMA DropHead ==
  ASSUME NEW S, NEW s \in Seq(S), NEW t \in Seq(S), s # <<>>
  PROVE  /\ s \o t # <<>>
         /\ Head(s \o t) = Head(s)
         /\ SubSeq(s \o t, 2, Len(s \o t)) = Tail(s) \o t
<1> DEFINE u == s \o t
           v == SubSeq(u, 2, Len(u))
           w == Tail(s) \o t
<1>1. Len(s) \in Nat \ {0} /\ Len(t) \in Nat
  BY EmptySeq, LenProperties
<1>2. /\ u \in Seq(S)
      /\ Len(u) = Len(s) + Len(t)
      /\ \A i \in 1..Len(s) + Len(t) :
           u[i] = IF i <= Len(s) THEN s[i] ELSE t[i - Len(s)]
  BY ConcatProperties
<1>3. u # <<>> /\ Head(u) = Head(s)
  BY <1>1, <1>2
<1>4. Tail(s) \in Seq(S) /\ Len(Tail(s)) = Len(s) - 1
      /\ \A i \in 1..Len(s) - 1 : Tail(s)[i] = s[i + 1]
  BY HeadTailProperties
<1>5. /\ w \in Seq(S)
      /\ Len(w) = Len(s) - 1 + Len(t)
      /\ \A i \in 1..Len(s) - 1 + Len(t) :
           w[i] = IF i <= Len(s) - 1 THEN Tail(s)[i] ELSE t[i - (Len(s) - 1)]
  BY <1>4, ConcatProperties
<1>6. v = Tail(u)
  BY <1>2, <1>3, TailIsSubSeq
<1>7. v \in Seq(S) /\ Len(v) = Len(u) - 1 /\ \A i \in 1..Len(u) - 1 : v[i] = u[i + 1]
  BY <1>2, <1>3, <1>6, HeadTailProperties
<1>8. \A i \in 1..Len(v) : v[i] = w[i]
  BY <1>1, <1>2, <1>4, <1>5, <1>7
<1>9. v = w
  BY <1>1, <1>2, <1>5, <1>7, <1>8, SeqEqual
<1> QED BY <1>3, <1>9

\* Dropping the first part of a concatenation leaves the second.
LEMMA DropFirst ==
  ASSUME NEW S, NEW s \in Seq(S), NEW t \in Seq(S)
  PROVE  SubSeq(s \o t, Len(s) + 1, Len(s \o t)) = t
<1> DEFINE u == s \o t
           v == SubSeq(u, Len(s) + 1, Len(u))
<1>1. Len(s) \in Nat /\ Len(t) \in Nat
  BY LenProperties
<1>2. /\ u \in Seq(S)
      /\ Len(u) = Len(s) + Len(t)
      /\ \A i \in 1..Len(s) + Len(t) :
           u[i] = IF i <= Len(s) THEN s[i] ELSE t[i - Len(s)]
  BY ConcatProperties
<1>3. \A i \in Len(s) + 1..Len(u) : u[i] \in S
  BY <1>1, <1>2, ElementOfSeq
<1>4. /\ v \in Seq(S)
      /\ Len(v) = IF Len(s) + 1 <= Len(u) THEN Len(u) - (Len(s) + 1) + 1 ELSE 0
      /\ \A i \in 1..Len(u) - (Len(s) + 1) + 1 : v[i] = u[Len(s) + 1 + i - 1]
  BY <1>1, <1>2, <1>3, SubSeqProperties
<1>5. Len(v) = Len(t) /\ \A i \in 1..Len(t) : v[i] = t[i]
  BY <1>1, <1>2, <1>4
<1> QED BY <1>4, <1>5, SeqEqual

-----------------------------------------------------------------------------
(* Rising sequences of packets.                                            *)

Rising(s, top) ==
  /\ \A i, j \in 1..Len(s) : i < j => s[i] < s[j]
  /\ \A i \in 1..Len(s) : s[i] <= top

\* A newer packet at the end keeps the sequence rising.
LEMMA RisingAppend ==
  ASSUME NEW s \in Seq(Nat), NEW top \in Nat, Rising(s, top)
  PROVE  Rising(Append(s, top + 1), top + 1)
<1>1. /\ Len(Append(s, top + 1)) = Len(s) + 1
      /\ \A i \in 1..Len(s) : Append(s, top + 1)[i] = s[i]
      /\ Append(s, top + 1)[Len(s) + 1] = top + 1
      /\ Len(s) \in Nat
      /\ \A i \in 1..Len(s) : s[i] \in Nat
  BY AppendProperties, LenProperties, ElementOfSeq
<1> QED BY <1>1 DEF Rising

\* So does the loss of packets from the middle.
LEMMA RisingDrop ==
  ASSUME NEW a \in Seq(Nat), NEW b \in Seq(Nat), NEW c \in Seq(Nat), NEW top \in Nat,
         Rising(a \o (b \o c), top)
  PROVE  Rising(a \o c, top)
<1> DEFINE u == a \o (b \o c)
           w == a \o c
           la == Len(a)
           lb == Len(b)
           lc == Len(c)
           At(i) == IF i <= la THEN i ELSE i + lb
<1>1. la \in Nat /\ lb \in Nat /\ lc \in Nat
  BY LenProperties
<1>2. /\ b \o c \in Seq(Nat) /\ Len(b \o c) = lb + lc
      /\ \A i \in 1..lb + lc : (b \o c)[i] = IF i <= lb THEN b[i] ELSE c[i - lb]
  BY ConcatProperties
<1>3. /\ Len(u) = la + (lb + lc)
      /\ \A i \in 1..la + (lb + lc) :
           u[i] = IF i <= la THEN a[i] ELSE (b \o c)[i - la]
  BY <1>2, ConcatProperties
<1>4. /\ Len(w) = la + lc
      /\ \A i \in 1..la + lc : w[i] = IF i <= la THEN a[i] ELSE c[i - la]
  BY ConcatProperties
<1>5. ASSUME NEW i \in 1..la + lc
      PROVE  At(i) \in 1..la + (lb + lc) /\ w[i] = u[At(i)]
  <2>1. CASE i <= la
    BY <1>1, <1>3, <1>4, <2>1
  <2>2. CASE i > la
    <3>1. At(i) = i + lb /\ At(i) \in 1..la + (lb + lc) /\ At(i) > la
      BY <1>1, <2>2
    <3>2. u[At(i)] = (b \o c)[i + lb - la]
      BY <1>1, <1>3, <3>1
    <3>3. i + lb - la \in 1..lb + lc /\ i + lb - la > lb
      BY <1>1, <2>2
    <3>4. (b \o c)[i + lb - la] = c[i + lb - la - lb]
      BY <1>1, <1>2, <3>3
    <3>5. i + lb - la - lb = i - la
      BY <1>1
    <3> QED BY <1>1, <1>4, <2>2, <3>1, <3>2, <3>4, <3>5
  <2> QED BY <1>1, <2>1, <2>2
<1>6. ASSUME NEW i \in 1..Len(w), NEW j \in 1..Len(w), i < j PROVE w[i] < w[j]
  <2>1. At(i) < At(j)
    BY <1>1, <1>4, <1>6
  <2>2. /\ At(i) \in 1..Len(u) /\ w[i] = u[At(i)]
        /\ At(j) \in 1..Len(u) /\ w[j] = u[At(j)]
    BY <1>3, <1>4, <1>5
  <2>3. \A k, l \in 1..Len(u) : k < l => u[k] < u[l]
    BY DEF Rising
  <2>4. u[At(i)] < u[At(j)]
    <3> HIDE DEF u, w, At
    <3> QED BY <2>1, <2>2, <2>3
  <2> QED BY <2>2, <2>4
<1>7. ASSUME NEW i \in 1..Len(w) PROVE w[i] <= top
  <2>1. At(i) \in 1..Len(u) /\ w[i] = u[At(i)]
    BY <1>3, <1>4, <1>5
  <2>2. \A k \in 1..Len(u) : u[k] <= top
    BY DEF Rising
  <2> QED BY <2>1, <2>2
<1> QED BY <1>6, <1>7 DEF Rising

-----------------------------------------------------------------------------
(* Types.                                                                  *)

\* Every step keeps the types.
LEMMA NextType == TypeOK /\ [Next]_vars => TypeOK'
<1> SUFFICES ASSUME TypeOK, [Next]_vars PROVE TypeOK'
  OBVIOUS
<1> USE PipelineAssumption
    DEF TypeOK, Packets, Workers, Calls, processorVars, collectorVars, After
<1>1. CASE SniffBegins
  BY <1>1 DEF SniffBegins
<1>2. CASE SniffTimeout
  BY <1>2 DEF SniffTimeout
<1>3. CASE Capture
  <2>1. captured + 1 \in Packets
    BY <1>3 DEF Capture
  <2>2. Append(queue, captured + 1) \in Seq(Packets)
    BY <2>1
  <2>3. captured' \in 0..MaxPackets /\ late' \in 0..captured'
    BY <1>3 DEF Capture
  <2> QED BY <1>3, <2>2, <2>3 DEF Capture
<1>4. CASE ProcessorBegins
  BY <1>4 DEF ProcessorBegins
<1>5. CASE Drain
  <2>1. Head(queue) \in Packets /\ Tail(queue) \in Seq(Packets)
    BY <1>5, HeadTailProperties DEF Drain
  <2> QED BY <1>5, <2>1 DEF Drain
<1>6. CASE DrainEnd
  BY <1>6 DEF DrainEnd
<1>7. CASE Process
  <2>1. Head(batch) \in Packets /\ Tail(batch) \in Seq(Packets)
    BY <1>7, HeadTailProperties DEF Process
  <2> QED BY <1>7, <2>1 DEF Process
<1>8. CASE Raise
  <2>1. Head(batch) \in Packets
    BY <1>8, HeadTailProperties DEF Raise
  <2>2. heard' \in Seq(Packets) /\ raises' \in 0..MaxRaises /\ batch' = <<>>
    BY <1>8, <2>1 DEF Raise
  <2>3. batch' \in Seq(Packets)
    BY <2>2
  <2> QED BY <1>8, <2>2, <2>3 DEF Raise
<1>9. CASE BatchEnd
  <2>1. batch' = <<>> /\ processor' \in Calls
    BY <1>9 DEF BatchEnd
  <2>2. batch' \in Seq(Packets)
    BY <2>1
  <2> QED BY <1>9, <2>1, <2>2 DEF BatchEnd
<1>10. CASE LowerRunning
  BY <1>10 DEF LowerRunning
<1>11. CASE SetStop
  BY <1>11 DEF SetStop
<1>12. CASE UNCHANGED vars
  BY <1>12 DEF vars
<1>13. CASE SniffFails
  BY <1>13 DEF SniffFails
<1> QED BY <1>1, <1>2, <1>3, <1>4, <1>5, <1>6, <1>7, <1>8, <1>9, <1>10, <1>11, <1>12,
           <1>13
        DEF Next, CollectorStep, ProcessorStep

\* The variables keep their types, and a list is held only while it is processed.
THEOREM PipelineTypeCorrect == Spec => []TypeOK
<1>1. Init => TypeOK
  <2> SUFFICES ASSUME Init PROVE TypeOK
    OBVIOUS
  <2>1. <<>> \in Seq(Packets)
    OBVIOUS
  <2>2. queue \in Seq(Packets) /\ batch \in Seq(Packets) /\ heard \in Seq(Packets)
    BY <2>1 DEF Init
  <2>3. captured \in 0..MaxPackets /\ raises \in 0..MaxRaises /\ late \in 0..captured
    BY PipelineAssumption DEF Init
  <2>4. /\ running \in BOOLEAN /\ busy \in BOOLEAN /\ stopped \subseteq Workers
        /\ collector \in Calls /\ processor \in Calls
        /\ batch = <<>> /\ ~busy /\ stopped = {}
    BY DEF Init, Workers, Calls
  <2> QED BY <2>2, <2>3, <2>4 DEF TypeOK
<1> QED BY <1>1, NextType, PTL DEF Spec

-----------------------------------------------------------------------------
(* The collector after its stop.                                           *)

\* How many packets the iteration in course can still capture once told to stop.
Budget(call) == CASE call = "first" -> 2 [] call = "second" -> 1 [] OTHER -> 0

LateInv ==
  IF "collector" \in stopped THEN late + Budget(collector) <= 2 ELSE late = 0

\* Once told to stop, every packet captured costs one of the two calls left.
LEMMA NextLate == TypeOK /\ LateInv /\ [Next]_vars => LateInv'
<1> SUFFICES ASSUME TypeOK, LateInv, [Next]_vars PROVE LateInv'
  OBVIOUS
<1>0. /\ late \in Nat /\ collector \in Calls
      /\ "collector" \in stopped => ~running
  BY PipelineAssumption DEF TypeOK
<1> USE DEF LateInv, Budget, Calls, collectorVars, After
<1>1. CASE SniffBegins
  BY <1>0, <1>1 DEF SniffBegins
<1>2. CASE SniffTimeout \/ SniffFails
  BY <1>0, <1>2 DEF SniffTimeout, SniffFails
<1>3. CASE Capture
  BY <1>0, <1>3 DEF Capture
<1>4. CASE ProcessorStep
  BY <1>0, <1>4 DEF ProcessorStep, ProcessorBegins, Drain, DrainEnd, Process, Raise, BatchEnd
<1>5. CASE LowerRunning
  BY <1>0, <1>5 DEF LowerRunning
<1>6. CASE SetStop
  BY <1>0, <1>6 DEF SetStop
<1>7. CASE UNCHANGED vars
  BY <1>0, <1>7 DEF vars
<1> QED BY <1>1, <1>2, <1>3, <1>4, <1>5, <1>6, <1>7 DEF Next, CollectorStep

\* The collector captures at most two packets after it was told to stop.
THEOREM NeverMoreThanTwoLate == Spec => []AtMostTwoLate
<1>1. Init => LateInv
  BY DEF Init, LateInv
<1>2. TypeOK /\ LateInv => AtMostTwoLate
  <2> SUFFICES ASSUME TypeOK, LateInv PROVE late <= 2
    BY DEF AtMostTwoLate
  <2>1. late \in Nat /\ collector \in Calls
    BY PipelineAssumption DEF TypeOK
  <2>2. Budget(collector) \in Nat
    BY <2>1 DEF Budget, Calls
  <2> QED BY <2>1, <2>2 DEF LateInv
<1> QED BY <1>1, <1>2, PipelineTypeCorrect, NextLate, PTL DEF Spec

-----------------------------------------------------------------------------
(* What a step does to the packets not yet handled.                        *)

\* The packets are numbers.
LEMMA PacketsAreNumbers ==
  ASSUME TypeOK
  PROVE  /\ heard \in Seq(Nat) /\ batch \in Seq(Nat) /\ queue \in Seq(Nat)
         /\ captured \in Nat
<1>1. Packets \subseteq Nat
  BY PipelineAssumption DEF Packets
<1>2. Seq(Packets) \subseteq Seq(Nat)
  BY <1>1, SeqMonotonic
<1> QED BY <1>2, PipelineAssumption DEF TypeOK

\* A captured packet is the last of those waiting.
LEMMA CapturePending ==
  ASSUME TypeOK, Capture
  PROVE  captured + 1 \in Packets /\ Pending' = Append(Pending, captured + 1)
<1>1. captured + 1 \in Packets
  BY PipelineAssumption DEF TypeOK, Capture, Packets
<1>2. batch' = batch /\ queue' = Append(queue, captured + 1)
  BY DEF Capture, processorVars
<1> QED BY <1>1, <1>2, AppendToSecond DEF TypeOK, Pending

\* Draining the queue does not change what waits.
LEMMA DrainPending == ASSUME TypeOK, Drain PROVE Pending' = Pending
<1>1. /\ queue # <<>>
      /\ batch' = Append(batch, Head(queue)) /\ queue' = Tail(queue)
  BY DEF Drain
<1>2. batch \in Seq(Packets) /\ queue \in Seq(Packets)
  BY DEF TypeOK
<1> QED BY <1>1, <1>2, MoveHead DEF Pending

\* Handling a packet takes the first of those waiting.
LEMMA ProcessPending ==
  ASSUME TypeOK, Process
  PROVE  /\ Pending # <<>>
         /\ heard' = Append(heard, Head(Pending))
         /\ Pending' = SubSeq(Pending, 2, Len(Pending))
<1>1. /\ batch # <<>>
      /\ heard' = Append(heard, Head(batch))
      /\ batch' = Tail(batch) /\ queue' = queue
  BY DEF Process
<1>2. batch \in Seq(Packets) /\ queue \in Seq(Packets)
  BY DEF TypeOK
<1> QED BY <1>1, <1>2, DropHead DEF Pending

\* When the list is lost or abandoned, what waits is the queue, which is what is
\* left when the list is dropped from the front.
LEMMA LostPending ==
  ASSUME TypeOK, batch' = <<>>, queue' = queue
  PROVE  /\ Pending' = queue
         /\ Pending' = SubSeq(Pending, Len(batch) + 1, Len(Pending))
         /\ Len(batch) \in 0..Len(Pending)
<1>1. batch \in Seq(Packets) /\ queue \in Seq(Packets)
  BY DEF TypeOK
<1>2. <<>> \o queue = queue
  BY <1>1, ConcatEmptySeq
<1>3. Len(batch) \in Nat /\ Len(queue) \in Nat /\ Len(Pending) = Len(batch) + Len(queue)
  BY <1>1, LenProperties, ConcatProperties DEF Pending
<1>4. Pending' = queue
  BY <1>2 DEF Pending
<1> QED BY <1>1, <1>3, <1>4, DropFirst DEF Pending

-----------------------------------------------------------------------------
(* The order of the packets.                                               *)

RisingInv == Rising(heard \o Pending, captured)

\* Every step keeps the packets, handled and waiting, in the order of capture.
LEMMA NextRising == TypeOK /\ RisingInv /\ [Next]_vars => RisingInv'
<1> SUFFICES ASSUME TypeOK, RisingInv, [Next]_vars PROVE RisingInv'
  OBVIOUS
<1>1. /\ heard \in Seq(Nat) /\ batch \in Seq(Nat) /\ queue \in Seq(Nat)
      /\ captured \in Nat /\ Pending \in Seq(Nat)
  BY PacketsAreNumbers, ConcatProperties DEF Pending
<1>2. ASSUME UNCHANGED <<heard, batch, queue, captured>> PROVE RisingInv'
  BY <1>2 DEF RisingInv, Pending
<1>3. CASE Capture
  <2>1. Pending' = Append(Pending, captured + 1)
    BY <1>3, CapturePending
  <2>2. heard' = heard /\ captured' = captured + 1
    BY <1>3 DEF Capture, processorVars
  <2>3. heard' \o Pending' = Append(heard \o Pending, captured + 1)
    BY <1>1, <2>1, <2>2, AppendToSecond
  <2>4. heard \o Pending \in Seq(Nat)
    BY <1>1, ConcatProperties
  <2>5. Rising(Append(heard \o Pending, captured + 1), captured + 1)
    BY <1>1, <2>4, RisingAppend DEF RisingInv
  <2> QED BY <2>2, <2>3, <2>5 DEF RisingInv
<1>4. CASE Drain
  <2>1. Pending' = Pending /\ heard' = heard /\ captured' = captured
    BY <1>4, DrainPending DEF Drain, collectorVars
  <2> QED BY <2>1 DEF RisingInv
<1>5. CASE Process
  <2>1. /\ batch # <<>> /\ batch' = Tail(batch) /\ queue' = queue
        /\ heard' = Append(heard, Head(batch)) /\ captured' = captured
    BY <1>5 DEF Process, collectorVars
  <2>2. /\ Pending # <<>> /\ heard' = Append(heard, Head(Pending))
        /\ Pending' = Tail(Pending)
    BY <1>1, <1>5, ProcessPending, TailIsSubSeq
  <2>3. heard' \o Pending' = heard \o Pending
    BY <1>1, <2>2, MoveHead
  <2> QED BY <2>1, <2>3 DEF RisingInv
<1>6. CASE Raise
  <2>1. /\ batch # <<>> /\ batch' = <<>> /\ queue' = queue
        /\ heard' = Append(heard, Head(batch)) /\ captured' = captured
    BY <1>6 DEF Raise, collectorVars
  <2>2. /\ Head(batch) \in Nat /\ Tail(batch) \in Seq(Nat)
        /\ heard' \in Seq(Nat)
    BY <1>1, <2>1, HeadTailProperties, AppendProperties
  <2>3. Pending # <<>> /\ Head(Pending) = Head(batch) /\ Tail(Pending) = Tail(batch) \o queue
    BY <1>1, <2>1, DropHead, TailIsSubSeq DEF Pending
  <2>4. heard' \o (Tail(batch) \o queue) = heard \o Pending
    BY <1>1, <2>1, <2>3, MoveHead
  <2>5. Rising(heard' \o queue, captured)
    BY <1>1, <2>2, <2>4, RisingDrop DEF RisingInv
  <2>6. Pending' = queue
    BY <2>1, LostPending
  <2> QED BY <2>1, <2>5, <2>6 DEF RisingInv
<1>7. CASE BatchEnd
  <2>1. batch' = <<>> /\ queue' = queue /\ heard' = heard /\ captured' = captured
    BY <1>7 DEF BatchEnd, collectorVars
  <2>2. Rising(heard \o queue, captured)
    BY <1>1, RisingDrop DEF RisingInv, Pending
  <2>3. Pending' = queue
    BY <2>1, LostPending
  <2> QED BY <2>1, <2>2, <2>3 DEF RisingInv
<1>8. CASE SniffBegins \/ SniffTimeout \/ SniffFails \/ ProcessorBegins \/ DrainEnd
           \/ LowerRunning \/ SetStop \/ UNCHANGED vars
  BY <1>2, <1>8 DEF SniffBegins, SniffTimeout, SniffFails, ProcessorBegins, DrainEnd,
                    LowerRunning, SetStop, vars, processorVars, collectorVars
<1> QED BY <1>3, <1>4, <1>5, <1>6, <1>7, <1>8 DEF Next, CollectorStep, ProcessorStep

\* Packets are handled in the order of capture and none twice, whatever is lost.
THEOREM OrderKept == Spec => []InOrderOnce
<1>1. Init => RisingInv
  <2> SUFFICES ASSUME Init PROVE RisingInv
    OBVIOUS
  <2>1. heard \o Pending = <<>>
    BY EmptySeq, ConcatEmptySeq DEF Init, Pending
  <2>2. Len(heard \o Pending) = 0
    BY <2>1
  <2> QED BY <2>2 DEF RisingInv, Rising
<1>2. TypeOK /\ RisingInv => InOrderOnce
  <2> SUFFICES ASSUME TypeOK, RisingInv PROVE InOrderOnce
    OBVIOUS
  <2>1. heard \in Seq(Packets) /\ batch \in Seq(Packets) /\ queue \in Seq(Packets)
    BY DEF TypeOK
  <2>2. (heard \o batch) \o queue = heard \o (batch \o queue)
    BY <2>1, ConcatAssociative
  <2> QED BY <2>2 DEF RisingInv, Rising, InOrderOnce, Pending
<1> QED BY <1>1, <1>2, PipelineTypeCorrect, NextRising, PTL DEF Spec

-----------------------------------------------------------------------------
(* Nothing is lost without a reason.                                       *)

\* The packets 1 to top, in this order and without a gap.
Complete(s, top) == Len(s) = top /\ \A i \in 1..top : s[i] = i

\* As long as no handling raised and the processor was not told to stop, every
\* packet captured was handled or waits, the queue and the list being drained and
\* abandoned as they may: a packet is lost for no other reason.
LossesExplained ==
  raises = 0 /\ "processor" \notin stopped => Complete(heard \o Pending, captured)

\* A packet captured continues a sequence without a gap.
LEMMA CompleteAppend ==
  ASSUME NEW s \in Seq(Nat), NEW top \in Nat, Complete(s, top)
  PROVE  Complete(Append(s, top + 1), top + 1)
<1>1. /\ Len(Append(s, top + 1)) = Len(s) + 1
      /\ \A i \in 1..Len(s) : Append(s, top + 1)[i] = s[i]
      /\ Append(s, top + 1)[Len(s) + 1] = top + 1
  BY AppendProperties
<1> QED BY <1>1 DEF Complete

\* A step that loses packets counts an exception or needs the stop; every other one
\* leaves the packets, handled and waiting, the sequence they were.
LEMMA NextLosses == TypeOK /\ LossesExplained /\ [Next]_vars => LossesExplained'
<1> SUFFICES ASSUME TypeOK, LossesExplained, [Next]_vars,
                    raises' = 0, "processor" \notin stopped'
             PROVE  Complete(heard \o Pending, captured)'
  BY DEF LossesExplained
<1>1. /\ heard \in Seq(Nat) /\ batch \in Seq(Nat) /\ queue \in Seq(Nat)
      /\ captured \in Nat /\ raises \in Nat /\ Pending \in Seq(Nat)
      /\ heard \o Pending \in Seq(Nat)
  BY PacketsAreNumbers, PipelineAssumption, ConcatProperties DEF Pending, TypeOK
<1>2. ASSUME UNCHANGED <<heard, batch, queue, captured, raises>>,
             stopped \subseteq stopped'
      PROVE  Complete(heard \o Pending, captured)'
  BY <1>2 DEF LossesExplained, Pending
<1>3. CASE Capture
  <2>1. Pending' = Append(Pending, captured + 1)
    BY <1>3, CapturePending
  <2>2. UNCHANGED <<heard, raises, stopped>> /\ captured' = captured + 1
    BY <1>3 DEF Capture, processorVars
  <2>3. heard' \o Pending' = Append(heard \o Pending, captured + 1)
    BY <1>1, <2>1, <2>2, AppendToSecond
  <2>4. Complete(heard \o Pending, captured)
    BY <2>2 DEF LossesExplained
  <2>5. Complete(Append(heard \o Pending, captured + 1), captured + 1)
    BY <1>1, <2>4, CompleteAppend
  <2> QED BY <2>2, <2>3, <2>5
<1>4. CASE Drain
  <2>1. Pending' = Pending /\ UNCHANGED <<heard, raises, stopped, captured>>
    BY <1>4, DrainPending DEF Drain, collectorVars
  <2> QED BY <2>1 DEF LossesExplained
<1>5. CASE Process
  <2>1. UNCHANGED <<raises, stopped, captured>>
    BY <1>5 DEF Process, collectorVars
  <2>2. /\ Pending # <<>> /\ heard' = Append(heard, Head(Pending))
        /\ Pending' = Tail(Pending)
    BY <1>1, <1>5, ProcessPending, TailIsSubSeq
  <2>3. heard' \o Pending' = heard \o Pending
    BY <1>1, <2>2, MoveHead
  <2> QED BY <2>1, <2>3 DEF LossesExplained
<1>6. CASE Raise
  <2>1. raises' = raises + 1
    BY <1>6 DEF Raise
  <2> QED BY <1>1, <2>1
<1>7. CASE BatchEnd
  <2>1. UNCHANGED <<heard, queue, raises, stopped, captured>> /\ batch' = <<>>
    BY <1>7 DEF BatchEnd, collectorVars
  <2>2. batch = <<>>
    BY <1>7, <2>1 DEF BatchEnd, MustBreak
  <2> QED BY <1>2, <2>1, <2>2
<1>8. CASE SniffBegins \/ SniffTimeout \/ SniffFails \/ ProcessorBegins \/ DrainEnd
           \/ LowerRunning \/ SetStop \/ UNCHANGED vars
  BY <1>2, <1>8 DEF SniffBegins, SniffTimeout, SniffFails, ProcessorBegins, DrainEnd,
                    LowerRunning, SetStop, vars, processorVars, collectorVars
<1> QED BY <1>3, <1>4, <1>5, <1>6, <1>7, <1>8 DEF Next, CollectorStep, ProcessorStep

\* No packet is lost before an exception or the stop: the safety part of
\* EverythingHandled up to the first exception.
THEOREM NothingLostSilently == Spec => []LossesExplained
<1>1. Init => LossesExplained
  <2> SUFFICES ASSUME Init PROVE Complete(heard \o Pending, captured)
    BY DEF LossesExplained
  <2>1. heard \o Pending = <<>>
    BY EmptySeq, ConcatEmptySeq DEF Init, Pending
  <2>2. Len(heard \o Pending) = 0 /\ captured = 0
    BY <2>1 DEF Init
  <2> QED BY <2>2 DEF Complete
<1> QED BY <1>1, PipelineTypeCorrect, NextLosses, PTL DEF Spec

-----------------------------------------------------------------------------
(* The pipeline implements the channel.                                    *)

\* Every step of the pipeline is one of the channel or leaves the channel alone.
LEMMA NextImplements == TypeOK /\ [Next]_vars => [Channel!Next]_(Channel!channel)
<1> SUFFICES ASSUME TypeOK, [Next]_vars
             PROVE  Channel!Next \/ UNCHANGED Channel!channel
  OBVIOUS
<1>1. ASSUME UNCHANGED <<heard, raises, stopped>>, Pending' = Pending
      PROVE  UNCHANGED Channel!channel
  BY <1>1 DEF Channel!channel, Pending
<1>2. ASSUME UNCHANGED <<heard, raises, stopped, batch, queue>>
      PROVE  UNCHANGED Channel!channel
  BY <1>2 DEF Channel!channel
<1>3. CASE Capture
  <2>1. captured + 1 \in Packets /\ Pending' = Append(Pending, captured + 1)
    BY <1>3, CapturePending
  <2>2. UNCHANGED <<heard, raises, stopped>>
    BY <1>3 DEF Capture, processorVars
  <2> QED BY <2>1, <2>2 DEF Channel!Next, Channel!Put, Pending
<1>4. CASE Drain
  BY <1>1, <1>4, DrainPending DEF Drain
<1>5. CASE Process
  <2>1. UNCHANGED <<raises, stopped>>
    BY <1>5 DEF Process
  <2>2. /\ Pending # <<>> /\ heard' = Append(heard, Head(Pending))
        /\ Pending' = SubSeq(Pending, 2, Len(Pending))
    BY <1>5, ProcessPending
  <2> QED BY <2>1, <2>2 DEF Channel!Next, Channel!HandOn, Channel!Drop, Pending
<1>6. CASE Raise
  <2>1. /\ batch # <<>> /\ batch' = <<>> /\ queue' = queue
        /\ heard' = Append(heard, Head(batch))
        /\ raises' = raises + 1 /\ stopped' = stopped
    BY <1>6 DEF Raise
  <2>2. batch \in Seq(Packets) /\ queue \in Seq(Packets)
    BY DEF TypeOK
  <2>3. Pending # <<>> /\ Head(Pending) = Head(batch)
    BY <2>1, <2>2, DropHead DEF Pending
  <2>4. /\ Pending' = SubSeq(Pending, Len(batch) + 1, Len(Pending))
        /\ Len(batch) \in 1..Len(Pending)
    BY <2>1, <2>2, LostPending, EmptySeq
  <2> QED BY <2>1, <2>3, <2>4
          DEF Channel!Next, Channel!HandOnAndRaise, Channel!Drop, Pending
<1>7. CASE BatchEnd
  <2>1. batch' = <<>> /\ queue' = queue /\ UNCHANGED <<heard, raises, stopped>>
    BY <1>7 DEF BatchEnd
  <2>2. CASE batch = <<>>
    BY <1>2, <2>1, <2>2
  <2>3. CASE batch # <<>>
    <3>1. "processor" \in stopped
      BY <1>7, <2>3 DEF BatchEnd, MustBreak
    <3>2. batch \in Seq(Packets)
      BY DEF TypeOK
    <3>3. /\ Pending' = SubSeq(Pending, Len(batch) + 1, Len(Pending))
          /\ Len(batch) \in 1..Len(Pending)
      BY <2>1, <2>3, <3>2, LostPending, EmptySeq
    <3> QED BY <2>1, <3>1, <3>3
            DEF Channel!Next, Channel!DropStopped, Channel!Drop, Pending
  <2> QED BY <2>2, <2>3
<1>8. CASE SetStop
  <2>1. UNCHANGED <<heard, raises, batch, queue>>
    BY <1>8 DEF SetStop, processorVars
  <2>2. PICK t \in Workers \ stopped : stopped' = stopped \union {t}
    BY <1>8 DEF SetStop
  <2>3. CASE t = "processor"
    BY <2>1, <2>2, <2>3 DEF Channel!Next, Channel!Stop
  <2>4. CASE t # "processor"
    BY <2>1, <2>2, <2>4 DEF Channel!channel
  <2> QED BY <2>3, <2>4
<1>9. CASE SniffBegins \/ SniffTimeout \/ SniffFails \/ ProcessorBegins \/ DrainEnd
           \/ LowerRunning \/ UNCHANGED vars
  BY <1>2, <1>9 DEF SniffBegins, SniffTimeout, SniffFails, ProcessorBegins, DrainEnd,
                    LowerRunning, vars, processorVars, collectorVars
<1> QED BY <1>3, <1>4, <1>5, <1>6, <1>7, <1>8, <1>9
        DEF Next, CollectorStep, ProcessorStep

\* Threads, queue and list together are an ordered channel that duplicates nothing
\* and loses packets only to an exception or to the stop.
THEOREM PipelineIsChannel == Spec => ImplementsChannel
<1>1. Init => Channel!Init
  <2> SUFFICES ASSUME Init PROVE Channel!Init
    OBVIOUS
  <2>1. batch \o queue = <<>>
    BY ConcatEmptySeq, EmptySeq DEF Init
  <2> QED BY <2>1 DEF Init, Channel!Init
<1> QED BY <1>1, PipelineTypeCorrect, NextImplements, PTL
        DEF Spec, ImplementsChannel, Channel!Spec
-----------------------------------------------------------------------------
(* The calls are those SafeLoopThread makes.                               *)

Calling == INSTANCE Iterations WITH
  Threads <- Workers,
  call <- [t \in Workers |->
             LET call == IF t = "collector" THEN collector ELSE processor
             IN  IF call = "off" THEN "out" ELSE call],
  told <- stopped

\* The start functions begin, follow each other and end only as the iterations of a
\* SafeLoopThread allow: SafeLoop implements Iterations, and what is assumed here of
\* the thread is no less than that.
CalledInIterations == Calling!Spec

CallOf(call) == IF call = "off" THEN "out" ELSE call

\* The calls, as Iterations sees them.
Table(c, p) == [t \in Workers |-> CallOf(IF t = "collector" THEN c ELSE p)]

\* A call changes the entry of its thread and no other.
LEMMA TableChange ==
  ASSUME NEW c, NEW p, NEW d
  PROVE  /\ Table(d, p) = [Table(c, p) EXCEPT !["collector"] = CallOf(d)]
         /\ Table(c, d) = [Table(c, p) EXCEPT !["processor"] = CallOf(d)]
         /\ Table(c, p)["collector"] = CallOf(c)
         /\ Table(c, p)["processor"] = CallOf(p)
BY DEF Table, Workers

\* What one thread does to its call is what an iteration allows.
Iterates(old, new, told) ==
  \/ old = "off" /\ new = "first" /\ ~told
  \/ old = "first" /\ new \in {"second", "off"}
  \/ old = "second" /\ new = "off"

\* The step of a worker whose call iterates is a step of Iterations.
LEMMA WorkerIterates ==
  ASSUME stopped' = stopped,
         \/ /\ Iterates(collector, collector', "collector" \in stopped)
            /\ processor' = processor
         \/ /\ Iterates(processor, processor', "processor" \in stopped)
            /\ collector' = collector
  PROVE  Calling!Next
<1> DEFINE old == Table(collector, processor)
<1>1. /\ Calling!Next <=> \E t \in Workers :
            \/ old[t] = "out" /\ t \notin stopped
               /\ (\/ Table(collector', processor') = [old EXCEPT ![t] = "first"]
                   \/ Table(collector', processor') = [old EXCEPT ![t] = "second"])
               /\ stopped' = stopped
            \/ old[t] = "first" /\ stopped' = stopped
               /\ Table(collector', processor') = [old EXCEPT ![t] = "second"]
            \/ old[t] \in {"first", "second"} /\ stopped' = stopped
               /\ Table(collector', processor') = [old EXCEPT ![t] = "out"]
            \/ old[t] = "out" /\ t \in stopped /\ stopped' = stopped
               /\ Table(collector', processor') = [old EXCEPT ![t] = "ended"]
            \/ stopped' = stopped \cup {t} /\ Table(collector', processor') = old
  BY DEF Calling!Next, Calling!Begin, Calling!Again, Calling!Finish, Calling!Exit,
         Calling!Tell, Calling!Become, Table, CallOf
<1>2. "collector" \in Workers /\ "processor" \in Workers
  BY DEF Workers
<1>3. CASE /\ Iterates(collector, collector', "collector" \in stopped)
           /\ processor' = processor
  <2>1. /\ Table(collector', processor') = [old EXCEPT !["collector"] = CallOf(collector')]
        /\ old["collector"] = CallOf(collector)
    BY <1>3, TableChange
  <2> HIDE DEF old
  <2> QED BY <1>1, <1>2, <1>3, <2>1 DEF Iterates, CallOf
<1>4. CASE /\ Iterates(processor, processor', "processor" \in stopped)
           /\ collector' = collector
  <2>1. /\ Table(collector', processor') = [old EXCEPT !["processor"] = CallOf(processor')]
        /\ old["processor"] = CallOf(processor)
    BY <1>4, TableChange
  <2> HIDE DEF old
  <2> QED BY <1>1, <1>2, <1>4, <2>1 DEF Iterates, CallOf
<1> QED BY <1>3, <1>4

\* Every step of the pipeline leaves the calls alone, iterates one of them, or tells
\* a worker to stop.
LEMMA NextIterates ==
  TypeOK /\ [Next]_vars => [Calling!Next]_(Calling!iterations)
<1> SUFFICES ASSUME TypeOK, [Next]_vars
             PROVE  Calling!Next \/ UNCHANGED Calling!iterations
  OBVIOUS
<1>1. collector \in Calls /\ processor \in Calls
  BY DEF TypeOK
<1>2. ASSUME UNCHANGED <<collector, processor, stopped>>
      PROVE  UNCHANGED Calling!iterations
  BY <1>2 DEF Calling!iterations
<1> USE DEF Iterates, Calls, After, processorVars, collectorVars
<1>3. CASE SniffBegins \/ SniffTimeout \/ SniffFails
  BY <1>1, <1>3, WorkerIterates DEF SniffBegins, SniffTimeout, SniffFails
<1>4. CASE Capture
  BY <1>1, <1>2, <1>4, WorkerIterates DEF Capture
<1>5. CASE ProcessorBegins \/ Raise \/ BatchEnd
  <2>1. CASE ProcessorBegins
    BY <1>1, <2>1, WorkerIterates DEF ProcessorBegins
  <2>2. CASE Raise \/ BatchEnd
    <3>1. processor # "off"
      BY <2>2 DEF Raise, BatchEnd, TypeOK
    <3> QED BY <1>1, <2>2, <3>1, WorkerIterates DEF Raise, BatchEnd
  <2> QED BY <1>5, <2>1, <2>2
<1>6. CASE DrainEnd
  BY <1>1, <1>2, <1>6, WorkerIterates DEF DrainEnd
<1>7. CASE SetStop
  <2>1. PICK t \in Workers : stopped' = stopped \union {t}
    BY <1>7 DEF SetStop
  <2>2. Calling!Tell(t)
    BY <1>7, <2>1 DEF SetStop, Calling!Tell
  <2> QED BY <2>1, <2>2 DEF Calling!Next
<1>8. CASE Drain \/ Process \/ LowerRunning \/ UNCHANGED vars
  BY <1>2, <1>8 DEF Drain, Process, LowerRunning, vars
<1> QED BY <1>3, <1>4, <1>5, <1>6, <1>7, <1>8 DEF Next, CollectorStep, ProcessorStep

\* The collector and the processor run in iterations of a SafeLoopThread and in no
\* other way.
THEOREM PipelineIterates == Spec => CalledInIterations
<1>1. Init => Calling!Init
  BY DEF Init, Calling!Init, Workers
<1> QED BY <1>1, PipelineTypeCorrect, NextIterates, PTL
        DEF Spec, CalledInIterations, Calling!Spec
=============================================================================
