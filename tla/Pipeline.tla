------------------------------- MODULE Pipeline -------------------------------
(***************************************************************************)
(* The way of a packet from the wire to process_packet_helper:             *)
(* packet_collector.start sniffs in sessions and puts every packet into    *)
(* global_state.packet_queue, packet_processor.start moves all the queue   *)
(* holds into a list of its own and processes the list.  Both are          *)
(* functions of a SafeLoopThread, which executes them twice per iteration; *)
(* only the second execution is given stop_event.                          *)
(***************************************************************************)
EXTENDS Naturals, Sequences

CONSTANTS
  MaxPackets,  \* bound: how many packets are captured
  MaxRaises    \* bound: how often handling a packet raises

ASSUME PipelineAssumption == MaxPackets \in Nat /\ MaxRaises \in Nat

VARIABLES
  running,     \* global_state.is_running
  stopped,     \* the threads whose stop_event clean_up has set
  collector,   \* "off", or which call of packet_collector.start is sniffing
  processor,   \* "off", or which call of packet_processor.start is executing
  busy,        \* whether that call has begun to process its list
  queue,       \* global_state.packet_queue
  batch,       \* packets_to_process, from the packet that comes next
  captured,    \* history: the number of packets captured, which name them
  heard,       \* history: what process_packet_helper was called for, in order
  raises,      \* history: how often it raised
  late         \* history: how many packets were captured after the collector was
               \* told to stop

vars == <<running, stopped, collector, processor, busy, queue, batch, captured,
          heard, raises, late>>
processorVars == <<processor, busy, batch, heard, raises>>
collectorVars == <<collector, captured, late>>

Packets == 1..MaxPackets
Workers == {"collector", "processor"}
Calls == {"off", "first", "second"}

\* The call that follows in the loop of SafeLoopThread: the first call is followed
\* by the second, the second by the test of stop_event.
After(call) == IF call = "first" THEN "second" ELSE "off"

\* The types, and that a list of packets is held only while it is processed.
TypeOK ==
  /\ running \in BOOLEAN
  /\ stopped \subseteq Workers
  /\ collector \in Calls
  /\ processor \in Calls
  /\ busy \in BOOLEAN
  /\ queue \in Seq(Packets)
  /\ batch \in Seq(Packets)
  /\ captured \in 0..MaxPackets
  /\ heard \in Seq(Packets)
  /\ raises \in 0..MaxRaises
  /\ late \in 0..captured
  /\ processor = "off" => batch = <<>> /\ ~busy
  /\ running => stopped = {}

Init ==
  /\ running = TRUE
  /\ stopped = {}
  /\ collector = "off"
  /\ processor = "off"
  /\ busy = FALSE
  /\ queue = <<>>
  /\ batch = <<>>
  /\ captured = 0
  /\ heard = <<>>
  /\ raises = 0
  /\ late = 0

-----------------------------------------------------------------------------
(* packet_collector.start.                                                 *)

SniffBegins ==
  /\ collector = "off"
  /\ "collector" \notin stopped
  /\ collector' = "first"
  /\ UNCHANGED <<running, stopped, processorVars, queue, captured, late>>

\* Mutation: the packet of the stop filter does not end the session.
Capture_NoStopFilter ==
  /\ collector # "off"
  /\ captured < MaxPackets
  /\ captured' = captured + 1
  /\ queue' = Append(queue, captured + 1)
  /\ late' = IF "collector" \in stopped THEN late + 1 ELSE late
  /\ UNCHANGED <<running, stopped, processorVars, collector>>

\* Mutation: the newest packet is put before the others.
Capture_Lifo ==
  /\ collector # "off"
  /\ captured < MaxPackets
  /\ captured' = captured + 1
  /\ queue' = <<captured + 1>> \o queue
  /\ late' = IF "collector" \in stopped THEN late + 1 ELSE late
  /\ collector' = IF running THEN collector ELSE After(collector)
  /\ UNCHANGED <<running, stopped, processorVars>>

\* A packet arrives during a session: it is put into the queue, which is
\* unbounded, and then is_running is tested by the stop filter.
Capture ==
  /\ collector # "off"
  /\ captured < MaxPackets
  /\ captured' = captured + 1
  /\ queue' = Append(queue, captured + 1)
  /\ late' = IF "collector" \in stopped THEN late + 1 ELSE late
  /\ collector' = IF running THEN collector ELSE After(collector)
  /\ UNCHANGED <<running, stopped, processorVars>>

\* The thirty seconds of a session are over.
SniffTimeout ==
  /\ collector # "off"
  /\ collector' = After(collector)
  /\ UNCHANGED <<running, stopped, processorVars, queue, captured, late>>

\* "As sniff might crash": the exception ends the iteration of SafeLoopThread, a
\* second call included.
SniffFails ==
  /\ collector # "off"
  /\ collector' = "off"
  /\ UNCHANGED <<running, stopped, processorVars, queue, captured, late>>

-----------------------------------------------------------------------------
(* packet_processor.start.                                                 *)

\* Mutation: the thread does not survive an exception.
ProcessorBegins_NeverRaised ==
  /\ processor = "off"
  /\ "processor" \notin stopped
  /\ raises = 0
  /\ processor' = "first"
  /\ UNCHANGED <<running, stopped, collectorVars, queue, busy, batch, heard, raises>>

ProcessorBegins ==
  /\ processor = "off"
  /\ "processor" \notin stopped
  /\ processor' = "first"
  /\ UNCHANGED <<running, stopped, collectorVars, queue, busy, batch, heard, raises>>

Drain ==
  /\ processor # "off" /\ ~busy
  /\ queue # <<>>
  /\ batch' = Append(batch, Head(queue))
  /\ queue' = Tail(queue)
  /\ UNCHANGED <<running, stopped, collectorVars, processor, busy, heard, raises>>

\* Mutation: the list is not processed.
DrainEnd_Forgets ==
  /\ processor # "off" /\ ~busy
  /\ queue = <<>>
  /\ batch' = <<>>
  /\ processor' = After(processor)
  /\ UNCHANGED <<running, stopped, collectorVars, queue, busy, heard, raises>>

\* The queue was found empty: process what was taken, or return after a moment.
DrainEnd ==
  /\ processor # "off" /\ ~busy
  /\ queue = <<>>
  /\ IF batch = <<>>
     THEN processor' = After(processor) /\ UNCHANGED busy
     ELSE busy' = TRUE /\ UNCHANGED processor
  /\ UNCHANGED <<running, stopped, collectorVars, queue, batch, heard, raises>>

\* The first call was given no stop_event.
MustBreak == processor = "second" /\ "processor" \in stopped

\* The packet leaves the list for process_packet_helper, which returns.  What the
\* custom callback raises is caught there.
Process ==
  /\ busy /\ batch # <<>> /\ ~MustBreak
  /\ heard' = Append(heard, Head(batch))
  /\ batch' = Tail(batch)
  /\ UNCHANGED <<running, stopped, collectorVars, queue, processor, busy, raises>>

\* Mutation: the list survives the exception.
Raise_KeepsBatch ==
  /\ busy /\ batch # <<>> /\ ~MustBreak
  /\ raises < MaxRaises
  /\ raises' = raises + 1
  /\ heard' = Append(heard, Head(batch))
  /\ processor' = "off"
  /\ busy' = FALSE
  /\ UNCHANGED <<running, stopped, collectorVars, queue, batch>>

\* It raises: the call ends, SafeLoopThread waits and begins the next iteration;
\* the list is gone.
Raise ==
  /\ busy /\ batch # <<>> /\ ~MustBreak
  /\ raises < MaxRaises
  /\ raises' = raises + 1
  /\ heard' = Append(heard, Head(batch))
  /\ batch' = <<>>
  /\ processor' = "off"
  /\ busy' = FALSE
  /\ UNCHANGED <<running, stopped, collectorVars, queue>>

\* The list is exhausted or abandoned.
BatchEnd ==
  /\ busy /\ (batch = <<>> \/ MustBreak)
  /\ batch' = <<>>
  /\ processor' = After(processor)
  /\ busy' = FALSE
  /\ UNCHANGED <<running, stopped, collectorVars, queue, heard, raises>>

-----------------------------------------------------------------------------
(* clean_up.                                                               *)

LowerRunning ==
  /\ running
  /\ running' = FALSE
  /\ UNCHANGED <<stopped, collectorVars, processorVars, queue>>

\* The threads are stopped in the order of active_threads.
SetStop ==
  /\ ~running
  /\ \E t \in Workers \ stopped :
       /\ t = "processor" => "collector" \in stopped
       /\ stopped' = stopped \union {t}
  /\ UNCHANGED <<running, collectorVars, processorVars, queue>>

-----------------------------------------------------------------------------

CollectorStep == SniffBegins \/ SniffTimeout \/ SniffFails
ProcessorStep ==
  ProcessorBegins \/ Drain \/ DrainEnd \/ Process \/ Raise \/ BatchEnd

Next == CollectorStep \/ Capture \/ ProcessorStep \/ LowerRunning \/ SetStop

Spec == Init /\ [][Next]_vars

\* A session ends after its thirty seconds or raises, and a call goes on to its end; packets
\* need not arrive and nobody need stop the Inspector.
FairSpec == Spec /\ WF_vars(CollectorStep) /\ WF_vars(ProcessorStep)

-----------------------------------------------------------------------------
(* Properties.                                                             *)

\* The pipeline is a channel that keeps the order, duplicates nothing and loses
\* packets only when handling one of them raises or the processor is stopped.
Channel == INSTANCE PacketChannel WITH
  pending <- batch \o queue, stopped <- "processor" \in stopped, ends <- raises
ImplementsChannel == Channel!Spec

\* The packets handled are in the order of capture, none of them twice, and those
\* still waiting are newer, whatever was lost in between.
InOrderOnce ==
  LET all == heard \o batch \o queue IN
    \A i, j \in 1..Len(all) : i < j => all[i] < all[j]

\* Packet p is in the queue or in the list.
Waiting(p) == \E i \in 1..Len(batch \o queue) : (batch \o queue)[i] = p

\* Every packet that waits is handled, however many exceptions there have been,
\* unless the processor is stopped or the handling of another packet raises before.
EverythingHandled ==
  \A p \in Packets, r \in 0..MaxRaises :
    Waiting(p) /\ raises = r
      ~> "processor" \in stopped \/ raises > r \/ (\E i \in 1..Len(heard) : heard[i] = p)

\* Sniffing stops when the Inspector no longer runs: once its thread was told to
\* stop, the collector takes at most one more packet off the wire in each of the
\* two calls of the iteration in course.
AtMostTwoLate == late <= 2
=============================================================================
