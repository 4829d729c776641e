--------------------------- MODULE SafeLoop_proofs ---------------------------
(***************************************************************************)
(* Safety of the SafeLoopThread for any set of threads, any of them sleepy *)
(* or waiters, and pauses allowed after a stop or not.                     *)
(*                                                                         *)
(* PauseTakesEffect and StopTakesEffect are not inductive: whether one     *)
(* more execution may begin depends on where the thread is.  The inductive *)
(* invariant gives every place a budget, the executions that can still     *)
(* begin from there, and bounds what was begun plus the budget.            *)
(***************************************************************************)
EXTENDS SafeLoop, TLAPS

\* Executions that thread t can still begin while run_event stays clear.
PauseBudget(t) ==
  CASE t \in Waiters -> (IF pc[t] \in {"recheck", "begin"} THEN 1 ELSE 0)
    [] t \notin Waiters -> (IF pc[t] \in {"recheck", "begin"} THEN 2
                            ELSE IF pc[t] = "first" THEN 1 ELSE 0)

PauseLimit(t) == IF t \in Waiters THEN 1 ELSE 2

PauseInv(t) ==
  IF run_event[t] THEN sincePause[t] = 0
                  ELSE sincePause[t] + PauseBudget(t) <= PauseLimit(t)

\* Executions that thread t can still begin once stop_event is set.
StopBudget(t) ==
  CASE pc[t] = "begin" -> 2
    [] pc[t] \in {"first", "hold", "held"} -> 1
    [] OTHER -> 0

StopInv(t) ==
  IF stop_event[t] THEN sinceStop[t] + StopBudget(t) <= 2
                   ELSE sinceStop[t] = 0

\* Executions that thread t can still begin before it sleeps.
SleepBudget(t) ==
  CASE pc[t] \in {"check", "gate", "parked", "recheck", "begin"} -> 2
    [] pc[t] \in {"first", "hold", "held"} -> 1
    [] OTHER -> 0

SleepInv(t) == t \in Sleepy => sinceSleep[t] + SleepBudget(t) <= 2

ThreadInv(t) ==
  /\ PauseInv(t)
  /\ StopInv(t)
  /\ SleepInv(t)

IInv == TypeOK /\ \A t \in Threads : ThreadInv(t)

-----------------------------------------------------------------------------

\* The saturating counter stays in its range and grows by at most one.
LEMMA CountType ==
  ASSUME NEW n \in 0..CountCap
  PROVE  Count(n) \in 0..CountCap /\ Count(n) <= n + 1
BY DEF Count, CountCap

\* An execution that begins keeps the types of the history.
LEMMA CountExecutionType ==
  ASSUME TypeOK, NEW t \in Threads, CountExecution(t)
  PROVE  /\ sinceSleep' \in [Threads -> 0..CountCap]
         /\ sincePause' \in [Threads -> 0..CountCap]
         /\ sinceStop' \in [Threads -> 0..CountCap]
<1>1. /\ Count(sincePause[t]) \in 0..CountCap /\ Count(sinceStop[t]) \in 0..CountCap
      /\ Count(sinceSleep[t]) \in 0..CountCap
  BY CountType DEF TypeOK
<1> QED BY <1>1 DEF TypeOK, CountExecution

\* Raising run_event keeps the types of what it changes, and makes nobody wait,
\* sleep or end.
LEMMA WakeType ==
  ASSUME TypeOK, NEW t \in Threads, SetRunEvent(t)
  PROVE  /\ run_event' \in [Threads -> BOOLEAN]
         /\ pc' \in [Threads -> Places]
         /\ \A u \in Threads : /\ pc'[u] \in {"hold", "held"} => u \in Waiters
                               /\ pc'[u] = "sleep" => u \in Sleepy
                               /\ pc'[u] = "exited" => stop_event[u]
         /\ sincePause' \in [Threads -> 0..CountCap]
         /\ sinceStop' \in [Threads -> 0..CountCap]
         /\ sinceSleep' \in [Threads -> 0..CountCap]
<1>1. /\ Count(sinceStop[t]) \in 0..CountCap /\ Count(sinceSleep[t]) \in 0..CountCap
      /\ 0 \in 0..CountCap
  BY CountType DEF TypeOK, CountCap
<1>2. /\ pc' \in [Threads -> Places]
      /\ \A u \in Threads : /\ pc'[u] \in {"hold", "held"} => u \in Waiters
                            /\ pc'[u] = "sleep" => u \in Sleepy
                            /\ pc'[u] = "exited" => stop_event[u]
  BY DEF TypeOK, Places, SetRunEvent
<1> QED BY <1>1, <1>2 DEF TypeOK, SetRunEvent

\* The invariant holds when the threads have just been created.
LEMMA InitInv == Init => IInv
BY ThreadsAssumption DEF Init, IInv, TypeOK, ThreadInv, PauseInv, StopInv, SleepInv, SleepBudget,
   PauseBudget, PauseLimit, StopBudget, Places, CountCap

\* Every step of thread t itself preserves its types.
LEMMA StepType ==
  ASSUME TypeOK, NEW t \in Threads,
         ThreadStep(t) \/ Pause(t) \/ Resume(t) \/ StopSet(t) \/ StopWake(t)
  PROVE  TypeOK'
<1> USE ThreadsAssumption, CountType DEF TypeOK, Places, Goto, events, history
<1>1. CASE Check(t) BY <1>1 DEF Check
<1>2. CASE Gate(t) BY <1>2 DEF Gate
<1>3. CASE Recheck(t) BY <1>3 DEF Recheck
<1>14. CASE CallFirst(t) BY <1>14, CountExecutionType DEF CallFirst
<1>4. CASE CallAgain(t) BY <1>4, CountExecutionType DEF CallAgain
<1>5. CASE Hold(t) BY <1>5, CountExecutionType DEF Hold
<1>6. CASE Return(t) BY <1>6 DEF Return, Rest
<1>7. CASE Crash(t) BY <1>7 DEF Crash
<1>8. CASE Backoff(t) BY <1>8 DEF Backoff, Rest
<1>9. CASE Sleep(t) BY <1>9 DEF Sleep, CountCap
<1>10. CASE Pause(t) BY <1>10 DEF Pause, CountCap
<1>11. CASE Resume(t) BY <1>11, WakeType DEF Resume
<1>12. CASE StopSet(t) BY <1>12 DEF StopSet
<1>13. CASE StopWake(t) BY <1>13, WakeType DEF StopWake
<1> QED BY <1>1, <1>2, <1>3, <1>4, <1>5, <1>6, <1>7, <1>8, <1>9,
           <1>10, <1>11, <1>12, <1>13, <1>14 DEF ThreadStep

\* Such a step leaves every other thread as it was.
LEMMA StepFrame ==
  ASSUME TypeOK, NEW t \in Threads, NEW u \in Threads, u # t,
         ThreadStep(t) \/ Pause(t) \/ Resume(t) \/ StopSet(t) \/ StopWake(t)
  PROVE  /\ pc'[u] = pc[u]
         /\ run_event'[u] = run_event[u]
         /\ stop_event'[u] = stop_event[u]
         /\ sincePause'[u] = sincePause[u]
         /\ sinceStop'[u] = sinceStop[u]
         /\ sinceSleep'[u] = sinceSleep[u]
<1> USE DEF TypeOK, Goto, events, history
<1>1. CASE ThreadStep(t)
  BY <1>1 DEF ThreadStep, Check, Gate, Recheck, CallFirst, CallAgain, Hold, Return,
              Crash, Backoff, Sleep, CountExecution
<1>2. CASE Pause(t) \/ Resume(t) \/ StopSet(t) \/ StopWake(t)
  BY <1>2 DEF Pause, Resume, StopSet, StopWake, SetRunEvent
<1> QED BY <1>1, <1>2

\* The invariant of thread t survives each of its steps.
LEMMA StepThreadInv ==
  ASSUME TypeOK, NEW t \in Threads, ThreadInv(t),
         ThreadStep(t) \/ Pause(t) \/ Resume(t) \/ StopSet(t) \/ StopWake(t)
  PROVE  ThreadInv(t)'
<1> USE CountType DEF TypeOK, Goto, events, history, ThreadInv, PauseInv, StopInv, SleepInv, SleepBudget,
                      PauseBudget, PauseLimit, StopBudget
<1>1. CASE Check(t) BY <1>1 DEF Check
<1>2. CASE Gate(t) BY <1>2 DEF Gate
<1>3. CASE Recheck(t) BY <1>3 DEF Recheck
<1>14. CASE CallFirst(t) BY <1>14 DEF CallFirst, CountExecution
<1>4. CASE CallAgain(t) BY <1>4 DEF CallAgain, CountExecution
<1>5. CASE Hold(t) BY <1>5 DEF Hold, CountExecution
<1>6. CASE Return(t) BY <1>6 DEF Return, Rest
<1>7. CASE Crash(t) BY <1>7 DEF Crash
<1>8. CASE Backoff(t) BY <1>8 DEF Backoff, Rest
<1>9. CASE Sleep(t) BY <1>9 DEF Sleep, CountCap
<1>10. CASE Pause(t) BY <1>10 DEF Pause
<1>11. CASE Resume(t) BY <1>11 DEF Resume, SetRunEvent
<1>12. CASE StopSet(t) BY <1>12 DEF StopSet
<1>13. CASE StopWake(t) BY <1>13 DEF StopWake, SetRunEvent
<1> QED BY <1>1, <1>2, <1>3, <1>4, <1>5, <1>6, <1>7, <1>8, <1>9,
           <1>10, <1>11, <1>12, <1>13, <1>14 DEF ThreadStep

\* Every step keeps the invariant: the stepping thread's part by StepThreadInv, the
\* others' by StepFrame.
LEMMA NextInv == IInv /\ [Next]_vars => IInv'
<1> SUFFICES ASSUME IInv, [Next]_vars PROVE IInv'
  OBVIOUS
<1>1. CASE Next
  <2> PICK t \in Threads :
        ThreadStep(t) \/ Pause(t) \/ Resume(t) \/ StopSet(t) \/ StopWake(t)
    BY <1>1 DEF Next
  <2>1. TypeOK'
    BY StepType DEF IInv
  <2>2. ASSUME NEW u \in Threads PROVE ThreadInv(u)'
    <3>1. CASE u = t
      BY <3>1, StepThreadInv DEF IInv
    <3>2. CASE u # t
      BY <3>2, <2>2, StepFrame
         DEF IInv, ThreadInv, PauseInv, StopInv, SleepInv, SleepBudget, PauseBudget, PauseLimit, StopBudget
    <3> QED BY <3>1, <3>2
  <2> QED BY <2>1, <2>2 DEF IInv
<1>2. CASE UNCHANGED vars
  BY <1>2 DEF vars, IInv, TypeOK, ThreadInv, PauseInv, StopInv, SleepInv, SleepBudget, PauseBudget,
              PauseLimit, StopBudget
<1> QED BY <1>1, <1>2

\* The inductive invariant that the theorems below follow from.
THEOREM Invariance == Spec => []IInv
BY InitInv, NextInv, PTL DEF Spec

\* The variables keep their types, only waiters wait and sleepers sleep, and no
\* thread has ended unless its stop() was called, whatever its function raises.
THEOREM TypeCorrect == Spec => []TypeOK
<1>1. IInv => TypeOK BY DEF IInv
<1> QED BY <1>1, Invariance, PTL

\* After pause() at most the two calls of the iteration in progress begin, one
\* when the function waits on run_event itself.
THEOREM PauseBounded == Spec => []PauseTakesEffect
<1>1. IInv => PauseTakesEffect
  BY DEF IInv, TypeOK, ThreadInv, PauseInv, PauseTakesEffect, PauseBudget,
         PauseLimit, CountCap
<1> QED BY <1>1, Invariance, PTL

\* After stop() at most the two calls of the iteration in progress begin, also when the
\* stop comes after the iteration's last test of stop_event.
THEOREM StopBounded == Spec => []StopTakesEffect
<1>1. ASSUME IInv, NEW t \in Threads PROVE sinceStop[t] <= 2
  <2>1. sinceStop[t] \in 0..3 /\ StopInv(t)
    BY <1>1 DEF IInv, TypeOK, ThreadInv, CountCap
  <2>2. StopBudget(t) \in 0..2
    BY DEF StopBudget
  <2> QED BY <2>1, <2>2 DEF StopInv
<1>2. IInv => StopTakesEffect BY <1>1 DEF StopTakesEffect
<1> QED BY <1>2, Invariance, PTL

\* A thread with a sleep_time begins at most two executions between two sleeps.
THEOREM SleepBounded == Spec => []SleepsBetweenIterations
<1>1. ASSUME IInv, NEW t \in Sleepy PROVE sinceSleep[t] <= 2
  <2>1. t \in Threads
    BY ThreadsAssumption
  <2>2. sinceSleep[t] \in 0..3 /\ SleepInv(t)
    BY <1>1, <2>1 DEF IInv, TypeOK, ThreadInv, CountCap
  <2>3. SleepBudget(t) \in 0..2
    BY DEF SleepBudget
  <2> QED BY <2>2, <2>3 DEF SleepInv
<1>2. IInv => SleepsBetweenIterations BY <1>1 DEF SleepsBetweenIterations
<1> QED BY <1>2, Invariance, PTL

-----------------------------------------------------------------------------
(* Wake-ups.                                                               *)

\* A stop() that is complete has set run_event, and if pauses after a stop are
\* excluded, nobody has cleared it since.
WakeInv(t) ==
  /\ pc[t] \in {"parked", "held"} => ~run_event[t]
  /\ stop_event[t] /\ t \notin stopping /\ ~PauseAfterStop => run_event[t]

\* It survives each step of the thread and on it.
LEMMA StepWakeInv ==
  ASSUME TypeOK, NEW t \in Threads, WakeInv(t),
         ThreadStep(t) \/ Pause(t) \/ Resume(t) \/ StopSet(t) \/ StopWake(t)
  PROVE  WakeInv(t)'
<1> USE ThreadsAssumption DEF TypeOK, Goto, events, history, WakeInv
<1>1. CASE Check(t) BY <1>1 DEF Check
<1>2. CASE Gate(t) BY <1>2 DEF Gate
<1>3. CASE Recheck(t) BY <1>3 DEF Recheck
<1>14. CASE CallFirst(t) BY <1>14 DEF CallFirst
<1>4. CASE CallAgain(t) BY <1>4 DEF CallAgain
<1>5. CASE Hold(t) BY <1>5 DEF Hold
<1>6. CASE Return(t) BY <1>6 DEF Return, Rest
<1>7. CASE Crash(t) BY <1>7 DEF Crash
<1>8. CASE Backoff(t) BY <1>8 DEF Backoff, Rest
<1>9. CASE Sleep(t) BY <1>9 DEF Sleep
<1>10. CASE Pause(t) BY <1>10 DEF Pause
<1>11. CASE Resume(t) BY <1>11 DEF Resume, SetRunEvent
<1>12. CASE StopSet(t) BY <1>12 DEF StopSet
<1>13. CASE StopWake(t) BY <1>13 DEF StopWake, SetRunEvent
<1> QED BY <1>1, <1>2, <1>3, <1>4, <1>5, <1>6, <1>7, <1>8, <1>9,
           <1>10, <1>11, <1>12, <1>13, <1>14 DEF ThreadStep

\* stop() of one thread is not a step of another.
LEMMA StoppingFrame ==
  ASSUME NEW t \in Threads, NEW u \in Threads, u # t,
         ThreadStep(t) \/ Pause(t) \/ Resume(t) \/ StopSet(t) \/ StopWake(t)
  PROVE  u \in stopping' <=> u \in stopping
BY DEF ThreadStep, Check, Gate, Recheck, CallFirst, CallAgain, Hold, Return, Crash, Backoff, Sleep,
       Pause, Resume, StopSet, StopWake, events

\* A thread waits for run_event only while that is clear, and a stopped one only until its
\* stop() is complete or somebody pauses it afterwards.
THEOREM NoWakeUpLost == Spec => []NoLostWakeUp
<1> DEFINE Inv == \A t \in Threads : WakeInv(t)
<1>1. Init => Inv
  BY DEF Init, WakeInv
<1>2. IInv /\ Inv /\ [Next]_vars => Inv'
  <2> SUFFICES ASSUME IInv, Inv, [Next]_vars, NEW u \in Threads PROVE WakeInv(u)'
    OBVIOUS
  <2>1. CASE Next
    <3> PICK t \in Threads :
          ThreadStep(t) \/ Pause(t) \/ Resume(t) \/ StopSet(t) \/ StopWake(t)
      BY <2>1 DEF Next
    <3>1. CASE u = t
      BY <3>1, StepWakeInv DEF IInv
    <3>2. CASE u # t
      BY <3>2, StepFrame, StoppingFrame DEF IInv, WakeInv
    <3> QED BY <3>1, <3>2
  <2>2. CASE UNCHANGED vars
    BY <2>2 DEF vars, WakeInv
  <2> QED BY <2>1, <2>2
<1>3. Inv => NoLostWakeUp
  BY DEF WakeInv, NoLostWakeUp
<1> QED BY <1>1, <1>2, <1>3, Invariance, PTL DEF Spec

-----------------------------------------------------------------------------
(* The refinement of Iterations.                                           *)

\* A thread that moves changes the call it is in, and nobody else's.
LEMMA CallOfMove ==
  ASSUME pc \in [Threads -> Places], NEW t \in Threads, NEW place, Goto(t, place)
  PROVE  [u \in Threads |-> CallAt(pc'[u])]
           = [[u \in Threads |-> CallAt(pc[u])] EXCEPT ![t] = CallAt(place)]
BY DEF Goto

\* The functions see nothing of a move between two calls, or within one.
LEMMA CallOfSilentMove ==
  ASSUME pc \in [Threads -> Places], NEW t \in Threads, NEW place, Goto(t, place),
         CallAt(place) = CallAt(pc[t])
  PROVE  [u \in Threads |-> CallAt(pc'[u])] = [u \in Threads |-> CallAt(pc[u])]
<1>1. \A u \in Threads : CallAt(pc'[u]) = CallAt(pc[u])
  BY DEF Goto
<1> QED BY <1>1

\* Every step of a thread is one that its function sees, or none.
LEMMA ThreadStepIsIteration ==
  ASSUME TypeOK, NEW t \in Threads, ThreadStep(t)
  PROVE  Calling!Next \/ UNCHANGED Calling!iterations
<1> DEFINE call == [u \in Threads |-> CallAt(pc[u])]
           told == {u \in Threads : stop_event[u]}
<1>0. pc \in [Threads -> Places] /\ call[t] = CallAt(pc[t]) /\ (t \in told <=> stop_event[t])
  BY DEF TypeOK
<1>1. told' = told
  BY DEF ThreadStep, Check, Gate, Recheck, CallFirst, CallAgain, Hold, Return, Crash, Backoff, Sleep, events
<1>2. ASSUME NEW place, Goto(t, place), CallAt(place) = CallAt(pc[t])
      PROVE  UNCHANGED Calling!iterations
  BY <1>0, <1>1, <1>2, CallOfSilentMove DEF Calling!iterations
<1>3. ASSUME NEW place, Goto(t, place)
      PROVE  Calling!Become(t, CallAt(place))
  BY <1>0, <1>1, <1>3, CallOfMove DEF Calling!Become
<1>4. CASE Check(t) \/ (Recheck(t) /\ stop_event[t])
  <2>1. CASE stop_event[t]
    <3>1. Goto(t, "exited") /\ call[t] = "out"
      BY <1>0, <1>4, <2>1 DEF Check, Recheck, CallAt
    <3>2. Calling!Exit(t)
      BY <1>0, <1>3, <2>1, <3>1 DEF Calling!Exit, CallAt
    <3> QED BY <3>2 DEF Calling!Next
  <2>2. CASE ~stop_event[t]
    BY <1>2, <1>4, <2>2 DEF Check, CallAt
  <2> QED BY <2>1, <2>2
<1>5. CASE Recheck(t) /\ ~stop_event[t]
  <2>1. Goto(t, "begin") /\ call[t] = "out"
    BY <1>0, <1>5 DEF Recheck, CallAt
  <2>2. Calling!Begin(t)
    BY <1>0, <1>3, <1>5, <2>1 DEF Calling!Begin, CallAt
  <2> QED BY <2>2 DEF Calling!Next
<1>12. CASE CallFirst(t)
  BY <1>2, <1>12 DEF CallFirst, CallAt
<1>6. CASE CallAgain(t)
  <2>1. (Goto(t, "hold") \/ Goto(t, "second")) /\ call[t] = "first"
    BY <1>0, <1>6 DEF CallAgain, CallAt
  <2>2. Calling!Again(t)
    BY <1>3, <2>1 DEF Calling!Again, CallAt
  <2> QED BY <2>2 DEF Calling!Next
<1>7. CASE Return(t) \/ Crash(t)
  <2>1. /\ Goto(t, "sleep") \/ Goto(t, "check") \/ Goto(t, "backoff")
        /\ call[t] \in {"first", "second"}
    BY <1>0, <1>7 DEF Return, Crash, Rest, CallAt
  <2>2. Calling!Finish(t)
    BY <1>3, <2>1 DEF Calling!Finish, CallAt
  <2> QED BY <2>2 DEF Calling!Next
<1>8. CASE Gate(t)
  BY <1>2, <1>8 DEF Gate, CallAt
<1>9. CASE Hold(t)
  BY <1>2, <1>9 DEF Hold, CallAt
<1>10. CASE Backoff(t)
  BY <1>2, <1>10 DEF Backoff, Rest, CallAt
<1>11. CASE Sleep(t)
  BY <1>2, <1>11 DEF Sleep, CallAt
<1> QED BY <1>4, <1>5, <1>6, <1>7, <1>8, <1>9, <1>10, <1>11, <1>12 DEF ThreadStep

\* Of what others do to it the functions see stop() alone: who is woken from a wait is
\* still in the call it was in, or in none.
LEMMA OtherStepIsIteration ==
  ASSUME TypeOK, NEW t \in Threads, Pause(t) \/ Resume(t) \/ StopSet(t) \/ StopWake(t)
  PROVE  Calling!Next \/ UNCHANGED Calling!iterations
<1> DEFINE call == [u \in Threads |-> CallAt(pc[u])]
           told == {u \in Threads : stop_event[u]}
<1>1. \A u \in Threads : CallAt(pc'[u]) = CallAt(pc[u])
  BY DEF Pause, Resume, StopSet, StopWake, SetRunEvent, TypeOK, CallAt, history
<1>2. call' = call
  BY <1>1
<1>3. CASE StopSet(t)
  <2>1. told' = told \cup {t}
    BY <1>3 DEF StopSet, TypeOK
  <2>2. Calling!Tell(t)
    BY <1>2, <2>1 DEF Calling!Tell
  <2> QED BY <2>2 DEF Calling!Next
<1>4. CASE Pause(t) \/ Resume(t) \/ StopWake(t)
  <2>1. stop_event' = stop_event
    BY <1>4 DEF Pause, Resume, StopWake
  <2> QED BY <1>2, <2>1 DEF Calling!iterations
<1> QED BY <1>3, <1>4

\* For any threads SafeLoopThread calls functions in iterations that no exception ends,
\* and whose last test of stop_event found no stop.
THEOREM SafeLoopIterates == Spec => ImplementsIterations
<1>1. Init => Calling!Init
  BY DEF Init, Calling!Init, CallAt
<1>2. IInv /\ [Next]_vars => [Calling!Next]_(Calling!iterations)
  <2> SUFFICES ASSUME IInv, [Next]_vars PROVE Calling!Next \/ UNCHANGED Calling!iterations
    OBVIOUS
  <2>1. CASE UNCHANGED vars
    BY <2>1 DEF vars, Calling!iterations
  <2> QED BY <2>1, ThreadStepIsIteration, OtherStepIsIteration DEF Next, IInv
<1> QED BY <1>1, <1>2, Invariance, PTL DEF Spec, ImplementsIterations, Calling!Spec
=============================================================================
