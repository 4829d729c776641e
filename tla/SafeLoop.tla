------------------------------ MODULE SafeLoop ------------------------------
(***************************************************************************)
(* The daemon threads of src/libinspector/safe_loop.py.  A SafeLoopThread  *)
(* calls one function again and again; other threads pause, resume and     *)
(* stop it through two threading.Event objects, and a function whose       *)
(* signature asks for them receives the same two events and may wait on    *)
(* run_event itself.                                                       *)
(*                                                                         *)
(* Event.set wakes every thread parked in Event.wait, also when the event  *)
(* is cleared again before the woken thread runs: Event.wait does not test *)
(* the flag a second time.                                                 *)
(***************************************************************************)
EXTENDS Naturals

CONSTANTS
  Threads,        \* the SafeLoopThread objects
  Sleepy,         \* those created with sleep_time > 0
  Waiters,        \* those whose function waits on an injected run_event
  PauseAfterStop  \* may a caller pause a thread that was told to stop?

ASSUME ThreadsAssumption ==
  /\ Sleepy \subseteq Threads
  /\ Waiters \subseteq Threads
  /\ PauseAfterStop \in BOOLEAN

VARIABLES
  stop_event,   \* the flag of each thread's _stop_event
  run_event,    \* the flag of each thread's _run_event
  stopping,     \* threads whose stop() has set stop_event but not yet run_event
  pc,           \* where each thread is in _execute_repeated_func_safe
  sinceSleep,   \* history: executions begun since the last sleep of sleep_time
  sincePause,   \* history: executions begun since run_event was cleared
  sinceStop     \* history: executions begun since stop_event was set

vars == <<stop_event, run_event, stopping, pc, sinceSleep, sincePause, sinceStop>>
events == <<stop_event, run_event, stopping>>
history == <<sinceSleep, sincePause, sinceStop>>

Places == { "check",    \* about to evaluate the while condition
            "gate",     \* about to enter run_event.wait()
            "parked",   \* blocked in run_event.wait()
            "recheck",  \* past the wait, about to test stop_event again
            "begin",    \* past the test, about to call the function
            "first",    \* executing the function, called without the events
            "hold",     \* second call of a waiter: about to enter its wait
            "held",     \* second call of a waiter: blocked in its wait
            "second",   \* executing the function, called with the events
            "backoff",  \* the one-second wait after an exception
            "sleep",    \* the wait of sleep_time in the finally clause
            "exited" }

\* The history counters stop at this bound; no property looks beyond it.
CountCap == 3
Count(n) == IF n < CountCap THEN n + 1 ELSE n

\* The types, and which threads can be where: only the function of a waiter
\* waits inside a call, only a thread with a sleep_time sleeps, only one that was
\* told to stop has ended, and a stop() that is half done has set stop_event.
TypeOK ==
  /\ stop_event \in [Threads -> BOOLEAN]
  /\ run_event \in [Threads -> BOOLEAN]
  /\ stopping \subseteq {t \in Threads : stop_event[t]}
  /\ pc \in [Threads -> Places]
  /\ \A t \in Threads : /\ pc[t] \in {"hold", "held"} => t \in Waiters
                        /\ pc[t] = "sleep" => t \in Sleepy
                        /\ pc[t] = "exited" => stop_event[t]
  /\ sinceSleep \in [Threads -> 0..CountCap]
  /\ sincePause \in [Threads -> 0..CountCap]
  /\ sinceStop \in [Threads -> 0..CountCap]

Init ==
  /\ stop_event = [t \in Threads |-> FALSE]
  /\ run_event = [t \in Threads |-> TRUE]
  /\ stopping = {}
  /\ pc = [t \in Threads |-> "check"]
  /\ sinceSleep = [t \in Threads |-> 0]
  /\ sincePause = [t \in Threads |-> 0]
  /\ sinceStop = [t \in Threads |-> 0]

-----------------------------------------------------------------------------
(* The thread's own steps.                                                 *)

Goto(t, place) == pc' = [pc EXCEPT ![t] = place]

\* Thread t begins (and has begun, should it raise at once) an execution.
CountExecution(t) ==
  /\ sinceSleep' = [sinceSleep EXCEPT ![t] = Count(@)]
  /\ sincePause' = [sincePause EXCEPT ![t] = IF run_event[t] THEN @ ELSE Count(@)]
  /\ sinceStop' = [sinceStop EXCEPT ![t] = IF stop_event[t] THEN Count(@) ELSE @]

Check(t) ==
  /\ pc[t] = "check"
  /\ Goto(t, IF stop_event[t] THEN "exited" ELSE "gate")
  /\ UNCHANGED <<events, history>>

\* Mutation: run_event.wait() is forgotten.
Gate_NoWait(t) ==
  /\ pc[t] = "gate"
  /\ Goto(t, "recheck")
  /\ UNCHANGED <<events, history>>

\* Mutation: the thread waits for the next set() although the flag is set.
Gate_IgnoresFlag(t) ==
  /\ pc[t] = "gate"
  /\ Goto(t, "parked")
  /\ UNCHANGED <<events, history>>

Gate(t) ==
  /\ pc[t] = "gate"
  /\ Goto(t, IF run_event[t] THEN "recheck" ELSE "parked")
  /\ UNCHANGED <<events, history>>

\* Mutation: the second test of stop_event is dropped.
Recheck_NoStopTest(t) ==
  /\ pc[t] = "recheck"
  /\ Goto(t, "begin")
  /\ UNCHANGED <<events, history>>

Recheck(t) ==
  /\ pc[t] = "recheck"
  /\ Goto(t, IF stop_event[t] THEN "exited" ELSE "begin")
  /\ UNCHANGED <<events, history>>

\* The function is called, also when the thread was told to stop after the test.
CallFirst(t) ==
  /\ pc[t] = "begin"
  /\ Goto(t, "first")
  /\ CountExecution(t)
  /\ UNCHANGED events

\* The plain call returns and the function is called again with the events.
CallAgain(t) ==
  /\ pc[t] = "first"
  /\ IF t \in Waiters
     THEN Goto(t, "hold") /\ UNCHANGED history
     ELSE Goto(t, "second") /\ CountExecution(t)
  /\ UNCHANGED events

\* A waiter's function begins with run_event.wait().
Hold(t) ==
  /\ pc[t] = "hold"
  /\ IF run_event[t]
     THEN Goto(t, "second") /\ CountExecution(t)
     ELSE Goto(t, "held") /\ UNCHANGED history
  /\ UNCHANGED events

\* Mutation: the test of sleep_time is dropped.
Rest_Always(t) == "sleep"

Rest(t) == IF t \in Sleepy THEN "sleep" ELSE "check"

Return(t) ==
  /\ pc[t] = "second"
  /\ Goto(t, Rest(t))
  /\ UNCHANGED <<events, history>>

Crash(t) ==
  /\ pc[t] \in {"first", "second"}
  /\ Goto(t, "backoff")
  /\ UNCHANGED <<events, history>>

\* Mutation: the sleep is not in the finally clause.
Backoff_NoSleep(t) ==
  /\ pc[t] = "backoff"
  /\ Goto(t, "check")
  /\ UNCHANGED <<events, history>>

\* Either the second elapses or stop_event cuts it short.
Backoff(t) ==
  /\ pc[t] = "backoff"
  /\ Goto(t, Rest(t))
  /\ UNCHANGED <<events, history>>

Sleep(t) ==
  /\ pc[t] = "sleep"
  /\ Goto(t, "check")
  /\ sinceSleep' = [sinceSleep EXCEPT ![t] = 0]
  /\ UNCHANGED <<events, sincePause, sinceStop>>

ThreadStep(t) ==
  \/ Check(t) \/ Gate(t) \/ Recheck(t) \/ CallFirst(t) \/ CallAgain(t) \/ Hold(t)
  \/ Return(t) \/ Crash(t) \/ Backoff(t) \/ Sleep(t)

-----------------------------------------------------------------------------
(* What other threads do to it.                                            *)

Pause(t) ==
  /\ stop_event[t] => PauseAfterStop
  /\ run_event' = [run_event EXCEPT ![t] = FALSE]
  /\ sincePause' = [sincePause EXCEPT ![t] = IF run_event[t] THEN 0 ELSE @]
  /\ UNCHANGED <<stop_event, stopping, pc, sinceSleep, sinceStop>>

\* run_event.set(): raises the flag and wakes whoever waits for it.  A woken
\* waiter is past its wait, so the execution it was called for begins.
SetRunEvent(t) ==
  /\ run_event' = [run_event EXCEPT ![t] = TRUE]
  /\ sincePause' = [sincePause EXCEPT ![t] = 0]
  /\ pc' = [pc EXCEPT ![t] = CASE @ = "parked" -> "recheck"
                               [] @ = "held" -> "second"
                               [] OTHER -> @]
  /\ sinceSleep' = [sinceSleep EXCEPT ![t] = IF pc[t] = "held" THEN Count(@) ELSE @]
  /\ sinceStop' = [sinceStop EXCEPT ![t] =
                     IF stop_event[t] /\ pc[t] = "held" THEN Count(@) ELSE @]

Resume(t) ==
  /\ SetRunEvent(t)
  /\ UNCHANGED <<stop_event, stopping>>

\* stop() is two steps: another thread may run between them.
StopSet(t) ==
  /\ t \notin stopping
  /\ stop_event' = [stop_event EXCEPT ![t] = TRUE]
  /\ stopping' = stopping \cup {t}
  /\ UNCHANGED <<run_event, pc, history>>

\* Mutation: stop() does not set run_event.
StopWake_NoWake(t) ==
  /\ t \in stopping
  /\ stopping' = stopping \ {t}
  /\ UNCHANGED <<stop_event, run_event, pc, history>>

StopWake(t) ==
  /\ t \in stopping
  /\ stopping' = stopping \ {t}
  /\ SetRunEvent(t)
  /\ UNCHANGED stop_event

Next ==
  \E t \in Threads :
    \/ ThreadStep(t)
    \/ Pause(t) \/ Resume(t) \/ StopSet(t) \/ StopWake(t)

Spec == Init /\ [][Next]_vars

\* A started thread runs, a function that was called returns or raises, and a
\* stop() that was entered is completed.  Nobody is obliged to pause, resume or
\* stop anything.
FairSpec ==
  /\ Spec
  /\ \A t \in Threads : WF_vars(ThreadStep(t)) /\ WF_vars(StopWake(t))

-----------------------------------------------------------------------------
(* Properties.                                                             *)

\* pause() lets at most the iteration in progress finish: no more than the two
\* calls of one iteration begin while run_event stays clear, and only one when
\* the function itself waits on run_event.
PauseTakesEffect ==
  \A t \in Threads :
    ~run_event[t] => sincePause[t] <= (IF t \in Waiters THEN 1 ELSE 2)

\* stop() lets at most two more executions begin, the calls of the iteration in
\* progress: the second is not preceded by a test of stop_event, and the first may
\* follow the test by any time.
StopTakesEffect ==
  \A t \in Threads : sinceStop[t] <= 2

\* A stopped thread ends, wherever in its loop the stop found it: running,
\* asleep, backing off, parked by pause() or held inside its function.
StopEnds ==
  \A t \in Threads : stop_event[t] ~> (pc[t] = "exited")

\* A thread that is neither paused nor stopped any more keeps calling its
\* function, however often the function raises and however pause and resume
\* interleaved with the loop before.
LoopSurvives ==
  \A t \in Threads :
    <>[](run_event[t] /\ ~stop_event[t]) => []<>(pc[t] = "first")

\* "After each execution (successful or not), the method sleeps for the
\* configured interval before restarting the function": not after each, but the two
\* calls of one iteration are all that a thread with a sleep_time begins between
\* two sleeps, whatever raises and whoever pauses, resumes or stops meanwhile.
SleepsBetweenIterations ==
  \A t \in Sleepy : sinceSleep[t] <= 2

-----------------------------------------------------------------------------
(* What the functions of the threads see of it.                            *)

\* An iteration begins with its last test of stop_event, from which the first call
\* follows in any case; a waiter that waits for run_event does so in its second call.
CallAt(place) ==
  CASE place \in {"begin", "first"} -> "first"
    [] place \in {"hold", "held", "second"} -> "second"
    [] place = "exited" -> "ended"
    [] OTHER -> "out"

Calling == INSTANCE Iterations WITH
             call <- [t \in Threads |-> CallAt(pc[t])],
             told <- {t \in Threads : stop_event[t]}

\* Whatever raises and whoever pauses, resumes or stops, a SafeLoopThread calls its
\* function in iterations of two calls, tests its stop before each, and ends for no
\* other reason.
ImplementsIterations == Calling!Spec

\* No wake-up is lost: a thread waits for run_event only while that is clear, and one
\* that was told to stop only until stop() has set run_event, unless somebody paused it
\* after that.
NoLostWakeUp ==
  \A t \in Threads : pc[t] \in {"parked", "held"} =>
    /\ ~run_event[t]
    /\ stop_event[t] => t \in stopping \/ PauseAfterStop
=============================================================================
