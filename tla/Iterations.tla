----------------------------- MODULE Iterations -----------------------------
(***************************************************************************)
(* How a SafeLoopThread calls its function, as far as the functions can    *)
(* tell: in iterations of at most two calls, none of which is begun after  *)
(* the thread was told to stop; whatever a call does, the thread goes on,  *)
(* and ends only if it was told to.  An iteration begins with the last     *)
(* test of the stop before the first call: that call may start just after  *)
(* a stop that falls in between.                                           *)
(***************************************************************************)

CONSTANT Threads

VARIABLES
  call,  \* which call each thread is in: "first", "second", or "out" of both,
         \* and "ended" when the thread is
  told   \* the threads that were told to stop

iterations == <<call, told>>

Init ==
  /\ call = [t \in Threads |-> "out"]
  /\ told = {}

Become(t, c) == call' = [call EXCEPT ![t] = c] /\ UNCHANGED told

\* The first call may return before anything else happens.
Begin(t) ==
  /\ call[t] = "out" /\ t \notin told
  /\ Become(t, "first") \/ Become(t, "second")

Again(t) == call[t] = "first" /\ Become(t, "second")

\* The second call returns, or either raises.
Finish(t) == call[t] \in {"first", "second"} /\ Become(t, "out")

Exit(t) == call[t] = "out" /\ t \in told /\ Become(t, "ended")

Tell(t) == told' = told \cup {t} /\ UNCHANGED call

Next == \E t \in Threads : Begin(t) \/ Again(t) \/ Finish(t) \/ Exit(t) \/ Tell(t)

Spec == Init /\ [][Next]_iterations
=============================================================================
