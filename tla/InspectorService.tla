-------------------------- MODULE InspectorService --------------------------
(***************************************************************************)
(* What the Inspector promises to the programs that start it and clean it  *)
(* up: one call of start_threads at a time holds the service; a call is    *)
(* refused if and only if another one holds it; a call that fails without  *)
(* a network gives it back; threads exist for the holder only, from a time *)
(* when the host forwards, and neither they nor the forwarding end before  *)
(* the service is switched off.                                            *)
(***************************************************************************)

CONSTANT Callers

VARIABLES
  calls,       \* what has become of each caller's start_threads
  threads,     \* the callers whose threads exist
  on,          \* nobody has begun to clean up
  forwarding   \* the host forwards what is sent through it

service == <<calls, threads, on, forwarding>>

Outcomes == {"none", "starting", "returned", "refused", "failed", "raised"}

\* A call that raised something unexpected never gives the service back.
Holds(c) == calls[c] \in {"starting", "returned", "raised"}

Init ==
  /\ calls = [c \in Callers |-> "none"]
  /\ threads = {}
  /\ on = TRUE
  /\ forwarding \in BOOLEAN

Become(c, outcome) == calls' = [calls EXCEPT ![c] = outcome]

Begin(c) ==
  /\ calls[c] = "none"
  /\ \A d \in Callers : ~Holds(d)
  /\ Become(c, "starting")
  /\ UNCHANGED <<threads, on, forwarding>>

Refuse(c) ==
  /\ calls[c] = "none"
  /\ \E d \in Callers : Holds(d)
  /\ Become(c, "refused")
  /\ UNCHANGED <<threads, on, forwarding>>

Forward(c) ==
  /\ calls[c] = "starting" /\ c \notin threads
  /\ forwarding' = TRUE
  /\ UNCHANGED <<calls, threads, on>>

\* For want of a network before there are threads, or for another reason whenever.
GiveUp(c) ==
  /\ calls[c] = "starting"
  /\ (c \notin threads /\ Become(c, "failed")) \/ Become(c, "raised")
  /\ UNCHANGED <<threads, on, forwarding>>

Launch(c) ==
  /\ calls[c] = "starting" /\ c \notin threads
  /\ on => forwarding
  /\ threads' = threads \cup {c}
  /\ UNCHANGED <<calls, on, forwarding>>

Return(c) ==
  /\ calls[c] = "starting" /\ c \in threads
  /\ Become(c, "returned")
  /\ UNCHANGED <<threads, on, forwarding>>

SwitchOff ==
  /\ on
  /\ on' = FALSE
  /\ UNCHANGED <<calls, threads, forwarding>>

ThreadsEnd(c) ==
  /\ ~on
  /\ calls[c] = "returned" /\ c \in threads
  /\ threads' = threads \ {c}
  /\ UNCHANGED <<calls, on, forwarding>>

StopForwarding ==
  /\ ~on
  /\ forwarding' = FALSE
  /\ UNCHANGED <<calls, threads, on>>

Next ==
  \/ \E c \in Callers : \/ Begin(c) \/ Refuse(c) \/ Forward(c) \/ GiveUp(c)
                        \/ Launch(c) \/ Return(c) \/ ThreadsEnd(c)
  \/ SwitchOff \/ StopForwarding

Spec == Init /\ [][Next]_service
=============================================================================
