----------------------------- MODULE Publication -----------------------------
(***************************************************************************)
(* What global_state_lock makes of the network information: one record     *)
(* that is replaced as a whole, and only while nobody is in the middle of  *)
(* reading it, so that whoever reads it field by field reads one record.   *)
(***************************************************************************)

CONSTANTS
  Readers,  \* who may read
  Fields,   \* the fields of a record
  Records,  \* what may be published
  Nothing   \* the view of who has not read anything

VARIABLES
  published,  \* the record
  view        \* what each reader has read so far

board == <<published, view>>

Init ==
  /\ published \in Records
  /\ view = [t \in Readers |-> Nothing]

Publish ==
  /\ \A t \in Readers : view[t] = Nothing
  /\ published' \in Records
  /\ UNCHANGED view

Read(t, f) ==
  /\ view' = [view EXCEPT ![t][f] = published[f]]
  /\ UNCHANGED published

Leave(t) ==
  /\ view' = [view EXCEPT ![t] = Nothing]
  /\ UNCHANGED published

Next == Publish \/ \E t \in Readers : Leave(t) \/ \E f \in Fields : Read(t, f)

Spec == Init /\ [][Next]_board
=============================================================================
