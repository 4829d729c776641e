---------------------------- MODULE PacketChannel ----------------------------
(***************************************************************************)
(* What the packet pipeline promises: packets are handed on one by one, in *)
(* the order of their capture, each at most once, and those that are not   *)
(* were dropped from the front of what was waiting, because handling one   *)
(* of them raised an exception or because the Inspector was being stopped. *)
(***************************************************************************)
EXTENDS Naturals, Sequences

CONSTANT Packets

VARIABLES
  pending,    \* captured and waiting, oldest first
  heard,      \* handed to process_packet_helper, oldest first
  stopped,    \* the Inspector is being stopped
  ends        \* how often handling a packet raised

channel == <<pending, heard, stopped, ends>>

Init ==
  /\ pending = <<>>
  /\ heard = <<>>
  /\ stopped = FALSE
  /\ ends = 0

Put ==
  /\ \E p \in Packets : pending' = Append(pending, p)
  /\ UNCHANGED <<heard, stopped, ends>>

\* The first n waiting packets are gone.
Drop(n) == pending' = SubSeq(pending, n + 1, Len(pending))

HandOn ==
  /\ pending # <<>>
  /\ heard' = Append(heard, Head(pending))
  /\ Drop(1)
  /\ UNCHANGED <<stopped, ends>>

HandOnAndRaise ==
  /\ pending # <<>>
  /\ heard' = Append(heard, Head(pending))
  /\ \E n \in 1..Len(pending) : Drop(n)
  /\ ends' = ends + 1
  /\ UNCHANGED stopped

DropStopped ==
  /\ stopped
  /\ \E n \in 1..Len(pending) : Drop(n)
  /\ UNCHANGED <<heard, stopped, ends>>

Stop ==
  /\ stopped' = TRUE
  /\ UNCHANGED <<pending, heard, ends>>

Next == Put \/ HandOn \/ HandOnAndRaise \/ DropStopped \/ Stop

Spec == Init /\ [][Next]_channel
=============================================================================
