--------------------------- MODULE ArpSpoof_proofs ---------------------------
(***************************************************************************)
(* Safety of the spoofing thread beside the writers of the devices table,  *)
(* for any set of machines, addresses and network information, whichever   *)
(* of the two replies are switched on.                                     *)
(*                                                                         *)
(* None of the bounds on late replies is inductive.  The invariant adds to *)
(* the replies sent those still to come: of the victim whose turn it is,   *)
(* once is_running was tested; and, for one device, of its place among the *)
(* targets, which holds every device at most once.                         *)
(***************************************************************************)
EXTENDS ArpSpoof, Devices_proofs

\* Replies of this turn that a lowered is_running does not prevent any more.
InFlight == IF pc = "router" THEN 2 ELSE IF pc = "device" THEN 1 ELSE 0

StopInv == IF running THEN afterStop = 0 ELSE afterStop + InFlight <= 2

\* Replies about device m that this execution may still send.
Pending(m) ==
  IF \E t \in targets : t.mac = m THEN 2
  ELSE IF victim.mac # m THEN 0
  ELSE IF pc = "device" THEN 1 ELSE 2

\* Every device is at one place only: among the rows, a target, or the victim.
\* While rw_lock is held, all of them are inspected.
OncePerDevice ==
  /\ \A t, u \in targets : t.mac = u.mac => t = u
  /\ \A t \in targets : t.mac \notin rows /\ t.mac # victim.mac
  /\ pc = "filter" => /\ \A m \in rows : is_inspected[m]
                      /\ \A t \in targets : is_inspected[t.mac]

DropInv == \A m \in Macs : ~is_inspected[m] => afterDrop[m] + Pending(m) <= 2

\* This execution has read another gateway than the published one.
Outdated ==
  /\ pc \in {"lookup", "loop", "test", "router", "device"}
  /\ gateway.ip # conf.gateway

MoveInv ==
  \A m \in Macs : afterMove[m] + (IF Outdated THEN Pending(m) ELSE 0) <= 2

IInv == SpoofTypeOK /\ StopInv /\ OncePerDevice /\ DropInv /\ MoveInv

-----------------------------------------------------------------------------

\* The spoofing thread changes nothing of the table, and its writers take the
\* steps that the table's specification allows.
LEMMA TableStepOrStutter == [Next]_vars => [DevicesNext]_deviceVars
BY DEF Next, SpoofStep, Begin, Query, Filter, EndFilter, ReadGateway, Lookup,
       NextVictim, EndLoop, TestRunning, SendToRouter, SendToDevice, SendFails,
       StopInspector, Write, Other, DevicesNext, vars

\* The composition implements the table's specification, so what is proved of the
\* table alone holds beside the spoofing thread, too.
THEOREM ImplementsDevices == Spec => DevicesSpec
<1>1. Init => DevicesInit
  BY DEF Init
<1> QED BY <1>1, TableStepOrStutter, PTL DEF Spec, DevicesSpec

\* The saturating counter stays in its range and grows by at most one.
LEMMA CountFacts ==
  ASSUME NEW n \in 0..CountCap
  PROVE  Count(n) \in 0..CountCap /\ Count(n) <= n + 1
BY ArpSpoofAssumption DEF Count

\* A reply about a victim keeps the types of the history.
LEMMA ReplyType ==
  ASSUME SpoofTypeOK, victim # Nobody, Reply
  PROVE  /\ victim.mac \in Macs
         /\ afterStop' \in 0..CountCap
         /\ afterDrop' \in [Macs -> 0..CountCap]
         /\ afterMove' \in [Macs -> 0..CountCap]
<1>1. victim.mac \in Macs
  BY DEF SpoofTypeOK, Pairs
<1>2. /\ Count(afterDrop[victim.mac]) \in 0..CountCap
      /\ Count(afterMove[victim.mac]) \in 0..CountCap
      /\ Count(afterStop) \in 0..CountCap
  BY <1>1, CountFacts DEF SpoofTypeOK
<1> QED BY <1>1, <1>2 DEF SpoofTypeOK, Reply

-----------------------------------------------------------------------------

\* The invariant holds before the first execution.
LEMMA SpoofInit == Init => IInv
BY ArpSpoofAssumption
   DEF Init, DevicesInit, IInv, SpoofTypeOK, StopInv, InFlight, OncePerDevice, DropInv,
       MoveInv, Outdated, Pending, Nobody, Places

\* The types survive the thread's steps.
LEMMA SpoofStepType ==
  ASSUME TypeOK, SpoofTypeOK, SpoofStep
  PROVE  SpoofTypeOK'
<1> USE ArpSpoofAssumption
    DEF SpoofTypeOK, Places, deviceVars, columns, history, Return, Loop, Nobody, Pairs
<1>1. CASE Begin BY <1>1 DEF Begin
<1>2. CASE Query BY <1>2 DEF Query
<1>3. ASSUME NEW m \in Macs, Filter(m) PROVE SpoofTypeOK'
  BY <1>3 DEF Filter, TypeOK
<1>4. CASE EndFilter BY <1>4 DEF EndFilter
<1>5. CASE ReadGateway
  <2>1. conf.gateway \in Ips
    BY DevicesAssumption DEF TypeOK
  <2> QED BY <1>5, <2>1 DEF ReadGateway
<1>6. CASE Lookup
  <2>1. listed \subseteq Macs
    BY DEF TypeOK
  <2> QED BY <1>6, <2>1 DEF Lookup
<1>7. CASE NextVictim BY <1>7 DEF NextVictim
<1>8. CASE EndLoop BY <1>8 DEF EndLoop
<1>9. CASE TestRunning BY <1>9 DEF TestRunning
<1>10. CASE SendToRouter BY <1>10, ReplyType DEF SendToRouter
<1>11. CASE SendToDevice BY <1>11, ReplyType DEF SendToDevice
<1>12. CASE SendFails BY <1>12 DEF SendFails
<1> QED BY <1>1, <1>2, <1>3, <1>4, <1>5, <1>6, <1>7, <1>8, <1>9, <1>10, <1>11, <1>12
        DEF SpoofStep

\* So does the bound on what follows a stop.
LEMMA SpoofStepStop ==
  ASSUME TypeOK, SpoofTypeOK, StopInv, SpoofStep
  PROVE  StopInv'
<1> USE DEF SpoofTypeOK, StopInv, InFlight, history, Return, Loop
<1>1. CASE Begin BY <1>1 DEF Begin
<1>2. CASE Query BY <1>2 DEF Query
<1>3. ASSUME NEW m \in Macs, Filter(m) PROVE StopInv'
  BY <1>3 DEF Filter
<1>4. CASE EndFilter BY <1>4 DEF EndFilter
<1>5. CASE ReadGateway BY <1>5 DEF ReadGateway
<1>6. CASE Lookup BY <1>6 DEF Lookup
<1>7. CASE NextVictim BY <1>7 DEF NextVictim
<1>8. CASE EndLoop BY <1>8 DEF EndLoop
<1>9. CASE TestRunning BY <1>9 DEF TestRunning
<1>10. CASE SendToRouter BY <1>10, CountFacts DEF SendToRouter, Reply
<1>11. CASE SendToDevice BY <1>11, CountFacts DEF SendToDevice, Reply
<1>12. CASE SendFails BY <1>12 DEF SendFails
<1> QED BY <1>1, <1>2, <1>3, <1>4, <1>5, <1>6, <1>7, <1>8, <1>9, <1>10, <1>11, <1>12
        DEF SpoofStep

\* And so do those about the selected devices.
LEMMA SpoofStepDrop ==
  ASSUME TypeOK, SpoofTypeOK, OncePerDevice, DropInv, SpoofStep
  PROVE  OncePerDevice' /\ DropInv'
<1> USE ArpSpoofAssumption
    DEF SpoofTypeOK, OncePerDevice, DropInv, Pending, history, Return, Loop, Nobody,
        Pairs, deviceVars, columns
<1>1. CASE Begin BY <1>1 DEF Begin
<1>2. CASE Query BY <1>2 DEF Query, TypeOK
<1>3. ASSUME NEW m \in Macs, Filter(m) PROVE OncePerDevice' /\ DropInv'
  BY <1>3 DEF Filter
<1>4. CASE EndFilter BY <1>4 DEF EndFilter
<1>5. CASE ReadGateway BY <1>5 DEF ReadGateway
<1>6. CASE Lookup BY <1>6 DEF Lookup
<1>7. CASE NextVictim BY <1>7 DEF NextVictim
<1>8. CASE EndLoop BY <1>8 DEF EndLoop
<1>9. CASE TestRunning BY <1>9 DEF TestRunning
<1>10. CASE SendToRouter BY <1>10, CountFacts DEF SendToRouter, Reply
<1>11. CASE SendToDevice BY <1>11, CountFacts DEF SendToDevice, Reply
<1>12. CASE SendFails BY <1>12 DEF SendFails
<1> QED BY <1>1, <1>2, <1>3, <1>4, <1>5, <1>6, <1>7, <1>8, <1>9, <1>10, <1>11, <1>12
        DEF SpoofStep

\* And so does the bound on what follows a move of the gateway.
LEMMA SpoofStepMove ==
  ASSUME TypeOK, SpoofTypeOK, OncePerDevice, MoveInv, SpoofStep
  PROVE  MoveInv'
<1> USE ArpSpoofAssumption
    DEF SpoofTypeOK, OncePerDevice, MoveInv, Outdated, Pending, history, Return, Loop,
        Nobody, Pairs, deviceVars, columns
<1>1. CASE Begin BY <1>1 DEF Begin
<1>2. CASE Query BY <1>2 DEF Query
<1>3. ASSUME NEW m \in Macs, Filter(m) PROVE MoveInv'
  BY <1>3 DEF Filter
<1>4. CASE EndFilter BY <1>4 DEF EndFilter
<1>5. CASE ReadGateway BY <1>5 DEF ReadGateway
<1>6. CASE Lookup BY <1>6 DEF Lookup
<1>7. CASE NextVictim BY <1>7 DEF NextVictim
<1>8. CASE EndLoop BY <1>8 DEF EndLoop
<1>9. CASE TestRunning BY <1>9 DEF TestRunning
<1>10. CASE SendToRouter BY <1>10, CountFacts DEF SendToRouter, Reply
<1>11. CASE SendToDevice BY <1>11, CountFacts DEF SendToDevice, Reply
<1>12. CASE SendFails BY <1>12 DEF SendFails
<1> QED BY <1>1, <1>2, <1>3, <1>4, <1>5, <1>6, <1>7, <1>8, <1>9, <1>10, <1>11, <1>12
        DEF SpoofStep

\* Nobody else moves the thread or takes a row away.
LEMMA OthersKeep ==
  ASSUME StopInspector \/ Write \/ Other
  PROVE  /\ UNCHANGED <<pc, rows, targets, gateway, victim>>
         /\ listed \subseteq listed'
         /\ Write => pc # "filter" /\ conf' = conf
<1>1. CASE StopInspector
  BY <1>1 DEF StopInspector, Write, deviceVars, columns
<1>2. CASE Write
  BY <1>2 DEF Write, TableStep, ArpUpsert, DhcpUpsert, Upsert, HttpUserAgent,
              UserToggles, MdnsWrite, SsdpWrite, Advertise
<1>3. CASE Other
  <2>1. UNCHANGED columns
    BY <1>3 DEF Other, OtherStep, ArpCompare, DhcpCompare, Accept, ArpClassify,
                UpdateNetworkInfo
  <2>2. Write => pc # "filter" /\ conf' = conf
    BY DEF Write, TableStep, ArpUpsert, DhcpUpsert, HttpUserAgent, UserToggles,
           MdnsWrite, SsdpWrite, Advertise
  <2> QED BY <1>3, <2>1, <2>2 DEF Other, columns
<1> QED BY <1>1, <1>2, <1>3

\* The steps of everybody else.
LEMMA OthersInv ==
  ASSUME TypeOK, IInv, StopInspector \/ Write \/ Other
  PROVE  IInv'
<1> USE ArpSpoofAssumption DEF IInv
<1>0. /\ UNCHANGED <<pc, rows, targets, gateway, victim>>
      /\ \A m \in Macs : Pending(m)' = Pending(m) /\ Pending(m) \in 0..2
  BY OthersKeep DEF Pending
<1>1. CASE StopInspector
  <2>1. UNCHANGED <<is_inspected, conf, listed, afterDrop, afterMove>> /\ ~running'
    BY <1>1 DEF StopInspector, deviceVars, columns, history
  <2>2. SpoofTypeOK' /\ OncePerDevice'
    BY <1>0, <1>1, <2>1 DEF StopInspector, history, SpoofTypeOK, OncePerDevice
  <2>3. StopInv'
    BY <1>1 DEF StopInspector, history, StopInv, InFlight
  <2>4. DropInv' /\ MoveInv'
    BY <1>0, <2>1 DEF DropInv, MoveInv, Outdated
  <2> QED BY <2>2, <2>3, <2>4
<1>2. CASE Write
  <2>1. listed \subseteq listed' /\ pc # "filter" /\ conf' = conf
    BY <1>2, OthersKeep
  <2>2. \A m \in Macs : afterDrop'[m] = IF is_inspected[m] # is_inspected'[m]
                                        THEN 0 ELSE afterDrop[m]
    BY <1>2 DEF Write
  <2>3. UNCHANGED <<running, afterStop, afterMove>>
    BY <1>2 DEF Write
  <2>4. SpoofTypeOK'
    <3>1. afterDrop' \in [Macs -> 0..CountCap]
      BY <1>2 DEF Write, SpoofTypeOK
    <3> QED BY <1>0, <2>1, <2>3, <3>1 DEF SpoofTypeOK
  <2>5. StopInv' /\ OncePerDevice' /\ MoveInv'
    BY <1>0, <2>1, <2>3 DEF StopInv, InFlight, OncePerDevice, MoveInv, Outdated
  <2>6. DropInv'
    <3>1. is_inspected \in [Macs -> BOOLEAN] /\ is_inspected' \in [Macs -> BOOLEAN]
      BY <1>2, DevicesNextType, TableStepOrStutter DEF TypeOK, Next
    <3> QED BY <1>0, <2>2, <3>1 DEF DropInv
  <2> QED BY <2>4, <2>5, <2>6
<1>3. CASE Other
  <2>1. UNCHANGED <<columns, running, afterStop, afterDrop>>
    BY <1>3 DEF Other, OtherStep, ArpCompare, DhcpCompare, Accept, ArpClassify,
                UpdateNetworkInfo
  <2>2. afterMove' \in [Macs -> 0..CountCap]
    BY <1>3 DEF Other, SpoofTypeOK
  <2>3. SpoofTypeOK' /\ StopInv' /\ OncePerDevice' /\ DropInv'
    BY <1>0, <2>1, <2>2
       DEF columns, SpoofTypeOK, StopInv, InFlight, OncePerDevice, DropInv
  <2>4. MoveInv'
    <3>1. CASE conf'.gateway = conf.gateway
      BY <1>0, <1>3, <3>1 DEF Other, MoveInv, Outdated
    <3>2. CASE conf'.gateway # conf.gateway
      BY <1>0, <1>3, <3>2 DEF Other, MoveInv
    <3> QED BY <3>1, <3>2
  <2> QED BY <2>3, <2>4
<1> QED BY <1>1, <1>2, <1>3

\* Every step keeps the invariant.
LEMMA SpoofNext == TypeOK /\ IInv /\ [Next]_vars => IInv'
<1> SUFFICES ASSUME TypeOK, IInv, [Next]_vars PROVE IInv'
  OBVIOUS
<1>1. CASE SpoofStep
  BY <1>1, SpoofStepType, SpoofStepStop, SpoofStepDrop, SpoofStepMove DEF IInv
<1>2. CASE StopInspector \/ Write \/ Other
  BY <1>2, OthersInv
<1>3. CASE UNCHANGED vars
  BY <1>3 DEF vars, deviceVars, columns, spoofVars, history, IInv, SpoofTypeOK, StopInv,
              InFlight, OncePerDevice, DropInv, MoveInv, Outdated, Pending
<1> QED BY <1>1, <1>2, <1>3 DEF Next

\* The inductive invariant, with the table's type correctness beside it.
THEOREM SpoofInvariance == Spec => []IInv
<1>1. Spec => []TypeOK
  BY ImplementsDevices, DevicesTypeCorrect, PTL
<1> QED BY <1>1, SpoofInit, SpoofNext, PTL DEF Spec

\* The thread's variables keep their types.
THEOREM SpoofTypeCorrect == Spec => []SpoofTypeOK
<1>1. IInv => SpoofTypeOK BY DEF IInv
<1> QED BY <1>1, SpoofInvariance, PTL

\* At most two replies leave after is_running was lowered.
THEOREM SpoofingStops == Spec => []StopsSpoofing
<1>1. IInv => StopsSpoofing
  BY ArpSpoofAssumption DEF IInv, SpoofTypeOK, StopInv, InFlight, StopsSpoofing
<1> QED BY <1>1, SpoofInvariance, PTL

\* At most two replies about a device leave after the user deselected it.
THEOREM DeselectedAreReleased == Spec => []ReleasesDeselected
<1>1. IInv => ReleasesDeselected
  BY ArpSpoofAssumption DEF IInv, SpoofTypeOK, DropInv, Pending, ReleasesDeselected
<1> QED BY <1>1, SpoofInvariance, PTL

\* Whenever the gateway moves, also in the middle of an execution that has read the
\* former address: at most two replies per device still name it.
THEOREM GatewayIsFollowed == Spec => []FollowsGateway
<1>1. IInv => FollowsGateway
  BY ArpSpoofAssumption DEF IInv, SpoofTypeOK, MoveInv, Pending, FollowsGateway
<1> QED BY <1>1, SpoofInvariance, PTL

-----------------------------------------------------------------------------
(* The turns of a device.                                                  *)

\* Whatever the thread itself does next.
LEMMA SpoofStepComes ==
  ASSUME TypeOK, SpoofTypeOK, NEW m \in Macs, conf' = conf, Eligible(m), Due(m), SpoofStep
  PROVE  Due(m)' \/ HasTurn(m)'
<1> USE DEF Due, HasTurn
<1>1. CASE Begin BY <1>1 DEF Begin
<1>2. CASE Query BY <1>2 DEF Query
<1>3. ASSUME NEW n \in Macs, Filter(n) PROVE Due(m)'
  <2>1. CASE m \in rows /\ n # m
    BY <1>3, <2>1 DEF Filter
  <2>2. CASE m \in rows /\ n = m
    <3>1. [mac |-> m, ip |-> ip_address[m]] \in targets'
      BY <1>3, <2>2 DEF Filter, Eligible, Wanted
    <3>2. ip_address[m] # conf.gateway /\ pc' = "filter"
      BY <1>3 DEF Filter, Eligible, Wanted
    <3> QED BY <3>1, <3>2
  <2>3. CASE m \notin rows
    <3>1. PICK t \in targets : t.mac = m /\ t.ip # conf.gateway
      BY <1>3, <2>3 DEF Filter
    <3>2. t \in targets' /\ pc' = "filter"
      BY <1>3, <3>1 DEF Filter
    <3> QED BY <3>1, <3>2
  <2> QED BY <2>1, <2>2, <2>3
<1>4. CASE EndFilter
  <2>1. PICK t \in targets : t.mac = m /\ t.ip # conf.gateway
    BY <1>4 DEF EndFilter
  <2>2. targets' = targets /\ pc' = "address"
    BY <1>4, <2>1 DEF EndFilter
  <2> QED BY <2>1, <2>2
<1>5. CASE ReadGateway
  <2>1. targets' = targets /\ pc' = "lookup" /\ pc = "address"
    BY <1>5 DEF ReadGateway
  <2>2. gateway'.ip = conf.gateway
    BY <1>5 DEF ReadGateway, SpoofTypeOK
  <2> QED BY <2>1, <2>2
<1>6. CASE Lookup
  <2>1. pc = "lookup" /\ gateway.ip = conf.gateway
    BY <1>6 DEF Lookup
  <2>2. {g \in listed : ip_address[g] = gateway.ip} # {}
    BY <2>1 DEF Eligible, Wanted
  <2>3. /\ \E g \in listed : gateway' = [gateway EXCEPT !.mac = g]
        /\ pc' = "loop" /\ targets' = targets
    BY <1>6, <2>2 DEF Lookup
  <2>4. gateway'.ip = gateway.ip
    BY <2>3 DEF SpoofTypeOK
  <2> QED BY <2>1, <2>3, <2>4
<1>7. CASE NextVictim
  <2>1. PICK t \in targets :
          /\ targets' = targets \ {t}
          /\ IF t.ip = gateway.ip THEN UNCHANGED <<pc, victim>>
             ELSE pc' = "test" /\ victim' = t
    BY <1>7 DEF NextVictim
  <2>2. pc = "loop" /\ UNCHANGED gateway /\ gateway.ip = conf.gateway
    BY <1>7 DEF NextVictim
  <2>3. PICK u \in targets : u.mac = m /\ u.ip # conf.gateway
    BY <2>2
  <2>4. CASE u = t
    BY <2>1, <2>2, <2>3, <2>4
  <2>5. CASE u # t
    <3>1. u \in targets' /\ pc' \in {"loop", "test"}
      BY <2>1, <2>2, <2>3, <2>5
    <3> QED BY <2>2, <2>3, <3>1
  <2> QED BY <2>4, <2>5
<1>8. CASE EndLoop BY <1>8 DEF EndLoop
<1>9. CASE TestRunning
  <2>1. pc = "test" /\ pc' = "router" /\ UNCHANGED <<targets, gateway, victim>>
    BY <1>9 DEF TestRunning, Eligible, Wanted
  <2>2. PICK t \in targets \cup {victim} : t.mac = m /\ t.ip # conf.gateway
    BY <2>1
  <2>3. CASE t = victim
    BY <2>1, <2>2, <2>3
  <2>4. CASE t \in targets
    BY <2>1, <2>2, <2>4
  <2> QED BY <2>2, <2>3, <2>4
<1>10. CASE SendToRouter BY <1>10 DEF SendToRouter
<1>11. CASE SendToDevice BY <1>11 DEF SendToDevice, Loop
<1>12. CASE SendFails BY <1>12 DEF SendFails, Loop
<1> QED BY <1>1, <1>2, <1>3, <1>4, <1>5, <1>6, <1>7, <1>8, <1>9, <1>10, <1>11, <1>12
        DEF SpoofStep

\* For any machines and any other steps of the writers of the table: an eligible device
\* is selected by every query and is not skipped before its turn.
THEOREM NoTurnIsSkipped == Spec => TurnComes
<1>1. TypeOK /\ IInv /\ [Next]_vars =>
        [\A m \in Macs : conf' = conf /\ Eligible(m) /\ Eligible(m)' =>
           /\ Query => Due(m)'
           /\ Due(m) => Due(m)' \/ HasTurn(m)']_vars
  <2> SUFFICES ASSUME TypeOK, IInv, Next,
                      NEW m \in Macs, conf' = conf, Eligible(m)
               PROVE  /\ Query => Due(m)'
                      /\ Due(m) => Due(m)' \/ HasTurn(m)'
    OBVIOUS
  <2>1. Query => Due(m)'
    BY DEF Query, Eligible, Wanted, Due
  <2>2. CASE SpoofStep
    BY <2>1, <2>2, SpoofStepComes DEF IInv
  <2>3. CASE StopInspector \/ Write \/ Other
    <3>1. UNCHANGED <<pc, rows, targets, gateway, victim>>
      BY <2>3, OthersKeep
    <3> QED BY <2>1, <3>1 DEF Due
  <2> QED BY <2>2, <2>3 DEF Next
<1>2. Spec => []TypeOK
  BY ImplementsDevices, DevicesTypeCorrect, PTL
<1> QED BY <1>1, <1>2, SpoofInvariance, PTL DEF Spec, TurnComes
=============================================================================
