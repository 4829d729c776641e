------------------------------- MODULE ArpSpoof -------------------------------
(***************************************************************************)
(* The spoofing thread of src/libinspector/arp_spoof.py, running beside    *)
(* the writers of the devices table: it selects the victims under rw_lock, *)
(* then reads the gateway's address without a lock, looks up the gateway's *)
(* hardware address under rw_lock again, and then sends two ARP replies    *)
(* per victim, while the table and the network information go on changing. *)
(***************************************************************************)
EXTENDS Devices

CONSTANTS
  SpoofRouter,  \* ARP_SPOOF_ROUTER
  SpoofDevice,  \* ARP_SPOOF_DEVICE
  CountCap      \* the history counters stop at this bound

ASSUME ArpSpoofAssumption ==
  /\ SpoofRouter \in BOOLEAN /\ SpoofDevice \in BOOLEAN
  /\ CountCap \in Nat
  /\ Null \notin Macs \cup Ips

VARIABLES
  running,    \* global_state.is_running
  pc,         \* where the thread is in arp_spoof.start
  rows,       \* the rows of its query that it has not looked at
  targets,    \* inspected_device_list, or what is left of it in the second loop
  gateway,    \* gateway_ip_addr and gateway_mac_addr, the local variables
  victim,     \* the device that send_spoofed_arp is called for
  afterStop,  \* history: replies sent since is_running was lowered
  afterDrop,  \* history: replies about each device since it was deselected
  afterMove   \* history: those that use another gateway than the published one,
              \* since that was published

history == <<afterStop, afterDrop, afterMove>>
spoofVars == <<running, pc, rows, targets, gateway, victim, history>>
vars == <<deviceVars, spoofVars>>

Places == { "idle",      \* between two executions
            "query",     \* is_running was set
            "filter",    \* going through the rows, holding rw_lock
            "address",   \* about to read gateway_ip_addr
            "lookup",    \* about to call get_mac_address_from_ip
            "loop",      \* about to take the next victim
            "test",      \* in send_spoofed_arp, about to test is_running
            "router",    \* about to send the reply to the gateway
            "device" }   \* about to send the reply to the victim

Pairs == [mac : Macs, ip : Ips]

\* What a local variable holds before it is assigned and after the return.
Nobody == [mac |-> Null, ip |-> Null]

\* No property distinguishes more than three.
Count(n) == IF n < CountCap THEN n + 1 ELSE n

\* The types of the thread's variables; those of the table are in TypeOK.
SpoofTypeOK ==
  /\ running \in BOOLEAN
  /\ pc \in Places
  /\ rows \subseteq listed
  /\ targets \subseteq Pairs
  /\ gateway \in [mac : Macs \cup {Null}, ip : Ips \cup {Null}]
  /\ victim \in Pairs \cup {Nobody}
  /\ pc \in {"test", "router", "device"} <=> victim # Nobody
  /\ pc \in {"loop", "test", "router", "device"} <=> gateway.mac # Null
  /\ afterStop \in 0..CountCap
  /\ afterDrop \in [Macs -> 0..CountCap]
  /\ afterMove \in [Macs -> 0..CountCap]
  /\ pc # "filter" => rows = {}

Init ==
  /\ DevicesInit
  /\ running = TRUE
  /\ pc = "idle"
  /\ rows = {}
  /\ targets = {}
  /\ gateway = Nobody
  /\ victim = Nobody
  /\ afterStop = 0
  /\ afterDrop = [m \in Macs |-> 0]
  /\ afterMove = [m \in Macs |-> 0]

-----------------------------------------------------------------------------
(* arp_spoof.start: who is to be spoofed.                                  *)

\* The execution ends and its local variables are gone.
Return ==
  /\ pc' = "idle"
  /\ targets' = {}
  /\ gateway' = Nobody
  /\ victim' = Nobody

\* An execution that finds is_running lowered returns at once.
Begin ==
  /\ pc = "idle"
  /\ running
  /\ pc' = "query"
  /\ UNCHANGED <<deviceVars, running, rows, targets, gateway, victim, history>>

\* Mutation: the query does not select by is_inspected.
Query_Everybody ==
  /\ pc = "query"
  /\ rows' = {m \in listed : ~is_gateway[m]}
  /\ targets' = {}
  /\ pc' = "filter"
  /\ UNCHANGED <<deviceVars, running, gateway, victim, history>>

\* Takes rw_lock, which is held until EndFilter.
Query ==
  /\ pc = "query"
  /\ rows' = {m \in listed : is_inspected[m] /\ ~is_gateway[m]}
  /\ targets' = {}
  /\ pc' = "filter"
  /\ UNCHANGED <<deviceVars, running, gateway, victim, history>>

\* global_state_lock is taken for every row, so the network information may
\* change between two rows.
Filter(m) ==
  /\ pc = "filter"
  /\ m \in rows
  /\ rows' = rows \ {m}
  /\ targets' = IF ip_address[m] \in {conf.gateway, conf.ip} \/ m = conf.mac
                THEN targets
                ELSE targets \cup {[mac |-> m, ip |-> ip_address[m]]}
  /\ UNCHANGED <<deviceVars, running, pc, gateway, victim, history>>

\* Mutation: rw_lock is released before the last row was looked at.
EndFilter_Early ==
  /\ pc = "filter"
  /\ pc' = IF targets = {} THEN "idle" ELSE "address"
  /\ UNCHANGED <<deviceVars, running, rows, targets, gateway, victim, history>>

EndFilter ==
  /\ pc = "filter"
  /\ rows = {}
  /\ pc' = IF targets = {} THEN "idle" ELSE "address"
  /\ UNCHANGED <<deviceVars, running, rows, targets, gateway, victim, history>>

ReadGateway ==
  /\ pc = "address"
  /\ gateway' = [gateway EXCEPT !.ip = conf.gateway]
  /\ pc' = "lookup"
  /\ UNCHANGED <<deviceVars, running, rows, targets, victim, history>>

\* get_mac_address_from_ip returns the first row that the database happens to
\* find, or raises KeyError, which ends the execution.
Lookup ==
  /\ pc = "lookup"
  /\ LET owners == {m \in listed : ip_address[m] = gateway.ip} IN
       \/ owners = {} /\ Return
       \/ /\ \E m \in owners : gateway' = [gateway EXCEPT !.mac = m]
          /\ pc' = "loop"
          /\ UNCHANGED <<targets, victim>>
  /\ UNCHANGED <<deviceVars, running, rows, history>>

-----------------------------------------------------------------------------
(* The loop over the victims and send_spoofed_arp.                         *)

\* send_spoofed_arp returns if the victim's address is the gateway's.
NextVictim ==
  /\ pc = "loop"
  /\ \E t \in targets :
       /\ targets' = targets \ {t}
       /\ IF t.ip = gateway.ip
          THEN UNCHANGED <<pc, victim>>
          ELSE pc' = "test" /\ victim' = t
  /\ UNCHANGED <<deviceVars, running, rows, gateway, history>>

EndLoop ==
  /\ pc = "loop"
  /\ targets = {}
  /\ Return
  /\ UNCHANGED <<deviceVars, running, rows, history>>

\* The turn of this victim is over.
Loop == pc' = "loop" /\ victim' = Nobody

\* Mutation: is_running is tested only when the execution begins.
TestRunning_Never ==
  /\ pc = "test"
  /\ pc' = "router"
  /\ UNCHANGED <<deviceVars, running, rows, targets, gateway, victim, history>>

\* "Do not spoof packets if we're not globally inspecting."
TestRunning ==
  /\ pc = "test"
  /\ IF running THEN pc' = "router" /\ UNCHANGED victim ELSE Loop
  /\ UNCHANGED <<deviceVars, running, rows, targets, gateway, history>>

\* A reply about the victim leaves the host.
Reply ==
  /\ afterStop' = IF running THEN afterStop ELSE Count(afterStop)
  /\ afterDrop' = IF is_inspected[victim.mac] THEN afterDrop
                  ELSE [afterDrop EXCEPT ![victim.mac] = Count(@)]
  /\ afterMove' = IF gateway.ip = conf.gateway THEN afterMove
                  ELSE [afterMove EXCEPT ![victim.mac] = Count(@)]

\* To the gateway: the victim's address is at the host.
SendToRouter ==
  /\ pc = "router"
  /\ IF SpoofRouter THEN Reply ELSE UNCHANGED history
  /\ pc' = "device"
  /\ UNCHANGED <<deviceVars, running, rows, targets, gateway, victim>>

\* To the victim: the gateway's address is at the host.
SendToDevice ==
  /\ pc = "device"
  /\ IF SpoofDevice THEN Reply ELSE UNCHANGED history
  /\ Loop
  /\ UNCHANGED <<deviceVars, running, rows, targets, gateway>>

\* Mutation: an exception ends the loop, not only this victim's turn.
SendFails_EndsLoop ==
  /\ pc \in {"router", "device"}
  /\ IF pc = "router" THEN SpoofRouter ELSE SpoofDevice
  /\ Return
  /\ UNCHANGED <<deviceVars, running, rows, history>>

\* Mutation: a victim is tried again until sending works.
SendFails_Retries ==
  /\ pc \in {"router", "device"}
  /\ IF pc = "router" THEN SpoofRouter ELSE SpoofDevice
  /\ pc' = "test"
  /\ UNCHANGED <<deviceVars, running, rows, targets, gateway, victim, history>>

\* sendp raises; the exception is logged and the next victim's turn comes.
SendFails ==
  /\ pc \in {"router", "device"}
  /\ IF pc = "router" THEN SpoofRouter ELSE SpoofDevice
  /\ Loop
  /\ UNCHANGED <<deviceVars, running, rows, targets, gateway, history>>

-----------------------------------------------------------------------------

SpoofStep ==
  \/ Begin \/ Query \/ (\E m \in Macs : Filter(m)) \/ EndFilter \/ ReadGateway
  \/ Lookup \/ NextVictim \/ EndLoop \/ TestRunning \/ SendToRouter \/ SendToDevice
  \/ SendFails

\* clean_up lowers is_running.
StopInspector ==
  /\ running
  /\ running' = FALSE
  /\ UNCHANGED <<deviceVars, pc, rows, targets, gateway, victim, history>>

\* A writer of the table waits while the thread goes through its rows.
Write ==
  /\ pc # "filter"
  /\ TableStep
  /\ afterDrop' = [m \in Macs |->
       IF is_inspected[m] # is_inspected'[m] THEN 0 ELSE afterDrop[m]]
  /\ UNCHANGED <<running, pc, rows, targets, gateway, victim, afterStop, afterMove>>

\* The steps of the others that do not touch the table.
Other ==
  /\ OtherStep
  /\ afterMove' = IF conf'.gateway = conf.gateway THEN afterMove
                  ELSE [m \in Macs |-> 0]
  /\ UNCHANGED <<running, pc, rows, targets, gateway, victim, afterStop, afterDrop>>

Next == SpoofStep \/ StopInspector \/ Write \/ Other

Spec == Init /\ [][Next]_vars

\* SafeLoop executes arp_spoof.start again and again, and sendp returns.
FairSpec == Spec /\ WF_vars(SpoofStep)

-----------------------------------------------------------------------------
(* Properties.                                                             *)

\* Once clean_up has lowered is_running, at most the two replies of one victim
\* still leave: forwarding is about to be turned off.
StopsSpoofing == afterStop <= 2

\* Once the user deselects a device, at most the two replies of one execution
\* about it still leave.
ReleasesDeselected ==
  \A m \in Macs : ~is_inspected[m] => afterDrop[m] <= 2

\* Once another gateway is published, at most the two replies of one execution per
\* device still name an earlier one, though the gateway is read without a lock and
\* used until the last victim's turn is over.
FollowsGateway == \A m \in Macs : afterMove[m] <= 2

\* Device m is to be spoofed: selected, reachable, not the host, not at the gateway's
\* address, and the gateway's hardware address is known.
Wanted(m) ==
  /\ running
  /\ m \in listed /\ is_inspected[m] /\ m # conf.mac
  /\ ip_address[m] \notin {conf.gateway, conf.ip}
  /\ \E g \in listed : ip_address[g] = conf.gateway

\* The query selects it if it is not taken for the gateway.
Eligible(m) == Wanted(m) /\ ~is_gateway[m]

\* This execution will come to device m: its row was selected, or it is a target at
\* another address than the gateway's.
Due(m) ==
  \/ pc = "filter" /\ m \in rows
  \/ /\ pc \notin {"idle", "query"}
     /\ pc \in {"filter", "address"} \/ gateway.ip = conf.gateway
     /\ \E t \in targets \cup (IF pc = "test" THEN {victim} ELSE {}) :
          t.mac = m /\ t.ip # conf.gateway

HasTurn(m) == pc = "router" /\ victim.mac = m

\* While a device is eligible its query selects it, and from then on it is due until it
\* has its turn: nothing that happens to the other rows, to its own address or to the
\* packets of other victims skips it.
TurnComes ==
  [][\A m \in Macs : conf' = conf /\ Eligible(m) /\ Eligible(m)' =>
       /\ Query => Due(m)'
       /\ Due(m) => Due(m)' \/ HasTurn(m)']_vars

\* Device m is seen: the row of an ARP packet that it sent is written.
Seen(m) == \E p \in packet : p.mac = m /\ ArpUpsert(p)

\* A device that stays wanted and goes on being seen has its turn again and again,
\* whatever happens to the other rows, however often sending to any victim fails, and
\* also if it was at the gateway's address once and its row still says so.
KeepsSpoofing ==
  \A m \in Macs : \A k \in Confs :
    <>[](conf = k /\ Wanted(m)) /\ []<><<Seen(m)>>_vars => []<>HasTurn(m)
=============================================================================
