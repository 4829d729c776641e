----------------------------- MODULE GlobalState -----------------------------
(***************************************************************************)
(* The network information in global_state, global_state_lock which guards *)
(* it and rw_lock which guards the database, with every thread that takes  *)
(* either: update_network_info, which reads the routes piece by piece and  *)
(* publishes the pieces, and its readers.                                  *)
(*                                                                         *)
(* A thread is a program: a sequence of operations, each of them one step. *)
(* Threads call their functions again and again (SafeLoop), so a program   *)
(* that ended or raised begins anew.  What a function does with what it    *)
(* read is in the other modules.                                           *)
(***************************************************************************)
EXTENDS Naturals, Sequences

CONSTANTS
  Routes,      \* default routes the host may have, each with an interface
  NoRoute,     \* there is none; also: nothing was read yet
  Attempts,    \* how often get_default_route reads the route table
  MaxChanges,  \* how often the route changes at most
  Teams        \* the sets of readers that run beside the networking thread

Readers == {"arp_scanner", "packet_collector", "arp_spoof", "packet_processor",
            "update_hostnames", "ssdp_discovery", "mdns_discovery"}
Threads == Readers \cup {"networking"}

ASSUME GlobalStateAssumption ==
  /\ NoRoute \notin Routes
  /\ Attempts \in Nat \ {0}
  /\ MaxChanges \in Nat
  /\ \A team \in Teams : team \subseteq Readers

-----------------------------------------------------------------------------
(* The programs.                                                           *)

Locks == {"global_state_lock", "rw_lock"}
Fields == {"gateway_ip_addr", "host_active_interface", "host_ip_addr", "host_mac_addr",
           "ip_range"}

Acquire(lock) == [do |-> "acquire", what |-> lock]
Release(lock) == [do |-> "release", what |-> lock]
Read(field) == [do |-> "read", what |-> field]
Write(field) == [do |-> "write", what |-> field]
Call(name) == [do |-> "call", what |-> name]

\* A section that touches none of the fields and takes no other lock is one step.
Pass(lock) == [do |-> "pass", what |-> lock]
\* inspector_is_running, and other reads of flags.
IsRunning == Pass("global_state_lock")
\* Statements of SQL.
Query == Pass("rw_lock")

\* Mutation: the range, which takes long, is stored after the section.
UpdateNetworkInfo_RangeLater ==
  << Call("address"), Call("route"), Call("address"), Call("interface"), Call("mac"),
     Call("address"), Call("mask"), Call("address"), Call("range"),
     Acquire("global_state_lock"),
     Write("gateway_ip_addr"), Write("host_active_interface"), Write("host_ip_addr"),
     Write("host_mac_addr"),
     Release("global_state_lock"),
     Write("ip_range") >>

\* get_default_route asks the system for its own address, then for the routes.
\* get_network_ip_range calls it again after get_network_mask did.
UpdateNetworkInfo ==
  << Call("address"), Call("route"), Call("address"), Call("interface"), Call("mac"),
     Call("address"), Call("mask"), Call("address"), Call("range"),
     Acquire("global_state_lock"),
     Write("gateway_ip_addr"), Write("host_active_interface"), Write("host_ip_addr"),
     Write("host_mac_addr"), Write("ip_range"),
     Release("global_state_lock") >>

ArpScanner ==
  << IsRunning,
     Acquire("global_state_lock"),
     Read("ip_range"), Read("host_mac_addr"), Read("host_active_interface"),
     Release("global_state_lock") >>

\* The stop filter is asked for every packet.
PacketCollector ==
  << Acquire("global_state_lock"),
     Read("host_active_interface"), Read("host_ip_addr"),
     Release("global_state_lock"),
     IsRunning >>

\* With one row that is selected: the rows are compared while rw_lock is held, the
\* gateway is read and looked up afterwards, the host's address when replies are made.
ArpSpoof ==
  << IsRunning,
     Acquire("rw_lock"), Acquire("global_state_lock"),
     Read("gateway_ip_addr"), Read("host_ip_addr"), Read("host_mac_addr"),
     Release("global_state_lock"), Release("rw_lock"),
     Read("gateway_ip_addr"), Query, Read("host_mac_addr"), IsRunning >>

\* Mutation: the look-up is made while global_state_lock is held.
ProcessDns_Nested ==
  << IsRunning, Read("host_ip_addr"),
     Acquire("global_state_lock"),
     Read("host_mac_addr"), Read("gateway_ip_addr"), Query,
     Release("global_state_lock"),
     Query >>

\* process_packet_helper with process_dns: the look-up, then the write.
ProcessDns ==
  << IsRunning, Read("host_ip_addr"),
     Acquire("global_state_lock"),
     Read("host_mac_addr"), Read("gateway_ip_addr"),
     Release("global_state_lock"),
     Query, Query >>

\* The same with process_arp.
ProcessArp ==
  << IsRunning, Read("host_mac_addr"),
     Acquire("global_state_lock"), Read("gateway_ip_addr"), Release("global_state_lock"),
     Query >>

\* Its section reads inspector_started_ts.
SsdpDiscovery == << IsRunning, IsRunning, Query >>

MdnsDiscovery == << IsRunning, Query >>

Programs ==
  [networking |-> {UpdateNetworkInfo},
   arp_scanner |-> {ArpScanner},
   packet_collector |-> {PacketCollector},
   arp_spoof |-> {ArpSpoof},
   packet_processor |-> {ProcessDns, ProcessArp},
   update_hostnames |-> {<<Query>>},
   ssdp_discovery |-> {SsdpDiscovery},
   mdns_discovery |-> {MdnsDiscovery}]

-----------------------------------------------------------------------------

VARIABLES
  route,      \* the host's default route now
  changes,    \* how often it changed
  info,       \* the fields of global_state, each a route or what it was made of
  holder,     \* who holds each lock, or nobody
  running,    \* the threads that run
  program,    \* what each thread executes
  step,       \* the operation it executes next
  seen,       \* what each reader has read while it holds global_state_lock
  address,    \* locals of update_network_info: the source address that the socket had
  mask,       \* the network mask, as the route whose it is, or NoRoute
  draft,      \* what it is going to publish
  tries,      \* how often the current get_default_route found no route in the table
  published   \* history: what update_network_info published last

networkingVars == <<address, mask, draft, tries>>
vars == <<route, changes, info, holder, running, program, step, seen, networkingVars,
          published>>

Nobody == "nobody"
NoRange == <<>>
Ranges == {NoRange} \cup (Routes \X Routes)

\* ip_range is computed from a mask and a gateway.
InfoOf(r) == [f \in Fields |-> IF f = "ip_range" THEN <<r, r>> ELSE r]
Unknown == [f \in Fields |-> IF f = "ip_range" THEN NoRange ELSE NoRoute]
Infos == {i \in [Fields -> Routes \cup {NoRoute} \cup Ranges] :
            \A f \in Fields : i[f] \in IF f = "ip_range" THEN Ranges ELSE Routes \cup {NoRoute}}

\* The operation that t executes next.
Operation(t) == program[t][step[t]]

TypeOK ==
  /\ route \in Routes \cup {NoRoute}
  /\ changes \in 0 .. MaxChanges
  /\ info \in Infos /\ draft \in Infos
  /\ holder \in [Locks -> Threads \cup {Nobody}]
  /\ running \subseteq Threads /\ "networking" \in running
  /\ \A t \in Threads : program[t] \in Programs[t] /\ step[t] \in DOMAIN program[t]
  /\ seen \in [Readers -> [Fields -> Routes \cup {NoRoute} \cup Ranges]]
  /\ address \in Routes \cup {NoRoute} /\ mask \in Routes \cup {NoRoute}
  /\ tries \in 0 .. Attempts - 1
  /\ published \in Infos

\* start_threads has updated the network information before it starts the threads.
Init ==
  /\ route \in Routes
  /\ changes = 0
  /\ info = InfoOf(route)
  /\ holder = [l \in Locks |-> Nobody]
  /\ \E team \in Teams : running = team \cup {"networking"}
  /\ program = [t \in Threads |-> CHOOSE p \in Programs[t] : TRUE]
  /\ step = [t \in Threads |-> 1]
  /\ seen = [t \in Readers |-> Unknown]
  /\ address = NoRoute /\ mask = NoRoute /\ draft = Unknown /\ tries = 0
  /\ published = info

\* t goes on to the operation after next, or its function is called again.
Goto(t, next) ==
  IF next \in DOMAIN program[t]
  THEN step' = [step EXCEPT ![t] = next] /\ UNCHANGED program
  ELSE /\ step' = [step EXCEPT ![t] = 1]
       /\ \E p \in Programs[t] : program' = [program EXCEPT ![t] = p]

Proceed(t) == Goto(t, step[t] + 1)

-----------------------------------------------------------------------------
(* Operations of every thread.                                             *)

\* update_network_info returns: what it wrote is published.
RecordPublication(t) ==
  published' = IF t = "networking" /\ step[t] = Len(program[t])
               THEN info' ELSE published

AcquireLock(t) ==
  LET lock == Operation(t).what IN
  /\ Operation(t).do = "acquire"
  /\ holder[lock] = Nobody
  /\ holder' = [holder EXCEPT ![lock] = t]
  /\ Proceed(t)
  /\ UNCHANGED <<route, changes, info, running, seen, networkingVars, published>>

PassLock(t) ==
  /\ Operation(t).do = "pass"
  /\ holder[Operation(t).what] = Nobody
  /\ Proceed(t)
  /\ UNCHANGED <<route, changes, info, holder, running, seen, networkingVars, published>>

ReleaseLock(t) ==
  /\ Operation(t).do = "release"
  /\ holder' = [holder EXCEPT ![Operation(t).what] = Nobody]
  /\ seen' = IF t \in Readers /\ Operation(t).what = "global_state_lock"
             THEN [seen EXCEPT ![t] = Unknown] ELSE seen
  /\ Proceed(t)
  /\ UNCHANGED <<route, changes, info, running, networkingVars>>
  /\ RecordPublication(t)

\* With or without the lock; what comes of values read without it is in ArpSpoof,
\* Flows and Devices.
ReadField(t) ==
  LET field == Operation(t).what IN
  /\ Operation(t).do = "read"
  /\ seen' = IF holder["global_state_lock"] = t
             THEN [seen EXCEPT ![t][field] = info[field]] ELSE seen
  /\ Proceed(t)
  /\ UNCHANGED <<route, changes, info, holder, running, networkingVars, published>>

WriteField(t) ==
  LET field == Operation(t).what IN
  /\ Operation(t).do = "write"
  /\ info' = [info EXCEPT ![field] = draft[field]]
  /\ Proceed(t)
  /\ UNCHANGED <<route, changes, holder, running, seen, networkingVars>>
  /\ RecordPublication(t)

-----------------------------------------------------------------------------
(* What only update_network_info does, all of it without a lock.           *)

Calls(name) == Operation("networking") = Call(name)
KeepsShared == UNCHANGED <<route, changes, info, holder, running, seen, published>>

\* An exception ends the call; SafeLoopThread calls the function again.
Raise ==
  /\ Goto("networking", 1)
  /\ UNCHANGED networkingVars

\* get_default_route begins: the source address of a socket, or RuntimeError.
GetAddress ==
  /\ Calls("address")
  /\ KeepsShared
  /\ \/ route = NoRoute /\ Raise
     \/ /\ route # NoRoute
        /\ address' = route
        /\ tries' = 0
        /\ IF step["networking"] = 1
           THEN draft' = Unknown
           ELSE UNCHANGED draft
        /\ Proceed("networking")
        /\ UNCHANGED mask

TableCalls == {"route", "interface", "mask", "range"}

\* Mutation: as long as it takes.
NoTable_ForEver ==
  /\ \E name \in TableCalls : Calls(name)
  /\ route = NoRoute
  /\ tries' = tries + 1
  /\ UNCHANGED <<address, mask, draft, program, step>>
  /\ KeepsShared

\* The table has no default route: try again, RuntimeError in the end.
NoTable ==
  /\ \E name \in TableCalls : Calls(name)
  /\ route = NoRoute
  /\ IF tries + 1 < Attempts
     THEN tries' = tries + 1 /\ UNCHANGED <<address, mask, draft, program, step>>
     ELSE Raise
  /\ KeepsShared

\* update_network_info gets a route and the interface's address from the table, but
\* its own address from the socket.
GetRoute ==
  /\ Calls("route")
  /\ route # NoRoute
  /\ draft' = [draft EXCEPT !["gateway_ip_addr"] = route,
                            !["host_active_interface"] = route,
                            !["host_ip_addr"] = address]
  /\ Proceed("networking")
  /\ UNCHANGED <<address, mask, tries>>
  /\ KeepsShared

\* get_my_mac finds the interface once more and asks for its hardware address, which
\* fails (KeyError) when the interface is gone.
GetInterface ==
  /\ Calls("interface")
  /\ route # NoRoute
  /\ draft' = [draft EXCEPT !["host_mac_addr"] = route]
  /\ Proceed("networking")
  /\ UNCHANGED <<address, mask, tries>>
  /\ KeepsShared

GetMac ==
  /\ Calls("mac")
  /\ \/ Proceed("networking") /\ UNCHANGED networkingVars
     \/ route # draft["host_mac_addr"] /\ Raise
  /\ KeepsShared

\* Mutation: the mask is cached.
GetMask_Cached ==
  /\ Calls("mask")
  /\ route # NoRoute
  /\ mask' = IF mask # NoRoute THEN mask ELSE IF address = route THEN route ELSE NoRoute
  /\ Goto("networking", step["networking"] + IF mask' = NoRoute THEN 3 ELSE 1)
  /\ UNCHANGED <<address, draft, tries>>
  /\ KeepsShared

\* get_network_mask looks for its own address at the interface of the route; without
\* a mask get_network_ip_range returns no addresses.
GetMask ==
  /\ Calls("mask")
  /\ route # NoRoute
  /\ mask' = IF address = route THEN route ELSE NoRoute
  /\ Goto("networking", step["networking"] + IF mask' = NoRoute THEN 3 ELSE 1)
  /\ UNCHANGED <<address, draft, tries>>
  /\ KeepsShared

\* get_network_ip_range applies the mask to the gateway of the moment.
GetRange ==
  /\ Calls("range")
  /\ route # NoRoute
  /\ draft' = [draft EXCEPT !["ip_range"] = <<mask, route>>]
  /\ Proceed("networking")
  /\ UNCHANGED <<address, mask, tries>>
  /\ KeepsShared

-----------------------------------------------------------------------------

\* The host connects to another network, or to none.
ChangeRoute ==
  /\ changes < MaxChanges
  /\ changes' = changes + 1
  /\ route' \in (Routes \cup {NoRoute}) \ {route}
  /\ UNCHANGED <<info, holder, running, program, step, seen, networkingVars, published>>

Unblocked(t) ==
  \/ ReleaseLock(t)
  \/ t # "networking" /\ ReadField(t)
  \/ t = "networking" /\ (WriteField(t) \/ GetAddress \/ NoTable \/ GetRoute \/ GetInterface
                          \/ GetMac \/ GetMask \/ GetRange)

Locking(t) == AcquireLock(t) \/ PassLock(t)

Next == ChangeRoute \/ \E t \in running : Locking(t) \/ Unblocked(t)

Spec == Init /\ [][Next]_vars

\* The networking thread goes on, and gets the lock if it is free again and again;
\* whoever holds a lock goes on.
Fairness ==
  /\ WF_vars(Unblocked("networking"))
  /\ SF_vars(Locking("networking"))
  /\ WF_vars(\E t \in running \ {"networking"} : Unblocked(t))

FairSpec == Spec /\ Fairness

-----------------------------------------------------------------------------
(* Properties.                                                             *)

Wants(t, lock) == Operation(t).do \in {"acquire", "pass"} /\ Operation(t).what = lock

\* arp_spoof takes global_state_lock while it holds rw_lock; no thread waits, directly
\* or through another, for a lock that it holds itself.
NoWaitCycle ==
  /\ \A t \in running, l \in Locks : ~(holder[l] = t /\ Wants(t, l))
  /\ \A t, u \in running : \A l, m \in Locks :
       ~(holder[l] = t /\ Wants(t, m) /\ holder[m] = u /\ Wants(u, l))

\* What a reader reads in one section that holds global_state_lock was published
\* together: never the gateway of one network with the interface of another, unless
\* update_network_info itself mixed them.
SnapshotsConsistent ==
  \A t \in running \cap Readers :
    \A f \in Fields : seen[t][f] \in {Unknown[f], published[f]}

\* The lock makes one publication of five assignments and one snapshot of the reads of a
\* section: what is published is replaced as a whole, and never while a reader is in the
\* middle of reading it, although the route may change between any two of the calls.
Board == INSTANCE Publication WITH Records <- Infos, Nothing <- Unknown, view <- seen
ImplementsPublication == Board!Spec

\* When the host stays in one network in the end, its data are published in the end,
\* whatever was mixed, failed or raised before.
Converges == \A r \in Routes : <>[](route = r) => <>[](info = InfoOf(r))
=============================================================================
