# Verification of inspector-core-library

TLA+ models of the Inspector core (`src/src/libinspector`), the TLC runs that check
them and the theorems that TLAPS proves about them. `PROJECT.json` lists, for every
definition, the lines of code it stands for, for every property a mutation of the code
that breaks it, and the hazards the properties are for.

File names below are relative to `src/src/libinspector`.

## The system

The library watches a home network. `start_threads` prepares the host and starts eight
daemon threads, which share one process, one lock for the global state, one SQLite
connection with a lock of its own (`rw_lock`) and one packet queue.

| Component | State | Operations | Hard behaviour | What makes it correct |
|---|---|---|---|---|
| `core` | `inspector_started`, `is_running`, `active_threads`, `db_conn_and_lock` | `start_threads`, `clean_up`, `main` | concurrent and repeated starts, failures half-way, clean-up during a start | one instance; it works on its own database; its threads end; host settings come back |
| `safe_loop` | `_stop_event`, `_run_event` | the loop, `pause`, `resume`, `stop`, `join` | races of the two events with the loop, exceptions, two calls per iteration | an exception ends nothing; pause and stop take effect soon; a stopped thread ends |
| `networking` | `gateway_ip_addr`, `host_*`, `ip_range`, `icmp_redirect_enabled`; the operating system's settings | `enable_ip_forwarding`, `disable_ip_forwarding`, `update_network_info`, address look-ups | commands that fail half-way, settings captured twice, several reads of the route table | what was changed is restored; readers see one consistent configuration |
| `mem_db` | tables `devices`, `hostnames`, `network_flows` | `initialize_db` | many writers | writers do not undo each other |
| `packet_collector` | (the queue) | `start`: one sniffing session | the stop filter is asked only when a packet arrives | little is captured after the stop |
| `packet_processor` | the queue, its local list | `start`, `process_arp`, `process_dhcp`, `process_dns`, `process_flow`, `process_client_hello`, `process_http_user_agent`, `update_hostnames_in_flows` | exceptions and stops in the middle of a list, network information read and used later | order, no duplicates, no packet forgotten; rows say what was seen |
| `arp_spoof` | locals only | `start`, `send_spoofed_arp` | a selection used after its lock is released, a flag that changes meanwhile, sends that fail | nobody is deceived who must not be; spoofing stops; everybody selected is spoofed |
| `arp_scanner` | none | `start`: one ARP request per address | none of its own | |
| `mdns_discovery`, `ssdp_discovery` | locals; `metadata_json` | `start` | findings older than the rows they are written to; waits that ignore the stop | facts reach the right device; the threads end |
| `oui_parser`, `privacy` | tables filled on first use | look-ups | first use by two threads | answers come from a complete table |
| `tls_processor`, `common` | none | parsing, `inspector_is_running`, `get_os` | | |

How they interact: every thread is a `SafeLoopThread` that calls one `start` function again
and again. `packet_collector` puts packets into `global_state.packet_queue`,
`packet_processor` takes them out and writes the tables. `mdns_discovery`,
`ssdp_discovery` and the program that uses the library write the `devices` table, too.
`networking` publishes what the host's own addresses and the gateway's are, which
`packet_processor` and `arp_spoof` read, sometimes without the lock. `arp_spoof` reads the
table and deceives devices and gateway, so that their traffic passes the host, which must
forward it as long as they are deceived. `clean_up` lowers `is_running`, stops all
threads, waits for them a little, and undoes the host's settings.

## Modules

| Module | Models | Uses |
|---|---|---|
| `Iterations` | how a thread calls its function, as far as the functions can tell (abstract) | |
| `SafeLoop` | `safe_loop.py` | instance of `Iterations` |
| `InspectorService` | what `start_threads` and `clean_up` promise (abstract) | |
| `Lifecycle` | `core.py`, forwarding and redirects of `networking.py` | instance of `InspectorService` |
| `Addresses` | what the `devices` table and the network information are to those who look up an address (abstract) | |
| `Devices` | the `devices` table and its writers | instance of `Addresses` |
| `ArpSpoof` | `arp_spoof.py` beside all of `Devices` | extends `Devices` |
| `PacketChannel` | what the pipeline promises (abstract) | |
| `Pipeline` | `packet_collector.start`, `packet_processor.start`, the queue, their stop | instance of `PacketChannel` |
| `Flows` | `process_dns`, `process_client_hello`, `process_flow`, `update_hostnames_in_flows`; tables `hostnames` and `network_flows` | extends `Addresses` |
| `Publication` | what `global_state_lock` makes of the network information (abstract) | |
| `GlobalState` | `global_state_lock`, `rw_lock` and all who take them; `update_network_info` and its readers | instance of `Publication` |
| `Discovery` | `mdns_discovery.py`, `ssdp_discovery.py` | extends `Addresses` |
| `MCDevices`, `MCArpSpoof`, `MCFlows`, `MCGlobalState`, `MCDiscovery` | constants for the runs | |
| `*_proofs` | theorems | the module they are about |

**SafeLoop.** `pc[t]` is the place of thread `t` in `_execute_repeated_func_safe`: `check`
(line 104), `gate` and `parked` (107), `recheck` (110), `begin` (past that test, about to make
the call of line 113), `first` (in that call), `second` (the call of line 127), `backoff`
(131), `sleep` (134), `exited`. `hold` and `held` are the wait on `run_event` with which some
functions begin when they receive it; the first call does not pass it, so they wait only in
the second. `stop()` is two steps. `Event.set` moves a parked thread past its wait at once:
CPython's `Event.wait` does not test the flag again after it was notified, so a set() that is
followed by a clear() still wakes. `sinceSleep`, `sincePause` and `sinceStop` are history.
`Iterations` knows neither of the events nor of the places, only in which of the two calls of
an iteration a thread is, and who was told to stop; `ImplementsIterations` maps `pc` to the
call (`begin` belongs to the first, a wait of `held` to the second) and `stop_event` to
`told`; an iteration begins there with its last test of `stop_event`, which a stop may follow
before the call does. A function that raises is a call that is over, and no more.

**Lifecycle.** Each caller walks through `start_threads`: `Claim` or `Refuse` (the first
critical section), `InitDb`, `Capture`, one `Setup` per command, `NetInfo`, `Spawn`,
`Register`; `Abort` is `RuntimeError`, which gives the flag back, `Escape` every other
exception, which does not, also one that is raised while the threads are created. `Spawn` is
one step per thread of the start's batch. `CleanFlag`, `StopNext` per thread of the list and
`StopsOver`, `CleanJoin`, `CleanRead`, one `CleanRestore` per command are `clean_up`; its loop
is over the list itself, so it reaches what `Register` appends meanwhile. `host` is the
operating system's state, a setting per command; a command that is given a value it does not
know (`unknown`) changes nothing. A thread that was told to stop ends (`WorkerExit`) unless
its function hangs for ever (`Hang`, for those in `MayHang`: `ssdp_discovery`, whose
`requests.get` has no time-out). `clean_up` may run at any time; `overlap` remembers that a
start was under way at its beginning or began after it, which `main` rules out.
`InspectorService` is what callers see: a call is starting, returned, refused, failed for want
of a network or raised; `ImplementsService` maps the places of a caller to these, `running` to
`on`, the callers whose threads live to `threads` and the forwarding setting to `forwarding`,
so that `Setup` and `CleanRestore` of every other setting are no steps there.

**Addresses.** One step per sighting (`Learn`) and per publication of network information
(`Publish`), and `Lookup`, the set of machines that `get_mac_address_from_ip` may return:
none is its `KeyError`, several an arbitrary first row. `Devices` refines it
(`ImplementsAddresses`), so `Flows` and `Discovery` need not carry the table's other columns.

**Devices.** Sections under `rw_lock` are one step. `process_arp` is three: `ArpCompare`
compares the packet with the host's hardware address without a lock, `ArpClassify` determines
the gateway's flag under `global_state_lock`, `ArpUpsert` writes the row; `process_dhcp` is two,
`DhcpCompare` and `DhcpUpsert`. Between the steps anything may happen except another packet
(one thread processes packets), also that `update_network_info` publishes another hardware
address of the host, which `moved` remembers. `metadata` maps
the keys of `metadata_json` to a value or `Null`. `UserToggles` stands for the program
that uses the library, which selects devices by writing `is_inspected`.

**ArpSpoof.** `Query`, `Filter` and `EndFilter` are the section under `rw_lock`, during
which no writer of the table runs but the network information may change between two
rows, because `global_state_lock` is taken for each. `ReadGateway` is the unlocked read of
line 83, `Lookup` is `get_mac_address_from_ip`, `NextVictim`, `TestRunning`,
`SendToRouter`, `SendToDevice` and `SendFails` are the loop with `send_spoofed_arp`.
`afterStop`, `afterDrop` and `afterMove` count replies that are late: after the stop, about a
device that is deselected, and with a gateway that is no longer the published one. `Write` are
the writers of the table, `Other` everybody's steps that do not touch it.

**Pipeline.** `collector` and `processor` say which of the two calls of an iteration is
executing; only the second call of the processor was given `stop_event` (`MustBreak`).
`SniffFails` is an exception of `sniff`, which ends the collector's iteration without its
second call. Packets are numbered in the order of capture. `Raise` is any exception of
`process_packet_helper`: the local list dies with the call.
`PacketChannel` has no threads, calls or lists, only packets that wait, are handed on or
dropped, and says when dropping is allowed. `ImplementsChannel` maps `pending` to
`batch \o queue`.

**Flows.** The constant `Frames` is what is on the wire: a packet that the host forwards is
there as two frames with the same addresses and different hardware addresses. A frame is
`waiting`, in `hand` with the handler that is next (`dns`, `hello`, `flow`), or done; frames
may be taken in any order. Each handler reads the network information once, under the lock,
and then uses what only the processor's own thread changes, so it is one step;
`update_hostnames_in_flows`, publications of network information, other packets' sightings
and the clock come between handlers. `FlowMiss` is `process_flow`'s `KeyError`. Ports,
protocols and byte counts go wherever addresses and packet counts go, and are left out;
`entered` and `missed` are history.

**GlobalState.** A thread is a program, a sequence of operations on the two locks and the
fields of the network information, and every operation is a step. `UpdateNetworkInfo` has
the nine reads of the operating system in order: `get_default_route` asks a socket for its
own address and then the route table, and is called four times. `route` is the network the
host is in; a field's value is the network it comes from. A section that takes no other lock
and reads none of the fields is the single step `PassLock`. `Teams` says which readers run
beside the networking thread. In `Publication` there are no locks: a record is replaced as a
whole while nobody is reading; `ImplementsPublication` maps `published` to itself and what a
reader has `seen` in its section to its view of the record.

**Discovery.** `turn` is the call of the iteration (only the second was given `stop_event`),
`phase` the place in it. `AddAddress`, `AddName`, `AddProperties` are the three assignments of
`add_service`, by zeroconf's threads, one per type; `Test` and `ReadListener` are the reads of
`get_mdns_devices`. `Receive`, `Fetch` and `SsdpWrite` handle one answer of SSDP; a fetch may
return (`Fetched`), raise what is not caught (`FetchRaises`), or neither. Machines change
their addresses meanwhile (`SeeMachine`). What was found carries its origin as history, which
`TrueEntries` compares with the row it was written to.

## What is checked

Every run ends with all states explored. Distinct states in parentheses.

| Run | Bounds | Shows |
|---|---|---|
| `safe_loop` | 2 threads, no pause after a stop (35 894) | `PauseTakesEffect` (at most the calls of one iteration begin after `pause`), `SleepsBetweenIterations` (at most two between two sleeps), `ImplementsIterations` (no iteration passes its stop test after `stop`, no exception ends the thread), `StopEnds`, `LoopSurvives` |
| `lifecycle` | 2 callers with 2 threads each, of which one may hang; Windows with its six commands, clean-up at any time (300 768) | `SingleInstance` (and its threads use its database), `ForwardingWhileSpoofing`, `RestoredUnlessRetried`, `CleanupStopsWorkers`, `ImplementsService` (among others: refused exactly while another holds the instance) |
| `devices` | 2 machines, either of which may be the host, one address and 0.0.0.0, 2 announcements; machines and announcements symmetric (304 005) | `OwnPacketsIgnored`, `KnowledgeKept`, `ImplementsAddresses` |
| `arp_spoof_safe` | host, router, a device; 2 addresses and 0.0.0.0, 2 configurations, in which the gateway has the one or the other; router and device, and the addresses, symmetric (1.03 million) | `StopsSpoofing`, `ReleasesDeselected`, `FollowsGateway` |
| `arp_spoof_live` | the same without symmetry and without history counters (471 484) | `TurnComes`, `KeepsSpoofing` |
| `pipeline` | 5 packets, 2 exceptions (15 371) | `ImplementsChannel`, `InOrderOnce`, `AtMostTwoLate`, `EverythingHandled` |
| `flows` | 8 frames of 5 packets, router and 2 devices, of which one may take over the other's address, 2 configurations, 2 seconds (923 936) | `CountedOnce`, `TrueEnds`, `TrueNames`, `NamesKept`, `AllNamed` |
| `global_state` | 2 networks, 2 changes, 2 reads of the table before giving up, 4 teams of readers (469 860) | `NoWaitCycle`, `ImplementsPublication` (a section reads one publication), `Converges` |
| `discovery` | 2 machines, 2 addresses, 2 service types of which one has two providers, 3 answers per round (92 535) | `TrueEntries`, `StopEnds` |

Each module also has one type invariant, which includes what the types of its variables depend
on (threads exist only for a caller that has come to create them, a list of packets only while
it is processed, rows only of listed devices, a thread that ended only if it was told to
stop).

Why these bounds suffice: threads do not interact in `SafeLoop`, so two show everything, one
of each kind; that the safety properties also hold with pauses after a stop is proved. Two
callers give a winner and a loser, or a failure and a retry; two threads of a start give one
that hangs beside one that does not, and a list that is stopped, created or extended half-way.
More callers are beyond TLC with all their threads; the theorems are for any number. In
`devices` every step is about one machine, the host, or all rows at one address; two machines
and one real address let rows share an address, lose it to 0.0.0.0 and complete each other,
and let either machine become the host between the comparison of its packet and its row. The
two addresses of `arp_spoof_safe` let device and router exchange them, and the gateway move
from one to the other at any step of an execution, so that an execution begun before the move
ends after it; a second move back, with a victim that has a third address, is beyond TLC and
covered by the theorem `GatewayIsFollowed`. `arp_spoof_live` has the gateway move, the device
seen at the gateway's address and its flag left stale, and the router as a second victim whose
packets may fail. Five packets give a list of several, an exception in it, packets behind the
lost list and packets after the stop. The frames of `flows` are both copies of a request, of a
reply and of a DNS answer that names both ends, one more frame for the request's flow, which
arrives in the same second or the next (`MaxSecond` = 1), and one of the host itself: a flow
with several frames, a half-named flow, an address nobody has and one that two machines had
all occur. Two changes of the network let `update_network_info` see three different ones in
one call; with two locks, a cycle of waiting threads has at most two members, and those who
nest them or use the fields share a team. Three answers let an address answer twice with
another between. In `Discovery` one machine's row is watched (`Watched`), because no step
writes one row depending on another, and a round that could write nothing any more is left out
(`Unwritten`), because nothing but the rows outlives a round. The history counters stop at 3,
one above every bound stated (`CountCap`), and at 0 in `arp_spoof_live`, whose properties do
not look at them.

### Where the code does not do what its text says

Each of these runs ends in a counterexample on purpose; `PROJECT.json` quotes the text.

| Run | What happens |
|---|---|
| `safe_loop_stop` | `pause()` right after `stop()` parks the thread for good |
| `lifecycle_retry` | a retried start captures the redirect state that the failed one left |
| `discovery_mix` | two machines that provide one service type share a listener: an entry joins the address of one to the name of the other |

Smaller disagreements, which the models contain but no run is spent on:

* `disable_ip_forwarding` "restores original system state", but turns forwarding off whatever
  it was, and gives the IPv6 redirect setting of Windows the state captured for IPv4.
  `RestoredUnlessRetried` speaks of the settings that it can restore.
* `process_dhcp` stores 0.0.0.0 as the address of a device that has none yet, also over a real
  one; `process_arp` ignores that address.
* `is_gateway` is computed when an ARP packet is processed, and is stale after the gateway or,
  by DHCP, the device's address has changed: a device whose row is stale is not spoofed until
  it sends an ARP packet, after which it is. `KeepsSpoofing` states this.
* A row keeps its address when another device takes it over, so `get_mac_address_from_ip` may
  find several.
* "After each execution" `SafeLoopThread` is to sleep, but executes the function twice between
  two sleeps. `SleepsBetweenIterations` states what holds.
* After an exception other than `RuntimeError` every later start is refused, because another
  instance "is already running", although none is. `RefusalIsExplained`, which is proved and
  part of what `ImplementsService` says, states that nothing else has this effect.
* `arp_spoof.start` excludes the gateway from its victims, but selects them in one critical
  section, reads the gateway's address without a lock and looks its hardware address up in
  another section: a machine that takes the gateway's address in between gets a reply about
  its own former address, and after a move of the gateway the replies of the execution in
  progress go on naming the former one. `FollowsGateway` bounds them.
* `process_arp` and `process_dhcp` are to ignore the host's own packets, but a packet that is
  compared before `update_network_info` publishes another hardware address is written as a
  device's. `OwnPacketsIgnored` states that nothing else has this effect.
* `stop` lets two executions begin, not one: a call may follow its last test of `stop_event`
  (110) after the stop, and the second call is not preceded by a test. `StopTakesEffect`,
  which is proved, states what holds.
* A start that raises while it creates its threads leaves those it has created running, on no
  list that `clean_up` could go through. `CleanupReachesAll` names this exception.
* `process_flow` is to "assume that Inspector pretends to be the gateway" when the address is
  not local, but gives the frame up (`KeyError`). This is what keeps it from counting both
  frames of a forwarded packet, which `CountedOnce` relies on.
* `update_hostnames_in_flows` also replaces the name that a half-named flow had, by the
  address's name of the moment.
* `global_state` says that its lock should always be acquired; `process_packet_helper`,
  `process_arp` and `arp_spoof` read single fields without it.
* What `ssdp_discovery` could not fetch once is never fetched again, since the row has an
  entry; and every answer, also a repeated one, starts its time-out anew, so that a machine
  that never stops answering keeps it from ending (`MaxAnswers` excludes this).
* An exception in the middle of a list loses the packets behind it, although
  `packet_processor.start` is to process all of them; `PacketChannel` allows this loss.

### Fairness

`SafeLoop`: weak fairness of each thread's own step (a started thread runs, a function that
was called returns or raises, a wait with a time-out ends) and of the second half of a
`stop()` that was entered. Nobody is obliged to pause, resume or stop. That a function returns
is not true of every function: `ssdp_discovery` may hang in `requests.get`, and `StopEnds`
says nothing about such a call.
`Lifecycle`: clean-up that was begun goes on, and each thread that was told to stop ends
unless it hangs, which is `StopEnds` of `SafeLoop` under the conditions checked there: nobody
in the library calls `pause`, and the function returns. `Hang` has no fairness and may come at
any time; `CleanupStopsWorkers` promises the end of the other threads only.
`ArpSpoof`: weak fairness of the thread's step, which is `LoopSurvives`; `sendp` returns or
raises. Failures are not excluded. That a device is seen again is a condition of
`KeepsSpoofing` and no fairness: `arp_scanner` asks, but nobody need answer.
`Pipeline`: weak fairness of either thread's step: a session ends after thirty seconds or
raises, the processor's calls return or raise. Captures, exceptions and the stop may happen or
not.
`Flows`: weak fairness of the thread that names flows; it is a `SafeLoopThread` and waits for
nothing but `rw_lock`. No frame need ever be captured.
`GlobalState`: weak fairness of the networking thread's unlocked steps and of whoever holds a
lock (sections end), and strong fairness of its taking a lock: others hold the lock for
moments and then work or sleep without it, but Python's locks make no stronger promise. The
host need not have a route; `Converges` speaks of a host that stays in one network.
`Discovery`: weak fairness of the two threads' own steps, whose waits end by time-out. None
for callbacks, answers and fetches: `requests.get` may never return, and `StopEnds` says so.

## What is proved

For all values of the constants, by TLAPS:

* `SafeLoop_proofs`: `TypeOK`, `PauseTakesEffect`, `StopTakesEffect` (at most two executions
  begin after `stop`, the calls of one iteration), `SleepsBetweenIterations`. These bounds are
  not inductive, because whether another execution may begin depends on the place of the
  thread. The invariant `IInv` gives every place a budget of executions that can still begin,
  and bounds what was begun plus the budget. `ImplementsIterations` needs no more than the
  types: one step of the refinement per action. `NoLostWakeUp` says that a thread waits for
  `run_event` only while it is clear, and a stopped one only until `stop` has set it, if
  nobody pauses it after that.
* `Lifecycle_proofs`: `TypeOK`, `SingleInstance`, `ForwardingWhileSpoofing`. The invariant
  adds that the flag is up while anybody holds the instance, that the published database is
  the holder's from its publication on, and that a caller who is past its first command has
  turned forwarding on, which nobody turns off before `is_running` is lowered. `clean_up` may
  run at any time. `RestoredUnlessRetried` rests on who captured the redirect state and what
  the host's settings are then (`CaptureInv`) and at each step of `clean_up` (`CleanInv`).
  `ImplementsService` needs, beside these, that the flag is up only while somebody holds the
  service (`HolderInv`), and that only threads of starts that returned were told to stop,
  after `is_running` was lowered (`StoppedInv`); `RefusalIsExplained`, an action property,
  follows. `CleanupReachesAll`: if no start was under way during `clean_up`, every thread that
  lives after the loop was told to stop, or belongs to a start that raised while it created
  its threads; that a start that returned has its threads on the list (`RegisteredInv`) is its
  invariant.
* `Devices_proofs`: `TypeOK`, `OwnPacketsIgnored` and `KnowledgeKept` (action properties), and
  that the table implements the address book of `Addresses`, on which `Flows` and `Discovery`
  rest. The hardware address of the host may change at any time: the invariant (`PacketInv`)
  says that the packet in hand is not the host's unless the address has `moved` since the
  comparison.
* `ArpSpoof_proofs`: the composition implements `DevicesSpec`, so all of the above holds
  beside the spoofing thread; and `SpoofTypeOK`, `StopsSpoofing`, `ReleasesDeselected`,
  `FollowsGateway`. The invariant adds to the replies that were sent those still to come, for
  the victim whose turn it is (after the stop) and for each device (after its deselection, and
  after the gateway moved while the execution names the former one, `MoveInv`), and that a
  device is at one place only: among the rows, the targets, or in hand. `TurnComes`, an action
  property, follows one eligible device through a round: the query selects it, and it is due
  until its turn, whatever happens to the other rows, to its own address and to the packets of
  other victims.
* `Pipeline_proofs`: `TypeOK`, `AtMostTwoLate`, `InOrderOnce`, and that `Pipeline` implements
  `PacketChannel`. All rest on lemmas about sequences: draining the queue leaves `batch \o
  queue` as it is, handling takes its head, an exception or the stop drops its front. The
  invariants are that all packets, handled and waiting, are in the order of capture, which a
  loss from the middle keeps, and that each packet captured after the stop uses up one of the
  two calls left. `LossesExplained`: without an exception and before the stop, what was
  handled and what waits is every packet captured, without a gap.
* `Flows_proofs`: `TypeOK`, `CountedOnce`, `TrueEnds`, `NothingLost`, `TrueNames`,
  `NamesKept`. The invariant says of each frame in hand which handlers it may still come to
  and that it was not entered yet, of each frame that was entered that the host took part in
  it in the place of a local machine, and of each frame that is done that it was entered,
  missed or ignored. Which frames are ignored does not depend on when they are handled, and
  that is why the two frames of a forwarded packet cannot both be counted. `NothingLost`,
  which no run checks, says that the sums of a row are complete; it rests on a lemma about
  adding one to one summand. The names need an invariant of their own: an end of a flow has a
  name only if its address still has one. `OneUpdateNamesAll`: one statement of
  `update_hostnames_in_flows` leaves no end unnamed whose address has a name, and only a new
  flow or a new name makes another one necessary.
* `GlobalState_proofs`: `TypeOK`, `NoWaitCycle`, `SnapshotsConsistent`, for any team of
  readers and any number of changes. Where a thread is in its program says which locks it
  holds (`Holds`); that programs give back what they take, nest the locks in one order only
  and write only under the lock is computed once for each of them (`ProgramsProper`). The
  invariant is that `holder` agrees with `Holds`, that what is published is all there is to
  read unless the networking thread holds the lock, and that a reader outside its section has
  seen nothing. `ImplementsPublication` is the same as a refinement. `StaysRight`: once a call
  of `update_network_info` has nothing of another network in hand (`Collected`), or all its
  fields are published (`Settled`), that remains so as long as the route does not change; in
  particular a host that never moves has its own data at every moment, also between two of the
  five assignments (`Undisturbed`).
* `Discovery_proofs`: `TypeOK`, `TrueEntries`, for any providers and leases and with any
  callbacks between two reads. The invariant says of every attribute of a listener, of an
  entry half read, of one that is complete and of one that was written, that a provider of the
  service type told it (`ToldBy`); that a name, once given, is never taken back makes complete
  entries named. `MdnsWindsDown`: after the stop every step of the mDNS thread lowers a
  measure (`MdnsRest`, at most six and four for each service type) that no callback raises.
  For this theorem the service types must be finitely many, as they are: they are what one
  browsing session heard of.

Components are proved against each other's abstractions, never against each other's code:

* `SafeLoop` implements `Iterations`; the collector and the processor of `Pipeline`
  (`CalledInIterations`) and both threads of `Discovery` are called only as `Iterations`
  allows. That two packets at most are captured late, and that the stop is seen by the
  second call, rest on this.
* `Devices` implements `Addresses`; `Flows` and `Discovery` change what they look addresses
  up in only as `Addresses` allows (`FlowsUseAddresses`, `DiscoveryUsesAddresses`).
* `ArpSpoof` implements `Devices`, in whose table it selects its victims.

Assumptions: the `ASSUME`s of the modules, which say what the constants are and which TLC
evaluates in the runs.

Only model-checked: liveness, which is beyond the prover. Its safety halves are proved, each
saying that nothing undoes the progress which fairness brings:

| Liveness (TLC) | Safety half (TLAPS) |
|---|---|
| `StopEnds` of `SafeLoop` | `NoLostWakeUp` |
| `LoopSurvives` | `ImplementsIterations`: a thread ends only when it was told to stop |
| `CleanupStopsWorkers` | `CleanupReachesAll` |
| `KeepsSpoofing` | `TurnComes` |
| `EverythingHandled` | `LossesExplained` |
| `AllNamed` | `OneUpdateNamesAll` |
| `Converges` | `StaysRight` |
| `StopEnds` of `Discovery` | `MdnsWindsDown`; none for SSDP, whose answers only `MaxAnswers` bounds |

Every safety property that a run checks is also proved.

## What is not modelled, and why

* Contents of packets beyond what decides a branch or a key, formatting, logging: no
  property is about them. Ports, protocols and byte counts of `network_flows` go wherever
  the addresses and the packet counts go.
* `arp_scanner`'s loop of requests: it changes nothing but the network, whose answers the
  models take as arbitrary. Its critical section is in `GlobalState`.
* `oui_parser` and `privacy` are look-ups in vendored tables, filled on first use behind
  `lru_cache`. In the library `get_vendor` is called under `rw_lock` only, and `privacy` by
  nobody, so that no two calls meet; the answer of `get_vendor` is one value in `Devices`.
* How `tls_processor` walks through a packet, and `networking`'s predicates on addresses:
  sequential functions of their input, with unit tests of their own where the repository
  has any. `Flows` has what `extract_sni` returns.
* A second life: `is_running` is never raised again, so nothing starts after `clean_up`.
* Set-up commands either take effect or the start fails; the commands of clean-up, whose
  exit status the code ignores, are taken to succeed when they are given a valid value.
* The queue's memory: it has no bound in the code.

## Plan

1. (done) `SafeLoop`, `Lifecycle`, `Devices`, `ArpSpoof`, `Pipeline`, with the proofs above.
2. (done) `Flows` on the address book `Addresses`, which `Devices` implements; `GlobalState`
   with the reads of the route table and both locks; `Discovery`.
3. (done) Proofs of `Flows`, `GlobalState` and `Discovery`, and of `RestoredUnlessRetried`
   and `RefusalIsExplained` of `Lifecycle`.
4. (done) The abstract specifications `Iterations`, `InspectorService` and `Publication`
   and the proofs that `SafeLoop`, `Lifecycle` and `GlobalState` implement them; that
   `Pipeline` and `Discovery` are called as `Iterations` allows, and that `Flows` and
   `Discovery` look addresses up as `Addresses` allows; the safety halves of the liveness.
5. (done) In `Lifecycle` the threads one by one, of which some may hang, in `Devices` the
   unlocked comparison with the host's hardware address, in `ArpSpoof` the gateway that moves.
6. That `GlobalState`'s `networking` thread is called as `Iterations` allows, which needs
   the two calls of an iteration in the model; a bound on the steps that `clean_up` and a
   stopped `Pipeline` have left, as `MdnsWindsDown` has it.
