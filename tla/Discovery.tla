------------------------------ MODULE Discovery ------------------------------
(***************************************************************************)
(* mdns_discovery and ssdp_discovery: what they collect over many seconds, *)
(* in which order, when they stop, and to which rows they write it.        *)
(*                                                                         *)
(* mDNS: a listener for every service type keeps one address, one name and *)
(* one set of properties.  Threads of the zeroconf library assign them one *)
(* by one while the thread of mdns_discovery, after its waits, reads them  *)
(* one by one.  Names and properties are told apart only by the machine    *)
(* they belong to, and are that machine.                                   *)
(* The two threads share only the rows and the stop, so a behaviour shows  *)
(* one of them and the other has ended.                                    *)
(***************************************************************************)
EXTENDS Addresses, Naturals

CONSTANTS
  Types,       \* service types
  Providers,   \* the machines that provide each type: a function from Types
  Watched,     \* the machines whose rows are modelled; rows do not affect each other
  Reticent,    \* the machines that announce no properties
  MaxAnswers,  \* how often machines answer in a round of SSDP
  Null         \* not known

ASSUME DiscoveryAssumption ==
  /\ Providers \in [Types -> SUBSET Macs]
  /\ Watched \subseteq Macs
  /\ Reticent \subseteq Macs
  /\ MaxAnswers \in Nat
  /\ Null \notin Macs \cup Ips \cup {Unlisted}

VARIABLES
  running,    \* is_running
  stopped,    \* the stop_event of both threads
  turn,       \* which call of its iteration each thread is in or about to make
  phase,      \* where it is in that call
  listeners,  \* the MDNSDeviceListener of every type that is browsed
  callback,   \* the add_service that is executing for each type, if any
  announced,  \* the providers that each browser has told its listener of
  todo,       \* the listeners that are still to be read
  reading,    \* the listener that is being read, and what was read
  findings,   \* what get_mdns_devices returns
  mdns_json,  \* the key of every row: what was found or Null
  answers,    \* how many answers this round of SSDP still gets
  met,        \* device_ip_set
  answer,     \* the answer that is being handled, if any
  ssdp_json

threadVars == <<running, stopped, turn, phase>>
mdnsVars == <<listeners, callback, announced, todo, reading, findings, mdns_json>>
ssdpVars == <<answers, met, answer, ssdp_json>>
vars == <<addressVars, threadVars, mdnsVars, ssdpVars>>

Threads == {"mdns", "ssdp"}
MdnsPhases == {"idle", "types", "browse", "collect", "write", "exited"}
SsdpPhases == {"idle", "listen", "fetch", "write", "exited"}

Known(S) == S \cup {Null}
Listener == [ip : Known(Ips), name : Known(Macs), properties : Known(Macs)]
\* An entry of the list that is filed under ip; type and ip are history here.
Entry == [type : Types, ip : Known(Ips), name : Known(Macs), properties : Known(Macs)]
Answer == [machine : Macs, ip : Ips, complete : BOOLEAN]

\* The types; Zeroconf is open, and its threads call, only while somebody browses.
TypeOK ==
  /\ AddressTypeOK
  /\ running \in BOOLEAN /\ stopped \in BOOLEAN
  /\ turn \in [Threads -> 1 .. 2]
  /\ phase["mdns"] \in MdnsPhases /\ phase["ssdp"] \in SsdpPhases
  /\ DOMAIN phase = Threads
  /\ DOMAIN listeners \subseteq Types
  /\ phase["mdns"] \notin {"browse", "collect"} =>
       listeners = <<>> /\ \A t \in Types : callback[t] = Null
  /\ \A t \in DOMAIN listeners : listeners[t] \in Listener
  /\ \A t \in Types : callback[t] \in [machine : Macs, next : {"name", "properties"}] \cup {Null}
  /\ \A t \in Types : announced[t] \subseteq Providers[t]
  /\ \A t \in Types : callback[t] # Null => callback[t].machine \in announced[t]
  /\ todo \subseteq DOMAIN listeners
  /\ reading \subseteq [entry : Entry, next : {"ip", "name", "properties"}]
  /\ \A r \in reading : r.entry.type \notin todo /\ reading = {r}
  /\ findings \subseteq Entry
  /\ DOMAIN mdns_json = Watched
  /\ \A m \in Watched : mdns_json[m] = Null \/ mdns_json[m] \subseteq Entry
  /\ answers \in 0 .. MaxAnswers
  /\ met \subseteq Ips
  /\ answer \subseteq Answer /\ \A a, b \in answer : a = b
  /\ answer # {} <=> phase["ssdp"] \in {"fetch", "write"}
  /\ ssdp_json \in [Watched -> Known(Answer)]

Init ==
  /\ AddressInit
  /\ running = TRUE /\ stopped = FALSE
  /\ turn = [t \in Threads |-> 1]
  /\ \E t \in Threads : phase = [u \in Threads |-> IF u = t THEN "idle" ELSE "exited"]
  /\ listeners = <<>>
  /\ callback = [t \in Types |-> Null]
  /\ announced = [t \in Types |-> {}]
  /\ todo = {} /\ reading = {} /\ findings = {}
  /\ mdns_json = [m \in Watched |-> Null]
  /\ answers = 0 /\ met = {} /\ answer = {}
  /\ ssdp_json = [m \in Watched |-> Null]

-----------------------------------------------------------------------------
(* Calls of either start function by its SafeLoopThread.                   *)

Goto(thread, place) == phase' = [phase EXCEPT ![thread] = place]

\* The call returns: the second of the iteration follows, or the next iteration.
Return(thread) ==
  /\ Goto(thread, "idle")
  /\ turn' = [turn EXCEPT ![thread] = 3 - @]

\* The call raises: the iteration is over.
Raise(thread) ==
  /\ Goto(thread, "idle")
  /\ turn' = [turn EXCEPT ![thread] = 1]

\* The next iteration ends at the test of stop_event; a call that was begun while
\* the Inspector does not run returns.
Exit(thread) ==
  /\ phase[thread] = "idle" /\ turn[thread] = 1 /\ stopped
  /\ Goto(thread, "exited")
  /\ UNCHANGED <<addressVars, running, stopped, turn, mdnsVars, ssdpVars>>

MayCall(thread) == phase[thread] = "idle" /\ ~(turn[thread] = 1 /\ stopped)

ReturnAtOnce(thread) ==
  /\ MayCall(thread)
  /\ ~running
  /\ Return(thread)
  /\ UNCHANGED <<addressVars, running, stopped, mdnsVars, ssdpVars>>

\* Bound: rounds that could write nothing any more are left out, since nothing but the
\* rows outlives a round.
Unwritten(json) == \E m \in Watched : json[m] = Null

\* Only the second call was given stop_event.
SeesStop(thread) == turn[thread] = 2 /\ stopped

-----------------------------------------------------------------------------
(* mDNS.                                                                   *)

\* Zeroconf is created, or cannot be, and the browser of types started.
MdnsBegin ==
  /\ MayCall("mdns") /\ running
  /\ Unwritten(mdns_json)
  /\ \/ Goto("mdns", "types") /\ UNCHANGED turn
     \/ Raise("mdns")
  /\ UNCHANGED <<addressVars, running, stopped, mdnsVars, ssdpVars>>

\* The wait for types is over, after ten seconds or by the stop, which ends the call:
\* there is nothing to write.  Browsing some of the types may fail.
TypesEnd ==
  /\ phase["mdns"] = "types"
  /\ IF SeesStop("mdns") THEN Return("mdns") /\ UNCHANGED listeners
     ELSE /\ \E browsed \in SUBSET Types :
               listeners' = [t \in browsed |-> [ip |-> Null, name |-> Null, properties |-> Null]]
          /\ Goto("mdns", "browse")
          /\ UNCHANGED turn
  /\ UNCHANGED <<addressVars, running, stopped, callback, announced, todo, reading, findings,
                 mdns_json, ssdpVars>>

Assign(t, field, value) == listeners' = [listeners EXCEPT ![t][field] = value]

KeepsOtherMdns == UNCHANGED <<addressVars, threadVars, todo, reading, findings, mdns_json, ssdpVars>>

\* add_service got the information about the service of m and assigns the address,
\* if it has one.
AddAddress(t, m, i) ==
  /\ callback[t] = Null
  /\ m \in Providers[t] \ announced[t]
  /\ Assign(t, "ip", i)
  /\ callback' = [callback EXCEPT ![t] = [machine |-> m, next |-> "name"]]
  /\ announced' = [announced EXCEPT ![t] = @ \cup {m}]
  /\ KeepsOtherMdns

AddName(t) ==
  /\ callback[t] # Null /\ callback[t].next = "name"
  /\ Assign(t, "name", callback[t].machine)
  /\ callback' = [callback EXCEPT ![t] =
       IF @.machine \in Reticent THEN Null ELSE [@ EXCEPT !.next = "properties"]]
  /\ UNCHANGED announced
  /\ KeepsOtherMdns

\* Mutation: an attribute of the class.
AddProperties_Class(t) ==
  /\ callback[t] # Null /\ callback[t].next = "properties"
  /\ listeners' = [u \in DOMAIN listeners |->
                     [listeners[u] EXCEPT !.properties = callback[t].machine]]
  /\ callback' = [callback EXCEPT ![t] = Null]
  /\ UNCHANGED announced
  /\ KeepsOtherMdns

AddProperties(t) ==
  /\ callback[t] # Null /\ callback[t].next = "properties"
  /\ Assign(t, "properties", callback[t].machine)
  /\ callback' = [callback EXCEPT ![t] = Null]
  /\ UNCHANGED announced
  /\ KeepsOtherMdns

\* update_service, for a machine that was announced before.
UpdateService(t, m) ==
  /\ callback[t] = Null
  /\ m \in announced[t]
  /\ Assign(t, "name", m)
  /\ UNCHANGED <<callback, announced>>
  /\ KeepsOtherMdns

AddressesOf(m) == {l[2] : l \in {k \in Leases : k[1] = m}}

Callback(t) ==
  \/ \E m \in Providers[t] : \/ \E i \in Known(AddressesOf(m)) : AddAddress(t, m, i)
                             \/ UpdateService(t, m)
  \/ AddName(t)
  \/ AddProperties(t)

\* The second wait is over.
BrowseEnd ==
  /\ phase["mdns"] = "browse"
  /\ Goto("mdns", "collect")
  /\ todo' = DOMAIN listeners
  /\ UNCHANGED <<addressVars, running, stopped, turn, listeners, callback, announced, reading,
                 findings, mdns_json, ssdpVars>>

KeepsCallbacks ==
  UNCHANGED <<addressVars, threadVars, listeners, callback, announced, mdns_json, ssdpVars>>

\* A listener that has an address and a name is read further.
Test(t) ==
  /\ phase["mdns"] = "collect" /\ reading = {}
  /\ t \in todo
  /\ todo' = todo \ {t}
  /\ reading' = IF Null \in {listeners[t].ip, listeners[t].name} THEN {}
                ELSE {[entry |-> [type |-> t, ip |-> Null, name |-> Null, properties |-> Null],
                       next |-> "ip"]}
  /\ UNCHANGED findings
  /\ KeepsCallbacks

\* The address under which the entry is filed, the name, then the properties.
ReadListener(r) ==
  LET entry == [r.entry EXCEPT ![r.next] = listeners[r.entry.type][r.next]] IN
  /\ IF r.next = "properties"
     THEN reading' = {} /\ findings' = findings \cup {entry}
     ELSE /\ reading' = {[entry |-> entry,
                          next |-> IF r.next = "ip" THEN "name" ELSE "properties"]}
          /\ UNCHANGED findings
  /\ UNCHANGED todo
  /\ KeepsCallbacks

\* Mutation: no context manager closes Zeroconf.
CollectEnd_LeavesOpen ==
  /\ phase["mdns"] = "collect" /\ todo = {} /\ reading = {}
  /\ Goto("mdns", "write")
  /\ UNCHANGED <<addressVars, running, stopped, turn, listeners, callback, announced, todo,
                 reading, findings, mdns_json, ssdpVars>>

\* Zeroconf is closed, which ends the callbacks.
CollectEnd ==
  /\ phase["mdns"] = "collect" /\ todo = {} /\ reading = {}
  /\ Goto("mdns", "write")
  /\ listeners' = <<>>
  /\ callback' = [t \in Types |-> Null]
  /\ announced' = [t \in Types |-> {}]
  /\ UNCHANGED <<addressVars, running, stopped, turn, todo, reading, findings, mdns_json, ssdpVars>>

\* Under rw_lock, to the rows that have the address and nothing from mDNS yet.
MdnsWrite ==
  /\ phase["mdns"] = "write"
  /\ mdns_json' = [m \in Watched |->
       LET found == {e \in findings : e.ip = addressOf[m]} IN
       IF mdns_json[m] = Null /\ found # {} THEN found ELSE mdns_json[m]]
  /\ findings' = {}
  /\ Return("mdns")
  /\ UNCHANGED <<addressVars, running, stopped, listeners, callback, announced, todo, reading,
                 ssdpVars>>

MdnsStep ==
  \/ Exit("mdns") \/ ReturnAtOnce("mdns") \/ MdnsBegin \/ TypesEnd \/ BrowseEnd
  \/ \E t \in todo : Test(t)
  \/ \E r \in reading : ReadListener(r)
  \/ CollectEnd \/ MdnsWrite

-----------------------------------------------------------------------------
(* SSDP, which looks at no event.                                          *)

KeepsOtherSsdp == UNCHANGED <<addressVars, running, stopped, mdnsVars>>

\* The search is sent, or raises.
SsdpBegin ==
  /\ MayCall("ssdp") /\ running
  /\ Unwritten(ssdp_json)
  /\ \/ Goto("ssdp", "listen") /\ UNCHANGED turn
     \/ Raise("ssdp")
  /\ answers' = MaxAnswers
  /\ met' = {}
  /\ UNCHANGED <<answer, ssdp_json>>
  /\ KeepsOtherSsdp

\* m answers from its address i.  An address that answered before is skipped, one
\* without LOCATION has nothing to fetch.
Receive(m, i) ==
  /\ phase["ssdp"] = "listen"
  /\ answers > 0
  /\ answers' = answers - 1
  /\ met' = met \cup {i}
  /\ IF i \in met THEN UNCHANGED <<answer, phase>>
     ELSE /\ answer' = {[machine |-> m, ip |-> i, complete |-> FALSE]}
          /\ Goto("ssdp", "fetch") \/ Goto("ssdp", "write")
  /\ UNCHANGED <<turn, ssdp_json>>
  /\ KeepsOtherSsdp

\* fetch_and_parse_xml returns the contents or None.
Fetched(a) ==
  /\ phase["ssdp"] = "fetch"
  /\ \E complete \in BOOLEAN : answer' = {[a EXCEPT !.complete = complete]}
  /\ Goto("ssdp", "write")
  /\ UNCHANGED <<turn, answers, met, ssdp_json>>
  /\ KeepsOtherSsdp

\* It raises what it does not catch, which ends the call.
FetchRaises ==
  /\ phase["ssdp"] = "fetch"
  /\ answer' = {}
  /\ Raise("ssdp")
  /\ UNCHANGED <<answers, met, ssdp_json>>
  /\ KeepsOtherSsdp

Fetch == FetchRaises \/ \E a \in answer : Fetched(a)

\* Under rw_lock, to the rows that have the address and nothing from SSDP yet.
SsdpWrite(a) ==
  /\ phase["ssdp"] = "write"
  /\ ssdp_json' = [m \in Watched |->
       IF ssdp_json[m] = Null /\ addressOf[m] = a.ip THEN a ELSE ssdp_json[m]]
  /\ answer' = {}
  /\ Goto("ssdp", "listen")
  /\ UNCHANGED <<turn, answers, met>>
  /\ KeepsOtherSsdp

\* Mutation: search again.
SsdpTimeout_Retries ==
  /\ phase["ssdp"] = "listen"
  /\ answers' = MaxAnswers
  /\ UNCHANGED <<turn, phase, met, answer, ssdp_json>>
  /\ KeepsOtherSsdp

\* No answer for ten or thirty seconds; or the socket fails.
SsdpTimeout ==
  /\ phase["ssdp"] = "listen"
  /\ Return("ssdp") \/ Raise("ssdp")
  /\ UNCHANGED <<answers, met, answer, ssdp_json>>
  /\ KeepsOtherSsdp

SsdpStep ==
  \/ Exit("ssdp") \/ ReturnAtOnce("ssdp") \/ SsdpBegin \/ SsdpTimeout
  \/ \E l \in Leases : Receive(l[1], l[2])
  \/ \E a \in answer : SsdpWrite(a)

-----------------------------------------------------------------------------

\* The order of clean_up.
LowerRunning ==
  /\ running
  /\ running' = FALSE
  /\ UNCHANGED <<addressVars, stopped, turn, phase, mdnsVars, ssdpVars>>

SetStop ==
  /\ ~running /\ ~stopped
  /\ stopped' = TRUE
  /\ UNCHANGED <<addressVars, running, turn, phase, mdnsVars, ssdpVars>>

\* Meanwhile machines are seen with other addresses.
SeeMachine ==
  /\ \E m \in Watched, i \in Ips : Learn(m, i)
  /\ UNCHANGED <<threadVars, mdnsVars, ssdpVars>>

Next ==
  \/ MdnsStep \/ \E t \in DOMAIN listeners : Callback(t)
  \/ SsdpStep \/ Fetch
  \/ LowerRunning \/ SetStop \/ SeeMachine

Spec == Init /\ [][Next]_vars

\* Waits with a time-out end and threads go on; nobody has to announce, to answer or
\* to be fetched from, and requests.get may never return.
FairSpec == Spec /\ WF_vars(MdnsStep) /\ WF_vars(SsdpStep)

-----------------------------------------------------------------------------
(* Properties.                                                             *)

OnlyOwner(m, i) == \A l \in Leases : l[2] = i => l[1] = m

\* What a row says of a machine was told by that machine, however late it is written,
\* if no other machine may have its address and, for mDNS, no other provides the type.
TrueEntries ==
  \A m \in Watched :
    /\ mdns_json[m] # Null => \A e \in mdns_json[m] :
         OnlyOwner(m, e.ip) /\ (\E p \in Macs : Providers[e.type] = {p})
           => e.name = m /\ e.properties \in {m, Null}
    /\ ssdp_json[m] # Null =>
         (OnlyOwner(m, ssdp_json[m].ip) => ssdp_json[m].machine = m)

\* The docstring of get_mdns_devices: every dictionary is about a discovered device.
OneDevicePerEntry ==
  \A e \in findings :
    e.ip # Null => <<e.name, e.ip>> \in Leases /\ e.properties \in {e.name, Null}

\* After the stop either thread ends, but for a request without time-out.  For SSDP
\* this rests on MaxAnswers: who goes on answering within the time-out of the socket
\* keeps the code in its round.
StopEnds ==
  /\ stopped ~> phase["mdns"] = "exited"
  /\ stopped ~> (phase["ssdp"] = "exited" \/ [](phase["ssdp"] = "fetch"))
=============================================================================
