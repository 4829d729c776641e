--------------------------- MODULE Discovery_proofs ---------------------------
(***************************************************************************)
(* What mDNS and SSDP write, for any machines, services and addresses.     *)
(*                                                                         *)
(* A listener, and whatever was read from it in pieces while the callbacks *)
(* went on, holds an address, a name and properties each of which some     *)
(* provider of its service type told; an answer comes from an address its  *)
(* machine may have.  Where one machine alone provides the type, or has    *)
(* the address, the pieces are all its own.                                *)
(***************************************************************************)
EXTENDS Discovery, FiniteSetTheorems, TLAPS

-----------------------------------------------------------------------------
(* The inductive invariant.                                                *)

\* What a listener of type t has of the machines that provide it.
ToldBy(t, e) ==
  /\ e.ip # Null => \E m \in Providers[t] : <<m, e.ip>> \in Leases
  /\ e.name \in Known(Providers[t])
  /\ e.properties \in Known(Providers[t])

Threading ==
  /\ running \in BOOLEAN /\ stopped \in BOOLEAN
  /\ turn \in [Threads -> 1 .. 2]
  /\ DOMAIN phase = Threads /\ phase = [t \in Threads |-> phase[t]]
  /\ phase["mdns"] \in MdnsPhases /\ phase["ssdp"] \in SsdpPhases

Callbacks == [machine : Macs, next : {"name", "properties"}]

Listening ==
  /\ DOMAIN listeners \subseteq Types
  /\ phase["mdns"] \notin {"browse", "collect"} =>
       listeners = <<>> /\ \A t \in Types : callback[t] = Null
  /\ \A t \in DOMAIN listeners : listeners[t] \in Listener /\ ToldBy(t, listeners[t])
  /\ callback \in [Types -> Callbacks \cup {Null}]
  /\ announced \in [Types -> SUBSET Macs]
  /\ \A t \in Types : announced[t] \subseteq Providers[t]
  /\ \A t \in Types : callback[t] # Null => callback[t].machine \in announced[t]

\* A name, once given, is never taken back.
Collecting ==
  /\ todo \subseteq DOMAIN listeners
  /\ reading \subseteq [entry : Entry, next : {"ip", "name", "properties"}]
  /\ \A r \in reading :
       /\ reading = {r} /\ phase["mdns"] = "collect"
       /\ r.entry.type \in DOMAIN listeners \ todo
       /\ ToldBy(r.entry.type, r.entry)
       /\ listeners[r.entry.type].name # Null
       /\ r.next = "properties" => r.entry.name # Null

\* An entry that is complete.
Complete(e) == e \in Entry /\ ToldBy(e.type, e) /\ e.name # Null

Found ==
  /\ \A e \in findings : Complete(e)
  /\ mdns_json = [m \in Watched |-> mdns_json[m]]
  /\ \A m \in Watched : mdns_json[m] = Null
                         \/ \A e \in mdns_json[m] : Complete(e) /\ e.ip # Null

Answering ==
  /\ answers \in 0 .. MaxAnswers
  /\ met \subseteq Ips
  /\ answer \subseteq Answer /\ \A a, b \in answer : a = b
  /\ \A a \in answer : <<a.machine, a.ip>> \in Leases
  /\ answer # {} <=> phase["ssdp"] \in {"fetch", "write"}
  /\ ssdp_json \in [Watched -> Known(Answer)]
  /\ \A m \in Watched : ssdp_json[m] # Null => <<ssdp_json[m].machine, ssdp_json[m].ip>> \in Leases

IInv == AddressTypeOK /\ Threading /\ Listening /\ Collecting /\ Found /\ Answering

-----------------------------------------------------------------------------
(* What steps do to the parts they leave alone, and to the place.          *)

LEMMA Places ==
  ASSUME Threading, NEW thread \in Threads, NEW place, Goto(thread, place),
         thread = "mdns" => place \in MdnsPhases,
         thread = "ssdp" => place \in SsdpPhases
  PROVE  /\ DOMAIN phase' = Threads /\ phase' = [t \in Threads |-> phase'[t]]
         /\ phase'[thread] = place
         /\ \A t \in Threads \ {thread} : phase'[t] = phase[t]
         /\ phase'["mdns"] \in MdnsPhases /\ phase'["ssdp"] \in SsdpPhases
<1>1. \A t \in Threads : phase'[t] = IF t = thread THEN place ELSE phase[t]
  BY DEF Threading, Goto
<1>2. DOMAIN phase' = Threads /\ phase' = [t \in Threads |-> phase'[t]]
  BY DEF Threading, Goto
<1> QED BY <1>1, <1>2 DEF Threading, Threads

LEMMA Turns ==
  ASSUME Threading, NEW thread \in Threads
  PROVE  /\ [turn EXCEPT ![thread] = 3 - @] \in [Threads -> 1 .. 2]
         /\ [turn EXCEPT ![thread] = 1] \in [Threads -> 1 .. 2]
<1>1. turn[thread] \in 1 .. 2 /\ turn \in [Threads -> 1 .. 2]
  BY DEF Threading
<1>2. 3 - turn[thread] \in 1 .. 2
  BY <1>1
<1> QED BY <1>1, <1>2

LEMMA Ends ==
  ASSUME Threading, NEW thread \in Threads, Return(thread) \/ Raise(thread),
         UNCHANGED <<running, stopped>>
  PROVE  /\ Threading' /\ phase'[thread] = "idle"
         /\ \A t \in Threads \ {thread} : phase'[t] = phase[t]
<1>1. Goto(thread, "idle")
  BY DEF Return, Raise
<1>2. /\ DOMAIN phase' = Threads /\ phase' = [t \in Threads |-> phase'[t]]
      /\ phase'[thread] = "idle"
      /\ \A t \in Threads \ {thread} : phase'[t] = phase[t]
      /\ phase'["mdns"] \in MdnsPhases /\ phase'["ssdp"] \in SsdpPhases
  BY <1>1, Places DEF MdnsPhases, SsdpPhases
<1>3. turn' \in [Threads -> 1 .. 2]
  BY Turns DEF Return, Raise
<1> QED BY <1>2, <1>3 DEF Threading

LEMMA Moves ==
  ASSUME Threading, NEW thread \in Threads, NEW place, Goto(thread, place),
         thread = "mdns" => place \in MdnsPhases,
         thread = "ssdp" => place \in SsdpPhases,
         UNCHANGED <<running, stopped, turn>>
  PROVE  /\ Threading' /\ phase'[thread] = place
         /\ \A t \in Threads \ {thread} : phase'[t] = phase[t]
<1>1. /\ DOMAIN phase' = Threads /\ phase' = [t \in Threads |-> phase'[t]]
      /\ phase'[thread] = place
      /\ \A t \in Threads \ {thread} : phase'[t] = phase[t]
      /\ phase'["mdns"] \in MdnsPhases /\ phase'["ssdp"] \in SsdpPhases
  BY Places
<1> QED BY <1>1 DEF Threading

\* A step of the other thread, or of nobody.
LEMMA MdnsKept ==
  ASSUME Listening, Collecting, Found, UNCHANGED mdnsVars, phase'["mdns"] = phase["mdns"]
  PROVE  Listening' /\ Collecting' /\ Found'
BY DEF Listening, Collecting, Found, mdnsVars

LEMMA SsdpKept ==
  ASSUME Answering, UNCHANGED ssdpVars, phase'["ssdp"] = phase["ssdp"]
  PROVE  Answering'
BY DEF Answering, ssdpVars

\* The thread of mDNS moves between places where nobody listens.
LEMMA MdnsKeptOutside ==
  ASSUME Listening, Collecting, Found, UNCHANGED mdnsVars,
         phase["mdns"] \notin {"browse", "collect"}
  PROVE  Listening' /\ Collecting' /\ Found'
<1>1. reading = {}
  BY DEF Collecting
<1> QED BY <1>1 DEF Listening, Collecting, Found, mdnsVars

-----------------------------------------------------------------------------
(* mDNS.                                                                   *)

\* Assigning one attribute of one listener.
LEMMA Assigned ==
  ASSUME Listening, NEW t \in DOMAIN listeners, NEW field \in {"ip", "name", "properties"},
         NEW value, Assign(t, field, value)
  PROVE  /\ DOMAIN listeners' = DOMAIN listeners
         /\ \A u \in DOMAIN listeners : u # t => listeners'[u] = listeners[u]
         /\ listeners'[t] = [ip |-> IF field = "ip" THEN value ELSE listeners[t].ip,
                             name |-> IF field = "name" THEN value ELSE listeners[t].name,
                             properties |-> IF field = "properties" THEN value
                                            ELSE listeners[t].properties]
<1>1. listeners[t] \in Listener
  BY DEF Listening
<1>2. DOMAIN listeners' = DOMAIN listeners
  BY DEF Assign
<1>3. \A u \in DOMAIN listeners : u # t => listeners'[u] = listeners[u]
  BY DEF Assign
<1>4. listeners'[t] = [listeners[t] EXCEPT ![field] = value]
  BY DEF Assign
<1>5. listeners'[t] = [ip |-> IF field = "ip" THEN value ELSE listeners[t].ip,
                       name |-> IF field = "name" THEN value ELSE listeners[t].name,
                       properties |-> IF field = "properties" THEN value
                                      ELSE listeners[t].properties]
  BY <1>1, <1>4 DEF Listener
<1> QED BY <1>2, <1>3, <1>5

\* An attribute that a provider told keeps the listener true to its providers, and what
\* is being read from it needs only that the name stays known.
LEMMA AssignedTrue ==
  ASSUME Listening, Collecting, DiscoveryAssumption, AddressesAssumption,
         NEW t \in DOMAIN listeners, NEW field \in {"ip", "name", "properties"},
         NEW value, Assign(t, field, value),
         NEW m \in Providers[t],
         field = "ip" => value \in Known(AddressesOf(m)),
         field # "ip" => value = m,
         callback' \in [Types -> Callbacks \cup {Null}],
         announced' \in [Types -> SUBSET Macs],
         \A u \in Types : announced'[u] \subseteq Providers[u],
         \A u \in Types : callback'[u] # Null => callback'[u].machine \in announced'[u],
         UNCHANGED <<phase, todo, reading>>
  PROVE  Listening' /\ Collecting'
<1>1. t \in Types /\ m \in Macs /\ m # Null
  BY DEF Listening, DiscoveryAssumption
<1>2. /\ DOMAIN listeners' = DOMAIN listeners
      /\ \A u \in DOMAIN listeners : u # t => listeners'[u] = listeners[u]
      /\ listeners'[t] = [ip |-> IF field = "ip" THEN value ELSE listeners[t].ip,
                          name |-> IF field = "name" THEN value ELSE listeners[t].name,
                          properties |-> IF field = "properties" THEN value
                                         ELSE listeners[t].properties]
  BY Assigned
<1>3. \A i \in AddressesOf(m) : i \in Ips /\ <<m, i>> \in Leases
  BY DEF AddressesOf, AddressesAssumption
<1>4. listeners[t] \in Listener /\ ToldBy(t, listeners[t])
  BY DEF Listening
<1>5. /\ field = "ip" => value = Null \/ (value \in Ips /\ <<m, value>> \in Leases)
      /\ field # "ip" => value = m
  BY <1>3 DEF Known
<1>6. listeners'[t] \in Listener /\ ToldBy(t, listeners'[t])
  <2>1. CASE field = "ip"
    <3>1. listeners'[t] = [ip |-> value, name |-> listeners[t].name,
                           properties |-> listeners[t].properties]
      BY <1>2, <2>1
    <3> QED BY <1>1, <1>4, <1>5, <2>1, <3>1 DEF Listener, ToldBy, Known
  <2>2. CASE field = "name"
    <3>1. listeners'[t] = [ip |-> listeners[t].ip, name |-> m,
                           properties |-> listeners[t].properties]
      BY <1>2, <1>5, <2>2
    <3>2. listeners'[t] \in Listener
      BY <1>1, <1>4, <3>1 DEF Listener, Known
    <3>3. ToldBy(t, listeners'[t])
      <4> DEFINE l == listeners[t]
                 k == listeners'[t]
      <4>1. /\ k.ip = l.ip /\ k.name \in {m, l.name} /\ k.properties \in {m, l.properties}
        BY <3>1
      <4> HIDE DEF l, k
      <4>2. ToldBy(t, l) => ToldBy(t, k)
        BY <4>1 DEF ToldBy, Known
      <4> QED BY <1>4, <4>2 DEF l, k
    <3> QED BY <3>2, <3>3
  <2>3. CASE field = "properties"
    <3>1. listeners'[t] = [ip |-> listeners[t].ip, name |-> listeners[t].name,
                           properties |-> m]
      BY <1>2, <1>5, <2>3
    <3>2. listeners'[t] \in Listener
      BY <1>1, <1>4, <3>1 DEF Listener, Known
    <3>3. ToldBy(t, listeners'[t])
      <4> DEFINE l == listeners[t]
                 k == listeners'[t]
      <4>1. /\ k.ip = l.ip /\ k.name \in {m, l.name} /\ k.properties \in {m, l.properties}
        BY <3>1
      <4> HIDE DEF l, k
      <4>2. ToldBy(t, l) => ToldBy(t, k)
        BY <4>1 DEF ToldBy, Known
      <4> QED BY <1>4, <4>2 DEF l, k
    <3> QED BY <3>2, <3>3
  <2> QED BY <2>1, <2>2, <2>3
<1>7. listeners[t].name # Null => listeners'[t].name # Null
  BY <1>1, <1>2
<1>8. phase["mdns"] \in {"browse", "collect"}
  BY DEF Listening
<1>9. Listening'
  BY <1>2, <1>6, <1>8 DEF Listening
<1>10. Collecting'
  BY <1>2, <1>7 DEF Collecting
<1> QED BY <1>9, <1>10

LEMMA CallbackStep ==
  ASSUME IInv, NEW t \in DOMAIN listeners, Callback(t)
  PROVE  IInv'
<1> USE DEF IInv
<1>1. t \in Types
  BY DEF Listening
<1>2. /\ callback \in [Types -> Callbacks \cup {Null}] /\ announced \in [Types -> SUBSET Macs]
      /\ \A u \in Types : announced[u] \subseteq Providers[u]
      /\ \A u \in Types : callback[u] # Null => callback[u].machine \in announced[u]
  BY DEF Listening
<1>3. Providers[t] \subseteq Macs
  BY <1>1, DiscoveryAssumption
<1>4. KeepsOtherMdns => /\ AddressTypeOK' /\ Threading' /\ Found' /\ Answering'
                        /\ UNCHANGED <<phase, todo, reading>>
  BY DEF KeepsOtherMdns, addressVars, threadVars, ssdpVars, AddressTypeOK, Threading, Found,
         Answering
<1>5. ASSUME NEW m \in Providers[t], NEW i \in Known(AddressesOf(m)), AddAddress(t, m, i)
      PROVE  IInv'
  <2>1. /\ Assign(t, "ip", i) /\ KeepsOtherMdns
        /\ callback' = [callback EXCEPT ![t] = [machine |-> m, next |-> "name"]]
        /\ announced' = [announced EXCEPT ![t] = @ \cup {m}]
    BY <1>5 DEF AddAddress
  <2>2. m \in Macs /\ [machine |-> m, next |-> "name"] \in Callbacks
    BY <1>3 DEF Callbacks
  <2>3. /\ callback' \in [Types -> Callbacks \cup {Null}]
        /\ announced' \in [Types -> SUBSET Macs]
        /\ \A u \in Types : announced'[u] \subseteq Providers[u]
    BY <2>1, <2>2, <1>1, <1>2
  <2>4. \A u \in Types : callback'[u] # Null => callback'[u].machine \in announced'[u]
    BY <2>1, <2>2, <1>1, <1>2
  <2>5. Listening' /\ Collecting'
    BY <2>1, <2>3, <2>4, <1>4, AssignedTrue, DiscoveryAssumption, AddressesAssumption
  <2> QED BY <2>1, <2>5, <1>4
<1>6. ASSUME NEW m \in Providers[t], UpdateService(t, m)
      PROVE  IInv'
  <2>1. Assign(t, "name", m) /\ UNCHANGED <<callback, announced>> /\ KeepsOtherMdns
    BY <1>6 DEF UpdateService
  <2>2. Listening' /\ Collecting'
    BY <2>1, <1>2, <1>4, AssignedTrue, DiscoveryAssumption, AddressesAssumption
  <2> QED BY <2>1, <2>2, <1>4
<1>7. ASSUME AddName(t) \/ AddProperties(t)
      PROVE  IInv'
  <2> DEFINE m == callback[t].machine
  <2>1. callback[t] # Null /\ m \in Providers[t] /\ callback[t] \in Callbacks
    BY <1>1, <1>2, <1>7 DEF AddName, AddProperties
  <2>2. PICK field \in {"name", "properties"} : Assign(t, field, m)
    BY <1>7 DEF AddName, AddProperties
  <2>3. KeepsOtherMdns /\ announced' = announced
    BY <1>7 DEF AddName, AddProperties
  <2>4. PICK c \in Callbacks \cup {Null} :
          callback' = [callback EXCEPT ![t] = c] /\ (c # Null => c.machine = m)
    <3>1. CASE AddProperties(t)
      BY <3>1 DEF AddProperties
    <3>2. CASE AddName(t) /\ m \in Reticent
      BY <3>2 DEF AddName
    <3>3. CASE AddName(t) /\ m \notin Reticent
      <4>1. callback' = [callback EXCEPT ![t] = [callback[t] EXCEPT !.next = "properties"]]
        BY <3>3 DEF AddName
      <4>2. [callback[t] EXCEPT !.next = "properties"] = [machine |-> m, next |-> "properties"]
        BY <2>1 DEF Callbacks
      <4>3. [machine |-> m, next |-> "properties"] \in Callbacks
        BY <2>1 DEF Callbacks
      <4> QED BY <4>1, <4>2, <4>3
    <3> QED BY <3>1, <3>2, <3>3, <1>7
  <2>5. /\ callback' \in [Types -> Callbacks \cup {Null}]
        /\ \A u \in Types : callback'[u] # Null => callback'[u].machine \in announced'[u]
    BY <2>1, <2>3, <2>4, <1>1, <1>2
  <2>6. Listening' /\ Collecting'
    BY <2>1, <2>2, <2>3, <2>5, <1>2, <1>4, AssignedTrue, DiscoveryAssumption, AddressesAssumption
  <2> QED BY <2>3, <2>6, <1>4
<1> QED BY <1>5, <1>6, <1>7 DEF Callback

\* What the steps of the mDNS thread leave alone.
LEMMA OthersKept ==
  ASSUME IInv, UNCHANGED <<addressVars, ssdpVars>>, phase'["ssdp"] = phase["ssdp"]
  PROVE  AddressTypeOK' /\ Answering'
BY SsdpKept DEF IInv, AddressTypeOK, addressVars

LEMMA TypesEndStep == ASSUME IInv, TypesEnd PROVE IInv'
<1> USE DEF IInv
<1>1. "mdns" \in Threads /\ Threads \ {"mdns"} = {"ssdp"}
  BY DEF Threads
<1>2. /\ phase["mdns"] = "types" /\ UNCHANGED <<addressVars, running, stopped, ssdpVars>>
      /\ UNCHANGED <<callback, announced, todo, reading, findings, mdns_json>>
  BY DEF TypesEnd
<1>3. listeners = <<>> /\ (\A t \in Types : callback[t] = Null) /\ todo = {} /\ reading = {}
  BY <1>2 DEF Listening, Collecting
<1>4. CASE Return("mdns") /\ UNCHANGED listeners
  <2>1. Threading' /\ phase'["ssdp"] = phase["ssdp"] /\ UNCHANGED mdnsVars
    BY <1>1, <1>2, <1>4, Ends DEF mdnsVars
  <2> QED BY <1>2, <2>1, OthersKept, MdnsKeptOutside
<1>5. ASSUME NEW browsed \in SUBSET Types,
             listeners' = [t \in browsed |-> [ip |-> Null, name |-> Null, properties |-> Null]],
             Goto("mdns", "browse"), UNCHANGED turn
      PROVE  IInv'
  <2>1. Threading' /\ phase'["mdns"] = "browse" /\ phase'["ssdp"] = phase["ssdp"]
    BY <1>1, <1>2, <1>5, Moves DEF MdnsPhases
  <2>2. \A t \in DOMAIN listeners' : listeners'[t] \in Listener /\ ToldBy(t, listeners'[t])
    BY <1>5 DEF Listener, ToldBy, Known
  <2>3. Listening'
    BY <1>2, <1>5, <2>1, <2>2 DEF Listening
  <2>4. Collecting' /\ Found'
    BY <1>2, <1>3 DEF Collecting, Found
  <2> QED BY <1>2, <2>1, <2>3, <2>4, OthersKept
<1> QED BY <1>4, <1>5 DEF TypesEnd

LEMMA BrowseEndStep == ASSUME IInv, BrowseEnd PROVE IInv'
<1> USE DEF IInv
<1>1. "mdns" \in Threads /\ Threads \ {"mdns"} = {"ssdp"}
  BY DEF Threads
<1>2. /\ phase["mdns"] = "browse" /\ Goto("mdns", "collect") /\ todo' = DOMAIN listeners
      /\ UNCHANGED <<addressVars, running, stopped, turn, ssdpVars>>
      /\ UNCHANGED <<listeners, callback, announced, reading, findings, mdns_json>>
  BY DEF BrowseEnd
<1>3. reading = {}
  BY <1>2 DEF Collecting
<1>4. Threading' /\ phase'["mdns"] = "collect" /\ phase'["ssdp"] = phase["ssdp"]
  BY <1>1, <1>2, Moves DEF MdnsPhases
<1>5. Listening' /\ Collecting' /\ Found'
  BY <1>2, <1>3, <1>4 DEF Listening, Collecting, Found
<1> QED BY <1>2, <1>4, <1>5, OthersKept

LEMMA CallbacksKept ==
  ASSUME IInv, KeepsCallbacks
  PROVE  AddressTypeOK' /\ Threading' /\ Listening' /\ Answering'
         /\ UNCHANGED <<phase, listeners, mdns_json>>
BY OthersKept
DEF IInv, KeepsCallbacks, AddressTypeOK, Threading, Listening, Answering, addressVars,
    threadVars, ssdpVars

LEMMA TestStep == ASSUME IInv, NEW t \in todo, Test(t) PROVE IInv'
<1> USE DEF IInv
<1>1. /\ KeepsCallbacks /\ findings' = findings /\ phase["mdns"] = "collect"
      /\ todo' = todo \ {t} /\ t \in DOMAIN listeners /\ t \in Types
  BY DEF Test, Collecting, Listening
<1>2. AddressTypeOK' /\ Threading' /\ Listening' /\ Answering'
      /\ UNCHANGED <<phase, listeners, mdns_json>>
  BY <1>1, CallbacksKept
<1>3. Found'
  BY <1>1, <1>2 DEF Found
<1>4. Collecting'
  <2>1. CASE reading' = {}
    BY <1>1, <1>2, <2>1 DEF Collecting
  <2>2. CASE reading' # {}
    <3> DEFINE e == [type |-> t, ip |-> Null, name |-> Null, properties |-> Null]
    <3>1. listeners[t].name # Null /\ reading' = {[entry |-> e, next |-> "ip"]}
      BY <2>2 DEF Test
    <3>2. e \in Entry /\ ToldBy(t, e)
      BY <1>1 DEF Entry, ToldBy, Known
    <3>3. e.type = t
      OBVIOUS
    <3> HIDE DEF e
    <3>4. [entry |-> e, next |-> "ip"] \in [entry : Entry, next : {"ip", "name", "properties"}]
      BY <3>2
    <3> QED BY <1>1, <1>2, <3>1, <3>2, <3>3, <3>4 DEF Collecting
  <2> QED BY <2>1, <2>2
<1> QED BY <1>2, <1>3, <1>4

LEMMA ReadStep == ASSUME IInv, NEW r \in reading, ReadListener(r) PROVE IInv'
<1> USE DEF IInv
<1> DEFINE e == r.entry
           t == e.type
           l == listeners[t]
           d == [e EXCEPT ![r.next] = l[r.next]]
<1>1. /\ KeepsCallbacks /\ todo' = todo
      /\ IF r.next = "properties"
         THEN reading' = {} /\ findings' = findings \cup {d}
         ELSE /\ reading' = {[entry |-> d, next |-> IF r.next = "ip" THEN "name" ELSE "properties"]}
              /\ UNCHANGED findings
  BY DEF ReadListener
<1>2. AddressTypeOK' /\ Threading' /\ Listening' /\ Answering'
      /\ UNCHANGED <<phase, listeners, mdns_json>>
  BY <1>1, CallbacksKept
<1>3. /\ e \in Entry /\ r.next \in {"ip", "name", "properties"}
      /\ phase["mdns"] = "collect" /\ t \in DOMAIN listeners \ todo
      /\ ToldBy(t, e) /\ l.name # Null
      /\ r.next = "properties" => e.name # Null
  BY DEF Collecting
<1>4. l \in Listener /\ ToldBy(t, l)
  BY <1>3 DEF Listening
<1>5. /\ d = [type |-> t, ip |-> IF r.next = "ip" THEN l.ip ELSE e.ip,
              name |-> IF r.next = "name" THEN l.name ELSE e.name,
              properties |-> IF r.next = "properties" THEN l.properties ELSE e.properties]
  BY <1>3, <1>4 DEF Entry, Listener
<1>6. /\ d.type = t /\ d.ip \in {e.ip, l.ip} /\ d.name \in {e.name, l.name}
      /\ d.properties \in {e.properties, l.properties}
  BY <1>5
<1>7. r.next # "ip" => d.name # Null
  BY <1>3, <1>5
<1>8. d \in Entry
  <2>1. t \in Types /\ d.ip \in Known(Ips) /\ d.name \in Known(Macs) /\ d.properties \in Known(Macs)
    BY <1>3, <1>4, <1>6 DEF Entry, Listener
  <2>2. d = [type |-> t, ip |-> d.ip, name |-> d.name, properties |-> d.properties]
    BY <1>5
  <2> HIDE DEF d
  <2> QED BY <2>1, <2>2 DEF Entry
<1> HIDE DEF d, l
<1>9. ToldBy(t, d)
  BY <1>3, <1>4, <1>6 DEF ToldBy
<1>10. Found'
  <2>1. \A c \in findings' : Complete(c)
    BY <1>1, <1>3, <1>6, <1>7, <1>8, <1>9 DEF Found, Complete
  <2> QED BY <1>2, <2>1 DEF Found
<1>11. Collecting'
  <2>1. CASE r.next = "properties"
    BY <1>1, <1>2, <2>1 DEF Collecting
  <2>2. CASE r.next # "properties"
    <3> DEFINE n == IF r.next = "ip" THEN "name" ELSE "properties"
               s == [entry |-> d, next |-> n]
    <3>1. reading' = {s}
      BY <1>1, <2>2
    <3>2. s \in [entry : Entry, next : {"ip", "name", "properties"}] /\ s.entry = d
      BY <1>8
    <3>3. s.next = "properties" => d.name # Null
      BY <1>3, <1>7, <2>2
    <3>4. listeners[t].name # Null
      BY <1>3 DEF l
    <3> HIDE DEF s
    <3> QED BY <1>1, <1>2, <1>3, <1>6, <1>9, <3>1, <3>2, <3>3, <3>4 DEF Collecting
  <2> QED BY <2>1, <2>2
<1> QED BY <1>2, <1>10, <1>11

LEMMA CollectEndStep == ASSUME IInv, CollectEnd PROVE IInv'
<1> USE DEF IInv
<1>1. "mdns" \in Threads /\ Threads \ {"mdns"} = {"ssdp"}
  BY DEF Threads
<1>2. /\ todo = {} /\ reading = {} /\ Goto("mdns", "write")
      /\ listeners' = <<>> /\ callback' = [t \in Types |-> Null]
      /\ announced' = [t \in Types |-> {}]
      /\ UNCHANGED <<addressVars, running, stopped, turn, ssdpVars>>
      /\ UNCHANGED <<todo, reading, findings, mdns_json>>
  BY DEF CollectEnd
<1>3. Threading' /\ phase'["mdns"] = "write" /\ phase'["ssdp"] = phase["ssdp"]
  BY <1>1, <1>2, Moves DEF MdnsPhases
<1>4. DOMAIN listeners' = {}
  BY <1>2
<1>5. Listening' /\ Collecting' /\ Found'
  BY <1>2, <1>3, <1>4 DEF Listening, Collecting, Found
<1> QED BY <1>2, <1>3, <1>5, OthersKept

LEMMA MdnsWriteStep == ASSUME IInv, MdnsWrite PROVE IInv'
<1> USE DEF IInv
<1>1. "mdns" \in Threads /\ Threads \ {"mdns"} = {"ssdp"}
  BY DEF Threads
<1> DEFINE FoundAt(m) == {e \in findings : e.ip = addressOf[m]}
<1>2. /\ phase["mdns"] = "write" /\ Return("mdns") /\ findings' = {}
      /\ mdns_json' = [m \in Watched |->
           IF mdns_json[m] = Null /\ FoundAt(m) # {} THEN FoundAt(m) ELSE mdns_json[m]]
      /\ UNCHANGED <<addressVars, running, stopped, ssdpVars>>
      /\ UNCHANGED <<listeners, callback, announced, todo, reading>>
  BY DEF MdnsWrite
<1>3. Threading' /\ phase'["mdns"] = "idle" /\ phase'["ssdp"] = phase["ssdp"]
  BY <1>1, <1>2, Ends
<1>4. reading = {}
  BY <1>2 DEF Collecting
<1>5. Listening' /\ Collecting'
  BY <1>2, <1>3, <1>4 DEF Listening, Collecting
<1>6. Found'
  <2>1. \A m \in Watched : \A e \in FoundAt(m) : Complete(e) /\ e.ip # Null
    BY DiscoveryAssumption DEF Found, AddressTypeOK
  <2> HIDE DEF FoundAt
  <2>2. \A m \in Watched : mdns_json'[m] = Null
                            \/ \A e \in mdns_json'[m] : Complete(e) /\ e.ip # Null
    BY <1>2, <2>1 DEF Found
  <2>3. mdns_json' = [m \in Watched |-> mdns_json'[m]]
    BY <1>2
  <2> QED BY <1>2, <2>2, <2>3 DEF Found
<1> QED BY <1>2, <1>3, <1>5, <1>6, OthersKept

LEMMA MdnsInvariance == ASSUME IInv, MdnsStep PROVE IInv'
<1> USE DEF IInv
<1>1. "mdns" \in Threads /\ Threads \ {"mdns"} = {"ssdp"}
  BY DEF Threads
<1>2. ASSUME Exit("mdns") \/ ReturnAtOnce("mdns") \/ MdnsBegin
      PROVE  IInv'
  <2>1. phase["mdns"] = "idle" /\ UNCHANGED <<addressVars, running, stopped, mdnsVars, ssdpVars>>
    BY <1>2 DEF Exit, ReturnAtOnce, MdnsBegin, MayCall
  <2>2. \/ Return("mdns") \/ Raise("mdns")
        \/ \E place \in {"exited", "types"} : Goto("mdns", place) /\ UNCHANGED turn
    BY <1>2 DEF Exit, ReturnAtOnce, MdnsBegin
  <2>3. Threading' /\ phase'["ssdp"] = phase["ssdp"]
    BY <1>1, <2>1, <2>2, Ends, Moves DEF MdnsPhases
  <2> QED BY <2>1, <2>3, OthersKept, MdnsKeptOutside
<1> QED
  BY <1>2, TypesEndStep, BrowseEndStep, TestStep, ReadStep, CollectEndStep, MdnsWriteStep
  DEF MdnsStep

-----------------------------------------------------------------------------
(* SSDP.                                                                   *)

LEMMA SsdpInvariance ==
  ASSUME IInv, SsdpStep \/ Fetch
  PROVE  IInv'
<1> USE DEF IInv
<1>1. "ssdp" \in Threads /\ Threads \ {"ssdp"} = {"mdns"}
  BY DEF Threads
<1>2. ASSUME UNCHANGED <<addressVars, mdnsVars>>, Threading', phase'["mdns"] = phase["mdns"],
             Answering'
      PROVE  IInv'
  BY <1>2, MdnsKept DEF AddressTypeOK, addressVars
<1>3. ASSUME Exit("ssdp") \/ ReturnAtOnce("ssdp") \/ SsdpBegin
      PROVE  IInv'
  <2>1. /\ phase["ssdp"] = "idle" /\ UNCHANGED <<addressVars, running, stopped, mdnsVars>>
        /\ UNCHANGED <<answer, ssdp_json>>
        /\ (answers' = answers /\ met' = met) \/ (answers' = MaxAnswers /\ met' = {})
    BY <1>3 DEF Exit, ReturnAtOnce, SsdpBegin, MayCall, KeepsOtherSsdp, ssdpVars
  <2>2. \/ Return("ssdp") \/ Raise("ssdp")
        \/ \E place \in {"exited", "listen"} : Goto("ssdp", place) /\ UNCHANGED turn
    BY <1>3 DEF Exit, ReturnAtOnce, SsdpBegin
  <2>3. /\ Threading' /\ phase'["mdns"] = phase["mdns"]
        /\ phase'["ssdp"] \in {"idle", "exited", "listen"}
    BY <1>1, <2>1, <2>2, Ends, Moves DEF SsdpPhases
  <2>4. answer = {}
    BY <2>1 DEF Answering
  <2>5. Answering'
    BY <2>1, <2>3, <2>4, DiscoveryAssumption DEF Answering
  <2> QED BY <1>2, <2>1, <2>3, <2>5
<1>4. CASE SsdpTimeout
  <2>1. phase["ssdp"] = "listen" /\ UNCHANGED <<addressVars, running, stopped, mdnsVars, ssdpVars>>
    BY <1>4 DEF SsdpTimeout, KeepsOtherSsdp, ssdpVars
  <2>2. Threading' /\ phase'["mdns"] = phase["mdns"] /\ phase'["ssdp"] = "idle"
    BY <1>1, <1>4, <2>1, Ends DEF SsdpTimeout
  <2>3. Answering'
    BY <2>1, <2>2 DEF Answering, ssdpVars
  <2> QED BY <1>2, <2>1, <2>2, <2>3
<1>5. ASSUME NEW k \in Leases, Receive(k[1], k[2])
      PROVE  IInv'
  <2> DEFINE m == k[1]
             i == k[2]
             a == [machine |-> m, ip |-> i, complete |-> FALSE]
  <2>1. m \in Macs /\ i \in Ips /\ <<m, i>> \in Leases
    BY AddressesAssumption
  <2> HIDE DEF m, i
  <2>2. /\ phase["ssdp"] = "listen" /\ answers > 0 /\ answers' = answers - 1
        /\ met' = met \cup {i} /\ UNCHANGED <<turn, ssdp_json>>
        /\ UNCHANGED <<addressVars, running, stopped, mdnsVars>>
        /\ \/ UNCHANGED <<answer, phase>>
           \/ answer' = {a} /\ \E place \in {"fetch", "write"} : Goto("ssdp", place)
    BY <1>5 DEF Receive, KeepsOtherSsdp, m, i
  <2>3. a \in Answer /\ a.machine = m /\ a.ip = i
    BY <2>1 DEF Answer
  <2>4. answers' \in 0 .. MaxAnswers /\ met' \subseteq Ips
    BY <2>1, <2>2, DiscoveryAssumption DEF Answering
  <2> HIDE DEF a
  <2>5. CASE UNCHANGED <<answer, phase>>
    <3>1. Threading' /\ Answering'
      BY <2>2, <2>4, <2>5 DEF Threading, Answering
    <3> QED BY <1>2, <2>2, <2>5, <3>1
  <2>6. ASSUME answer' = {a}, NEW place \in {"fetch", "write"}, Goto("ssdp", place)
        PROVE  IInv'
    <3>1. Threading' /\ phase'["mdns"] = phase["mdns"] /\ phase'["ssdp"] = place
      BY <1>1, <2>2, <2>6, Moves DEF SsdpPhases
    <3>2. Answering'
      BY <2>1, <2>2, <2>3, <2>4, <2>6, <3>1 DEF Answering
    <3> QED BY <1>2, <2>2, <3>1, <3>2
  <2> QED BY <2>2, <2>5, <2>6
<1>6. ASSUME NEW a \in answer, Fetched(a)
      PROVE  IInv'
  <2>1. PICK complete \in BOOLEAN : answer' = {[a EXCEPT !.complete = complete]}
    BY <1>6 DEF Fetched
  <2> DEFINE b == [a EXCEPT !.complete = complete]
  <2>2. b \in Answer /\ b.machine = a.machine /\ b.ip = a.ip /\ <<a.machine, a.ip>> \in Leases
    BY DEF Answering, Answer
  <2>3. answer' = {b}
    BY <2>1
  <2> HIDE DEF b
  <2>4. /\ Goto("ssdp", "write") /\ UNCHANGED <<turn, answers, met, ssdp_json>>
        /\ UNCHANGED <<addressVars, running, stopped, mdnsVars>>
    BY <1>6 DEF Fetched, KeepsOtherSsdp
  <2>5. Threading' /\ phase'["mdns"] = phase["mdns"] /\ phase'["ssdp"] = "write"
    BY <1>1, <2>4, Moves DEF SsdpPhases
  <2>6. Answering'
    BY <2>2, <2>3, <2>4, <2>5 DEF Answering
  <2> QED BY <1>2, <2>4, <2>5, <2>6
<1>7. ASSUME NEW a \in answer, SsdpWrite(a)
      PROVE  IInv'
  <2>1. /\ Goto("ssdp", "listen") /\ answer' = {} /\ UNCHANGED <<turn, answers, met>>
        /\ ssdp_json' = [m \in Watched |->
             IF ssdp_json[m] = Null /\ addressOf[m] = a.ip THEN a ELSE ssdp_json[m]]
        /\ UNCHANGED <<addressVars, running, stopped, mdnsVars>>
    BY <1>7 DEF SsdpWrite, KeepsOtherSsdp
  <2>2. Threading' /\ phase'["mdns"] = phase["mdns"] /\ phase'["ssdp"] = "listen"
    BY <1>1, <2>1, Moves DEF SsdpPhases
  <2>3. a \in Answer /\ <<a.machine, a.ip>> \in Leases
    BY DEF Answering
  <2>4. /\ ssdp_json' \in [Watched -> Known(Answer)]
        /\ \A m \in Watched : ssdp_json'[m] # Null =>
             <<ssdp_json'[m].machine, ssdp_json'[m].ip>> \in Leases
    BY <2>1, <2>3 DEF Answering, Known
  <2>5. Answering'
    BY <2>1, <2>2, <2>4 DEF Answering
  <2> QED BY <1>2, <2>1, <2>2, <2>5
<1>8. CASE FetchRaises
  <2>1. /\ answer' = {} /\ Raise("ssdp") /\ UNCHANGED <<answers, met, ssdp_json>>
        /\ UNCHANGED <<addressVars, running, stopped, mdnsVars>>
    BY <1>8 DEF FetchRaises, KeepsOtherSsdp
  <2>2. Threading' /\ phase'["mdns"] = phase["mdns"] /\ phase'["ssdp"] = "idle"
    BY <1>1, <2>1, Ends
  <2>3. Answering'
    BY <2>1, <2>2 DEF Answering
  <2> QED BY <1>2, <2>1, <2>2, <2>3
<1> QED
  BY <1>3, <1>4, <1>5, <1>6, <1>7, <1>8 DEF SsdpStep, Fetch

-----------------------------------------------------------------------------
(* The theorems.                                                           *)

LEMMA Initially == Init => IInv
<1> SUFFICES ASSUME Init PROVE IInv
  OBVIOUS
<1>1. AddressTypeOK
  BY DEF Init, AddressInit, AddressTypeOK
<1>2. Threading
  <2>1. PICK t \in Threads : phase = [u \in Threads |-> IF u = t THEN "idle" ELSE "exited"]
    BY DEF Init
  <2>2. DOMAIN phase = Threads /\ phase = [u \in Threads |-> phase[u]]
    BY <2>1
  <2>3. \A u \in Threads : phase[u] \in {"idle", "exited"}
    BY <2>1
  <2>4. phase["mdns"] \in MdnsPhases /\ phase["ssdp"] \in SsdpPhases
    BY <2>3 DEF Threads, MdnsPhases, SsdpPhases
  <2>5. turn = [u \in Threads |-> 1] /\ running = TRUE /\ stopped = FALSE
    BY DEF Init
  <2>6. turn \in [Threads -> 1 .. 2]
    BY <2>5
  <2>7. running \in BOOLEAN /\ stopped \in BOOLEAN
    BY <2>5
  <2> QED BY <2>2, <2>4, <2>6, <2>7 DEF Threading
<1>3. DOMAIN listeners = {}
  BY DEF Init
<1>4. Listening /\ Collecting /\ Found
  BY <1>3 DEF Init, Listening, Collecting, Found
<1>5. phase["ssdp"] \in {"idle", "exited"}
  BY DEF Init, Threads
<1>6. Answering
  BY <1>5, DiscoveryAssumption DEF Init, Answering, Known
<1> QED BY <1>1, <1>2, <1>4, <1>6 DEF IInv

\* Whatever is read in pieces, and whenever it is written, each piece was told by a
\* machine that provides the service or answered from that address.
THEOREM Invariance == Spec => []IInv
<1>1. IInv /\ [Next]_vars => IInv'
  <2> SUFFICES ASSUME IInv, [Next]_vars PROVE IInv'
    OBVIOUS
  <2> USE DEF IInv
  <2>1. CASE UNCHANGED vars
    <3>1. UNCHANGED <<addressVars, threadVars, mdnsVars, ssdpVars>>
      BY <2>1 DEF vars
    <3>2. Threading' /\ AddressTypeOK' /\ UNCHANGED phase
      BY <3>1 DEF threadVars, addressVars, Threading, AddressTypeOK
    <3> QED BY <3>1, <3>2, MdnsKept, SsdpKept
  <2>2. CASE LowerRunning \/ SetStop
    <3>1. UNCHANGED <<addressVars, turn, phase, mdnsVars, ssdpVars>>
          /\ running' \in BOOLEAN /\ stopped' \in BOOLEAN
      BY <2>2 DEF LowerRunning, SetStop, Threading
    <3>2. Threading' /\ AddressTypeOK'
      BY <3>1 DEF addressVars, Threading, AddressTypeOK
    <3> QED BY <3>1, <3>2, MdnsKept, SsdpKept
  <2>3. CASE SeeMachine
    <3>1. UNCHANGED <<threadVars, mdnsVars, ssdpVars>>
      BY <2>3 DEF SeeMachine
    <3>2. Threading' /\ UNCHANGED phase
      BY <3>1 DEF threadVars, Threading
    <3>3. AddressTypeOK'
      BY <2>3, DiscoveryAssumption DEF SeeMachine, Learn, AddressTypeOK
    <3> QED BY <3>1, <3>2, <3>3, MdnsKept, SsdpKept
  <2> QED
    BY <2>1, <2>2, <2>3, CallbackStep, MdnsInvariance, SsdpInvariance DEF Next
<1> QED BY <1>1, Initially, PTL DEF Spec

\* Every variable has its type: nobody listens, calls back or is read from outside the
\* waits and the reading, and an answer is in hand only while it is fetched or written.
THEOREM DiscoveryTypeCorrect == Spec => []TypeOK
<1>1. IInv => TypeOK
  <2> SUFFICES ASSUME IInv PROVE TypeOK
    OBVIOUS
  <2>1. findings \subseteq Entry /\ DOMAIN mdns_json = Watched
        /\ \A m \in Watched : mdns_json[m] = Null \/ mdns_json[m] \subseteq Entry
    BY DEF IInv, Found, Complete
  <2>2. \A r \in reading : r.entry.type \notin todo /\ reading = {r}
    BY DEF IInv, Collecting
  <2> QED BY <2>1, <2>2
          DEF IInv, Threading, Listening, Collecting, Answering, Callbacks, TypeOK
<1> QED BY <1>1, Invariance, PTL

\* A row holds what its own machine told, if no other machine may have the address and,
\* for mDNS, no other provides the type, however the steps of the threads mix.
THEOREM EntriesAreTrue == Spec => []TrueEntries
<1>1. IInv => TrueEntries
  <2> SUFFICES ASSUME IInv, NEW m \in Watched
               PROVE  /\ mdns_json[m] # Null => \A e \in mdns_json[m] :
                           OnlyOwner(m, e.ip) /\ (\E p \in Macs : Providers[e.type] = {p})
                             => e.name = m /\ e.properties \in {m, Null}
                      /\ ssdp_json[m] # Null =>
                           (OnlyOwner(m, ssdp_json[m].ip) => ssdp_json[m].machine = m)
    BY DEF TrueEntries
  <2>1. ASSUME mdns_json[m] # Null, NEW e \in mdns_json[m], OnlyOwner(m, e.ip),
               NEW p \in Macs, Providers[e.type] = {p}
        PROVE  e.name = m /\ e.properties \in {m, Null}
    <3>1. ToldBy(e.type, e) /\ e.name # Null /\ e.ip # Null
      BY <2>1 DEF IInv, Found, Complete
    <3>2. <<p, e.ip>> \in Leases
      BY <2>1, <3>1 DEF ToldBy
    <3>3. p = m
      BY <2>1, <3>2 DEF OnlyOwner
    <3> QED BY <2>1, <3>1, <3>3 DEF ToldBy, Known
  <2>2. ASSUME ssdp_json[m] # Null, OnlyOwner(m, ssdp_json[m].ip)
        PROVE  ssdp_json[m].machine = m
    BY <2>2 DEF IInv, Answering, OnlyOwner
  <2> QED BY <2>1, <2>2
<1> QED BY <1>1, Invariance, PTL

-----------------------------------------------------------------------------
(* What the two discoveries assume of their surroundings.                  *)

\* The rows are looked up in an address book that changes as Addresses says and in no
\* other way, which is what Devices implements.
THEOREM DiscoveryUsesAddresses == Spec => AddressSpec
<1>1. Init => AddressInit
  BY DEF Init
<1>2. ASSUME [Next]_vars PROVE [AddressNext]_addressVars
  <2>1. ASSUME NEW t, Callback(t) PROVE UNCHANGED addressVars
    BY <2>1 DEF Callback, AddAddress, UpdateService, AddName, AddProperties, KeepsOtherMdns
  <2>2. ASSUME MdnsStep PROVE UNCHANGED addressVars
    BY <2>2 DEF MdnsStep, Exit, ReturnAtOnce, MdnsBegin, TypesEnd, BrowseEnd, Test, ReadListener,
                KeepsCallbacks, CollectEnd, MdnsWrite
  <2>3. ASSUME SsdpStep \/ Fetch PROVE UNCHANGED addressVars
    BY <2>3 DEF SsdpStep, Exit, ReturnAtOnce, SsdpBegin, SsdpTimeout, Receive, SsdpWrite,
                Fetch, Fetched, FetchRaises, KeepsOtherSsdp
  <2>4. ASSUME SeeMachine PROVE AddressNext
    BY <2>4, DiscoveryAssumption DEF SeeMachine, AddressNext
  <2>5. ASSUME LowerRunning \/ SetStop \/ UNCHANGED vars PROVE UNCHANGED addressVars
    BY <2>5 DEF LowerRunning, SetStop, vars
  <2> QED BY <1>2, <2>1, <2>2, <2>3, <2>4, <2>5 DEF Next
<1> QED BY <1>1, <1>2, PTL DEF Spec, AddressSpec

\* The call that a thread is in, as Iterations sees it.
CallOf(place, number) ==
  IF number = 2 THEN "second" ELSE IF place \in {"idle", "exited"} THEN "out" ELSE "first"

Calling(thread) == INSTANCE Iterations WITH
  Threads <- {thread},
  call <- [t \in {thread} |-> CallOf(phase[thread], turn[thread])],
  told <- IF stopped THEN {thread} ELSE {}

\* What a step does to the call of a thread is what an iteration allows.
Iterates(old, new) ==
  \/ old = new
  \/ old = "out" /\ new \in {"first", "second"} /\ ~stopped
  \/ old = "first" /\ new \in {"second", "out"}
  \/ old = "second" /\ new = "out"

Call(thread) == CallOf(phase[thread], turn[thread])

\* Such a step is a step of Iterations or none.
LEMMA IteratesThere ==
  ASSUME NEW thread, stopped' = stopped, Iterates(Call(thread), Call(thread)')
  PROVE  [Calling(thread)!Next]_(Calling(thread)!iterations)
<1> DEFINE old == [t \in {thread} |-> Call(thread)]
           new == [t \in {thread} |-> Call(thread)']
<1>1. CASE Call(thread)' = Call(thread)
  BY <1>1 DEF Calling!iterations, Call
<1>2. CASE Call(thread)' # Call(thread)
  <2>1. new = [old EXCEPT ![thread] = Call(thread)'] /\ old[thread] = Call(thread)
    OBVIOUS
  <2>2. Calling(thread)!Begin(thread) \/ Calling(thread)!Again(thread)
        \/ Calling(thread)!Finish(thread)
    BY <1>2, <2>1 DEF Iterates, Calling!Begin, Calling!Again, Calling!Finish, Calling!Become, Call
  <2> QED BY <2>2 DEF Calling!Next
<1> QED BY <1>1, <1>2

\* The steps that move a thread move its call as an iteration does.
LEMMA ThreadIterates ==
  ASSUME Threading, NEW thread \in Threads, stopped' = stopped,
         \/ phase'[thread] = phase[thread] /\ turn'[thread] = turn[thread]
         \/ /\ phase[thread] # "exited"
            /\ MayCall(thread) \/ phase[thread] # "idle"
            /\ \/ Return(thread)
               \/ Raise(thread)
               \/ \E place : /\ place \notin {"idle", "exited"}
                             /\ Goto(thread, place) /\ UNCHANGED turn
         \/ Exit(thread)
  PROVE  [Calling(thread)!Next]_(Calling(thread)!iterations)
<1>1. turn[thread] \in 1 .. 2 /\ thread \in DOMAIN turn /\ thread \in DOMAIN phase
  BY DEF Threading
<1>2. Iterates(Call(thread), Call(thread)')
  <2>1. CASE phase'[thread] = phase[thread] /\ turn'[thread] = turn[thread]
    BY <2>1 DEF Iterates, Call
  <2>2. CASE Exit(thread)
    BY <1>1, <2>2 DEF Exit, Goto, Iterates, Call, CallOf
  <2>3. ASSUME phase[thread] # "exited", MayCall(thread) \/ phase[thread] # "idle",
               Return(thread) \/ Raise(thread)
        PROVE  Iterates(Call(thread), Call(thread)')
    <3>1. /\ phase'[thread] = "idle"
          /\ turn'[thread] = 1 \/ turn'[thread] = 3 - turn[thread]
      BY <1>1, <2>3 DEF Return, Raise, Goto
    <3>2. CASE turn[thread] = 1
      <4>1. turn'[thread] \in {1, 2}
        BY <3>1, <3>2
      <4>2. Call(thread)' = IF turn'[thread] = 2 THEN "second" ELSE "out"
        BY <3>1 DEF Call, CallOf
      <4>3. \/ Call(thread) = "out" /\ ~stopped
            \/ Call(thread) = "first"
        BY <2>3, <3>2 DEF MayCall, Call, CallOf
      <4> QED BY <4>1, <4>2, <4>3 DEF Iterates
    <3>3. CASE turn[thread] = 2
      <4>1. turn'[thread] = 1
        BY <3>1, <3>3
      <4>2. Call(thread)' = "out" /\ Call(thread) = "second"
        BY <3>1, <3>3, <4>1 DEF Call, CallOf
      <4> QED BY <4>2 DEF Iterates
    <3> QED BY <1>1, <3>2, <3>3
  <2>4. ASSUME phase[thread] # "exited", MayCall(thread) \/ phase[thread] # "idle",
               NEW place, place \notin {"idle", "exited"},
               Goto(thread, place) /\ UNCHANGED turn
        PROVE  Iterates(Call(thread), Call(thread)')
    <3>1. phase'[thread] = place /\ turn' = turn
      BY <1>1, <2>4 DEF Goto
    <3> QED BY <1>1, <2>4, <3>1 DEF MayCall, Iterates, Call, CallOf
  <2> QED BY <2>1, <2>2, <2>3, <2>4
<1> HIDE DEF Calling!Next
<1> QED BY <1>2, IteratesThere, Zenon

\* Only SetStop changes the stop, and nothing else at once.
LEMMA StopIsSet ==
  ASSUME Threading, [Next]_vars, stopped' # stopped
  PROVE  stopped' = TRUE /\ stopped = FALSE /\ UNCHANGED <<turn, phase>>
<1>1. ASSUME NEW t, Callback(t) PROVE stopped' = stopped
  BY <1>1 DEF Callback, AddAddress, UpdateService, AddName, AddProperties, KeepsOtherMdns,
              threadVars
<1>2. ASSUME MdnsStep PROVE stopped' = stopped
  BY <1>2 DEF MdnsStep, Exit, ReturnAtOnce, MdnsBegin, TypesEnd, BrowseEnd, Test, ReadListener,
              KeepsCallbacks, CollectEnd, MdnsWrite, threadVars
<1>3. ASSUME SsdpStep \/ Fetch PROVE stopped' = stopped
  BY <1>3 DEF SsdpStep, Exit, ReturnAtOnce, SsdpBegin, SsdpTimeout, Receive, SsdpWrite,
              Fetch, Fetched, FetchRaises, KeepsOtherSsdp
<1>4. ASSUME LowerRunning \/ SeeMachine \/ UNCHANGED vars PROVE stopped' = stopped
  BY <1>4 DEF LowerRunning, SeeMachine, vars, threadVars
<1>5. SetStop
  BY <1>1, <1>2, <1>3, <1>4 DEF Next
<1> QED BY <1>5 DEF SetStop, Threading

\* What each thread of the model does: its own steps move it, all others leave it.
LEMMA ThreadMoves ==
  ASSUME Threading, NEW thread \in Threads, [Next]_vars, stopped' = stopped
  PROVE  \/ phase'[thread] = phase[thread] /\ turn'[thread] = turn[thread]
         \/ /\ phase[thread] # "exited"
            /\ MayCall(thread) \/ phase[thread] # "idle"
            /\ \/ Return(thread)
               \/ Raise(thread)
               \/ \E place : /\ place \notin {"idle", "exited"}
                             /\ Goto(thread, place) /\ UNCHANGED turn
         \/ Exit(thread)
<1> DEFINE Stays(t) == phase'[t] = phase[t] /\ turn'[t] = turn[t]
           Runs(t) == /\ phase[t] # "exited"
                      /\ MayCall(t) \/ phase[t] # "idle"
                      /\ \/ Return(t)
                         \/ Raise(t)
                         \/ \E place : /\ place \notin {"idle", "exited"}
                                       /\ Goto(t, place) /\ UNCHANGED turn
<1>1. Threads = {"mdns", "ssdp"} /\ DOMAIN phase = Threads /\ DOMAIN turn = Threads
  BY DEF Threads, Threading
<1>2. ASSUME UNCHANGED <<turn, phase>> PROVE Stays(thread)
  BY <1>2
<1>3. ASSUME NEW t \in Threads, t # thread, Runs(t) \/ Exit(t) PROVE Stays(thread)
  BY <1>1, <1>3 DEF Return, Raise, Exit, Goto
<1>4. ASSUME MdnsStep PROVE Runs("mdns") \/ Exit("mdns") \/ UNCHANGED <<turn, phase>>
  <2>1. ASSUME ReturnAtOnce("mdns") \/ MdnsBegin PROVE Runs("mdns")
    BY <2>1 DEF ReturnAtOnce, MdnsBegin, MayCall
  <2>2. ASSUME TypesEnd PROVE Runs("mdns")
    BY <2>2 DEF TypesEnd
  <2>3. ASSUME BrowseEnd \/ CollectEnd PROVE Runs("mdns")
    BY <2>3 DEF BrowseEnd, CollectEnd
  <2>4. ASSUME MdnsWrite PROVE Runs("mdns")
    BY <2>4 DEF MdnsWrite
  <2>5. ASSUME NEW t, Test(t) PROVE UNCHANGED <<turn, phase>>
    BY <2>5 DEF Test, KeepsCallbacks, threadVars
  <2>6. ASSUME NEW r, ReadListener(r) PROVE UNCHANGED <<turn, phase>>
    BY <2>6 DEF ReadListener, KeepsCallbacks, threadVars
  <2> QED BY <1>4, <2>1, <2>2, <2>3, <2>4, <2>5, <2>6 DEF MdnsStep
<1>5. ASSUME SsdpStep \/ Fetch
      PROVE  Runs("ssdp") \/ Exit("ssdp") \/ UNCHANGED <<turn, phase>>
  <2>1. ASSUME ReturnAtOnce("ssdp") \/ SsdpBegin PROVE Runs("ssdp")
    BY <2>1 DEF ReturnAtOnce, SsdpBegin, MayCall
  <2>2. ASSUME SsdpTimeout PROVE Runs("ssdp")
    BY <2>2 DEF SsdpTimeout
  <2>3. ASSUME NEW m, NEW i, Receive(m, i) PROVE Runs("ssdp") \/ UNCHANGED <<turn, phase>>
    BY <2>3 DEF Receive
  <2>4. ASSUME NEW a, SsdpWrite(a) \/ Fetched(a) PROVE Runs("ssdp")
    BY <2>4 DEF SsdpWrite, Fetched
  <2>5. ASSUME FetchRaises PROVE Runs("ssdp")
    BY <2>5 DEF FetchRaises
  <2> QED BY <1>5, <2>1, <2>2, <2>3, <2>4, <2>5 DEF SsdpStep, Fetch
<1>6. ASSUME NEW t, Callback(t) PROVE UNCHANGED <<turn, phase>>
  BY <1>6 DEF Callback, AddAddress, UpdateService, AddName, AddProperties, KeepsOtherMdns,
              threadVars
<1>7. ASSUME LowerRunning \/ SetStop \/ SeeMachine \/ UNCHANGED vars
      PROVE  UNCHANGED <<turn, phase>>
  BY <1>7 DEF LowerRunning, SetStop, SeeMachine, threadVars, vars
<1>8. \/ \E t \in Threads : Runs(t) \/ Exit(t)
      \/ UNCHANGED <<turn, phase>>
  BY <1>1, <1>4, <1>5, <1>6, <1>7 DEF Next
<1>9. CASE UNCHANGED <<turn, phase>>
  BY <1>2, <1>9
<1>10. ASSUME NEW t \in Threads, Runs(t) \/ Exit(t)
       PROVE  Stays(thread) \/ Runs(thread) \/ Exit(thread)
  <2>1. CASE t = thread
    BY <1>10, <2>1
  <2>2. CASE t # thread
    BY <1>3, <1>10, <2>2
  <2> QED BY <2>1, <2>2
<1> QED BY <1>8, <1>9, <1>10

\* Either thread begins its calls, follows them with each other and ends them only as
\* the iterations of a SafeLoopThread allow, which is what SafeLoop implements; for a
\* stop that comes between any two of its steps.
THEOREM DiscoveryIterates ==
  ASSUME NEW thread \in Threads
  PROVE  Spec => Calling(thread)!Spec
<1>1. Init => Calling(thread)!Init
  <2> SUFFICES ASSUME Init PROVE Calling(thread)!Init
    OBVIOUS
  <2>1. phase[thread] \in {"idle", "exited"} /\ turn[thread] = 1 /\ stopped = FALSE
    BY DEF Init
  <2>2. CallOf(phase[thread], turn[thread]) = "out"
    BY <2>1 DEF CallOf
  <2> QED BY <2>1, <2>2 DEF Calling!Init
<1>2. IInv /\ [Next]_vars => [Calling(thread)!Next]_(Calling(thread)!iterations)
  <2> SUFFICES ASSUME IInv, [Next]_vars
               PROVE  [Calling(thread)!Next]_(Calling(thread)!iterations)
    OBVIOUS
  <2>1. Threading
    BY DEF IInv
  <2>2. CASE stopped' = stopped
    BY <2>1, <2>2, ThreadMoves, ThreadIterates, Zenon
  <2>3. CASE stopped' # stopped
    <3>1. stopped' = TRUE /\ stopped = FALSE /\ UNCHANGED <<turn, phase>>
      BY <2>1, <2>3, StopIsSet
    <3>2. Calling(thread)!Tell(thread)
      BY <3>1 DEF Calling!Tell
    <3> QED BY <3>2 DEF Calling!Next
  <2> QED BY <2>2, <2>3
<1> QED BY <1>1, <1>2, Invariance, PTL DEF Spec, Calling!Spec

-----------------------------------------------------------------------------
(* The safety half of StopEnds, for mDNS.                                  *)

\* The reads that are left of the listener in hand.
LeftToRead ==
  IF \E r \in reading : r.next = "ip" THEN 3
  ELSE IF \E r \in reading : r.next = "name" THEN 2
  ELSE IF reading # {} THEN 1 ELSE 0

\* How many steps the thread of mDNS takes at most, once it was told to stop.
MdnsRest ==
  CASE phase["mdns"] = "types" -> 6 + 4 * Cardinality(Types)
    [] phase["mdns"] = "browse" -> 5 + 4 * Cardinality(Types)
    [] phase["mdns"] = "collect" -> 4 + 4 * Cardinality(todo) + LeftToRead
    [] phase["mdns"] = "write" -> 3
    [] phase["mdns"] = "idle" -> turn["mdns"]
    [] OTHER -> 0

\* After the stop every step of the thread is one of a bounded number, and nobody else,
\* also no callback of zeroconf, makes it more.
MdnsWindsDown ==
  [][stopped => IF MdnsStep THEN MdnsRest' < MdnsRest ELSE MdnsRest' = MdnsRest]_vars

\* The stop is set after is_running was lowered, which is never raised again.
StoppedLater == stopped => ~running

LEMMA StopIsLater == Spec => []StoppedLater
<1>1. Init => StoppedLater
  BY DEF Init, StoppedLater
<1>2. StoppedLater /\ [Next]_vars => StoppedLater'
  <2> SUFFICES ASSUME StoppedLater, [Next]_vars PROVE StoppedLater'
    OBVIOUS
  <2>1. ASSUME NEW t, Callback(t) PROVE StoppedLater'
    BY <2>1 DEF Callback, AddAddress, UpdateService, AddName, AddProperties, KeepsOtherMdns,
                threadVars, StoppedLater
  <2>2. ASSUME MdnsStep PROVE StoppedLater'
    BY <2>2 DEF MdnsStep, Exit, ReturnAtOnce, MdnsBegin, TypesEnd, BrowseEnd, Test,
                ReadListener, KeepsCallbacks, CollectEnd, MdnsWrite, threadVars, StoppedLater
  <2>3. ASSUME SsdpStep \/ Fetch PROVE StoppedLater'
    BY <2>3 DEF SsdpStep, Exit, ReturnAtOnce, SsdpBegin, SsdpTimeout, Receive, SsdpWrite,
                Fetch, Fetched, FetchRaises, KeepsOtherSsdp, StoppedLater
  <2>4. ASSUME LowerRunning \/ SetStop \/ SeeMachine \/ UNCHANGED vars PROVE StoppedLater'
    BY <2>4 DEF LowerRunning, SetStop, SeeMachine, threadVars, vars, StoppedLater
  <2> QED BY <2>1, <2>2, <2>3, <2>4 DEF Next
<1> QED BY <1>1, <1>2, PTL DEF Spec

\* The variables that the rest depends on, when the others take a step.
LEMMA OthersLeaveRest ==
  ASSUME Threading, [Next]_vars, ~MdnsStep
  PROVE  /\ phase'["mdns"] = phase["mdns"] /\ turn'["mdns"] = turn["mdns"]
         /\ UNCHANGED <<todo, reading>>
<1>1. ASSUME NEW t, Callback(t) PROVE UNCHANGED <<phase, turn, todo, reading>>
  BY <1>1 DEF Callback, AddAddress, UpdateService, AddName, AddProperties, KeepsOtherMdns,
              threadVars
<1>2. ASSUME LowerRunning \/ SetStop \/ SeeMachine \/ UNCHANGED vars
      PROVE  UNCHANGED <<phase, turn, todo, reading>>
  BY <1>2 DEF LowerRunning, SetStop, SeeMachine, threadVars, mdnsVars, vars
<1>3. ASSUME SsdpStep \/ Fetch
      PROVE  /\ phase'["mdns"] = phase["mdns"] /\ turn'["mdns"] = turn["mdns"]
             /\ UNCHANGED <<todo, reading>>
  <2>1. UNCHANGED <<todo, reading>>
    BY <1>3 DEF SsdpStep, Exit, ReturnAtOnce, SsdpBegin, SsdpTimeout, Receive, SsdpWrite,
                Fetch, Fetched, FetchRaises, KeepsOtherSsdp, mdnsVars
  <2>2. phase'["mdns"] = phase["mdns"] /\ turn'["mdns"] = turn["mdns"]
    <3>1. \/ UNCHANGED turn
          \/ turn' = [turn EXCEPT !["ssdp"] = 3 - @] \/ turn' = [turn EXCEPT !["ssdp"] = 1]
      BY <1>3 DEF SsdpStep, Exit, ReturnAtOnce, SsdpBegin, SsdpTimeout, Receive, SsdpWrite,
                  Fetch, Fetched, FetchRaises, Return, Raise
    <3>2. UNCHANGED phase \/ \E place : phase' = [phase EXCEPT !["ssdp"] = place]
      BY <1>3 DEF SsdpStep, Exit, ReturnAtOnce, SsdpBegin, SsdpTimeout, Receive, SsdpWrite,
                  Fetch, Fetched, FetchRaises, Return, Raise, Goto
    <3>3. "mdns" \in DOMAIN phase /\ "mdns" \in DOMAIN turn
      BY DEF Threading, Threads
    <3>4. turn'["mdns"] = turn["mdns"]
      BY <3>1, <3>3
    <3>5. phase'["mdns"] = phase["mdns"]
      BY <3>2, <3>3
    <3> QED BY <3>4, <3>5
  <2> QED BY <2>1, <2>2
<1> QED BY <1>1, <1>2, <1>3 DEF Next

\* The rest is a number.
LEMMA RestIsNumber ==
  ASSUME IsFiniteSet(Types), IInv
  PROVE  /\ Cardinality(Types) \in Nat /\ Cardinality(todo) \in Nat
         /\ IsFiniteSet(todo) /\ Cardinality(todo) <= Cardinality(Types)
         /\ LeftToRead \in 0 .. 3
         /\ turn["mdns"] \in 1 .. 2
<1>1. todo \subseteq Types
  BY DEF IInv, Collecting, Listening
<1>2. Cardinality(Types) \in Nat /\ IsFiniteSet(todo) /\ Cardinality(todo) <= Cardinality(Types)
  BY <1>1, FS_Subset, FS_CardinalityType
<1>3. Cardinality(todo) \in Nat
  BY <1>2, FS_CardinalityType
<1>4. turn["mdns"] \in 1 .. 2
  BY DEF IInv, Threading, Threads
<1> QED BY <1>2, <1>3, <1>4 DEF LeftToRead

\* Every step of the thread shortens it.
LEMMA StepShortens ==
  ASSUME IsFiniteSet(Types), IInv, StoppedLater, stopped, MdnsStep
  PROVE  MdnsRest' < MdnsRest
<1> DEFINE c == Cardinality(Types)
           n == Cardinality(todo)
<1>1. /\ c \in Nat /\ n \in Nat /\ n <= c /\ IsFiniteSet(todo)
      /\ LeftToRead \in 0 .. 3 /\ turn["mdns"] \in 1 .. 2
  BY RestIsNumber
<1>2. /\ phase = [t \in Threads |-> phase[t]] /\ turn \in [Threads -> 1 .. 2]
      /\ "mdns" \in Threads /\ ~running
  BY DEF IInv, Threading, Threads, StoppedLater
<1>3. \A place : Goto("mdns", place) => phase'["mdns"] = place
  BY <1>2 DEF Goto
<1>4. Return("mdns") => /\ phase'["mdns"] = "idle"
                        /\ turn'["mdns"] = 3 - turn["mdns"] /\ turn'["mdns"] \in 1 .. 2
  BY <1>1, <1>2, <1>3 DEF Return
<1> HIDE DEF c, n
<1>5. CASE Exit("mdns")
  <2>1. phase["mdns"] = "idle" /\ phase'["mdns"] = "exited"
    BY <1>3, <1>5 DEF Exit
  <2> QED BY <1>1, <2>1 DEF MdnsRest
<1>6. CASE ReturnAtOnce("mdns")
  <2>1. phase["mdns"] = "idle" /\ turn["mdns"] = 2
    BY <1>1, <1>6 DEF ReturnAtOnce, MayCall
  <2>2. phase'["mdns"] = "idle" /\ turn'["mdns"] = 1
    BY <1>4, <1>6, <2>1 DEF ReturnAtOnce
  <2> QED BY <2>1, <2>2 DEF MdnsRest
<1>7. ~MdnsBegin
  BY <1>2 DEF MdnsBegin
<1>8. CASE TypesEnd
  <2>1. /\ phase["mdns"] = "types"
        /\ phase'["mdns"] = "browse"
           \/ (phase'["mdns"] = "idle" /\ turn'["mdns"] \in 1 .. 2)
    BY <1>3, <1>4, <1>8 DEF TypesEnd
  <2> QED BY <1>1, <2>1 DEF MdnsRest, c
<1>9. CASE BrowseEnd
  <2>1. phase["mdns"] = "browse" /\ phase'["mdns"] = "collect" /\ reading' = reading
    BY <1>3, <1>9 DEF BrowseEnd
  <2>2. reading = {}
    BY <2>1 DEF IInv, Collecting
  <2>3. LeftToRead' = 0
    BY <2>1, <2>2 DEF LeftToRead
  <2>4. todo' \subseteq Types
    BY <1>9 DEF BrowseEnd, IInv, Listening
  <2>5. Cardinality(todo') \in Nat /\ Cardinality(todo') <= c
    BY <2>4, FS_Subset, FS_CardinalityType DEF c
  <2> QED BY <1>1, <2>1, <2>3, <2>5 DEF MdnsRest, c
<1>10. ASSUME NEW t \in todo, Test(t) PROVE MdnsRest' < MdnsRest
  <2>1. /\ phase["mdns"] = "collect" /\ phase'["mdns"] = "collect"
        /\ todo' = todo \ {t} /\ reading = {}
    BY <1>10 DEF Test, KeepsCallbacks, threadVars
  <2>2. Cardinality(todo') = n - 1
    BY <1>1, <2>1, FS_RemoveElement DEF n
  <2>3. LeftToRead = 0 /\ LeftToRead' \in 0 .. 3
    BY <2>1 DEF LeftToRead
  <2> QED BY <1>1, <2>1, <2>2, <2>3 DEF MdnsRest, n
<1>11. ASSUME NEW r \in reading, ReadListener(r) PROVE MdnsRest' < MdnsRest
  <2>1. phase["mdns"] = "collect" /\ phase' = phase /\ todo' = todo /\ reading = {r}
        /\ r.next \in {"ip", "name", "properties"}
    BY <1>11 DEF ReadListener, KeepsCallbacks, threadVars, IInv, Collecting
  <2>2. LeftToRead = IF r.next = "ip" THEN 3 ELSE IF r.next = "name" THEN 2 ELSE 1
    BY <2>1 DEF LeftToRead
  <2>3. LeftToRead' = LeftToRead - 1
    <3>1. CASE r.next = "properties"
      <4>1. reading' = {}
        BY <1>11, <3>1 DEF ReadListener
      <4> QED BY <2>2, <3>1, <4>1 DEF LeftToRead
    <3>2. CASE r.next # "properties"
      <4>1. PICK entry : reading' = {[entry |-> entry,
                                       next |-> IF r.next = "ip" THEN "name" ELSE "properties"]}
        BY <1>11, <3>2 DEF ReadListener
      <4>2. LeftToRead' = IF r.next = "ip" THEN 2 ELSE 1
        BY <2>1, <3>2, <4>1 DEF LeftToRead
      <4> QED BY <2>1, <2>2, <3>2, <4>2
    <3> QED BY <3>1, <3>2
  <2> QED BY <1>1, <2>1, <2>3 DEF MdnsRest, n
<1>12. CASE CollectEnd
  <2>1. phase["mdns"] = "collect" /\ phase'["mdns"] = "write"
    BY <1>3, <1>12 DEF CollectEnd
  <2> QED BY <1>1, <2>1 DEF MdnsRest, n
<1>13. CASE MdnsWrite
  <2>1. phase["mdns"] = "write" /\ phase'["mdns"] = "idle" /\ turn'["mdns"] \in 1 .. 2
    BY <1>4, <1>13 DEF MdnsWrite
  <2> QED BY <1>1, <2>1 DEF MdnsRest
<1> QED BY <1>5, <1>6, <1>7, <1>8, <1>9, <1>10, <1>11, <1>12, <1>13 DEF MdnsStep

\* That many steps: for a listener that is being read one type is no longer to do.
LEMMA RestBounded ==
  ASSUME IsFiniteSet(Types), IInv
  PROVE  MdnsRest \in 0 .. 6 + 4 * Cardinality(Types)
<1> DEFINE c == Cardinality(Types)
           n == Cardinality(todo)
<1>1. /\ c \in Nat /\ n \in Nat /\ n <= c
      /\ LeftToRead \in 0 .. 3 /\ turn["mdns"] \in 1 .. 2
  BY RestIsNumber
<1>2. phase["mdns"] \in MdnsPhases
  BY DEF IInv, Threading
<1>3. phase["mdns"] = "collect" => 4 + 4 * n + LeftToRead <= 6 + 4 * c
  <2>1. ASSUME phase["mdns"] = "collect", reading # {} PROVE n < c
    <3>1. PICK r \in reading : r.entry.type \in Types \ todo
      BY <2>1 DEF IInv, Collecting, Listening
    <3>2. todo \subseteq Types /\ todo # Types
      BY <3>1 DEF IInv, Collecting, Listening
    <3> QED BY <1>1, <3>2, FS_Subset
  <2>2. reading = {} => LeftToRead = 0
    BY DEF LeftToRead
  <2> QED BY <1>1, <2>1, <2>2
<1> HIDE DEF c, n
<1> QED BY <1>1, <1>2, <1>3 DEF MdnsRest, MdnsPhases, c, n

\* However many types there are and whenever the stop comes: the thread of mDNS has at
\* most six steps left, and four for every type.
THEOREM MdnsStopIsBounded ==
  ASSUME IsFiniteSet(Types)
  PROVE  Spec => [](MdnsRest \in 0 .. 6 + 4 * Cardinality(Types)) /\ MdnsWindsDown
<1>1. IInv => MdnsRest \in 0 .. 6 + 4 * Cardinality(Types)
  BY RestBounded
<1>2. IInv /\ StoppedLater /\ [Next]_vars =>
        [stopped => IF MdnsStep THEN MdnsRest' < MdnsRest ELSE MdnsRest' = MdnsRest]_vars
  <2>1. ASSUME IInv, StoppedLater, stopped, MdnsStep PROVE MdnsRest' < MdnsRest
    BY <2>1, StepShortens
  <2>2. ASSUME IInv, [Next]_vars, ~MdnsStep PROVE MdnsRest' = MdnsRest
    BY <2>2, OthersLeaveRest DEF IInv, MdnsRest, LeftToRead
  <2> QED BY <2>1, <2>2
<1> QED BY <1>1, <1>2, Invariance, StopIsLater, PTL DEF Spec, MdnsWindsDown
=============================================================================
