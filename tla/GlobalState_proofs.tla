-------------------------- MODULE GlobalState_proofs --------------------------
(***************************************************************************)
(* The locks and the network information for any networks, any number of   *)
(* changes and any threads running at once.                                *)
(*                                                                         *)
(* Where a thread is in its program says which locks it holds.  That every *)
(* program gives back what it takes, and takes a lock while it holds one   *)
(* only in the order rw_lock, global_state_lock, are facts about the       *)
(* programs; that the locks are held accordingly is the inductive          *)
(* invariant.                                                              *)
(***************************************************************************)
EXTENDS GlobalState, TLAPS

-----------------------------------------------------------------------------
(* The programs.                                                           *)

Is(operation, action, lock) == operation.do = action /\ operation.what = lock

\* A thread that executes step n of program p next holds the lock.
Holds(p, n, lock) ==
  \E a \in DOMAIN p :
    /\ a < n /\ Is(p[a], "acquire", lock)
    /\ \A i \in DOMAIN p : a < i /\ i < n => ~Is(p[i], "release", lock)

\* It releases only what it holds, and holds nothing in the end.
Closed(p) ==
  \A lock \in Locks :
    /\ \A n \in DOMAIN p : Is(p[n], "release", lock) => Holds(p, n, lock)
    /\ Holds(p, Len(p), lock) => Is(p[Len(p)], "release", lock)
    /\ ~Is(p[Len(p)], "acquire", lock)

\* It takes a lock while it holds one only in the order rw_lock, global_state_lock.
Ordered(p) ==
  \A n \in DOMAIN p, held, lock \in Locks :
    /\ Holds(p, n, held)
    /\ Is(p[n], "acquire", lock) \/ Is(p[n], "pass", lock)
    => held = "rw_lock" /\ lock = "global_state_lock"

\* Only the networking thread writes, while it holds global_state_lock.
Guarded(p) ==
  \A n \in DOMAIN p : p[n].do = "write" => Holds(p, n, "global_state_lock")

\* Reads name fields.
Sound(p) ==
  \A n \in DOMAIN p :
    /\ p[n].do \in {"acquire", "release", "read", "write", "call", "pass"}
    /\ p[n].do \in {"acquire", "release", "pass"} => p[n].what \in Locks
    /\ p[n].do \in {"read", "write"} => p[n].what \in Fields

Proper(p) ==
  /\ Len(p) \in Nat \ {0} /\ DOMAIN p = 1 .. Len(p)
  /\ Closed(p) /\ Ordered(p) /\ Guarded(p) /\ Sound(p)

\* The programs are sequences of constants: the facts are computed.
LEMMA ProgramsProper == \A t \in Threads : \A p \in Programs[t] : Proper(p)
<1> USE DEF Acquire, Release, Read, Write, Call, Pass, IsRunning, Query, Is, Locks, Fields
<1>1. Proper(UpdateNetworkInfo)
  <2> USE DEF UpdateNetworkInfo
  <2>1. Len(UpdateNetworkInfo) = 16 /\ DOMAIN UpdateNetworkInfo = 1 .. 16
    OBVIOUS
  <2>2. Closed(UpdateNetworkInfo)
    BY <2>1 DEF Closed, Holds
  <2>3. Ordered(UpdateNetworkInfo)
    BY <2>1 DEF Ordered, Holds
  <2>4. Guarded(UpdateNetworkInfo) /\ Sound(UpdateNetworkInfo)
    BY <2>1 DEF Guarded, Sound, Holds
  <2> QED BY <2>1, <2>2, <2>3, <2>4 DEF Proper
<1>2. Proper(ArpScanner)
  <2> USE DEF ArpScanner
  <2>1. Len(ArpScanner) = 6 /\ DOMAIN ArpScanner = 1 .. 6
    OBVIOUS
  <2>2. Closed(ArpScanner)
    BY <2>1 DEF Closed, Holds
  <2>3. Ordered(ArpScanner)
    BY <2>1 DEF Ordered, Holds
  <2>4. Guarded(ArpScanner) /\ Sound(ArpScanner)
    BY <2>1 DEF Guarded, Sound, Holds
  <2> QED BY <2>1, <2>2, <2>3, <2>4 DEF Proper
<1>3. Proper(PacketCollector)
  <2> USE DEF PacketCollector
  <2>1. Len(PacketCollector) = 5 /\ DOMAIN PacketCollector = 1 .. 5
    OBVIOUS
  <2>2. Closed(PacketCollector)
    BY <2>1 DEF Closed, Holds
  <2>3. Ordered(PacketCollector)
    BY <2>1 DEF Ordered, Holds
  <2>4. Guarded(PacketCollector) /\ Sound(PacketCollector)
    BY <2>1 DEF Guarded, Sound, Holds
  <2> QED BY <2>1, <2>2, <2>3, <2>4 DEF Proper
<1>4. Proper(ArpSpoof)
  <2> USE DEF ArpSpoof
  <2>1. Len(ArpSpoof) = 12 /\ DOMAIN ArpSpoof = 1 .. 12
    OBVIOUS
  <2>2. Closed(ArpSpoof)
    BY <2>1 DEF Closed, Holds
  <2>3. Ordered(ArpSpoof)
    BY <2>1 DEF Ordered, Holds
  <2>4. Guarded(ArpSpoof) /\ Sound(ArpSpoof)
    BY <2>1 DEF Guarded, Sound, Holds
  <2> QED BY <2>1, <2>2, <2>3, <2>4 DEF Proper
<1>5. Proper(ProcessDns)
  <2> USE DEF ProcessDns
  <2>1. Len(ProcessDns) = 8 /\ DOMAIN ProcessDns = 1 .. 8
    OBVIOUS
  <2>2. Closed(ProcessDns)
    BY <2>1 DEF Closed, Holds
  <2>3. Ordered(ProcessDns)
    BY <2>1 DEF Ordered, Holds
  <2>4. Guarded(ProcessDns) /\ Sound(ProcessDns)
    BY <2>1 DEF Guarded, Sound, Holds
  <2> QED BY <2>1, <2>2, <2>3, <2>4 DEF Proper
<1>6. Proper(ProcessArp)
  <2> USE DEF ProcessArp
  <2>1. Len(ProcessArp) = 6 /\ DOMAIN ProcessArp = 1 .. 6
    OBVIOUS
  <2>2. Closed(ProcessArp)
    BY <2>1 DEF Closed, Holds
  <2>3. Ordered(ProcessArp)
    BY <2>1 DEF Ordered, Holds
  <2>4. Guarded(ProcessArp) /\ Sound(ProcessArp)
    BY <2>1 DEF Guarded, Sound, Holds
  <2> QED BY <2>1, <2>2, <2>3, <2>4 DEF Proper
<1>7. Proper(SsdpDiscovery)
  <2> USE DEF SsdpDiscovery
  <2>1. Len(SsdpDiscovery) = 3 /\ DOMAIN SsdpDiscovery = 1 .. 3
    OBVIOUS
  <2>2. Closed(SsdpDiscovery)
    BY <2>1 DEF Closed, Holds
  <2>3. Ordered(SsdpDiscovery)
    BY <2>1 DEF Ordered, Holds
  <2>4. Guarded(SsdpDiscovery) /\ Sound(SsdpDiscovery)
    BY <2>1 DEF Guarded, Sound, Holds
  <2> QED BY <2>1, <2>2, <2>3, <2>4 DEF Proper
<1>8. Proper(MdnsDiscovery)
  <2> USE DEF MdnsDiscovery
  <2>1. Len(MdnsDiscovery) = 2 /\ DOMAIN MdnsDiscovery = 1 .. 2
    OBVIOUS
  <2>2. Closed(MdnsDiscovery)
    BY <2>1 DEF Closed, Holds
  <2>3. Ordered(MdnsDiscovery)
    BY <2>1 DEF Ordered, Holds
  <2>4. Guarded(MdnsDiscovery) /\ Sound(MdnsDiscovery)
    BY <2>1 DEF Guarded, Sound, Holds
  <2> QED BY <2>1, <2>2, <2>3, <2>4 DEF Proper
<1>9. Proper(<<Query>>)
  BY DEF Proper, Closed, Ordered, Guarded, Sound, Holds
<1> QED
  BY <1>1, <1>2, <1>3, <1>4, <1>5, <1>6, <1>7, <1>8, <1>9
  DEF Programs, Threads, Readers

\* update_network_info holds nothing while it asks the system, nor where it goes on
\* when there is no mask, and its last operation is the release of its only lock.
LEMMA AsksWithoutLock ==
  \A n \in DOMAIN UpdateNetworkInfo, lock \in Locks :
    /\ UpdateNetworkInfo[n].do = "call" => ~Holds(UpdateNetworkInfo, n, lock)
    /\ UpdateNetworkInfo[n] = Call("mask") =>
         n = 7 /\ ~Holds(UpdateNetworkInfo, n + 1, lock) /\ ~Holds(UpdateNetworkInfo, n + 3, lock)
    /\ n = Len(UpdateNetworkInfo) <=> Is(UpdateNetworkInfo[n], "release", "global_state_lock")
    /\ Holds(UpdateNetworkInfo, n, lock) => lock = "global_state_lock"
<1> USE DEF UpdateNetworkInfo, Acquire, Release, Read, Write, Call, Pass, Is, Locks
<1>1. Len(UpdateNetworkInfo) = 16 /\ DOMAIN UpdateNetworkInfo = 1 .. 16
  OBVIOUS
<1> QED BY <1>1 DEF Holds

-----------------------------------------------------------------------------
(* The locks.                                                              *)

Positioned ==
  /\ program = [t \in Threads |-> program[t]]
  /\ step = [t \in Threads |-> step[t]]
  /\ \A t \in Threads : program[t] \in Programs[t] /\ step[t] \in DOMAIN program[t]

\* Of the threads that run and of the others, which wait at their first operation.
LocksHeld ==
  /\ holder \in [Locks -> Threads \cup {Nobody}]
  /\ \A t \in Threads, l \in Locks : holder[l] = t <=> Holds(program[t], step[t], l)

\* Who calls a function holds nothing.
LEMMA StartsWithout == \A p, l : ~Holds(p, 1, l) \/ ~Proper(p)
BY DEF Holds, Proper

\* The operation of a thread, by what is known of its program.
LEMMA OperationProper ==
  ASSUME Positioned, NEW t \in Threads
  PROVE  /\ Proper(program[t])
         /\ step[t] \in 1 .. Len(program[t])
         /\ Operation(t) = program[t][step[t]]
         /\ Operation(t).do \in {"acquire", "release", "read", "write", "call", "pass"}
BY ProgramsProper DEF Positioned, Proper, Sound, Operation

\* After an operation a thread holds what it acquired with it, and what it held and
\* did not release; another thread stays where it is.
LEMMA ProceedHolds ==
  ASSUME Positioned, NEW t \in Threads, Proceed(t)
  PROVE  /\ Positioned'
         /\ \A u \in Threads \ {t} : program'[u] = program[u] /\ step'[u] = step[u]
         /\ \A l \in Locks :
              Holds(program'[t], step'[t], l) <=>
                \/ Is(Operation(t), "acquire", l)
                \/ Holds(program[t], step[t], l) /\ ~Is(Operation(t), "release", l)
<1> DEFINE p == program[t]
           n == step[t]
<1>1. Proper(p) /\ n \in 1 .. Len(p) /\ Operation(t) = p[n]
  BY OperationProper
<1>2. DOMAIN p = 1 .. Len(p) /\ Len(p) \in Nat
  BY <1>1 DEF Proper
<1>3. CASE n + 1 \in DOMAIN p
  <2>1. program' = program /\ step' = [step EXCEPT ![t] = n + 1]
    BY <1>3 DEF Proceed, Goto
  <2>2. step'[t] = n + 1 /\ \A u \in Threads \ {t} : step'[u] = step[u]
    BY <2>1 DEF Positioned
  <2>3. Positioned'
    BY <2>1, <2>2, <1>3 DEF Positioned
  <2>4. ASSUME NEW l \in Locks
        PROVE  Holds(p, n + 1, l) <=>
                 Is(p[n], "acquire", l) \/ (Holds(p, n, l) /\ ~Is(p[n], "release", l))
    <3>1. \A a \in DOMAIN p : a < n + 1 <=> (a < n \/ a = n)
      BY <1>1, <1>2
    <3>2. \A i \in DOMAIN p : ~(n < i /\ i < n + 1)
      BY <1>1, <1>2
    <3> QED
      BY <3>1, <3>2, <1>1, <1>2 DEF Holds, Is
  <2> QED BY <2>1, <2>2, <2>3, <2>4, <1>1
<1>4. CASE n + 1 \notin DOMAIN p
  <2>1. n = Len(p)
    BY <1>1, <1>2, <1>4
  <2>2. PICK q \in Programs[t] : program' = [program EXCEPT ![t] = q]
    BY <1>4 DEF Proceed, Goto
  <2>3. step' = [step EXCEPT ![t] = 1]
    BY <1>4 DEF Proceed, Goto
  <2>4. /\ program'[t] = q /\ step'[t] = 1
        /\ \A u \in Threads \ {t} : program'[u] = program[u] /\ step'[u] = step[u]
    BY <2>2, <2>3 DEF Positioned
  <2>5. Proper(q) /\ 1 \in DOMAIN q
    BY ProgramsProper DEF Proper
  <2>6. Positioned'
    BY <2>2, <2>3, <2>4, <2>5 DEF Positioned
  <2>7. \A l \in Locks : ~Holds(q, 1, l)
    BY <2>5, StartsWithout
  <2>8. \A l \in Locks : ~Is(p[n], "acquire", l) /\ (Holds(p, n, l) => Is(p[n], "release", l))
    BY <1>1, <2>1 DEF Proper, Closed
  <2> QED BY <2>4, <2>6, <2>7, <2>8, <1>1
<1> QED BY <1>3, <1>4

\* An operation that takes and releases no lock leaves the locks as they are.
LEMMA OtherOperation ==
  ASSUME Positioned, LocksHeld, NEW t \in Threads, Proceed(t), holder' = holder,
         Operation(t).do \notin {"acquire", "release"}
  PROVE  Positioned' /\ LocksHeld'
<1>1. /\ Positioned'
      /\ \A u \in Threads \ {t} : program'[u] = program[u] /\ step'[u] = step[u]
      /\ \A l \in Locks : Holds(program'[t], step'[t], l) <=> Holds(program[t], step[t], l)
  BY ProceedHolds DEF Is
<1> QED BY <1>1 DEF LocksHeld

LEMMA AcquireHolds ==
  ASSUME Positioned, LocksHeld, NEW t \in Threads, AcquireLock(t)
  PROVE  Positioned' /\ LocksHeld'
<1> DEFINE lock == Operation(t).what
<1>1. /\ Operation(t).do = "acquire" /\ lock \in Locks
      /\ holder[lock] = Nobody /\ holder' = [holder EXCEPT ![lock] = t] /\ Proceed(t)
  BY OperationProper DEF AcquireLock, Proper, Sound
<1>2. \A l \in Locks : Is(Operation(t), "acquire", l) <=> l = lock
  BY <1>1 DEF Is
<1>3. \A l \in Locks : ~Is(Operation(t), "release", l)
  BY <1>1 DEF Is
<1>4. /\ Positioned'
      /\ \A u \in Threads \ {t} : program'[u] = program[u] /\ step'[u] = step[u]
      /\ \A l \in Locks : Holds(program'[t], step'[t], l) <=>
           l = lock \/ Holds(program[t], step[t], l)
  BY <1>1, <1>2, <1>3, ProceedHolds
<1>5. Nobody \notin Threads
  BY DEF Nobody, Threads, Readers
<1>6. holder' \in [Locks -> Threads \cup {Nobody}]
  BY <1>1 DEF LocksHeld
<1>7. \A u \in Threads, l \in Locks : holder'[l] = u <=> (IF l = lock THEN u = t ELSE holder[l] = u)
  BY <1>1 DEF LocksHeld
<1>8. \A u \in Threads : ~Holds(program[u], step[u], lock)
  BY <1>1, <1>5 DEF LocksHeld
<1> QED BY <1>1, <1>4, <1>6, <1>7, <1>8 DEF LocksHeld

LEMMA ReleaseHolds ==
  ASSUME Positioned, LocksHeld, NEW t \in Threads, ReleaseLock(t)
  PROVE  /\ Positioned' /\ LocksHeld'
         /\ Operation(t).what \in Locks /\ holder[Operation(t).what] = t
         /\ holder'[Operation(t).what] = Nobody
<1> DEFINE lock == Operation(t).what
<1>1. /\ Operation(t).do = "release" /\ lock \in Locks
      /\ holder' = [holder EXCEPT ![lock] = Nobody] /\ Proceed(t)
  BY OperationProper DEF ReleaseLock, Proper, Sound
<1>2. Holds(program[t], step[t], lock)
  BY <1>1, OperationProper DEF Proper, Closed, Is
<1>3. \A l \in Locks : Is(Operation(t), "release", l) <=> l = lock
  BY <1>1 DEF Is
<1>4. \A l \in Locks : ~Is(Operation(t), "acquire", l)
  BY <1>1 DEF Is
<1>5. /\ Positioned'
      /\ \A u \in Threads \ {t} : program'[u] = program[u] /\ step'[u] = step[u]
      /\ \A l \in Locks : Holds(program'[t], step'[t], l) <=>
           l # lock /\ Holds(program[t], step[t], l)
  BY <1>1, <1>3, <1>4, ProceedHolds
<1>6. Nobody \notin Threads
  BY DEF Nobody, Threads, Readers
<1>7. holder[lock] = t
  BY <1>1, <1>2 DEF LocksHeld
<1>8. holder' \in [Locks -> Threads \cup {Nobody}] /\ holder'[lock] = Nobody
  BY <1>1 DEF LocksHeld
<1>9. \A u \in Threads, l \in Locks : holder'[l] = u <=> l # lock /\ holder[l] = u
  BY <1>1, <1>6 DEF LocksHeld
<1>10. \A u \in Threads \ {t} : ~Holds(program[u], step[u], lock)
  BY <1>1, <1>7 DEF LocksHeld
<1> QED BY <1>1, <1>5, <1>7, <1>8, <1>9, <1>10 DEF LocksHeld

\* The networking thread goes elsewhere than to its next operation only from one that
\* asks the system: it begins anew, or skips what needs a mask.
LEMMA JumpHolds ==
  ASSUME Positioned, LocksHeld, Operation("networking").do = "call", holder' = holder,
         NEW n \in DOMAIN UpdateNetworkInfo, Goto("networking", n),
         \A l \in Locks : ~Holds(UpdateNetworkInfo, n, l)
  PROVE  Positioned' /\ LocksHeld'
<1>1. "networking" \in Threads /\ Programs["networking"] = {UpdateNetworkInfo}
  BY DEF Threads, Programs
<1>2. program["networking"] = UpdateNetworkInfo
  BY <1>1 DEF Positioned
<1>3. program' = program /\ step' = [step EXCEPT !["networking"] = n]
  BY <1>2 DEF Goto
<1>4. /\ step'["networking"] = n
      /\ \A u \in Threads \ {"networking"} : step'[u] = step[u]
  BY <1>1, <1>3 DEF Positioned
<1>5. Positioned'
  BY <1>2, <1>3, <1>4 DEF Positioned
<1>6. \A l \in Locks : ~Holds(UpdateNetworkInfo, step["networking"], l)
  BY <1>2, <1>1, AsksWithoutLock DEF Positioned, Operation
<1>7. \A l \in Locks : Holds(program'["networking"], step'["networking"], l)
                         <=> Holds(program["networking"], step["networking"], l)
  BY <1>2, <1>3, <1>4, <1>6
<1> QED BY <1>3, <1>4, <1>5, <1>7 DEF LocksHeld

LEMMA GetMaskHolds ==
  ASSUME Positioned, LocksHeld, GetMask
  PROVE  Positioned' /\ LocksHeld'
<1> DEFINE n == step["networking"]
<1>1. "networking" \in Threads /\ program["networking"] = UpdateNetworkInfo
  BY DEF Positioned, Threads, Programs
<1>2. /\ n \in DOMAIN UpdateNetworkInfo /\ UpdateNetworkInfo[n] = Call("mask")
      /\ Operation("networking").do = "call"
  BY <1>1 DEF Positioned, GetMask, Calls, Operation, Call
<1>3. n = 7 /\ \A l \in Locks : ~Holds(UpdateNetworkInfo, n + 1, l)
                                 /\ ~Holds(UpdateNetworkInfo, n + 3, l)
  <2>1. "rw_lock" \in Locks
    BY DEF Locks
  <2> QED BY <2>1, <1>2, AsksWithoutLock
<1>4. DOMAIN UpdateNetworkInfo = 1 .. 16
  BY DEF UpdateNetworkInfo
<1>5. holder' = holder
  BY DEF GetMask, KeepsShared
<1>6. Goto("networking", n + 1) \/ Goto("networking", n + 3)
  BY DEF GetMask
<1> HIDE DEF n
<1>7. n + 1 \in DOMAIN UpdateNetworkInfo /\ n + 3 \in DOMAIN UpdateNetworkInfo
  BY <1>3, <1>4
<1> QED BY <1>2, <1>3, <1>5, <1>6, <1>7, JumpHolds

LEMMA LocksInvariance ==
  ASSUME running \subseteq Threads, Positioned, LocksHeld, [Next]_vars
  PROVE  Positioned' /\ LocksHeld'
<1>1. "networking" \in Threads
  BY DEF Threads
<1>2. CASE UNCHANGED vars \/ ChangeRoute
  <2>1. UNCHANGED <<holder, program, step>>
    BY <1>2 DEF vars, ChangeRoute
  <2> QED BY <2>1 DEF Positioned, LocksHeld
<1>3. ASSUME NEW t \in running, Locking(t)
      PROVE  Positioned' /\ LocksHeld'
  <2>1. CASE AcquireLock(t)
    BY <2>1, <1>3, AcquireHolds
  <2>2. CASE PassLock(t)
    BY <2>2, OtherOperation DEF PassLock
  <2> QED BY <2>1, <2>2, <1>3 DEF Locking
<1>4. ASSUME NEW t \in running, ReleaseLock(t)
      PROVE  Positioned' /\ LocksHeld'
  BY <1>4, ReleaseHolds
<1>5. ASSUME NEW t \in running, ReadField(t) \/ WriteField(t)
      PROVE  Positioned' /\ LocksHeld'
  BY <1>5, OtherOperation DEF ReadField, WriteField
<1>6. ASSUME GetAddress \/ NoTable \/ GetRoute \/ GetInterface \/ GetMac \/ GetRange
      PROVE  Positioned' /\ LocksHeld'
  <2>1. Operation("networking").do = "call" /\ holder' = holder
    BY <1>6 DEF GetAddress, NoTable, GetRoute, GetInterface, GetMac, GetRange, Calls, Call,
                KeepsShared
  <2>2. CASE Proceed("networking")
    BY <2>1, <2>2, <1>1, OtherOperation
  <2>3. CASE UNCHANGED <<program, step>>
    BY <2>1, <2>3 DEF Positioned, LocksHeld
  <2>4. CASE Goto("networking", 1)
    <3>1. Proper(UpdateNetworkInfo)
      BY <1>1, ProgramsProper DEF Programs
    <3>2. 1 \in DOMAIN UpdateNetworkInfo /\ \A l \in Locks : ~Holds(UpdateNetworkInfo, 1, l)
      BY <3>1, StartsWithout DEF Proper
    <3> QED BY <2>1, <2>4, <3>2, JumpHolds
  <2> QED
    BY <1>6, <2>2, <2>3, <2>4
    DEF GetAddress, NoTable, GetRoute, GetInterface, GetMac, GetRange, Raise
<1> QED
  BY <1>2, <1>3, <1>4, <1>5, <1>6, GetMaskHolds DEF Next, Unblocked

-----------------------------------------------------------------------------
(* The types.  The mask is known where the range is computed from it.      *)

Types ==
  /\ route \in Routes \cup {NoRoute}
  /\ changes \in 0 .. MaxChanges
  /\ running \subseteq Threads /\ "networking" \in running
  /\ address \in Routes \cup {NoRoute} /\ mask \in Routes \cup {NoRoute}
  /\ tries \in 0 .. Attempts - 1
  /\ step["networking"] \in {8, 9} => mask \in Routes

InfoTypes == info \in Infos /\ draft \in Infos /\ published \in Infos

FieldValues(f) == IF f = "ip_range" THEN Ranges ELSE Routes \cup {NoRoute}

LEMMA InfoWith ==
  ASSUME NEW i \in Infos, NEW f \in Fields, NEW v \in FieldValues(f)
  PROVE  [i EXCEPT ![f] = v] \in Infos
BY DEF Infos, FieldValues

LEMMA InfoField ==
  ASSUME NEW i \in Infos, NEW f \in Fields
  PROVE  i[f] \in FieldValues(f)
BY DEF Infos, FieldValues

LEMMA UnknownIsInfo == Unknown \in Infos
BY DEF Infos, Unknown, Ranges, Fields

LEMMA InfoOfIsInfo == \A r \in Routes : InfoOf(r) \in Infos
BY DEF Infos, InfoOf, Ranges, Fields

LEMMA NetworkingAt ==
  ASSUME Positioned, NEW name, Calls(name)
  PROVE  /\ program["networking"] = UpdateNetworkInfo
         /\ step["networking"] \in 1 .. 9
         /\ name = "range" <=> step["networking"] = 9
         /\ name = "mask" <=> step["networking"] = 7
         /\ DOMAIN program["networking"] = 1 .. 16
<1>1. "networking" \in Threads /\ program["networking"] = UpdateNetworkInfo
  BY DEF Positioned, Threads, Programs
<1>2. DOMAIN UpdateNetworkInfo = 1 .. 16
  BY DEF UpdateNetworkInfo
<1>3. step["networking"] \in 1 .. 16 /\ UpdateNetworkInfo[step["networking"]] = Call(name)
  BY <1>1, <1>2 DEF Positioned, Calls, Operation
<1> QED
  BY <1>1, <1>2, <1>3 DEF UpdateNetworkInfo, Acquire, Release, Write, Call

LEMMA TypesInvariance ==
  ASSUME Types, InfoTypes, Positioned, [Next]_vars
  PROVE  Types'
<1>1. "networking" \in Threads
  BY DEF Threads
<1>2. CASE UNCHANGED vars
  BY <1>2 DEF vars, networkingVars, Types
<1>3. CASE ChangeRoute
  BY <1>3, GlobalStateAssumption DEF ChangeRoute, Types, networkingVars
<1> DEFINE Kept == UNCHANGED <<route, changes, running>>
           n == step["networking"]
\* Whoever goes on one operation: into those that need the mask only from one of them,
\* or from the one that looks for it.
<1>4. ASSUME NEW t \in Threads, Proceed(t), Kept, UNCHANGED <<address, mask, tries>>,
             t = "networking" => n # 7
      PROVE  Types'
  <2>1. n \in 1 .. 16 /\ Len(program["networking"]) = 16 /\ DOMAIN program["networking"] = 1 .. 16
    <3>1. program["networking"] = UpdateNetworkInfo /\ n \in DOMAIN UpdateNetworkInfo
      BY <1>1 DEF Positioned, Programs
    <3>2. Len(UpdateNetworkInfo) = 16 /\ DOMAIN UpdateNetworkInfo = 1 .. 16
      BY DEF UpdateNetworkInfo
    <3> QED BY <3>1, <3>2
  <2>2. step'["networking"] = n \/ (n # 7 /\ step'["networking"] \in {n + 1, 1})
    <3>1. CASE t = "networking"
      BY <3>1, <1>1, <1>4 DEF Proceed, Goto, Positioned
    <3>2. CASE t # "networking"
      <4>1. \A u \in Threads \ {t} : step'[u] = step[u]
        BY <1>4, ProceedHolds
      <4> QED BY <1>1, <3>2, <4>1
    <3> QED BY <3>1, <3>2
  <2>3. step'["networking"] \in {8, 9} => n \in {8, 9}
    BY <2>1, <2>2
  <2> QED BY <1>4, <2>3 DEF Types
<1>5. ASSUME NEW t \in running, AcquireLock(t) \/ PassLock(t) \/ ReleaseLock(t) \/ ReadField(t)
                                \/ WriteField(t)
      PROVE  Types'
  <2>1. t \in Threads
    BY DEF Types
  <2>2. Kept /\ UNCHANGED <<address, mask, tries>> /\ Proceed(t)
    BY <1>5 DEF AcquireLock, PassLock, ReleaseLock, ReadField, WriteField, networkingVars
  <2>3. ASSUME t = "networking" PROVE n # 7
    <3>1. Operation("networking").do # "call"
      BY <1>5, <2>3 DEF AcquireLock, PassLock, ReleaseLock, ReadField, WriteField
    <3>2. program["networking"] = UpdateNetworkInfo
      BY <1>1 DEF Positioned, Programs
    <3>3. UpdateNetworkInfo[7].do = "call"
      BY DEF UpdateNetworkInfo, Call, Acquire, Release, Write
    <3> QED BY <3>1, <3>2, <3>3 DEF Operation
  <2> QED BY <2>1, <2>2, <2>3, <1>4
<1>6. ASSUME GetRoute \/ GetInterface \/ GetRange \/ (GetMac /\ Proceed("networking")
                                                       /\ UNCHANGED networkingVars)
      PROVE  Types'
  <2>1. Kept /\ UNCHANGED <<address, mask, tries>> /\ Proceed("networking")
    BY <1>6 DEF GetRoute, GetInterface, GetRange, GetMac, KeepsShared, networkingVars
  <2>2. \E name \in {"route", "interface", "range", "mac"} : Calls(name)
    BY <1>6 DEF GetRoute, GetInterface, GetRange, GetMac
  <2>3. n # 7
    BY <2>2, NetworkingAt
  <2> QED BY <2>1, <2>3, <1>1, <1>4
\* The call ends.
<1>7. ASSUME Goto("networking", 1), UNCHANGED networkingVars, KeepsShared
      PROVE  Types'
  <2>1. step'["networking"] = 1
    BY <1>1, <1>7 DEF Goto, Positioned
  <2> QED BY <1>7, <2>1 DEF Types, KeepsShared, networkingVars
<1>8. CASE GetAddress
  <2>1. CASE route = NoRoute /\ Raise
    BY <2>1, <1>7, <1>8 DEF Raise, GetAddress
  <2>2. CASE Proceed("networking")
    <3>1. /\ Kept /\ mask' = mask /\ tries' \in {tries, 0} /\ address' \in {address, route}
      BY <1>8 DEF GetAddress, KeepsShared, Raise, networkingVars
    <3>2. n \in 1 .. 9 /\ n # 7 /\ DOMAIN program["networking"] = 1 .. 16
      BY <1>8, NetworkingAt DEF GetAddress
    <3>3. step'["networking"] = n + 1
      BY <2>2, <3>2, <1>1 DEF Proceed, Goto, Positioned
    <3>4. step'["networking"] \in {8, 9} => n \in {8, 9}
      BY <3>2, <3>3
    <3>5. tries' \in 0 .. Attempts - 1
      BY <3>1, GlobalStateAssumption DEF Types
    <3> QED BY <3>1, <3>4, <3>5 DEF Types
  <2> QED BY <1>8, <2>1, <2>2 DEF GetAddress
<1>9. CASE NoTable
  <2>1. CASE tries + 1 < Attempts /\ tries' = tries + 1
    <3>1. Kept /\ UNCHANGED <<address, mask, step>>
      BY <1>9, <2>1 DEF NoTable, KeepsShared, Raise, networkingVars
    <3>2. tries' \in 0 .. Attempts - 1
      BY <2>1, GlobalStateAssumption DEF Types
    <3> QED BY <3>1, <3>2 DEF Types
  <2>2. CASE Raise
    BY <2>2, <1>7, <1>9 DEF Raise, NoTable
  <2> QED BY <1>9, <2>1, <2>2 DEF NoTable
<1>10. CASE GetMac
  BY <1>6, <1>7, <1>10 DEF GetMac, Raise
<1>11. CASE GetMask
  <2>1. n = 7 /\ DOMAIN program["networking"] = 1 .. 16
    BY <1>11, NetworkingAt DEF GetMask
  <2>2. Kept /\ UNCHANGED <<address, tries>> /\ mask' \in Routes \cup {NoRoute}
    BY <1>11 DEF GetMask, KeepsShared, Types
  <2>3. CASE mask' = NoRoute
    <3>1. Goto("networking", n + 3)
      BY <1>11, <2>3 DEF GetMask
    <3>2. step'["networking"] = 10
      BY <1>1, <2>1, <3>1 DEF Goto, Positioned
    <3> QED BY <2>2, <3>2 DEF Types
  <2>4. CASE mask' # NoRoute
    BY <2>2, <2>4 DEF Types
  <2> QED BY <2>3, <2>4
<1> QED
  BY <1>2, <1>3, <1>5, <1>6, <1>8, <1>9, <1>10, <1>11 DEF Next, Unblocked, Locking

-----------------------------------------------------------------------------
(* What the readers see.                                                   *)

Published == holder["global_state_lock"] # "networking" => info = published

SeenInSection ==
  /\ seen \in [Readers -> [Fields -> Routes \cup {NoRoute} \cup Ranges]]
  /\ \A t \in Readers :
       /\ holder["global_state_lock"] # t => seen[t] = Unknown
       /\ \A f \in Fields : seen[t][f] \in {Unknown[f], published[f]}

Seen == InfoTypes /\ Published /\ SeenInSection

LEMMA DraftTypes ==
  ASSUME Types, InfoTypes, Positioned,
         GetAddress \/ NoTable \/ GetRoute \/ GetInterface \/ GetMac \/ GetMask \/ GetRange
  PROVE  draft' \in Infos
<1>1. CASE draft' = draft
  BY <1>1 DEF InfoTypes
<1>2. CASE draft' = Unknown
  BY <1>2, UnknownIsInfo
<1>3. CASE GetRoute
  <2> DEFINE d1 == [draft EXCEPT !["gateway_ip_addr"] = route]
             d2 == [d1 EXCEPT !["host_active_interface"] = route]
             d3 == [d2 EXCEPT !["host_ip_addr"] = address]
  <2>1. draft' = d3
    BY <1>3 DEF GetRoute
  <2>2. {"gateway_ip_addr", "host_active_interface", "host_ip_addr"} \subseteq Fields
    BY DEF Fields
  <2>3. \A f \in {"gateway_ip_addr", "host_active_interface", "host_ip_addr"} :
          route \in FieldValues(f) /\ address \in FieldValues(f)
    BY DEF Types, FieldValues
  <2>4. d1 \in Infos
    BY <2>2, <2>3, InfoWith DEF InfoTypes
  <2>5. d2 \in Infos
    BY <2>2, <2>3, <2>4, InfoWith
  <2>6. d3 \in Infos
    BY <2>2, <2>3, <2>5, InfoWith
  <2> QED BY <2>1, <2>6
<1>4. CASE GetInterface
  <2>1. draft' = [draft EXCEPT !["host_mac_addr"] = route]
    BY <1>4 DEF GetInterface
  <2>2. "host_mac_addr" \in Fields /\ route \in FieldValues("host_mac_addr")
    BY DEF Fields, Types, FieldValues
  <2> QED BY <2>1, <2>2, InfoWith DEF InfoTypes
<1>5. CASE GetRange
  <2>1. draft' = [draft EXCEPT !["ip_range"] = <<mask, route>>]
    BY <1>5 DEF GetRange
  <2>2. step["networking"] = 9
    BY <1>5, NetworkingAt DEF GetRange
  <2>3. mask \in Routes /\ route \in Routes
    BY <1>5, <2>2 DEF Types, GetRange
  <2>4. "ip_range" \in Fields /\ <<mask, route>> \in FieldValues("ip_range")
    BY <2>3 DEF Fields, FieldValues, Ranges
  <2> QED BY <2>1, <2>4, InfoWith DEF InfoTypes
<1> QED
  BY <1>1, <1>2, <1>3, <1>4, <1>5
  DEF GetAddress, NoTable, GetMac, GetMask, Raise, networkingVars

LEMMA SeenInvariance ==
  ASSUME Types, Positioned, LocksHeld, Seen, [Next]_vars
  PROVE  Seen'
<1> DEFINE lock == "global_state_lock"
<1>1. lock \in Locks /\ "networking" \in Threads /\ "networking" \notin Readers
  BY DEF Locks, Threads, Readers
<1>2. program["networking"] = UpdateNetworkInfo
      /\ step["networking"] \in DOMAIN UpdateNetworkInfo
      /\ Operation("networking") = UpdateNetworkInfo[step["networking"]]
  BY <1>1 DEF Positioned, Programs, Operation
<1> HIDE DEF lock
\* What leaves the information and who holds its lock alone.
<1>3. ASSUME UNCHANGED <<info, seen, published>>, draft' \in Infos, holder'[lock] = holder[lock]
      PROVE  Seen'
  BY <1>3 DEF Seen, InfoTypes, Published, SeenInSection, lock
<1>4. CASE UNCHANGED vars \/ ChangeRoute
  BY <1>3, <1>4 DEF vars, networkingVars, ChangeRoute, Seen, InfoTypes
<1>5. CASE GetAddress \/ NoTable \/ GetRoute \/ GetInterface \/ GetMac \/ GetMask \/ GetRange
  <2>1. draft' \in Infos
    BY <1>5, DraftTypes DEF Seen
  <2>2. KeepsShared
    BY <1>5 DEF GetAddress, NoTable, GetRoute, GetInterface, GetMac, GetMask, GetRange
  <2> QED BY <1>3, <2>1, <2>2 DEF KeepsShared
<1>6. ASSUME NEW t \in running, PassLock(t)
      PROVE  Seen'
  BY <1>3, <1>6 DEF PassLock, networkingVars, Seen, InfoTypes
<1>7. ASSUME NEW t \in running, AcquireLock(t)
      PROVE  Seen'
  <2> DEFINE what == Operation(t).what
  <2>1. /\ UNCHANGED <<info, seen, published, draft>>
        /\ holder[what] = Nobody /\ holder' = [holder EXCEPT ![what] = t]
    BY <1>7 DEF AcquireLock, networkingVars
  <2>2. CASE what # lock
    <3>1. holder'[lock] = holder[lock]
      BY <2>1, <2>2, <1>1 DEF LocksHeld
    <3> QED BY <1>3, <2>1, <3>1 DEF Seen, InfoTypes
  <2>3. CASE what = lock
    <3>1. Nobody \notin Readers /\ Nobody # "networking"
      BY DEF Nobody, Readers
    <3>2. holder[lock] = Nobody
      BY <2>1, <2>3
    <3>3. info = published /\ \A u \in Readers : seen[u] = Unknown
      BY <3>1, <3>2 DEF Seen, Published, SeenInSection, lock
    <3> QED BY <2>1, <3>3 DEF Seen, InfoTypes, Published, SeenInSection
  <2> QED BY <2>2, <2>3
<1>8. ASSUME NEW t \in running \ {"networking"}, ReadField(t)
      PROVE  Seen'
  <2> DEFINE field == Operation(t).what
  <2>1. t \in Readers /\ t \in Threads
    BY DEF Types, Threads
  <2>2. field \in Fields
    BY <1>8, <2>1, OperationProper DEF ReadField, Proper, Sound
  <2>3. UNCHANGED <<info, published, draft, holder>>
    BY <1>8 DEF ReadField, networkingVars
  <2>4. CASE holder[lock] # t
    BY <1>3, <1>8, <2>3, <2>4 DEF ReadField, Seen, InfoTypes, lock
  <2>5. CASE holder[lock] = t
    <3>1. seen' = [seen EXCEPT ![t][field] = info[field]]
      BY <1>8, <2>5 DEF ReadField, lock
    <3>2. info = published
      BY <2>5 DEF Seen, Published, lock
    <3>3. info[field] \in Routes \cup {NoRoute} \cup Ranges
      BY <2>2, InfoField DEF Seen, InfoTypes, FieldValues
    <3> HIDE DEF field
    <3>4. seen' \in [Readers -> [Fields -> Routes \cup {NoRoute} \cup Ranges]]
      BY <3>1, <3>3, <2>1, <2>2 DEF Seen, SeenInSection
    <3>5. \A u \in Readers : u # t => seen'[u] = seen[u]
      BY <3>1 DEF Seen, SeenInSection
    <3>6. \A f \in Fields : seen'[t][f] = IF f = field THEN published[f] ELSE seen[t][f]
      BY <3>1, <3>2, <2>1, <2>2 DEF Seen, SeenInSection
    <3>7. \A u \in Readers : \A f \in Fields : seen'[u][f] \in {Unknown[f], published[f]}
      BY <3>5, <3>6 DEF Seen, SeenInSection
    <3>8. \A u \in Readers : holder[lock] # u => seen'[u] = Unknown
      BY <3>5, <2>5 DEF Seen, SeenInSection, lock
    <3> QED BY <2>3, <3>4, <3>7, <3>8 DEF Seen, InfoTypes, Published, SeenInSection, lock
  <2> QED BY <2>4, <2>5
<1>9. CASE WriteField("networking")
  <2> DEFINE field == Operation("networking").what
  <2>1. Operation("networking").do = "write" /\ info' = [info EXCEPT ![field] = draft[field]]
        /\ UNCHANGED <<holder, seen, draft>> /\ RecordPublication("networking")
    BY <1>9 DEF WriteField, networkingVars
  <2>2. Proper(program["networking"])
    BY <1>1, OperationProper
  <2>3. field \in Fields /\ Holds(program["networking"], step["networking"], lock)
    BY <1>2, <2>1, <2>2 DEF Proper, Sound, Guarded, lock
  <2>4. holder[lock] = "networking"
    BY <1>1, <2>3 DEF LocksHeld
  <2>5. step["networking"] # Len(UpdateNetworkInfo)
    BY <1>1, <1>2, <2>1, AsksWithoutLock DEF Is
  <2>6. published' = published
    BY <1>2, <2>1, <2>5 DEF RecordPublication
  <2>7. info' \in Infos
    BY <2>1, <2>3, InfoWith, InfoField DEF Seen, InfoTypes
  <2> QED BY <2>1, <2>4, <2>6, <2>7 DEF Seen, InfoTypes, Published, SeenInSection, lock
<1>10. ASSUME NEW t \in running, ReleaseLock(t)
       PROVE  Seen'
  <2> DEFINE what == Operation(t).what
  <2>1. t \in Threads
    BY DEF Types
  <2>2. what \in Locks /\ holder[what] = t /\ holder'[what] = Nobody
        /\ holder' = [holder EXCEPT ![what] = Nobody]
    BY <1>10, <2>1, ReleaseHolds DEF ReleaseLock
  <2>3. UNCHANGED <<info, draft>> /\ RecordPublication(t) /\ Operation(t).do = "release"
    BY <1>10 DEF ReleaseLock, networkingVars
  <2>4. CASE t = "networking"
    <3>1. Holds(UpdateNetworkInfo, step["networking"], what)
      BY <1>2, <2>1, <2>2, <2>4 DEF LocksHeld
    <3>2. what = lock
      BY <1>2, <2>2, <3>1, AsksWithoutLock DEF lock
    <3>3. step["networking"] = Len(UpdateNetworkInfo)
      BY <1>1, <1>2, <2>3, <2>4, <3>2, AsksWithoutLock DEF Is, lock
    <3>4. published' = info'
      BY <1>2, <2>3, <2>4, <3>3 DEF RecordPublication
    <3>5. seen' = seen
      BY <1>1, <1>10, <2>4 DEF ReleaseLock
    <3>6. \A u \in Readers : seen[u] = Unknown
      BY <1>1, <2>2, <2>4, <3>2 DEF Seen, SeenInSection, lock
    <3> QED BY <2>3, <3>4, <3>5, <3>6 DEF Seen, InfoTypes, Published, SeenInSection
  <2>5. CASE t # "networking" /\ what # lock
    <3>1. UNCHANGED <<seen, published>>
      BY <1>10, <2>5, <2>3 DEF ReleaseLock, RecordPublication, lock
    <3>2. holder'[lock] = holder[lock]
      BY <1>1, <2>2, <2>5 DEF LocksHeld
    <3> QED BY <1>3, <2>3, <3>1, <3>2 DEF Seen, InfoTypes
  <2>6. CASE t # "networking" /\ what = lock
    <3>1. t \in Readers
      BY <2>1, <2>6 DEF Threads
    <3>2. published' = published /\ seen' = [seen EXCEPT ![t] = Unknown]
      BY <1>10, <2>6, <2>3, <3>1 DEF ReleaseLock, RecordPublication, lock
    <3>3. info = published
      BY <2>2, <2>6 DEF Seen, Published, lock
    <3>4. \A u \in Readers : seen'[u] = Unknown
      BY <2>2, <2>6, <3>2 DEF Seen, SeenInSection, lock
    <3>5. seen' \in [Readers -> [Fields -> Routes \cup {NoRoute} \cup Ranges]]
      BY <3>2, UnknownIsInfo DEF Seen, SeenInSection, Infos
    <3> QED BY <2>3, <3>2, <3>3, <3>4, <3>5 DEF Seen, InfoTypes, Published, SeenInSection
  <2> QED BY <2>4, <2>5, <2>6
<1> QED
  BY <1>4, <1>5, <1>6, <1>7, <1>8, <1>9, <1>10 DEF Next, Unblocked, Locking

-----------------------------------------------------------------------------
(* The theorems.                                                           *)

Inv == Types /\ Positioned /\ LocksHeld /\ Seen

LEMMA Initially == Init => Inv
<1> SUFFICES ASSUME Init PROVE Inv
  OBVIOUS
<1>1. Positioned
  <2>1. \A t \in Threads : (CHOOSE p \in Programs[t] : TRUE) \in Programs[t]
    <3>1. \A t \in Threads :
            \E p \in {UpdateNetworkInfo, ArpScanner, PacketCollector, ArpSpoof, ProcessDns,
                      <<Query>>, SsdpDiscovery, MdnsDiscovery} : p \in Programs[t]
      BY DEF Programs, Threads, Readers
    <3> QED BY <3>1, Zenon
  <2>2. \A t \in Threads : program[t] \in Programs[t] /\ step[t] = 1
    BY <2>1 DEF Init
  <2>3. \A t \in Threads : 1 \in DOMAIN program[t]
    BY <2>2, ProgramsProper DEF Proper
  <2> QED BY <2>2, <2>3 DEF Init, Positioned
<1>2. LocksHeld
  <2>1. \A t \in Threads, l \in Locks : ~Holds(program[t], step[t], l)
    BY <1>1, StartsWithout, ProgramsProper DEF Init, Positioned
  <2>2. Nobody \notin Threads
    BY DEF Nobody, Threads, Readers
  <2> QED BY <2>1, <2>2 DEF Init, LocksHeld
<1>3. Types
  BY GlobalStateAssumption DEF Init, Types, Threads
<1>4. InfoTypes
  BY UnknownIsInfo, InfoOfIsInfo DEF Init, InfoTypes
<1>5. Published
  BY DEF Init, Published
<1>6. SeenInSection
  BY UnknownIsInfo DEF Init, SeenInSection, Infos
<1> QED BY <1>1, <1>2, <1>3, <1>4, <1>5, <1>6 DEF Inv, Seen

\* Where each thread is says which locks it holds, and what is published is all there
\* is to read while nobody writes: an invariant of every thread's steps.
THEOREM Invariance == Spec => []Inv
<1>1. Inv /\ [Next]_vars => Inv'
  <2> SUFFICES ASSUME Inv, [Next]_vars PROVE Inv'
    OBVIOUS
  <2>1. Types /\ Positioned /\ LocksHeld /\ Seen /\ InfoTypes /\ running \subseteq Threads
    BY DEF Inv, Seen, Types
  <2>2. Types'
    BY <2>1, TypesInvariance
  <2>3. Positioned' /\ LocksHeld'
    BY <2>1, LocksInvariance
  <2>4. Seen'
    BY <2>1, SeenInvariance
  <2> QED BY <2>2, <2>3, <2>4 DEF Inv
<1> QED BY <1>1, Initially, PTL DEF Spec

\* Every variable has its type: a thread is always at an operation of one of its
\* programs, and a range is published only if there was a mask to compute it from.
THEOREM GlobalStateTypeCorrect == Spec => []TypeOK
<1>1. Inv => TypeOK
  BY DEF Inv, Types, Positioned, LocksHeld, Seen, InfoTypes, SeenInSection, TypeOK
<1> QED BY <1>1, Invariance, PTL

\* No thread waits for a lock it holds, and no two for each other, although arp_spoof
\* takes global_state_lock while it holds rw_lock.
THEOREM NoDeadlock == Spec => []NoWaitCycle
<1>1. Inv => NoWaitCycle
  <2> SUFFICES ASSUME Inv PROVE NoWaitCycle
    OBVIOUS
  <2>1. running \subseteq Threads /\ Positioned
    BY DEF Inv, Types
  <2>2. ASSUME NEW t \in running, NEW l \in Locks, NEW m \in Locks, holder[l] = t, Wants(t, m)
        PROVE  l = "rw_lock" /\ m = "global_state_lock"
    <3>1. t \in Threads
      BY <2>1
    <3>2. Holds(program[t], step[t], l)
      BY <2>2, <3>1 DEF Inv, LocksHeld
    <3>3. Is(Operation(t), "acquire", m) \/ Is(Operation(t), "pass", m)
      BY <2>2 DEF Wants, Is
    <3>4. /\ Ordered(program[t]) /\ step[t] \in DOMAIN program[t]
          /\ Operation(t) = program[t][step[t]]
      BY <2>1, <3>1, OperationProper DEF Proper
    <3> QED BY <3>2, <3>3, <3>4 DEF Ordered
  <2> QED BY <2>2 DEF NoWaitCycle
<1> QED BY <1>1, Invariance, PTL

\* What a reader reads in one section that holds global_state_lock was published
\* together by update_network_info.
THEOREM SnapshotsAreConsistent == Spec => []SnapshotsConsistent
<1>1. Inv => SnapshotsConsistent
  BY DEF Inv, Seen, SeenInSection, SnapshotsConsistent
<1> QED BY <1>1, Invariance, PTL

-----------------------------------------------------------------------------
(* The refinement of Publication.                                          *)

\* A step reads a field of what is published, ends a section, publishes a record that
\* nobody is reading, or does nothing that readers notice.
LEMMA StepPublishes == Inv /\ [Next]_vars => [Board!Next]_(Board!board)
<1> SUFFICES ASSUME Inv, [Next]_vars PROVE Board!Next \/ UNCHANGED Board!board
  OBVIOUS
<1> DEFINE lock == "global_state_lock"
<1>1. Types /\ Positioned /\ LocksHeld /\ Seen /\ Seen'
  BY SeenInvariance DEF Inv
<1>2. lock \in Locks /\ "networking" \in Threads /\ "networking" \notin Readers
  BY DEF Locks, Threads, Readers
<1>3. program["networking"] = UpdateNetworkInfo
      /\ step["networking"] \in DOMAIN UpdateNetworkInfo
      /\ Operation("networking") = UpdateNetworkInfo[step["networking"]]
  BY <1>1, <1>2 DEF Positioned, Programs, Operation
<1> HIDE DEF lock
<1>4. ASSUME UNCHANGED <<seen, published>> PROVE UNCHANGED Board!board
  BY <1>4 DEF Board!board
<1>5. CASE UNCHANGED vars \/ ChangeRoute
  BY <1>4, <1>5 DEF vars, ChangeRoute
<1>6. CASE GetAddress \/ NoTable \/ GetRoute \/ GetInterface \/ GetMac \/ GetMask \/ GetRange
  BY <1>4, <1>6 DEF GetAddress, NoTable, GetRoute, GetInterface, GetMac, GetMask, GetRange,
                    KeepsShared
<1>7. ASSUME NEW t \in running, AcquireLock(t) \/ PassLock(t)
      PROVE  UNCHANGED Board!board
  BY <1>4, <1>7 DEF AcquireLock, PassLock
<1>8. ASSUME NEW t \in running \ {"networking"}, ReadField(t)
      PROVE  Board!Next \/ UNCHANGED Board!board
  <2> DEFINE field == Operation(t).what
  <2>1. t \in Readers /\ t \in Threads
    BY <1>1 DEF Types, Threads
  <2>2. field \in Fields
    BY <1>1, <1>8, <2>1, OperationProper DEF ReadField, Proper, Sound
  <2>3. published' = published
    BY <1>8 DEF ReadField
  <2>4. CASE holder[lock] # t
    BY <1>4, <1>8, <2>3, <2>4 DEF ReadField, lock
  <2>5. CASE holder[lock] = t
    <3>1. seen' = [seen EXCEPT ![t][field] = info[field]]
      BY <1>8, <2>5 DEF ReadField, lock
    <3>2. info = published
      BY <1>1, <1>2, <2>1, <2>5 DEF Seen, Published, lock
    <3>3. Board!Read(t, field)
      BY <2>3, <3>1, <3>2 DEF Board!Read
    <3> QED BY <2>1, <2>2, <3>3 DEF Board!Next
  <2> QED BY <2>4, <2>5
<1>9. CASE WriteField("networking")
  <2>1. Operation("networking").do = "write" /\ UNCHANGED seen
        /\ RecordPublication("networking")
    BY <1>9 DEF WriteField
  <2>2. step["networking"] # Len(UpdateNetworkInfo)
    BY <1>2, <1>3, <2>1, AsksWithoutLock DEF Is
  <2>3. published' = published
    BY <1>3, <2>1, <2>2 DEF RecordPublication
  <2> QED BY <1>4, <2>1, <2>3
<1>10. ASSUME NEW t \in running, ReleaseLock(t)
       PROVE  Board!Next \/ UNCHANGED Board!board
  <2> DEFINE what == Operation(t).what
  <2>1. t \in Threads
    BY <1>1 DEF Types
  <2>2. what \in Locks /\ holder[what] = t
    BY <1>1, <1>10, <2>1, ReleaseHolds DEF ReleaseLock
  <2>3. info' = info /\ RecordPublication(t) /\ Operation(t).do = "release"
    BY <1>10 DEF ReleaseLock
  <2>4. CASE t = "networking"
    <3>1. Holds(UpdateNetworkInfo, step["networking"], what)
      BY <1>1, <1>3, <2>1, <2>2, <2>4 DEF LocksHeld
    <3>2. what = lock
      BY <1>3, <2>2, <3>1, AsksWithoutLock DEF lock
    <3>3. step["networking"] = Len(UpdateNetworkInfo)
      BY <1>2, <1>3, <2>3, <2>4, <3>2, AsksWithoutLock DEF Is, lock
    <3>4. published' = info'
      BY <1>3, <2>3, <2>4, <3>3 DEF RecordPublication
    <3>5. published' \in Infos
      BY <1>1, <3>4 DEF Seen, InfoTypes
    <3>6. seen' = seen
      BY <1>2, <1>10, <2>4 DEF ReleaseLock
    <3>7. \A u \in Readers : seen[u] = Unknown
      BY <1>1, <1>2, <2>2, <2>4, <3>2 DEF Seen, SeenInSection, lock
    <3> QED BY <3>5, <3>6, <3>7 DEF Board!Next, Board!Publish
  <2>5. CASE t # "networking"
    <3>1. published' = published /\ t \in Readers
      BY <2>1, <2>3, <2>5 DEF RecordPublication, Threads
    <3>2. CASE what = lock
      <4>1. seen' = [seen EXCEPT ![t] = Unknown]
        BY <1>10, <3>1, <3>2 DEF ReleaseLock, lock
      <4> QED BY <3>1, <4>1 DEF Board!Next, Board!Leave
    <3>3. CASE what # lock
      <4>1. seen' = seen
        BY <1>10, <3>3 DEF ReleaseLock, lock
      <4> QED BY <1>4, <3>1, <4>1
    <3> QED BY <3>2, <3>3
  <2> QED BY <2>4, <2>5
<1> QED
  BY <1>5, <1>6, <1>7, <1>8, <1>9, <1>10 DEF Next, Unblocked, Locking

\* For any networks and any readers running at once, the lock makes one publication of
\* the five assignments of update_network_info and one snapshot of what a section reads.
THEOREM GlobalStatePublishes == Spec => ImplementsPublication
<1>1. Init => Board!Init
  BY InfoOfIsInfo DEF Init, Board!Init
<1> QED BY <1>1, StepPublishes, Invariance, PTL
        DEF Spec, ImplementsPublication, Board!Spec

-----------------------------------------------------------------------------
(* A host that stays in its network: the safety half of Converges.         *)

\* The operation that writes a field is executed at this place of UpdateNetworkInfo.
WrittenAt(f) ==
  CASE f = "gateway_ip_addr" -> 11 [] f = "host_active_interface" -> 12
    [] f = "host_ip_addr" -> 13 [] f = "host_mac_addr" -> 14 [] OTHER -> 15

\* What the call in course has collected, and what it has written of it, is all of the
\* network with route r.
Collected(r) ==
  LET n == step["networking"] IN
  /\ n >= 2 => address = r
  /\ n >= 3 => /\ draft["gateway_ip_addr"] = r
               /\ draft["host_active_interface"] = r
               /\ draft["host_ip_addr"] = r
  /\ n >= 5 => draft["host_mac_addr"] = r
  /\ n \in {8, 9} => mask = r
  /\ n >= 10 => draft["ip_range"] = <<r, r>>
  /\ \A f \in Fields : n > WrittenAt(f) => info[f] = InfoOf(r)[f]

\* So is what was published before.
Settled(r) == Collected(r) /\ info = InfoOf(r)

\* As long as the host stays in its network, nothing of another one is collected or
\* written any more, and what is right remains right.
StaysRight ==
  [][\A r \in Routes : route = r /\ route' = r =>
       /\ Collected(r) => Collected(r)'
       /\ Settled(r) => Settled(r)']_vars

\* Nothing is collected when a call begins, and the one that is about to return has
\* written what it collected.
LEMMA BeginsAndEndsRight ==
  ASSUME NEW r \in Routes, InfoTypes
  PROVE  /\ step["networking"] = 1 => Collected(r)
         /\ step["networking"] = Len(UpdateNetworkInfo) /\ Collected(r) => Settled(r)
<1>1. \A f \in Fields : WrittenAt(f) \in 11 .. 15
  BY DEF Fields, WrittenAt
<1>2. ASSUME step["networking"] = 1 PROVE Collected(r)
  BY <1>1, <1>2 DEF Collected
<1>3. ASSUME step["networking"] = 16, Collected(r) PROVE Settled(r)
  <2>1. \A f \in Fields : info[f] = InfoOf(r)[f]
    BY <1>1, <1>3 DEF Collected
  <2>2. info = InfoOf(r)
    BY <2>1 DEF InfoTypes, Infos, InfoOf
  <2> QED BY <1>3, <2>2 DEF Settled
<1>4. Len(UpdateNetworkInfo) = 16
  BY DEF UpdateNetworkInfo
<1> QED BY <1>2, <1>3, <1>4

\* The operations of update_network_info and their places.
LEMMA NetworkingOperations ==
  ASSUME Positioned
  PROVE  LET n == step["networking"]
             operation == Operation("networking")
         IN  /\ n \in 1 .. 16 /\ program["networking"] = UpdateNetworkInfo
             /\ operation = Call("address") <=> n \in {1, 3, 6, 8}
             /\ operation = Call("route") <=> n = 2
             /\ operation = Call("interface") <=> n = 4
             /\ operation = Call("mac") <=> n = 5
             /\ operation = Call("mask") <=> n = 7
             /\ operation = Call("range") <=> n = 9
             /\ operation.do = "call" <=> n \in 1 .. 9
             /\ operation.do = "write" =>
                  operation.what \in Fields /\ n = WrittenAt(operation.what)
<1>1. "networking" \in Threads /\ program["networking"] = UpdateNetworkInfo
  BY DEF Positioned, Threads, Programs
<1>2. DOMAIN UpdateNetworkInfo = 1 .. 16
  BY DEF UpdateNetworkInfo
<1>3. step["networking"] \in 1 .. 16
      /\ Operation("networking") = UpdateNetworkInfo[step["networking"]]
  BY <1>1, <1>2 DEF Positioned, Operation
<1>4. \A n \in 1 .. 16 :
        /\ UpdateNetworkInfo[n] = Call("address") <=> n \in {1, 3, 6, 8}
        /\ UpdateNetworkInfo[n] = Call("route") <=> n = 2
        /\ UpdateNetworkInfo[n] = Call("interface") <=> n = 4
        /\ UpdateNetworkInfo[n] = Call("mac") <=> n = 5
        /\ UpdateNetworkInfo[n] = Call("mask") <=> n = 7
        /\ UpdateNetworkInfo[n] = Call("range") <=> n = 9
        /\ UpdateNetworkInfo[n].do = "call" <=> n \in 1 .. 9
  BY DEF UpdateNetworkInfo, Call, Acquire, Release, Write
<1>5. \A n \in 1 .. 16 : UpdateNetworkInfo[n].do = "write" =>
        UpdateNetworkInfo[n].what \in Fields /\ n = WrittenAt(UpdateNetworkInfo[n].what)
  BY DEF UpdateNetworkInfo, Call, Acquire, Release, Write, Fields, WrittenAt
<1> QED BY <1>1, <1>3, <1>4, <1>5

\* It takes its lock at one place and gives it back at another.
LEMMA PlacesOfLocks ==
  ASSUME Positioned, Operation("networking").do \in {"acquire", "release", "pass"}
  PROVE  step["networking"] \in {10, 16}
<1>1. \A n \in 1 .. 16 :
        UpdateNetworkInfo[n].do \in {"acquire", "release", "pass"} => n \in {10, 16}
  BY DEF UpdateNetworkInfo, Call, Acquire, Release, Write
<1> QED BY <1>1, NetworkingOperations DEF Operation

\* The networking thread goes to its next operation, or its function is called again.
LEMMA NetworkingGoes ==
  ASSUME Positioned
  PROVE  /\ Proceed("networking") =>
              step'["networking"] = IF step["networking"] = 16 THEN 1
                                    ELSE step["networking"] + 1
         /\ \A k \in 1 .. 16 : Goto("networking", k) => step'["networking"] = k
<1>1. /\ step["networking"] \in 1 .. 16 /\ program["networking"] = UpdateNetworkInfo
      /\ "networking" \in DOMAIN step
  BY NetworkingOperations DEF Positioned, Threads
<1>2. DOMAIN program["networking"] = 1 .. 16
  BY <1>1 DEF UpdateNetworkInfo
<1> QED BY <1>1, <1>2 DEF Proceed, Goto

\* In a network with a route, each call collects what belongs to it, and a write stores
\* what was collected.
LEMMA NetworkingStaysRight ==
  ASSUME Inv, NEW r \in Routes, route = r, Collected(r),
         \/ GetAddress \/ NoTable \/ GetRoute \/ GetInterface \/ GetMac \/ GetMask \/ GetRange
  PROVE  Collected(r)' /\ info' = info
<1> DEFINE n == step["networking"]
<1>1. Positioned /\ InfoTypes /\ r # NoRoute
  BY GlobalStateAssumption DEF Inv, Seen
<1>2. n \in 1 .. 16 /\ program["networking"] = UpdateNetworkInfo
  BY <1>1, NetworkingOperations
<1>3. info' = info
  BY DEF GetAddress, NoTable, GetRoute, GetInterface, GetMac, GetMask, GetRange, KeepsShared
<1>4. \A f \in Fields : WrittenAt(f) \in 11 .. 15
  BY DEF Fields, WrittenAt
<1>5. \A f \in Fields : draft[f] = draft[f] /\ f \in DOMAIN draft
  BY <1>1 DEF InfoTypes, Infos
<1>6. {"gateway_ip_addr", "host_active_interface", "host_ip_addr", "host_mac_addr", "ip_range"}
        \subseteq Fields
  BY DEF Fields
<1>7. CASE GetAddress
  <2>1. n \in {1, 3, 6, 8} /\ Proceed("networking") /\ mask' = mask /\ address' = r
        /\ (n # 1 => draft' = draft)
    BY <1>1, <1>7, NetworkingOperations DEF GetAddress, Calls
  <2>2. step'["networking"] = n + 1
    BY <1>1, <2>1, NetworkingGoes
  <2> QED BY <1>3, <1>4, <2>1, <2>2 DEF Collected
<1>8. CASE NoTable
  BY <1>1, <1>8 DEF NoTable
<1>9. CASE GetRoute
  <2>1. n = 2 /\ Proceed("networking") /\ UNCHANGED <<address, mask>>
        /\ draft' = [draft EXCEPT !["gateway_ip_addr"] = r, !["host_active_interface"] = r,
                                  !["host_ip_addr"] = address]
    BY <1>1, <1>9, NetworkingOperations DEF GetRoute, Calls
  <2>2. step'["networking"] = 3
    BY <1>1, <2>1, NetworkingGoes
  <2>3. address = r
    BY <2>1 DEF Collected
  <2>4. /\ draft'["gateway_ip_addr"] = r
        /\ draft'["host_active_interface"] = r /\ draft'["host_ip_addr"] = r
    BY <1>5, <1>6, <2>1, <2>3
  <2> QED BY <1>3, <1>4, <2>1, <2>2, <2>3, <2>4 DEF Collected
<1>10. CASE GetInterface
  <2>1. n = 4 /\ Proceed("networking") /\ UNCHANGED <<address, mask>>
        /\ draft' = [draft EXCEPT !["host_mac_addr"] = r]
    BY <1>1, <1>10, NetworkingOperations DEF GetInterface, Calls
  <2>2. step'["networking"] = 5
    BY <1>1, <2>1, NetworkingGoes
  <2>3. /\ draft'["host_mac_addr"] = r
        /\ \A f \in Fields \ {"host_mac_addr"} : draft'[f] = draft[f]
    BY <1>5, <1>6, <2>1
  <2> QED BY <1>3, <1>4, <1>6, <2>1, <2>2, <2>3 DEF Collected
<1>11. CASE GetMac
  <2>1. n = 5 /\ UNCHANGED networkingVars /\ (Proceed("networking") \/ Goto("networking", 1))
    BY <1>1, <1>11, NetworkingOperations DEF GetMac, Calls, Raise
  <2>2. step'["networking"] \in {1, 6}
    BY <1>1, <2>1, NetworkingGoes
  <2> QED BY <1>3, <1>4, <2>1, <2>2 DEF Collected, networkingVars
<1>12. CASE GetMask
  <2>1. n = 7 /\ UNCHANGED <<address, draft>> /\ mask' = (IF address = r THEN r ELSE NoRoute)
        /\ Goto("networking", n + IF mask' = NoRoute THEN 3 ELSE 1)
    BY <1>1, <1>12, NetworkingOperations DEF GetMask, Calls
  <2>2. address = r
    BY <2>1 DEF Collected
  <2>3. mask' = r
    BY <2>1, <2>2
  <2>4. n + (IF mask' = NoRoute THEN 3 ELSE 1) = 8
    BY <1>1, <2>1, <2>3
  <2>5. Goto("networking", 8)
    BY <2>1, <2>4
  <2>6. step'["networking"] = 8
    BY <1>1, <2>5, NetworkingGoes
  <2> QED BY <1>3, <1>4, <2>1, <2>2, <2>3, <2>6 DEF Collected
<1>13. CASE GetRange
  <2>1. n = 9 /\ Proceed("networking") /\ UNCHANGED <<address, mask>>
        /\ draft' = [draft EXCEPT !["ip_range"] = <<mask, r>>]
    BY <1>1, <1>13, NetworkingOperations DEF GetRange, Calls
  <2>2. step'["networking"] = 10
    BY <1>1, <2>1, NetworkingGoes
  <2>3. mask = r
    BY <2>1 DEF Collected
  <2>4. /\ draft'["ip_range"] = <<r, r>>
        /\ \A f \in Fields \ {"ip_range"} : draft'[f] = draft[f]
    BY <1>5, <1>6, <2>1, <2>3
  <2> QED BY <1>3, <1>4, <1>6, <2>1, <2>2, <2>4 DEF Collected
<1> QED BY <1>3, <1>7, <1>8, <1>9, <1>10, <1>11, <1>12, <1>13

LEMMA WriteStaysRight ==
  ASSUME Inv, NEW r \in Routes, Collected(r), WriteField("networking")
  PROVE  Collected(r)' /\ (Settled(r) => Settled(r)')
<1> DEFINE n == step["networking"]
           field == Operation("networking").what
<1>1. Positioned /\ InfoTypes
  BY DEF Inv, Seen
<1>2. /\ Operation("networking").do = "write" /\ Proceed("networking")
      /\ info' = [info EXCEPT ![field] = draft[field]] /\ UNCHANGED networkingVars
  BY DEF WriteField
<1>3. field \in Fields /\ n = WrittenAt(field) /\ n \in 11 .. 15
  <2>1. \A f \in Fields : WrittenAt(f) \in 11 .. 15
    BY DEF Fields, WrittenAt
  <2> QED BY <1>1, <1>2, <2>1, NetworkingOperations
<1>4. step'["networking"] = n + 1
  BY <1>1, <1>2, <1>3, NetworkingGoes
<1>5. draft[field] = InfoOf(r)[field]
  BY <1>3 DEF Collected, InfoOf, Fields
<1>6. \A f \in Fields : info'[f] = IF f = field THEN InfoOf(r)[field] ELSE info[f]
  BY <1>1, <1>2, <1>3, <1>5 DEF InfoTypes, Infos
<1>7. \A f \in Fields : WrittenAt(f) \in 11 .. 15 /\ (f # field => WrittenAt(f) # n)
  BY <1>3 DEF Fields, WrittenAt
<1>8. \A f \in Fields : n + 1 > WrittenAt(f) => info'[f] = InfoOf(r)[f]
  <2> SUFFICES ASSUME NEW f \in Fields, n + 1 > WrittenAt(f), f # field
               PROVE  info[f] = InfoOf(r)[f]
    BY <1>6
  <2>1. n > WrittenAt(f)
    BY <1>3, <1>7
  <2> QED BY <2>1 DEF Collected
<1>9. Collected(r)'
  <2>1. UNCHANGED <<address, mask, draft>>
    BY <1>2 DEF networkingVars
  <2>2. /\ address = r /\ draft["gateway_ip_addr"] = r /\ draft["host_active_interface"] = r
        /\ draft["host_ip_addr"] = r /\ draft["host_mac_addr"] = r
        /\ draft["ip_range"] = <<r, r>>
    BY <1>3 DEF Collected
  <2>3. step'["networking"] \in 12 .. 16
    BY <1>3, <1>4
  <2>4. \A f \in Fields : step'["networking"] > WrittenAt(f) => info'[f] = InfoOf(r)[f]
    BY <1>4, <1>8
  <2> QED BY <2>1, <2>2, <2>3, <2>4 DEF Collected
<1>10. ASSUME info = InfoOf(r) PROVE info' = InfoOf(r)
  BY <1>2, <1>5, <1>10 DEF InfoOf
<1> QED BY <1>9, <1>10 DEF Settled

\* The other threads, and the operations of every thread, leave the calls' results alone.
LEMMA StepStaysRight ==
  ASSUME Inv, [Next]_vars, NEW r \in Routes, route = r, route' = r, Collected(r)
  PROVE  Collected(r)' /\ (Settled(r) => Settled(r)')
<1> DEFINE n == step["networking"]
<1>1. Types /\ Positioned /\ LocksHeld /\ Seen /\ InfoTypes /\ running \subseteq Threads
  BY DEF Inv, Seen, Types
<1>2. ASSUME info' = info, Collected(r)' PROVE Collected(r)' /\ (Settled(r) => Settled(r)')
  BY <1>2 DEF Settled
<1>3. ASSUME UNCHANGED <<info, networkingVars>>, step'["networking"] = n
      PROVE  Collected(r)'
  BY <1>3 DEF Collected, networkingVars
<1>4. CASE UNCHANGED vars
  BY <1>2, <1>3, <1>4 DEF vars
<1>5. ~ChangeRoute
  BY DEF ChangeRoute
<1>6. CASE GetAddress \/ NoTable \/ GetRoute \/ GetInterface \/ GetMac \/ GetMask \/ GetRange
  BY <1>2, <1>6, NetworkingStaysRight
<1>7. CASE WriteField("networking")
  BY <1>7, WriteStaysRight
<1>8. ASSUME NEW t \in running, AcquireLock(t) \/ PassLock(t) \/ ReleaseLock(t)
                                \/ (t # "networking" /\ ReadField(t))
      PROVE  Collected(r)' /\ info' = info
  <2>1. Proceed(t) /\ UNCHANGED <<info, networkingVars>> /\ t \in Threads
    BY <1>1, <1>8 DEF AcquireLock, PassLock, ReleaseLock, ReadField
  <2>2. CASE t # "networking"
    <3>1. step'["networking"] = n
      BY <1>1, <2>1, <2>2, ProceedHolds DEF Threads
    <3> QED BY <1>3, <2>1, <3>1
  <2>3. CASE t = "networking"
    <3>1. n \in 1 .. 16 /\ Operation("networking").do \in {"acquire", "pass", "release"}
      BY <1>1, <1>8, <2>3, NetworkingOperations DEF AcquireLock, PassLock, ReleaseLock
    <3>2. n \in 10 .. 16 /\ step'["networking"] = IF n = 16 THEN 1 ELSE n + 1
      BY <1>1, <2>1, <2>3, <3>1, NetworkingOperations, NetworkingGoes
    <3>3. n \in {10, 16}
      BY <1>1, <3>1, <3>2, NetworkingOperations, PlacesOfLocks
    <3>4. \A f \in Fields : WrittenAt(f) \in 11 .. 15
      BY DEF Fields, WrittenAt
    <3> QED BY <2>1, <3>2, <3>3, <3>4 DEF Collected, networkingVars
  <2> QED BY <2>2, <2>3
<1> QED
  <2>1. UNCHANGED vars \/ \E t \in running : Locking(t) \/ Unblocked(t)
    BY <1>5 DEF Next
  <2> QED BY <1>2, <1>4, <1>6, <1>7, <1>8, <2>1 DEF Unblocked, Locking

\* As long as the host stays in its network, nothing of another network is collected or
\* written any more, whatever raised or was mixed before: with the liveness that TLC
\* checks, this is why update_network_info converges.
THEOREM RightStaysRight == Spec => StaysRight
<1>1. Inv /\ [Next]_vars =>
        [\A r \in Routes : route = r /\ route' = r =>
           /\ Collected(r) => Collected(r)'
           /\ Settled(r) => Settled(r)']_vars
  BY StepStaysRight DEF Settled
<1> QED BY <1>1, Invariance, PTL DEF Spec, StaysRight

\* The data are those of the network, at every moment until the route changes for the
\* first time.
Undisturbed == changes = 0 => info = InfoOf(route)

\* A host that never left its network has the data of that network at every moment, also
\* while update_network_info writes the fields once more.
THEOREM UndisturbedIsRight == Spec => []Undisturbed
<1> DEFINE Quiet == changes = 0 => route \in Routes /\ Settled(route)
<1>1. Init => Quiet
  <2> SUFFICES ASSUME Init PROVE route \in Routes /\ Settled(route)
    BY DEF Init
  <2>1. route \in Routes /\ info = InfoOf(route) /\ InfoTypes /\ step["networking"] = 1
    BY Initially DEF Init, Inv, Seen, Threads
  <2> QED BY <2>1, BeginsAndEndsRight DEF Settled
<1>2. Inv /\ Quiet /\ [Next]_vars => Quiet'
  <2> SUFFICES ASSUME Inv, Quiet, [Next]_vars, changes' = 0
               PROVE  route' \in Routes /\ Settled(route)'
    OBVIOUS
  <2>1. UNCHANGED <<route, changes>>
    <3>1. changes \in Nat
      BY GlobalStateAssumption DEF Inv, Types
    <3>2. ~ChangeRoute
      BY <3>1 DEF ChangeRoute
    <3> QED
      BY <3>2 DEF Next, Unblocked, Locking, vars, AcquireLock, PassLock, ReleaseLock,
                  ReadField, WriteField, GetAddress, NoTable, GetRoute, GetInterface,
                  GetMac, GetMask, GetRange, KeepsShared
  <2>2. PICK r \in Routes : r = route
    BY <2>1
  <2>3. Settled(r)'
    BY <2>1, <2>2, StepStaysRight DEF Settled
  <2> QED BY <2>1, <2>2, <2>3 DEF Settled, Collected
<1>3. Quiet => Undisturbed
  BY DEF Settled, Undisturbed
<1> QED BY <1>1, <1>2, <1>3, Invariance, PTL DEF Spec
=============================================================================
