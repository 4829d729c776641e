-------------------------- MODULE Lifecycle_proofs --------------------------
(***************************************************************************)
(* Safety of start_threads and clean_up for any set of callers, on every   *)
(* platform, with clean_up running at any time.                            *)
(***************************************************************************)
EXTENDS Lifecycle, FiniteSetTheorems, TLAPS

\* Caller c holds the Inspector: it has begun, and not failed for want of a route.
Holder(c) == Instance(c) \/ pc[c] = "escaped"

\* One caller holds it, and the flag is up as long as it does.
HolderInv ==
  /\ \A c \in Callers : Holder(c) => started
  /\ \A c, d \in Callers : Holder(c) /\ Holder(d) => c = d
  /\ started => \E c \in Callers : Holder(c)

\* The database that an instance or a thread works on is its own.
DbInv ==
  /\ \A c \in Callers : Instance(c) /\ pc[c] # "initdb" => db = c
  /\ \A t \in alive : t[1] = db

\* Caller c has executed the first command of enable_ip_forwarding.
Forwarded(c) ==
  \/ pc[c] \in {"netinfo", "spawn", "register", "done"}
  \/ pc[c] = "setup" /\ step[c] # 1

\* Nothing turns forwarding off before clean_up has lowered is_running, and a
\* caller that has not come to the commands will begin with the first.
ForwardingInv ==
  /\ \A c \in Callers : pc[c] \in {"idle", "initdb", "capture"} => step[c] = 1
  /\ cpc # "idle" => ~running
  /\ running => \A c \in Callers : Forwarded(c) => host["fwd4"] = "on"
  /\ running /\ alive # {} => host["fwd4"] = "on"

IInv == TypeOK /\ HolderInv /\ DbInv /\ ForwardingInv

-----------------------------------------------------------------------------
(* The command lists.                                                      *)

Commands == Settings \X (OnOff \cup {"unknown"})

\* Every set-up command changes an existing setting; the first turns forwarding
\* on and no later one touches it.
LEMMA SetupCommandsFacts ==
  /\ Len(SetupCommands) \in Nat \ {0}
  /\ \A i \in 1..Len(SetupCommands) :
       /\ SetupCommands[i] \in Commands
       /\ i = 1 => SetupCommands[i] = <<"fwd4", "on">>
       /\ i # 1 => SetupCommands[i][1] # "fwd4"
BY DEF SetupCommands, Commands, Settings, OnOff

\* Every clean-up command changes an existing setting, whatever was captured, and
\* their number does not depend on it.
LEMMA CleanCommandsFacts ==
  ASSUME NEW s \in OnOff \cup {"unknown"}
  PROVE  /\ Len(CleanCommands(s)) = IF Platform = "windows" THEN 6 ELSE 2
         /\ \A i \in 1..Len(CleanCommands(s)) : CleanCommands(s)[i] \in Commands
BY DEF CleanCommands, Commands, Settings, OnOff

\* A command leaves every setting on or off.
LEMMA ExecuteType ==
  ASSUME NEW command \in Commands, host \in [Settings -> OnOff], Execute(command)
  PROVE  host' \in [Settings -> OnOff]
BY DEF Commands, Execute

\* IPv4 forwarding and redirects are settings of every platform.
LEMMA ForwardingSetting == "fwd4" \in Settings /\ "redir4" \in Settings
BY DEF Settings

-----------------------------------------------------------------------------

\* The invariant holds before anybody calls start_threads.
LEMMA InitInv == Init => IInv
<1> SUFFICES ASSUME Init PROVE IInv
  OBVIOUS
<1>1. 1 \in 1..Len(SetupCommands)
  BY SetupCommandsFacts
<1>2. 1 \in 1..Len(CleanCommands(restore))
  <2>1. restore \in OnOff \cup {"unknown"}
    BY DEF Init
  <2>2. Len(CleanCommands(restore)) = IF Platform = "windows" THEN 6 ELSE 2
    BY <2>1, CleanCommandsFacts
  <2> QED BY <2>2
<1>3. TypeOK
  BY <1>1, <1>2 DEF Init, TypeOK, Places, CleanPlaces
<1> QED
  BY <1>3 DEF Init, IInv, HolderInv, Holder, DbInv, ForwardingInv, Forwarded,
              Instance

\* Every step keeps the types.
LEMMA NextType == TypeOK /\ [Next]_vars => TypeOK'
<1> SUFFICES ASSUME TypeOK, [Next]_vars PROVE TypeOK'
  OBVIOUS
<1> USE DEF TypeOK, Goto, hostVars, startVars, cleanVars, Places, CleanPlaces
<1>0. \A t \in alive : t[1] \in Callers
  BY DEF Threads
<1>1. ASSUME NEW c \in Callers, CallerStep(c) PROVE TypeOK'
  <2>1. CASE Claim(c) BY <1>0, <2>1 DEF Claim
  <2>2. CASE Refuse(c) BY <1>0, <2>2 DEF Refuse
  <2>3. CASE InitDb(c) BY <1>0, <2>3 DEF InitDb
  <2>4. CASE Capture(c) BY <1>0, <2>4, ForwardingSetting DEF Capture
  <2>5. CASE Setup(c)
    <3>1. host' \in [Settings -> OnOff]
      BY <2>5, SetupCommandsFacts, ExecuteType DEF Setup
    <3>2. step' \in [Callers -> 1..Len(SetupCommands)]
      <4>1. step[c] < Len(SetupCommands) => step[c] + 1 \in 1..Len(SetupCommands)
        BY SetupCommandsFacts
      <4> QED BY <2>5, <4>1 DEF Setup
    <3> QED BY <1>0, <2>5, <3>1, <3>2 DEF Setup
  <2>6. CASE NetInfo(c) BY <1>0, <2>6 DEF NetInfo
  <2>7. CASE Abort(c) BY <1>0, <2>7 DEF Abort
  <2>8. CASE Escape(c) BY <1>0, <2>8 DEF Escape
  <2>9. CASE Spawn(c)
    <3>1. PICK t \in Batch(c) \ alive : alive' = alive \cup {t}
      BY <2>9 DEF Spawn
    <3>2. t \in Threads /\ t[1] = c
      BY DEF Batch, Threads
    <3>3. /\ pc[c] = "spawn" /\ pc' \in [Callers -> Places]
          /\ pc'[c] \in {"spawn", "register"} /\ \A d \in Callers \ {c} : pc'[d] = pc[d]
      BY <2>9 DEF Spawn
    <3>4. \A u \in alive' : pc'[u[1]] \in {"spawn", "register", "done", "escaped"}
      BY <1>0, <3>1, <3>2, <3>3
    <3>5. alive' \subseteq Threads /\ hung' \subseteq alive' /\ stopped' \subseteq Threads
      BY <2>9, <3>1, <3>2 DEF Spawn
    <3>6. active' \subseteq {d \in Callers : pc'[d] = "done"}
      BY <2>9, <3>3 DEF Spawn
    <3> QED BY <2>9, <3>3, <3>4, <3>5, <3>6 DEF Spawn
  <2>10. CASE Register(c) BY <1>0, <2>10 DEF Register
  <2> QED BY <1>1, <2>1, <2>2, <2>3, <2>4, <2>5, <2>6, <2>7, <2>8, <2>9, <2>10
          DEF CallerStep
<1>2. ASSUME NEW t \in Threads, WorkerExit(t) \/ Hang(t) PROVE TypeOK'
  BY <1>2 DEF WorkerExit, Hang
<1>3. CASE CleanFlag BY <1>3 DEF CleanFlag
<1>4. CASE CleanStop BY <1>4 DEF CleanStop, StopNext, StopsOver
<1>5. CASE CleanJoin BY <1>5 DEF CleanJoin
<1>6. CASE CleanRead
  <2>1. cstep' \in 1..Len(CleanCommands(restore'))
    BY <1>6, CleanCommandsFacts DEF CleanRead
  <2> QED BY <1>6, <2>1 DEF CleanRead
<1>7. CASE CleanRestore
  <2>1. host' \in [Settings -> OnOff]
    BY <1>7, CleanCommandsFacts, ExecuteType DEF CleanRestore
  <2>2. cstep' \in 1..Len(CleanCommands(restore'))
    BY <1>7, CleanCommandsFacts DEF CleanRestore
  <2> QED BY <1>7, <2>1, <2>2 DEF CleanRestore
<1>8. CASE UNCHANGED vars
  <2>1. cstep' \in 1..Len(CleanCommands(restore'))
    BY <1>8 DEF vars
  <2> QED BY <1>8, <2>1 DEF vars
<1> QED BY <1>1, <1>2, <1>3, <1>4, <1>5, <1>6, <1>7, <1>8 DEF Next, CleanStep

\* A caller that begins finds the flag down, one that is refused finds it up, and only
\* the holder gives it back.
LEMMA NextHolder == TypeOK /\ HolderInv /\ [Next]_vars => HolderInv'
<1> SUFFICES ASSUME TypeOK, HolderInv, [Next]_vars PROVE HolderInv'
  OBVIOUS
<1> USE DEF TypeOK, HolderInv, Holder, Instance, Goto, hostVars, startVars, cleanVars
<1>1. ASSUME NEW c \in Callers, CallerStep(c) PROVE HolderInv'
  <2>1. CASE Claim(c) BY <2>1 DEF Claim
  <2>2. CASE Refuse(c) BY <2>2 DEF Refuse
  <2>3. CASE Abort(c) BY <2>3 DEF Abort
  <2>4. CASE Escape(c) BY <2>4 DEF Escape
  <2>5. CASE InitDb(c) \/ Capture(c) \/ Setup(c) \/ NetInfo(c) \/ Spawn(c) \/ Register(c)
    <3>1. started' = started /\ Instance(c)
      BY <2>5 DEF InitDb, Capture, Setup, NetInfo, Spawn, Register
    <3>2. /\ \A d \in Callers \ {c} : pc'[d] = pc[d]
          /\ pc'[c] \in {"capture", "setup", "netinfo", "spawn", "register", "done"}
      BY <2>5 DEF InitDb, Capture, Setup, NetInfo, Spawn, Register
    <3>3. \A d \in Callers : Holder(d)' <=> Holder(d)
      BY <3>1, <3>2
    <3> QED BY <3>1, <3>3
  <2> QED BY <1>1, <2>1, <2>2, <2>3, <2>4, <2>5 DEF CallerStep
<1>2. CASE UNCHANGED <<started, pc>>
  BY <1>2
<1>3. UNCHANGED <<started, pc>> \/ \E c \in Callers : CallerStep(c)
  BY DEF Next, WorkerExit, Hang, CleanStep, CleanFlag, CleanStop, StopNext, StopsOver,
         CleanJoin, CleanRead, CleanRestore, vars
<1> QED BY <1>1, <1>2, <1>3

\* A database is published when no thread exists, and threads are created by the caller
\* that published the last.
LEMMA NextDb == TypeOK /\ HolderInv /\ DbInv /\ [Next]_vars => DbInv'
<1> SUFFICES ASSUME TypeOK, HolderInv, DbInv, [Next]_vars PROVE DbInv'
  OBVIOUS
<1> USE DEF TypeOK, DbInv, Instance, Goto, Threads, hostVars, startVars, cleanVars
<1>1. ASSUME NEW c \in Callers, CallerStep(c) PROVE DbInv'
  <2>1. CASE InitDb(c)
    <3>1. \A d \in Callers : Instance(d) => d = c
      BY <2>1 DEF HolderInv, Holder, InitDb
    <3>2. alive = {}
      <4>1. \A t \in alive : t[1] \in Callers /\ Holder(t[1]) /\ pc[t[1]] # "initdb"
        BY DEF Holder
      <4> QED BY <2>1, <4>1 DEF HolderInv, Holder, InitDb
    <3> QED BY <2>1, <3>1, <3>2 DEF InitDb
  <2>2. CASE Spawn(c)
    <3>1. db = c /\ db' = db
      BY <2>2 DEF Spawn
    <3>2. \A t \in alive' : t[1] = c
      BY <2>2, <3>1 DEF Spawn, Batch
    <3>3. \A d \in Callers : Instance(d)' /\ pc'[d] # "initdb"
                                => Instance(d) /\ pc[d] # "initdb"
      BY <2>2 DEF Spawn
    <3> QED BY <3>1, <3>2, <3>3
  <2>3. CASE Claim(c) \/ Refuse(c) \/ Capture(c) \/ Setup(c) \/ NetInfo(c) \/ Abort(c)
               \/ Escape(c) \/ Register(c)
    BY <2>3 DEF Claim, Refuse, Capture, Setup, NetInfo, Abort, Escape, Register
  <2> QED BY <1>1, <2>1, <2>2, <2>3 DEF CallerStep
<1>2. ASSUME NEW t \in Threads, WorkerExit(t) \/ Hang(t) PROVE DbInv'
  BY <1>2 DEF WorkerExit, Hang
<1>3. CASE CleanStep
  BY <1>3 DEF CleanStep, CleanFlag, CleanStop, StopNext, StopsOver, CleanJoin, CleanRead,
              CleanRestore
<1>4. CASE UNCHANGED vars BY <1>4 DEF vars
<1> QED BY <1>1, <1>2, <1>3, <1>4 DEF Next

\* From the first set-up command on the host forwards, until clean_up's commands,
\* which come after is_running was lowered.
LEMMA NextForwarding ==
  TypeOK /\ ForwardingInv /\ [Next]_vars => ForwardingInv'
<1> SUFFICES ASSUME TypeOK, ForwardingInv, [Next]_vars PROVE ForwardingInv'
  OBVIOUS
<1> USE DEF TypeOK, ForwardingInv, Forwarded, Goto, hostVars, startVars, cleanVars
<1>1. ASSUME NEW c \in Callers, CallerStep(c) PROVE ForwardingInv'
  <2>1. CASE Claim(c) BY <2>1 DEF Claim
  <2>2. CASE Refuse(c) BY <2>2 DEF Refuse
  <2>3. CASE InitDb(c) BY <2>3 DEF InitDb
  <2>4. CASE Capture(c) BY <2>4 DEF Capture
  <2>5. CASE Setup(c)
    <3> DEFINE i == step[c]
    <3>1. i \in 1..Len(SetupCommands) /\ Len(SetupCommands) \in Nat \ {0}
      BY SetupCommandsFacts
    <3>2. i = 1 => host'["fwd4"] = "on"
      BY <2>5, <3>1, SetupCommandsFacts, ForwardingSetting DEF Setup, Execute, OnOff
    <3>3. i # 1 => host'["fwd4"] = host["fwd4"]
      BY <2>5, <3>1, SetupCommandsFacts, ForwardingSetting
         DEF Setup, Execute, Commands
    <3>4. \A d \in Callers \ {c} : pc'[d] = pc[d] /\ step'[d] = step[d]
      BY <2>5 DEF Setup
    <3>5. i # 1 => Forwarded(c)
      BY <2>5 DEF Setup
    <3> QED BY <2>5, <3>2, <3>3, <3>4, <3>5 DEF Setup
  <2>6. CASE NetInfo(c) BY <2>6 DEF NetInfo
  <2>7. CASE Abort(c) BY <2>7 DEF Abort
  <2>8. CASE Escape(c) BY <2>8 DEF Escape
  <2>9. CASE Spawn(c) BY <2>9 DEF Spawn, Batch
  <2>10. CASE Register(c) BY <2>10 DEF Register
  <2> QED BY <1>1, <2>1, <2>2, <2>3, <2>4, <2>5, <2>6, <2>7, <2>8, <2>9, <2>10
          DEF CallerStep
<1>2. ASSUME NEW t \in Threads, WorkerExit(t) \/ Hang(t) PROVE ForwardingInv'
  BY <1>2 DEF WorkerExit, Hang
<1>3. CASE CleanStep
  <2>1. CASE CleanFlag BY <2>1 DEF CleanFlag
  <2>2. CASE CleanStop BY <2>2 DEF CleanStop, StopNext, StopsOver
  <2>3. CASE CleanJoin BY <2>3 DEF CleanJoin
  <2>4. CASE CleanRead BY <2>4 DEF CleanRead
  <2>5. CASE CleanRestore BY <2>5 DEF CleanRestore
  <2> QED BY <1>3, <2>1, <2>2, <2>3, <2>4, <2>5 DEF CleanStep
<1>4. CASE UNCHANGED vars BY <1>4 DEF vars
<1> QED BY <1>1, <1>2, <1>3, <1>4 DEF Next

\* The inductive invariant that the theorems below follow from.
THEOREM Invariance == Spec => []IInv
<1>1. IInv /\ [Next]_vars => IInv'
  BY NextType, NextHolder, NextDb, NextForwarding DEF IInv
<1> QED BY <1>1, InitInv, PTL DEF Spec

\* The variables keep their types, threads exist only for callers that have come to
\* create them, and a batch is registered when its call returns.
THEOREM TypeCorrect == Spec => []TypeOK
<1>1. IInv => TypeOK BY DEF IInv
<1> QED BY <1>1, Invariance, PTL

\* However many callers start the Inspector, at most one of them holds it, and the
\* threads that exist and the published database belong together.
THEOREM AtMostOneInstance == Spec => []SingleInstance
<1>1. IInv => SingleInstance
  BY DEF IInv, HolderInv, Holder, DbInv, SingleInstance
<1> QED BY <1>1, Invariance, PTL

\* The host forwards whenever threads exist and is_running lets them spoof.
THEOREM ForwardsWhileSpoofing == Spec => []ForwardingWhileSpoofing
<1>1. IInv => ForwardingWhileSpoofing
  BY DEF IInv, ForwardingInv, ForwardingWhileSpoofing
<1> QED BY <1>1, Invariance, PTL

-----------------------------------------------------------------------------
(* Restoring.                                                              *)

\* No start was under way during clean_up, and one caller captured the state.
Single == ~overlap /\ \E c \in Callers : captures = {c}

\* Who captured, and what.
CaptureInv ==
  /\ \A x \in Settings \cap {"rule4", "rule6"} : original[x] = "off"
  /\ IsFiniteSet(captures)
  /\ \A c \in Callers :
       /\ c \in captures => pc[c] \notin {"idle", "initdb", "capture"}
       /\ pc[c] \in {"setup", "netinfo", "spawn", "register", "done"} => c \in captures
  /\ cpc = "idle" /\ captures = {} => host["redir4"] = original["redir4"]
  /\ Single => saved = original["redir4"]

\* What clean_up has done.
CleanInv ==
  /\ cpc = "idle" => ~overlap
  /\ ~overlap /\ cpc # "idle" => \A c \in Callers : ~UnderWay(c)
  /\ cpc \notin {"restore", "done"} => cstep = 1
  /\ Single /\ cpc \in {"restore", "done"} =>
       /\ restore = saved
       /\ \A i \in 1 .. Len(CleanCommands(restore)) :
            i < cstep \/ cpc = "done" =>
              host[CleanCommands(restore)[i][1]] = CleanCommands(restore)[i][2]

\* The commands of clean_up set different settings, among them those that it can
\* restore.
LEMMA CleanCommandsRestore ==
  ASSUME NEW s \in OnOff
  PROVE  /\ \A i \in 1 .. Len(CleanCommands(s)) :
              /\ CleanCommands(s)[i][1] \in Settings
              /\ CleanCommands(s)[i][2] \in OnOff
              /\ \A j \in 1 .. Len(CleanCommands(s)) :
                   CleanCommands(s)[i][1] = CleanCommands(s)[j][1] => i = j
         /\ \A x \in Settings \cap {"redir4", "rule4", "rule6"} :
              \E i \in 1 .. Len(CleanCommands(s)) :
                CleanCommands(s)[i] = <<x, IF x = "redir4" THEN s ELSE "off">>
<1>1. CASE Platform = "windows"
  <2>1. CleanCommands(s) = << <<"fwd4", "off">>, <<"fwd6", "off">>, <<"redir4", s>>,
                              <<"redir6", s>>, <<"rule4", "off">>, <<"rule6", "off">> >>
    BY <1>1 DEF CleanCommands
  <2>2. Settings = {"fwd4", "fwd6", "redir4", "redir6", "rule4", "rule6"}
    BY <1>1 DEF Settings
  <2>3. 3 \in 1 .. Len(CleanCommands(s)) /\ 5 \in 1 .. Len(CleanCommands(s))
        /\ 6 \in 1 .. Len(CleanCommands(s))
    BY <2>1
  <2>4. /\ CleanCommands(s)[3] = <<"redir4", s>>
        /\ CleanCommands(s)[5] = <<"rule4", "off">>
        /\ CleanCommands(s)[6] = <<"rule6", "off">>
    BY <2>1
  <2>5. \A x \in Settings \cap {"redir4", "rule4", "rule6"} :
          \E i \in 1 .. Len(CleanCommands(s)) :
            CleanCommands(s)[i] = <<x, IF x = "redir4" THEN s ELSE "off">>
    BY <2>3, <2>4
  <2>6. \A i \in 1 .. Len(CleanCommands(s)) :
          /\ CleanCommands(s)[i][1] \in Settings
          /\ CleanCommands(s)[i][2] \in OnOff
          /\ \A j \in 1 .. Len(CleanCommands(s)) :
               CleanCommands(s)[i][1] = CleanCommands(s)[j][1] => i = j
    BY <2>1, <2>2 DEF OnOff
  <2> QED BY <2>5, <2>6
<1>2. CASE Platform # "windows"
  <2>1. CleanCommands(s) = << <<"fwd4", "off">>, <<"redir4", s>> >>
    BY <1>2 DEF CleanCommands, OnOff
  <2>2. Settings = {"fwd4", "redir4"}
    BY <1>2 DEF Settings
  <2>3. 2 \in 1 .. Len(CleanCommands(s)) /\ CleanCommands(s)[2] = <<"redir4", s>>
    BY <2>1
  <2>4. \A x \in Settings \cap {"redir4", "rule4", "rule6"} :
          \E i \in 1 .. Len(CleanCommands(s)) :
            CleanCommands(s)[i] = <<x, IF x = "redir4" THEN s ELSE "off">>
    BY <2>2, <2>3
  <2>5. \A i \in 1 .. Len(CleanCommands(s)) :
          /\ CleanCommands(s)[i][1] \in Settings
          /\ CleanCommands(s)[i][2] \in OnOff
          /\ \A j \in 1 .. Len(CleanCommands(s)) :
               CleanCommands(s)[i][1] = CleanCommands(s)[j][1] => i = j
    BY <2>1, <2>2 DEF OnOff
  <2> QED BY <2>4, <2>5
<1> QED BY <1>1, <1>2

\* While clean_up has the Inspector to itself, a caller can only be refused: to begin
\* would be to be under way.
LEMMA OnlyRefusals ==
  ASSUME CleanInv, ~overlap', cpc # "idle", NEW c \in Callers, CallerStep(c)
  PROVE  Refuse(c)
<1>1. overlap' = overlap \/ Claim(c)
  BY DEF CallerStep, cleanVars, Refuse, InitDb, Capture, Setup, NetInfo, Abort, Escape,
         Spawn, Register
<1>2. ~Claim(c)
  BY DEF Claim
<1>3. pc[c] \notin {"initdb", "capture", "setup", "netinfo", "spawn", "register"}
  BY <1>1, <1>2 DEF CleanInv, UnderWay, Instance
<1> QED BY <1>2, <1>3 DEF CallerStep, InitDb, Capture, Setup, NetInfo, Abort, Escape, Spawn,
                          Register

\* Every step keeps what is known of captures.
LEMMA NextCapture ==
  TypeOK /\ CaptureInv /\ CleanInv /\ [Next]_vars => CaptureInv'
<1> SUFFICES ASSUME TypeOK, CaptureInv, CleanInv, [Next]_vars PROVE CaptureInv'
  OBVIOUS
<1> USE DEF Goto, hostVars, startVars, cleanVars
<1>0. "redir4" \in Settings
  BY ForwardingSetting
<1>1. ASSUME NEW c \in Callers, Capture(c) PROVE CaptureInv'
  <2>1. c \notin captures /\ captures' = captures \cup {c} /\ saved' = host["redir4"]
        /\ overlap' = overlap /\ host' = host /\ original' = original
    BY <1>1 DEF CaptureInv, Capture
  <2>2. IsFiniteSet(captures')
    BY <2>1, FS_AddElement DEF CaptureInv
  <2>3. Single' => saved' = original'["redir4"]
    <3>1. Single' => captures = {} /\ cpc = "idle"
      BY <1>1, <2>1 DEF Single, CleanInv, UnderWay, Instance, Capture
    <3> QED BY <2>1, <3>1 DEF CaptureInv, Single
  <2>4. \A d \in Callers :
          /\ d \in captures' => pc'[d] \notin {"idle", "initdb", "capture"}
          /\ pc'[d] \in {"setup", "netinfo", "spawn", "register", "done"} => d \in captures'
    BY <1>1, <2>1 DEF CaptureInv, Capture, TypeOK
  <2>5. captures' # {}
    BY <2>1
  <2> QED BY <2>1, <2>2, <2>3, <2>4, <2>5 DEF CaptureInv
<1>2. ASSUME NEW c \in Callers, Setup(c) PROVE CaptureInv'
  <2>1. c \in captures
    BY <1>2 DEF CaptureInv, Setup
  <2>2. UNCHANGED <<original, captures, saved, overlap>>
    BY <1>2 DEF Setup
  <2>3. \A d \in Callers :
          /\ d \in captures => pc'[d] \notin {"idle", "initdb", "capture"}
          /\ pc'[d] \in {"setup", "netinfo", "spawn", "register", "done"} => d \in captures
    BY <1>2, <2>1 DEF CaptureInv, Setup, TypeOK
  <2> QED BY <2>1, <2>2, <2>3 DEF CaptureInv, Single
<1>3. ASSUME NEW c \in Callers,
             Claim(c) \/ Refuse(c) \/ InitDb(c) \/ NetInfo(c) \/ Abort(c) \/ Escape(c)
               \/ Spawn(c) \/ Register(c)
      PROVE  CaptureInv'
  <2>1. UNCHANGED <<original, captures, saved, host, cpc>> /\ (overlap => overlap')
    BY <1>3 DEF TypeOK, Claim, Refuse, InitDb, NetInfo, Abort, Escape, Spawn, Register
  <2>2. \A d \in Callers :
          /\ d \in captures => pc'[d] \notin {"idle", "initdb", "capture"}
          /\ pc'[d] \in {"setup", "netinfo", "spawn", "register", "done"} => d \in captures
    BY <1>3 DEF CaptureInv, TypeOK, Claim, Refuse, InitDb, NetInfo, Abort, Escape, Spawn, Register
  <2> QED BY <2>1, <2>2 DEF CaptureInv, Single
<1>4. CASE CleanFlag
  BY <1>4 DEF CleanFlag, CleanInv, CaptureInv, Single
<1>5. CASE CleanRestore
  BY <1>5 DEF CleanRestore, CaptureInv, Single
<1>6. CASE UNCHANGED <<hostVars, original, pc, overlap>> /\ (cpc' = "idle" => cpc = "idle")
  BY <1>6 DEF CaptureInv, Single
<1>7. \/ UNCHANGED <<hostVars, original, pc, overlap>> /\ (cpc' = "idle" => cpc = "idle")
      \/ CleanFlag \/ CleanRestore
      \/ \E c \in Callers : CallerStep(c)
  BY DEF Next, WorkerExit, Hang, CleanStep, CleanStop, StopNext, StopsOver, CleanJoin,
         CleanRead, vars
<1> QED BY <1>1, <1>2, <1>3, <1>4, <1>5, <1>6, <1>7 DEF CallerStep

\* Every step keeps what clean_up has done: commands of start_threads come before
\* it, and its own commands change different settings.
LEMMA NextClean ==
  TypeOK /\ CaptureInv /\ CleanInv /\ [Next]_vars => CleanInv'
<1> SUFFICES ASSUME TypeOK, CaptureInv, CleanInv, [Next]_vars PROVE CleanInv'
  OBVIOUS
<1> USE DEF hostVars, startVars, cleanVars
<1>1. ASSUME NEW c \in Callers, CallerStep(c) PROVE CleanInv'
  <2>1. UNCHANGED <<cpc, cstep, restore>> /\ (cpc = "idle" => overlap' = overlap)
    BY <1>1 DEF CallerStep, Claim, Refuse, InitDb, Capture, Setup, NetInfo, Abort, Escape,
                Spawn, Register, CleanInv, TypeOK
  <2>2. CASE overlap' \/ cpc = "idle"
    BY <2>1, <2>2 DEF CleanInv, Single
  <2>3. CASE ~overlap' /\ cpc # "idle"
    <3>1. Refuse(c)
      BY <1>1, <2>3, OnlyRefusals
    <3>2. UNCHANGED <<host, saved, captures, overlap>>
          /\ \A d \in Callers : UnderWay(d)' => UnderWay(d)
      BY <3>1 DEF Refuse, Goto, TypeOK, UnderWay, Instance
    <3> QED BY <2>1, <2>3, <3>2 DEF CleanInv, Single
  <2> QED BY <2>2, <2>3
<1>2. CASE CleanFlag
  BY <1>2 DEF CleanFlag, CleanInv, Single, UnderWay, Instance
<1>3. CASE CleanStop \/ CleanJoin
  BY <1>3 DEF CleanStop, StopNext, StopsOver, CleanJoin, CleanInv, Single, UnderWay, Instance
<1>4. CASE CleanRead
  BY <1>4, CleanCommandsFacts DEF CleanRead, CleanInv, Single, TypeOK, UnderWay, Instance
<1>5. CASE CleanRestore
  <2>1. UNCHANGED <<saved, captures, original, pc, restore, overlap>> /\ cpc = "restore"
        /\ cpc' \in {"restore", "done"}
    BY <1>5 DEF CleanRestore
  <2>2. CASE ~Single
    BY <2>1, <2>2 DEF CleanInv, Single, UnderWay, Instance
  <2>3. CASE Single
    <3> DEFINE commands == CleanCommands(restore)
    <3>1. restore = saved /\ restore \in OnOff
      BY <2>1, <2>3, ForwardingSetting DEF CleanInv, CaptureInv, TypeOK
    <3>2. cstep \in 1 .. Len(commands) /\ Len(commands) \in Nat
      BY <3>1, CleanCommandsFacts DEF TypeOK
    <3>3. \A i, j \in 1 .. Len(commands) :
            /\ commands[i][1] \in Settings /\ commands[i][2] \in OnOff
            /\ commands[i][1] = commands[j][1] => i = j
      BY <3>1, CleanCommandsRestore
    <3>4. host' = [host EXCEPT ![commands[cstep][1]] = commands[cstep][2]]
      BY <1>5, <3>2, <3>3 DEF CleanRestore, Execute
    <3>5. \A i \in 1 .. Len(commands) : i < cstep => host[commands[i][1]] = commands[i][2]
      BY <2>1, <2>3 DEF CleanInv
    <3> HIDE DEF commands
    <3>6. \A i \in 1 .. Len(commands) : i <= cstep => host'[commands[i][1]] = commands[i][2]
      <4> SUFFICES ASSUME NEW i \in 1 .. Len(commands), i <= cstep
                   PROVE  host'[commands[i][1]] = commands[i][2]
        OBVIOUS
      <4>1. CASE i = cstep
        BY <3>2, <3>3, <3>4, <4>1 DEF TypeOK
      <4>2. CASE i # cstep
        <5>1. i < cstep
          BY <3>2, <4>2
        <5>2. commands[i][1] # commands[cstep][1] /\ commands[i][1] \in Settings
          BY <3>2, <3>3, <4>2
        <5>3. host'[commands[i][1]] = host[commands[i][1]]
          BY <3>4, <5>2 DEF TypeOK
        <5> QED BY <3>5, <5>1, <5>3
      <4> QED BY <4>1, <4>2
    <3>7. \/ cstep < Len(commands) /\ cstep' = cstep + 1 /\ cpc' = "restore"
          \/ cstep = Len(commands) /\ cpc' = "done"
      BY <1>5, <3>2, <2>1 DEF CleanRestore, commands
    <3>8. \A i \in 1 .. Len(commands) :
            i < cstep' \/ cpc' = "done" => host'[commands[i][1]] = commands[i][2]
      BY <3>2, <3>6, <3>7
    <3> QED BY <2>1, <3>1, <3>8 DEF CleanInv, Single, UnderWay, Instance, commands
  <2> QED BY <2>2, <2>3
<1>6. CASE UNCHANGED <<hostVars, pc, overlap, cpc, cstep, restore>>
  BY <1>6 DEF CleanInv, Single, UnderWay, Instance
<1>7. \/ UNCHANGED <<hostVars, pc, overlap, cpc, cstep, restore>>
      \/ CleanFlag \/ CleanStop \/ CleanJoin \/ CleanRead \/ CleanRestore
      \/ \E c \in Callers : CallerStep(c)
  BY DEF Next, WorkerExit, Hang, CleanStep, vars
<1> QED BY <1>1, <1>2, <1>3, <1>4, <1>5, <1>6, <1>7

\* Whatever clean_up can restore is restored, also after a start that failed half-way,
\* if no start was under way meanwhile and the state was captured once.
THEOREM SettingsAreRestored == Spec => []RestoredUnlessRetried
<1>1. Init => CaptureInv /\ CleanInv
  BY FS_EmptySet DEF Init, CaptureInv, CleanInv, Single
<1>2. IInv /\ CaptureInv /\ CleanInv /\ [Next]_vars => (CaptureInv /\ CleanInv)'
  BY NextCapture, NextClean DEF IInv
<1>3. ASSUME IInv, CaptureInv, CleanInv, cpc = "done", ~overlap, Cardinality(captures) = 1,
             NEW x \in Settings \cap {"redir4", "rule4", "rule6"}
      PROVE  host[x] = original[x]
  <2>1. Single
    <3>1. \E c : captures = {c}
      BY <1>3, FS_Singleton, Zenon DEF CaptureInv
    <3>2. captures \subseteq Callers
      BY <1>3 DEF IInv, TypeOK
    <3> QED BY <1>3, <3>1, <3>2 DEF Single
  <2>2. restore = original["redir4"] /\ restore \in OnOff
    BY <1>3, <2>1, ForwardingSetting DEF CleanInv, CaptureInv, IInv, TypeOK
  <2>3. PICK i \in 1 .. Len(CleanCommands(restore)) :
          CleanCommands(restore)[i] = <<x, IF x = "redir4" THEN restore ELSE "off">>
    BY <2>2, CleanCommandsRestore
  <2>4. host[x] = IF x = "redir4" THEN restore ELSE "off"
    BY <1>3, <2>1, <2>3 DEF CleanInv
  <2> QED BY <1>3, <2>2, <2>4 DEF CaptureInv
<1>4. IInv /\ CaptureInv /\ CleanInv => RestoredUnlessRetried
  BY <1>3 DEF RestoredUnlessRetried
<1> QED BY <1>1, <1>2, <1>4, Invariance, PTL DEF Spec

-----------------------------------------------------------------------------
(* The refinement of InspectorService.                                     *)

\* The callers whose threads exist, as the service sees them.
Owners == {c \in Callers : \E w \in Workers : <<c, w>> \in alive}

\* Only threads of starts that returned were told to stop, and not before
\* is_running was lowered; so those not registered yet are alive.
StoppedInv ==
  /\ \A t \in stopped : pc[t[1]] = "done"
  /\ \A c \in Callers : pc[c] = "register" => Batch(c) \subseteq alive
  /\ stopped # {} => ~running

\* A start that returned stays so, and clean_up stops what is registered only after
\* it has lowered is_running.
LEMMA NextStopped == IInv /\ StoppedInv /\ [Next]_vars => StoppedInv'
<1> SUFFICES ASSUME IInv, StoppedInv, [Next]_vars PROVE StoppedInv'
  OBVIOUS
<1> USE DEF StoppedInv, hostVars, startVars, cleanVars
<1>0. stopped \subseteq Callers \X Workers /\ TypeOK
  BY DEF IInv, TypeOK, Threads
<1>1. ASSUME NEW c \in Callers, CallerStep(c) PROVE StoppedInv'
  <2>1. UNCHANGED <<running, stopped>>
    BY <1>1 DEF CallerStep, Claim, Refuse, InitDb, Capture, Setup, NetInfo, Abort, Escape,
                Spawn, Register
  <2>2. \A d \in Callers : pc[d] = "done" => pc'[d] = "done"
    BY <1>0, <1>1 DEF TypeOK, Goto, CallerStep, Claim, Refuse, InitDb, Capture, Setup, NetInfo,
                      Abort, Escape, Spawn, Register
  <2>3. \A d \in Callers : pc'[d] = "register" => Batch(d) \subseteq alive'
    <3>1. CASE Spawn(c)
      <4>1. alive \subseteq alive'
        BY <3>1 DEF Spawn
      <4>2. \A d \in Callers \ {c} : pc'[d] = pc[d]
        BY <1>0, <3>1 DEF Spawn, Goto, TypeOK
      <4>3. pc'[c] = "register" => Batch(c) \subseteq alive'
        BY <1>0, <3>1 DEF Spawn, Goto, TypeOK
      <4> QED BY <4>1, <4>2, <4>3
    <3>2. CASE ~Spawn(c)
      <4>1. alive' = alive /\ \A d \in Callers : pc'[d] = "register" => pc[d] = "register"
        BY <1>0, <1>1, <3>2 DEF TypeOK, Goto, CallerStep, Claim, Refuse, InitDb, Capture,
                                Setup, NetInfo, Abort, Escape, Register
      <4> QED BY <4>1
    <3> QED BY <3>1, <3>2
  <2> QED BY <1>0, <2>1, <2>2, <2>3
<1>2. CASE CleanFlag
  BY <1>2 DEF CleanFlag
<1>3. ASSUME NEW t \in Threads, StopNext(t) PROVE StoppedInv'
  <2>1. t[1] \in active /\ stopped' = stopped \cup {t} /\ cpc = "stop"
        /\ UNCHANGED <<pc, alive, running>>
    BY <1>3 DEF StopNext
  <2>2. pc[t[1]] = "done" /\ ~running
    BY <1>0, <2>1 DEF TypeOK, IInv, ForwardingInv
  <2> QED BY <2>1, <2>2
<1>4. CASE UNCHANGED <<running, stopped, pc, alive>>
  BY <1>4
<1>5. ASSUME NEW t \in Threads, WorkerExit(t) PROVE StoppedInv'
  <2>1. pc[t[1]] = "done" /\ alive' = alive \ {t} /\ UNCHANGED <<running, stopped, pc>>
    BY <1>5 DEF WorkerExit
  <2>2. \A c \in Callers : pc[c] = "register" => t \notin Batch(c)
    BY <2>1 DEF Batch
  <2> QED BY <2>1, <2>2
<1>6. \/ UNCHANGED <<running, stopped, pc, alive>> \/ CleanFlag
      \/ \E c \in Callers : CallerStep(c)
      \/ \E t \in Threads : StopNext(t) \/ WorkerExit(t)
  BY DEF Next, Hang, CleanStep, CleanStop, StopsOver, CleanJoin, CleanRead, CleanRestore, vars
<1> QED BY <1>1, <1>2, <1>3, <1>4, <1>5, <1>6

\* What the service sees of a caller that moves: its own outcome changes, no other's.
LEMMA OutcomeOfMove ==
  ASSUME pc \in [Callers -> Places], NEW c \in Callers, NEW place \in Places, Goto(c, place)
  PROVE  [d \in Callers |-> Outcome(pc'[d])]
           = [[d \in Callers |-> Outcome(pc[d])] EXCEPT ![c] = Outcome(place)]
BY DEF Goto

\* It sees nothing of one that moves on within its start.
LEMMA OutcomeOfProgress ==
  ASSUME pc \in [Callers -> Places], NEW c \in Callers, NEW place \in Places, Goto(c, place),
         Outcome(place) = Outcome(pc[c])
  PROVE  [d \in Callers |-> Outcome(pc'[d])] = [d \in Callers |-> Outcome(pc[d])]
<1>1. \A d \in Callers : Outcome(pc'[d]) = Outcome(pc[d])
  BY DEF Goto
<1> QED BY <1>1

\* A caller holds the service there if and only if it does here.
LEMMA HolderOfOutcome ==
  ASSUME pc \in [Callers -> Places], NEW c \in Callers
  PROVE  Service!Holds(c) <=> Holder(c)
BY DEF Service!Holds, Holder, Instance, Outcome, Places

\* Every step of start_threads is one of the service, or invisible to it.
LEMMA CallerStepIsService ==
  ASSUME IInv, StoppedInv, NEW c \in Callers, CallerStep(c)
  PROVE  Service!Next \/ UNCHANGED Service!service
<1> DEFINE calls == [d \in Callers |-> Outcome(pc[d])]
           fwd == host["fwd4"] = "on"
<1>0. pc \in [Callers -> Places] /\ TypeOK /\ HolderInv
  BY DEF IInv, TypeOK
<1>9. ASSUME NEW d \in Callers, pc[d] \notin {"spawn", "register", "done", "escaped"}
      PROVE  d \notin Owners
  BY <1>0, <1>9 DEF TypeOK, Owners
<1> USE DEF hostVars, startVars, cleanVars
<1>1. \A d \in Callers : calls[d] = Outcome(pc[d])
  OBVIOUS
<1>2. CASE Claim(c)
  <2>1. calls[c] = "none" /\ \A d \in Callers : ~Service!Holds(d)
    BY <1>0, <1>2, HolderOfOutcome DEF Claim, HolderInv, Outcome
  <2>2. calls' = [calls EXCEPT ![c] = "starting"]
    BY <1>0, <1>2, OutcomeOfMove DEF Claim, Places, Outcome
  <2>3. Service!Begin(c)
    BY <1>2, <2>1, <2>2 DEF Claim, Service!Begin, Service!Become
  <2> QED BY <2>3 DEF Service!Next
<1>3. CASE Refuse(c)
  <2>1. calls[c] = "none" /\ \E d \in Callers : Service!Holds(d)
    BY <1>0, <1>3, HolderOfOutcome DEF Refuse, HolderInv, Outcome
  <2>2. calls' = [calls EXCEPT ![c] = "refused"]
    BY <1>0, <1>3, OutcomeOfMove DEF Refuse, Places, Outcome
  <2>3. Service!Refuse(c)
    BY <1>3, <2>1, <2>2 DEF Refuse, Service!Refuse, Service!Become
  <2> QED BY <2>3 DEF Service!Next
<1>4. CASE InitDb(c) \/ Capture(c) \/ NetInfo(c)
  <2>1. UNCHANGED <<alive, running, host>>
    BY <1>4 DEF InitDb, Capture, NetInfo
  <2>2. calls' = calls
    <3>1. CASE InitDb(c)
      BY <1>0, <3>1, OutcomeOfProgress DEF InitDb, Places, Outcome
    <3>2. CASE Capture(c)
      BY <1>0, <3>2, OutcomeOfProgress DEF Capture, Places, Outcome
    <3>3. CASE NetInfo(c)
      BY <1>0, <3>3, OutcomeOfProgress DEF NetInfo, Places, Outcome
    <3> QED BY <1>4, <3>1, <3>2, <3>3
  <2> QED BY <2>1, <2>2 DEF Service!service
<1>5. CASE Setup(c)
  <2>1. UNCHANGED <<alive, running>> /\ pc[c] = "setup" /\ c \notin Owners
    BY <1>5, <1>9 DEF Setup
  <2>2. calls' = calls
    <3>1. CASE Goto(c, "netinfo")
      BY <1>0, <1>5, <3>1, OutcomeOfProgress DEF Setup, Places, Outcome
    <3>2. CASE UNCHANGED pc
      BY <3>2
    <3> QED BY <1>5, <3>1, <3>2 DEF Setup
  <2>3. host'["fwd4"] = host["fwd4"] \/ host'["fwd4"] = "on"
    <3>1. step[c] \in 1..Len(SetupCommands)
      BY <1>0 DEF TypeOK
    <3>2. host \in [Settings -> OnOff]
      BY <1>0 DEF TypeOK
    <3>3. CASE step[c] = 1
      BY <1>5, <3>1, <3>2, <3>3, SetupCommandsFacts, ForwardingSetting DEF Setup, Execute, OnOff
    <3>4. CASE step[c] # 1
      BY <1>5, <3>1, <3>2, <3>4, SetupCommandsFacts, ForwardingSetting
         DEF Setup, Execute, Commands
    <3> QED BY <3>3, <3>4
  <2>4. CASE host'["fwd4"] = host["fwd4"]
    BY <2>1, <2>2, <2>4 DEF Service!service
  <2>5. CASE host'["fwd4"] = "on"
    <3>1. Service!Forward(c)
      BY <2>1, <2>2, <2>5 DEF Service!Forward, Outcome, Owners
    <3> QED BY <3>1 DEF Service!Next
  <2> QED BY <2>3, <2>4, <2>5
<1>6. CASE Abort(c) \/ Escape(c)
  <2>1. UNCHANGED <<alive, running, host>>
        /\ pc[c] \in {"initdb", "capture", "setup", "netinfo", "spawn"}
    BY <1>6 DEF Abort, Escape
  <2>2. \/ c \notin Owners /\ calls' = [calls EXCEPT ![c] = "failed"]
        \/ calls' = [calls EXCEPT ![c] = "raised"]
    <3>1. CASE Abort(c)
      BY <1>0, <1>9, <3>1, OutcomeOfMove DEF Abort, Places, Outcome
    <3>2. CASE Escape(c)
      BY <1>0, <3>2, OutcomeOfMove DEF Escape, Places, Outcome
    <3> QED BY <1>6, <3>1, <3>2
  <2>3. Service!GiveUp(c)
    BY <2>1, <2>2 DEF Service!GiveUp, Service!Become, Outcome, Owners
  <2> QED BY <2>3 DEF Service!Next
<1>7. CASE Spawn(c)
  <2>1. PICK t \in Batch(c) \ alive : alive' = alive \cup {t}
    BY <1>7 DEF Spawn
  <2>2. UNCHANGED <<running, host>> /\ pc[c] = "spawn"
    BY <1>7 DEF Spawn
  <2>3. Owners' = Owners \cup {c}
    BY <2>1 DEF Owners, Batch
  <2>4. calls' = calls
    <3>1. CASE Goto(c, "register")
      BY <1>0, <2>2, <3>1, OutcomeOfProgress DEF Places, Outcome
    <3>2. CASE UNCHANGED pc
      BY <3>2
    <3> QED BY <1>7, <3>1, <3>2 DEF Spawn
  <2>5. CASE c \in Owners
    <3>1. Owners' = Owners
      BY <2>3, <2>5
    <3> QED BY <2>2, <2>4, <3>1 DEF Service!service, Owners
  <2>6. CASE c \notin Owners
    <3>1. running => fwd
      BY <2>2 DEF IInv, ForwardingInv, Forwarded
    <3>2. Service!Launch(c)
      BY <2>2, <2>3, <2>4, <2>6, <3>1 DEF Service!Launch, Outcome, Owners
    <3> QED BY <3>2 DEF Service!Next
  <2> QED BY <2>5, <2>6
<1>8. CASE Register(c)
  <2>1. UNCHANGED <<running, host, alive>> /\ pc[c] = "register"
    BY <1>8 DEF Register
  <2>2. calls' = [calls EXCEPT ![c] = "returned"]
    BY <1>0, <1>8, OutcomeOfMove DEF Register, Places, Outcome
  <2>3. c \in Owners
    BY <2>1, LifecycleAssumption DEF StoppedInv, Owners, Batch
  <2>4. Service!Return(c)
    BY <2>1, <2>2, <2>3 DEF Service!Return, Service!Become, Outcome, Owners
  <2> QED BY <2>4 DEF Service!Next
<1> QED BY <1>2, <1>3, <1>4, <1>5, <1>6, <1>7, <1>8 DEF CallerStep

\* So is every step of clean_up and of the threads that end.
LEMMA CleanStepIsService ==
  ASSUME IInv, StoppedInv, CleanStep \/ \E t \in Threads : WorkerExit(t) \/ Hang(t)
  PROVE  Service!Next \/ UNCHANGED Service!service
<1> USE DEF hostVars, startVars, cleanVars
<1>0. TypeOK /\ (cpc # "idle" => ~running)
  BY DEF IInv, ForwardingInv
<1>1. CASE CleanFlag
  <2>1. UNCHANGED <<pc, alive, host>> /\ ~running'
    BY <1>1 DEF CleanFlag
  <2>2. CASE running
    BY <1>1, <2>1, <2>2 DEF CleanFlag, Service!Next, Service!SwitchOff
  <2>3. CASE ~running
    BY <1>0, <1>1, <2>1, <2>3 DEF CleanFlag, Service!service, TypeOK
  <2> QED BY <2>2, <2>3
<1>2. CASE CleanStop \/ CleanJoin \/ CleanRead
  BY <1>2 DEF CleanStop, StopNext, StopsOver, CleanJoin, CleanRead, Service!service
<1>3. CASE CleanRestore
  <2>1. UNCHANGED <<pc, alive, running>> /\ ~running
    BY <1>0, <1>3 DEF CleanRestore
  <2>2. PICK command \in Commands : /\ Execute(command)
                                    /\ command[1] = "fwd4" => command[2] = "off"
    <3>1. restore \in OnOff \cup {"unknown"} /\ cstep \in 1..Len(CleanCommands(restore))
      BY <1>0 DEF TypeOK
    <3>2. CleanCommands(restore)[cstep] \in Commands
      BY <3>1, CleanCommandsFacts
    <3>3. CleanCommands(restore)[cstep][1] = "fwd4" => CleanCommands(restore)[cstep][2] = "off"
      BY <3>1 DEF CleanCommands, OnOff
    <3> QED BY <1>3, <3>2, <3>3 DEF CleanRestore
  <2>3. host'["fwd4"] = host["fwd4"] \/ host'["fwd4"] = "off"
    BY <1>0, <2>2, ForwardingSetting DEF Execute, Commands, TypeOK
  <2>4. CASE host'["fwd4"] = host["fwd4"]
    BY <2>1, <2>4 DEF Service!service
  <2>5. CASE host'["fwd4"] = "off"
    BY <2>1, <2>5 DEF Service!Next, Service!StopForwarding
  <2> QED BY <2>3, <2>4, <2>5
<1>4. ASSUME NEW t \in Threads, WorkerExit(t) PROVE Service!Next \/ UNCHANGED Service!service
  <2> DEFINE c == t[1]
  <2>1. t \in alive /\ t \in stopped /\ alive' = alive \ {t} /\ UNCHANGED <<pc, running, host>>
    BY <1>4 DEF WorkerExit
  <2>2. ~running /\ pc[c] = "done" /\ c \in Callers /\ t = <<c, t[2]>> /\ t[2] \in Workers
    BY <2>1 DEF StoppedInv, Threads
  <2>3. c \in Owners
    BY <2>1, <2>2 DEF Owners
  <2>4. Owners' = Owners \/ Owners' = Owners \ {c}
    <3>1. \A d \in Callers, w \in Workers : d # c => (<<d, w>> \in alive' <=> <<d, w>> \in alive)
      BY <2>1, <2>2
    <3>2. \A d \in Callers \ {c} : d \in Owners' <=> d \in Owners
      BY <3>1 DEF Owners
    <3>3. Owners \subseteq Callers /\ Owners' \subseteq Callers
      BY DEF Owners
    <3> HIDE DEF c
    <3> QED BY <2>3, <3>2, <3>3
  <2>5. CASE Owners' = Owners
    BY <2>1, <2>5 DEF Service!service, Owners
  <2>6. CASE Owners' = Owners \ {c}
    <3>1. Service!ThreadsEnd(c)
      BY <2>1, <2>2, <2>3, <2>6 DEF Service!ThreadsEnd, Outcome, Owners
    <3> QED BY <2>2, <3>1 DEF Service!Next
  <2> QED BY <2>4, <2>5, <2>6
<1>5. ASSUME NEW t \in Threads, Hang(t) PROVE UNCHANGED Service!service
  BY <1>5 DEF Hang, Service!service
<1> QED BY <1>1, <1>2, <1>3, <1>4, <1>5 DEF CleanStep

\* For any callers and platform, start_threads and clean_up implement a service with
\* one holder.
THEOREM LifecycleIsService == Spec => ImplementsService
<1>1. Init => Service!Init /\ StoppedInv
  BY DEF Init, Service!Init, Outcome, StoppedInv
<1>2. IInv /\ StoppedInv /\ [Next]_vars => [Service!Next]_(Service!service)
  <2> SUFFICES ASSUME IInv, StoppedInv, [Next]_vars
               PROVE  Service!Next \/ UNCHANGED Service!service
    OBVIOUS
  <2>1. CASE UNCHANGED vars
    BY <2>1 DEF vars, hostVars, startVars, cleanVars, Service!service
  <2> QED BY <2>1, CallerStepIsService, CleanStepIsService DEF Next
<1> QED BY <1>1, <1>2, NextStopped, Invariance, PTL DEF Spec, ImplementsService, Service!Spec

\* A start is refused only while another one is under way or has succeeded, or
\* after one that ended in an exception other than RuntimeError.
THEOREM RefusalsAreExplained == Spec => RefusalIsExplained
<1> DEFINE Explained ==
      \A c \in Callers : pc[c] = "idle" /\ pc'[c] = "refused" =>
        \E d \in Callers : Instance(d) \/ pc[d] = "escaped"
<1>3. ASSUME TypeOK, [Next]_vars, NEW c \in Callers, pc[c] = "idle", pc'[c] = "refused"
      PROVE  started
  <2>1. \E d \in Callers : CallerStep(d)
    BY <1>3 DEF Next, WorkerExit, Hang, CleanStep, CleanFlag, CleanStop, StopNext, StopsOver,
               CleanJoin, CleanRead, CleanRestore, vars, startVars
  <2>2. PICK d \in Callers : CallerStep(d)
    BY <2>1
  <2> USE DEF TypeOK, Goto
  <2>3. CASE Refuse(d)
    BY <2>3 DEF Refuse
  <2>4. CASE Claim(d) \/ InitDb(d) \/ Capture(d) \/ Setup(d) \/ NetInfo(d) \/ Spawn(d)
             \/ Register(d) \/ Abort(d) \/ Escape(d)
    BY <1>3, <2>4 DEF Claim, InitDb, Capture, Setup, NetInfo, Spawn, Register, Abort, Escape
  <2> QED BY <2>2, <2>3, <2>4 DEF CallerStep
<1>4. IInv /\ [Next]_vars => [Explained]_vars
  BY <1>3 DEF IInv, HolderInv, Holder
<1>5. Spec => [][Explained]_vars
  BY <1>4, Invariance, PTL DEF Spec
<1> QED BY <1>5 DEF RefusalIsExplained

-----------------------------------------------------------------------------
(* Whom clean_up reaches.                                                  *)

\* If no start is under way during clean_up, then every thread that is still alive
\* after the loop was told to stop, but for those of a start that raised while it
\* created them, which nobody can reach.
CleanupReachesAll ==
  ~overlap /\ cpc \in {"join", "read", "restore", "done"} =>
    \A t \in alive : t \in stopped \/ pc[t[1]] = "escaped"

\* A start that returned has registered its threads.
RegisteredInv == \A c \in Callers : pc[c] = "done" => c \in active

\* No threads are created while clean_up has the Inspector to itself, and those of a
\* start that returned are on the list.
LEMMA NextReached ==
  ASSUME TypeOK, CleanInv, RegisteredInv, CleanupReachesAll, [Next]_vars
  PROVE  RegisteredInv' /\ CleanupReachesAll'
<1> USE DEF hostVars, startVars, cleanVars
<1>1. ASSUME NEW c \in Callers, CallerStep(c) PROVE RegisteredInv' /\ CleanupReachesAll'
  <2>1. RegisteredInv'
    <3>1. CASE Register(c)
      BY <3>1 DEF Register, RegisteredInv, Goto, TypeOK
    <3>2. CASE ~Register(c)
      BY <1>1, <3>2 DEF RegisteredInv, TypeOK, Goto, CallerStep, Claim, Refuse, InitDb, Capture,
                        Setup, NetInfo, Abort, Escape, Spawn
    <3> QED BY <3>1, <3>2
  <2>2. cpc' = cpc
    BY <1>1 DEF CallerStep, Claim, Refuse, InitDb, Capture, Setup, NetInfo, Abort, Escape,
                Spawn, Register
  <2>3. CASE overlap' \/ cpc = "idle"
    BY <2>1, <2>2, <2>3 DEF CleanupReachesAll
  <2>4. CASE ~overlap' /\ cpc # "idle"
    <3>1. Refuse(c)
      BY <1>1, <2>4, OnlyRefusals
    <3>2. UNCHANGED <<alive, stopped, overlap>>
          /\ \A d \in Callers : pc[d] = "escaped" => pc'[d] = "escaped"
      BY <3>1 DEF Refuse, Goto, TypeOK
    <3>3. \A t \in alive : t[1] \in Callers
      BY DEF TypeOK, Threads
    <3> QED BY <2>1, <2>2, <3>2, <3>3 DEF CleanupReachesAll
  <2> QED BY <2>3, <2>4
<1>2. ASSUME NEW t \in Threads, WorkerExit(t) \/ Hang(t)
      PROVE  RegisteredInv' /\ CleanupReachesAll'
  BY <1>2 DEF WorkerExit, Hang, RegisteredInv, CleanupReachesAll
<1>3. CASE CleanFlag
  BY <1>3 DEF CleanFlag, RegisteredInv, CleanupReachesAll
<1>4. ASSUME NEW t \in Threads, StopNext(t) PROVE RegisteredInv' /\ CleanupReachesAll'
  BY <1>4 DEF StopNext, RegisteredInv, CleanupReachesAll
<1>5. CASE StopsOver
  <2>1. UNCHANGED <<alive, stopped, overlap, active, pc>> /\ active \X Workers \subseteq stopped
        /\ cpc = "stop"
    BY <1>5 DEF StopsOver
  <2>2. ASSUME ~overlap, NEW t \in alive PROVE t \in stopped \/ pc[t[1]] = "escaped"
    <3>1. t[1] \in Callers /\ t \in Callers \X Workers
          /\ pc[t[1]] \in {"spawn", "register", "done", "escaped"}
      BY DEF TypeOK, Threads
    <3>2. ~UnderWay(t[1])
      BY <2>1, <2>2, <3>1 DEF CleanInv
    <3>3. pc[t[1]] = "done" => t[1] \in active
      BY <3>1 DEF RegisteredInv
    <3>4. t[1] \in active => t \in active \X Workers
      BY <3>1
    <3> QED BY <2>1, <3>1, <3>2, <3>3, <3>4 DEF UnderWay, Instance
  <2> QED BY <2>1, <2>2 DEF RegisteredInv, CleanupReachesAll
<1>6. CASE CleanJoin \/ CleanRead
  BY <1>6 DEF CleanJoin, CleanRead, RegisteredInv, CleanupReachesAll
<1>7. CASE CleanRestore
  BY <1>7 DEF CleanRestore, RegisteredInv, CleanupReachesAll
<1>8. CASE UNCHANGED vars
  BY <1>8 DEF vars, RegisteredInv, CleanupReachesAll
<1> QED BY <1>1, <1>2, <1>3, <1>4, <1>5, <1>6, <1>7, <1>8 DEF Next, CleanStep, CleanStop

\* No thread that clean_up can know of is left without its stop, although clean_up works
\* on the list that others may extend, and callers may fail on the way.
THEOREM NobodyIsLeftRunning == Spec => []CleanupReachesAll
<1>1. Init => CaptureInv /\ CleanInv /\ RegisteredInv /\ CleanupReachesAll
  BY FS_EmptySet DEF Init, CaptureInv, CleanInv, Single, RegisteredInv, CleanupReachesAll
<1>2. IInv /\ CaptureInv /\ CleanInv /\ [Next]_vars => (CaptureInv /\ CleanInv)'
  BY NextCapture, NextClean DEF IInv
<1>3. IInv /\ CleanInv /\ RegisteredInv /\ CleanupReachesAll /\ [Next]_vars
        => (RegisteredInv /\ CleanupReachesAll)'
  BY NextReached DEF IInv
<1> QED BY <1>1, <1>2, <1>3, Invariance, PTL DEF Spec
=============================================================================
