------------------------------ MODULE Lifecycle ------------------------------
(***************************************************************************)
(* Starting and cleaning up the Inspector: start_threads and clean_up of   *)
(* src/libinspector/core.py with the host settings that                    *)
(* enable_ip_forwarding and disable_ip_forwarding of networking.py change. *)
(*                                                                         *)
(* Any number of callers may call start_threads concurrently, each once;   *)
(* clean_up runs once.  Every `with global_state_lock' block is one step,  *)
(* and so is every command given to the operating system.  The threads     *)
(* that one start_threads creates form a batch, named after its caller;    *)
(* what each of them does is the subject of the other modules.             *)
(***************************************************************************)
EXTENDS Naturals, Sequences, FiniteSets

CONSTANTS
  Callers,       \* the threads that call start_threads
  Workers,       \* the SafeLoopThreads that each call creates
  MayHang,       \* those whose function may never return: ssdp_discovery
  Platform       \* what get_os returns

ASSUME LifecycleAssumption ==
  /\ Workers # {} /\ MayHang \subseteq Workers
  /\ Platform \in {"linux", "mac", "windows"}

VARIABLES
  host,      \* the settings of the operating system
  original,  \* history: those settings before any caller changed them
  saved,     \* global_state.icmp_redirect_enabled
  started,   \* global_state.inspector_started[0]
  running,   \* global_state.is_running
  db,        \* whose connection global_state.db_conn_and_lock holds
  active,    \* the batches in global_state.active_threads
  alive,     \* the threads that were created and have not ended
  hung,      \* those of them whose function will never return
  stopped,   \* the threads that were told to stop
  pc,        \* where each caller is in start_threads
  cpc,       \* where clean_up is
  step,      \* the next command of each caller's enable_ip_forwarding
  cstep,     \* the next command of disable_ip_forwarding
  restore,   \* clean_up's local copy of the saved state
  captures,  \* history: the callers that captured the redirect state
  overlap    \* history: a start_threads was under way during clean_up

hostVars == <<host, saved, captures>>
startVars == <<started, db, alive, hung, active, pc, step>>
cleanVars == <<running, stopped, cpc, cstep, restore, overlap>>
vars == <<hostVars, original, startVars, cleanVars>>

Threads == Callers \X Workers
Batch(c) == {c} \X Workers

OnOff == {"on", "off"}
NoCaller == "none"

\* fwd is IP forwarding, redir the sending of ICMP redirects, rule the firewall
\* rule that drops them; 4 and 6 are the IP versions.
Settings == IF Platform = "windows"
            THEN {"fwd4", "fwd6", "redir4", "redir6", "rule4", "rule6"}
            ELSE {"fwd4", "redir4"}

\* The commands of enable_ip_forwarding, in order.
SetupCommands ==
  IF Platform = "windows"
  THEN << <<"fwd4", "on">>, <<"fwd6", "on">>, <<"redir4", "off">>,
          <<"redir6", "off">>, <<"rule4", "on">>, <<"rule6", "on">> >>
  ELSE << <<"fwd4", "on">>, <<"redir4", "off">> >>

\* The commands of disable_ip_forwarding, given the captured redirect state.
CleanCommands(state) ==
  IF Platform = "windows"
  THEN << <<"fwd4", "off">>, <<"fwd6", "off">>, <<"redir4", state>>,
          <<"redir6", state>>, <<"rule4", "off">>, <<"rule6", "off">> >>
  ELSE << <<"fwd4", "off">>,
          <<"redir4", IF state = "off" THEN "off" ELSE "on">> >>

\* The operating system refuses a value that is neither on nor off.
Execute(command) ==
  host' = IF command[2] \in OnOff
          THEN [host EXCEPT ![command[1]] = command[2]]
          ELSE host

Places == { "idle",      \* before start_threads
            "refused",   \* returned: the flag was set
            "initdb",    \* claimed the flag
            "capture",   \* published the database
            "setup",     \* running the commands of enable_ip_forwarding
            "netinfo",   \* in update_network_info
            "spawn",     \* creating the threads
            "register",  \* created them, active_threads not yet extended
            "done",      \* returned
            "aborted",   \* raised RuntimeError, after resetting the flag
            "escaped" }  \* raised anything else

CleanPlaces == {"idle", "stop", "join", "read", "restore", "done"}

\* The callers that won the flag and neither failed nor gave it back.
Instance(c) == pc[c] \notin {"idle", "refused", "aborted", "escaped"}

UnderWay(c) == Instance(c) /\ pc[c] # "done"

\* The types; a batch is registered when its call returns, threads exist only
\* once their caller has come to create them.
TypeOK ==
  /\ host \in [Settings -> OnOff]
  /\ original \in [Settings -> OnOff]
  /\ saved \in OnOff \cup {"unknown"}
  /\ started \in BOOLEAN
  /\ running \in BOOLEAN
  /\ db \in Callers \cup {NoCaller}
  /\ active \subseteq {c \in Callers : pc[c] = "done"}
  /\ alive \subseteq Threads /\ hung \subseteq alive
  /\ \A t \in alive : pc[t[1]] \in {"spawn", "register", "done", "escaped"}
  /\ stopped \subseteq Threads
  /\ pc \in [Callers -> Places]
  /\ cpc \in CleanPlaces
  /\ step \in [Callers -> 1..Len(SetupCommands)]
  /\ cstep \in 1..Len(CleanCommands(restore))
  /\ restore \in OnOff \cup {"unknown"}
  /\ captures \subseteq Callers
  /\ overlap \in BOOLEAN

\* No firewall rule has Inspector's display name before it runs.
Init ==
  /\ original \in {s \in [Settings -> OnOff] :
                     \A x \in Settings \cap {"rule4", "rule6"} : s[x] = "off"}
  /\ host = original
  /\ saved = "unknown"
  /\ started = FALSE
  /\ running = TRUE
  /\ db = NoCaller
  /\ active = {}
  /\ alive = {}
  /\ hung = {}
  /\ stopped = {}
  /\ pc = [c \in Callers |-> "idle"]
  /\ cpc = "idle"
  /\ step = [c \in Callers |-> 1]
  /\ cstep = 1
  /\ restore = "unknown"
  /\ captures = {}
  /\ overlap = FALSE

-----------------------------------------------------------------------------
(* start_threads.                                                          *)

Goto(c, place) == pc' = [pc EXCEPT ![c] = place]

\* Mutation: the flag is tested but not set in the same critical section.
Claim_NotSet(c) ==
  /\ pc[c] = "idle"
  /\ ~started
  /\ overlap' = (overlap \/ cpc # "idle")
  /\ Goto(c, "initdb")
  /\ UNCHANGED <<hostVars, original, started, db, alive, hung, active, step,
                 running, stopped, cpc, cstep, restore>>

Claim(c) ==
  /\ pc[c] = "idle"
  /\ ~started
  /\ started' = TRUE
  /\ overlap' = (overlap \/ cpc # "idle")
  /\ Goto(c, "initdb")
  /\ UNCHANGED <<hostVars, original, db, alive, hung, active, step,
                 running, stopped, cpc, cstep, restore>>

Refuse(c) ==
  /\ pc[c] = "idle"
  /\ started
  /\ Goto(c, "refused")
  /\ UNCHANGED <<hostVars, original, started, db, alive, hung, active, step, cleanVars>>

\* initialize_db creates a database of its own, which is then published.
InitDb(c) ==
  /\ pc[c] = "initdb"
  /\ db' = c
  /\ Goto(c, "capture")
  /\ UNCHANGED <<hostVars, original, started, alive, hung, active, step, cleanVars>>

\* Mutation: the redirect state is read but not stored.
Capture_NotStored(c) ==
  /\ pc[c] = "capture"
  /\ captures' = captures \cup {c}
  /\ Goto(c, "setup")
  /\ UNCHANGED <<host, saved, original, started, db, alive, hung, active, step, cleanVars>>

\* get_actual_icmp_redirect_state reads the IPv4 setting, on every platform.
Capture(c) ==
  /\ pc[c] = "capture"
  /\ saved' = host["redir4"]
  /\ captures' = captures \cup {c}
  /\ Goto(c, "setup")
  /\ UNCHANGED <<host, original, started, db, alive, hung, active, step, cleanVars>>

Setup(c) ==
  /\ pc[c] = "setup"
  /\ Execute(SetupCommands[step[c]])
  /\ IF step[c] < Len(SetupCommands)
     THEN step' = [step EXCEPT ![c] = @ + 1] /\ UNCHANGED pc
     ELSE Goto(c, "netinfo") /\ UNCHANGED step
  /\ UNCHANGED <<saved, captures, original, started, db, alive, hung, active, cleanVars>>

NetInfo(c) ==
  /\ pc[c] = "netinfo"
  /\ Goto(c, "spawn")
  /\ UNCHANGED <<hostVars, original, started, db, alive, hung, active, step, cleanVars>>

\* Mutation: the flag is not given back.
Abort_KeepsFlag(c) ==
  /\ pc[c] = "netinfo"
  /\ Goto(c, "aborted")
  /\ UNCHANGED <<hostVars, original, started, db, alive, hung, active, step, cleanVars>>

\* update_network_info finds no default route and raises RuntimeError.
Abort(c) ==
  /\ pc[c] = "netinfo"
  /\ started' = FALSE
  /\ Goto(c, "aborted")
  /\ UNCHANGED <<hostVars, original, db, alive, hung, active, step, cleanVars>>

\* Any other exception: sqlite3 errors, CalledProcessError from check_output or
\* check_call, KeyError or AssertionError from update_network_info, RuntimeError
\* from a thread that cannot be started, which nothing catches.  What was created
\* runs on, and is on no list.
Escape(c) ==
  /\ pc[c] \in {"initdb", "capture", "setup", "netinfo", "spawn"}
  /\ Goto(c, "escaped")
  /\ UNCHANGED <<hostVars, original, started, db, alive, hung, active, step, cleanVars>>

\* Mutation: the threads are on the list before all of them exist.
Spawn_ListedEarly(c) ==
  /\ pc[c] = "spawn"
  /\ \E t \in Batch(c) \ alive : alive' = alive \cup {t}
  /\ active' = active \cup {c}
  /\ IF Batch(c) \subseteq alive' THEN Goto(c, "register") ELSE UNCHANGED pc
  /\ UNCHANGED <<hostVars, original, started, db, hung, step, cleanVars>>

\* A SafeLoopThread starts itself when it is created.
Spawn(c) ==
  /\ pc[c] = "spawn"
  /\ \E t \in Batch(c) \ alive : alive' = alive \cup {t}
  /\ IF Batch(c) \subseteq alive' THEN Goto(c, "register") ELSE UNCHANGED pc
  /\ UNCHANGED <<hostVars, original, started, db, hung, active, step, cleanVars>>

Register(c) ==
  /\ pc[c] = "register"
  /\ active' = active \cup {c}
  /\ Goto(c, "done")
  /\ UNCHANGED <<hostVars, original, started, db, alive, hung, step, cleanVars>>

-----------------------------------------------------------------------------
(* clean_up.  main calls it only after start_threads has returned, another *)
(* program whenever it likes.                                              *)

\* Mutation: is_running is left set.
CleanFlag_LeavesRunning ==
  /\ cpc = "idle"
  /\ cpc' = "stop"
  /\ overlap' = \E c \in Callers : UnderWay(c)
  /\ UNCHANGED <<hostVars, original, startVars, running, stopped, cstep, restore>>

CleanFlag ==
  /\ cpc = "idle"
  /\ running' = FALSE
  /\ cpc' = "stop"
  /\ overlap' = \E c \in Callers : UnderWay(c)
  /\ UNCHANGED <<hostVars, original, startVars, stopped, cstep, restore>>

\* threads_to_kill is the list itself, not a copy: what is appended while the
\* loop runs is stopped too.
StopNext(t) ==
  /\ cpc = "stop"
  /\ t[1] \in active /\ t \notin stopped
  /\ stopped' = stopped \cup {t}
  /\ UNCHANGED <<hostVars, original, startVars, running, cpc, cstep, restore, overlap>>

\* Mutation: the loop goes over a copy of the list, here one made while it was empty.
StopsOver_OfCopy ==
  /\ cpc = "stop"
  /\ stopped = {} \/ active \X Workers \subseteq stopped
  /\ cpc' = "join"
  /\ UNCHANGED <<hostVars, original, startVars, running, stopped, cstep, restore, overlap>>

StopsOver ==
  /\ cpc = "stop"
  /\ active \X Workers \subseteq stopped
  /\ cpc' = "join"
  /\ UNCHANGED <<hostVars, original, startVars, running, stopped, cstep, restore, overlap>>

\* Every join gives up after a second, so a thread may still be alive.
CleanJoin ==
  /\ cpc = "join"
  /\ cpc' = "read"
  /\ UNCHANGED <<hostVars, original, startVars, running, stopped, cstep, restore, overlap>>

CleanRead ==
  /\ cpc = "read"
  /\ restore' = saved
  /\ cpc' = "restore"
  /\ UNCHANGED <<hostVars, original, startVars, running, stopped, cstep, overlap>>

\* Mutation: the last command is not executed.
CleanRestore_StopsEarly ==
  /\ cpc = "restore"
  /\ IF cstep < Len(CleanCommands(restore))
     THEN /\ Execute(CleanCommands(restore)[cstep])
          /\ cstep' = cstep + 1 /\ UNCHANGED cpc
     ELSE cpc' = "done" /\ UNCHANGED <<host, cstep>>
  /\ UNCHANGED <<saved, captures, original, startVars, running, stopped, restore, overlap>>

\* The exit status is ignored; the commands are taken to succeed.
CleanRestore ==
  /\ cpc = "restore"
  /\ Execute(CleanCommands(restore)[cstep])
  /\ IF cstep < Len(CleanCommands(restore))
     THEN cstep' = cstep + 1 /\ UNCHANGED cpc
     ELSE cpc' = "done" /\ UNCHANGED cstep
  /\ UNCHANGED <<saved, captures, original, startVars, running, stopped, restore, overlap>>

\* A thread that was told to stop ends, as FairSpec and StopEnds of SafeLoop have
\* it, unless its function never returns.
WorkerExit(t) ==
  /\ t \in (alive \cap stopped) \ hung
  /\ alive' = alive \ {t}
  /\ UNCHANGED <<hostVars, original, started, db, hung, active, pc, step, cleanVars>>

\* requests.get in ssdp_discovery has no time-out.
Hang(t) ==
  /\ t \in alive \ hung /\ t[2] \in MayHang
  /\ hung' = hung \cup {t}
  /\ UNCHANGED <<hostVars, original, started, db, alive, active, pc, step, cleanVars>>

-----------------------------------------------------------------------------

CallerStep(c) ==
  \/ Claim(c) \/ Refuse(c) \/ InitDb(c) \/ Capture(c) \/ Setup(c)
  \/ NetInfo(c) \/ Abort(c) \/ Escape(c) \/ Spawn(c) \/ Register(c)

CleanStop == StopsOver \/ \E t \in Threads : StopNext(t)

CleanStep == CleanFlag \/ CleanStop \/ CleanJoin \/ CleanRead \/ CleanRestore

Next ==
  \/ \E c \in Callers : CallerStep(c)
  \/ \E t \in Threads : WorkerExit(t) \/ Hang(t)
  \/ CleanStep

Spec == Init /\ [][Next]_vars

\* What was begun goes on; nobody has to call start_threads or clean_up.
FairSpec ==
  /\ Spec
  /\ \A t \in Threads : WF_vars(WorkerExit(t))
  /\ WF_vars(CleanStop \/ CleanJoin \/ CleanRead \/ CleanRestore)

-----------------------------------------------------------------------------
(* Properties.                                                             *)

\* "Make sure that only one single instance of Inspector core is running": of
\* all the concurrent and repeated calls of start_threads at most one is under
\* way or has succeeded, although a failed one gives the flag back; and whatever
\* threads exist work on the database that their own start created, even when an
\* earlier attempt had published another one or theirs failed on the way.
SingleInstance ==
  /\ \A c, d \in Callers : Instance(c) /\ Instance(d) => c = d
  /\ \A t \in alive : t[1] = db

\* As long as is_running lets arp_spoof send, the host forwards what the spoofed
\* devices send it: forwarding is on before the first thread exists, and
\* clean_up lowers is_running before it turns forwarding off.
ForwardingWhileSpoofing ==
  alive # {} /\ running => host["fwd4"] = "on"

\* What disable_ip_forwarding undoes from captured or known state is back as it
\* was, also when clean_up follows a start that failed between two commands,
\* provided that no start was under way meanwhile and that the state was captured
\* once and not again by a retry.  Forwarding and the IPv6 redirects are left out:
\* their state is never captured.
RestoredUnlessRetried ==
  cpc = "done" /\ ~overlap /\ Cardinality(captures) = 1 =>
    \A x \in Settings \cap {"redir4", "rule4", "rule6"} : host[x] = original[x]

\* clean_up ends every thread that is on the list before its loop is over, also one
\* that a concurrent start appends during the loop, unless its function hangs;
\* though clean_up waits for each only a second.
CleanupStopsWorkers ==
  \A t \in Threads :
    (cpc = "stop" /\ t[1] \in active) ~> (t \notin alive \/ t \in hung)

\* "Capture original state before we touch anything" (enable_ip_forwarding), so
\* that clean_up can put it back: for ICMP redirects, whatever became of the
\* starts before.
RedirectsRestored ==
  cpc = "done" /\ ~overlap /\ captures # {} => host["redir4"] = original["redir4"]

\* "Another instance of Inspector is already running. Aborted.": a start is refused
\* only while another one is under way or has succeeded, or after one that ended in
\* an exception other than RuntimeError, which leaves the flag set; a start that
\* found no route never keeps later ones from succeeding.
RefusalIsExplained ==
  [][\A c \in Callers : pc[c] = "idle" /\ pc'[c] = "refused" =>
       \E d \in Callers : Instance(d) \/ pc[d] = "escaped"]_vars

-----------------------------------------------------------------------------
(* The Inspector as a service that one caller holds.                       *)

Outcome(place) ==
  CASE place = "idle" -> "none"
    [] place = "refused" -> "refused"
    [] place = "done" -> "returned"
    [] place = "aborted" -> "failed"
    [] place = "escaped" -> "raised"
    [] OTHER -> "starting"

Service == INSTANCE InspectorService WITH
             calls <- [c \in Callers |-> Outcome(pc[c])],
             threads <- {c \in Callers : \E w \in Workers : <<c, w>> \in alive},
             on <- running,
             forwarding <- host["fwd4"] = "on"

\* However many callers start concurrently or again after failures, and whenever
\* clean_up comes, start_threads and clean_up are a service that is granted to one
\* caller, refused exactly while another one holds it, given back for want of a
\* route, and that keeps its threads and its forwarding until it is switched off.
ImplementsService == Service!Spec
=============================================================================
