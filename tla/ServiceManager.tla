--------------------------- MODULE ServiceManager ---------------------------
(***************************************************************************)
(* The life of PID 1 around its list of supervisors: boot in waves         *)
(* (services/manager.rs), the control socket (control.rs), timers          *)
(* (services/timer.rs), launchers (services/launcher.rs), the wait for a   *)
(* signal and the shutdown (main.rs, shutdown.rs, signals.rs).             *)
(*                                                                         *)
(* What start() and stop() do to a service is the subject of Supervisor.   *)
(* Here a start() returns with or without an error, and the flag `running' *)
(* that start_named_service reads may have either value.                   *)
(***************************************************************************)
EXTENDS WaveSort

CONSTANTS Bootstrap,   \* BUILTIN_BOOTSTRAP_ORDER
          Launchers,   \* services with launcher = true
          Units,       \* units the timers activate
          Endless,     \* services whose start() or stop() need not return
          MaxJobs,     \* bound: commands given through the control socket
          MaxFires,    \* bound: firings of timers
          MaxSignals   \* bound: signals sent to PID 1

BootNames == {Bootstrap[i] : i \in DOMAIN Bootstrap}

ASSUME ManagerAssumption ==
  /\ Bootstrap \in Seq(Nat) /\ Launchers \subseteq Nat
  /\ Name = Node \cup BootNames \cup Launchers
  /\ Units \subseteq Name /\ Endless \subseteq Name /\ 0 \notin Name
  /\ MaxJobs \in Nat /\ MaxFires \in Nat /\ MaxSignals \in Nat
  /\ Node \cap BootNames = {} /\ Node \cap Launchers = {} /\ BootNames \cap Launchers = {}
  /\ \A i, j \in DOMAIN Bootstrap : Bootstrap[i] = Bootstrap[j] => i = j

VARIABLES main,        \* where the main thread is
          at,          \* its loop counter: bootstrap index, wave number, stop_all index
          thread,      \* per service of a wave: its start thread
          supervisors, \* ServiceManager.supervisors, by name
          launched,    \* launchers started so far
          mutex,       \* who holds the manager: "none", "ctl", "timer" or "main"
          job,         \* what the holder does: an operation and a service
          firing,      \* a timer thread between its look at the flag and its send
          chan,        \* the mpsc channel
          disp,        \* the timer dispatcher
          shutdown, reboot,   \* SHUTDOWN_REQUESTED, REBOOT_REQUESTED
          jobs, fires, signals,   \* how much of the bounds is used
          late         \* history: timer activations begun with SHUTDOWN_REQUESTED set

bootVars == <<at, thread, launched>>
timerVars == <<firing, chan, disp, fires, late>>
flagVars == <<shutdown, reboot, signals>>
jobVars == <<mutex, job, jobs>>
vars == <<sortVars, main, bootVars, supervisors, jobVars, timerVars, flagVars>>

NoJob == [op |-> "none", svc |-> 0]
Idle == [pc |-> "recv", unit |-> 0]

Listed == {supervisors[i] : i \in DOMAIN supervisors}

Init ==
  /\ SortInit
  /\ main = "bootstrap" /\ at = 1
  /\ thread = [i \in Node |-> "none"]
  /\ supervisors = <<>> /\ launched = {}
  /\ mutex = "none" /\ job = NoJob
  /\ firing = 0 /\ chan = <<>> /\ disp = Idle
  /\ shutdown = FALSE /\ reboot = FALSE
  /\ jobs = 0 /\ fires = 0 /\ signals = 0 /\ late = 0
-----------------------------------------------------------------------------
(* start_all *)

\* A bootstrap service is started and listed, whether start() succeeds or not.
BootstrapStart ==
  /\ main = "bootstrap" /\ at \in DOMAIN Bootstrap
  /\ supervisors' = Append(supervisors, Bootstrap[at])
  /\ at' = at + 1
  /\ UNCHANGED <<sortVars, main, thread, launched, jobVars, timerVars, flagVars>>

BootstrapDone ==
  /\ main = "bootstrap" /\ at \notin DOMAIN Bootstrap
  /\ main' = "sort"
  /\ UNCHANGED <<sortVars, bootVars, supervisors, jobVars, timerVars, flagVars>>

Sort ==
  /\ main = "sort"
  /\ SortNext
  /\ UNCHANGED <<main, bootVars, supervisors, jobVars, timerVars, flagVars>>

Sorted ==
  /\ main = "sort" /\ result = "ok"
  /\ main' = "spawn" /\ at' = 1
  /\ UNCHANGED <<sortVars, thread, launched, supervisors, jobVars, timerVars, flagVars>>

\* A cycle: "continuing with bootstrap services only".
SortFailed ==
  /\ main = "sort" /\ result = "err"
  /\ main' = "serve"
  /\ UNCHANGED <<sortVars, bootVars, supervisors, jobVars, timerVars, flagVars>>

\* One thread per service; the services of `failed' get none.
SpawnWave(failed) ==
  /\ main = "spawn" /\ at \in DOMAIN waves /\ failed \subseteq waves[at]
  /\ thread' = [i \in Node |-> IF i \in failed THEN "lost"
                               ELSE IF i \in waves[at] THEN "starting" ELSE thread[i]]
  /\ main' = "join"
  /\ UNCHANGED <<sortVars, at, launched, supervisors, jobVars, timerVars, flagVars>>

\* start() returns in the service's thread, or the thread panics.
StartReturns(i) ==
  /\ thread[i] = "starting"
  /\ thread' = [thread EXCEPT ![i] = "returned"]
  /\ UNCHANGED <<sortVars, main, at, launched, supervisors, jobVars, timerVars, flagVars>>

StartPanics(i) ==
  /\ thread[i] = "starting"
  /\ thread' = [thread EXCEPT ![i] = "lost"]
  /\ UNCHANGED <<sortVars, main, at, launched, supervisors, jobVars, timerVars, flagVars>>

\* Mutant: the supervisor goes to the front of the list.
JoinFront(i) ==
  /\ main = "join" /\ i \in waves[at] /\ thread[i] = "returned"
  /\ supervisors' = <<i>> \o supervisors
  /\ thread' = [thread EXCEPT ![i] = "joined"]
  /\ UNCHANGED <<sortVars, main, at, launched, jobVars, timerVars, flagVars>>

Join(i) ==
  /\ main = "join" /\ i \in waves[at] /\ thread[i] = "returned"
  /\ supervisors' = Append(supervisors, i)
  /\ thread' = [thread EXCEPT ![i] = "joined"]
  /\ UNCHANGED <<sortVars, main, at, launched, jobVars, timerVars, flagVars>>

\* Mutant: the threads of the wave are not joined.
WaveNotJoined ==
  /\ main = "join"
  /\ main' = "spawn" /\ at' = at + 1
  /\ UNCHANGED <<sortVars, thread, launched, supervisors, jobVars, timerVars, flagVars>>

WaveComplete ==
  /\ main = "join" /\ \A i \in waves[at] : thread[i] \in {"joined", "lost"}
  /\ main' = "spawn" /\ at' = at + 1
  /\ UNCHANGED <<sortVars, thread, launched, supervisors, jobVars, timerVars, flagVars>>

WavesLaunched ==
  /\ main = "spawn" /\ at \notin DOMAIN waves
  /\ main' = "serve"
  /\ UNCHANGED <<sortVars, bootVars, supervisors, jobVars, timerVars, flagVars>>
-----------------------------------------------------------------------------
(* The rest of run(): control socket, timers, launchers.                   *)

StartTimers ==
  /\ main = "serve"
  /\ main' = "launch"
  /\ UNCHANGED <<sortVars, bootVars, supervisors, jobVars, timerVars, flagVars>>

\* A launcher has a supervisor of its own that the manager never hears of.
Launch(l) ==
  /\ main = "launch" /\ l \in Launchers \ launched
  /\ launched' = launched \cup {l}
  /\ UNCHANGED <<sortVars, main, at, thread, supervisors, jobVars, timerVars, flagVars>>

LaunchDone ==
  /\ main = "launch" /\ launched = Launchers
  /\ main' = "ready"
  /\ UNCHANGED <<sortVars, bootVars, supervisors, jobVars, timerVars, flagVars>>
-----------------------------------------------------------------------------
(* Signals and wait_for_shutdown_signal                                    *)

\* A signal is handled on the main thread; it ends a pause().
Wakes == main' = IF main = "pause" THEN "check" ELSE main

Signal(kind) ==
  /\ main # "off" /\ signals < MaxSignals
  /\ signals' = signals + 1
  /\ shutdown' = (shutdown \/ kind = "shutdown")
  /\ reboot' = (reboot \/ kind = "reboot")
  /\ Wakes
  /\ UNCHANGED <<sortVars, bootVars, supervisors, jobVars, timerVars>>

Pause ==
  /\ main = "ready"
  /\ main' = "pause"
  /\ UNCHANGED <<sortVars, bootVars, supervisors, jobVars, timerVars, flagVars>>

CheckSpurious ==
  /\ main = "check" /\ ~reboot /\ ~shutdown
  /\ main' = "ready"
  /\ UNCHANGED <<sortVars, bootVars, supervisors, jobVars, timerVars, flagVars>>

\* Mutant: only the shutdown flag is looked at.
CheckShutdownOnly ==
  /\ main = "check" /\ shutdown
  /\ main' = "lock"
  /\ UNCHANGED <<sortVars, bootVars, supervisors, jobVars, timerVars, flagVars>>

CheckRequested ==
  /\ main = "check" /\ (reboot \/ shutdown)
  /\ main' = "lock"
  /\ UNCHANGED <<sortVars, bootVars, supervisors, jobVars, timerVars, flagVars>>

StopAllLock ==
  /\ main = "lock" /\ mutex = "none"
  /\ mutex' = "main" /\ main' = "stop_all" /\ at' = Len(supervisors)
  /\ UNCHANGED <<sortVars, thread, launched, supervisors, job, jobs, timerVars, flagVars>>

\* supervisors.iter().rev(), one stop() after the other.
StopAllStep ==
  /\ main = "stop_all" /\ at > 0
  /\ at' = at - 1
  /\ UNCHANGED <<sortVars, main, thread, launched, supervisors, jobVars, timerVars, flagVars>>

StopAllDone ==
  /\ main = "stop_all" /\ at = 0
  /\ mutex' = "none" /\ main' = "execute"
  /\ UNCHANGED <<sortVars, bootVars, supervisors, job, jobs, timerVars, flagVars>>

Execute ==
  /\ main = "execute"
  /\ main' = "off"
  /\ UNCHANGED <<sortVars, bootVars, supervisors, jobVars, timerVars, flagVars>>
-----------------------------------------------------------------------------
(* Control socket.  A client thread does its whole command under the mutex. *)

Serving == main \notin {"bootstrap", "sort", "spawn", "join", "off"}

CtlLock(op, s) ==
  /\ Serving /\ mutex = "none" /\ jobs < MaxJobs
  /\ mutex' = "ctl" /\ job' = [op |-> op, svc |-> s] /\ jobs' = jobs + 1
  /\ UNCHANGED <<sortVars, main, bootVars, supervisors, timerVars, flagVars>>

\* Shutdown only stores the flag; it takes no lock and sends no signal.
CtlShutdown(kind) ==
  /\ Serving /\ jobs < MaxJobs
  /\ jobs' = jobs + 1
  /\ shutdown' = (shutdown \/ kind = "shutdown")
  /\ reboot' = (reboot \/ kind = "reboot")
  /\ UNCHANGED <<sortVars, main, bootVars, supervisors, mutex, job, timerVars, signals>>

\* The end of a command or of an activation: the guard is dropped.
Release ==
  /\ mutex' = "none" /\ job' = NoJob
  /\ disp' = IF mutex = "timer" THEN Idle ELSE disp

Busy(op) == main # "off" /\ mutex \in {"ctl", "timer"} /\ job.op = op

\* start_named_service of a listed service: already running, or started again in place.
StartListed ==
  /\ Busy("start") /\ job.svc \in Listed
  /\ Release
  /\ UNCHANGED <<sortVars, main, bootVars, supervisors, jobs, firing, chan, fires, late, flagVars>>

\* A new supervisor is listed after its start() has succeeded.
StartNew ==
  /\ Busy("start") /\ job.svc \notin Listed
  /\ supervisors' = Append(supervisors, job.svc)
  /\ Release
  /\ UNCHANGED <<sortVars, main, bootVars, jobs, firing, chan, fires, late, flagVars>>

StartNewFails ==
  /\ Busy("start") /\ job.svc \notin Listed
  /\ Release
  /\ UNCHANGED <<sortVars, main, bootVars, supervisors, jobs, firing, chan, fires, late, flagVars>>

\* stop_named_service: stop() of a listed service, an error otherwise.
Stop ==
  /\ Busy("stop")
  /\ Release
  /\ UNCHANGED <<sortVars, main, bootVars, supervisors, jobs, firing, chan, fires, late, flagVars>>

\* Restart: stop_named_service, its result ignored, then start_named_service.
RestartStop ==
  /\ Busy("restart")
  /\ job' = [job EXCEPT !.op = "start"]
  /\ UNCHANGED <<sortVars, main, bootVars, supervisors, mutex, jobs, timerVars, flagVars>>
-----------------------------------------------------------------------------
(* Timers                                                                  *)

TimersRun == Serving /\ main # "serve"

\* fire_timer looks at the flag ...
TimerCheck(u) ==
  /\ TimersRun /\ firing = 0 /\ fires < MaxFires
  /\ ~shutdown
  /\ firing' = u /\ fires' = fires + 1
  /\ UNCHANGED <<sortVars, main, bootVars, supervisors, jobVars, chan, disp, late, flagVars>>

\* ... and sends, in vain if the dispatcher has dropped the receiver.
TimerSend ==
  /\ TimersRun /\ firing # 0
  /\ chan' = IF disp.pc = "ended" THEN chan ELSE Append(chan, firing)
  /\ firing' = 0
  /\ UNCHANGED <<sortVars, main, bootVars, supervisors, jobVars, disp, fires, late, flagVars>>

DispExit ==
  /\ main # "off" /\ disp.pc = "recv" /\ chan # <<>> /\ shutdown
  /\ disp' = [pc |-> "ended", unit |-> 0] /\ chan' = Tail(chan)
  /\ UNCHANGED <<sortVars, main, bootVars, supervisors, jobVars, firing, fires, late, flagVars>>

\* Mutant: the dispatcher does not look at the flag.
DispRecvUnchecked ==
  /\ main # "off" /\ disp.pc = "recv" /\ chan # <<>>
  /\ disp' = [pc |-> "lock", unit |-> Head(chan)] /\ chan' = Tail(chan)
  /\ UNCHANGED <<sortVars, main, bootVars, supervisors, jobVars, firing, fires, late, flagVars>>

DispRecv ==
  /\ main # "off" /\ disp.pc = "recv" /\ chan # <<>> /\ ~shutdown
  /\ disp' = [pc |-> "lock", unit |-> Head(chan)] /\ chan' = Tail(chan)
  /\ UNCHANGED <<sortVars, main, bootVars, supervisors, jobVars, firing, fires, late, flagVars>>

DispLock ==
  /\ main # "off" /\ disp.pc = "lock" /\ mutex = "none"
  /\ mutex' = "timer" /\ job' = [op |-> "start", svc |-> disp.unit]
  /\ disp' = [disp EXCEPT !.pc = "start"]
  /\ late' = IF shutdown THEN late + 1 ELSE late
  /\ UNCHANGED <<sortVars, main, bootVars, supervisors, jobs, firing, chan, fires, flagVars>>
-----------------------------------------------------------------------------
SignalKinds == {"shutdown", "reboot", "other"}
Ops == {"start", "stop", "restart"}

Boot == \/ BootstrapStart \/ BootstrapDone \/ Sort \/ Sorted \/ SortFailed
        \/ WaveComplete \/ WavesLaunched \/ StartTimers \/ LaunchDone
        \/ \E i \in Node : Join(i)
        \/ \E l \in Launchers : Launch(l)
        \/ \E failed \in SUBSET Node : SpawnWave(failed)

StartThreads == \E i \in Node : StartReturns(i) \/ StartPanics(i)

MainLoop == \/ Pause \/ CheckSpurious \/ CheckRequested
            \/ StopAllLock \/ StopAllStep \/ StopAllDone \/ Execute

Holder == \/ StartListed \/ StartNew \/ StartNewFails \/ Stop \/ RestartStop

Dispatcher == DispExit \/ DispRecv \/ DispLock

Environment ==
  \/ \E k \in SignalKinds : Signal(k)
  \/ \E op \in Ops, s \in Name : CtlLock(op, s)
  \/ \E k \in {"shutdown", "reboot"} : CtlShutdown(k)
  \/ \E u \in Units : TimerCheck(u)

Next == Boot \/ StartThreads \/ MainLoop \/ Holder \/ Dispatcher \/ TimerSend \/ Environment

Spec == Init /\ [][Next]_vars

\* start() waits for a oneshot's exit and for the commands of ExecStartPre and
\* ExecStartPost, stop() for those of ExecStopPost, all without a limit.  The main thread
\* is in such a call in start_all, among the launchers or in stop_all ...
MainInEndless ==
  \/ main = "bootstrap" /\ at \in DOMAIN Bootstrap /\ Bootstrap[at] \in Endless
  \/ main = "launch" /\ (Launchers \ launched) \cap Endless # {}
  \/ main = "stop_all" /\ at > 0 /\ supervisors[at] \in Endless

\* ... and a client's thread or the dispatcher with the mutex held.
HolderInEndless == mutex \in {"ctl", "timer"} /\ job.svc \in Endless

\* The main thread, the start threads and whoever holds the mutex run on, except inside a
\* call that need not return.  Nobody has to send a signal or a command, and no timer has
\* to fire.
Fairness ==
  /\ WF_vars(~MainInEndless /\ (Boot \/ MainLoop))
  /\ \A i \in Node \ Endless : WF_vars(StartReturns(i) \/ StartPanics(i))
  /\ WF_vars(~HolderInEndless /\ Holder) /\ WF_vars(Dispatcher)

FairSpec == Spec /\ Fairness
-----------------------------------------------------------------------------
Started(i) == thread[i] \in {"returned", "joined", "lost"}

TypeOK ==
  /\ main \in {"bootstrap", "sort", "spawn", "join", "serve", "launch", "ready", "pause",
               "check", "lock", "stop_all", "execute", "off"}
  /\ at \in Nat
  /\ thread \in [Node -> {"none", "starting", "returned", "joined", "lost"}]
  /\ supervisors \in Seq(Name) /\ launched \subseteq Launchers
  /\ mutex \in {"none", "ctl", "timer", "main"}
  /\ job \in [op : Ops \cup {"none"}, svc : Name \cup {0}]
  /\ firing \in Units \cup {0} /\ chan \in Seq(Units)
  /\ disp \in [pc : {"recv", "lock", "start", "ended"}, unit : Units \cup {0}]
  /\ shutdown \in BOOLEAN /\ reboot \in BOOLEAN
  /\ jobs \in 0 .. MaxJobs /\ fires \in 0 .. MaxFires /\ signals \in 0 .. MaxSignals
  /\ late \in Nat
  /\ degrees \in [Node -> Nat] /\ left \in Nat /\ visited \in Nat

\* When boot calls a service's start(), the start() of everything the service is ordered
\* after has returned (or its thread is lost): waves are joined before the next begins.
BootOrder ==
  \A e \in Edges : thread[e.svc] # "none" => Started(e.dep)

\* The list has at most one supervisor per name, although boot, clients and timers all
\* append to it: find() by name reaches every supervisor, and stop_all stops each once.
OneSupervisorPerName ==
  \A i, j \in DOMAIN supervisors : supervisors[i] = supervisors[j] => i = j

\* Services that boot has joined are listed in dependency order whatever is started on
\* demand later, so that stop_all, going backwards, stops a dependent before its dependency.
BootedInOrder ==
  \A e \in Edges : \A i, j \in DOMAIN supervisors :
    /\ thread[e.svc] = "joined" /\ thread[e.dep] = "joined"
    /\ supervisors[i] = e.dep /\ supervisors[j] = e.svc
    => i < j

\* Once SHUTDOWN_REQUESTED is set, the dispatcher activates at most the one unit whose
\* look at the flag was already behind it.
OneLateActivation == late <= 1

\* A request that the main thread sees after pause() ends in the reboot system call,
\* whatever clients and timers do with the mutex; only a command of a service that never
\* ends, awaited under the mutex or by stop_all itself, can keep it from that.
SeenRequestEnds ==
  (main = "check" /\ (reboot \/ shutdown))
    ~> (main = "off" \/ HolderInEndless \/ MainInEndless)

\* shutdown.rs:23: "Block until a shutdown or reboot signal is received, then execute it."
SignalIsExecuted == (reboot \/ shutdown) ~> (main = "off")
=============================================================================
