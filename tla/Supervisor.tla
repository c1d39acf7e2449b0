----------------------------- MODULE Supervisor -----------------------------
(***************************************************************************)
(* One ServiceSupervisor of PID 1 (quantra/src/services/supervisor.rs) with *)
(* every thread that touches its three shared cells `pid', `running' and    *)
(* `stop_requested':                                                        *)
(*   - the control thread, which runs start(), stop() and kill while it     *)
(*     holds the manager mutex (so there is only one of it at a time);      *)
(*   - the restart monitor, watchdog and health-check threads that every    *)
(*     start() leaves behind, one bundle per element of Slot;               *)
(*   - the SIGCHLD reaper of signals.rs, which owns waitpid and EXIT_CODES; *)
(*   - the kernel's process table and the service's processes.              *)
(* Every store to a shared cell is a step of its own; the loads a thread    *)
(* makes in a row are taken at one instant.  Time is abstracted: a poll     *)
(* that may time out has an action for the timeout.                         *)
(* An operator that stands just before another one with the same parameters *)
(* and has no comment is a variant with a plausible bug, used only to show  *)
(* that the properties notice it.                                           *)
(***************************************************************************)
EXTENDS Naturals, FiniteSets

CONSTANTS
  Pid,              \* process ids the kernel hands out
  NoPid,            \* the -1 of the pid cell
  Slot,             \* names for the bundles of background threads
  Configs,          \* service definitions a behaviour may be about
  FailureThreshold, \* healthcheck.failure_threshold
  MaxForks,         \* bound: pids handed out in a behaviour about a service
  MaxBundles        \* bound: bundles of its background threads alive at once

Policies == {"no", "on-failure", "always"}

\* The fields of `Service' the supervisor branches on.
Config == [restart: Policies, max_restarts: Nat, oneshot: BOOLEAN,
           watchdog: BOOLEAN, healthcheck: BOOLEAN,
           chain_to: {"none", "clean", "always"},
           stop_command: BOOLEAN, cgroup: BOOLEAN,
           bgprocess: BOOLEAN, \* notify_type = "bg-process" with a pid_file
           hooks: BOOLEAN,     \* ExecStartPre, ExecStartPost and ExecStopPost
           resolves: BOOLEAN]  \* command and hardening still resolve on restart

ASSUME SupervisorAssumption ==
  /\ NoPid \notin Pid
  /\ Configs \subseteq Config
  /\ FailureThreshold \in Nat \ {0}
  /\ MaxForks \in [Configs -> Nat] /\ MaxBundles \in [Configs -> Nat]

VARIABLES
  svc,             \* self.service, fixed for a behaviour
  daemon,          \* what a bg-process service left: its pid file, its daemons
  pid, running, stop_requested,   \* the three Arc'd cells
  proc,            \* kernel: state of every pid
  status,          \* kernel: exit status of the last process with that pid
  used,            \* kernel: pids handed out so far
  reused,          \* kernel: pids handed out more than once
  forks,           \* kernel: how often a pid was handed out
  cgroup,          \* kernel: members of the service's cgroup
  sigchld,         \* is there a byte in the SIGCHLD pipe?
  exit_codes,      \* signals::EXIT_CODES
  reaper,          \* the reaper thread's locals
  ctl,             \* the control thread's locals
  mon, watch, health, \* locals of the background threads
  chain_queue      \* is CHAIN_QUEUE non-empty?

cells  == <<pid, running, stop_requested>>
kernel == <<proc, status, used, reused, forks, cgroup, sigchld>>
reap   == <<exit_codes, reaper>>
bg     == <<mon, watch, health, chain_queue>>
vars   == <<svc, daemon, cells, kernel, reap, ctl, bg>>

ExitCode == {"ok", "fail"}          \* exit status 0, any other status or signal
Code     == ExitCode \cup {"none"}

ProcState == {"free", "alive", "doomed", "zombie", "foreign"}

StopStages == {"stop_load", "stop_watchdog", "stop_command", "stop_term",
               "stop_wait", "stop_kill", "stop_killwait", "stop_final",
               "stop_post"}
StartStages == {"start_pre", "start_fork", "start_assign", "start_store",
                "start_running", "start_pidfile", "start_oneshot", "start_threads",
                "start_post"}
MonStages == {"off", "init", "wait", "grace", "exited", "check", "sleep",
              "store_pid", "store_running"}

CtlIdle == [pc |-> "idle", target |-> NoPid, then |-> "done"]
\* restart_monitor's locals; `late' is a history variable.
MonLocals == [pc: MonStages, cur: Pid \cup {NoPid}, code: Code,
              restarts: 0..svc.max_restarts, late: Nat]
MonOff == [pc |-> "off", cur |-> NoPid, code |-> "none",
           restarts |-> 0, late |-> 0]
HealthOff == [pc |-> "off", fails |-> 0]

\* The types of the supervisor's cells, the kernel tables and the threads' locals;
\* restart_times never holds more than max_restarts timestamps, and a health check
\* never goes on past failure_threshold - 1 failures.
TypeOK ==
  /\ svc \in Configs
  /\ daemon \in [file: Pid \cup {NoPid}, pids: SUBSET Pid]
  /\ pid \in Pid \cup {NoPid}
  /\ running \in BOOLEAN
  /\ stop_requested \in BOOLEAN
  /\ proc \in [Pid -> ProcState]
  /\ status \in [Pid -> Code]
  /\ used \in SUBSET Pid
  /\ reused \in SUBSET Pid
  /\ forks \in Nat
  /\ cgroup \in SUBSET Pid
  /\ sigchld \in BOOLEAN
  /\ exit_codes \in [Pid -> Code]
  /\ reaper \in [pc: {"read", "drain", "insert"},
                 pid: Pid \cup {NoPid}, code: Code]
  /\ ctl \in [pc: {"idle"} \cup StartStages \cup StopStages,
              target: Pid \cup {NoPid}, then: {"done", "start"}]
  /\ mon \in [Slot -> MonLocals]
  /\ watch \in [Slot -> {"off", "run", "mark"}]
  /\ health \in [Slot -> [pc: {"off", "run", "checking"},
                          fails: 0..(FailureThreshold - 1)]]
  /\ chain_queue \in BOOLEAN

\* ServiceSupervisor::new, before any process or thread exists.
Init ==
  /\ svc \in Configs
  /\ daemon = [file |-> NoPid, pids |-> {}]
  /\ pid = NoPid
  /\ running = FALSE
  /\ stop_requested = FALSE
  /\ proc = [p \in Pid |-> "free"]
  /\ status = [p \in Pid |-> "none"]
  /\ used = {}
  /\ reused = {}
  /\ forks = 0
  /\ cgroup = {}
  /\ sigchld = FALSE
  /\ exit_codes = [p \in Pid |-> "none"]
  /\ reaper = [pc |-> "read", pid |-> NoPid, code |-> "none"]
  /\ ctl = CtlIdle
  /\ mon = [s \in Slot |-> MonOff]
  /\ watch = [s \in Slot |-> "off"]
  /\ health = [s \in Slot |-> HealthOff]
  /\ chain_queue = FALSE

-----------------------------------------------------------------------------
(* The kernel and the service's processes. *)

Live(p) == proc[p] \in {"alive", "doomed"}

\* /proc/<pid> exists: zombies count, reaped processes do not.
proc_exists(p) == proc[p] # "free"

\* fork() hands out a free pid, after a wrap-around one that was in use before.
HandOut(p) ==
  /\ proc[p] = "free" /\ forks < MaxForks[svc]
  /\ forks' = forks + 1
  /\ used' = used \cup {p}
  /\ reused' = IF p \in used THEN reused \cup {p} ELSE reused

Fork(p) ==
  /\ HandOut(p)
  /\ proc' = [proc EXCEPT ![p] = "alive"]
  /\ status' = [status EXCEPT ![p] = "none"]

\* SIGKILL: the process is still there until the kernel has torn it down.
Killed(S) == [p \in Pid |-> IF p \in S /\ proc[p] = "alive" THEN "doomed"
                                                           ELSE proc[p]]

\* A service process exits, by itself or from a signal, and raises SIGCHLD.
\* handle_chld writes one byte; the pipe never drops the wake-up, since a full
\* pipe is already readable.
ProcExit(p) ==
  /\ Live(p)
  /\ proc' = [proc EXCEPT ![p] = "zombie"]
  /\ \E c \in ExitCode :
       /\ proc[p] = "doomed" => c = "fail"
       /\ status' = [status EXCEPT ![p] = c]
  /\ cgroup' = cgroup \ {p}
  /\ sigchld' = TRUE
  /\ UNCHANGED <<svc, daemon, cells, used, reused, forks, reap, ctl, bg>>

\* A bg-process service forks its daemon and writes the pid file; the launcher p is
\* then free to exit.
Daemonize(p) ==
  /\ svc.bgprocess
  /\ proc[p] = "alive" /\ p \notin daemon.pids
  /\ \E d \in Pid :
       /\ Fork(d)
       /\ daemon' = [file |-> d, pids |-> daemon.pids \cup {d}]
       /\ cgroup' = IF p \in cgroup THEN cgroup \cup {d} ELSE cgroup
  /\ UNCHANGED <<svc, cells, sigchld, reap, ctl, bg>>

\* Another service's process takes and gives back a pid.  If it is a child of PID 1,
\* the reaper stores its code as well.
ForeignFork(p) ==
  /\ HandOut(p)
  /\ proc' = [proc EXCEPT ![p] = "foreign"]
  /\ status' = [status EXCEPT ![p] = "none"]
  /\ UNCHANGED <<svc, daemon, cells, cgroup, sigchld, reap, ctl, bg>>

ForeignExit(p) ==
  /\ proc[p] = "foreign"
  /\ proc' = [proc EXCEPT ![p] = "free"]
  /\ \E c \in Code :
       /\ status' = [status EXCEPT ![p] = c]
       /\ exit_codes' = IF c = "none" THEN exit_codes
                                      ELSE [exit_codes EXCEPT ![p] = c]
  /\ UNCHANGED <<svc, daemon, cells, used, reused, forks, cgroup, sigchld, reaper, ctl, bg>>

-----------------------------------------------------------------------------
(* The sigchld-reaper thread, run_reaper. *)

\* read() on the pipe takes every pending byte at once.
ReaperRead ==
  /\ reaper.pc = "read"
  /\ sigchld
  /\ sigchld' = FALSE
  /\ reaper' = [reaper EXCEPT !.pc = "drain"]
  /\ UNCHANGED <<svc, daemon, cells, proc, status, used, reused, forks, cgroup, exit_codes, ctl,
                 bg>>

\* waitpid(-1, WNOHANG): the pid is free from here on, before its code is stored.
ReaperWait(p) ==
  /\ reaper.pc = "drain"
  /\ proc[p] = "zombie"
  /\ proc' = [proc EXCEPT ![p] = "free"]
  /\ reaper' = [pc |-> "insert", pid |-> p, code |-> status[p]]
  /\ UNCHANGED <<svc, daemon, cells, status, used, reused, forks, cgroup, sigchld, exit_codes, ctl,
                 bg>>

ReaperInsertOne ==
  /\ reaper.pc = "insert"
  /\ exit_codes' = [exit_codes EXCEPT ![reaper.pid] = reaper.code]
  /\ reaper' = [reaper EXCEPT !.pc = "read"]
  /\ UNCHANGED <<svc, daemon, cells, kernel, ctl, bg>>
ReaperInsert ==
  /\ reaper.pc = "insert"
  /\ exit_codes' = [exit_codes EXCEPT ![reaper.pid] = reaper.code]
  /\ reaper' = [reaper EXCEPT !.pc = "drain"]
  /\ UNCHANGED <<svc, daemon, cells, kernel, ctl, bg>>

\* No zombie is left: back to the blocking read.
ReaperDone ==
  /\ reaper.pc = "drain"
  /\ \A p \in Pid : proc[p] # "zombie"
  /\ reaper' = [reaper EXCEPT !.pc = "read"]
  /\ UNCHANGED <<svc, daemon, cells, kernel, exit_codes, ctl, bg>>

Reaper == ReaperRead \/ (\E p \in Pid : ReaperWait(p)) \/ ReaperInsert \/ ReaperDone

-----------------------------------------------------------------------------
(* start(), called by start_named_service with the manager mutex held. *)

BundleEnded(s) == mon[s].pc = "off" /\ watch[s] = "off" /\ health[s].pc = "off"

SlotFree(s) ==
  BundleEnded(s) /\ Cardinality({t \in Slot : ~BundleEnded(t)}) < MaxBundles[svc]

\* The first two stores of start().
StartReset ==
  /\ stop_requested' = FALSE
  /\ running' = FALSE

\* start_named_service skips a service whose running flag is set.
StartCall ==
  /\ ctl.pc = "idle"
  /\ ~running
  /\ \E s \in Slot : SlotFree(s)
  /\ StartReset
  /\ ctl' = [ctl EXCEPT !.pc = "start_pre", !.then = "done"]
  /\ UNCHANGED <<svc, daemon, pid, kernel, reap, bg>>

\* A condition is not met, a pre-start hook fails, the configuration does not
\* resolve or fork fails: start() returns before any process exists.
StartAbort ==
  /\ ctl.pc \in {"start_pre", "start_fork"}
  /\ ctl' = CtlIdle
  /\ UNCHANGED <<svc, daemon, cells, kernel, reap, bg>>

\* The conditions hold and every ExecStartPre command has ended with 0.
StartPre ==
  /\ ctl.pc = "start_pre"
  /\ ctl' = [ctl EXCEPT !.pc = "start_fork"]
  /\ UNCHANGED <<svc, daemon, cells, kernel, reap, bg>>

StartFork ==
  /\ ctl.pc = "start_fork"
  /\ \E p \in Pid :
       /\ Fork(p)
       /\ ctl' = [ctl EXCEPT !.pc = "start_assign", !.target = p]
  /\ UNCHANGED <<svc, daemon, cells, cgroup, sigchld, reap, bg>>

\* The parent moves the new process into its slice, if it is still there.
StartAssign ==
  /\ ctl.pc = "start_assign"
  /\ cgroup' = IF svc.cgroup /\ Live(ctl.target) THEN cgroup \cup {ctl.target}
                                                 ELSE cgroup
  /\ ctl' = [ctl EXCEPT !.pc = "start_store"]
  /\ UNCHANGED <<svc, daemon, cells, proc, status, used, reused, forks, sigchld, reap, bg>>

\* The pid is published only after the wait for ready_socket.
StartStorePid ==
  /\ ctl.pc = "start_store"
  /\ pid' = ctl.target
  /\ ctl' = [ctl EXCEPT !.pc = "start_running"]
  /\ UNCHANGED <<svc, daemon, running, stop_requested, kernel, reap, bg>>

\* Where start() goes on once the service counts as running.
StartRest == IF svc.oneshot THEN "start_oneshot" ELSE "start_threads"

StartStoreRunning ==
  /\ ctl.pc = "start_running"
  /\ running' = TRUE
  /\ ctl' = [ctl EXCEPT !.pc = IF svc.bgprocess THEN "start_pidfile" ELSE StartRest]
  /\ UNCHANGED <<svc, daemon, pid, stop_requested, kernel, reap, bg>>

\* wait_for_pid_file accepts any existing process the file names, one of an earlier
\* start or of another service included.
StartPidFile ==
  /\ ctl.pc = "start_pidfile"
  /\ daemon.file # NoPid
  /\ proc_exists(daemon.file)
  /\ pid' = daemon.file
  /\ cgroup' = IF svc.cgroup /\ Live(daemon.file) THEN cgroup \cup {daemon.file}
                                                 ELSE cgroup
  /\ ctl' = [ctl EXCEPT !.pc = StartRest]
  /\ UNCHANGED <<svc, daemon, running, stop_requested, proc, status, used, reused, forks, sigchld,
                 reap, bg>>

\* It timed out: the launcher stays the tracked process.
StartPidFileTimeout ==
  /\ ctl.pc = "start_pidfile"
  /\ ctl' = [ctl EXCEPT !.pc = StartRest]
  /\ UNCHANGED <<svc, daemon, cells, kernel, reap, bg>>

\* A one-shot service is waited for inside start(), without a timeout.
StartOneshotDone ==
  /\ ctl.pc = "start_oneshot"
  /\ exit_codes[ctl.target] # "none" \/ ~proc_exists(ctl.target)
  /\ running' = FALSE
  /\ ctl' = CtlIdle
  /\ UNCHANGED <<svc, daemon, pid, stop_requested, kernel, reap, bg>>

\* The threads start() leaves behind, after the sd_notify wait.
StartThreads ==
  /\ ctl.pc = "start_threads"
  /\ \E s \in Slot :
       /\ SlotFree(s)
       /\ mon' = IF svc.restart = "no" THEN mon
                 ELSE [mon EXCEPT ![s] = [MonOff EXCEPT !.pc = "init"]]
       /\ watch' = IF svc.watchdog THEN [watch EXCEPT ![s] = "run"] ELSE watch
       /\ health' = IF svc.healthcheck
                    THEN [health EXCEPT ![s] = [pc |-> "run", fails |-> 0]]
                    ELSE health
  /\ ctl' = [ctl EXCEPT !.pc = "start_post"]
  /\ UNCHANGED <<svc, daemon, cells, kernel, reap, chain_queue>>

\* The ExecStartPost commands have ended, however they did, and start() returns.
StartPost ==
  /\ ctl.pc = "start_post"
  /\ ctl' = CtlIdle
  /\ UNCHANGED <<svc, daemon, cells, kernel, reap, bg>>

\* The monitor thread cannot be created: start() fails with the process running.
StartNoMonitor ==
  /\ ctl.pc = "start_threads"
  /\ svc.restart # "no"
  /\ ctl' = CtlIdle
  /\ UNCHANGED <<svc, daemon, cells, kernel, reap, bg>>

-----------------------------------------------------------------------------
(* stop(), called with the manager mutex held; Restart is stop() then start(). *)

StopCall(then) ==
  /\ ctl.pc = "idle"
  /\ then = "start" => \E s \in Slot : SlotFree(s)
  /\ stop_requested' = TRUE
  /\ mon' = [s \in Slot |-> [mon[s] EXCEPT !.late = 0]]
  /\ ctl' = [pc |-> "stop_load", target |-> NoPid, then |-> then]
  /\ UNCHANGED <<svc, daemon, pid, running, kernel, reap, watch, health,
                 chain_queue>>

\* The stage that follows `stage' for this service.
StopNext(stage) ==
  IF stage = "stop_load" /\ svc.watchdog THEN "stop_watchdog"
  ELSE IF stage # "stop_command" /\ svc.stop_command THEN "stop_command"
  ELSE "stop_term"

StopLoad ==
  /\ ctl.pc = "stop_load"
  /\ ctl' = [ctl EXCEPT !.target = pid,
                        !.pc = IF pid = NoPid THEN "stop_post"
                                              ELSE StopNext("stop_load")]
  /\ UNCHANGED <<svc, daemon, cells, kernel, reap, bg>>

\* A polling stage finds the process gone.
StopSeesExit ==
  /\ ctl.pc \in {"stop_watchdog", "stop_command", "stop_wait"}
  /\ ~proc_exists(ctl.target)
  /\ running' = FALSE
  /\ ctl' = [ctl EXCEPT !.pc = "stop_post"]
  /\ UNCHANGED <<svc, daemon, pid, stop_requested, kernel, reap, bg>>

\* STOP_WATCHDOG or ExecStop runs out of time (or ExecStop fails).
StopStageTimeout ==
  /\ ctl.pc \in {"stop_watchdog", "stop_command"}
  /\ ctl' = [ctl EXCEPT !.pc = StopNext(ctl.pc)]
  /\ UNCHANGED <<svc, daemon, cells, kernel, reap, bg>>

\* kill(SIGTERM) fails with ESRCH exactly when the pid is free.
StopTerm ==
  /\ ctl.pc = "stop_term"
  /\ running' = (running /\ proc_exists(ctl.target))
  /\ ctl' = [ctl EXCEPT !.pc = IF proc_exists(ctl.target) THEN "stop_wait"
                                                          ELSE "stop_post"]
  /\ UNCHANGED <<svc, daemon, pid, stop_requested, kernel, reap, bg>>

StopWaitForever ==
  /\ ctl.pc = "stop_wait"
  /\ ~proc_exists(ctl.target)
  /\ ctl' = [ctl EXCEPT !.pc = "stop_kill"]
  /\ UNCHANGED <<svc, daemon, cells, kernel, reap, bg>>
StopWaitTimeout ==
  /\ ctl.pc = "stop_wait"
  /\ ctl' = [ctl EXCEPT !.pc = "stop_kill"]
  /\ UNCHANGED <<svc, daemon, cells, kernel, reap, bg>>

\* cgroup.kill and SIGKILL to the leader.
StopKillCgroupOnly ==
  /\ ctl.pc = "stop_kill"
  /\ proc' = Killed(cgroup)
  /\ ctl' = [ctl EXCEPT !.pc = "stop_killwait"]
  /\ UNCHANGED <<svc, daemon, cells, status, used, reused, forks, cgroup, sigchld, reap, bg>>
StopKill ==
  /\ ctl.pc = "stop_kill"
  /\ proc' = Killed(cgroup \cup {ctl.target})
  /\ ctl' = [ctl EXCEPT !.pc = "stop_killwait"]
  /\ UNCHANGED <<svc, daemon, cells, status, used, reused, forks, cgroup, sigchld, reap, bg>>

\* At most twelve polls, whether or not the process is gone by then.
StopKillWait ==
  /\ ctl.pc = "stop_killwait"
  /\ ctl' = [ctl EXCEPT !.pc = "stop_final"]
  /\ UNCHANGED <<svc, daemon, cells, kernel, reap, bg>>

\* FINAL_SIGTERM and FINAL_SIGKILL to what is left in the cgroup.
StopFinal ==
  /\ ctl.pc = "stop_final"
  /\ proc' = Killed(cgroup)
  /\ running' = FALSE
  /\ ctl' = [ctl EXCEPT !.pc = "stop_post"]
  /\ UNCHANGED <<svc, daemon, pid, stop_requested, status, used, reused, forks, cgroup, sigchld,
                 reap, bg>>

\* The ExecStopPost commands have ended, and stop() returns; Restart goes on to start_named_service, which
\* leaves a service alone that is running (again).
StopPost ==
  /\ ctl.pc = "stop_post"
  /\ ctl.then = "start" => running
  /\ ctl' = CtlIdle
  /\ UNCHANGED <<svc, daemon, cells, kernel, reap, bg>>

\* They have ended, and Restart goes on to start().
StopThenStart ==
  /\ ctl.pc = "stop_post"
  /\ ctl.then = "start" /\ ~running
  /\ StartReset
  /\ ctl' = [ctl EXCEPT !.pc = "start_pre", !.then = "done"]
  /\ UNCHANGED <<svc, daemon, pid, kernel, reap, bg>>

\* ControlCommand::Kill: SIGKILL without a stop request.
KillCall ==
  /\ ctl.pc = "idle"
  /\ pid # NoPid
  /\ proc' = Killed(cgroup \cup {pid})
  /\ UNCHANGED <<svc, daemon, cells, status, used, reused, forks, cgroup, sigchld, reap, ctl, bg>>

-----------------------------------------------------------------------------
(* The restart_monitor thread of slot s. *)

\* The thread reads the pid cell when it first runs, not when it is created.
MonInit(s) ==
  /\ mon[s].pc = "init"
  /\ mon' = [mon EXCEPT ![s] = [@ EXCEPT !.pc = "wait", !.cur = pid]]
  /\ UNCHANGED <<svc, daemon, cells, kernel, reap, ctl, watch, health, chain_queue>>

\* wait_for_exit finds the code the reaper stored ...
MonSeesCode(s) ==
  /\ mon[s].pc = "wait"
  /\ exit_codes[mon[s].cur] # "none"
  /\ mon' = [mon EXCEPT ![s] = [@ EXCEPT !.pc = "exited",
                                         !.code = exit_codes[mon[s].cur]]]
  /\ UNCHANGED <<svc, daemon, cells, kernel, reap, ctl, watch, health, chain_queue>>

\* ... or finds the process gone first, and gives the reaper 50 ms ...
MonStopsPolling(s) ==
  /\ mon[s].pc = "wait"
  /\ exit_codes[mon[s].cur] = "none"
  /\ mon' = [mon EXCEPT ![s] = [@ EXCEPT !.pc = "grace"]]
  /\ UNCHANGED <<svc, daemon, cells, kernel, reap, ctl, watch, health, chain_queue>>
MonSeesGone(s) ==
  /\ mon[s].pc = "wait"
  /\ exit_codes[mon[s].cur] = "none"
  /\ ~proc_exists(mon[s].cur)
  /\ mon' = [mon EXCEPT ![s] = [@ EXCEPT !.pc = "grace"]]
  /\ UNCHANGED <<svc, daemon, cells, kernel, reap, ctl, watch, health, chain_queue>>

\* ... after which a missing code counts as 0.
GraceCode(p) == IF exit_codes[p] = "none" THEN "ok" ELSE exit_codes[p]

MonGrace(s) ==
  /\ mon[s].pc = "grace"
  /\ mon' = [mon EXCEPT ![s] = [@ EXCEPT !.pc = "exited",
                                         !.code = GraceCode(mon[s].cur)]]
  /\ UNCHANGED <<svc, daemon, cells, kernel, reap, ctl, watch, health, chain_queue>>

MonMarkDown(s) ==
  /\ mon[s].pc = "exited"
  /\ running' = FALSE
  /\ mon' = [mon EXCEPT ![s] = [@ EXCEPT !.pc = "check"]]
  /\ UNCHANGED <<svc, daemon, pid, stop_requested, kernel, reap, ctl, watch, health,
                 chain_queue>>

\* Does the policy restart a process that exited with this code?
PolicyIgnoresCode(code) == svc.restart # "no"
PolicyAsOnFailure(code) == svc.restart # "no" /\ code # "ok"
PolicyRestarts(code) ==
  \/ svc.restart = "always"
  \/ svc.restart = "on-failure" /\ code # "ok"

\* The crash-loop breaker with `left' timestamps still inside the window.
TrippedLate(left) == svc.max_restarts > 0 /\ left > svc.max_restarts
Tripped(left) == svc.max_restarts > 0 /\ left >= svc.max_restarts

\* The monitor ends: stop_requested is looked at here and nowhere else.
MonEndsUnlessStopped(code, left) == Tripped(left) \/ ~PolicyRestarts(code)
MonEnds(code, left) ==
  stop_requested \/ Tripped(left) \/ ~PolicyRestarts(code)

\* How many timestamps the window has lost is a choice here: module
\* RestartWindow has the clock.
MonEnd(s) ==
  /\ mon[s].pc = "check"
  /\ \E left \in 0..mon[s].restarts : MonEnds(mon[s].code, left)
  /\ mon' = [mon EXCEPT ![s] = MonOff]
  /\ UNCHANGED <<svc, daemon, cells, kernel, reap, ctl, watch, health, chain_queue>>

\* The length of restart_times once this restart is entered in it.
Attempts(left) == IF svc.max_restarts > 0 THEN left + 1 ELSE 0

MonAttempt(s) ==
  /\ mon[s].pc = "check"
  /\ \E left \in 0..mon[s].restarts :
       /\ ~MonEnds(mon[s].code, left)
       /\ mon' = [mon EXCEPT ![s] = [@ EXCEPT !.pc = "sleep",
                                              !.restarts = Attempts(left)]]
  /\ UNCHANGED <<svc, daemon, cells, kernel, reap, ctl, watch, health, chain_queue>>

ChainTriggers(code) ==
  \/ svc.chain_to = "always"
  \/ svc.chain_to = "clean" /\ code = "ok"

\* After restart_sec: chain_to hands over to another service.
MonChain(s) ==
  /\ mon[s].pc = "sleep"
  /\ ChainTriggers(mon[s].code)
  /\ chain_queue' = TRUE
  /\ mon' = [mon EXCEPT ![s] = MonOff]
  /\ UNCHANGED <<svc, daemon, cells, kernel, reap, ctl, watch, health>>

\* Credentials do not resolve or fork fails: back to wait_for_exit of the same pid.
MonRetry(s) ==
  /\ mon[s].pc = "sleep"
  /\ ~ChainTriggers(mon[s].code)
  /\ mon' = [mon EXCEPT ![s] = [@ EXCEPT !.pc = "wait"]]
  /\ UNCHANGED <<svc, daemon, cells, kernel, reap, ctl, watch, health, chain_queue>>

\* Command, capabilities or seccomp profile no longer resolve: the monitor ends.
MonGiveUp(s) ==
  /\ mon[s].pc = "sleep"
  /\ ~svc.resolves
  /\ ~ChainTriggers(mon[s].code)
  /\ mon' = [mon EXCEPT ![s] = MonOff]
  /\ UNCHANGED <<svc, daemon, cells, kernel, reap, ctl, watch, health, chain_queue>>

\* Forks made since the last stop() and in spite of it.
LateForks(s) == IF stop_requested THEN mon[s].late + 1 ELSE mon[s].late

\* start_service_as succeeds.
MonFork(s) ==
  /\ mon[s].pc = "sleep"
  /\ svc.resolves
  /\ ~ChainTriggers(mon[s].code)
  /\ \E p \in Pid :
       /\ Fork(p)
       /\ mon' = [mon EXCEPT ![s] =
                    [@ EXCEPT !.pc = "store_pid", !.cur = p, !.code = "none",
                              !.late = LateForks(s)]]
  /\ UNCHANGED <<svc, daemon, cells, cgroup, sigchld, reap, ctl, watch, health,
                 chain_queue>>

MonStorePid(s) ==
  /\ mon[s].pc = "store_pid"
  /\ pid' = mon[s].cur
  /\ cgroup' = IF svc.cgroup /\ Live(mon[s].cur) THEN cgroup \cup {mon[s].cur}
                                                 ELSE cgroup
  /\ mon' = [mon EXCEPT ![s] = [@ EXCEPT !.pc = "store_running"]]
  /\ UNCHANGED <<svc, daemon, running, stop_requested, proc, status, used, reused, forks, sigchld,
                 reap, ctl, watch, health, chain_queue>>

MonStoreRunning(s) ==
  /\ mon[s].pc = "store_running"
  /\ running' = TRUE
  /\ mon' = [mon EXCEPT ![s] = [@ EXCEPT !.pc = "wait"]]
  /\ UNCHANGED <<svc, daemon, pid, stop_requested, kernel, reap, ctl, watch, health,
                 chain_queue>>

Monitor(s) ==
  \/ MonInit(s) \/ MonSeesCode(s) \/ MonSeesGone(s) \/ MonGrace(s)
  \/ MonMarkDown(s) \/ MonEnd(s) \/ MonAttempt(s) \/ MonChain(s)
  \/ MonRetry(s) \/ MonGiveUp(s) \/ MonFork(s)
  \/ MonStorePid(s) \/ MonStoreRunning(s)

-----------------------------------------------------------------------------
(* The watchdog and health-check threads of slot s. *)

\* Both threads end when the service is being stopped or is marked down.
ThreadEnds == stop_requested \/ ~running \/ pid = NoPid

WatchTick(s) ==
  /\ watch[s] = "run"
  /\ ThreadEnds \/ ~proc_exists(pid)
  /\ watch' = [watch EXCEPT ![s] = IF ThreadEnds THEN "off" ELSE "mark"]
  /\ UNCHANGED <<svc, daemon, cells, kernel, reap, ctl, mon, health, chain_queue>>

WatchMark(s) ==
  /\ watch[s] = "mark"
  /\ running' = FALSE
  /\ watch' = [watch EXCEPT ![s] = "off"]
  /\ UNCHANGED <<svc, daemon, pid, stop_requested, kernel, reap, ctl, mon, health,
                 chain_queue>>

HealthTick(s) ==
  /\ health[s].pc = "run"
  /\ health' = [health EXCEPT ![s] = IF ThreadEnds \/ ~proc_exists(pid) THEN HealthOff
                                     ELSE [@ EXCEPT !.pc = "checking"]]
  /\ UNCHANGED <<svc, daemon, cells, kernel, reap, ctl, mon, watch, chain_queue>>

\* The command succeeded: consecutive_failures starts again from 0.
HealthOk(s) ==
  /\ health[s].pc = "checking"
  /\ health' = [health EXCEPT ![s] = [pc |-> "run", fails |-> 0]]
  /\ UNCHANGED <<svc, daemon, cells, kernel, reap, ctl, mon, watch, chain_queue>>

\* The command failed, timed out or did not start.
HealthFail(s) ==
  /\ health[s].pc = "checking"
  /\ LET n == health[s].fails + 1
         exceeded == n >= FailureThreshold
     IN  /\ health' = [health EXCEPT ![s] = IF exceeded THEN HealthOff
                                            ELSE [pc |-> "run", fails |-> n]]
         /\ running' = (running /\ ~exceeded)
  /\ UNCHANGED <<svc, daemon, pid, stop_requested, kernel, reap, ctl, mon, watch,
                 chain_queue>>

Background(s) ==
  \/ WatchTick(s) \/ WatchMark(s)
  \/ HealthTick(s) \/ HealthOk(s) \/ HealthFail(s)

-----------------------------------------------------------------------------
\* The steps of start() and stop() once called.
CtlStep ==
  \/ StartAbort \/ StartPre \/ StartFork \/ StartAssign \/ StartStorePid
  \/ StartStoreRunning \/ StartPidFile \/ StartPidFileTimeout \/ StartOneshotDone
  \/ StartThreads \/ StartNoMonitor \/ StartPost
  \/ StopLoad \/ StopSeesExit \/ StopStageTimeout \/ StopTerm \/ StopWaitTimeout
  \/ StopKill \/ StopKillWait \/ StopFinal \/ StopPost \/ StopThenStart

Next ==
  \/ StartCall \/ KillCall \/ \E then \in {"done", "start"} : StopCall(then)
  \/ CtlStep
  \/ Reaper
  \/ \E p \in Pid : ProcExit(p) \/ Daemonize(p) \/ ForeignFork(p) \/ ForeignExit(p)
  \/ \E s \in Slot : Monitor(s) \/ Background(s)

Spec == Init /\ [][Next]_vars

\* The control thread is inside a hook command, for which Command::status() waits
\* without a limit.
InHook == svc.hooks /\ ctl.pc \in {"start_pre", "start_post", "stop_post"}

\* Threads that are runnable run; waitpid passes over no zombie for ever; a killed
\* process dies; a respawn that is tried again and again succeeds at some point.
\* Nothing makes a service exit by itself or a hook command end, and nobody has to
\* call start() or stop().
Fairness ==
  /\ WF_vars(Reaper)
  /\ \A p \in Pid : SF_vars(ReaperWait(p))
  /\ WF_vars(~InHook /\ CtlStep)
  /\ \A p \in Pid : WF_vars(proc[p] = "doomed" /\ ProcExit(p))
  /\ \A s \in Slot : /\ WF_vars(Monitor(s))
                     /\ WF_vars(Background(s))
                     /\ SF_vars(MonFork(s))

FairSpec == Spec /\ Fairness

-----------------------------------------------------------------------------
(* Safety. *)

\* restart_monitor never goes on to respawn a service while the process it was
\* waiting for is still running - as long as that process got a pid nobody had
\* before: EXIT_CODES keeps the code of every pid for ever.
NoRespawnWhileAlive ==
  \A s \in Slot : mon[s].pc \in {"grace", "exited", "check", "sleep"}
                  /\ mon[s].cur \notin reused => ~Live(mon[s].cur)

\* restart = "on-failure": what is restarted did fail, however late the monitor
\* learned of its exit code, unless the pid had been another process's before.
OnlyFailuresRestarted ==
  svc.restart = "on-failure" =>
    \A s \in Slot : mon[s].pc = "sleep" /\ mon[s].cur \notin reused
                       => status[mon[s].cur] = "fail"

\* When stop() gets to ExecStopPost, the process it set out to stop is dead or
\* has been sent SIGKILL, unless somebody else got its pid again.
StoppedIsDead ==
  ctl.pc = "stop_post" /\ ctl.target \notin reused \cup {NoPid}
    => proc[ctl.target] # "alive"

\* A monitor that was past its look at stop_requested when stop() began brings
\* the service back at most once: it never restarts what it brought back.
OneLateRespawn == \A s \in Slot : mon[s].late <= 1

(* Liveness, under Fairness. *)

\* The reaper misses no child, although SIGCHLDs coalesce and children exit
\* while it drains.
ZombiesReaped == \A p \in Pid : proc[p] = "zombie" ~> proc[p] # "zombie"

\* stop() returns, and so releases the manager mutex, whatever the service does; the
\* one thing that can keep it is a command of the service's own ExecStopPost.
StopReturns ==
  ctl.pc \in StopStages
    ~> (ctl.pc \notin StopStages \/ (svc.hooks /\ ctl.pc = "stop_post"))

\* restart = "always" without a breaker or a chain: a watched process that is
\* gone is replaced, unless the service is stopped or (a bound of the model, not
\* of the code) no pid is handed out any more.
ExitIsRestarted ==
  \A s \in Slot :
    (/\ svc.restart = "always" /\ svc.max_restarts = 0 /\ svc.chain_to = "none"
     /\ svc.resolves /\ mon[s].pc = "wait" /\ ~Live(mon[s].cur))
      ~> (mon[s].pc = "store_pid" \/ stop_requested \/ forks = MaxForks[svc])
=============================================================================
