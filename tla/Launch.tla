------------------------------- MODULE Launch -------------------------------
(***************************************************************************)
(* Starting one service: ServiceSupervisor::start (supervisor.rs) from its *)
(* conditions to its last wait, the relaunch by the restart monitor, and   *)
(* the child process of Sandbox.  start() is cut where another thread can  *)
(* come between: PID 1 is one descriptor table for all of its threads, and *)
(* the child runs while start() goes on.                                   *)
(***************************************************************************)
EXTENDS Sandbox, CommandLine

CONSTANTS MaxFd,      \* bound: the highest descriptor
          MaxFaults,  \* bound: calls that fail though nothing stands against them
          MaxLaunch   \* bound: processes the restart monitor starts up to

\* Entry: what a descriptor of PID 1 can be.
Entry == {"reader", "writer", "notify", "socket", "other"} \X Nat
ASSUME LaunchAssumption == MaxFd \in Nat /\ None \notin Nat /\ None \notin Entry

VARIABLES u,          \* the service: its definition, and the facts of its machine (with the bound
                      \* u.others on the descriptors other threads open)
          k,          \* PID 1: its descriptors, and what it has set up for the service
          st,         \* start(): program counter and locals
          child,      \* the newest process of the service
          mon,        \* is there a restart monitor?
          bg,         \* its watchdog and health-check threads
          running,    \* the flag of the supervisor
          inbox       \* the notification socket
lvars == <<u, k, st, child, mon, bg, running, inbox>>

Fd == 3 .. MaxFd
Free(i) == {f \in Fd : i.fds[f] = None}
Lowest(S) == CHOOSE f \in S : \A g \in S : f <= g
CloseAll(i, S) == [i EXCEPT !.fds = [f \in Fd |-> IF f \in S THEN None ELSE @[f]]]
NewFd(i, what) ==
  IF Free(i) = {} THEN Err(i)
  ELSE LET f == Lowest(Free(i)) IN Then(Call(i, TRUE, [i EXCEPT !.fds[f] = what]), LAMBDA h, x : Ok(h, f))

------------------------------------------------------------------------------
\* cgroup.rs: a slice that could not be made makes every later write a no-op.
CreateServiceCgroup(i) == Call(i, TRUE, [i EXCEPT !.slice = "no_cgroup2" \notin u.set])
WriteLimit(i, s) == IF i.slice THEN Call(i, TRUE, [i EXCEPT !.limits = @ \cup {s}]) ELSE Ok(i, None)
ApplyCpuQuota(i) == IF i.slice /\ "bad_quota" \in u.set THEN Err(i) ELSE WriteLimit(i, "cpu_quota")
ApplyTasksMax(i) == WriteLimit(i, "tasks_max")
ApplyMemorySwapMax(i) == WriteLimit(i, "memory_swap_max")
ApplyIoDeviceWeight(i) ==
  IF "no_cgroup2" \in u.set THEN Ok(i, None) ELSE Then(Call(i, TRUE, i), LAMBDA h, x : WriteLimit(h, "io_weight"))
ApplyIoDeviceLatency(i) ==
  IF "no_cgroup2" \in u.set THEN Ok(i, None) ELSE Then(Call(i, TRUE, i), LAMBDA h, x : WriteLimit(h, "io_latency"))
CgroupFiles == <<"memory.max", "cpu.weight", "io.weight">>
ApplyCgroupConfig(i) ==
  Calls(i, CgroupFiles, LAMBDA h, s :
    Ignored(Call(h, h.slice, [h EXCEPT !.limits = @ \cup {s}])))
LimitSteps == <<"cgroup_config", "cpu_quota", "tasks_max", "memory_swap_max", "io_weight", "io_latency">>
ApplyLimit(h, s) ==
  CASE s = "cgroup_config" -> ApplyCgroupConfig(h)
    [] s = "cpu_quota" -> ApplyCpuQuota(h)
    [] s = "tasks_max" -> ApplyTasksMax(h)
    [] s = "memory_swap_max" -> ApplyMemorySwapMax(h)
    [] s = "io_weight" -> ApplyIoDeviceWeight(h)
    [] s = "io_latency" -> ApplyIoDeviceLatency(h)
ApplyLimits(i) == Calls(i, LimitSteps, LAMBDA h, s : When(s \in u.set, h, Ignored(ApplyLimit(h, s))))
AssignPidToCgroup(i) ==
  IF i.slice THEN OrElse(Then(Call(i, TRUE, i), LAMBDA h, x : Ok(h, TRUE)), LAMBDA h : Ok(h, FALSE)) ELSE Ok(i, FALSE)

EnsureServiceDirectory(i, uid) ==
  Then(Call(i, TRUE, i), LAMBDA h, x : Call(h, TRUE, [h EXCEPT !.owner = uid]))

AttachBpfIpFilter(i) == Call(i, i.slice, [i EXCEPT !.filter = "bpf"])
ApplyNftIpFilter(i) == Call(i, TRUE, [i EXCEPT !.filter = "nft"])
ApplyIpFilter(i) == OrElse(AttachBpfIpFilter(i), ApplyNftIpFilter)

Users == {"root", "user", "unknown", "dynamic"}
AllocateDynamicUid(i) == Then(Call(i, "uids_used" \notin u.set, i), LAMBDA h, x : Ok(h, "dynamic"))
ResolveCredentials(i) ==
  CASE u.user \in {"root", "dynamic"} -> Ok(i, "root")
    [] u.user = "unknown" -> Err(i)
    [] u.user = "user" -> Then(Call(i, TRUE, i), LAMBDA h, x : Ok(h, "user"))

\* The first part of start() after its ExecStartPre: its value is the uid.
Prepare(i) ==
  Then(IF u.user = "dynamic" THEN OrElse(AllocateDynamicUid(i), LAMBDA h : Ok(h, "root")) ELSE ResolveCredentials(i),
       LAMBDA b, uid :
  Then(Ignored(CreateServiceCgroup(b)), LAMBDA c, y :
  Then(ApplyLimits(c), LAMBDA d, z :
  Then(When("directory" \in u.set, d, Ignored(EnsureServiceDirectory(d, uid))), LAMBDA e, v :
  Then(When("ip_filter" \in u.set, e, Ignored(ApplyIpFilter(e))), LAMBDA f, w : Ok(f, uid))))))

\* The read end goes to a thread of its own; the value is the write end.
CreateServiceLogger(i) ==
  LET n == i.pipes + 1
  IN  IF "console" \in u.set THEN Ok(i, None)
      ELSE OrElse(Then(NewFd([i EXCEPT !.pipes = n], <<"reader", n>>), LAMBDA h, r : NewFd(h, <<"writer", n>>)),
                  LAMBDA h : Ok(CloseAll(h, {f \in Fd : h.fds[f] = <<"reader", n>>}), None))
PipeOf(i, w) == IF w = None THEN 0 ELSE i.fds[w][2]
NotifyServerNew(i) ==
  IF "notify" \notin u.set THEN Ok(i, FALSE)
  ELSE OrElse(Then(NewFd(i, <<"notify", 0>>), LAMBDA h, f : Ok(h, TRUE)), LAMBDA h : Ok(h, FALSE))
NewSocket(i, n) == IF u.sockets[n] = "bad" THEN Err(i) ELSE NewFd(i, <<"socket", n>>)

\* What start() and the monitor resolve before the fork.
Resolves == u.seccomp # "unknown" /\ "bad_cap" \notin u.set /\ ResolveCommandArgv(u.command, u.args) # Fail
StartServiceAs(i) == IF Resolves THEN Call(i, TRUE, i) ELSE Err(i)

------------------------------------------------------------------------------
Idle == [pc |-> "idle", uid |-> "root", log |-> None, notify |-> FALSE, socks |-> <<>>, next |-> 1]
NoChild == [at |-> "none", slice |-> FALSE, n |-> 0, by |-> "start", uid |-> "root", pipe |-> 0, j |-> None]

NewKernel == [faults |-> MaxFaults, fds |-> [f \in Fd |-> None], slice |-> FALSE, limits |-> {}, owner |-> None,
              filter |-> "none", pipes |-> 0, others |-> 0]

LaunchInit ==
  /\ k = NewKernel
  /\ st = Idle
  /\ child = NoChild
  /\ mon = "none"
  /\ bg = {}
  /\ running = FALSE
  /\ inbox = "empty"

\* start() is over: its activation sockets and its notification socket are dropped.  A writer
\* of the log that is still in the table stays there.
Return(i) == /\ st' = Idle
             /\ k' = CloseAll(i, {f \in Fd : i.fds[f] # None /\ i.fds[f][1] \in {"socket", "notify"}})
             /\ inbox' = "empty"

Begin ==
  /\ st.pc = "idle"
  /\ running' = FALSE
  /\ st' = IF "condition_unmet" \in u.set THEN Idle ELSE [Idle EXCEPT !.pc = "pre"]
  /\ UNCHANGED <<u, k, child, mon, bg, inbox>>

\* run_exec_start_pre: the command runs as long as it likes.
StartPre ==
  /\ st.pc = "pre"
  /\ \E r \in When("exec_start_pre" \in u.set, k, Call(k, TRUE, k)) :
       \/ r.ok /\ k' = r.k /\ st' = [st EXCEPT !.pc = "prepare"] /\ inbox' = inbox
       \/ ~r.ok /\ Return(r.k)
  /\ UNCHANGED <<u, child, mon, bg, running>>

StartPrepare ==
  /\ st.pc = "prepare"
  /\ \E r \in Prepare(k) :
       \/ r.ok /\ k' = r.k /\ st' = [st EXCEPT !.pc = "log", !.uid = r.val] /\ inbox' = inbox
       \/ ~r.ok /\ Return(r.k)
  /\ UNCHANGED <<u, child, mon, bg, running>>

StartLog ==
  /\ st.pc = "log"
  /\ \E r \in CreateServiceLogger(k) : k' = r.k /\ st' = [st EXCEPT !.pc = "notify", !.log = r.val]
  /\ UNCHANGED <<u, child, mon, bg, running, inbox>>

StartNotify ==
  /\ st.pc = "notify"
  /\ \E r \in NotifyServerNew(k) : k' = r.k /\ st' = [st EXCEPT !.pc = "sockets", !.notify = r.val]
  /\ UNCHANGED <<u, child, mon, bg, running, inbox>>

StartSocket ==
  /\ st.pc = "sockets" /\ st.next <= Len(u.sockets)
  /\ \E r \in NewSocket(k, st.next) :
       /\ k' = r.k
       /\ st' = [st EXCEPT !.next = @ + 1, !.socks = IF r.ok THEN Append(@, r.val) ELSE @]
  /\ UNCHANGED <<u, child, mon, bg, running, inbox>>

\* A start that cannot resolve the unit or cannot fork returns with the log's writer open.
StartFork ==
  /\ st.pc = "sockets" /\ st.next > Len(u.sockets)
  /\ \E r \in StartServiceAs(k) :
       \/ /\ r.ok
          /\ k' = r.k
          /\ child' = [at |-> "new", slice |-> FALSE, n |-> child.n + 1, by |-> "start", uid |-> st.uid,
                       pipe |-> PipeOf(k, st.log),
                       j |-> NewChild(r.k.faults, "root", r.k.fds, st.log, st.socks)]
          /\ st' = [st EXCEPT !.pc = "assign"]
          /\ inbox' = inbox
       \/ ~r.ok /\ Return(r.k) /\ child' = child
  /\ UNCHANGED <<u, mon, bg, running>>

StartAssign ==
  /\ st.pc = "assign"
  /\ \E r \in AssignPidToCgroup(CloseAll(k, {st.log} \cap Fd)) :
       /\ k' = r.k
       /\ child' = [child EXCEPT !.slice = r.val]
  /\ st' = [st EXCEPT !.pc = "ready"]
  /\ UNCHANGED <<u, mon, bg, running, inbox>>

\* wait_for_path: the ready socket shows up or its timeout passes; either way the service counts
\* as running.
StartReady ==
  /\ st.pc = "ready"
  /\ running' = TRUE
  /\ st' = [st EXCEPT !.pc = IF "oneshot" \in u.set THEN "oneshot" ELSE IF st.notify THEN "wait" ELSE "threads"]
  /\ UNCHANGED <<u, k, child, mon, bg, inbox>>

StartOneshot ==
  /\ st.pc = "oneshot" /\ child.at = "dead"
  /\ running' = FALSE
  /\ Return(k)
  /\ UNCHANGED <<u, child, mon, bg>>

\* wait_for_ready: every datagram starts the timeout again.  The socket goes when the wait is over.
WaitOver == /\ st' = [st EXCEPT !.pc = "threads", !.notify = FALSE]
            /\ k' = CloseAll(k, {f \in Fd : k.fds[f] # None /\ k.fds[f][1] = "notify"})
            /\ inbox' = "empty"
WaitMessage ==
  /\ st.pc = "wait" /\ inbox # "empty"
  /\ IF inbox = "READY=1" THEN WaitOver ELSE inbox' = "empty" /\ UNCHANGED <<st, k>>
  /\ UNCHANGED <<u, child, mon, bg, running>>
WaitTimeoutNever == FALSE /\ UNCHANGED lvars
WaitTimeout ==
  /\ st.pc = "wait" /\ inbox = "empty"
  /\ WaitOver
  /\ UNCHANGED <<u, child, mon, bg, running>>

\* A monitor that cannot be spawned makes start() fail, with the service up; a watchdog or a health
\* check that cannot is done without.
StartThreads ==
  /\ st.pc = "threads"
  /\ \E r \in (IF u.restart THEN Call(k, TRUE, k) ELSE Ok(k, None)) :
       \/ /\ r.ok
          /\ k' = r.k
          /\ mon' = IF u.restart THEN "wait" ELSE mon
          /\ bg' \in {bg \cup t : t \in SUBSET ({"watchdog", "healthcheck"} \cap u.set)}
          /\ st' = [st EXCEPT !.pc = "post"]
          /\ inbox' = inbox
       \/ ~r.ok /\ Return(r.k) /\ UNCHANGED <<mon, bg>>
  /\ UNCHANGED <<u, child, running>>

\* The commands of ExecStartPost run as long as they like, and change nothing.
StartPost ==
  /\ st.pc = "post"
  /\ Return(k)
  /\ UNCHANGED <<u, child, mon, bg, running>>

------------------------------------------------------------------------------
\* The restart monitor of restart = always (its policy and breaker are in Supervisor): a new log
\* pipe, but no sockets, no notification socket, and the credentials of the unit file; its own
\* copy of the log's writer is never closed.
MonitorExit ==
  /\ mon = "wait" /\ child.at = "dead"
  /\ running' = FALSE
  /\ mon' = "relaunch"
  /\ UNCHANGED <<u, k, st, child, bg, inbox>>
Relaunch ==
  /\ mon = "relaunch" /\ child.n < MaxLaunch
  /\ \E r \in Then(ResolveCredentials(k), LAMBDA h, uid :
               Then(CreateServiceLogger(h), LAMBDA g, w :
               Then(StartServiceAs(g), LAMBDA f, x :
               Then(AssignPidToCgroup(f), LAMBDA e, slice : Ok(e, <<uid, w, slice>>))))) :
       /\ k' = r.k
       /\ IF r.ok
          THEN /\ child' = [at |-> "new", slice |-> r.val[3], n |-> child.n + 1, by |-> "monitor", uid |-> r.val[1],
                            pipe |-> PipeOf(r.k, r.val[2]),
                            j |-> NewChild(r.k.faults, "root", r.k.fds, r.val[2], <<>>)]
               /\ mon' = "wait" /\ running' = TRUE
          ELSE mon' = "wait" /\ UNCHANGED <<child, running>>
  /\ UNCHANGED <<u, st, bg, inbox>>

\* The threads that follow the process.  The watchdog notes that it has gone; the health check gives
\* up on one that lives, and leaves it alive.
Alive == child.at \in {"new", "exec"}
WatchdogMarks ==
  /\ "watchdog" \in bg /\ running /\ ~Alive
  /\ running' = FALSE
  /\ bg' = bg \ {"watchdog"}
  /\ UNCHANGED <<u, k, st, child, mon, inbox>>
HealthGivesUp ==
  /\ "healthcheck" \in bg /\ running /\ Alive
  /\ running' = FALSE
  /\ bg' = bg \ {"healthcheck"}
  /\ UNCHANGED <<u, k, st, child, mon, inbox>>
FollowerEnds ==
  /\ bg # {}
  /\ \/ ~running /\ \E t \in bg : bg' = bg \ {t}
     \/ "healthcheck" \in bg /\ ~Alive /\ bg' = bg \ {"healthcheck"}
  /\ UNCHANGED <<u, k, st, child, mon, running, inbox>>

\* The child runs its preparation; the service then lives, talks and ends as it likes.
ChildRuns ==
  /\ child.at = "new"
  /\ \E j \in RunChild(u, child.uid, child.j) :
       child' = [child EXCEPT !.at = IF j.dead THEN "dead" ELSE "exec", !.j = j]
  /\ UNCHANGED <<u, k, st, mon, bg, running, inbox>>
ServiceExits ==
  /\ child.at = "exec"
  /\ child' = [child EXCEPT !.at = "dead"]
  /\ UNCHANGED <<u, k, st, mon, bg, running, inbox>>
ServiceNotifies ==
  /\ child.at = "exec" /\ st.notify /\ inbox = "empty"
  /\ inbox' \in {"READY=1", "STATUS="}
  /\ UNCHANGED <<u, k, st, child, mon, bg, running>>

\* ServiceLogger::run: ends when nobody holds the other end any more.
Writers(n) ==
  (IF \E f \in Fd : k.fds[f] = <<"writer", n>> THEN {"pid1"} ELSE {})
  \cup (IF child.at = "exec" /\ child.pipe = n THEN {"service"} ELSE {})
  \cup (IF child.at = "new" /\ \E f \in Fd : child.j.fds[f] = <<"writer", n>> THEN {"child"} ELSE {})
LoggerEnds ==
  /\ \E f \in Fd : /\ k.fds[f] # None /\ k.fds[f][1] = "reader"
                   /\ Writers(k.fds[f][2]) = {}
                   /\ k' = CloseAll(k, {f})
  /\ UNCHANGED <<u, st, child, mon, bg, running, inbox>>

\* Any other thread of PID 1 opens a descriptor, or closes it.
OtherThread ==
  /\ \/ /\ k.others < u.others /\ Free(k) # {}
        /\ k' = [k EXCEPT !.fds[Lowest(Free(k))] = <<"other", 0>>, !.others = @ + 1]
     \/ \E f \in Fd : k.fds[f] = <<"other", 0>> /\ k' = CloseAll(k, {f})
  /\ UNCHANGED <<u, st, child, mon, bg, running, inbox>>

StartSteps ==
  \/ StartPre \/ StartPrepare \/ StartLog \/ StartNotify \/ StartSocket \/ StartFork \/ StartAssign \/ StartReady
  \/ StartOneshot \/ WaitMessage \/ WaitTimeout \/ StartThreads \/ StartPost
LaunchNext ==
  \/ StartSteps \/ MonitorExit \/ Relaunch \/ WatchdogMarks \/ HealthGivesUp \/ FollowerEnds
  \/ ChildRuns \/ ServiceExits \/ ServiceNotifies \/ LoggerEnds \/ OtherThread

\* start() waits for something that has no timeout: a command, or a oneshot's exit.
InHook ==
  \/ st.pc = "pre" /\ "exec_start_pre" \in u.set
  \/ st.pc = "post" /\ "exec_start_post" \in u.set
  \/ st.pc = "oneshot"

------------------------------------------------------------------------------
LaunchTypeOK ==
  /\ \A f \in Fd : k.fds[f] = None \/ k.fds[f][1] \in {"reader", "writer", "notify", "socket", "other"}
  /\ st.pc \in {"idle", "pre", "prepare", "log", "notify", "sockets", "assign", "ready", "oneshot", "wait", "threads", "post"}
  /\ child.at \in {"none", "new", "exec", "dead"}
  /\ mon \in {"none", "wait", "relaunch"}
  /\ bg \subseteq {"watchdog", "healthcheck"}
  /\ running \in BOOLEAN
  /\ inbox \in {"empty", "READY=1", "STATUS="}

\* No service runs with less than its unit asks for in the settings that start_service_as treats
\* as fatal: its user, no_new_privs and the other hardening, its AppArmor profile where the
\* kernel has AppArmor, and its seccomp filter.  Whatever call fails, the child exits instead.
ConfinedAtExec ==
  child.at = "exec" =>
    /\ u.user = "user" => child.j.uid = "user"
    /\ u.set \cap {"no_new_privileges", "non_dumpable", "clear_ambient_caps", "drop_capabilities"} \subseteq child.j.did
    /\ "apparmor" \in u.set /\ "no_apparmor" \notin u.set => "apparmor" \in child.j.did
    /\ u.seccomp # "off" => "seccomp" \in child.j.did

\* The activation sockets arrive as descriptors 3, 4, ... in the order of the unit, whatever the
\* numbers they had in PID 1, provided those were ascending (the dup2 loop of start_service_as
\* overwrites a socket it has not moved yet when they are not).
SocketsInOrder ==
  LET s == child.j.socks
      Passed(n) == child.j.fds[2 + n]
  IN  child.at = "exec" /\ (\A n, m \in DOMAIN s : n < m => s[n] < s[m]) =>
        \A n \in DOMAIN s : /\ Passed(n)[1] = "socket"
                             /\ \A m \in DOMAIN s : n < m => Passed(n)[2] < Passed(m)[2]

\* A command line written with any of the shell's ways of quoting runs with the arguments that
\* were quoted, in their order, except that the empty ones are lost; separate args are passed as
\* they are (split_command_line).
ArgvAsQuoted ==
  child.at = "exec" => ResolveCommandArgv(u.command, u.args) = IF u.args = <<>> THEN NonEmpty(u.argv) ELSE u.argv
=============================================================================
