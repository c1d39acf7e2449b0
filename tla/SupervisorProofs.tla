-------------------------- MODULE SupervisorProofs --------------------------
(***************************************************************************)
(* The safety invariants of Supervisor, for any set of pids, any number of  *)
(* background threads and any service definition, whether or not the kernel *)
(* hands out pids again.                                                    *)
(***************************************************************************)
EXTENDS Supervisor, TLAPS

(* The inductive invariant. *)

\* A pid never handed out has left no trace anywhere.
FreshIsClean ==
  \A p \in Pid \ used : proc[p] = "free" /\ exit_codes[p] = "none"

\* EXIT_CODES holds the true status of processes that are gone, for the pids that
\* were handed out only once.
CodesAreTrue ==
  \A p \in Pid \ reused : exit_codes[p] # "none" =>
                            proc[p] = "free" /\ exit_codes[p] = status[p]

\* Only what has exited is a zombie, and a zombie has a status.
ZombieHasStatus ==
  \A p \in Pid : proc[p] = "zombie" => status[p] # "none"

\* Between waitpid and insert the reaper carries a status, the true one unless the
\* pid has been handed out again.
ReaperIsTrue ==
  reaper.pc = "insert" =>
    /\ reaper.pid \in used
    /\ reaper.code # "none"
    /\ reaper.pid \notin reused => /\ proc[reaper.pid] = "free"
                                   /\ reaper.code = status[reaper.pid]

\* The kernel's tables and the reaper.
KernelInv == FreshIsClean /\ CodesAreTrue /\ ZombieHasStatus /\ ReaperIsTrue

\* Every pid a cell or a thread works with was handed out at some time.
PidsAreUsed ==
  /\ pid \in used \cup {NoPid}
  /\ ctl.pc \notin {"idle", "start_pre", "start_fork", "stop_load", "start_threads",
                    "start_post", "stop_post"}
       => ctl.target \in used
  /\ ctl.target \in used \cup {NoPid}
  /\ ctl.pc \in {"start_running", "start_pidfile", "start_oneshot", "start_threads"}
       => pid \in used
  /\ daemon.file \in used \cup {NoPid}
  /\ \A s \in Slot : /\ mon[s].pc = "init" => pid \in used
                     /\ mon[s].pc \notin {"off", "init"} => mon[s].cur \in used

\* What a monitor knows of the process it has seen exit.
MonInv ==
  \A s \in Slot :
    /\ mon[s].cur \notin reused =>
         /\ mon[s].pc \in {"grace", "exited", "check", "sleep"}
              => proc[mon[s].cur] = "free"
         /\ mon[s].pc \in {"exited", "check", "sleep"} /\ mon[s].code = "fail"
              => status[mon[s].cur] = "fail"
    /\ mon[s].pc \in {"exited", "check", "sleep"} => mon[s].code # "none"
    /\ mon[s].pc = "sleep" /\ svc.restart = "on-failure" => mon[s].code = "fail"

\* Once stop() has sent SIGKILL, or has found the process gone, it is not alive.
StopInv ==
  (/\ ctl.pc \in {"stop_killwait", "stop_final", "stop_post"}
   /\ ctl.target \notin reused \cup {NoPid})
    => proc[ctl.target] # "alive"

\* A monitor about to fork although stop() was called has not done so before.
LateInv ==
  \A s \in Slot : /\ mon[s].late <= 1
                  /\ mon[s].pc = "sleep" /\ stop_requested => mon[s].late = 0

IInv == TypeOK /\ KernelInv /\ PidsAreUsed /\ MonInv /\ StopInv /\ LateInv


-----------------------------------------------------------------------------
(* What an action that leaves some variables alone cannot disturb. *)

\* KernelInv is about the process table, EXIT_CODES and the reaper only.
LEMMA KernelInvFrame ==
  ASSUME KernelInv, UNCHANGED <<proc, status, used, reused, exit_codes, reaper>>
  PROVE  KernelInv'
BY Zenon DEF KernelInv, FreshIsClean, CodesAreTrue, ZombieHasStatus, ReaperIsTrue

\* PidsAreUsed is about the pids held by the cell, the control thread and the
\* monitors.
LEMMA PidsAreUsedFrame ==
  ASSUME PidsAreUsed, UNCHANGED <<daemon, pid, used, ctl, mon>>
  PROVE  PidsAreUsed'
BY Zenon DEF PidsAreUsed

\* MonInv is about the monitors and the processes they follow.
LEMMA MonInvFrame ==
  ASSUME MonInv, UNCHANGED <<svc, proc, status, reused, mon>>
  PROVE  MonInv'
BY Zenon DEF MonInv

\* StopInv is about stop()'s locals and its target.
LEMMA StopInvFrame ==
  ASSUME StopInv, UNCHANGED <<ctl, proc, reused>>
  PROVE  StopInv'
BY Zenon DEF StopInv

\* LateInv is about the monitors and stop_requested.
LEMMA LateInvFrame ==
  ASSUME LateInv, UNCHANGED <<mon, stop_requested>>
  PROVE  LateInv'
BY Zenon DEF LateInv

\* The types of a monitor's locals depend on the service only.
LEMMA MonLocalsFrame == ASSUME svc' = svc PROVE MonLocals' = MonLocals
BY Zenon DEF MonLocals

\* Each local of a monitor can be given any value of its type.
LEMMA MonLocalsUpdate ==
  ASSUME NEW r \in MonLocals
  PROVE  /\ \A c \in MonStages :
              /\ [r EXCEPT !.pc = c] \in MonLocals
              /\ \A p \in Pid \cup {NoPid} : [r EXCEPT !.pc = c, !.cur = p] \in MonLocals
              /\ \A e \in Code : [r EXCEPT !.pc = c, !.code = e] \in MonLocals
              /\ \A n \in 0..svc.max_restarts :
                   [r EXCEPT !.pc = c, !.restarts = n] \in MonLocals
              /\ \A p \in Pid, e \in Code, k \in Nat :
                   [r EXCEPT !.pc = c, !.cur = p, !.code = e, !.late = k] \in MonLocals
         /\ [r EXCEPT !.late = 0] \in MonLocals
BY Zenon DEF MonLocals

\* One monitor's locals change, within their types.
LEMMA MonTyped ==
  ASSUME mon \in [Slot -> MonLocals], svc' = svc,
         NEW s \in Slot, NEW r \in MonLocals, mon' = [mon EXCEPT ![s] = r]
  PROVE  mon' \in [Slot -> MonLocals']
BY MonLocalsFrame, Zenon

\* The fields of a service definition.
LEMMA SvcTyped ==
  ASSUME svc \in Configs
  PROVE  svc.max_restarts \in Nat /\ svc.restart \in Policies
BY SupervisorAssumption, Zenon DEF Config

\* A monitor that is not running has locals of the right types.
LEMMA MonOffTyped == svc \in Configs => MonOff \in MonLocals
BY SvcTyped, SupervisorAssumption DEF MonOff, MonLocals, MonStages, Code, ExitCode

\* The invariant holds of a new ServiceSupervisor.
LEMMA InitIInv == Init => IInv
<1> SUFFICES ASSUME Init PROVE IInv
  BY Zenon
<1> USE SupervisorAssumption DEF Init
<1>1. TypeOK
  <2>1. MonOff \in MonLocals
    BY SvcTyped DEF MonOff, MonLocals, MonStages, Code, ExitCode
  <2>2. HealthOff \in [pc: {"off", "run", "checking"}, fails: 0..(FailureThreshold - 1)]
    BY DEF HealthOff
  <2>3. CtlIdle \in [pc: {"idle"} \cup StartStages \cup StopStages,
                     target: Pid \cup {NoPid}, then: {"done", "start"}]
    BY Zenon DEF CtlIdle
  <2> QED BY <2>1, <2>2, <2>3, Zenon DEF TypeOK, Code, ExitCode, ProcState
<1>2. KernelInv
  BY Zenon DEF KernelInv, FreshIsClean, CodesAreTrue, ZombieHasStatus, ReaperIsTrue
<1>3. PidsAreUsed
  BY Zenon DEF PidsAreUsed, CtlIdle, MonOff
<1>4. MonInv /\ StopInv /\ LateInv
  BY DEF MonInv, StopInv, LateInv, CtlIdle, MonOff
<1> QED BY <1>1, <1>2, <1>3, <1>4, Zenon DEF IInv

\* The types are preserved, whatever the kernel does with pids.
LEMMA TypeNext ==
  ASSUME TypeOK, PidsAreUsed, [Next]_vars
  PROVE  TypeOK'
<1> USE SupervisorAssumption
<1>1. ASSUME StartCall PROVE TypeOK'
  BY <1>1, MonLocalsFrame, ZenonT(30)
     DEF StartCall, StartReset, TypeOK, StartStages, StopStages, Code, ExitCode,
         ProcState, cells, kernel, reap, bg
<1>2. ASSUME KillCall PROVE TypeOK'
  BY <1>2, MonLocalsFrame
     DEF KillCall, Killed, TypeOK, StartStages, StopStages, Code, ExitCode,
         ProcState, cells, kernel, reap, bg
<1>3. ASSUME NEW then \in {"done", "start"}, StopCall(then) PROVE TypeOK'
  <2>1. \A s \in Slot : [mon[s] EXCEPT !.late = 0] \in MonLocals
    BY MonLocalsUpdate, Zenon DEF TypeOK
  <2>2. mon' \in [Slot -> MonLocals']
    BY <1>3, <2>1, MonLocalsFrame, Zenon DEF StopCall
  <2> QED BY <1>3, <2>2 DEF StopCall, TypeOK, StopStages, cells, kernel, reap, bg
<1>4. ASSUME StartAbort PROVE TypeOK'
  BY <1>4, MonLocalsFrame
     DEF StartAbort, CtlIdle, TypeOK, StartStages, StopStages, Code, ExitCode,
         ProcState, cells, kernel, reap, bg
<1>5. ASSUME StartFork PROVE TypeOK'
  <2>1. PICK p \in Pid :
          /\ Fork(p)
          /\ ctl' = [ctl EXCEPT !.pc = "start_assign", !.target = p]
    BY <1>5, Zenon DEF StartFork
  <2>2. ctl' \in [pc: {"idle"} \cup StartStages \cup StopStages,
                 target: Pid \cup {NoPid}, then: {"done", "start"}]
    BY <2>1, Zenon DEF TypeOK, StartStages
  <2>3. /\ proc' \in [Pid -> ProcState] /\ status' \in [Pid -> Code]
        /\ used' \in SUBSET Pid /\ reused' \in SUBSET Pid /\ forks' \in Nat
    BY <2>1 DEF TypeOK, Fork, HandOut, ProcState, Code
  <2> QED
    BY <1>5, <2>2, <2>3, MonLocalsFrame DEF StartFork, TypeOK, cells, reap, bg
<1>6. ASSUME StartStorePid PROVE TypeOK'
  BY <1>6, MonLocalsFrame
     DEF StartStorePid, TypeOK, StartStages, StopStages, Code, ExitCode, ProcState,
         cells, kernel, reap, bg
<1>7. ASSUME StartStoreRunning PROVE TypeOK'
  BY <1>7, MonLocalsFrame
     DEF StartStoreRunning, StartRest, TypeOK, StartStages, StopStages, Code,
         ExitCode, ProcState, cells, kernel, reap, bg
<1>8. ASSUME StartPidFile PROVE TypeOK'
  BY <1>8, MonLocalsFrame
     DEF StartPidFile, StartRest, TypeOK, StartStages, StopStages, Code, ExitCode,
         ProcState, cells, kernel, reap, bg
<1>9. ASSUME StartPidFileTimeout PROVE TypeOK'
  BY <1>9, MonLocalsFrame
     DEF StartPidFileTimeout, StartRest, TypeOK, StartStages, StopStages, Code,
         ExitCode, ProcState, cells, kernel, reap, bg
<1>10. ASSUME StartOneshotDone PROVE TypeOK'
  BY <1>10, MonLocalsFrame, ZenonT(30)
     DEF StartOneshotDone, CtlIdle, TypeOK, StartStages, StopStages, Code, ExitCode,
         ProcState, cells, kernel, reap, bg
<1>11. ASSUME StartThreads PROVE TypeOK'
  <2>1. PICK s \in Slot :
          /\ mon' = IF svc.restart = "no" THEN mon
                    ELSE [mon EXCEPT ![s] = [MonOff EXCEPT !.pc = "init"]]
          /\ watch' = IF svc.watchdog THEN [watch EXCEPT ![s] = "run"] ELSE watch
          /\ health' = IF svc.healthcheck
                       THEN [health EXCEPT ![s] = [pc |-> "run", fails |-> 0]]
                       ELSE health
    BY <1>11, Zenon DEF StartThreads
  <2>2. [MonOff EXCEPT !.pc = "init"] \in MonLocals
    BY MonOffTyped, MonLocalsUpdate, Zenon DEF TypeOK, MonStages
  <2>3. mon' \in [Slot -> MonLocals']
    BY <1>11, <2>1, <2>2, MonTyped, MonLocalsFrame, Zenon DEF StartThreads, TypeOK
  <2>4. watch' \in [Slot -> {"off", "run", "mark"}]
    BY <2>1, Zenon DEF TypeOK
  <2>5. health' \in [Slot -> [pc: {"off", "run", "checking"},
                             fails: 0..(FailureThreshold - 1)]]
    BY <2>1 DEF TypeOK
  <2> QED BY <1>11, <2>3, <2>4, <2>5, Zenon DEF StartThreads, TypeOK, StartStages, cells, kernel, reap
<1>12. ASSUME StartNoMonitor PROVE TypeOK'
  BY <1>12, MonLocalsFrame
     DEF StartNoMonitor, CtlIdle, TypeOK, StartStages, StopStages, Code, ExitCode,
         ProcState, cells, kernel, reap, bg
<1>13. ASSUME StopLoad PROVE TypeOK'
  <2>1. ctl' \in [pc: {"idle"} \cup StartStages \cup StopStages,
                 target: Pid \cup {NoPid}, then: {"done", "start"}]
    BY <1>13, Zenon DEF StopLoad, TypeOK, StopStages, StopNext
  <2> QED BY <1>13, <2>1, MonLocalsFrame DEF StopLoad, TypeOK, cells, kernel, reap, bg
<1>14. ASSUME StopSeesExit PROVE TypeOK'
  BY <1>14, MonLocalsFrame, ZenonT(30)
     DEF StopSeesExit, proc_exists, TypeOK, StartStages, StopStages, Code, ExitCode,
         ProcState, cells, kernel, reap, bg
<1>15. ASSUME StopStageTimeout PROVE TypeOK'
  <2>1. ctl' \in [pc: {"idle"} \cup StartStages \cup StopStages,
                 target: Pid \cup {NoPid}, then: {"done", "start"}]
    BY <1>15 DEF StopStageTimeout, StopNext, TypeOK, StopStages
  <2> QED BY <1>15, <2>1, MonLocalsFrame
          DEF StopStageTimeout, TypeOK, cells, kernel, reap, bg
<1>16. ASSUME StopTerm PROVE TypeOK'
  BY <1>16, MonLocalsFrame
     DEF StopTerm, proc_exists, TypeOK, StartStages, StopStages, Code, ExitCode,
         ProcState, cells, kernel, reap, bg
<1>17. ASSUME StopWaitTimeout PROVE TypeOK'
  BY <1>17, MonLocalsFrame
     DEF StopWaitTimeout, TypeOK, StartStages, StopStages, Code, ExitCode,
         ProcState, cells, kernel, reap, bg
<1>18. ASSUME StopKill PROVE TypeOK'
  BY <1>18, MonLocalsFrame
     DEF StopKill, Killed, TypeOK, StartStages, StopStages, Code, ExitCode,
         ProcState, cells, kernel, reap, bg
<1>19. ASSUME StopKillWait PROVE TypeOK'
  BY <1>19, MonLocalsFrame
     DEF StopKillWait, TypeOK, StartStages, StopStages, Code, ExitCode, ProcState,
         cells, kernel, reap, bg
<1>20. ASSUME StopFinal PROVE TypeOK'
  BY <1>20, MonLocalsFrame, ZenonT(30)
     DEF StopFinal, Killed, TypeOK, StartStages, StopStages, Code, ExitCode,
         ProcState, cells, kernel, reap, bg
<1>21. ASSUME StopPost PROVE TypeOK'
  BY <1>21, MonLocalsFrame
     DEF StopPost, CtlIdle, TypeOK, StartStages, StopStages, Code, ExitCode,
         ProcState, cells, kernel, reap, bg
<1>22. ASSUME StopThenStart PROVE TypeOK'
  BY <1>22, MonLocalsFrame, ZenonT(30)
     DEF StopThenStart, StartReset, TypeOK, StartStages, StopStages, Code, ExitCode,
         ProcState, cells, kernel, reap, bg
<1>23. ASSUME ReaperRead PROVE TypeOK'
  <2>1. reaper' \in [pc: {"read", "drain", "insert"}, pid: Pid \cup {NoPid}, code: Code]
    BY <1>23, Zenon DEF ReaperRead, TypeOK
  <2> QED
    BY <1>23, <2>1, MonLocalsFrame, ZenonT(30) DEF ReaperRead, TypeOK, cells, kernel, bg
<1>24. ASSUME NEW p \in Pid, ReaperWait(p) PROVE TypeOK'
  BY <1>24, MonLocalsFrame
     DEF ReaperWait, TypeOK, StartStages, StopStages, Code, ExitCode, ProcState,
         cells, kernel, reap, bg
<1>25. ASSUME ReaperInsert PROVE TypeOK'
  <2>1. exit_codes' \in [Pid -> Code]
    BY <1>25, Zenon DEF ReaperInsert, TypeOK
  <2>2. reaper' \in [pc: {"read", "drain", "insert"}, pid: Pid \cup {NoPid}, code: Code]
    BY <1>25, Zenon DEF ReaperInsert, TypeOK
  <2> QED
    BY <1>25, <2>1, <2>2, MonLocalsFrame DEF ReaperInsert, TypeOK, cells, kernel, bg
<1>26. ASSUME ReaperDone PROVE TypeOK'
  BY <1>26, MonLocalsFrame
     DEF ReaperDone, TypeOK, StartStages, StopStages, Code, ExitCode, ProcState,
         cells, kernel, reap, bg
<1>27. ASSUME NEW p \in Pid, ProcExit(p) PROVE TypeOK'
  BY <1>27, MonLocalsFrame
     DEF ProcExit, Live, TypeOK, StartStages, StopStages, Code, ExitCode, ProcState,
         cells, kernel, reap, bg
<1>28. ASSUME NEW p \in Pid, Daemonize(p) PROVE TypeOK'
  BY <1>28, MonLocalsFrame
     DEF Daemonize, Fork, HandOut, TypeOK, StartStages, StopStages, Code, ExitCode,
         ProcState, cells, kernel, reap, bg
<1>29. ASSUME NEW p \in Pid, ForeignFork(p) PROVE TypeOK'
  BY <1>29, MonLocalsFrame
     DEF ForeignFork, HandOut, TypeOK, StartStages, StopStages, Code, ExitCode,
         ProcState, cells, kernel, reap, bg
<1>30. ASSUME NEW p \in Pid, ForeignExit(p) PROVE TypeOK'
  BY <1>30, MonLocalsFrame
     DEF ForeignExit, TypeOK, StartStages, StopStages, Code, ExitCode, ProcState,
         cells, kernel, reap, bg
<1>31. ASSUME NEW s \in Slot, MonInit(s) PROVE TypeOK'
  <2>1. [mon[s] EXCEPT !.pc = "wait", !.cur = pid] \in MonLocals
    BY MonLocalsUpdate DEF TypeOK, MonStages
  <2>2. mon' \in [Slot -> MonLocals']
    BY <1>31, <2>1, MonTyped, Zenon DEF MonInit, TypeOK
  <2> QED BY <1>31, <2>2 DEF MonInit, TypeOK, cells, kernel, reap, bg
<1>32. ASSUME NEW s \in Slot, MonSeesCode(s) PROVE TypeOK'
  <2>1. [mon[s] EXCEPT !.pc = "exited", !.code = exit_codes[mon[s].cur]] \in MonLocals
    BY <1>32, MonLocalsUpdate, Zenon DEF MonSeesCode, TypeOK, PidsAreUsed, MonStages
  <2>2. mon' \in [Slot -> MonLocals']
    BY <1>32, <2>1, MonTyped, Zenon DEF MonSeesCode, TypeOK
  <2> QED BY <1>32, <2>2 DEF MonSeesCode, TypeOK, cells, kernel, reap, bg
<1>33. ASSUME NEW s \in Slot, MonSeesGone(s) PROVE TypeOK'
  <2>1. [mon[s] EXCEPT !.pc = "grace"] \in MonLocals
    BY MonLocalsUpdate, Zenon DEF TypeOK, MonStages
  <2>2. mon' \in [Slot -> MonLocals']
    BY <1>33, <2>1, MonTyped, Zenon DEF MonSeesGone, TypeOK
  <2> QED BY <1>33, <2>2 DEF MonSeesGone, TypeOK, cells, kernel, reap, bg
<1>34. ASSUME NEW s \in Slot, MonGrace(s) PROVE TypeOK'
  <2>1. [mon[s] EXCEPT !.pc = "exited", !.code = GraceCode(mon[s].cur)] \in MonLocals
    BY <1>34, MonLocalsUpdate, ZenonT(30)
       DEF MonGrace, GraceCode, TypeOK, PidsAreUsed, MonStages, Code, ExitCode
  <2>2. mon' \in [Slot -> MonLocals']
    BY <1>34, <2>1, MonTyped, Zenon DEF MonGrace, TypeOK
  <2> QED BY <1>34, <2>2 DEF MonGrace, TypeOK, cells, kernel, reap, bg
<1>35. ASSUME NEW s \in Slot, MonMarkDown(s) PROVE TypeOK'
  <2>1. [mon[s] EXCEPT !.pc = "check"] \in MonLocals
    BY MonLocalsUpdate, Zenon DEF TypeOK, MonStages
  <2>2. mon' \in [Slot -> MonLocals']
    BY <1>35, <2>1, MonTyped, Zenon DEF MonMarkDown, TypeOK
  <2>3. /\ UNCHANGED <<svc, daemon, pid, stop_requested, proc, status, used, reused, forks, cgroup>>
        /\ UNCHANGED <<sigchld, exit_codes, reaper, ctl, watch, health, chain_queue>>
        /\ running' \in BOOLEAN
    BY <1>35, Zenon DEF MonMarkDown, kernel, reap
  <2> QED BY <2>2, <2>3 DEF TypeOK
<1>36. ASSUME NEW s \in Slot, MonEnd(s) PROVE TypeOK'
  <2>1. mon' \in [Slot -> MonLocals']
    BY <1>36, MonOffTyped, MonTyped, Zenon DEF MonEnd, TypeOK
  <2> QED BY <1>36, <2>1 DEF MonEnd, TypeOK, cells, kernel, reap, bg
<1>37. ASSUME NEW s \in Slot, MonAttempt(s) PROVE TypeOK'
  <2>1. PICK left \in 0..mon[s].restarts :
          /\ ~MonEnds(mon[s].code, left)
          /\ mon' = [mon EXCEPT ![s] = [@ EXCEPT !.pc = "sleep",
                                                 !.restarts = Attempts(left)]]
    BY <1>37, Zenon DEF MonAttempt
  <2>2. Attempts(left) \in 0..svc.max_restarts
    BY <2>1, SvcTyped DEF TypeOK, MonLocals, MonEnds, Tripped, Attempts
  <2>3. [mon[s] EXCEPT !.pc = "sleep", !.restarts = Attempts(left)] \in MonLocals
    BY <2>2, MonLocalsUpdate, Zenon DEF TypeOK, MonStages
  <2>4. mon' \in [Slot -> MonLocals']
    BY <1>37, <2>1, <2>3, MonTyped, Zenon DEF MonAttempt, TypeOK
  <2> QED BY <1>37, <2>4 DEF MonAttempt, TypeOK, cells, kernel, reap
<1>38. ASSUME NEW s \in Slot, MonChain(s) PROVE TypeOK'
  <2>1. mon' \in [Slot -> MonLocals']
    BY <1>38, MonOffTyped, MonTyped, Zenon DEF MonChain, TypeOK
  <2> QED BY <1>38, <2>1 DEF MonChain, TypeOK, cells, kernel, reap, bg
<1>39. ASSUME NEW s \in Slot, MonRetry(s) PROVE TypeOK'
  <2>1. [mon[s] EXCEPT !.pc = "wait"] \in MonLocals
    BY MonLocalsUpdate, Zenon DEF TypeOK, MonStages
  <2>2. mon' \in [Slot -> MonLocals']
    BY <1>39, <2>1, MonTyped, Zenon DEF MonRetry, TypeOK
  <2> QED BY <1>39, <2>2 DEF MonRetry, TypeOK, cells, kernel, reap, bg
<1>40. ASSUME NEW s \in Slot, MonGiveUp(s) PROVE TypeOK'
  <2>1. mon' \in [Slot -> MonLocals']
    BY <1>40, MonOffTyped, MonTyped, Zenon DEF MonGiveUp, TypeOK
  <2> QED BY <1>40, <2>1 DEF MonGiveUp, TypeOK, cells, kernel, reap, bg
<1>41. ASSUME NEW s \in Slot, MonFork(s) PROVE TypeOK'
  <2>1. PICK p \in Pid : Fork(p) /\ mon' = [mon EXCEPT ![s] =
            [@ EXCEPT !.pc = "store_pid", !.cur = p, !.code = "none",
                      !.late = LateForks(s)]]
    BY <1>41, Zenon DEF MonFork
  <2>2. LateForks(s) \in Nat
    BY DEF TypeOK, MonLocals, LateForks
  <2>3. [mon[s] EXCEPT !.pc = "store_pid", !.cur = p, !.code = "none",
                       !.late = LateForks(s)] \in MonLocals
    BY <2>2, MonLocalsUpdate, Zenon DEF TypeOK, MonStages, Code
  <2>4. mon' \in [Slot -> MonLocals']
    BY <1>41, <2>1, <2>3, MonTyped, Zenon DEF MonFork, TypeOK
  <2> QED BY <1>41, <2>1, <2>4 DEF MonFork, Fork, HandOut, TypeOK, Code, ProcState, cells, kernel, reap, bg
<1>42. ASSUME NEW s \in Slot, MonStorePid(s) PROVE TypeOK'
  <2>1. [mon[s] EXCEPT !.pc = "store_running"] \in MonLocals
    BY MonLocalsUpdate, Zenon DEF TypeOK, MonStages
  <2>2. mon' \in [Slot -> MonLocals']
    BY <1>42, <2>1, MonTyped, Zenon DEF MonStorePid, TypeOK
  <2>3. mon[s].cur \in Pid
    BY <1>42, Zenon DEF MonStorePid, TypeOK, PidsAreUsed
  <2> QED BY <1>42, <2>2, <2>3 DEF MonStorePid, TypeOK, cells, kernel, reap, bg
<1>43. ASSUME NEW s \in Slot, MonStoreRunning(s) PROVE TypeOK'
  <2>1. [mon[s] EXCEPT !.pc = "wait"] \in MonLocals
    BY MonLocalsUpdate, Zenon DEF TypeOK, MonStages
  <2>2. mon' \in [Slot -> MonLocals']
    BY <1>43, <2>1, MonTyped, Zenon DEF MonStoreRunning, TypeOK
  <2>3. /\ UNCHANGED <<svc, daemon, pid, stop_requested, proc, status, used, reused, forks, cgroup>>
        /\ UNCHANGED <<sigchld, exit_codes, reaper, ctl, watch, health, chain_queue>>
        /\ running' \in BOOLEAN
    BY <1>43, Zenon DEF MonStoreRunning, kernel, reap
  <2> QED BY <2>2, <2>3 DEF TypeOK
<1>44. ASSUME NEW s \in Slot, WatchTick(s) PROVE TypeOK'
  BY <1>44, MonLocalsFrame
     DEF WatchTick, ThreadEnds, TypeOK, StartStages, StopStages, Code, ExitCode,
         ProcState, cells, kernel, reap, bg
<1>45. ASSUME NEW s \in Slot, WatchMark(s) PROVE TypeOK'
  <2>1. watch' \in [Slot -> {"off", "run", "mark"}]
    BY <1>45, Zenon DEF WatchMark, TypeOK
  <2>2. mon' \in [Slot -> MonLocals']
    BY <1>45, MonLocalsFrame, Zenon DEF WatchMark, TypeOK
  <2>3. /\ UNCHANGED <<svc, daemon, pid, stop_requested, proc, status, used, reused, forks, cgroup>>
        /\ UNCHANGED <<sigchld, exit_codes, reaper, ctl, health, chain_queue>>
        /\ running' \in BOOLEAN
    BY <1>45, Zenon DEF WatchMark, kernel, reap
  <2> QED BY <2>1, <2>2, <2>3 DEF TypeOK
<1>46. ASSUME NEW s \in Slot, HealthTick(s) PROVE TypeOK'
  BY <1>46, MonLocalsFrame
     DEF HealthTick, HealthOff, TypeOK, StartStages, StopStages, Code, ExitCode,
         ProcState, cells, kernel, reap, bg
<1>47. ASSUME NEW s \in Slot, HealthOk(s) PROVE TypeOK'
  BY <1>47, MonLocalsFrame
     DEF HealthOk, TypeOK, StartStages, StopStages, Code, ExitCode, ProcState,
         cells, kernel, reap, bg
<1>48. ASSUME NEW s \in Slot, HealthFail(s) PROVE TypeOK'
  BY <1>48, MonLocalsFrame
     DEF HealthFail, HealthOff, TypeOK, StartStages, StopStages, Code, ExitCode,
         ProcState, cells, kernel, reap, bg
<1>49. ASSUME StartPre PROVE TypeOK'
  BY <1>49, MonLocalsFrame
     DEF StartPre, TypeOK, StartStages, StopStages, Code, ExitCode,
         ProcState, cells, kernel, reap, bg
<1>50. ASSUME StartAssign PROVE TypeOK'
  <2>1. ctl.target \in Pid
    BY <1>50, Zenon DEF StartAssign, TypeOK, PidsAreUsed
  <2> QED BY <1>50, <2>1, MonLocalsFrame
     DEF StartAssign, TypeOK, StartStages, StopStages, Code, ExitCode,
         ProcState, cells, kernel, reap, bg
<1>51. ASSUME StartPost PROVE TypeOK'
  BY <1>51, MonLocalsFrame
     DEF StartPost, CtlIdle, TypeOK, StartStages, StopStages, Code, ExitCode,
         ProcState, cells, kernel, reap, bg
<1>52. ASSUME UNCHANGED vars PROVE TypeOK'
  BY <1>52, MonLocalsFrame DEF vars, TypeOK, cells, kernel, reap, bg
<1> QED
  BY <1>1, <1>2, <1>3, <1>4, <1>5, <1>6, <1>7, <1>8, <1>9, <1>10, <1>11, <1>12,
     <1>13, <1>14, <1>15, <1>16, <1>17, <1>18, <1>19, <1>20, <1>21, <1>22,
     <1>23, <1>24, <1>25, <1>26, <1>27, <1>28, <1>29, <1>30, <1>31, <1>32,
     <1>33, <1>34, <1>35, <1>36, <1>37, <1>38, <1>39, <1>40, <1>41, <1>42,
     <1>43, <1>44, <1>45, <1>46, <1>47, <1>48, <1>49, <1>50, <1>51, <1>52
     DEF Next, CtlStep, Reaper, Monitor, Background

\* The pids that threads hold stay pids that were handed out.
LEMMA PidsNext ==
  ASSUME TypeOK, PidsAreUsed, [Next]_vars
  PROVE  PidsAreUsed'
<1>1. ASSUME StartCall PROVE PidsAreUsed'
  BY <1>1, SupervisorAssumption, Zenon
     DEF StartCall, StartReset, TypeOK, MonLocals, PidsAreUsed, cells, kernel, reap,
         bg
<1>2. ASSUME NEW then \in {"done", "start"}, StopCall(then) PROVE PidsAreUsed'
  <2>1. \A s \in Slot : /\ mon'[s].pc = mon[s].pc /\ mon'[s].cur = mon[s].cur
                        /\ mon'[s].code = mon[s].code
    BY <1>2 DEF StopCall, TypeOK, MonLocals
  <2> QED BY <1>2, <2>1, SupervisorAssumption DEF StopCall, PidsAreUsed, kernel
<1>3. ASSUME StartAbort PROVE PidsAreUsed'
  BY <1>3, SupervisorAssumption, Zenon
     DEF StartAbort, CtlIdle, TypeOK, MonLocals, PidsAreUsed, cells, kernel, reap,
         bg
<1>4. ASSUME StartFork PROVE PidsAreUsed'
  BY <1>4, SupervisorAssumption, Zenon
     DEF StartFork, Fork, HandOut, TypeOK, MonLocals, PidsAreUsed, cells, kernel,
         reap, bg
<1>5. ASSUME StartStorePid PROVE PidsAreUsed'
  BY <1>5, SupervisorAssumption, Zenon
     DEF StartStorePid, TypeOK, MonLocals, PidsAreUsed, cells, kernel, reap, bg
<1>6. ASSUME StartStoreRunning PROVE PidsAreUsed'
  BY <1>6, SupervisorAssumption, Zenon
     DEF StartStoreRunning, StartRest, TypeOK, MonLocals, PidsAreUsed, cells,
         kernel, reap, bg
<1>7. ASSUME StartPidFile PROVE PidsAreUsed'
  BY <1>7, SupervisorAssumption, Zenon
     DEF StartPidFile, StartRest, TypeOK, MonLocals, PidsAreUsed, cells, kernel,
         reap, bg
<1>8. ASSUME StartPidFileTimeout PROVE PidsAreUsed'
  BY <1>8, SupervisorAssumption, Zenon
     DEF StartPidFileTimeout, StartRest, TypeOK, MonLocals, PidsAreUsed, cells,
         kernel, reap, bg
<1>9. ASSUME StartOneshotDone PROVE PidsAreUsed'
  BY <1>9, SupervisorAssumption, Zenon
     DEF StartOneshotDone, CtlIdle, TypeOK, MonLocals, PidsAreUsed, cells, kernel,
         reap, bg
<1>10. ASSUME StartThreads PROVE PidsAreUsed'
  BY <1>10, SupervisorAssumption
     DEF StartThreads, CtlIdle, MonOff, TypeOK, MonLocals, PidsAreUsed, cells,
         kernel, reap, bg
<1>11. ASSUME StartNoMonitor PROVE PidsAreUsed'
  BY <1>11, SupervisorAssumption, Zenon
     DEF StartNoMonitor, CtlIdle, TypeOK, MonLocals, PidsAreUsed, cells, kernel,
         reap, bg
<1>12. ASSUME StopLoad PROVE PidsAreUsed'
  BY <1>12, SupervisorAssumption, Zenon
     DEF StopLoad, StopNext, TypeOK, MonLocals, PidsAreUsed, cells, kernel, reap, bg
<1>13. ASSUME StopSeesExit PROVE PidsAreUsed'
  BY <1>13, SupervisorAssumption, Zenon
     DEF StopSeesExit, proc_exists, TypeOK, MonLocals, PidsAreUsed, cells, kernel,
         reap, bg
<1>14. ASSUME StopStageTimeout PROVE PidsAreUsed'
  BY <1>14, SupervisorAssumption, Zenon
     DEF StopStageTimeout, StopNext, TypeOK, MonLocals, PidsAreUsed, cells, kernel,
         reap, bg
<1>15. ASSUME StopTerm PROVE PidsAreUsed'
  BY <1>15, SupervisorAssumption, Zenon
     DEF StopTerm, proc_exists, TypeOK, MonLocals, PidsAreUsed, cells, kernel, reap,
         bg
<1>16. ASSUME StopWaitTimeout PROVE PidsAreUsed'
  BY <1>16, SupervisorAssumption, Zenon
     DEF StopWaitTimeout, TypeOK, MonLocals, PidsAreUsed, cells, kernel, reap, bg
<1>17. ASSUME StopKill PROVE PidsAreUsed'
  BY <1>17, SupervisorAssumption, Zenon
     DEF StopKill, Killed, TypeOK, MonLocals, PidsAreUsed, cells, kernel, reap, bg
<1>18. ASSUME StopKillWait PROVE PidsAreUsed'
  BY <1>18, SupervisorAssumption, Zenon
     DEF StopKillWait, TypeOK, MonLocals, PidsAreUsed, cells, kernel, reap, bg
<1>19. ASSUME StopFinal PROVE PidsAreUsed'
  BY <1>19, SupervisorAssumption, Zenon
     DEF StopFinal, Killed, TypeOK, MonLocals, PidsAreUsed, cells, kernel, reap, bg
<1>20. ASSUME StopPost PROVE PidsAreUsed'
  BY <1>20, SupervisorAssumption, Zenon
     DEF StopPost, CtlIdle, TypeOK, MonLocals, PidsAreUsed, cells, kernel, reap, bg
<1>21. ASSUME StopThenStart PROVE PidsAreUsed'
  BY <1>21, SupervisorAssumption, Zenon
     DEF StopThenStart, StartReset, TypeOK, MonLocals, PidsAreUsed, cells, kernel,
         reap, bg
<1>22. ASSUME NEW p \in Pid, Daemonize(p) PROVE PidsAreUsed'
  BY <1>22, SupervisorAssumption
     DEF Daemonize, Fork, HandOut, TypeOK, MonLocals, PidsAreUsed, cells, kernel,
         reap, bg
<1>23. ASSUME NEW p \in Pid, ForeignFork(p) PROVE PidsAreUsed'
  BY <1>23, SupervisorAssumption, Zenon
     DEF ForeignFork, HandOut, TypeOK, MonLocals, PidsAreUsed, cells, kernel, reap,
         bg
<1>24. ASSUME NEW s \in Slot, MonInit(s) PROVE PidsAreUsed'
  BY <1>24, SupervisorAssumption
     DEF MonInit, TypeOK, MonLocals, PidsAreUsed, cells, kernel, reap, bg
<1>25. ASSUME NEW s \in Slot, MonSeesCode(s) PROVE PidsAreUsed'
  BY <1>25, SupervisorAssumption
     DEF MonSeesCode, TypeOK, MonLocals, PidsAreUsed, cells, kernel, reap, bg
<1>26. ASSUME NEW s \in Slot, MonSeesGone(s) PROVE PidsAreUsed'
  BY <1>26, SupervisorAssumption
     DEF MonSeesGone, proc_exists, TypeOK, MonLocals, PidsAreUsed, cells, kernel,
         reap, bg
<1>27. ASSUME NEW s \in Slot, MonGrace(s) PROVE PidsAreUsed'
  BY <1>27, SupervisorAssumption
     DEF MonGrace, GraceCode, TypeOK, MonLocals, PidsAreUsed, cells, kernel, reap,
         bg
<1>28. ASSUME NEW s \in Slot, MonMarkDown(s) PROVE PidsAreUsed'
  BY <1>28, SupervisorAssumption
     DEF MonMarkDown, TypeOK, MonLocals, PidsAreUsed, cells, kernel, reap, bg
<1>29. ASSUME NEW s \in Slot, MonEnd(s) PROVE PidsAreUsed'
  BY <1>29, SupervisorAssumption, Zenon
     DEF MonEnd, MonOff, TypeOK, MonLocals, PidsAreUsed, cells, kernel, reap, bg
<1>30. ASSUME NEW s \in Slot, MonAttempt(s) PROVE PidsAreUsed'
  BY <1>30, SupervisorAssumption
     DEF MonAttempt, MonEnds, PolicyRestarts, TypeOK, MonLocals, PidsAreUsed, cells,
         kernel, reap, bg
<1>31. ASSUME NEW s \in Slot, MonChain(s) PROVE PidsAreUsed'
  BY <1>31, SupervisorAssumption, Zenon
     DEF MonChain, MonOff, TypeOK, MonLocals, PidsAreUsed, cells, kernel, reap, bg
<1>32. ASSUME NEW s \in Slot, MonRetry(s) PROVE PidsAreUsed'
  BY <1>32, SupervisorAssumption
     DEF MonRetry, TypeOK, MonLocals, PidsAreUsed, cells, kernel, reap, bg
<1>33. ASSUME NEW s \in Slot, MonGiveUp(s) PROVE PidsAreUsed'
  BY <1>33, SupervisorAssumption, Zenon
     DEF MonGiveUp, MonOff, TypeOK, MonLocals, PidsAreUsed, cells, kernel, reap, bg
<1>34. ASSUME NEW s \in Slot, MonFork(s) PROVE PidsAreUsed'
  BY <1>34, SupervisorAssumption
     DEF MonFork, Fork, HandOut, LateForks, TypeOK, MonLocals, PidsAreUsed, cells,
         kernel, reap, bg
<1>35. ASSUME NEW s \in Slot, MonStorePid(s) PROVE PidsAreUsed'
  BY <1>35, SupervisorAssumption
     DEF MonStorePid, TypeOK, MonLocals, PidsAreUsed, cells, kernel, reap, bg
<1>36. ASSUME NEW s \in Slot, MonStoreRunning(s) PROVE PidsAreUsed'
  BY <1>36, SupervisorAssumption
     DEF MonStoreRunning, TypeOK, MonLocals, PidsAreUsed, cells, kernel, reap, bg
<1>37. ASSUME \/ KillCall \/ ReaperRead \/ ReaperInsert \/ ReaperDone
              \/ \E p \in Pid : \/ ReaperWait(p) \/ ProcExit(p) \/ ForeignExit(p)
              \/ \E s \in Slot : \/ WatchTick(s) \/ WatchMark(s) \/ HealthTick(s)
                                 \/ HealthOk(s) \/ HealthFail(s)
      PROVE  PidsAreUsed'
  BY <1>37, PidsAreUsedFrame, Zenon
     DEF KillCall, ReaperRead, ReaperWait, ReaperInsert, ReaperDone, ProcExit,
         ForeignExit, WatchTick, WatchMark, HealthTick, HealthOk, HealthFail, cells,
         kernel, reap, bg
<1>38. ASSUME StartPre PROVE PidsAreUsed'
  BY <1>38, SupervisorAssumption, Zenon DEF StartPre, TypeOK, MonLocals, PidsAreUsed, cells, kernel, reap, bg
<1>39. ASSUME StartAssign PROVE PidsAreUsed'
  BY <1>39, SupervisorAssumption, Zenon DEF StartAssign, TypeOK, MonLocals, PidsAreUsed, cells, kernel, reap, bg
<1>40. ASSUME StartPost PROVE PidsAreUsed'
  BY <1>40, SupervisorAssumption, Zenon DEF StartPost, CtlIdle, TypeOK, MonLocals, PidsAreUsed, cells, kernel, reap, bg
<1>41. ASSUME UNCHANGED vars PROVE PidsAreUsed'
  BY <1>41, PidsAreUsedFrame, Zenon DEF vars, cells, kernel, reap, bg
<1> QED
  BY <1>1, <1>2, <1>3, <1>4, <1>5, <1>6, <1>7, <1>8, <1>9, <1>10, <1>11, <1>12,
     <1>13, <1>14, <1>15, <1>16, <1>17, <1>18, <1>19, <1>20, <1>21, <1>22,
     <1>23, <1>24, <1>25, <1>26, <1>27, <1>28, <1>29, <1>30, <1>31, <1>32,
     <1>33, <1>34, <1>35, <1>36, <1>37, <1>38, <1>39, <1>40, <1>41
     DEF Next, CtlStep, Reaper, Monitor, Background

\* The process table, EXIT_CODES and the reaper agree on pids handed out once.
LEMMA KernelNext ==
  ASSUME TypeOK, KernelInv, [Next]_vars
  PROVE  KernelInv'
<1>1. ASSUME KillCall PROVE KernelInv'
  BY <1>1, SupervisorAssumption
     DEF KillCall, Killed, TypeOK, KernelInv, FreshIsClean, CodesAreTrue,
         ZombieHasStatus, ReaperIsTrue, Code, ExitCode, cells, kernel, reap, bg
<1>2. ASSUME StartFork PROVE KernelInv'
  BY <1>2, SupervisorAssumption
     DEF StartFork, Fork, HandOut, TypeOK, KernelInv, FreshIsClean, CodesAreTrue,
         ZombieHasStatus, ReaperIsTrue, Code, ExitCode, cells, kernel, reap, bg
<1>3. ASSUME StopKill PROVE KernelInv'
  BY <1>3, SupervisorAssumption
     DEF StopKill, Killed, TypeOK, KernelInv, FreshIsClean, CodesAreTrue,
         ZombieHasStatus, ReaperIsTrue, Code, ExitCode, cells, kernel, reap, bg
<1>4. ASSUME StopFinal PROVE KernelInv'
  BY <1>4, SupervisorAssumption
     DEF StopFinal, Killed, TypeOK, KernelInv, FreshIsClean, CodesAreTrue,
         ZombieHasStatus, ReaperIsTrue, Code, ExitCode, cells, kernel, reap, bg
<1>5. ASSUME ReaperRead PROVE KernelInv'
  BY <1>5, SupervisorAssumption
     DEF ReaperRead, TypeOK, KernelInv, FreshIsClean, CodesAreTrue, ZombieHasStatus,
         ReaperIsTrue, Code, ExitCode, cells, kernel, reap, bg
<1>6. ASSUME NEW p \in Pid, ReaperWait(p) PROVE KernelInv'
  BY <1>6, SupervisorAssumption
     DEF ReaperWait, TypeOK, KernelInv, FreshIsClean, CodesAreTrue, ZombieHasStatus,
         ReaperIsTrue, Code, ExitCode, cells, kernel, reap, bg
<1>7. ASSUME ReaperInsert PROVE KernelInv'
  BY <1>7, SupervisorAssumption
     DEF ReaperInsert, TypeOK, KernelInv, FreshIsClean, CodesAreTrue,
         ZombieHasStatus, ReaperIsTrue, Code, ExitCode, cells, kernel, reap, bg
<1>8. ASSUME ReaperDone PROVE KernelInv'
  BY <1>8, SupervisorAssumption
     DEF ReaperDone, TypeOK, KernelInv, FreshIsClean, CodesAreTrue, ZombieHasStatus,
         ReaperIsTrue, Code, ExitCode, cells, kernel, reap, bg
<1>9. ASSUME NEW p \in Pid, ProcExit(p) PROVE KernelInv'
  BY <1>9, SupervisorAssumption
     DEF ProcExit, Live, TypeOK, KernelInv, FreshIsClean, CodesAreTrue,
         ZombieHasStatus, ReaperIsTrue, Code, ExitCode, cells, kernel, reap, bg
<1>10. ASSUME NEW p \in Pid, Daemonize(p) PROVE KernelInv'
  BY <1>10, SupervisorAssumption
     DEF Daemonize, Fork, HandOut, TypeOK, KernelInv, FreshIsClean, CodesAreTrue,
         ZombieHasStatus, ReaperIsTrue, Code, ExitCode, cells, kernel, reap, bg
<1>11. ASSUME NEW p \in Pid, ForeignFork(p) PROVE KernelInv'
  BY <1>11, SupervisorAssumption
     DEF ForeignFork, HandOut, TypeOK, KernelInv, FreshIsClean, CodesAreTrue,
         ZombieHasStatus, ReaperIsTrue, Code, ExitCode, cells, kernel, reap, bg
<1>12. ASSUME NEW p \in Pid, ForeignExit(p) PROVE KernelInv'
  BY <1>12, SupervisorAssumption
     DEF ForeignExit, TypeOK, KernelInv, FreshIsClean, CodesAreTrue,
         ZombieHasStatus, ReaperIsTrue, Code, ExitCode, cells, kernel, reap, bg
<1>13. ASSUME NEW s \in Slot, MonFork(s) PROVE KernelInv'
  BY <1>13, SupervisorAssumption
     DEF MonFork, Fork, HandOut, LateForks, TypeOK, KernelInv, FreshIsClean,
         CodesAreTrue, ZombieHasStatus, ReaperIsTrue, Code, ExitCode, cells, kernel,
         reap, bg
<1>14. ASSUME \/ StartCall \/ StartAbort \/ StartPre \/ StartAssign
              \/ StartPost \/ StartStorePid \/ StartStoreRunning
              \/ StartPidFile \/ StartPidFileTimeout \/ StartOneshotDone
              \/ StartThreads \/ StartNoMonitor \/ StopLoad \/ StopSeesExit
              \/ StopStageTimeout \/ StopTerm \/ StopWaitTimeout \/ StopKillWait
              \/ StopPost \/ StopThenStart
              \/ \E then \in {"done", "start"} : \/ StopCall(then)
              \/ \E s \in Slot : \/ MonInit(s) \/ MonSeesCode(s) \/ MonSeesGone(s)
                                 \/ MonGrace(s) \/ MonMarkDown(s) \/ MonEnd(s)
                                 \/ MonAttempt(s) \/ MonChain(s) \/ MonRetry(s)
                                 \/ MonGiveUp(s) \/ MonStorePid(s)
                                 \/ MonStoreRunning(s) \/ WatchTick(s)
                                 \/ WatchMark(s) \/ HealthTick(s) \/ HealthOk(s)
                                 \/ HealthFail(s)
      PROVE  KernelInv'
  BY <1>14, KernelInvFrame, Zenon
     DEF StartCall, StopCall, StartAbort, StartPre, StartAssign, StartPost,
         StartStorePid, StartStoreRunning,
         StartPidFile, StartPidFileTimeout, StartOneshotDone, StartThreads,
         StartNoMonitor, StopLoad, StopSeesExit, StopStageTimeout, StopTerm,
         StopWaitTimeout, StopKillWait, StopPost, StopThenStart, MonInit,
         MonSeesCode, MonSeesGone, MonGrace, MonMarkDown, MonEnd, MonAttempt,
         MonChain, MonRetry, MonGiveUp, MonStorePid, MonStoreRunning, WatchTick,
         WatchMark, HealthTick, HealthOk, HealthFail, cells, kernel, reap, bg
<1>15. ASSUME UNCHANGED vars PROVE KernelInv'
  BY <1>15, KernelInvFrame, Zenon DEF vars, cells, kernel, reap, bg
<1> QED
  BY <1>1, <1>2, <1>3, <1>4, <1>5, <1>6, <1>7, <1>8, <1>9, <1>10, <1>11, <1>12,
     <1>13, <1>14, <1>15
     DEF Next, CtlStep, Reaper, Monitor, Background

\* What the monitors know stays true.
LEMMA MonNext ==
  ASSUME TypeOK, PidsAreUsed, KernelInv, MonInv, [Next]_vars
  PROVE  MonInv'
<1>1. ASSUME KillCall PROVE MonInv'
  BY <1>1, SupervisorAssumption
     DEF KillCall, Killed, TypeOK, MonLocals, PidsAreUsed, KernelInv, FreshIsClean,
         CodesAreTrue, MonInv, Code, ExitCode, cells, kernel, reap, bg
<1>2. ASSUME NEW then \in {"done", "start"}, StopCall(then) PROVE MonInv'
  <2>1. \A s \in Slot : /\ mon'[s].pc = mon[s].pc /\ mon'[s].cur = mon[s].cur
                        /\ mon'[s].code = mon[s].code
    BY <1>2 DEF StopCall, TypeOK, MonLocals
  <2> QED BY <1>2, <2>1, SupervisorAssumption DEF StopCall, MonInv, kernel
<1>3. ASSUME StartFork PROVE MonInv'
  BY <1>3, SupervisorAssumption
     DEF StartFork, Fork, HandOut, TypeOK, MonLocals, PidsAreUsed, KernelInv,
         FreshIsClean, CodesAreTrue, MonInv, Code, ExitCode, cells, kernel, reap, bg
<1>4. ASSUME StartThreads PROVE MonInv'
  BY <1>4, SupervisorAssumption
     DEF StartThreads, CtlIdle, MonOff, TypeOK, MonLocals, PidsAreUsed, KernelInv,
         FreshIsClean, CodesAreTrue, MonInv, Code, ExitCode, cells, kernel, reap, bg
<1>5. ASSUME StopKill PROVE MonInv'
  BY <1>5, SupervisorAssumption
     DEF StopKill, Killed, TypeOK, MonLocals, PidsAreUsed, KernelInv, FreshIsClean,
         CodesAreTrue, MonInv, Code, ExitCode, cells, kernel, reap, bg
<1>6. ASSUME StopFinal PROVE MonInv'
  BY <1>6, SupervisorAssumption
     DEF StopFinal, Killed, TypeOK, MonLocals, PidsAreUsed, KernelInv, FreshIsClean,
         CodesAreTrue, MonInv, Code, ExitCode, cells, kernel, reap, bg
<1>7. ASSUME NEW p \in Pid, ReaperWait(p) PROVE MonInv'
  BY <1>7, SupervisorAssumption
     DEF ReaperWait, TypeOK, MonLocals, PidsAreUsed, KernelInv, FreshIsClean,
         CodesAreTrue, MonInv, Code, ExitCode, cells, kernel, reap, bg
<1>8. ASSUME NEW p \in Pid, ProcExit(p) PROVE MonInv'
  BY <1>8, SupervisorAssumption
     DEF ProcExit, Live, TypeOK, MonLocals, PidsAreUsed, KernelInv, FreshIsClean,
         CodesAreTrue, MonInv, Code, ExitCode, cells, kernel, reap, bg
<1>9. ASSUME NEW p \in Pid, Daemonize(p) PROVE MonInv'
  BY <1>9, SupervisorAssumption
     DEF Daemonize, Fork, HandOut, TypeOK, MonLocals, PidsAreUsed, KernelInv,
         FreshIsClean, CodesAreTrue, MonInv, Code, ExitCode, cells, kernel, reap, bg
<1>10. ASSUME NEW p \in Pid, ForeignFork(p) PROVE MonInv'
  BY <1>10, SupervisorAssumption
     DEF ForeignFork, HandOut, TypeOK, MonLocals, PidsAreUsed, KernelInv,
         FreshIsClean, CodesAreTrue, MonInv, Code, ExitCode, cells, kernel, reap, bg
<1>11. ASSUME NEW p \in Pid, ForeignExit(p) PROVE MonInv'
  BY <1>11, SupervisorAssumption
     DEF ForeignExit, TypeOK, MonLocals, PidsAreUsed, KernelInv, FreshIsClean,
         CodesAreTrue, MonInv, Code, ExitCode, cells, kernel, reap, bg
<1>12. ASSUME NEW s \in Slot, MonInit(s) PROVE MonInv'
  BY <1>12, SupervisorAssumption
     DEF MonInit, TypeOK, MonLocals, PidsAreUsed, KernelInv, FreshIsClean,
         CodesAreTrue, MonInv, Code, ExitCode, cells, kernel, reap, bg
<1>13. ASSUME NEW s \in Slot, MonSeesCode(s) PROVE MonInv'
  BY <1>13, SupervisorAssumption
     DEF MonSeesCode, TypeOK, MonLocals, PidsAreUsed, KernelInv, FreshIsClean,
         CodesAreTrue, MonInv, Code, ExitCode, cells, kernel, reap, bg
<1>14. ASSUME NEW s \in Slot, MonSeesGone(s) PROVE MonInv'
  BY <1>14, SupervisorAssumption
     DEF MonSeesGone, proc_exists, TypeOK, MonLocals, PidsAreUsed, KernelInv,
         FreshIsClean, CodesAreTrue, MonInv, Code, ExitCode, cells, kernel, reap, bg
<1>15. ASSUME NEW s \in Slot, MonGrace(s) PROVE MonInv'
  BY <1>15, SupervisorAssumption
     DEF MonGrace, GraceCode, TypeOK, MonLocals, PidsAreUsed, KernelInv,
         FreshIsClean, CodesAreTrue, MonInv, Code, ExitCode, cells, kernel, reap, bg
<1>16. ASSUME NEW s \in Slot, MonMarkDown(s) PROVE MonInv'
  BY <1>16, SupervisorAssumption
     DEF MonMarkDown, TypeOK, MonLocals, PidsAreUsed, KernelInv, FreshIsClean,
         CodesAreTrue, MonInv, Code, ExitCode, cells, kernel, reap, bg
<1>17. ASSUME NEW s \in Slot, MonEnd(s) PROVE MonInv'
  BY <1>17, SupervisorAssumption
     DEF MonEnd, MonOff, TypeOK, MonLocals, PidsAreUsed, KernelInv, FreshIsClean,
         CodesAreTrue, MonInv, Code, ExitCode, cells, kernel, reap, bg
<1>18. ASSUME NEW s \in Slot, MonAttempt(s) PROVE MonInv'
  BY <1>18, SupervisorAssumption
     DEF MonAttempt, MonEnds, PolicyRestarts, TypeOK, MonLocals, PidsAreUsed,
         KernelInv, FreshIsClean, CodesAreTrue, MonInv, Code, ExitCode, cells,
         kernel, reap, bg
<1>19. ASSUME NEW s \in Slot, MonChain(s) PROVE MonInv'
  BY <1>19, SupervisorAssumption
     DEF MonChain, MonOff, TypeOK, MonLocals, PidsAreUsed, KernelInv, FreshIsClean,
         CodesAreTrue, MonInv, Code, ExitCode, cells, kernel, reap, bg
<1>20. ASSUME NEW s \in Slot, MonRetry(s) PROVE MonInv'
  BY <1>20, SupervisorAssumption
     DEF MonRetry, TypeOK, MonLocals, PidsAreUsed, KernelInv, FreshIsClean,
         CodesAreTrue, MonInv, Code, ExitCode, cells, kernel, reap, bg
<1>21. ASSUME NEW s \in Slot, MonGiveUp(s) PROVE MonInv'
  BY <1>21, SupervisorAssumption
     DEF MonGiveUp, MonOff, TypeOK, MonLocals, PidsAreUsed, KernelInv, FreshIsClean,
         CodesAreTrue, MonInv, Code, ExitCode, cells, kernel, reap, bg
<1>22. ASSUME NEW s \in Slot, MonFork(s) PROVE MonInv'
  BY <1>22, SupervisorAssumption
     DEF MonFork, Fork, HandOut, LateForks, TypeOK, MonLocals, PidsAreUsed,
         KernelInv, FreshIsClean, CodesAreTrue, MonInv, Code, ExitCode, cells,
         kernel, reap, bg
<1>23. ASSUME NEW s \in Slot, MonStorePid(s) PROVE MonInv'
  BY <1>23, SupervisorAssumption
     DEF MonStorePid, TypeOK, MonLocals, PidsAreUsed, KernelInv, FreshIsClean,
         CodesAreTrue, MonInv, Code, ExitCode, cells, kernel, reap, bg
<1>24. ASSUME NEW s \in Slot, MonStoreRunning(s) PROVE MonInv'
  BY <1>24, SupervisorAssumption
     DEF MonStoreRunning, TypeOK, MonLocals, PidsAreUsed, KernelInv, FreshIsClean,
         CodesAreTrue, MonInv, Code, ExitCode, cells, kernel, reap, bg
<1>25. ASSUME \/ StartCall \/ StartAbort \/ StartPre \/ StartAssign
              \/ StartPost \/ StartStorePid \/ StartStoreRunning
              \/ StartPidFile \/ StartPidFileTimeout \/ StartOneshotDone
              \/ StartNoMonitor \/ StopLoad \/ StopSeesExit \/ StopStageTimeout
              \/ StopTerm \/ StopWaitTimeout \/ StopKillWait \/ StopPost
              \/ StopThenStart \/ ReaperRead \/ ReaperInsert \/ ReaperDone
              \/ \E s \in Slot : \/ WatchTick(s) \/ WatchMark(s) \/ HealthTick(s)
                                 \/ HealthOk(s) \/ HealthFail(s)
      PROVE  MonInv'
  BY <1>25, MonInvFrame, Zenon
     DEF StartCall, StartAbort, StartPre, StartAssign, StartPost,
         StartStorePid, StartStoreRunning, StartPidFile,
         StartPidFileTimeout, StartOneshotDone, StartNoMonitor, StopLoad,
         StopSeesExit, StopStageTimeout, StopTerm, StopWaitTimeout, StopKillWait,
         StopPost, StopThenStart, ReaperRead, ReaperInsert, ReaperDone, WatchTick,
         WatchMark, HealthTick, HealthOk, HealthFail, cells, kernel, reap, bg
<1>26. ASSUME UNCHANGED vars PROVE MonInv'
  BY <1>26, MonInvFrame, Zenon DEF vars, cells, kernel, reap, bg
<1> QED
  BY <1>1, <1>2, <1>3, <1>4, <1>5, <1>6, <1>7, <1>8, <1>9, <1>10, <1>11, <1>12,
     <1>13, <1>14, <1>15, <1>16, <1>17, <1>18, <1>19, <1>20, <1>21, <1>22,
     <1>23, <1>24, <1>25, <1>26
     DEF Next, CtlStep, Reaper, Monitor, Background

\* What stop() has achieved stays achieved.
LEMMA StopNextInv ==
  ASSUME TypeOK, PidsAreUsed, StopInv, [Next]_vars
  PROVE  StopInv'
<1>1. ASSUME StartCall PROVE StopInv'
  BY <1>1, SupervisorAssumption, Zenon
     DEF StartCall, StartReset, TypeOK, PidsAreUsed, StopInv, cells, kernel, reap,
         bg
<1>2. ASSUME KillCall PROVE StopInv'
  BY <1>2, SupervisorAssumption, Zenon
     DEF KillCall, Killed, TypeOK, PidsAreUsed, StopInv, cells, kernel, reap, bg
<1>3. ASSUME NEW then \in {"done", "start"}, StopCall(then) PROVE StopInv'
  BY <1>3, SupervisorAssumption, Zenon
     DEF StopCall, TypeOK, PidsAreUsed, StopInv, cells, kernel, reap, bg
<1>4. ASSUME StartAbort PROVE StopInv'
  BY <1>4, SupervisorAssumption, Zenon
     DEF StartAbort, CtlIdle, TypeOK, PidsAreUsed, StopInv, cells, kernel, reap, bg
<1>5. ASSUME StartFork PROVE StopInv'
  BY <1>5, SupervisorAssumption, Zenon
     DEF StartFork, Fork, HandOut, TypeOK, PidsAreUsed, StopInv, cells, kernel,
         reap, bg
<1>6. ASSUME StartStorePid PROVE StopInv'
  BY <1>6, SupervisorAssumption, Zenon
     DEF StartStorePid, TypeOK, PidsAreUsed, StopInv, cells, kernel, reap, bg
<1>7. ASSUME StartStoreRunning PROVE StopInv'
  BY <1>7, SupervisorAssumption, Zenon
     DEF StartStoreRunning, StartRest, TypeOK, PidsAreUsed, StopInv, cells, kernel,
         reap, bg
<1>8. ASSUME StartPidFile PROVE StopInv'
  BY <1>8, SupervisorAssumption, Zenon
     DEF StartPidFile, StartRest, TypeOK, PidsAreUsed, StopInv, cells, kernel, reap,
         bg
<1>9. ASSUME StartPidFileTimeout PROVE StopInv'
  BY <1>9, SupervisorAssumption, Zenon
     DEF StartPidFileTimeout, StartRest, TypeOK, PidsAreUsed, StopInv, cells,
         kernel, reap, bg
<1>10. ASSUME StartOneshotDone PROVE StopInv'
  BY <1>10, SupervisorAssumption, Zenon
     DEF StartOneshotDone, CtlIdle, TypeOK, PidsAreUsed, StopInv, cells, kernel,
         reap, bg
<1>11. ASSUME StartThreads PROVE StopInv'
  BY <1>11, SupervisorAssumption, Zenon
     DEF StartThreads, CtlIdle, MonOff, TypeOK, PidsAreUsed, StopInv, cells, kernel,
         reap, bg
<1>12. ASSUME StartNoMonitor PROVE StopInv'
  BY <1>12, SupervisorAssumption, Zenon
     DEF StartNoMonitor, CtlIdle, TypeOK, PidsAreUsed, StopInv, cells, kernel, reap,
         bg
<1>13. ASSUME StopLoad PROVE StopInv'
  BY <1>13, SupervisorAssumption, Zenon
     DEF StopLoad, StopNext, TypeOK, PidsAreUsed, StopInv, cells, kernel, reap, bg
<1>14. ASSUME StopSeesExit PROVE StopInv'
  BY <1>14, SupervisorAssumption, Zenon
     DEF StopSeesExit, proc_exists, TypeOK, PidsAreUsed, StopInv, cells, kernel,
         reap, bg
<1>15. ASSUME StopStageTimeout PROVE StopInv'
  BY <1>15, SupervisorAssumption, Zenon
     DEF StopStageTimeout, StopNext, TypeOK, PidsAreUsed, StopInv, cells, kernel,
         reap, bg
<1>16. ASSUME StopTerm PROVE StopInv'
  BY <1>16, SupervisorAssumption, Zenon
     DEF StopTerm, proc_exists, TypeOK, PidsAreUsed, StopInv, cells, kernel, reap,
         bg
<1>17. ASSUME StopWaitTimeout PROVE StopInv'
  BY <1>17, SupervisorAssumption, Zenon
     DEF StopWaitTimeout, TypeOK, PidsAreUsed, StopInv, cells, kernel, reap, bg
<1>18. ASSUME StopKill PROVE StopInv'
  BY <1>18, SupervisorAssumption, Zenon
     DEF StopKill, Killed, TypeOK, PidsAreUsed, StopInv, cells, kernel, reap, bg
<1>19. ASSUME StopKillWait PROVE StopInv'
  BY <1>19, SupervisorAssumption, Zenon
     DEF StopKillWait, TypeOK, PidsAreUsed, StopInv, cells, kernel, reap, bg
<1>20. ASSUME StopFinal PROVE StopInv'
  BY <1>20, SupervisorAssumption, Zenon
     DEF StopFinal, Killed, TypeOK, PidsAreUsed, StopInv, cells, kernel, reap, bg
<1>21. ASSUME StopPost PROVE StopInv'
  BY <1>21, SupervisorAssumption, Zenon
     DEF StopPost, CtlIdle, TypeOK, PidsAreUsed, StopInv, cells, kernel, reap, bg
<1>22. ASSUME StopThenStart PROVE StopInv'
  BY <1>22, SupervisorAssumption, Zenon
     DEF StopThenStart, StartReset, TypeOK, PidsAreUsed, StopInv, cells, kernel,
         reap, bg
<1>23. ASSUME NEW p \in Pid, ReaperWait(p) PROVE StopInv'
  BY <1>23, SupervisorAssumption, Zenon
     DEF ReaperWait, TypeOK, PidsAreUsed, StopInv, cells, kernel, reap, bg
<1>24. ASSUME NEW p \in Pid, ProcExit(p) PROVE StopInv'
  BY <1>24, SupervisorAssumption
     DEF ProcExit, Live, TypeOK, PidsAreUsed, StopInv, cells, kernel, reap, bg
<1>25. ASSUME NEW p \in Pid, Daemonize(p) PROVE StopInv'
  BY <1>25, SupervisorAssumption
     DEF Daemonize, Fork, HandOut, TypeOK, PidsAreUsed, StopInv, cells, kernel,
         reap, bg
<1>26. ASSUME NEW p \in Pid, ForeignFork(p) PROVE StopInv'
  BY <1>26, SupervisorAssumption, Zenon
     DEF ForeignFork, HandOut, TypeOK, PidsAreUsed, StopInv, cells, kernel, reap, bg
<1>27. ASSUME NEW p \in Pid, ForeignExit(p) PROVE StopInv'
  BY <1>27, SupervisorAssumption, Zenon
     DEF ForeignExit, TypeOK, PidsAreUsed, StopInv, cells, kernel, reap, bg
<1>28. ASSUME NEW s \in Slot, MonFork(s) PROVE StopInv'
  BY <1>28, SupervisorAssumption
     DEF MonFork, Fork, HandOut, LateForks, TypeOK, PidsAreUsed, StopInv, cells,
         kernel, reap, bg
<1>29. ASSUME \/ ReaperRead \/ ReaperInsert \/ ReaperDone
              \/ \E s \in Slot : \/ MonInit(s) \/ MonSeesCode(s) \/ MonSeesGone(s)
                                 \/ MonGrace(s) \/ MonMarkDown(s) \/ MonEnd(s)
                                 \/ MonAttempt(s) \/ MonChain(s) \/ MonRetry(s)
                                 \/ MonGiveUp(s) \/ MonStorePid(s)
                                 \/ MonStoreRunning(s) \/ WatchTick(s)
                                 \/ WatchMark(s) \/ HealthTick(s) \/ HealthOk(s)
                                 \/ HealthFail(s)
      PROVE  StopInv'
  BY <1>29, StopInvFrame, Zenon
     DEF ReaperRead, ReaperInsert, ReaperDone, MonInit, MonSeesCode, MonSeesGone,
         MonGrace, MonMarkDown, MonEnd, MonAttempt, MonChain, MonRetry, MonGiveUp,
         MonStorePid, MonStoreRunning, WatchTick, WatchMark, HealthTick, HealthOk,
         HealthFail, cells, kernel, reap, bg
<1>30. ASSUME StartPre PROVE StopInv'
  BY <1>30, SupervisorAssumption, Zenon DEF StartPre, TypeOK, PidsAreUsed, StopInv, cells, kernel, reap, bg
<1>31. ASSUME StartAssign PROVE StopInv'
  BY <1>31, SupervisorAssumption, Zenon DEF StartAssign, TypeOK, PidsAreUsed, StopInv, cells, kernel, reap, bg
<1>32. ASSUME StartPost PROVE StopInv'
  BY <1>32, SupervisorAssumption, Zenon DEF StartPost, CtlIdle, TypeOK, PidsAreUsed, StopInv, cells, kernel, reap, bg
<1>33. ASSUME UNCHANGED vars PROVE StopInv'
  BY <1>33, StopInvFrame, Zenon DEF vars, cells, kernel, reap, bg
<1> QED
  BY <1>1, <1>2, <1>3, <1>4, <1>5, <1>6, <1>7, <1>8, <1>9, <1>10, <1>11, <1>12,
     <1>13, <1>14, <1>15, <1>16, <1>17, <1>18, <1>19, <1>20, <1>21, <1>22,
     <1>23, <1>24, <1>25, <1>26, <1>27, <1>28, <1>29, <1>30, <1>31, <1>32, <1>33
     DEF Next, CtlStep, Reaper, Monitor, Background

\* The bound on late respawns is preserved.
LEMMA LateNext ==
  ASSUME TypeOK, LateInv, [Next]_vars
  PROVE  LateInv'
<1>1. ASSUME StartCall PROVE LateInv'
  BY <1>1, Zenon
     DEF StartCall, StartReset, TypeOK, MonLocals, LateInv, cells, kernel, reap, bg
<1>2. ASSUME NEW then \in {"done", "start"}, StopCall(then) PROVE LateInv'
  BY <1>2 DEF StopCall, TypeOK, MonLocals, LateInv, cells, kernel, reap, bg
<1>3. ASSUME StartThreads PROVE LateInv'
  BY <1>3
     DEF StartThreads, CtlIdle, MonOff, TypeOK, MonLocals, LateInv, cells, kernel,
         reap, bg
<1>4. ASSUME StopThenStart PROVE LateInv'
  BY <1>4, Zenon
     DEF StopThenStart, StartReset, TypeOK, MonLocals, LateInv, cells, kernel, reap,
         bg
<1>5. ASSUME NEW s \in Slot, MonInit(s) PROVE LateInv'
  BY <1>5 DEF MonInit, TypeOK, MonLocals, LateInv, cells, kernel, reap, bg
<1>6. ASSUME NEW s \in Slot, MonSeesCode(s) PROVE LateInv'
  BY <1>6 DEF MonSeesCode, TypeOK, MonLocals, LateInv, cells, kernel, reap, bg
<1>7. ASSUME NEW s \in Slot, MonSeesGone(s) PROVE LateInv'
  BY <1>7
     DEF MonSeesGone, proc_exists, TypeOK, MonLocals, LateInv, cells, kernel, reap,
         bg
<1>8. ASSUME NEW s \in Slot, MonGrace(s) PROVE LateInv'
  BY <1>8
     DEF MonGrace, GraceCode, TypeOK, MonLocals, LateInv, cells, kernel, reap, bg
<1>9. ASSUME NEW s \in Slot, MonMarkDown(s) PROVE LateInv'
  BY <1>9 DEF MonMarkDown, TypeOK, MonLocals, LateInv, cells, kernel, reap, bg
<1>10. ASSUME NEW s \in Slot, MonEnd(s) PROVE LateInv'
  BY <1>10 DEF MonEnd, MonOff, TypeOK, MonLocals, LateInv, cells, kernel, reap, bg
<1>11. ASSUME NEW s \in Slot, MonAttempt(s) PROVE LateInv'
  BY <1>11
     DEF MonAttempt, MonEnds, PolicyRestarts, TypeOK, MonLocals, LateInv, cells,
         kernel, reap, bg
<1>12. ASSUME NEW s \in Slot, MonChain(s) PROVE LateInv'
  BY <1>12 DEF MonChain, MonOff, TypeOK, MonLocals, LateInv, cells, kernel, reap, bg
<1>13. ASSUME NEW s \in Slot, MonRetry(s) PROVE LateInv'
  BY <1>13 DEF MonRetry, TypeOK, MonLocals, LateInv, cells, kernel, reap, bg
<1>14. ASSUME NEW s \in Slot, MonGiveUp(s) PROVE LateInv'
  BY <1>14
     DEF MonGiveUp, MonOff, TypeOK, MonLocals, LateInv, cells, kernel, reap, bg
<1>15. ASSUME NEW s \in Slot, MonFork(s) PROVE LateInv'
  BY <1>15
     DEF MonFork, Fork, HandOut, LateForks, TypeOK, MonLocals, LateInv, cells,
         kernel, reap, bg
<1>16. ASSUME NEW s \in Slot, MonStorePid(s) PROVE LateInv'
  BY <1>16 DEF MonStorePid, TypeOK, MonLocals, LateInv, cells, kernel, reap, bg
<1>17. ASSUME NEW s \in Slot, MonStoreRunning(s) PROVE LateInv'
  BY <1>17 DEF MonStoreRunning, TypeOK, MonLocals, LateInv, cells, kernel, reap, bg
<1>18. ASSUME \/ KillCall \/ StartAbort \/ StartPre \/ StartAssign
              \/ StartPost \/ StartFork \/ StartStorePid
              \/ StartStoreRunning \/ StartPidFile \/ StartPidFileTimeout
              \/ StartOneshotDone \/ StartNoMonitor \/ StopLoad \/ StopSeesExit
              \/ StopStageTimeout \/ StopTerm \/ StopWaitTimeout \/ StopKill
              \/ StopKillWait \/ StopFinal \/ StopPost \/ ReaperRead
              \/ ReaperInsert \/ ReaperDone
              \/ \E p \in Pid : \/ ReaperWait(p) \/ ProcExit(p) \/ Daemonize(p)
                                \/ ForeignFork(p) \/ ForeignExit(p)
              \/ \E s \in Slot : \/ WatchTick(s) \/ WatchMark(s) \/ HealthTick(s)
                                 \/ HealthOk(s) \/ HealthFail(s)
      PROVE  LateInv'
  BY <1>18, LateInvFrame, Zenon
     DEF KillCall, StartAbort, StartPre, StartAssign, StartPost,
         StartFork, StartStorePid, StartStoreRunning,
         StartPidFile, StartPidFileTimeout, StartOneshotDone, StartNoMonitor,
         StopLoad, StopSeesExit, StopStageTimeout, StopTerm, StopWaitTimeout,
         StopKill, StopKillWait, StopFinal, StopPost, ReaperRead, ReaperWait,
         ReaperInsert, ReaperDone, ProcExit, Daemonize, ForeignFork, ForeignExit,
         WatchTick, WatchMark, HealthTick, HealthOk, HealthFail, cells, kernel,
         reap, bg
<1>19. ASSUME UNCHANGED vars PROVE LateInv'
  BY <1>19, LateInvFrame, Zenon DEF vars, cells, kernel, reap, bg
<1> QED
  BY <1>1, <1>2, <1>3, <1>4, <1>5, <1>6, <1>7, <1>8, <1>9, <1>10, <1>11, <1>12,
     <1>13, <1>14, <1>15, <1>16, <1>17, <1>18, <1>19
     DEF Next, CtlStep, Reaper, Monitor, Background

-----------------------------------------------------------------------------
(* The theorems. *)

\* The types of the supervisor's cells, the kernel's tables and the threads' locals
\* hold in every reachable state: restart_times never outgrows max_restarts and the
\* health check never counts past failure_threshold, even if pids are reused.
THEOREM TypeCorrect == Spec => []TypeOK
<1>1. Init => TypeOK /\ PidsAreUsed
  BY InitIInv, Zenon DEF IInv
<1>2. TypeOK /\ PidsAreUsed /\ [Next]_vars => (TypeOK /\ PidsAreUsed)'
  BY TypeNext, PidsNext, Zenon
<1> QED BY <1>1, <1>2, PTL DEF Spec

\* The inductive invariant holds in every reachable state.
LEMMA Invariance == Spec => []IInv
<1>1. IInv /\ [Next]_vars => IInv'
  BY TypeNext, PidsNext, KernelNext, MonNext, StopNextInv, LateNext, Zenon DEF IInv
<1> QED BY InitIInv, <1>1, PTL DEF Spec

\* No monitor goes on to respawn while the process it waits for is running, however
\* many monitors there are and whatever the kernel does with other pids, unless the
\* pid of that very process was handed out before.
THEOREM NoDoubleRespawn == Spec => []NoRespawnWhileAlive
<1>1. IInv => NoRespawnWhileAlive
  BY Zenon DEF IInv, MonInv, NoRespawnWhileAlive, Live
<1> QED BY <1>1, Invariance, PTL

\* With restart = "on-failure" only a process that failed is restarted, although the
\* monitor may take a code it cannot find for 0, unless its pid was handed out before.
THEOREM RestartsAreForFailures == Spec => []OnlyFailuresRestarted
<1>1. IInv => OnlyFailuresRestarted
  BY Zenon DEF IInv, MonInv, OnlyFailuresRestarted
<1> QED BY <1>1, Invariance, PTL

\* When stop() reaches ExecStopPost, its target is dead or has been sent SIGKILL,
\* unless the target's pid has been handed out again.
THEOREM StopIsEffective == Spec => []StoppedIsDead
<1>1. IInv => StoppedIsDead
  BY Zenon DEF IInv, StopInv, StoppedIsDead
<1> QED BY <1>1, Invariance, PTL

\* However many monitors a service has collected, each forks at most once after
\* stop() has been called, even if pids are reused.
THEOREM LateRespawnBound == Spec => []OneLateRespawn
<1>1. Init => TypeOK /\ PidsAreUsed /\ LateInv
  BY InitIInv, Zenon DEF IInv
<1>2. TypeOK /\ PidsAreUsed /\ LateInv /\ [Next]_vars
        => (TypeOK /\ PidsAreUsed /\ LateInv)'
  BY TypeNext, PidsNext, LateNext, Zenon
<1>3. LateInv => OneLateRespawn
  BY Zenon DEF LateInv, OneLateRespawn
<1> QED BY <1>1, <1>2, <1>3, PTL DEF Spec

=============================================================================
