---------------------------- MODULE MCSupervisor ----------------------------
(* Instances of Supervisor for TLC. *)
EXTENDS Supervisor, TLC

Plain == [restart |-> "always", max_restarts |-> 0, oneshot |-> FALSE,
          watchdog |-> FALSE, healthcheck |-> FALSE, chain_to |-> "none",
          stop_command |-> FALSE, cgroup |-> FALSE, bgprocess |-> FALSE,
          hooks |-> FALSE, resolves |-> TRUE]

Respawning == [Plain EXCEPT !.restart = "on-failure", !.max_restarts = 1]

\* One service per feature the supervisor branches on.
SafetyConfigs ==
  { [Plain EXCEPT !.cgroup = TRUE],
    Respawning, [Plain EXCEPT !.restart = "on-failure", !.max_restarts = 1, !.watchdog = TRUE],
    [Plain EXCEPT !.chain_to = "clean", !.stop_command = TRUE, !.resolves = FALSE],
    [Plain EXCEPT !.restart = "no", !.healthcheck = TRUE, !.cgroup = TRUE],
    [Plain EXCEPT !.restart = "on-failure", !.bgprocess = TRUE],
    [Plain EXCEPT !.restart = "no", !.oneshot = TRUE] }

LivenessConfigs == { [Plain EXCEPT !.cgroup = TRUE, !.hooks = TRUE],
                     [Plain EXCEPT !.restart = "no", !.watchdog = TRUE,
                                   !.stop_command = TRUE] }

\* Two late respawns in a row, and a pid that comes back to another process, need a
\* third process; two monitors of one service need a start() after a stop().
SafetyForks == [c \in SafetyConfigs |-> IF c = Respawning THEN 3 ELSE 2]
SafetyBundles == [c \in SafetyConfigs |-> IF c = Respawning THEN 1 ELSE 2]
LivenessForks == [c \in LivenessConfigs |-> 2]
LivenessBundles == [c \in LivenessConfigs |-> 1]

Symmetry == Permutations(Pid) \cup Permutations(Slot)
=============================================================================
