---------------------------- MODULE MCActivation ----------------------------
(***************************************************************************)
(* Timers and units: every form of schedule with a plain service, and a    *)
(* timer that fires once per boot with every kind of service.              *)
(***************************************************************************)
EXTENDS Activation

Expr(word) == [word |-> word, h |-> 0, m |-> 0, s |-> 0, day |-> ""]
At(day, hh, mm) == [word |-> "time", h |-> hh, m |-> mm, s |-> 0, day |-> day]
OnCalendar(e) == [boot |-> Unset, calendar |-> e, interval |-> Unset, persistent |-> TRUE, jitter |-> FALSE,
                  checked |-> FALSE, rounds |-> 1]
AtBoot == [OnCalendar(Expr("none")) EXCEPT !.boot = 0, !.persistent = FALSE]

MCTimers ==
  {OnCalendar(e) : e \in {Expr("minutely"), Expr("hourly"), Expr("daily"), Expr("weekly"), Expr("oddly"),
                          At("", 3, 0), At("Fri", 3, 0), At("Mon", 23, 59), At("", 25, 0), At("", 256, 0)}}
  \cup {[OnCalendar(At("", 3, 0)) EXCEPT !.boot = 10, !.persistent = FALSE],
        [OnCalendar(At("", 3, 0)) EXCEPT !.jitter = TRUE],
        [AtBoot EXCEPT !.boot = 10, !.interval = 3600, !.persistent = TRUE],
        [AtBoot EXCEPT !.interval = 3600, !.jitter = TRUE],
        [OnCalendar(At("Thu", 23, 59)) EXCEPT !.checked = TRUE]}

\* Monday is day 4 of the epoch.
MCStarts == {0, 4 * Day + 3 * Hour, 4 * Day - 1}
MCLates == {0, 13 * Hour}
MCJumps == {-Day, 30, 13 * Hour, 8 * Day}

Simple == [set |-> {}, sandbox |-> {}, home |-> "yes", seccomp |-> "off", user |-> "root", sockets |-> <<>>,
           restart |-> FALSE, others |-> 0, command |-> <<"a", " ">>, args |-> <<>>, argv |-> <<<<"a">>>>]
Has(set) == [Simple EXCEPT !.set = set]
Boxed(sandbox) == [Simple EXCEPT !.sandbox = sandbox]

\* How the start is prepared and how it ends.
Started ==
  {Has(s) : s \in {{"condition_unmet"}, {"exec_start_pre"}, {"exec_start_post"}, {"no_cgroup2", "cpu_quota"}, {"oneshot"}, {"console"}, {"watchdog", "healthcheck"},
                   {"bad_cap"}, {"cgroup_config", "cpu_quota", "tasks_max", "memory_swap_max", "io_weight", "io_latency", "bad_quota"},
                   {"no_cgroup2", "io_weight", "io_latency"},
                   {"ip_filter", "directory"}}}
  \cup {[Has({"directory"}) EXCEPT !.user = x] : x \in {"user", "unknown", "dynamic"}}
  \cup {[Has({"uids_used"}) EXCEPT !.user = "dynamic"]}
  \cup {[Has(s) EXCEPT !.restart = TRUE, !.user = x] : s \in {{}, {"console"}}, x \in {"root", "user", "dynamic"}}
  \cup {[Has({"notify"}) EXCEPT !.sockets = <<"unix">>]}
  \cup {[Has(s) EXCEPT !.sockets = q, !.others = 1] : s \in {{}, {"console"}}, q \in {<<"unix", "tcp">>, <<"bad", "unix", "tcp">>, <<"unix", "tcp", "unix">>}}

\* What the child applies.
Confined ==
  {Has(s) : s \in {{"tty"}, {"apparmor"}, {"apparmor", "no_apparmor"}, {"rlimit", "private_tmp", "protect_system"}}}
  \cup {[Has({"no_new_privileges", "non_dumpable", "clear_ambient_caps", "capability_bounding_set"}) EXCEPT
           !.user = x, !.seccomp = s] :
          x \in {"root", "user"}, s \in {"off", "allowlist", "strict", "default", "network-daemon", "network-tight", "unknown"}}
  \cup {[Has({"drop_capabilities", "ambient_capabilities", "landlock"}) EXCEPT !.user = x] : x \in {"root", "user"}}
  \cup {[Boxed({"private_devices"}) EXCEPT !.set = {"private_tmp"}, !.seccomp = s] : s \in {"allowlist", "default", "network-daemon"}}
  \cup {[Boxed({"private_network", "protect_proc", "root_directory"}) EXCEPT !.user = x] : x \in {"root", "user"}}
  \cup {Boxed({"private_network", "private_ipc", "protect_hostname", "private_devices"}),
        [Boxed({"protect_home", "protect_kernel_tunables", "protect_kernel_logs"}) EXCEPT !.home = "read-only"],
        Boxed({"protect_home", "protect_control_groups", "inaccessible_paths", "read_only_paths"}),
        Boxed({"bind_paths", "bind_read_only_paths", "memory_deny_write_execute", "restrict_suid_sgid"}),
        Boxed({"root_image", "root_directory", "temporary_filesystems", "mount_api_vfs"}),
        Boxed({"temporary_filesystems", "proc_subset_pid", "restrict_realtime", "lock_personality"})}

\* Every word of two characters, quoted in every way it can be, and a second word.
Chars == {"a", " ", "'", "\"", "\\"}
Line(command, args, argv) == [Has({"console"}) EXCEPT !.command = command, !.args = args, !.argv = argv]
Quoted ==
  {Line(QuoteLine(<<p[1], "bare">>, <<p[2], <<"a">>>>), <<>>, <<p[2], <<"a">>>>) :
     p \in {q \in Styles \X ((Chars \X Chars) \cup {<<>>}) : CanQuote(q[1], q[2])}}
  \cup {Line(<<" ", "a">>, <<<<"'">>>>, <<<<" ", "a">>, <<"'">>>>), Line(<<"'">>, <<>>, <<>>), Line(<<" ">>, <<>>, <<>>)}

\* One timer each with a client that takes the mutex, and with a clock that is set once.
Load(timers, units, starts, b, c, n) ==
  [timer : timers, unit : units, start : starts, boots : {b}, sets : {c}, clients : {n}]
Skipped == {Has({"condition_unmet"})}
Twice(e) == [OnCalendar(e) EXCEPT !.rounds = 2]
MCWorkloads ==
  Load(MCTimers, Skipped, {4 * Day - 1}, 1, 0, 0)
  \cup Load({OnCalendar(Expr("weekly")), OnCalendar(At("", 3, 0))}, Skipped, {4 * Day + 3 * Hour}, 1, 1, 0)
  \cup Load({Twice(Expr("weekly")), Twice(At("Fri", 3, 0))}, Skipped, MCStarts, 0, 1, 0)
  \cup Load({Twice(Expr("hourly"))}, {Has({"console"}), Has({"notify", "console"})}, {0}, 0, 0, 0)
  \cup Load({AtBoot}, {Has({"console"})}, {0}, 1, 0, 1)
  \cup Load({AtBoot}, Started \cup Confined \cup Quoted, {0}, 0, 0, 0)
MCPlain == Load({Twice(Expr("hourly"))}, {Has({"console"})}, {0}, 0, 0, 0)
=============================================================================
