------------------------------- MODULE Sandbox -------------------------------
(***************************************************************************)
(* The child between fork and exec (process.rs, sandbox.rs): credentials,  *)
(* hardening, descriptors, filters, namespaces and mounts, in the order    *)
(* the code applies them.  `u' is the unit, `j' the child: what it has     *)
(* applied so far.  A mount lands in the child's own mount namespace once  *)
(* it has one, else in the host's.                                         *)
(***************************************************************************)
EXTENDS Results

\* The system calls the child makes after its filter is in place.
Nrs == {"prctl", "setrlimit", "unshare", "mount", "chroot", "landlock", "personality", "execve"}
Deny(profile) ==
  CASE profile \in {"default", "network-tight"} -> {"mount"}
    [] profile = "network-daemon" -> {"mount", "unshare"}

NewChild(faults, uid, fds, log, socks) ==
  [faults |-> faults, uid |-> uid, fds |-> fds, log |-> log, socks |-> socks, dead |-> FALSE,
   did |-> {}, ns |-> {}, mounts |-> {}, host |-> {}, loops |-> 0, reported |-> FALSE,
   kills |-> {}, refuses |-> {}]

\* A system call under the seccomp filter in force; a killed child does nothing more.
Syscall(j, nr, can, i) ==
  CASE j.dead -> Err(j)
    [] ~j.dead /\ nr \in j.kills -> Err([j EXCEPT !.dead = TRUE])
    [] OTHER -> Call(j, can /\ nr \notin j.refuses, i)
IsRoot(j) == j.uid = "root"
Did(j, x) == [j EXCEPT !.did = @ \cup {x}]
Ignored(R) == Always(R, LAMBDA i : Ok(i, None))
Exit(R) == Always(R, LAMBDA i : Err([i EXCEPT !.dead = TRUE]))
OrExit(R) == OrElse(R, LAMBDA i : Exit(Ok(i, None)))
When(c, j, R) == IF c THEN R ELSE Ok(j, None)

Unshare(j, ns) == Syscall(j, "unshare", IsRoot(j), [j EXCEPT !.ns = @ \cup {ns}])
\* A process under Landlock may not change the mount tree.
Mount(j, p) ==
  Syscall(j, "mount", IsRoot(j) /\ "landlock" \notin j.did,
          IF "mnt" \in j.ns THEN [j EXCEPT !.mounts = @ \cup {p}] ELSE [j EXCEPT !.host = @ \cup {p}])
MountAll(j, s) == Calls(j, s, Mount)
MountEach(j, s) == Calls(j, s, LAMBDA i, p : Ignored(Mount(i, p)))
InMountNs(j, F(_)) == Then(Unshare(j, "mnt"), LAMBDA i, x : F(i))

------------------------------------------------------------------------------
\* sandbox.rs, one operator per setup function.  A bind and its read-only remount are <<p, p-ro>>.
SetupPrivateNetwork(j) == Unshare(j, "net")
SetupPrivateIpc(j) == Unshare(j, "ipc")
SetupProtectHostname(j) == Unshare(j, "uts")
SetupPrivateDevices(j) == InMountNs(j, LAMBDA i : MountEach(i, <<"/dev/disk", "/dev/kmsg">>))
SetupProtectHome(j, mode) ==
  InMountNs(j, LAMBDA i : MountAll(i, IF mode = "read-only" THEN <<"/home", "/home-ro", "/root", "/root-ro">>
                                      ELSE <<"/home", "/root">>))
SetupProtectProc(j) == InMountNs(j, LAMBDA i : Mount(i, "/proc"))
SetupProtectKernelTunables(j) == InMountNs(j, LAMBDA i : MountEach(i, <<"/sys", "/sys-ro">>))
SetupProtectKernelLogs(j) == InMountNs(j, LAMBDA i : Mount(i, "/dev/kmsg"))
SetupProtectControlGroups(j) ==
  InMountNs(j, LAMBDA i : Then(Ignored(Mount(i, "/sys/fs/cgroup")), LAMBDA h, x : Mount(h, "/sys/fs/cgroup-ro")))
SetupInaccessiblePaths(j) == InMountNs(j, LAMBDA i : MountEach(i, <<"/hidden">>))
SetupReadOnlyPaths(j) == InMountNs(j, LAMBDA i : MountEach(i, <<"/etc", "/etc-ro">>))
SetupBindPaths(j, ro) == InMountNs(j, LAMBDA i : MountAll(i, IF ro THEN <<"/src", "/src-ro">> ELSE <<"/bound">>))
SetupMemoryDenyWriteExecute(j) == Ignored(Syscall(j, "prctl", TRUE, Did(j, "mdwe")))
SetupRestrictSuidSgid(j) == Ignored(Syscall(j, "prctl", IsRoot(j), Did(j, "securebits")))
SetupRootDirectory(j) == Syscall(j, "chroot", IsRoot(j), Did(j, "chroot"))
\* The loop device stays bound when no file system fits; nothing unshares before the mount.
SetupRootImage(j) ==
  Then(Call(j, IsRoot(j), [j EXCEPT !.loops = @ + 1]),
       LAMBDA i, x : Then(Mount(i, "/run/quantra-service-root"), LAMBDA h, y : SetupRootDirectory(h)))
SetupTemporaryFilesystems(j) == InMountNs(j, LAMBDA i : MountAll(i, <<"/scratch">>))
SetupMountApiVfs(j) == InMountNs(j, LAMBDA i : MountEach(i, <<"/proc", "/dev">>))
SetupProcSubsetPid(j) == InMountNs(j, LAMBDA i : MountEach(i, <<"/proc">>))
SetupRestrictRealtime(j) == Ignored(Syscall(j, "prctl", TRUE, Did(j, "timerslack")))
SetupLockPersonality(j) == Ignored(Syscall(j, "personality", TRUE, Did(j, "personality")))

\* apply_sandbox and apply_sandbox_extended: the settings of the unit, in this order, up to the
\* first that fails.  A root image takes precedence over a root directory.
SandboxOrder ==
  <<"private_network", "private_ipc", "protect_hostname", "private_devices", "protect_home", "protect_proc",
    "protect_kernel_tunables", "protect_kernel_logs", "protect_control_groups", "inaccessible_paths",
    "read_only_paths", "bind_paths", "bind_read_only_paths", "memory_deny_write_execute",
    "restrict_suid_sgid", "root_image", "root_directory", "temporary_filesystems", "mount_api_vfs",
    "proc_subset_pid", "restrict_realtime", "lock_personality">>
Setup(u, j, s) ==
  CASE s = "private_network" -> SetupPrivateNetwork(j)
    [] s = "private_ipc" -> SetupPrivateIpc(j)
    [] s = "protect_hostname" -> SetupProtectHostname(j)
    [] s = "private_devices" -> SetupPrivateDevices(j)
    [] s = "protect_home" -> SetupProtectHome(j, u.home)
    [] s = "protect_proc" -> SetupProtectProc(j)
    [] s = "protect_kernel_tunables" -> SetupProtectKernelTunables(j)
    [] s = "protect_kernel_logs" -> SetupProtectKernelLogs(j)
    [] s = "protect_control_groups" -> SetupProtectControlGroups(j)
    [] s = "inaccessible_paths" -> SetupInaccessiblePaths(j)
    [] s = "read_only_paths" -> SetupReadOnlyPaths(j)
    [] s = "bind_paths" -> SetupBindPaths(j, FALSE)
    [] s = "bind_read_only_paths" -> SetupBindPaths(j, TRUE)
    [] s = "memory_deny_write_execute" -> SetupMemoryDenyWriteExecute(j)
    [] s = "restrict_suid_sgid" -> SetupRestrictSuidSgid(j)
    [] s = "root_image" -> SetupRootImage(j)
    [] s = "root_directory" -> When("root_image" \notin u.sandbox, j, SetupRootDirectory(j))
    [] s = "temporary_filesystems" -> SetupTemporaryFilesystems(j)
    [] s = "mount_api_vfs" -> SetupMountApiVfs(j)
    [] s = "proc_subset_pid" -> SetupProcSubsetPid(j)
    [] s = "restrict_realtime" -> SetupRestrictRealtime(j)
    [] s = "lock_personality" -> SetupLockPersonality(j)
ApplySandbox(u, j) ==
  Calls(j, SandboxOrder, LAMBDA i, s :
    When(s \in u.sandbox, i, Then(Setup(u, i, s), LAMBDA h, x : Ok(Did(h, s), None))))

------------------------------------------------------------------------------
\* process.rs.  A terminal that cannot be attached is replaced by the console.
AttachTerminal(j) == Call(j, TRUE, Did(j, "tty"))
SetupConsoleIo(j) == Call(j, TRUE, Did(j, "console"))
Stdio(u, j) ==
  IF "tty" \in u.set THEN OrExit(OrElse(AttachTerminal(j), SetupConsoleIo))
  ELSE When(j.log = None, j, Ignored(SetupConsoleIo(j)))

\* setgroups, setgid, setuid: a child that is no longer root has no capabilities left.
TryCredentials(u, j, uid) == IF uid = "root" THEN Ok(j, None) ELSE Ignored(Call(j, TRUE, [j EXCEPT !.uid = uid]))
DropCredentials(u, j, uid) == IF uid = "root" THEN Ok(j, None) ELSE OrExit(Call(j, TRUE, [j EXCEPT !.uid = uid]))

HardeningSteps == <<"no_new_privileges", "non_dumpable", "clear_ambient_caps", "capability_bounding_set",
                    "drop_capabilities", "ambient_capabilities">>
Harden(u, j, s) ==
  LET R == Syscall(j, "prctl", s \in {"no_new_privileges", "non_dumpable", "clear_ambient_caps"} \/ IsRoot(j), Did(j, s))
  IN  When(s \in u.set, j, IF s \in {"capability_bounding_set", "ambient_capabilities"} THEN Ignored(R) ELSE R)
ApplyChildHardening(u, j) == Calls(j, HardeningSteps, LAMBDA i, s : Harden(u, i, s))

\* The log pipe becomes stdout and stderr, then socket n becomes descriptor 2 + n.  dup2 of a
\* descriptor that is not open fails, and its result is not looked at.
DupLog(j) == IF j.log = None THEN j ELSE [Did(j, "log") EXCEPT !.fds[j.log] = None]
Dup2(fds, from, to) == IF fds[from] = None THEN fds ELSE [fds EXCEPT ![to] = fds[from]]
PassFdsDownwards(j) ==
  LET moved[n \in 0 .. Len(j.socks)] ==
        IF n = 0 THEN j.fds ELSE Dup2(moved[n - 1], j.socks[Len(j.socks) + 1 - n], Len(j.socks) + 3 - n)
  IN  [j EXCEPT !.fds = moved[Len(j.socks)]]
Moved(fds, socks) ==
  LET moved[n \in 0 .. Len(socks)] == IF n = 0 THEN fds ELSE Dup2(moved[n - 1], socks[n], 2 + n)
  IN  moved[Len(socks)]
PassFds(j) == [j EXCEPT !.fds = Moved(j.fds, j.socks)]

ConfineNextExec(u, j) == IF "no_apparmor" \in u.set THEN Ok(j, None) ELSE Call(j, TRUE, Did(j, "apparmor"))

\* A filter without no_new_privs takes a capability; the allowlist sets it first.
ApplySeccompAllowlist(j) == Syscall(j, "prctl", TRUE, [Did(j, "seccomp") EXCEPT !.refuses = {"landlock"}])
ApplySeccompDenylist(u, j) ==
  Syscall(j, "prctl", IsRoot(j) \/ "no_new_privileges" \in j.did, [Did(j, "seccomp") EXCEPT !.kills = Deny(u.seccomp)])
ApplySeccompStrict(j) == Syscall(j, "prctl", TRUE, [Did(j, "seccomp") EXCEPT !.kills = Nrs])
ApplySeccomp(u, j) ==
  CASE u.seccomp = "off" -> Ok(j, None)
    [] u.seccomp = "allowlist" -> ApplySeccompAllowlist(j)
    [] u.seccomp = "strict" -> ApplySeccompStrict(j)
    [] OTHER -> ApplySeccompDenylist(u, j)

ApplyRlimit(j) == Ignored(Syscall(j, "setrlimit", TRUE, Did(j, "rlimit")))
ApplyNamespaces(u, j) ==
  Ignored(InMountNs(j, LAMBDA i : Then(When("private_tmp" \in u.set, i, Ignored(Mount(i, "/tmp"))),
                     LAMBDA h, x : When("protect_system" \in u.set, h, Ignored(Mount(h, "/"))))))
ApplyLandlock(j) ==
  Ignored(Syscall(j, "landlock", IsRoot(j) \/ "no_new_privileges" \in j.did, Did(j, "landlock")))
ReportSandbox(u, j) == OrElse(ApplySandbox(u, j), LAMBDA i : Ok([i EXCEPT !.reported = TRUE], None))

\* start_service_as after the fork.  Every descriptor but the sockets is close-on-exec.
ChildStep(u, uid, j, s) ==
  CASE s = "setsid" -> OrExit(Call(j, TRUE, j))
    [] s = "stdio" -> Stdio(u, j)
    [] s = "chdir" -> OrExit(Call(j, TRUE, j))
    [] s = "credentials" -> DropCredentials(u, j, uid)
    [] s = "hardening" -> OrExit(ApplyChildHardening(u, j))
    [] s = "fds" -> Ok(PassFds(DupLog(j)), None)
    [] s = "apparmor" -> When("apparmor" \in u.set, j, OrExit(ConfineNextExec(u, j)))
    [] s = "seccomp" -> OrExit(ApplySeccomp(u, j))
    [] s = "rlimit" -> When("rlimit" \in u.set, j, ApplyRlimit(j))
    [] s = "namespaces" -> When({"private_tmp", "protect_system"} \cap u.set # {}, j, ApplyNamespaces(u, j))
    [] s = "landlock" -> When("landlock" \in u.set, j, ApplyLandlock(j))
    [] s = "sandbox" -> ReportSandbox(u, j)
    [] s = "exec" -> OrExit(Syscall(j, "execve", TRUE, Did(j, "exec")))
ChildOrder == <<"setsid", "stdio", "chdir", "credentials", "hardening", "fds", "apparmor", "seccomp", "rlimit",
                "namespaces", "landlock", "sandbox", "exec">>
RunChild(u, uid, j) == {r.k : r \in Calls(j, ChildOrder, LAMBDA i, s : ChildStep(u, uid, i, s))}
=============================================================================
