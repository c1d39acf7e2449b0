------------------------------ MODULE RamfsRoot ------------------------------
(***************************************************************************)
(* How quantra-ramfs gets from a root device to a running init: fsck,      *)
(* dm-verity, LUKS with its three sources of a key, the mount itself, the  *)
(* overlay, the choice of init, and the switch of the root.                *)
(***************************************************************************)
EXTENDS RamfsDevices

------------------------------------------------------------------------------
\* rootfs.rs: find_root.
DevicePath == w.root.dev
ProbeDeviceFast(j, d) == d \in j.nodes
RootIsThere(j) == IF w.root.by = "label" THEN DevicePath \in j.links ELSE ProbeDeviceFast(j, DevicePath)
MaxRetries == IF w.rootwait = None THEN 2 ELSE w.rootwait          \* 20 tries of 50 ms, cut to 2
FallbackRoot(j) == FirstOf(j, Fallbacks, LAMBDA i, d : IF ProbeDeviceFast(i, d) THEN Ok(i, d) ELSE Err(i))

\* switch.rs: find_mount_target.
FindMountTarget(j) == FirstOf(j, MountTargets, LAMBDA i, t : Then(MkDir(i, t), LAMBDA h, x : Ok(h, t)))

------------------------------------------------------------------------------
\* fsck.rs.  Exit 2 asks for a reboot; other errors are warnings to main.
SkipFstypes == {"squashfs", "iso9660", "tmpfs", "nfs"}
FindFsckBinary == FindBin("fsck")
CheckRoot(j, d) ==
  IF w.fstype \in SkipFstypes \/ w.root.by = "nfs" \/ d = "ram0" \/ ~FindFsckBinary THEN Ok(j, "clean")
  ELSE Then(Call(j, TRUE, j), LAMBDA i, x : Ok(i, w.disk[d].fsck))

------------------------------------------------------------------------------
\* verity.rs, main.rs: setup_verity_device.  Nothing takes the device down again on an error.  A
\* missing rd.verity.hash= is taken from rd.verity.data= before main replaces an empty one.
DecodeRoothash == w.verity.roothash
ParseVerityCmdline == w.verity.data # None /\ DecodeRoothash = "valid"
DataDevice(d) == IF w.verity.data = "" THEN d ELSE w.verity.data
HashDevice == IF w.verity.hash = None THEN w.verity.data ELSE w.verity.hash
DmVersionCheck(j) == Call(j, TRUE, j)
DmDevCreate(j) == Call(j, j.dm.verity = None, [j EXCEPT !.dm.verity = "empty"])
GetBlockDeviceSectors(j, d) == Call(j, ProbeDeviceFast(j, d), j)
DmTableLoadVerity(j) ==
  Call(j, j.dm.verity = "empty" /\ ProbeDeviceFast(j, HashDevice), [j EXCEPT !.dm.verity = "loaded"])
DmDevResume(j) == Call(j, j.dm.verity = "loaded", [j EXCEPT !.dm.verity = "live"])
SetupVerity(j, data) ==
  Then(MkDir(j, "mapper"), LAMBDA a, x1 : Then(Call(a, TRUE, a), LAMBDA b, x2 :
  Then(DmVersionCheck(b), LAMBDA c, x3 : Then(DmDevCreate(c), LAMBDA d, x4 :
  Then(GetBlockDeviceSectors(d, data), LAMBDA e, x5 : Then(DmTableLoadVerity(e), LAMBDA f, x6 :
  DmDevResume(f)))))))
SetupVerityIgnored(j, d) == OrElse(
  IF ParseVerityCmdline THEN Then(SetupVerity(j, DataDevice(d)), LAMBDA i, x : Ok(i, "verity")) ELSE Err(j),
  LAMBDA i : Ok(i, d))
SetupVerityDevice(j, d) ==
  IF ParseVerityCmdline THEN Then(SetupVerity(j, DataDevice(d)), LAMBDA i, x : Ok(i, "verity")) ELSE Err(j)

------------------------------------------------------------------------------
\* tpm2.rs.  The key was sealed to the measurements of a boot with this command line.
ReadParentHandle(j) == Call(j, "handle" \in w.facts, j)
ParseBlob(j) == Call(j, "blob" \in w.facts, j)
OpenTpmDevice(j) == Call(j, OpenTpm(j), j)
Tpm2Load(j) == Call(j, TRUE, [j EXCEPT !.handles = @ \cup {"object"}])
Tpm2StartAuthSession(j) == Call(j, TRUE, [j EXCEPT !.handles = @ \cup {"session"}])
Tpm2PolicyPcr(j) == Call(j, "session" \in j.handles, j)
Tpm2Unseal(j) == Then(Call(j, j.pcr = w.sealed, j), LAMBDA i, x : Ok(i, "right"))
Tpm2FlushContext(j, h) == Always(Call(j, TRUE, [j EXCEPT !.handles = @ \ {h}]), LAMBDA i : Ok(i, "right"))

\* The resource manager forgets the handles of a client that closes; the bare device does not.
CloseTpm(R) == {[r EXCEPT !.k.handles = IF w.tpm = "tpmrm0" THEN {} ELSE @] : r \in R}
UnsealLuksKey(j) ==
  CloseTpm(
    Then(ReadParentHandle(j), LAMBDA a, x1 : Then(OpenTpmDevice(a), LAMBDA b, x2 :
    Then(ParseBlob(b), LAMBDA c, x3 : Then(Tpm2Load(c), LAMBDA d, x4 :
    Then(Tpm2StartAuthSession(d), LAMBDA e, x5 : Then(Tpm2PolicyPcr(e), LAMBDA f, x6 :
    Then(Tpm2Unseal(f), LAMBDA g, x7 :
    Always(Tpm2FlushContext(g, "session"), LAMBDA h : Tpm2FlushContext(h, "object"))))))))))

\* rootfs.rs: a key file on a device of its own is read through a mount.
\* That mount names no file system type, so that Linux refuses it.
ReadKeyFile(j) == Then(Call(j, w.keyfile.has, j), LAMBDA i, x : Ok(i, w.keyfile.key))
ReadKeyfile(j) ==
  IF w.keyfile.dev = None THEN ReadKeyFile(j)
  ELSE Then(MountUntyped(j), LAMBDA i, x :
            Then(ReadKeyFile(i), LAMBDA h, key : Ok(CleanupMount(h, "keys"), key)))

\* What the operator has typed once the line ends, for which the code waits as long as it takes.
PromptLuksPassphrase(j) ==
  Then(Call(j, j.mnt["/dev"] # None, j), LAMBDA i, x : IF w.typed = "empty" THEN Err(i) ELSE Ok(i, w.typed))

OpenLuksWithPassphrase(j, key) ==
  Then(Command(j, "cryptsetup", key = "right", [j EXCEPT !.dm.luks = "live"]), LAMBDA i, x : Ok(i, "luks"))

\* The first source that yields a key is the only one that is tried on the volume.
Unsealed(R) == Then(R, LAMBDA i, key : Ok([i EXCEPT !.key = "tpm"], key))
OpenLuksDevice(j) ==
  LET tpm == IF w.tpm # None /\ "blob" \in w.facts THEN Unsealed(UnsealLuksKey(j)) ELSE Err(j)
      file == OrElse(tpm, LAMBDA i : IF w.keyfile # None THEN ReadKeyfile(i) ELSE Err(i))
  IN  Then(OrElse(file, PromptLuksPassphrase), OpenLuksWithPassphrase)

------------------------------------------------------------------------------
\* rootfs.rs: the loop device over an image inside an ISO.
AttachLoopFd(j) == Then(Call(j, w.loop.has, j), LAMBDA i, x : Call(i, i.loop = None, [i EXCEPT !.loop = "iso"]))
SetupLoopIoctl(j) == Then(Call(j, "loop-control" \in j.nodes, j), LAMBDA i, x : AttachLoopFd(i))
SetupLoopKeepsIso(j, d) ==
  Then(Call(j, Holds(j, d) = "iso9660", MountAt(j, d, "iso")), LAMBDA i, x :
       IF ~w.loop.has THEN Err(CleanupMount(i, "iso")) ELSE SetupLoopIoctl(i))
SetupLoopDevice(j, d) ==
  Then(Call(j, Holds(j, d) = "iso9660", MountAt(j, d, "iso")), LAMBDA i, x :
       IF ~w.loop.has THEN Err(CleanupMount(i, "iso"))
       ELSE OrElse(SetupLoopIoctl(i), LAMBDA h : Err(CleanupMount(h, "iso"))))

\* rootfs.rs: mount_root_impl.  The candidates of file systems are tried on `device', not on
\* the device that LUKS opened.
IsLuksDevice(j, d) == Then(Call(j, Holds(j, d) # None, j), LAMBDA i, x : Ok(i, Holds(i, d) = "crypto"))
TryMountRootCandidates(j, d, t) == Call(j, Holds(j, d) \notin {None, "crypto"}, MountAt(j, d, t))
MountBtrfsSubvol(j, d, t) == Call(j, Holds(j, d) = "btrfs", MountAt(j, d, t))
MountPartition(j, d, actual, t) ==
  IF w.fstype = "btrfs" THEN MountBtrfsSubvol(j, actual, t) ELSE TryMountRootCandidates(j, d, t)
MountIso(j, d, t) ==
  IF w.loop # None THEN Then(SetupLoopDevice(j, d), LAMBDA i, x : Call(i, TRUE, MountAt(i, "loop", t)))
  ELSE Call(j, Holds(j, d) = "iso9660", MountAt(j, d, t))
MountActual(j, d, actual, t) ==
  CASE actual = "sr0" -> MountIso(j, d, t)
    [] actual = "ram0" -> TryMountRootCandidates(j, d, t)
    [] OTHER -> MountPartition(j, d, actual, t)
MountRootAt(j, d, t) ==
  Then(MkDir(j, t), LAMBDA a, x1 : Then(IsLuksDevice(a, d), LAMBDA b, luks :
    IF ~luks THEN MountActual(b, d, d, t)
    ELSE IF w.luks = None THEN Err(b)
    ELSE Then(OpenLuksDevice(b), LAMBDA c, actual : MountActual(c, d, actual, t))))

------------------------------------------------------------------------------
\* overlay.rs
OverlayDisabled == "zainium.overlay=off" \in w.args
Writable(j, t) == Holds(j, j.mnt[t]) \notin {"iso9660", "erofs", None}
BindPersistentDir(j, name) ==
  IF name \notin w.facts THEN Ok(j, None) ELSE Call(j, TRUE, MountAt(j, "bind", name))
MountOverlay(j, t) ==
  IF "syshub" \notin w.facts THEN Err(j)
  ELSE Then(Call(j, Writable(j, t), j), LAMBDA a, x1 : Then(MkDir(a, "/new_root"), LAMBDA b, x2 :
       Then(Call(b, "overlayfs" \in w.facts, MountAt(b, "overlay", "merged")), LAMBDA c, x3 :
       Then(Calls(c, <<"home", "root">>, BindPersistentDir), LAMBDA d, x4 : Ok(d, "/new_root")))))

------------------------------------------------------------------------------
\* switch.rs.  The init binaries there are under a root: the overlay shows those of syshub.
Inits == <<"quantra", "s6-quantra", "/sbin/init", "bash", "sh">>
Shells == {"bash", "sh"}
SyshubInits == {"quantra", "s6-quantra", "custom"} \cup Shells
Under(j, root) == IF root = "/new_root" THEN (IF j.mnt["merged"] # None THEN w.inits \cap SyshubInits ELSE {})
                  ELSE IF j.mnt[root] # None THEN w.inits ELSE {}
FindInitBinary(j, root) ==
  LET there == SelectSeq(Inits, LAMBDA i : i \in Under(j, root)) IN IF there = <<>> THEN "/bin/sh" ELSE Head(there)
CmdlineInit(j, root) == IF w.init \in ToSet(Inits) THEN w.init ELSE Inits[1]
MountPoint(j) == LET there == SelectSeq(MountTargets, LAMBDA t : t \in j.dirs) IN Head(there \o MountTargets)
DiscoverBootTarget(j, root) ==
  [mount |-> MountPoint(j),
   init |-> IF w.init # None /\ w.init \in Under(j, root) THEN CmdlineInit(j, root) ELSE FindInitBinary(j, root)]
RescueBootTarget(j) ==
  LET there == SelectSeq(Inits, LAMBDA i : i \in Shells \cap Under(j, "/new_root"))
  IN  [mount |-> MountPoint(j), init |-> Head(there \o <<"sh">>)]

\* pivot_to_root prefers /new_root whenever that directory exists.
PivotTarget(j, target) == IF "/new_root" \in j.dirs THEN "/new_root" ELSE target.mount
MoveMount(j, p) == Call(j, j.mnt[p] # None, [j EXCEPT !.moved = @ \cup {p}, !.mnt[p] = None])
Exec(j, root, init) == Then(Call(j, init \in Under(j, root), j), LAMBDA i, x : Ok(i, [root |-> root, init |-> init]))
Chroot(j) == Call(j, TRUE, j)
PivotToRoot(j, target) ==
  LET root == PivotTarget(j, target)
  IN  Then(Calls(j, MoveOrder, MoveMount), LAMBDA a, x1 : Then(Call(a, TRUE, a), LAMBDA b, x2 :
      Then(OrElse(Call(b, TRUE, b), Chroot), LAMBDA c, x3 : Then(Call(c, TRUE, c), LAMBDA d, x4 :
      Exec(d, root, target.init)))))
=============================================================================
