----------------------------- MODULE RamfsKernel -----------------------------
(***************************************************************************)
(* The world quantra-ramfs boots in: one thread, whose functions are sets  *)
(* of results over the kernel state k.  The facts `w' of the machine say   *)
(* which calls are refused; MaxFaults others fail at random in a boot.     *)
(***************************************************************************)
EXTENDS Results, SequencesExt

CONSTANTS Devices,     \* block devices, in the order list_all_block_devices sorts them
          Fallbacks,   \* those find_root falls back to, in its order
          Machines,    \* kernel command lines with the facts of their machines
          MaxFaults    \* bound on calls the kernel refuses at random

VARIABLES w,           \* the machine and its command line
          k            \* the kernel, as far as the initramfs changes it

\* MOUNT_TARGETS and MOUNT_MOVE_ORDER of switch.rs.
MountTargets == <<"/zairoot", "/mnt/root">>
MoveOrder == <<"/dev", "/proc", "/sys", "/run">>
Points == ToSet(MountTargets) \cup ToSet(MoveOrder)
            \cup {"search", "medium", "iso", "keys", "merged", "home", "root"}

Kernel0 ==
  [faults |-> MaxFaults, phase |-> None, pcr |-> <<>>,
   sys |-> {d \in ToSet(Devices) : w.disk[d].at = "boot"}, nodes |-> {}, links |-> {},
   queue |-> None, mnt |-> [p \in Points |-> None], dirs |-> w.ships, moved |-> {},
   dm |-> [n \in {"verity", "luks"} |-> None], loop |-> None, handles |-> {},
   net |-> {}, bound |-> {}, addr |-> {}, up |-> w.up, splash |-> FALSE, key |-> None, cdrom |-> None, session |-> FALSE]

\* find_bin, and a command that is run to completion.
FindBin(b) == b \in w.bins
Command(j, b, can, i) == IF FindBin(b) THEN Call(j, can, i) ELSE Err(j)

\* What a device holds once it can be opened: a file system, "crypto" for a LUKS header.  For a
\* device-mapper device devtmpfs makes the node dm-N; the name in /dev/mapper is made by
\* cryptsetup, and by nobody for the device that verity.rs sets up with bare ioctls.
Holds(j, d) ==
  CASE d = "luks"   -> IF j.dm.luks = "live" THEN w.inside ELSE None
    [] d = "loop"   -> IF j.loop # None THEN "erofs" ELSE None
    [] OTHER        -> IF d \in j.nodes THEN w.disk[d].fs ELSE None

MountAt(j, d, at) == [j EXCEPT !.mnt[at] = d]
MountUntyped(j) == Err(j)              \* mount(2) of a device without a file system type: EINVAL
CleanupMount(j, at) == [j EXCEPT !.mnt[at] = None]
MkDir(j, d) == Call(j, TRUE, [j EXCEPT !.dirs = @ \cup {d}])

\* The fields that the kernel writes into /sys/class/block/*/uevent: those of a udev database
\* (ID_FS_UUID, ID_FS_LABEL) are not among them.
UeventFields == {"MAJOR", "MINOR", "DEVNAME", "DEVTYPE"}

\* A block device the kernel finds: devtmpfs makes its node, or leaves that to the uevent.
Appears(j, d) ==
  [j EXCEPT !.sys = @ \cup {d},
            !.nodes = IF w.populates /\ j.mnt["/dev"] # None THEN @ \cup {d} ELSE @,
            !.queue = IF @ = None THEN None ELSE @ \cup {d}]
=============================================================================
