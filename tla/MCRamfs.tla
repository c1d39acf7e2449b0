------------------------------- MODULE MCRamfs -------------------------------
(***************************************************************************)
(* Machines for quantra-ramfs: one plain machine and what is special about *)
(* each of the others.  `ships' are the directories that are in the image: *)
(* the documented one has /new_root and /zairoot.                          *)
(***************************************************************************)
EXTENDS Ramfs

\* "sda1" and "sr0" are among find_root's fallbacks, "nvme0" is not.
MCDevices == <<"nvme0", "sda1", "sr0">>
MCFallbacks == <<"sda1", "sr0">>

Disk(fs, at) == [fs |-> fs, at |-> at, image |-> FALSE, fsck |-> "clean"]
Bins == {"fsck", "cryptsetup", "mdadm", "lvm", "vgscan", "ip", "iscsistart", "nbd-client", "multipath", "multipathd", "stratis",
         "plymouthd", "loadkeys"}
Absent == Disk(None, "never")
NoStack == [s \in {"md", "lvm", "multipath", "stratis", "iscsi", "nbd"} |-> None]
Sealed(args) == <<<<"cmdline", args>>, <<"phase", "Cmdline">>, <<"phase", "RootfsDetect">>, <<"phase", "RootfsMount">>>>

Plain ==
  [ships |-> {"/new_root", "/zairoot"}, args |-> {}, root |-> [by |-> "dev", dev |-> "sda1"], rootwait |-> None, fstype |-> None, verity |-> None,
   luks |-> None, keyfile |-> None, typed |-> "empty", loop |-> None, init |-> None,
   disk |-> ("nvme0" :> Absent @@ "sda1" :> Disk("ext4", "boot") @@ "sr0" :> Absent),
   inside |-> "ext4", populates |-> TRUE, bins |-> Bins, facts |-> {"syshub", "overlayfs", "home"},
   inits |-> {"quantra", "bash", "/sbin/init"}, tpm |-> "tpmrm0", sealed |-> Sealed({}), gives |-> NoStack,
   ifaces |-> <<>>, up |-> {}, servers |-> {}, dhcp |-> [any |-> FALSE, ifaces |-> <<>>]]

With(args) == [Plain EXCEPT !.args = args, !.sealed = Sealed(args)]
On(d, disk) == [Plain EXCEPT !.root.dev = d, !.disk[d] = disk]

\* The command line and the disk.
Stops == {With({a}) : a \in {"rd.shell", "rd.break=pre-mount", "rd.break=pre-overlay", "rd.break=pre-pivot",
                             "rd.rescue", "rd.fsck=0", "zainium.overlay=off", "splash"}}
         \cup {[With({"zainium.overlay=off"}) EXCEPT !.ships = {}]}
         \cup {[Plain EXCEPT !.root = None]}
LateDisks ==
  {[On("nvme0", Disk("ext4", at)) EXCEPT !.root.by = by, !.populates = p, !.rootwait = rw] :
     at \in {"boot", "late"}, by \in {"dev", "label"}, p \in BOOLEAN, rw \in {None, Forever}}
  \cup {[On("nvme0", Disk("ext4", "late")) EXCEPT !.populates = FALSE, !.disk["sda1"].at = "late"]}
  \cup {[On("nvme0", Disk("ext4", "late")) EXCEPT !.args = {"rd.udev=0"}, !.disk["sda1"] = Absent]}
Checked == {[Plain EXCEPT !.disk["sda1"].fsck = c] : c \in {"reboot", "errors"}}
Verities ==
  {[Plain EXCEPT !.verity = [data |-> d, hash |-> h, roothash |-> "valid"]] :
     d \in {"sda1", "nvme0", "", None}, h \in {"sda1", None}}
  \cup {[Plain EXCEPT !.verity = [data |-> "sda1", hash |-> None, roothash |-> "odd"]]}

\* Ways to a key.
Luks == [Plain EXCEPT !.disk["sda1"].fs = "crypto", !.luks = "cr", !.typed = "right"]
KeyOn(d, has, key) == [dev |-> d, has |-> has, key |-> key]
LuksRoots ==
  {[Luks EXCEPT !.facts = @ \cup {"blob", "handle"}, !.tpm = t, !.sealed = s, !.fstype = "btrfs", !.inside = "btrfs"] :
     t \in {"tpmrm0", "tpm0"}, s \in {Sealed({}), <<>>}}
  \cup {[Luks EXCEPT !.keyfile = KeyOn(d, h, key), !.disk["nvme0"] = Disk("ext4", "boot")] :
          d \in {None, "nvme0"}, h \in BOOLEAN, key \in {"right", "wrong"}}
  \cup {[Luks EXCEPT !.typed = t, !.fstype = "btrfs", !.inside = "btrfs"] : t \in {"right", "wrong", "empty"}}
  \cup {[Luks EXCEPT !.luks = None]}

\* Live media, loop images and network roots.
IsoRoots ==
  {[On("sr0", [Disk("iso9660", "boot") EXCEPT !.image = im]) EXCEPT
      !.disk["sda1"] = s, !.loop = l, !.facts = f] :
     im \in BOOLEAN, s \in {Absent, Disk("ext4", "boot")}, l \in {None, [has |-> TRUE], [has |-> FALSE]},
     f \in {{"syshub", "overlayfs"}}}
Overlays == {[Plain EXCEPT !.ships = s, !.facts = f, !.inits = i, !.init = n] :
  s \in {{}, {"/new_root", "/zairoot"}}, f \in {{}, {"syshub"}, {"syshub", "overlayfs", "home", "root"}},
  i \in {{"quantra", "custom"}, {"/sbin/init"}, {"/bin/sh"}, {}}, n \in {None, "custom", "bash"}}
Networked(any) == [On("nvme0", Disk("ext4", "stack")) EXCEPT
  !.disk["sda1"] = Absent, !.ifaces = <<"eth0", "eth1">>, !.servers = {"s1", "s2"},
  !.up = IF any THEN {} ELSE {"eth0"},
  !.dhcp = [any |-> any, ifaces |-> IF any THEN <<"eth0", "eth1">> ELSE <<"eth0">>]]
NetRoots ==
  {[Networked(any) EXCEPT !.args = {a}, !.gives[s] = "nvme0"] :
     any \in BOOLEAN, <<a, s>> \in {<<"rd.iscsi", "iscsi">>, <<"nbd", "nbd">>}}
  \cup {[Networked(FALSE) EXCEPT !.args = {"ipv6=slaac", "nbd"}, !.gives.nbd = "nvme0", !.dhcp.ifaces = <<>>],
        [Networked(TRUE) EXCEPT !.root = [by |-> "nfs", dev |-> "nfs"], !.servers = {"s1"}]}
Stacked ==
  {[On("nvme0", Disk("ext4", "stack")) EXCEPT !.disk["sda1"] = Absent, !.args = {a}, !.gives[s] = "nvme0"] :
     <<a, s>> \in {<<"rd.md=1", "md">>, <<"rd.lvm=1", "lvm">>, <<"rd.multipath=1", "multipath">>,
                   <<"rd.stratis.uuid", "stratis">>}}

MCMachines == {Plain} \cup Stops \cup LateDisks \cup Checked \cup Verities \cup LuksRoots \cup IsoRoots
                \cup Overlays \cup NetRoots \cup Stacked
=============================================================================
