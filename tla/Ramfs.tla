-------------------------------- MODULE Ramfs --------------------------------
(***************************************************************************)
(* quantra-ramfs: main, from the first measurement to the exec of init.    *)
(*                                                                         *)
(* main is cut where it waits for something outside it: uevents, DHCP      *)
(* replies, an iSCSI disk, the root device.  Between two cuts it runs      *)
(* alone.  Beside it the kernel finds block devices and the DHCP servers   *)
(* answer.                                                                 *)
(***************************************************************************)
EXTENDS RamfsRoot

VARIABLES pc,          \* where main is
          v            \* its locals

vars == <<w, k, pc, v>>

Arg(a) == a \in w.args
Forever == "forever"

Locals0 == [next |-> None, left |-> <<>>, lease |-> None, tries |-> 0, root |-> None, dev |-> None,
            target |-> None, new |-> None, boot |-> None, ran |-> None, why |-> None, seen |-> {}]

RamfsInit ==
  /\ w \in Machines
  /\ k = Kernel0
  /\ pc = "init"
  /\ v = Locals0

Go(j, next) == k' = j /\ pc' = next
Shell(j, why) == k' = j /\ pc' = "shell" /\ v' = [v EXCEPT !.why = why]

\* One part of main: its results go on at `next' or end in the emergency shell.
Part(at, R, next, why) ==
  /\ pc = at
  /\ \E r \in R : IF r.ok THEN Go(r.k, next) /\ UNCHANGED v ELSE Shell(r.k, why)
  /\ UNCHANGED w

\* One part whose error is only reported.
Optional(at, wanted, R, next) ==
  /\ pc = at
  /\ IF wanted THEN \E r \in R : Go(r.k, next) ELSE Go(k, next)
  /\ UNCHANGED <<w, v>>

------------------------------------------------------------------------------
Start ==
  Part("init",
       Then(SetPhase(k, "Init"), LAMBDA a, x : Then(SetPhase(a, "Mounts"), LAMBDA b, y : MountEarly(b))),
       "splash", "early mount failed")

Splash ==
  /\ pc = "splash"
  /\ \E r \in Then(StartSplash(k), LAMBDA a, x : Then(SetupInitrdVconsole(a), LAMBDA b, y : MeasureCmdline(b))) :
       Go(r.k, "open")
  /\ v' = [v EXCEPT !.next = "live"]
  /\ UNCHANGED w

\* settle gives up, having made no node at all, when it gets no socket.
SettleOpen ==
  /\ pc = "open"
  /\ \E r \in OpenNetlink(k) : Go(r.k, IF r.ok THEN "scan" ELSE v.next)
  /\ UNCHANGED <<w, v>>
SettleScan == Optional("scan", TRUE, TriggerExistingBlockDevices(k), "recv")
SettleRecv ==
  /\ pc = "recv"
  /\ \E d \in k.queue : \E r \in CreateDevNode(ParseUevent(k, d), d) : Go(r.k, "recv")
  /\ UNCHANGED <<w, v>>
\* v.seen is a record for AskedRootWins: what has come up and is not waiting in the socket.
SettleEnd ==
  /\ pc = "recv"
  /\ Go(SettleEnds(k), v.next)
  /\ v' = [v EXCEPT !.seen = k.sys \ k.queue]
  /\ UNCHANGED w

LiveMedium == Optional("live", TRUE, PrepareLiveMediumBridge(k), "cmdline")

\* After the command line is parsed, and at each rd.break, main may stop for the operator.
Cmdline ==
  /\ pc = "cmdline"
  /\ \E r \in Then(SetPhase(k, "Cmdline"), LAMBDA i, x : Call(i, i.mnt["/proc"] # None, i)) :
       IF ~r.ok THEN Shell(r.k, "cmdline parse")
       ELSE IF Arg("rd.shell") THEN Shell(r.k, "rd.shell")
       ELSE Go(r.k, "detect") /\ UNCHANGED v
  /\ UNCHANGED w
Detect ==
  /\ pc = "detect"
  /\ \E r \in SetPhase(k, "RootfsDetect") :
       IF Arg("rd.break=pre-mount") THEN Shell(r.k, "rd.break=pre-mount")
       ELSE IF Arg("rd.udev=0") THEN Go(r.k, "dhcp") /\ v' = [v EXCEPT !.left = w.dhcp.ifaces]
       ELSE Go(r.k, "open") /\ v' = [v EXCEPT !.next = "links", !.left = w.dhcp.ifaces]
  /\ UNCHANGED w
Symlinks == Optional("links", TRUE, Ok(CreateDiskSymlinks(k), None), "dhcp")

------------------------------------------------------------------------------
\* dhcp_acquire on the next interface; only dhcp_any_interface raises the link and applies the lease.
DhcpStart ==
  /\ pc = "dhcp" /\ v.left # <<>>
  /\ LET f == Head(v.left)
         raised == IF w.dhcp.any THEN Always(LinkUp(k, f), LAMBDA i : DhcpDiscover(i, f)) ELSE DhcpDiscover(k, f)
     IN  \E r \in raised : IF r.ok THEN Go(r.k, "offer") /\ UNCHANGED v
                           ELSE Go(r.k, "dhcp") /\ v' = [v EXCEPT !.left = Tail(@)]
  /\ UNCHANGED w
DhcpNone == pc = "dhcp" /\ v.left = <<>> /\ Go(k, "slaac") /\ UNCHANGED <<w, v>>
DhcpOffer ==
  /\ pc = "offer"
  /\ \E m \in k.net : /\ ParseDhcpReply(m, Head(v.left), "offer")
                      /\ \E r \in DhcpRequest(k, m) :
                           IF r.ok THEN Go(r.k, "ack") /\ UNCHANGED v
                           ELSE Go(r.k, "dhcp") /\ v' = [v EXCEPT !.left = Tail(@)]
  /\ UNCHANGED w
DhcpAck ==
  /\ pc = "ack"
  /\ \E m \in k.net : /\ ParseDhcpReply(m, Head(v.left), "ack")
                      /\ v' = [v EXCEPT !.lease = m]
                      /\ \E r \in IF w.dhcp.any THEN ApplyLease(k, m) ELSE Ok(k, None) :
                           Go([r.k EXCEPT !.net = {}], "slaac")
  /\ UNCHANGED w
DhcpTimeout ==
  /\ pc \in {"offer", "ack"}
  /\ Go([k EXCEPT !.net = {}], "dhcp")
  /\ v' = [v EXCEPT !.left = Tail(@)]
  /\ UNCHANGED w

Slaac == Optional("slaac", Arg("ipv6=slaac"), SlaacAll(k), "md")
Raid == Optional("md", Arg("rd.md=1"), AssembleRaid(k), "lvm")
Lvm == Optional("lvm", Arg("rd.lvm=1"), ActivateLvm(k), "multipath")
Multipath == Optional("multipath", Arg("rd.multipath=1"), ActivateMultipath(k), "stratis")
Stratis == Optional("stratis", Arg("rd.stratis.uuid"), UnlockStratisPool(k), "iscsi")
Iscsi ==
  /\ pc = "iscsi"
  /\ IF Arg("rd.iscsi") THEN \E r \in ConnectIscsi(k) : Go(r.k, IF r.ok THEN "disk" ELSE "nbd")
     ELSE Go(k, "nbd")
  /\ UNCHANGED <<w, v>>
IscsiDisk == pc = "disk" /\ Go(k, "nbd") /\ UNCHANGED <<w, v>>       \* it is there, or 10 s are over
Nbd == Optional("nbd", Arg("nbd"), ConnectNbd(k), "find")

------------------------------------------------------------------------------
\* find_root: one probe.  A bare `rootwait' goes on probing, otherwise the fallbacks are next.
FindRootUncounted ==
  /\ pc = "find" /\ w.root # None
  /\ w.root.by = "nfs" \/ RootIsThere(k)
  /\ Go(k, "target")
  /\ v' = [v EXCEPT !.root = DevicePath]
  /\ UNCHANGED w
FindRoot ==
  /\ pc = "find" /\ w.root # None
  /\ \/ /\ w.root.by = "nfs" \/ RootIsThere(k)
        /\ Go(k, "target")
        /\ v' = [v EXCEPT !.root = DevicePath]
     \/ /\ w.root.by # "nfs" /\ ~RootIsThere(k) /\ w.rootwait # Forever /\ v.tries + 1 < MaxRetries
        /\ v' = [v EXCEPT !.tries = @ + 1]
        /\ UNCHANGED <<k, pc>>
     \/ /\ w.root.by # "nfs" /\ ~RootIsThere(k) /\ w.rootwait # Forever /\ v.tries + 1 >= MaxRetries
        /\ \E r \in FallbackRoot(k) : IF r.ok THEN Go(r.k, "target") /\ v' = [v EXCEPT !.root = r.val]
                                     ELSE Shell(r.k, "root detect")
  /\ UNCHANGED w
NoRootGiven == pc = "find" /\ w.root = None /\ Shell(k, "root detect") /\ UNCHANGED w

Target ==
  /\ pc = "target"
  /\ \E r \in Then(SetPhase(k, "RootfsMount"), LAMBDA i, x : FindMountTarget(i)) :
       IF r.ok THEN Go(r.k, "fsck") /\ v' = [v EXCEPT !.target = r.val]
       ELSE Shell(r.k, "no mount target")
  /\ UNCHANGED w

Fsck ==
  /\ pc = "fsck"
  /\ IF Arg("rd.fsck=0") THEN Go(k, "verity")
     ELSE \E r \in CheckRoot(k, v.root) : Go(r.k, IF r.ok /\ r.val = "reboot" THEN "reboot" ELSE "verity")
  /\ UNCHANGED <<w, v>>

Verity ==
  /\ pc = "verity"
  /\ IF w.verity = None THEN Go(k, "mount") /\ v' = [v EXCEPT !.dev = v.root]
     ELSE \E r \in SetupVerityDevice(k, v.root) :
            IF r.ok THEN Go(r.k, "mount") /\ v' = [v EXCEPT !.dev = r.val]
            ELSE Shell(r.k, "dm-verity failed")
  /\ UNCHANGED w

MountRoot == Part("mount", MountRootAt(k, v.dev, v.target), "mounted", "root mount")

Overlay ==
  /\ pc = "mounted"
  /\ IF Arg("rd.break=pre-overlay") THEN Shell(k, "rd.break=pre-overlay")
     ELSE \E r \in Always(Always(SetPhase(k, "Overlay"), LAMBDA i : MeasureOverlayMode(i, ~OverlayDisabled)),
                          LAMBDA i : IF OverlayDisabled THEN Err(i) ELSE MountOverlay(i, v.target)) :
            Go(r.k, "discover") /\ v' = [v EXCEPT !.new = IF r.ok THEN r.val ELSE v.target]
  /\ UNCHANGED w

Discover ==
  /\ pc = "discover"
  /\ LET boot == IF Arg("rd.rescue") THEN RescueBootTarget(k) ELSE DiscoverBootTarget(k, v.new)
     IN  IF Arg("rd.break=pre-pivot") THEN Shell(k, "rd.break=pre-pivot")
         ELSE \E r \in Then(MeasureInitBinary(k, Under(k, v.new), v.new, boot.init),
                            LAMBDA i, x : SetPhase(i, "Pivot")) :
                Go(r.k, "pivot") /\ v' = [v EXCEPT !.boot = boot]
  /\ UNCHANGED w

Pivot ==
  /\ pc = "pivot"
  /\ \E r \in PivotToRoot(k, v.boot) :
       IF r.ok THEN Go(r.k, "running") /\ v' = [v EXCEPT !.ran = r.val] ELSE Shell(r.k, "switch_root")
  /\ UNCHANGED w

\* The emergency shell: its loop ends only in a reboot or with the power off.
Emergency == pc = "shell" /\ pc' \in {"reboot", "off"} /\ UNCHANGED <<w, k, v>>

Main == \/ Start \/ Splash \/ SettleOpen \/ SettleScan \/ SettleRecv \/ SettleEnd \/ LiveMedium
        \/ Cmdline \/ Detect \/ Symlinks \/ DhcpStart \/ DhcpNone \/ DhcpOffer \/ DhcpAck \/ DhcpTimeout
        \/ Slaac \/ Raid \/ Lvm \/ Multipath \/ Stratis \/ Iscsi \/ IscsiDisk \/ Nbd
        \/ FindRoot \/ NoRootGiven \/ Target \/ Fsck \/ Verity \/ MountRoot
        \/ Overlay \/ Discover \/ Pivot

\* The kernel finds a disk that is slow to come up, and the one an iSCSI session leads to.
Ended == pc \in {"running", "shell", "reboot", "off"}
Plug ==
  /\ ~Ended
  /\ \E d \in ({x \in ToSet(Devices) : w.disk[x].at = "late"} \cup IscsiDevice(k)) \ k.sys : k' = Appears(k, d)
  /\ UNCHANGED <<w, pc, v>>
Server == pc \in {"offer", "ack"} /\ k' \in Serve(k) /\ UNCHANGED <<w, pc, v>>

RamfsNext == Main \/ Emergency \/ Plug \/ Server

\* main is about to run a program, or to read a passphrase, and will wait for its end without limit.
InProgram ==
  \/ pc = "splash" /\ w.bins \cap {"loadkeys", "modprobe", "plymouth"} # {}
  \/ \E x \in {<<"slaac", "ipv6=slaac">>, <<"md", "rd.md=1">>, <<"lvm", "rd.lvm=1">>, <<"multipath", "rd.multipath=1">>,
                <<"stratis", "rd.stratis.uuid">>, <<"iscsi", "rd.iscsi">>, <<"nbd", "nbd">>} : pc = x[1] /\ Arg(x[2])
  \/ pc = "dhcp" /\ w.dhcp.any /\ v.left # <<>>
  \/ pc = "ack" /\ w.dhcp.any /\ \E m \in k.net : m.kind = "ack"
  \/ pc = "fsck" /\ ~Arg("rd.fsck=0") /\ FindFsckBinary
  \/ pc = "mount" /\ Holds(k, v.dev) = "crypto"
  \/ pc = "discover" /\ k.splash
RamfsSpec == RamfsInit /\ [][RamfsNext]_vars /\ WF_vars(~InProgram /\ Main)

------------------------------------------------------------------------------
\* Every part of the kernel state and of main's locals keeps its type, and the mount points of
\* rootfs.rs, overlay.rs and switch.rs hold devices the machine has.
RamfsTypeOK ==
  /\ k.faults \in 0 .. MaxFaults /\ k.sys \cup v.seen \subseteq ToSet(Devices)
  /\ k.nodes \subseteq ToSet(Devices) \cup {"loop-control"} /\ k.links = {}
  /\ \A p \in Points : k.mnt[p] \in ToSet(Devices) \cup Points \cup {None, "verity", "luks", "loop", "bind", "overlay"}
  /\ v.root \in ToSet(Devices) \cup {None, "nfs"} /\ v.dev \in {v.root, "verity", None}

Unharmed == k.faults = MaxFaults

\* find_root passes over the device root= names, for one of its fallbacks, only when that device had
\* not come up by the end of the last settle or its uevent was still unread then: between the socket,
\* the scan of sysfs and the listener of udev.rs no disk is lost.  (A root given by label or UUID
\* always loses, for want of the link.)
AskedRootWins ==
  v.root \notin {None, "nfs"} /\ v.root # w.root.dev /\ w.root.by = "dev" /\ Unharmed
    => w.root.dev \notin v.seen

\* What is opened on the way is closed: the search mount keeps only a live medium that could not be
\* moved on, and /cdrom leads to a medium; an ISO stays mounted exactly while an image on it is
\* attached; each TPM handle left by an unseal that worked costs a refused flush; the uevent socket
\* is open only in settle.
CleanedUp ==
  /\ k.mnt["search"] # None => w.disk[k.mnt["search"]].image /\ k.mnt["medium"] = None
  /\ k.cdrom # None => k.mnt["medium"] # None
  /\ k.loop # None <=> k.mnt["iso"] # None
  /\ k.key = "tpm" => Cardinality(k.handles) <= MaxFaults - k.faults
  /\ k.queue # None => pc \in {"scan", "recv"}

\* The binary whose hash went into PCR 8 is the one that is executed, under the root it was read from.
RunsWhatWasMeasured ==
  pc = "running" => \A i \in DOMAIN k.pcr : k.pcr[i][1] = "init" => k.pcr[i] = <<"init", v.ran.root, v.ran.init>>

\* The same, in the boots in which main and pivot_to_root agree on the new root.
RunsWhatWasMeasuredIfAgreed ==
  pc = "running" /\ v.new = PivotTarget(k, v.boot) => RunsWhatWasMeasured

\* Every boot comes to an end: init runs, the operator has a shell, or the machine reboots.  There
\* are three ways not to: a program, or the operator at the passphrase prompt, that never ends; a
\* bare `rootwait' for a device whose node never comes (nobody makes nodes once settle is over); and
\* a bare `rootwait' for a label or a UUID, even when its disk is there.
BootEnds ==
  <>[](\/ Ended \/ InProgram
       \/ pc = "find" /\ w.rootwait = Forever /\ (w.root.by = "dev" => w.root.dev \notin k.nodes))

\* quantra-ramfs keeps the promise of a staged boot.
Stage ==
  CASE Ended -> pc
    [] pc \in {"mounted", "discover", "pivot"} -> "mounted"
    [] pc \in {"target", "fsck", "verity", "mount"} -> "chosen"
    [] OTHER -> "search"
RootNow == CASE Stage = "chosen" -> IF v.dev # None THEN v.dev ELSE v.root
             [] Stage \in {"mounted", "running"} -> k.mnt[v.target]
             [] OTHER -> None
Promise == INSTANCE StagedBoot WITH
             Device <- ToSet(Devices) \cup {"nfs"}, Verified <- "verity", Opened <- {"luks", "loop"},
             stage <- Stage, strict <- w.verity # None, root <- RootNow
KeepsPromise == Promise!Spec
=============================================================================
