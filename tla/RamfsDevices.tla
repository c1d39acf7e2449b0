---------------------------- MODULE RamfsDevices ----------------------------
(***************************************************************************)
(* What quantra-ramfs does before it looks for the root: measurements,     *)
(* early mounts, device nodes, the splash, the live medium, and the        *)
(* storage and network stacks that may have to provide the root device.    *)
(***************************************************************************)
EXTENDS RamfsKernel

------------------------------------------------------------------------------
\* measured_boot.rs, phases.rs: an extension that fails is a warning.
OpenTpm(j) == w.tpm # None /\ j.mnt["/dev"] # None
ExtendPcr(j, m) == Call(j, OpenTpm(j), [j EXCEPT !.pcr = Append(@, m)])
Measured(j, m) == Always(ExtendPcr(j, m), LAMBDA i : Ok(i, None))
MeasurePhase(j, p) == Measured(j, <<"phase", p>>)
SetPhase(j, p) == MeasurePhase([j EXCEPT !.phase = p], p)
MeasureCmdline(j) == IF j.mnt["/proc"] # None THEN Measured(j, <<"cmdline", w.args>>) ELSE Ok(j, None)
MeasureOverlayMode(j, on) == Measured(j, <<"overlay", on>>)

\* The init binary is read where main expects it to be run from.
MeasureQuantra(j, there, root, init) ==
  IF "quantra" \in there THEN Measured(j, <<"init", root, "quantra">>) ELSE Ok(j, None)
MeasureInitBinary(j, there, root, init) ==
  IF init \in there THEN Measured(j, <<"init", root, init>>) ELSE Ok(j, None)

------------------------------------------------------------------------------
\* mounts.rs
EarlyMount(j, p) == Call(j, TRUE, MountAt(j, p, p))
CreateEssentialDevices(j) == [j EXCEPT !.nodes = @ \cup {"loop-control"}
                                \cup IF w.populates THEN j.sys ELSE {}]
MountEarly(j) ==
  Then(Calls(j, <<"/proc", "/sys", "/dev">>, EarlyMount),
       LAMBDA i, x : EarlyMount(CreateEssentialDevices(i), "/run"))

------------------------------------------------------------------------------
\* plymouth.rs
DriDeviceExists == "dri" \in w.facts
SetupKmsFramebuffer(j) ==
  IF DriDeviceExists THEN Ok(j, None)
  ELSE Always(Command(j, "modprobe", TRUE, j), LAMBDA i : Ok(i, None))
StartSplash(j) ==
  IF "splash" \notin w.args \/ ~FindBin("plymouthd") THEN Ok(j, None)
  ELSE Always(Always(SetupKmsFramebuffer(j), LAMBDA i : Call(i, TRUE, [i EXCEPT !.splash = TRUE])),
              LAMBDA i : Ok(i, None))
SetupInitrdVconsole(j) == Always(Command(j, "loadkeys", TRUE, j), LAMBDA i : Ok(i, None))
CheckSecureBoot == IF "efi" \notin w.facts THEN "NonUEFI"
                   ELSE IF "sb" \in w.facts THEN "Enabled" ELSE "Disabled"

------------------------------------------------------------------------------
\* udev.rs: settle opens the socket, scans what is there, then listens until its time is up.
OpenNetlink(j) == Call(j, TRUE, [j EXCEPT !.queue = {}])
CreateDevNode(j, d) ==
  IF d \in j.nodes THEN Ok(j, 0)
  ELSE Always(Call(j, j.mnt["/dev"] # None, [j EXCEPT !.nodes = @ \cup {d}]),
              LAMBDA i : Ok(i, Cardinality({d} \cap i.nodes)))
TriggerNothing(j) == Ok(j, 0)
TriggerExistingBlockDevices(j) ==
  Calls(j, SelectSeq(Devices, LAMBDA d : d \in j.sys), CreateDevNode)
ParseUevent(j, d) == [j EXCEPT !.queue = @ \ {d}]
SettleEnds(j) == [j EXCEPT !.queue = None]

\* /dev/disk/by-uuid and by-label, for nodes whose sysfs entry names one.
CreateDiskSymlinks(j) ==
  [j EXCEPT !.links = @ \cup {d \in j.sys \cap j.nodes : {"ID_FS_UUID", "ID_FS_LABEL"} \cap UeventFields # {}}]

------------------------------------------------------------------------------
\* rootfs.rs: the live medium is moved from the search mount to where the installer looks.
ListAllBlockDevices(j) == SelectSeq(Devices, LAMBDA d : d \in j.sys \cap j.nodes)
TryMountCandidate(j, d) == Call(j, Holds(j, d) \notin {None, "crypto"}, MountAt(j, d, "search"))
BridgeCalamaresSource(j) == Call(j, TRUE, [j EXCEPT !.cdrom = "medium"])
MoveSearch(j) == Call(CleanupMount(j, "medium"), TRUE,
                      [j EXCEPT !.mnt = [@ EXCEPT !["medium"] = j.mnt["search"], !["search"] = None]])
TakeMedium(j, d) == Then(MoveSearch(j), LAMBDA i, x : Then(BridgeCalamaresSource(i), LAMBDA h, y : Ok(h, d)))
ProbeMedium(j, d) ==
  Then(MkDir(j, "search"), LAMBDA i, x :
       UNION {IF ~r.ok THEN Ok(r.k, None)
              ELSE IF w.disk[d].image THEN TakeMedium(r.k, d)
              ELSE Ok(CleanupMount(r.k, "search"), None) : r \in TryMountCandidate(i, d)})
PrepareLiveMediumBridge(j) ==
  FoldLeft(LAMBDA R, d : Then(R, LAMBDA i, x : IF x # None THEN Ok(i, x) ELSE ProbeMedium(i, d)),
           IF ListAllBlockDevices(j) = <<>> THEN Ok(j, None) ELSE Calls(j, <<"search", "medium">>, MkDir),
           ListAllBlockDevices(j))

------------------------------------------------------------------------------
\* raid.rs: each stack may make a block device appear.
Gives(j, stack) == IF w.gives[stack] = None THEN j ELSE Appears(j, w.gives[stack])
AssembleViaSysfs(j) == Ok(j, None)
AssembleRaid(j) == IF FindBin("mdadm") THEN Call(j, TRUE, Gives(j, "md")) ELSE AssembleViaSysfs(j)
ActivateLvm(j) ==
  IF ~FindBin("lvm") THEN Err(j)
  ELSE Always(Command(j, "vgscan", TRUE, j), LAMBDA i : Command(i, "lvm", TRUE, Gives(i, "lvm")))
ActivateMultipath(j) ==
  IF ~FindBin("multipath") THEN Err(j)
  ELSE Always(Command(j, "multipathd", TRUE, j), LAMBDA i : Command(i, "multipath", TRUE, Gives(i, "multipath")))
UnlockStratisPool(j) == Command(j, "stratis", TRUE, Gives(j, "stratis"))

------------------------------------------------------------------------------
\* network_boot.rs
RunIp(j, can, i) == Command(j, "ip", can, i)
LinkUp(j, f) == RunIp(j, TRUE, [j EXCEPT !.up = @ \cup {f}])
ListInterfaces == w.ifaces

\* The socket, bound to its interface, and the broadcast that asks for an address.
Msg(kind, f, srv) == [kind |-> kind, at |-> f, from |-> srv]
DhcpDiscover(j, f) == Call(j, f \in j.up, [j EXCEPT !.net = {Msg("discover", f, None)}])
DhcpRequest(j, m) == Call(j, TRUE, [j EXCEPT !.net = (@ \ {m}) \cup {Msg("request", m.at, m.from)}])

\* parse_dhcp_reply: the transaction id ties a reply to this attempt on this interface.
ParseDhcpReply(m, f, kind) == m.kind = kind /\ m.at = f

ApplyLease(j, m) ==
  Then(RunIp(j, TRUE, [j EXCEPT !.addr = @ \cup {<<m.at, m.from>>}]), LAMBDA i, x :
    Then(LinkUp(i, m.at), LAMBDA h, y : Always(RunIp(h, m.at \in h.up, h), LAMBDA g : Ok(g, None))))

EnableIpv6Slaac(j, f) ==
  Then(Call(j, j.mnt["/proc"] # None, j),
       LAMBDA i, x : Always(LinkUp(i, f), LAMBDA h : Call(h, f \in h.up, [h EXCEPT !.addr = @ \cup {<<f, "slaac">>}])))
SlaacAll(j) == FoldLeft(LAMBDA R, f : Always(R, LAMBDA i : EnableIpv6Slaac(i, f)), Ok(j, None), ListInterfaces)

ConnectIscsi(j) == Command(j, "iscsistart", j.addr # {}, [j EXCEPT !.session = TRUE])
IscsiDevice(j) == {d \in {w.gives.iscsi} \ {None} : j.session}
FindFreeNbd(j) == w.gives.nbd # None
ConnectNbd(j) == IF FindBin("nbd-client") /\ FindFreeNbd(j)
                 THEN Call(j, j.addr # {}, Appears(j, w.gives.nbd)) ELSE Err(j)

\* The DHCP servers: an offer binds nothing, an acknowledged request does.
Serve(j) ==
  {[j EXCEPT !.net = @ \cup {Msg("offer", m.at, s)}] : m \in {n \in j.net : n.kind = "discover"}, s \in w.servers}
  \cup UNION {{[j EXCEPT !.net = (@ \ {m}) \cup {Msg("ack", m.at, m.from)}, !.bound = @ \cup {<<m.at, m.from>>}],
               [j EXCEPT !.net = (@ \ {m}) \cup {Msg("nak", m.at, m.from)}]}
              : m \in {n \in j.net : n.kind = "request"}}
=============================================================================
