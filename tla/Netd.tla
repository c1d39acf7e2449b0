-------------------------------- MODULE Netd --------------------------------
(***************************************************************************)
(* quantra-netd: its start, its connections, its background loops, and     *)
(* every command a connection may carry.                                   *)
(***************************************************************************)
EXTENDS NetCommands

\* autoconfig.rs
Of(kind) == SetToSeq({n \in DOMAIN kern.links : kern.links[n].kind = kind})
Flat(f, s) == FoldLeft(LAMBDA acc, e : acc \o f[e], <<>>, s)
WithTimeout(p, ok, err) == <<Step("timeout", p, ok, err, TRUE)>>
SaveAndReturn == SaveConfig \o <<Must("return", None, None)>>
BailOut == <<Must("bail", None, None)>>

EthTry(i) == <<Must("up", i, None)>> \o WithTimeout(DhcpAcquire(i), SaveAndReturn, <<>>)

\* A wireless interface is skipped if it is not to connect by itself, if no profile is saved,
\* or if none of them is in the air; the strongest one is tried.
WlanTry(i) == <<Must("wanted", i, None)>>
WlanSteps(i, s) == WifiConnect(i, s) \o WithTimeout(DhcpAcquire(i), SaveAndReturn, BailOut)
Wanted(t) ==
  /\ Now(t, "wanted")
  /\ LET i == At(t).x
         seen == loc[t].file.wifi \cap work.air
     IN  IF i \in loc[t].file.manual \/ seen = {} THEN Advance(t)
         ELSE GoesOn(t, <<Must("up", i, None)>> \o WlanSteps(i, CHOOSE s \in seen : TRUE) \o Tail(todo[t]), loc[t])
  /\ UNCHANGED <<work, shared, world>>

\* The profiles are read once, after the wired interfaces have been tried.
Peek(t) ==
  /\ Now(t, "peek")
  /\ GoesOn(t, Tail(todo[t]), [loc[t] EXCEPT !.file = IF disk.cfg = None THEN DefaultConfig ELSE disk.cfg])
  /\ UNCHANGED <<work, shared, world>>

\* get_all_links may fail; whatever happens inside, the flag comes down.
AutoConfigure == <<Must("swap", None, None)>>
AutoBody == <<Must("list", None, None), Must("each", None, None), Must("finish", "auto", None)>>
AutoSteps ==
  Flat([i \in DOMAIN kern.links |-> EthTry(i)], Of("eth")) \o <<Must("peek", None, None)>>
  \o Flat([i \in DOMAIN kern.links |-> WlanTry(i)], Of("wlan")) \o BailOut
Each(t) ==
  /\ Now(t, "each")
  /\ GoesOn(t, AutoSteps \o Tail(todo[t]), loc[t])
  /\ UNCHANGED <<work, shared, world>>

\* Mutant: AUTO_CONFIG_RUNNING is set without a look at what it was.
SwapBlind(t) ==
  /\ Now(t, "swap")
  /\ flags' = [flags EXCEPT !.auto = TRUE]
  /\ GoesOn(t, AutoBody \o Tail(todo[t]), loc[t])
  /\ UNCHANGED <<work, kern, disk, lease, cache, world>>

\* AUTO_CONFIG_RUNNING.swap(true): whoever comes second is done at once.
Swap(t) ==
  /\ Now(t, "swap")
  /\ flags' = [flags EXCEPT !.auto = TRUE]
  /\ IF flags.auto THEN Advance(t) ELSE GoesOn(t, AutoBody \o Tail(todo[t]), loc[t])
  /\ UNCHANGED <<work, kern, disk, lease, cache, world>>

\* The flag is cleared, or the connection's guard dropped; then the error, if any, goes on.
Finish(t) ==
  /\ Now(t, "finish")
  /\ flags' = IF At(t).x = "auto" THEN [flags EXCEPT !.auto = FALSE] ELSE [flags EXCEPT !.active = @ - 1]
  /\ IF loc[t].failed THEN AbortFrom(t, Tail(todo[t])) ELSE Advance(t)
  /\ UNCHANGED <<work, kern, disk, lease, cache, world>>

\* ensure_self_heal_started
SelfHealLoop == <<Must("nap", "heal", None), Must("ping", None, None)>>
Heal(t) ==
  /\ Now(t, "heal") /\ (flags.heal \/ \E u \in Task : res[u] = "free")
  /\ flags' = [flags EXCEPT !.heal = TRUE]
  /\ IF flags.heal THEN Advance(t) ELSE Spawning(t, SelfHealLoop)
  /\ UNCHANGED <<work, kern, disk, lease, cache, world>>

\* ping_internet: the world answers if there is a way out and it is on line.
Reachable == work.online /\ RouteTo(kern, "default") # {}
Ping(t) ==
  /\ Now(t, "ping")
  /\ GoesOn(t, IF Reachable THEN SelfHealLoop
               ELSE AutoConfigure \o <<Catch(<<>>, <<>>), Must("nap", "heal", None)>> \o SelfHealLoop, loc[t])
  /\ UNCHANGED <<work, shared, world>>
-----------------------------------------------------------------------------
(* main.rs                                                                 *)
Startup == LoadConfig \o <<Must("first_ping", None, None), Must("listen", None, None)>>
FirstPing(t) ==
  /\ Now(t, "first_ping")
  /\ GoesOn(t, (IF Reachable THEN <<>> ELSE AutoConfigure \o <<Catch(<<>>, <<>>), Must("heal", None, None)>>)
               \o Tail(todo[t]), loc[t])
  /\ UNCHANGED <<work, shared, world>>

Listen(t) ==
  /\ Now(t, "listen")
  /\ flags' = [flags EXCEPT !.listening = TRUE]
  /\ Advance(t)
  /\ UNCHANGED <<work, kern, disk, lease, cache, world>>

\* execute_inner: the steps of a command, group by group; no group knows the commands of
\* another, and most queries only look.
LinkCommand(c) ==
  CASE c.op = "StatusDetail"   -> <<Must("index", c.x, None)>>
    [] c.op = "LinkUp"         -> <<Must("up", c.x, None)>>
    [] c.op = "LinkDown"       -> <<Must("down", c.x, None)>>
    [] c.op = "LinkRestart"    -> RestartInterface(c.x)
    [] c.op = "LinkAdd"        -> <<Must("addr+", c.x, c.y)>>
    [] c.op = "LinkRemove"     -> <<Must("addr-", c.x, c.y)>>
    [] c.op = "DhcpAcquire"    -> DhcpAcquire(c.x)
    [] c.op = "DhcpRenew"      -> DhcpRenew(c.x)
    [] c.op = "DhcpRelease"    -> DhcpRelease(c.x)
    [] c.op = "RouteAdd"       -> <<Step("route+", c.y, "gw", c.x, TRUE)>>
    [] c.op = "RouteDel"       -> <<Must("route-", c.y, None)>>
    [] c.op = "ConfigSave"     -> SaveConfig
    [] c.op = "ConfigLoad"     -> LoadConfig
    [] OTHER -> <<>>

ModeCommand(c) == IF c.op = "ModeSet" THEN SetMode(c.x) ELSE <<>>

WifiCommand(c) ==
  CASE c.op = "WifiScan"       -> WifiScan(c.x)
    [] c.op = "WifiConnect"    -> WifiConnect(c.x, c.y) \o DhcpAcquire(c.x) \o SaveWifiProfile(c.y)
    [] c.op = "WifiDisconnect" -> WifiDisconnect(c.x)
    [] c.op = "WifiForget"     -> ForgetWifiProfile(c.x)
    [] c.op = "WifiAuto"       -> SetWifiAutoconnect(c.x, c.on)
    [] c.op = "AutoConfigure"  -> AutoConfigure \o <<Must("heal", None, None)>>
    [] OTHER -> <<>>

QualityCommand(c) ==
  CASE c.op = "Diagnose"       -> DiagnoseInterface(c.x)
    [] c.op = "Quality"        -> MeasureQuality(c.x)
    [] c.op = "Bandwidth"      -> BandwidthTest(c.x)
    [] OTHER -> <<>>

VpnCommand(c) ==
  CASE c.op = "VpnCreate"      -> VpnCreate(c.x, c.y)
    [] c.op = "VpnUp"          -> VpnUp(c.x)
    [] c.op = "VpnDown"        -> VpnDown(c.x)
    [] c.op = "VpnShow"        -> VpnShow(c.x)
    [] c.op = "VpnKillSwitch"  -> SetVpnKillswitch(c.on, c.x)
    [] OTHER -> <<>>

FirewallCommand(c) ==
  CASE c.op = "FirewallPreset" -> ApplyFirewallPreset(c.x)
    [] c.op = "FirewallAllow"  -> FirewallAllow(c.x)
    [] c.op = "FirewallBlock"  -> FirewallBlock(c.x)
    [] c.op = "FirewallZone"   -> FirewallZoneAdd(c.x)
    [] c.op = "FirewallNat"    -> FirewallNat(c.on, c.x)
    [] OTHER -> <<>>

NetnsCommand(c) ==
  CASE c.op = "NetnsCreate"    -> NetnsCreate(c.x)
    [] c.op = "NetnsExec"      -> NetnsExec(c.x)
    [] c.op = "NetnsDelete"    -> NetnsDelete(c.x)
    [] c.op = "LinkSetNetns"   -> LinkSetNetns(c.x, c.y)
    [] c.op = "VethCreate"     -> VethCreate(c.x, c.y)
    [] OTHER -> <<>>

Ipv6Command(c) ==
  CASE c.op = "Ipv6Acquire"    -> Dhcp6Acquire(c.x)
    [] c.op = "Ipv6Release"    -> Dhcp6Release(c.x)
    [] c.op = "Ipv6Slaac"      -> SlaacEnable(c.x)
    [] OTHER -> <<>>

StackedLinkCommand(c) ==
  CASE c.op = "BridgeCreate"   -> BridgeCreate(c.x)
    [] c.op = "BridgeDelete"   -> BridgeDelete(c.x)
    [] c.op = "BridgeAdd"      -> BridgeAddMember(c.x, c.y)
    [] c.op = "BridgeRemove"   -> BridgeRemoveMember(c.x)
    [] c.op = "VlanCreate"     -> VlanCreate(c.x, c.y)
    [] c.op = "VlanDelete"     -> VlanDelete(c.x)
    [] c.op = "BondCreate"     -> BondCreate(c.x)
    [] c.op = "BondDelete"     -> BondDelete(c.x)
    [] c.op = "BondAdd"        -> BondAddMember(c.x, c.y)
    [] c.op = "BondRemove"     -> BondRemoveMember(c.x)
    [] c.op = "MacvlanCreate"  -> MacvlanCreate(c.x, c.y)
    [] c.op = "MacvlanDelete"  -> MacvlanDelete(c.x)
    [] OTHER -> <<>>

DnsCommand(c) ==
  CASE c.op = "DnsQuery"       -> DnsQuery(c.x)
    [] c.op = "DnsFlush"       -> <<Must("dns_flush", None, None)>>
    [] c.op = "DnsSet"         -> <<Must("dns_set", c.x, None)>>
    [] OTHER -> <<>>

Execute(c) ==
  ModeCommand(c) \o LinkCommand(c) \o WifiCommand(c) \o QualityCommand(c) \o VpnCommand(c) \o FirewallCommand(c)
  \o NetnsCommand(c) \o Ipv6Command(c) \o StackedLinkCommand(c) \o DnsCommand(c)

\* batch_execute: each command answers for itself, a batch inside ends it.
BatchExecute(cs) ==
  FoldLeft(LAMBDA acc, c : acc \o IF c.op = "Batch" THEN BailOut
                                  ELSE Execute(c) \o <<Catch(<<>>, <<>>)>>, <<>>, cs)
ExecuteCommand(c) == IF c.op = "Batch" THEN BatchExecute(c.cmds) ELSE Execute(c)

\* handle_client: the counters, the command, the guard.
HandleClient(c) == <<Must("connect", None, None)>> \o IncrementTotal \o <<Must("recv", None, None)>>
                   \o ExecuteCommand(c) \o <<Must("finish", "conn", None)>>

Accept(t) ==
  /\ Polled = {} /\ res[t] = "wait" /\ flags.listening
  /\ \A u \in Task : u < t => res[u] # "wait"
  /\ IF work.cmds[t].auth
     THEN todo' = [todo EXCEPT ![t] = HandleClient(work.cmds[t])] /\ res' = [res EXCEPT ![t] = "run"]
     ELSE res' = [res EXCEPT ![t] = "err"] /\ UNCHANGED todo
  /\ UNCHANGED <<work, shared, loc, world>>

Connect(t) ==
  /\ Now(t, "connect")
  /\ flags' = [flags EXCEPT !.active = @ + 1]
  /\ Advance(t)
  /\ UNCHANGED <<work, kern, disk, lease, cache, world>>

\* Mutant: no timeout around recv_message.
ReceiveForever(t) == /\ Now(t, "recv") /\ ~work.mute
                     /\ Advance(t) /\ UNCHANGED <<work, shared, world>>

\* The command arrives, or nothing that can be read does within 30 s.
Receive(t) ==
  /\ Now(t, "recv")
  /\ Advance(t) \/ (work.mute /\ Abort(t))
  /\ UNCHANGED <<work, shared, world>>

\* The daemon is killed, or stops on SIGTERM, and is started again: what was in memory is lost,
\* every task ends where it stood, the kernel and the files stay.  A file that had just been cut
\* stays empty, and from then on only the edits to come are due; a kill switch that was being
\* enabled stays half made.
MainSlot == CHOOSE m \in Task : \A t \in Task : t <= m
NoLease == [f \in NetFamily |-> [i \in Iface |-> None]]
NoFlags == [auto |-> FALSE, heal |-> FALSE, active |-> 0, listening |-> FALSE]
NoCache(n) == [map |-> [k \in {} |-> None], clock |-> n, servers |-> "default"]

Enabling(t) == \E n \in DOMAIN todo[t] : Letting(todo[t][n])
Killed ==
  /\ work.kill /\ fault = "kill" /\ fault' = None
  /\ lease' = NoLease /\ flags' = NoFlags /\ cache' = NoCache(cache.clock)
  /\ todo' = [t \in Task |-> IF t = MainSlot THEN Startup ELSE <<>>]
  /\ loc' = [t \in Task |-> Cleared(loc[t])]
  /\ res' = [t \in Task |-> IF t = MainSlot THEN "run" ELSE IF ~Client(t) THEN "free"
                            ELSE IF Running(t) THEN "err" ELSE res[t]]
  /\ due' = [f \in DOMAIN due |-> IF disk[f] = None THEN Default(f) ELSE due[f]]
  /\ clash' = clash \cup UNION {loc[t].open \cap Iface : t \in Task} \cup {c \in {"killswitch"} : \E t \in Task : Enabling(t)}
  /\ UNCHANGED <<work, kern, disk, net, bound, naps>>

NetdInit ==
  /\ work \in Workloads
  /\ kern = work.kern
  /\ disk = [cfg |-> work.cfg, fw |-> DefaultFirewall, resolv |-> {}, netns |-> {}, pid |-> {},
             vpn |-> [n \in {"wg0", "ovpn0"} |-> None]]
  /\ lease = NoLease /\ cache = NoCache(0)
  /\ flags = [NoFlags EXCEPT !.listening = ~work.boot]
  /\ todo = [t \in Task |-> IF work.boot /\ t = MainSlot THEN Startup ELSE <<>>]
  /\ loc = [t \in Task |-> Loc0]
  /\ res = [t \in Task |-> IF work.boot /\ t = MainSlot THEN "run" ELSE IF Client(t) THEN "wait" ELSE "free"]
  /\ net = {} /\ bound = NoLease /\ naps = work.naps
  /\ fault = work.fault /\ due = [cfg |-> work.cfg, fw |-> DefaultFirewall] /\ clash = {}

NetdStep(t) ==
  /\ Polled \subseteq {t}
  /\ \/ KernelStep(t) \/ Handled(t) \/ Within(t) \/ Return(t) \/ Bail(t) \/ Wake(t)
     \/ DhcpNext(t) \/ FileNext(t) \/ NsNext(t) \/ VpnNext(t) \/ DnsNext(t) \/ Associate(t)
     \/ Each(t) \/ Wanted(t) \/ Peek(t) \/ Swap(t) \/ Finish(t) \/ Heal(t) \/ Ping(t) \/ FirstPing(t) \/ Listen(t)
     \/ Connect(t) \/ Receive(t)
NetdNext == Tick \/ Killed \/ \E t \in Task : Accept(t) \/ Expire(t) \/ NetdStep(t)

\* Tokio polls every ready task: a task that can go on does.  Timers fire, the kernel answers,
\* and packets that are waited for arrive or time out; nothing is assumed of a program netd has
\* started, which may run for ever, of a kill, or of the 60 s of auto-config.
NetdFairness == \A t \in Task : WF_netVars(Accept(t)) /\ WF_netVars(~InProgram(t) /\ NetdStep(t))
NetdSpec == NetdInit /\ [][NetdNext]_netVars /\ NetdFairness
-----------------------------------------------------------------------------
NetdTypeOK ==
  /\ DOMAIN todo = Task /\ \A t \in Task : res[t] \in {"free", "wait", "run", "ok", "err"}
  /\ \A t \in Task : todo[t] # <<>> <=> res[t] = "run"
  /\ \A f \in NetFamily, i \in Iface : lease[f][i] = None \/ lease[f][i].ip \in work.ips \cup Ip6
  /\ flags.active \in 0 .. Len(work.cmds) /\ naps \in 0 .. work.naps

InFlight(r) == \E t \in Task : r \in loc[t].open

\* network.yaml and firewall.yaml hold the sum of all the edits made to them, none lost,
\* however the commands, the connections' counter and auto-configuration's save_config overlap:
\* no read-modify-write awaits.  A kill loses edits only if it hits fs::write between cutting the
\* file and filling it, and then it loses all of them: the file is taken for the defaults.
Contents(f) == IF disk[f] = None THEN Default(f) ELSE disk[f]
NoEditLost == \A f \in {"cfg", "fw"} : ~InFlight(f) => Contents(f) = due[f]

\* An interface that holds a lease has the leased address (apply_lease before
\* store_lease), unless an apply failed half-way, met another one on the interface, or
\* somebody took the address away.
LeaseOnLink ==
  \A f \in NetFamily, i \in Iface :
    lease[f][i] # None /\ i \notin clash /\ ~InFlight(i) => <<i, lease[f][i].ip>> \in kern.addrs

\* What is stored as the lease is what the server has bound to us, not the answer to an
\* earlier attempt, unless two exchanges met on the interface: a renewal and a release, two acquires.
LeaseIsBound ==
  [][\A i \in Iface, f \in NetFamily :
       lease'[f][i] # None /\ lease'[f][i] # lease[f][i] /\ f \notin clash => lease'[f][i].ip = bound[f][i]]_netVars

\* At most one automatic configuration runs, the flag is up exactly while it does, and there
\* is at most one self-heal loop.
Configuring(t) == \E n \in DOMAIN todo[t] : todo[t][n].op = "finish" /\ todo[t][n].x = "auto"
OneAutoConfig ==
  /\ Cardinality({t \in Task : Configuring(t)}) = (IF flags.auto THEN 1 ELSE 0)
  /\ Cardinality({t \in Task : ~Client(t) /\ todo[t] # <<>> /\ Last(todo[t]).op = "ping"}) <= 1

\* Everything is dropped with no tunnel let through only while the kill switch is being
\* enabled, or after an attempt to enable it that ended between its second and third command, by an
\* error or by a kill; the next enable or disable that gets through ends that state.
CutOffOnlyByBrokenEnable ==
  "killswitch" \in DOMAIN kern.nft /\ kern.nft["killswitch"].policy = "drop" /\ kern.nft["killswitch"].rules = {} =>
    "killswitch" \in clash \/ \E t \in Task : Enabling(t)

\* A connection is served to its end: whatever the servers, the kernel and the other tasks do,
\* handle_client comes back, unless a program its own command has started never exits.
Served == \A t \in Task : (Running(t) /\ Client(t)) ~> (res[t] \in {"ok", "err"} \/ []InProgram(t))

\* As long as a lease is held something will renew it: "Background task: renew lease at T1".
LeaseHasRenewal ==
  \A i \in Iface : lease["v4"][i] # None =>
    \E t \in Task : \E n \in DOMAIN todo[t] : todo[t][n].op \in {"renewal", "nap", "unlease", "lookup", "renewed", "store"}
                                              /\ i \in {todo[t][n].x, todo[t][n].y}
=============================================================================
