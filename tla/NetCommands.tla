---------------------------- MODULE NetCommands ----------------------------
(***************************************************************************)
(* What quantra-netd does for each command (dispatch.rs), the files it     *)
(* keeps, the connections it serves, and its automatic configuration.      *)
(***************************************************************************)
EXTENDS NetDhcp

CONSTANT CacheMax      \* MAX_CACHE_ENTRIES

\* config.rs, firewall.rs: the contents of the two files, None being a file cut to nothing.
DefaultConfig == [wifi |-> {}, manual |-> {}, mode |-> "auto", total |-> 0, saved |-> None]
DefaultFirewall == [preset |-> None, nat |-> FALSE, zones |-> {}]
Default(f) == IF f = "cfg" THEN DefaultConfig ELSE DefaultFirewall

\* What a command does to the contents c.
Edit(c, e) ==
  CASE e[1] = "total"  -> [c EXCEPT !.total = @ + 1]
    [] e[1] = "mode"   -> [c EXCEPT !.mode = e[2]]
    [] e[1] = "wifi+"  -> [c EXCEPT !.wifi = @ \cup {e[2]}]
    [] e[1] = "wifi-"  -> [c EXCEPT !.wifi = @ \ {e[2]}]
    [] e[1] = "manual" -> [c EXCEPT !.manual = IF e[3] THEN @ \ {e[2]} ELSE @ \cup {e[2]}]
    [] e[1] = "saved"  -> [c EXCEPT !.saved = e[2]]
    [] e[1] = "preset" -> [c EXCEPT !.preset = e[2]]
    [] e[1] = "nat"    -> [c EXCEPT !.nat = e[2]]
    [] e[1] = "zone"   -> [c EXCEPT !.zones = @ \cup {e[2]}]

\* read_config().unwrap_or_default(), then upsert_config: fs::write cuts the file, then fills it.
\* All in one poll: only a kill can come between.
Update(f, e) == <<Must("read", f, None), Must("trunc", f, None), Must("write", f, e)>>

ReadFile(t) ==
  /\ Now(t, "read")
  /\ LET f == At(t).x
     IN  GoesOn(t, Tail(todo[t]), [loc[t] EXCEPT !.open = @ \cup {f},
                                   !.file = IF disk[f] = None THEN Default(f) ELSE disk[f]])
  /\ UNCHANGED <<work, shared, world>>

TruncFile(t) ==
  /\ Now(t, "trunc")
  /\ disk' = [disk EXCEPT ![At(t).x] = None]
  /\ Advance(t)
  /\ UNCHANGED <<work, kern, lease, flags, cache, world>>

WriteFile(t) ==
  /\ Now(t, "write")
  /\ LET f == At(t).x
         e == IF At(t).y[1] = "saved" THEN <<"saved", loc[t].old>> ELSE At(t).y
     IN  /\ disk' = [disk EXCEPT ![f] = Edit(loc[t].file, e)]
         /\ due' = [due EXCEPT ![f] = Edit(@, e)]
         /\ GoesOn(t, Tail(todo[t]), [loc[t] EXCEPT !.open = @ \ {f}, !.file = None])
  /\ UNCHANGED <<work, kern, lease, flags, cache, net, bound, naps, fault, clash>>

SetMode(m) == Update("cfg", <<"mode", m>>)
SaveWifiProfile(s) == Update("cfg", <<"wifi+", s>>)
SetWifiAutoconnect(i, b) == Update("cfg", <<"manual", i, b>>)
IncrementTotal == Update("cfg", <<"total">>)

\* forget_wifi_profile writes only if it found something to forget.
ForgetWifiProfile(s) == <<Must("read", "cfg", None), Must("known", s, None)>>
                        \o Tail(Update("cfg", <<"wifi-", s>>))
Known(t) ==
  /\ Now(t, "known")
  /\ IF At(t).x \in loc[t].file.wifi THEN Advance(t) ELSE Abort(t)
  /\ UNCHANGED <<work, shared, world>>

\* save_config: the links and routes of now, beside what the file says of the rest.
SaveConfig == <<Must("picture", None, None)>> \o Update("cfg", <<"saved">>)
Picture(t) ==
  /\ Now(t, "picture")
  /\ GoesOn(t, Tail(todo[t]), [loc[t] EXCEPT !.old = [links |-> GetAllLinks(kern), routes |-> ListRoutes(kern)]])
  /\ UNCHANGED <<work, shared, world>>

\* load_config_into_kernel: everything is tried, nothing has to succeed.
LoadConfig == <<Must("load_config", None, None)>>
LoadSteps(s) ==
  LET ups == SetToSeq({Try("up", n, None) : n \in s.links.up})
      addrs == SetToSeq({Try("addr+", a[1], a[2]) : a \in s.links.addrs})
      routes == SetToSeq({Step("route+", r.dst, r.via, r.dev, FALSE) : r \in s.routes})
  IN  ups \o addrs \o routes
Load(t) ==
  /\ Now(t, "load_config")
  /\ IF disk.cfg = None \/ disk.cfg.saved = None THEN Advance(t)
     ELSE GoesOn(t, LoadSteps(disk.cfg.saved) \o Tail(todo[t]), loc[t])
  /\ UNCHANGED <<work, shared, world>>

FileNext(t) == ReadFile(t) \/ TruncFile(t) \/ WriteFile(t) \/ Known(t) \/ Picture(t) \/ Load(t)
-----------------------------------------------------------------------------
(* dispatch.rs, bridge.rs                                                  *)
RestartInterface(i) == <<Must("down", i, None), Must("up", i, None)>>
BridgeCreate(n) == <<Must("add", n, "bridge"), Must("up", n, None)>>
BondCreate(n) == <<Must("add", n, "bond"), Try("up", n, None)>>
VlanCreate(n, p) == <<Step("add", n, "vlan", p, TRUE), Try("up", n, None)>>
MacvlanCreate(n, p) == <<Step("add", n, "macvlan", p, TRUE), Try("up", n, None)>>
BridgeDelete(n) == <<Try("down", n, None), Must("del", n, None)>>
VlanDelete(n) == BridgeDelete(n)
BondDelete(n) == BridgeDelete(n)
MacvlanDelete(n) == BridgeDelete(n)
BridgeAddMember(b, m) == <<Must("master", m, b), Try("up", m, None)>>
BridgeRemoveMember(m) == <<Must("nomaster", m, None)>>
BondAddMember(b, m) == <<Try("down", m, None), Must("master", m, b), Try("up", m, None)>>
BondRemoveMember(m) == BridgeRemoveMember(m)

(* wireguard.rs, vpn.rs                                                    *)
WgCreateInterface(n) == <<Must("wg", n, None)>>
WgSetDevice(n) == <<Must("wg_set", n, None)>>
\* The address and the routes go through the handle whose connection is gone: a profile with
\* an address ends there, one without gets a link that is up and no route.
ApplyWgConfig(n, addr) ==
  WgCreateInterface(n) \o WgSetDevice(n) \o (IF addr THEN <<Must("unheard", n, None)>> ELSE <<>>)
  \o <<Step("up", n, None, "warn", TRUE), Try("unheard", n, None)>>
TeardownWg(n) == <<Try("down", n, None), Step("del", n, None, "warn", TRUE)>>
VpnCreate(n, kind) == <<Must("profile", n, kind)>>
VpnUp(n) == <<Must("vpn_up", n, None)>>
VpnDown(n) == <<Must("vpn_down", n, None)>>

SaveVpnProfile(t) ==
  /\ Now(t, "profile")
  /\ disk' = [disk EXCEPT !.vpn[At(t).x] = At(t).y]
  /\ Advance(t)
  /\ UNCHANGED <<work, kern, lease, flags, cache, world>>

\* read_vpn_profile decides what `up' and `down' mean.
VpnChoose(t) ==
  /\ Now(t, "vpn_up") \/ Now(t, "vpn_down")
  /\ LET n == At(t).x
         up == At(t).op = "vpn_up"
         steps == IF disk.vpn[n] # "ovpn" THEN IF up THEN ApplyWgConfig(n, disk.vpn[n] = "wg") ELSE TeardownWg(n)
                  ELSE IF up THEN <<Must("openvpn", n, None), Must("pid+", n, None)>>
                  ELSE <<Must("kill", n, None), Must("pid-", n, None)>>
     IN  IF disk.vpn[n] = None \/ (disk.vpn[n] = "ovpn" /\ ~up /\ n \notin disk.pid)
         THEN Abort(t) ELSE GoesOn(t, steps \o Tail(todo[t]), loc[t])
  /\ UNCHANGED <<work, shared, world>>

PidFile(t) ==
  /\ Now(t, "pid+") \/ Now(t, "pid-")
  /\ disk' = [disk EXCEPT !.pid = IF At(t).op = "pid+" THEN @ \cup {At(t).x} ELSE @ \ {At(t).x}]
  /\ Advance(t)
  /\ UNCHANGED <<work, kern, lease, flags, cache, world>>

\* Mutant: nobody looks whether the rule was added.
SetVpnKillswitchTries(b, i) ==
  IF b THEN <<Try("table", "killswitch", None), Try("chain", "killswitch", "drop"), Try("rule", "killswitch", i)>>
       ELSE <<Try("table-", "killswitch", None)>>

\* set_vpn_killswitch: the drop policy stands before the rule that lets the tunnel through.
SetVpnKillswitch(b, i) ==
  IF b THEN <<Try("table", "killswitch", None), Try("chain", "killswitch", "drop"), Must("rule", "killswitch", i)>>
       ELSE <<Try("table-", "killswitch", None)>>

\* vpn_show: the profile must be there; whether the tunnel is up is only looked at.
VpnShow(n) == <<Must("vpn_show", n, None)>>
VpnLook(t) ==
  /\ Now(t, "vpn_show")
  /\ IF disk.vpn[At(t).x] = None THEN Abort(t) ELSE Advance(t)
  /\ UNCHANGED <<work, shared, world>>

(* quality.rs: what ping and iw print is of no consequence, but a program  *)
(* that cannot be run or an interface that goes away is.                   *)
MeasureQuality(i) == <<Step("exec", i, None, "warn", TRUE), Try("exec", i, None)>>
BandwidthTest(i) == <<Must("index", i, None), Must("index", i, None)>>
DiagnoseInterface(i) == <<Try("exec", i, None)>>

(* firewall.rs                                                             *)
PolicyOf(p) == IF p = "public" THEN "drop" ELSE "accept"
ApplyFirewallPreset(p) == <<Must("load", "quantra", PolicyOf(p))>> \o Update("fw", <<"preset", p>>)
FirewallAllow(r) == <<Must("rule", "quantra", r)>>
FirewallBlock(r) == <<Must("rule", "quantra", r)>>
FirewallZoneAdd(i) == Update("fw", <<"zone", i>>)
FirewallNat(b, i) ==
  (IF b THEN <<Try("table", "nat", None), Try("chain", "nat", "accept"), Must("rule", "nat", i)>>
        ELSE <<Try("table-", "nat", None)>>)
  \o Update("fw", <<"nat", b>>)
-----------------------------------------------------------------------------
(* netns.rs                                                                *)
NetnsCreate(n) == <<Must("absent", n, None), Must("nsfile", n, None), Must("unshare", n, None)>>
NetnsExec(n) == <<Must("present", n, None), Must("exec", n, None)>>
NetnsDelete(n) == <<Must("present", n, None), Step("umount", n, None, "warn", TRUE), Must("rmns", n, None)>>
LinkSetNetns(i, n) == <<Must("present", n, None), Must("setns", i, n)>>
VethCreate(a, b) == <<Must("veth", a, b)>>

\* Path::exists, on one side or the other.
NsCheck(t) ==
  /\ Now(t, "absent") \/ Now(t, "present")
  /\ IF (At(t).op = "present") = (At(t).x \in disk.netns) THEN Advance(t) ELSE Abort(t)
  /\ UNCHANGED <<work, shared, world>>

NsFile(t) ==
  /\ Now(t, "nsfile")
  /\ disk' = [disk EXCEPT !.netns = @ \cup {At(t).x}]
  /\ GoesOn(t, Tail(todo[t]), [loc[t] EXCEPT !.open = @ \cup {At(t).x}])
  /\ clash' = clash \cup Met(t, At(t).x)
  /\ UNCHANGED <<work, kern, lease, flags, cache, net, bound, naps, fault, due>>

\* unshare mounts the namespace on the file.  When it exits with an error the file goes, when
\* it cannot be executed at all the file stays.
NsMount(t) ==
  /\ Now(t, "unshare")
  /\ LET n == At(t).x
     IN  \/ /\ n \in disk.netns
           /\ kern' = After(kern, Must("mount", n, None))
           /\ GoesOn(t, Tail(todo[t]), [loc[t] EXCEPT !.open = @ \ {n}])
           /\ UNCHANGED <<disk, fault, clash>>
        \/ /\ n \notin disk.netns \/ fault = "exit"
           /\ fault' = IF n \in disk.netns THEN None ELSE fault
           /\ disk' = [disk EXCEPT !.netns = IF kern.ns[n] = 0 THEN @ \ {n} ELSE @]
           /\ Abort(t) /\ UNCHANGED <<kern, clash>>
        \/ /\ fault = "spawn" /\ fault' = None
           /\ Abort(t) /\ clash' = clash \cup {n}
           /\ UNCHANGED <<disk, kern>>
  /\ UNCHANGED <<work, lease, flags, cache, net, bound, naps, due>>

\* remove_file: not of a file that is gone, nor of one that is still a mount point.
NsRemove(t) ==
  /\ Now(t, "rmns")
  /\ LET n == At(t).x
     IN  IF n \in disk.netns /\ kern.ns[n] = 0
         THEN disk' = [disk EXCEPT !.netns = @ \ {n}] /\ Advance(t)
         ELSE Abort(t) /\ UNCHANGED disk
  /\ UNCHANGED <<work, kern, lease, flags, cache, world>>

NsNext(t) == NsCheck(t) \/ NsFile(t) \/ NsMount(t) \/ NsRemove(t)
VpnNext(t) == VpnLook(t) \/ SaveVpnProfile(t) \/ VpnChoose(t) \/ PidFile(t)
-----------------------------------------------------------------------------
(* wifi.rs: wpa_supplicant is started unless it answers, a network is      *)
(* added and selected, and the state polled until it is COMPLETED.         *)
EnsureWpaSupplicant(i) == <<Must("wpa", i, None)>>
WifiConnect(i, s) == EnsureWpaSupplicant(i) \o <<Must("wpa_set", i, s), Must("wpa_join", i, s), Must("assoc", i, None)>>
WifiDisconnect(i) == EnsureWpaSupplicant(i) \o <<Must("wpa_part", i, None)>>
WifiScan(i) == <<Must("scan", i, None)>>

Associate(t) ==
  /\ Now(t, "assoc")
  /\ IF kern.wpa[At(t).x].on \in work.air THEN Advance(t) ELSE Abort(t)
  /\ UNCHANGED <<work, shared, world>>
-----------------------------------------------------------------------------
(* resolver.rs                                                             *)
DnsQuery(n) == <<Must("dns_get", n, None)>>
Qtype == {"A", "AAAA"}
Live(n, q) == <<n, q>> \in DOMAIN cache.map /\ cache.map[<<n, q>>].expires >= cache.clock

\* DnsCache::get for both types; any address in it is an answer.
DnsGet(t) ==
  /\ Now(t, "dns_get")
  /\ LET n == At(t).x
     IN  IF \E q \in Qtype : Live(n, q) /\ cache.map[<<n, q>>].addr # None THEN Advance(t)
         ELSE GoesOn(t, <<Must("dns_ask", n, None)>> \o Tail(todo[t]), [loc[t] EXCEPT !.seen = Qtype, !.msg = None])
  /\ UNCHANGED <<work, shared, world>>

\* DnsCache::insert: the entry that expires first makes room, also when the key is there.
Insert(c, k, e) ==
  [c EXCEPT !.map = LET oldest == CHOOSE j \in DOMAIN @ : \A i \in DOMAIN @ : @[j].expires <= @[i].expires
                        kept == IF Cardinality(DOMAIN @) >= CacheMax THEN DOMAIN @ \ {oldest} ELSE DOMAIN @
                    IN  [j \in kept \cup {k} |-> IF j = k THEN e ELSE @[j]]]

\* query_with_fallback, for A and AAAA at the same time: the answer of the first server that
\* has one (None: NXDOMAIN), or no answer from any.
DnsAnswered(t, q) ==
  /\ Now(t, "dns_ask") /\ q \in loc[t].seen
  /\ \E a \in {"addr", None}, ttl \in {1, 2} :
       /\ cache' = Insert(cache, <<At(t).x, q>>, [addr |-> a, expires |-> cache.clock + ttl])
       /\ loc' = [loc EXCEPT ![t].seen = @ \ {q}, ![t].msg = IF a = None THEN @ ELSE a]
  /\ UNCHANGED <<work, kern, disk, lease, flags, todo, res, world>>

DnsFailed(t, q) ==
  /\ Now(t, "dns_ask") /\ q \in loc[t].seen
  /\ loc' = [loc EXCEPT ![t].seen = @ \ {q}]
  /\ UNCHANGED <<work, shared, todo, res, world>>

DnsJoined(t) ==
  /\ Now(t, "dns_ask") /\ loc[t].seen = {}
  /\ IF loc[t].msg = None THEN Abort(t) ELSE Advance(t)
  /\ UNCHANGED <<work, shared, world>>

\* DnsFlushCache, DnsSetServers, DnsSetDot.
DnsAdmin(t) ==
  /\ Now(t, "dns_flush") \/ Now(t, "dns_set")
  /\ cache' = IF At(t).op = "dns_flush" THEN [cache EXCEPT !.map = [k \in {} |-> None]]
              ELSE [cache EXCEPT !.servers = At(t).x]
  /\ Advance(t)
  /\ UNCHANGED <<work, kern, disk, lease, flags, world>>

Tick == /\ cache.clock < work.clock /\ cache' = [cache EXCEPT !.clock = @ + 1]
        /\ UNCHANGED <<work, kern, disk, lease, flags, tasks, world>>

DnsNext(t) == DnsGet(t) \/ DnsJoined(t) \/ DnsAdmin(t) \/ \E q \in Qtype : DnsAnswered(t, q) \/ DnsFailed(t, q)
=============================================================================
