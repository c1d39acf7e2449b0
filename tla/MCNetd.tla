------------------------------- MODULE MCNetd -------------------------------
(* quantra-netd on small workloads: one to three overlapping commands, one *)
(* failure or kill, one or two timers.                                     *)
EXTENDS Netd

C(op, x, y) == [op |-> op, x |-> x, y |-> y, on |-> TRUE, auth |-> TRUE, cmds |-> <<>>]
Off(c) == [c EXCEPT !.on = FALSE]
L(kind) == [kind |-> kind, up |-> TRUE, master |-> None, under |-> None]
Kern0 == [links |-> [n \in {"eth0"} |-> L("eth")], addrs |-> {}, routes |-> {},
          nft |-> [t \in {} |-> None], ns |-> [n \in {"ns1"} |-> 0], wg |-> {},
          wpa |-> [i \in {"wlan0"} |-> [run |-> FALSE, on |-> None]], ovpn |-> [n \in {"ovpn0"} |-> 0]]
Wlan == [Kern0 EXCEPT !.links = [n \in {"wlan0"} |-> L("wlan")]]
W(cmds) == [cmds |-> cmds, kern |-> Kern0, cfg |-> DefaultConfig, ips |-> {"ip1"}, gw |-> FALSE, dns |-> FALSE, air |-> {"home"},
            online |-> TRUE, boot |-> FALSE, mute |-> FALSE, kill |-> FALSE, naps |-> 0, clock |-> 0, fault |-> None]
Fault(w, f) == [w EXCEPT !.fault = f, !.kill = f = "kill"]
Naps(w, n) == [w EXCEPT !.naps = n]
OnWlan(w) == [w EXCEPT !.kern = Wlan]

Batch(cs) == [C("Batch", None, None) EXCEPT !.cmds = cs]
B(cs) == W(<<Batch(cs)>>)
Mute(w) == [w EXCEPT !.mute = TRUE]
Boot(w) == [w EXCEPT !.boot = TRUE]
Gw(w) == [w EXCEPT !.gw = TRUE]
Dns(w) == [w EXCEPT !.dns = TRUE]
TwoIps(w) == [w EXCEPT !.ips = {"ip1", "ip2"}]
Saved(w) == [w EXCEPT !.cfg.wifi = {"home"}]

ConfigLoads ==
  {W(<<C("ModeSet", "manual", None), C("WifiAuto", "wlan0", None)>>),
   Fault(W(<<C("ModeSet", "manual", None)>>), "kill"),
   Saved(W(<<C("WifiForget", "home", None), C("WifiForget", "home", None)>>)),
   Mute(W(<<C("Status", None, None), [C("Status", None, None) EXCEPT !.auth = FALSE]>>)),
   B(<<C("LinkAdd", "eth0", "ip1"), C("ConfigSave", None, None), C("LinkRemove", "eth0", "ip1"), C("ConfigLoad", None, None)>>)}

LinkLoads ==
  {B(<<C("BridgeCreate", "br0", None), C("BridgeAdd", "br0", "eth0"), C("BridgeRemove", "eth0", None),
       C("BridgeDelete", "br0", None), C("VlanCreate", "v1", "eth0"), C("VlanDelete", "v1", None),
       C("BridgeCreate", "eth0", None)>>),
   B(<<C("BondCreate", "bo0", None), C("BondAdd", "bo0", "eth0"), C("BondRemove", "eth0", None), C("BondDelete", "bo0", None),
       C("MacvlanCreate", "m1", "eth0"), C("MacvlanDelete", "m1", None), C("Batch", None, None), C("LinkUp", "eth0", None)>>),
   B(<<C("VpnShow", "wg0", None), C("VpnCreate", "wg0", "wg"), C("VpnShow", "wg0", None), C("VpnUp", "wg0", None), C("VpnCreate", "wg0", "wg_bare"), C("VpnUp", "wg0", None), C("VpnDown", "wg0", None),
       C("VpnCreate", "ovpn0", "ovpn"), C("VpnDown", "ovpn0", None), C("VpnUp", "ovpn0", None), C("VpnDown", "ovpn0", None)>>),
   Fault(B(<<C("Quality", "eth0", None), C("Bandwidth", "eth0", None), C("Diagnose", None, None), C("StatusDetail", "eth0", None)>>), "spawn"),
   B(<<C("VethCreate", "a", "b"), C("RouteAdd", "eth0", "net1"), C("LinkRestart", "eth0", None), C("RouteDel", None, "net1"),
       C("LinkDown", "eth0", None), C("LinkUp", "eth0", None), C("Ipv6Slaac", "eth0", None), C("VpnDown", "ovpn0", None)>>)}

FirewallLoads ==
  {W(<<C("FirewallPreset", "public", None), C("FirewallPreset", "home", None)>>),
   W(<<C("FirewallNat", "eth0", None), Off(C("FirewallNat", "eth0", None))>>),
   Fault(W(<<Batch(<<C("FirewallNat", "eth0", None), Off(C("FirewallNat", "eth0", None))>>)>>), "exit"),
   Fault(W(<<C("VpnKillSwitch", "tun0", None), Off(C("VpnKillSwitch", "tun0", None))>>), "exit"),
   Fault(B(<<C("VpnKillSwitch", "tun0", None), C("Status", None, None), C("VpnKillSwitch", "tun0", None)>>), "exit"),
   Fault(W(<<C("VpnKillSwitch", "tun0", None), C("VpnKillSwitch", "tun0", None)>>), "kill"),
   B(<<C("FirewallAllow", "ssh", None), C("FirewallPreset", "public", None), C("FirewallBlock", "ssh", None), C("FirewallZone", "eth0", None)>>)}

NetnsLoads ==
  {Fault(W(<<C("NetnsCreate", "ns1", None), C("NetnsDelete", "ns1", None)>>), "exit"),
   Fault(W(<<C("NetnsCreate", "ns1", None)>>), "spawn"),
   B(<<C("NetnsCreate", "ns1", None), C("NetnsExec", "ns1", None), C("LinkSetNetns", "eth0", "ns1"), C("NetnsDelete", "ns1", None)>>)}

DnsLoads == {W(<<C("DnsQuery", "a", None), C("DnsQuery", "b", None)>>),
             [B(<<C("DnsQuery", "a", None), C("DnsQuery", "a", None), C("DnsFlush", None, None), C("DnsSet", "s", None)>>) EXCEPT !.clock = 2]}

DhcpLoads ==
  {TwoIps(W(<<C("DhcpAcquire", "eth0", None)>>)),
   Naps(W(<<C("DhcpAcquire", "eth0", None)>>), 2),
   Naps(B(<<C("DhcpAcquire", "eth0", None), C("DhcpRelease", "eth0", None)>>), 1),
   Fault(Gw(Dns(B(<<C("DhcpAcquire", "eth0", None), C("DhcpRenew", "eth0", None)>>))), "exit"),
   Fault(W(<<C("DhcpAcquire", "eth0", None)>>), "kill"),
   W(<<C("Ipv6Acquire", "eth0", None), C("LinkDown", "eth0", None)>>),
   Naps(Dns(B(<<C("Ipv6Acquire", "eth0", None), C("Ipv6Release", "eth0", None)>>)), 1)}

AutoLoads ==
  {OnWlan(W(<<C("AutoConfigure", None, None), C("AutoConfigure", None, None)>>)),
   Naps(Boot(Gw(W(<<>>))), 1),
   Fault(OnWlan(Saved(W(<<C("AutoConfigure", None, None), C("ModeSet", "manual", None)>>))), "exit"),
   OnWlan(Saved(Boot(W(<<>>)))),
   OnWlan(W(<<C("WifiConnect", "wlan0", "home"), Batch(<<C("WifiScan", "wlan0", None), C("WifiDisconnect", "wlan0", None)>>)>>))}

RenewalLoads == {Naps(W(<<C("DhcpAcquire", "eth0", None)>>), 1)}

Loads == ConfigLoads \cup LinkLoads \cup FirewallLoads \cup NetnsLoads \cup DnsLoads \cup DhcpLoads \cup AutoLoads
=============================================================================
