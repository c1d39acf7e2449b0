------------------------------ MODULE NetKernel ------------------------------
(***************************************************************************)
(* What quantra-netd changes in the kernel, and what its netlink calls and *)
(* its ip(8), nft(8), iw(8) and wpa_cli(8) commands do to it.              *)
(*                                                                         *)
(* A request to the kernel is a step [op, x, y, z, must].  Accepts says    *)
(* whether the kernel takes it, After what it does.  Validation of names   *)
(* and parsing of addresses are left out: the requests here are well       *)
(* formed.                                                                 *)
(***************************************************************************)
EXTENDS Naturals, Sequences, FiniteSets, SequencesExt

CONSTANTS None,
          Ip6          \* the addresses that are IPv6 ones

Step(op, x, y, z, must) == [op |-> op, x |-> x, y |-> y, z |-> z, must |-> must]
Must(op, x, y) == Step(op, x, y, None, TRUE)       \* `f(..).await?'
Try(op, x, y) == Step(op, x, y, None, FALSE)       \* `let _ = f(..).await' or `.ok()'

\* netlink.rs, routing.rs
Link(kind, under) == [kind |-> kind, up |-> FALSE, master |-> None, under |-> under]
Has(k, n) == n \in DOMAIN k.links
AddLink(k, n, l) == [k EXCEPT !.links = [m \in DOMAIN @ \cup {n} |-> IF m = n THEN l ELSE @[m]]]

\* A link that goes down loses its routes and its IPv6 addresses.
SetLinkState(k, n, b) ==
  [k EXCEPT !.links[n].up = b,
            !.routes = IF b THEN @ ELSE {r \in @ : r.dev # n},
            !.addrs = IF b THEN @ ELSE @ \ ({n} \X Ip6)]

\* A link that goes takes its addresses, its routes and the links stacked on it along.
DropLink(k, n) ==
  LET gone == {n} \cup {m \in DOMAIN k.links : k.links[m].under = n}
  IN  [k EXCEPT !.links = [m \in DOMAIN @ \ gone |->
                             [@[m] EXCEPT !.master = IF @ \in gone THEN None ELSE @]],
                !.addrs = {a \in @ : a[1] \notin gone}, !.routes = {r \in @ : r.dev \notin gone}]

RemoveIpAddress(k, n, ip) == [k EXCEPT !.addrs = @ \ {<<n, ip>>}]
AddIpAddress(k, n, ip) == [k EXCEPT !.addrs = @ \cup {<<n, ip>>}]
GetInterfaceAddresses(k, n) == {a[2] : a \in {b \in k.addrs : b[1] = n}}

AddRoute(k, dst, via, dev) == [k EXCEPT !.routes = @ \cup {[dst |-> dst, via |-> via, dev |-> dev]}]
DeleteRoute(k, dst) == [k EXCEPT !.routes = {r \in @ : r.dst # dst}]
RouteTo(k, dst) == {r \in k.routes : r.dst = dst}

\* What save_config and Status read: get_all_links, list_routes.
GetAllLinks(k) == [up |-> {n \in DOMAIN k.links : k.links[n].up}, addrs |-> k.addrs]
ListRoutes(k) == k.routes

\* nft: `add table' and `add chain' accept what is there, a rule needs its chain.
NftAdd(k, t) == [k EXCEPT !.nft = [u \in DOMAIN @ \cup {t} |->
                   IF u \in DOMAIN @ THEN @[u] ELSE [policy |-> None, rules |-> {}]]]

\* Two requests never succeed.  The ruleset of apply_firewall_preset begins with
\* `flush table inet quantra || true', which is no nft syntax, and nft loads all of a file or
\* nothing.  vpn_up drops the netlink connection before it uses its handle ("unheard").
Accepts(k, s) ==
  CASE s.op \in {"up", "down", "del", "index", "socket"} -> Has(k, s.x)
    [] s.op = "add"      -> ~Has(k, s.x) /\ (s.z = None \/ Has(k, s.z))
    [] s.op = "wg"       -> TRUE                          \* "File exists" is not an error
    [] s.op = "veth"     -> ~Has(k, s.x) /\ ~Has(k, s.y)
    [] s.op = "master"   -> Has(k, s.x) /\ Has(k, s.y)
                            /\ (k.links[s.y].kind = "bond" => ~k.links[s.x].up)
    [] s.op = "nomaster" -> Has(k, s.x)
    [] s.op = "addr+"    -> Has(k, s.x) /\ <<s.x, s.y>> \notin k.addrs
    [] s.op = "addr-"    -> Has(k, s.x) /\ <<s.x, s.y>> \in k.addrs
    [] s.op = "route+"   -> Has(k, s.z) /\ k.links[s.z].up /\ RouteTo(k, s.x) = {}
    [] s.op = "route-"   -> RouteTo(k, s.x) # {}
    [] s.op = "rule"     -> s.x \in DOMAIN k.nft /\ k.nft[s.x].policy # None
    [] s.op = "chain"    -> s.x \in DOMAIN k.nft
    [] s.op = "table-"   -> s.x \in DOMAIN k.nft
    [] s.op = "setns"    -> Has(k, s.x) /\ k.ns[s.y] > 0
    [] s.op = "umount"   -> k.ns[s.x] > 0
    [] s.op = "wpa_set"  -> k.wpa[s.x].run
    [] s.op \in {"load", "unheard"} -> FALSE
    [] OTHER -> TRUE

After(k, s) ==
  CASE s.op = "up"       -> SetLinkState(k, s.x, TRUE)
    [] s.op = "down"     -> SetLinkState(k, s.x, FALSE)
    [] s.op = "add"      -> AddLink(k, s.x, Link(s.y, s.z))
    [] s.op = "wg"       -> IF Has(k, s.x) THEN k ELSE AddLink(k, s.x, Link("wg", None))
    [] s.op = "wg_set"   -> [k EXCEPT !.wg = @ \cup {s.x}]
    [] s.op = "veth"     -> AddLink(AddLink(k, s.x, Link("veth", None)), s.y, Link("veth", None))
    [] s.op = "del"      -> [DropLink(k, s.x) EXCEPT !.wg = @ \ {s.x}]
    [] s.op = "setns"    -> DropLink(k, s.x)
    [] s.op = "master"   -> [k EXCEPT !.links[s.x].master = s.y]
    [] s.op = "nomaster" -> [k EXCEPT !.links[s.x].master = None]
    [] s.op = "addr+"    -> AddIpAddress(k, s.x, s.y)
    [] s.op = "addr-"    -> RemoveIpAddress(k, s.x, s.y)
    [] s.op = "route+"   -> AddRoute(k, s.x, s.y, s.z)
    [] s.op = "route-"   -> DeleteRoute(k, s.x)
    [] s.op = "table"    -> NftAdd(k, s.x)
    [] s.op = "chain"    -> [k EXCEPT !.nft[s.x].policy = s.y]
    [] s.op = "rule"     -> [k EXCEPT !.nft[s.x].rules = @ \cup {s.y}]
    [] s.op = "table-"   -> [k EXCEPT !.nft = [u \in DOMAIN @ \ {s.x} |-> @[u]]]
    [] s.op = "mount"    -> [k EXCEPT !.ns[s.x] = @ + 1]
    [] s.op = "umount"   -> [k EXCEPT !.ns[s.x] = @ - 1]
    [] s.op = "wpa"      -> [k EXCEPT !.wpa[s.x].run = TRUE]
    [] s.op = "wpa_join" -> [k EXCEPT !.wpa[s.x].on = s.y]
    [] s.op = "wpa_part" -> [k EXCEPT !.wpa[s.x].on = None]
    [] s.op = "openvpn"  -> [k EXCEPT !.ovpn[s.x] = @ + 1]
    [] s.op = "kill"     -> [k EXCEPT !.ovpn[s.x] = IF @ > 0 THEN @ - 1 ELSE 0]
    [] OTHER -> k

KernelOps == {"up", "down", "del", "index", "add", "wg", "wg_set", "veth", "master", "nomaster",
              "addr+", "addr-", "route+", "route-", "rule", "chain", "table", "table-", "load",
              "setns", "mount", "umount", "wpa", "wpa_set", "wpa_join", "wpa_part",
              "openvpn", "kill", "exec", "sysctl", "scan", "socket", "list", "unheard"}

\* Steps that wait for a program to exit (exec.rs, netns.rs, wifi.rs, routing.rs): no time limit
\* is set on any of them.  The kernel itself answers the others.  `up' and `down' are made both ways.
Programs == (KernelOps \ {"index", "addr+", "route+", "wg_set", "sysctl", "socket", "list", "unheard"})
            \cup {"unshare", "assoc", "ping", "first_ping"}
=============================================================================
