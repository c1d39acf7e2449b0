------------------------------- MODULE NetDhcp -------------------------------
(***************************************************************************)
(* The DHCP client of quantra-netd: dhcp.rs (IPv4) and ipv6.rs (DHCPv6 and *)
(* SLAAC).  A packet is its type, its transaction id and the address in    *)
(* it.  The server answers every packet that reaches it; an answer that is *)
(* slower than the client's timeout stays under way and may arrive later.  *)
(***************************************************************************)
EXTENDS NetTasks

CONSTANT MaxRetries    \* attempts of a handshake

NetFamily == {"v4", "v6"}
Catch(ok, err) == Step("catch", ok, err, None, TRUE)

\* get_mac reads /sys, open_dhcp_socket and open_dhcp6_socket bind to the interface.
GetMac(i) == <<Must("index", i, None)>>
OpenDhcpSocket(i) == <<Must("socket", i, None)>>
OpenDhcp6Socket(i) == <<Must("socket", i, None)>>

\* do_discover_request, do_dhcp6_handshake: one attempt; the receiving steps try again.
Handshake(f, i) == <<Must("discover", f, i), Must("offer", f, i), Must("request", f, i), Must("ack", f, i)>>
DoDhcp6Handshake(i) == Handshake("v6", i)

\* Mutant: an address that cannot be added is ignored.
ApplyLeaseTries(i) == <<Must("index", i, None), Must("existing", i, None), Try("addr+", i, "$ip")>>

\* apply_lease: the old IPv4 addresses go before the new one comes.  The answer may name a
\* gateway, and it may name DNS servers.
ApplyLease(i) ==
  <<Must("index", i, None), Must("existing", i, None), Must("addr+", i, "$ip")>>
  \o (IF work.gw THEN <<Try("route-", "default", None), Step("route+", "default", "gw", i, TRUE)>> ELSE <<>>)
  \o (IF work.dns THEN <<Must("resolv", "v4", None)>> ELSE <<>>)

ApplyDhcp6Lease(i) ==
  <<Must("index", i, None), Must("addr+", i, "$ip")>>
  \o (IF work.dns THEN <<Must("resolv", "v6", None)>> ELSE <<>>)

\* The socket, the handshake, the lease.
Fresh(i) == GetMac(i) \o OpenDhcpSocket(i) \o Handshake("v4", i)
            \o ApplyLease(i) \o <<Must("store", "v4", i)>>

\* build_lease_info asks the kernel once more before the renewal task is spawned.
DhcpAcquire(i) == <<Try("up", i, None)>> \o Fresh(i) \o <<Try("list", i, None), Must("renewal", "v4", i)>>
DhcpRenew(i) == <<Must("lookup", "v4", i)>>
DhcpRelease(i) == <<Must("release", "v4", i)>>

Dhcp6Acquire(i) ==
  GetMac(i) \o OpenDhcp6Socket(i) \o DoDhcp6Handshake(i)
  \o ApplyDhcp6Lease(i) \o <<Must("store", "v6", i), Must("renewal", "v6", i)>>
Dhcp6Release(i) == <<Must("release", "v6", i)>>

\* enable_slaac: four sysctls, the link; wait_for_slaac_address takes None for an answer.
SlaacEnable(i) == <<Must("sysctl", i, None), Try("up", i, None), Try("exec", i, None)>>

\* renewal_loop: T1, then T2 if the renewal failed, then the lease is given up.
RenewalLoop(i) ==
  <<Must("nap", i, None)>> \o DhcpRenew(i)
  \o <<Catch(<<>>, <<Must("nap", i, None)>> \o Fresh(i) \o <<Catch(<<>>, <<Must("unlease", "v4", i)>>)>>)>>

Dhcp6RenewalLoop(i) ==
  <<Must("nap", i, None)>> \o Dhcp6Acquire(i) \o <<Catch(<<>>, <<Must("unlease", "v6", i)>>)>>
-----------------------------------------------------------------------------
At(t) == Head(todo[t])
Xid(t) == <<t, loc[t].sent>>
Answer(kind, f, i, xid, ip) == [kind |-> kind, f |-> f, i |-> i, xid |-> xid, ip |-> ip]
Offers(f) == IF f = "v4" THEN work.ips ELSE Ip6

\* The family, if another task has an exchange of packets going on for the same interface.
Exchanging(u, f, i) == \E n \in DOMAIN todo[u] : /\ todo[u][n].op \in {"store", "renewed"} /\ ~Now(u, "nap")
                                                 /\ todo[u][n].x = f /\ todo[u][n].y = i
Crossed(t) == clash' = clash \cup {f \in {At(t).x} : \E u \in Task \ {t} : Exchanging(u, f, At(t).y)}

\* A send that fails ends the function.
SendFails(t) ==
  /\ Running(t) /\ todo[t] # <<>> /\ At(t).op \in {"discover", "request", "unicast", "bye"}
  /\ fault \in {"exit", "spawn"} /\ fault' = None
  /\ Abort(t) /\ Torn(t)
  /\ UNCHANGED <<work, shared, net, bound, naps, due>>

\* DHCPDISCOVER, SOLICIT, with a new transaction id; the server offers an address.
Discover(t) ==
  /\ Now(t, "discover")
  /\ LET n == loc[t].sent + 1
     IN  /\ GoesOn(t, Tail(todo[t]), [loc[t] EXCEPT !.try = @ + 1, !.sent = n])
         /\ \E ip \in Offers(At(t).x) : net' = net \cup {Answer("offer", At(t).x, At(t).y, <<t, n>>, ip)}
  /\ Crossed(t)
  /\ UNCHANGED <<work, shared, bound, naps, fault, due>>

\* recv_matching: packets of other transactions are skipped.
\* Mutant: the transaction id is not compared.
MatchesAny(t, m, kinds) == m.f = At(t).x /\ m.i = At(t).y /\ m.kind \in kinds
Matches(t, m, kinds) == MatchesAny(t, m, kinds) /\ m.xid = Xid(t)

AfterAck(t) == From(todo[t], First({i \in DOMAIN todo[t] : todo[t][i].op = "ack"}) + 1)

\* The next attempt, or the end.
Retry(t) ==
  IF loc[t].try < MaxRetries
  THEN GoesOn(t, Handshake(At(t).x, At(t).y) \o AfterAck(t), loc[t]) /\ UNCHANGED clash
  ELSE Abort(t) /\ Torn(t)

Offered(t) ==
  /\ Now(t, "offer")
  /\ \E m \in net : /\ Matches(t, m, {"offer"})
                    /\ net' = net \ {m}
                    /\ GoesOn(t, Tail(todo[t]), [loc[t] EXCEPT !.msg = m])
  /\ UNCHANGED <<work, shared, bound, naps, fault, due, clash>>

\* DHCPREQUEST with the id of the offer; the DHCPv6 REQUEST has one of its own.
Request(t) ==
  /\ Now(t, "request")
  /\ LET n == IF At(t).x = "v6" THEN loc[t].sent + 1 ELSE loc[t].sent
     IN  \E kind \in {"ack", "nak"} :
           /\ GoesOn(t, Tail(todo[t]), [loc[t] EXCEPT !.sent = n])
           /\ net' = net \cup {Answer(kind, At(t).x, At(t).y, <<t, n>>, loc[t].msg.ip)}
           /\ bound' = IF kind = "ack" THEN [bound EXCEPT ![At(t).x][At(t).y] = loc[t].msg.ip] ELSE bound
  /\ UNCHANGED <<work, shared, naps, fault, due, clash>>

Acked(t) ==
  /\ Now(t, "ack")
  /\ \E m \in net : /\ Matches(t, m, {"ack", "nak"})
                    /\ net' = net \ {m}
                    /\ IF m.kind = "ack"
                       THEN GoesOn(t, Tail(todo[t]), [loc[t] EXCEPT !.msg = m, !.try = 0]) /\ UNCHANGED clash
                       ELSE Retry(t)
  /\ UNCHANGED <<work, shared, bound, naps, fault, due>>

\* DISCOVER_TIMEOUT, REQUEST_TIMEOUT.
TimesOut(t) ==
  /\ Now(t, "offer") \/ Now(t, "ack")
  /\ Retry(t)
  /\ UNCHANGED <<work, shared, net, bound, naps, fault, due>>
-----------------------------------------------------------------------------
\* get_interface_addresses, then remove_ip_address for each IPv4 one, errors ignored.
Existing(t) ==
  /\ Now(t, "existing")
  /\ LET i == At(t).x
         olds == GetInterfaceAddresses(kern, i) \ Ip6
     IN  GoesOn(t, SetToSeq({Try("addr-", i, a) : a \in olds}) \o Tail(todo[t]),
                [loc[t] EXCEPT !.open = @ \cup {i}])
  /\ clash' = clash \cup Met(t, At(t).x)
  /\ UNCHANGED <<work, shared, net, bound, naps, fault, due>>

\* write_resolv_conf replaces the file; append_ipv6_dns adds to what is in it.
Resolv(t) ==
  /\ Now(t, "resolv")
  /\ disk' = [disk EXCEPT !.resolv = IF At(t).x = "v4" THEN {"v4"} ELSE @ \cup {"v6"}]
  /\ Advance(t)
  /\ UNCHANGED <<work, kern, lease, flags, cache, world>>

\* store_lease
Store(t) ==
  /\ Now(t, "store")
  /\ lease' = [lease EXCEPT ![At(t).x][At(t).y] = [ip |-> loc[t].msg.ip]]
  /\ GoesOn(t, Tail(todo[t]), [loc[t] EXCEPT !.open = @ \ {At(t).y}])
  /\ clash' = clash \cup Met(t, At(t).y)
  /\ UNCHANGED <<work, kern, disk, flags, cache, net, bound, naps, fault, due>>

\* spawn_renewal, spawn_dhcp6_renewal
SpawnRenewal(t) ==
  /\ Now(t, "renewal") /\ \E u \in Task : res[u] = "free"
  /\ Spawning(t, IF At(t).x = "v4" THEN RenewalLoop(At(t).y) ELSE Dhcp6RenewalLoop(At(t).y))
  /\ UNCHANGED <<work, shared, world>>

\* remove_lease
Unlease(t) ==
  /\ Now(t, "unlease")
  /\ lease' = [lease EXCEPT ![At(t).x][At(t).y] = None]
  /\ Advance(t)
  /\ UNCHANGED <<work, kern, disk, flags, cache, world>>
-----------------------------------------------------------------------------
\* dhcp_renew: without a lease everything from the start, with one a unicast REQUEST.
Lookup(t) ==
  /\ Now(t, "lookup")
  /\ LET i == At(t).y
     IN  IF lease["v4"][i] = None
         THEN GoesOn(t, DhcpAcquire(i) \o Tail(todo[t]), loc[t])
         ELSE GoesOn(t, <<Must("socket", i, None), Must("unicast", "v4", i), Must("renewed", "v4", i)>>
                        \o Tail(todo[t]), [loc[t] EXCEPT !.old = lease["v4"][i]])
  /\ UNCHANGED <<work, shared, world>>

\* The server extends what it has bound and refuses anything else.
Unicast(t) ==
  /\ Now(t, "unicast")
  /\ LET i == At(t).y
         n == loc[t].sent + 1
         kind == IF bound["v4"][i] = loc[t].old.ip THEN "ack" ELSE "nak"
     IN  /\ GoesOn(t, Tail(todo[t]), [loc[t] EXCEPT !.sent = n])
         /\ net' = net \cup {Answer(kind, "v4", i, <<t, n>>, loc[t].old.ip)}
  /\ Crossed(t)
  /\ UNCHANGED <<work, shared, bound, naps, fault, due>>

\* Only an ACK is waited for; when none comes in time, a fresh handshake.
Renewed(t) ==
  /\ Now(t, "renewed")
  /\ \E m \in net : /\ Matches(t, m, {"ack"})
                    /\ net' = net \ {m}
                    /\ GoesOn(t, <<Must("store", "v4", At(t).y)>> \o Tail(todo[t]), [loc[t] EXCEPT !.msg = m])
  /\ UNCHANGED <<work, shared, bound, naps, fault, due, clash>>

RenewTimesOut(t) ==
  /\ Now(t, "renewed")
  /\ GoesOn(t, Fresh(At(t).y) \o Tail(todo[t]), loc[t])
  /\ UNCHANGED <<work, shared, world>>

\* dhcp_release takes the lease out last, dhcp6_release first.  The address stays.
Release(t) ==
  /\ Now(t, "release")
  /\ LET f == At(t).x
         i == At(t).y
         bye == <<Must("socket", i, None), Must("bye", f, i)>>
     IN  IF lease[f][i] = None THEN Advance(t) /\ UNCHANGED lease
         ELSE IF f = "v4" THEN /\ GoesOn(t, bye \o <<Must("unlease", f, i)>> \o Tail(todo[t]), loc[t])
                               /\ UNCHANGED lease
         ELSE /\ GoesOn(t, bye \o Tail(todo[t]), loc[t])
              /\ lease' = [lease EXCEPT ![f][i] = None]
  /\ UNCHANGED <<work, kern, disk, flags, cache, world>>

Bye(t) ==
  /\ Now(t, "bye")
  /\ bound' = [bound EXCEPT ![At(t).x][At(t).y] = None]
  /\ Advance(t)
  /\ Crossed(t)
  /\ UNCHANGED <<work, shared, net, naps, fault, due>>

DhcpNext(t) ==
  \/ SendFails(t) \/ Discover(t) \/ Offered(t) \/ Request(t) \/ Acked(t) \/ TimesOut(t)
  \/ Existing(t) \/ Resolv(t) \/ Store(t) \/ SpawnRenewal(t) \/ Unlease(t)
  \/ Lookup(t) \/ Unicast(t) \/ Renewed(t) \/ RenewTimesOut(t) \/ Release(t) \/ Bye(t)
=============================================================================
