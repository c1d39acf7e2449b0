------------------------------ MODULE MCLogind ------------------------------
(* Logind on small workloads: two or three requests that overlap, with the *)
(* ACPI and idle threads beside them.                                      *)
EXTENDS Logind

CONSTANTS u1, u2, p1

R(op) == [op |-> op, via |-> "socket", root |-> TRUE, peer |-> u1, uid |-> u1, sid |-> 1, vt |-> 1,
          on |-> TRUE, of |-> "sessions", dev |-> "card0", what |-> {"sleep"}, mode |-> "block",
          pid |-> p1, id |-> 1, interactive |-> FALSE]
Dbus(q) == [q EXCEPT !.via = "dbus"]
User(q) == [q EXCEPT !.root = FALSE, !.peer = u2]
Open2 == [R("open") EXCEPT !.uid = u2, !.vt = None]
Work(reqs, acpi, idle) == [reqs |-> reqs, acpi |-> acpi, idle |-> idle, dbus |-> FALSE,
                           linger |-> {}, mounts |-> TRUE]
WithDbus(w) == [w EXCEPT !.dbus = TRUE]
WithLinger(w) == [w EXCEPT !.linger = {u1}, !.mounts = FALSE]
Quiet(reqs) == Work(reqs, <<>>, "ignore")
Delay(w) == [R("take") EXCEPT !.mode = "delay", !.what = {w}]
Block(w) == [R("take") EXCEPT !.what = {w}]
Off(q) == [q EXCEPT !.on = FALSE]

SessionLoads ==
  {Quiet(<<R("open"), R("close"), Open2>>), Quiet(<<R("open"), R("open"), R("close")>>),
   Quiet(<<R("open"), Open2, R("activate")>>), Quiet(<<R("open"), R("activate_on_seat"), R("close")>>),
   WithDbus(Quiet(<<R("lock"), Dbus(R("unlock"))>>)), Quiet(<<R("open"), R("lock_all"), R("set_locked")>>),
   Quiet(<<R("open"), R("close"), R("terminate_user")>>), Quiet(<<R("open"), R("close"), R("close")>>),
   Quiet(<<R("open"), R("lock"), R("unlock")>>),
   Quiet(<<R("open"), User(R("close")), R("switch_to")>>),
   Quiet(<<R("open"), R("linger"), R("close")>>), WithLinger(Quiet(<<R("open"), Off(R("linger")), R("close")>>))}

OtherLoads ==
  {Quiet(<<R("subscribe"), R("open"), R("status")>>), Quiet(<<User(R("linger")), R("take_device"), R("release_device")>>),
   Quiet(<<R("status"), R("switch_to"), R("schedule")>>), Quiet(<<R("status"), R("brightness"), R("cancel")>>),
   Quiet(<<R("status"), R("status"), [R("power_off") EXCEPT !.interactive = TRUE]>>),
   WithDbus(Quiet(<<R("query"), Dbus(R("query")), Dbus(R("take"))>>))}

PowerLoads ==
  {Work(<<Block("sleep"), R("suspend"), R("release")>>, <<"suspend">>, "ignore"),
   Work(<<Delay("shutdown"), R("status")>>, <<"power_off">>, "ignore"),
   Work(<<R("firmware"), Block("shutdown")>>, <<"hibernate">>, "ignore"),
   Work(<<R("open"), R("set_idle"), R("status")>>, <<>>, "lock"),
   Work(<<R("open"), R("set_idle"), Block("idle")>>, <<>>, "suspend"),
   Work(<<R("open"), R("set_idle"), Block("sleep")>>, <<>>, "suspend")}

Loads == SessionLoads \cup OtherLoads \cup PowerLoads
=============================================================================
