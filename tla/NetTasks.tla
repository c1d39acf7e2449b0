------------------------------ MODULE NetTasks ------------------------------
(***************************************************************************)
(* The tokio tasks of quantra-netd and the state they share.               *)
(*                                                                         *)
(* An async function is the sequence of its steps: one per call that       *)
(* reaches the kernel, a file, the network or a shared map.  The runtime   *)
(* has one thread (main.rs: current_thread), so that tasks interleave only *)
(* where one awaits; a step of NoAwait follows the step before it in the   *)
(* same poll.  A step that must succeed abandons the rest of its function, *)
(* up to the first place that handles the error:                           *)
(*   "catch"     `match f().await { Ok(..) => x, Err(..) => y }'           *)
(*   "deadline"  the same around `timeout(60 s, f())'                      *)
(*   "finish"    what runs before the function returns, either way.        *)
(***************************************************************************)
EXTENDS NetKernel

CONSTANTS Task,        \* slots for tasks: 1 .. n
          Iface,       \* interfaces DHCP runs on
          Workloads    \* commands given to the daemon, with the facts of their world

VARIABLES work,        \* the workload of this behaviour
          kern,        \* the kernel
          disk,        \* network.yaml, firewall.yaml, resolv.conf, /run/netns, pid files
          lease,       \* ACTIVE_LEASES of dhcp.rs and of ipv6.rs
          flags,       \* AUTO_CONFIG_RUNNING, SELF_HEAL_STARTED, active_connections
          cache,       \* the resolver
          todo,        \* per task, the steps it has left
          loc,         \* per task, its locals
          res,         \* per task, "free", "wait", "run", "ok" or "err"
          net,         \* answers of the DHCP servers that are on their way
          bound,       \* what each server has bound to the client
          naps,        \* bound on how often a timer wakes a task
          fault,       \* how one command may fail: None, "exit" or "spawn"
          due,         \* history: the files with all the edits made to them
          clash        \* history: resources whose update was overlapped or cut short

shared == <<kern, disk, lease, flags, cache>>
tasks == <<todo, loc, res>>
world == <<net, bound, naps, fault, due, clash>>
netVars == <<work, shared, tasks, world>>

Loc0 == [try |-> 0, sent |-> 0, msg |-> None, old |-> None, seen |-> {}, file |-> None,
         open |-> {}, failed |-> FALSE]

\* Transaction identifiers are never used twice, so `sent' outlives the function.
Cleared(l) == [Loc0 EXCEPT !.sent = l.sent]

Running(t) == res[t] = "run"
Now(t, op) == Running(t) /\ todo[t] # <<>> /\ Head(todo[t]).op = op
Client(t) == t <= Len(work.cmds)

\* Mutant: the files are written with tokio::fs::write, which awaits.
NoAwaitButFiles ==
  {"read", "known", "write", "resolv", "store", "unlease", "lookup", "release", "absent", "present",
   "nsfile", "rmns", "profile", "vpn_up", "vpn_down", "vpn_show", "pid+", "pid-", "load_config", "each",
   "peek", "wanted", "swap", "heal", "finish", "dns_get", "dns_flush", "dns_set", "renewal"} \cup {"catch", "deadline", "timeout", "return", "bail"}

\* std::fs calls, the mutexes of the lease tables and of the resolver, the atomics: none of
\* them gives the thread back.
NoAwait == NoAwaitButFiles \cup {"trunc"}

\* The task whose poll is under way, if any: everybody else waits for it.
Polled == {t \in Task : Running(t) /\ todo[t] # <<>> /\ Head(todo[t]).op \in NoAwait}
InProgram(t) == Running(t) /\ todo[t] # <<>> /\ Head(todo[t]).op \in Programs

\* What a finished task leaves behind; the slot of a background task can be used again.
Ended(t, r) == IF Client(t) THEN r ELSE "free"

\* t goes on with the steps p, its locals being l.
GoesOn(t, p, l) ==
  /\ todo' = [todo EXCEPT ![t] = p]
  /\ loc' = [loc EXCEPT ![t] = IF p = <<>> THEN Cleared(l) ELSE l]
  /\ res' = [res EXCEPT ![t] = IF p = <<>> THEN Ended(t, IF l.failed THEN "err" ELSE "ok") ELSE @]

Advance(t) == GoesOn(t, Tail(todo[t]), loc[t])

Handlers == {"catch", "deadline", "finish"}
Handler(t) == {i \in DOMAIN todo[t] : todo[t][i].op \in Handlers}
First(S) == CHOOSE i \in S : \A j \in S : i <= j
From(p, i) == SubSeq(p, i, Len(p))

\* An error in front of the steps p: what the function had open stays half done and the
\* nearest handler runs.  A function with something to finish returns the error after that.
AbortFrom(t, p) ==
  LET l == Cleared(loc[t])
      hs == {i \in DOMAIN p : p[i].op \in Handlers}
      i == First(hs)
  IN  IF hs = {}
      THEN /\ todo' = [todo EXCEPT ![t] = <<>>]
           /\ loc' = [loc EXCEPT ![t] = l]
           /\ res' = [res EXCEPT ![t] = Ended(t, "err")]
      ELSE IF p[i].op = "finish" THEN GoesOn(t, From(p, i), [l EXCEPT !.failed = TRUE])
      ELSE GoesOn(t, p[i].y \o From(p, i + 1), l)
Abort(t) == AbortFrom(t, todo[t])
Torn(t) == clash' = clash \cup (loc[t].open \cap Iface)

\* The resource r a step of t works on, when another task has it open as well.
Met(t, r) == {q \in {r} : \E u \in Task \ {t} : q \in loc[u].open}

\* A background task gets a free slot.
Free == CHOOSE u \in Task : res[u] = "free" /\ \A v \in Task : res[v] = "free" => u <= v
Spawning(t, p) ==
  /\ todo' = [todo EXCEPT ![t] = Tail(@), ![Free] = p]
  /\ res' = [res EXCEPT ![t] = IF Len(todo[t]) = 1 THEN Ended(t, "ok") ELSE @, ![Free] = "run"]
  /\ loc' = [loc EXCEPT ![t] = IF Len(todo[t]) = 1 THEN Cleared(@) ELSE @]

\* The address a step takes from the answer its function has received.
Filled(t, s) == IF s.y = "$ip" THEN [s EXCEPT !.y = loc[t].msg.ip] ELSE s

\* A command that exits with an error is only worth a warning where z says so.
Strict(s, how) == s.must /\ ~(s.z = "warn" /\ how = "exit")

\* The last command of set_vpn_killswitch, behind the one that drops everything.
Letting(s) == s.op = "rule" /\ s.x = "killswitch"

\* One request to the kernel, or one command.  Of the addresses it takes away, those of an
\* interface whose lease is being applied by the same function go as they should.
KernelStep(t) ==
  /\ Running(t) /\ todo[t] # <<>> /\ Head(todo[t]).op \in KernelOps
  /\ LET s == Filled(t, Head(todo[t]))
         met == IF s.op \in {"addr+", "addr-"} THEN Met(t, s.x) ELSE {}
         lost == {a[1] : a \in kern.addrs \ After(kern, s).addrs}
         refused(how) == IF Strict(s, how)
                         THEN Abort(t) /\ clash' = clash \cup (loc[t].open \cap Iface) \cup {c \in {s.x} : Letting(s)}
                         ELSE Advance(t) /\ clash' = clash \cup met
     IN  \/ /\ Accepts(kern, s)
            /\ kern' = After(kern, s)
            /\ Advance(t)
            /\ clash' = (clash \cup met \cup (lost \ loc[t].open)) \ {c \in {s.x} : Letting(s) \/ s.op = "table-"}
            /\ UNCHANGED fault
         \/ ~Accepts(kern, s) /\ refused("exit") /\ UNCHANGED <<kern, fault>>
         \/ fault \in {"exit", "spawn"} /\ fault' = None /\ refused(fault) /\ UNCHANGED kern
  /\ UNCHANGED <<work, disk, lease, flags, cache, net, bound, naps, due>>

\* The end of what a handler guards, reached without an error; `return Ok' from inside it.
Handled(t) ==
  /\ Running(t) /\ todo[t] # <<>> /\ Head(todo[t]).op \in {"catch", "deadline"}
  /\ GoesOn(t, Head(todo[t]).x \o Tail(todo[t]), loc[t])
  /\ UNCHANGED <<work, shared, world>>

Within(t) ==
  /\ Now(t, "timeout")
  /\ LET s == Head(todo[t])
     IN  GoesOn(t, s.x \o <<Step("deadline", s.y, s.z, None, TRUE)>> \o Tail(todo[t]), loc[t])
  /\ UNCHANGED <<work, shared, world>>

Return(t) ==
  /\ Now(t, "return")
  /\ GoesOn(t, From(todo[t], First({i \in Handler(t) : todo[t][i].op = "finish"})), loc[t])
  /\ UNCHANGED <<work, shared, world>>

Bail(t) == Now(t, "bail") /\ Abort(t) /\ Torn(t)
           /\ UNCHANGED <<work, shared, net, bound, naps, fault, due>>

\* The 60 s are over: the future inside is dropped where it awaits.
Expire(t) ==
  /\ Polled = {} /\ Running(t) /\ Handler(t) # {} /\ todo[t][First(Handler(t))].op = "deadline"
  /\ Abort(t) /\ Torn(t)
  /\ UNCHANGED <<work, shared, net, bound, naps, fault, due>>

\* A timer wakes its task.
Wake(t) ==
  /\ Now(t, "nap") /\ naps > 0 /\ naps' = naps - 1
  /\ Advance(t)
  /\ UNCHANGED <<work, shared, net, bound, fault, due, clash>>
=============================================================================
