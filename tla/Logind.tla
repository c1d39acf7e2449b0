------------------------------- MODULE Logind -------------------------------
(***************************************************************************)
(* quantra-logind at run time: the control socket with one thread per      *)
(* request, the ACPI and idle threads, the inhibitor GC, the delayed       *)
(* clean-up after a log-out, and the D-Bus bridge, which is a client of    *)
(* the control socket inside the same process.                             *)
(*                                                                         *)
(* A statement `x.lock().unwrap().f()' takes and drops its mutex within    *)
(* one step.  A guard that is bound to a name, or lives as long as a match *)
(* does, is held over several steps and recorded in `lock'.                *)
(***************************************************************************)
EXTENDS LogindManagers

CONSTANTS Uid, Pid,
          MaxVt,         \* 63
          Workloads,     \* a run's requests, ACPI actions, idle action, dbus, linger files, tmpfs
          MaxRequests,   \* the most requests in a workload
          Capable,       \* the sleep states this hardware supports
          IgnoresBlocks, \* suspend and hibernate: *_key_ignore_inhibited
          IdlePolls      \* polls that make up idle_action_sec

Lock == {"sessions", "users", "seats", "inhibitors", "power", "bus"}
SleepOps == {"suspend", "hibernate", "hybrid_sleep", "suspend_then_hibernate"}
DownOps == {"power_off", "reboot", "firmware", "halt"}
Acpi == 100
Idle == 200
Bridge == 300

Thread == 1 .. MaxRequests \cup {Acpi, Idle, Bridge}

ASSUME LogindAssumption == /\ IdlePolls \in Nat \ {0} /\ Capable \subseteq SleepOps
                           /\ \A w \in Workloads : /\ DOMAIN w.reqs \subseteq 1 .. MaxRequests
                                                   /\ w.linger \subseteq Uid
                                                   /\ \A r \in DOMAIN w.reqs : w.reqs[r].uid \in Uid
                           /\ IgnoresBlocks \subseteq {"suspend", "hibernate"}
                           /\ None \notin Thread

VARIABLES work,          \* the workload of this run
          sessions, nextSession, users, dirs, lingerFiles, cleanups,
          seat, inhibitors, nextInhibitor, scheduled,
          lock, pc, mem, sinks,
          idlePolls, alive, objects, machine

sessionVars == <<sessions, nextSession>>
userVars == <<users, dirs, lingerFiles, cleanups>>
inhibitVars == <<inhibitors, nextInhibitor>>
worldVars == <<work, idlePolls, alive, objects, machine>>
vars == <<sessionVars, userVars, seat, inhibitVars, scheduled, lock, pc, mem, sinks, worldVars>>

Req == DOMAIN work.reqs
Op(r) == work.reqs[r].op
Arg(r) == work.reqs[r]

\* Where the handler of each request begins.
First(op) ==
  CASE op \in SleepOps \cup DownOps -> "p_inhibitors"
    [] op \in {"subscribe", "status", "open", "close", "activate"} -> op
    [] OTHER -> "one"

Init ==
  /\ work \in Workloads
  /\ sessions = [s \in {} |-> 0] /\ nextSession = 1
  /\ lingerFiles = work.linger
  /\ users = [u \in {} |-> 0] /\ dirs = [u \in Uid |-> <<>>] /\ cleanups = {}
  /\ seat = Seat0 /\ inhibitors = {} /\ nextInhibitor = 1 /\ scheduled = FALSE
  /\ lock = [l \in Lock |-> None]
  /\ pc = [r \in Thread |-> IF r \in Req THEN First(Op(r))
                          ELSE IF r <= MaxRequests THEN "done" ELSE "sleep"]
  /\ mem = [r \in Thread |-> [sid |-> 0, uid |-> None, seat |-> None, ok |-> "none", acpi |-> 0]]
  /\ sinks = {}
  /\ idlePolls = 0 /\ alive = Pid /\ objects = {} /\ machine = "init"
-----------------------------------------------------------------------------
(* Locks and control flow.                                                 *)

Goto(r, b) == pc' = [pc EXCEPT ![r] = b]
Statement(r, l, a, b) == /\ pc[r] = a /\ lock[l] = None
                         /\ Goto(r, b) /\ UNCHANGED lock
Acquire(r, l, a, b) == /\ pc[r] = a /\ lock[l] = None
                       /\ lock' = [lock EXCEPT ![l] = r] /\ Goto(r, b)
Dropped(r) == [l \in Lock |-> IF lock[l] = r THEN None ELSE lock[l]]
Answer(r, ok) == mem' = [mem EXCEPT ![r].ok = IF ok THEN "ok" ELSE "err"]

\* The requests that methods of the login1 interfaces are translated to.
ManagerQueries == {"query"}
ManagerPower == {"power_off", "reboot", "suspend", "hibernate"}
ManagerInhibit == {"take"}
SessionMethods == {"activate", "lock", "unlock", "close", "set_locked", "set_idle"}
UserMethods == {"terminate_user"}
SeatMethods == {"activate", "switch_to"}

\* D-Bus calls run on the bridge's one thread, which blocks in call_logind.
Turn(r) ==
  /\ machine = "up"
  /\ Arg(r).via = "dbus" =>
       Op(r) \in UNION {ManagerQueries, ManagerPower, ManagerInhibit,
                        SessionMethods, UserMethods, SeatMethods}
  /\ Arg(r).via = "dbus" /\ pc[r] = First(Op(r)) =>
       /\ pc[Bridge] \in {"events", "listening", "deaf"}
       /\ \A q \in Req : Arg(q).via = "dbus" /\ q # r => pc[q] \in {First(Op(q)), "done"}

\* A request of one locked statement that ends in a reply.
One(r, op, l) == /\ r \in Req /\ Turn(r) /\ Op(r) = op /\ Statement(r, l, "one", "done")
-----------------------------------------------------------------------------
(* Start-up: run() in main.rs.                                             *)

\* create_runtime_dir; mount(2) works where logind may mount.
MakeDir(u, all) == CreateRuntimeSubdirs(CreateRuntimeDir(dirs[u], work.mounts), all)

\* The clean-up threads of the user's earlier log-outs that still sleep.
Pending(u) == {c \in cleanups : c.uid = u}

\* load_linger_state calls set_linger(uid, true) for every file that is there.
LoadLinger ==
  /\ machine = "init"
  /\ \E all \in BOOLEAN : dirs' = [u \in Uid |-> IF u \in lingerFiles THEN MakeDir(u, all) ELSE dirs[u]]
  /\ users' = [u \in lingerFiles |-> [sids |-> <<>>, linger |-> TRUE, late |-> Pending(u)]]
  /\ machine' = "threads"
  /\ UNCHANGED <<sessionVars, lingerFiles, cleanups, seat, inhibitVars, scheduled, lock, pc, mem,
                 sinks, work, idlePolls, alive, objects>>

\* start_dbus_bridge: its thread runs before the control socket exists.
StartBridge ==
  /\ machine = "threads" /\ pc[Bridge] = "sleep"
  /\ Goto(Bridge, IF work.dbus THEN "started" ELSE "absent")
  /\ UNCHANGED <<sessionVars, userVars, seat, inhibitVars, scheduled, lock, mem, sinks, worldVars>>

Bind ==
  /\ machine = "threads" /\ pc[Bridge] # "sleep"
  /\ machine' = "up"
  /\ UNCHANGED <<sessionVars, userVars, seat, inhibitVars, scheduled, lock, pc, mem, sinks,
                 work, idlePolls, alive, objects>>

\* run_dbus_bridge: connect, hello, request_name.
BridgeConnect ==
  /\ pc[Bridge] = "started" /\ machine # "down"
  /\ \E b \in {"absent", "objects"} : Goto(Bridge, b)
  /\ UNCHANGED <<sessionVars, userVars, seat, inhibitVars, scheduled, lock, mem, sinks, worldVars>>

\* register_initial_objects: the answers are skipped where the socket is not there yet.
BridgeObjects ==
  /\ \/ machine = "threads" /\ objects' = objects
     \/ machine = "up" /\ objects' = DOMAIN sessions
  /\ Statement(Bridge, "sessions", "objects", "events")
  /\ UNCHANGED <<sessionVars, userVars, seat, inhibitVars, scheduled, mem, sinks,
                 work, idlePolls, alive, machine>>

\* handle_events gives up where it cannot connect; otherwise its subscription keeps the
\* write guard of the event bus for ever.
BridgeDeaf ==
  /\ machine = "threads" /\ pc[Bridge] = "events"
  /\ Goto(Bridge, "deaf")
  /\ UNCHANGED <<sessionVars, userVars, seat, inhibitVars, scheduled, lock, mem, sinks, worldVars>>

BridgeSubscribe ==
  /\ machine = "up"
  /\ Acquire(Bridge, "bus", "events", "listening")
  /\ sinks' = sinks \cup {Bridge}
  /\ UNCHANGED <<sessionVars, userVars, seat, inhibitVars, scheduled, mem, worldVars>>
-----------------------------------------------------------------------------
(* OpenSession, one step per statement of the handler.                     *)

\* Requests that only root, or root and the user concerned, may make.
RootOnly == {"open", "terminate_user", "take_device", "switch_to", "schedule"} \cup DownOps
Allowed(r) == /\ Op(r) \in RootOnly => Arg(r).root
              /\ Op(r) = "linger" => Arg(r).root \/ Arg(r).peer = Arg(r).uid

Refused(r) ==
  /\ r \in Req /\ Turn(r) /\ pc[r] = First(Op(r)) /\ ~Allowed(r)
  /\ Goto(r, "done") /\ Answer(r, FALSE)
  /\ UNCHANGED <<sessionVars, userVars, seat, inhibitVars, scheduled, lock, sinks, worldVars>>

Open(r) ==
  /\ r \in Req /\ Turn(r) /\ Op(r) = "open" /\ Allowed(r)
  /\ Statement(r, "sessions", "open", "login")
  /\ sessions' = SessionOpen(sessions, nextSession, Arg(r).uid, Arg(r).vt)
  /\ nextSession' = nextSession + 1
  /\ mem' = [mem EXCEPT ![r].sid = nextSession]
  /\ UNCHANGED <<userVars, seat, inhibitVars, scheduled, sinks, worldVars>>

\* UserManager::login: the first log-in makes the runtime directory, which may fail.
LoginAgain(r) ==
  /\ r \in Req /\ machine = "up" /\ Arg(r).uid \in DOMAIN users
  /\ Statement(r, "users", "login", "seat")
  /\ users' = [users EXCEPT ![Arg(r).uid].sids =
                 IF mem[r].sid \in Range(@) THEN @ ELSE Append(@, mem[r].sid)]
  /\ UNCHANGED <<sessionVars, dirs, lingerFiles, cleanups, seat, inhibitVars, scheduled, mem,
                 sinks, worldVars>>

\* Mutant: the guard of the users lives on while the rest of the handler runs.
LoginFirstLocked(r) ==
  /\ r \in Req /\ machine = "up" /\ Arg(r).uid \notin DOMAIN users
  /\ Acquire(r, "users", "login", "seat")
  /\ \E all \in BOOLEAN : dirs' = [dirs EXCEPT ![Arg(r).uid] = MakeDir(Arg(r).uid, all)]
  /\ users' = NewUser(users, Arg(r).uid, <<mem[r].sid>>, FALSE, Pending(Arg(r).uid))
  /\ UNCHANGED <<sessionVars, lingerFiles, cleanups, seat, inhibitVars, scheduled, mem,
                 sinks, worldVars>>

LoginFirst(r) ==
  /\ r \in Req /\ machine = "up" /\ Arg(r).uid \notin DOMAIN users
  /\ Statement(r, "users", "login", "seat")
  /\ \E all \in BOOLEAN : dirs' = [dirs EXCEPT ![Arg(r).uid] = MakeDir(Arg(r).uid, all)]
  /\ users' = NewUser(users, Arg(r).uid, <<mem[r].sid>>, FALSE, Pending(Arg(r).uid))
  /\ UNCHANGED <<sessionVars, lingerFiles, cleanups, seat, inhibitVars, scheduled, mem,
                 sinks, worldVars>>

LoginFails(r) ==
  /\ r \in Req /\ machine = "up" /\ Arg(r).uid \notin DOMAIN users
  /\ Statement(r, "users", "login", "done") /\ Answer(r, FALSE)
  /\ UNCHANGED <<sessionVars, userVars, seat, inhibitVars, scheduled, sinks, worldVars>>

OpenSeat(r) ==
  /\ r \in Req /\ machine = "up" /\ Statement(r, "seats", "seat", "assign")
  /\ seat' = SeatAdd(seat, mem[r].sid)
  /\ UNCHANGED <<sessionVars, userVars, inhibitVars, scheduled, mem, sinks, worldVars>>

OpenAssign(r) ==
  /\ r \in Req /\ machine = "up" /\ Statement(r, "sessions", "assign", "new_session")
  /\ sessions' = SessionSeat(sessions, mem[r].sid, "seat0")
  /\ UNCHANGED <<nextSession, userVars, seat, inhibitVars, scheduled, mem, sinks, worldVars>>

\* broadcast_event: the bus is locked for the writes, and a sink that cannot be written to is
\* dropped.  What follows the event, per place in the handlers:
AfterEvent == [new_session |-> "new_user", new_user |-> "done", removed |-> "done",
               hinted |-> "done", switched |-> "done", held |-> "done"]
Raising(r) == pc[r] \in DOMAIN AfterEvent

Broadcast(r) ==
  /\ r \in Req /\ machine = "up" /\ Raising(r) /\ lock["bus"] = None
  /\ sinks' = {q \in sinks : pc[q] = "listening"}
  /\ Goto(r, AfterEvent[pc[r]])
  /\ IF AfterEvent[pc[r]] = "done" THEN lock' = Dropped(r) /\ Answer(r, TRUE)
                                   ELSE UNCHANGED <<lock, mem>>
  /\ UNCHANGED <<sessionVars, userVars, seat, inhibitVars, scheduled, worldVars>>
-----------------------------------------------------------------------------
(* CloseSession.                                                           *)

CloseUnknown(r) ==
  /\ r \in Req /\ Turn(r) /\ Op(r) = "close" /\ Statement(r, "sessions", "close", "done")
  /\ Arg(r).sid \in DOMAIN sessions => ~Arg(r).root /\ Arg(r).peer # sessions[Arg(r).sid].uid
  /\ Answer(r, FALSE)
  /\ UNCHANGED <<sessionVars, userVars, seat, inhibitVars, scheduled, sinks, worldVars>>

CloseUid(r) ==
  /\ r \in Req /\ Turn(r) /\ Op(r) = "close" /\ Statement(r, "sessions", "close", "seat_of")
  /\ Arg(r).sid \in DOMAIN sessions
  /\ Arg(r).root \/ Arg(r).peer = sessions[Arg(r).sid].uid
  /\ mem' = [mem EXCEPT ![r].sid = Arg(r).sid, ![r].uid = sessions[Arg(r).sid].uid]
  /\ UNCHANGED <<sessionVars, userVars, seat, inhibitVars, scheduled, sinks, worldVars>>

SeatOf(s) == IF s \in DOMAIN sessions THEN sessions[s].seat ELSE None

CloseSeatOf(r) ==
  /\ r \in Req /\ machine = "up" /\ Statement(r, "sessions", "seat_of", "leave")
  /\ mem' = [mem EXCEPT ![r].seat = SeatOf(mem[r].sid)]
  /\ UNCHANGED <<sessionVars, userVars, seat, inhibitVars, scheduled, sinks, worldVars>>

\* Mutant: CloseSession does not tell the seat.
CloseLeaveForgets(r) ==
  /\ r \in Req /\ machine = "up" /\ pc[r] = "leave" /\ Goto(r, "end")
  /\ UNCHANGED <<sessionVars, userVars, seat, inhibitVars, scheduled, lock, mem, sinks, worldVars>>

CloseLeave(r) ==
  /\ r \in Req /\ machine = "up" /\ pc[r] = "leave" /\ Goto(r, "end")
  /\ mem[r].seat = None \/ lock["seats"] = None
  /\ seat' = IF mem[r].seat = None THEN seat ELSE SeatRemove(seat, mem[r].sid)
  /\ UNCHANGED <<sessionVars, userVars, inhibitVars, scheduled, lock, mem, sinks, worldVars>>

CloseEnd(r) ==
  /\ r \in Req /\ machine = "up" /\ mem[r].sid \in DOMAIN sessions
  /\ Statement(r, "sessions", "end", "logout")
  /\ sessions' = SessionClose(sessions, mem[r].sid)
  /\ UNCHANGED <<nextSession, userVars, seat, inhibitVars, scheduled, mem, sinks, worldVars>>

CloseVanished(r) ==
  /\ r \in Req /\ machine = "up" /\ mem[r].sid \notin DOMAIN sessions
  /\ Statement(r, "sessions", "end", "done") /\ Answer(r, FALSE)
  /\ UNCHANGED <<sessionVars, userVars, seat, inhibitVars, scheduled, sinks, worldVars>>

\* UserManager::logout: the record goes at once, the directory after user_stop_delay_sec.
Logout(r) ==
  /\ r \in Req /\ machine = "up" /\ Statement(r, "users", "logout", "removed")
  /\ LET u == mem[r].uid
         left == Without(users[u].sids, mem[r].sid)
     IN  IF u \notin DOMAIN users THEN UNCHANGED <<users, cleanups>>
         ELSE IF left = <<>> /\ ~users[u].linger
              THEN users' = UserRemove(users, u) /\ cleanups' = cleanups \cup {[uid |-> u, by |-> r]}
              ELSE users' = [users EXCEPT ![u].sids = left] /\ UNCHANGED cleanups
  /\ UNCHANGED <<sessionVars, dirs, lingerFiles, seat, inhibitVars, scheduled, mem, sinks, worldVars>>

\* The clean-up thread, when its delay is over: no lock, no look at who has logged in since.
Cleanup(c) ==
  /\ machine = "up" /\ c \in cleanups
  /\ cleanups' = cleanups \ {c}
  /\ dirs' = [dirs EXCEPT ![c.uid] = DestroyRuntimeDir(@)]
  /\ UNCHANGED <<sessionVars, users, lingerFiles, seat, inhibitVars, scheduled, lock, pc, mem,
                 sinks, worldVars>>
-----------------------------------------------------------------------------
(* ActivateSession and ActivateSessionOnSeat.                              *)

ActivateUnknown(r) ==
  /\ r \in Req /\ Turn(r) /\ Op(r) = "activate" /\ Arg(r).sid \notin DOMAIN sessions
  /\ Statement(r, "sessions", "activate", "done") /\ Answer(r, FALSE)
  /\ UNCHANGED <<sessionVars, userVars, seat, inhibitVars, scheduled, sinks, worldVars>>

Activate(r) ==
  /\ r \in Req /\ Turn(r) /\ Op(r) = "activate" /\ Arg(r).sid \in DOMAIN sessions
  /\ Statement(r, "sessions", "activate", "act_seat")
  /\ sessions' = SessionActivate(sessions, Arg(r).sid)
  /\ UNCHANGED <<nextSession, userVars, seat, inhibitVars, scheduled, mem, sinks, worldVars>>

\* seat_of, then seats.activate(..).ok().
ActivateSeatOf(r) ==
  /\ r \in Req /\ machine = "up" /\ Statement(r, "sessions", "act_seat", "act_on")
  /\ mem' = [mem EXCEPT ![r].seat = SeatOf(Arg(r).sid)]
  /\ UNCHANGED <<sessionVars, userVars, seat, inhibitVars, scheduled, sinks, worldVars>>

ActivateOn(r) ==
  /\ r \in Req /\ machine = "up" /\ pc[r] = "act_on" /\ Goto(r, "act_vt")
  /\ mem[r].seat = None \/ lock["seats"] = None
  /\ seat' = IF mem[r].seat = None THEN seat ELSE SeatActivate(seat, Arg(r).sid)
  /\ UNCHANGED <<sessionVars, userVars, inhibitVars, scheduled, lock, mem, sinks, worldVars>>

\* vt_of; the switch is tried and its failure ignored, the event is raised either way.
ActivateVt(r) ==
  /\ r \in Req /\ machine = "up" /\ lock["sessions"] = None /\ pc[r] = "act_vt"
  /\ IF Arg(r).sid \in DOMAIN sessions /\ sessions[Arg(r).sid].vt # None
     THEN Goto(r, "act_switch") /\ UNCHANGED mem
     ELSE Goto(r, "done") /\ Answer(r, TRUE)
  /\ UNCHANGED <<sessionVars, userVars, seat, inhibitVars, scheduled, lock, sinks, worldVars>>

ActivateSwitch(r) ==
  /\ r \in Req /\ machine = "up"
  /\ \/ Acquire(r, "seats", "act_switch", "act_wait")
     \/ Statement(r, "seats", "act_switch", "switched")
  /\ UNCHANGED <<sessionVars, userVars, seat, inhibitVars, scheduled, mem, sinks, worldVars>>

OnSeat(r) ==
  /\ One(r, "activate_on_seat", "seats") /\ Arg(r).sid \notin Range(seat.sessions)
  /\ Answer(r, FALSE)
  /\ UNCHANGED <<sessionVars, userVars, seat, inhibitVars, scheduled, sinks, worldVars>>

OnSeatActive(r) ==
  /\ r \in Req /\ Turn(r) /\ Op(r) = "activate_on_seat" /\ Arg(r).sid \in Range(seat.sessions)
  /\ Statement(r, "seats", "one", "on_seat")
  /\ seat' = SeatActivate(seat, Arg(r).sid)
  /\ UNCHANGED <<sessionVars, userVars, inhibitVars, scheduled, mem, sinks, worldVars>>

OnSeatSession(r) ==
  /\ r \in Req /\ machine = "up" /\ Statement(r, "sessions", "on_seat", "done")
  /\ sessions' = IF Arg(r).sid \in DOMAIN sessions THEN SessionActivate(sessions, Arg(r).sid)
                                                   ELSE sessions
  /\ Answer(r, TRUE)
  /\ UNCHANGED <<nextSession, userVars, seat, inhibitVars, scheduled, sinks, worldVars>>
-----------------------------------------------------------------------------
(* Hints, devices, users, inhibitors: one locked statement each.           *)

Hint(r) ==
  /\ r \in Req /\ Turn(r) /\ Op(r) \in {"lock", "unlock"} /\ Arg(r).sid \in DOMAIN sessions
  /\ Statement(r, "sessions", "one", "hinted")
  /\ sessions' = SessionLock(sessions, {Arg(r).sid}, Op(r) = "lock")
  /\ UNCHANGED <<nextSession, userVars, seat, inhibitVars, scheduled, mem, sinks, worldVars>>

\* SetLockedHint and SetIdleHint raise no event.
HintQuiet(r) ==
  /\ One(r, "set_idle", "sessions") \/ One(r, "set_locked", "sessions")
  /\ Arg(r).sid \in DOMAIN sessions
  /\ sessions' = IF Op(r) = "set_idle" THEN SessionIdle(sessions, Arg(r).sid, Arg(r).on)
                 ELSE SessionLock(sessions, {Arg(r).sid}, Arg(r).on)
  /\ Answer(r, TRUE)
  /\ UNCHANGED <<nextSession, userVars, seat, inhibitVars, scheduled, sinks, worldVars>>

HintUnknown(r) ==
  /\ \E op \in {"lock", "unlock", "set_idle", "set_locked"} : One(r, op, "sessions")
  /\ Arg(r).sid \notin DOMAIN sessions
  /\ Answer(r, FALSE)
  /\ UNCHANGED <<sessionVars, userVars, seat, inhibitVars, scheduled, sinks, worldVars>>

HintAll(r) ==
  /\ One(r, "lock_all", "sessions") \/ One(r, "unlock_all", "sessions")
  /\ sessions' = SessionLock(sessions, DOMAIN sessions, Op(r) = "lock_all")
  /\ Answer(r, TRUE)
  /\ UNCHANGED <<nextSession, userVars, seat, inhibitVars, scheduled, sinks, worldVars>>

\* Requests that only read one manager: lists, Get*, Can*, GetBrightness, Version.
Query(r) ==
  /\ One(r, "query", Arg(r).of)
  /\ Answer(r, TRUE)
  /\ UNCHANGED <<sessionVars, userVars, seat, inhibitVars, scheduled, sinks, worldVars>>

\* set_linger: the file first; then an idle record goes, or a user who is not logged in gets
\* a directory and a record.  Each write may fail, and what was done before it stays.
SetLinger(r) ==
  /\ One(r, "linger", "users") /\ Allowed(r) /\ Arg(r).on
  /\ \E result \in {"made", "made_part", "no_dir", "no_user"} :
       LET u == Arg(r).uid
           fresh == u \notin DOMAIN users /\ result \in {"made", "made_part"}
       IN  /\ Answer(r, u \in DOMAIN users \/ result # "no_dir")
           /\ users' = IF fresh THEN NewUser(users, u, <<>>, TRUE, Pending(u))
                       ELSE IF u \in DOMAIN users THEN [users EXCEPT ![u].linger = TRUE] ELSE users
           /\ dirs' = IF fresh THEN [dirs EXCEPT ![u] = MakeDir(u, result = "made")] ELSE dirs
           /\ lingerFiles' = lingerFiles \cup {u}
  /\ UNCHANGED <<sessionVars, cleanups, seat, inhibitVars, scheduled, sinks, worldVars>>

\* Mutant: linger off removes the directory of a user who is logged in.
UnsetLingerAlways(r) ==
  /\ One(r, "linger", "users") /\ Allowed(r) /\ ~Arg(r).on
  /\ users' = [u \in {v \in DOMAIN users : v # Arg(r).uid \/ users[v].sids # <<>>} |->
                 [users[u] EXCEPT !.linger = @ /\ u # Arg(r).uid]]
  /\ dirs' = [dirs EXCEPT ![Arg(r).uid] = DestroyRuntimeDir(@)]
  /\ lingerFiles' = lingerFiles \ {Arg(r).uid}
  /\ Answer(r, TRUE)
  /\ UNCHANGED <<sessionVars, cleanups, seat, inhibitVars, scheduled, sinks, worldVars>>

UnsetLinger(r) ==
  /\ One(r, "linger", "users") /\ Allowed(r) /\ ~Arg(r).on
  /\ LET u == Arg(r).uid
         idle == u \in DOMAIN users /\ users[u].sids = <<>>
     IN  /\ users' = IF idle THEN UserRemove(users, u)
                     ELSE IF u \in DOMAIN users THEN [users EXCEPT ![u].linger = FALSE] ELSE users
         /\ dirs' = IF idle THEN [dirs EXCEPT ![u] = DestroyRuntimeDir(@)] ELSE dirs
         /\ lingerFiles' = lingerFiles \ {u}
  /\ Answer(r, TRUE)
  /\ UNCHANGED <<sessionVars, cleanups, seat, inhibitVars, scheduled, sinks, worldVars>>

\* set_linger fails before anything has changed.
LingerFails(r) ==
  /\ One(r, "linger", "users") /\ Allowed(r)
  /\ Answer(r, FALSE)
  /\ UNCHANGED <<sessionVars, userVars, seat, inhibitVars, scheduled, sinks, worldVars>>

TerminateUser(r) ==
  /\ One(r, "terminate_user", "users") /\ Allowed(r)
  /\ users' = UserRemove(users, Arg(r).uid)
  /\ dirs' = IF Arg(r).uid \in DOMAIN users
             THEN [dirs EXCEPT ![Arg(r).uid] = DestroyRuntimeDir(@)] ELSE dirs
  /\ Answer(r, TRUE)
  /\ UNCHANGED <<sessionVars, lingerFiles, cleanups, seat, inhibitVars, scheduled, sinks, worldVars>>

\* TakeDevice hands out the descriptor it already has, or opens the device.
TakeDevice(r) ==
  /\ One(r, "take_device", "seats") /\ Allowed(r)
  /\ \/ seat' = [seat EXCEPT !.taken = @ \cup {Arg(r).dev}] /\ Answer(r, TRUE)
     \/ Arg(r).dev \notin seat.taken /\ UNCHANGED seat /\ Answer(r, FALSE)
  /\ UNCHANGED <<sessionVars, userVars, inhibitVars, scheduled, sinks, worldVars>>

ReleaseDevice(r) ==
  /\ One(r, "release_device", "seats")
  /\ seat' = [seat EXCEPT !.taken = @ \ {Arg(r).dev}] /\ Answer(r, TRUE)
  /\ UNCHANGED <<sessionVars, userVars, inhibitVars, scheduled, sinks, worldVars>>

TakeInhibitor(r) ==
  /\ One(r, "take", "inhibitors") /\ Arg(r).via # "dbus"
  /\ inhibitors' = InhibitTake(inhibitors, nextInhibitor, Arg(r).what, Arg(r).mode, Arg(r).pid)
  /\ nextInhibitor' = nextInhibitor + 1
  /\ Answer(r, TRUE)
  /\ UNCHANGED <<sessionVars, userVars, seat, scheduled, sinks, worldVars>>

\* Inhibit over D-Bus: the lock is taken in the name of logind itself, and then the reply,
\* an object, is read as a number: the caller gets an error and nobody will release the lock.
DbusInhibit(r) ==
  /\ One(r, "take", "inhibitors") /\ Arg(r).via = "dbus"
  /\ inhibitors' = InhibitTake(inhibitors, nextInhibitor, Arg(r).what, Arg(r).mode, None)
  /\ nextInhibitor' = nextInhibitor + 1
  /\ Answer(r, FALSE)
  /\ UNCHANGED <<sessionVars, userVars, seat, scheduled, sinks, worldVars>>

ReleaseInhibitor(r) ==
  /\ One(r, "release", "inhibitors")
  /\ inhibitors' = InhibitRelease(inhibitors, Arg(r).id)
  /\ Answer(r, \E i \in inhibitors : i.id = Arg(r).id)
  /\ UNCHANGED <<sessionVars, userVars, seat, nextInhibitor, scheduled, sinks, worldVars>>

\* The GC thread; the process of logind itself (None) is always there.
Gc ==
  /\ machine = "up" /\ lock["inhibitors"] = None
  /\ inhibitors' = GcDeadPids(inhibitors, alive \cup {None})
  /\ inhibitors' # inhibitors
  /\ UNCHANGED <<sessionVars, userVars, seat, nextInhibitor, scheduled, lock, pc, mem, sinks, worldVars>>

Exit(p) ==
  /\ machine = "up" /\ p \in alive /\ \E i \in inhibitors : i.pid = p
  /\ alive' = alive \ {p}
  /\ UNCHANGED <<sessionVars, userVars, seat, inhibitVars, scheduled, lock, pc, mem, sinks,
                 work, idlePolls, objects, machine>>
-----------------------------------------------------------------------------
(* Requests that keep a mutex while they raise an event, and Status.       *)

SwitchTo(r) ==
  /\ r \in Req /\ Turn(r) /\ Op(r) = "switch_to" /\ Allowed(r)
  /\ Arg(r).vt \in 1 .. MaxVt
  /\ Acquire(r, "seats", "one", "vt_wait")
  /\ UNCHANGED <<sessionVars, userVars, seat, inhibitVars, scheduled, mem, sinks, worldVars>>

\* VT_WAITACTIVE returns when the other side has given the terminal up, with the guard of the
\* seats held until then: a temporary of ActivateSession, the scrutinee of SwitchTo's match.
InSwitch(r) == pc[r] \in {"act_wait", "vt_wait"}

SwitchEnds(r) ==
  /\ r \in Req /\ machine = "up"
  /\ \/ pc[r] = "act_wait" /\ Goto(r, "switched") /\ lock' = Dropped(r)
     \/ pc[r] = "vt_wait" /\ Goto(r, "held") /\ UNCHANGED lock
  /\ UNCHANGED <<sessionVars, userVars, seat, inhibitVars, scheduled, mem, sinks, worldVars>>

\* The number is out of range, or the VT_ACTIVATE ioctl fails.
SwitchFails(r) ==
  /\ One(r, "switch_to", "seats") /\ Allowed(r)
  /\ Answer(r, FALSE)
  /\ UNCHANGED <<sessionVars, userVars, seat, inhibitVars, scheduled, sinks, worldVars>>

Brightness(r) ==
  /\ r \in Req /\ Turn(r) /\ Op(r) = "brightness"
  /\ Acquire(r, "power", "one", "held")
  /\ UNCHANGED <<sessionVars, userVars, seat, inhibitVars, scheduled, mem, sinks, worldVars>>

BrightnessFails(r) ==
  /\ One(r, "brightness", "power")
  /\ Answer(r, FALSE)
  /\ UNCHANGED <<sessionVars, userVars, seat, inhibitVars, scheduled, sinks, worldVars>>

Schedule(r) ==
  /\ r \in Req /\ Turn(r) /\ Op(r) = "schedule" /\ Allowed(r)
  /\ Acquire(r, "power", "one", "held")
  /\ scheduled' = TRUE
  /\ UNCHANGED <<sessionVars, userVars, seat, inhibitVars, mem, sinks, worldVars>>

CancelScheduled(r) ==
  /\ One(r, "cancel", "power")
  /\ scheduled' = FALSE /\ Answer(r, TRUE)
  /\ UNCHANGED <<sessionVars, userVars, seat, inhibitVars, sinks, worldVars>>

\* Status binds four guards, in this order, and then locks power.
StatusOrder == <<"sessions", "users", "seats", "inhibitors">>
StatusAt == <<"status", "status_2", "status_3", "status_4", "status_5">>

StatusStep(r) ==
  /\ r \in Req /\ Turn(r)
  /\ \E i \in 1 .. 4 : Acquire(r, StatusOrder[i], StatusAt[i], StatusAt[i + 1])
  /\ UNCHANGED <<sessionVars, userVars, seat, inhibitVars, scheduled, mem, sinks, worldVars>>

StatusEnd(r) ==
  /\ r \in Req /\ machine = "up" /\ pc[r] = "status_5" /\ lock["power"] \in {None, r}
  /\ Goto(r, "done") /\ lock' = Dropped(r) /\ Answer(r, TRUE)
  /\ UNCHANGED <<sessionVars, userVars, seat, inhibitVars, scheduled, sinks, worldVars>>

\* Subscribe: the write guard of the bus lives in the scope of the loop that never ends.
Subscribe(r) ==
  /\ r \in Req /\ Turn(r) /\ Acquire(r, "bus", "subscribe", "listening")
  /\ sinks' = sinks \cup {r} /\ Answer(r, TRUE)
  /\ UNCHANGED <<sessionVars, userVars, seat, inhibitVars, scheduled, worldVars>>

\* The client has gone when the reply is written: `?' leaves the handler and drops the guard.
SubscribeLost(r) ==
  /\ r \in Req /\ Turn(r) /\ Statement(r, "bus", "subscribe", "done")
  /\ sinks' = sinks \cup {r} /\ Answer(r, FALSE)
  /\ UNCHANGED <<sessionVars, userVars, seat, inhibitVars, scheduled, worldVars>>
-----------------------------------------------------------------------------
(* Power actions.  A request locks inhibitors and then power; the ACPI and *)
(* the idle thread lock power and then inhibitors.                         *)

What(op) == IF op \in SleepOps THEN "sleep" ELSE "shutdown"

\* The power action a thread is about, and whether its caller may override a block.
ActionOf(r) == IF r \in Req THEN Op(r)
               ELSE IF r = Acpi THEN work.acpi[mem[Acpi].acpi] ELSE work.idle
Interactive(r) == r \in Req /\ Arg(r).interactive

PowerInhibitors(r) ==
  /\ r \in Req /\ Turn(r) /\ Allowed(r)
  /\ Acquire(r, "inhibitors", "p_inhibitors", "p_power")
  /\ UNCHANGED <<sessionVars, userVars, seat, inhibitVars, scheduled, mem, sinks, worldVars>>

PowerLock(r) ==
  /\ r \in Req /\ machine = "up" /\ Acquire(r, "power", "p_power", "p_check")
  /\ UNCHANGED <<sessionVars, userVars, seat, inhibitVars, scheduled, mem, sinks, worldVars>>

\* After an action a request is answered, and a thread goes back to its loop.
PowerReturn(r, ok) == /\ lock' = Dropped(r)
                      /\ IF r \in Req THEN Goto(r, "done") /\ Answer(r, ok)
                                      ELSE Goto(r, "sleep") /\ UNCHANGED mem

\* check_block: what stops the action.
Stopped(r) ==
  \/ ActionOf(r) \in SleepOps \ Capable
  \/ /\ ActionOf(r) \notin IgnoresBlocks /\ ~Interactive(r)
     /\ IsBlocked(inhibitors, What(ActionOf(r)))

\* Mutant: check_block asks about shutdown for every action.
StoppedByShutdown(r) ==
  \/ ActionOf(r) \in SleepOps \ Capable
  \/ ~Interactive(r) /\ IsBlocked(inhibitors, "shutdown")

PowerStopped(r) ==
  /\ machine = "up" /\ pc[r] = "p_check" /\ Stopped(r) /\ PowerReturn(r, FALSE)
  /\ UNCHANGED <<sessionVars, userVars, seat, inhibitVars, scheduled, sinks, worldVars>>

PowerPasses(r) ==
  /\ machine = "up" /\ pc[r] = "p_check" /\ ~Stopped(r)
  /\ Goto(r, IF ActionOf(r) = "firmware" THEN "p_go" ELSE "p_delay")
  /\ UNCHANGED <<sessionVars, userVars, seat, inhibitVars, scheduled, lock, mem, sinks, worldVars>>

\* wait_delay: no delay lock is left, or inhibit_delay_max_sec is over.
DelayClear(r) ==
  /\ machine = "up" /\ pc[r] = "p_delay" /\ ~HasDelay(inhibitors, What(ActionOf(r)))
  /\ Goto(r, "p_go")
  /\ UNCHANGED <<sessionVars, userVars, seat, inhibitVars, scheduled, lock, mem, sinks, worldVars>>

DelayElapsed(r) ==
  /\ machine = "up" /\ pc[r] = "p_delay" /\ HasDelay(inhibitors, What(ActionOf(r)))
  /\ Goto(r, "p_go")
  /\ UNCHANGED <<sessionVars, userVars, seat, inhibitVars, scheduled, lock, mem, sinks, worldVars>>

\* reboot(2) does not return when it succeeds.
PowerDown(r) ==
  /\ machine = "up" /\ pc[r] = "p_go" /\ ActionOf(r) \in DownOps
  /\ machine' = "down"
  /\ UNCHANGED <<sessionVars, userVars, seat, inhibitVars, scheduled, lock, pc, mem, sinks,
                 work, idlePolls, alive, objects>>

\* A sleep is over, or /sys/power/state, the EFI variable or reboot(2) refused.
PowerDone(r) ==
  /\ machine = "up" /\ pc[r] = "p_go"
  /\ \E ok \in BOOLEAN : PowerReturn(r, ok)
  /\ UNCHANGED <<sessionVars, userVars, seat, inhibitVars, scheduled, sinks, worldVars>>

\* handle_acpi_event.
AcpiEvent ==
  /\ machine = "up" /\ mem[Acpi].acpi < Len(work.acpi)
  /\ Acquire(Acpi, "power", "sleep", "a_inhibitors")
  /\ mem' = [mem EXCEPT ![Acpi].acpi = @ + 1]
  /\ UNCHANGED <<sessionVars, userVars, seat, inhibitVars, scheduled, sinks, worldVars>>

\* Mutant: the guard of the inhibitors is dropped before the action is taken.
AcpiInhibitorsUnheld ==
  /\ machine = "up"
  /\ Statement(Acpi, "inhibitors", "a_inhibitors", "p_check")
  /\ UNCHANGED <<sessionVars, userVars, seat, inhibitVars, scheduled, mem, sinks, worldVars>>

AcpiInhibitors ==
  /\ machine = "up"
  /\ Acquire(Acpi, "inhibitors", "a_inhibitors", "p_check")
  /\ UNCHANGED <<sessionVars, userVars, seat, inhibitVars, scheduled, mem, sinks, worldVars>>

\* One turn of idle_action_loop: blocked, or not idle, or not idle for long enough.
IdlePoll ==
  /\ machine = "up" /\ work.idle # "ignore" /\ lock["inhibitors"] = None /\ pc[Idle] = "sleep"
  /\ IF IsBlocked(inhibitors, "idle") THEN idlePolls' = 0 /\ UNCHANGED pc
     ELSE Goto(Idle, "i_sessions") /\ UNCHANGED idlePolls
  /\ UNCHANGED <<sessionVars, userVars, seat, inhibitVars, scheduled, lock, mem, sinks,
                 work, alive, objects, machine>>

AllIdle == DOMAIN sessions # {} /\ \A s \in DOMAIN sessions : sessions[s].idle

IdleSessions ==
  /\ machine = "up" /\ lock["sessions"] = None /\ pc[Idle] = "i_sessions"
  /\ IF ~AllIdle THEN idlePolls' = 0 /\ Goto(Idle, "sleep")
     ELSE IF idlePolls < IdlePolls THEN idlePolls' = idlePolls + 1 /\ Goto(Idle, "sleep")
     ELSE idlePolls' = 0 /\ Goto(Idle, "i_power")
  /\ UNCHANGED <<sessionVars, userVars, seat, inhibitVars, scheduled, lock, mem, sinks,
                 work, alive, objects, machine>>

IdlePower ==
  /\ machine = "up" /\ Acquire(Idle, "power", "i_power", "i_inhibitors")
  /\ UNCHANGED <<sessionVars, userVars, seat, inhibitVars, scheduled, mem, sinks, worldVars>>

IdleInhibitors ==
  /\ machine = "up"
  /\ Acquire(Idle, "inhibitors", "i_inhibitors", IF work.idle = "lock" THEN "i_lock" ELSE "p_check")
  /\ UNCHANGED <<sessionVars, userVars, seat, inhibitVars, scheduled, mem, sinks, worldVars>>

\* IdleAction=lock takes a third mutex, with power and inhibitors held.
IdleLock ==
  /\ machine = "up" /\ pc[Idle] = "i_lock" /\ lock["sessions"] = None
  /\ sessions' = SessionLock(sessions, DOMAIN sessions, TRUE)
  /\ Goto(Idle, "sleep") /\ lock' = Dropped(Idle)
  /\ UNCHANGED <<nextSession, userVars, seat, inhibitVars, scheduled, mem, sinks, worldVars>>
-----------------------------------------------------------------------------
SessionStep(r) == \/ Open(r) \/ LoginAgain(r) \/ LoginFirst(r) \/ LoginFails(r)
                  \/ OpenSeat(r) \/ OpenAssign(r) \/ Broadcast(r)
                  \/ CloseUnknown(r) \/ CloseUid(r) \/ CloseSeatOf(r) \/ CloseLeave(r)
                  \/ CloseEnd(r) \/ CloseVanished(r) \/ Logout(r)
                  \/ ActivateUnknown(r) \/ Activate(r) \/ ActivateSeatOf(r) \/ ActivateOn(r)
                  \/ ActivateVt(r) \/ ActivateSwitch(r)
                  \/ OnSeat(r) \/ OnSeatActive(r) \/ OnSeatSession(r)
                  \/ Hint(r) \/ HintQuiet(r) \/ HintUnknown(r) \/ HintAll(r)

OtherStep(r) == \/ Refused(r) \/ Query(r) \/ SetLinger(r) \/ UnsetLinger(r) \/ LingerFails(r)
                \/ TerminateUser(r) \/ TakeDevice(r) \/ ReleaseDevice(r)
                \/ TakeInhibitor(r) \/ DbusInhibit(r) \/ ReleaseInhibitor(r)
                \/ SwitchTo(r) \/ SwitchFails(r) \/ Brightness(r) \/ BrightnessFails(r)
                \/ Schedule(r) \/ CancelScheduled(r) \/ StatusStep(r) \/ StatusEnd(r)
                \/ Subscribe(r) \/ SubscribeLost(r) \/ PowerInhibitors(r) \/ PowerLock(r)

PowerStep(r) == \/ PowerStopped(r) \/ PowerPasses(r) \/ DelayClear(r) \/ DelayElapsed(r)
                \/ PowerDown(r) \/ PowerDone(r)

IdleStep == IdlePoll \/ IdleSessions \/ IdlePower \/ IdleInhibitors \/ IdleLock
StartStep == LoadLinger \/ StartBridge \/ Bind
BridgeStep == BridgeConnect \/ BridgeObjects \/ BridgeDeaf \/ BridgeSubscribe

Next == \/ StartStep \/ BridgeStep
        \/ \E r \in Req : SessionStep(r) \/ OtherStep(r) \/ SwitchEnds(r)
        \/ \E r \in Thread : PowerStep(r)
        \/ AcpiEvent \/ AcpiInhibitors \/ IdleStep
        \/ Gc \/ \E p \in Pid : Exit(p)
        \/ \E c \in cleanups : Cleanup(c)

\* Every thread is scheduled.  The idle thread sleeps between two polls, so a request that
\* waits for a mutex finds it free (SF); the GC may always be late.  Nothing bounds the wait for
\* a virtual terminal, so SwitchEnds is not fair.
RequestStep(r) == r \in Req /\ (SessionStep(r) \/ OtherStep(r) \/ PowerStep(r))
Fairness == /\ WF_vars(StartStep) /\ WF_vars(BridgeStep)
            /\ \A r \in 1 .. MaxRequests : SF_vars(RequestStep(r))
            /\ WF_vars(AcpiEvent \/ AcpiInhibitors \/ PowerStep(Acpi))
            /\ WF_vars(IdleStep \/ PowerStep(Idle))
Spec == Init /\ [][Next]_vars /\ Fairness
-----------------------------------------------------------------------------
TypeOK ==
  /\ \A s \in DOMAIN sessions : s \in 1 .. (nextSession - 1) /\ sessions[s].uid \in Uid
  /\ DOMAIN users \subseteq Uid /\ lingerFiles \subseteq Uid
  /\ \A l \in Lock : lock[l] \in Thread \cup {None}
  /\ seat.active \in DOMAIN sessions \cup 1 .. nextSession \cup {None}
  /\ idlePolls \in 0 .. IdlePolls

\* From the moment check_block lets a non-interactive action pass until the action is taken,
\* nobody can take a block lock against it: the guard of the inhibitors is held throughout,
\* by a request as well as by the ACPI and the idle thread.
PowerRespectsBlock ==
  \A r \in Thread : pc[r] \in {"p_delay", "p_go"} =>
    Interactive(r) \/ ActionOf(r) \in IgnoresBlocks \/ ~IsBlocked(inhibitors, What(ActionOf(r)))

\* A logged-in or lingering user sees the /run/user/<uid> that login() or set_linger() prepared,
\* unless a clean-up thread that was still asleep when the record was made has run since: it does
\* not look who is there by then.  A user who logs in after the delay is safe.
DirLostOnlyByLateCleanup ==
  \A u \in DOMAIN users : RuntimeDirMade(dirs[u]) \/ \E c \in users[u].late : c \notin cleanups

\* The one way a closed session stays on the seat: CloseSession read seat_of before OpenSession
\* had assigned the seat.
DeadOnSeatOnlyByOvertaking ==
  (\A r \in Req : pc[r] = "done") =>
    \A i \in DOMAIN seat.sessions :
      \/ seat.sessions[i] \in DOMAIN sessions
      \/ \E q \in Req : Op(q) = "close" /\ mem[q].sid = seat.sessions[i] /\ mem[q].seat = None

\* The mutex a thread waits for at each place where it already holds one.
Wants == [status_2 |-> "users", status_3 |-> "seats", status_4 |-> "inhibitors", status_5 |-> "power",
          p_power |-> "power", held |-> "bus",
          a_inhibitors |-> "inhibitors", i_inhibitors |-> "inhibitors", i_lock |-> "sessions"]
Blocker(r) == IF pc[r] \in DOMAIN Wants THEN lock[Wants[pc[r]]] ELSE None

\* r waits, possibly through other threads, for itself.
InCycle(r) ==
  \E q \in Thread, t \in Thread : Blocker(r) = q /\ (Blocker(q) = r \/ (Blocker(q) = t /\ Blocker(t) = r))

\* A request over the socket is answered, unless the machine goes down, somebody sits on the
\* event bus, the ACPI or idle thread is caught in a circle of mutexes, or a VT_WAITACTIVE never
\* returns.  Requests alone never wait for each other in a circle.
Answered ==
  \/ \A r \in 1 .. MaxRequests :
       (machine = "up" /\ r \in Req /\ Arg(r).via = "socket")
         ~> (pc[r] \in {"done", "listening"} \/ machine = "down" \/ lock["bus"] # None
             \/ InCycle(Acpi) \/ InCycle(Idle))
  \/ <>[](\E q \in Req : InSwitch(q))
=============================================================================
