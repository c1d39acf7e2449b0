--------------------------- MODULE LogindManagers ---------------------------
(***************************************************************************)
(* The managers of quantra-logind as operators on their state: sessions,   *)
(* users and their runtime directories, the seat, inhibitors.  Each        *)
(* operator is one method; Logind says which thread calls it, and under    *)
(* which lock.                                                             *)
(*                                                                         *)
(* Sessions and users are functions whose domain is the set of live keys,  *)
(* as the HashMaps are.  A runtime directory is the sequence of its        *)
(* layers: the plain directory, then every tmpfs mounted over it.          *)
(***************************************************************************)
EXTENDS Naturals, Sequences, FiniteSets, Functions

CONSTANT None          \* Option::None

\* Vec::retain(|y| y != x)
Without(s, x) ==
  LET kept[i \in 0 .. Len(s)] ==
        IF i = 0 THEN <<>> ELSE IF s[i] = x THEN kept[i - 1] ELSE Append(kept[i - 1], s[i])
  IN  kept[Len(s)]

\* session.rs
SessionOpen(ss, sid, uid, vt) ==
  [s \in DOMAIN ss \cup {sid} |->
     IF s = sid THEN [uid |-> uid, seat |-> None, vt |-> vt, state |-> "online",
                      locked |-> FALSE, idle |-> FALSE]
     ELSE ss[s]]

SessionClose(ss, sid) == [s \in DOMAIN ss \ {sid} |-> ss[s]]

\* The sessions that are active on the same seat go back to online.
SessionActivate(ss, sid) ==
  [s \in DOMAIN ss |->
     IF s = sid THEN [ss[s] EXCEPT !.state = "active"]
     ELSE IF ss[s].state = "active" /\ ss[s].seat = ss[sid].seat
          THEN [ss[s] EXCEPT !.state = "online"] ELSE ss[s]]

SessionLock(ss, sids, b) ==
  [s \in DOMAIN ss |-> IF s \in sids THEN [ss[s] EXCEPT !.locked = b] ELSE ss[s]]
SessionIdle(ss, sid, b) == [ss EXCEPT ![sid].idle = b]
SessionSeat(ss, sid, id) == IF sid \in DOMAIN ss THEN [ss EXCEPT ![sid].seat = id] ELSE ss

\* seat.rs
Seat0 == [sessions |-> <<>>, active |-> None, taken |-> {}]

SeatAdd(se, sid) ==
  [se EXCEPT !.sessions = IF sid \in Range(@) THEN @ ELSE Append(@, sid),
             !.active = IF @ = None THEN sid ELSE @]

SeatRemove(se, sid) ==
  LET left == Without(se.sessions, sid)
  IN  [se EXCEPT !.sessions = left,
                 !.active = IF @ # sid THEN @ ELSE IF left = <<>> THEN None ELSE left[1]]

SeatActivate(se, sid) == IF sid \in Range(se.sessions) THEN [se EXCEPT !.active = sid] ELSE se

\* inhibitor.rs
InhibitTake(held, id, what, mode, pid) ==
  held \cup {[id |-> id, what |-> what, mode |-> mode, pid |-> pid]}
InhibitRelease(held, id) == {i \in held : i.id # id}
IsBlocked(held, w) == \E i \in held : i.mode = "block" /\ w \in i.what
HasDelay(held, w) == \E i \in held : i.mode = "delay" /\ w \in i.what
GcDeadPids(held, alive) == {i \in held : i.pid \in alive}

\* user.rs: create_dir_all, then a tmpfs over it if mount(2) succeeds.
CreateRuntimeDir(d, mounted) ==
  LET base == IF d = <<>> THEN <<"empty">> ELSE d
  IN  IF mounted THEN Append(base, "empty") ELSE base

\* A subdirectory that cannot be made is skipped, and login goes on without it.
CreateRuntimeSubdirs(d, all) == [d EXCEPT ![Len(d)] = IF all THEN "full" ELSE "partial"]

\* umount2 takes the top tmpfs away; remove_dir_all empties what is then visible and
\* removes the directory itself unless something is still mounted on it.
DestroyRuntimeDir(d) ==
  LET u == IF Len(d) > 1 THEN SubSeq(d, 1, Len(d) - 1) ELSE d
  IN  IF Len(u) <= 1 THEN <<>> ELSE [u EXCEPT ![Len(u)] = "empty"]

\* The visible layer is one that create_runtime_dir and create_runtime_subdirs prepared.
RuntimeDirMade(d) == d # <<>> /\ d[Len(d)] # "empty"

\* late is a history: the clean-ups that were still to come when the record was made.
NewUser(us, uid, sids, linger, late) ==
  [u \in DOMAIN us \cup {uid} |->
     IF u = uid THEN [sids |-> sids, linger |-> linger, late |-> late] ELSE us[u]]
UserRemove(us, uid) == [u \in DOMAIN us \ {uid} |-> us[u]]
=============================================================================
