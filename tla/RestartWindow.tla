---------------------------- MODULE RestartWindow ----------------------------
(***************************************************************************)
(* The crash-loop breaker of restart_monitor                                *)
(* (quantra/src/services/supervisor.rs): a queue of restart timestamps,     *)
(* from whose front the ones outside restart_interval_sec are evicted each  *)
(* time the service has exited.  Module Supervisor leaves open how many     *)
(* timestamps are left; here the clock decides.                             *)
(***************************************************************************)
EXTENDS Integers, Sequences

CONSTANTS
  MaxRestarts,  \* svc.max_restarts, the breaker being enabled
  Window,       \* svc.restart_interval_sec
  Horizon       \* bound: the last instant of a behaviour

ASSUME RestartWindowAssumption ==
  /\ MaxRestarts \in Nat \ {0}
  /\ Window \in Nat
  /\ Horizon \in Nat

VARIABLES
  now,            \* Instant::now(), which never goes back
  restart_times,  \* the VecDeque
  attempts,       \* history: every timestamp ever pushed
  gave_up         \* "giving up (crash-loop detected)"

vars == <<now, restart_times, attempts, gave_up>>

\* The types of the monitor's locals; the queue never outgrows max_restarts.
TypeOK ==
  /\ now \in 0..Horizon
  /\ restart_times \in Seq(Nat)
  /\ Len(restart_times) <= MaxRestarts
  /\ attempts \in Seq(Nat)
  /\ gave_up \in BOOLEAN

Init ==
  /\ now = 0
  /\ restart_times = << >>
  /\ attempts = << >>
  /\ gave_up = FALSE

\* Time passes while wait_for_exit polls, restart_sec is slept and a fork is tried.
Tick ==
  /\ now < Horizon
  /\ now' = now + 1
  /\ UNCHANGED <<restart_times, attempts, gave_up>>

\* Is a timestamp outside the window?  (First two variants with a bug.)
OutsideFromWindow(t) == now - t >= Window
OutsideNever(t) == FALSE
Outside(t) == now - t > Window

\* pop_front while the front is outside the window takes the first k away.
Evicts(k) ==
  /\ \A i \in 1..k : Outside(restart_times[i])
  /\ k < Len(restart_times) => ~Outside(restart_times[k + 1])

Kept(k) == SubSeq(restart_times, k + 1, Len(restart_times))

\* Too many timestamps are left once k are gone.
Full(k) == Len(restart_times) - k >= MaxRestarts

\* The service exited and fewer than max_restarts timestamps are left.
Attempt ==
  /\ ~gave_up
  /\ \E k \in 0..Len(restart_times) :
       /\ Evicts(k)
       /\ ~Full(k)
       /\ restart_times' = Append(Kept(k), now)
  /\ attempts' = Append(attempts, now)
  /\ UNCHANGED <<now, gave_up>>

\* The service exited and the window is full: the monitor ends.
GiveUp ==
  /\ ~gave_up
  /\ \E k \in 0..Len(restart_times) :
       /\ Evicts(k)
       /\ Full(k)
       /\ restart_times' = Kept(k)
  /\ gave_up' = TRUE
  /\ UNCHANGED <<now, attempts>>

Next == Tick \/ Attempt \/ GiveUp

Spec == Init /\ [][Next]_vars

-----------------------------------------------------------------------------
\* types.rs: "Maximum number of restarts allowed within restart_interval_sec".  Of
\* any max_restarts + 1 successive attempts, the first and the last are more than
\* the interval apart, although evicted timestamps are forgotten.
BoundedInAnyWindow ==
  \A i, j \in 1..Len(attempts) :
    j >= i + MaxRestarts => attempts[j] - attempts[i] > Window

\* The breaker does not trip on a service that is within its allowance: when it
\* gives up, max_restarts attempts lie inside the interval that ends now.
GivesUpOnlyOnLoop ==
  [][gave_up' /\ ~gave_up =>
       /\ Len(attempts) >= MaxRestarts
       /\ now - attempts[Len(attempts) - MaxRestarts + 1] <= Window]_vars

=============================================================================
