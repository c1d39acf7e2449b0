----------------------------- MODULE Activation -----------------------------
(***************************************************************************)
(* From a timer to a running service: the timer thread of Timer, the       *)
(* activation dispatcher of timer.rs with ServiceManager::                 *)
(* start_named_service, and the launch of Launch.  The dispatcher runs     *)
(* start() itself, under the manager's mutex, so that it takes no other    *)
(* fire until start() returns; a client's command takes the same mutex.    *)
(***************************************************************************)
EXTENDS Timer, Launch

CONSTANT Workloads    \* a timer, the unit it names, when the machine is first booted and how often again,
                      \* how often its clock is set and clients take the mutex

\* The settings of a timer are u64s or absent, and the clock stands after the epoch; a unit runs as
\* root, as a user that exists or does not, or as one made up for it.
ASSUME WorkloadAssumption ==
  \A w \in Workloads : /\ {w.start, w.boots, w.sets} \subseteq Nat /\ {w.timer.boot, w.timer.interval} \subseteq Nat \cup {Unset}
                       /\ w.unit.user \in Users

\* What a unit's argv records is what its command line was written for.
ASSUME QuotingAssumption == \A w \in Workloads : Quotes(w.unit)

VARIABLES disp,       \* the dispatcher: "recv", "lock" (it has a fire and wants the mutex), or "exited"
          client,     \* does a client's command hold the mutex?
          clients     \* bound: commands still to come
dvars == <<disp, client, clients>>
vars == <<tvars, lvars, dvars>>

Init ==
  /\ \E w \in Workloads : /\ tm = w.timer /\ u = w.unit /\ now = w.start
                          /\ boots = w.boots /\ sets = w.sets /\ clients = w.clients
  /\ TimerInit
  /\ LaunchInit
  /\ disp = "recv" /\ client = FALSE

\* The dispatcher holds the mutex for as long as its start() is under way.
MutexFree == st.pc = "idle" /\ ~client

\* run_activation_dispatcher ...
DispatchRecv ==
  /\ disp = "recv" /\ queue # <<>> /\ st.pc = "idle"
  /\ queue' = Tail(queue)
  /\ disp' = IF shutdown THEN "exited" ELSE "lock"
  /\ UNCHANGED <<tm, now, file, shutdown, boots, sets, th, h, lvars, client, clients>>
\* ... and start_named_service
DispatchStart ==
  /\ disp = "lock" /\ MutexFree
  /\ disp' = "recv"
  /\ IF running THEN UNCHANGED lvars ELSE Begin
  /\ UNCHANGED <<tvars, client, clients>>
Dispatch == DispatchRecv \/ DispatchStart

\* A command of a client, which does nothing to this service here but can take its time.
ClientLocks ==
  /\ MutexFree /\ clients > 0
  /\ client' = TRUE /\ clients' = clients - 1
  /\ UNCHANGED <<tvars, lvars, disp>>
ClientUnlocks ==
  /\ client
  /\ client' = FALSE
  /\ UNCHANGED <<tvars, lvars, disp, clients>>

\* A new boot finds the state files and nothing else.
Reboot ==
  /\ NextBoot
  /\ k' = NewKernel /\ st' = Idle /\ child' = NoChild /\ mon' = "none" /\ bg' = {} /\ running' = FALSE /\ inbox' = "empty"
  /\ u' = u
  /\ disp' = "recv" /\ client' = FALSE /\ clients' = clients

TimerStep == (TimerThread \/ Tick \/ ClockSet \/ RequestShutdown) /\ UNCHANGED <<lvars, dvars>>
LaunchStep == LaunchNext /\ UNCHANGED <<tvars, dvars>>

Next == TimerStep \/ Dispatch \/ ClientLocks \/ ClientUnlocks \/ LaunchStep \/ Reboot

\* The thread of the dispatcher runs when it can.  Nothing is assumed of the service, which may talk
\* or live for ever, of the commands of the unit, or of whoever else holds the mutex.
Fairness ==
  /\ WF_vars(Dispatch)
  /\ WF_vars(~InHook /\ StartSteps /\ UNCHANGED <<tvars, dvars>>)
Spec == Init /\ [][Next]_vars /\ Fairness

------------------------------------------------------------------------------
TypeOK ==
  /\ TimerTypeOK /\ LaunchTypeOK
  /\ disp \in {"recv", "lock", "exited"}
  /\ client \in BOOLEAN /\ clients \in Nat

\* No fire waits for ever, in the channel or for the mutex, though the dispatcher runs start()
\* itself: start() returns even if the service never says READY=1 or never opens its socket.  What
\* can hold a fire up for ever is a service that keeps sending other notifications (wait_for_ready
\* starts its timeout anew), a command or a oneshot of the unit that does not end, and another
\* holder of the mutex that does not let go.
FireIsTaken ==
  \/ []<>(inbox = "STATUS=") \/ <>[]InHook \/ <>[]client
  \/ (queue # <<>> \/ disp = "lock") ~> ((queue = <<>> /\ disp = "recv") \/ disp = "exited")

\* Every fire the dispatcher takes while the service is not up starts it.
EveryFireActivates ==
  [][/\ disp = "lock" /\ disp' = "recv" /\ boots' = boots
     /\ child.at = "dead" /\ mon = "none" /\ "condition_unmet" \notin u.set
     => st'.pc = "pre"]_vars
=============================================================================
