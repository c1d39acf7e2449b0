-------------------------------- MODULE Timer --------------------------------
(***************************************************************************)
(* A timer unit (timer.rs): its thread, the state file that outlives a     *)
(* boot, and the channel to the activation dispatcher.                     *)
(*                                                                         *)
(* `now' is the wall clock in seconds.  It moves on while the thread       *)
(* sleeps, and can be set, forward or back, at any time.  The sleep itself *)
(* is timed by a monotonic clock, which nobody sets and which stands still *)
(* in suspend: a sleep ends when its seconds are over (th.due), late or    *)
(* not, whatever the wall clock says.                                      *)
(***************************************************************************)
EXTENDS Calendar, Sequences

CONSTANTS Lates,      \* how late a sleep can end
          Jumps       \* by how much the clock can be set, and differ at the next boot

ASSUME TimerAssumption == Lates \subseteq Nat /\ Jumps \subseteq Int

VARIABLES tm,         \* the timer: TimerSpec, the build it runs in (tm.checked: with overflow checks),
                      \* and the bound tm.rounds on the rounds of its loop in one boot
          now,
          file,       \* its state file: an instant, NoFile or Torn
          shutdown,   \* SHUTDOWN_REQUESTED
          boots,      \* bound: boots still to come
          sets,       \* bound: times the clock can still be set
          th,         \* the thread
          queue,      \* fires sent and not yet received
          h           \* history: the latest fire sent (h.sent) and instant served (h.served); was the
                      \* clock set back since the wait for it began (h.back); does the file record a
                      \* fire later than any that was sent (h.overstated)?
tvars == <<tm, now, file, shutdown, boots, sets, th, queue, h>>

\* The schedule of the timer, and whether it has one.
Cal == ParseCalendar(tm.calendar)
HasCalendar == tm.calendar.word # "none"

\* th.back and th.overstates are h's flags for the round under way.
NewThread == [pc |-> "begin", part |-> "catchup", since |-> 0, wake |-> 0, due |-> FALSE, rounds |-> 0,
              back |-> FALSE, overstates |-> FALSE]

TimerInit ==
  /\ file = NoFile
  /\ shutdown = FALSE
  /\ th = NewThread
  /\ queue = <<>>
  /\ h = [sent |-> NoFile, served |-> 0, back |-> FALSE, overstated |-> FALSE]

\* A build with overflow checks does not survive what wraps around in another.
Panics == tm.checked /\ Underflows(Cal, now)

\* run_timer: first what was missed while the machine was off ...
CatchesUp == tm.persistent /\ HasCalendar /\ ShouldCatchUp(file, Cal, now)
RunTimer ==
  /\ th.pc = "begin"
  /\ th' = IF tm.persistent /\ HasCalendar /\ file \notin {NoFile, Torn} /\ Cal # BadSpec /\ Panics
           THEN [th EXCEPT !.pc = "panicked"]
           ELSE [th EXCEPT !.pc = IF CatchesUp THEN "send" ELSE "boot"]
  /\ UNCHANGED <<tm, now, file, shutdown, boots, sets, queue, h>>

Sleep(part, secs) ==
  [th EXCEPT !.pc = "sleep", !.part = part, !.since = now, !.wake = now + secs, !.due = secs = 0, !.back = FALSE]

\* ... then on_boot_sec ...
OnBoot ==
  /\ th.pc = "boot"
  /\ th' = IF tm.boot # Unset THEN Sleep("boot", tm.boot) ELSE [th EXCEPT !.pc = "loop"]
  /\ UNCHANGED <<tm, now, file, shutdown, boots, sets, queue, h>>

\* ... then the schedule, or else the interval, round and round.  A random delay is asked from
\* random_u64, which reads /dev/urandom to its end: the device has none, and the call is not back.
Unscheduled == IF HasCalendar THEN Cal = BadSpec ELSE tm.interval = Unset
Loop ==
  /\ th.pc = "loop" /\ th.rounds < tm.rounds
  /\ th' = CASE Unscheduled -> [th EXCEPT !.pc = "done"]
             [] ~Unscheduled /\ HasCalendar /\ Panics -> [th EXCEPT !.pc = "panicked"]
             [] ~Unscheduled /\ ~(HasCalendar /\ Panics) /\ tm.jitter -> [th EXCEPT !.pc = "random"]
             [] ~Unscheduled /\ ~tm.jitter /\ HasCalendar /\ ~Panics -> [Sleep("calendar", TimeUntilNext(Cal, now)) EXCEPT !.rounds = @ + 1]
             [] OTHER -> [Sleep("interval", tm.interval) EXCEPT !.rounds = @ + 1]
  /\ UNCHANGED <<tm, now, file, shutdown, boots, sets, queue, h>>

\* sleep_interruptibly
SleepEndsAtOnce ==
  /\ th.pc = "sleep"
  /\ th' = [th EXCEPT !.pc = IF shutdown THEN "done" ELSE "send"]
  /\ UNCHANGED <<tm, now, file, shutdown, boots, sets, queue, h>>
SleepEnds ==
  /\ th.pc = "sleep" /\ (shutdown \/ th.due)
  /\ th' = [th EXCEPT !.pc = IF shutdown THEN "done" ELSE "send"]
  /\ UNCHANGED <<tm, now, file, shutdown, boots, sets, queue, h>>

\* fire_timer: nothing is sent during a shutdown, yet the caller goes on to save_last_fired.
Saves == th.part = "catchup" \/ (th.part # "boot" /\ tm.persistent)
AfterFire == IF th.part = "catchup" THEN "boot" ELSE "loop"
FireTimer ==
  /\ th.pc = "send"
  /\ queue' = IF shutdown THEN queue ELSE Append(queue, "unit")
  /\ h' = [h EXCEPT !.sent = IF shutdown \/ now < @ THEN @ ELSE now,
                    !.served = IF th.part = "calendar" THEN th.wake ELSE @,
                    !.back = IF th.part = "calendar" THEN th.back ELSE @]
  /\ th' = [th EXCEPT !.pc = IF Saves THEN "truncate" ELSE AfterFire, !.overstates = shutdown]
  /\ UNCHANGED <<tm, now, file, shutdown, boots, sets>>

\* save_last_fired: fs::write opens and truncates, then writes.  Errors are ignored.
Truncate ==
  /\ th.pc = "truncate"
  /\ \/ file' = Torn /\ th' = [th EXCEPT !.pc = "write"]
     \/ file' = file /\ th' = [th EXCEPT !.pc = AfterFire]
  /\ UNCHANGED <<tm, now, shutdown, boots, sets, queue, h>>
WriteFile ==
  /\ th.pc = "write"
  /\ file' = now
  /\ h' = [h EXCEPT !.overstated = th.overstates]
  /\ th' = [th EXCEPT !.pc = AfterFire]
  /\ UNCHANGED <<tm, now, shutdown, boots, sets, queue>>

\* The environment: time, whoever sets the clock, a shutdown that is asked for, and the end of a
\* boot, in order or by a crash, at any point.  The clock of the next boot can be behind.
Tick ==
  /\ th.pc = "sleep" /\ ~th.due /\ ~shutdown
  /\ \E late \in Lates : now' = now + (th.wake - th.since) + late
  /\ th' = [th EXCEPT !.due = TRUE]
  /\ UNCHANGED <<tm, file, shutdown, boots, sets, queue, h>>
ClockSet ==
  /\ sets > 0
  /\ sets' = sets - 1
  /\ \E jump \in Jumps :
       /\ now + jump >= 0
       /\ now' = now + jump
       /\ th' = [th EXCEPT !.back = @ \/ jump < 0, !.overstates = @ \/ (th.pc \in {"truncate", "write"} /\ jump > 0)]
       /\ h' = [h EXCEPT !.back = @ \/ jump < 0]
  /\ UNCHANGED <<tm, file, shutdown, boots, queue>>
RequestShutdown ==
  /\ ~shutdown
  /\ shutdown' = TRUE
  /\ UNCHANGED <<tm, now, file, boots, sets, th, queue, h>>
NextBoot ==
  /\ boots > 0
  /\ boots' = boots - 1
  /\ \E jump \in Jumps :
       /\ now + jump >= 0
       /\ now' = now + jump
       /\ h' = [h EXCEPT !.back = @ \/ jump < 0]
  /\ th' = NewThread
  /\ queue' = <<>>
  /\ shutdown' = FALSE
  /\ UNCHANGED <<tm, file, sets>>

TimerThread == RunTimer \/ OnBoot \/ Loop \/ SleepEnds \/ FireTimer \/ Truncate \/ WriteFile

------------------------------------------------------------------------------
TimerTypeOK ==
  /\ now \in Nat /\ boots \in Nat /\ sets \in Nat
  /\ file \in Nat \cup {NoFile, Torn} /\ h.sent \in Nat \cup {NoFile}
  /\ shutdown \in BOOLEAN
  /\ th.pc \in {"begin", "boot", "loop", "random", "sleep", "send", "truncate", "write", "done", "panicked"}
  /\ th.part \in {"catchup", "boot", "calendar", "interval"}
  /\ th.since \in Nat /\ th.wake \in Nat /\ th.rounds \in 0 .. tm.rounds

\* A timer with a schedule sleeps to the very next instant the schedule names after the moment it
\* worked out the wait, whatever the weekday and whether the time of day is past (time_until_next),
\* also where the u64 arithmetic wraps around on its way.
SleepsToTheNext ==
  th.pc = "sleep" /\ th.part = "calendar" /\ ValidSpec(Cal) =>
    th.wake = LastNamed(Cal, th.since) + Period(Cal)

\* The loop serves every named instant at most once and in their order, across sleeps that end
\* late, a clock that is set forward and boots.  Only a clock that was set back after the wait for
\* the last instant began brings an instant round again: the sleep of run_timer does not see it.
OneFirePerInstant ==
  th.pc = "send" /\ th.part = "calendar" => th.wake > h.served \/ h.back

\* A boot that finds no missed run (should_catch_up) misses none: a persistent timer was last sent
\* within a period, unless its file was torn by a crash, or records a fire that a shutdown
\* suppressed or that came before the clock was set forward.
OverdueIsSent ==
  [][th.pc = "begin" /\ th'.pc = "boot" /\ tm.persistent /\ HasCalendar /\ ValidSpec(Cal) =>
       \/ now - h.sent <= Period(Cal)
       \/ file = Torn \/ h.overstated]_tvars
=============================================================================
