------------------------------ MODULE Calendar ------------------------------
(***************************************************************************)
(* Timer schedules (timer.rs): what a calendar expression means and how    *)
(* long it is until it comes round again, in seconds since the epoch.      *)
(* The seconds are u64s: a build without overflow checks wraps around at   *)
(* Modulus, one with checks panics.                                        *)
(***************************************************************************)
EXTENDS Integers

CONSTANT Modulus      \* 2^64

Minute == 60
Hour == 3600
Day == 86400
U8 == 0 .. 255
Unset == -1      \* the None of an optional hour or weekday

\* No wait and no time of day comes near the width.
ASSUME CalendarAssumption == Modulus \in Nat /\ Modulus > 8 * Day + 260 * Hour
U64(n) == n % Modulus

------------------------------------------------------------------------------
\* CalendarSpec.  An expression is a word, or a time of day with an optional weekday prefix; what
\* does not parse is BadSpec.
Spec0 == [hour |-> Unset, minute |-> 0, second |-> 0, minutely |-> FALSE, weekday |-> Unset]
BadSpec == [Spec0 EXCEPT !.minute = -1]
Weekdays == <<"Mon", "Tue", "Wed", "Thu", "Fri", "Sat", "Sun">>
ParseWeekdayPrefix(p) == IF \E i \in 1 .. 7 : Weekdays[i] = p THEN (CHOOSE i \in 1 .. 7 : Weekdays[i] = p) - 1 ELSE Unset
ParseCalendar(e) ==
  CASE e.word = "minutely" -> [Spec0 EXCEPT !.minutely = TRUE]
    [] e.word = "hourly" -> Spec0
    [] e.word = "daily" -> [Spec0 EXCEPT !.hour = 0]
    [] e.word = "weekly" -> [Spec0 EXCEPT !.hour = 0, !.weekday = 0]
    [] e.word = "time" /\ {e.h, e.m, e.s} \subseteq U8 ->
         [Spec0 EXCEPT !.hour = e.h, !.minute = e.m, !.second = e.s, !.weekday = ParseWeekdayPrefix(e.day)]
    [] OTHER -> BadSpec

\* time_until_next at the instant `now'.  Day 0 of the epoch was a Thursday.
TargetInDay(c, now) ==
  (IF c.hour = Unset THEN (now % Day) \div Hour ELSE c.hour) * Hour + c.minute * Minute + c.second
DaysAhead(c, now) ==
  LET d == (7 + c.weekday - ((now \div Day + 3) % 7)) % 7
  IN  IF d = 0 /\ TargetInDay(c, now) <= now % Day THEN 7 ELSE d
UntilHour(c, now) == (Hour - (now % Hour)) + c.minute * Minute + c.second
WeeklyWait(days, c, now) == U64(U64(days * Day - (now % Day)) + TargetInDay(c, now))
TimeUntilSame(c, now) ==
  IF c.minutely THEN Minute
  ELSE IF c.weekday # Unset THEN WeeklyWait((7 + c.weekday - ((now \div Day + 3) % 7)) % 7, c, now)
  ELSE IF TargetInDay(c, now) > now % Day THEN TargetInDay(c, now) - (now % Day)
  ELSE IF c.hour = Unset THEN UntilHour(c, now)
  ELSE Day - (now % Day) + TargetInDay(c, now)
TimeUntilNext(c, now) ==
  IF c.minutely THEN Minute
  ELSE IF c.weekday # Unset THEN WeeklyWait(DaysAhead(c, now), c, now)
  ELSE IF TargetInDay(c, now) > now % Day THEN TargetInDay(c, now) - (now % Day)
  ELSE IF c.hour = Unset THEN UntilHour(c, now)
  ELSE Day - (now % Day) + TargetInDay(c, now)
\* The difference leaves the range when the time is still to come on the very weekday.
Underflows(c, now) == ~c.minutely /\ c.weekday # Unset /\ DaysAhead(c, now) * Day < now % Day

\* should_catch_up: the age of the last fire (saturating_sub: none if the file is of the future)
\* against the time to the next one.  A state file that was cut short (Torn) is not taken for a
\* missed run.
NoFile == -2
Torn == -1
CatchUpByMinutes(file, c, now) ==
  IF file = NoFile THEN TRUE
  ELSE file # Torn /\ c # BadSpec /\ (now - file) \div Minute > TimeUntilNext(c, now)
ShouldCatchUp(file, c, now) ==
  IF file = NoFile THEN TRUE
  ELSE file # Torn /\ c # BadSpec /\ now - file > TimeUntilNext(c, now)

------------------------------------------------------------------------------
\* What the expressions mean: a schedule names one instant per period, at this offset into it.
\* Monday is the fourth day of the epoch's weeks.
Period(c) == IF c.hour = Unset THEN Hour ELSE IF c.weekday = Unset THEN Day ELSE 7 * Day
Offset(c) ==
  IF c.hour = Unset THEN 0
  ELSE (IF c.weekday = Unset THEN 0 ELSE ((c.weekday + 4) % 7) * Day) + c.hour * Hour + c.minute * Minute + c.second
ValidSpec(c) ==
  /\ c.minutely = FALSE
  /\ c.minute \in 0 .. 59 /\ c.second \in 0 .. 59
  /\ \/ c.hour = Unset /\ c.weekday = Unset /\ c.minute = 0 /\ c.second = 0
     \/ c.hour \in 0 .. 23 /\ (c.weekday = Unset \/ c.weekday \in 0 .. 6)
\* The last instant named up to t.
LastNamed(c, t) == t - ((t - Offset(c)) % Period(c))
=============================================================================
