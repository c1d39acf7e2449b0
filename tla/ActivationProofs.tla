-------------------------- MODULE ActivationProofs --------------------------
(***************************************************************************)
(* The timer thread, for every timer, every clock and any sequence of late *)
(* sleeps, settings of the clock, crashes, shutdowns and reboots.          *)
(*                                                                         *)
(* What time_until_next and should_catch_up of timer.rs compute comes      *)
(* first, for every schedule with an hour, minute, second and weekday in   *)
(* range and every instant.  Each form of a schedule is a case of linear   *)
(* arithmetic once the remainder by a day or a week has been named by its  *)
(* quotient, and the u64s that wrap around on the way have come back.      *)
(***************************************************************************)
EXTENDS Activation, TLAPS

------------------------------------------------------------------------------
(* The calendar *)

\* The remainder of a number of days or weeks and a rest.
LEMMA DayRest ==
  ASSUME NEW q \in Int, NEW r \in Int, 0 <= r, r < Day
  PROVE  (Day * q + r) % Day = r
BY SMT DEF Day

LEMMA WeekRest ==
  ASSUME NEW q \in Int, NEW r \in Int, 0 <= r, r < 7 * Day
  PROVE  (7 * Day * q + r) % (7 * Day) = r
BY SMT DEF Day

LEMMA WholeWeeks ==
  ASSUME NEW n \in Int, n % 7 = 0
  PROVE  \E m \in Int : n = 7 * m
<1>1. n = 7 * (n \div 7) /\ n \div 7 \in Int
  BY SMT
<1> QED
  BY <1>1

\* An instant is its day and its second of the day.
LEMMA DayAndSecond ==
  ASSUME NEW t \in Nat
  PROVE  /\ t \div Day \in Nat /\ t % Day \in Nat /\ t % Day < Day
         /\ t = Day * (t \div Day) + (t % Day)
BY SMT DEF Day

\* A time of day lies within the day.
LEMMA TimeOfDay ==
  ASSUME NEW hr \in 0 .. 23, NEW m \in 0 .. 59, NEW s \in 0 .. 59
  PROVE  /\ hr * Hour + m * Minute + s \in Nat
         /\ hr * Hour + m * Minute + s < Day
BY SMT DEF Hour, Minute, Day

\* No hour, minute and second that fit in a u8 come near the width of the arithmetic.
LEMMA SmallTime ==
  ASSUME NEW hr \in 0 .. 255, NEW m \in 0 .. 255, NEW s \in 0 .. 255
  PROVE  /\ hr * Hour + m * Minute + s \in Nat
         /\ hr * Hour + m * Minute + s < 260 * Hour
BY SMT DEF Hour, Minute

\* A day of the week and a time, with the sum associated either way.
LEMMA TimeOfWeek ==
  ASSUME NEW o \in 0 .. 6, NEW hr \in 0 .. 23, NEW m \in 0 .. 59, NEW s \in 0 .. 59
  PROVE  /\ o * Day + hr * Hour + m * Minute + s \in Int
         /\ o * Day + hr * Hour + m * Minute + s = o * Day + (hr * Hour + m * Minute + s)
BY SMT DEF Hour, Minute, Day

\* A difference that wraps around below zero comes back when what is added to it is large enough.
LEMMA WrapsBack ==
  ASSUME NEW M \in Nat, NEW x \in Int, NEW t \in Nat, -M < x, x < M, 0 <= x + t, x + t < M
  PROVE  ((x % M) + t) % M = x + t
<1>1. ASSUME NEW y \in Int, 0 <= y, y < M PROVE y % M = y /\ (y + M) % M = y
  BY <1>1, SMT
<1>2. CASE 0 <= x
  BY <1>1, <1>2
<1>3. CASE x < 0
  <2>1. 0 <= x + M /\ x + M < M /\ x + M \in Int
    BY <1>3
  <2>2. x % M = x + M
    BY <1>3, SMT
  <2>3. (x + t) + M = (x + M) + t
    OBVIOUS
  <2>4. ((x + t) + M) % M = x + t
    BY <1>1
  <2> QED
    BY <2>2, <2>3, <2>4, Zenon
<1> QED
  BY <1>2, <1>3

\* So the wait for a weekday is what it would be in numbers without a width.
LEMMA WeeklyWaitIsExact ==
  ASSUME NEW c, NEW n \in Nat, NEW days \in 0 .. 7, NEW target \in Nat, TargetInDay(c, n) = target,
         target < 260 * Hour, days = 0 => target >= n % Day
  PROVE  WeeklyWait(days, c, n) = days * Day - (n % Day) + target
<1> DEFINE sec == n % Day
<1> DEFINE x == days * Day - sec
<1>1. sec \in Nat /\ sec < Day
  BY DayAndSecond
<1>2. WeeklyWait(days, c, n) = ((x % Modulus) + target) % Modulus
  BY DEF WeeklyWait, U64
<1> HIDE DEF sec
<1>3. /\ x \in Int /\ Modulus \in Nat
      /\ -Modulus < x /\ x < Modulus /\ 0 <= x + target /\ x + target < Modulus
  BY <1>1, CalendarAssumption, SMT DEF Day, Hour, sec
<1> HIDE DEF x
<1>4. ((x % Modulus) + target) % Modulus = x + target
  BY <1>3, WrapsBack
<1> QED
  BY <1>2, <1>4 DEF x, sec

\* "hourly": the next full hour is one hour after the last one.
LEMMA HourlyNext ==
  ASSUME NEW c, NEW n \in Nat, ValidSpec(c), c.hour = Unset
  PROVE  TimeUntilNext(c, n) = LastNamed(c, n) + Period(c) - n
<1>1. c.minutely = FALSE /\ c.weekday = Unset /\ c.minute = 0 /\ c.second = 0
  BY SMT DEF ValidSpec, Unset
<1>2. TargetInDay(c, n) = ((n % Day) \div Hour) * Hour
  BY <1>1, SMT DEF TargetInDay, Hour, Minute, Day
<1> QED
  BY <1>1, <1>2, SMT DEF TimeUntilNext, UntilHour, LastNamed, Period, Offset, Hour, Day, Minute

\* A time of day: today if it is still to come, else tomorrow.
LEMMA DailyNext ==
  ASSUME NEW c, NEW n \in Nat, ValidSpec(c), c.hour # Unset, c.weekday = Unset
  PROVE  TimeUntilNext(c, n) = LastNamed(c, n) + Period(c) - n
<1> DEFINE target == c.hour * Hour + c.minute * Minute + c.second
<1> DEFINE day == n \div Day
<1> DEFINE sec == n % Day
<1>1. /\ c.minutely = FALSE /\ c.hour \in 0 .. 23 /\ c.minute \in 0 .. 59 /\ c.second \in 0 .. 59
  BY SMT DEF ValidSpec, Unset
<1>2. target \in Nat /\ target < Day
  BY <1>1, TimeOfDay, Zenon
<1>3. TargetInDay(c, n) = target /\ Offset(c) = target /\ Period(c) = Day
  BY <1>1, SMT DEF TargetInDay, Offset, Period, Hour, Minute, Day
<1>4. TimeUntilNext(c, n) = IF target > sec THEN target - sec ELSE Day - sec + target
  BY <1>1, <1>3, SMT DEF TimeUntilNext
<1>5. day \in Nat /\ sec \in Nat /\ sec < Day /\ n = Day * day + sec
  BY DayAndSecond
<1> HIDE DEF target, day, sec
<1>6. CASE target > sec
  <2>1. n - target = Day * (day - 1) + (Day + sec - target)
    BY <1>2, <1>5, SMT DEF Day
  <2>2. (n - target) % Day = Day + sec - target
    <3>1. (Day * (day - 1) + (Day + sec - target)) % Day = Day + sec - target
      BY <1>2, <1>5, <1>6, DayRest, SMT DEF Day
    <3> QED
      BY <2>1, <3>1
  <2> QED
    BY <1>2, <1>3, <1>4, <1>5, <1>6, <2>2, SMT DEF LastNamed, Day
<1>7. CASE target <= sec
  <2>1. n - target = Day * day + (sec - target)
    BY <1>2, <1>5, SMT DEF Day
  <2>2. (n - target) % Day = sec - target
    <3>1. (Day * day + (sec - target)) % Day = sec - target
      BY <1>2, <1>5, <1>7, DayRest, SMT DEF Day
    <3> QED
      BY <2>1, <3>1
  <2> QED
    BY <1>2, <1>3, <1>4, <1>5, <1>7, <2>2, SMT DEF LastNamed, Day
<1> QED
  BY <1>2, <1>5, <1>6, <1>7, SMT

\* A weekday and a time: this week if it is still to come, else next week.
LEMMA WeeklyNext ==
  ASSUME NEW c, NEW n \in Nat, ValidSpec(c), c.hour # Unset, c.weekday # Unset
  PROVE  TimeUntilNext(c, n) = LastNamed(c, n) + Period(c) - n
<1> DEFINE target == c.hour * Hour + c.minute * Minute + c.second
<1> DEFINE w == c.weekday
<1> DEFINE day == n \div Day
<1> DEFINE sec == n % Day
<1> DEFINE d == (7 + w - ((day + 3) % 7)) % 7
<1> DEFINE o == (w + 4) % 7
<1>1. /\ c.minutely = FALSE /\ c.hour \in 0 .. 23 /\ c.minute \in 0 .. 59 /\ c.second \in 0 .. 59
      /\ w \in 0 .. 6
  BY SMT DEF ValidSpec, Unset
<1>2. target \in Nat /\ target < Day
  BY <1>1, TimeOfDay, Zenon
<1>3. TargetInDay(c, n) = target /\ Offset(c) = o * Day + target /\ Period(c) = 7 * Day
  <2>1. TargetInDay(c, n) = target /\ Period(c) = 7 * Day
    BY SMT DEF TargetInDay, Period
  <2>2. Offset(c) = o * Day + c.hour * Hour + c.minute * Minute + c.second
    BY SMT DEF Offset
  <2>3. o \in 0 .. 6
    BY <1>1, SMT
  <2> HIDE DEF o, w
  <2>4. o * Day + c.hour * Hour + c.minute * Minute + c.second = o * Day + target
    BY <1>1, <2>3, TimeOfWeek, Zenon
  <2> QED
    BY <2>1, <2>2, <2>4
<1>5. day \in Nat /\ sec \in Nat /\ sec < Day /\ n = Day * day + sec
  BY DayAndSecond
<1>6. DaysAhead(c, n) = IF d = 0 /\ target <= sec THEN 7 ELSE d
  BY <1>3, SMT DEF DaysAhead
<1>4. TimeUntilNext(c, n) = DaysAhead(c, n) * Day - sec + target
  <2>1. TimeUntilNext(c, n) = WeeklyWait(DaysAhead(c, n), c, n)
    BY <1>1, SMT DEF TimeUntilNext
  <2>2. d \in 0 .. 6
    BY <1>1, <1>5, SMT
  <2>3. target < 260 * Hour
    BY <1>2, SMT DEF Hour, Day
  <2> HIDE DEF target, w, day, d
  <2>4. DaysAhead(c, n) \in 0 .. 7 /\ (DaysAhead(c, n) = 0 => target >= sec)
    BY <1>2, <1>5, <1>6, <2>2, SMT
  <2>5. WeeklyWait(DaysAhead(c, n), c, n) = DaysAhead(c, n) * Day - sec + target
    BY <1>2, <1>3, <2>3, <2>4, WeeklyWaitIsExact
  <2> QED
    BY <2>1, <2>5
<1> HIDE DEF target, w, day, sec
<1>7. d \in 0 .. 6 /\ o \in 0 .. 6
  BY <1>1, <1>5, SMT
<1>8. PICK m \in Int : day + d - o = 7 * m
  <2>1. (day + d - o) % 7 = 0
    BY <1>1, <1>5, SMT
  <2>2. day + d - o \in Int
    BY <1>5, <1>7, SMT
  <2> QED
    BY <2>1, <2>2, WholeWeeks
<1> HIDE DEF d, o
<1>9. n - Offset(c) = 7 * Day * m - d * Day + (sec - target)
  BY <1>2, <1>3, <1>5, <1>7, <1>8, SMT DEF Day
<1>10. CASE d = 0 /\ target <= sec
  <2>1. (7 * Day * m + (sec - target)) % (7 * Day) = sec - target
    BY <1>2, <1>5, <1>10, WeekRest, SMT DEF Day
  <2>2. (n - Offset(c)) % (7 * Day) = sec - target
    BY <1>2, <1>5, <1>9, <1>10, <2>1, SMT DEF Day
  <2> QED
    BY <1>2, <1>3, <1>4, <1>5, <1>6, <1>10, <2>2, SMT DEF LastNamed, Day
<1>11. CASE ~(d = 0 /\ target <= sec)
  <2>1. 0 <= 7 * Day - d * Day + (sec - target) /\ 7 * Day - d * Day + (sec - target) < 7 * Day
    BY <1>2, <1>5, <1>7, <1>11, SMT DEF Day
  <2>2. (7 * Day * (m - 1) + (7 * Day - d * Day + (sec - target))) % (7 * Day) = 7 * Day - d * Day + (sec - target)
    BY <1>2, <1>5, <1>7, <2>1, WeekRest, SMT DEF Day
  <2>3. (n - Offset(c)) % (7 * Day) = 7 * Day - d * Day + (sec - target)
    BY <1>2, <1>5, <1>7, <1>9, <2>2, SMT DEF Day
  <2> QED
    BY <1>2, <1>3, <1>4, <1>5, <1>6, <1>7, <1>11, <2>3, SMT DEF LastNamed, Day
<1> QED
  BY <1>10, <1>11

\* time_until_next is exact: from any instant it leads to the next instant the schedule names.
THEOREM SleepsToNextNamed ==
  ASSUME NEW c, NEW n \in Nat, ValidSpec(c)
  PROVE  TimeUntilNext(c, n) = LastNamed(c, n) + Period(c) - n
BY HourlyNext, DailyNext, WeeklyNext

LEMMA OffsetIsInt ==
  ASSUME NEW c, ValidSpec(c)
  PROVE  Offset(c) \in Int
<1>1. CASE c.hour = Unset
  BY <1>1, SMT DEF Offset
<1>2. CASE c.hour # Unset /\ c.weekday = Unset
  <2>1. c.hour \in 0 .. 23 /\ c.minute \in 0 .. 59 /\ c.second \in 0 .. 59
    BY <1>2, SMT DEF ValidSpec, Unset
  <2>2. Offset(c) = 0 * Day + c.hour * Hour + c.minute * Minute + c.second
    BY <1>2, SMT DEF Offset, Day
  <2>3. 0 \in 0 .. 6
    BY SMT
  <2>4. 0 * Day + c.hour * Hour + c.minute * Minute + c.second \in Int
    BY <2>1, <2>3, TimeOfWeek, Zenon
  <2> QED
    BY <2>2, <2>4
<1>3. CASE c.hour # Unset /\ c.weekday # Unset
  <2>1. /\ c.hour \in 0 .. 23 /\ c.minute \in 0 .. 59 /\ c.second \in 0 .. 59
        /\ (c.weekday + 4) % 7 \in 0 .. 6
    BY <1>3, SMT DEF ValidSpec, Unset
  <2>2. Offset(c) = ((c.weekday + 4) % 7) * Day + c.hour * Hour + c.minute * Minute + c.second
    BY <1>3, SMT DEF Offset
  <2>3. ((c.weekday + 4) % 7) * Day + c.hour * Hour + c.minute * Minute + c.second \in Int
    BY <2>1, TimeOfWeek, Zenon
  <2> QED
    BY <2>2, <2>3
<1> QED
  BY <1>1, <1>2, <1>3

\* It is never zero, so that a timer cannot fire twice for one instant, and never longer than
\* the period, so that it cannot pass one over.
THEOREM WaitIsWithinPeriod ==
  ASSUME NEW c, NEW n \in Nat, ValidSpec(c)
  PROVE  /\ TimeUntilNext(c, n) \in Nat \ {0}
         /\ TimeUntilNext(c, n) <= Period(c)
<1>1. Period(c) \in {Hour, Day, 7 * Day}
  BY DEF Period
<1>2. Offset(c) \in Int
  BY OffsetIsInt
<1>3. TimeUntilNext(c, n) = LastNamed(c, n) + Period(c) - n
  BY SleepsToNextNamed
<1>4. /\ (n - Offset(c)) % Period(c) \in Int
      /\ 0 <= (n - Offset(c)) % Period(c) /\ (n - Offset(c)) % Period(c) < Period(c)
  BY <1>1, <1>2, SMT DEF Hour, Day
<1> QED
  BY <1>1, <1>2, <1>3, <1>4, SMT DEF LastNamed, Hour, Day

\* should_catch_up never overlooks a timer that has not fired for a whole period.
THEOREM OverdueIsCaughtUp ==
  ASSUME NEW c, NEW n \in Nat, NEW f \in Nat, ValidSpec(c), n - f > Period(c)
  PROVE  ShouldCatchUp(f, c, n)
<1>1. TimeUntilNext(c, n) \in Nat /\ TimeUntilNext(c, n) <= Period(c)
  BY WaitIsWithinPeriod
<1>2. Period(c) \in Int
  BY SMT DEF Period, Hour, Day
<1>3. c # BadSpec
  BY SMT DEF ValidSpec, BadSpec, Spec0, Unset
<1> QED
  BY <1>1, <1>2, <1>3, SMT DEF ShouldCatchUp, NoFile, Torn

\* ParseCalendar yields small numbers, in range or not, or BadSpec.
Parsed(c) ==
  /\ c.minutely \in BOOLEAN
  /\ c.hour = Unset \/ c.hour \in U8
  /\ c.minute \in U8 /\ c.second \in U8
  /\ c.weekday = Unset \/ c.weekday \in 0 .. 6

LEMMA WeekdayInRange ==
  ASSUME NEW d
  PROVE  ParseWeekdayPrefix(d) = Unset \/ ParseWeekdayPrefix(d) \in 0 .. 6
<1>1. CASE \E i \in 1 .. 7 : Weekdays[i] = d
  <2>1. PICK i \in 1 .. 7 : i = CHOOSE j \in 1 .. 7 : Weekdays[j] = d
    BY <1>1, Zenon
  <2>2. ParseWeekdayPrefix(d) = i - 1
    BY <1>1, <2>1, Zenon DEF ParseWeekdayPrefix
  <2> QED
    BY <2>2, SMT
<1>2. CASE ~ \E i \in 1 .. 7 : Weekdays[i] = d
  BY <1>2, Zenon DEF ParseWeekdayPrefix
<1> QED
  BY <1>1, <1>2

LEMMA ParseIsParsed ==
  ASSUME NEW e, ParseCalendar(e) # BadSpec
  PROVE  Parsed(ParseCalendar(e))
<1> DEFINE d == ParseWeekdayPrefix(e.day)
<1>1. d = Unset \/ d \in 0 .. 6
  BY WeekdayInRange
<1> HIDE DEF d
<1>2. CASE e.word = "minutely"
  <2>1. ParseCalendar(e) = [Spec0 EXCEPT !.minutely = TRUE]
    BY <1>2, SMT DEF ParseCalendar
  <2> QED
    BY <2>1, SMT DEF Parsed, Spec0, U8
<1>3. CASE e.word = "hourly"
  <2>1. ParseCalendar(e) = Spec0
    BY <1>3, SMT DEF ParseCalendar
  <2> QED
    BY <2>1, SMT DEF Parsed, Spec0, U8
<1>4. CASE e.word = "daily"
  <2>1. ParseCalendar(e) = [Spec0 EXCEPT !.hour = 0]
    BY <1>4, SMT DEF ParseCalendar
  <2> QED
    BY <2>1, SMT DEF Parsed, Spec0, U8
<1>5. CASE e.word = "weekly"
  <2>1. ParseCalendar(e) = [Spec0 EXCEPT !.hour = 0, !.weekday = 0]
    BY <1>5, SMT DEF ParseCalendar
  <2> QED
    BY <2>1, SMT DEF Parsed, Spec0, U8
<1>6. CASE e.word = "time" /\ {e.h, e.m, e.s} \subseteq U8
  <2>1. ParseCalendar(e) = [Spec0 EXCEPT !.hour = e.h, !.minute = e.m, !.second = e.s, !.weekday = d]
    BY <1>6, SMT DEF ParseCalendar, d
  <2>2. e.h \in U8 /\ e.m \in U8 /\ e.s \in U8
    BY <1>6, Zenon
  <2> QED
    BY <1>1, <2>1, <2>2, SMT DEF Parsed, Spec0, U8
<1> QED
  BY <1>2, <1>3, <1>4, <1>5, <1>6, SMT DEF ParseCalendar

\* Whatever was parsed, a time of 25:61 included, time_until_next leads into the future.
LEMMA WaitIsPositive ==
  ASSUME NEW c, Parsed(c), NEW t \in Nat
  PROVE  TimeUntilNext(c, t) \in Nat \ {0}
<1> DEFINE target == TargetInDay(c, t)
<1> DEFINE sec == t % Day
<1>1. sec \in Nat /\ sec < Day
  BY DayAndSecond
<1>2. target \in Nat /\ target < 260 * Hour
  <2>1. sec \div Hour \in 0 .. 23
    BY <1>1, SMT DEF Hour, Day
  <2> HIDE DEF sec
  <2>2. TargetInDay(c, t) = (IF c.hour = Unset THEN sec \div Hour ELSE c.hour) * Hour + c.minute * Minute + c.second
    BY DEF TargetInDay, sec
  <2> DEFINE hh == IF c.hour = Unset THEN sec \div Hour ELSE c.hour
  <2>3. hh \in 0 .. 255
    BY <2>1, SMT DEF Parsed, U8
  <2>4. c.minute \in 0 .. 255 /\ c.second \in 0 .. 255
    BY DEF Parsed, U8
  <2> HIDE DEF hh
  <2>5. target = hh * Hour + c.minute * Minute + c.second
    BY <2>2 DEF hh
  <2> HIDE DEF target
  <2> QED
    BY <2>3, <2>4, <2>5, SmallTime
<1>3. CASE c.minutely
  BY <1>3, SMT DEF TimeUntilNext, Minute
<1>4. CASE ~c.minutely /\ c.weekday # Unset
  <2> DEFINE d == (7 + c.weekday - ((t \div Day + 3) % 7)) % 7
  <2>1. d \in 0 .. 6
    <3>1. t \div Day \in Nat
      BY DayAndSecond
    <3>2. c.weekday \in 0 .. 6
      BY <1>4 DEF Parsed
    <3> QED
      BY <3>1, <3>2, SMT
  <2>2. TimeUntilNext(c, t) = WeeklyWait(DaysAhead(c, t), c, t)
    BY <1>4, SMT DEF TimeUntilNext
  <2>3. DaysAhead(c, t) = IF d = 0 /\ target <= sec THEN 7 ELSE d
    BY SMT DEF DaysAhead
  <2> HIDE DEF d
  <2>4. DaysAhead(c, t) \in 0 .. 7 /\ (DaysAhead(c, t) = 0 => target > sec)
    <3> HIDE DEF target, sec
    <3> QED
      BY <1>1, <1>2, <2>1, <2>3, SMT
  <2>5. WeeklyWait(DaysAhead(c, t), c, t) = DaysAhead(c, t) * Day - sec + target
    <3>1. DaysAhead(c, t) = 0 => target >= t % Day
      BY <1>1, <1>2, <2>4
    <3> QED
      BY <1>2, <2>4, <3>1, WeeklyWaitIsExact
  <2> HIDE DEF target, sec
  <2> QED
    BY <1>1, <1>2, <2>2, <2>4, <2>5, SMT DEF Day
<1>5. CASE ~c.minutely /\ c.weekday = Unset
  <2>1. UntilHour(c, t) \in Nat \ {0}
    <3>1. t % Hour \in Nat /\ t % Hour < Hour
      BY SMT DEF Hour
    <3> DEFINE past == t % Hour
    <3>2. UntilHour(c, t) = (Hour - past) + c.minute * Minute + c.second
      BY DEF UntilHour
    <3> HIDE DEF past
    <3> QED
      <4> DEFINE mm == c.minute
                 ss == c.second
      <4>1. mm \in 0 .. 255 /\ ss \in 0 .. 255
        BY DEF Parsed, U8
      <4>2. past \in 0 .. 3599
        BY <3>1, SMT DEF past, Hour
      <4>3. UntilHour(c, t) = (Hour - past) + mm * Minute + ss
        BY <3>2
      <4> HIDE DEF mm, ss
      <4>4. (Hour - past) + mm * Minute + ss \in Nat \ {0}
        BY <4>1, <4>2, SMT DEF Hour, Minute
      <4> QED
        BY <4>3, <4>4, Zenon
  <2>2. \/ TimeUntilNext(c, t) = target - sec /\ target > sec
        \/ TimeUntilNext(c, t) = UntilHour(c, t)
        \/ TimeUntilNext(c, t) = Day - sec + target
    BY <1>5, SMT DEF TimeUntilNext
  <2> HIDE DEF target, sec
  <2> QED
    BY <1>1, <1>2, <2>1, <2>2, SMT DEF Day
<1> QED
  BY <1>3, <1>4, <1>5 DEF Parsed

------------------------------------------------------------------------------
(* The timer thread *)

Threads ==
  [pc : {"begin", "boot", "loop", "random", "sleep", "send", "truncate", "write", "done", "panicked"},
   part : {"catchup", "boot", "calendar", "interval"}, since : Nat, wake : Nat, due : BOOLEAN, rounds : Nat,
   back : BOOLEAN, overstates : BOOLEAN]
TimerTypes ==
  /\ now \in Nat
  /\ file \in Nat \cup {NoFile, Torn}
  /\ shutdown \in BOOLEAN
  /\ tm.boot \in Nat \cup {Unset} /\ tm.interval \in Nat \cup {Unset}
  /\ th \in Threads
  /\ h \in [sent : Int, served : Nat, back : BOOLEAN, overstated : BOOLEAN]

\* What a sleep for the schedule and the fire it ends in stand on, as long as nobody sets the clock
\* back: the wait was worked out at th.since, it leads past every instant that was served, and it
\* is over before the fire is sent.
SleepInv ==
  /\ th.pc = "begin" => th.part = "catchup"
  /\ th.pc = "sleep" => th.since <= th.wake
  /\ th.pc = "sleep" /\ th.part = "calendar" => Cal # BadSpec /\ th.wake = th.since + TimeUntilNext(Cal, th.since)
  /\ th.pc \in {"sleep", "send"} /\ th.part = "calendar" => th.wake > h.served \/ h.back
  /\ h.back \/ h.served <= now
  /\ th.pc = "sleep" => th.back \/ (th.since <= now /\ (th.due => th.wake <= now))
  /\ th.pc = "send" /\ th.part = "calendar" => th.back \/ th.wake <= now

\* The state file never claims more than was sent, unless it records a fire that a shutdown kept
\* back or that was sent before the clock was set forward.
FileInv ==
  /\ file \in {NoFile, Torn} \/ file <= h.sent \/ h.overstated
  /\ th.pc \in {"truncate", "write"} => now <= h.sent \/ th.overstates

TimerInv == TimerTypes /\ SleepInv /\ FileInv

LEMMA SameTimer ==
  ASSUME tm' = tm
  PROVE  Cal' = Cal /\ HasCalendar' = HasCalendar
BY DEF Cal, HasCalendar

LEMMA TimerInitially ==
  Init => TimerInv
<1> SUFFICES ASSUME Init PROVE TimerInv
  OBVIOUS
<1>1. PICK w \in Workloads : tm = w.timer /\ now = w.start
  BY DEF Init
<1>2. now \in Nat /\ tm.boot \in Nat \cup {Unset} /\ tm.interval \in Nat \cup {Unset}
  BY <1>1, WorkloadAssumption
<1>3. /\ file = NoFile /\ shutdown = FALSE /\ th = NewThread
      /\ h = [sent |-> NoFile, served |-> 0, back |-> FALSE, overstated |-> FALSE]
  BY DEF Init, TimerInit
<1>4. TimerTypes
  <2>1. th \in Threads
    BY <1>3 DEF Threads, NewThread
  <2>2. h \in [sent : Int, served : Nat, back : BOOLEAN, overstated : BOOLEAN]
    BY <1>3 DEF NoFile
  <2> QED
    BY <1>2, <1>3, <2>1, <2>2, Zenon DEF TimerTypes
<1>5. th.pc = "begin" /\ th.part = "catchup" /\ h.served = 0
  BY <1>3 DEF NewThread
<1> QED
  BY <1>2, <1>3, <1>4, <1>5 DEF TimerInv, SleepInv, FileInv

LEMMA RunKeepsTimer ==
  ASSUME TimerInv, RunTimer
  PROVE  TimerInv'
<1> USE DEF TimerInv
<1>1. /\ \E pc \in {"panicked", "send", "boot"} : th' = [th EXCEPT !.pc = pc]
      /\ UNCHANGED <<tm, now, file, shutdown, h>> /\ th.pc = "begin"
  BY Zenon DEF RunTimer
<1>2. PICK pc \in {"panicked", "send", "boot"} : th' = [th EXCEPT !.pc = pc]
  BY <1>1
<1>3. th' \in Threads /\ th'.pc = pc /\ th'.part = "catchup"
  BY <1>1, <1>2 DEF TimerTypes, Threads, SleepInv
<1>4. TimerTypes'
  BY <1>1, <1>3 DEF TimerTypes
<1>5. SleepInv'
  BY <1>1, <1>3 DEF SleepInv
<1>6. FileInv'
  BY <1>1, <1>3 DEF FileInv
<1> QED
  BY <1>4, <1>5, <1>6

\* A sleep that begins.
LEMMA SleepIsThread ==
  ASSUME TimerTypes, NEW part \in {"boot", "calendar", "interval"}, NEW secs \in Nat
  PROVE  /\ Sleep(part, secs) \in Threads
         /\ LET t == Sleep(part, secs)
            IN  /\ t.pc = "sleep" /\ t.part = part /\ t.since = now /\ t.wake = now + secs /\ t.rounds = th.rounds
                /\ t.back = FALSE /\ (t.due => secs = 0)
<1>1. now \in Nat /\ th \in Threads /\ now + secs \in Nat /\ (secs = 0) \in BOOLEAN
  BY DEF TimerTypes
<1> QED
  BY <1>1, Zenon DEF Sleep, Threads

LEMMA OnBootKeepsTimer ==
  ASSUME TimerInv, OnBoot
  PROVE  TimerInv'
<1> USE DEF TimerInv
<1>1. UNCHANGED <<tm, now, file, shutdown, h>> /\ now \in Nat
  BY DEF OnBoot, TimerTypes
<1>2. CASE tm.boot # Unset
  <2>1. tm.boot \in Nat /\ th' = Sleep("boot", tm.boot)
    BY <1>2 DEF OnBoot, TimerTypes
  <2>2. /\ th' \in Threads
        /\ th'.pc = "sleep" /\ th'.part = "boot" /\ th'.since = now /\ th'.wake = now + tm.boot
        /\ th'.due => tm.boot = 0
    BY <2>1, SleepIsThread, Zenon
  <2>3. TimerTypes' /\ FileInv'
    BY <1>1, <2>2 DEF TimerTypes, FileInv
  <2>4. SleepInv'
    BY <1>1, <2>1, <2>2 DEF SleepInv
  <2> QED
    BY <2>3, <2>4
<1>3. CASE tm.boot = Unset
  <2>1. th' = [th EXCEPT !.pc = "loop"]
    BY <1>3 DEF OnBoot
  <2>2. th' \in Threads /\ th'.pc = "loop"
    BY <2>1 DEF TimerTypes, Threads
  <2> QED
    BY <1>1, <2>2 DEF TimerTypes, SleepInv, FileInv
<1> QED
  BY <1>2, <1>3

LEMMA LoopKeepsTimer ==
  ASSUME TimerInv, Loop
  PROVE  TimerInv'
<1> USE DEF TimerInv
<1> DEFINE wait == TimeUntilNext(Cal, now)
<1>1. Cal' = Cal /\ now \in Nat /\ h' = h /\ file' = file /\ now' = now /\ tm' = tm /\ shutdown' = shutdown
  BY SameTimer DEF Loop, TimerTypes
<1>2. Cal # BadSpec => wait \in Nat \ {0}
  BY <1>1, ParseIsParsed, WaitIsPositive DEF Cal
<1>3. \/ \E pc \in {"done", "random", "panicked"} : th' = [th EXCEPT !.pc = pc]
      \/ HasCalendar /\ Cal # BadSpec /\ th' = [Sleep("calendar", wait) EXCEPT !.rounds = @ + 1]
      \/ tm.interval # Unset /\ th' = [Sleep("interval", tm.interval) EXCEPT !.rounds = @ + 1]
  BY Zenon DEF Loop, Unscheduled
<1> HIDE DEF wait
<1>4. CASE \E pc \in {"done", "random", "panicked"} : th' = [th EXCEPT !.pc = pc]
  <2>1. th' \in Threads /\ th'.pc \in {"done", "random", "panicked"}
    BY <1>4 DEF TimerTypes, Threads
  <2> QED
    BY <1>1, <2>1 DEF TimerTypes, SleepInv, FileInv
<1>5. ASSUME NEW secs \in Nat, NEW p \in {"calendar", "interval"}, th' = [Sleep(p, secs) EXCEPT !.rounds = @ + 1],
             p = "calendar" => Cal # BadSpec /\ secs = wait
      PROVE  TimerInv'
  <2>1. /\ Sleep(p, secs) \in Threads
        /\ LET t == Sleep(p, secs)
           IN  /\ t.pc = "sleep" /\ t.part = p /\ t.since = now /\ t.wake = now + secs /\ t.rounds = th.rounds
               /\ t.back = FALSE /\ (t.due => secs = 0)
    <3>1. p \in {"boot", "calendar", "interval"} /\ TimerTypes
      OBVIOUS
    <3> QED
      BY <3>1, SleepIsThread, Zenon
  <2>2. th.rounds + 1 \in Nat
    BY DEF TimerTypes, Threads
  <2>3. /\ th' \in Threads
        /\ th'.pc = "sleep" /\ th'.part = p /\ th'.since = now /\ th'.wake = now + secs /\ (th'.due => secs = 0)
    BY <1>5, <2>1, <2>2 DEF Threads
  <2>4. TimerTypes' /\ FileInv'
    BY <1>1, <2>3 DEF TimerTypes, FileInv
  <2>5. h.served \in Nat
    BY DEF TimerTypes
  <2>6. SleepInv'
    BY <1>1, <1>2, <1>5, <2>3, <2>5 DEF SleepInv, wait
  <2> QED
    BY <2>4, <2>6
<1>6. tm.interval # Unset => tm.interval \in Nat
  BY DEF TimerTypes
<1> QED
  BY <1>2, <1>3, <1>4, <1>5, <1>6

LEMMA SleepEndsKeepsTimer ==
  ASSUME TimerInv, SleepEnds
  PROVE  TimerInv'
<1> USE DEF TimerInv
<1>1. UNCHANGED <<tm, now, file, shutdown, h>> /\ th.pc = "sleep" /\ (shutdown \/ th.due)
  BY DEF SleepEnds
<1>2. /\ th' \in Threads /\ th'.pc = (IF shutdown THEN "done" ELSE "send")
      /\ th'.part = th.part /\ th'.wake = th.wake /\ th'.back = th.back
  BY DEF SleepEnds, TimerTypes, Threads
<1>3. TimerTypes' /\ FileInv'
  BY <1>1, <1>2 DEF TimerTypes, FileInv
<1>4. SleepInv'
  BY <1>1, <1>2 DEF SleepInv
<1> QED
  BY <1>3, <1>4

LEMMA FireKeepsTimer ==
  ASSUME TimerInv, FireTimer
  PROVE  TimerInv'
<1> USE DEF TimerInv
<1>1. /\ th' = [th EXCEPT !.pc = IF Saves THEN "truncate" ELSE AfterFire, !.overstates = shutdown]
      /\ h' = [h EXCEPT !.sent = IF shutdown \/ now < @ THEN @ ELSE now,
                        !.served = IF th.part = "calendar" THEN th.wake ELSE @,
                        !.back = IF th.part = "calendar" THEN th.back ELSE @]
      /\ now' = now /\ file' = file /\ tm' = tm /\ shutdown' = shutdown /\ th.pc = "send"
  BY DEF FireTimer
<1>2. now \in Nat /\ h.sent \in Int /\ h.served \in Nat /\ th.wake \in Nat /\ shutdown \in BOOLEAN
  BY DEF TimerTypes, Threads
<1>3. /\ h' \in [sent : Int, served : Nat, back : BOOLEAN, overstated : BOOLEAN]
      /\ h'.sent = IF shutdown \/ now < h.sent THEN h.sent ELSE now
      /\ h'.served = IF th.part = "calendar" THEN th.wake ELSE h.served
      /\ h'.back = IF th.part = "calendar" THEN th.back ELSE h.back
      /\ h'.overstated = h.overstated
  <2>1. h \in [sent : Int, served : Nat, back : BOOLEAN, overstated : BOOLEAN] /\ th.back \in BOOLEAN
    BY DEF TimerTypes, Threads
  <2> DEFINE sent == IF shutdown \/ now < h.sent THEN h.sent ELSE now
             served == IF th.part = "calendar" THEN th.wake ELSE h.served
             back == IF th.part = "calendar" THEN th.back ELSE h.back
  <2>2. sent \in Int /\ served \in Nat /\ back \in BOOLEAN
    BY <1>2, <2>1
  <2>3. h' = [h EXCEPT !.sent = sent, !.served = served, !.back = back]
    BY <1>1, Zenon
  <2> HIDE DEF sent, served, back
  <2>4. /\ h' \in [sent : Int, served : Nat, back : BOOLEAN, overstated : BOOLEAN]
        /\ h'.sent = sent /\ h'.served = served /\ h'.back = back /\ h'.overstated = h.overstated
    BY <2>1, <2>2, <2>3, Zenon
  <2> QED
    BY <2>4 DEF sent, served, back
<1>4. /\ th' \in Threads /\ th'.pc \in {"truncate", "loop", "boot"}
      /\ th'.overstates = shutdown
  <2>1. (IF Saves THEN "truncate" ELSE AfterFire) \in {"truncate", "loop", "boot"}
    BY DEF AfterFire
  <2> QED
    BY <1>1, <1>2, <2>1, Zenon DEF TimerTypes, Threads
<1>5. TimerTypes'
  BY <1>1, <1>3, <1>4, Zenon DEF TimerTypes
<1>6. SleepInv'
  <2>1. h'.back \/ h'.served <= now
    BY <1>1, <1>2, <1>3 DEF SleepInv
  <2> QED
    BY <1>1, <1>4, <2>1 DEF SleepInv
<1>7. FileInv'
  <2>1. now <= h'.sent \/ shutdown
    BY <1>2, <1>3
  <2>2. h.sent <= h'.sent /\ h'.sent \in Int
    BY <1>2, <1>3
  <2>3. file \in Int
    BY DEF TimerTypes, NoFile, Torn
  <2>4. file <= h.sent => file <= h'.sent
    BY <1>2, <2>2, <2>3
  <2> QED
    BY <1>1, <1>3, <1>4, <2>1, <2>4, Zenon DEF FileInv
<1> QED
  BY <1>5, <1>6, <1>7

LEMMA SaveKeepsTimer ==
  ASSUME TimerInv, Truncate \/ WriteFile
  PROVE  TimerInv'
<1> USE DEF TimerInv
<1>1. /\ \E pc \in {"write", "boot", "loop"} : th' = [th EXCEPT !.pc = pc]
      /\ now' = now /\ tm' = tm /\ shutdown' = shutdown
      /\ \/ file' \in {file, Torn} /\ h' = h
         \/ file' = now /\ h' = [h EXCEPT !.overstated = th.overstates] /\ th'.pc # "write"
      /\ th.pc \in {"truncate", "write"}
  BY Zenon DEF Truncate, WriteFile, AfterFire, TimerTypes, Threads
<1>2. PICK pc \in {"write", "boot", "loop"} : th' = [th EXCEPT !.pc = pc]
  BY <1>1
<1>3. th' \in Threads /\ th'.pc = pc /\ th'.overstates = th.overstates
  BY <1>2 DEF TimerTypes, Threads
<1>4. now <= h.sent \/ th.overstates
  BY <1>1 DEF FileInv
<1>5. /\ h' \in [sent : Int, served : Nat, back : BOOLEAN, overstated : BOOLEAN]
      /\ h'.sent = h.sent /\ h'.served = h.served /\ h'.back = h.back
  <2>1. h \in [sent : Int, served : Nat, back : BOOLEAN, overstated : BOOLEAN] /\ th.overstates \in BOOLEAN
    BY DEF TimerTypes, Threads
  <2>2. h' = h \/ h' = [h EXCEPT !.overstated = th.overstates]
    BY <1>1
  <2> QED
    BY <2>1, <2>2, Zenon
<1>6. TimerTypes'
  BY <1>1, <1>3, <1>5 DEF TimerTypes
<1>7. SleepInv'
  BY <1>1, <1>3, <1>5 DEF SleepInv
<1>8. FileInv'
  <2>1. CASE file' \in {file, Torn} /\ h' = h
    BY <1>1, <1>3, <1>4, <2>1 DEF FileInv
  <2>2. CASE file' = now /\ h' = [h EXCEPT !.overstated = th.overstates] /\ th'.pc # "write"
    <3>1. h'.overstated = th.overstates
      BY <2>2 DEF TimerTypes
    <3> QED
      BY <1>3, <1>4, <1>5, <2>2, <3>1, Zenon DEF FileInv
  <2> QED
    BY <1>1, <2>1, <2>2
<1> QED
  BY <1>6, <1>7, <1>8

LEMMA TickKeepsTimer ==
  ASSUME TimerInv, Tick
  PROVE  TimerInv'
<1> USE DEF TimerInv
<1>1. PICK late \in Lates : now' = now + (th.wake - th.since) + late
  BY DEF Tick
<1>2. /\ th.pc = "sleep" /\ tm' = tm /\ file' = file /\ shutdown' = shutdown /\ h' = h
      /\ th' = [th EXCEPT !.due = TRUE]
  BY DEF Tick
<1>3. late \in Nat /\ th.since \in Nat /\ th.wake \in Nat /\ th.since <= th.wake /\ now \in Nat /\ h.served \in Nat
  BY <1>2, TimerAssumption DEF TimerTypes, Threads, SleepInv
<1>4. now' \in Nat /\ now <= now' /\ (th.since <= now => th.wake <= now')
  BY <1>1, <1>3
<1>5. /\ th' \in Threads /\ th'.pc = "sleep" /\ th'.part = th.part /\ th'.since = th.since /\ th'.wake = th.wake
      /\ th'.back = th.back
  BY <1>2 DEF TimerTypes, Threads
<1>6. Cal' = Cal
  BY <1>2, SameTimer
<1>7. TimerTypes' /\ FileInv'
  BY <1>2, <1>4, <1>5 DEF TimerTypes, FileInv
<1>8. SleepInv'
  BY <1>2, <1>3, <1>4, <1>5, <1>6 DEF SleepInv
<1> QED
  BY <1>7, <1>8

LEMMA ClockKeepsTimer ==
  ASSUME TimerInv, ClockSet
  PROVE  TimerInv'
<1> USE DEF TimerInv
<1>1. PICK jump \in Jumps :
        /\ now + jump >= 0 /\ now' = now + jump
        /\ th' = [th EXCEPT !.back = @ \/ jump < 0, !.overstates = @ \/ (th.pc \in {"truncate", "write"} /\ jump > 0)]
        /\ h' = [h EXCEPT !.back = @ \/ jump < 0]
  BY DEF ClockSet
<1>2. tm' = tm /\ file' = file /\ shutdown' = shutdown /\ Cal' = Cal
  BY SameTimer DEF ClockSet
<1>3. jump \in Int /\ now \in Nat /\ now' \in Nat
  BY <1>1, TimerAssumption DEF TimerTypes
<1>4. /\ th' \in Threads /\ th'.pc = th.pc /\ th'.part = th.part /\ th'.since = th.since /\ th'.wake = th.wake
      /\ th'.due = th.due /\ th'.back = (th.back \/ jump < 0)
      /\ th'.overstates = (th.overstates \/ (th.pc \in {"truncate", "write"} /\ jump > 0))
  BY <1>1, Zenon DEF TimerTypes, Threads
<1>5. /\ h' \in [sent : Int, served : Nat, back : BOOLEAN, overstated : BOOLEAN]
      /\ h'.sent = h.sent /\ h'.served = h.served /\ h'.overstated = h.overstated /\ h'.back = (h.back \/ jump < 0)
  BY <1>1, Zenon DEF TimerTypes
<1>6. TimerTypes'
  BY <1>2, <1>3, <1>4, <1>5 DEF TimerTypes
<1>7. CASE jump < 0
  <2>1. now' <= now /\ h.sent \in Int
    BY <1>1, <1>3, <1>7 DEF TimerTypes
  <2>2. now <= h.sent => now' <= h.sent
    BY <1>3, <2>1
  <2>3. FileInv'
    BY <1>2, <1>4, <1>5, <2>2, Zenon DEF FileInv
  <2>4. SleepInv'
    BY <1>2, <1>4, <1>5, <1>7, Zenon DEF SleepInv
  <2> QED
    BY <1>6, <2>3, <2>4
<1>8. CASE jump >= 0
  <2>1. now <= now' /\ h.served \in Nat /\ th.since \in Nat /\ th.wake \in Nat
    BY <1>1, <1>3, <1>8 DEF TimerTypes, Threads
  <2>2. jump > 0 \/ now' = now
    BY <1>1, <1>3, <1>8
  <2>3. FileInv'
    BY <1>2, <1>4, <1>5, <2>2, Zenon DEF FileInv
  <2>4. (h.served <= now => h.served <= now') /\ (th.since <= now => th.since <= now') /\ (th.wake <= now => th.wake <= now')
    BY <1>3, <2>1
  <2>5. SleepInv'
    BY <1>2, <1>4, <1>5, <2>4, Zenon DEF SleepInv
  <2> QED
    BY <1>6, <2>3, <2>5
<1> QED
  BY <1>3, <1>7, <1>8

LEMMA ShutdownKeepsTimer ==
  ASSUME TimerInv, RequestShutdown
  PROVE  TimerInv'
<1> USE DEF TimerInv
<1>1. Cal' = Cal
  BY SameTimer DEF RequestShutdown
<1>2. TimerTypes' /\ FileInv'
  BY DEF RequestShutdown, TimerTypes, FileInv
<1>3. SleepInv'
  BY <1>1 DEF RequestShutdown, SleepInv
<1> QED
  BY <1>2, <1>3

LEMMA BootKeepsTimer ==
  ASSUME TimerInv, NextBoot
  PROVE  TimerInv'
<1> USE DEF TimerInv
<1>1. PICK jump \in Jumps : now + jump >= 0 /\ now' = now + jump /\ h' = [h EXCEPT !.back = @ \/ jump < 0]
  BY DEF NextBoot
<1>2. /\ th' = NewThread /\ tm' = tm /\ file' = file /\ shutdown' = FALSE
  BY DEF NextBoot
<1>3. jump \in Int /\ now \in Nat /\ now' \in Nat /\ h.served \in Nat
  BY <1>1, TimerAssumption DEF TimerTypes
<1>4. th' \in Threads /\ th'.pc = "begin" /\ th'.part = "catchup"
  BY <1>2 DEF NewThread, Threads
<1>5. /\ h' \in [sent : Int, served : Nat, back : BOOLEAN, overstated : BOOLEAN]
      /\ h'.sent = h.sent /\ h'.served = h.served /\ h'.overstated = h.overstated /\ h'.back = (h.back \/ jump < 0)
  BY <1>1, Zenon DEF TimerTypes
<1>6. TimerTypes'
  <2>1. shutdown' \in BOOLEAN
    BY <1>2, Zenon
  <2> QED
    BY <1>2, <1>3, <1>4, <1>5, <2>1 DEF TimerTypes
<1>7. h'.back \/ h'.served <= now'
  BY <1>1, <1>3, <1>5 DEF SleepInv
<1>8. SleepInv' /\ FileInv'
  BY <1>2, <1>4, <1>5, <1>7 DEF SleepInv, FileInv
<1> QED
  BY <1>6, <1>8

\* A step that leaves the thread, its timer, the clock and the file alone.
LEMMA OthersKeepTimer ==
  ASSUME TimerInv, UNCHANGED <<tm, now, file, shutdown, th, h>>
  PROVE  TimerInv'
<1>1. Cal' = Cal /\ HasCalendar' = HasCalendar
  BY SameTimer
<1> QED
  BY <1>1 DEF TimerInv, TimerTypes, SleepInv, FileInv

LEMMA TimerInductive ==
  TimerInv /\ [Next]_vars => TimerInv'
<1> SUFFICES ASSUME TimerInv, [Next]_vars PROVE TimerInv'
  OBVIOUS
<1>1. CASE TimerStep
  BY <1>1, RunKeepsTimer, OnBootKeepsTimer, LoopKeepsTimer, SleepEndsKeepsTimer, FireKeepsTimer, SaveKeepsTimer,
     TickKeepsTimer, ClockKeepsTimer, ShutdownKeepsTimer DEF TimerStep, TimerThread
<1>2. CASE Dispatch \/ ClientLocks \/ ClientUnlocks
  BY <1>2, OthersKeepTimer DEF Dispatch, DispatchRecv, DispatchStart, ClientLocks, ClientUnlocks, tvars
<1>3. CASE LaunchStep
  BY <1>3, OthersKeepTimer DEF LaunchStep, tvars
<1>4. CASE Reboot
  BY <1>4, BootKeepsTimer DEF Reboot
<1>5. CASE UNCHANGED vars
  BY <1>5, OthersKeepTimer DEF vars, tvars
<1> QED
  BY <1>1, <1>2, <1>3, <1>4, <1>5 DEF Next

LEMMA TimerAlways ==
  Spec => []TimerInv
BY TimerInitially, TimerInductive, PTL DEF Spec

\* Whatever the schedule and whenever the thread gets to it, run_timer sleeps to the first instant
\* after that moment that the schedule names: sleep_interruptibly is given what time_until_next
\* worked out from the clock as it then stood.
THEOREM TimerSleepsToNext ==
  Spec => []SleepsToTheNext
<1>1. TimerInv => SleepsToTheNext
  <2> SUFFICES ASSUME TimerInv, th.pc = "sleep", th.part = "calendar", ValidSpec(Cal)
               PROVE  th.wake = LastNamed(Cal, th.since) + Period(Cal)
    BY DEF SleepsToTheNext
  <2>1. th.since \in Nat /\ th.wake = th.since + TimeUntilNext(Cal, th.since)
    BY DEF TimerInv, TimerTypes, Threads, SleepInv
  <2>2. TimeUntilNext(Cal, th.since) = LastNamed(Cal, th.since) + Period(Cal) - th.since
    BY <2>1, SleepsToNextNamed
  <2>3. TimeUntilNext(Cal, th.since) \in Int /\ Period(Cal) \in Int
    BY <2>1, WaitIsWithinPeriod, SMT DEF Period, Hour, Day
  <2>4. LastNamed(Cal, th.since) \in Int
    <3>1. Offset(Cal) \in Int
      BY OffsetIsInt
    <3>2. Period(Cal) \in {Hour, Day, 7 * Day}
      BY DEF Period
    <3> QED
      BY <2>1, <3>1, <3>2, SMT DEF LastNamed, Hour, Day
  <2> QED
    BY <2>1, <2>2, <2>3, <2>4, SMT
<1> QED
  BY <1>1, TimerAlways, PTL

\* The loop of run_timer serves the instants of its schedule in their order and none of them twice,
\* however late its sleeps end, however the clock is set forward and however often the machine is
\* booted: an instant comes round again only after the clock was set back behind run_timer's back,
\* since the wait for the last instant began.
THEOREM TimerFiresOncePerInstant ==
  Spec => []OneFirePerInstant
<1>1. TimerInv => OneFirePerInstant
  BY DEF TimerInv, SleepInv, OneFirePerInstant
<1> QED
  BY <1>1, TimerAlways, PTL

\* should_catch_up and save_last_fired together: a boot that skips the catch-up of a persistent timer
\* has a fire within the last period behind it, unless a crash tore the state file, or the file
\* records a fire that a shutdown kept back or that was sent before the clock was set forward.
THEOREM TimerCatchesUp ==
  Spec => OverdueIsSent
<1> DEFINE Skips == th.pc = "begin" /\ th'.pc = "boot" /\ tm.persistent /\ HasCalendar /\ ValidSpec(Cal)
           Sent == now - h.sent <= Period(Cal) \/ file = Torn \/ h.overstated
<1>1. ASSUME TimerInv, [Next]_vars, Skips PROVE Sent
  <2>1. RunTimer
    <3>1. th' # th
      BY <1>1
    <3>2. ~(\E pc \in {"begin"} : th'.pc = pc)
      BY <1>1
    <3>3. ~Reboot
      BY <3>2 DEF Reboot, NextBoot, NewThread
    <3>4. TimerStep
      BY <1>1, <3>1, <3>3 DEF Next, vars, tvars, LaunchStep, Dispatch, DispatchRecv, DispatchStart, ClientLocks, ClientUnlocks
    <3>5. ~ClockSet
      BY <1>1 DEF ClockSet, TimerInv, TimerTypes, Threads
    <3> QED
      BY <1>1, <3>1, <3>4, <3>5
      DEF TimerStep, TimerThread, OnBoot, Loop, SleepEnds, FireTimer, Truncate, WriteFile, Tick, RequestShutdown
  <2>2. ~ShouldCatchUp(file, Cal, now)
    BY <1>1, <2>1 DEF RunTimer, CatchesUp, TimerInv, TimerTypes, Threads
  <2>3. file # NoFile
    BY <2>2 DEF ShouldCatchUp
  <2>4. CASE file \in Nat
    <3>1. ~(now - file > Period(Cal))
      BY <1>1, <2>2, <2>4, OverdueIsCaughtUp DEF TimerInv, TimerTypes
    <3>2. Period(Cal) \in Nat
      BY SMT DEF Period, Hour, Day
    <3>3. file <= h.sent \/ h.overstated
      BY <1>1, <2>4 DEF TimerInv, FileInv, NoFile, Torn
    <3>4. now \in Nat /\ h.sent \in Int
      BY <1>1 DEF TimerInv, TimerTypes
    <3> QED
      BY <2>4, <3>1, <3>2, <3>3, <3>4, SMT
  <2> QED
    BY <1>1, <2>3, <2>4 DEF TimerInv, TimerTypes
<1>2. TimerInv /\ [Next]_vars => [Skips => Sent]_tvars
  BY <1>1
<1>3. [][Skips => Sent]_tvars => OverdueIsSent
  BY PTL DEF OverdueIsSent
<1> QED
  BY <1>2, <1>3, TimerAlways, PTL DEF Spec
=============================================================================
