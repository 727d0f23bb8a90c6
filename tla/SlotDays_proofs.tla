--------------------------- MODULE SlotDays_proofs ---------------------------
(***************************************************************************)
(* Proofs about the calendar and the days of the slots, for every length   *)
(* of minute, hour and day, every zone with two offsets, and every cron.   *)
(***************************************************************************)
EXTENDS SlotDays, FiniteSetTheorems, WellFoundedInduction, TLAPS

---------------------------------------------------------------------------
(* Arithmetic of days, hours and minutes. *)

\* Division with remainder.
LEMMA Division ==
    ASSUME NEW m \in Nat \ {0}, NEW n \in Int
    PROVE  /\ n \div m \in Int /\ n % m \in 0..(m - 1)
           /\ n = m * (n \div m) + (n % m)
<1>1. n \div m \in Int
  OBVIOUS
<1>2. n % m \in 0..(m - 1)
  OBVIOUS
<1>3. n = m * (n \div m) + (n % m)
  OBVIOUS
<1> QED BY <1>1, <1>2, <1>3

\* Products keep the order.
LEMMA Grows ==
    ASSUME NEW m \in Nat \ {0}, NEW a \in Int, NEW b \in Int
    PROVE  /\ m * a \in Int /\ a * m = m * a /\ m * (a + b) = m * a + m * b
           /\ a < b => m * a + m <= m * b
           /\ a <= b => m * a <= m * b
<1>1. m * a \in Int /\ a * m = m * a
  OBVIOUS
<1>2. m * (a + b) = m * a + m * b
  OBVIOUS
<1>3. a < b => m * a + m <= m * b
  OBVIOUS
<1>4. a <= b => m * a <= m * b
  OBVIOUS
<1> QED BY <1>1, <1>2, <1>3, <1>4

\* A quotient and its remainder are the only ones.
LEMMA DivisionUnique ==
    ASSUME NEW m \in Nat \ {0}, NEW q \in Int, NEW r \in 0..(m - 1)
    PROVE  (m * q + r) \div m = q /\ (m * q + r) % m = r
<1> DEFINE n == m * q + r
           a == n \div m
           b == n % m
<1>1. n \in Int /\ m * q \in Int
  BY Grows
<1>2. a \in Int /\ b \in 0..(m - 1) /\ n = m * a + b
  BY <1>1, Division
<1>3. m * a \in Int /\ (a < q => m * a + m <= m * q) /\ (q < a => m * q + m <= m * a)
  BY <1>2, Grows
<1> HIDE DEF a, b
<1>4. a = q
  BY <1>1, <1>2, <1>3
<1>5. b = r
  BY <1>1, <1>2, <1>4
<1> QED BY <1>4, <1>5 DEF a, b

\* The lengths of the calendar.
LEMMA Lengths ==
    /\ MinuteLen \in Nat \ {0} /\ HourLen \in Nat \ {0} /\ DayHours \in Nat \ {0}
    /\ DayMinutes \in Nat \ {0} /\ DayTicks \in Nat \ {0}
    /\ DayMinutes = HourLen * DayHours /\ DayTicks = MinuteLen * DayMinutes
<1>1. MinuteLen \in Nat \ {0} /\ HourLen \in Nat \ {0} /\ DayHours \in Nat \ {0}
  BY CalendarAssumption
<1>2. \A x, y \in Nat \ {0} : x * y \in Nat \ {0} /\ x * y = y * x
  OBVIOUS
<1> QED BY <1>1, <1>2 DEF DayMinutes, DayTicks

\* What the calendar (cronutil.py) reads from a wall time put together of a day,
\* an hour and a minute.
LEMMA PartsOf ==
    ASSUME NEW d \in Int, NEW h \in 0..(DayHours - 1), NEW m \in 0..(HourLen - 1)
    PROVE  LET k == h * HourLen + m
               t == d * DayMinutes + k
           IN  /\ t \in Int /\ k \in 0..(DayMinutes - 1)
               /\ date(t) = d /\ hour_of(t) = h /\ minute_of(t) = m
<1> DEFINE k == h * HourLen + m
           t == d * DayMinutes + k
           q == DayHours * d + h
<1>0. /\ HourLen \in Nat \ {0} /\ DayHours \in Nat \ {0} /\ DayMinutes \in Nat \ {0}
      /\ DayMinutes = HourLen * DayHours
  BY Lengths
<1>1. HourLen * h \in Int /\ h * HourLen = HourLen * h /\ HourLen * h + HourLen <= HourLen * DayHours
  BY <1>0, Grows
<1>2. HourLen * h >= 0
  BY <1>0
<1>3. k \in 0..(DayMinutes - 1)
  BY <1>0, <1>1, <1>2
<1>4. DayMinutes * d \in Int /\ d * DayMinutes = DayMinutes * d /\ DayHours * d \in Int
  BY <1>0, Grows
<1>5. t = DayMinutes * d + k /\ t \in Int
  BY <1>3, <1>4
<1>6. date(t) = d
  BY <1>0, <1>3, <1>5, DivisionUnique DEF date
<1>7. DayMinutes * d = HourLen * (DayHours * d)
  BY <1>0
<1>8. HourLen * (DayHours * d + h) = HourLen * (DayHours * d) + HourLen * h
  BY <1>0, <1>4, Grows
<1>9. t = HourLen * q + m /\ q \in Int
  BY <1>0, <1>1, <1>4, <1>5, <1>7, <1>8
<1>10. t \div HourLen = q /\ t % HourLen = m
  BY <1>0, <1>9, DivisionUnique
<1>11. q % DayHours = h
  BY <1>0, DivisionUnique
<1>12. hour_of(t) = h /\ minute_of(t) = m
  BY <1>10, <1>11 DEF hour_of, minute_of
<1> QED BY <1>3, <1>5, <1>6, <1>12

\* Every wall time is put together of the parts the calendar reads from it.
LEMMA PartsMake ==
    ASSUME NEW t \in Int
    PROVE  /\ date(t) \in Int /\ hour_of(t) \in 0..(DayHours - 1) /\ minute_of(t) \in 0..(HourLen - 1)
           /\ t = date(t) * DayMinutes + (hour_of(t) * HourLen + minute_of(t))
<1> DEFINE q == t \div HourLen
           d == q \div DayHours
           h == hour_of(t)
           m == minute_of(t)
<1>0. /\ HourLen \in Nat \ {0} /\ DayHours \in Nat \ {0} /\ DayMinutes \in Nat \ {0}
      /\ DayMinutes = HourLen * DayHours
  BY Lengths
<1>1. q \in Int /\ m \in 0..(HourLen - 1) /\ t = HourLen * q + m
  BY <1>0, Division DEF minute_of
<1>2. d \in Int /\ h \in 0..(DayHours - 1) /\ q = DayHours * d + h
  BY <1>0, <1>1, Division DEF hour_of
<1> HIDE DEF q, d, h, m
<1>3. DayHours * d \in Int /\ d * DayMinutes = DayMinutes * d /\ h * HourLen = HourLen * h
  BY <1>0, <1>2, Grows
<1>4. DayMinutes * d = HourLen * (DayHours * d)
  BY <1>0, <1>2
<1>5. HourLen * q = HourLen * (DayHours * d) + HourLen * h
  BY <1>0, <1>2, <1>3, Grows
<1>6. HourLen * (DayHours * d) \in Int /\ HourLen * h \in Int
  BY <1>0, <1>2, <1>3, Grows
<1>7. t = d * DayMinutes + (h * HourLen + m)
  BY <1>1, <1>3, <1>4, <1>5, <1>6
<1>8. date(t) = d
  BY <1>1, <1>2, <1>7, PartsOf
<1> QED BY <1>1, <1>2, <1>7, <1>8 DEF h, m

\* The weekday of a cron, counted from Sunday (cronutil.py, _matches).
LEMMA CronWeekday ==
    ASSUME NEW t \in Int
    PROVE  cron_dow(t) = (date(t) + 1) % 7
<1>1. date(t) \in Int
  BY PartsMake
<1>2. \A d \in Int : (IF d % 7 = 6 THEN 0 ELSE (d % 7) + 1) = (d + 1) % 7
  OBVIOUS
<1> QED BY <1>1, <1>2 DEF cron_dow, weekday

\* A cron matches a wall time exactly if it names its time of day and its weekday.
LEMMA MatchesWall ==
    ASSUME NEW c, NEW t \in Int, date(t) \in Days
    PROVE  _matches(t, parse_cron(c)) <=> t \in Walls(c)
<1> DEFINE OkMinute(v) == Allowed(c.minute, v, 0, HourLen - 1)
           OkHour(v) == Allowed(c.hour, v, 0, DayHours - 1)
           OkDay(v) == Allowed(c.dow, v, 0, 6)
           d == date(t)
           h == hour_of(t)
           m == minute_of(t)
<1>1. _matches(t, parse_cron(c)) <=> OkMinute(m) /\ OkHour(h) /\ OkDay((d + 1) % 7)
  <2>1. parse_cron(c).any = {f \in {"minute", "hour", "dow"} : c[f] = {}}
    BY DEF parse_cron
  <2>2. /\ "minute" \in parse_cron(c).any <=> c.minute = {}
        /\ "hour" \in parse_cron(c).any <=> c.hour = {}
        /\ "dow" \in parse_cron(c).any <=> c.dow = {}
    BY <2>1
  <2>3. /\ parse_cron(c).minutes = _parse_field(c.minute, 0, HourLen - 1)
        /\ parse_cron(c).hours = _parse_field(c.hour, 0, DayHours - 1)
        /\ parse_cron(c).dows = _parse_field(c.dow, 0, 6)
    BY DEF parse_cron
  <2>4. cron_dow(t) = (d + 1) % 7
    BY CronWeekday
  <2> QED BY <2>2, <2>3, <2>4 DEF _matches, Allowed
<1>2. /\ d \in Days /\ h \in 0..(DayHours - 1) /\ m \in 0..(HourLen - 1)
      /\ t = d * DayMinutes + (h * HourLen + m)
  BY PartsMake
<1>3. ASSUME OkMinute(m), OkHour(h), OkDay((d + 1) % 7) PROVE t \in Walls(c)
  <2>1. h * HourLen + m \in TimesOfDay(c)
    BY <1>2, <1>3 DEF TimesOfDay
  <2> QED BY <1>2, <1>3, <2>1 DEF Walls
<1>4. ASSUME t \in Walls(c) PROVE OkMinute(m) /\ OkHour(h) /\ OkDay((d + 1) % 7)
  <2>1. PICK e \in Days, k \in TimesOfDay(c) : OkDay((e + 1) % 7) /\ t = e * DayMinutes + k
    BY <1>4 DEF Walls
  <2>2. PICK x \in 0..(DayHours - 1), y \in 0..(HourLen - 1) :
           OkHour(x) /\ OkMinute(y) /\ k = x * HourLen + y
    BY DEF TimesOfDay
  <2>3. e \in Int
    BY SlotAssumption, CalendarAssumption DEF Days
  <2>4. d = e /\ h = x /\ m = y
    BY <2>1, <2>2, <2>3, PartsOf
  <2> QED BY <2>1, <2>2, <2>4
<1> QED BY <1>1, <1>3, <1>4

---------------------------------------------------------------------------
(* Fires. *)

\* The wall clock is one of two offsets away from UTC.
LEMMA LocalTime ==
    ASSUME NEW u \in Int
    PROVE  /\ \E offset \in {StdOffset, DstOffset} : astimezone(u) = u + offset
           /\ astimezone(u) \in Int
           /\ astimezone(u) - u \in (1 - DayMinutes)..(DayMinutes - 1)
<1>1. /\ StdOffset \in (1 - DayMinutes)..(DayMinutes - 1)
      /\ DstOffset \in (1 - DayMinutes)..(DayMinutes - 1)
      /\ DayMinutes \in Int
  BY CalendarAssumption, Lengths
<1>2. astimezone(u) = u + StdOffset \/ astimezone(u) = u + DstOffset
  BY DEF astimezone
<1>3. StdOffset \in Int /\ DstOffset \in Int
  BY <1>1
<1> QED BY <1>1, <1>2, <1>3

\* A fire of the wall clock is a UTC minute at which the clock shows a time the
\* cron names.
LEMMA FireIsWall ==
    ASSUME NEW c \in Crons
    PROVE  Fires[c] \subseteq Int /\ \A u \in Int : u \in Fires[c] <=> astimezone(u) \in Walls(c)
<1> DEFINE U == {wall - offset : wall \in Walls(c), offset \in {StdOffset, DstOffset}}
<1>1. Fires[c] = {u \in U : astimezone(u) \in Walls(c)}
  BY DEF Fires
<1>2. Walls(c) \subseteq Int
  <2> SUFFICES ASSUME NEW t \in Walls(c) PROVE t \in Int
    OBVIOUS
  <2>1. PICK d \in Days, k \in TimesOfDay(c) : t = d * DayMinutes + k
    BY DEF Walls
  <2>2. PICK h \in 0..(DayHours - 1), m \in 0..(HourLen - 1) : k = h * HourLen + m
    BY DEF TimesOfDay
  <2>3. d \in Int
    BY SlotAssumption, CalendarAssumption DEF Days
  <2> QED BY <2>1, <2>2, <2>3, PartsOf
<1>3. StdOffset \in Int /\ DstOffset \in Int
  BY CalendarAssumption, Lengths
<1>4. U \subseteq Int
  BY <1>2, <1>3
<1>5. ASSUME NEW u \in Int, astimezone(u) \in Walls(c) PROVE u \in U
  <2>1. PICK offset \in {StdOffset, DstOffset} : astimezone(u) = u + offset
    BY LocalTime
  <2>2. u = astimezone(u) - offset
    BY <1>3, <2>1
  <2> QED BY <1>5, <2>2
<1> QED BY <1>1, <1>4, <1>5

\* Days lists the local day of each minute a reader can look at.
LEMMA InReach ==
    ASSUME NEW u \in Int, (FirstDay - LookbackDays) * DayMinutes <= u,
           u < (LastDay + 1 + HorizonDays) * DayMinutes
    PROVE  date(astimezone(u)) \in Days
<1> DEFINE t == astimezone(u)
           d == date(t)
           a == FirstDay - LookbackDays
           b == LastDay + 1 + HorizonDays
           r == t % DayMinutes
<1>1. DayMinutes \in Nat \ {0} /\ a \in Int /\ b \in Int
  BY Lengths, SlotAssumption, CalendarAssumption
<1>2. t \in Int /\ t - u \in (1 - DayMinutes)..(DayMinutes - 1)
  BY LocalTime
<1>3. d \in Int /\ r \in 0..(DayMinutes - 1) /\ t = DayMinutes * d + r
  BY <1>1, <1>2, Division DEF date
<1>4. /\ a * DayMinutes <= u /\ u < b * DayMinutes
      /\ a * DayMinutes = DayMinutes * a /\ b * DayMinutes = DayMinutes * b
  BY <1>1, Grows
<1> HIDE DEF t, d, a, b, r
<1>5. DayMinutes * d \in Int /\ DayMinutes * a \in Int /\ DayMinutes * b \in Int
  BY <1>1, <1>3, Grows
<1>6. d >= a - 1
  <2>1. d + 1 < a => DayMinutes * (d + 1) + DayMinutes <= DayMinutes * a
    BY <1>1, <1>3, Grows
  <2>2. DayMinutes * (d + 1) = DayMinutes * d + DayMinutes
    BY <1>1, <1>3, Grows
  <2> QED BY <1>1, <1>2, <1>3, <1>4, <1>5, <2>1, <2>2
<1>7. d <= b
  <2>1. b < d => DayMinutes * b + DayMinutes <= DayMinutes * d
    BY <1>1, <1>3, Grows
  <2> QED BY <1>1, <1>2, <1>3, <1>4, <1>5, <2>1
<1>8. a - 1 = FirstDay - LookbackDays - 1 /\ b = LastDay + HorizonDays + 1
  BY SlotAssumption, CalendarAssumption DEF a, b
<1> QED BY <1>1, <1>3, <1>6, <1>7, <1>8 DEF Days, d, t

\* The minutes a scan (iter_cron_fires) visits from an instant on are those that
\* begin at the instant or later.
LEMMA FirstMinuteFacts ==
    ASSUME NEW s \in Int
    PROVE  FirstMinute(s) \in Int /\ \A u \in Int : FirstMinute(s) <= u <=> s <= At(u)
<1> DEFINE q == FirstMinute(s)
           r == (s + MinuteLen - 1) % MinuteLen
<1>1. MinuteLen \in Nat \ {0}
  BY Lengths
<1>2. q \in Int /\ r \in 0..(MinuteLen - 1) /\ s + MinuteLen - 1 = MinuteLen * q + r
  <2>1. s + MinuteLen - 1 \in Int
    BY <1>1
  <2>2. \A n \in Int : /\ n \div MinuteLen \in Int /\ n % MinuteLen \in 0..(MinuteLen - 1)
                      /\ n = MinuteLen * (n \div MinuteLen) + (n % MinuteLen)
    BY <1>1, Division
  <2> HIDE DEF r
  <2>3. q \in Int
    BY <2>1, <2>2 DEF FirstMinute
  <2>4. r \in 0..(MinuteLen - 1)
    BY <2>1, <2>2 DEF r
  <2>5. s + MinuteLen - 1 = MinuteLen * q + r
    BY <2>1, <2>2 DEF FirstMinute, r
  <2> QED BY <2>3, <2>4, <2>5
<1> HIDE DEF q, r
<1>3. ASSUME NEW u \in Int PROVE q <= u <=> s <= At(u)
  <2>1. /\ MinuteLen * u \in Int /\ MinuteLen * q \in Int /\ At(u) = MinuteLen * u
        /\ q <= u => MinuteLen * q <= MinuteLen * u
        /\ u < q => MinuteLen * u + MinuteLen <= MinuteLen * q
    BY <1>1, <1>2, Grows DEF At
  <2> QED BY <1>1, <1>2, <2>1
<1> QED BY <1>2, <1>3 DEF q

\* The scan of UTC minutes finds the fires of the wall clock between two instants,
\* each of them and nothing else.
LEMMA IterIsFires ==
    ASSUME NEW c \in Crons, NEW s \in Int, NEW e \in Int,
           (FirstDay - LookbackDays) * DayTicks <= s, e <= (LastDay + 1 + HorizonDays) * DayTicks
    PROVE  iter_cron_fires(c, s, e) = {f \in Fires[c] : s <= At(f) /\ At(f) < e}
<1> DEFINE a == FirstDay - LookbackDays
           b == LastDay + 1 + HorizonDays
<1>1. /\ MinuteLen \in Nat \ {0} /\ DayMinutes \in Nat \ {0} /\ DayTicks = MinuteLen * DayMinutes
      /\ a \in Int /\ b \in Int
  BY Lengths, SlotAssumption, CalendarAssumption
<1>2. ASSUME NEW n \in Int PROVE n * DayMinutes \in Int /\ n * DayTicks = MinuteLen * (n * DayMinutes)
  <2>1. \A x, y, z \in Int : x * (y * z) = y * (x * z) /\ x * z \in Int
    OBVIOUS
  <2> QED BY <1>1, <2>1
<1>3. FirstMinute(s) \in Int /\ FirstMinute(e) \in Int
  BY FirstMinuteFacts
<1>4. ASSUME NEW u \in Int
      PROVE  /\ u \in FirstMinute(s)..(FirstMinute(e) - 1) <=> s <= At(u) /\ At(u) < e
             /\ At(u) \in Int
  <2>1. (FirstMinute(s) <= u <=> s <= At(u)) /\ (FirstMinute(e) <= u <=> e <= At(u))
    BY FirstMinuteFacts
  <2>2. At(u) \in Int
    BY <1>1, Grows DEF At
  <2> QED BY <1>3, <2>1, <2>2
<1>5. ASSUME NEW u \in Int, s <= At(u), At(u) < e
      PROVE  _matches(astimezone(u), parse_cron(c)) <=> u \in Fires[c]
  <2>1. At(u) = MinuteLen * u /\ MinuteLen * u \in Int
    BY <1>1, Grows DEF At
  <2>2. a * DayMinutes <= u
    <3>1. u < a * DayMinutes => MinuteLen * u + MinuteLen <= MinuteLen * (a * DayMinutes)
      BY <1>1, <1>2, Grows
    <3>2. a * DayTicks = MinuteLen * (a * DayMinutes) /\ MinuteLen * (a * DayMinutes) \in Int
      BY <1>1, <1>2, Grows
    <3> HIDE DEF a
    <3>3. a * DayTicks <= s
      BY DEF a
    <3> QED BY <1>1, <1>2, <1>5, <2>1, <3>1, <3>2, <3>3
  <2>3. u < b * DayMinutes
    <3>1. b * DayMinutes <= u => MinuteLen * (b * DayMinutes) <= MinuteLen * u
      BY <1>1, <1>2, Grows
    <3>2. b * DayTicks = MinuteLen * (b * DayMinutes) /\ MinuteLen * (b * DayMinutes) \in Int
      BY <1>1, <1>2, Grows
    <3> HIDE DEF b
    <3>3. e <= b * DayTicks
      BY DEF b
    <3> QED BY <1>1, <1>2, <1>5, <2>1, <3>1, <3>2, <3>3
  <2>4. date(astimezone(u)) \in Days /\ astimezone(u) \in Int
    BY <2>2, <2>3, InReach, LocalTime
  <2> QED BY <2>4, MatchesWall, FireIsWall
<1>6. iter_cron_fires(c, s, e) =
         {u \in FirstMinute(s)..(FirstMinute(e) - 1) : _matches(astimezone(u), parse_cron(c))}
  BY DEF iter_cron_fires
<1>7. Fires[c] \subseteq Int /\ FirstMinute(s)..(FirstMinute(e) - 1) \subseteq Int
  BY <1>3, FireIsWall
<1> QED BY <1>4, <1>5, <1>6, <1>7

---------------------------------------------------------------------------
(* The clock. *)

ClockInv ==
    /\ cron \in Crons /\ now \in Int
    /\ FirstDay * DayTicks <= now /\ now < (LastDay + 1) * DayTicks

\* The first and the last tick of the clock.
LEMMA ClockBounds ==
    /\ DayTicks \in Nat \ {0} /\ FirstDay \in Int /\ LastDay \in Int
    /\ FirstDay * DayTicks \in Int /\ (LastDay + 1) * DayTicks \in Int
    /\ FirstDay * DayTicks < (LastDay + 1) * DayTicks
<1>1. DayTicks \in Nat \ {0} /\ FirstDay \in Int /\ LastDay + 1 \in Int /\ FirstDay < LastDay + 1
  BY Lengths, SlotAssumption
<1>2. \A n \in Int : n * DayTicks = DayTicks * n /\ DayTicks * n \in Int
  BY <1>1, Grows
<1>3. DayTicks * FirstDay + DayTicks <= DayTicks * (LastDay + 1)
  BY <1>1, Grows
<1> QED BY <1>1, <1>2, <1>3, SlotAssumption

LEMMA ClockStarts == Init => ClockInv
BY ClockBounds DEF Init, ClockInv

\* The clock stays within the days of the model.
LEMMA ClockHolds == Spec => []ClockInv
<1>1. Init => ClockInv
  BY ClockStarts
<1>2. ClockInv /\ [Next]_vars => ClockInv'
  <2> SUFFICES ASSUME ClockInv, [Next]_vars PROVE ClockInv'
    OBVIOUS
  <2>1. CASE UNCHANGED vars
    BY <2>1 DEF vars, ClockInv
  <2>2. CASE Trigger \/ TriggerLost \/ CatchupPass \/ Settle
    BY <2>2 DEF Trigger, TriggerLost, CatchupPass, Settle, ClockInv
  <2>3. CASE Tick
    <3>1. cron' = cron /\ now' \in {now, now + 1} /\ (now' = now + 1 => now < (LastDay + 1) * DayTicks - 1)
      BY <2>3 DEF Tick
    <3> QED BY ClockBounds, <3>1 DEF ClockInv
  <2> QED BY <2>1, <2>2, <2>3 DEF Next
<1> QED BY <1>1, <1>2, PTL DEF Spec

\* What the readers look at lies within the days of the reference.
LEMMA Reach ==
    ASSUME ClockInv
    PROVE  /\ now - LookbackDays * DayTicks \in Int /\ now + HorizonDays * DayTicks \in Int
           /\ now + MinuteLen \in Int
           /\ (FirstDay - LookbackDays) * DayTicks <= now - LookbackDays * DayTicks
           /\ (FirstDay - LookbackDays) * DayTicks <= now + MinuteLen
           /\ now <= (LastDay + 1 + HorizonDays) * DayTicks
           /\ now + HorizonDays * DayTicks <= (LastDay + 1 + HorizonDays) * DayTicks
<1>1. /\ DayTicks \in Nat \ {0} /\ MinuteLen \in Nat /\ FirstDay \in Int /\ LastDay + 1 \in Int
      /\ LookbackDays \in Nat /\ HorizonDays \in Nat
  BY Lengths, SlotAssumption, CalendarAssumption
<1>2. \A a, b \in Int : /\ (a - b) * DayTicks = a * DayTicks - b * DayTicks
                        /\ (a + b) * DayTicks = a * DayTicks + b * DayTicks
                        /\ a * DayTicks \in Int
  BY <1>1
<1>3. \A n \in Nat : n * DayTicks >= 0
  BY <1>1
<1>4. /\ (FirstDay - LookbackDays) * DayTicks = FirstDay * DayTicks - LookbackDays * DayTicks
      /\ (LastDay + 1 + HorizonDays) * DayTicks = (LastDay + 1) * DayTicks + HorizonDays * DayTicks
      /\ FirstDay * DayTicks \in Int /\ LookbackDays * DayTicks \in Int
      /\ (LastDay + 1) * DayTicks \in Int /\ HorizonDays * DayTicks \in Int
      /\ LookbackDays * DayTicks >= 0 /\ HorizonDays * DayTicks >= 0
  BY <1>1, <1>2, <1>3
<1> QED BY <1>1, <1>4 DEF ClockInv

\* What previous_fire goes by: the fires of the wall clock since it looks back to.
LEMMA PastFires ==
    ASSUME ClockInv
    PROVE  iter_cron_fires(cron, now - LookbackDays * DayTicks, now) =
              {f \in Fires[cron] : At(f) < now /\ At(f) >= now - LookbackDays * DayTicks}
<1> DEFINE s == now - LookbackDays * DayTicks
<1>1. cron \in Crons /\ now \in Int /\ s \in Int
  BY Reach DEF ClockInv
<1>2. iter_cron_fires(cron, s, now) = {f \in Fires[cron] : s <= At(f) /\ At(f) < now}
  BY <1>1, Reach, IterIsFires
<1>3. \A f \in Fires[cron] : At(f) \in Int
  BY <1>1, FireIsWall, Lengths, Grows DEF At
<1> HIDE DEF s
<1>4. \A f \in Fires[cron] : s <= At(f) <=> At(f) >= s
  BY <1>1, <1>3
<1>5. {f \in Fires[cron] : s <= At(f) /\ At(f) < now} = {f \in Fires[cron] : At(f) < now /\ At(f) >= s}
  BY <1>4
<1> QED BY <1>2, <1>5 DEF s

\* previous_fire (cronutil.py), which scans UTC minutes, finds the latest fire of
\* the wall clock that is over and not older than its look-back: for every cron,
\* every zone with daylight saving time and every instant.
THEOREM PreviousFireIsLatest == Spec => []PreviousIsLatest
<1>1. ClockInv => PreviousIsLatest
  BY PastFires DEF PreviousIsLatest, previous_fire
<1> QED BY <1>1, ClockHolds, PTL

---------------------------------------------------------------------------
(* The next fires. *)

\* Of two wall times a day or more apart the clock shows one: what it leaves out
\* when it is put forward is less than a day.
LEMMA OneIsShown ==
    ASSUME NEW x \in Int, NEW y \in Int, x + DayMinutes <= y
    PROVE  \E t \in {x, y}, offset \in {StdOffset, DstOffset} : astimezone(t - offset) = t
<1>1. /\ DayMinutes \in Int /\ StdOffset \in Int /\ DstOffset \in Int
      /\ DstStart \in Int /\ DstEnd \in Int
      /\ DstOffset - StdOffset \in (1 - DayMinutes)..(DayMinutes - 1)
  BY Lengths, CalendarAssumption
<1>2. ASSUME NEW t \in Int
      PROVE  /\ t - DstOffset \in DstStart..(DstEnd - 1) => astimezone(t - DstOffset) = t
             /\ t - StdOffset \notin DstStart..(DstEnd - 1) => astimezone(t - StdOffset) = t
  BY <1>1 DEF astimezone
<1>3. \E t \in {x, y} : \/ t - DstOffset \in DstStart..(DstEnd - 1)
                        \/ t - StdOffset \notin DstStart..(DstEnd - 1)
  BY <1>1
<1> QED BY <1>2, <1>3

\* Every weekday is among seven days.
LEMMA InAWeek ==
    ASSUME NEW n \in Int, NEW v \in 0..6
    PROVE  \E d \in n..(n + 6) : (d + 1) % 7 = v
<1> DEFINE d == n + ((v - 1 - n) % 7)
<1>1. d \in n..(n + 6)
  OBVIOUS
<1>2. (d + 1) % 7 = v
  OBVIOUS
<1> QED BY <1>1, <1>2

\* A cron that names two weekdays has a fire in every nine days.
LEMMA FireAhead ==
    ASSUME ClockInv, OnTwoDays(cron), HorizonDays >= 9
    PROVE  \E f \in Fires[cron] : now + MinuteLen <= At(f) /\ At(f) < now + HorizonDays * DayTicks
<1> DEFINE low == FirstMinute(now + MinuteLen)
           high == low + 9 * DayMinutes - 2
           M == DayMinutes
<1>0. /\ MinuteLen \in Nat \ {0} /\ M \in Nat \ {0} /\ DayTicks = MinuteLen * M
      /\ cron \in Crons /\ now \in Int /\ HorizonDays \in Nat /\ now + MinuteLen \in Int
      /\ StdOffset \in (1 - M)..(M - 1) /\ DstOffset \in (1 - M)..(M - 1)
      /\ DstOffset - StdOffset \in (1 - M)..(M - 1)
  BY Lengths, CalendarAssumption DEF ClockInv
<1>1. low \in Int /\ \A u \in Int : low <= u <=> now + MinuteLen <= At(u)
  BY <1>0, FirstMinuteFacts
<1> HIDE DEF low, M
<1>2. ASSUME NEW u \in low..high
      PROVE  u \in Int /\ now + MinuteLen <= At(u) /\ At(u) < now + HorizonDays * DayTicks
  <2>1. u \in Int /\ now + MinuteLen <= At(u)
    BY <1>0, <1>1
  <2>2. ~(now + MinuteLen <= At(low - 1))
    BY <1>1
  <2>3. At(low - 1) = MinuteLen * low - MinuteLen /\ MinuteLen * low \in Int
    <3>1. \A a \in Int : (a - 1) * MinuteLen = MinuteLen * a - MinuteLen /\ MinuteLen * a \in Int
      BY <1>0
    <3> QED BY <1>1, <3>1 DEF At
  <2>4. At(u) = MinuteLen * u /\ MinuteLen * u <= MinuteLen * high /\ MinuteLen * u \in Int
    <3>1. high \in Int /\ u <= high
      BY <1>0, <1>1 DEF M
    <3> QED BY <1>0, <2>1, <3>1, Grows DEF At
  <2>5. MinuteLen * high = MinuteLen * low + 9 * DayTicks - 2 * MinuteLen
    <3>1. \A a, b \in Int : MinuteLen * (a + 9 * b - 2) = MinuteLen * a + 9 * (MinuteLen * b) - 2 * MinuteLen
      BY <1>0
    <3> QED BY <1>0, <1>1, <3>1 DEF M
  <2>6. 9 * DayTicks <= HorizonDays * DayTicks /\ DayTicks \in Nat /\ HorizonDays * DayTicks \in Int
    <3>1. DayTicks \in Nat \ {0}
      BY Lengths
    <3>2. \A n \in Nat : n * DayTicks = DayTicks * n
      BY <3>1
    <3>3. DayTicks * 9 <= DayTicks * HorizonDays /\ DayTicks * HorizonDays \in Int
      BY <1>0, <3>1, Grows
    <3> QED BY <1>0, <3>1, <3>2, <3>3
  <2> HIDE DEF high
  <2> QED BY <1>0, <1>1, <2>1, <2>2, <2>3, <2>4, <2>5, <2>6
<1>3. PICK k \in TimesOfDay(cron), v \in 0..6, w \in 0..6 :
         v # w /\ Allowed(cron.dow, v, 0, 6) /\ Allowed(cron.dow, w, 0, 6)
  BY DEF OnTwoDays
<1>4. PICK h \in 0..(DayHours - 1), m \in 0..(HourLen - 1) : k = h * HourLen + m
  BY DEF TimesOfDay
<1> DEFINE top == IF StdOffset < DstOffset THEN DstOffset ELSE StdOffset
           n == date(low + top) + 1
<1>5. top \in Int /\ \A offset \in {StdOffset, DstOffset} : offset <= top /\ top - offset <= M - 1
  BY <1>0
<1>6. n \in Int /\ low + top < M * n /\ M * n <= low + top + M /\ M * n \in Int
  <2>1. low + top \in Int
    BY <1>1, <1>5
  <2> DEFINE e == date(low + top)
             r == (low + top) % M
  <2>2. e \in Int /\ r \in 0..(M - 1) /\ low + top = M * e + r
    BY <1>0, <2>1, Division DEF date, M
  <2> HIDE DEF e, r
  <2>3. M * (e + 1) = M * e + M /\ M * e \in Int
    BY <1>0, <2>2, Grows
  <2>4. n = e + 1
    BY DEF e
  <2> HIDE DEF n
  <2> QED BY <1>0, <2>1, <2>2, <2>3, <2>4
<1> HIDE DEF n
<1>7. ASSUME NEW d \in n..(n + 6)
      PROVE  /\ d * M + k \in Int /\ d \in Int /\ date(d * M + k) = d /\ k \in 0..(M - 1)
             /\ \A offset \in {StdOffset, DstOffset} : (d * M + k) - offset \in low..high
  <2>1. d \in Int
    BY <1>6
  <2>2. d * M + k \in Int /\ k \in 0..(M - 1) /\ date(d * M + k) = d
    BY <1>4, <2>1, PartsOf DEF M
  <2>3. d * M = M * d /\ M * n <= M * d /\ M * d <= M * (n + 6) /\ M * d \in Int
    <3>1. n <= d /\ d <= n + 6 /\ n + 6 \in Int
      BY <1>6
    <3> QED BY <1>0, <1>6, <2>1, <3>1, Grows
  <2>4. M * (n + 6) = M * n + 6 * M
    <3>1. \A a \in Int : M * (a + 6) = M * a + 6 * M
      BY <1>0
    <3> QED BY <1>6, <3>1
  <2>5. \A offset \in {StdOffset, DstOffset} :
           low <= (d * M + k) - offset /\ (d * M + k) - offset <= low + 9 * M - 2
    BY <1>0, <1>1, <1>5, <1>6, <2>2, <2>3, <2>4
  <2>6. high = low + 9 * M - 2
    BY DEF M
  <2>7. StdOffset \in Int /\ DstOffset \in Int /\ high \in Int
    BY <1>0, <1>1, <2>6
  <2> HIDE DEF high
  <2>8. \A offset \in {StdOffset, DstOffset} : (d * M + k) - offset \in low..high
    <3> DEFINE t == d * M + k
    <3>1. t \in Int /\ \A offset \in {StdOffset, DstOffset} : low <= t - offset /\ t - offset <= high
      BY <2>2, <2>5, <2>6
    <3> HIDE DEF t
    <3>2. \A offset \in {StdOffset, DstOffset} : t - offset \in low..high
      BY <1>1, <2>7, <3>1
    <3> QED BY <3>2 DEF t
  <2> QED BY <2>1, <2>2, <2>8
<1>8. PICK d \in n..(n + 6), e \in n..(n + 6) : (d + 1) % 7 = v /\ (e + 1) % 7 = w
  BY <1>6, InAWeek
<1>9. PICK t \in {d * M + k, e * M + k}, offset \in {StdOffset, DstOffset} : astimezone(t - offset) = t
  <2>1. d \in Int /\ e \in Int /\ d # e
    BY <1>3, <1>6, <1>8
  <2>2. /\ d * M + k \in Int /\ e * M + k \in Int /\ d * M = M * d /\ e * M = M * e
        /\ d < e => M * d + M <= M * e
        /\ e < d => M * e + M <= M * d
        /\ M * d \in Int /\ M * e \in Int /\ k \in Int
    <3>1. d * M + k \in Int /\ e * M + k \in Int /\ k \in Int
      BY <1>0, <1>7
    <3> QED BY <1>0, <2>1, <3>1, Grows
  <2>3. d * M + k + M <= e * M + k \/ e * M + k + M <= d * M + k
    BY <1>0, <2>1, <2>2
  <2> QED BY <2>2, <2>3, OneIsShown DEF M
<1>10. PICK a \in {d, e} : t = a * M + k
  OBVIOUS
<1>11. /\ a \in n..(n + 6) /\ t \in Int /\ date(t) = a /\ Allowed(cron.dow, (a + 1) % 7, 0, 6)
       /\ t - offset \in low..high
  BY <1>3, <1>7, <1>8, <1>10
<1>12. /\ t - offset \in Int /\ now + MinuteLen <= At(t - offset)
       /\ At(t - offset) < now + HorizonDays * DayTicks
  BY <1>2, <1>11
<1>13. t - offset \in Fires[cron]
  <2>1. date(t) \in Days
    <3> DEFINE u == t - offset
               A == (FirstDay - LookbackDays) * M
               B == (LastDay + 1 + HorizonDays) * M
    <3>1. /\ (FirstDay - LookbackDays) * DayTicks <= now + MinuteLen
          /\ now + HorizonDays * DayTicks <= (LastDay + 1 + HorizonDays) * DayTicks
          /\ now + HorizonDays * DayTicks \in Int
      BY Reach
    <3>2. \A x \in Int : x * DayTicks = MinuteLen * (x * M) /\ x * M \in Int /\ MinuteLen * (x * M) \in Int
      <4>1. \A x, y, z \in Int : x * (y * z) = y * (x * z) /\ x * z \in Int
        OBVIOUS
      <4>2. MinuteLen \in Int /\ M \in Int
        BY <1>0
      <4> QED BY <1>0, <4>1, <4>2
    <3>3. FirstDay - LookbackDays \in Int /\ LastDay + 1 + HorizonDays \in Int
      BY SlotAssumption, CalendarAssumption
    <3>4. /\ A \in Int /\ B \in Int /\ MinuteLen * A \in Int /\ MinuteLen * B \in Int
          /\ MinuteLen * A <= now + MinuteLen /\ now + HorizonDays * DayTicks <= MinuteLen * B
      BY <3>1, <3>2, <3>3
    <3>5. /\ At(u) = MinuteLen * u /\ MinuteLen * u \in Int
          /\ u < A => MinuteLen * u + MinuteLen <= MinuteLen * A
          /\ B <= u => MinuteLen * B <= MinuteLen * u
      BY <1>0, <1>12, <3>4, Grows DEF At
    <3> HIDE DEF A, B, u
    <3>6. A <= u /\ u < B
      <4>1. u \in Int /\ now + MinuteLen <= At(u) /\ At(u) < now + HorizonDays * DayTicks
        BY <1>12 DEF u
      <4> QED BY <1>0, <3>1, <3>4, <3>5, <4>1
    <3>7. date(astimezone(u)) \in Days
      BY <1>12, <3>6, InReach DEF A, B, u, M
    <3> QED BY <1>9, <3>7 DEF u
  <2>2. t \in Walls(cron)
    BY <1>10, <1>11, <2>1 DEF Walls, M
  <2> QED BY <1>0, <1>9, <1>12, <2>2, FireIsWall
<1> QED BY <1>12, <1>13

\* The first and the last of a set of fires.
LEMMA Ends ==
    ASSUME NEW a \in Int, NEW b \in Int, NEW S \in SUBSET (a..b), S # {}
    PROVE  /\ Max(S) \in S /\ \A x \in S : x <= Max(S)
           /\ \E y \in S : \A x \in S : y <= x
<1> DEFINE R == OpToRel(<, Nat)
           T == {b - x : x \in S}
           V == {x - a : x \in S}
<1>1. T \in SUBSET Nat /\ T # {} /\ V \in SUBSET Nat /\ V # {}
  <2>1. \A x \in S : b - x \in Nat /\ x - a \in Nat
    OBVIOUS
  <2> QED BY <2>1
<1>2. \A n \in Nat, i \in Nat : i < n => <<i, n>> \in R
  BY DEF OpToRel
<1> HIDE DEF R
<1>3. PICK n \in T : \A y \in T : ~(<<y, n>> \in R)
  BY <1>1, NatLessThanWellFounded, WFMin DEF R
<1>4. PICK i \in V : \A y \in V : ~(<<y, i>> \in R)
  BY <1>1, NatLessThanWellFounded, WFMin DEF R
<1>5. PICK m \in S : n = b - m
  OBVIOUS
<1>6. PICK l \in S : i = l - a
  OBVIOUS
<1>7. \A x \in S : b - x \in T /\ b - x \in Nat /\ n \in Nat /\ x - a \in V /\ x - a \in Nat /\ i \in Nat
  BY <1>1
<1>8. \A x \in S : ~(b - x < n) /\ ~(x - a < i)
  BY <1>2, <1>3, <1>4, <1>7
<1>9. \A x \in S : x <= m /\ m >= x /\ l <= x
  BY <1>5, <1>6, <1>8
<1>10. Max(S) \in S /\ \A x \in S : Max(S) >= x
  BY <1>9 DEF Max
<1>11. \A x \in S : x <= Max(S)
  BY <1>10
<1> QED BY <1>9, <1>10, <1>11

\* next_fires (cronutil.py) shows fires of the wall clock, at least one, and
\* leaves none out between them: for every zone and every cron with two weekdays,
\* which the horizon of nine days or more is sure to meet.
THEOREM NextFiresInView ==
    ASSUME \A c \in Crons : OnTwoDays(c), HorizonDays >= 9, Shown >= 1
    PROVE  Spec => []NextInView
<1>1. ASSUME ClockInv PROVE NextInView
  <2> DEFINE s == now + MinuteLen
             e == now + HorizonDays * DayTicks
             fires == iter_cron_fires(cron, s, e)
             Before(f) == {g \in fires : g < f}
             shown == next_fires(cron, now, Shown)
  <2>1. cron \in Crons /\ now \in Int /\ s \in Int /\ e \in Int /\ Shown \in Nat
    BY <1>1, Reach, SlotAssumption DEF ClockInv
  <2>2. fires = {f \in Fires[cron] : s <= At(f) /\ At(f) < e}
    <3>1. /\ (FirstDay - LookbackDays) * DayTicks <= s
          /\ e <= (LastDay + 1 + HorizonDays) * DayTicks
      BY <1>1, Reach
    <3> QED BY <2>1, <3>1, IterIsFires
  <2>3. shown = {f \in fires : Cardinality(Before(f)) < Shown}
    BY DEF next_fires
  <2>4. PICK a \in Int, b \in Int : fires \subseteq a..b
    <3>1. FirstMinute(s) \in Int /\ FirstMinute(e) - 1 \in Int
      <4>1. FirstMinute(s) \in Int /\ FirstMinute(e) \in Int
        BY <2>1, FirstMinuteFacts
      <4> QED BY <4>1
    <3>2. fires \subseteq FirstMinute(s)..(FirstMinute(e) - 1)
      BY DEF iter_cron_fires
    <3> QED BY <3>1, <3>2
  <2>5. fires # {}
    BY <1>1, <2>1, <2>2, FireAhead
  <2> HIDE DEF fires, shown, s, e
  <2>6. IsFiniteSet(fires) /\ \A f : IsFiniteSet(Before(f))
    <3>1. IsFiniteSet(a..b)
      BY FS_Interval
    <3>2. IsFiniteSet(fires)
      BY <2>4, <3>1, FS_Subset
    <3> QED BY <3>2, FS_Subset
  <2>7. shown # {} /\ shown \subseteq fires
    <3>1. PICK y \in fires : \A x \in fires : y <= x
      BY <2>4, <2>5, Ends
    <3>2. Before(y) = {}
      <4>1. \A x \in fires : x \in Int /\ y \in Int /\ ~(x < y)
        BY <2>4, <3>1
      <4> QED BY <4>1
    <3>3. Cardinality(Before(y)) = 0
      BY <3>2, FS_EmptySet
    <3> QED BY <2>1, <2>3, <3>3
  <2>8. Max(shown) \in shown
    BY <2>4, <2>7, Ends
  <2>9. ASSUME NEW f \in Fires[cron], At(f) > now, f <= Max(shown), ~(At(f) < now + MinuteLen)
        PROVE  f \in shown
    <3> DEFINE l == Max(shown)
    <3>1. f \in Int /\ At(f) \in Int /\ l \in fires /\ l \in Int /\ At(l) \in Int
      <4>1. f \in Int /\ l \in fires /\ l \in Int
        BY <2>1, <2>2, <2>7, <2>8, FireIsWall
      <4> QED BY <4>1, Lengths, Grows DEF At
    <3>2. At(f) <= At(l) /\ At(l) < e
      <4>1. f <= l /\ At(l) < e
        BY <2>2, <2>9, <3>1
      <4>2. At(f) = MinuteLen * f /\ At(l) = MinuteLen * l
        BY <3>1, Lengths, Grows DEF At
      <4>3. MinuteLen * f <= MinuteLen * l
        BY <3>1, <4>1, Lengths, Grows
      <4> QED BY <4>1, <4>2, <4>3
    <3>3. s <= At(f) /\ At(f) < e
      <4>1. s <= At(f)
        BY <2>1, <2>9, <3>1 DEF s
      <4> HIDE DEF l
      <4> QED BY <2>1, <3>1, <3>2, <4>1
    <3>4. f \in fires
      BY <2>2, <3>3
    <3>5. Before(f) \subseteq Before(l)
      <4>1. \A g \in fires : g \in Int
        BY <2>4
      <4> QED BY <2>9, <3>1, <4>1
    <3>6. Cardinality(Before(f)) <= Cardinality(Before(l)) /\ Cardinality(Before(l)) < Shown
      BY <2>3, <2>6, <2>8, <3>5, FS_Subset
    <3>7. Cardinality(Before(f)) \in Nat /\ Cardinality(Before(l)) \in Nat
      BY <2>6, FS_CardinalityType
    <3>8. Cardinality(Before(f)) < Shown
      <4> HIDE DEF Before
      <4> QED BY <2>1, <3>6, <3>7
    <3> QED BY <2>3, <3>4, <3>8
  <2>10. shown \subseteq Fires[cron]
    BY <2>2, <2>7
  <2> QED BY <2>7, <2>9, <2>10 DEF NextInView, shown
<1> QED BY <1>1, ClockHolds, PTL

---------------------------------------------------------------------------
(* The day of a job. *)

\* What a fire is made of: its local day and a time the cron names.
LEMMA FireDay ==
    ASSUME NEW c \in Crons, NEW f \in Fires[c]
    PROVE  /\ f \in Int /\ At(f) \in Int /\ At(f) = MinuteLen * f /\ local_day(f) \in Int
           /\ \E k \in TimesOfDay(c) : k \in Int /\ astimezone(f) = local_day(f) * DayMinutes + k
<1>1. f \in Int /\ astimezone(f) \in Walls(c)
  BY FireIsWall
<1>2. At(f) \in Int /\ At(f) = MinuteLen * f
  BY <1>1, Lengths, Grows DEF At
<1>3. PICK d \in Days, k \in TimesOfDay(c) : astimezone(f) = d * DayMinutes + k
  BY <1>1 DEF Walls
<1>4. PICK h \in 0..(DayHours - 1), m \in 0..(HourLen - 1) : k = h * HourLen + m
  BY DEF TimesOfDay
<1>5. d \in Int
  BY SlotAssumption, CalendarAssumption DEF Days
<1>6. k \in 0..(DayMinutes - 1) /\ date(astimezone(f)) = d
  BY <1>3, <1>4, <1>5, PartsOf
<1>7. k \in Int
  BY <1>6
<1> QED BY <1>1, <1>2, <1>3, <1>5, <1>6, <1>7 DEF local_day

\* The trigger's UTC date (daily.py) is the local day of its fire for as long as
\* the trigger may be late.
LEMMA SameDay ==
    ASSUME ClockInv, BeforeMidnight(cron), NEW f \in Fires[cron],
           At(f) <= now, now <= At(f) + MaxLate
    PROVE  UtcDay = local_day(f)
<1> DEFINE M == DayMinutes
           d == local_day(f)
           q == now \div MinuteLen
           r == now % MinuteLen
<1>0. /\ MinuteLen \in Nat \ {0} /\ M \in Nat \ {0} /\ DayTicks = MinuteLen * M
      /\ cron \in Crons /\ now \in Int /\ MaxLate \in Nat
      /\ StdOffset \in Int /\ DstOffset \in Int
  BY Lengths, CalendarAssumption, SlotAssumption DEF ClockInv
<1>1. /\ f \in Int /\ At(f) \in Int /\ At(f) = MinuteLen * f /\ d \in Int
      /\ \E k \in TimesOfDay(cron) : k \in Int /\ astimezone(f) = d * M + k
  BY <1>0, FireDay
<1>2. q \in Int /\ r \in 0..(MinuteLen - 1) /\ now = MinuteLen * q + r
  BY <1>0, Division
<1> HIDE DEF M, d, q, r
<1>3. PICK k \in TimesOfDay(cron) : k \in Int /\ astimezone(f) = d * M + k
  BY <1>1
<1>4. PICK offset \in {StdOffset, DstOffset} : astimezone(f) = f + offset
  BY <1>1, LocalTime
<1> DEFINE j == k - offset
<1>5. j \in Int /\ j >= 0 /\ At(j) + MaxLate < DayTicks /\ At(j) = MinuteLen * j /\ MinuteLen * j \in Int
  <2>1. j \in Int
    BY <1>0, <1>3
  <2>2. j >= 0 /\ At(j) + MaxLate < DayTicks
    BY DEF BeforeMidnight
  <2>3. At(j) = MinuteLen * j /\ MinuteLen * j \in Int
    BY <1>0, <2>1, Grows DEF At
  <2> QED BY <2>1, <2>2, <2>3
<1>6. f = M * d + j /\ M * d \in Int
  <2>1. d * M = M * d /\ M * d \in Int
    BY <1>0, <1>1, Grows
  <2>2. offset \in Int
    BY <1>0
  <2>3. \A x \in Int : x + k = f + offset => f = x + (k - offset)
    BY <1>1, <1>3, <2>2
  <2> QED BY <1>3, <1>4, <2>1, <2>3
<1> HIDE DEF j
<1>7. At(f) = MinuteLen * (M * d) + MinuteLen * j /\ MinuteLen * (M * d) \in Int /\ MinuteLen * j >= 0
  <2>1. MinuteLen * (M * d + j) = MinuteLen * (M * d) + MinuteLen * j /\ MinuteLen * (M * d) \in Int
    BY <1>0, <1>5, <1>6, Grows
  <2>2. MinuteLen * j >= 0
    BY <1>0, <1>5
  <2> QED BY <1>1, <1>6, <2>1, <2>2
<1>8. MinuteLen * (M * d + M) = MinuteLen * (M * d) + DayTicks /\ DayTicks \in Int
  BY <1>0, <1>6, Grows
<1>9. MinuteLen * (M * d) <= now /\ now < MinuteLen * (M * d + M)
  BY <1>0, <1>1, <1>5, <1>7, <1>8
<1>10. M * d <= q /\ q < M * d + M
  <2>1. /\ q < M * d => MinuteLen * q + MinuteLen <= MinuteLen * (M * d)
        /\ M * d + M <= q => MinuteLen * (M * d + M) <= MinuteLen * q
        /\ MinuteLen * q \in Int
    BY <1>0, <1>2, <1>6, Grows
  <2>2. MinuteLen * (M * d + M) \in Int
    BY <1>7, <1>8
  <2> QED BY <1>0, <1>2, <1>6, <1>7, <1>9, <2>1, <2>2
<1>11. q - M * d \in 0..(M - 1) /\ M * d + (q - M * d) = q
  BY <1>0, <1>2, <1>6, <1>10
<1>12. q \div M = d
  <2> DEFINE i == q - M * d
  <2>1. i \in 0..(M - 1) /\ M * d + i = q
    BY <1>11
  <2> HIDE DEF i
  <2>2. (M * d + i) \div M = d
    BY <1>0, <1>1, <2>1, DivisionUnique
  <2> QED BY <2>1, <2>2
<1> QED BY <1>12 DEF UtcDay, date, M, d, q

\* The catch-up (catchup.py) works with fires of the wall clock.
LEMMA MissedAreFires ==
    ASSUME ClockInv
    PROVE  missed_slots(now) \subseteq Fires[cron]
<1> DEFINE s == now - LookbackDays * DayTicks
           fires == iter_cron_fires(cron, s, now)
<1>1. fires \subseteq Fires[cron]
  BY PastFires
<1>2. now \in Int /\ s \in Int
  BY Reach DEF ClockInv
<1>3. FirstMinute(s) \in Int /\ FirstMinute(now) \in Int
  BY <1>2, FirstMinuteFacts
<1>4. fires \subseteq FirstMinute(s)..(FirstMinute(now) - 1) /\ FirstMinute(now) - 1 \in Int
  BY <1>3 DEF iter_cron_fires
<1>5. fires # {} => Max(fires) \in fires
  BY <1>3, <1>4, Ends
<1>6. previous_fire(cron, now) \subseteq fires
  BY <1>5 DEF previous_fire
<1> QED BY <1>1, <1>6 DEF missed_slots

\* The jobs carry the local day of their fire, whoever enqueued them, and a fire
\* that waits for its trigger is not later than the trigger may be.
SlotInv ==
    /\ ClockInv
    /\ \A r \in active : r.fire \in Fires[cron] /\ r = [as_of |-> local_day(r.fire), fire |-> r.fire]
    /\ \A f \in due : f \in Fires[cron] /\ At(f) <= now /\ now <= At(f) + MaxLate

\* enqueue_slot with the local day of a fire keeps the days of the jobs right.
LEMMA EnqueueKeepsDays ==
    ASSUME SlotInv, NEW f \in Fires[cron], enqueue_slot(local_day(f), f)
    PROVE  \A r \in active' : r.fire \in Fires[cron] /\ r = [as_of |-> local_day(r.fire), fire |-> r.fire]
<1>1. active' \subseteq active \cup {[as_of |-> local_day(f), fire |-> f]}
  BY DEF enqueue_slot
<1> QED BY <1>1 DEF SlotInv

LEMMA SlotHolds ==
    ASSUME \A c \in Crons : BeforeMidnight(c)
    PROVE  Spec => []SlotInv
<1>1. Init => SlotInv
  BY ClockStarts DEF Init, SlotInv
<1>2. SlotInv /\ ClockInv' /\ [Next]_vars => SlotInv'
  <2> SUFFICES ASSUME SlotInv, ClockInv', [Next]_vars PROVE SlotInv'
    OBVIOUS
  <2> DEFINE Named(r) == r.fire \in Fires[cron] /\ r = [as_of |-> local_day(r.fire), fire |-> r.fire]
  <2>0. ClockInv /\ cron \in Crons /\ now \in Int /\ MaxLate \in Nat
    BY SlotAssumption DEF SlotInv, ClockInv
  <2>1. CASE UNCHANGED vars
    BY <2>1 DEF vars, SlotInv
  <2>2. CASE Trigger
    <3>1. PICK f \in due : enqueue_slot(UtcDay, f)
      BY <2>2 DEF Trigger
    <3>2. f \in Fires[cron] /\ UtcDay = local_day(f)
      BY <2>0, SameDay DEF SlotInv
    <3>3. enqueue_slot(local_day(f), f)
      BY <3>1, <3>2
    <3>4. \A r \in active' : Named(r)
      BY <3>2, <3>3, EnqueueKeepsDays
    <3> QED BY <2>2, <3>4 DEF Trigger, SlotInv
  <2>3. CASE TriggerLost
    BY <2>3 DEF TriggerLost, SlotInv
  <2>4. CASE CatchupPass
    <3>1. PICK f \in missed_slots(now) : enqueue_slot(local_day(f), f)
      BY <2>4 DEF CatchupPass
    <3>2. f \in Fires[cron]
      BY <2>0, <3>1, MissedAreFires
    <3>3. \A r \in active' : Named(r)
      BY <3>1, <3>2, EnqueueKeepsDays
    <3> QED BY <2>4, <3>3 DEF CatchupPass, SlotInv
  <2>5. CASE Settle
    BY <2>5 DEF Settle, SlotInv
  <2>6. CASE Tick
    <3>1. /\ cron' = cron /\ active' = active /\ now' \in {now, now + 1}
          /\ due' = due \cup {f \in Fires[cron] : now < At(f) /\ At(f) <= now'}
          /\ \A f \in due : now - At(f) < MaxLate
      BY <2>6 DEF Tick
    <3>2. \A f \in Fires[cron] : At(f) \in Int
      BY <2>0, FireDay
    <3>3. ASSUME NEW f \in due' PROVE f \in Fires[cron] /\ At(f) <= now' /\ now' <= At(f) + MaxLate
      <4>1. CASE f \in due
        <5>1. f \in Fires[cron] /\ At(f) <= now /\ now <= At(f) + MaxLate /\ now - At(f) < MaxLate
          BY <3>1, <4>1 DEF SlotInv
        <5> QED BY <2>0, <3>1, <3>2, <5>1
      <4>2. CASE f \in Fires[cron] /\ now < At(f) /\ At(f) <= now'
        BY <2>0, <3>1, <3>2, <4>2
      <4> QED BY <3>1, <4>1, <4>2
    <3> QED BY <3>1, <3>3 DEF SlotInv
  <2> QED BY <2>1, <2>2, <2>3, <2>4, <2>5, <2>6 DEF Next
<1> QED BY <1>1, <1>2, ClockHolds, PTL DEF Spec

\* One fire never has two active jobs: the trigger (daily.py), which asks the UTC
\* clock when it runs, and the catch-up (catchup.py), which asks the local calendar
\* of the fire, name the job after the same day.  For every cron whose UTC date is
\* still the local one when the trigger is as late as it may be.
THEOREM FireHasOneJob ==
    ASSUME \A c \in Crons : BeforeMidnight(c)
    PROVE  Spec => []OneJobPerFire
<1>1. SlotInv => OneJobPerFire
  <2> SUFFICES ASSUME SlotInv, NEW r \in active, NEW s \in active, r.fire = s.fire PROVE r = s
    BY DEF OneJobPerFire
  <2>1. /\ r = [as_of |-> local_day(r.fire), fire |-> r.fire]
        /\ s = [as_of |-> local_day(s.fire), fire |-> s.fire]
    BY DEF SlotInv
  <2> QED BY <2>1
<1> QED BY <1>1, SlotHolds, PTL

\* A cron with one time of day, which the clock shows once, has one fire on a day.
LEMMA OneFireOnADay ==
    ASSUME NEW c \in Crons, OncePerDay(c), NEW f \in Fires[c], NEW g \in Fires[c],
           local_day(f) = local_day(g)
    PROVE  f = g
<1>1. PICK k \in TimesOfDay(c) : astimezone(f) = local_day(f) * DayMinutes + k
  BY FireDay
<1>2. PICK l \in TimesOfDay(c) : astimezone(g) = local_day(g) * DayMinutes + l
  BY FireDay
<1>3. k = l
  BY DEF OncePerDay
<1>4. astimezone(f) = astimezone(g)
  BY <1>1, <1>2, <1>3
<1> QED BY <1>4 DEF OncePerDay

\* A job is deduplicated only against one for the same fire: neither the trigger
\* (daily.py) nor the catch-up (catchup.py) finds its day taken by a job that hangs
\* over from another fire.  For crons with one fire on a day, whose UTC date is
\* still the local one when the trigger is as late as it may be.
THEOREM DedupedByFire ==
    ASSUME \A c \in Crons : BeforeMidnight(c) /\ OncePerDay(c)
    PROVE  Spec => []DedupedByOwnFire
<1>1. SlotInv => DedupedByOwnFire
  <2> SUFFICES ASSUME SlotInv, NEW r \in active
               PROVE  /\ \A f \in due : r.as_of = UtcDay => r.fire = f
                      /\ \A f \in missed_slots(now) : r.as_of = local_day(f) => r.fire = f
    BY DEF DedupedByOwnFire
  <2>0. ClockInv /\ cron \in Crons /\ BeforeMidnight(cron) /\ OncePerDay(cron)
    BY DEF SlotInv, ClockInv
  <2>1. r.fire \in Fires[cron] /\ r.as_of = local_day(r.fire)
    <3>1. r.fire \in Fires[cron] /\ r = [as_of |-> local_day(r.fire), fire |-> r.fire]
      BY DEF SlotInv
    <3> QED BY <3>1
  <2>2. ASSUME NEW f \in due, r.as_of = UtcDay PROVE r.fire = f
    <3>1. f \in Fires[cron] /\ At(f) <= now /\ now <= At(f) + MaxLate
      BY DEF SlotInv
    <3>2. UtcDay = local_day(f)
      BY <2>0, <3>1, SameDay
    <3> QED BY <2>0, <2>1, <2>2, <3>1, <3>2, OneFireOnADay
  <2>3. ASSUME NEW f \in missed_slots(now), r.as_of = local_day(f) PROVE r.fire = f
    <3>1. f \in Fires[cron]
      BY <2>0, MissedAreFires
    <3> QED BY <2>0, <2>1, <2>3, <3>1, OneFireOnADay
  <2> QED BY <2>2, <2>3
<1>2. \A c \in Crons : BeforeMidnight(c)
  OBVIOUS
<1> QED BY <1>1, <1>2, SlotHolds, PTL
=============================================================================
