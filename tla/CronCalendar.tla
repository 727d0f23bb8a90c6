---------------------------- MODULE CronCalendar ----------------------------
(***************************************************************************)
(* scheduler/cronutil.py: the five-field crons of schedule.yaml, matched   *)
(* in a time zone and planned as UTC instants.                             *)
(*                                                                         *)
(* An instant is a number of ticks since a Monday, 00:00 UTC, MinuteLen of *)
(* them to a minute; a fire is a UTC minute.  An hour has HourLen minutes  *)
(* and a day DayHours hours (60 and 24), so that a scan of fourteen days   *)
(* stays small; weeks have seven days.  The zone is one with daylight      *)
(* saving time between two UTC minutes.                                    *)
(***************************************************************************)
EXTENDS Integers, FiniteSets, FiniteSetsExt

CONSTANTS
    MinuteLen,     \* ticks in a minute: where in it a reader asks
    HourLen,       \* minutes in an hour
    DayHours,      \* hours in a day
    StdOffset,     \* the zone's offset from UTC, in minutes
    DstOffset,     \* its offset in summer
    DstStart,      \* the UTC minutes between which it is summer
    DstEnd,
    LookbackDays,  \* lookback_days of previous_fire
    HorizonDays    \* horizon_days of next_fires

DayMinutes == DayHours * HourLen
DayTicks == DayMinutes * MinuteLen

\* As with Python's tzinfo an offset is less than a day, and so is a change of it.
ASSUME CalendarAssumption ==
    /\ {MinuteLen, HourLen, DayHours} \subseteq Nat \ {0}
    /\ {DstStart, DstEnd} \subseteq Int
    /\ {StdOffset, DstOffset, DstOffset - StdOffset} \subseteq (1 - DayMinutes)..(DayMinutes - 1)
    /\ {LookbackDays, HorizonDays} \subseteq Nat

\* The first tick of a minute.
At(minute) == minute * MinuteLen

---------------------------------------------------------------------------
(* The zone. *)

astimezone(u) == u + (IF u \in DstStart..(DstEnd - 1) THEN DstOffset ELSE StdOffset)

date(t) == t \div DayMinutes
hour_of(t) == (t \div HourLen) % DayHours
minute_of(t) == t % HourLen

\* Monday is 0 in Python, Sunday is 0 in a cron.
weekday(t) == date(t) % 7

cron_dow(t) == IF weekday(t) = 6 THEN 0 ELSE weekday(t) + 1

---------------------------------------------------------------------------
(* A field is a set of parts, {} for "*"; a part is a step, a range or one *)
(* value.                                                                  *)

Step(n) == [step |-> n, from |-> 0, to |-> 0]
From(a, b) == [step |-> 0, from |-> a, to |-> b]
Value(a) == From(a, a)

_parse_part(part, minimum, maximum) ==
    IF part.step > 0 THEN {v \in minimum..maximum : v % part.step = 0} ELSE part.from..part.to

_parse_field(field, minimum, maximum) ==
    UNION {_parse_part(part, minimum, maximum) : part \in field}

\* Day of month and month are split off and not looked at.
parse_cron(cron) ==
    [minutes |-> _parse_field(cron.minute, 0, HourLen - 1),
     hours   |-> _parse_field(cron.hour, 0, DayHours - 1),
     dows    |-> _parse_field(cron.dow, 0, 6),
     any     |-> {f \in {"minute", "hour", "dow"} : cron[f] = {}}]

_matches(t, fields) ==
    /\ "minute" \in fields.any \/ minute_of(t) \in fields.minutes
    /\ "hour" \in fields.any \/ hour_of(t) \in fields.hours
    /\ "dow" \in fields.any \/ cron_dow(t) \in fields.dows

---------------------------------------------------------------------------
(* Fires.  start and end are instants, the answer is a set of UTC minutes. *)

\* The whole minute at an instant, or the next one.
FirstMinute(start) == (start + MinuteLen - 1) \div MinuteLen

\* Mutant: the fire of this instant is in the past.
iter_cron_fires_Inclusive(cron, start, end) ==
    LET fields == parse_cron(cron)
    IN  {u \in FirstMinute(start)..(end \div MinuteLen) : _matches(astimezone(u), fields)}

iter_cron_fires(cron, start, end) ==
    LET fields == parse_cron(cron)
    IN  {u \in FirstMinute(start)..(FirstMinute(end) - 1) : _matches(astimezone(u), fields)}

\* Mutant: from the next whole minute but one.
next_fires_Late(cron, after, count) ==
    LET fires == iter_cron_fires(cron, after + 2 * MinuteLen, after + HorizonDays * DayTicks)
    IN  {f \in fires : Cardinality({g \in fires : g < f}) < count}

next_fires(cron, after, count) ==
    LET fires == iter_cron_fires(cron, after + MinuteLen, after + HorizonDays * DayTicks)
    IN  {f \in fires : Cardinality({g \in fires : g < f}) < count}

\* The last fire before an instant, as the set of it ({} for None).
previous_fire(cron, before) ==
    LET fires == iter_cron_fires(cron, before - LookbackDays * DayTicks, before)
    IN  IF fires = {} THEN {} ELSE {Max(fires)}
=============================================================================
