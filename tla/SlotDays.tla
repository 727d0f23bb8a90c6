------------------------------ MODULE SlotDays ------------------------------
(***************************************************************************)
(* The calendar in use: the days a slot's jobs are named after.  The       *)
(* trigger (Dagster, then scheduler/daily.py) fires on the wall clock and  *)
(* enqueues under the UTC date; the worker's catch-up (worker/catchup.py)  *)
(* works out the last planned fire and enqueues under its local day.  The  *)
(* two are the same job only if they come to the same day.                 *)
(***************************************************************************)
EXTENDS CronCalendar

CONSTANTS
    Crons,     \* the crons a slot may have: one fire on each of its days
    FirstDay,  \* bound: the days the clock runs through
    LastDay,
    Grace,     \* catchup_grace_sec, in ticks
    PassEvery, \* ticks between two passes of the catch-up
    MaxOpen,   \* bound: how long a job stays active after its fire, in ticks
    MaxLate,   \* how late the trigger may be, in ticks
    Shown      \* how many fires a reader asks next_fires for

ASSUME SlotAssumption ==
    /\ {FirstDay, LastDay, Grace, MaxOpen, MaxLate, Shown} \subseteq Nat
    /\ PassEvery \in Nat \ {0}
    /\ FirstDay <= LastDay
    /\ Crons # {}

VARIABLES
    cron,    \* the slot's cron
    now,     \* the clock
    active,  \* pending and running jobs: the day they carry, the fire they serve
    newest,  \* created_at of the newest job
    due      \* the fire the trigger still has to enqueue ({} for none)

vars == <<cron, now, active, newest, due>>

---------------------------------------------------------------------------
(* The wall clock, day by day: what a cron means. *)

Allowed(field, v, minimum, maximum) ==
    field = {} \/ v \in _parse_field(field, minimum, maximum)

\* The times of a day a cron names, in minutes.
TimesOfDay(c) ==
    {h * HourLen + m : h \in {h \in 0..(DayHours - 1) : Allowed(c.hour, h, 0, DayHours - 1)},
                       m \in {m \in 0..(HourLen - 1) : Allowed(c.minute, m, 0, HourLen - 1)}}

\* The days a reader can look at, and the ones next to them in another zone.
Days == (FirstDay - LookbackDays - 1)..(LastDay + HorizonDays + 1)

Walls(c) ==
    {d * DayMinutes + k : d \in {d \in Days : Allowed(c.dow, (d + 1) % 7, 0, 6)}, k \in TimesOfDay(c)}

Fires ==
    [c \in Crons |->
        {u \in {wall - offset : wall \in Walls(c), offset \in {StdOffset, DstOffset}} :
            astimezone(u) \in Walls(c)}]

\* What the crons of schedule.yaml have in common, "30 6 * * 1-6": one time of day,
\* which the clock does not show twice on a day it is put back; on two weekdays or
\* more; and a UTC date that is the local one, even when the trigger is late.
OncePerDay(c) ==
    /\ \E k \in TimesOfDay(c) : TimesOfDay(c) = {k}
    /\ \A f, g \in Fires[c] : astimezone(f) = astimezone(g) => f = g

OnTwoDays(c) ==
    /\ TimesOfDay(c) # {}
    /\ \E v, w \in 0..6 : v # w /\ Allowed(c.dow, v, 0, 6) /\ Allowed(c.dow, w, 0, 6)

BeforeMidnight(c) ==
    \A k \in TimesOfDay(c), offset \in {StdOffset, DstOffset} :
        k - offset >= 0 /\ At(k - offset) + MaxLate < DayTicks

---------------------------------------------------------------------------

Init ==
    /\ cron \in Crons
    /\ now = FirstDay * DayTicks
    /\ active = {}
    /\ newest = now
    /\ due = {}

\* insert_job does nothing when an active job has this day.
enqueue_slot(as_of, fire) ==
    IF \E r \in active : r.as_of = as_of THEN UNCHANGED <<active, newest>>
    ELSE /\ active' = active \cup {[as_of |-> as_of, fire |-> fire]}
         /\ newest' = now

\* The trigger's day: that of the instant it runs, in UTC.
UtcDay == date(now \div MinuteLen)

\* Dagster runs the trigger of a fire, on time or late.
Trigger ==
    /\ due # {}
    /\ \E f \in due : enqueue_slot(UtcDay, f)
    /\ due' = {}
    /\ UNCHANGED <<cron, now>>

\* It never does.
TriggerLost ==
    /\ due # {}
    /\ due' = {}
    /\ UNCHANGED <<cron, now, active, newest>>

missed_slots(t) ==
    {f \in previous_fire(cron, t) :
        /\ t - At(f) >= Grace
        /\ t - At(f) <= DayTicks
        /\ newest < At(f)}

\* Mutant: the day of the UTC clock at the pass.
local_day_Utc(fire) == UtcDay

\* Mutant: the day the statement is about.
local_day_Statement(fire) == date(astimezone(fire)) - 1

local_day(fire) == date(astimezone(fire))

\* One pass of catchup_missed_slots, every PassEvery ticks while the worker is up.
CatchupPass ==
    /\ now % PassEvery = 0
    /\ \E f \in missed_slots(now) : enqueue_slot(local_day(f), f)
    /\ UNCHANGED <<cron, now, due>>

\* A job is done or has failed, on its day or days later.
Settle ==
    /\ \E r \in active : active' = active \ {r}
    /\ UNCHANGED <<cron, now, newest, due>>

\* The clock; a fire it reaches is due, a trigger that is late has run by then.  It stops after LastDay.
Tick ==
    /\ \A f \in due : now - At(f) < MaxLate
    /\ \A r \in active : now - At(r.fire) < MaxOpen
    /\ now' = IF now < (LastDay + 1) * DayTicks - 1 THEN now + 1 ELSE now
    /\ due' = due \cup {f \in Fires[cron] : now < At(f) /\ At(f) <= now'}
    /\ UNCHANGED <<cron, active, newest>>

Next == Trigger \/ TriggerLost \/ CatchupPass \/ Settle \/ Tick

Spec == Init /\ [][Next]_vars

---------------------------------------------------------------------------
(* Properties. *)

\* previous_fire, which scans UTC minutes, finds the latest fire of the wall
\* clock that is over, on every day and on both sides of a change of time.
PreviousIsLatest ==
    LET past == {f \in Fires[cron] : At(f) < now /\ At(f) >= now - LookbackDays * DayTicks}
    IN  previous_fire(cron, now) = IF past = {} THEN {} ELSE {Max(past)}

\* next_fires shows fires of the wall clock, without a gap between them, and
\* of the ones before the first it misses only one less than a minute away.
NextInView ==
    LET shown == next_fires(cron, now, Shown)
    IN  /\ shown # {} /\ shown \subseteq Fires[cron]
        /\ \A f \in Fires[cron] :
              At(f) > now /\ f <= Max(shown) => f \in shown \/ At(f) < now + MinuteLen

\* One fire never has two active jobs, one of the trigger and one of the
\* catch-up: they come to the same day although one asks the UTC clock when it
\* runs and the other the local calendar of the fire.
OneJobPerFire ==
    \A r, s \in active : r.fire = s.fire => r = s

\* A job is deduplicated only against one for the same fire: a run that hangs
\* over from an earlier day does not swallow the slot of this one.
DedupedByOwnFire ==
    \A r \in active :
        /\ \A f \in due : r.as_of = UtcDay => r.fire = f
        /\ \A f \in missed_slots(now) : r.as_of = local_day(f) => r.fire = f
=============================================================================
