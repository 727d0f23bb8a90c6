----------------------------- MODULE MCSlotDays -----------------------------
(* Small instances of SlotDays for TLC: a day of eight hours of two minutes, *)
(* a zone west of UTC whose summer is one week, from Sunday to Sunday.       *)
EXTENDS SlotDays

MCStdOffset == -4
MCDstOffset == -2

\* "30 6 * * 1-6" of schedule.yaml, and crons on every day, on the days a step
\* gives and on a list of days.
Morning(dow) == [minute |-> {Value(1)}, hour |-> {Value(2)}, dow |-> dow]
MCCrons ==
    {Morning({From(1, 6)}), Morning({}), Morning({Step(3)}), Morning({Value(0), From(4, 5)})}

\* They are like the one of schedule.yaml.
ASSUME MCCronsAssumption ==
    \A c \in Crons : OncePerDay(c) /\ OnTwoDays(c) /\ BeforeMidnight(c)
=============================================================================
