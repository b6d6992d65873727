------------------------------- MODULE Calendar ------------------------------
(***************************************************************************)
(* The days of lib/timezone, which every list, report and quota of a day   *)
(* is bounded by: where a day of Palestine begins and ends in UTC, on days *)
(* when the clocks are moved as well.  Time is counted in ticks, as the    *)
(* code counts it in milliseconds; a date is the number of its day, as     *)
(* year, month and day are to Date.UTC.                                    *)
(***************************************************************************)
EXTENDS Integers, FiniteSets, FiniteSetsExt

CONSTANTS
    Second, Hour, Day,      \* in ticks
    Winter, Summer,         \* Asia/Hebron is ahead of UTC by so much
    Switches,               \* instants at which the clocks may be moved
    TrendDays,              \* the days of getRevenueTrend
    LastInstant             \* bound on the clock

VARIABLES
    instant,    \* the time at which the code is asked
    switch,     \* when the clocks are moved,
    spring      \* and whether forward

vars == <<instant, switch, spring>>

Instants == 0 .. LastInstant

TypeOK == instant \in Instants /\ switch \in Switches /\ spring \in BOOLEAN

Init == instant = TrendDays * Day - Hour /\ switch \in Switches /\ spring \in BOOLEAN

Tick ==
    /\ instant < LastInstant
    /\ instant' = instant + 1
    /\ UNCHANGED <<switch, spring>>

Next == Tick

Spec == Init /\ [][Next]_vars

-----------------------------------------------------------------------------
\* What a clock on the wall in Palestine shows, as the Intl library knows.
Ahead(t) == IF (t < switch) = spring THEN Winter ELSE Summer
Local(t) == t + Ahead(t)

getPalestineDateParts(t) == Local(t) \div Day

\* The wall is read to the second: the ticks of t beyond it stay in the offset.
palestineOffsetMs(t) == t - (Local(t) - (Local(t) % Second))

\* Mutant: the date is the one of UTC.
StartOfDayUtc(t) == (t \div Day) * Day + palestineOffsetMs(t)
palestineStartOfDay(t) == getPalestineDateParts(t) * Day + palestineOffsetMs(t)
palestineEndOfDay(t) == getPalestineDateParts(t) * Day + Day - 1 + palestineOffsetMs(t)

isSamePalestineDay(s, t) == getPalestineDateParts(s) = getPalestineDateParts(t)

\* The days the dashboard shows, the last one first, each with its label: the date of UTC at
\* which the day begins.
RevenueTrend ==
    [i \in 0 .. TrendDays - 1 |->
        LET t == instant - i * Day
        IN  [date |-> getPalestineDateParts(t), label |-> palestineStartOfDay(t) \div Day]]

-----------------------------------------------------------------------------
DayOf(t) == {s \in Instants : isSamePalestineDay(s, t)}
\* The clocks are moved on the day of t, or at the midnight before or after it.
Moved(t) == \E s \in DayOf(t) : {Ahead(s - 1), Ahead(s), Ahead(s + 1)} # {Ahead(t)}

\* How late after its first instant a day begins by the bounds.
Late == palestineStartOfDay(instant) - Min(DayOf(instant))

\* If the clocks are not moved on a day its two bounds hold that day, the whole of it and no
\* other, both late by the same part of a second if at all (lib/timezone.ts
\* palestineStartOfDay, palestineEndOfDay).
BoundsHoldTheDay ==
    ~Moved(instant) =>
        /\ Late \in 0 .. Second - 1
        /\ {s \in Instants : s >= palestineStartOfDay(instant) /\ s <= palestineEndOfDay(instant)}
             = {s \in Instants : s - Late \in DayOf(instant)}

\* On a day on which the clocks are moved they are an hour off at most, beside the part of a
\* second.
BoundsAreNear == \E off \in {-Hour, 0, Hour} : Late - off \in 0 .. Second - 1

\* Steps of 24 hours back from now name each of the last days once, unless the clocks were
\* moved in between; then one day may be missed, or shown twice.  The label of a day is its
\* date or the one before (dashboard/service.ts getRevenueTrend).
TrendHasEachDay ==
    LET trend == RevenueTrend
        shown == {trend[i].date : i \in DOMAIN trend}
        today == getPalestineDateParts(instant)
        inTrend == switch > instant - (TrendDays - 1) * Day /\ switch <= instant
    IN  /\ \A i \in DOMAIN trend : trend[i].label \in {trend[i].date - 1, trend[i].date}
        /\ ~inTrend => shown = (today - TrendDays + 1) .. today
        /\ Cardinality(shown) >= TrendDays - 1
        /\ shown \subseteq (today - TrendDays) .. today

\* A day has its bounds, to a second, or to an hour when the clocks are moved, and the trend
\* has its days.  Bounds at midnight to the tick, as the comments of lib/timezone promise
\* them, would do as well: the code has those only when it is asked on a full second.
DaysAreWhole == BoundsHoldTheDay /\ BoundsAreNear /\ TrendHasEachDay
=============================================================================
