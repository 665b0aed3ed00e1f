----------------------------- MODULE Maintenance -----------------------------
(***************************************************************************)
(* Maintenance windows (app/config/maintenance/maintenance.go).            *)
(*                                                                         *)
(* A point in time is a day and a minute of it, in the zone of the window. *)
(* All days have the same length; the changes of summer time are left out. *)
(***************************************************************************)
EXTENDS Integers

CONSTANTS
    Hour,       \* minutes of an hour
    Day,        \* minutes of a day
    Week        \* days of a week

ASSUME TimeAssumption ==
    /\ Hour \in Nat \ {0} /\ Day \in Nat \ {0} /\ Week \in Nat \ {0}
    /\ Day % Hour = 0

Minutes == 0..Day - 1

Times == [day : Int, minute : Minutes]

WeekDays == 0..Week - 1

Weekday(day) == day % Week

\* Config as it is written; start is the minute that hh:mm stands for.
Windows == [enabled : BOOLEAN, start : Minutes, duration : Int, every : SUBSET WeekDays]

\* ValidateAndSetDefaults accepts the window; the start and the weekdays
\* cannot be written in another way.
Valid(w) == w.enabled => w.duration > 0 /\ w.duration <= Day

\* durationToStartFromMidnight is zero in a window that nobody validated.
Unvalidated(w) == [w EXCEPT !.start = 0]

\* Mutant: the window of the day before is forgotten at midnight.
StartDayToday(w, t) == t.day

\* adjustedDate: the whole hours tell which day's window it would be.
StartDay(w, t) ==
    IF t.minute \div Hour < w.start \div Hour THEN t.day - 1 ELSE t.day

ScheduledOn(w, day) == w.every = {} \/ Weekday(day) \in w.every

\* t is after the window of that day (today's or yesterday's) has started and
\* before it ends.
Within(w, t, day) ==
    LET sinceMidnight == t.minute + (IF day = t.day THEN 0 ELSE Day)
    IN  w.start < sinceMidnight /\ sinceMidnight < w.start + w.duration

IsUnderMaintenance(w, t) ==
    /\ w.enabled
    /\ ScheduledOn(w, StartDay(w, t))
    /\ Within(w, t, StartDay(w, t))

(***************************************************************************)
(* For reference: t is in the window of some day for which it is scheduled.*)
(* As a window lasts a day at most, that is today or yesterday.            *)
(***************************************************************************)
InWindow(w, t) ==
    w.enabled /\ \E day \in {t.day - 1, t.day} : ScheduledOn(w, day) /\ Within(w, t, day)

(***************************************************************************)
(* The windows that are over before the hour begins in which the next may  *)
(* start.  In the others, yesterday's window is lost in the minutes        *)
(* between the start of that hour and the start of the window.             *)
(***************************************************************************)
EndsBeforeStartHour(w) == w.duration <= Day - (w.start % Hour)
=============================================================================
