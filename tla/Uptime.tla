------------------------------- MODULE Uptime -------------------------------
(***************************************************************************)
(* The uptime of an endpoint in both stores, fed with the same executions: *)
(* hourly statistics in memory (app/storage/store/memory/uptime.go), rows  *)
(* in the database that are merged into daily ones when there are too many *)
(* (app/storage/store/sql/sql.go).                                         *)
(*                                                                         *)
(* An entry is its number of executions; successes and response times are  *)
(* added up in the same way.  Entries are hours, points in time are half   *)
(* hours: the half hour between two entries stands for every time that is  *)
(* not on the hour.  Days begin at midnight UTC and have the same length.  *)
(***************************************************************************)
EXTENDS Integers, FiniteSets, Functions

CONSTANTS
    Day,                \* hours of a day
    Retention,          \* uptimeRetention, in hours like all that follow
    Buffer,             \* uptimeHourlyBuffer
    AgeThreshold,       \* uptimeAgeCleanUpThreshold
    MergeThreshold,     \* uptimeTotalEntriesMergeThreshold, in rows
    CleanUpThreshold,   \* uptimeCleanUpThreshold, in entries
    Horizon             \* bound: the last hour

(***************************************************************************)
(* In the code: 24, 30 * 24, 48, 32 * 24, 100 and 32 * 24.  The rows that  *)
(* a merge leaves are the hours of the days that the buffer touches, the   *)
(* days of the retention before them, 99 in all, and the day in which the  *)
(* retention begins, if it was not merged before: just the threshold.      *)
(***************************************************************************)
ASSUME UptimeAssumption ==
    /\ {Day, Retention, Buffer, AgeThreshold, CleanUpThreshold, Horizon} \subseteq Nat \ {0}
    /\ Retention % Day = 0 /\ Buffer % Day = 0 /\ Buffer >= 2 * Day
    /\ AgeThreshold > Retention + 1 /\ CleanUpThreshold > Retention + 1
    /\ Retention >= Buffer
    /\ MergeThreshold = (Buffer + Day) + (Retention - Buffer) \div Day

VARIABLES
    now,        \* half hours
    ran,        \* executions in each hour, for reference
    hourly,     \* Uptime.HourlyStatistics
    uptimes     \* endpoint_uptimes

uptimeVars == <<now, ran, hourly, uptimes>>

Hours == 0..Horizon

HourOf(t) == t \div 2

\* The first hour of the day of an hour.
FlooredAtDay(h) == (h \div Day) * Day

Entries == UNION {[S -> Nat] : S \in SUBSET Hours}

UptimeInit ==
    /\ now = 0
    /\ ran = [h \in Hours |-> 0]
    /\ hourly = [h \in {} |-> 0]
    /\ uptimes = [h \in {} |-> 0]
-----------------------------------------------------------------------------
(* One more execution *)

Total(entries, S) == SumFunctionOnSet(entries, S \cap DOMAIN entries)

\* An entry with one execution more, or with the first one.
Counted(entries, h) ==
    [g \in DOMAIN entries \cup {h} |->
        (IF g \in DOMAIN entries THEN entries[g] ELSE 0) + (IF g = h THEN 1 ELSE 0)]

\* Mutant: an hour less is kept instead of one more.
NotOlderThanRetention(entries, t) ==
    Restrict(entries, {h \in DOMAIN entries : 2 * h >= t - 2 * (Retention - 1)})

\* What is older than the retention and an hour goes.
NotTooOld(entries, t) ==
    Restrict(entries, {h \in DOMAIN entries : 2 * h >= t - 2 * (Retention + 1)})

\* processUptimeAfterResult
ProcessUptimeAfterResult(entries, t) ==
    LET more == Counted(entries, HourOf(t))
    IN  IF Cardinality(DOMAIN more) > CleanUpThreshold THEN NotTooOld(more, t) ELSE more

\* Mutant: the row of a day has the first of its hours only.
MergedWithoutSum(entries, t) ==
    LET first == FlooredAtDay(HourOf(t - 2 * Buffer))
        young == {h \in DOMAIN entries : h >= first}
        old   == {h \in DOMAIN entries \ young : 2 * h >= t - 2 * Retention}
    IN  [h \in young \cup {FlooredAtDay(g) : g \in old} |->
            IF h \in young THEN entries[h]
            ELSE entries[CHOOSE g \in old : FlooredAtDay(g) = h]]

\* mergeHourlyUptimeEntriesOlderThanMergeThresholdIntoDailyUptimeEntries:
\* days that ended before the buffer have one row, at their midnight.
Merged(entries, t) ==
    LET first == FlooredAtDay(HourOf(t - 2 * Buffer))
        young == {h \in DOMAIN entries : h >= first}
        old   == {h \in DOMAIN entries \ young : 2 * h >= t - 2 * Retention}
    IN  [h \in young \cup {FlooredAtDay(g) : g \in old} |->
            IF h \in young THEN entries[h]
            ELSE Total(entries, {g \in old : FlooredAtDay(g) = h})]

\* Mutant: merging is taken to be enough.
NotCleanedUp(entries, t) == entries

\* Old rows are deleted when the oldest is much older.
CleanedUp(entries, t) ==
    IF \E h \in DOMAIN entries : t - 2 * h > 2 * AgeThreshold
    THEN NotTooOld(entries, t) ELSE entries

\* The end of InsertEndpointResult.
UpdateEndpointUptime(entries, t) ==
    LET more == Counted(entries, HourOf(t))
    IN  CleanedUp(IF Cardinality(DOMAIN more) >= MergeThreshold
                  THEN Merged(more, t) ELSE more, t)

\* An execution, of which one an hour is enough.
Execute ==
    /\ ran[HourOf(now)] = 0
    /\ ran' = [ran EXCEPT ![HourOf(now)] = @ + 1]
    /\ hourly' = ProcessUptimeAfterResult(hourly, now)
    /\ uptimes' = UpdateEndpointUptime(uptimes, now)
    /\ UNCHANGED now

\* Time passes; nothing is executed while the process is down.
Wait ==
    /\ HourOf(now + 1) <= Horizon
    /\ now' = now + 1
    /\ UNCHANGED <<ran, hourly, uptimes>>

UptimeNext == Execute \/ Wait

UptimeSpec == UptimeInit /\ [][UptimeNext]_uptimeVars
-----------------------------------------------------------------------------
(* GetUptimeByKey and the queries of response times, up to now *)

\* The memory store steps through the hours from that of the start.
InMemory(from) == Total(hourly, HourOf(from)..HourOf(now))

\* hour_unix_timestamp >= $2 AND hour_unix_timestamp <= $3
InDatabase(from) == Total(uptimes, {h \in DOMAIN uptimes : from <= 2 * h /\ 2 * h <= now})

\* The executions of hours or days that began since.
Since(from) == Total(ran, {h \in Hours : from <= 2 * h})
OfDaysSince(from) == Total(ran, {h \in Hours : from <= 2 * FlooredAtDay(h)})

\* The starts that a badge or a raw value may ask for.
Starts(oldest) == {now - 2 * w : w \in 1..oldest}

\* A chart starts on the hour: time.Now().Truncate(time.Hour).
ChartStart(w) == 2 * HourOf(now - 2 * w)

ChartStarts(oldest) == {ChartStart(w) : w \in 1..oldest}
-----------------------------------------------------------------------------
(* Properties *)

(***************************************************************************)
(* The memory store counts every execution of the hours that a badge, a    *)
(* chart or a raw value covers, once, whatever its lazy clean-up deleted.  *)
(***************************************************************************)
MemoryUptimeIsExact ==
    \A from \in Starts(Retention) \cup ChartStarts(Retention) :
        InMemory(from) = Total(ran, {h \in Hours : h >= HourOf(from)})

(***************************************************************************)
(* The database counts every execution of the days that began in the time  *)
(* asked for, and no execution twice or from before: merging, repeated     *)
(* merging and deletion lose at most the day in which that time begins.    *)
(* For the last day ("will never impact the 24h uptime badge calculation") *)
(* they lose nothing.  The chart of the whole retention starts on the hour *)
(* and so up to an hour before what merging keeps: it may lose its first   *)
(* day even if that day begins at the very hour at which the chart does.   *)
(***************************************************************************)
DatabaseUptimeIsClose ==
    /\ \A from \in Starts(Retention) \cup ChartStarts(Retention - 1) :
          InDatabase(from) \in OfDaysSince(from)..Since(from)
    /\ InDatabase(ChartStart(Retention))
          \in OfDaysSince(now - 2 * Retention)..Since(ChartStart(Retention))
    /\ \A from \in Starts(Day) \cup ChartStarts(Day) : InDatabase(from) = Since(from)

(***************************************************************************)
(* The entries stay few, because a merge always gets down to its threshold *)
(* (100 rows in the code), and what the process left behind when it was    *)
(* down is gone with the first execution.                                  *)
(***************************************************************************)
EntriesBounded ==
    /\ Cardinality(DOMAIN hourly) <= CleanUpThreshold
    /\ Cardinality(DOMAIN uptimes) <= MergeThreshold
    /\ ran[HourOf(now)] > 0 =>
          \A h \in DOMAIN uptimes : HourOf(now) - h <= AgeThreshold
=============================================================================
