----------------------------- MODULE AlertRules -----------------------------
(***************************************************************************)
(* The decisions that app/watchdog/alerting.go takes for one alert, shared *)
(* by every module that runs HandleAlerting.                               *)
(*                                                                         *)
(* ep.Alerts is the list 1..NumberOfAlerts.  The fields of an alert that   *)
(* configuration fixes (app/alerting/alert/alert.go) are functions on it.  *)
(* Counters only ever meet thresholds, so a counter that has reached       *)
(* CountCap stands for "CountCap or more"; an age that has reached AgeCap  *)
(* stands for "AgeCap or longer ago", the zero time.Time included.         *)
(***************************************************************************)
EXTENDS Naturals

CONSTANTS
    NumberOfAlerts,          \* len(ep.Alerts)
    FailureThreshold,        \* Alert.FailureThreshold
    SuccessThreshold,        \* Alert.SuccessThreshold
    MinimumReminderInterval, \* Alert.MinimumReminderInterval, 0 when unset
    SendOnResolved,          \* the alerts with Alert.IsSendingOnResolved()
    Checksum,                \* Alert.Checksum()
    CountCap,                \* bound on the counters of results in a row
    AgeCap                   \* bound on the age of the last reminder

Alerts == 1..NumberOfAlerts

Counts == 0..CountCap

Ages == 0..AgeCap

Checksums == {Checksum[a] : a \in Alerts}

ASSUME AlertAssumption ==
    /\ NumberOfAlerts \in Nat \ {0}
    /\ CountCap \in Nat /\ AgeCap \in Nat
    /\ FailureThreshold \in [Alerts -> 1..CountCap]
    /\ SuccessThreshold \in [Alerts -> 1..CountCap]
    /\ MinimumReminderInterval \in [Alerts -> Ages]
    /\ SendOnResolved \subseteq Alerts

(***************************************************************************)
(* No two alerts of the endpoint have the same checksum.  Checksum() reads *)
(* type, enabled, send-on-resolved, thresholds and description: alerts     *)
(* that differ in provider-override or reminder interval alone collide.    *)
(***************************************************************************)
DistinctChecksums ==
    \A a, b \in Alerts : Checksum[a] = Checksum[b] => a = b

\* n++ on a counter of results in a row.
OneMore(n) == IF n < CountCap THEN n + 1 ELSE n

\* An instant later, what happened `age' ago happened one unit longer ago.
Older(age) == IF age < AgeCap THEN age + 1 ELSE age

\* Mutant: only the failure that reaches the threshold counts, no later one.
ReachesFailureThreshold(a, enabled, failures) ==
    a \in enabled /\ FailureThreshold[a] = failures

\* The alert is enabled and the endpoint failed often enough for it.
ReachedFailureThreshold(a, enabled, failures) ==
    a \in enabled /\ ~(FailureThreshold[a] > failures)

\* Mutant: the interval is only looked at to know whether reminders are on.
SendReminderAlways(a, isTriggered, age) ==
    isTriggered /\ MinimumReminderInterval[a] > 0

\* time.Since(lastReminderSent) is compared with the alert's own interval.
SendReminder(a, isTriggered, age) ==
    /\ isTriggered
    /\ MinimumReminderInterval[a] > 0
    /\ age >= MinimumReminderInterval[a]

\* Something is to be sent for alert a after a failure.
DueOnFailure(a, enabled, failures, isTriggered, age) ==
    /\ ReachedFailureThreshold(a, enabled, failures)
    /\ ~isTriggered \/ SendReminder(a, isTriggered, age)

IsStillBelowSuccessThreshold(a, successes) == SuccessThreshold[a] > successes

\* The alert is triggered and the endpoint succeeded often enough for it.
DueOnSuccess(a, enabled, successes, isTriggered) ==
    /\ a \in enabled
    /\ isTriggered
    /\ ~IsStillBelowSuccessThreshold(a, successes)
=============================================================================
