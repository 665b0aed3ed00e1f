---------------------------- MODULE AlertHistory ----------------------------
(***************************************************************************)
(* Alerting watched from outside: history variables that count what really *)
(* happened to the endpoint, restarts or not, against which the counters   *)
(* and the clock the program keeps can be judged.                          *)
(***************************************************************************)
EXTENDS Alerting

VARIABLES
    failureRun,         \* failures handled since the last handled success
    successRun,         \* successes handled since the last handled failure
    inheritedFailures,  \* NumberOfFailuresInARow still stems from a restart
    inheritedSuccesses, \* NumberOfSuccessesInARow still stems from a restart
    sinceSent           \* age of this process's last notification per alert

history == <<failureRun, successRun, inheritedFailures, inheritedSuccesses, sinceSent>>
hvars == <<vars, history>>

HandlesFailure == pc = "idle" /\ pc' = "trigger"
HandlesSuccess == pc = "idle" /\ pc' = "resolve"
Starts == ~running /\ running'

\* Steps in which a notification for alert a reaches the provider, or in which
\* its incident is declared over.
SendsInitial(a) == pc = "trigger" /\ pc' = "record" /\ i = a /\ a \notin triggered
SendsReminder(a) == pc = "trigger" /\ pc' = "record" /\ i = a /\ a \in triggered
Resolves(a) == pc = "resolve" /\ running' /\ a \in triggered \ triggered'

HInit ==
    /\ Init
    /\ failureRun = 0 /\ successRun = 0
    /\ inheritedFailures = FALSE /\ inheritedSuccesses = FALSE
    /\ sinceSent = [a \in Alerts |-> AgeCap]

Watch ==
    /\ failureRun' = CASE HandlesFailure -> OneMore(failureRun)
                       [] HandlesSuccess -> 0
                       [] OTHER -> failureRun
    /\ successRun' = CASE HandlesSuccess -> OneMore(successRun)
                       [] HandlesFailure -> 0
                       [] OTHER -> successRun
    /\ inheritedFailures' = CASE Starts -> failures' > 0
                              [] HandlesSuccess -> FALSE
                              [] OTHER -> inheritedFailures
    /\ inheritedSuccesses' = CASE Starts -> successes' > 0
                               [] HandlesFailure -> FALSE
                               [] OTHER -> inheritedSuccesses
    /\ sinceSent' = [a \in Alerts |->
            IF ~running' THEN AgeCap
            ELSE IF Recording(a) /\ pc' # "record" THEN 0
            ELSE IF sinceReminder' > sinceReminder THEN Older(sinceSent[a])
            ELSE sinceSent[a]]

HNext == Next /\ Watch

HSpec == HInit /\ [][HNext]_hvars

FairHSpec == HSpec /\ Fairness
-----------------------------------------------------------------------------
(***************************************************************************)
(* "FailureThreshold is the number of failures in a row needed before      *)
(* triggering the alert" (alert.go).  What initializeStorage restored may  *)
(* stand in for failures until the next success that is handled, and no    *)
(* longer.                                                                 *)
(***************************************************************************)
TriggerNeedsFailures ==
    [][\A a \in Alerts : SendsInitial(a) =>
            failureRun >= FailureThreshold[a] \/ inheritedFailures]_hvars

(***************************************************************************)
(* "SuccessThreshold defines how many successful executions must happen in *)
(* a row before an ongoing incident is marked as resolved" (alert.go).     *)
(* What initializeStorage restored may stand in for successes until the    *)
(* next failure that is handled, and no longer.                            *)
(***************************************************************************)
ResolveNeedsSuccesses ==
    [][\A a \in Alerts : Resolves(a) =>
            successRun >= SuccessThreshold[a] \/ inheritedSuccesses]_hvars

(***************************************************************************)
(* Within one process, a reminder for an alert follows the last            *)
(* notification for that same alert by its minimum-reminder-interval or    *)
(* more, whatever the other alerts of the endpoint sent in between.        *)
(***************************************************************************)
RemindersAreSpaced ==
    [][\A a \in Alerts : SendsReminder(a) =>
            sinceSent[a] >= MinimumReminderInterval[a]]_hvars
=============================================================================
