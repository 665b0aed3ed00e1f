------------------------------ MODULE Alerting ------------------------------
(***************************************************************************)
(* The alerts of one monitored endpoint: executeEndpoint of                *)
(* app/watchdog/endpoint.go calls HandleAlerting of                        *)
(* app/watchdog/alerting.go with every result, which counts results in a   *)
(* row, sends through the alerting provider, and records the triggered     *)
(* alerts in the table endpoint_alerts_triggered; initializeStorage of     *)
(* app/main.go reads that table back when the process starts again.        *)
(*                                                                         *)
(* One goroutine runs the endpoint, so its steps interleave only with the  *)
(* passing of time, with the world outside, and with the death of the      *)
(* process, which may fall between any two of its effects.                 *)
(***************************************************************************)
EXTENDS AlertRules

CONSTANTS
    Configs,      \* the configurations a start may load: records [enabled,
                  \* configured] of the alerts that are enabled and of those
                  \* whose type has a valid provider
    StoreFaults,  \* may a statement of the store return an error?
    LostReplies   \* may a provider deliver and still return an error?

ASSUME ConfigAssumption ==
    /\ Configs \subseteq [enabled : SUBSET Alerts, configured : SUBSET Alerts]
    /\ Configs # {}
    /\ StoreFaults \in BOOLEAN /\ LostReplies \in BOOLEAN

VARIABLES
    world,          \* what the next execution of the endpoint meets
    running,        \* the process is up
    conf,           \* the loaded configuration, a member of Configs
    pc,             \* where HandleAlerting stands
    i,              \* the alert its loop has reached
    failures,       \* ep.NumberOfFailuresInARow
    successes,      \* ep.NumberOfSuccessesInARow
    triggered,      \* the alerts with Alert.Triggered
    sinceReminder,  \* the age of ep.LastReminderSent
    sinceRef,       \* the age of the local lastReminderSent of the handler
    persisted,      \* checksums with a row in endpoint_alerts_triggered
    rowSuccesses,   \* number_of_successes_in_a_row of those rows
    incidents,      \* external: the alerts with an incident at the provider that
                    \* Gatus opened and neither declared over nor abandoned
    doubt           \* history: alerts a fault left in disagreement

envVars == <<world>>
memVars == <<failures, successes, triggered, sinceReminder>>
rowVars == <<persisted, rowSuccesses>>
outVars == <<incidents, doubt>>
vars == <<world, running, conf, pc, i, failures, successes, triggered,
          sinceReminder, sinceRef, persisted, rowSuccesses, incidents, doubt>>

(***************************************************************************)
(* "failing" and "passing": the next result handed to HandleAlerting has   *)
(* Success = FALSE or TRUE.  "muted": executeEndpoint returns early or     *)
(* skips HandleAlerting (no connectivity, a maintenance window), which     *)
(* leaves all of this state alone.                                         *)
(***************************************************************************)
Worlds == {"failing", "passing", "muted"}

PCs == {"idle", "trigger", "record", "resolve", "notify"}

TypeOK ==
    /\ world \in Worlds
    /\ running \in BOOLEAN
    /\ conf \in Configs
    /\ pc \in PCs
    /\ i \in Alerts
    /\ failures \in Counts
    /\ successes \in Counts
    /\ triggered \in SUBSET Alerts
    /\ sinceReminder \in Ages
    /\ sinceRef \in Ages
    /\ persisted \in SUBSET Checksums
    /\ rowSuccesses \in [Checksums -> Counts]
    /\ incidents \in SUBSET Alerts
    /\ doubt \in SUBSET Alerts

\* A first start on an empty database.
Init ==
    /\ world \in Worlds
    /\ running = TRUE
    /\ conf \in Configs
    /\ pc = "idle"
    /\ i = 1
    /\ failures = 0
    /\ successes = 0
    /\ triggered = {}
    /\ sinceReminder = AgeCap
    /\ sinceRef = AgeCap
    /\ persisted = {}
    /\ rowSuccesses = [c \in Checksums |-> 0]
    /\ incidents = {}
    /\ doubt = {}
-----------------------------------------------------------------------------
(* The store *)

\* UpsertTriggeredEndpointAlert: one transaction; on error nothing changes.
UpsertTriggeredEndpointAlert(a, ok) ==
    IF ok THEN /\ persisted' = persisted \cup {Checksum[a]}
               /\ rowSuccesses' = [rowSuccesses EXCEPT ![Checksum[a]] = successes]
          ELSE UNCHANGED rowVars

\* Mutant: the row of a resolved alert is left behind.
DeleteNothing(a, ok) == UNCHANGED rowVars

\* DeleteTriggeredEndpointAlert: one statement; on error nothing changes.
DeleteTriggeredEndpointAlert(a, ok) ==
    /\ persisted' = IF ok THEN persisted \ {Checksum[a]} ELSE persisted
    /\ UNCHANGED rowSuccesses

\* The outcomes a statement of the store may have.
StoreOutcomes == IF StoreFaults THEN BOOLEAN ELSE {TRUE}
-----------------------------------------------------------------------------
(* handleAlertsToTrigger *)

\* Mutant: a failure does not end the successes in a row.
BeginTriggerKeepingSuccesses ==
    /\ running /\ pc = "idle" /\ world = "failing"
    /\ failures' = OneMore(failures)
    /\ sinceRef' = sinceReminder
    /\ pc' = "trigger" /\ i' = 1
    /\ UNCHANGED <<world, running, conf, successes, triggered, sinceReminder,
                   rowVars, outVars>>

\* The counters move once, before the loop over the alerts.
BeginTrigger ==
    /\ running /\ pc = "idle" /\ world = "failing"
    /\ successes' = 0
    /\ failures' = OneMore(failures)
    /\ sinceRef' = sinceReminder
    /\ pc' = "trigger" /\ i' = 1
    /\ UNCHANGED <<world, running, conf, triggered, sinceReminder,
                   rowVars, outVars>>

\* Mutant: off by one at the end of the list.
NextToTriggerPastTheEnd ==
    IF i <= NumberOfAlerts THEN i' = i + 1 /\ pc' = "trigger"
                           ELSE i' = i /\ pc' = "idle"

\* The loop goes to the next alert, or the handler returns.
NextToTrigger ==
    IF i < NumberOfAlerts THEN i' = i + 1 /\ pc' = "trigger"
                          ELSE i' = i /\ pc' = "idle"

\* Mutant: ep.LastReminderSent is read for each alert of the loop anew.
DueByTheFieldItself ==
    DueOnFailure(i, conf.enabled, failures, i \in triggered, sinceReminder)

\* handleAlertsToTrigger has something to send for alert i.
Due == DueOnFailure(i, conf.enabled, failures, i \in triggered, sinceRef)

\* Nothing is due for alert i, or its type has no usable provider.
SkipTrigger ==
    /\ running /\ pc = "trigger"
    /\ ~Due \/ i \notin conf.configured
    /\ NextToTrigger
    /\ UNCHANGED <<world, running, conf, memVars, sinceRef, rowVars, outVars>>

\* Mutant: the alert counts as triggered although Send returned an error.
SendFailsAndTriggers ==
    /\ running /\ pc = "trigger"
    /\ Due /\ i \in conf.configured
    /\ triggered' = triggered \cup {i}
    /\ NextToTrigger
    /\ UNCHANGED <<world, running, conf, failures, successes, sinceReminder, sinceRef,
                   rowVars, outVars>>

\* Send returns an error: it is logged, Triggered stays as it is and the
\* next failure tries again.  The provider may have acted all the same.
SendFails ==
    /\ running /\ pc = "trigger"
    /\ Due /\ i \in conf.configured
    /\ \E delivered \in IF LostReplies THEN BOOLEAN ELSE {FALSE} :
         /\ incidents' = IF delivered THEN incidents \cup {i} ELSE incidents
         /\ doubt' = IF delivered /\ i \notin triggered THEN doubt \cup {i} ELSE doubt
    /\ NextToTrigger
    /\ UNCHANGED <<world, running, conf, memVars, sinceRef, rowVars>>

\* Send returns nil: the provider shows the incident (or the reminder).
SendSucceeds ==
    /\ running /\ pc = "trigger"
    /\ Due /\ i \in conf.configured
    /\ incidents' = incidents \cup {i}
    /\ pc' = "record"
    /\ UNCHANGED <<world, running, conf, i, memVars, sinceRef, rowVars, doubt>>

\* Triggered, LastReminderSent and the row follow the send.
RecordTriggered ==
    /\ running /\ pc = "record"
    /\ triggered' = triggered \cup {i}
    /\ sinceReminder' = 0
    /\ \E ok \in StoreOutcomes :
         /\ UpsertTriggeredEndpointAlert(i, ok)
         /\ doubt' = IF ok THEN doubt \ {i} ELSE doubt \cup {i}
    /\ NextToTrigger
    /\ UNCHANGED <<world, running, conf, failures, successes, sinceRef, incidents>>
-----------------------------------------------------------------------------
(* handleAlertsToResolve *)

\* NumberOfFailuresInARow is still the old one during the loop.
BeginResolve ==
    /\ running /\ pc = "idle" /\ world = "passing"
    /\ successes' = OneMore(successes)
    /\ pc' = "resolve" /\ i' = 1
    /\ UNCHANGED <<world, running, conf, failures, triggered, sinceReminder,
                   sinceRef, rowVars, outVars>>

\* Mutant: a success does not end the failures in a row.
NextToResolveKeepingFailures ==
    /\ IF i < NumberOfAlerts THEN i' = i + 1 /\ pc' = "resolve"
                             ELSE i' = i /\ pc' = "idle"
    /\ UNCHANGED failures

\* The loop goes to the next alert; after the last one the failures in a row
\* are reset and the handler returns.
NextToResolve ==
    IF i < NumberOfAlerts
    THEN i' = i + 1 /\ pc' = "resolve" /\ failures' = failures
    ELSE i' = i /\ pc' = "idle" /\ failures' = 0

\* A triggered alert that needs more successes has the count persisted.
PersistSuccesses ==
    /\ running /\ pc = "resolve"
    /\ i \in conf.enabled \cap triggered
    /\ IsStillBelowSuccessThreshold(i, successes)
    /\ \E ok \in StoreOutcomes : UpsertTriggeredEndpointAlert(i, ok)
    /\ NextToResolve
    /\ UNCHANGED <<world, running, conf, successes, triggered, sinceReminder,
                   sinceRef, outVars>>

\* An alert that is disabled or not triggered is left alone.
SkipResolve ==
    /\ running /\ pc = "resolve"
    /\ i \notin conf.enabled \/ i \notin triggered
    /\ NextToResolve
    /\ UNCHANGED <<world, running, conf, successes, triggered, sinceReminder,
                   sinceRef, rowVars, outVars>>

\* Triggered goes back to false and the row is deleted before, and whether
\* or not, a resolved notification is sent.
Resolve ==
    /\ running /\ pc = "resolve"
    /\ DueOnSuccess(i, conf.enabled, successes, i \in triggered)
    /\ triggered' = triggered \ {i}
    /\ \E ok \in StoreOutcomes :
         /\ DeleteTriggeredEndpointAlert(i, ok)
         /\ IF i \in SendOnResolved /\ i \in conf.configured
            THEN /\ pc' = "notify"
                 /\ doubt' = IF ok THEN doubt ELSE doubt \cup {i}
                 /\ UNCHANGED <<i, failures, incidents>>
            ELSE /\ NextToResolve
                 /\ incidents' = incidents \ {i}
                 /\ doubt' = IF ok THEN doubt \ {i} ELSE doubt \cup {i}
    /\ UNCHANGED <<world, running, conf, successes, sinceReminder, sinceRef>>

\* Mutant: a resolved notification that fails triggers the alert again.
NotifyResolvedOrTriggerAgain ==
    /\ running /\ pc = "notify"
    /\ \E delivered \in BOOLEAN :
         /\ incidents' = IF delivered THEN incidents \ {i} ELSE incidents
         /\ triggered' = IF delivered THEN triggered ELSE triggered \cup {i}
    /\ NextToResolve
    /\ UNCHANGED <<world, running, conf, successes, sinceReminder, sinceRef, rowVars, doubt>>

\* The resolved notification reaches the provider, or Send returns an error
\* and is not tried again.
NotifyResolved ==
    /\ running /\ pc = "notify"
    /\ \E delivered \in BOOLEAN :
         /\ incidents' = IF delivered THEN incidents \ {i} ELSE incidents
         /\ doubt' = IF delivered
                    THEN {a \in doubt : a # i \/ Checksum[i] \in persisted}
                    ELSE doubt \cup {i}
    /\ NextToResolve
    /\ UNCHANGED <<world, running, conf, successes, triggered, sinceReminder,
                   sinceRef, rowVars>>
-----------------------------------------------------------------------------
(* The process *)

(***************************************************************************)
(* The process ends: a crash, or main() after SIGTERM, which waits for no  *)
(* handler.  What it had in memory is gone.  A send without its row, or a  *)
(* deleted row without its resolved notification, is a disagreement.       *)
(***************************************************************************)
Crash ==
    /\ running
    /\ running' = FALSE
    /\ doubt' = IF pc = "notify" \/ (pc = "record" /\ i \notin triggered)
                THEN doubt \cup {i} ELSE doubt
    /\ pc' = "idle" /\ i' = 1
    /\ failures' = 0 /\ successes' = 0
    /\ triggered' = {}
    /\ sinceReminder' = AgeCap /\ sinceRef' = AgeCap
    /\ UNCHANGED <<world, conf, rowVars, incidents>>

\* The rows DeleteAllTriggeredAlertsNotInChecksumsByEndpoint keeps.
KeptRows(enabled, ok) ==
    IF ok THEN persisted \cap {Checksum[a] : a \in enabled} ELSE persisted

\* The alerts for which GetTriggeredEndpointAlert finds a row.  Checksum()
\* covers Enabled, so a disabled alert never matches the row of an enabled one.
Found(enabled, rows, unread) ==
    {a \in enabled \ unread : Checksum[a] \in rows}

\* The endpoint takes its counters from the last alert found.
RestoreCounters(found) ==
    \/ found = {} /\ successes' = 0 /\ failures' = 0
    \/ \E last \in found :
         /\ \A a \in found : a <= last
         /\ successes' = rowSuccesses[Checksum[last]]
         /\ failures' = FailureThreshold[last]

(***************************************************************************)
(* initializeStorage, for this endpoint: drop the rows of alerts that are  *)
(* gone or disabled, then mark every alert that has a row as triggered.    *)
(* An alert the new configuration does not enable is abandoned.            *)
(***************************************************************************)
Restart ==
    /\ ~running
    /\ running' = TRUE
    /\ conf' \in Configs
    /\ \E ok \in StoreOutcomes,
          unread \in IF StoreFaults THEN SUBSET Alerts ELSE {{}} :
         LET rows  == KeptRows(conf'.enabled, ok)
             found == Found(conf'.enabled, rows, unread)
         IN /\ persisted' = rows
            /\ triggered' = found
            /\ RestoreCounters(found)
            /\ doubt' = {a \in Alerts :
                            IF a \in conf'.enabled
                            THEN \/ a \in doubt
                                 \/ a \in unread /\ Checksum[a] \in persisted
                            ELSE ~ok}
    /\ incidents' = incidents \cap conf'.enabled
    /\ UNCHANGED <<world, pc, i, sinceReminder, sinceRef, rowSuccesses>>

\* Time passes while the endpoint waits or a provider is slow.
Tick ==
    /\ running
    /\ sinceReminder' = Older(sinceReminder)
    /\ sinceRef' = Older(sinceRef)
    /\ <<sinceReminder, sinceRef>>' # <<sinceReminder, sinceRef>>
    /\ UNCHANGED <<world, running, conf, pc, i, failures, successes, triggered,
                   rowVars, outVars>>

\* The endpoint goes down or comes back, a maintenance window opens or closes.
WorldChanges ==
    /\ world' \in Worlds \ {world}
    /\ UNCHANGED <<running, conf, pc, i, memVars, sinceRef, rowVars, outVars>>

HandlerStep ==
    \/ BeginTrigger \/ SkipTrigger \/ SendFails \/ SendSucceeds \/ RecordTriggered
    \/ BeginResolve \/ PersistSuccesses \/ SkipResolve \/ Resolve \/ NotifyResolved

Next == HandlerStep \/ Crash \/ Restart \/ Tick \/ WorldChanges

Spec == Init /\ [][Next]_vars

(***************************************************************************)
(* The ticker of monitorEndpoint runs the endpoint for as long as the      *)
(* process is up, and a handler that has begun goes on.  Between two       *)
(* executions the ticker lets time pass.  A provider that is asked again   *)
(* and again answers now and then: without that nothing can be delivered.  *)
(* Crashes, restarts and the world owe nothing.                            *)
(***************************************************************************)
Fairness ==
    /\ WF_vars(HandlerStep)
    /\ SF_vars(Tick /\ pc = "idle")
    /\ \A a \in Alerts : SF_vars(SendSucceeds /\ i = a)

FairSpec == Spec /\ Fairness
-----------------------------------------------------------------------------
(* Properties *)

\* Between a send that succeeded and its record, alert a is ahead of memory.
Recording(a) == pc = "record" /\ i = a

\* Between the deletion of its row and the resolved notification.
Notifying(a) == pc = "notify" /\ i = a

(***************************************************************************)
(* Alert.Triggered and the provider agree about every alert that no fault  *)
(* put in doubt: while an incident is open handleAlertsToTrigger sends no  *)
(* second initial alert for it, and it sends one while none is open.  The  *)
(* agreement survives crashes and initializeStorage.                       *)
(***************************************************************************)
MemoryMatchesProvider ==
    running => \A a \in conf.enabled \ doubt :
        ~Recording(a) /\ ~Notifying(a) => (a \in triggered <=> a \in incidents)

(***************************************************************************)
(* endpoint_alerts_triggered has a row for exactly the open incidents that *)
(* no fault put in doubt, so a restart at any point finds all of them and  *)
(* no other (UpsertTriggeredEndpointAlert: "Used for persistence of        *)
(* triggered alerts across application restarts").                         *)
(***************************************************************************)
RowsMatchProvider ==
    \A a \in Alerts \ doubt :
        (running /\ (Recording(a) \/ Notifying(a)))
            \/ (Checksum[a] \in persisted <=> a \in incidents)

(***************************************************************************)
(* The agreement above in inductive form: what a process that is down, an  *)
(* alert that is not enabled, and each stage of the handler add to it.     *)
(***************************************************************************)
Agreement ==
    /\ ~running => pc = "idle" /\ triggered = {}
    /\ running => triggered \subseteq conf.enabled
    /\ pc = "record" => i \in conf.enabled \cap incidents
    /\ pc = "notify" => i \in conf.enabled \ triggered
    /\ \A a \in Alerts \ doubt :
         /\ Recording(a) => (Checksum[a] \in persisted <=> a \in triggered)
         /\ Notifying(a) => Checksum[a] \notin persisted
         /\ ~Recording(a) /\ ~Notifying(a) =>
                /\ Checksum[a] \in persisted <=> a \in incidents
                /\ running => (a \in triggered <=> a \in incidents)

(***************************************************************************)
(* While an endpoint keeps failing, every enabled alert with a provider is *)
(* triggered for good in the end, however often Send failed before: the    *)
(* "lazy retry" of the Triggered field.                                    *)
(***************************************************************************)
LazyRetry ==
    \A a \in Alerts :
        <>[](/\ running /\ world = "failing"
             /\ a \in conf.enabled \cap conf.configured)
            => <>[](a \in triggered)

(***************************************************************************)
(* While an endpoint keeps passing, no alert stays triggered, even if the  *)
(* provider refuses every resolved notification.                           *)
(***************************************************************************)
RecoveryResolves ==
    \A a \in Alerts :
        <>[](running /\ world = "passing") => <>[](a \notin triggered)

\* The premise of both properties on reminders.
KeepsFailing(a) ==
    <>[](/\ running /\ world = "failing"
         /\ a \in conf.enabled \cap conf.configured)

(***************************************************************************)
(* While an endpoint keeps failing, an alert with a reminder interval is   *)
(* reminded of again and again, if no other alert of the endpoint has a    *)
(* shorter interval: with equal ones, none starves the others, because     *)
(* handleAlertsToTrigger compares all of them with one local               *)
(* lastReminderSent.  Of the longer one of two unequal intervals this says *)
(* nothing: see EveryReminderRecurs.                                       *)
(***************************************************************************)
RemindersRecur ==
    \A a \in Alerts :
        (/\ MinimumReminderInterval[a] > 0
         /\ \A b \in Alerts : MinimumReminderInterval[b] > 0 =>
                MinimumReminderInterval[a] <= MinimumReminderInterval[b])
        => (KeepsFailing(a) => []<>Recording(a))

(***************************************************************************)
(* The same of every alert with an interval.  The comment above the local  *)
(* lastReminderSent says that without it the second alert "would never     *)
(* send a reminder, even if it was due" (alerting.go:31-33).               *)
(***************************************************************************)
EveryReminderRecurs ==
    \A a \in Alerts :
        MinimumReminderInterval[a] > 0 => (KeepsFailing(a) => []<>Recording(a))
=============================================================================
