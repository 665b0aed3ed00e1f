--------------------------- MODULE AlertingProofs ---------------------------
(***************************************************************************)
(* Type correctness of Alerting, the agreement of memory, table and        *)
(* provider, and that the counters and the clock of HandleAlerting are     *)
(* true to what happened: alerts need their results in a row and reminders *)
(* keep their intervals.  All of it for any number of alerts, any          *)
(* thresholds and intervals and any set of configurations a restart may    *)
(* load.                                                                   *)
(***************************************************************************)
EXTENDS AlertHistory, TLAPS

(***************************************************************************)
(* The loop over ep.Alerts stays within the list: after NextToTrigger the  *)
(* index is that of an alert and the handler is in the loop or done.       *)
(***************************************************************************)
LEMMA NextToTriggerType ==
    ASSUME i \in Alerts, NextToTrigger
    PROVE  i' \in Alerts /\ pc' \in {"trigger", "idle"}
  BY AlertAssumption DEF Alerts, NextToTrigger

(***************************************************************************)
(* The same for NextToResolve, which also keeps or resets the failures.    *)
(***************************************************************************)
LEMMA NextToResolveType ==
    ASSUME i \in Alerts, failures \in Counts, NextToResolve
    PROVE  i' \in Alerts /\ pc' \in {"resolve", "idle"} /\ failures' \in Counts
  BY AlertAssumption DEF Alerts, Counts, NextToResolve

(***************************************************************************)
(* Counters and ages stay under their bounds, and the constants that are   *)
(* written into them are within those bounds.                              *)
(***************************************************************************)
LEMMA BoundedNumbers ==
    /\ 1 \in Alerts /\ 0 \in Counts /\ 0 \in Ages /\ AgeCap \in Ages
    /\ \A n \in Counts : OneMore(n) \in Counts
    /\ \A n \in Ages : Older(n) \in Ages
    /\ \A a \in Alerts : FailureThreshold[a] \in Counts
  BY AlertAssumption DEF Alerts, Counts, Ages, OneMore, Older

(***************************************************************************)
(* Both store operations on endpoint_alerts_triggered keep it a table of   *)
(* success counts per checksum, whether they fail or not.                  *)
(***************************************************************************)
LEMMA UpsertType ==
    ASSUME NEW a \in Alerts, NEW ok, successes \in Counts,
           persisted \in SUBSET Checksums, rowSuccesses \in [Checksums -> Counts],
           UpsertTriggeredEndpointAlert(a, ok)
    PROVE  persisted' \in SUBSET Checksums /\ rowSuccesses' \in [Checksums -> Counts]
  BY DEF UpsertTriggeredEndpointAlert, Checksums, rowVars

(***************************************************************************)
(* initializeStorage restores counters within their bounds.                *)
(***************************************************************************)
LEMMA RestoreType ==
    ASSUME NEW found \in SUBSET Alerts, rowSuccesses \in [Checksums -> Counts],
           RestoreCounters(found)
    PROVE  successes' \in Counts /\ failures' \in Counts
  BY BoundedNumbers DEF RestoreCounters, Checksums

(***************************************************************************)
(* Every step of HandleAlerting, of the process and of the world keeps the *)
(* variables in their types.                                               *)
(***************************************************************************)
LEMMA TypeStep == TypeOK /\ [Next]_vars => TypeOK'
<1> SUFFICES ASSUME TypeOK, [Next]_vars PROVE TypeOK'
  OBVIOUS
<1> USE BoundedNumbers DEF TypeOK, PCs
<1>1. ASSUME BeginTrigger PROVE TypeOK'
  BY <1>1 DEF BeginTrigger, rowVars, outVars
<1>2. ASSUME SkipTrigger PROVE TypeOK'
  BY <1>2, NextToTriggerType DEF SkipTrigger, memVars, rowVars, outVars
<1>3. ASSUME SendFails PROVE TypeOK'
  BY <1>3, NextToTriggerType DEF SendFails, memVars, rowVars
<1>4. ASSUME SendSucceeds PROVE TypeOK'
  BY <1>4 DEF SendSucceeds, memVars, rowVars
<1>5. ASSUME RecordTriggered PROVE TypeOK'
  BY <1>5, NextToTriggerType, UpsertType DEF RecordTriggered
<1>6. ASSUME BeginResolve PROVE TypeOK'
  BY <1>6 DEF BeginResolve, rowVars, outVars
<1>7. ASSUME PersistSuccesses PROVE TypeOK'
  BY <1>7, NextToResolveType, UpsertType DEF PersistSuccesses, outVars
<1>8. ASSUME SkipResolve PROVE TypeOK'
  BY <1>8, NextToResolveType DEF SkipResolve, rowVars, outVars
<1>9. ASSUME Resolve PROVE TypeOK'
  BY <1>9, NextToResolveType DEF Resolve, DeleteTriggeredEndpointAlert
<1>10. ASSUME NotifyResolved PROVE TypeOK'
  BY <1>10, NextToResolveType DEF NotifyResolved, rowVars
<1>11. ASSUME Crash PROVE TypeOK'
  BY <1>11 DEF Crash, rowVars
<1>12. ASSUME Restart PROVE TypeOK'
  <2>1. conf' \in Configs /\ conf'.enabled \subseteq Alerts
    BY <1>12, ConfigAssumption DEF Restart
  <2>2. PICK ok, unread :
            LET rows  == KeptRows(conf'.enabled, ok)
                found == Found(conf'.enabled, rows, unread)
            IN persisted' = rows /\ triggered' = found /\ RestoreCounters(found)
    BY <1>12 DEF Restart
  <2>3. triggered' \in SUBSET Alerts /\ persisted' \in SUBSET Checksums
    BY <2>1, <2>2 DEF Found, KeptRows
  <2>4. successes' \in Counts /\ failures' \in Counts
    BY <2>2, <2>3, RestoreType
  <2> QED
    BY <1>12, <2>1, <2>3, <2>4 DEF Restart
<1>13. ASSUME Tick PROVE TypeOK'
  BY <1>13 DEF Tick, rowVars, outVars
<1>14. ASSUME WorldChanges PROVE TypeOK'
  BY <1>14 DEF WorldChanges, memVars, rowVars, outVars
<1>15. ASSUME UNCHANGED vars PROVE TypeOK'
  BY <1>15 DEF vars
<1> QED
  BY <1>1, <1>2, <1>3, <1>4, <1>5, <1>6, <1>7, <1>8, <1>9, <1>10, <1>11, <1>12,
     <1>13, <1>14, <1>15 DEF Next, HandlerStep

(***************************************************************************)
(* The counters, flags and rows of an endpoint always have their types.    *)
(***************************************************************************)
THEOREM TypeCorrect == Spec => []TypeOK
<1>1. Init => TypeOK
  BY BoundedNumbers DEF Init, TypeOK, PCs
<1> QED
  BY <1>1, TypeStep, PTL DEF Spec

(***************************************************************************)
(* A step of the store on the row of one alert leaves the rows of all      *)
(* other alerts as they were when no two alerts share a checksum.          *)
(***************************************************************************)
LEMMA OtherRows ==
    ASSUME DistinctChecksums, NEW a \in Alerts, NEW b \in Alerts, a # b, NEW ok,
           \/ UpsertTriggeredEndpointAlert(b, ok)
           \/ DeleteTriggeredEndpointAlert(b, ok)
    PROVE  Checksum[a] \in persisted' <=> Checksum[a] \in persisted
  BY DEF DistinctChecksums, UpsertTriggeredEndpointAlert,
         DeleteTriggeredEndpointAlert, rowVars

(***************************************************************************)
(* Every step keeps the agreement of memory, table and provider.           *)
(***************************************************************************)
LEMMA AgreementStep ==
    ASSUME DistinctChecksums
    PROVE  TypeOK /\ Agreement /\ [Next]_vars => Agreement'
<1> SUFFICES ASSUME TypeOK, Agreement, [Next]_vars PROVE Agreement'
  OBVIOUS
<1> USE DEF Agreement, Recording, Notifying
<1>t. i \in Alerts /\ failures \in Counts /\ doubt \subseteq Alerts
  BY DEF TypeOK
<1>1. ASSUME BeginTrigger PROVE Agreement'
  BY <1>1 DEF BeginTrigger, rowVars, outVars
<1>2. ASSUME SkipTrigger PROVE Agreement'
  BY <1>2, <1>t, NextToTriggerType DEF SkipTrigger, memVars, rowVars, outVars
<1>3. ASSUME SendFails PROVE Agreement'
  BY <1>3, <1>t, NextToTriggerType DEF SendFails, memVars, rowVars
<1>4. ASSUME SendSucceeds PROVE Agreement'
  BY <1>4, <1>t DEF SendSucceeds, memVars, rowVars, Due, DueOnFailure, ReachedFailureThreshold
<1>5. ASSUME RecordTriggered PROVE Agreement'
  BY <1>5, <1>t, NextToTriggerType, OtherRows
     DEF RecordTriggered, UpsertTriggeredEndpointAlert, rowVars
<1>6. ASSUME BeginResolve PROVE Agreement'
  BY <1>6 DEF BeginResolve, rowVars, outVars
<1>7. ASSUME PersistSuccesses PROVE Agreement'
  BY <1>7, <1>t, NextToResolveType, OtherRows
     DEF PersistSuccesses, UpsertTriggeredEndpointAlert, rowVars, outVars
<1>8. ASSUME SkipResolve PROVE Agreement'
  BY <1>8, <1>t, NextToResolveType DEF SkipResolve, rowVars, outVars
<1>9. ASSUME Resolve PROVE Agreement'
  BY <1>9, <1>t, NextToResolveType, OtherRows
     DEF Resolve, DeleteTriggeredEndpointAlert, DueOnSuccess
<1>10. ASSUME NotifyResolved PROVE Agreement'
  BY <1>10, <1>t, NextToResolveType DEF NotifyResolved, rowVars
<1>11. ASSUME Crash PROVE Agreement'
  BY <1>11 DEF Crash, rowVars
<1>12. ASSUME Restart PROVE Agreement'
  BY <1>12, ConfigAssumption DEF Restart, KeptRows, Found, DistinctChecksums, rowVars
<1>13. ASSUME Tick PROVE Agreement'
  BY <1>13 DEF Tick, rowVars, outVars
<1>14. ASSUME WorldChanges PROVE Agreement'
  BY <1>14 DEF WorldChanges, memVars, rowVars, outVars
<1>15. ASSUME UNCHANGED vars PROVE Agreement'
  BY <1>15 DEF vars
<1> QED
  BY <1>1, <1>2, <1>3, <1>4, <1>5, <1>6, <1>7, <1>8, <1>9, <1>10, <1>11, <1>12,
     <1>13, <1>14, <1>15 DEF Next, HandlerStep

(***************************************************************************)
(* For every number of alerts, thresholds and configurations: as long as   *)
(* no two alerts share a checksum, Alert.Triggered and the provider agree  *)
(* about every alert no fault put in doubt, so no initial alert goes out   *)
(* twice for one incident.                                                 *)
(***************************************************************************)
THEOREM NoAlertTwice ==
    ASSUME DistinctChecksums
    PROVE  Spec => []MemoryMatchesProvider
<1>1. Init => Agreement
  BY DEF Init, Agreement, Recording, Notifying
<1>2. TypeOK /\ Agreement => MemoryMatchesProvider
  BY ConfigAssumption DEF TypeOK, Agreement, MemoryMatchesProvider
<1> QED
  BY <1>1, <1>2, TypeCorrect, AgreementStep, PTL DEF Spec

(***************************************************************************)
(* Under the same assumption the table endpoint_alerts_triggered has a row *)
(* for exactly the incidents that are open and not in doubt, at every      *)
(* point where the process may die: initializeStorage loses none of them.  *)
(***************************************************************************)
THEOREM IncidentsSurviveRestarts ==
    ASSUME DistinctChecksums
    PROVE  Spec => []RowsMatchProvider
<1>1. Init => Agreement
  BY DEF Init, Agreement, Recording, Notifying
<1>2. Agreement => RowsMatchProvider
  BY DEF Agreement, RowsMatchProvider, Recording, Notifying
<1> QED
  BY <1>1, <1>2, TypeCorrect, AgreementStep, PTL DEF Spec
-----------------------------------------------------------------------------
(* The invariant *)

HistoryTyped ==
    /\ failureRun \in Counts /\ successRun \in Counts
    /\ inheritedFailures \in BOOLEAN /\ inheritedSuccesses \in BOOLEAN
    /\ sinceSent \in [Alerts -> Ages]

(***************************************************************************)
(* The counters never exceed the runs, unless what a restart found is in   *)
(* them.  While a success is handled the failures are still the old ones.  *)
(***************************************************************************)
FailuresHappened ==
    pc \notin {"resolve", "notify"} => failures <= failureRun \/ inheritedFailures

SuccessesHappened == successes <= successRun \/ inheritedSuccesses

(***************************************************************************)
(* No alert was sent later than LastReminderSent says, and none that the   *)
(* loop has yet to reach later than its local copy says.                   *)
(***************************************************************************)
SentBefore ==
    /\ \A a \in Alerts : sinceReminder <= sinceSent[a]
    /\ pc \in {"trigger", "record"} =>
          \A a \in Alerts : i <= a => sinceRef <= sinceSent[a]

\* A process that is down has nothing in memory.
Forgotten == ~running => triggered = {}

HistoryInv ==
    /\ TypeOK /\ HistoryTyped /\ Forgotten
    /\ FailuresHappened /\ SuccessesHappened /\ SentBefore

-----------------------------------------------------------------------------
(* Steps that only watch *)

Quiet == ~HandlesFailure /\ ~HandlesSuccess /\ ~Starts

\* A step within a handler, or of the world, changes no run.
LEMMA QuietRuns ==
    ASSUME Watch, Quiet
    PROVE  /\ failureRun' = failureRun /\ successRun' = successRun
           /\ inheritedFailures' = inheritedFailures
           /\ inheritedSuccesses' = inheritedSuccesses
BY DEF Watch, Quiet

\* Nothing is recorded and no time passes.
LEMMA NothingSent ==
    ASSUME HistoryInv, Watch, running', pc # "record", sinceReminder' = sinceReminder
    PROVE  sinceSent' = sinceSent
<1>1. sinceReminder \in Nat /\ ~(sinceReminder' > sinceReminder)
  BY AlertAssumption DEF HistoryInv, TypeOK, Ages
<1>2. \A a \in Alerts : ~Recording(a)
  BY DEF Recording
<1>3. sinceSent' = [a \in Alerts |-> sinceSent[a]]
  BY <1>1, <1>2 DEF Watch
<1> QED BY <1>3 DEF HistoryInv, HistoryTyped

\* Counting on keeps a counter below its run.
LEMMA OneMoreKeepsOrder ==
    ASSUME NEW m \in Counts, NEW n \in Counts, m <= n
    PROVE  OneMore(m) <= OneMore(n) /\ OneMore(n) \in Counts /\ 0 \in Counts
BY AlertAssumption DEF Counts, OneMore

\* Growing older keeps two ages in their order.
LEMMA OlderKeepsOrder ==
    ASSUME NEW m \in Ages, NEW n \in Ages, m <= n
    PROVE  Older(m) <= Older(n) /\ Older(n) \in Ages
BY AlertAssumption DEF Ages, Older

-----------------------------------------------------------------------------
(* The counters *)

\* A failure is counted by both, and ends the successes of both.
LEMMA FailureCounted ==
    ASSUME HistoryInv, BeginTrigger, Watch
    PROVE  /\ HistoryTyped' /\ FailuresHappened' /\ SuccessesHappened' /\ SentBefore'
<1>1. /\ running /\ running' /\ pc = "idle" /\ pc' = "trigger" /\ i' = 1
      /\ successes' = 0 /\ failures' = OneMore(failures)
      /\ sinceRef' = sinceReminder /\ sinceReminder' = sinceReminder
  BY DEF BeginTrigger, rowVars, outVars
<1>2. sinceSent' = sinceSent
  BY <1>1, NothingSent
<1>3. /\ failureRun' = OneMore(failureRun) /\ successRun' = 0
      /\ inheritedFailures' = inheritedFailures /\ inheritedSuccesses' = FALSE
  BY <1>1 DEF Watch, HandlesFailure, HandlesSuccess, Starts
<1>4. failures \in Counts /\ failureRun \in Counts
  BY DEF HistoryInv, HistoryTyped, TypeOK
<1>5. HistoryTyped'
  BY <1>2, <1>3, <1>4, BoundedNumbers DEF HistoryInv, HistoryTyped
<1>6. FailuresHappened'
  BY <1>1, <1>3, <1>4, OneMoreKeepsOrder DEF HistoryInv, FailuresHappened
<1>7. SuccessesHappened'
  BY <1>1, <1>3 DEF SuccessesHappened
<1>8. SentBefore'
  BY <1>1, <1>2 DEF HistoryInv, SentBefore
<1> QED BY <1>5, <1>6, <1>7, <1>8

\* A success likewise, but the failures wait for the end of the loop.
LEMMA SuccessCounted ==
    ASSUME HistoryInv, BeginResolve, Watch
    PROVE  /\ HistoryTyped' /\ FailuresHappened' /\ SuccessesHappened' /\ SentBefore'
<1>1. /\ running /\ running' /\ pc = "idle" /\ pc' = "resolve"
      /\ successes' = OneMore(successes) /\ sinceReminder' = sinceReminder
  BY DEF BeginResolve, rowVars, outVars
<1>2. sinceSent' = sinceSent
  BY <1>1, NothingSent
<1>3. /\ failureRun' = 0 /\ successRun' = OneMore(successRun)
      /\ inheritedFailures' = FALSE /\ inheritedSuccesses' = inheritedSuccesses
  BY <1>1 DEF Watch, HandlesFailure, HandlesSuccess, Starts
<1>4. successes \in Counts /\ successRun \in Counts
  BY DEF HistoryInv, HistoryTyped, TypeOK
<1>5. HistoryTyped'
  BY <1>2, <1>3, <1>4, BoundedNumbers DEF HistoryInv, HistoryTyped
<1>6. FailuresHappened'
  BY <1>1 DEF FailuresHappened
<1>7. SuccessesHappened'
  BY <1>1, <1>3, <1>4, OneMoreKeepsOrder DEF HistoryInv, SuccessesHappened
<1>8. SentBefore'
  BY <1>1, <1>2 DEF HistoryInv, SentBefore
<1> QED BY <1>5, <1>6, <1>7, <1>8

-----------------------------------------------------------------------------
(* The rest of handleAlertsToTrigger *)

\* The loop only goes up.
LEMMA LoopGoesUp ==
    ASSUME TypeOK, NextToTrigger
    PROVE  i <= i' /\ (pc' = "trigger" => i' = i + 1)
                   /\ pc' \in {"trigger", "idle"} /\ i \in Nat /\ i' \in Nat
BY AlertAssumption DEF TypeOK, Alerts, NextToTrigger

\* An alert that is skipped or sent, or not sent, leaves counters and ages alone.
LEMMA TriggerLoop ==
    ASSUME HistoryInv, SkipTrigger \/ SendFails \/ SendSucceeds, Watch
    PROVE  /\ HistoryTyped' /\ FailuresHappened' /\ SuccessesHappened' /\ SentBefore'
<1>1. /\ running /\ running' /\ pc = "trigger"
      /\ failures' = failures /\ successes' = successes
      /\ sinceRef' = sinceRef /\ sinceReminder' = sinceReminder
      /\ NextToTrigger \/ (pc' = "record" /\ i' = i)
  <2>1. CASE SkipTrigger
    BY <2>1 DEF SkipTrigger, memVars, rowVars, outVars
  <2>2. CASE SendFails
    BY <2>2 DEF SendFails, memVars, rowVars
  <2>3. CASE SendSucceeds
    BY <2>3 DEF SendSucceeds, memVars, rowVars
  <2> QED BY <2>1, <2>2, <2>3
<1>2. i <= i' /\ i \in Nat /\ i' \in Nat /\ pc' \in {"trigger", "idle", "record"}
  BY <1>1, LoopGoesUp, AlertAssumption DEF HistoryInv, TypeOK, Alerts
<1>3. sinceSent' = sinceSent
  BY <1>1, NothingSent
<1>4. Quiet
  BY <1>1 DEF Quiet, HandlesFailure, HandlesSuccess, Starts
<1>5. /\ failureRun' = failureRun /\ successRun' = successRun
      /\ inheritedFailures' = inheritedFailures
      /\ inheritedSuccesses' = inheritedSuccesses
  BY <1>4, QuietRuns
<1>6. HistoryTyped' /\ FailuresHappened' /\ SuccessesHappened'
  BY <1>1, <1>3, <1>5
     DEF HistoryInv, HistoryTyped, FailuresHappened, SuccessesHappened
<1>7. \A a \in Alerts : i' <= a => i <= a
  BY <1>2 DEF Alerts
<1>8. SentBefore'
  BY <1>1, <1>3, <1>7 DEF HistoryInv, SentBefore
<1> QED BY <1>6, <1>8

\* What was sent is now, and so is LastReminderSent; the loop goes on behind it.
LEMMA RecordKeeps ==
    ASSUME HistoryInv, RecordTriggered, Watch
    PROVE  /\ HistoryTyped' /\ FailuresHappened' /\ SuccessesHappened' /\ SentBefore'
<1>1. /\ running /\ running' /\ pc = "record" /\ NextToTrigger
      /\ failures' = failures /\ successes' = successes
      /\ sinceRef' = sinceRef /\ sinceReminder' = 0
  BY DEF RecordTriggered
<1>2. /\ i <= i' /\ (pc' = "trigger" => i' = i + 1)
      /\ pc' \in {"trigger", "idle"} /\ i \in Nat /\ i' \in Nat
  BY <1>1, LoopGoesUp DEF HistoryInv
<1>3. ~(sinceReminder' > sinceReminder)
  BY <1>1, AlertAssumption DEF HistoryInv, TypeOK, Ages
<1>4. sinceSent' = [a \in Alerts |-> IF a = i THEN 0 ELSE sinceSent[a]]
  BY <1>1, <1>2, <1>3 DEF Watch, Recording
<1>5. Quiet
  BY <1>1 DEF Quiet, HandlesFailure, HandlesSuccess, Starts
<1>6. /\ failureRun' = failureRun /\ successRun' = successRun
      /\ inheritedFailures' = inheritedFailures
      /\ inheritedSuccesses' = inheritedSuccesses
  BY <1>5, QuietRuns
<1>7. HistoryTyped'
  BY <1>4, <1>6, BoundedNumbers DEF HistoryInv, HistoryTyped
<1>8. FailuresHappened' /\ SuccessesHappened'
  BY <1>1, <1>2, <1>6 DEF HistoryInv, FailuresHappened, SuccessesHappened
<1>9. \A a \in Alerts : sinceSent'[a] \in Nat
  BY <1>7 DEF HistoryTyped, Ages
<1>10. \A a \in Alerts : sinceReminder' <= sinceSent'[a]
  BY <1>1, <1>9
<1>11. ASSUME pc' \in {"trigger", "record"}, NEW a \in Alerts, i' <= a
       PROVE  sinceRef' <= sinceSent'[a]
  <2>1. i <= a /\ a # i
    BY <1>2, <1>11 DEF Alerts
  <2>2. sinceSent'[a] = sinceSent[a]
    BY <1>4, <2>1
  <2> QED BY <1>1, <2>1, <2>2 DEF HistoryInv, SentBefore
<1> QED BY <1>7, <1>8, <1>10, <1>11 DEF SentBefore

-----------------------------------------------------------------------------
(* The rest of handleAlertsToResolve *)

\* The end of the loop is where the failures are forgotten.
LEMMA ResolveLoop ==
    ASSUME HistoryInv, PersistSuccesses \/ SkipResolve \/ Resolve \/ NotifyResolved, Watch
    PROVE  /\ HistoryTyped' /\ FailuresHappened' /\ SuccessesHappened' /\ SentBefore'
<1>1. /\ running /\ running' /\ pc \in {"resolve", "notify"}
      /\ successes' = successes /\ sinceReminder' = sinceReminder
      /\ pc' \in {"resolve", "notify", "idle"}
      /\ pc' = "idle" => failures' = 0
  BY DEF PersistSuccesses, SkipResolve, Resolve, NotifyResolved, NextToResolve, outVars
<1>2. sinceSent' = sinceSent
  BY <1>1, NothingSent
<1>3. Quiet
  BY <1>1 DEF Quiet, HandlesFailure, HandlesSuccess, Starts
<1>4. /\ failureRun' = failureRun /\ successRun' = successRun
      /\ inheritedFailures' = inheritedFailures
      /\ inheritedSuccesses' = inheritedSuccesses
  BY <1>3, QuietRuns
<1>5. HistoryTyped' /\ SuccessesHappened'
  BY <1>1, <1>2, <1>4 DEF HistoryInv, HistoryTyped, SuccessesHappened
<1>6. failureRun \in Nat
  BY AlertAssumption DEF HistoryInv, HistoryTyped, Counts
<1>7. FailuresHappened'
  BY <1>1, <1>4, <1>6 DEF FailuresHappened
<1>8. SentBefore'
  BY <1>1, <1>2 DEF HistoryInv, SentBefore
<1> QED BY <1>5, <1>7, <1>8

-----------------------------------------------------------------------------
(* The process and time *)

\* After a crash nothing was counted and nothing was sent by this process.
LEMMA CrashKeeps ==
    ASSUME HistoryInv, Crash, Watch
    PROVE  /\ HistoryTyped' /\ FailuresHappened' /\ SuccessesHappened' /\ SentBefore'
<1>1. /\ running /\ ~running' /\ pc' = "idle"
      /\ failures' = 0 /\ successes' = 0 /\ sinceReminder' = AgeCap
  BY DEF Crash
<1>2. sinceSent' = [a \in Alerts |-> AgeCap]
  BY <1>1 DEF Watch
<1>3. Quiet
  BY <1>1 DEF Quiet, HandlesFailure, HandlesSuccess, Starts
<1>4. /\ failureRun' = failureRun /\ successRun' = successRun
      /\ inheritedFailures' = inheritedFailures
      /\ inheritedSuccesses' = inheritedSuccesses
  BY <1>3, QuietRuns
<1>5. HistoryTyped'
  BY <1>2, <1>4, BoundedNumbers DEF HistoryInv, HistoryTyped
<1>6. failureRun \in Nat /\ successRun \in Nat /\ AgeCap \in Nat
  BY AlertAssumption DEF HistoryInv, HistoryTyped, Counts
<1>7. FailuresHappened' /\ SuccessesHappened'
  BY <1>1, <1>4, <1>6 DEF FailuresHappened, SuccessesHappened
<1>8. SentBefore'
  BY <1>1, <1>2, <1>6 DEF SentBefore
<1> QED BY <1>5, <1>7, <1>8

\* Whatever a restart finds is remembered to be found.
LEMMA RestartKeeps ==
    ASSUME HistoryInv, TypeOK', Restart, Watch
    PROVE  /\ HistoryTyped' /\ FailuresHappened' /\ SuccessesHappened' /\ SentBefore'
<1>1. /\ ~running /\ running' /\ pc' = pc /\ i' = i
      /\ sinceReminder' = sinceReminder /\ sinceRef' = sinceRef
  BY DEF Restart
<1>2. /\ inheritedFailures' = (failures' > 0)
      /\ inheritedSuccesses' = (successes' > 0)
  BY <1>1 DEF Watch, Starts, HandlesFailure, HandlesSuccess
<1>3. failureRun' = failureRun /\ successRun' = successRun
  BY <1>1 DEF Watch, HandlesFailure, HandlesSuccess
<1>4. sinceReminder \in Nat /\ ~(sinceReminder' > sinceReminder)
  BY <1>1, AlertAssumption DEF HistoryInv, TypeOK, Ages
<1>5. sinceSent' = [a \in Alerts |-> sinceSent[a]]
  <2>1. \A a \in Alerts : ~(Recording(a) /\ pc' # "record")
    BY <1>1 DEF Recording
  <2> QED BY <1>1, <1>4, <2>1 DEF Watch
<1>6. sinceSent' = sinceSent
  BY <1>5 DEF HistoryInv, HistoryTyped
<1>7. HistoryTyped'
  BY <1>2, <1>3, <1>6 DEF HistoryInv, HistoryTyped
<1>8. /\ failureRun \in Nat /\ successRun \in Nat
      /\ failures' \in Nat /\ successes' \in Nat
  BY AlertAssumption DEF HistoryInv, HistoryTyped, TypeOK, Counts
<1>9. FailuresHappened' /\ SuccessesHappened'
  <2>1. failures' <= failureRun' \/ failures' > 0
    BY <1>3, <1>8
  <2>2. successes' <= successRun' \/ successes' > 0
    BY <1>3, <1>8
  <2>3. failures' <= failureRun' \/ inheritedFailures'
    BY <1>2, <2>1, Zenon
  <2>4. successes' <= successRun' \/ inheritedSuccesses'
    BY <1>2, <2>2, Zenon
  <2> QED BY <2>3, <2>4 DEF FailuresHappened, SuccessesHappened
<1>10. SentBefore'
  BY <1>1, <1>6 DEF HistoryInv, SentBefore
<1> QED BY <1>7, <1>9, <1>10

\* Time passes for the program and for those who watch it.
LEMMA TickKeeps ==
    ASSUME HistoryInv, Tick, Watch
    PROVE  /\ HistoryTyped' /\ FailuresHappened' /\ SuccessesHappened' /\ SentBefore'
<1>1. /\ running /\ running' /\ pc' = pc /\ i' = i
      /\ failures' = failures /\ successes' = successes
      /\ sinceReminder' = Older(sinceReminder) /\ sinceRef' = Older(sinceRef)
  BY DEF Tick, memVars
<1>2. /\ AgeCap \in Nat /\ sinceReminder \in 0..AgeCap /\ sinceRef \in 0..AgeCap
      /\ \A a \in Alerts : sinceSent[a] \in 0..AgeCap /\ sinceReminder <= sinceSent[a]
  BY AlertAssumption DEF HistoryInv, HistoryTyped, TypeOK, Ages, SentBefore
<1>3. \A a \in Alerts : sinceSent'[a] = Older(sinceSent[a])
  <2>1. ASSUME NEW a \in Alerts PROVE sinceSent'[a] = Older(sinceSent[a])
    <3>1. sinceSent'[a] = IF sinceReminder' > sinceReminder THEN Older(sinceSent[a])
                          ELSE sinceSent[a]
      BY <1>1 DEF Watch, Recording
    <3>2. ~(sinceReminder' > sinceReminder) => sinceSent[a] = AgeCap
      BY <1>1, <1>2 DEF Older
    <3> QED BY <1>2, <3>1, <3>2 DEF Older
  <2> QED BY <2>1
<1>4. Quiet
  BY <1>1 DEF Quiet, HandlesFailure, HandlesSuccess, Starts
<1>5. /\ failureRun' = failureRun /\ successRun' = successRun
      /\ inheritedFailures' = inheritedFailures
      /\ inheritedSuccesses' = inheritedSuccesses
  BY <1>4, QuietRuns
<1>6. sinceSent' \in [Alerts -> Ages]
  <2>1. sinceSent' = [a \in Alerts |-> sinceSent'[a]]
    BY DEF Watch
  <2>2. \A a \in Alerts : sinceSent'[a] \in Ages
    BY <1>2, <1>3 DEF Older, Ages
  <2> QED BY <2>1, <2>2
<1>7. HistoryTyped' /\ FailuresHappened' /\ SuccessesHappened'
  BY <1>1, <1>5, <1>6
     DEF HistoryInv, HistoryTyped, FailuresHappened, SuccessesHappened
<1>8. \A a \in Alerts : sinceReminder' <= sinceSent'[a]
  BY <1>1, <1>2, <1>3 DEF Older
<1>9. ASSUME pc' \in {"trigger", "record"}, NEW a \in Alerts, i' <= a
      PROVE  sinceRef' <= sinceSent'[a]
  <2>1. sinceRef <= sinceSent[a]
    BY <1>1, <1>9 DEF HistoryInv, SentBefore
  <2> QED BY <1>1, <1>2, <1>3, <2>1 DEF Older
<1> QED BY <1>7, <1>8, <1>9 DEF SentBefore

\* Only a restart brings triggered alerts back.
LEMMA CrashForgets == Forgotten /\ Next => Forgotten'
<1> SUFFICES ASSUME Forgotten, Next PROVE Forgotten'
  OBVIOUS
<1>1. CASE HandlerStep
  <2>1. BeginTrigger \/ SkipTrigger \/ SendSucceeds \/ RecordTriggered => running'
    BY DEF BeginTrigger, SkipTrigger, SendSucceeds, RecordTriggered
  <2>2. SendFails => running'
    BY DEF SendFails
  <2>3. BeginResolve \/ PersistSuccesses \/ SkipResolve => running'
    BY DEF BeginResolve, PersistSuccesses, SkipResolve
  <2>4. Resolve \/ NotifyResolved => running'
    BY DEF Resolve, NotifyResolved
  <2> QED BY <1>1, <2>1, <2>2, <2>3, <2>4 DEF HandlerStep, Forgotten
<1>2. CASE Crash
  BY <1>2 DEF Crash, Forgotten
<1>3. CASE Restart
  BY <1>3 DEF Restart, Forgotten
<1>4. CASE Tick
  BY <1>4 DEF Tick, Forgotten
<1>5. CASE WorldChanges
  BY <1>5 DEF WorldChanges, memVars, Forgotten
<1> QED BY <1>1, <1>2, <1>3, <1>4, <1>5 DEF Next

\* What the endpoint does is not counted before it is handled.
LEMMA WorldKeeps ==
    ASSUME HistoryInv, WorldChanges, Watch
    PROVE  /\ HistoryTyped' /\ FailuresHappened' /\ SuccessesHappened' /\ SentBefore'
<1>1. /\ running' = running /\ pc' = pc /\ i' = i
      /\ failures' = failures /\ successes' = successes
      /\ sinceReminder' = sinceReminder /\ sinceRef' = sinceRef
  BY DEF WorldChanges, memVars
<1>2. Quiet
  BY <1>1 DEF Quiet, HandlesFailure, HandlesSuccess, Starts
<1>3. /\ failureRun' = failureRun /\ successRun' = successRun
      /\ inheritedFailures' = inheritedFailures
      /\ inheritedSuccesses' = inheritedSuccesses
  BY <1>2, QuietRuns
<1>4. /\ sinceReminder \in Nat /\ ~(sinceReminder' > sinceReminder) /\ AgeCap \in Ages
      /\ \A a \in Alerts : sinceSent[a] \in 0..AgeCap
  BY <1>1, AlertAssumption DEF HistoryInv, HistoryTyped, TypeOK, Ages
<1>5. sinceSent' = [a \in Alerts |-> IF ~running' THEN AgeCap ELSE sinceSent[a]]
  <2>1. \A a \in Alerts : ~(Recording(a) /\ pc' # "record")
    BY <1>1 DEF Recording
  <2> QED BY <1>4, <2>1 DEF Watch
<1>6. HistoryTyped' /\ FailuresHappened' /\ SuccessesHappened'
  BY <1>1, <1>3, <1>4, <1>5
     DEF HistoryInv, HistoryTyped, FailuresHappened, SuccessesHappened, Ages
<1>7. \A a \in Alerts : sinceSent'[a] \in Nat /\ sinceSent[a] <= sinceSent'[a]
  BY <1>4, <1>5, AlertAssumption
<1>8. \A a \in Alerts : sinceSent[a] \in Nat
  BY <1>4, AlertAssumption
<1>9. sinceRef \in Nat
  BY AlertAssumption DEF HistoryInv, TypeOK, Ages
<1>10. SentBefore'
  BY <1>1, <1>4, <1>7, <1>8, <1>9 DEF HistoryInv, SentBefore
<1> QED BY <1>6, <1>10

-----------------------------------------------------------------------------
\* The invariant is inductive.
LEMMA HistoryStep == HistoryInv /\ [HNext]_hvars => HistoryInv'
<1> SUFFICES ASSUME HistoryInv, [HNext]_hvars PROVE HistoryInv'
  OBVIOUS
<1>1. CASE HNext
  <2>1. Next /\ Watch
    BY <1>1 DEF HNext
  <2>2. TypeOK'
    BY <2>1, TypeStep DEF HistoryInv
  <2>3. HistoryTyped' /\ FailuresHappened' /\ SuccessesHappened' /\ SentBefore'
    BY <2>1, <2>2, FailureCounted, SuccessCounted, TriggerLoop, RecordKeeps,
       ResolveLoop, CrashKeeps, RestartKeeps, TickKeeps, WorldKeeps
       DEF Next, HandlerStep
  <2>4. Forgotten'
    BY <2>1, CrashForgets DEF HistoryInv
  <2> QED BY <2>2, <2>3, <2>4 DEF HistoryInv
<1>2. CASE UNCHANGED hvars
  BY <1>2 DEF hvars, history, vars, HistoryInv, TypeOK, HistoryTyped,
              Forgotten, FailuresHappened, SuccessesHappened, SentBefore
<1> QED BY <1>1, <1>2

\* It holds of every execution.
LEMMA HistoryInvariance == HSpec => []HistoryInv
<1>1. HInit => HistoryInv
  <2> SUFFICES ASSUME HInit PROVE HistoryInv
    OBVIOUS
  <2>1. TypeOK
    BY BoundedNumbers DEF HInit, Init, TypeOK, PCs
  <2>2. HistoryTyped
    BY BoundedNumbers DEF HInit, HistoryTyped
  <2>3. AgeCap \in Nat
    BY AlertAssumption
  <2> QED BY <2>1, <2>2, <2>3
          DEF HInit, Init, HistoryInv, Forgotten, FailuresHappened, SuccessesHappened, SentBefore
<1> QED BY <1>1, HistoryStep, PTL DEF HSpec

-----------------------------------------------------------------------------
(* The theorems *)

\* An initial alert is sent after as many failures in a row as its threshold
\* says, or after a restart that found it (alerting.go:25-43, main.go:134-159).
THEOREM NoAlertTooEarly == HSpec => TriggerNeedsFailures
<1>1. ASSUME HistoryInv, [HNext]_hvars, NEW a \in Alerts, SendsInitial(a)
      PROVE  failureRun >= FailureThreshold[a] \/ inheritedFailures
  <2>1. pc = "trigger" /\ pc' = "record" /\ i = a
    BY <1>1 DEF SendsInitial
  <2>2. SendSucceeds
    BY <1>1, <2>1 DEF HNext, hvars, vars, Next, HandlerStep, BeginTrigger, SkipTrigger,
       SendFails, RecordTriggered, BeginResolve, PersistSuccesses, SkipResolve, Resolve,
       NotifyResolved, Crash, Restart, Tick, WorldChanges, NextToTrigger
  <2>3. ~(FailureThreshold[a] > failures)
    BY <2>1, <2>2 DEF SendSucceeds, Due, DueOnFailure, ReachedFailureThreshold
  <2>4. /\ failures \in Nat /\ failureRun \in Nat /\ FailureThreshold[a] \in Nat
        /\ failures <= failureRun \/ inheritedFailures
    BY <1>1, <2>1, AlertAssumption
       DEF HistoryInv, TypeOK, HistoryTyped, Counts, FailuresHappened
  <2> QED BY <2>3, <2>4
<1>2. HistoryInv /\ [HNext]_hvars =>
        [\A a \in Alerts : SendsInitial(a) =>
            failureRun >= FailureThreshold[a] \/ inheritedFailures]_hvars
  BY <1>1
<1> QED BY <1>2, HistoryInvariance, PTL DEF HSpec, TriggerNeedsFailures

\* An alert is resolved after as many successes in a row as its threshold
\* says, or after a restart that found successes (alerting.go:79-97).
THEOREM NoResolutionTooEarly == HSpec => ResolveNeedsSuccesses
<1>1. ASSUME HistoryInv, [HNext]_hvars, NEW a \in Alerts, Resolves(a)
      PROVE  successRun >= SuccessThreshold[a] \/ inheritedSuccesses
  <2>1. pc = "resolve" /\ running' /\ triggered' # triggered /\ a \in triggered
        /\ a \notin triggered'
    BY <1>1 DEF Resolves
  <2>2. Next
    BY <1>1, <2>1 DEF HNext, hvars, vars
  <2>3. ~BeginTrigger /\ ~SkipTrigger /\ ~SendFails /\ ~SendSucceeds /\ ~RecordTriggered
    BY <2>1 DEF BeginTrigger, SkipTrigger, SendFails, SendSucceeds, RecordTriggered
  <2>4. ~BeginResolve /\ ~PersistSuccesses /\ ~SkipResolve /\ ~NotifyResolved
    BY <2>1 DEF BeginResolve, PersistSuccesses, SkipResolve, NotifyResolved
  <2>5. ~Crash /\ ~Tick /\ ~WorldChanges
    BY <2>1 DEF Crash, Tick, WorldChanges, memVars
  <2>6. ~Restart
    BY <1>1, <2>1 DEF Restart, HistoryInv, Forgotten
  <2>7. Resolve
    BY <2>2, <2>3, <2>4, <2>5, <2>6 DEF Next, HandlerStep
  <2>8. a = i /\ DueOnSuccess(i, conf.enabled, successes, i \in triggered)
    BY <2>1, <2>7 DEF Resolve
  <2>9. ~(SuccessThreshold[a] > successes)
    BY <2>8 DEF DueOnSuccess, IsStillBelowSuccessThreshold
  <2>10. /\ successes \in Nat /\ successRun \in Nat /\ SuccessThreshold[a] \in Nat
         /\ successes <= successRun \/ inheritedSuccesses
    BY <1>1, AlertAssumption
       DEF HistoryInv, TypeOK, HistoryTyped, Counts, SuccessesHappened
  <2> QED BY <2>9, <2>10
<1>2. HistoryInv /\ [HNext]_hvars =>
        [\A a \in Alerts : Resolves(a) =>
            successRun >= SuccessThreshold[a] \/ inheritedSuccesses]_hvars
  BY <1>1
<1> QED BY <1>2, HistoryInvariance, PTL DEF HSpec, ResolveNeedsSuccesses

\* Reminders of an alert keep its own interval, although all alerts of the
\* endpoint share LastReminderSent (alerting.go:30-48 and 72).
THEOREM NoReminderTooEarly == HSpec => RemindersAreSpaced
<1>1. ASSUME HistoryInv, [HNext]_hvars, NEW a \in Alerts, SendsReminder(a)
      PROVE  sinceSent[a] >= MinimumReminderInterval[a]
  <2>1. pc = "trigger" /\ pc' = "record" /\ i = a /\ a \in triggered
    BY <1>1 DEF SendsReminder
  <2>2. SendSucceeds
    BY <1>1, <2>1 DEF HNext, hvars, vars, Next, HandlerStep, BeginTrigger, SkipTrigger,
       SendFails, RecordTriggered, BeginResolve, PersistSuccesses, SkipResolve, Resolve,
       NotifyResolved, Crash, Restart, Tick, WorldChanges, NextToTrigger
  <2>3. sinceRef >= MinimumReminderInterval[a]
    BY <2>1, <2>2 DEF SendSucceeds, Due, DueOnFailure, SendReminder
  <2>4. /\ sinceRef \in Nat /\ sinceSent[a] \in Nat /\ MinimumReminderInterval[a] \in Nat
        /\ a <= a
    BY <1>1, AlertAssumption DEF HistoryInv, TypeOK, HistoryTyped, Ages, Alerts
  <2>5. sinceRef <= sinceSent[a]
    BY <1>1, <2>1, <2>4 DEF HistoryInv, SentBefore
  <2> QED BY <2>3, <2>4, <2>5
<1>2. HistoryInv /\ [HNext]_hvars =>
        [\A a \in Alerts : SendsReminder(a) =>
            sinceSent[a] >= MinimumReminderInterval[a]]_hvars
  BY <1>1
<1> QED BY <1>2, HistoryInvariance, PTL DEF HSpec, RemindersAreSpaced
=============================================================================
