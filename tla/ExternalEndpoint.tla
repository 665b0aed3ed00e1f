-------------------------- MODULE ExternalEndpoint --------------------------
(***************************************************************************)
(* One external endpoint.  Its results are pushed through the API          *)
(* (CreateExternalEndpointResult of app/api/external_endpoint.go), one     *)
(* goroutine per request, while the goroutine of                           *)
(* monitorExternalEndpointHeartbeat (app/watchdog/external_endpoint.go)    *)
(* makes up a failure when nothing was pushed for a heartbeat interval.    *)
(*                                                                         *)
(* Both copy the counters with ToEndpoint(), run HandleAlerting on the     *)
(* copy and write the copy back; the alerts themselves are shared by       *)
(* pointer.  No lock covers any of this, so the steps below interleave.    *)
(* All alerts are enabled and have a provider: the others are never        *)
(* touched, see Alerting.                                                  *)
(***************************************************************************)
EXTENDS AlertRules, FiniteSets

CONSTANTS
    Pushers,        \* the requests that may be in flight at the same time
    Heartbeat,      \* the goroutine of monitorExternalEndpointHeartbeat
    Installations   \* which of them there may be: without heartbeat.interval,
                    \* that goroutine is not started

Procs == Pushers \cup {Heartbeat}

ASSUME ProcAssumption ==
    IsFiniteSet(Pushers) /\ Heartbeat \notin Pushers /\ Installations \subseteq SUBSET Procs

VARIABLES
    installed,  \* which goroutines there are
    failures,   \* ee.NumberOfFailuresInARow
    successes,  \* ee.NumberOfSuccessesInARow
    triggered,  \* the alerts with Alert.Triggered
    persisted,  \* the alerts with a row in endpoint_alerts_triggered
    newest,     \* the newest stored result: ticker firings since, and whether
                \* the heartbeat made it up
    pc,         \* where each goroutine stands
    result,     \* the Success field of the result it handles
    copy,       \* its convertedEndpoint: both counters
    at,         \* the alert its loop has reached
    initial,    \* its sendInitialAlert
    initials,   \* history: initial alerts sent since the last resolution
    overlapped, \* history: two goroutines were in a handler at the same time
    truth       \* history: results in a row as handled, until an overlap

shared == <<failures, successes, triggered, persisted>>
locals == <<result, copy, at, initial>>
moving == <<shared, newest, pc, locals, initials, overlapped, truth>>
vars == <<installed, moving>>

Counters == [failures : Counts, successes : Counts]

NoCount == [failures |-> 0, successes |-> 0]

PCs == {"idle", "insert", "check", "loop", "send", "syncSuccesses", "syncFailures"}

TypeOK ==
    /\ installed \in Installations
    /\ failures \in Counts /\ successes \in Counts
    /\ triggered \subseteq Alerts /\ persisted \subseteq Alerts
    /\ newest \in [firings : 0..2, madeUp : BOOLEAN]
    /\ pc \in [Procs -> PCs]
    /\ result \in [Procs -> BOOLEAN]
    /\ copy \in [Procs -> Counters]
    /\ at \in [Procs -> Alerts]
    /\ initial \in [Procs -> BOOLEAN]
    /\ initials \in [Alerts -> Nat]
    /\ overlapped \in BOOLEAN
    /\ truth \in Counters

Init ==
    /\ installed \in Installations
    /\ failures = 0 /\ successes = 0
    /\ triggered = {} /\ persisted = {}
    /\ newest = [firings |-> 2, madeUp |-> FALSE]
    /\ pc = [p \in Procs |-> "idle"]
    /\ result = [p \in Procs |-> FALSE]
    /\ copy = [p \in Procs |-> NoCount]
    /\ at = [p \in Procs |-> 1]
    /\ initial = [p \in Procs |-> FALSE]
    /\ initials = [a \in Alerts |-> 0]
    /\ overlapped = FALSE
    /\ truth = NoCount
-----------------------------------------------------------------------------
(* Local state *)

Goto(p, where) == pc' = [pc EXCEPT ![p] = where]

\* The request or the execution ends; its local variables are dead.
Return(p) ==
    /\ Goto(p, "idle")
    /\ result' = [result EXCEPT ![p] = FALSE]
    /\ copy' = [copy EXCEPT ![p] = NoCount]
    /\ at' = [at EXCEPT ![p] = 1]
    /\ initial' = [initial EXCEPT ![p] = FALSE]

\* convertedEndpoint := ee.ToEndpoint()
ToEndpoint(p) ==
    LET overlap == overlapped \/ \E q \in Procs \ {p} : pc[q] # "idle"
    IN /\ copy' = [copy EXCEPT ![p] = [failures |-> failures, successes |-> successes]]
       /\ overlapped' = overlap
       /\ truth' = IF overlap THEN NoCount ELSE truth

\* One more result of its kind in a row; the failures in a row of the copy end
\* with the loop, where nothing reads them any more.
Counted(c, success) ==
    IF success THEN [failures |-> 0, successes |-> OneMore(c.successes)]
               ELSE [failures |-> OneMore(c.failures), successes |-> 0]

\* HandleAlerting begins, on the copy.
HandleAlerting(p) ==
    /\ copy' = [copy EXCEPT ![p] = Counted(@, result[p])]
    /\ truth' = IF overlapped THEN truth ELSE Counted(truth, result[p])
    /\ Goto(p, "loop")
    /\ UNCHANGED <<result, at, initial>>

\* A maintenance window is open: the alerts are not looked at.
Muted(p) == Return(p) /\ UNCHANGED truth
-----------------------------------------------------------------------------
(* CreateExternalEndpointResult *)

\* A request with a valid token, key and success parameter; any other request
\* is refused before it touches anything.
Push(p) ==
    /\ p \in installed /\ pc[p] = "idle"
    /\ \E success \in BOOLEAN : result' = [result EXCEPT ![p] = success]
    /\ ToEndpoint(p)
    /\ Goto(p, "insert")
    /\ UNCHANGED <<shared, newest, at, initial, initials>>

\* Only the global maintenance window mutes a push; the windows of the
\* endpoint itself are not consulted.
PushInsert(p) ==
    /\ pc[p] = "insert"
    /\ newest' = [firings |-> 0, madeUp |-> FALSE]
    /\ HandleAlerting(p) \/ Muted(p)
    /\ UNCHANGED <<shared, initials, overlapped>>

\* InsertEndpointResult fails: the client gets an error, no alert is handled.
PushInsertFails(p) ==
    /\ pc[p] = "insert"
    /\ Return(p)
    /\ UNCHANGED <<shared, newest, initials, overlapped, truth>>
-----------------------------------------------------------------------------
(* executeExternalEndpointHeartbeat *)

Firing == newest' = [newest EXCEPT !.firings = IF @ < 2 THEN @ + 1 ELSE @]

(***************************************************************************)
(* The ticker fires, but the connectivity checker has no connection, or    *)
(* Acquire failed because the context was cancelled: the execution returns *)
(* before it has looked at anything.                                       *)
(***************************************************************************)
HeartbeatSkips ==
    /\ Heartbeat \in installed /\ pc[Heartbeat] = "idle"
    /\ Firing
    /\ UNCHANGED <<shared, pc, locals, initials, overlapped, truth>>

\* The ticker fires; the counters are copied before the store is asked.
HeartbeatFires ==
    /\ Heartbeat \in installed /\ pc[Heartbeat] = "idle"
    /\ Firing
    /\ ToEndpoint(Heartbeat)
    /\ Goto(Heartbeat, "check")
    /\ UNCHANGED <<shared, result, at, initial, initials>>

(***************************************************************************)
(* HasEndpointStatusNewerThan(now - interval).  A result stored since the  *)
(* firing before is newer.  One that an earlier heartbeat made up right    *)
(* after that firing is on the edge: it counts as an update or not,        *)
(* depending on which of the two executions was quicker to read the clock. *)
(***************************************************************************)
HeartbeatFindsResult ==
    /\ pc[Heartbeat] = "check"
    /\ newest.firings < 2
    /\ Return(Heartbeat)
    /\ UNCHANGED <<shared, newest, initials, overlapped, truth>>

\* There is no newer result, or the query fails, which the SQL store answers
\* with "no newer result" too: for a time that is not zero neither store
\* returns the error after which the execution would end.
HeartbeatFindsSilence ==
    /\ pc[Heartbeat] = "check"
    /\ Goto(Heartbeat, "insert")
    /\ UNCHANGED <<shared, newest, locals, initials, overlapped, truth>>

\* UpdateEndpointStatus logs an error of the store and goes on.  The global
\* window and those of the endpoint mute the heartbeat.
HeartbeatInsert ==
    /\ pc[Heartbeat] = "insert"
    /\ newest' \in {[firings |-> 0, madeUp |-> TRUE], newest}
    /\ HandleAlerting(Heartbeat) \/ Muted(Heartbeat)
    /\ UNCHANGED <<shared, initials, overlapped>>
-----------------------------------------------------------------------------
(* The loop of HandleAlerting over the alerts *)

NextAlert(p) ==
    IF at[p] < NumberOfAlerts
    THEN at' = [at EXCEPT ![p] = @ + 1] /\ Goto(p, "loop")
    ELSE at' = at /\ Goto(p, "syncSuccesses")

\* LastReminderSent of the copy is the zero time: as old as can be.
Due(p) ==
    DueOnFailure(at[p], Alerts, copy[p].failures, at[p] \in triggered, AgeCap)

\* Nothing to send, or nothing to resolve, for this alert.
SkipAlert(p) ==
    /\ pc[p] = "loop"
    /\ IF result[p] THEN at[p] \notin triggered ELSE ~Due(p)
    /\ NextAlert(p)
    /\ UNCHANGED <<shared, newest, result, copy, initial, initials, overlapped, truth>>

\* The decision to send reads Alert.Triggered; the request takes its time.
DecideToSend(p) ==
    /\ pc[p] = "loop" /\ ~result[p] /\ Due(p)
    /\ initial' = [initial EXCEPT ![p] = at[p] \notin triggered]
    /\ Goto(p, "send")
    /\ UNCHANGED <<shared, newest, result, copy, at, initials, overlapped, truth>>

SendFails(p) ==
    /\ pc[p] = "send"
    /\ NextAlert(p)
    /\ UNCHANGED <<shared, newest, result, copy, initial, initials, overlapped, truth>>

\* Mutant: the alert is set on a copy of its own.
SendSucceedsOnACopy(p) ==
    /\ pc[p] = "send"
    /\ persisted' = persisted \cup {at[p]}
    /\ initials' = IF initial[p] THEN [initials EXCEPT ![at[p]] = @ + 1] ELSE initials
    /\ NextAlert(p)
    /\ UNCHANGED <<failures, successes, triggered, newest, result, copy,
                   initial, overlapped, truth>>

\* Sent: Triggered is set for an initial alert, the row is written for both.
SendSucceeds(p) ==
    /\ pc[p] = "send"
    /\ triggered' = IF initial[p] THEN triggered \cup {at[p]} ELSE triggered
    /\ persisted' = persisted \cup {at[p]}
    /\ initials' = IF initial[p] THEN [initials EXCEPT ![at[p]] = @ + 1] ELSE initials
    /\ NextAlert(p)
    /\ UNCHANGED <<failures, successes, newest, result, copy,
                   initial, overlapped, truth>>

\* A triggered alert that needs more successes has the count persisted.
PersistSuccesses(p) ==
    /\ pc[p] = "loop" /\ result[p] /\ at[p] \in triggered
    /\ IsStillBelowSuccessThreshold(at[p], copy[p].successes)
    /\ persisted' = persisted \cup {at[p]}
    /\ NextAlert(p)
    /\ UNCHANGED <<failures, successes, triggered, newest, result,
                   copy, initial, initials, overlapped, truth>>

\* Triggered is reset and the row deleted; whether the provider is then told,
\* and with what outcome, changes nothing here.
Resolve(p) ==
    /\ pc[p] = "loop" /\ result[p]
    /\ DueOnSuccess(at[p], Alerts, copy[p].successes, at[p] \in triggered)
    /\ triggered' = triggered \ {at[p]}
    /\ persisted' = persisted \ {at[p]}
    /\ initials' = [initials EXCEPT ![at[p]] = 0]
    /\ NextAlert(p)
    /\ UNCHANGED <<failures, successes, newest, result, copy,
                   initial, overlapped, truth>>

\* Mutant: the failures are not written back.
SyncNoFailures(p) ==
    /\ pc[p] = "syncFailures"
    /\ Return(p)
    /\ UNCHANGED <<shared, newest, initials, overlapped, truth>>

\* Mutant: the count is only written back when nobody else is in a handler.
SyncSuccessesIfAlone(p) ==
    /\ pc[p] = "syncSuccesses"
    /\ successes' = IF \A q \in Procs \ {p} : pc[q] = "idle" THEN copy[p].successes
                                                             ELSE successes
    /\ Goto(p, "syncFailures")
    /\ UNCHANGED <<failures, triggered, persisted, newest, locals,
                   initials, overlapped, truth>>

\* The copy is written back in two assignments, whatever happened meanwhile.
SyncSuccesses(p) ==
    /\ pc[p] = "syncSuccesses"
    /\ successes' = copy[p].successes
    /\ Goto(p, "syncFailures")
    /\ UNCHANGED <<failures, triggered, persisted, newest, locals,
                   initials, overlapped, truth>>

SyncFailures(p) ==
    /\ pc[p] = "syncFailures"
    /\ failures' = copy[p].failures
    /\ Return(p)
    /\ UNCHANGED <<successes, triggered, persisted, newest,
                   initials, overlapped, truth>>
-----------------------------------------------------------------------------
LoopStep(p) ==
    \/ SkipAlert(p) \/ DecideToSend(p) \/ SendFails(p) \/ SendSucceeds(p)
    \/ PersistSuccesses(p) \/ Resolve(p) \/ SyncSuccesses(p) \/ SyncFailures(p)

PushStep(p) == PushInsert(p) \/ PushInsertFails(p) \/ LoopStep(p)

HeartbeatStep ==
    \/ HeartbeatFindsResult \/ HeartbeatFindsSilence
    \/ HeartbeatInsert \/ LoopStep(Heartbeat)

Next ==
    /\ \/ \E p \in Pushers : Push(p) \/ PushStep(p)
       \/ HeartbeatSkips \/ HeartbeatFires \/ HeartbeatStep
    /\ UNCHANGED installed

Spec == Init /\ [][Next]_vars

(***************************************************************************)
(* A request that was accepted is served, and an execution that began      *)
(* ends; the store works now and then, no reading of the clock is always   *)
(* the unlucky one, no maintenance window lasts for good, and the provider *)
(* does not refuse every alert.  Clients need not push, and no firing need *)
(* find a connection.                                                      *)
(***************************************************************************)
Fairness ==
    /\ \A p \in Pushers : WF_moving(PushStep(p))
    /\ WF_moving(HeartbeatStep)
    /\ SF_moving(HeartbeatInsert /\ HandleAlerting(Heartbeat))
    /\ \A p \in Procs, a \in Alerts : SF_moving(SendSucceeds(p) /\ at[p] = a)

FairSpec == Spec /\ Fairness
-----------------------------------------------------------------------------
(* Properties *)

Quiet == \A p \in Procs : pc[p] = "idle"

(***************************************************************************)
(* Requests and heartbeats that never overlapped count exactly: between    *)
(* them the counters of the external endpoint are those of the results     *)
(* handled, and no incident got a second initial alert.                    *)
(***************************************************************************)
SequentialUseIsExact ==
    Quiet /\ ~overlapped =>
        /\ truth = [failures |-> failures, successes |-> successes]
        /\ persisted = triggered
        /\ \A a \in Alerts : initials[a] = IF a \in triggered THEN 1 ELSE 0

(***************************************************************************)
(* However the goroutines interleave, one incident gets at most one        *)
(* initial alert from each of them: Alert.Triggered stops everyone who     *)
(* looks after the first send has returned.                                *)
(***************************************************************************)
DuplicatesBounded ==
    \A a \in Alerts : initials[a] <= Cardinality(installed)

(***************************************************************************)
(* "If no update is received within this interval, alerts will be          *)
(* triggered" (README on heartbeat.interval): when clients fall silent     *)
(* every alert is triggered in the end and stays so, although every other  *)
(* heartbeat may take the failure its predecessor stored for an update.    *)
(* That takes a connection: a heartbeat that is skipped at every firing    *)
(* triggers nothing, so the connection must be there again and again.      *)
(***************************************************************************)
SilenceTriggers ==
    /\ <>[](\A p \in Pushers : pc[p] = "idle")
    /\ []<>(pc[Heartbeat] = "check")
    => \A a \in Alerts : <>[](a \in triggered)

(***************************************************************************)
(* Counts lost to the races on write-back delay a resolution, they do not  *)
(* prevent it: when nothing but successes are pushed any more, by requests *)
(* that may go on overlapping for good, and they are handled again and     *)
(* again, and the heartbeat finds them, no alert stays triggered.          *)
(***************************************************************************)
SuccessesResolve ==
    /\ <>[](\A p \in Pushers : pc[p] # "idle" => result[p])
    /\ <>[](pc[Heartbeat] \in {"idle", "check"})
    /\ []<>(\E p \in Pushers : pc[p] = "syncFailures")
    => \A a \in Alerts : <>[](a \notin triggered)
=============================================================================
