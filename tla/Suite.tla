-------------------------------- MODULE Suite --------------------------------
(***************************************************************************)
(* One suite: the loop of Suite.Execute (app/config/suite/suite.go) over   *)
(* its endpoints, the context they share (app/config/gontext), and what    *)
(* executeSuite (app/watchdog/suite.go) does with the result.              *)
(*                                                                         *)
(* A result of an endpoint is its name, whether it succeeded and where the *)
(* context values it was evaluated with came from.                         *)
(***************************************************************************)
EXTENDS Naturals, Sequences, SequencesExt

CONSTANTS
    NumberOfEndpoints, \* len(s.Endpoints)
    AlwaysRun,         \* the endpoints with always-run
    Keys,              \* the keys of the context
    InitialKeys,       \* those that s.InitialContext has
    Stores,            \* per endpoint, the keys its store sets
    Reads,             \* per endpoint, the keys its URL, body and headers use
    Absent,            \* what the context says of a key without a value
    Initially          \* the origin of a value of the initial context

Endpoints == 1..NumberOfEndpoints

\* Where a context value comes from: an endpoint, if not one of the above.
Origins == {Absent, Initially} \cup Endpoints

ASSUME SuiteAssumption ==
    /\ NumberOfEndpoints \in Nat \ {0}
    /\ AlwaysRun \subseteq Endpoints
    /\ InitialKeys \subseteq Keys
    /\ Stores \in [Endpoints -> SUBSET Keys]
    /\ Reads \in [Endpoints -> SUBSET Keys]
    /\ {Absent, Initially} \cap Endpoints = {} /\ Absent # Initially

VARIABLES
    pc,             \* where the goroutine of monitorSuite stands
    i,              \* the endpoint the loop of Execute has reached
    ctx,            \* the Gontext: where the value of each key comes from
    results,        \* result.EndpointResults
    suiteHasFailed, \* the local variable
    timer,          \* timeoutChan: running, expired, or received from
    late,           \* history: the endpoints started after the timer expired
    handled,        \* whose result HandleAlerting got for each endpoint, 0: none
    status          \* the suite result in the store

vars == <<pc, i, ctx, results, suiteHasFailed, timer, late, handled, status>>

NewGontext == [k \in Keys |-> IF k \in InitialKeys THEN Initially ELSE Absent]

NothingHandled == [e \in Endpoints |-> 0]

Results == [name : Endpoints, success : BOOLEAN, inputs : [Keys -> Origins]]

TypeOK ==
    /\ pc \in {"waiting", "loop", "evaluating", "alerting", "storing"}
    /\ i \in 1..NumberOfEndpoints + 1
    /\ ctx \in [Keys -> Origins]
    /\ results \in Seq(Results) /\ Len(results) <= NumberOfEndpoints
    /\ suiteHasFailed \in BOOLEAN
    /\ timer \in {"running", "expired", "received"}
    /\ late \subseteq Endpoints
    /\ handled \in [Endpoints -> 0..NumberOfEndpoints]
    /\ status.success \in BOOLEAN /\ status.results \in Seq(Results)

Init ==
    /\ pc = "waiting" /\ i = 1
    /\ ctx = NewGontext
    /\ results = <<>>
    /\ suiteHasFailed = FALSE
    /\ timer = "running" /\ late = {}
    /\ handled = NothingHandled
    /\ status = [success |-> FALSE, results |-> <<>>]
-----------------------------------------------------------------------------
(* Execute *)

\* Mutant: the context lives as long as the suite.
BeginWithOldContext ==
    /\ pc = "waiting"
    /\ pc' = "loop" /\ i' = 1
    /\ results' = <<>>
    /\ suiteHasFailed' = FALSE
    /\ timer' = "running" /\ late' = {}
    /\ handled' = NothingHandled
    /\ UNCHANGED <<ctx, status>>

\* A tick: a fresh context, an empty result, a timer.
Begin ==
    /\ pc = "waiting"
    /\ pc' = "loop" /\ i' = 1
    /\ ctx' = NewGontext
    /\ results' = <<>>
    /\ suiteHasFailed' = FALSE
    /\ timer' = "running" /\ late' = {}
    /\ handled' = NothingHandled
    /\ UNCHANGED status

\* The suite timeout elapses, whatever the loop is doing.
Expire ==
    /\ pc \in {"loop", "evaluating"} /\ timer = "running"
    /\ timer' = "expired"
    /\ UNCHANGED <<pc, i, ctx, results, suiteHasFailed, late, handled, status>>

Skipped(e) == suiteHasFailed /\ e \notin AlwaysRun

SkipEndpoint ==
    /\ pc = "loop" /\ i <= NumberOfEndpoints /\ Skipped(i)
    /\ i' = i + 1
    /\ UNCHANGED <<pc, ctx, results, suiteHasFailed, timer, late, handled, status>>

\* Mutant: a timeout ends the loop, the endpoints that always run included.
StartEndpointInTime ==
    /\ pc = "loop" /\ i <= NumberOfEndpoints /\ ~Skipped(i)
    /\ IF timer = "expired"
       THEN timer' = "received" /\ i' = NumberOfEndpoints + 1 /\ UNCHANGED pc
       ELSE pc' = "evaluating" /\ UNCHANGED <<i, timer>>
    /\ UNCHANGED <<ctx, results, suiteHasFailed, late, handled, status>>

(***************************************************************************)
(* The select on timeoutChan.  Its break only leaves the select: the error *)
(* is added to the result, and the endpoint is evaluated all the same.     *)
(***************************************************************************)
StartEndpoint ==
    /\ pc = "loop" /\ i <= NumberOfEndpoints /\ ~Skipped(i)
    /\ timer' = IF timer = "expired" THEN "received" ELSE timer
    /\ late' = IF timer = "running" THEN late ELSE late \cup {i}
    /\ pc' = "evaluating"
    /\ UNCHANGED <<i, ctx, results, suiteHasFailed, handled, status>>

\* EvaluateHealthWithContext fails when a placeholder is not in the context,
\* otherwise as the conditions have it.
MayBe(e, success) == success => \A k \in Reads[e] : ctx[k] # Absent

\* StoreResultValues, on failures too; a key whose value cannot be extracted
\* keeps the value it had.
StoreResultValues(e, extracted) ==
    ctx' = [k \in Keys |-> IF k \in extracted THEN e ELSE ctx[k]]

FinishEndpoint ==
    /\ pc = "evaluating"
    /\ \E success \in BOOLEAN, extracted \in SUBSET Stores[i] :
         /\ MayBe(i, success)
         /\ StoreResultValues(i, extracted)
         /\ results' = Append(results, [name |-> i, success |-> success, inputs |-> ctx])
         /\ suiteHasFailed' = (suiteHasFailed \/ ~success)
    /\ i' = i + 1
    /\ pc' = "loop"
    /\ UNCHANGED <<timer, late, handled, status>>

EndExecute ==
    /\ pc = "loop" /\ i > NumberOfEndpoints
    /\ pc' = "alerting"
    /\ UNCHANGED <<i, ctx, results, suiteHasFailed, timer, late, handled, status>>

\* Mutant: only the last result counts.
LastResultSucceeded == results = <<>> \/ (Last(results).success /\ timer # "received")

\* Every result a success and no error of the suite itself.
CalculateSuccess ==
    /\ \A r \in Range(results) : r.success
    /\ timer # "received"
-----------------------------------------------------------------------------
(* executeSuite *)

\* Mutant: off by one between the two lists.
HandleNextResult ==
    /\ pc = "alerting"
    /\ \E muted \in SUBSET Endpoints :
         handled' = [e \in Endpoints |->
                        IF e < Len(results) /\ e \notin muted THEN results[e + 1].name ELSE 0]
    /\ pc' = "storing"
    /\ UNCHANGED <<i, ctx, results, suiteHasFailed, timer, late, status>>

(***************************************************************************)
(* s.Endpoints and result.EndpointResults are walked by the same index,    *)
(* although skipped endpoints have no result.  A maintenance window mutes  *)
(* the endpoints it covers.                                                *)
(***************************************************************************)
HandleAlertings ==
    /\ pc = "alerting"
    /\ \E muted \in SUBSET Endpoints :
         handled' = [e \in Endpoints |->
                        IF e <= Len(results) /\ e \notin muted THEN results[e].name ELSE 0]
    /\ pc' = "storing"
    /\ UNCHANGED <<i, ctx, results, suiteHasFailed, timer, late, status>>

\* UpdateSuiteStatus; an error of the store is logged.
UpdateSuiteStatus ==
    /\ pc = "storing"
    /\ status' \in {[success |-> CalculateSuccess, results |-> results], status}
    /\ pc' = "waiting"
    /\ UNCHANGED <<i, ctx, results, suiteHasFailed, timer, late, handled>>

Next ==
    \/ Begin \/ Expire \/ SkipEndpoint \/ StartEndpoint \/ FinishEndpoint \/ EndExecute
    \/ HandleAlertings \/ UpdateSuiteStatus

Spec == Init /\ [][Next]_vars
-----------------------------------------------------------------------------
(* Properties *)

Executed(rs) == [n \in DOMAIN rs |-> rs[n].name]

(***************************************************************************)
(* "The suite will be considered successful only if all required endpoints *)
(* pass their conditions" (README): a suite that is stored as successful   *)
(* ran every endpoint, in order, each of them passed, and none was started *)
(* after the timeout had elapsed.  Nothing is said of a timeout that       *)
(* elapses while the last endpoint is evaluated, which is not looked at.   *)
(***************************************************************************)
SuccessMeansAllRan ==
    [][status' # status /\ status'.success =>
        /\ Executed(status'.results) = [e \in Endpoints |-> e]
        /\ \A r \in Range(status'.results) : r.success
        /\ late = {}]_vars

(***************************************************************************)
(* Once Execute has returned, an endpoint without a result is not          *)
(* always-run and comes after one that failed: neither a timeout nor a     *)
(* missing context value keeps an always-run endpoint (a cleanup) from     *)
(* being evaluated.                                                        *)
(***************************************************************************)
OnlyFailureSkips ==
    pc \in {"alerting", "storing"} =>
        \A e \in Endpoints \ Range(Executed(results)) :
            /\ e \notin AlwaysRun
            /\ \E r \in Range(results) : r.name < e /\ ~r.success

(***************************************************************************)
(* No value leaks from one execution of the suite into the next, nor past  *)
(* an endpoint that was skipped: an endpoint that succeeded found every    *)
(* key it uses in the initial context or had it from an endpoint that was  *)
(* evaluated before it in the same execution.                              *)
(***************************************************************************)
InputsComeFromBefore ==
    \A n \in DOMAIN results : results[n].success =>
        \A k \in Reads[results[n].name] :
            \/ results[n].inputs[k] = Initially /\ k \in InitialKeys
            \/ \E m \in 1..n - 1 : results[n].inputs[k] = results[m].name

(***************************************************************************)
(* The alerts of an endpoint are decided on its own result as long as no   *)
(* endpoint before it was skipped.                                         *)
(***************************************************************************)
OwnResultUpToTheFirstSkip ==
    \A e \in Endpoints :
        (\A d \in 1..e : d \in Range(Executed(results))) => handled[e] \in {0, e}

(***************************************************************************)
(* "Configure alerts on individual endpoints within the suite" (README):   *)
(* the alerts of an endpoint are only ever decided on its own result.      *)
(***************************************************************************)
AlertsFollowOwnResult == \A e \in Endpoints : handled[e] \in {0, e}
=============================================================================
