----------------------------- MODULE Incidents -----------------------------
(***************************************************************************)
(* From a loaded provider to what is open on its side: how each package    *)
(* under app/alerting/provider ties the resolution of an alert to what it  *)
(* opened, over reminders, failing and unreadable answers, crashes, and    *)
(* the table of triggered alerts that ResolveKey is saved in.              *)
(*                                                                         *)
(* One endpoint has the alerts, all of the provider's type.  When they are *)
(* due is Alerting's business: here they may be at any time.               *)
(***************************************************************************)
EXTENDS ProviderConfig, FiniteSets

CONSTANTS
    Alerts,         \* alerts of the endpoint, all of one type
    Uses,           \* installations: a provider type and how it is configured,
                    \* and as a bound whether its alerts become due
    MaxIncidents,   \* bound on the incidents there are names for
    Recipients,     \* len(cfg.To) where each recipient gets a request
    IssuesPerPage   \* of the 100 issues that are listed, how many are left for
                    \* the endpoint's by those of others, at the least

ASSUME IncidentsAssumption ==
    /\ IsFiniteSet(Alerts)
    /\ MaxIncidents \in Nat \ {0} /\ Recipients \in Nat \ {0}
    /\ IssuesPerPage \in Nat
    /\ \A installation \in Uses :
        /\ installation.type \in AlertTypes
        /\ DOMAIN installation.setup.overrides \subseteq Nat
        /\ installation.threshold \in Int /\ installation.defaultAlert \in Int

VARIABLES
    use,        \* the installation: a member of Uses
    up,         \* the process is running
    triggered,  \* Alert.Triggered
    resolveKey, \* Alert.ResolveKey
    rows,       \* endpoint_alerts_triggered: the resolve key of each alert
    stage,      \* where the handler is, and for which alert
    open,       \* the provider's side: open incidents, and of which alert
    abandoned,  \* those of which the program was never told, or lost track
    told        \* per alert, how many recipients were told of it

vars == <<use, up, triggered, resolveKey, rows, stage, open, abandoned, told>>

NoKey == 0

NoRow == -1

\* The key that is made of the endpoint's group and name.
EndpointKey == 1

Incident(id, a) == [id |-> id, alert |-> a]

Idle == [at |-> "idle"]

TypeOK ==
    /\ use \in Uses /\ up \in BOOLEAN
    /\ triggered \in [Alerts -> BOOLEAN]
    /\ resolveKey \in [Alerts -> NoKey..MaxIncidents]
    /\ rows \in [Alerts -> NoRow..MaxIncidents]
    /\ stage \in {Idle} \cup [at : {"save", "notify"}, alert : Alerts]
    /\ abandoned \subseteq open
    /\ open \subseteq [id : 1..MaxIncidents, alert : Alerts]
    /\ told \in [Alerts -> 0..Recipients]

Init ==
    /\ use \in Uses
    /\ up = FALSE
    /\ triggered = [a \in Alerts |-> FALSE]
    /\ resolveKey = [a \in Alerts |-> NoKey]
    /\ rows = [a \in Alerts |-> NoRow]
    /\ stage = Idle
    /\ open = {} /\ abandoned = {}
    /\ told = [a \in Alerts |-> 0]
-----------------------------------------------------------------------------
Provider == AlertingProviders[use.type]

\* validateAlertingConfig left the provider in place.
Configured == Validate(Provider, use.setup)

\* GetConfig, the first thing in every Send.
ConfigOfSend == GetConfig(Provider, use.setup, use.group, use.override)

OpenFor(a) == {i \in open : i.alert = a}

\* A key that nobody has used: a UUID, or one that the service makes up.  Which
\* one does not matter: the least.
Fresh ==
    LET unused == {id \in 2..MaxIncidents :
                    /\ \A i \in open : i.id # id
                    /\ \A a \in Alerts : id \notin {resolveKey[a], rows[a]}}
    IN  {id \in unused : \A other \in unused : id <= other}

\* What Send does to ResolveKey before the request, whatever comes of it.
KeyInRequest(a) ==
    IF Provider.incident = "generated" /\ resolveKey[a] = NoKey
    THEN Fresh ELSE {resolveKey[a]}

\* The incident that a request to trigger refers to, once it has arrived.
Addressed(key) ==
    CASE Provider.incident = "endpoint" -> {EndpointKey}
      [] Provider.incident \in {"generated", "continued"} /\ key # NoKey -> {key}
      [] OTHER -> Fresh

(***************************************************************************)
(* ResolveKey after an answer that names the incident.  It is only looked  *)
(* at when the resolution will be sent, except by incident.io.             *)
(***************************************************************************)
KeyFromAnswer(key, id) ==
    IF \/ Provider.incident = "continued"
       \/ use.sendOnResolved
            /\ (Provider.incident = "returned" \/ Provider.calls = "close")
    THEN id ELSE key

\* Incidents that exist at all at this provider.
Opens(id, a) == IF Provider.incident = "nothing" THEN {} ELSE {Incident(id, a)}

Reaches(a, n) == told' = [told EXCEPT ![a] = IF n > @ THEN n ELSE @]
-----------------------------------------------------------------------------
\* Mutant: only the flag is restored.
RestoredFlag(a) == [triggered |-> rows[a] # NoRow, key |-> NoKey]

\* GetTriggeredEndpointAlert.  Alerts of suites are not asked for.
Restored(a) ==
    IF use.owner # "suite" /\ rows[a] # NoRow
    THEN [triggered |-> TRUE, key |-> rows[a]]
    ELSE [triggered |-> FALSE, key |-> NoKey]

\* The file is loaded, and initializeStorage looks for triggered alerts.
Start ==
    /\ ~up
    /\ up' = TRUE
    /\ triggered' = [a \in Alerts |-> Restored(a).triggered]
    /\ resolveKey' = [a \in Alerts |-> Restored(a).key]
    /\ UNCHANGED <<use, rows, stage, open, abandoned, told>>

\* An initial alert, or a reminder, is due, and the provider is not nil.
Due(a) == up /\ stage = Idle /\ Configured /\ use.due

\* Mutant: the error of a later recipient is only logged.
SendRefusedLogged(a) ==
    /\ Due(a) /\ ConfigOfSend.ok
    /\ \E n \in 0..Recipients - 1 :
        /\ n > 0 => Provider.calls = "each"
        /\ Reaches(a, n)
        /\ triggered' = [triggered EXCEPT ![a] = n > 0 \/ @]
    /\ UNCHANGED <<use, up, resolveKey, rows, stage, open, abandoned>>

\* Send returns before any request, or every request was refused: nothing
\* arrived but, with one request per recipient, the first n.
SendRefused(a) ==
    /\ Due(a)
    /\ \E n \in 0..Recipients - 1, key \in KeyInRequest(a) :
        /\ n > 0 => Provider.calls = "each" /\ ConfigOfSend.ok
        /\ Reaches(a, n)
        /\ resolveKey' = [resolveKey EXCEPT
                            ![a] = IF ConfigOfSend.ok THEN key ELSE @]
    /\ UNCHANGED <<use, up, triggered, rows, stage, open, abandoned>>

\* The request arrived but its answer did not: Send returns an error.
SendLost(a) ==
    /\ Due(a) /\ ConfigOfSend.ok
    /\ \E n \in 1..Recipients, key \in KeyInRequest(a) : \E id \in Addressed(key) :
        /\ n < Recipients => Provider.calls = "each"
        /\ Reaches(a, n)
        /\ resolveKey' = [resolveKey EXCEPT ![a] = key]
        /\ open' = open \cup Opens(id, a)
        /\ abandoned' = abandoned \cup (Opens(id, a) \ open)
    /\ UNCHANGED <<use, up, triggered, rows, stage>>

\* Send returns nil: the alert is triggered, its row yet to be written.
SendAccepted(a) ==
    /\ Due(a) /\ ConfigOfSend.ok
    /\ \E key \in KeyInRequest(a) : \E id \in Addressed(key) :
        /\ resolveKey' = [resolveKey EXCEPT ![a] = KeyFromAnswer(key, id)]
        /\ open' = open \cup Opens(id, a)
        /\ abandoned' =
            (abandoned \cup IF Provider.incident = "returned" THEN OpenFor(a) ELSE {})
                \ {Incident(id, a)}
    /\ Reaches(a, Recipients)
    /\ triggered' = [triggered EXCEPT ![a] = TRUE]
    /\ stage' = [at |-> "save", alert |-> a]
    /\ UNCHANGED <<use, up, rows>>

(***************************************************************************)
(* The body of a good answer cannot be decoded.  PagerDuty's Send returns  *)
(* nil all the same and keeps the key it had; incident.io's clears the key *)
(* and returns the error.                                                  *)
(***************************************************************************)
SendUnreadable(a) ==
    /\ Due(a) /\ ConfigOfSend.ok
    /\ \E id \in Addressed(resolveKey[a]) :
        /\ open' = open \cup {Incident(id, a)}
        /\ \/ /\ Provider.incident = "returned" /\ use.sendOnResolved
              /\ abandoned' = abandoned \cup {Incident(id, a)}
              /\ triggered' = [triggered EXCEPT ![a] = TRUE]
              /\ stage' = [at |-> "save", alert |-> a]
              /\ Reaches(a, Recipients)
              /\ UNCHANGED resolveKey
           \/ /\ Provider.incident = "continued"
              /\ abandoned' = abandoned \cup {Incident(id, a)} \cup OpenFor(a)
              /\ resolveKey' = [resolveKey EXCEPT ![a] = NoKey]
              /\ Reaches(a, Recipients)
              /\ UNCHANGED <<triggered, stage>>
    /\ UNCHANGED <<use, up, rows>>

\* UpsertTriggeredEndpointAlert.
Save ==
    /\ up /\ stage.at = "save"
    /\ rows' = [rows EXCEPT ![stage.alert] = resolveKey[stage.alert]]
    /\ stage' = Idle
    /\ UNCHANGED <<use, up, triggered, resolveKey, open, abandoned, told>>
-----------------------------------------------------------------------------
\* Mutant: the row stays.
ResolveInMemory(a) ==
    /\ up /\ stage = Idle /\ triggered[a]
    /\ triggered' = [triggered EXCEPT ![a] = FALSE]
    /\ told' = [told EXCEPT ![a] = 0]
    /\ IF use.sendOnResolved /\ Configured
       THEN stage' = [at |-> "notify", alert |-> a] /\ UNCHANGED abandoned
       ELSE abandoned' = abandoned \cup OpenFor(a) /\ UNCHANGED stage
    /\ UNCHANGED <<use, up, resolveKey, rows, open>>

\* The first half of a resolution: the flag and the row go.
Resolve(a) ==
    /\ up /\ stage = Idle /\ triggered[a]
    /\ triggered' = [triggered EXCEPT ![a] = FALSE]
    /\ rows' = [rows EXCEPT ![a] = NoRow]
    /\ told' = [told EXCEPT ![a] = 0]
    /\ IF use.sendOnResolved /\ Configured
       THEN stage' = [at |-> "notify", alert |-> a] /\ UNCHANGED abandoned
       ELSE abandoned' = abandoned \cup OpenFor(a) /\ UNCHANGED stage
    /\ UNCHANGED <<use, up, resolveKey, open>>

\* More issues are open than the one page that is listed may hold.
PageOverflows == Provider.incident = "issues" /\ Cardinality(open) > IssuesPerPage

(***************************************************************************)
(* What a request to resolve may close: the issues with the endpoint's     *)
(* title that are on the page, or the incidents of the key.  Which issues  *)
(* come first is the service's choice.                                     *)
(***************************************************************************)
Closes(key) ==
    CASE PageOverflows -> {listed \in SUBSET open : Cardinality(listed) >= IssuesPerPage}
      [] Provider.incident = "issues" /\ ~PageOverflows -> {open}
      [] Provider.incident = "endpoint" -> {{i \in open : i.id = EndpointKey}}
      [] OTHER -> {{i \in open : i.id = key}}

\* ResolveKey after a resolution that went well.
KeyAfterResolution(key, id) ==
    IF Provider.incident = "continued" THEN id
    ELSE IF Provider.incident = "returned" \/ Provider.calls = "close" THEN NoKey
    ELSE key

Notifying == up /\ stage.at = "notify"

EndsNotification == stage' = Idle /\ UNCHANGED <<use, up, triggered, rows, told>>

\* Send returns nil.  Issues that were not on the page are not missed.
NotifyAccepted ==
    /\ Notifying /\ ConfigOfSend.ok
    /\ \E key \in KeyInRequest(stage.alert) : \E id \in Addressed(key) :
        resolveKey' = [resolveKey EXCEPT
                            ![stage.alert] = KeyAfterResolution(key, id)]
    /\ \E closed \in Closes(resolveKey[stage.alert]) : open' = open \ closed
    /\ abandoned' = open' \cap
            (abandoned \cup IF PageOverflows THEN OpenFor(stage.alert) ELSE {})
    /\ EndsNotification

(***************************************************************************)
(* Send returns an error, having closed nothing, all it was to close, or   *)
(* issues up to the first that could not be closed.  Opsgenie's first      *)
(* request only adds a note: the second one closes.                        *)
(***************************************************************************)
NotifyFails ==
    /\ Notifying
    /\ \E all \in Closes(resolveKey[stage.alert]), key \in KeyInRequest(stage.alert) :
       \E closed \in SUBSET all :
        /\ closed # {} => ConfigOfSend.ok
        /\ closed \in {{}, all} \/ Provider.incident = "issues"
        /\ open' = open \ closed
        /\ abandoned' = (abandoned \cup OpenFor(stage.alert)) \cap open'
        /\ resolveKey' = [resolveKey EXCEPT ![stage.alert] =
                            IF ConfigOfSend.ok THEN key ELSE @]
    /\ EndsNotification

\* incident.io resolved the incident in an answer that cannot be decoded.
NotifyUnreadable ==
    /\ Notifying /\ ConfigOfSend.ok /\ Provider.incident = "continued"
    /\ \E closed \in Closes(resolveKey[stage.alert]) : open' = open \ closed
    /\ abandoned' = (abandoned \cup OpenFor(stage.alert)) \cap open'
    /\ resolveKey' = [resolveKey EXCEPT ![stage.alert] = NoKey]
    /\ EndsNotification

(***************************************************************************)
(* The process dies.  What is open is lost track of when its row was not   *)
(* written yet, or is gone already, or is one of a suite's, which no start *)
(* reads.                                                                  *)
(***************************************************************************)
Crash ==
    /\ up
    /\ up' = FALSE
    /\ triggered' = [a \in Alerts |-> FALSE]
    /\ resolveKey' = [a \in Alerts |-> NoKey]
    /\ stage' = Idle
    /\ abandoned' =
        IF use.owner = "suite" THEN open
        ELSE abandoned \cup {i \in open : /\ stage # Idle
                                          /\ stage.alert = i.alert
                                          /\ rows[i.alert] # resolveKey[i.alert]}
    /\ UNCHANGED <<use, rows, open, told>>

Next ==
    \/ Start
    \/ \E a \in Alerts : SendRefused(a)
    \/ \E a \in Alerts : SendLost(a)
    \/ \E a \in Alerts : SendAccepted(a)
    \/ \E a \in Alerts : SendUnreadable(a)
    \/ Save
    \/ \E a \in Alerts : Resolve(a)
    \/ NotifyAccepted
    \/ NotifyFails
    \/ NotifyUnreadable
    \/ Crash

Spec == Init /\ [][Next]_vars
-----------------------------------------------------------------------------
(***************************************************************************)
(* When an alert has been resolved, nothing that was opened for it stays   *)
(* open, but for what was abandoned at one of these points:                *)
(*   - the answer to the request that opened it was lost or unreadable;    *)
(*   - PagerDuty opened another one with a reminder and only the last      *)
(*     one's key is kept;                                                  *)
(*   - the alert is not one to send on resolved, or its provider is not    *)
(*     configured, so that no request is made at the resolution;           *)
(*   - the request to resolve was refused, lost or answered unreadably,    *)
(*     which nobody retries;                                               *)
(*   - more issues were open than fit on the page that is listed;          *)
(*   - the process died between the request and the row, or between the    *)
(*     row and the request, or the alert is one of a suite, whose rows no  *)
(*     start reads.                                                        *)
(***************************************************************************)
NothingLeftOpen ==
    \A a \in Alerts :
        up /\ ~triggered[a] /\ stage = Idle => OpenFor(a) \subseteq abandoned

(***************************************************************************)
(* An alert that counts as triggered has an open incident: retries, other  *)
(* alerts, lost answers and restarts do not close it behind its back.      *)
(* Opsgenie, Squadcast, SIGNL4, ilert, GitHub and Gitea are excepted:      *)
(* there the alerts of an endpoint share what is open, and the first       *)
(* resolution closes it for all.                                           *)
(***************************************************************************)
TriggeredMeansOpen ==
    Provider.incident \in {"generated", "returned", "continued"} =>
        \A a \in Alerts : triggered[a] => OpenFor(a) # {}

(***************************************************************************)
(* An alert only counts as triggered when every recipient was told: a Send *)
(* that fails half way is retried from the first recipient on.             *)
(***************************************************************************)
TriggeredMeansAllTold ==
    \A a \in Alerts : triggered[a] => told[a] = Recipients
-----------------------------------------------------------------------------
\* The client that was built for the default configuration is kept.
KeepsClient ==
    LET url == "repository-url"
        mine == use.override
    IN  /\ Provider.pinned # {}
        /\ url \in Taken(Provider, mine) => mine[url].path = use.setup.default[url].path

\* What the most specific layer that has field f says of it.
Expected(f) ==
    LET mine == OfGroup(Provider, use.setup, use.group)
        first == {i \in mine : \A j \in mine : i <= j}
        default == use.setup.default
        Has(layer) == f \in Taken(Provider, layer)
    IN  IF f \in Provider.pinned /\ KeepsClient THEN default[f]
        ELSE IF Has(use.override) THEN use.override[f]
        ELSE IF \E i \in first : Has(use.setup.overrides[i].cfg)
        THEN use.setup.overrides[CHOOSE i \in first : TRUE].cfg[f]
        ELSE IF f \in Set(default) THEN default[f]
        ELSE Value("built-in", TRUE)

(***************************************************************************)
(* Every Send uses, field by field, the override of the alert before that  *)
(* of the group before the default configuration, whichever of them are    *)
(* set, and no field is lost on the way.  Three things are not as they are *)
(* written.  An empty text or list, false or 0 cannot be told from nothing *)
(* and hides no value of another layer.  A negative port of email,         *)
(* priority of ntfy or TTL of Pushover is passed over in an override.  And *)
(* to GitHub and Gitea, an override of the repository that changes the     *)
(* host only, or of the token or the client but not the repository, is as  *)
(* if there were none: the client that was built first is kept.            *)
(***************************************************************************)
MostSpecificWins ==
    Configured /\ ConfigOfSend.ok =>
        /\ \A f \in DOMAIN ConfigOfSend.cfg :
                ConfigOfSend.cfg[f] = Expected(f)
        /\ Taken(Provider, use.override) \cup Set(use.setup.default)
                \subseteq DOMAIN ConfigOfSend.cfg \cup Provider.pinned

(***************************************************************************)
(* A provider that was accepted when the file was loaded only refuses to   *)
(* send because of a value in an override that applies: overrides of       *)
(* groups are not validated as a whole, and those of alerts are only       *)
(* warned of.  Which override of its group applies is never in doubt, but  *)
(* with custom, whose overrides are not validated at all.                  *)
(***************************************************************************)
AcceptedCanSend ==
    Configured =>
        LET mine == OfGroup(Provider, use.setup, use.group)
            applied == {use.override} \cup {use.setup.overrides[i].cfg : i \in mine}
        IN  /\ ConfigOfSend.ok \/ \E layer \in applied : \E f \in Taken(Provider, layer) :
                    ~layer[f].good \/ f \in Provider.paired
            /\ Cardinality(mine) <= 1 \/ use.type = "custom"

(***************************************************************************)
(* The threshold in force is the alert's own, else that of the default     *)
(* alert of its provider, else 3: the alerts of suites never get that of   *)
(* the default alert, nor do those of a provider that was not accepted.    *)
(***************************************************************************)
DefaultAlertApplies ==
    LET inherits == use.owner # "suite" /\ Configured /\ use.threshold = 0
    IN  LoadedThreshold(use.owner, Configured, use.defaultAlert, use.threshold) =
            IF use.threshold > 0 THEN use.threshold
            ELSE IF inherits /\ use.defaultAlert > 0 THEN use.defaultAlert
            ELSE 3
=============================================================================
