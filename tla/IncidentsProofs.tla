-------------------------- MODULE IncidentsProofs --------------------------
(***************************************************************************)
(* No alert's incident is closed behind its back, and what stays open      *)
(* behind an alert was given up at a point that is named, for any          *)
(* provider, any alerts and any number of incidents; and what the layers   *)
(* of the configuration come to, for any of the forty providers and        *)
(* whatever is written in any layer.                                       *)
(***************************************************************************)
EXTENDS Incidents, WellFoundedInduction, FiniteSetTheorems, TLAPS

-----------------------------------------------------------------------------
(* The invariants *)

\* The handler of alert a is between the request and the row, or the row and
\* the request.
Saving(a) == stage.at = "save" /\ stage.alert = a

BeingNotified(a) == stage.at = "notify" /\ stage.alert = a

\* Alert a counts as triggered, or will when the process starts again.
Remembered(a) == triggered[a] \/ (rows[a] # NoRow /\ use.owner # "suite")

(***************************************************************************)
(* The handler is where the flags and rows say it is.                      *)
(***************************************************************************)
StageInv ==
    /\ ~up => stage = Idle
    /\ stage.at = "notify" => use.sendOnResolved
    /\ \A a \in Alerts :
        /\ Saving(a) => triggered[a]
        /\ BeingNotified(a) => ~triggered[a] /\ rows[a] = NoRow

ToldInv == \A a \in Alerts : Remembered(a) => told[a] = Recipients

\* The program learns the key of every incident that it opens.
Keyed ==
    \/ Provider.incident \in {"generated", "continued"}
    \/ Provider.incident = "returned" /\ use.sendOnResolved

(***************************************************************************)
(* An incident that was not abandoned belongs to an alert that is          *)
(* triggered or being resolved, and to whose key it goes by; between       *)
(* handlers the row says so too.                                           *)
(***************************************************************************)
Tracked(i) ==
    /\ up => /\ triggered[i.alert] \/ BeingNotified(i.alert)
             /\ Keyed => resolveKey[i.alert] = i.id
    /\ up => Saving(i.alert) \/ BeingNotified(i.alert) \/ use.owner = "suite"
             \/ /\ rows[i.alert] # NoRow
                /\ Keyed => rows[i.alert] = i.id
    /\ ~up => /\ use.owner # "suite" /\ rows[i.alert] # NoRow
              /\ Keyed => rows[i.alert] = i.id

TrackInv ==
    /\ \A i \in open \ abandoned : Tracked(i)
    /\ Provider.incident = "endpoint" => \A i \in open : i.id = EndpointKey
    /\ Provider.incident = "nothing" => open = {}

(***************************************************************************)
(* Where each alert has incidents of its own no two alerts have the same   *)
(* key, and one that is remembered has an incident.                        *)
(***************************************************************************)
OwnIncidents == Provider.incident \in {"generated", "returned", "continued"}

KeysOf(a) == {resolveKey[a], rows[a]} \cup {i.id : i \in OpenFor(a)}

OpenInv ==
    OwnIncidents =>
        /\ \A a, b \in Alerts : a # b => KeysOf(a) \cap KeysOf(b) \subseteq {NoKey, NoRow}
        /\ \A a \in Alerts : Remembered(a) => OpenFor(a) # {}

-----------------------------------------------------------------------------
(* Types *)

(***************************************************************************)
(* A key that nobody has used is one, and a request refers to an incident  *)
(* there is a name for.                                                    *)
(***************************************************************************)
LEMMA FreshKeys ==
    \A id \in Fresh : /\ id \in 2..MaxIncidents
                      /\ \A i \in open : i.id # id
                      /\ \A a \in Alerts : id # resolveKey[a] /\ id # rows[a]
BY DEF Fresh

(***************************************************************************)
(* A request addresses incidents that there are.                           *)
(***************************************************************************)
LEMMA KeysTyped ==
    ASSUME TypeOK, NEW a \in Alerts, NEW key \in KeyInRequest(a)
    PROVE  /\ key \in NoKey..MaxIncidents
           /\ \A id \in Addressed(key) : id \in 1..MaxIncidents
<1>1. resolveKey[a] \in NoKey..MaxIncidents /\ MaxIncidents \in Nat \ {0}
  BY IncidentsAssumption DEF TypeOK
<1>2. key \in NoKey..MaxIncidents
  BY <1>1, FreshKeys DEF KeyInRequest, NoKey
<1>3. ASSUME NEW id \in Addressed(key) PROVE id \in 1..MaxIncidents
  <2>1. id = EndpointKey \/ (key # NoKey /\ id = key) \/ id \in Fresh
    BY <1>3 DEF Addressed
  <2> QED
    BY <1>1, <1>2, <2>1, FreshKeys DEF EndpointKey, NoKey
<1> QED
  BY <1>2, <1>3

(***************************************************************************)
(* The same where the key is that of the alert.                            *)
(***************************************************************************)
LEMMA AddressedTyped ==
    ASSUME TypeOK, NEW a \in Alerts, NEW id \in Addressed(resolveKey[a])
    PROVE  id \in 1..MaxIncidents
<1>1. resolveKey[a] \in NoKey..MaxIncidents /\ MaxIncidents \in Nat \ {0}
  BY IncidentsAssumption DEF TypeOK
<1>2. \/ id = EndpointKey \/ id \in Fresh
      \/ resolveKey[a] # NoKey /\ id = resolveKey[a]
  BY DEF Addressed
<1> QED
  BY <1>1, <1>2, FreshKeys DEF EndpointKey, NoKey

(***************************************************************************)
(* What a request opens has its type, and telling recipients too.          *)
(***************************************************************************)
LEMMA OpensTyped ==
    ASSUME NEW a \in Alerts, NEW id \in 1..MaxIncidents
    PROVE  /\ Incident(id, a) \in [id : 1..MaxIncidents, alert : Alerts]
           /\ Opens(id, a) \subseteq {Incident(id, a)}
BY DEF Incident, Opens

(***************************************************************************)
(* Nobody is told more often than there are recipients.                    *)
(***************************************************************************)
LEMMA ReachesTyped ==
    ASSUME TypeOK, NEW a \in Alerts, NEW n \in 0..Recipients, Reaches(a, n)
    PROVE  told' \in [Alerts -> 0..Recipients]
BY DEF TypeOK, Reaches

(***************************************************************************)
(* Every step keeps the types.                                             *)
(***************************************************************************)
LEMMA TypeStep == TypeOK /\ [Next]_vars => TypeOK'
<1> SUFFICES ASSUME TypeOK, [Next]_vars PROVE TypeOK'
  OBVIOUS
<1> USE IncidentsAssumption
<1> DEFINE Ids == [id : 1..MaxIncidents, alert : Alerts]
           Stages == {Idle} \cup [at : {"save", "notify"}, alert : Alerts]
<1>0. /\ triggered \in [Alerts -> BOOLEAN]
      /\ resolveKey \in [Alerts -> NoKey..MaxIncidents]
      /\ rows \in [Alerts -> NoRow..MaxIncidents]
      /\ abandoned \subseteq open /\ open \subseteq Ids
      /\ told \in [Alerts -> 0..Recipients]
      /\ stage \in Stages
      /\ \A a \in Alerts : rows[a] # NoRow => rows[a] \in NoKey..MaxIncidents
      /\ NoKey \in NoKey..MaxIncidents /\ NoRow \in NoRow..MaxIncidents
      /\ \A k \in NoKey..MaxIncidents : k \in NoRow..MaxIncidents
      /\ \A n \in 0..Recipients - 1 : n \in 0..Recipients
      /\ Recipients \in 0..Recipients
      /\ \A n \in 1..Recipients : n \in 0..Recipients
      /\ \A k \in 1..MaxIncidents : k \in NoKey..MaxIncidents
  BY DEF TypeOK, NoKey, NoRow
<1>0a. /\ \A a \in Alerts, at \in {"save", "notify"} : [at |-> at, alert |-> a] \in Stages
       /\ Idle \in Stages
  OBVIOUS
<1> HIDE DEF Ids, Stages
<1>1. CASE Start
  <2>1. /\ triggered' = [a \in Alerts |-> Restored(a).triggered]
        /\ resolveKey' = [a \in Alerts |-> Restored(a).key]
        /\ up' = TRUE /\ UNCHANGED <<use, rows, stage, open, abandoned, told>>
    BY <1>1 DEF Start
  <2>2. \A a \in Alerts : Restored(a).triggered \in BOOLEAN
    BY DEF Restored
  <2>3. \A a \in Alerts : Restored(a).key \in NoKey..MaxIncidents
    BY <1>0 DEF Restored
  <2>4. triggered' \in [Alerts -> BOOLEAN]
    BY <2>1, <2>2
  <2>5. resolveKey' \in [Alerts -> NoKey..MaxIncidents]
    BY <2>1, <2>3
  <2> QED
    BY <2>1, <2>4, <2>5 DEF TypeOK
<1>2. ASSUME NEW a \in Alerts, SendRefused(a) PROVE TypeOK'
  <2>1. PICK n \in 0..Recipients - 1, key \in KeyInRequest(a) :
            /\ Reaches(a, n)
            /\ resolveKey' = [resolveKey EXCEPT ![a] = IF ConfigOfSend.ok THEN key ELSE @]
    BY <1>2 DEF SendRefused
  <2>2. resolveKey' \in [Alerts -> NoKey..MaxIncidents]
    BY <1>0, <2>1, KeysTyped
  <2>3. told' \in [Alerts -> 0..Recipients]
    BY <1>0, <2>1, ReachesTyped
  <2>4. UNCHANGED <<use, up, triggered, rows, stage, open, abandoned>>
    BY <1>2 DEF SendRefused
  <2> QED
    BY <2>2, <2>3, <2>4 DEF TypeOK
<1>3. ASSUME NEW a \in Alerts, SendLost(a) PROVE TypeOK'
  <2>1. PICK n \in 1..Recipients, key \in KeyInRequest(a) : \E id \in Addressed(key) :
            /\ Reaches(a, n)
            /\ resolveKey' = [resolveKey EXCEPT ![a] = key]
            /\ open' = open \cup Opens(id, a)
            /\ abandoned' = abandoned \cup (Opens(id, a) \ open)
    BY <1>3 DEF SendLost
  <2>2. resolveKey' \in [Alerts -> NoKey..MaxIncidents]
    BY <1>0, <2>1, KeysTyped
  <2>3. told' \in [Alerts -> 0..Recipients]
    BY <1>0, <2>1, ReachesTyped
  <2>4. abandoned' \subseteq open' /\ open' \subseteq Ids
    <3>1. PICK id \in Addressed(key) : /\ open' = open \cup Opens(id, a)
                                       /\ abandoned' = abandoned \cup (Opens(id, a) \ open)
      BY <2>1
    <3>2. Opens(id, a) \subseteq Ids
      BY <3>1, KeysTyped, OpensTyped DEF Ids
    <3> QED
      BY <1>0, <3>1, <3>2
  <2>5. UNCHANGED <<use, up, triggered, rows, stage>>
    BY <1>3 DEF SendLost
  <2> QED
    BY <2>2, <2>3, <2>4, <2>5 DEF TypeOK, Ids
<1>4. ASSUME NEW a \in Alerts, SendAccepted(a) PROVE TypeOK'
  <2>1. PICK key \in KeyInRequest(a) : \E id \in Addressed(key) :
            /\ resolveKey' = [resolveKey EXCEPT ![a] = KeyFromAnswer(key, id)]
            /\ open' = open \cup Opens(id, a)
            /\ abandoned' =
                (abandoned \cup IF Provider.incident = "returned" THEN OpenFor(a) ELSE {})
                    \ {Incident(id, a)}
    BY <1>4 DEF SendAccepted
  <2>2. PICK id \in Addressed(key) :
            /\ resolveKey' = [resolveKey EXCEPT ![a] = KeyFromAnswer(key, id)]
            /\ open' = open \cup Opens(id, a)
            /\ abandoned' \subseteq abandoned \cup OpenFor(a)
    BY <2>1
  <2>3. id \in 1..MaxIncidents /\ key \in NoKey..MaxIncidents
    BY KeysTyped
  <2>4. KeyFromAnswer(key, id) \in NoKey..MaxIncidents
    BY <1>0, <2>3 DEF KeyFromAnswer
  <2>5. resolveKey' \in [Alerts -> NoKey..MaxIncidents]
    BY <1>0, <2>2, <2>4
  <2>6. abandoned' \subseteq open' /\ open' \subseteq Ids
    <3>1. Opens(id, a) \subseteq Ids
      BY <2>3, OpensTyped DEF Ids
    <3>2. OpenFor(a) \subseteq open
      BY DEF OpenFor
    <3> QED
      BY <1>0, <2>2, <3>1, <3>2
  <2>7. /\ Reaches(a, Recipients) /\ triggered' = [triggered EXCEPT ![a] = TRUE]
        /\ stage' = [at |-> "save", alert |-> a] /\ UNCHANGED <<use, up, rows>>
    BY <1>4 DEF SendAccepted
  <2>8. told' \in [Alerts -> 0..Recipients]
    BY <1>0, <2>7, ReachesTyped
  <2>9. stage' \in Stages /\ triggered' \in [Alerts -> BOOLEAN]
    BY <1>0, <1>0a, <2>7
  <2> QED
    BY <2>5, <2>6, <2>7, <2>8, <2>9 DEF TypeOK, Ids, Stages
<1>5. ASSUME NEW a \in Alerts, SendUnreadable(a) PROVE TypeOK'
  <2>1. PICK id \in Addressed(resolveKey[a]) :
        /\ open' = open \cup {Incident(id, a)}
        /\ \/ /\ abandoned' = abandoned \cup {Incident(id, a)}
              /\ triggered' = [triggered EXCEPT ![a] = TRUE]
              /\ stage' = [at |-> "save", alert |-> a]
              /\ Reaches(a, Recipients)
              /\ UNCHANGED resolveKey
           \/ /\ abandoned' = abandoned \cup {Incident(id, a)} \cup OpenFor(a)
              /\ resolveKey' = [resolveKey EXCEPT ![a] = NoKey]
              /\ Reaches(a, Recipients)
              /\ UNCHANGED <<triggered, stage>>
    BY <1>5 DEF SendUnreadable
  <2>2. abandoned' \subseteq open' /\ open' \subseteq Ids
    BY <1>0, <2>1, AddressedTyped, OpensTyped DEF OpenFor, Ids
  <2>3. told' \in [Alerts -> 0..Recipients]
    BY <1>0, <2>1, ReachesTyped
  <2>4. /\ resolveKey' \in [Alerts -> NoKey..MaxIncidents]
        /\ triggered' \in [Alerts -> BOOLEAN]
    BY <1>0, <2>1
  <2>5. stage' \in Stages
    BY <1>0, <1>0a, <2>1
  <2>6. UNCHANGED <<use, up, rows>>
    BY <1>5 DEF SendUnreadable
  <2> QED
    BY <2>2, <2>3, <2>4, <2>5, <2>6 DEF TypeOK, Ids, Stages
<1>6. CASE Save
  <2>1. stage.alert \in Alerts
    BY <1>0, <1>6 DEF Save, Stages, Idle
  <2>2. rows' \in [Alerts -> NoRow..MaxIncidents]
    BY <1>0, <1>6, <2>1 DEF Save
  <2> QED
    BY <1>6, <2>2 DEF TypeOK, Save
<1>7. ASSUME NEW a \in Alerts, Resolve(a) PROVE TypeOK'
  <2>1. /\ triggered' \in [Alerts -> BOOLEAN] /\ rows' \in [Alerts -> NoRow..MaxIncidents]
        /\ told' \in [Alerts -> 0..Recipients]
    BY <1>0, <1>7 DEF Resolve
  <2>2. stage' \in Stages /\ abandoned' \subseteq open'
    BY <1>0, <1>0a, <1>7 DEF Resolve, OpenFor
  <2>3. UNCHANGED <<use, up, resolveKey, open>>
    BY <1>7 DEF Resolve
  <2> QED
    BY <2>1, <2>2, <2>3 DEF TypeOK, Stages
<1>8. ASSUME Notifying PROVE stage.alert \in Alerts
  BY <1>0, <1>8 DEF Notifying, Stages, Idle
<1>9. ASSUME EndsNotification, resolveKey' \in [Alerts -> NoKey..MaxIncidents],
             open' \subseteq open, abandoned' \subseteq open'
      PROVE  TypeOK'
  BY <1>9 DEF TypeOK, EndsNotification
<1>10. CASE NotifyAccepted
  <2>1. PICK key \in KeyInRequest(stage.alert) : \E id \in Addressed(key) :
            resolveKey' = [resolveKey EXCEPT ![stage.alert] = KeyAfterResolution(key, id)]
    BY <1>10 DEF NotifyAccepted
  <2>2. PICK id \in Addressed(key) :
            resolveKey' = [resolveKey EXCEPT ![stage.alert] = KeyAfterResolution(key, id)]
    BY <2>1
  <2>3. id \in 1..MaxIncidents /\ key \in NoKey..MaxIncidents
    BY <1>8, <1>10, KeysTyped DEF NotifyAccepted
  <2>4. KeyAfterResolution(key, id) \in NoKey..MaxIncidents
    BY <1>0, <2>3 DEF KeyAfterResolution
  <2>5. resolveKey' \in [Alerts -> NoKey..MaxIncidents]
    BY <1>0, <2>2, <2>4
  <2>6. open' \subseteq open /\ abandoned' \subseteq open'
    BY <1>10 DEF NotifyAccepted
  <2> QED
    BY <1>9, <1>10, <2>5, <2>6 DEF NotifyAccepted
<1>11. CASE NotifyFails
  <2>1. PICK key \in KeyInRequest(stage.alert) :
            resolveKey' = [resolveKey EXCEPT ![stage.alert] =
                            IF ConfigOfSend.ok THEN key ELSE @]
    BY <1>11 DEF NotifyFails
  <2>2. resolveKey' \in [Alerts -> NoKey..MaxIncidents]
    BY <1>0, <1>8, <1>11, <2>1, KeysTyped DEF NotifyFails
  <2>3. open' \subseteq open /\ abandoned' \subseteq open'
    BY <1>11 DEF NotifyFails
  <2> QED
    BY <1>9, <1>11, <2>2, <2>3 DEF NotifyFails
<1>12. CASE NotifyUnreadable
  <2>1. resolveKey' \in [Alerts -> NoKey..MaxIncidents]
    BY <1>0, <1>12 DEF NotifyUnreadable
  <2>2. open' \subseteq open /\ abandoned' \subseteq open'
    BY <1>12 DEF NotifyUnreadable
  <2> QED
    BY <1>9, <1>12, <2>1, <2>2 DEF NotifyUnreadable
<1>13. CASE Crash
  <2>1. /\ up' = FALSE /\ triggered' \in [Alerts -> BOOLEAN]
        /\ resolveKey' \in [Alerts -> NoKey..MaxIncidents]
        /\ stage' \in Stages /\ UNCHANGED <<use, rows, open, told>>
    BY <1>0, <1>0a, <1>13 DEF Crash
  <2>2. abandoned' \subseteq open'
    BY <1>0, <1>13 DEF Crash
  <2> QED
    BY <2>1, <2>2 DEF TypeOK, Stages
<1>14. CASE UNCHANGED vars
  BY <1>14 DEF TypeOK, vars
<1> QED
  BY <1>1, <1>2, <1>3, <1>4, <1>5, <1>6, <1>7, <1>10, <1>11, <1>12, <1>13, <1>14 DEF Next

(***************************************************************************)
(* Flags, keys, rows and incidents keep their types.                       *)
(***************************************************************************)
THEOREM TypeCorrect == Spec => []TypeOK
<1>1. Init => TypeOK
  <2> SUFFICES ASSUME Init PROVE TypeOK
    OBVIOUS
  <2>1. /\ NoKey \in NoKey..MaxIncidents /\ NoRow \in NoRow..MaxIncidents
        /\ 0 \in 0..Recipients
    BY IncidentsAssumption DEF NoKey, NoRow
  <2>2. use \in Uses /\ up \in BOOLEAN /\ triggered \in [Alerts -> BOOLEAN]
    BY DEF Init
  <2>3. /\ resolveKey \in [Alerts -> NoKey..MaxIncidents]
        /\ rows \in [Alerts -> NoRow..MaxIncidents]
        /\ told \in [Alerts -> 0..Recipients]
    BY <2>1 DEF Init
  <2>4. stage = Idle /\ open = {} /\ abandoned = {}
    BY DEF Init
  <2> QED
    BY <2>2, <2>3, <2>4 DEF TypeOK
<1> QED
  BY <1>1, TypeStep, PTL DEF Spec

-----------------------------------------------------------------------------
(* Where the handler is, and who was told *)

(***************************************************************************)
(* A handler between two steps is one of an alert.                         *)
(***************************************************************************)
LEMMA StageShape ==
    ASSUME TypeOK
    PROVE  /\ Idle.at = "idle"
           /\ stage # Idle => stage.alert \in Alerts /\ stage.at \in {"save", "notify"}
           /\ up /\ stage.at = "save" => stage # Idle
           /\ Notifying => stage # Idle /\ stage.alert \in Alerts
           /\ \A at, a : [at |-> at, alert |-> a].at = at /\ [at |-> at, alert |-> a].alert = a
BY DEF TypeOK, Idle, Notifying

(***************************************************************************)
(* A Send only changes the flag and the stage of its own alert, and if the *)
(* stage, then to save.                                                    *)
(***************************************************************************)
LEMMA SendSteps ==
    ASSUME TypeOK, NEW a \in Alerts,
           SendRefused(a) \/ SendLost(a) \/ SendAccepted(a) \/ SendUnreadable(a)
    PROVE  /\ up /\ stage = Idle /\ Configured /\ UNCHANGED <<use, up, rows>>
           /\ \/ UNCHANGED <<triggered, stage>>
              \/ /\ triggered' = [triggered EXCEPT ![a] = TRUE]
                 /\ stage' = [at |-> "save", alert |-> a]
                 /\ Reaches(a, Recipients)
           /\ \E n \in 0..Recipients : Reaches(a, n)
           /\ \A b \in Alerts \ {a} : resolveKey'[b] = resolveKey[b]
<1> USE IncidentsAssumption
<1>1. CASE SendRefused(a)
  BY <1>1 DEF SendRefused, Due, TypeOK
<1>2. CASE SendLost(a)
  BY <1>2 DEF SendLost, Due, TypeOK
<1>3. CASE SendAccepted(a)
  <2>1. Recipients \in 0..Recipients
    OBVIOUS
  <2>2. /\ up /\ stage = Idle /\ Configured /\ UNCHANGED <<use, up, rows>>
        /\ triggered' = [triggered EXCEPT ![a] = TRUE]
        /\ stage' = [at |-> "save", alert |-> a]
        /\ Reaches(a, Recipients)
    BY <1>3 DEF SendAccepted, Due
  <2>3. \E k : resolveKey' = [resolveKey EXCEPT ![a] = k]
    BY <1>3 DEF SendAccepted
  <2> QED
    BY <2>1, <2>2, <2>3 DEF TypeOK
<1>4. CASE SendUnreadable(a)
  <2>1. Recipients \in 0..Recipients
    OBVIOUS
  <2> QED
    BY <1>4, <2>1 DEF SendUnreadable, Due, TypeOK
<1> QED
  BY <1>1, <1>2, <1>3, <1>4

(***************************************************************************)
(* What the steps do to flags and rows, action by action.                  *)
(***************************************************************************)
LEMMA ResolveSteps ==
    ASSUME TypeOK, NEW a \in Alerts, Resolve(a)
    PROVE  /\ up /\ stage = Idle /\ triggered[a] /\ UNCHANGED <<use, up, resolveKey, open>>
           /\ \A b \in Alerts :
                /\ triggered'[b] <=> b # a /\ triggered[b]
                /\ rows'[b] = IF b = a THEN NoRow ELSE rows[b]
                /\ told'[b] = IF b = a THEN 0 ELSE told[b]
           /\ \/ stage' = [at |-> "notify", alert |-> a] /\ use.sendOnResolved
                 /\ UNCHANGED abandoned
              \/ abandoned' = abandoned \cup OpenFor(a) /\ UNCHANGED stage
BY DEF TypeOK, Resolve

(***************************************************************************)
(* Saving writes the row of the alert that was notified.                   *)
(***************************************************************************)
LEMMA SaveSteps ==
    ASSUME TypeOK, Save
    PROVE  /\ up /\ stage.alert \in Alerts /\ Saving(stage.alert) /\ stage' = Idle
           /\ UNCHANGED <<use, up, triggered, resolveKey, open, abandoned, told>>
           /\ \A b \in Alerts :
                rows'[b] = IF b = stage.alert THEN resolveKey[b] ELSE rows[b]
BY StageShape DEF TypeOK, Save, Saving

(***************************************************************************)
(* A start restores the alerts that have rows, but for those of a suite.   *)
(***************************************************************************)
LEMMA StartSteps ==
    ASSUME TypeOK, Start
    PROVE  /\ ~up /\ up' = TRUE /\ UNCHANGED <<use, rows, stage, open, abandoned, told>>
           /\ \A a \in Alerts :
                /\ triggered'[a] <=> use.owner # "suite" /\ rows[a] # NoRow
                /\ resolveKey'[a] = IF use.owner # "suite" /\ rows[a] # NoRow
                                    THEN rows[a] ELSE NoKey
BY DEF TypeOK, Start, Restored

(***************************************************************************)
(* A crash forgets all flags and keys, and abandons what no row tells of.  *)
(***************************************************************************)
LEMMA CrashSteps ==
    ASSUME TypeOK, Crash
    PROVE  /\ up /\ ~up' /\ stage' = Idle /\ UNCHANGED <<use, rows, open, told>>
           /\ \A a \in Alerts : ~triggered'[a] /\ resolveKey'[a] = NoKey
           /\ abandoned \subseteq abandoned'
           /\ use.owner = "suite" => abandoned' = open
           /\ \A i \in open :
                (stage # Idle /\ stage.alert = i.alert
                    /\ rows[i.alert] # resolveKey[i.alert]) => i \in abandoned'
<1>1. /\ up /\ ~up' /\ stage' = Idle /\ UNCHANGED <<use, rows, open, told>>
      /\ \A a \in Alerts : ~triggered'[a] /\ resolveKey'[a] = NoKey
  BY DEF Crash
<1>2. CASE use.owner = "suite"
  BY <1>1, <1>2 DEF TypeOK, Crash
<1>3. CASE use.owner # "suite"
  BY <1>1, <1>3 DEF TypeOK, Crash
<1> QED
  BY <1>2, <1>3

(***************************************************************************)
(* A notification ends with no other key changed and no incident opened.   *)
(***************************************************************************)
LEMMA NotifySteps ==
    ASSUME TypeOK, NotifyAccepted \/ NotifyFails \/ NotifyUnreadable
    PROVE  /\ Notifying /\ EndsNotification /\ BeingNotified(stage.alert)
           /\ \A b \in Alerts \ {stage.alert} : resolveKey'[b] = resolveKey[b]
           /\ \E closed \in Closes(resolveKey[stage.alert]) : open \ closed \subseteq open'
           /\ open' \subseteq open
           /\ abandoned \cap open' \subseteq abandoned'
<1>1. CASE NotifyAccepted
  BY <1>1 DEF NotifyAccepted, TypeOK, BeingNotified, Notifying
<1>2. CASE NotifyFails
  BY <1>2 DEF NotifyFails, TypeOK, BeingNotified, Notifying
<1>3. CASE NotifyUnreadable
  BY <1>3 DEF NotifyUnreadable, TypeOK, BeingNotified, Notifying
<1> QED
  BY <1>1, <1>2, <1>3

(***************************************************************************)
(* Every step leaves the handler where flags and rows say it is.           *)
(***************************************************************************)
LEMMA StageStep == TypeOK /\ StageInv /\ [Next]_vars => StageInv'
<1> SUFFICES ASSUME TypeOK, StageInv, [Next]_vars PROVE StageInv'
  OBVIOUS
<1> USE StageShape DEF StageInv, Saving, BeingNotified
<1>1. CASE Start
  BY <1>1, StartSteps
<1>2. ASSUME NEW a \in Alerts,
             SendRefused(a) \/ SendLost(a) \/ SendAccepted(a) \/ SendUnreadable(a)
      PROVE  StageInv'
  BY <1>2, SendSteps DEF TypeOK
<1>3. CASE Save
  BY <1>3, SaveSteps
<1>4. ASSUME NEW a \in Alerts, Resolve(a) PROVE StageInv'
  BY <1>4, ResolveSteps
<1>5. CASE NotifyAccepted \/ NotifyFails \/ NotifyUnreadable
  BY <1>5, NotifySteps DEF EndsNotification
<1>6. CASE Crash
  BY <1>6, CrashSteps
<1>7. CASE UNCHANGED vars
  BY <1>7 DEF vars
<1> QED
  BY <1>1, <1>2, <1>3, <1>4, <1>5, <1>6, <1>7 DEF Next

(***************************************************************************)
(* No step leaves an alert remembered that somebody was not told of.       *)
(***************************************************************************)
LEMMA ToldStep == TypeOK /\ StageInv /\ ToldInv /\ [Next]_vars => ToldInv'
<1> SUFFICES ASSUME TypeOK, StageInv, ToldInv, [Next]_vars PROVE ToldInv'
  OBVIOUS
<1>1. CASE Start
  BY <1>1, StartSteps DEF ToldInv, Remembered
<1>2. ASSUME NEW a \in Alerts,
             SendRefused(a) \/ SendLost(a) \/ SendAccepted(a) \/ SendUnreadable(a)
      PROVE  ToldInv'
  <2>1. \A b \in Alerts : told[b] \in 0..Recipients /\ Recipients \in Nat
    BY IncidentsAssumption DEF TypeOK
  <2>2. \A n \in 0..Recipients : Reaches(a, n) =>
            \A b \in Alerts : told'[b] = IF b = a /\ n > told[a] THEN n ELSE told[b]
    BY DEF Reaches, TypeOK
  <2>3. /\ \A b \in Alerts : told[b] = Recipients => told'[b] = Recipients
        /\ Reaches(a, Recipients) => told'[a] = Recipients
    BY <1>2, <2>1, <2>2, SendSteps
  <2>4. \A b \in Alerts : triggered'[b] => triggered[b] \/ (b = a /\ Reaches(a, Recipients))
    BY <1>2, SendSteps DEF TypeOK
  <2>5. UNCHANGED <<use, rows>>
    BY <1>2, SendSteps
  <2> QED
    BY <2>3, <2>4, <2>5 DEF ToldInv, Remembered
<1>3. CASE Save
  BY <1>3, SaveSteps DEF ToldInv, Remembered, StageInv
<1>4. ASSUME NEW a \in Alerts, Resolve(a) PROVE ToldInv'
  BY <1>4, ResolveSteps DEF ToldInv, Remembered
<1>5. CASE NotifyAccepted \/ NotifyFails \/ NotifyUnreadable
  BY <1>5, NotifySteps DEF ToldInv, Remembered, EndsNotification
<1>6. CASE Crash
  BY <1>6, CrashSteps DEF ToldInv, Remembered
<1>7. CASE UNCHANGED vars
  BY <1>7 DEF ToldInv, Remembered, vars
<1> QED
  BY <1>1, <1>2, <1>3, <1>4, <1>5, <1>6, <1>7 DEF Next

(***************************************************************************)
(* A new installation is in order.                                         *)
(***************************************************************************)
LEMMA StageInit == Init => StageInv
BY DEF Init, StageInv, Saving, BeingNotified, Idle

(***************************************************************************)
(* An alert only counts as triggered, before and after a restart, when     *)
(* every recipient was told.                                               *)
(***************************************************************************)
THEOREM EveryoneTold == Spec => []TriggeredMeansAllTold
<1>1. Init => ToldInv
  BY DEF Init, ToldInv, Remembered
<1>2. ToldInv => TriggeredMeansAllTold
  BY DEF ToldInv, Remembered, TriggeredMeansAllTold
<1> QED
  BY <1>1, <1>2, StageInit, StageStep, ToldStep, TypeCorrect, PTL DEF Spec

-----------------------------------------------------------------------------
(* Triggered alerts have open incidents *)

(***************************************************************************)
(* The installation stays the same.                                        *)
(***************************************************************************)
LEMMA SameInstallation ==
    ASSUME [Next]_vars
    PROVE  /\ UNCHANGED use /\ Provider' = Provider /\ Configured' = Configured
           /\ ConfigOfSend' = ConfigOfSend
<1>1. UNCHANGED use
  <2>1. CASE UNCHANGED vars
    BY <2>1 DEF vars
  <2>2. CASE Start \/ Save \/ Crash
    BY <2>2 DEF Start, Save, Crash
  <2>3. ASSUME NEW a \in Alerts,
               SendRefused(a) \/ SendLost(a) \/ SendAccepted(a) \/ SendUnreadable(a)
        PROVE  UNCHANGED use
    BY <2>3 DEF SendRefused, SendLost, SendAccepted, SendUnreadable
  <2>4. ASSUME NEW a \in Alerts, Resolve(a) PROVE UNCHANGED use
    BY <2>4 DEF Resolve
  <2>5. CASE NotifyAccepted \/ NotifyFails \/ NotifyUnreadable
    BY <2>5 DEF NotifyAccepted, NotifyFails, NotifyUnreadable, EndsNotification
  <2> QED
    BY <2>1, <2>2, <2>3, <2>4, <2>5 DEF Next
<1> QED
  BY <1>1 DEF Provider, Configured, ConfigOfSend

(***************************************************************************)
(* A request goes by the key of its alert or by one that nobody has.       *)
(***************************************************************************)
LEMMA KeysOfRequest ==
    ASSUME OwnIncidents, NEW a \in Alerts, NEW key \in KeyInRequest(a)
    PROVE  /\ key \in Fresh \cup {resolveKey[a]}
           /\ resolveKey[a] # NoKey => key = resolveKey[a]
           /\ \A id \in Addressed(key) : id = key \/ id \in Fresh
           /\ key # NoKey /\ Provider.incident # "returned" =>
                \A id \in Addressed(key) : id = key
BY DEF OwnIncidents, KeyInRequest, Addressed

(***************************************************************************)
(* What a Send adds to what its alert goes by nobody else goes by, and a   *)
(* Send after which the alert is triggered has opened something.           *)
(***************************************************************************)
LEMMA SendOpens ==
    ASSUME TypeOK, OwnIncidents, NEW a \in Alerts,
           SendRefused(a) \/ SendLost(a) \/ SendAccepted(a) \/ SendUnreadable(a)
    PROVE  /\ resolveKey'[a] \in {NoKey, resolveKey[a]} \cup Fresh
           /\ open \subseteq open'
           /\ \A i \in open' \ open : i.alert = a /\ i.id \in {resolveKey[a]} \cup Fresh
           /\ triggered'[a] => triggered[a] \/ \E i \in open' : i.alert = a
<1>0. /\ \A k : [resolveKey EXCEPT ![a] = k][a] = k
      /\ \A id : Incident(id, a).id = id /\ Incident(id, a).alert = a
      /\ \A id : Opens(id, a) = {Incident(id, a)}
  BY DEF TypeOK, Incident, Opens, OwnIncidents
<1>1. CASE SendRefused(a)
  <2>1. UNCHANGED <<open, triggered>>
    BY <1>1 DEF SendRefused
  <2>2. \E key \in KeyInRequest(a) : resolveKey'[a] = key \/ resolveKey'[a] = resolveKey[a]
    BY <1>0, <1>1 DEF SendRefused
  <2> QED
    BY <2>1, <2>2, KeysOfRequest
<1>2. CASE SendLost(a)
  <2>1. UNCHANGED triggered
    BY <1>2 DEF SendLost
  <2>2. PICK key \in KeyInRequest(a) : \E id \in Addressed(key) :
            /\ resolveKey' = [resolveKey EXCEPT ![a] = key]
            /\ open' = open \cup Opens(id, a)
    BY <1>2 DEF SendLost
  <2>3. resolveKey'[a] = key
    BY <1>0, <2>2
  <2>4. PICK id \in Addressed(key) : open' = open \cup {Incident(id, a)}
    BY <1>0, <2>2
  <2> QED
    BY <1>0, <2>1, <2>3, <2>4, KeysOfRequest
<1>3. CASE SendAccepted(a)
  <2>1. PICK key \in KeyInRequest(a) : \E id \in Addressed(key) :
            /\ resolveKey' = [resolveKey EXCEPT ![a] = KeyFromAnswer(key, id)]
            /\ open' = open \cup Opens(id, a)
    BY <1>3 DEF SendAccepted
  <2>2. PICK id \in Addressed(key) :
            /\ resolveKey' = [resolveKey EXCEPT ![a] = KeyFromAnswer(key, id)]
            /\ open' = open \cup Opens(id, a)
    BY <2>1
  <2>3. resolveKey'[a] \in {key, id}
    BY <1>0, <2>2 DEF KeyFromAnswer
  <2>4. open' = open \cup {Incident(id, a)}
    BY <1>0, <2>2
  <2> QED
    BY <1>0, <2>3, <2>4, KeysOfRequest
<1>4. CASE SendUnreadable(a)
  <2>1. PICK id \in Addressed(resolveKey[a]) :
            open' = open \cup {Incident(id, a)}
    BY <1>4 DEF SendUnreadable
  <2>2. id \in {resolveKey[a]} \cup Fresh
    BY DEF Addressed, OwnIncidents
  <2>3. resolveKey'[a] \in {NoKey, resolveKey[a]}
    BY <1>0, <1>4 DEF SendUnreadable
  <2> QED
    BY <1>0, <2>1, <2>2, <2>3
<1> QED
  BY <1>1, <1>2, <1>3, <1>4

(***************************************************************************)
(* Every step keeps the keys apart and the remembered alerts open.         *)
(***************************************************************************)
LEMMA OpenStep == TypeOK /\ StageInv /\ OpenInv /\ [Next]_vars => OpenInv'
<1> SUFFICES ASSUME TypeOK, StageInv, OpenInv, [Next]_vars, OwnIncidents
             PROVE  /\ \A a, b \in Alerts : a # b =>
                        KeysOf(a)' \cap KeysOf(b)' \subseteq {NoKey, NoRow}
                    /\ \A a \in Alerts : Remembered(a)' => OpenFor(a)' # {}
  BY SameInstallation DEF OpenInv, OwnIncidents
<1>1. /\ \A a, b \in Alerts : a # b => KeysOf(a) \cap KeysOf(b) \subseteq {NoKey, NoRow}
      /\ \A a \in Alerts : Remembered(a) => OpenFor(a) # {}
  BY DEF OpenInv
<1>2. ASSUME \A a \in Alerts : KeysOf(a)' \subseteq KeysOf(a) \cup {NoKey, NoRow}
      PROVE  \A a, b \in Alerts : a # b => KeysOf(a)' \cap KeysOf(b)' \subseteq {NoKey, NoRow}
  BY <1>1, <1>2
<1>3. CASE Start
  BY <1>1, <1>2, <1>3, StartSteps DEF KeysOf, OpenFor, Remembered
<1>4. ASSUME NEW a \in Alerts,
             SendRefused(a) \/ SendLost(a) \/ SendAccepted(a) \/ SendUnreadable(a),
             NEW b \in Alerts
      PROVE  /\ \A c \in Alerts : b # c => KeysOf(b)' \cap KeysOf(c)' \subseteq {NoKey, NoRow}
             /\ Remembered(b)' => OpenFor(b)' # {}
  <2>1. \A c \in Alerts : Fresh \cap KeysOf(c) = {}
    BY FreshKeys DEF KeysOf, OpenFor
  <2>2. \A c \in Alerts \ {a} : KeysOf(c)' \subseteq KeysOf(c)
    BY <1>4, SendOpens, SendSteps DEF KeysOf, OpenFor
  <2>3. KeysOf(a)' \subseteq KeysOf(a) \cup Fresh \cup {NoKey}
    BY <1>4, SendOpens, SendSteps DEF KeysOf, OpenFor
  <2>4. \A c \in Alerts : b # c => KeysOf(b)' \cap KeysOf(c)' \subseteq {NoKey, NoRow}
    BY <1>1, <2>1, <2>2, <2>3
  <2>5. UNCHANGED <<use, rows>> /\ (b # a => triggered'[b] = triggered[b])
    BY <1>4, SendSteps DEF TypeOK
  <2>6. OpenFor(b) \subseteq OpenFor(b)'
    BY <1>4, SendOpens DEF OpenFor
  <2>7. triggered'[b] => triggered[b] \/ OpenFor(b)' # {}
    BY <1>4, <2>5, SendOpens DEF OpenFor
  <2>8. Remembered(b)' => Remembered(b) \/ OpenFor(b)' # {}
    BY <2>5, <2>7 DEF Remembered
  <2> QED
    BY <1>1, <2>4, <2>6, <2>8
<1>5. CASE Save
  <2>1. \A a \in Alerts : KeysOf(a)' \subseteq KeysOf(a)
    BY <1>5, SaveSteps DEF KeysOf, OpenFor
  <2>2. \A a \in Alerts : Remembered(a)' => Remembered(a)
    BY <1>5, SaveSteps DEF Remembered, StageInv
  <2>3. \A a \in Alerts : OpenFor(a)' = OpenFor(a)
    BY <1>5, SaveSteps DEF OpenFor
  <2> QED
    BY <1>1, <1>2, <2>1, <2>2, <2>3
<1>6. ASSUME NEW a \in Alerts, Resolve(a), NEW b \in Alerts
      PROVE  /\ KeysOf(b)' \subseteq KeysOf(b) \cup {NoKey, NoRow}
             /\ Remembered(b)' => OpenFor(b)' # {}
  <2>1. KeysOf(b)' \subseteq KeysOf(b) \cup {NoKey, NoRow}
    BY <1>6, ResolveSteps DEF KeysOf, OpenFor
  <2>2. Remembered(b)' => Remembered(b)
    BY <1>6, ResolveSteps DEF Remembered
  <2>3. OpenFor(b)' = OpenFor(b)
    BY <1>6, ResolveSteps DEF OpenFor
  <2> QED
    BY <1>1, <2>1, <2>2, <2>3
<1>7. CASE NotifyAccepted \/ NotifyFails \/ NotifyUnreadable
  <2>0. PICK c \in Alerts : c = stage.alert
    BY <1>7, NotifySteps, StageShape
  <2>1. BeingNotified(c) /\ UNCHANGED <<use, triggered, rows>>
    BY <1>7, <2>0, NotifySteps DEF EndsNotification
  <2>2. open' \subseteq open /\ \A b \in Alerts \ {c} : resolveKey'[b] = resolveKey[b]
    BY <1>7, <2>0, NotifySteps
  <2>3. resolveKey'[c] \in {NoKey, resolveKey[c]} \cup Fresh
    <3>0. \A k : [resolveKey EXCEPT ![c] = k][c] = k
      BY <2>1 DEF TypeOK
    <3>1. CASE NotifyAccepted
      <4>1. PICK key \in KeyInRequest(c) : \E id \in Addressed(key) :
                resolveKey'[c] = KeyAfterResolution(key, id)
        BY <2>0, <3>0, <3>1 DEF NotifyAccepted
      <4>2. \A id : KeyAfterResolution(key, id) \in {NoKey, key, id}
        BY DEF KeyAfterResolution
      <4> QED
        BY <2>1, <4>1, <4>2, KeysOfRequest
    <3>2. CASE NotifyFails
      <4>1. \E key \in KeyInRequest(c) : resolveKey'[c] \in {key, resolveKey[c]}
        BY <2>0, <3>0, <3>2 DEF NotifyFails
      <4> QED
        BY <2>1, <4>1, KeysOfRequest
    <3>3. CASE NotifyUnreadable
      BY <2>0, <3>0, <3>3 DEF NotifyUnreadable
    <3> QED
      BY <1>7, <3>1, <3>2, <3>3
  <2>4. \A b \in Alerts : Fresh \cap KeysOf(b) = {}
    BY FreshKeys DEF KeysOf, OpenFor
  <2>5. \A b \in Alerts \ {c} : KeysOf(b)' \subseteq KeysOf(b)
    BY <2>1, <2>2 DEF KeysOf, OpenFor
  <2>6. KeysOf(c)' \subseteq KeysOf(c) \cup Fresh \cup {NoKey}
    BY <2>1, <2>2, <2>3 DEF KeysOf, OpenFor
  <2>7. \A a, b \in Alerts : a # b => KeysOf(a)' \cap KeysOf(b)' \subseteq {NoKey, NoRow}
    BY <1>1, <2>1, <2>4, <2>5, <2>6
  <2>8. ASSUME NEW b \in Alerts, Remembered(b)' PROVE OpenFor(b)' # {}
    <3>1. b # c /\ Remembered(b)
      BY <2>1, <2>8 DEF StageInv, Remembered
    <3>2. PICK i \in open : i.alert = b
      BY <1>1, <3>1 DEF OpenFor
    <3>3. i.id \in 1..MaxIncidents
      BY DEF TypeOK
    <3>4. i.id \in KeysOf(b) /\ resolveKey[c] \in KeysOf(c)
      BY <3>2 DEF KeysOf, OpenFor
    <3>5. i.id # NoKey /\ i.id # NoRow
      BY <3>3 DEF NoKey, NoRow
    <3>6. i.id # resolveKey[c]
      BY <1>1, <2>1, <3>1, <3>4, <3>5
    <3>7. \A closed \in Closes(resolveKey[c]) : i \notin closed
      BY <3>6 DEF Closes, PageOverflows, OwnIncidents
    <3>8. i \in open'
      BY <1>7, <2>0, <3>7, NotifySteps
    <3> QED
      BY <3>2, <3>8 DEF OpenFor
  <2> QED
    BY <2>7, <2>8
<1>8. CASE Crash
  <2>1. \A a \in Alerts : KeysOf(a)' \subseteq KeysOf(a) \cup {NoKey}
    BY <1>8, CrashSteps DEF KeysOf, OpenFor
  <2>2. \A a \in Alerts : Remembered(a)' => Remembered(a)
    BY <1>8, CrashSteps DEF Remembered
  <2>3. \A a \in Alerts : OpenFor(a)' = OpenFor(a)
    BY <1>8, CrashSteps DEF OpenFor
  <2> QED
    BY <1>1, <1>2, <2>1, <2>2, <2>3
<1>9. CASE UNCHANGED vars
  <2>1. \A a : KeysOf(a)' = KeysOf(a) /\ OpenFor(a)' = OpenFor(a)
    BY <1>9 DEF KeysOf, OpenFor, vars
  <2>2. \A a : Remembered(a)' <=> Remembered(a)
    BY <1>9 DEF Remembered, vars
  <2> QED
    BY <1>1, <2>1, <2>2
<1> QED
  BY <1>2, <1>3, <1>4, <1>5, <1>6, <1>7, <1>8, <1>9 DEF Next

(***************************************************************************)
(* An alert that counts as triggered has an open incident, over retries,   *)
(* lost and unreadable answers, crashes and the resolutions of others.     *)
(***************************************************************************)
THEOREM NotClosedBehindItsBack == Spec => []TriggeredMeansOpen
<1>1. Init => OpenInv
  BY DEF Init, OpenInv, KeysOf, OpenFor, Remembered
<1>2. OpenInv => TriggeredMeansOpen
  BY DEF OpenInv, OwnIncidents, Remembered, TriggeredMeansOpen
<1> QED
  BY <1>1, <1>2, StageInit, StageStep, OpenStep, TypeCorrect, PTL DEF Spec

-----------------------------------------------------------------------------
(* The providers *)

(***************************************************************************)
(* What the packages of the providers have in common, whatever they are.   *)
(***************************************************************************)
Regular(p) ==
    /\ p.incident \in {"nothing", "endpoint", "issues", "generated", "returned", "continued"}
    /\ p.groups \in {"none", "any", "unique"}
    /\ p.paired \cap p.defaulted = {}
    /\ p.pinned # {} => p.groups = "none" /\ "repository-url" \in p.required

(***************************************************************************)
(* Each of the forty, and only custom does not look at its overrides.      *)
(***************************************************************************)
LEMMA ProvidersRegular ==
    \A type \in AlertTypes :
        /\ Regular(AlertingProviders[type])
        /\ AlertingProviders[type].groups = "any" => type = "custom"
<1>1. /\ Regular(AWSSES) /\ Regular(Custom) /\ Regular(Datadog)
      /\ Regular(Discord) /\ Regular(Email) /\ Regular(Gitea)
      /\ Regular(GitHub) /\ Regular(GitLab) /\ Regular(GoogleChat)
      /\ Regular(Gotify) /\ Regular(HomeAssistant) /\ Regular(IFTTT)
      /\ Regular(Ilert) /\ Regular(IncidentIO) /\ Regular(JetBrainsSpace)
      /\ Regular(Line) /\ Regular(Matrix) /\ Regular(Mattermost)
      /\ Regular(Messagebird) /\ Regular(NewRelic) /\ Regular(Ntfy)
      /\ Regular(Opsgenie) /\ Regular(PagerDuty) /\ Regular(Plivo)
      /\ Regular(Pushover) /\ Regular(RocketChat) /\ Regular(SendGrid)
      /\ Regular(Signal) /\ Regular(SIGNL4) /\ Regular(Slack)
      /\ Regular(Splunk) /\ Regular(Squadcast) /\ Regular(Teams)
      /\ Regular(TeamsWorkflows) /\ Regular(Telegram) /\ Regular(Twilio)
      /\ Regular(Vonage) /\ Regular(Webex) /\ Regular(Zapier)
      /\ Regular(Zulip)
  BY DEF Regular, Basic, AWSSES, Custom, Datadog, Discord, Email, Gitea, GitHub, GitLab,
         GoogleChat, Gotify, HomeAssistant, IFTTT, Ilert, IncidentIO,
         JetBrainsSpace, Line, Matrix, Mattermost, Messagebird, NewRelic, Ntfy,
         Opsgenie, PagerDuty, Plivo, Pushover, RocketChat, SendGrid, Signal,
         SIGNL4, Slack, Splunk, Squadcast, Teams, TeamsWorkflows, Telegram,
         Twilio, Vonage, Webex, Zapier, Zulip
<1>2. /\ AWSSES.groups # "any" /\ Datadog.groups # "any"
      /\ Discord.groups # "any" /\ Email.groups # "any"
      /\ Gitea.groups # "any" /\ GitHub.groups # "any"
      /\ GitLab.groups # "any" /\ GoogleChat.groups # "any"
      /\ Gotify.groups # "any" /\ HomeAssistant.groups # "any"
      /\ IFTTT.groups # "any" /\ Ilert.groups # "any"
      /\ IncidentIO.groups # "any" /\ JetBrainsSpace.groups # "any"
      /\ Line.groups # "any" /\ Matrix.groups # "any"
      /\ Mattermost.groups # "any" /\ Messagebird.groups # "any"
      /\ NewRelic.groups # "any" /\ Ntfy.groups # "any"
      /\ Opsgenie.groups # "any" /\ PagerDuty.groups # "any"
      /\ Plivo.groups # "any" /\ Pushover.groups # "any"
      /\ RocketChat.groups # "any" /\ SendGrid.groups # "any"
      /\ Signal.groups # "any" /\ SIGNL4.groups # "any"
      /\ Slack.groups # "any" /\ Splunk.groups # "any"
      /\ Squadcast.groups # "any" /\ Teams.groups # "any"
      /\ TeamsWorkflows.groups # "any" /\ Telegram.groups # "any"
      /\ Twilio.groups # "any" /\ Vonage.groups # "any"
      /\ Webex.groups # "any" /\ Zapier.groups # "any"
      /\ Zulip.groups # "any"
  BY DEF Basic, AWSSES, Datadog, Discord, Email, Gitea, GitHub, GitLab, GoogleChat,
         Gotify, HomeAssistant, IFTTT, Ilert, IncidentIO, JetBrainsSpace, Line,
         Matrix, Mattermost, Messagebird, NewRelic, Ntfy, Opsgenie, PagerDuty,
         Plivo, Pushover, RocketChat, SendGrid, Signal, SIGNL4, Slack, Splunk,
         Squadcast, Teams, TeamsWorkflows, Telegram, Twilio, Vonage, Webex,
         Zapier, Zulip
<1>3. /\ AlertingProviders["aws-ses"] = AWSSES
      /\ AlertingProviders["custom"] = Custom
      /\ AlertingProviders["datadog"] = Datadog
      /\ AlertingProviders["discord"] = Discord
      /\ AlertingProviders["email"] = Email
      /\ AlertingProviders["gitea"] = Gitea
      /\ AlertingProviders["github"] = GitHub
      /\ AlertingProviders["gitlab"] = GitLab
      /\ AlertingProviders["googlechat"] = GoogleChat
      /\ AlertingProviders["gotify"] = Gotify
      /\ AlertingProviders["homeassistant"] = HomeAssistant
      /\ AlertingProviders["ifttt"] = IFTTT
      /\ AlertingProviders["ilert"] = Ilert
      /\ AlertingProviders["incident-io"] = IncidentIO
      /\ AlertingProviders["jetbrainsspace"] = JetBrainsSpace
      /\ AlertingProviders["line"] = Line
      /\ AlertingProviders["matrix"] = Matrix
      /\ AlertingProviders["mattermost"] = Mattermost
      /\ AlertingProviders["messagebird"] = Messagebird
      /\ AlertingProviders["newrelic"] = NewRelic
      /\ AlertingProviders["ntfy"] = Ntfy
      /\ AlertingProviders["opsgenie"] = Opsgenie
      /\ AlertingProviders["pagerduty"] = PagerDuty
      /\ AlertingProviders["plivo"] = Plivo
      /\ AlertingProviders["pushover"] = Pushover
      /\ AlertingProviders["rocketchat"] = RocketChat
      /\ AlertingProviders["sendgrid"] = SendGrid
      /\ AlertingProviders["signal"] = Signal
      /\ AlertingProviders["signl4"] = SIGNL4
      /\ AlertingProviders["slack"] = Slack
      /\ AlertingProviders["splunk"] = Splunk
      /\ AlertingProviders["squadcast"] = Squadcast
      /\ AlertingProviders["teams"] = Teams
      /\ AlertingProviders["teams-workflows"] = TeamsWorkflows
      /\ AlertingProviders["telegram"] = Telegram
      /\ AlertingProviders["twilio"] = Twilio
      /\ AlertingProviders["vonage"] = Vonage
      /\ AlertingProviders["webex"] = Webex
      /\ AlertingProviders["zapier"] = Zapier
      /\ AlertingProviders["zulip"] = Zulip
  BY DEF AlertTypes, AlertingProviders
<1> QED
  BY <1>1, <1>2, <1>3 DEF AlertTypes

-----------------------------------------------------------------------------
(* Nothing is left open *)

(***************************************************************************)
(* After a Send the key of the alert is that of the incidents that are     *)
(* tracked for it, the new one included, which waits for its row.          *)
(***************************************************************************)
LEMMA SendTracks ==
    ASSUME TypeOK, TrackInv, NEW a \in Alerts,
           SendRefused(a) \/ SendLost(a) \/ SendAccepted(a) \/ SendUnreadable(a),
           NEW i \in open' \ abandoned'
    PROVE  /\ i \in open \ abandoned \/ (i.alert = a /\ stage'.at = "save")
           /\ i.alert = a /\ Keyed => resolveKey'[a] = i.id
<1>0. /\ \A k : [resolveKey EXCEPT ![a] = k][a] = k
      /\ \A id : Incident(id, a).id = id /\ Incident(id, a).alert = a
      /\ \A id : Opens(id, a) \subseteq {Incident(id, a)}
  BY DEF TypeOK, Incident, Opens
<1>1. /\ up /\ \A id, b : Opens(id, b) \subseteq {Incident(id, b)}
  BY SendSteps DEF Opens
<1>2. ASSUME i \in open \ abandoned, i.alert = a, Keyed
      PROVE  /\ resolveKey[a] = i.id /\ i.id # NoKey
             /\ KeyInRequest(a) = {i.id}
             /\ Provider.incident # "returned" => Addressed(i.id) = {i.id}
  <2>1. resolveKey[a] = i.id
    BY <1>1, <1>2 DEF TrackInv, Tracked
  <2>2. i.id # NoKey
    <3>1. i \in [id : 1..MaxIncidents, alert : Alerts]
      BY <1>2 DEF TypeOK
    <3> QED
      BY <3>1 DEF NoKey
  <2>3. KeyInRequest(a) = {i.id}
    BY <2>1, <2>2 DEF KeyInRequest
  <2>4. Provider.incident # "returned" => Addressed(i.id) = {i.id}
    BY <1>2, <2>2 DEF Addressed, Keyed
  <2> QED
    BY <2>1, <2>2, <2>3, <2>4
<1>3. CASE SendRefused(a)
  <2>1. UNCHANGED <<open, abandoned>>
    BY <1>3 DEF SendRefused
  <2>2. \E key \in KeyInRequest(a) : resolveKey'[a] \in {key, resolveKey[a]}
    BY <1>0, <1>3 DEF SendRefused
  <2> QED
    BY <1>2, <2>1, <2>2
<1>4. CASE SendLost(a)
  <2>1. \E key \in KeyInRequest(a) : resolveKey'[a] = key
    BY <1>0, <1>4 DEF SendLost
  <2>2. open' \ abandoned' \subseteq open \ abandoned
    BY <1>4 DEF SendLost
  <2> QED
    BY <1>2, <2>1, <2>2
<1>5. CASE SendAccepted(a)
  <2>1. PICK key \in KeyInRequest(a) : \E id \in Addressed(key) :
            /\ resolveKey'[a] = KeyFromAnswer(key, id)
            /\ open' = open \cup Opens(id, a)
            /\ abandoned' =
                (abandoned \cup IF Provider.incident = "returned" THEN OpenFor(a) ELSE {})
                    \ {Incident(id, a)}
    BY <1>0, <1>5 DEF SendAccepted
  <2>2. PICK id \in Addressed(key) :
            /\ resolveKey'[a] = KeyFromAnswer(key, id)
            /\ open' = open \cup Opens(id, a)
            /\ abandoned' =
                (abandoned \cup IF Provider.incident = "returned" THEN OpenFor(a) ELSE {})
                    \ {Incident(id, a)}
    BY <2>1
  <2>3. stage'.at = "save"
    BY <1>5 DEF SendAccepted
  <2>4. CASE i = Incident(id, a)
    <3>1. Keyed => KeyFromAnswer(key, id) = id
      <4>1. CASE Provider.incident = "generated"
        <5>1. key # NoKey
          <6>1. \A k \in Fresh : k # NoKey
            BY FreshKeys DEF NoKey
          <6> QED
            BY <4>1, <6>1 DEF KeyInRequest
        <5>2. id = key
          BY <4>1, <5>1 DEF Addressed
        <5> QED
          BY <5>2 DEF KeyFromAnswer
      <4>2. CASE Provider.incident = "continued"
        BY <4>2 DEF KeyFromAnswer
      <4>3. CASE Provider.incident = "returned" /\ use.sendOnResolved
        BY <4>3 DEF KeyFromAnswer
      <4> QED
        BY <4>1, <4>2, <4>3 DEF Keyed
    <3> QED
      BY <1>0, <2>2, <2>3, <2>4, <3>1
  <2>5. CASE i # Incident(id, a)
    <3>1. i \in open \ abandoned /\ (Provider.incident = "returned" => i.alert # a)
      BY <1>0, <2>2, <2>5 DEF OpenFor
    <3>2. ASSUME i.alert = a, Keyed PROVE resolveKey'[a] = i.id
      <4>1. key = i.id /\ id = i.id
        BY <1>2, <3>1, <3>2
      <4> QED
        BY <2>2, <4>1 DEF KeyFromAnswer
    <3> QED
      BY <3>1, <3>2
  <2> QED
    BY <2>4, <2>5
<1>6. CASE SendUnreadable(a)
  <2>1. \E id : /\ open' = open \cup {Incident(id, a)}
                /\ \/ /\ abandoned' = abandoned \cup {Incident(id, a)}
                      /\ UNCHANGED resolveKey
                   \/ abandoned' = abandoned \cup {Incident(id, a)} \cup OpenFor(a)
    BY <1>6 DEF SendUnreadable
  <2>2. i \in open \ abandoned /\ (i.alert = a => UNCHANGED resolveKey)
    BY <2>1 DEF OpenFor
  <2> QED
    BY <1>2, <2>2
<1> QED
  BY <1>3, <1>4, <1>5, <1>6

(***************************************************************************)
(* A Send only opens incidents of its alert, and those that its provider   *)
(* has.                                                                    *)
(***************************************************************************)
LEMMA SendKinds ==
    ASSUME TypeOK, NEW a \in Alerts,
           SendRefused(a) \/ SendLost(a) \/ SendAccepted(a) \/ SendUnreadable(a)
    PROVE  /\ Provider.incident = "nothing" => open' = open
           /\ Provider.incident = "endpoint" =>
                \A i \in open' : i \in open \/ i.id = EndpointKey
<1>0. \A id : Incident(id, a).id = id
  BY DEF Incident
<1>1. CASE SendRefused(a)
  BY <1>1 DEF SendRefused
<1>2. CASE SendLost(a)
  BY <1>0, <1>2 DEF SendLost, Opens, Addressed
<1>3. CASE SendAccepted(a)
  BY <1>0, <1>3 DEF SendAccepted, Opens, Addressed
<1>4. CASE SendUnreadable(a)
  BY <1>4 DEF SendUnreadable
<1> QED
  BY <1>1, <1>2, <1>3, <1>4

(***************************************************************************)
(* A notification closes what is tracked for its alert or gives it up.     *)
(***************************************************************************)
LEMMA NotifyCloses ==
    ASSUME TypeOK, StageInv, TrackInv, NotifyAccepted \/ NotifyFails \/ NotifyUnreadable
    PROVE  \A i \in open' \ abandoned' : i \in open \ abandoned /\ i.alert # stage.alert
<1>0. /\ Notifying /\ BeingNotified(stage.alert) /\ up /\ use.sendOnResolved
      /\ open' \subseteq open /\ abandoned \cap open' \subseteq abandoned'
  BY NotifySteps DEF Notifying, StageInv
<1>1. CASE NotifyAccepted
  <2>1. PICK closed \in Closes(resolveKey[stage.alert]) : open' = open \ closed
    BY <1>1 DEF NotifyAccepted
  <2>2. abandoned' = open' \cap
            (abandoned \cup IF PageOverflows THEN OpenFor(stage.alert) ELSE {})
    BY <1>1 DEF NotifyAccepted
  <2>3. CASE PageOverflows
    BY <1>0, <2>1, <2>2, <2>3 DEF OpenFor
  <2>4. CASE ~PageOverflows
    <3> SUFFICES ASSUME NEW i \in open \ abandoned, i.alert = stage.alert
                 PROVE  i \in closed
      BY <1>0, <2>1, <2>2, <2>4
    <3>1. Keyed => i.id = resolveKey[stage.alert]
      BY <1>0 DEF TrackInv, Tracked
    <3>2. Provider.incident \in {"nothing", "endpoint", "issues",
                                 "generated", "returned", "continued"}
      BY ProvidersRegular, IncidentsAssumption DEF TypeOK, Provider, Regular
    <3>3. CASE Provider.incident \in {"generated", "returned", "continued"}
      <4>1. closed = {j \in open : j.id = resolveKey[stage.alert]}
        BY <2>1, <2>4, <3>3 DEF Closes
      <4> QED
        BY <1>0, <3>1, <3>3, <4>1 DEF Keyed
    <3>4. CASE Provider.incident = "issues"
      BY <2>1, <2>4, <3>4 DEF Closes
    <3>5. CASE Provider.incident = "endpoint"
      <4>1. closed = {j \in open : j.id = EndpointKey}
        BY <2>1, <2>4, <3>5 DEF Closes
      <4> QED
        BY <3>5, <4>1 DEF TrackInv
    <3>6. CASE Provider.incident = "nothing"
      BY <3>6 DEF TrackInv
    <3> QED
      BY <3>2, <3>3, <3>4, <3>5, <3>6
  <2> QED
    BY <2>3, <2>4
<1>2. CASE NotifyFails
  BY <1>0, <1>2 DEF NotifyFails, OpenFor
<1>3. CASE NotifyUnreadable
  BY <1>0, <1>3 DEF NotifyUnreadable, OpenFor
<1> QED
  BY <1>1, <1>2, <1>3

(***************************************************************************)
(* Every step keeps track of what is open.                                 *)
(***************************************************************************)
LEMMA TrackStep == TypeOK /\ StageInv /\ TrackInv /\ [Next]_vars => TrackInv'
<1> SUFFICES ASSUME TypeOK, StageInv, TrackInv, [Next]_vars PROVE TrackInv'
  OBVIOUS
<1>0. /\ UNCHANGED use /\ Provider' = Provider /\ (Keyed' <=> Keyed)
      /\ EndpointKey' = EndpointKey
      /\ \A i \in open \ abandoned : Tracked(i)
      /\ \A i \in open : i.alert \in Alerts /\ i.id # NoRow
  BY SameInstallation DEF Keyed, EndpointKey, TrackInv, TypeOK, NoRow
<1>1. ASSUME \A i \in open' \ abandoned' : Tracked(i)', open' \subseteq open
      PROVE  TrackInv'
  BY <1>0, <1>1 DEF TrackInv
<1>2. CASE Start
  <2>1. /\ ~up /\ up' = TRUE /\ UNCHANGED <<use, rows, open, abandoned>>
        /\ \A a \in Alerts : use.owner # "suite" /\ rows[a] # NoRow =>
                triggered'[a] /\ resolveKey'[a] = rows[a]
    BY <1>2, StartSteps
  <2>2. \A i \in open' \ abandoned' : Tracked(i)'
    BY <1>0, <2>1 DEF Tracked
  <2> QED
    BY <1>1, <2>1, <2>2
<1>3. ASSUME NEW a \in Alerts,
             SendRefused(a) \/ SendLost(a) \/ SendAccepted(a) \/ SendUnreadable(a)
      PROVE  TrackInv'
  <2>1. /\ up /\ up' /\ stage = Idle /\ UNCHANGED rows
        /\ \A b \in Alerts \ {a} : resolveKey'[b] = resolveKey[b]
        /\ \A b \in Alerts : triggered[b] => triggered'[b]
        /\ stage' = Idle \/ (stage' = [at |-> "save", alert |-> a] /\ triggered'[a])
    BY <1>3, SendSteps DEF TypeOK
  <2>2. \A b : ~Saving(b) /\ ~BeingNotified(b)
    BY <2>1, StageShape DEF Saving, BeingNotified
  <2>3. ASSUME NEW i \in open' \ abandoned' PROVE Tracked(i)'
    <3>1. /\ i \in open \ abandoned \/ (i.alert = a /\ stage'.at = "save")
          /\ i.alert = a /\ Keyed => resolveKey'[a] = i.id
      BY <1>3, <2>3, SendTracks
    <3>2. CASE i \in open \ abandoned
      <4>1. Tracked(i) /\ i.alert \in Alerts
        BY <1>0, <3>2
      <4>2. /\ triggered'[i.alert] /\ (Keyed => resolveKey'[i.alert] = i.id)
            /\ \/ use.owner = "suite"
               \/ rows[i.alert] # NoRow /\ (Keyed => rows[i.alert] = i.id)
        BY <2>1, <2>2, <3>1, <4>1 DEF Tracked
      <4> QED
        BY <1>0, <2>1, <4>2 DEF Tracked
    <3>3. CASE i.alert = a /\ stage'.at = "save"
      <4>1. stage' = [at |-> "save", alert |-> a] /\ triggered'[a]
        BY <2>1, <3>3, StageShape
      <4>2. Saving(a)'
        BY <4>1 DEF Saving
      <4> QED
        BY <1>0, <2>1, <3>1, <3>3, <4>1, <4>2 DEF Tracked
    <3> QED
      BY <3>1, <3>2, <3>3
  <2> QED
    BY <1>0, <1>3, <2>3, SendKinds DEF TrackInv
<1>4. CASE Save
  <2>1. /\ up /\ stage.alert \in Alerts /\ Saving(stage.alert) /\ stage' = Idle
        /\ UNCHANGED <<use, up, triggered, resolveKey, open, abandoned>>
        /\ \A b \in Alerts : rows'[b] = IF b = stage.alert THEN resolveKey[b] ELSE rows[b]
        /\ resolveKey[stage.alert] # NoRow
    BY <1>4, SaveSteps DEF TypeOK, NoKey, NoRow
  <2>2. ASSUME NEW i \in open' \ abandoned' PROVE Tracked(i)'
    <3>1. /\ i \in open \ abandoned /\ i.alert \in Alerts
          /\ triggered[i.alert] /\ (Keyed => resolveKey[i.alert] = i.id)
          /\ \/ i.alert = stage.alert \/ use.owner = "suite"
             \/ rows[i.alert] # NoRow /\ (Keyed => rows[i.alert] = i.id)
      BY <1>0, <2>1, <2>2 DEF Tracked, Saving, BeingNotified
    <3> QED
      BY <1>0, <2>1, <3>1 DEF Tracked
  <2> QED
    BY <1>1, <2>1, <2>2
<1>5. ASSUME NEW a \in Alerts, Resolve(a) PROVE TrackInv'
  <2>1. /\ up /\ stage = Idle /\ UNCHANGED <<use, up, resolveKey, open>>
        /\ \A b \in Alerts : /\ triggered'[b] <=> b # a /\ triggered[b]
                             /\ rows'[b] = IF b = a THEN NoRow ELSE rows[b]
        /\ \/ stage' = [at |-> "notify", alert |-> a] /\ UNCHANGED abandoned
           \/ abandoned' = abandoned \cup OpenFor(a) /\ UNCHANGED stage
    BY <1>5, ResolveSteps
  <2>2. \A b : ~Saving(b) /\ ~BeingNotified(b)
    BY <2>1, StageShape DEF Saving, BeingNotified
  <2>3. ASSUME NEW i \in open' \ abandoned' PROVE Tracked(i)'
    <3>1. i \in open \ abandoned /\ i.alert \in Alerts
      BY <1>0, <2>1, <2>3
    <3>2. /\ triggered[i.alert] /\ (Keyed => resolveKey[i.alert] = i.id)
          /\ \/ use.owner = "suite"
             \/ rows[i.alert] # NoRow /\ (Keyed => rows[i.alert] = i.id)
      BY <1>0, <2>1, <2>2, <3>1 DEF Tracked
    <3>3. CASE i.alert = a
      <4>1. BeingNotified(a)'
        BY <2>1, <2>3, <3>1, <3>3 DEF BeingNotified, OpenFor
      <4> QED
        BY <1>0, <2>1, <3>2, <3>3, <4>1 DEF Tracked
    <3>4. CASE i.alert # a
      BY <1>0, <2>1, <3>1, <3>2, <3>4 DEF Tracked
    <3> QED
      BY <3>3, <3>4
  <2> QED
    BY <1>1, <2>1, <2>3
<1>6. CASE NotifyAccepted \/ NotifyFails \/ NotifyUnreadable
  <2>1. /\ BeingNotified(stage.alert) /\ up /\ UNCHANGED <<use, up, triggered, rows>>
        /\ \A b \in Alerts \ {stage.alert} : resolveKey'[b] = resolveKey[b]
        /\ open' \subseteq open
    BY <1>6, NotifySteps DEF Notifying, EndsNotification
  <2>2. ASSUME NEW i \in open' \ abandoned' PROVE Tracked(i)'
    <3>1. i \in open \ abandoned /\ i.alert # stage.alert /\ i.alert \in Alerts
      BY <1>0, <1>6, <2>2, NotifyCloses
    <3>2. ~Saving(i.alert) /\ ~BeingNotified(i.alert)
      BY <3>1 DEF Saving, BeingNotified
    <3>3. /\ triggered[i.alert] /\ (Keyed => resolveKey[i.alert] = i.id)
          /\ \/ use.owner = "suite"
             \/ rows[i.alert] # NoRow /\ (Keyed => rows[i.alert] = i.id)
      BY <1>0, <2>1, <3>1, <3>2 DEF Tracked
    <3> QED
      BY <1>0, <2>1, <3>1, <3>3 DEF Tracked
  <2> QED
    BY <1>1, <2>1, <2>2
<1>7. CASE Crash
  <2>1. /\ up /\ ~up' /\ UNCHANGED <<use, rows, open>> /\ abandoned \subseteq abandoned'
        /\ use.owner = "suite" => abandoned' = open
        /\ \A i \in open :
            (stage # Idle /\ stage.alert = i.alert
                /\ rows[i.alert] # resolveKey[i.alert]) => i \in abandoned'
    BY <1>7, CrashSteps
  <2>2. ASSUME NEW i \in open' \ abandoned' PROVE Tracked(i)'
    <3>1. /\ i \in open \ abandoned /\ i.alert \in Alerts /\ use.owner # "suite"
          /\ Keyed => resolveKey[i.alert] = i.id
          /\ resolveKey[i.alert] # NoRow
      BY <1>0, <2>1, <2>2 DEF Tracked, TypeOK, NoKey, NoRow
    <3>2. CASE Saving(i.alert) \/ BeingNotified(i.alert)
      <4>1. rows[i.alert] = resolveKey[i.alert]
        BY <2>1, <2>2, <3>1, <3>2, StageShape DEF Saving, BeingNotified
      <4> QED
        BY <1>0, <2>1, <3>1, <4>1 DEF Tracked
    <3>3. CASE ~Saving(i.alert) /\ ~BeingNotified(i.alert)
      <4>1. rows[i.alert] # NoRow /\ (Keyed => rows[i.alert] = i.id)
        BY <1>0, <2>1, <3>1, <3>3 DEF Tracked
      <4> QED
        BY <1>0, <2>1, <3>1, <4>1 DEF Tracked
    <3> QED
      BY <3>2, <3>3
  <2> QED
    BY <1>1, <2>1, <2>2
<1>8. CASE UNCHANGED vars
  BY <1>0, <1>8 DEF TrackInv, Tracked, Saving, BeingNotified, vars
<1> QED
  BY <1>2, <1>3, <1>4, <1>5, <1>6, <1>7, <1>8 DEF Next

(***************************************************************************)
(* When an alert has been resolved, whatever is still open for it was      *)
(* given up at one of the points that NothingLeftOpen lists: an answer to  *)
(* the request that opened it or the one that was to resolve it was lost,  *)
(* unreadable or a refusal, no such request is made, a page of issues was  *)
(* too small, a reminder opened another incident, or the process died      *)
(* between a request and its row, or at any moment for a suite's alert.    *)
(***************************************************************************)
THEOREM NoLostIncident == Spec => []NothingLeftOpen
<1>1. Init => TrackInv
  BY DEF Init, TrackInv
<1>2. TypeOK /\ TrackInv => NothingLeftOpen
  BY StageShape DEF TrackInv, Tracked, BeingNotified, OpenFor, NothingLeftOpen
<1> QED
  BY <1>1, <1>2, StageInit, StageStep, TrackStep, TypeCorrect, PTL DEF Spec

-----------------------------------------------------------------------------
(* The layers of the configuration *)

(***************************************************************************)
(* Any numbers there are have a least one.                                 *)
(***************************************************************************)
LEMMA LeastNumber ==
    ASSUME NEW T, T \subseteq Nat, T # {}
    PROVE  \E x \in T : \A y \in T : x <= y
<1> DEFINE R == {ss \in Nat \X Nat : ss[1] < ss[2]}
<1>1. IsWellFoundedOn(R, Nat)
  BY NatLessThanWellFounded DEF OpToRel
<1>2. \A x, y \in Nat : y < x => <<y, x>> \in R
  OBVIOUS
<1> HIDE DEF R
<1>3. PICK x \in T : \A y \in T : ~ (<<y, x>> \in R)
  BY <1>1, WFMin
<1>4. \A y \in T : ~(y < x)
  BY <1>2, <1>3
<1>5. \A y \in T : x <= y
  BY <1>4
<1> QED
  BY <1>5

\* The overrides of the alert's group, and the one that is merged.
Mine == OfGroup(Provider, use.setup, use.group)

First == CHOOSE i \in Mine : \A j \in Mine : i <= j

OfFirst == IF Mine = {} THEN {} ELSE Taken(Provider, use.setup.overrides[First].cfg)

OfAlert == Taken(Provider, use.override)

OfDefault == Set(use.setup.default)

MergedCfg == Merged(Provider, use.setup, use.group, use.override)

\* A field by the precedence of the layers.
Layered(f) ==
    IF f \in OfAlert THEN use.override[f]
    ELSE IF f \in OfFirst THEN use.setup.overrides[First].cfg[f]
    ELSE IF f \in OfDefault THEN use.setup.default[f]
    ELSE Value("built-in", TRUE)

(***************************************************************************)
(* The override that is merged is the first of its group.                  *)
(***************************************************************************)
LEMMA FirstOfGroup ==
    ASSUME TypeOK
    PROVE  /\ Mine # {} => First \in Mine
           /\ {i \in Mine : \A j \in Mine : i <= j} = IF Mine = {} THEN {} ELSE {First}
<1>1. Mine \subseteq Nat
  BY IncidentsAssumption DEF TypeOK, Mine, OfGroup
<1>2. CASE Mine = {}
  BY <1>2
<1>3. CASE Mine # {}
  <2>1. \E i \in Mine : \A j \in Mine : i <= j
    BY <1>1, <1>3, LeastNumber
  <2>2. First \in Mine /\ \A j \in Mine : First <= j
    BY <2>1 DEF First
  <2>3. \A i \in Mine : (\A j \in Mine : i <= j) => i = First
    BY <1>1, <2>2
  <2> QED
    BY <1>3, <2>2, <2>3
<1> QED
  BY <1>2, <1>3

(***************************************************************************)
(* Laying some fields of a layer over a configuration adds them and        *)
(* prefers them.                                                           *)
(***************************************************************************)
LEMMA OverlayFields ==
    ASSUME NEW cfg, NEW layer, NEW fields
    PROVE  /\ DOMAIN Overlay(cfg, layer, fields) = fields \cup DOMAIN cfg
           /\ \A f \in fields \cup DOMAIN cfg :
                Overlay(cfg, layer, fields)[f] =
                    IF f \in fields THEN layer[f] ELSE cfg[f]
BY DEF Overlay

(***************************************************************************)
(* The layers in their order are what the merges come to.                  *)
(***************************************************************************)
LEMMA MergedByLayer ==
    /\ DOMAIN MergedCfg = OfAlert \cup OfFirst \cup OfDefault \cup Provider.defaulted
    /\ \A f \in DOMAIN MergedCfg : MergedCfg[f] = Layered(f)
<1> DEFINE builtIn == [f \in Provider.defaulted |-> Value("built-in", TRUE)]
           default == Overlay(builtIn, use.setup.default, OfDefault)
           ofGroup == IF Mine = {} THEN default
                      ELSE Overlay(default, use.setup.overrides[First].cfg, OfFirst)
<1>1. MergedCfg = Overlay(ofGroup, use.override, OfAlert)
  BY DEF MergedCfg, Merged, Merge, Mine, First, OfFirst, OfAlert, OfDefault, WithDefaults
<1>2. /\ DOMAIN default = OfDefault \cup Provider.defaulted
      /\ \A f \in DOMAIN default :
            default[f] = IF f \in OfDefault THEN use.setup.default[f]
                         ELSE Value("built-in", TRUE)
  <2>1. /\ DOMAIN builtIn = Provider.defaulted
        /\ \A f \in Provider.defaulted : builtIn[f] = Value("built-in", TRUE)
    OBVIOUS
  <2> HIDE DEF builtIn
  <2>2. DOMAIN default = OfDefault \cup DOMAIN builtIn
    BY OverlayFields
  <2>3. \A f \in OfDefault \cup DOMAIN builtIn :
            default[f] = IF f \in OfDefault THEN use.setup.default[f] ELSE builtIn[f]
    BY DEF Overlay
  <2> HIDE DEF default
  <2> QED
    BY <2>1, <2>2, <2>3
<1> HIDE DEF default
<1>3. /\ DOMAIN ofGroup = OfFirst \cup DOMAIN default
      /\ \A f \in DOMAIN ofGroup :
            ofGroup[f] = IF f \in OfFirst THEN use.setup.overrides[First].cfg[f]
                         ELSE default[f]
  <2>1. CASE Mine = {}
    BY <2>1 DEF OfFirst
  <2>2. CASE Mine # {}
    <3> DEFINE cfg == use.setup.overrides[First].cfg
               merged == Overlay(default, cfg, OfFirst)
    <3>1. DOMAIN merged = OfFirst \cup DOMAIN default
      BY OverlayFields
    <3>2. \A f \in OfFirst \cup DOMAIN default :
            merged[f] = IF f \in OfFirst THEN cfg[f] ELSE default[f]
      BY DEF Overlay
    <3>3. ofGroup = merged
      BY <2>2
    <3> HIDE DEF merged, ofGroup
    <3> QED
      BY <3>1, <3>2, <3>3
  <2> QED
    BY <2>1, <2>2
<1> HIDE DEF ofGroup
<1>4. DOMAIN MergedCfg = OfAlert \cup DOMAIN ofGroup
  BY <1>1 DEF Overlay
<1>5. \A f \in DOMAIN MergedCfg :
        MergedCfg[f] = IF f \in OfAlert THEN use.override[f] ELSE ofGroup[f]
  BY <1>1, <1>4 DEF Overlay
<1> QED
  BY <1>2, <1>3, <1>4, <1>5 DEF Layered

\* The client of the repository is the one that Validate built.
Pinned ==
    /\ Provider.pinned # {}
    /\ MergedCfg["repository-url"].path = use.setup.default["repository-url"].path

(***************************************************************************)
(* What a Send goes by: the layers, but for what only the client reads.    *)
(***************************************************************************)
LEMMA SentByLayer ==
    /\ DOMAIN ConfigOfSend.cfg =
        IF Pinned THEN (DOMAIN MergedCfg \ Provider.pinned) \cup (OfDefault \cap Provider.pinned)
        ELSE DOMAIN MergedCfg
    /\ \A f \in DOMAIN ConfigOfSend.cfg :
        ConfigOfSend.cfg[f] =
            IF Pinned /\ f \in Provider.pinned THEN use.setup.default[f] ELSE Layered(f)
    /\ ConfigOfSend.ok = ConfigValid(Provider, ConfigOfSend.cfg)
<1>1. /\ ConfigOfSend.cfg = Effective(Provider, use.setup, MergedCfg)
      /\ ConfigOfSend.ok = ConfigValid(Provider, ConfigOfSend.cfg)
  BY DEF ConfigOfSend, GetConfig, MergedCfg
<1>2. CASE Pinned
  BY <1>1, <1>2, MergedByLayer DEF Effective, Pinned, OfDefault
<1>3. CASE ~Pinned
  BY <1>1, <1>3, MergedByLayer DEF Effective, Pinned
<1> QED
  BY <1>1, <1>2, <1>3

(***************************************************************************)
(* No field of the configuration of a Send is without a value.             *)
(***************************************************************************)
LEMMA NothingUnset == Set(ConfigOfSend.cfg) = DOMAIN ConfigOfSend.cfg
<1>1. ASSUME NEW f PROVE Layered(f).size # "zero"
  <2>1. f \in OfAlert => use.override[f].size # "zero"
    BY DEF OfAlert, Taken, Set
  <2>2. f \in OfFirst => use.setup.overrides[First].cfg[f].size # "zero"
    BY DEF OfFirst, Taken, Set
  <2>3. f \in OfDefault => use.setup.default[f].size # "zero"
    BY DEF OfDefault, Set
  <2>4. Value("built-in", TRUE).size # "zero"
    BY DEF Value
  <2> QED
    BY <2>1, <2>2, <2>3, <2>4 DEF Layered
<1>2. ASSUME NEW f \in DOMAIN ConfigOfSend.cfg PROVE ConfigOfSend.cfg[f].size # "zero"
  <2>1. CASE Pinned /\ f \in Provider.pinned
    <3>1. f \in OfDefault /\ ConfigOfSend.cfg[f] = use.setup.default[f]
      BY <2>1, SentByLayer
    <3> QED
      BY <3>1 DEF OfDefault, Set
  <2>2. CASE ~(Pinned /\ f \in Provider.pinned)
    BY <1>1, <2>2, SentByLayer
  <2> QED
    BY <2>1, <2>2
<1> QED
  BY <1>2 DEF Set

(***************************************************************************)
(* The client is kept if the alert does not lead to another repository.    *)
(***************************************************************************)
LEMMA RepositoryKnown ==
    ASSUME TypeOK, Configured
    PROVE  KeepsClient <=> Pinned
<1>1. CASE Provider.pinned = {}
  BY <1>1 DEF KeepsClient, Pinned
<1>2. CASE Provider.pinned # {}
  <2>1. "repository-url" \in Provider.required /\ Provider.groups = "none"
    BY <1>2, ProvidersRegular, IncidentsAssumption DEF TypeOK, Provider, Regular
  <2>2. Mine = {} /\ OfFirst = {}
    BY <2>1 DEF Mine, OfGroup, OfFirst
  <2>3. "repository-url" \in OfDefault
    BY <2>1 DEF Configured, Validate, ConfigValid, OfDefault
  <2>4. MergedCfg["repository-url"] =
            IF "repository-url" \in OfAlert THEN use.override["repository-url"]
            ELSE use.setup.default["repository-url"]
    BY <2>2, <2>3, MergedByLayer DEF Layered
  <2> QED
    BY <1>2, <2>4 DEF KeepsClient, Pinned, OfAlert
<1> QED
  BY <1>1, <1>2

(***************************************************************************)
(* Field by field, a Send goes by the most specific layer that has a value *)
(* for it, for any of the forty providers: but for zeros, which are none,  *)
(* negative numbers that Merge passes over, and the repository, token and  *)
(* client of a GitHub or Gitea alert that does not lead to another         *)
(* repository.                                                             *)
(***************************************************************************)
THEOREM LayersInOrder == Spec => []MostSpecificWins
<1>1. ASSUME TypeOK, Configured PROVE MostSpecificWins
  <2>1. ASSUME NEW f \in DOMAIN ConfigOfSend.cfg
        PROVE  ConfigOfSend.cfg[f] = Expected(f)
    <3>1. /\ Mine # {} => First \in Mine
          /\ {i \in Mine : \A j \in Mine : i <= j} = IF Mine = {} THEN {} ELSE {First}
      BY <1>1, FirstOfGroup
    <3>2. KeepsClient <=> Pinned
      BY <1>1, RepositoryKnown
    <3> DEFINE first == {i \in Mine : \A j \in Mine : i <= j}
    <3>3. /\ (\E i \in first : f \in Taken(Provider, use.setup.overrides[i].cfg))
                <=> f \in OfFirst
          /\ f \in OfFirst => (CHOOSE i \in first : TRUE) = First
      BY <3>1 DEF OfFirst
    <3>4. Expected(f) =
            IF Pinned /\ f \in Provider.pinned THEN use.setup.default[f] ELSE Layered(f)
      BY <3>2, <3>3 DEF Expected, Layered, Mine, OfAlert, OfDefault
    <3> QED
      BY <3>4, SentByLayer
  <2>2. OfAlert \cup OfDefault \subseteq DOMAIN ConfigOfSend.cfg \cup Provider.pinned
    BY SentByLayer, MergedByLayer
  <2> QED
    BY <2>1, <2>2 DEF MostSpecificWins, OfAlert, OfDefault
<1>2. TypeOK => MostSpecificWins
  BY <1>1 DEF MostSpecificWins
<1> QED
  BY <1>2, TypeCorrect, PTL

(***************************************************************************)
(* A provider that was accepted refuses to send only for a value that an   *)
(* override which applies brought in, and of its group only one applies    *)
(* unless overrides are not validated.                                     *)
(***************************************************************************)
THEOREM AcceptedProvidersSend == Spec => []AcceptedCanSend
<1>1. ASSUME TypeOK, Configured PROVE AcceptedCanSend
  <2> DEFINE applied == {use.override} \cup {use.setup.overrides[i].cfg : i \in Mine}
  <2>0. /\ Provider.groups \in {"none", "any", "unique"}
        /\ Provider.paired \cap Provider.defaulted = {}
        /\ Provider.groups = "any" => use.type = "custom"
    BY <1>1, ProvidersRegular, IncidentsAssumption DEF TypeOK, Provider, Regular
  <2>1. ASSUME \A layer \in applied : \A f \in Taken(Provider, layer) :
                    layer[f].good /\ f \notin Provider.paired
        PROVE  ConfigOfSend.ok
    <3>1. \A f \in OfAlert : use.override[f].good /\ f \notin Provider.paired
      BY <2>1 DEF OfAlert
    <3>2. \A f \in OfFirst : /\ use.setup.overrides[First].cfg[f].good
                             /\ f \notin Provider.paired
      BY <1>1, <2>1, FirstOfGroup DEF OfFirst
    <3>3. /\ Provider.required \subseteq OfDefault
          /\ \/ Provider.paired \subseteq OfDefault
             \/ Provider.paired \cap OfDefault = {}
          /\ \A f \in Provider.checked \cap OfDefault :
                use.setup.default[f].good
      BY <1>1 DEF Configured, Validate, ConfigValid, OfDefault
    <3>4. Value("built-in", TRUE).good
      BY DEF Value
    <3>5. Provider.required \subseteq DOMAIN ConfigOfSend.cfg
      BY <3>3, SentByLayer, MergedByLayer
    <3>6. /\ Provider.paired \cap OfDefault \subseteq DOMAIN ConfigOfSend.cfg
          /\ Provider.paired \cap DOMAIN ConfigOfSend.cfg \subseteq OfDefault
      BY <2>0, <3>1, <3>2, SentByLayer, MergedByLayer
    <3>7. ASSUME NEW f \in Provider.checked \cap DOMAIN ConfigOfSend.cfg
          PROVE  ConfigOfSend.cfg[f].good
      <4>1. ConfigOfSend.cfg[f] =
                IF Pinned /\ f \in Provider.pinned THEN use.setup.default[f] ELSE Layered(f)
        BY SentByLayer
      <4>2. CASE Pinned /\ f \in Provider.pinned
        BY <3>3, <4>1, <4>2, SentByLayer
      <4>3. CASE ~(Pinned /\ f \in Provider.pinned)
        BY <3>1, <3>2, <3>3, <3>4, <4>1, <4>3 DEF Layered
      <4> QED
        BY <4>2, <4>3
    <3> QED
      BY <3>3, <3>5, <3>6, <3>7, SentByLayer, NothingUnset DEF ConfigValid
  <2>2. Cardinality(Mine) <= 1 \/ use.type = "custom"
    <3>1. CASE Provider.groups = "none"
      BY <3>1, FS_EmptySet DEF Mine, OfGroup
    <3>2. CASE Provider.groups = "unique"
      <4>1. \A i, j \in Mine : i = j
        BY <1>1, <3>2 DEF Mine, OfGroup, Configured, Validate, GroupsValid
      <4>2. ASSUME NEW i \in Mine PROVE Mine = {i}
        BY <4>1
      <4>3. CASE Mine = {}
        BY <4>3, FS_EmptySet
      <4>4. CASE \E i : Mine = {i}
        BY <4>4, FS_Singleton
      <4> QED
        BY <4>2, <4>3, <4>4
    <3> QED
      BY <2>0, <3>1, <3>2
  <2> QED
    BY <2>1, <2>2 DEF AcceptedCanSend, Mine
<1>2. TypeOK => AcceptedCanSend
  BY <1>1 DEF AcceptedCanSend
<1> QED
  BY <1>2, TypeCorrect, PTL

(***************************************************************************)
(* The threshold of an alert is its own, else that of the default alert of *)
(* an accepted provider unless it is a suite's, else 3.                    *)
(***************************************************************************)
THEOREM DefaultsInOrder == Spec => []DefaultAlertApplies
<1>1. TypeOK => DefaultAlertApplies
  BY IncidentsAssumption
     DEF TypeOK, DefaultAlertApplies, LoadedThreshold, AlertDefaults, MergeDefaultAlert
<1> QED
  BY <1>1, TypeCorrect, PTL
=============================================================================
