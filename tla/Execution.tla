----------------------------- MODULE Execution ------------------------------
(***************************************************************************)
(* One endpoint after the other through executeEndpoint (app/watchdog/     *)
(* endpoint.go), by as many goroutines as the semaphore lets in: the       *)
(* connectivity checker they share (app/config/connectivity/               *)
(* connectivity.go), EvaluateHealth (Health) and the maintenance windows   *)
(* that mute the alerts (Maintenance).                                     *)
(*                                                                         *)
(* The checker has no lock: comparing, the two assignments and reading are *)
(* steps of their own, between which other goroutines take theirs.  The    *)
(* clock does not advance within these instants; it does during a check,   *)
(* which is given up after Timeout, and during an evaluation.              *)
(***************************************************************************)
EXTENDS Maintenance, Health

CONSTANTS
    Goroutines,     \* that the semaphore lets in
    Endpoints,      \* what EvaluateHealth depends on: [kind, conditions]
    OwnWindows,     \* sets of windows that the endpoints may have
    GlobalWindows,  \* windows that the configuration may have for all
    Interval,       \* connectivity.checker.interval, in steps of the clock
    Timeout         \* of Check, in steps of the clock

ASSUME DurationAssumption == Interval \in Nat \ {0} /\ Timeout \in Nat

ASSUME ConfigurationAssumption ==
    /\ \A e \in Endpoints : e.kind \in Kinds /\ ConditionsValid(e)
    /\ \A e \in Endpoints : \A c \in e.conditions : c.placeholder \in Placeholders
    /\ \A ws \in OwnWindows : ws \subseteq Windows
    /\ \A w \in GlobalWindows : w \in Windows /\ Valid(w)

VARIABLES
    now,            \* the clock, cyclic in weeks
    own, global,    \* the maintenance windows, which are configured at first
    lastCheck,      \* Checker.lastCheck, as its age
    isConnected,    \* Checker.isConnected, and the age of its check
    pc,             \* where a goroutine is
    check,          \* the age of the check a goroutine is doing
    result,         \* what a goroutine found
    muted,          \* a goroutine found a window to be open
    stale,          \* history: used an old answer with nobody publishing one
    scheduled       \* history: a window was scheduled when it was looked at

vars == <<now, own, global, lastCheck, isConnected, pc, check, result, muted, stale,
          scheduled>>

-----------------------------------------------------------------------------
(* Ages *)

\* An age beyond which nothing changes; the zero time is as old.
Never == Interval + Timeout + 1

Ages == 0..Never

Older(age) == IF age = Never THEN Never ELSE age + 1

\* These take no time.
Instants == {"publishing", "reading"}

Tick ==
    /\ \A g \in Goroutines : pc[g] \notin Instants
    /\ \A g \in Goroutines : pc[g] = "checking" => check[g] < Timeout
    /\ now' = IF now.minute < Day - 1 THEN [now EXCEPT !.minute = @ + 1]
              ELSE [day |-> Weekday(now.day + 1), minute |-> 0]
    /\ lastCheck' = Older(lastCheck)
    /\ isConnected' = [isConnected EXCEPT !.age = Older(@)]
    /\ check' = [g \in Goroutines |-> IF pc[g] = "checking" THEN check[g] + 1 ELSE check[g]]
    /\ UNCHANGED <<own, global, pc, result, muted, stale, scheduled>>

-----------------------------------------------------------------------------
(* IsConnected *)

\* now.After(c.lastCheck.Add(c.Interval))
IsDue == lastCheck > Interval

\* Mutant: the time is kept before the check is made, not with its answer.
AskAhead(g) ==
    /\ pc[g] = "idle"
    /\ pc' = [pc EXCEPT ![g] = IF IsDue THEN "checking" ELSE "reading"]
    /\ check' = [check EXCEPT ![g] = 0]
    /\ lastCheck' = IF IsDue THEN 0 ELSE lastCheck
    /\ UNCHANGED <<now, own, global, isConnected, result, muted, stale, scheduled>>

Ask(g) ==
    /\ pc[g] = "idle"
    /\ pc' = [pc EXCEPT ![g] = IF IsDue THEN "checking" ELSE "reading"]
    /\ check' = [check EXCEPT ![g] = 0]
    /\ UNCHANGED <<now, own, global, lastCheck, isConnected, result, muted, stale,
                   scheduled>>

\* Check has returned, and the time at which it began is assigned ...
PublishTime(g) ==
    /\ pc[g] = "checking"
    /\ pc' = [pc EXCEPT ![g] = "publishing"]
    /\ lastCheck' = check[g]
    /\ UNCHANGED <<now, own, global, isConnected, check, result, muted, stale, scheduled>>

\* ... then its answer.
PublishAnswer(g) ==
    /\ pc[g] = "publishing"
    /\ pc' = [pc EXCEPT ![g] = "reading"]
    /\ \E connected \in BOOLEAN :
          isConnected' = [connected |-> connected, age |-> check[g]]
    /\ check' = [check EXCEPT ![g] = 0]
    /\ UNCHANGED <<now, own, global, lastCheck, result, muted, stale, scheduled>>

\* return c.isConnected; without connectivity the execution is skipped.
Read(g) ==
    /\ pc[g] = "reading"
    /\ pc' = [pc EXCEPT ![g] = IF isConnected.connected THEN "evaluating" ELSE "idle"]
    /\ stale' = (stale \/ /\ isConnected.age > Interval + Timeout
                          /\ \A h \in Goroutines : pc[h] # "publishing")
    /\ UNCHANGED <<now, own, global, lastCheck, isConnected, check, result, muted, scheduled>>

-----------------------------------------------------------------------------
(* The rest of executeEndpoint *)

NoResult == [success |-> FALSE, right |-> TRUE]

\* What the evaluation of the endpoints can come to.
Results ==
    {[success |-> EvaluateHealth(e, a).success, right |-> VerdictIsRight(e, a)] :
        e \in Endpoints, a \in Answers}

Evaluate(g) ==
    /\ pc[g] = "evaluating"
    /\ \E verdict \in Results : result' = [result EXCEPT ![g] = verdict]
    /\ pc' = [pc EXCEPT ![g] = "own windows"]
    /\ UNCHANGED <<now, own, global, lastCheck, isConnected, check, muted, stale, scheduled>>

\* The windows of the endpoint are all looked at.
LookAtOwnWindows(g) ==
    /\ pc[g] = "own windows"
    /\ pc' = [pc EXCEPT ![g] = "global window"]
    /\ muted' = [muted EXCEPT ![g] = \E w \in own : IsUnderMaintenance(w, now)]
    /\ scheduled' = [scheduled EXCEPT ![g] = {w \in own : InWindow(w, now)}]
    /\ UNCHANGED <<now, own, global, lastCheck, isConnected, check, result, stale>>

\* cfg.Maintenance.IsUnderMaintenance is evaluated later than those, and first.
LookAtGlobalWindow(g) ==
    /\ pc[g] = "global window"
    /\ pc' = [pc EXCEPT ![g] = "deciding"]
    /\ muted' = [muted EXCEPT ![g] = IsUnderMaintenance(global, now) \/ @]
    /\ scheduled' = [scheduled EXCEPT ![g] = @ \union {w \in {global} : InWindow(w, now)}]
    /\ UNCHANGED <<now, own, global, lastCheck, isConnected, check, result, stale>>

\* HandleAlerting (Alerting), or not; the goroutine takes the next endpoint.
Decide(g) ==
    /\ pc[g] = "deciding"
    /\ pc' = [pc EXCEPT ![g] = "idle"]
    /\ result' = [result EXCEPT ![g] = NoResult]
    /\ muted' = [muted EXCEPT ![g] = FALSE]
    /\ scheduled' = [scheduled EXCEPT ![g] = {}]
    /\ UNCHANGED <<now, own, global, lastCheck, isConnected, check, stale>>

-----------------------------------------------------------------------------
(***************************************************************************)
(* The windows of an endpoint as ValidateAndSetDefaults leaves them (app/  *)
(* config/endpoint/endpoint.go): with a configuration for DNS or SSH, it   *)
(* returns before it gets to them, whatever they say.                      *)
(***************************************************************************)
Loaded(ws, early) == IF early THEN {Unvalidated(w) : w \in ws} ELSE ws

Init ==
    /\ now \in [day : WeekDays, minute : Minutes]
    /\ \E ws \in OwnWindows, early \in BOOLEAN :
          (early \/ \A w \in ws : Valid(w)) /\ own = Loaded(ws, early)
    /\ global \in GlobalWindows
    /\ lastCheck = Never
    /\ isConnected = [connected |-> FALSE, age |-> Never]
    /\ pc = [g \in Goroutines |-> "idle"]
    /\ check = [g \in Goroutines |-> 0]
    /\ result = [g \in Goroutines |-> NoResult]
    /\ muted = [g \in Goroutines |-> FALSE]
    /\ stale = FALSE
    /\ scheduled = [g \in Goroutines |-> {}]

Next ==
    \/ Tick
    \/ \E g \in Goroutines :
          \/ Ask(g) \/ PublishTime(g) \/ PublishAnswer(g) \/ Read(g)
          \/ Evaluate(g) \/ LookAtOwnWindows(g) \/ LookAtGlobalWindow(g) \/ Decide(g)

Spec == Init /\ [][Next]_vars
-----------------------------------------------------------------------------
(***************************************************************************)
(* No execution goes by a connectivity check that began longer than the    *)
(* interval and the timeout of a check ago (connectivity.go:49-54),        *)
(* whatever other goroutines assign at the same time - but for the instant *)
(* in which one of them has assigned the time and not yet the answer.      *)
(***************************************************************************)
AnswerIsFresh == ~stale

(***************************************************************************)
(* The alerts of an endpoint are muted exactly if one of its windows, as   *)
(* they were loaded, or the global one is open at the moment it is looked  *)
(* at (watchdog/endpoint.go:57-69, maintenance.go:104-130); only a window  *)
(* that lasts into the hour of its next start may be missed.               *)
(***************************************************************************)
MutedIffScheduled ==
    \A g \in Goroutines : pc[g] = "deciding" =>
        /\ muted[g] => scheduled[g] # {}
        /\ (\E w \in scheduled[g] : EndsBeforeStartHour(w)) => muted[g]

(***************************************************************************)
(* The success that is stored and alerted about is deserved (endpoint.go   *)
(* 290-360 and 443-545, condition.go).  With conditions in capitals a      *)
(* complete answer is healthy if and only if they all hold of it.  An      *)
(* answer that did not come or was broken off, at any point of any call,   *)
(* is healthy only if they hold of what such an answer may leave: never a  *)
(* field, a status of HTTP only with the headers, and a connection only    *)
(* where the protocol has one or, of UDP, the address could be dialled.    *)
(***************************************************************************)
HealthyIsDeserved == \A g \in Goroutines : result[g].right
=============================================================================
