----------------------------- MODULE Lifecycle -----------------------------
(***************************************************************************)
(* The life of the process: main.go loads a configuration, opens the       *)
(* store, starts one goroutine per endpoint, heartbeat and suite           *)
(* (app/watchdog/watchdog.go) and then watches the configuration file.     *)
(* When the file changes everything is stopped and, if it is valid,        *)
(* started again with a new generation of goroutines.                      *)
(*                                                                         *)
(* ctx, monitoringSemaphore and the store are package variables that a     *)
(* reload replaces, and nobody waits for the goroutines of the generation  *)
(* before: they meet the variables of the next one.                        *)
(***************************************************************************)
EXTENDS Naturals, FiniteSets, Sequences, SequencesExt

CONSTANTS
    NumberMonitored,  \* enabled endpoints, heartbeats and suites, in the order
                      \* in which Monitor starts them
    Heartbeats,       \* those among them that wait for their first tick
    Concurrency,      \* cfg.Concurrency, the weight of the semaphore
    SkipsInvalid,     \* the configurations with skip-invalid-config-update
    MaxGen            \* bound on the configurations ever loaded

Monitored == 1..NumberMonitored
Gens == 1..MaxGen
Workers == Gens \X Monitored

ASSUME LifecycleAssumption ==
    /\ NumberMonitored \in Nat \ {0} /\ Heartbeats \subseteq Monitored
    /\ Concurrency \in Nat \ {0} /\ MaxGen \in Nat \ {0}
    /\ SkipsInvalid \subseteq Gens

VARIABLES
    alive,      \* the process exists
    signalled,  \* SIGTERM or SIGINT has been received
    main,       \* where start / listenToConfigurationFileChanges stands
    file,       \* the configuration file since it was last looked at
    current,    \* the generation of the loaded configuration
    ctxGen,     \* the generation of the variables ctx and monitoringSemaphore
    cancelled,  \* the generations whose context has been cancelled
    storeOpen,  \* the store behind store.Get() is open
    worker,     \* what each monitoring goroutine does
    queue,      \* per semaphore, the goroutines waiting in Acquire
    holders     \* per semaphore, the goroutines that have a permit

mainVars == <<alive, signalled, main, file, current, ctxGen, cancelled, storeOpen>>
workerVars == <<worker, queue, holders>>
vars == <<mainVars, workerVars>>

Mains == {"monitor", "spawn", "watch", "load", "close", "init"}

\* unborn: not started.  waiting: in the select of its loop.  acquiring: in
\* Acquire.  executing: the rest of executeEndpoint, executeSuite or
\* executeExternalEndpointHeartbeat.  done: returned.
Stages == {"unborn", "waiting", "acquiring", "executing", "done"}

TypeOK ==
    /\ alive \in BOOLEAN /\ signalled \in BOOLEAN /\ storeOpen \in BOOLEAN
    /\ main \in Mains
    /\ file \in {"same", "valid", "invalid"}
    /\ current \in Gens /\ ctxGen \in Gens /\ cancelled \subseteq Gens
    /\ worker \in [Workers -> Stages]
    /\ queue \in [Gens -> Seq(Workers)]
    /\ holders \in [Gens -> SUBSET Workers]

\* loadConfiguration and initializeStorage have succeeded.
Init ==
    /\ alive = TRUE /\ signalled = FALSE /\ storeOpen = TRUE
    /\ main = "monitor" /\ file = "same"
    /\ current = 1 /\ ctxGen = 1 /\ cancelled = {}
    /\ worker = [w \in Workers |-> "unborn"]
    /\ queue = [g \in Gens |-> <<>>]
    /\ holders = [g \in Gens |-> {}]
-----------------------------------------------------------------------------
(* A monitoring goroutine *)

Goto(w, stage) == worker' = [worker EXCEPT ![w] = stage]

\* executeX begins: Acquire is called on the semaphore and with the context
\* that the package variables hold now.
CallAcquire(w) ==
    /\ Goto(w, "acquiring")
    /\ queue' = [queue EXCEPT ![ctxGen] = Append(@, w)]
    /\ UNCHANGED holders

\* The ticker channel is ready in the select of the loop.
Tick(w) ==
    /\ alive /\ worker[w] = "waiting"
    /\ CallAcquire(w)
    /\ UNCHANGED mainVars

\* Mutant: the loop has no case for the Done channel.
DoneIsIgnored(w) == FALSE /\ UNCHANGED vars

\* The Done channel of the context the goroutine was started with is ready.
\* When the ticker is ready too, select picks either.
Done(w) ==
    /\ alive /\ worker[w] = "waiting" /\ w[1] \in cancelled
    /\ Goto(w, "done")
    /\ UNCHANGED <<mainVars, queue, holders>>

\* Mutant: a semaphore without a limit.
AcquireUnlimited(w) ==
    \E g \in Gens \ cancelled :
        /\ alive /\ queue[g] # <<>> /\ w = Head(queue[g])
        /\ queue' = [queue EXCEPT ![g] = Tail(@)]
        /\ holders' = [holders EXCEPT ![g] = @ \cup {w}]
        /\ Goto(w, "executing")
        /\ UNCHANGED mainVars

\* Acquire returns nil, first come first served; the release is deferred.
Acquire(w) ==
    \E g \in Gens \ cancelled :
        /\ alive /\ queue[g] # <<>> /\ w = Head(queue[g])
        /\ Cardinality(holders[g]) < Concurrency
        /\ queue' = [queue EXCEPT ![g] = Tail(@)]
        /\ holders' = [holders EXCEPT ![g] = @ \cup {w}]
        /\ Goto(w, "executing")
        /\ UNCHANGED mainVars

\* Acquire returns the error of its context; the execution is skipped.
AcquireFails(w) ==
    \E g \in cancelled : \E n \in DOMAIN queue[g] :
        /\ alive /\ queue[g][n] = w
        /\ queue' = [queue EXCEPT ![g] = RemoveAt(@, n)]
        /\ Goto(w, "waiting")
        /\ UNCHANGED <<mainVars, holders>>

\* Mutant: an execution may return without its permit being released.
ReturnWithoutRelease(w) ==
    /\ alive /\ worker[w] = "executing"
    /\ Goto(w, "waiting")
    /\ UNCHANGED <<mainVars, queue, holders>>

\* The execution returns, having given its result to the store behind
\* store.Get() or having skipped that for want of connectivity; the deferred
\* Release gives the permit back.
Return(w) ==
    \E g \in Gens :
        /\ alive /\ w \in holders[g]
        /\ holders' = [holders EXCEPT ![g] = @ \ {w}]
        /\ Goto(w, "waiting")
        /\ UNCHANGED <<mainVars, queue>>

WorkerStep(w) == Tick(w) \/ Done(w) \/ Acquire(w) \/ AcquireFails(w) \/ Return(w)
-----------------------------------------------------------------------------
(* start, stop and listenToConfigurationFileChanges *)

\* Monitor begins: a new context and a new semaphore.
NewMonitor ==
    /\ alive /\ main = "monitor"
    /\ ctxGen' = current
    /\ main' = "spawn"
    /\ UNCHANGED <<alive, signalled, file, current, cancelled, storeOpen, workerVars>>

Unborn == {m \in Monitored : worker[<<current, m>>] = "unborn"}

\* Monitor starts one goroutine after the other, pausing in between.
Spawn ==
    /\ alive /\ main = "spawn"
    /\ \E m \in Unborn :
         /\ \A other \in Unborn : m <= other
         /\ IF m \in Heartbeats
            THEN Goto(<<current, m>>, "waiting") /\ UNCHANGED <<queue, holders>>
            ELSE CallAcquire(<<current, m>>)
    /\ UNCHANGED mainVars

\* Monitor returns and the configuration file is watched.
Watch ==
    /\ alive /\ main = "spawn" /\ Unborn = {}
    /\ main' = "watch"
    /\ UNCHANGED <<alive, signalled, file, current, ctxGen, cancelled, storeOpen, workerVars>>

\* The file has changed: stop(cfg) cancels the context of the moment.
StopAll ==
    /\ alive /\ main = "watch" /\ file # "same"
    /\ cancelled' = cancelled \cup {ctxGen}
    /\ main' = "load"
    /\ UNCHANGED <<alive, signalled, file, current, ctxGen, storeOpen, workerVars>>

\* A second later the file is loaded and is valid; its time is remembered.
LoadValid ==
    /\ alive /\ main = "load" /\ file = "valid"
    /\ main' = "close"
    /\ file' = "same"
    /\ UNCHANGED <<alive, signalled, current, ctxGen, cancelled, storeOpen, workerVars>>

\* It is not valid and such updates are to be skipped: back to the loop.
SkipInvalid ==
    /\ alive /\ main = "load" /\ file = "invalid" /\ current \in SkipsInvalid
    /\ main' = "watch"
    /\ file' = "same"
    /\ UNCHANGED <<alive, signalled, current, ctxGen, cancelled, storeOpen, workerVars>>

\* It is not valid: the process panics.
PanicInvalid ==
    /\ alive /\ main = "load" /\ file = "invalid" /\ current \notin SkipsInvalid
    /\ alive' = FALSE
    /\ UNCHANGED <<signalled, main, file, current, ctxGen, cancelled, storeOpen, workerVars>>

CloseStore ==
    /\ alive /\ main = "close"
    /\ storeOpen' = FALSE
    /\ main' = "init"
    /\ UNCHANGED <<alive, signalled, file, current, ctxGen, cancelled, workerVars>>

\* Mutant: the store that was closed stays the one in use.
InitializeNothing ==
    /\ alive /\ main = "init"
    /\ current' = current + 1
    /\ main' = "monitor"
    /\ UNCHANGED <<alive, signalled, file, ctxGen, cancelled, storeOpen, workerVars>>

\* initializeStorage(updatedConfig), then start(updatedConfig).
InitializeStorage ==
    /\ alive /\ main = "init"
    /\ storeOpen' = TRUE
    /\ current' = current + 1
    /\ main' = "monitor"
    /\ UNCHANGED <<alive, signalled, file, ctxGen, cancelled, workerVars>>

\* The store cannot be opened: the process panics.
InitializeStorageFails ==
    /\ alive /\ main = "init"
    /\ alive' = FALSE
    /\ UNCHANGED <<signalled, main, file, current, ctxGen, cancelled, storeOpen, workerVars>>

\* The first of SIGINT and SIGTERM is handled by a goroutine of its own, from
\* the end of the first start on, whatever the listener is doing.
Signal ==
    /\ alive /\ ~signalled
    /\ current > 1 \/ main \notin {"monitor", "spawn"}
    /\ signalled' = TRUE
    /\ cancelled' = cancelled \cup {ctxGen}
    /\ UNCHANGED <<alive, main, file, current, ctxGen, storeOpen, workerVars>>

\* save() and done <- true: main returns, with it every goroutine.
Exit ==
    /\ alive /\ signalled
    /\ alive' = FALSE
    /\ UNCHANGED <<signalled, main, file, current, ctxGen, cancelled, storeOpen, workerVars>>

\* Somebody edits the configuration file, MaxGen - 1 times for the better.
Edit ==
    /\ alive /\ file = "same"
    /\ file' \in IF current < MaxGen /\ main \in {"monitor", "spawn", "watch"}
                 THEN {"valid", "invalid"} ELSE {"invalid"}
    /\ UNCHANGED <<alive, signalled, main, current, ctxGen, cancelled, storeOpen, workerVars>>

MainStep ==
    \/ NewMonitor \/ Spawn \/ Watch \/ StopAll \/ LoadValid \/ SkipInvalid \/ PanicInvalid
    \/ CloseStore \/ InitializeStorage \/ InitializeStorageFails

Terminated == ~alive /\ UNCHANGED vars

Next ==
    \/ \E w \in Workers : WorkerStep(w)
    \/ MainStep
    \/ Signal \/ Exit
    \/ Edit
    \/ Terminated

Spec == Init /\ [][Next]_vars

(***************************************************************************)
(* Goroutines are scheduled, evaluations end (they have timeouts), tickers *)
(* fire.  select picks at random among the ready channels: Done is picked  *)
(* in the end if it is ready again and again.                              *)
(***************************************************************************)
Fairness ==
    /\ \A w \in Workers : WF_vars(WorkerStep(w))
    /\ SF_vars(\E w \in Workers : Done(w))
    /\ WF_vars(MainStep) /\ WF_vars(Exit)

FairSpec == Spec /\ Fairness
-----------------------------------------------------------------------------
(* Properties *)

(***************************************************************************)
(* No semaphore ever has more holders than cfg.Concurrency, and a          *)
(* goroutine counts once, whatever the reloads and whichever way its       *)
(* executions end.  One that runs on the semaphore of another              *)
(* configuration than its own belongs to an older one that has been        *)
(* stopped: two live configurations are never monitored side by side.      *)
(***************************************************************************)
ConcurrencyRespected ==
    /\ \A g \in Gens : Cardinality(holders[g]) <= Concurrency
    /\ \A w \in Workers :
         worker[w] = "executing" <=> Cardinality({g \in Gens : w \in holders[g]}) = 1
    /\ \A w \in Workers, g \in Gens :
         w \in holders[g] /\ w[1] # g => w[1] < g /\ w[1] \in cancelled

(***************************************************************************)
(* A result can only meet a closed store when its configuration has been   *)
(* stopped: nothing the current configuration monitors is lost in a reload.*)
(***************************************************************************)
OnlyStoppedResultsAreLost ==
    \A w \in Workers : worker[w] = "executing" /\ ~storeOpen => w[1] \in cancelled

(***************************************************************************)
(* As long as the process is up, its context is not cancelled and the file *)
(* is left alone, everything that is monitored is executed again and again *)
(* whatever happened before: no permit leaks and nobody starves.           *)
(***************************************************************************)
MonitoringContinues ==
    <>[](alive /\ file = "same" /\ ctxGen \notin cancelled)
        => \A m \in Monitored : []<>(worker[<<current, m>>] = "executing")

(***************************************************************************)
(* The goroutines of a stopped configuration all return in the end.        *)
(***************************************************************************)
StoppedGoroutinesReturn ==
    <>[]alive =>
        \A w \in Workers : w[1] \in cancelled ~> worker[w] \in {"unborn", "done"}

(***************************************************************************)
(* "The old configuration will continue being used." (main.go, when an     *)
(* invalid update is skipped; README.md has the same sentence): as long as *)
(* the process is up and has not been told to end, and the file is left    *)
(* alone, what the loaded configuration monitors is executed.              *)
(***************************************************************************)
OldConfigurationContinues ==
    <>[](alive /\ ~signalled /\ file = "same")
        => \A m \in Monitored : []<>(worker[<<current, m>>] = "executing")
=============================================================================
