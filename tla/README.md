# Gatus in TLA+

Gatus monitors endpoints: it evaluates each of them on an interval, stores the
results, sends alerts through some forty providers, and serves a status page
and an API. This directory holds a TLA+ verification project for the Go code
under `src/app/`: modules that model the parts of the program that keep state,
configurations that check them with TLC on small instances, and theorems that
TLAPS proves for every value of the constants. Paths below are relative to
`src/app/`.

The project models control: every state change, guard, early return and error
path in the order of the code. Data is reduced to what a property tells apart:
an HTTP exchange is its outcome, a provider is whether it acted and what it
answered, an alert is a number.

## 1. The system

### Components, their state, and what makes them correct

| Component | Code | State | Operations | Correct when |
|---|---|---|---|---|
| Alerting of an endpoint | `watchdog/alerting.go`, `alerting/alert` | two counters of results in a row, `Alert.Triggered`, `LastReminderSent` | `HandleAlerting` with each result | no incident is announced twice or forgotten; thresholds and reminder intervals are kept; a failing provider is retried |
| Table of triggered alerts | `storage/store/sql/sql.go` 441-544, `main.go` 134-159 | a row per triggered alert, by checksum | upsert, delete, clean up and read back at start | a restart finds exactly the open incidents |
| External endpoints | `api/external_endpoint.go`, `watchdog/external_endpoint.go`, `config/endpoint/external_endpoint.go` | the same counters and alerts, without a lock | push of a result, heartbeat | used one at a time it counts exactly; races are bounded in effect; silence triggers |
| Lifecycle and watchdog | `main.go`, `watchdog/watchdog.go`, `watchdog/endpoint.go` | context, semaphore, store, goroutines | start, stop, reload, signal; execute | concurrency is respected over reloads; monitored things keep being executed; stopped goroutines return |
| Suites | `config/suite`, `watchdog/suite.go`, `config/gontext` | context of one execution, its results | execute endpoints in order, store values, alert, store the result | success means all ran and passed; clean-ups run; values do not leak |
| Memory store | `storage/store/memory` | results, events, uptime per key, with a lock that deletions ignore | insert, page, delete | newest results kept; events follow results; pages handed out do not change |
| SQL store | `storage/store/sql` | the same as tables, plus a write-through cache | the same in transactions | the same, and the cache is not stale |
| Uptime | `storage/store/memory/uptime.go`, `storage/store/sql/sql.go`, read by `api/badge.go`, `chart.go`, `raw.go` | executions per hour, merged into days in the database | count, merge, delete, sum up | every execution of the time asked for is counted once; few entries |
| Configuration | `config/config.go` and below | the loaded file and its time | load, validate, merge defaults, detect changes | defaults and overrides apply by precedence; an edit is noticed |
| Evaluation of an endpoint | `config/endpoint`, `client` | none | one call, then the conditions | success is what the answer deserves |
| Maintenance windows | `config/maintenance` | none | is a window open now? | open exactly when scheduled |
| Connectivity checker | `config/connectivity` | last check and answer, shared without a lock | is there a connection? | no answer older than the interval, but for the instant between the assignments of time and answer |
| Alerting providers | `alerting/provider/*` | resolve keys (in `Alert`) | validate, merge overrides, send | what was opened is resolved; what was accepted can send |
| HTTP API | `api/*` | a response cache of ten seconds | statuses, badges, charts, push | pages and badges agree with the store |
| Metrics | `metrics` | Prometheus collectors | register, publish | survives reloads |
| Client, security, web interface | `client`, `security`, `web` | connections, sessions | I/O | out of scope |

### How they interact

`main` loads the configuration, opens the store, reads the triggered alerts back
and starts one goroutine per endpoint, suite and heartbeat. Each of them waits
on a ticker and on a context, takes a permit of one weighted semaphore, executes,
inserts its result in the store, calls `HandleAlerting`, and gives the permit
back. `HandleAlerting` calls the provider and then the store. API requests read
the store and, for external endpoints, do what an execution does, on goroutines
of their own that take no permit. `listenToConfigurationFileChanges` stops
everything when the file changes, closes the store, opens it again and starts a
new generation of goroutines without waiting for those of the old one; `ctx`,
the semaphore and the store are package variables that the old goroutines meet
again with new values. Endpoint state such as counters and `Triggered` lives in
the configuration, so that it is gone after a reload except for what the table
of triggered alerts brings back.

### What is hard

* A process may die between a send, the flag in memory and the row in the table.
* Providers fail, and may fail after they acted.
* Nothing protects the counters of an external endpoint.
* Goroutines of two configurations overlap, on shared package variables.
* Counters and clocks are shared by alerts with different thresholds.
* Results of suites are matched with endpoints by position, although endpoints
  may be skipped.
* Cached and handed-out data may be older than the tables and slices behind it.
* A resolution must name what an earlier request opened, in forty dialects, although
  reminders overwrite the name and answers get lost.
* Calls break off half way with fields left at zero, and conditions are evaluated
  all the same.
* Windows span midnights, pages overflow, hours are merged into days.

`PROJECT.json` lists each of these as a hazard, at its line, with the properties
that watch it.

## 2. The modules

### AlertRules, Alerting, AlertHistory

`AlertRules` holds the decisions of `handleAlertsToTrigger` and
`handleAlertsToResolve` for one alert as operators, and the constants an alert is
configured with. `Alerting` runs them for the whole list of one endpoint:

| Code | Model |
|---|---|
| `NumberOfFailuresInARow`, `NumberOfSuccessesInARow` | `failures`, `successes`, counting up to `CountCap` |
| `Alert.Triggered` | `triggered`, a set of alerts |
| `ep.LastReminderSent` and its local copy | `sinceReminder`, `sinceRef`: ages up to `AgeCap` |
| `endpoint_alerts_triggered` | `persisted` and `rowSuccesses`, by checksum |
| the loop over `ep.Alerts` | `pc`, `i`; one action per branch of an iteration |
| `Send` | `SendSucceeds`, `SendFails` (which may deliver all the same) |
| `initializeStorage` | `Restart`, with a configuration chosen from `Configs` |
| a crash, or `main` returning | `Crash`, enabled in every state |

Sending and recording are two actions (`SendSucceeds`, `RecordTriggered`), and so
are forgetting and telling (`Resolve`, `NotifyResolved`): a crash can fall between
them. `incidents` is the provider's side: what Gatus opened there and has neither
declared over nor abandoned. `doubt` is a history variable with the alerts for
which a *fault* - a lost reply, a store error, a crash in one of those two
windows, a failed resolved notification - left the sides in disagreement; the
code has no way to repair these before the alert's next full cycle. Agreement is
claimed for all the others, and what puts an alert in `doubt` is stated in each
action, so that the claim cannot hide an error of another kind.

`AlertHistory` adds counters of what really happened, over restarts, to judge the
program's own counters by.

### ExternalEndpoint

One process per request in flight and one for the heartbeat. Each copies the
counters (`ToEndpoint`), stores its result, runs the loop of `HandleAlerting` on
the copy and writes the copy back in two assignments. Every read or write of a
shared field is a step of its own, `Alert.Triggered` is read before a send and
written after it. Go's memory model calls the unsynchronised accesses races; the
words are of machine size, so that a race is modelled as any interleaving of
whole reads and writes. `newest` keeps of the store what
`HasEndpointStatusNewerThan` can tell: how many firings ago the newest result
came and who made it. A firing without a connection, or whose `Acquire` fails, is
`HeartbeatSkips`. `installed` says which of the goroutines there are, one of
`Installations`: where no heartbeat is configured, its goroutine is never started. The
history variables `initials`, `overlapped` and `truth` serve the properties only. All alerts are enabled and configured; the
branches for those that are not are covered in `Alerting`.

### Lifecycle

`main` follows `start`, `stop` and `listenToConfigurationFileChanges`; each
goroutine, one per generation and monitored thing, goes through the stages of its
loop: waiting in the `select`, waiting in `Acquire` (a queue per semaphore, first
come first served as `semaphore.Weighted` does it, which is external code),
executing, done. `ctxGen` names the values that the package variables hold.
`Monitor` puts the new context and semaphore in place before it starts the first
goroutine (`NewMonitor`), `Spawn` starts one at a time, and a goroutine of an
older generation that ticks meanwhile uses the new ones. `Signal` and `Exit` model
the handler of SIGTERM, which runs beside a reload and waits for nobody.

### Suite

The loop of `Suite.Execute` with the timeout that may elapse at any point. A
context value is represented by where it came from, which is what decides whether
values leak between executions. `HandleAlertings` matches results with endpoints
by index as `executeSuite` does; `UpdateSuiteStatus` stores the result or not. The
alerts of suite endpoints themselves are those of `Alerting` and are not repeated
here: only whose result each was given. The timeout is only looked at before an
endpoint, and the `break` there leaves the `select`: `StartEndpoint` goes on. The history
variable `late` keeps the endpoints that were started after the timeout had elapsed.

### StatusRules, StatusStore, SqlStore

`StatusRules` says how events follow from results, what a page shows of both, and
what it means that the two are in step.
`StatusStore` is the abstract store: per key the newest results and the newest
events, changed by whole insertions and whole deletions. `SqlStore` is the code:

| Code | Model |
|---|---|
| tables `endpoint_results`, `endpoint_events`, as committed | `rows` |
| the rows an open insertion has written | `work`, visible to itself only (`View`) |
| `writeThroughCache`, one page per key | `cache` |
| `InsertEndpointResult` | `Begin`, `InsertFails`, `ListCacheKeys`, `Refresh`, `Commit`, `CommitFails` |
| `getEndpointStatusByKey`, called by requests and by insertions | `LookupReturns`, `LookupReadsEvents`, `ReadResults`, `Fill` |
| `s.db.Begin()` waiting for a connection | `Connects` |
| a failed statement, after which PostgreSQL refuses all others | `aborted` |
| the process ending and `initializeStorage` | `Restart`, with a configuration from `Configurations` |

The statements that insert and clean up are one step: only the goroutine of an
endpoint writes its rows, and nobody sees them before the commit. What happens to
the cache is not: it belongs to no transaction, so that each deletion, look-up,
read and fill is a step. The key of one endpoint may be a prefix of another's;
`GetKeysByPattern` then finds the pages of both, which `Matches` says.
`GetAllEndpointStatuses` is a request per key.

`Implements` maps the committed rows to the abstract store through `Newest`, which
is the `ORDER BY ... DESC LIMIT` of the queries: a commit is an insertion, a restart
is a deletion, everything else is a stutter.

### MemoryStore, Paging

`Paging` is `getStartAndEndIndex` with an `int` that wraps around, and what
`extractPageAndPageSizeFromRequest` makes of a request, next to a reference
definition of a page (`OnPage`), with which every answer is compared, also where the product of
page and page size has left the `int`. `MemoryStore` keeps results as Go does, as slices of arrays:

| Code | Model |
|---|---|
| backing arrays | `heap`; what nothing refers to any more is cleared (`HeapBecomes`) |
| `ss.Results` of a status | a slice: an array and two bounds |
| `append`, in place or to another array | `Appended` |
| `ss.Results[len-max:]` | `Trimmed`: the slice starts later, nothing moves |
| `InsertEndpointResult` between `s.Lock()` and `s.Unlock()` | `BeginInsert`, `EndInsert` |
| `ShallowCopyEndpointStatus` under the lock, JSON without it | `Read`, `Respond` |
| `DeleteAllEndpointStatusesNotInKeys`, which takes no lock | `ListKeys`, `DeleteAll` |
| a reload, and goroutines of the configuration before | `Reload`, `strangers` |

Events are slices as well, kept by the same statements; as values they keep the
model small. `Implements` shows the memory store to be the same `StatusStore` that
the SQL store implements. A status that an insertion has in its hands is what others
will see: `Visible` takes it for the mapping. A deletion that falls between the two
steps of an insertion is overwritten by it, which is a deletion before the insertion
- or, for an endpoint that is no longer configured, its return until the next start.

### Uptime

Both stores fed with the same executions: `hourly` is `Uptime.HourlyStatistics` with
its lazy clean-up, `uptimes` is `endpoint_uptimes` with the merge into days and the
clean-up of old rows. Points in time are half hours, so that a request falls on an
hour or between two; badges and raw values ask from there (`Starts`), charts from the
full hour before (`ChartStarts`). An entry is a number of executions; successes and response
times are added up in the same places. `ran` is what was executed. The assumption of
the module ties the constants to each other as the code's are: the merge threshold of
100 is what a merge leaves at most, one day more or less and it would fail; the
retention of thirty days is no shorter than the buffer of two.

### AlertProviders, ProviderConfig, Incidents

`AlertProviders` is a table of the forty packages: which fields `Validate` demands,
looks at and fills, which are read elsewhere, how overrides by group are checked, how
many requests `Send` makes and what ties a resolution to what was opened.
`ProviderConfig` is the pattern that all packages repeat: `Validate`, `GetConfig` with
the override of the group, the override of the alert and validation again, and
`MergeProviderDefaultAlertIntoEndpointAlert` with the built-in defaults. A value has a size,
since `Merge` passes over zeros and, in three packages, negative numbers (`Taken`), and a URL
has a path, since GitHub and Gitea build a new client only if that changes (`Effective`).

`Incidents` runs alerts through it: `Start` restores them, `Due` alerts are sent and
refused, accepted, lost on the way back or answered with something that cannot be
decoded; `Save` writes the row; `Resolve` and the three `Notify...` actions undo it;
`Crash` may come at any point. `open` is the provider's side. `abandoned` is the part
of it of which the program was never properly told or has lost the key, and each
action says what it adds. When an alert is due is the business of `Alerting`; here
it may be at any time, in any order, with reminders. GitHub and Gitea list one page of
issues to close (`IssuesPerPage`: how many of the 100 in the code are left for this endpoint); which ones are on it when there are more is
the service's choice (`Closes`).

### Maintenance, Health, Execution

`Maintenance` is the arithmetic of `IsUnderMaintenance` for days of any length, with
`InWindow` as the meaning of a window. `Health` is `EvaluateHealth`: for each of eleven
kinds of call, what a complete answer, one that is broken off, or none leaves in the
`Result` (`LeftOf` says what it may be, for all of them together); what conditions make of missing values and of texts where numbers are
expected; and what is only retrieved when a condition asks for it.

`Execution` composes them as `executeEndpoint` does: the connectivity checker in the
steps in which it reads and assigns its two fields (`Ask`, `PublishTime`,
`PublishAnswer`, `Read`), the evaluation, the endpoint's windows and later the
global one, the decision to alert. Several goroutines do so at once. Time passes
(`Tick`) during a check, which is given up after its timeout, and during an
evaluation; not between two assignments. Windows of endpoints that check DNS or SSH are
those that `Endpoint.ValidateAndSetDefaults` leaves unvalidated, because it returns
before it gets to them: they start at midnight, and in local time.

### MC modules

`MCAlerting`, `MCAlertHistory`, `MCExternalEndpoint`, `MCLifecycle`, `MCSuite`,
`MCSqlStore`, `MCMemoryStore`, `MCUptime`, `MCIncidents` and `MCExecution` define the
instances that the `.cfg` files use. No configuration replaces a definition. Symmetry is
used where names make no difference: arrays and inserters of `MCMemoryStore`,
goroutines of `MCExecution`, both in runs without liveness. Alerts, suite endpoints and
monitored things are handled in an order that matters, so that it is not sound there.

Each definition named `Mutant` in its comment is a slip the code could have made,
kept beside the right one. `PROJECT.json` pairs each property with a mutant that
violates it.

## 3. What the runs show

| Run | States | Shows |
|---|---|---|
| `alerting` | 97,812 | memory, table and provider agree (`MemoryMatchesProvider`, `RowsMatchProvider`); an initial alert needs its failures in a row, a resolution its successes (`TriggerNeedsFailures`, `ResolveNeedsSuccesses`); reminders keep their interval (`RemindersAreSpaced`); the lazy retry reaches every alert (`LazyRetry`), a provider that refuses resolutions keeps none triggered (`RecoveryResolves`), the alerts with the shortest interval are reminded of again and again (`RemindersRecur`) |
| `external` | 90,927 | a request and the heartbeat, or two requests: exact when they did not overlap (`SequentialUseIsExact`), one initial alert each at most when they did (`DuplicatesBounded`); silence triggers every alert although the heartbeat may take its own failure for an update, if it finds a connection again and again (`SilenceTriggers`); successes that go on overlapping and overwriting each other's counts for good resolve every alert all the same (`SuccessesResolve`) |
| `lifecycle` | 14,877 | permits are neither exceeded nor leaked, and goroutines on a strange semaphore are stopped ones (`ConcurrencyRespected`); a closed store is met by stopped goroutines only (`OnlyStoppedResultsAreLost`); monitoring goes on (`MonitoringContinues`); stopped goroutines return (`StoppedGoroutinesReturn`) |
| `suite` | 25,143 | a successful suite ran and passed everything and started nothing after the timeout (`SuccessMeansAllRan`), clean-ups are not lost (`OnlyFailureSkips`), values come from the same execution (`InputsComeFromBefore`), alerts get the right result up to the first skipped endpoint (`OwnResultUpToTheFirstSkip`) |
| `sql_store` | 412,042 | committed rows implement the abstract store (`Implements`), so that a page's newest event is the outcome of its newest result (`EventsFollowResults`); the lazy clean-ups keep the tables small (`RowsBounded`); with one connection no outdated page is cached between transactions (`CacheIsCurrent`), and otherwise none stays (`CacheConverges`) |
| `memory_store` | 64,634 | the memory store implements the abstract store although deletions take no lock (`Implements`); a page that was handed out stays as it was although arrays are shared, slicing does not panic although products overflow, and where they do not it is the page that was asked for (`AnswersAreStable`) |
| `uptime` | 94,808 | the memory store counts every execution of the time asked for (`MemoryUptimeIsExact`); the database loses at most the day in which that time begins - the chart of the whole retention the day in which the retention does - and nothing for the last day (`DatabaseUptimeIsClose`); entries stay few and old ones go (`EntriesBounded`) |
| `incidents` | 76,344 | what was opened is resolved, or abandoned at one of the points listed below (`NothingLeftOpen`), and not before (`TriggeredMeansOpen`); every recipient is told (`TriggeredMeansAllTold`); overrides apply by precedence, with three exceptions listed below (`MostSpecificWins`), what was accepted can send (`AcceptedCanSend`), default alerts apply (`DefaultAlertApplies`) |
| `execution` | 611,041 | no execution goes by an old connectivity answer, but for the instant between the assignments of its time and of the answer (`AnswerIsFresh`); alerts are muted exactly in their windows (`MutedIffScheduled`); with conditions in capitals success is what a complete answer deserves, and one that is lost succeeds only if the conditions hold of what it may leave (`HealthyIsDeserved`) |

Time ends at the `Horizon` of `uptime`, which is why its configuration does not check for
deadlock. All others do.

### Disagreements between code and documentation

Three runs check one documented claim each and end in a counterexample:

* `finding_skip_invalid`: with `skip-invalid-config-update` an invalid update
  stops all monitoring, while the log says that the old configuration continues
  (`OldConfigurationContinues`).
* `finding_suite_alerts`: behind a skipped endpoint the alerts of a suite are
  decided on the results of other endpoints (`AlertsFollowOwnResult`).
* `finding_reminders`: all alerts of an endpoint share `LastReminderSent`, and one with a
  shorter `minimum-reminder-interval` keeps one with a longer interval from ever being
  reminded of. `alerting.go:31-33` takes care of this within one pass only
  (`EveryReminderRecurs`).

Six more have no run of their own. The models behave in these points like the code, and the
properties they concern say so in their comments and claim no more than the code does:

* "Maximum duration for the entire suite execution" (`README.md:396`, `suite.go:49`): a
  suite whose timeout elapses while its last endpoint is evaluated is stored as a success,
  because the timer is only looked at before an endpoint. `SuccessMeansAllRan` is
  about the endpoints started in time.
* Rows of triggered alerts are "used for persistence of triggered alerts across
  application restarts" (`sql.go:459`), but those of suite endpoints are never read
  (`main.go:136`). `NothingLeftOpen` excepts what they had open.
* If page times page size leaves the `int`, the memory store answers with results of
  another page, not with "only the results within the range" (`memory/util.go:9`), which
  here is none. `AnswersAreStable` says which page it is only where the product fits.
* The comment of the merge speaks of `48+(n-2)` entries (`sql.go:1054`), 76 for thirty days;
  as it merges at a hundred only (`sql.go:344`), there may be a hundred. `EntriesBounded` is
  the bound of the code.
* "You can also override global provider configuration by using
  `alerts[].provider-override`" (`README.md:739`): at GitHub and Gitea an override of the
  repository's host, or of the token alone, has no effect, because `Validate` keeps the
  client as long as owner and name are the same (`github.go:51`, `gitea.go:55`). `Expected`, in
  `MostSpecificWins`, has this as an exception (`KeepsClient`).
* Placeholders are "handled case-insensitively" (`placeholder.go:125`), but one in small
  letters does not cause what it stands for to be retrieved (`condition.go:91`): a condition on
  `[body]` or `[ip]` fails complete answers that it holds of. `HealthyIsDeserved` requires a
  success of conditions in capitals only.

### What the properties except

The models contain more behaviour that a reader may not expect. Where a property has
to make an exception for it, its comment says so:

* Alerting. What a restart inherits is exempt from `TriggerNeedsFailures` and
  `ResolveNeedsSuccesses`: the row of a triggered alert keeps a count of successes
  that a later failure ended only in memory, so that after success, failure, restart, success
  an alert with `success-threshold: 2` is resolved. `ToEndpoint` does not carry
  `LastReminderSent`, so that external endpoints send a reminder with every failure; the
  properties on reminders are about monitored endpoints.
* External endpoints. Counts are exact only as long as nothing overlaps; updates are lost
  otherwise, which is allowed. `SilenceTriggers` supposes that the heartbeat gets past
  the connectivity check again and again: without a connection it never triggers.
* Suites. After a timeout the `break` leaves the `select` and not the loop: all
  endpoints are still evaluated. A value that could not be extracted leaves the one from
  before in place, which `InputsComeFromBefore` accepts.
* Providers, incidents. `NothingLeftOpen` excepts what was abandoned: an opening whose
  answer was lost or unreadable; all but the last of the incidents that reminders open at
  PagerDuty; alerts that are not to be sent on resolved, or whose provider is not
  configured; a request to resolve that was refused, lost or answered unreadably, as nobody
  retries it; issues that were open when there were more than fit on one page; a crash
  between request and row, and any restart for alerts of suites. `TriggeredMeansOpen`
  excepts the providers where the alerts of an endpoint share what is open.
* Providers, configuration. `MostSpecificWins` has three exceptions. An empty text or list,
  `false` or 0 hides no value of another layer. A negative port of email, priority of
  ntfy or TTL of Pushover is passed over in an override. GitHub and Gitea keep
  their client as above. `pagerduty.go:73` says that properly configured overrides are
  enough, while `Validate` demands the default integration key all the same. The
  overrides of `custom` are not validated, so that a group may have two.
* Evaluation. Calls that fail leave zeros, and a condition such as `[STATUS] != 500`
  holds of them; a ping that could not be sent took no time; HTTP whose body breaks off has
  its status; TCP, TLS and SSH may have been connected. UDP without a body is connected if its
  address could be dialled, whether or not anybody listens. `LeftOf` is the
  list of it all, and `HealthyIsDeserved` accepts a success for no other reason. Of small
  letters it says nothing where the answer is complete.
* Windows. One that lasts into the hour in which it starts again is missed between
  the beginning of that hour and its start. Windows of endpoints that check DNS or SSH
  are not validated: they start at midnight, in local time, and are judged as such.
* Connectivity. `lastCheck` is assigned before `isConnected`, so that another goroutine
  may read an old answer between the two.
* Stores. If page times page size leaves the `int`, `AnswersAreStable` does not say which
  page is shown. The comment in `InsertEndpointResult` promises an event for an endpoint that
  has only its START event, which the code below it does not give. The two stores count
  the uptime from different points: the memory store from the hour in which the time
  asked for begins, the database from the first entry after it. Charts start at a full
  hour, up to an hour before the time that a merge keeps whole: the one of thirty days may lose
  its first day even where that day begins at the very hour at which the chart does. An
  insertion that began before a reload brings an endpoint back that was removed.

### Bounds, and why they are enough

* `Alerting`. Two alerts with thresholds 1 and 2, crosswise for failures and successes:
  one alert is triggered while the other still waits, and one is resolved while the
  other still waits. Counters only ever meet thresholds by comparison, so that
  `CountCap`, the largest threshold, stands for every larger number as well.
  Ages only meet reminder intervals by comparison; `AgeCap` is the largest
  interval, and the zero time, at which no reminder was ever sent, is as old as
  that. Intervals of 2 and 1 make the alerts disagree about the shared clock.
  Three configurations for a restart: everything enabled, one alert disabled, one
  without a usable provider. Each restart may choose any, in any order.
* `ExternalEndpoint`. One alert, two failures to trigger and three successes to resolve,
  either for a request and the heartbeat or for two requests and no heartbeat: two
  copies of the counters are alive at once, updates are lost, and one of two
  overlapping pushes can set the count of the other back any number of times.
* `Lifecycle`. Two generations and two monitored things (one that acquires at once, one
  that waits for its first tick) with one permit: goroutines of both generations
  contend for both semaphores. `MaxGen` bounds valid edits; invalid ones are not
  bounded. The proofs need none of these bounds.
* `Suite`. Four endpoints: one that can fail, one that stores a value, one that
  always runs and uses it, and one behind it that uses the initial context.
* `SqlStore`. Two endpoints of which one may be removed, one key a prefix of the other,
  one page each, lists of one element and a clean-up threshold of 0 instead of 10: a list
  goes over its limit with the second result, events by one more than results since
  they are counted before the insertion. One request beside two insertions and two
  connections: somebody can read before a commit and fill after it. Failing
  statements and commits are checked with one connection, concurrency without
  failures (`MCDatabases`); both together have some two and a half million states.
* `MemoryStore`. One endpoint, since keys have nothing in common but the lock, that a
  reload may drop and bring back; two insertions, one of a stranger; one request in
  flight. Three arrays - the status's, an answer's, and the one that `append` moves to -
  of a capacity of 3 with two results kept: a slice moves along its array, reaches its
  end and moves to another. `Word` is 16 values, which page 3 of size 7 does not fit.
* `Uptime`. Days of two hours (`Day`), a retention of four days (`Retention`), a buffer of
  two (`Buffer`), and the thresholds that follow (`AgeThreshold` 10, `MergeThreshold` 8,
  `CleanUpThreshold` 10). The last hour (`Horizon`, 13) is beyond all of them, and any hours may
  be without execution. One execution an hour is enough since numbers are only added.
  The proofs need none of these bounds, and no step of them uses that executions are that
  rare.
* `Incidents`. Two alerts per endpoint for everything a resolution could confuse, two
  `Recipients`, and `MaxIncidents`, 4: the key of the endpoint and three fresh ones. A page
  of two issues (`IssuesPerPage`) leaves some out as soon as three are open.
  A provider for each way of tying a resolution to an incident and of making requests,
  with and without resolved notifications, for endpoints and suites; for configurations
  every field of every one of the forty providers in each layer, well or badly written, zero or
  negative; and repositories that differ in the host, the path or not at all (`MCOverrides`).
  Instances that are about configurations alone have no alert due.
* `Execution`. Days of three hours of two minutes and weeks of two days: windows within
  an hour, over midnight, for almost a day, and longer where nothing validates them. The
  connectivity interval is 2 and its timeout 1. Two goroutines; ages beyond `Never` are
  alike. One endpoint for each way in which a call can fail. The proofs need none of these
  bounds.

### Fairness, and why the code justifies it

* `Alerting`: weak fairness of the handler - a goroutine that has begun goes on,
  and the ticker of `monitorEndpoint` starts the next execution. `Tick` between
  executions and `SendSucceeds` are strongly fair: the interval takes time, and a
  provider that is asked again and again delivers now and then. `FairHSpec`, which
  `alerting` runs, is the same with the history of `AlertHistory`. Nothing is
  assumed of crashes, restarts and the monitored endpoint; the liveness
  properties have what they need of these as their premise.
* `ExternalEndpoint`: weak fairness of each request and of the heartbeat, strong
  fairness of deliveries and of the heartbeat getting through its insert and its
  maintenance window. Nothing is assumed of firings, of a connection or of clients: the
  properties have what they need of these as their premise.
* `Lifecycle`: weak fairness of goroutines and of `main`; `Done` is strongly fair
  since Go's `select` picks at random among the ready channels. Edits and signals
  owe nothing.
* `SqlStore`: weak fairness of open transactions and of the expiry of cached pages.
  Requests, insertions, failures and restarts owe nothing; `CacheConverges` takes
  the end of insertions and failed reads as its premise, but not that of requests
  and restarts.
* `Suite`, `MemoryStore`, `Uptime`, `Incidents` and `Execution` have no liveness property
  and no fairness.

## 4. What is proved

`AlertingProofs` proves, for any number of alerts, any thresholds, caps, checksums
and sets of configurations that satisfy `AlertAssumption` and `ConfigAssumption`:

* `TypeCorrect`: `Spec => []TypeOK`.
* `NoAlertTwice`: `Spec => []MemoryMatchesProvider`, if no two alerts have the
  same checksum (`DistinctChecksums`).
* `IncidentsSurviveRestarts`: `Spec => []RowsMatchProvider`, under the same
  assumption.

`DistinctChecksums` is needed and not always true of a configuration:
`Alert.Checksum()` does not cover the provider override or the reminder interval,
so that two alerts of one type that differ in these alone share one row, and the
resolution of one deletes the row of the other. The runs use distinct checksums.

Neither agreement is inductive. `MemoryMatchesProvider` says nothing of a process
that is down, so that nothing could be concluded about the step that starts it
again: that memory is rebuilt from the table has to be matched by the table
agreeing with the provider. `RowsMatchProvider` says nothing of the windows in
which the handler has sent but not recorded, or deleted but not told: the steps
that leave a window need to know what held on entry. `Agreement` ties the three
sides together: outside the windows flag, row and incident agree; between a send
and its record the incident is open and flag and row are still equal to each other
(both set for a reminder, both unset for an initial alert); between a deletion and its
notification flag and row are gone; a process that is down has nothing in memory;
an alert that is not enabled is never triggered. The proof goes action by action (`AgreementStep`), with
`OtherRows` for the rows of the other alerts, and takes the types from
`TypeCorrect`.

The action properties of `AlertHistory` are proved in the same module, under the same
assumptions and without `DistinctChecksums`:

* `NoAlertTooEarly`: `HSpec => TriggerNeedsFailures`.
* `NoResolutionTooEarly`: `HSpec => ResolveNeedsSuccesses`.
* `NoReminderTooEarly`: `HSpec => RemindersAreSpaced`.

The counters are compared with what happened (`FailuresHappened`, `SuccessesHappened`): they
never exceed the runs of results unless a restart put something in them, but
while a success is handled the old failures are still there, as `HandleAlerting` resets them
behind its loop only. `SentBefore` relates three clocks: `LastReminderSent` is no older than
the last notification of any alert, and its local copy no older than that of any alert that
the loop has yet to reach. The second half is what keeps an interval although an
alert before it in the list has just moved the shared clock.

`ExternalEndpointProofs` proves, for any alerts, any finite number of requests in flight,
with and without the heartbeat, and any thresholds (`ProcAssumption`):

* `TypeCorrect`: `Spec => []TypeOK`.
* `NoFloodOfDuplicates`: `Spec => []DuplicatesBounded`. Who is about to send an initial
  alert counts like one that was sent (`DupInv`): the step that sends takes itself
  out of `Senders`, and nobody joins them while the alert is triggered. That a
  goroutine in a handler is one that was installed (`Present`) makes it at most one each.
* `SequentialUse`: `Spec => []SequentialUseIsExact`. Until two goroutines have overlapped
  there is at most one in a handler (`Solo`), and what it carries agrees with what
  happened (`Agrees`): its copy of the counters always, the stored ones only before its
  handler and between its two writes by halves.

`SqlStoreProofs` proves, for any keys, any positive maximum numbers of results and events, any
threshold, any requests, databases and configurations (`StoreAssumption`, `SqlAssumption`):

* `EventsAlwaysFollowResults`, of the abstract store: its newest event is the outcome of its
  newest result, and no event repeats the one before; inductive together with the types.
* `CommittedEventsFollowResults`: `Spec => []EventsFollowResults`, and `TablesStaySmall`:
  `Spec => []RowsBounded`. The committed rows alone are not inductive, since a commit copies
  what the transaction wrote; `RowsGood` says the same of the rows of open
  transactions, bounds included. The step that matters is `InsertedGood`: the two tables are
  cleaned up by different counts at different moments, and neither clean-up may lose the
  newest row or bring two equal events together, or leave more than the next insertion
  and the threshold allow.
* `TypeCorrect`: `Spec => []TypeOK`, with the pool of connections: that a connection is only
  taken when there is one and that each is given back once is a matter of the
  cardinality of those who are busy (`PoolStep`).
* `SqlImplementsStore`: `Spec => Implements`. `WorkIsInsertion` says that an open transaction
  holds the committed rows with one result more, which is so because only the goroutine of
  an endpoint writes its rows; `PageAfterInsert` that a page after an insertion follows from the
  page before, so that it does not matter what the clean-ups dropped behind it; `AbstractStep`
  maps a commit to an insertion and a restart to a deletion.
* `CacheStaysCurrent`: `Spec => []CacheIsCurrent`. The property says nothing while a
  transaction is open, the invariant has to: with one connection and no failures a cached page
  is either that of the committed rows or that of the open insertion which has refreshed
  it and is sure to commit (`Refreshed`), and what a look-up has read is what it will
  be when it fills the cache (`PageFits`), because nobody else had the connection (`Alone`).

`MemoryStoreProofs` proves, for any keys, limits, capacity of an array, requests and
configurations and any width of an int (`StoreAssumption`, `PagingAssumption`,
`MemoryAssumption`: what is asked for and configured fits an int, keys and requests are
finitely many, and there is room for another array):

* `PagesStay`: `Spec => []AnswersAreStable`.
* `MemoryImplementsStore`: `Spec => Implements`.

Of a page, the arithmetic of `getStartAndEndIndex` comes first: whatever overflows, the two
bounds are in order if both are in range, since they differ by the page size but for a multiple
of the word (`PageInRange`), and without overflow they are those of the positions that
belong on the page (`PageIsThatAskedFor`). That it stays is a property of where `append`
writes: the results of a status end where its array has been written (`StoreSlice`), so
that what is appended lies behind everything that was ever given out (`AppendAddsOne`), and
trimming moves a bound and no element (`MovedStart`). Both are lost if two statuses ever shared
an array, or if there were two versions of one status of which both are appended to:
`OwnArrays` and `OneCopy` exclude that, the second because an insertion holds the only
version that the lock and the deletion without it leave (`WhatIsVisible`). `RoomLeft` counts
the arrays. The end of an insertion is then the abstract one (`EndIsInsertion`), every other
step leaves each status or deletes it (`IsDeletion`). That only a change of the outcome trims
the events is why the mapping shows the newest of them, and is not seen (`EventsAfter`).

`LifecycleProofs` proves, for any number of monitored things, any concurrency and any
number of reloads (`LifecycleAssumption`):

* `NeverTooMany`: `Spec => []ConcurrencyRespected`.
* `NoLoss`: `Spec => []OnlyStoppedResultsAreLost`.

That a semaphore has no more holders than permits does not survive a step by itself:
`semaphore.Weighted` hands a released permit to the head of the queue, which must not hold
one already, nor stand in another queue or twice in this one (`QueuedOnce`, `Queued`), or
one goroutine would end up with two permits. That it stands in the queue of its own
generation or has been stopped (`Belongs`) is what both theorems have of the package
variables; it needs to be known how far a reload has come when they are replaced
(`Reloading`) and that nobody is born before that (`Born`). `Held` says that an execution
has exactly one permit, which is what makes a release return the right one.

`SuiteProofs` proves, for suites of any length, any endpoints that always run, any keys
that are stored and used, and a timeout at any moment (`SuiteAssumption`):

* `NothingElseSkips`: `Spec => []OnlyFailureSkips`.
* `SuccessIsComplete`: `Spec => SuccessMeansAllRan`, an action property. That none was started
  late comes from the timer: once it is received from the suite has failed, and an endpoint
  that starts late receives from it.
* `NoLeak`: `Spec => []InputsComeFromBefore`.
* `OwnResult`: `Spec => []OwnResultUpToTheFirstSkip`.

The invariant speaks of every prefix of the loop: whoever has no result was skipped for a
reason that is among the results (`Skipping`), results are in the endpoints' places
as long as all succeed (`InOrder`), and each value of the context goes back to the
configuration or to a result before (`Inputs`). For the last theorem `SameIndex` adds that
up to the first that was skipped endpoints and results go by one index, and that what has
been handled for an endpoint was the result at its index.

`ExecutionProofs` proves, for hours, days and weeks of any length, any windows, any
endpoints, any interval and timeout and any number of goroutines (`TimeAssumption`,
`DurationAssumption`, `ConfigurationAssumption`):

* `MutedRight`: `Spec => []MutedIffScheduled`. `OnlyOpenWindows` and `NoWindowMissed` are
  the two directions for one window and one moment; the second is arithmetic of whole hours
  (`WholeHours`, `LaterHours`): a window that is over before the hour of its next start can
  only be yesterday's in hours before that. `LookIsRight` carries them to the steps of
  `executeEndpoint`, and `FoundSoFar` between them.
* `AnswersAreFresh`: `Spec => []AnswerIsFresh`. `AnswerGoesWithTime` is the invariant: but
  for the instant between the two assignments of somebody who publishes, the answer is no older than `lastCheck`
  and the timeout say, however the assignments of the goroutines fall.

* `Deserved`: `Spec => []HealthyIsDeserved`. For each kind of call the answer is either
  complete, and then every placeholder has the value that was really answered if it is asked
  for in capitals (`CompleteAnswer`), or it left something of `LeftOf` (`IncompleteAnswer`,
  `NothingWithoutAnswer`); that the configured conditions are about the
  placeholders there are is part of `ConfigurationAssumption`.

`IncidentsProofs` proves, for any alerts and recipients, any number of incidents, any
installations of the forty providers with any default values, overrides, groups and
thresholds (`IncidentsAssumption`: overrides are a list, thresholds are integers):

* `TypeCorrect`: `Spec => []TypeOK`.
* `EveryoneTold`: `Spec => []TriggeredMeansAllTold`. The row of an alert outlives its flag, and
  a restart makes the one out of the other: `ToldInv` says it of both (`Remembered`).
* `NotClosedBehindItsBack`: `Spec => []TriggeredMeansOpen`. A resolution closes what goes by
  its key, so that no two alerts may ever have the same one, in memory, in rows or at the
  provider (`OpenInv`).
* `NoLostIncident`: `Spec => []NothingLeftOpen`. `Tracked` follows an incident from its opening to
  its end: up and down, saved or not, there is something by which its alert goes back to it,
  or the step that lost it is one of those that the property lists. `NotifyCloses` is the
  resolution: what it was to close is closed, or given up - for a request that failed, and
  for issues beyond the page.
* `LayersInOrder`: `Spec => []MostSpecificWins`, `AcceptedProvidersSend`: `Spec =>
  []AcceptedCanSend` and `DefaultsInOrder`: `Spec => []DefaultAlertApplies` are about the
  configuration, which no step changes: they follow from the types and from lemmas on the
  layers (`OverlayFields`, `MergedByLayer`, `SentByLayer`) and the table of providers
  (`ProvidersRegular`). `LayersInOrder` has the three exceptions of its property; the third is
  `RepositoryKnown`: when the client of the default configuration is kept.

`StageInv` ties the flags and rows to where the handler is, and is what each of the others
needs of the steps between a notification and its record.

`SqlStoreProofs` ends with what both stores make of their entries of uptime; `Uptime` names
its variables and its specification so that it can be extended next to the other tables.
Proved for any day, retention, buffer, thresholds and horizon that satisfy `UptimeAssumption`:

* `UptimeIsCounted`: `UptimeSpec => []MemoryUptimeIsExact`.
* `MergingLosesADay`: `UptimeSpec => []DatabaseUptimeIsClose`.
* `EntriesStayFew`: `UptimeSpec => []EntriesBounded`.

The sums are those of the community modules, a fold by a recursive function, of which the
provers only know that it satisfies its equation if there is a function that does.
`SumIsCardinality` is the way in: a sum of counts is the number of pairs of an argument and a
number up to its value (`Unfolded`), a function that satisfies the equation, and the only
one, as two would differ on a smallest set. From there on sums are handled as finite sets:
`SameTotal`, `TotalGrows`, and `TotalOfGroups`, by which a merge, whose rows are the sums
of disjoint groups, changes no total.

The invariants are `HourlyExact`, that the memory store has each hour of the retention as it
was, and `RowsDaily`, that there is a midnight, no later than the beginning of the buffer,
before which the rows of the retention are whole days and from which on they are hours. A
merge moves that midnight on (`DailyMerged`): a day of the retention that it sums up has all
its hours, since it begins in the retention, and a day that was merged before is summed up
as the one row it is. Of the rows that are older than the retention nothing is said: a day in
which the retention begins may be cut by a merge, which is the day that a query can lose.
Executions never fall into a day that was merged (`DailyCounted`), which is what the buffer
is for; that it has two days is why the last day loses nothing. A chart starts on the hour and so at
most an hour before the time that a merge keeps: it can be a day more that is lost only if the chart is
that of the whole retention. `EntriesBounded` is
inductive with the types. Its arithmetic is `FewMerged`: the hours of the days that the
buffer touches and a row for each day of the retention before them are one less than the
threshold, and the day in which the retention begins may add one more.

Only model-checked: the liveness properties `LazyRetry`, `RecoveryResolves`,
`RemindersRecur`, `SilenceTriggers`, `SuccessesResolve`, `MonitoringContinues`,
`StoppedGoroutinesReturn` and `CacheConverges`, with the premises and the fairness they
need, which TLAPS does not handle. Every invariant, action property and refinement of a
passing run is also a theorem.

## 5. What is not modelled

* Monitored endpoints, providers and clients as programs: protocols, timeouts,
  message bodies. What a protocol reports is in `Health`, how a provider answers in
  `Incidents`; certificates, domains and hostnames are left out.
* Text algorithms: the matching of `pat()`, JSON paths, `len()`, placeholders in URLs and
  bodies, the checks of single values at load, keys and their uniqueness.
* The wording of results, errors and logs; presentation: badges and charts as drawings;
  the security middleware, which refuses requests before they reach what is modelled.
* Metrics, which nothing reads back, and the response cache of the API, of which there is
  nothing to say but that it expires.
* Statuses of suites in the stores, which are kept like those of endpoints without events.
* Of the SQL store: pages other than the first, statements that fail on SQLite (they do
  not abort the transaction), concurrent insertions for one external endpoint on
  PostgreSQL, and a store that is replaced under open transactions by a reload.
* In `Lifecycle`, the one-second pauses, the HTTP server, and an edit of the file
  between the reading of it and the remembering of its time.
* Changes of summer time.

## 6. Plan

Done: the alerting of an endpoint with its history, external endpoints, the lifecycle,
suites, both stores against one abstract store and their uptime, providers and incidents,
executions with maintenance, connectivity and health, all with proofs. What is left, by what it
would show:

1. `SqlStore` with failing statements on SQLite, with a reload under open transactions and
   with two inserters for one external endpoint; statuses of suites.
2. The composition of `Alerting` with `Incidents`: when alerts are due, with what a
   provider makes of them.
3. The configuration file: keys, and its time.
