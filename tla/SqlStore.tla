------------------------------ MODULE SqlStore ------------------------------
(***************************************************************************)
(* The SQL store (app/storage/store/sql/sql.go): statuses of endpoints as  *)
(* rows, inserted in transactions of many statements, and the write-through*)
(* cache in front of them, which readers fill and inserts refresh - before *)
(* they commit.                                                            *)
(*                                                                         *)
(* SQLite has a single connection, so that everything between Begin and    *)
(* Commit excludes everything else.  PostgreSQL has many: a statement sees *)
(* what is committed and what its own transaction wrote, and the first one *)
(* that fails aborts its transaction, so that all that follow fail too.    *)
(* The goroutine of an endpoint is the only one to insert its results.     *)
(* One page per key is asked for: the first, of the largest size.          *)
(***************************************************************************)
EXTENDS StatusRules, FiniteSets

CONSTANTS
    Threshold,  \* eventsAboveMaximumCleanUpThreshold and that of the results
    Matches,    \* per key, the keys whose cache keys match ep.Key() + "*"
    Readers,    \* requests of the API that may be in flight
    Databases,  \* records [connections, faults]: the size of the pool, and
                \* whether statements and commits may fail
    Configurations, \* sets of endpoints that a configuration may have
    NotCached

Procs == Keys \cup Readers

\* Keys are those that may be configured: there are some.
ASSUME SqlAssumption ==
    /\ Threshold \in Nat /\ Keys # {}
    /\ Matches \in [Keys -> SUBSET Keys] /\ \A k \in Keys : k \in Matches[k]
    /\ IsFiniteSet(Procs) /\ Keys \cap Readers = {}
    /\ Databases \subseteq [connections : Nat \ {0}, faults : BOOLEAN]
    /\ Configurations \subseteq SUBSET Keys

VARIABLES
    db,         \* the database of this installation, a member of Databases
    monitored,  \* the endpoints of the loaded configuration
    rows,       \* committed: per key, endpoint_results and endpoint_events
    cache,      \* writeThroughCache
    at,         \* where each transaction stands; the inserts go by their keys
    work,       \* per insert, the rows of its key as its transaction sees them
    todo,       \* per insert, cacheKeysToRefresh that are left
    aborted,    \* the open transactions in which a statement has failed
    key,        \* the key that getEndpointStatusByKey is called with
    page        \* the endpointStatus that it assembles

vars == <<db, monitored, rows, cache, at, work, todo, aborted, key, page>>

\* The database as others see it, and the installation.
outside == <<db, monitored, rows>>

NoRows == [results |-> <<>>, events |-> <<>>]

Statuses == [results : Seq(BOOLEAN), events : Seq(EventTypes)]

\* idle: no transaction.  insert: InsertEndpointResult before it looks at the
\* cache.  refresh: its loop over the cache keys.  lookup to fill:
\* within getEndpointStatusByKey.
Stages == {"idle", "insert", "refresh", "lookup", "results", "fill"}

TypeOK ==
    /\ db \in Databases /\ monitored \in Configurations
    /\ rows \in [Keys -> Statuses] /\ work \in [Keys -> Statuses]
    /\ cache \in [Keys -> {NotCached} \cup Statuses]
    /\ at \in [Procs -> Stages]
    /\ Cardinality({p \in Procs : at[p] # "idle"}) <= db.connections
    /\ todo \in [Keys -> SUBSET Keys]
    /\ \A p \in aborted : db.faults /\ p \in Procs /\ at[p] # "idle"
    /\ key \in [Procs -> Keys] /\ page \in [Procs -> Statuses]

\* NewStore on an empty database.
Init ==
    /\ db \in Databases
    /\ monitored \in Configurations
    /\ rows = [k \in Keys |-> NoRows]
    /\ cache = [k \in Keys |-> NotCached]
    /\ at = [p \in Procs |-> "idle"]
    /\ work = [k \in Keys |-> NoRows]
    /\ todo = [k \in Keys |-> {}]
    /\ aborted = {}
    /\ key = [p \in Procs |-> CHOOSE k \in Keys : TRUE]
    /\ page = [p \in Procs |-> NoRows]
-----------------------------------------------------------------------------
Goto(p, stage) == at' = [at EXCEPT ![p] = stage]

\* s.db.Begin() gets a connection of the pool.
Connects(p) ==
    /\ at[p] = "idle"
    /\ Cardinality({q \in Procs : at[q] # "idle"}) < db.connections

\* What the statements of transaction p see of key k.
View(p, k) == IF p = k THEN work[k] ELSE rows[k]

\* The transaction ends, its local variables are dead.
End(p) ==
    /\ Goto(p, "idle")
    /\ aborted' = aborted \ {p}
    /\ key' = [key EXCEPT ![p] = CHOOSE k \in Keys : TRUE]
    /\ page' = [page EXCEPT ![p] = NoRows]
    /\ IF p \in Keys
       THEN work' = [work EXCEPT ![p] = NoRows] /\ todo' = [todo EXCEPT ![p] = {}]
       ELSE UNCHANGED <<work, todo>>

\* The page that page 1 shows of some rows.
Page(status) ==
    [results |-> Newest(status.results, MaxResults),
     events  |-> Newest(status.events, MaxEvents)]
-----------------------------------------------------------------------------
(* InsertEndpointResult *)

\* Mutant: the event of the outcome is only added to the START event.
EventsOfFirstResult(status, success) ==
    IF status.events = <<>> THEN <<"START", NewEventFromResult(success)>>
    ELSE status.events

\* The events with what the result adds to them.  Without events there is
\* nothing to compare with; otherwise the newest result is read.
EventsInserted(status, success) ==
    IF status.events = <<>> THEN <<"START", NewEventFromResult(success)>>
    ELSE IF LastOf(status.results) # success
         THEN Append(status.events, NewEventFromResult(success))
         ELSE status.events

\* deleteOldEndpointEvents, if there were too many before this one.
EventsCleaned(before, events) ==
    IF Len(before) > MaxEvents + Threshold THEN Newest(events, MaxEvents) ELSE events

\* Mutants: old results go only when old events go; as many as the threshold
\* are kept.
ResultsCleanedWithEvents(before, results) ==
    IF Len(before) > MaxEvents + Threshold THEN Newest(results, MaxResults) ELSE results

ResultsCleanedTooWell(before, results) ==
    IF Len(results) > MaxResults + Threshold THEN Newest(results, Threshold) ELSE results

\* deleteOldEndpointResults, if there are too many with this one.
ResultsCleaned(before, results) ==
    IF Len(results) > MaxResults + Threshold THEN Newest(results, MaxResults) ELSE results

Inserted(status, success) ==
    [results |-> ResultsCleaned(status.events, Append(status.results, success)),
     events  |-> EventsCleaned(status.events, EventsInserted(status, success))]

\* A transaction begins; nobody else sees, or writes, the rows it works on.
Begin(k, success) ==
    /\ Connects(k) /\ k \in monitored
    /\ work' = [work EXCEPT ![k] = Inserted(rows[k], success)]
    /\ Goto(k, "insert")
    /\ UNCHANGED <<outside, cache, todo, aborted, key, page>>

\* The result cannot be inserted: rollback.
InsertFails(k) ==
    /\ db.faults /\ at[k] = "insert"
    /\ End(k)
    /\ UNCHANGED <<outside, cache>>

\* GetKeysByPattern(ep.Key() + "*", 0)
ListCacheKeys(k) ==
    /\ at[k] = "insert"
    /\ todo' = [todo EXCEPT ![k] = {c \in Matches[k] : cache[c] # NotCached}]
    /\ Goto(k, "refresh")
    /\ UNCHANGED <<outside, cache, work, aborted, key, page>>

\* Mutant: the cache key is not deleted before it is looked up.
RefreshWithoutDelete(k) ==
    \E c \in todo[k] :
        /\ at[k] = "refresh"
        /\ todo' = [todo EXCEPT ![k] = @ \ {c}]
        /\ key' = [key EXCEPT ![k] = c]
        /\ Goto(k, "lookup")
        /\ UNCHANGED <<outside, cache, work, aborted, page>>

\* One cache key is deleted, then getEndpointStatusByKey puts it back.
Refresh(k) ==
    \E c \in todo[k] :
        /\ at[k] = "refresh"
        /\ cache' = [cache EXCEPT ![c] = NotCached]
        /\ todo' = [todo EXCEPT ![k] = @ \ {c}]
        /\ key' = [key EXCEPT ![k] = c]
        /\ Goto(k, "lookup")
        /\ UNCHANGED <<outside, work, aborted, page>>

Commit(k) ==
    /\ at[k] = "refresh" /\ todo[k] = {} /\ k \notin aborted
    /\ rows' = [rows EXCEPT ![k] = work[k]]
    /\ End(k)
    /\ UNCHANGED <<db, monitored, cache>>

\* The commit returns an error; the cache keeps what was never committed.
CommitFails(k) ==
    /\ at[k] = "refresh" /\ todo[k] = {} /\ (db.faults \/ k \in aborted)
    /\ End(k)
    /\ UNCHANGED <<outside, cache>>
-----------------------------------------------------------------------------
(* GetEndpointStatusByKey, and getEndpointStatusByKey for inserts as well *)

Request(r, k) ==
    /\ Connects(r)
    /\ key' = [key EXCEPT ![r] = k]
    /\ Goto(r, "lookup")
    /\ UNCHANGED <<outside, cache, work, todo, aborted, page>>

\* getEndpointStatusByKey returns: an insert goes on, a request is answered.
Return(p) ==
    IF p \in Keys
    THEN /\ Goto(p, "refresh")
         /\ key' = [key EXCEPT ![p] = CHOOSE k \in Keys : TRUE]
         /\ page' = [page EXCEPT ![p] = NoRows]
         /\ UNCHANGED <<work, todo, aborted>>
    ELSE End(p)

\* The page is in the cache, or no such endpoint is found.
LookupReturns(p) ==
    /\ at[p] = "lookup"
    /\ cache[key[p]] # NotCached \/ View(p, key[p]) = NoRows \/ p \in aborted
    /\ Return(p)
    /\ UNCHANGED <<outside, cache>>

\* What transaction p may read of key[p]: its rows, or nothing if a statement
\* fails, which is logged and aborts the transaction.
Reads(p) ==
    LET found  == [status |-> Page(View(p, key[p])), aborts |-> {}]
        failed == [status |-> NoRows, aborts |-> {p}]
    IN  {read \in {found} : p \notin aborted} \cup {read \in {failed} : db.faults}

\* It is found, and its events are read (at once: what is read later is newer).
LookupReadsEvents(p) ==
    /\ at[p] = "lookup" /\ p \notin aborted
    /\ cache[key[p]] = NotCached /\ View(p, key[p]) # NoRows
    /\ \E read \in Reads(p) :
          /\ page' = [page EXCEPT ![p].events = read.status.events]
          /\ aborted' = aborted \cup read.aborts
    /\ Goto(p, "results")
    /\ UNCHANGED <<outside, cache, work, todo, key>>

ReadResults(p) ==
    /\ at[p] = "results"
    /\ \E read \in Reads(p) :
          /\ page' = [page EXCEPT ![p].results = read.status.results]
          /\ aborted' = aborted \cup read.aborts
    /\ Goto(p, "fill")
    /\ UNCHANGED <<outside, cache, work, todo, key>>

\* SetWithTTL
Fill(p) ==
    /\ at[p] = "fill"
    /\ cache' = [cache EXCEPT ![key[p]] = page[p]]
    /\ Return(p)
    /\ UNCHANGED outside

\* Mutant: cached pages never expire.
ExpireNever(k) == FALSE /\ UNCHANGED vars

\* cacheTTL after it was set, a page is gone.
Expire(k) ==
    /\ cache[k] # NotCached
    /\ cache' = [cache EXCEPT ![k] = NotCached]
    /\ UNCHANGED <<outside, at, work, todo, aborted, key, page>>
-----------------------------------------------------------------------------
(***************************************************************************)
(* The process ends wherever it is and starts again, with a configuration  *)
(* of its own: open transactions are rolled back, NewStore has an empty    *)
(* cache, and initializeStorage calls DeleteAllEndpointStatusesNotInKeys.  *)
(***************************************************************************)
Restart(keys) ==
    /\ monitored' = keys
    /\ rows' = [k \in Keys |-> IF k \in keys THEN rows[k] ELSE NoRows]
    /\ cache' = [k \in Keys |-> NotCached]
    /\ at' = [p \in Procs |-> "idle"]
    /\ work' = [k \in Keys |-> NoRows]
    /\ todo' = [k \in Keys |-> {}]
    /\ aborted' = {}
    /\ key' = [p \in Procs |-> CHOOSE k \in Keys : TRUE]
    /\ page' = [p \in Procs |-> NoRows]
    /\ UNCHANGED db

StatusByKeyStep(p) ==
    LookupReturns(p) \/ LookupReadsEvents(p) \/ ReadResults(p) \/ Fill(p)

InsertStep(k) ==
    ListCacheKeys(k) \/ Refresh(k) \/ Commit(k) \/ InsertFails(k) \/ CommitFails(k)

Next ==
    \/ \E k \in Keys, success \in BOOLEAN : Begin(k, success)
    \/ \E k \in Keys : InsertStep(k) \/ Expire(k)
    \/ \E r \in Readers, k \in Keys : Request(r, k)
    \/ \E p \in Procs : StatusByKeyStep(p)
    \/ \E keys \in Configurations : Restart(keys)

Spec == Init /\ [][Next]_vars

\* Transactions that have begun go on, and pages expire.
Fairness ==
    /\ \A k \in Keys : WF_vars(InsertStep(k)) /\ WF_vars(Expire(k))
    /\ \A p \in Procs : WF_vars(StatusByKeyStep(p))

FairSpec == Spec /\ Fairness
-----------------------------------------------------------------------------
(* Properties *)

Abstract == INSTANCE StatusStore WITH
    results <- [k \in Keys |-> Newest(rows[k].results, MaxResults)],
    events  <- [k \in Keys |-> Newest(rows[k].events, MaxEvents)]

(***************************************************************************)
(* What is committed changes like the abstract store, whatever fails and   *)
(* whenever the process dies: a commit is an insertion, a restart deletes  *)
(* what is no longer configured, and the lazy clean-ups delete nothing     *)
(* that page 1 shows.                                                      *)
(***************************************************************************)
Implements == Abstract!Spec

(***************************************************************************)
(* The newest event in the database is the outcome of the newest result,   *)
(* and no event repeats the one before: whatever was rolled back, cleaned  *)
(* up or deleted in between.                                               *)
(***************************************************************************)
EventsFollowResults == \A k \in Keys : InStep(rows[k].results, rows[k].events)

(***************************************************************************)
(* The clean-ups keep the tables small: results are counted with the new   *)
(* one and events without it ("Maximum number of events above the          *)
(* configured maximum before triggering a cleanup").                       *)
(***************************************************************************)
RowsBounded ==
    \A k \in Keys :
        /\ Len(rows[k].results) <= MaxResults + Threshold
        /\ Len(rows[k].events) <= MaxEvents + Threshold + 1

(***************************************************************************)
(* With one connection and commits that succeed, a cached page is the page *)
(* of the committed rows whenever no transaction is open.                  *)
(***************************************************************************)
CacheIsCurrent ==
    /\ db.connections = 1 /\ ~db.faults
    /\ \A p \in Procs : at[p] = "idle"
    => \A k \in Keys : cache[k] \in {NotCached, Page(rows[k])}

(***************************************************************************)
(* With more connections a request may put back what it read before a      *)
(* commit, a failed commit leaves what it never wrote, and a failed read   *)
(* an empty page: all of these are gone for good some time after the last  *)
(* insertion and the last failed read, requests or not.                    *)
(***************************************************************************)
CacheConverges ==
    <>[](aborted = {} /\ \A k \in Keys : at[k] = "idle")
        => \A k \in Keys : <>[](cache[k] \in {NotCached, Page(rows[k])})
=============================================================================
