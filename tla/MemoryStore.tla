---------------------------- MODULE MemoryStore ----------------------------
(***************************************************************************)
(* The memory store (app/storage/store/memory): statuses behind a lock     *)
(* that insertions and requests take and the deletion of old keys does     *)
(* not, and answers that share the backing arrays of what they show.       *)
(*                                                                         *)
(* A slice is a part of an array on the heap.  Append writes behind the    *)
(* slice while its array has room and moves to another array otherwise;    *)
(* the oldest results are dropped by moving the start.  Results are such   *)
(* slices; events, kept in the same way, are plain values here, and so are *)
(* left out the statuses of suites, which are results without events.      *)
(***************************************************************************)
EXTENDS StatusRules, Paging, FiniteSets

CONSTANTS
    Inserters,      \* goroutines that insert results
    Readers,        \* requests of the API that may be in flight
    Arrays,         \* the heap
    Capacity,       \* of each array
    PageNumbers,    \* what requests ask for
    PageSizes,
    Configurations, \* sets of endpoints that a configuration may have
    None

\* What an int can be, but for negative numbers.
Ints == 0..(Word \div 2) - 1

\* A slice, the status of an endpoint, an insertion and an answer under way.
Slices == [array : Arrays, from : Nat, to : Nat]

Statuses == [results : Slices, events : Seq(EventTypes)]

Insertions == [key : Keys, success : BOOLEAN, status : Statuses \cup {None}]

Answers == [slice : Slices \cup {None}, inRange : BOOLEAN, shown : Seq(BOOLEAN),
            fits : BOOLEAN, right : BOOLEAN]

ASSUME MemoryAssumption ==
    /\ Capacity \in Nat /\ Capacity > MaxResults /\ MaxResults \in Ints
    /\ IsFiniteSet(Arrays) /\ IsFiniteSet(Keys) /\ IsFiniteSet(Readers)
    /\ Cardinality(Arrays) > Cardinality(Keys) + Cardinality(Readers)
    /\ Configurations \subseteq SUBSET Keys
    /\ PageNumbers \subseteq Ints /\ PageSizes \subseteq Ints
    /\ DefaultPageSize \in Ints
    /\ None \notin Slices \cup Statuses \cup Insertions \cup Answers

VARIABLES
    heap,       \* per array, its elements so far
    status,     \* endpointCache
    inserting,  \* InsertEndpointResult between Get and Set: it holds the lock
    answer,     \* the pages that requests have got and not yet sent
    phase,      \* of initializeStorage
    doomed,     \* keysToDelete
    monitored,  \* the endpoints of the loaded configuration
    strangers   \* endpoints of the one before with a goroutine still running

vars == <<heap, status, inserting, answer, phase, doomed, monitored, strangers>>

Contents(h, slice) == SubSeq(h[slice.array], slice.from + 1, slice.to)

Shown(h, slice) == IF slice = None THEN <<>> ELSE Contents(h, slice)

Found == {k \in Keys : status[k] # None}

\* The arrays that something refers to.
Live ==
    {status[k].results.array : k \in Found}
    \cup {inserting[i].status.results.array : i \in
            {j \in Inserters : inserting[j] # None /\ inserting[j].status # None}}
    \cup {answer[r].slice.array : r \in
            {q \in Readers : answer[q] # None /\ answer[q].slice # None}}

\* The heap becomes h, without the garbage.
HeapBecomes(h) == heap' = [a \in Arrays |-> IF a \in Live' THEN h[a] ELSE <<>>]

Init ==
    /\ heap = [a \in Arrays |-> <<>>]
    /\ status = [k \in Keys |-> None]
    /\ inserting = [i \in Inserters |-> None]
    /\ answer = [r \in Readers |-> None]
    /\ phase = "new" /\ doomed = {}
    /\ monitored \in Configurations
    /\ strangers = {}
-----------------------------------------------------------------------------
(* InsertEndpointResult *)

\* Mutant: s.Lock() is missing.
LockIsIgnored == TRUE

\* s.Lock(), s.RLock()
Unlocked == \A i \in Inserters : inserting[i] = None

\* append(ss.Results, result)
Appended(h, slice, success) ==
    LET old   == h[slice.array]
        other == CHOOSE a \in Arrays : a \notin Live
    IN  IF slice.to < Capacity
        THEN [heap  |-> [h EXCEPT ![slice.array] =
                            IF slice.to < Len(old)
                            THEN [old EXCEPT ![slice.to + 1] = success]
                            ELSE Append(old, success)],
              slice |-> [slice EXCEPT !.to = @ + 1]]
        ELSE [heap  |-> [h EXCEPT ![other] = Append(Contents(h, slice), success)],
              slice |-> [array |-> other, from |-> 0, to |-> slice.to - slice.from + 1]]

\* Mutant: the results are moved to the start of their array instead.
TrimmedInPlace(h, slice) ==
    LET kept == Newest(Contents(h, slice), MaxResults)
    IN  [heap  |-> [h EXCEPT ![slice.array] =
                        [n \in DOMAIN @ |-> IF n <= Len(kept) THEN kept[n] ELSE @[n]]],
         slice |-> [slice EXCEPT !.from = 0, !.to = Len(kept)]]

\* ss.Results[len(ss.Results)-maximumNumberOfResults:]
Trimmed(h, slice) ==
    [heap  |-> h,
     slice |-> [slice EXCEPT
                    !.from = IF slice.to - @ > MaxResults THEN slice.to - MaxResults ELSE @]]

\* The status to which AddResult adds, and whether there is none yet.
StatusOrNew(got) ==
    IF got # None THEN got
    ELSE [results |-> [array |-> CHOOSE a \in Arrays : a \notin Live, from |-> 0, to |-> 0],
          events  |-> <<"START">>]

\* The events with a new one: only a change of the outcome trims them.
EventsAdded(events, results, success) ==
    LET more == Append(events, NewEventFromResult(success))
    IN  IF results = <<>> THEN more
        ELSE IF LastOf(results) = success THEN events
        ELSE Newest(more, MaxEvents)

\* The lock is taken and the status is looked up.
BeginInsert(i, k, success) ==
    /\ inserting[i] = None /\ Unlocked
    /\ k \in strangers \cup (IF phase = "running" THEN monitored ELSE {})
    /\ inserting' = [inserting EXCEPT
                        ![i] = [key |-> k, success |-> success, status |-> status[k]]]
    /\ UNCHANGED <<heap, status, answer, phase, doomed, monitored, strangers>>

\* AddResult, Set and s.Unlock(): the status is put back if it was deleted.
EndInsert(i) ==
    /\ inserting[i] # None
    /\ LET key   == inserting[i].key
           old   == StatusOrNew(inserting[i].status)
           added == Appended(heap, old.results, inserting[i].success)
           cut   == Trimmed(added.heap, added.slice)
       IN  /\ status' = [status EXCEPT ![key] =
                  [results |-> cut.slice,
                   events  |-> EventsAdded(old.events, Contents(heap, old.results),
                                           inserting[i].success)]]
           /\ inserting' = [inserting EXCEPT ![i] = None]
           /\ UNCHANGED <<answer, phase, doomed, monitored, strangers>>
           /\ HeapBecomes(cut.heap)
-----------------------------------------------------------------------------
(* GetEndpointStatusByKey, GetAllEndpointStatuses for each key it returns *)

\* What the reference definition shows, as values.
Reference(results, page, pageSize) ==
    LET n    == Len(results)
        here == OnPage(n, page, pageSize)
    IN  IF here = {} THEN <<>>
        ELSE LET first == CHOOSE i \in here : \A j \in here : i <= j
             IN  SubSeq(results, first, first + Cardinality(here) - 1)

\* ShallowCopyEndpointStatus: the part of a slice that a page shows.
ShallowCopy(slice, page, pageSize) ==
    LET bounds == Bounds(slice.to - slice.from, page, pageSize)
    IN  IF ~Exists(bounds) THEN None
        ELSE [slice EXCEPT !.from = slice.from + bounds.from, !.to = slice.from + bounds.to]

\* The page is cut out under the lock and written to the client without it.
\* Remembered are whether the slice expression is in range, what it gives,
\* whether page * size fits an int, and whether it is the page asked for.
Read(r, k, page, pageSize) ==
    LET slice == status[k].results
        p     == RequestedPage(page)
        size  == RequestedPageSize(p, pageSize, MaxResults)
        copy  == ShallowCopy(slice, p, size)
    IN  /\ answer[r] = None /\ Unlocked /\ status[k] # None
        /\ answer' = [answer EXCEPT ![r] =
              [slice   |-> copy,
               inRange |-> InRange(Bounds(slice.to - slice.from, p, size), slice.to - slice.from),
               shown   |-> Shown(heap, copy),
               fits    |-> p * size < Word \div 2,
               right   |-> Shown(heap, copy) = Reference(Contents(heap, slice), p, size)]]
        /\ UNCHANGED <<heap, status, inserting, phase, doomed, monitored, strangers>>

\* The response has been sent.
Respond(r) ==
    /\ answer[r] # None
    /\ answer' = [answer EXCEPT ![r] = None]
    /\ UNCHANGED <<status, inserting, phase, doomed, monitored, strangers>>
    /\ HeapBecomes(heap)
-----------------------------------------------------------------------------
(* initializeStorage, and what goes on meanwhile *)

\* A reload: store.Initialize makes another store.  Insertions under way end
\* in the one before.
Reload(keys) ==
    /\ phase = "running"
    /\ phase' = "new"
    /\ status' = [k \in Keys |-> None]
    /\ inserting' = [i \in Inserters |-> None]
    /\ strangers' = strangers \cup monitored
    /\ monitored' = keys
    /\ UNCHANGED <<answer, doomed>>
    /\ HeapBecomes(heap)

\* DeleteAllEndpointStatusesNotInKeys looks for the keys to delete ...
ListKeys ==
    /\ phase = "new"
    /\ phase' = "listed"
    /\ doomed' = Found \ monitored
    /\ UNCHANGED <<heap, status, inserting, answer, monitored, strangers>>

\* ... and deletes them, whatever happened to them in between.
DeleteAll ==
    /\ phase = "listed"
    /\ phase' = "running"
    /\ status' = [k \in Keys |-> IF k \in doomed THEN None ELSE status[k]]
    /\ doomed' = {}
    /\ UNCHANGED <<inserting, answer, monitored, strangers>>
    /\ HeapBecomes(heap)

\* A goroutine of the configuration before finds its context cancelled.
StrangerReturns(k) ==
    /\ k \in strangers /\ \A i \in Inserters : inserting[i] # None => inserting[i].key # k
    /\ strangers' = strangers \ {k}
    /\ UNCHANGED <<heap, status, inserting, answer, phase, doomed, monitored>>

Next ==
    \/ \E i \in Inserters, k \in Keys, success \in BOOLEAN : BeginInsert(i, k, success)
    \/ \E i \in Inserters : EndInsert(i)
    \/ \E r \in Readers, k \in Keys, page \in PageNumbers, size \in PageSizes :
          Read(r, k, page, size)
    \/ \E r \in Readers : Respond(r)
    \/ \E keys \in Configurations : Reload(keys)
    \/ ListKeys \/ DeleteAll
    \/ \E k \in Keys : StrangerReturns(k)

Spec == Init /\ [][Next]_vars
-----------------------------------------------------------------------------
(* Properties *)

\* What others see of key k: an insertion under way has the only copy.
Visible(k) ==
    LET at == {i \in Inserters : inserting[i] # None /\ inserting[i].key = k}
    IN  IF at = {} THEN status[k] ELSE inserting[CHOOSE i \in at : TRUE].status

Abstract == INSTANCE StatusStore WITH
    results <- [k \in Keys |->
        IF Visible(k) = None THEN <<>> ELSE Contents(heap, Visible(k).results)],
    events  <- [k \in Keys |->
        IF Visible(k) = None THEN <<>> ELSE Newest(Visible(k).events, MaxEvents)]

(***************************************************************************)
(* The memory store is the abstract store too: although the deletion of    *)
(* old keys takes no lock, an insertion and a deletion leave what one of   *)
(* them leaves after the other, and no result is lost or in two places.    *)
(***************************************************************************)
Implements == Abstract!Spec

(***************************************************************************)
(* What a request was given stays what it was while it is sent, although   *)
(* the store goes on appending to and cutting the slice it is a part of,   *)
(* and the slice expression does not panic, whatever was asked for.  It is *)
(* the page that was asked for if page times page size fits an int; if it  *)
(* does not, nothing is said of which page it is: it may be another one.   *)
(***************************************************************************)
AnswersAreStable ==
    \A r \in Readers : answer[r] # None =>
        /\ answer[r].inRange
        /\ answer[r].shown = Shown(heap, answer[r].slice)
        /\ answer[r].fits => answer[r].right
=============================================================================
